------------------------------- MODULE Accept -------------------------------
(***************************************************************************)
(* How a Listener and a Conn come to own a descriptor (listener_linux.go:  *)
(* listen, fileListener, accept; conn_linux.go: fileConn, newConn;         *)
(* socket_linux.go: wrapSocketFile, adoptFile).  Several goroutines call   *)
(* Accept on one Listener, which another closes or gives a deadline;       *)
(* associations end while they are queued and while a Conn is being made   *)
(* of them; any system call may fail; and FileConn makes a Conn of an      *)
(* association that its caller holds by another descriptor.                *)
(*                                                                         *)
(* A step of a maker is one system call.  Waiting is the runtime poller's: *)
(* one Accept at a time is inside raw.Read, by the file's read lock.       *)
(***************************************************************************)
EXTENDS Naturals, Sequences, FiniteSets, Functions

CONSTANTS
  Makers,   \* the goroutines that call Accept, and one of them FileConn once
  Assocs,   \* the associations that peers make with the listener
  Handed,   \* the association on the descriptor FileConn is given
  Nothing   \* no association

ASSUME AcceptAssumption ==
  Handed \notin Assocs /\ Nothing \notin Assocs \cup {Handed}

All == Assocs \cup {Handed}

VARIABLES
  lpc,       \* how far the Listener is, or "closed"
  lfd,       \* the package's descriptor of the listening socket is open
  lorig,     \* the listening socket was inherited: its owner keeps one too
  late,      \* the Listener's deadline has passed
  backlog,   \* the associations waiting to be accepted
  unnamed,   \* the ones among them whose peer address accept4 cannot report
  assoc,     \* assoc[a]: up, or how it ended
  events,    \* events[a]: a's copy of the subscriptions has the package's own
  fds,       \* fds[a]: the package's descriptors of a's socket
  orig,      \* the descriptor FileConn is given is open
  cut,       \* cut[a]: the socket has SO_LINGER 0 and is shut for reading,
             \* and somebody has it open
  asked,     \* FileConn has been called
  pc, cur, ended,  \* each maker: its next step, its association, init's ended
  excused,   \* history: the associations lost to a failed system call, to an
             \* address that cannot be reported, or to the Listener's Close
  conn       \* conn[a]: what the Conn of a knows, and that it was returned

listenVars == <<lpc, lfd, lorig, late>>
kernelVars == <<backlog, unnamed, assoc, events>>
ownVars    == <<fds, orig, cut>>
makerVars  == <<asked, pc, cur, ended>>
vars == <<listenVars, kernelVars, ownVars, makerVars, conn, excused>>

Unknown == [id |-> FALSE, addrs |-> FALSE, given |-> FALSE]

Init ==
  /\ lpc = "none" /\ lfd = FALSE /\ lorig \in BOOLEAN /\ late = FALSE
  /\ backlog = <<>> /\ unnamed = {}
  /\ assoc = [a \in All |-> IF a = Handed THEN "up" ELSE "none"]
  /\ events = [a \in All |-> FALSE]
  /\ fds = [a \in All |-> 0] /\ orig = TRUE /\ cut = [a \in All |-> FALSE]
  /\ asked = FALSE
  /\ pc = [m \in Makers |-> "idle"] /\ cur = [m \in Makers |-> Nothing]
  /\ ended = [m \in Makers |-> FALSE]
  /\ conn = [a \in All |-> Unknown] /\ excused = {}

-----------------------------------------------------------------------------
(* Helpers *)

Goto(m, step) == pc' = [pc EXCEPT ![m] = step]

Return(m) ==
  /\ Goto(m, "idle")
  /\ cur' = [cur EXCEPT ![m] = Nothing]
  /\ ended' = [ended EXCEPT ![m] = FALSE]

\* What close(2) of a socket's last descriptor does to its association.
CloseFd(a, how) ==
  /\ fds' = [fds EXCEPT ![a] = @ - 1]
  /\ assoc' = [assoc EXCEPT ![a] =
       IF @ = "up" /\ fds[a] = 1 /\ ~(a = Handed /\ orig) THEN how ELSE @]

PlainClose(a) == CloseFd(a, "shutdown") /\ UNCHANGED cut

\* SO_LINGER, whose failure leaves a close that starts a SHUTDOWN; the shut
\* for reading; the release.
Abortive(a) ==
  /\ \E how \in {"reset", "shutdown"} : CloseFd(a, how)
  /\ cut' = [cut EXCEPT ![a] = fds[a] > 1 \/ (a = Handed /\ orig)]

\* A step that fails with the error of a system call, and how it releases
\* the socket the maker has.
Fails(m, Close(_)) ==
  /\ excused' = excused \cup {cur[m]}
  /\ Close(cur[m])
  /\ conn' = [conn EXCEPT ![cur[m]] = Unknown]
  /\ Return(m)
  /\ UNCHANGED <<asked, listenVars, backlog, unnamed, events, orig>>

-----------------------------------------------------------------------------
(* The Listener *)

\* listen opens a socket.
Open ==
  /\ lpc = "none" /\ ~lorig
  /\ lpc' = "setup" /\ lfd' = TRUE
  /\ UNCHANGED <<lorig, late, kernelVars, ownVars, makerVars, conn, excused>>

\* fileListener duplicates a listening socket its caller has.
FileListener ==
  /\ lpc = "none" /\ lorig
  /\ lpc' = "setup" /\ lfd' = TRUE
  /\ UNCHANGED <<lorig, late, kernelVars, ownVars, makerVars, conn, excused>>

\* setupListener, or applyConfig for an inherited socket: each of its steps
\* may fail, and then the socket, which has no association, is closed.
SetupListener ==
  /\ lpc = "setup"
  /\ \/ lpc' = "open" /\ UNCHANGED lfd
     \/ lpc' = "none" /\ lfd' = FALSE
  /\ UNCHANGED <<lorig, late, kernelVars, ownVars, makerVars, conn, excused>>

\* Close ends the waits at once; close(2) runs when the last call has left
\* (Destroy).
Close ==
  /\ lpc = "open"
  /\ lpc' = "closed"
  /\ UNCHANGED <<lfd, lorig, late, kernelVars, ownVars, makerVars, conn, excused>>

InRead(m) == pc[m] \in {"accept4", "wait"}

\* The file's descriptor is closed with its last reference: the kernel ends
\* what is queued, unless the socket's owner has it open too.
Destroy ==
  /\ lpc = "closed" /\ lfd /\ ~\E m \in Makers : InRead(m)
  /\ lfd' = FALSE
  /\ IF lorig
       THEN UNCHANGED <<backlog, unnamed, assoc, excused>>
       ELSE /\ backlog' = <<>> /\ unnamed' = {} /\ excused' = excused \cup Range(backlog)
            /\ assoc' = [a \in All |->
                 IF assoc[a] = "up" /\ a \in Range(backlog) THEN "shutdown" ELSE assoc[a]]
  /\ UNCHANGED <<lpc, lorig, late, events, ownVars, makerVars, conn>>

\* The deadline passes, or SetDeadline sets one that has; SetDeadline sets
\* none, or one to come.
SetDeadline ==
  /\ lpc = "open"
  /\ late' = ~late
  /\ UNCHANGED <<lpc, lfd, lorig, kernelVars, ownVars, makerVars, conn, excused>>

-----------------------------------------------------------------------------
(* accept *)

CallAccept(m) ==
  /\ pc[m] = "idle" /\ lpc \in {"open", "closed"}
  /\ Goto(m, "lock")
  /\ UNCHANGED <<cur, ended, asked, listenVars, kernelVars, ownVars, conn, excused>>

\* raw.Read takes the read lock, and does not begin past the deadline.
BeginRead(m) ==
  /\ pc[m] = "lock"
  /\ \/ lpc = "closed" /\ Return(m)
     \/ /\ lpc # "closed" /\ ~\E n \in Makers : InRead(n)
        /\ IF late THEN Return(m)
           ELSE Goto(m, "accept4") /\ UNCHANGED <<cur, ended>>
  /\ UNCHANGED <<asked, listenVars, kernelVars, ownVars, conn, excused>>

\* accept4 and the callback's switch.  An association whose address cannot
\* be reported is dequeued and closed by the kernel: ECONNABORTED, and the
\* callback calls again.
Refused(m) == UNCHANGED <<pc, cur, ended>>

Accept4(m) ==
  /\ pc[m] = "accept4"
  /\ \/ /\ backlog = <<>>
        /\ Goto(m, "wait")
        /\ UNCHANGED <<cur, ended, backlog, unnamed, assoc, fds, excused>>
     \/ /\ Return(m)  \* no descriptor left, or another error of its own
        /\ UNCHANGED <<backlog, unnamed, assoc, fds, excused>>
     \/ /\ backlog # <<>> /\ Head(backlog) \in unnamed
        /\ backlog' = Tail(backlog) /\ unnamed' = unnamed \ {Head(backlog)}
        /\ assoc' = [assoc EXCEPT ![Head(backlog)] = IF @ = "up" THEN "shutdown" ELSE @]
        /\ excused' = excused \cup {Head(backlog)}
        /\ Refused(m)
        /\ UNCHANGED fds
     \/ /\ backlog # <<>> /\ Head(backlog) \notin unnamed
        /\ backlog' = Tail(backlog)
        /\ cur' = [cur EXCEPT ![m] = Head(backlog)]
        /\ fds' = [fds EXCEPT ![Head(backlog)] = @ + 1]
        /\ Goto(m, "wrap")
        /\ UNCHANGED <<ended, unnamed, assoc, excused>>
  /\ UNCHANGED <<events, orig, cut, asked, listenVars, conn>>

\* Mutation: a parked Accept is not woken by Close.
Wait_Deaf(m) ==
  /\ pc[m] = "wait"
  /\ \/ lpc # "closed" /\ late /\ Return(m)
     \/ backlog # <<>> /\ Goto(m, "accept4") /\ UNCHANGED <<cur, ended>>
  /\ UNCHANGED <<asked, listenVars, kernelVars, ownVars, conn, excused>>

\* The poller's wait ends with the file, with its deadline, or when the
\* socket is readable.
Wait(m) ==
  /\ pc[m] = "wait"
  /\ \/ lpc = "closed" /\ Return(m)
     \/ lpc # "closed" /\ late /\ Return(m)
     \/ backlog # <<>> /\ Goto(m, "accept4") /\ UNCHANGED <<cur, ended>>
  /\ UNCHANGED <<asked, listenVars, kernelVars, ownVars, conn, excused>>

-----------------------------------------------------------------------------
(* FileConn, up to newConn *)

CallFileConn(m) ==
  /\ pc[m] = "idle" /\ ~asked
  /\ asked' = TRUE
  /\ Goto(m, "dup")
  /\ UNCHANGED <<cur, ended, listenVars, kernelVars, ownVars, conn, excused>>

\* The duplicate is made while f is held open.
Dup(m) ==
  /\ pc[m] = "dup"
  /\ \/ /\ orig
        /\ fds' = [fds EXCEPT ![Handed] = @ + 1]
        /\ cur' = [cur EXCEPT ![m] = Handed]
        /\ Goto(m, "check") /\ UNCHANGED ended
     \/ /\ Return(m)  \* f is closed, or there is no descriptor left
        /\ UNCHANGED fds
  /\ UNCHANGED <<orig, cut, asked, listenVars, kernelVars, conn, excused>>

\* Mutation: the duplicate of a refused descriptor stays open.
CheckAdoptable_Leak(m) ==
  /\ pc[m] = "check"
  /\ IF assoc[Handed] = "up" THEN Goto(m, "wrap") /\ UNCHANGED <<cur, ended>>
     ELSE Return(m)
  /\ UNCHANGED <<asked, listenVars, kernelVars, ownVars, conn, excused>>

\* checkAdoptable and SetNonblock: the duplicate of a refused descriptor is
\* closed.
CheckAdoptable(m) ==
  /\ pc[m] = "check"
  /\ \/ /\ assoc[Handed] = "up"
        /\ Goto(m, "wrap")
        /\ UNCHANGED <<cur, ended, assoc, fds, cut>>
     \/ /\ assoc[Handed] # "up"
        /\ PlainClose(Handed) /\ Return(m)
  /\ UNCHANGED <<backlog, unnamed, events, orig, asked, listenVars, conn, excused>>

\* A check that cannot be made, for a cause of its own.
CheckFails(m) == pc[m] = "check" /\ Fails(m, PlainClose)

\* The end of adoptFile and accept: wrapSocketFile.
WrapSocketFile(m) ==
  /\ pc[m] = "wrap"
  /\ Goto(m, IF cur[m] = Handed THEN "apply" ELSE "events")
  /\ UNCHANGED <<cur, ended, asked, listenVars, kernelVars, ownVars, conn, excused>>

WrapFails(m) == pc[m] = "wrap" /\ Fails(m, PlainClose)

ApplyConfig(m) ==
  /\ pc[m] = "apply"
  /\ Goto(m, "events")
  /\ UNCHANGED <<cur, ended, asked, listenVars, kernelVars, ownVars, conn, excused>>

ApplyFails(m) == pc[m] = "apply" /\ Fails(m, PlainClose)

-----------------------------------------------------------------------------
(* newConn *)

\* How newConn releases the socket that init failed on.
NewConnClose(m, a) == IF cur[m] = Handed THEN PlainClose(a) ELSE Abortive(a)

InitFails(m) ==
  /\ \/ pc[m] \in {"events", "status"}
     \/ pc[m] = "interleaving" /\ ~ended[m]
  /\ Fails(m, LAMBDA a : NewConnClose(m, a))

\* The package's own events, on the association's copy when it has one.
SetEvents(m) ==
  /\ pc[m] = "events"
  /\ events' = [events EXCEPT ![cur[m]] = @ \/ assoc[cur[m]] = "up"]
  /\ Goto(m, "status")
  /\ UNCHANGED <<backlog, unnamed, assoc, cur, ended, asked, listenVars, ownVars, conn, excused>>

\* Mutation: an association that has ended is an error.
Status_EndFails(m) ==
  /\ pc[m] = "status"
  /\ IF assoc[cur[m]] = "up"
       THEN /\ conn' = [conn EXCEPT ![cur[m]].id = TRUE]
            /\ Goto(m, "interleaving")
            /\ UNCHANGED <<assoc, fds, cut, cur, ended>>
       ELSE NewConnClose(m, cur[m]) /\ Return(m) /\ UNCHANGED conn
  /\ UNCHANGED <<backlog, unnamed, events, orig, asked, listenVars, excused>>

\* Mutation: any error of SCTP_STATUS is taken for the end.
Status_AnyError(m) ==
  /\ pc[m] = "status"
  /\ \E found \in {FALSE, assoc[cur[m]] = "up"} :
       /\ ended' = [ended EXCEPT ![m] = ~found]
       /\ conn' = [conn EXCEPT ![cur[m]].id = found]
  /\ Goto(m, "interleaving")
  /\ UNCHANGED <<cur, asked, listenVars, kernelVars, ownVars, excused>>

\* SCTP_STATUS answers, or finds no association: it has ended.
Status(m) ==
  /\ pc[m] = "status"
  /\ ended' = [ended EXCEPT ![m] = assoc[cur[m]] # "up"]
  /\ conn' = [conn EXCEPT ![cur[m]].id = assoc[cur[m]] = "up"]
  /\ Goto(m, "interleaving")
  /\ UNCHANGED <<cur, asked, listenVars, kernelVars, ownVars, excused>>

HandOver(m) ==
  /\ conn' = [conn EXCEPT ![cur[m]].given = TRUE]
  /\ Return(m)

\* InterleavingSupported: after the end its failure is passed over.
Interleaving(m) ==
  /\ pc[m] = "interleaving"
  /\ IF ended[m] THEN HandOver(m)
     ELSE Goto(m, "laddr") /\ UNCHANGED <<cur, ended, conn>>
  /\ UNCHANGED <<asked, listenVars, kernelVars, ownVars, excused>>

\* refreshSnapshots reads two lists; one that cannot be read, because the
\* association is gone or for any other error, is left empty.
ReadList(m) == {FALSE, assoc[cur[m]] = "up"}

LocalAddrs(m) ==
  /\ pc[m] = "laddr"
  /\ \E known \in ReadList(m) : conn' = [conn EXCEPT ![cur[m]].addrs = known]
  /\ Goto(m, "raddr")
  /\ UNCHANGED <<cur, ended, asked, listenVars, kernelVars, ownVars, excused>>

PeerAddrs(m) ==
  /\ pc[m] = "raddr"
  /\ \E known \in ReadList(m) :
       conn' = [conn EXCEPT ![cur[m]].addrs = @ \/ known, ![cur[m]].given = TRUE]
  /\ Return(m)
  /\ UNCHANGED <<asked, listenVars, kernelVars, ownVars, excused>>

-----------------------------------------------------------------------------
(* The peers, and the owner of the descriptor FileConn is given *)

\* An association is queued with the endpoint's subscriptions, which the
\* former owner of an inherited socket chose.
Arrive(a) ==
  /\ assoc[a] = "none" /\ (lorig \/ (lpc # "setup" /\ lfd))
  /\ assoc' = [assoc EXCEPT ![a] = "up"]
  /\ backlog' = Append(backlog, a)
  /\ unnamed' \in {unnamed, unnamed \cup {a}}
  /\ \E on \in {~lorig, TRUE} : events' = [events EXCEPT ![a] = on]
  /\ UNCHANGED <<listenVars, ownVars, makerVars, conn, excused>>

End(a) ==
  /\ assoc[a] = "up"
  /\ assoc' = [assoc EXCEPT ![a] = "ended"]
  /\ UNCHANGED <<listenVars, backlog, unnamed, events, ownVars, makerVars, conn, excused>>

OwnerCloses ==
  /\ orig /\ orig' = FALSE
  /\ assoc' = [assoc EXCEPT ![Handed] =
       IF @ = "up" /\ fds[Handed] = 0 THEN "shutdown" ELSE @]
  /\ UNCHANGED <<listenVars, backlog, unnamed, events, fds, cut, makerVars, conn, excused>>

-----------------------------------------------------------------------------
AcceptStep(m) == BeginRead(m) \/ Accept4(m) \/ Wait(m)

ConnStep(m) ==
  \/ WrapSocketFile(m) \/ WrapFails(m) \/ InitFails(m)
  \/ SetEvents(m) \/ Status(m) \/ Interleaving(m) \/ LocalAddrs(m) \/ PeerAddrs(m)

AdoptStep(m) ==
  Dup(m) \/ CheckAdoptable(m) \/ CheckFails(m) \/ ApplyConfig(m) \/ ApplyFails(m)

Environment ==
  \/ \E a \in All : Arrive(a) \/ End(a)
  \/ OwnerCloses

Next ==
  \/ Open \/ FileListener \/ SetupListener \/ Close \/ Destroy \/ SetDeadline
  \/ \E m \in Makers : CallAccept(m) \/ CallFileConn(m)
  \/ \E m \in Makers : AcceptStep(m) \/ AdoptStep(m) \/ ConnStep(m)
  \/ Environment

Spec == Init /\ [][Next]_vars

\* Goroutines run; the read lock is handed to a waiter in the end.
FairSpec ==
  /\ Spec
  /\ \A m \in Makers :
       /\ SF_vars(BeginRead(m))
       /\ WF_vars(Accept4(m) \/ Wait(m) \/ AdoptStep(m) \/ ConnStep(m))
  /\ WF_vars(Destroy)

-----------------------------------------------------------------------------
(* Properties *)

\* Every descriptor has one owner: a call that is still making a Conn of it,
\* or the Conn.  On no path of accept, adoptFile, wrapSocketFile and newConn
\* is one leaked, closed twice, or closed and handed out.  And a FileConn that
\* fails, or is refused, leaves the socket to the owner of f as it was: not shut
\* for reading, no ABORT waiting for f's close, and the association ended by
\* nobody but its peer while f is open.
OneOwner ==
  /\ \A a \in All :
       fds[a] = Cardinality({m \in Makers : cur[m] = a}) + (IF conn[a].given THEN 1 ELSE 0)
  /\ lfd => lpc # "none"
  /\ ~conn[Handed].given =>
       /\ ~cut[Handed]
       /\ orig => assoc[Handed] \in {"up", "ended"}

\* No association is lost for having ended: one that accept4 dequeued becomes
\* a Conn though it ends at any point before Accept returns, since the peer's
\* data may be waiting on it.  What is lost without a Conn is lost to a system
\* call that failed by itself, to an address that cannot be reported, or to
\* the close of the Listener.
EndLosesNothing ==
  \A a \in Assocs : assoc[a] # "none" =>
    \/ a \in Range(backlog) \cup Range(cur) \cup excused
    \/ conn[a].given

\* A Conn that is returned of a live association knows its id and has the
\* package's own events, whoever queued it with whatever subscriptions; and
\* one that found its association ended claims no addresses.
LiveConnIsWhole ==
  \A a \in All : conn[a].given =>
    /\ assoc[a] = "up" => conn[a].id /\ events[a]
    /\ conn[a].addrs => conn[a].id

\* Close ends every Accept, the one parked in the poller and the ones queued
\* behind its read lock, also while associations are being refused.
CloseEndsAccept ==
  \A m \in Makers : (pc[m] # "idle" /\ lpc = "closed") ~> (pc[m] = "idle")

=============================================================================
