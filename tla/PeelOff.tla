------------------------------ MODULE PeelOff ------------------------------
(***************************************************************************)
(* Endpoint.PeelOff beside Endpoint.RecvMsg (endpoint_linux.go).  The      *)
(* kernel moves the queued records of a peeled association to its new      *)
(* socket, also the rest of a record that RecvMsg has begun to read, and   *)
(* moves the association before it allocates the new descriptor.  The lock *)
(* recordMu keeps a peel-off out of a receive callback, and one peel-off   *)
(* out of another.                                                         *)
(*                                                                         *)
(* A step is one system call or one lock operation.  Readers take turns    *)
(* under the receive lock, so there is one.                                *)
(***************************************************************************)
EXTENDS Part, Naturals, Sequences, FiniteSets

CONSTANTS
  Peelers,     \* the goroutines that call PeelOff
  Assocs,      \* the associations of the endpoint
  Pieces,      \* the reads that one queued record takes
  MaxRecords,  \* the records that arrive in one behaviour
  FreeLimit    \* the descriptors the process may still open

Unheld == "no one"
Reader == "the reader"

\* What the constants are assumed to be.
ASSUME PeelAssumption ==
  /\ {Unheld, Reader} \cap Peelers = {}
  /\ Pieces \in Nat \ {0} /\ MaxRecords \in Nat /\ FreeLimit \in Nat

VARIABLES
  recordMu,
  live,      \* the endpoint's descriptor is open
  where,     \* where[a]: the association's socket, or how it ended
  queue,     \* the endpoint's receive queue, and how many records arrived
  arrived,
  rpc,       \* the reader's next step
  acc,       \* notes: the pieces of the record the reader is reading
  got,       \* the pieces of the record RecvMsg returned last
  cut,       \* history: a record was cut short
  peeling, arg, peeled,  \* each PeelOff: its next step, its association, its result
  free, others,  \* descriptors left, and those other goroutines have taken
  raced      \* history: one was taken between a check and its peel-off

recvVars == <<rpc, acc, got, cut>>
peelVars == <<peeling, arg, peeled>>
spareVars   == <<free, others, raced>>
peelOffVars == <<recordMu, live, where, queue, arrived, recvVars, peelVars, spareVars>>

PeelInit ==
  /\ recordMu = Unheld /\ live = TRUE
  /\ where \in [Assocs -> {"setup", "endpoint"}]
  /\ queue = <<>> /\ arrived = 0
  /\ rpc = "idle" /\ acc = <<>> /\ got = <<>> /\ cut = FALSE
  /\ peeling = [p \in Peelers |-> "idle"]
  /\ arg \in [Peelers -> Assocs]
  /\ peeled = [p \in Peelers |-> "none"]
  /\ free = FreeLimit /\ others = 0 /\ raced = FALSE

-----------------------------------------------------------------------------
(* RecvMsg: recvNext and recvAttempt *)

recvFrame == UNCHANGED <<live, where, arrived, peelVars, spareVars>>

RecvMsg ==
  /\ rpc = "idle" /\ live
  /\ rpc' = "attempt" /\ got' = <<>>
  /\ UNCHANGED <<recordMu, queue, acc, cut>> /\ recvFrame

\* raw.Read runs the callback, which takes recordMu; on a released descriptor
\* raw.Read fails.
RecvAttempt ==
  /\ \/ rpc = "attempt" /\ recordMu = Unheld /\ live /\ recordMu' = Reader /\ rpc' = "recvmsg"
     \/ rpc \in {"attempt", "wait"} /\ ~live /\ recordMu' = recordMu /\ rpc' = "idle"
  /\ UNCHANGED <<queue, acc, got, cut>> /\ recvFrame

\* What one recvmsg leaves of the queue: the rest of a record stays its head.
Rest ==
  LET h == Head(queue) IN
    IF h.part = Pieces THEN Tail(queue)
    ELSE <<[h EXCEPT !.part = @ + 1]>> \o Tail(queue)

Unlock == IF recordMu = Reader THEN Unheld ELSE recordMu

\* A piece of a notification: the callback reads on until its last.
RecvNote ==
  /\ rpc = "recvmsg" /\ queue # <<>> /\ Head(queue).kind = "note"
  /\ queue' = Rest
  /\ \/ /\ Head(queue).part < Pieces
        /\ acc' = Append(acc, Head(queue))
        /\ UNCHANGED <<recordMu, rpc, got>>
     \/ /\ Head(queue).part = Pieces
        /\ got' = Append(acc, Head(queue))
        /\ acc' = <<>> /\ recordMu' = Unlock /\ rpc' = "idle"
  /\ UNCHANGED cut /\ recvFrame

\* abortInterruptedNotification: a record that is cut short, because what comes
\* next is not its next piece, aborts the endpoint.
AbortIf(c) ==
  /\ cut' = (cut \/ c) /\ acc' = <<>>
  /\ live' = (live /\ ~c)
  /\ where' = [a \in Assocs |->
                 IF c /\ where[a] \in {"setup", "endpoint"} THEN "ended"
                 ELSE where[a]]

\* A piece of data is returned as it is.
RecvData ==
  /\ rpc = "recvmsg" /\ queue # <<>> /\ Head(queue).kind = "data"
  /\ queue' = Rest
  /\ AbortIf(acc # <<>>)
  /\ recordMu' = Unlock /\ rpc' = "idle"
  /\ UNCHANGED <<got, arrived, peelVars, spareVars>>

\* Mutation: the lock is kept while raw.Read waits.
RecvEmpty_Held ==
  /\ rpc = "recvmsg" /\ queue = <<>>
  /\ AbortIf(acc # <<>>)
  /\ rpc' = (IF acc = <<>> THEN "wait" ELSE "idle") /\ recordMu' = recordMu
  /\ UNCHANGED <<queue, got, arrived, peelVars, spareVars>>

\* EAGAIN: the callback ends, and raw.Read waits without the lock.
RecvEmpty ==
  /\ rpc = "recvmsg" /\ queue = <<>>
  /\ AbortIf(acc # <<>>)
  /\ rpc' = (IF acc = <<>> THEN "wait" ELSE "idle") /\ recordMu' = Unlock
  /\ UNCHANGED <<queue, got, arrived, peelVars, spareVars>>

RecvWake ==
  /\ rpc = "wait" /\ live /\ queue # <<>>
  /\ rpc' = "attempt"
  /\ UNCHANGED <<recordMu, queue, acc, got, cut>> /\ recvFrame

-----------------------------------------------------------------------------
(* PeelOff *)

peelFrame == UNCHANGED <<live, arrived, recvVars, arg, others, raced>>

PeelGoto(p, from, to) ==
  /\ peeling[p] = from
  /\ peeling' = [peeling EXCEPT ![p] = to]
  /\ UNCHANGED peeled
\* A call returns a Conn, or an error after which its goroutine may call again.
PeelReturn(p, from, r) ==
  /\ peeling[p] = from
  /\ peeling' = [peeling EXCEPT ![p] = "idle"]
  /\ peeled' = [peeled EXCEPT ![p] = IF r = "conn" THEN r ELSE "none"]

PeelCall(p, a) ==
  /\ live /\ peeling[p] = "idle" /\ peeled[p] # "conn"
  /\ peeling' = [peeling EXCEPT ![p] = "lock"]
  /\ arg' = [arg EXCEPT ![p] = a]
  /\ UNCHANGED <<peeled, recordMu, live, where, queue, arrived, recvVars, spareVars>>

\* Mutation: nothing keeps the peel-off out of a receive callback.
PeelLock_None(p) ==
  /\ PeelGoto(p, "lock", "status") /\ live
  /\ UNCHANGED <<recordMu, where, queue, free>> /\ peelFrame

\* recordMu, and raw.Control, which fails once the descriptor is released.
PeelLock(p) ==
  /\ recordMu = Unheld
  /\ \/ live /\ recordMu' = p /\ PeelGoto(p, "lock", "status")
     \/ ~live /\ recordMu' = recordMu /\ PeelReturn(p, "lock", "ErrClosed")
  /\ UNCHANGED <<where, queue, free>> /\ peelFrame

PeelRelease(p) == recordMu' = IF recordMu = p THEN Unheld ELSE recordMu

\* SCTP_STATUS and checkPeelOffState.
PeelStatus(p) ==
  /\ \/ where[arg[p]] = "endpoint" /\ PeelGoto(p, "status", "spare") /\ recordMu' = recordMu
     \/ where[arg[p]] = "setup" /\ PeelReturn(p, "status", "EINPROGRESS") /\ PeelRelease(p)
     \/ /\ where[arg[p]] \notin {"setup", "endpoint"}
        /\ PeelReturn(p, "status", "EINVAL") /\ PeelRelease(p)
  /\ UNCHANGED <<where, queue, free>> /\ peelFrame

\* Mutation: the peel-off is made without looking for a descriptor.
Spare_Unchecked(p) ==
  /\ PeelGoto(p, "spare", "peel")
  /\ UNCHANGED <<recordMu, where, queue, free>> /\ peelFrame

\* A descriptor is taken and given back.
Spare(p) ==
  /\ \/ free > 0 /\ PeelGoto(p, "spare", "peel") /\ recordMu' = recordMu
     \/ free = 0 /\ PeelReturn(p, "spare", "EMFILE") /\ PeelRelease(p)
  /\ UNCHANGED <<where, queue, free>> /\ peelFrame

\* The records of an association leave the queue, and the others stay in order.
Moves(a) ==
  LET stays == {i \in DOMAIN queue : queue[i].assoc # a} IN
    \E n \in 0..Len(queue) : \E place \in [1..n -> stays] :
      /\ \A i, j \in 1..n : i < j => place[i] < place[j]
      /\ \A k \in stays : \E i \in 1..n : place[i] = k
      /\ queue' = [i \in 1..n |-> queue[place[i]]]

\* SCTP_SOCKOPT_PEELOFF_FLAGS.  The kernel moves the association and what is
\* queued for it, and then takes a descriptor for it, or releases it with its
\* new socket: without a descriptor (EMFILE), or without a file (ENFILE).
Peel(p) ==
  LET a == arg[p] IN
    /\ \/ /\ where[a] = "endpoint" /\ free > 0
          /\ Moves(a)
          /\ where' = [where EXCEPT ![a] = "conn"]
          /\ free' = free - 1
          /\ PeelGoto(p, "peel", "newConn")
       \/ /\ where[a] = "endpoint"
          /\ Moves(a)
          /\ where' = [where EXCEPT ![a] = IF free = 0 THEN "EMFILE" ELSE "ENFILE"]
          /\ PeelReturn(p, "peel", where'[a])
          /\ UNCHANGED free
       \/ /\ where[a] # "endpoint"
          /\ PeelReturn(p, "peel", "EINVAL")
          /\ UNCHANGED <<where, queue, free>>
    /\ PeelRelease(p) /\ peelFrame

\* wrapSocketFile and newConn: each closes the descriptor when it fails, and
\* the association is lost.
PeeledConn(p) ==
  /\ \/ PeelReturn(p, "newConn", "conn") /\ UNCHANGED <<where, free>>
     \/ /\ PeelReturn(p, "newConn", "error")
        /\ where' = [where EXCEPT ![arg[p]] = "init"]
        /\ free' = free + 1
  /\ UNCHANGED <<recordMu, queue>> /\ peelFrame

-----------------------------------------------------------------------------
(* The kernel, the peers and the rest of the process *)

sysFrame == UNCHANGED <<recordMu, recvVars, peelVars>>

Arrive(a, k) ==
  /\ live /\ where[a] = "endpoint" /\ arrived < MaxRecords
  /\ arrived' = arrived + 1
  /\ queue' = Append(queue, [assoc |-> a, n |-> arrived', kind |-> k, part |-> 1])
  /\ UNCHANGED <<live, where, spareVars>> /\ sysFrame

Established(a) ==
  /\ where[a] = "setup" /\ where' = [where EXCEPT ![a] = "endpoint"]
  /\ UNCHANGED <<live, queue, arrived, spareVars>> /\ sysFrame

\* An association of the endpoint ends; its records stay queued.
Ends(a) ==
  /\ where[a] \in {"setup", "endpoint"} /\ where' = [where EXCEPT ![a] = "ended"]
  /\ UNCHANGED <<live, queue, arrived, spareVars>> /\ sysFrame

\* Close or Abort: the descriptor is closed once no callback holds it.
CloseEndpoint ==
  /\ live /\ rpc # "recvmsg" /\ \A p \in Peelers : peeling[p] \in {"idle", "lock", "newConn"}
  /\ live' = FALSE /\ queue' = <<>>
  /\ where' = [a \in Assocs |->
                 IF where[a] \in {"setup", "endpoint"} THEN "ended" ELSE where[a]]
  /\ UNCHANGED <<arrived, spareVars>> /\ sysFrame

\* Other goroutines open and close files.
TakeFD ==
  /\ free > 0
  /\ free' = free - 1 /\ others' = others + 1
  /\ raced' = (raced \/ \E p \in Peelers : peeling[p] = "peel")
  /\ UNCHANGED <<live, where, queue, arrived>> /\ sysFrame
GiveFD ==
  /\ others > 0
  /\ free' = free + 1 /\ others' = others - 1
  /\ UNCHANGED <<raced, live, where, queue, arrived>> /\ sysFrame

RecvStep == RecvAttempt \/ RecvNote \/ RecvData \/ RecvEmpty \/ RecvWake
PeelStep(p) == PeelLock(p) \/ PeelStatus(p) \/ Spare(p) \/ Peel(p) \/ PeeledConn(p)

\* The endpoint is closed and every call has returned.
Finished ==
  /\ ~live /\ rpc = "idle" /\ \A p \in Peelers : peeling[p] = "idle"
  /\ UNCHANGED peelOffVars

PeelNext ==
  \/ RecvMsg \/ RecvStep
  \/ \E p \in Peelers : PeelStep(p) \/ \E a \in Assocs : PeelCall(p, a)
  \/ \E a \in Assocs : Established(a) \/ Ends(a) \/ \E k \in {"note", "data"} : Arrive(a, k)
  \/ CloseEndpoint \/ TakeFD \/ GiveFD \/ Finished

PeelSpec ==
  /\ part = "peelOff" /\ PeelInit
  /\ [][PeelNext /\ UNCHANGED part]_<<part, peelOffVars>>

-----------------------------------------------------------------------------
(* Properties *)

\* A record RecvMsg returns is one notification, whole and in order, and none is
\* cut short: a peel-off never takes the rest of a record away between two reads
\* of the callback, so that another association's record is read as the rest of
\* this one, or that the reader's defensive path aborts the whole endpoint.
RecordWhole ==
  part = "peelOff" =>
    /\ \A i \in 1..Len(got) :
         got[i].part = i /\ got[i].n = got[1].n /\ Len(got) = Pieces
    /\ ~cut

\* A peel-off costs an association for want of a descriptor only when another
\* goroutine took the last one between the check and the peel-off; in
\* particular two concurrent peel-offs do not cost each other's association.
LostOnlyInRace ==
  part = "peelOff" => ((\E a \in Assocs : where[a] = "EMFILE") => raced)

\* Whoever has recordMu can go on without the peer: it is never held by a reader
\* that is parked in raw.Read, or by a call that has returned, so a PeelOff does
\* not wait for a record to arrive.
HolderRuns ==
  part = "peelOff" =>
    /\ recordMu = Reader => rpc = "recvmsg"
    /\ \A p \in Peelers : recordMu = p => peeling[p] \in {"status", "spare", "peel"}
=============================================================================
