------------------------------ MODULE AssocEnd ------------------------------
(***************************************************************************)
(* How the calls of one Conn learn that its association is over            *)
(* (term_linux.go: termState, with the recvmsg of recv_linux.go and the    *)
(* sendmsg of send_linux.go and close_linux.go that feed it).  Linux hands *)
(* the error of a failed association to one call only, and marks nothing   *)
(* on the socket after some graceful ends; the latch makes every later     *)
(* call see the same end.                                                  *)
(*                                                                         *)
(* A step is one critical section of termState.mu, around one system call. *)
(***************************************************************************)
EXTENDS Naturals, Sequences, FiniteSets

CONSTANTS
  Readers, Senders,  \* goroutines that read, and that send
  MaxArrivals        \* how much data and how many notifications arrive

Procs == Readers \cup Senders
NoOne == "nobody"

ASSUME EndAssumption ==
  NoOne \notin Procs /\ Readers \cap Senders = {} /\ MaxArrivals \in Nat

\* What isAssocFailure recognises, and what the package latches on top of it.
Failures == {"ECONNRESET", "ETIMEDOUT", "ECONNABORTED"}
Verdicts == Failures \cup {"ENOTCONN"}

VARIABLES
  termErr, failed, ended, drained,  \* termState
  rlock,     \* the holder of recv.mu
  pc,        \* each goroutine's next step
  ret,       \* the call that has just returned, and what it returned
  life,      \* the Close or Abort of this Conn: "open" ... "released"
  peeled,    \* the socket was peeled off an Endpoint
  queue,     \* the receive queue: data and notification records, in order
  skErr,     \* the pending socket error
  rcvShut,   \* the socket is shut for reading
  assoc,     \* "up", "shutting", "gone"
  arrivals,
  failure,   \* history: the error Linux set for the failure, or "none"
  outside,   \* history: that error was taken, or left, outside the package
  reported   \* history: every association failure a call has reported

termVars == <<termErr, failed, ended, drained>>
callVars == <<rlock, pc, ret, reported>>
kernVars == <<queue, skErr, rcvShut, assoc, arrivals, failure, outside>>
vars == <<termVars, callVars, kernVars, life, peeled>>

NoReturn == <<NoOne, "nil">>

\* A Conn starts on a live association, or on one that failed before Accept:
\* its error then stayed with the listening socket.
Init ==
  /\ termErr = "nil" /\ failed = FALSE /\ ended = FALSE /\ drained = FALSE
  /\ rlock = NoOne
  /\ pc = [p \in Procs |-> "idle"] /\ ret = NoReturn
  /\ reported = {}
  /\ life = "open" /\ peeled \in BOOLEAN
  /\ skErr = "none" /\ rcvShut = FALSE /\ arrivals = 0
  /\ \/ queue = <<>> /\ assoc = "up" /\ failure = "none" /\ outside = FALSE
     \/ /\ ~peeled
        /\ queue = <<"lost">> /\ assoc = "gone" /\ outside = TRUE
        /\ failure \in Failures

Goto(p, from, to) ==
  /\ pc[p] = from
  /\ pc' = [pc EXCEPT ![p] = to] /\ ret' = NoReturn
  /\ UNCHANGED <<rlock, reported>>

\* p returns r, and gives recv.mu up if it is a reader.
Return(p, from, r) ==
  /\ pc[p] = from
  /\ pc' = [pc EXCEPT ![p] = "idle"]
  /\ ret' = <<p, r>>
  /\ reported' = reported \cup ({r} \cap Verdicts)
  /\ rlock' = IF p \in Readers THEN NoOne ELSE rlock

\* Mutation: what the system call found is reported as it is.
ReadEnded_AsFound(r) == r

\* readEnded: a connection that is being closed says so.
ReadEnded(r) == IF life = "open" THEN r ELSE "ErrClosed"

-----------------------------------------------------------------------------
(* termState *)

\* storeLocked: the latch after a system call returned e.
StoreLocked(e) == IF termErr = "nil" /\ e \in Failures THEN e ELSE termErr

\* Mutation: a send reports the failure it took without latching it.
SendLatch_NoStore(e) ==
  IF e = "EPIPE" /\ termErr = "nil" /\ failed THEN "ENOTCONN" ELSE termErr

\* sendErrorLocked: the latch after a sendmsg that returned e, and the result.
SendLatch(e) ==
  IF e = "EPIPE" /\ termErr = "nil" /\ failed THEN "ENOTCONN" ELSE StoreLocked(e)
SendResult(e) == IF e = "EPIPE" /\ SendLatch(e) # "nil" THEN SendLatch(e) ELSE e

\* readErrorLocked: the same for a recvmsg that found no record.
ReadLatch(e) ==
  IF StoreLocked(e) = "nil" /\ failed /\ e \in {"EAGAIN", "EOF"} THEN "ENOTCONN"
  ELSE StoreLocked(e)

\* Mutation: a graceful end seen does not matter.
ReadResult_NoEnded(e) ==
  IF ReadLatch(e) # "nil" THEN ReadLatch(e) ELSE e

ReadResult(e) ==
  IF ReadLatch(e) # "nil" THEN ReadLatch(e)
  ELSE IF ended /\ e = "EAGAIN" THEN "EOF" ELSE e

-----------------------------------------------------------------------------
(* Reads: Read, RecvMsg and ReadMsg under recv.mu *)

ReadCall(r) == Goto(r, "idle", "lock") /\ UNCHANGED <<termVars, kernVars, life, peeled>>

Lock(r) ==
  /\ rlock = NoOne
  /\ rlock' = r
  /\ pc[r] = "lock"
  /\ pc' = [pc EXCEPT ![r] = "readEnd"] /\ ret' = NoReturn
  /\ UNCHANGED <<reported, termVars, kernVars, life, peeled>>

\* Mutation: a latched error ends reads at once.
ReadEnd_Early(r) ==
  /\ \/ termErr # "nil" /\ Return(r, "readEnd", ReadEnded(termErr))
     \/ termErr = "nil" /\ ended /\ Return(r, "readEnd", ReadEnded("EOF"))
     \/ termErr = "nil" /\ ~ended /\ Goto(r, "readEnd", "recvmsg")
  /\ UNCHANGED <<termVars, kernVars, life, peeled>>

\* readEnd: the end is reported without a system call once nothing is left.
ReadEnd(r) ==
  /\ \/ drained /\ Return(r, "readEnd", ReadEnded(termErr))
     \/ ~drained /\ ended /\ Return(r, "readEnd", ReadEnded("EOF"))
     \/ ~drained /\ ~ended /\ Goto(r, "readEnd", "recvmsg")
  /\ UNCHANGED <<termVars, kernVars, life, peeled>>

\* A record from the head of the queue.  Data is returned.  A notification is
\* returned too, or dropped, and then recvNext looks at the latch again while
\* ReadMsg stays in its callback.
RecvRecord(r) ==
  /\ life # "released"
  /\ queue # <<>>
  /\ queue' = Tail(queue)
  /\ \/ Return(r, "recvmsg", Head(queue))
     \/ Head(queue) # "data" /\ \E to \in {"readEnd", "recvmsg"} : Goto(r, "recvmsg", to)
  /\ failed' = (failed \/ Head(queue) = "lost")
  /\ ended' = (ended \/ Head(queue) = "complete")
  /\ UNCHANGED <<termErr, drained, skErr, rcvShut, assoc, arrivals, failure,
                 outside, life, peeled>>

\* No record: the pending error, the end of a socket shut for reading, or
\* EAGAIN, on which the read parks if the latch leaves it standing.
RecvNothing(r) ==
  /\ life # "released"
  /\ queue = <<>>
  /\ LET e == IF skErr # "none" THEN skErr ELSE IF rcvShut THEN "EOF" ELSE "EAGAIN"
     IN /\ termErr' = ReadLatch(e)
        /\ drained' = (drained \/ ReadLatch(e) # "nil")
        /\ IF ReadResult(e) = "EAGAIN" THEN Goto(r, "recvmsg", "park")
           ELSE Return(r, "recvmsg", ReadEnded(ReadResult(e)))
  /\ skErr' = "none"
  /\ UNCHANGED <<failed, ended, queue, rcvShut, assoc, arrivals, failure, outside,
                 life, peeled>>

\* The poller runs the callback again when the socket is readable.
Readable == queue # <<>> \/ skErr # "none" \/ rcvShut

Wake(r) ==
  /\ Readable /\ life # "released"
  /\ Goto(r, "park", "recvmsg")
  /\ UNCHANGED <<termVars, kernVars, life, peeled>>

\* raw.Read fails: the descriptor is released.
RawReadFails(r) ==
  /\ life = "released"
  /\ \E from \in {"recvmsg", "park"} : Return(r, from, "ErrClosed")
  /\ UNCHANGED <<termVars, kernVars, life, peeled>>

\* The read deadline passes while the read is parked.
ReadTimeout(r) ==
  /\ Return(r, "park", ReadEnded("deadline"))
  /\ UNCHANGED <<termVars, kernVars, life, peeled>>

-----------------------------------------------------------------------------
(* Sends: the latch before the send lock, then sendOnce *)

SendCall(s) == Goto(s, "idle", "latched") /\ UNCHANGED <<termVars, kernVars, life, peeled>>

Latched(s) ==
  /\ \/ termErr # "nil" /\ Return(s, "latched", termErr)
     \/ termErr = "nil" /\ Goto(s, "latched", "sendmsg")
  /\ UNCHANGED <<termVars, kernVars, life, peeled>>

\* What sendmsg answers: sctp_error turns EPIPE into the pending error.
SendErrno ==
  IF assoc = "up" THEN "nil" ELSE IF assoc = "shutting" THEN "ESHUTDOWN"
  ELSE IF skErr # "none" THEN skErr ELSE "EPIPE"

\* A send with a Path to an association that is gone is made again without it,
\* and so ends the same way.
SendOnce(s) ==
  /\ \/ life = "released" /\ Return(s, "sendmsg", "ErrClosed") /\ UNCHANGED <<termErr, skErr>>
     \/ /\ life # "released" /\ termErr # "nil"
        /\ Return(s, "sendmsg", termErr)
        /\ UNCHANGED <<termErr, skErr>>
     \/ /\ life # "released" /\ termErr = "nil"
        /\ Return(s, "sendmsg", SendResult(SendErrno))
        /\ termErr' = SendLatch(SendErrno)
        /\ skErr' = IF assoc = "gone" THEN "none" ELSE skErr
  /\ UNCHANGED <<failed, ended, drained, queue, rcvShut, assoc, arrivals, failure,
                 outside, life, peeled>>

\* startShutdown: shutdown(2) on a one-to-one socket; on a peeled one sendEOF,
\* which goes through the latch as every send does.
StartShutdown ==
  /\ life \in {"open", "closing"}
  /\ assoc' = IF assoc = "up" THEN "shutting" ELSE assoc
  /\ IF peeled /\ assoc = "gone" /\ termErr = "nil"
     THEN termErr' = SendLatch(SendErrno) /\ skErr' = "none"
     ELSE UNCHANGED <<termErr, skErr>>
  /\ UNCHANGED <<failed, ended, drained, callVars, queue, rcvShut, arrivals,
                 failure, outside, life, peeled>>

\* Close and Abort: the state moves, an abortive close shuts the socket for
\* reading, and the descriptor is released.
CloseStep ==
  /\ \/ life = "open" /\ life' = "closing" /\ UNCHANGED rcvShut
     \/ life = "closing" /\ life' = "shutRd" /\ rcvShut' = TRUE
     \/ life \in {"closing", "shutRd"} /\ life' = "released" /\ UNCHANGED rcvShut
  /\ UNCHANGED <<termVars, callVars, queue, skErr, assoc, arrivals, failure,
                 outside, peeled>>

-----------------------------------------------------------------------------
(* The kernel and the peer *)

Arrive(x) ==
  /\ assoc # "gone" /\ ~rcvShut /\ arrivals < MaxArrivals
  /\ arrivals' = arrivals + 1
  /\ queue' = Append(queue, x)
  /\ UNCHANGED <<termVars, callVars, skErr, rcvShut, assoc, failure, outside,
                 life, peeled>>

\* The peer's SHUTDOWN shuts a one-to-one socket for reading.
PeerShutdown ==
  /\ assoc = "up"
  /\ assoc' = "shutting"
  /\ rcvShut' = (rcvShut \/ ~peeled)
  /\ UNCHANGED <<termVars, callVars, queue, skErr, arrivals, failure, outside,
                 life, peeled>>

\* Every end queues one record; a failure also sets the socket error.
Complete ==
  /\ assoc = "shutting"
  /\ assoc' = "gone"
  /\ queue' = Append(queue, "complete")
  /\ UNCHANGED <<termVars, callVars, skErr, rcvShut, arrivals, failure, outside,
                 life, peeled>>

Fail(e) ==
  /\ assoc # "gone"
  /\ assoc' = "gone"
  /\ queue' = Append(queue, "lost")
  /\ skErr' = e /\ failure' = e
  /\ UNCHANGED <<termVars, callVars, rcvShut, arrivals, outside, life, peeled>>

\* Someone reads SO_ERROR through SyscallConn.
TakeError ==
  /\ skErr # "none"
  /\ skErr' = "none" /\ outside' = TRUE
  /\ UNCHANGED <<termVars, callVars, queue, rcvShut, assoc, arrivals, failure,
                 life, peeled>>

ReadStep(r) ==
  \/ ReadEnd(r) \/ RecvRecord(r) \/ RecvNothing(r) \/ Wake(r) \/ RawReadFails(r)

Next ==
  \/ \E r \in Readers : ReadCall(r) \/ Lock(r) \/ ReadStep(r) \/ ReadTimeout(r)
  \/ \E s \in Senders : SendCall(s) \/ Latched(s) \/ SendOnce(s)
  \/ StartShutdown \/ CloseStep
  \/ \E x \in {"data", "note"} : Arrive(x)
  \/ PeerShutdown \/ Complete \/ TakeError
  \/ \E e \in Failures : Fail(e)

Spec == Init /\ [][Next]_vars

\* Goroutines that can run do run, and recv.mu, a sync.Mutex, is not kept from
\* a waiter for ever.  No deadline and no close is owed to a parked read.
Fairness ==
  \A r \in Readers : WF_vars(ReadStep(r)) /\ SF_vars(Lock(r))

FairSpec == Spec /\ Fairness

-----------------------------------------------------------------------------
(* Properties *)

\* Every variable has its type; the latch holds nothing but a failure.
TypeOK ==
  /\ termErr \in Verdicts \cup {"nil"}
  /\ {failed, ended, drained, peeled, rcvShut, outside} \subseteq BOOLEAN
  /\ rlock \in Readers \cup {NoOne}
  /\ pc \in [Procs -> {"idle", "lock", "readEnd", "recvmsg", "park", "latched", "sendmsg"}]
  /\ ret \in (Procs \cup {NoOne}) \X (Verdicts \cup {"nil", "data", "note", "lost",
               "complete", "EOF", "EPIPE", "ESHUTDOWN", "ErrClosed", "deadline"})
  /\ life \in {"open", "closing", "shutRd", "released"}
  /\ queue \in Seq({"data", "note", "lost", "complete"})
  /\ skErr \in Failures \cup {"none"}
  /\ assoc \in {"up", "shutting", "gone"}
  /\ arrivals \in 0..MaxArrivals
  /\ failure \in Failures \cup {"none"}
  /\ reported \subseteq Verdicts

\* p's call returns in this step, with r.
Returns(p, r) == pc[p] # "idle" /\ pc'[p] = "idle" /\ ret' = <<p, r>>

\* A read that reports the end of the association, by the latched error or by
\* io.EOF, leaves nothing unread: what Linux queued before the end is read
\* first, also when a send has taken the error already.
NothingLeftUnread ==
  [][\A r \in Readers, e \in Verdicts \cup {"EOF"} : Returns(r, e) => queue = <<>>]_vars

\* All calls agree on the failure: at most one error is ever reported for it,
\* by reads and sends together, and it is the one Linux set, or ENOTCONN where
\* that one was out of the package's reach.
VerdictAgreed ==
  /\ Cardinality(reported) <= 1
  /\ reported \subseteq {failure} \cup (IF outside THEN {"ENOTCONN"} ELSE {})

\* A graceful end is a real one.  io.EOF is never returned once the association
\* has failed, nor while it is up, although the abortive close shuts the socket
\* for reading and wakes a parked read with a zero-length result.  EPIPE is not
\* returned for a failed association, unless its error was taken outside and the
\* record that tells of the failure is still unread.
GracefulEndIsReal ==
  [][/\ \A r \in Readers : Returns(r, "EOF") => failure = "none" /\ assoc # "up"
     /\ \A s \in Senders : Returns(s, "EPIPE") => failure = "none" \/ (outside /\ ~failed)]_vars

\* Every read of an association that is over returns, without a deadline and
\* without a close.
EndedReadReturns ==
  \A r \in Readers : assoc = "gone" /\ pc[r] # "idle" ~> pc[r] = "idle"
=============================================================================
