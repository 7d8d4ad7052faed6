-------------------------------- MODULE Dial --------------------------------
(***************************************************************************)
(* Config.Dial (dial_linux.go): one socket per attempt, set up, connected  *)
(* and waited for in the runtime poller, under a context that may end at   *)
(* any time.  awaitEstablished looks at the socket with three system calls *)
(* (SO_ERROR, SCTP_STATUS, a peek), and the kernel moves between any two   *)
(* of them.  A setup that turns out to run from the socket to itself is    *)
(* aborted and started over.                                               *)
(*                                                                         *)
(* A step is one system call, one poller operation or one step of the      *)
(* context's callback.                                                     *)
(***************************************************************************)
EXTENDS Naturals

CONSTANT maxSelfConnectRetries

ASSUME DialAssumption == maxSelfConnectRetries \in Nat

VARIABLES
  \* The call: its next step, the result it is going to return, whether laddr
  \* left the port to the kernel, and the attempts it has started over.
  pc, res, guard, retries,
  \* awaitEstablished: what its looks found, and the error of raw.Read.
  verdict, waitErr,
  \* The context and the callback AfterFunc registered for this attempt:
  \* "none", "armed", "stopped", "started", "moved" the deadline, "closed"
  \* the channel.
  ctx, fn,
  \* The descriptor: its read deadline, the poller's state, and the kernel's
  \* readiness change that the poller has not collected yet.
  fdDeadline, poll, edge,
  \* The socket: its association, whether that one is with itself, SO_ERROR,
  \* the head of the receive queue, and which RTO.Initial it runs on.
  assoc, self, skErr, head, rto,
  snap,      \* the peer in the address snapshots newConn took
  opened, closed,  \* descriptors opened and closed so far
  est,       \* history: this attempt's association was established
  settled    \* history: this attempt was settled when the context ended

callVars == <<pc, res, guard, retries>>
waitVars == <<verdict, waitErr>>
fnVars   == <<ctx, fn>>
pollVars == <<fdDeadline, poll, edge>>
sockVars == <<assoc, self, skErr, head>>
fdVars   == <<opened, closed>>
histVars == <<est, settled>>
vars == <<callVars, waitVars, fnVars, pollVars, sockVars, rto, snap, fdVars,
          histVars>>

Init ==
  /\ pc = "start" /\ res = "none" /\ guard \in BOOLEAN /\ retries = 0
  /\ verdict = "none" /\ waitErr = "nil"
  /\ ctx \in {"background", "live", "done"} /\ fn = "none"
  /\ fdDeadline = "none" /\ poll = "idle" /\ edge = FALSE
  /\ assoc = "none" /\ self = FALSE /\ skErr = "0" /\ head = "none"
  /\ rto = "lasting" /\ snap = "none"
  /\ opened = 0 /\ closed = 0
  /\ est = FALSE /\ settled = FALSE

Goto(from, to) == pc = from /\ pc' = to /\ UNCHANGED <<guard, retries>>
Step(from, to) == Goto(from, to) /\ UNCHANGED res
Fail(from, to, r) == Goto(from, to) /\ res' = r

\* The setup is over in the kernel, one way or the other.
Settled == assoc \in {"up", "gone", "failed"}

-----------------------------------------------------------------------------
(* run: a new socket, its setup, bindx and connectx *)

\* ctx.Err and newSocket.  A context that is done opens no socket.
Open ==
  /\ \/ /\ ctx = "done"
        /\ Fail("start", "done", "ctxErr")
        /\ UNCHANGED fdVars
     \/ /\ ctx # "done"
        /\ Fail("start", "done", "error")
        /\ UNCHANGED fdVars
     \/ /\ ctx # "done"
        /\ Step("start", "setup")
        /\ opened' = opened + 1
        /\ UNCHANGED closed
  /\ UNCHANGED <<waitVars, fnVars, pollVars, sockVars, rto, snap, histVars>>

\* setup: Config.Control, the typed settings, and the RTO.Initial of this
\* attempt when SetupRTOInitial is set.
Setup ==
  /\ \/ Step("setup", "connect") /\ rto' \in {"lasting", "setup"}
     \/ Fail("setup", "abandon", "error") /\ rto' \in {"lasting", "setup"}
  /\ UNCHANGED <<waitVars, fnVars, pollVars, sockVars, snap, fdVars, histVars>>

\* connectSocket up to its wait: bindx, and connectx, which starts the setup.
Connect ==
  /\ \/ Step("connect", "arm") /\ assoc' = "setup"
     \/ Fail("connect", "abandon", "error") /\ UNCHANGED assoc
  /\ UNCHANGED <<waitVars, fnVars, pollVars, self, skErr, head, rto, snap,
                 fdVars, histVars>>

-----------------------------------------------------------------------------
(* awaitEstablished *)

\* AfterFunc, for a context that can end at all.
Arm ==
  /\ Step("arm", "prepare")
  /\ fn' = IF ctx = "background" THEN "none" ELSE "armed"
  /\ UNCHANGED <<waitVars, ctx, pollVars, sockVars, rto, snap, fdVars, histVars>>

\* The error the poller has for a read, before it runs or after it wakes.
ReadEnds(from) ==
  /\ \/ fdDeadline = "ago" /\ waitErr' = "deadline"
     \/ fdDeadline # "ago" /\ poll = "error" /\ waitErr' = "notPollable"
  /\ Step(from, "stop")
  /\ UNCHANGED <<verdict, poll>>

\* raw.Read before its callback: readiness seen so far is forgotten.
Prepare ==
  /\ \/ ReadEnds("prepare")
     \/ /\ fdDeadline # "ago" /\ poll # "error"
        /\ Step("prepare", "soError")
        /\ poll' = "idle"
        /\ UNCHANGED waitVars
  /\ UNCHANGED <<fnVars, fdDeadline, edge, sockVars, rto, snap, fdVars, histVars>>

\* The wait between two looks of the callback.
Wake ==
  /\ \/ ReadEnds("park")
     \/ /\ fdDeadline # "ago" /\ poll = "ready"
        /\ Step("park", "soError")
        /\ poll' = "idle"
        /\ UNCHANGED waitVars
  /\ UNCHANGED <<fnVars, fdDeadline, edge, sockVars, rto, snap, fdVars, histVars>>

\* A look made by raw.Read's callback, or the one look after raw.Read failed.
Conclude(from, v) ==
  /\ Step(from, IF waitErr = "nil" THEN "stop" ELSE "decide")
  /\ verdict' = v
  /\ UNCHANGED waitErr
Undecided(from) ==
  /\ Step(from, IF waitErr = "nil" THEN "park" ELSE "decide")
  /\ UNCHANGED waitVars

lookFrame == UNCHANGED <<fnVars, pollVars, rto, snap, fdVars, histVars>>

\* SO_ERROR, which hands the pending error over once.  It takes no socket
\* lock, so it may run between the two halves of a failing setup.
SoError ==
  /\ \/ skErr # "0" /\ Conclude("soError", "failed") /\ skErr' = "0"
     \/ skErr = "0" /\ Step("soError", "status") /\ UNCHANGED <<waitVars, skErr>>
     \/ Conclude("soError", "failed") /\ UNCHANGED skErr
  /\ UNCHANGED <<assoc, self, head>> /\ lookFrame

\* SCTP_STATUS answers while the association is there, and fails with EINVAL
\* before it is established and once it is gone.
Status ==
  /\ assoc # "failing"
  /\ \/ assoc = "up" /\ Conclude("status", "established")
     \/ assoc # "up" /\ Step("status", "peek") /\ UNCHANGED waitVars
     \/ Conclude("status", "failed")
  /\ UNCHANGED sockVars /\ lookFrame

\* Mutation: SCTP_STATUS alone decides, and no record is looked for.
Peek_None ==
  /\ Undecided("peek")
  /\ UNCHANGED sockVars /\ lookFrame

\* The peek: a CANT_STR_ASSOC at the head means the setup has failed, any
\* other record that it was established.
Peek ==
  /\ assoc # "failing"
  /\ \/ head = "CANT_STR" /\ Step("peek", "soAgain") /\ UNCHANGED waitVars
     \/ head = "COMM_UP" /\ Conclude("peek", "established")
     \/ head = "none" /\ Undecided("peek")
  /\ UNCHANGED sockVars /\ lookFrame

\* failedSetupError: failed, whatever SO_ERROR still holds.
SoAgain ==
  /\ Conclude("soAgain", "failed")
  /\ skErr' = "0"
  /\ UNCHANGED <<assoc, self, head>> /\ lookFrame

AfterStop == IF waitErr = "nil" THEN "decide" ELSE "soError"

\* Mutation: a callback that has started is not waited for.
Stop_NoJoin ==
  /\ Step("stop", AfterStop)
  /\ fn' = IF fn = "armed" THEN "stopped" ELSE fn
  /\ UNCHANGED <<waitVars, ctx, pollVars, sockVars, rto, snap, fdVars, histVars>>

\* stop(), and the join of a callback that has started: it must have moved the
\* deadline before the deadline is cleared.
Stop ==
  /\ \/ fn = "armed" /\ Step("stop", AfterStop) /\ fn' = "stopped"
     \/ fn \in {"none", "closed"} /\ Step("stop", AfterStop) /\ UNCHANGED fn
  /\ UNCHANGED <<waitVars, ctx, pollVars, sockVars, rto, snap, fdVars, histVars>>

\* Mutation: the error of the wait is returned over the socket's verdict.
Decide_WaitFirst ==
  /\ \/ /\ waitErr = "deadline" /\ Fail("decide", "abandon", "ctxErr")
     \/ /\ waitErr = "notPollable" /\ Fail("decide", "abandon", "error")
     \/ /\ waitErr = "nil" /\ verdict = "failed"
        /\ Fail("decide", "abandon", "error")
     \/ /\ waitErr = "nil" /\ verdict # "failed" /\ Step("decide", "clear")
  /\ UNCHANGED <<waitVars, fnVars, pollVars, sockVars, rto, snap, fdVars,
                 histVars>>

\* The verdict of the socket comes before the error of the wait.
Decide ==
  /\ \/ verdict = "established" /\ Step("decide", "clear")
     \/ verdict = "failed" /\ Fail("decide", "abandon", "error")
     \/ /\ verdict = "none"
        /\ Fail("decide", "abandon",
                IF waitErr = "deadline" /\ ctx = "done" THEN "ctxErr" ELSE "error")
  /\ UNCHANGED <<waitVars, fnVars, pollVars, sockVars, rto, snap, fdVars,
                 histVars>>

\* awaitEstablished ends by clearing the deadline, or with the error of that.
Clear ==
  /\ \/ Step("clear", "restore") /\ fdDeadline' = "none"
     \/ Fail("clear", "abandon", "error") /\ UNCHANGED fdDeadline
  /\ UNCHANGED <<waitVars, fnVars, poll, edge, sockVars, rto, snap, fdVars,
                 histVars>>

-----------------------------------------------------------------------------
(* run after the wait, and dial's loop *)

\* The descriptor is closed, and with it whatever association it holds.
CloseFD ==
  /\ closed' = closed + 1
  /\ assoc' = IF assoc = "none" THEN "none" ELSE "gone"
  /\ edge' = FALSE
  /\ UNCHANGED <<opened, self, skErr, head, fdDeadline, poll>>

\* Mutation: an attempt whose setup fails leaves its socket to nobody.
Abandon_Leak ==
  /\ Step("abandon", "done")
  /\ UNCHANGED <<waitVars, fnVars, pollVars, sockVars, rto, snap, fdVars, histVars>>

\* abandonDial: abortive or quiet, as AbandonPolicy says; one close either way.
Abandon ==
  /\ Step("abandon", "done")
  /\ CloseFD
  /\ UNCHANGED <<waitVars, fnVars, rto, snap, histVars>>

\* setDialRTOInitial puts the lasting RTO.Initial back; when it cannot, the
\* association is aborted.
Restore ==
  /\ \/ /\ Step("restore", "newConn")
        /\ rto' = "lasting"
        /\ UNCHANGED <<pollVars, sockVars, fdVars>>
     \/ /\ rto = "setup"
        /\ Fail("restore", "done", "error")
        /\ CloseFD
        /\ UNCHANGED rto
  /\ UNCHANGED <<waitVars, fnVars, snap, histVars>>

\* newConn: the snapshots of an association that is there, or an abortive close.
NewConn ==
  /\ \/ /\ Step("newConn", "selfCheck")
        /\ snap' = IF assoc # "up" THEN "none" ELSE IF self THEN "self" ELSE "peer"
        /\ UNCHANGED <<pollVars, sockVars, fdVars>>
     \/ /\ Fail("newConn", "done", "error")
        /\ CloseFD
        /\ UNCHANGED snap
  /\ UNCHANGED <<waitVars, fnVars, rto, histVars>>

\* selfConnected reads the snapshots.
SelfCheck ==
  /\ \/ ~(guard /\ snap = "self") /\ Fail("selfCheck", "done", "conn")
     \/ guard /\ snap = "self" /\ Step("selfCheck", "abortSelf")
  /\ UNCHANGED <<waitVars, fnVars, pollVars, sockVars, rto, snap, fdVars, histVars>>

LastAttempt == retries = maxSelfConnectRetries

\* Conn.Abort, and the next attempt on a socket of its own.
AbortSelf ==
  /\ pc = "abortSelf"
  /\ closed' = closed + 1
  /\ \/ /\ LastAttempt
        /\ pc' = "done" /\ res' = "refused"
        /\ UNCHANGED retries
     \/ /\ ~LastAttempt
        /\ pc' = "start" /\ retries' = retries + 1
        /\ UNCHANGED res
  /\ verdict' = "none" /\ waitErr' = "nil" /\ fn' = "none"
  /\ fdDeadline' = "none" /\ poll' = "idle" /\ edge' = FALSE
  /\ assoc' = "none" /\ self' = FALSE /\ skErr' = "0" /\ head' = "none"
  /\ rto' = "lasting" /\ snap' = "none" /\ est' = FALSE /\ settled' = FALSE
  /\ UNCHANGED <<guard, ctx, opened>>

-----------------------------------------------------------------------------
(* The context and its callback *)

CtxDone ==
  /\ ctx = "live" /\ pc # "done"
  /\ ctx' = "done"
  /\ settled' = Settled
  /\ UNCHANGED <<callVars, waitVars, fn, pollVars, sockVars, rto, snap, fdVars, est>>

\* The callback: it starts, moves the deadline, and closes the channel.
Callback ==
  /\ \/ fn = "armed" /\ ctx = "done" /\ fn' = "started" /\ UNCHANGED fdDeadline
     \/ fn = "started" /\ fn' = "moved" /\ fdDeadline' = "ago"
     \/ fn = "moved" /\ fn' = "closed" /\ UNCHANGED fdDeadline
  /\ UNCHANGED <<callVars, waitVars, ctx, poll, edge, sockVars, rto, snap, fdVars,
                 histVars>>

-----------------------------------------------------------------------------
(* The kernel and the runtime's poller *)

kernelFrame ==
  UNCHANGED <<callVars, waitVars, fnVars, fdDeadline, poll, rto, snap, fdVars>>

\* ESTABLISHED and its COMM_UP record, under one hold of the socket lock.
Establish ==
  /\ assoc = "setup"
  /\ assoc' = "up" /\ head' = "COMM_UP" /\ edge' = TRUE /\ est' = TRUE
  /\ self' \in BOOLEAN
  /\ UNCHANGED <<skErr, settled>> /\ kernelFrame

\* A refused or timed-out setup: the socket error first, then the record.
SetupFails ==
  /\ \/ /\ assoc = "setup"
        /\ assoc' = "failing" /\ skErr' = "errno"
        /\ UNCHANGED head
     \/ /\ assoc = "failing"
        /\ assoc' = "failed" /\ head' = "CANT_STR"
        /\ UNCHANGED skErr
  /\ edge' = TRUE
  /\ UNCHANGED <<self, histVars>> /\ kernelFrame

\* The association ends before Dial returns, gracefully or by an ABORT.  Its
\* COMM_UP stays queued.
AssocEnds ==
  /\ assoc = "up" /\ pc # "done"
  /\ assoc' = "gone" /\ edge' = TRUE
  /\ skErr' \in {skErr, "errno"}
  /\ UNCHANGED <<self, head, histVars>> /\ kernelFrame

\* Another observer of the socket reads the pending error.
ErrorTaken ==
  /\ skErr # "0" /\ pc # "done"
  /\ skErr' = "0"
  /\ UNCHANGED <<assoc, self, head, edge, histVars>> /\ kernelFrame

\* A readiness change that tells the dial nothing, write space for one.
OtherChange ==
  /\ assoc # "none" /\ pc # "done" /\ ~edge
  /\ edge' = TRUE
  /\ UNCHANGED <<sockVars, histVars>> /\ kernelFrame

\* netpoll collects the change.  EPOLLERR alone makes the descriptor one that
\* cannot be polled (runtime: pollDesc.eventErr).
Netpoll ==
  /\ edge
  /\ edge' = FALSE
  /\ poll' = IF skErr # "0" /\ head = "none" THEN "error" ELSE "ready"
  /\ UNCHANGED <<callVars, waitVars, fnVars, fdDeadline, sockVars, rto, snap,
                 fdVars, histVars>>

DialStep ==
  \/ Open \/ Setup \/ Connect \/ Arm \/ Prepare \/ Wake
  \/ SoError \/ Status \/ Peek \/ SoAgain \/ Stop \/ Decide \/ Clear
  \/ Abandon \/ Restore \/ NewConn \/ SelfCheck \/ AbortSelf

Returned == pc = "done" /\ UNCHANGED vars

Next ==
  \/ DialStep \/ CtxDone \/ Callback
  \/ Establish \/ SetupFails \/ AssocEnds \/ ErrorTaken
  \/ OtherChange \/ Netpoll
  \/ Returned

Spec == Init /\ [][Next]_vars

\* The goroutines, the poller and the callback run when they can, and a kernel
\* that has begun to fail a setup finishes.  A peer need never answer.
Fairness ==
  /\ WF_vars(DialStep) /\ WF_vars(Callback) /\ WF_vars(Netpoll)
  /\ WF_vars(assoc = "failing" /\ SetupFails)

FairSpec == Spec /\ Fairness

-----------------------------------------------------------------------------
(* Properties *)

Steps == {"start", "setup", "connect", "arm", "prepare", "park", "soError",
          "status", "peek", "soAgain", "stop", "decide", "clear", "abandon",
          "restore", "newConn", "selfCheck", "abortSelf", "done"}

\* Every variable has its type, and the attempts stay within dial's loop bound.
TypeOK ==
  /\ pc \in Steps /\ res \in {"none", "conn", "ctxErr", "error", "refused"}
  /\ guard \in BOOLEAN /\ retries \in 0..maxSelfConnectRetries
  /\ verdict \in {"none", "established", "failed"}
  /\ waitErr \in {"nil", "deadline", "notPollable"}
  /\ ctx \in {"background", "live", "done"}
  /\ fn \in {"none", "armed", "stopped", "started", "moved", "closed"}
  /\ fdDeadline \in {"none", "ago"} /\ poll \in {"idle", "ready", "error"}
  /\ edge \in BOOLEAN /\ self \in BOOLEAN
  /\ assoc \in {"none", "setup", "up", "failing", "failed", "gone"}
  /\ skErr \in {"0", "errno"} /\ head \in {"none", "COMM_UP", "CANT_STR"}
  /\ rto \in {"lasting", "setup"} /\ snap \in {"none", "peer", "self"}
  /\ opened \in 0..(maxSelfConnectRetries + 1) /\ closed \in 0..opened
  /\ est \in BOOLEAN /\ settled \in BOOLEAN

\* A Conn is returned only for an association that was established, though the
\* refusal may arrive between the look at SO_ERROR and the peek, and though
\* another observer may have taken the socket error; and when the kernel chose
\* the port, never for one with itself, unless that association had ended before
\* newConn took its addresses.  The Conn has no read deadline of the dial's, no
\* callback is left that could still set one, and it runs on the lasting
\* RTO.Initial: its first read must not fail with a deadline its owner never set.
ConnIsReady ==
  res = "conn" =>
    /\ est /\ (guard /\ self => snap = "none")
    /\ fdDeadline = "none" /\ fn \in {"none", "stopped", "closed"} /\ rto = "lasting"

\* Every path closes the sockets it opened: an error leaves none open, a Conn
\* leaves its own, and no attempt is made while an earlier one's is open.
SocketsClosed ==
  /\ pc = "done" => opened = closed + (IF res = "conn" THEN 1 ELSE 0)
  /\ pc = "start" => opened = closed

\* A setup that was complete or refused when the context ended is reported as
\* such and never as the context's error, which is returned only for a context
\* that is done.
VerdictBeatsContext == res = "ctxErr" => ctx = "done" /\ ~settled

\* A settled setup ends the attempt without any help of the context, even when
\* the association is gone again before the dial first looks; and a context that
\* ends ends the dial, whatever the peer does.
DialEnds ==
  /\ \A n \in 0..maxSelfConnectRetries :
       (retries = n /\ Settled) ~> (retries # n \/ pc = "done")
  /\ ctx = "done" ~> pc = "done"
=============================================================================
