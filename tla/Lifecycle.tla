------------------------------ MODULE Lifecycle ------------------------------
(***************************************************************************)
(* The close state machine of one descriptor (close.go: lifecycle), driven *)
(* by any number of goroutines that call Close, CloseWithTimeout, Abort    *)
(* and Shutdown at any time, over the closeOps of a socket                 *)
(* (close_linux.go: sockCloseOps).  One step is one atomic operation of    *)
(* the code: a load, a compare-and-swap, a store, a channel close, or one  *)
(* closeOps call.                                                          *)
(***************************************************************************)
EXTENDS Naturals

CONSTANT Callers  \* the goroutines that share the Conn

VARIABLES
  made,      \* init ran: done # nil.  FALSE is the zero Conn
  state,     \* lifecycle.state
  abort,     \* the channel abort is closed
  done,      \* the channel done is closed
  shut,      \* lifecycle.shut
  pc,        \* pc[c]: the next atomic step of c's call; "idle" outside of one
  op,        \* op[c]: the call c is inside of, or the last one it made
  err,       \* err[c]: the error c's call has collected so far
  ret,       \* ret[c]: what c's last call returned, "none" before and during
  expired,   \* the grace period of the waiting close has passed
  assoc,     \* the association: "up", "shutting", "gone", "aborted"
  refused,   \* a SHUTDOWN primitive has failed on a live association
  releases   \* how many times the descriptor was released

lifeVars == <<made, state, abort, done, shut>>
callVars == <<pc, op, err, ret>>
sysVars  == <<expired, assoc, refused, releases>>
vars     == <<lifeVars, callVars, sysVars>>

\* The calls.  "closeNow" is a close whose grace is zero or less.
Ops == {"close", "closeNow", "abort", "shutdown"}
LifeStates == {"lifeOpen", "lifeClosing", "lifeAborting", "lifeClosed"}

\* The steps of close, from its compare-and-swap to the release.
ClosePCs == {"storeShut", "startShutdown", "poll", "remaining", "select",
             "release", "abortClose"}
\* The steps of the one call that owns the descriptor, up to its release and
\* after it: "abortive" is finishAbortive's, the other two are finish's.
HoldPCs  == ClosePCs \cup {"abortive"}
DonePCs  == {"finish", "closeDone"}
PCs == {"idle", "panicked", "claim", "load", "claimClosed", "claimAborting",
        "closeAbort", "waitDone", "shutLoad", "shutClaim", "shutStart"}
         \cup HoldPCs \cup DonePCs

Init ==
  /\ made \in BOOLEAN
  /\ state = "lifeOpen"
  /\ abort = FALSE
  /\ done = FALSE
  /\ shut = FALSE
  /\ pc = [c \in Callers |-> "idle"]
  /\ op = [c \in Callers |-> "none"]
  /\ err = [c \in Callers |-> "nil"]
  /\ ret = [c \in Callers |-> "none"]
  /\ expired = FALSE
  /\ assoc = "up"
  /\ refused = FALSE
  /\ releases = 0

Goto(c, from, to) ==
  /\ pc[c] = from
  /\ pc' = [pc EXCEPT ![c] = to]

\* Goto that changes nothing else of the call.
Step(c, from, to) == Goto(c, from, to) /\ UNCHANGED <<op, err, ret>>

\* Goto that records the error of a closeOps step.
StepErr(c, from, to, e) ==
  /\ Goto(c, from, to)
  /\ err' = [err EXCEPT ![c] = e]
  /\ UNCHANGED <<op, ret>>

Return(c, from, e) ==
  /\ Goto(c, from, "idle")
  /\ ret' = [ret EXCEPT ![c] = e]
  /\ UNCHANGED <<op, err>>

(***************************************************************************)
(* The call itself, and the answer of a lifecycle that was never           *)
(* initialised, a zero Conn's: net.ErrClosed to every call.                *)
(***************************************************************************)
Entry(o) ==
  IF o = "close" THEN "claim" ELSE IF o = "shutdown" THEN "shutLoad" ELSE "load"

Call(c, o) ==
  /\ Goto(c, "idle", Entry(o))
  /\ op' = [op EXCEPT ![c] = o]
  /\ err' = [err EXCEPT ![c] = "nil"]
  /\ ret' = [ret EXCEPT ![c] = "none"]
  /\ UNCHANGED <<lifeVars, sysVars>>

\* done == nil: the first test of close, abortNow and shutdown.
ZeroValue(c) ==
  /\ ~made
  /\ \E from \in {"claim", "load", "shutLoad"} : Return(c, from, "ErrClosed")
  /\ UNCHANGED <<lifeVars, sysVars>>

-----------------------------------------------------------------------------
(* close *)

Claim(c) ==
  /\ made
  /\ \/ /\ state = "lifeOpen"
        /\ state' = "lifeClosing"
        /\ expired' = FALSE
        /\ Step(c, "claim", "storeShut")
     \/ /\ state # "lifeOpen"
        /\ Return(c, "claim", "ErrClosed")
        /\ UNCHANGED <<state, expired>>
  /\ UNCHANGED <<made, abort, done, shut, assoc, refused, releases>>

\* Mutation: a shutdown that shut says was requested is not started again.
StoreShut_Trusting(c) ==
  /\ Step(c, "storeShut", IF shut THEN "poll" ELSE "startShutdown")
  /\ shut' = TRUE
  /\ UNCHANGED <<made, state, abort, done, sysVars>>

StoreShut(c) ==
  /\ Step(c, "storeShut", "startShutdown")
  /\ shut' = TRUE
  /\ UNCHANGED <<made, state, abort, done, sysVars>>

\* startShutdown on a held descriptor: the SHUTDOWN primitive moves an
\* association that is up; a failed primitive need not have moved it.
startShutdown(ok) ==
  /\ assoc' = IF ok /\ assoc = "up" THEN "shutting" ELSE assoc
  /\ refused' = (refused \/ ~ok)
  /\ UNCHANGED <<expired, releases>>

CloseStartShutdown(c) ==
  /\ Step(c, "startShutdown", "poll")
  /\ \E ok \in BOOLEAN : startShutdown(ok)
  /\ UNCHANGED lifeVars

\* assocGone: SCTP_STATUS answers for a live association, fails with EINVAL
\* once it is gone, and any other failure is no evidence of the end.
Poll(c) ==
  /\ \/ assoc = "gone" /\ Step(c, "poll", "release")
     \/ assoc # "gone" /\ Step(c, "poll", "remaining")
     \/ StepErr(c, "poll", "abortClose", "error")
  /\ UNCHANGED <<lifeVars, sysVars>>

Remaining(c) ==
  /\ \/ expired /\ Step(c, "remaining", "abortClose")
     \/ ~expired /\ Step(c, "remaining", "select")
  /\ UNCHANGED <<lifeVars, sysVars>>

\* The select of the wait: a closed abort channel, or the timer of one step.
\* With both ready Go picks either.
Select(c) ==
  /\ \/ abort /\ Step(c, "select", "abortClose")
     \/ Step(c, "select", "poll")
  /\ UNCHANGED <<lifeVars, sysVars>>

-----------------------------------------------------------------------------
(* closeOps.release and closeOps.abortive *)

\* release: the one close(2).  Its error is returned, and the descriptor is
\* gone all the same.
Release(c) ==
  /\ \E e \in {"nil", "error"} : StepErr(c, "release", "finish", e)
  /\ releases' = releases + 1
  /\ UNCHANGED <<lifeVars, expired, assoc, refused>>

\* Mutation: abortive does not report its SO_LINGER step.
abortive_Silent(c, from, to) ==
  /\ \E linger \in BOOLEAN, e \in {"nil", "error"} :
       /\ StepErr(c, from, to, IF e = "nil" THEN err[c] ELSE "error")
       /\ assoc' = IF assoc = "gone" THEN "gone"
                   ELSE IF linger THEN "aborted" ELSE "shutting"
  /\ releases' = releases + 1
  /\ UNCHANGED <<lifeVars, expired, refused>>

\* abortive: SO_LINGER zero, SHUT_RD, release.  The release happens whatever
\* the SO_LINGER step reported; without it the close starts a SHUTDOWN
\* instead of sending the ABORT, and the error says so.
abortive(c, from, to) ==
  /\ \E linger \in BOOLEAN, e \in {"nil", "error"} :
       /\ StepErr(c, from, to, IF linger /\ e = "nil" THEN err[c] ELSE "error")
       /\ assoc' = IF assoc = "gone" THEN "gone"
                   ELSE IF linger THEN "aborted" ELSE "shutting"
  /\ releases' = releases + 1
  /\ UNCHANGED <<lifeVars, expired, refused>>

AbortClose(c) == abortive(c, "abortClose", "finish")

\* finish: the state is stored before done is closed.
Finish(c) ==
  /\ Step(c, "finish", "closeDone")
  /\ state' = "lifeClosed"
  /\ UNCHANGED <<made, abort, done, shut, sysVars>>

\* Mutation: the owner returns without closing done.
CloseDone_Forgotten(c) ==
  Return(c, "closeDone", err[c]) /\ UNCHANGED <<lifeVars, sysVars>>

\* close(l.done), of finish and of finishAbortive.  Closing a closed channel
\* panics.
CloseDone(c) ==
  /\ \/ /\ ~done
        /\ done' = TRUE
        /\ Return(c, "closeDone", err[c])
     \/ /\ done
        /\ Step(c, "closeDone", "panicked")
        /\ UNCHANGED done
  /\ UNCHANGED <<made, state, abort, shut, sysVars>>

-----------------------------------------------------------------------------
(* abortNow *)

Load(c) ==
  /\ made
  /\ \/ state = "lifeOpen" /\ Step(c, "load", "claimClosed")
     \/ state = "lifeClosing" /\ Step(c, "load", "claimAborting")
     \/ state = "lifeAborting" /\ Step(c, "load", "waitDone")
     \/ state = "lifeClosed" /\ Return(c, "load", "ErrClosed")
  /\ UNCHANGED <<lifeVars, sysVars>>

\* Mutation: lifeClosed is stored without the compare-and-swap.
ClaimClosed_Store(c) ==
  /\ state' = "lifeClosed"
  /\ Step(c, "claimClosed", "abortive")
  /\ UNCHANGED <<made, abort, done, shut, sysVars>>

\* A compare-and-swap lost to a concurrent transition looks again.
ClaimClosed(c) ==
  /\ \/ /\ state = "lifeOpen"
        /\ state' = "lifeClosed"
        /\ Step(c, "claimClosed", "abortive")
     \/ /\ state # "lifeOpen"
        /\ Step(c, "claimClosed", "load")
        /\ UNCHANGED state
  /\ UNCHANGED <<made, abort, done, shut, sysVars>>

FinishAbortive(c) == abortive(c, "abortive", "closeDone")

ClaimAborting(c) ==
  /\ \/ /\ state = "lifeClosing"
        /\ state' = "lifeAborting"
        /\ Step(c, "claimAborting", "closeAbort")
     \/ /\ state # "lifeClosing"
        /\ Step(c, "claimAborting", "load")
        /\ UNCHANGED state
  /\ UNCHANGED <<made, abort, done, shut, sysVars>>

CloseAbort(c) ==
  /\ \/ /\ ~abort
        /\ abort' = TRUE
        /\ Step(c, "closeAbort", "waitDone")
     \/ /\ abort
        /\ Step(c, "closeAbort", "panicked")
        /\ UNCHANGED abort
  /\ UNCHANGED <<made, state, done, shut, sysVars>>

\* Mutation: an Abort that overtakes a Close does not wait for its release.
WaitDone_NoWait(c) ==
  Return(c, "waitDone", "nil") /\ UNCHANGED <<lifeVars, sysVars>>

WaitDone(c) ==
  /\ done
  /\ Return(c, "waitDone", "nil")
  /\ UNCHANGED <<lifeVars, sysVars>>

-----------------------------------------------------------------------------
(* shutdown *)

ShutLoad(c) ==
  /\ made
  /\ \/ state = "lifeOpen" /\ Step(c, "shutLoad", "shutClaim")
     \/ state # "lifeOpen" /\ Return(c, "shutLoad", "ErrClosed")
  /\ UNCHANGED <<lifeVars, sysVars>>

ShutClaim(c) ==
  /\ \/ shut /\ Return(c, "shutClaim", "nil")
     \/ ~shut /\ Step(c, "shutClaim", "shutStart")
  /\ shut' = TRUE
  /\ UNCHANGED <<made, state, abort, done, sysVars>>

\* startShutdown of a Shutdown call, which owns nothing: the descriptor may
\* have been released meanwhile, and raw.Control then fails with net.ErrClosed.
ShutStart(c) ==
  /\ \/ /\ releases = 0
        /\ \E ok \in BOOLEAN :
             /\ startShutdown(ok)
             /\ Return(c, "shutStart", IF ok THEN "nil" ELSE "error")
     \/ /\ releases > 0
        /\ Return(c, "shutStart", "ErrClosed")
        /\ UNCHANGED sysVars
  /\ UNCHANGED lifeVars

-----------------------------------------------------------------------------
(* The clock, the peer and the kernel. *)

\* Grace passes while a close is between its compare-and-swap and its release.
Expire ==
  /\ \E c \in Callers : pc[c] \in ClosePCs
  /\ ~expired
  /\ expired' = TRUE
  /\ UNCHANGED <<lifeVars, callVars, assoc, refused, releases>>

\* The peer starts its own shutdown; a shutdown completes; an association
\* fails.  None of it has to happen.
PeerShutdown ==
  /\ assoc = "up"
  /\ assoc' = "shutting"
  /\ UNCHANGED <<lifeVars, callVars, expired, refused, releases>>

AssocEnds ==
  /\ assoc \in {"up", "shutting"}
  /\ assoc' = "gone"
  /\ UNCHANGED <<lifeVars, callVars, expired, refused, releases>>

\* Every atomic step a call takes once it has started.
CallStep(c) ==
  \/ ZeroValue(c)
  \/ Claim(c) \/ StoreShut(c) \/ CloseStartShutdown(c) \/ Poll(c)
  \/ Remaining(c) \/ Select(c) \/ Release(c) \/ AbortClose(c) \/ Finish(c)
  \/ CloseDone(c)
  \/ Load(c) \/ ClaimClosed(c) \/ FinishAbortive(c) \/ ClaimAborting(c)
  \/ CloseAbort(c) \/ WaitDone(c)
  \/ ShutLoad(c) \/ ShutClaim(c) \/ ShutStart(c)

Next ==
  \/ \E c \in Callers, o \in Ops : Call(c, o)
  \/ \E c \in Callers : CallStep(c)
  \/ Expire
  \/ PeerShutdown
  \/ AssocEnds

Spec == Init /\ [][Next]_vars

\* Goroutines that can run do run, and time passes.  Nothing is asked of the
\* peer: it may never answer the SHUTDOWN.
Fairness ==
  /\ \A c \in Callers : WF_vars(CallStep(c))
  /\ WF_vars(Expire)

FairSpec == Spec /\ Fairness

-----------------------------------------------------------------------------
(* Properties *)

\* Every variable has its type, over the four calls and their steps.
TypeOK ==
  /\ made \in BOOLEAN /\ abort \in BOOLEAN /\ done \in BOOLEAN
  /\ shut \in BOOLEAN /\ expired \in BOOLEAN /\ refused \in BOOLEAN
  /\ state \in LifeStates
  /\ pc \in [Callers -> PCs]
  /\ op \in [Callers -> Ops \cup {"none"}]
  /\ err \in [Callers -> {"nil", "error"}]
  /\ ret \in [Callers -> {"none", "nil", "error", "ErrClosed"}]
  /\ assoc \in {"up", "shutting", "gone", "aborted"}
  /\ releases \in Nat

\* The descriptor gets one close(2), whichever of the racing Close, Abort and
\* CloseWithTimeout(0) calls wins: no interleaving of their compare-and-swaps
\* lets two of them reach release or abortive.
ReleasedOnce == releases <= 1

\* No call panics by closing the abort or the done channel a second time: two
\* Aborts that overtake the same Close do not both close abort, and a Close
\* and an Abort do not both close done.
ChannelsClosedOnce == \A c \in Callers : pc[c] # "panicked"

\* Whoever sees done closed finds the lifecycle closed and the descriptor
\* released, as finish promises its waiters: an Abort returning from <-done
\* must not leave a window in which another call finds the machine closing.
DoneAfterRelease == done => state = "lifeClosed" /\ releases = 1

\* An Abort, or a CloseWithTimeout without grace, that returns nil returns
\* after the release, also when the release was made by the Close it overtook.
AbortReturnsAfterRelease ==
  \A c \in Callers :
    op[c] \in {"abort", "closeNow"} /\ ret[c] = "nil" => releases = 1

\* A graceful Close that returns nil has released the descriptor and leaves no
\* live association behind: it ended in the wait or was aborted, and a failed
\* SO_LINGER step, which would leave a SHUTDOWN running, is never swallowed.
NilCloseEndsAssoc ==
  \A c \in Callers :
    op[c] = "close" /\ ret[c] = "nil" =>
      releases = 1 /\ assoc \in {"gone", "aborted"}

\* A Close that waits has started the shutdown: it never waits out its grace on
\* an association nobody asked to shut down, even when a concurrent Shutdown
\* has set shut and not yet made its own startShutdown call.
NoWaitOnUntouchedAssoc ==
  \A c \in Callers :
    pc[c] \in {"poll", "remaining", "select"} /\ assoc = "up" => refused

\* The states a state may still move to.
Ahead(s) == IF s = "lifeOpen" THEN {"lifeClosing", "lifeClosed"}
            ELSE IF s = "lifeClosing" THEN {"lifeAborting", "lifeClosed"}
            ELSE IF s = "lifeAborting" THEN {"lifeClosed"} ELSE {}

\* The state only moves forward through open, closing, aborting, closed: no
\* call, however late its compare-and-swap, reopens or un-closes a descriptor.
StateForward == [][state' \in Ahead(state)]_state

\* Every call returns: grace expires, an overtaken Close notices the Abort, and
\* the Aborts waiting for it are released, though the peer may never answer: so
\* no race of Close and Abort leaves a claimed descriptor unreleased.
EveryCallReturns == \A c \in Callers : pc[c] # "idle" ~> pc[c] = "idle"

-----------------------------------------------------------------------------
(* The machine implements what Descriptor promises. *)

fdBar ==
  IF ~made \/ releases > 0 THEN "released"
  ELSE IF state = "lifeOpen" THEN "open" ELSE "claimed"

ownerBar == {c \in Callers : pc[c] \in HoldPCs \cup DonePCs}

callBar ==
  [c \in Callers |-> IF pc[c] = "idle" THEN "none"
                     ELSE IF op[c] = "closeNow" THEN "abort" ELSE op[c]]

D == INSTANCE Descriptor
       WITH fd <- fdBar, owner <- ownerBar, call <- callBar, answer <- ret

\* Every step of the machine is a step of the abstract descriptor, or changes
\* nothing a caller can see: one owner, one release, truthful answers.
ImplementsDescriptor == D!Spec
=============================================================================
