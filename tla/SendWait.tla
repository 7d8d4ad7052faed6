------------------------------ MODULE SendWait ------------------------------
(***************************************************************************)
(* The send path of a Conn (send_linux.go: sendState): sends that take the *)
(* send lock in turn, wait for buffer space in the runtime poller, and are *)
(* woken by buffer space, by the caller's write deadline, by their context *)
(* (interrupt), by a local shutdown (wakeShutdown) or by the release of    *)
(* the descriptor.  The context and the shutdown wake a send by moving the *)
(* descriptor's write deadline into the past, and the send puts the        *)
(* caller's deadline back.                                                 *)
(*                                                                         *)
(* A step is one system call, one channel operation, or one critical       *)
(* section of deadlineMu.  Only setDeadline's section is two steps: it     *)
(* reads the clock first, and the deadline it replaces stays in force in   *)
(* the poller until it is replaced.                                        *)
(***************************************************************************)
CONSTANTS
  Senders,   \* the goroutines that send on the Conn
  SetValues  \* the deadlines that SetDeadline is called with

NoOne == "no sender"

\* A deadline: none, one ahead, one that has passed.  "ago" is aLongTimeAgo,
\* which only interrupt and wakeShutdown set.
Deadlines == {"none", "future", "past"}
InPast(d) == d \in {"past", "ago"}

ASSUME SendAssumption == NoOne \notin Senders /\ SetValues \subseteq Deadlines

VARIABLES
  \* sendState: mu, and what deadlineMu guards.
  mu, callerDeadline, callerCrossed, callerFirst, parked, shutdownWake,
  interrupted,
  interruptDone,  \* the channel of one slot holds a completion
  \* The send that holds mu.
  slow, wait,
  sendErr,        \* what it will return
  ended,          \* history: the deadline that ended its raw.Write, or "no";
                  \* "replaced" is a "past" one inside a setDeadline
  queued,         \* history: the kernel accepted its message
  crossed,        \* history: a caller's deadline was in the past during it
  \* Each sender: its next step, its context, its AfterFunc callback.
  at, ctx, stop,
  \* The descriptor in the poller, and the kernel's side of it.
  fdDeadline, closed, assoc,
  \* The value of a SetDeadline inside its critical section, and how far the
  \* last startShutdown has come.
  setter, shutter

ownVars  == <<slow, wait, sendErr, ended, queued, crossed>>
flagVars == <<callerFirst, parked, shutdownWake, interrupted>>
sysVars  == <<closed, assoc>>
actVars  == <<setter, shutter>>
sendVars == <<mu, callerDeadline, callerCrossed, flagVars, interruptDone, ownVars,
              at, ctx, stop, fdDeadline, sysVars, actVars>>

DeadlineMuFree == setter = "idle"

SendInit ==
  /\ mu = NoOne
  /\ callerDeadline = "none" /\ fdDeadline = "none"
  /\ callerCrossed = FALSE /\ callerFirst = FALSE
  /\ parked = FALSE /\ shutdownWake = FALSE /\ interrupted = FALSE
  /\ interruptDone = FALSE
  /\ slow = FALSE /\ wait = TRUE /\ sendErr = "nil"
  /\ ended = "no" /\ queued = FALSE /\ crossed = FALSE
  /\ at = [s \in Senders |-> "idle"]
  /\ ctx = [s \in Senders |-> "none"]
  /\ stop = [s \in Senders |-> "nil"]
  /\ closed = FALSE /\ assoc = "up"
  /\ setter = "idle" /\ shutter = "idle"

Goto(s, from, to) ==
  /\ at[s] = from
  /\ at' = [at EXCEPT ![s] = to]

\* The fields of sendState that carry one send start from their zero values.
NewSend(w, past) ==
  /\ wait' = w /\ slow' = FALSE
  /\ sendErr' = "nil" /\ ended' = "no" /\ queued' = FALSE /\ crossed' = past

-----------------------------------------------------------------------------
(* send, up to the raw write *)

\* SendMsg has no context; SendMsgContext has one that is not done yet.
Start(s, c) ==
  /\ Goto(s, "idle", "lock")
  /\ ctx' = [ctx EXCEPT ![s] = c]
  /\ UNCHANGED <<mu, callerDeadline, callerCrossed, flagVars, interruptDone,
                 ownVars, stop, fdDeadline, sysVars, actVars>>

Lock(s, w) ==
  /\ mu = NoOne
  /\ mu' = s
  /\ Goto(s, "lock", IF ctx[s] = "none" THEN "write" ELSE "recheck")
  /\ NewSend(w, callerDeadline = "past")
  /\ UNCHANGED <<callerDeadline, callerCrossed, flagVars, interruptDone, ctx,
                 stop, fdDeadline, sysVars, actVars>>

\* LockContext gives up: the context is done before the lock is free.
LockContextDone(s) ==
  /\ ctx[s] = "done"
  /\ Goto(s, "lock", "idle")
  /\ ctx' = [ctx EXCEPT ![s] = "none"]
  /\ UNCHANGED <<mu, callerDeadline, callerCrossed, flagVars, interruptDone,
                 ownVars, stop, fdDeadline, sysVars, actVars>>

\* The context is checked again under the lock; a send that goes on forgets
\* the deadlines that passed before it.
Recheck(s) ==
  /\ \/ /\ ctx[s] = "done"
        /\ Goto(s, "recheck", "unlock")
        /\ sendErr' = "ctxErr"
        /\ UNCHANGED callerCrossed
     \/ /\ ctx[s] # "done"
        /\ DeadlineMuFree
        /\ Goto(s, "recheck", "write")
        /\ callerCrossed' = FALSE
        /\ UNCHANGED sendErr
  /\ UNCHANGED <<mu, callerDeadline, flagVars, interruptDone, slow, wait, ended,
                 queued, crossed, ctx, stop, fdDeadline, sysVars, actVars>>

-----------------------------------------------------------------------------
(* raw.Write and its callback, attempt *)

\* The poller ends a raw write whose descriptor is released or whose write
\* deadline is in the past.
RawWriteFails(s, from) ==
  /\ Goto(s, from, "returned")
  /\ \/ closed /\ sendErr' = "ErrClosed" /\ UNCHANGED ended
     \/ /\ ~closed /\ InPast(fdDeadline)
        /\ sendErr' = "deadline"
        /\ ended' = IF fdDeadline = "past" /\ ~DeadlineMuFree THEN "replaced"
                    ELSE fdDeadline
  /\ UNCHANGED queued

\* prepareWrite.
RawWrite(s) ==
  /\ \/ RawWriteFails(s, "write")
     \/ /\ ~closed /\ ~InPast(fdDeadline)
        /\ Goto(s, "write", "attempt")
        /\ UNCHANGED <<sendErr, ended, queued>>
  /\ UNCHANGED <<mu, callerDeadline, callerCrossed, flagVars, interruptDone,
                 slow, wait, crossed, ctx, stop, fdDeadline, sysVars, actVars>>

\* sendOnce.  Whether there is buffer space is the kernel's choice, and Linux
\* looks for space before it looks at the state of the association.
Attempt(s) ==
  /\ \/ /\ assoc = "gone"
        /\ Goto(s, "attempt", "returned") /\ sendErr' = "EPIPE" /\ UNCHANGED queued
     \/ /\ assoc # "gone" /\ wait  \* EAGAIN
        /\ Goto(s, "attempt", "mark") /\ UNCHANGED <<sendErr, queued>>
     \/ /\ assoc = "up" /\ ~wait  \* EAGAIN
        /\ Goto(s, "attempt", "returned") /\ sendErr' = "EAGAIN" /\ UNCHANGED queued
     \/ /\ assoc = "shutting"
        /\ Goto(s, "attempt", "returned") /\ sendErr' = "ESHUTDOWN" /\ UNCHANGED queued
     \/ /\ assoc = "up"
        /\ Goto(s, "attempt", "returned") /\ sendErr' = "nil" /\ queued' = TRUE
  /\ UNCHANGED <<mu, callerDeadline, callerCrossed, flagVars, interruptDone,
                 slow, wait, ended, crossed, ctx, stop, fdDeadline, sysVars,
                 actVars>>

\* Mutation: the send parks without asking for the association's state.
Mark_NoQuery(s) ==
  /\ DeadlineMuFree
  /\ callerCrossed' = (callerCrossed /\ (slow \/ ctx[s] # "none"))
  /\ slow' = TRUE
  /\ parked' = TRUE
  /\ Goto(s, "mark", "register")
  /\ UNCHANGED <<mu, callerDeadline, callerFirst, shutdownWake, interrupted,
                 interruptDone, wait, sendErr, ended, queued, crossed, ctx, stop,
                 fdDeadline, sysVars, actVars>>

\* EAGAIN on a send that waits: the send is marked parked before it asks for
\* the association's state, both under deadlineMu.
Mark(s) ==
  /\ DeadlineMuFree
  /\ callerCrossed' = (callerCrossed /\ (slow \/ ctx[s] # "none"))
  /\ slow' = TRUE
  /\ parked' = TRUE
  /\ \/ /\ assoc = "shutting"
        /\ Goto(s, "mark", "returned")
        /\ sendErr' = "ESHUTDOWN"
     \/ /\ assoc # "shutting"
        /\ Goto(s, "mark", "register")
        /\ UNCHANGED sendErr
  /\ UNCHANGED <<mu, callerDeadline, callerFirst, shutdownWake, interrupted,
                 interruptDone, wait, ended, queued, crossed, ctx, stop,
                 fdDeadline, sysVars, actVars>>

\* context.AfterFunc, once for each send.
Register(s) ==
  /\ Goto(s, "register", "wait")
  /\ stop' = [stop EXCEPT ![s] =
                IF stop[s] = "nil" /\ ctx[s] # "none" THEN "registered" ELSE stop[s]]
  /\ UNCHANGED <<mu, callerDeadline, callerCrossed, flagVars, interruptDone,
                 ownVars, ctx, fdDeadline, sysVars, actVars>>

\* waitWrite: a passed deadline and the release end the wait; otherwise the
\* callback runs again when the kernel reports space or the association's end.
WaitFails(s) ==
  /\ RawWriteFails(s, "wait")
  /\ UNCHANGED <<mu, callerDeadline, callerCrossed, flagVars, interruptDone,
                 slow, wait, crossed, ctx, stop, fdDeadline, sysVars, actVars>>

Writable(s) ==
  /\ ~closed /\ ~InPast(fdDeadline)
  /\ Goto(s, "wait", "attempt")
  /\ UNCHANGED <<mu, callerDeadline, callerCrossed, flagVars, interruptDone,
                 ownVars, ctx, stop, fdDeadline, sysVars, actVars>>

-----------------------------------------------------------------------------
(* send, after the raw write *)

\* stop() keeps a callback that has not started from running; one that has
\* started must be waited for.
Stop(s) ==
  /\ Goto(s, "returned", IF stop[s] \in {"started", "moved", "sent"} THEN "join"
                         ELSE IF slow THEN "cleanup" ELSE "unlock")
  /\ stop' = [stop EXCEPT ![s] = IF stop[s] = "registered" THEN "nil" ELSE stop[s]]
  /\ UNCHANGED <<mu, callerDeadline, callerCrossed, flagVars, interruptDone,
                 ownVars, ctx, fdDeadline, sysVars, actVars>>

\* <-s.interruptDone
Join(s) ==
  /\ interruptDone
  /\ interruptDone' = FALSE
  /\ Goto(s, "join", "cleanup")
  /\ stop' = [stop EXCEPT ![s] = "nil"]
  /\ UNCHANGED <<mu, callerDeadline, callerCrossed, flagVars, ownVars, ctx,
                 fdDeadline, sysVars, actVars>>

\* Mutation: every error is renamed.
RenamedError_Any ==
  IF callerFirst THEN sendErr ELSE IF shutdownWake THEN "ESHUTDOWN" ELSE "ctxErr"
\* A deadline error is renamed after whoever moved the deadline, unless the
\* caller's own came first.
RenamedError ==
  IF sendErr # "deadline" \/ callerFirst THEN sendErr
  ELSE IF shutdownWake THEN "ESHUTDOWN" ELSE "ctxErr"

\* Mutation: the caller's deadline is put back only where it was renamed.
RestoredDeadline_OnError ==
  IF closed \/ sendErr # "deadline" THEN fdDeadline ELSE callerDeadline

\* The caller's latest deadline is put back; a released descriptor has none.
RestoredDeadline == IF closed THEN fdDeadline ELSE callerDeadline

Cleanup(s) ==
  /\ DeadlineMuFree
  /\ Goto(s, "cleanup", "unlock")
  /\ \/ /\ interrupted \/ shutdownWake
        /\ sendErr' = RenamedError
        /\ fdDeadline' = RestoredDeadline
     \/ /\ ~interrupted /\ ~shutdownWake
        /\ UNCHANGED <<sendErr, fdDeadline>>
  /\ interrupted' = FALSE /\ shutdownWake' = FALSE /\ parked' = FALSE
  /\ UNCHANGED <<mu, callerDeadline, callerCrossed, callerFirst, interruptDone,
                 slow, wait, ended, queued, crossed, ctx, stop, sysVars, actVars>>

Unlock(s) ==
  /\ Goto(s, "unlock", "idle")
  /\ mu' = NoOne
  /\ ctx' = [ctx EXCEPT ![s] = "none"]
  /\ NewSend(TRUE, FALSE)
  /\ UNCHANGED <<callerDeadline, callerCrossed, flagVars, interruptDone, stop,
                 fdDeadline, sysVars, actVars>>

-----------------------------------------------------------------------------
(* interrupt: the AfterFunc callback of a send's context *)

Cancel(s) ==
  /\ ctx[s] = "live"
  /\ ctx' = [ctx EXCEPT ![s] = "done"]
  /\ UNCHANGED <<mu, callerDeadline, callerCrossed, flagVars, interruptDone,
                 ownVars, at, stop, fdDeadline, sysVars, actVars>>

StartInterrupt(s) ==
  /\ stop[s] = "registered" /\ ctx[s] = "done"
  /\ stop' = [stop EXCEPT ![s] = "started"]
  /\ UNCHANGED <<mu, callerDeadline, callerCrossed, flagVars, interruptDone,
                 ownVars, at, ctx, fdDeadline, sysVars, actVars>>

\* Mutation: the wake is recorded and the deadline stays where it is.
MoveDeadline_FlagOnly ==
  /\ callerFirst' = (callerCrossed \/ callerDeadline = "past")
  /\ UNCHANGED fdDeadline

\* The write deadline moves into the past, and callerFirst keeps whether a
\* deadline of the caller's had passed by then.
MoveDeadline ==
  /\ callerFirst' = (callerCrossed \/ callerDeadline = "past")
  /\ fdDeadline' = IF closed THEN fdDeadline ELSE "ago"

Interrupt(s) ==
  /\ stop[s] = "started"
  /\ DeadlineMuFree
  /\ \/ /\ ~shutdownWake
        /\ MoveDeadline
        /\ interrupted' = TRUE
     \/ /\ shutdownWake
        /\ UNCHANGED <<callerFirst, interrupted, fdDeadline>>
  /\ stop' = [stop EXCEPT ![s] = "moved"]
  /\ UNCHANGED <<mu, callerDeadline, callerCrossed, parked, shutdownWake,
                 interruptDone, ownVars, at, ctx, sysVars, actVars>>

\* s.interruptDone <- struct{}{}, into a channel of one slot.
InterruptDone(s) ==
  /\ stop[s] = "moved"
  /\ ~interruptDone
  /\ interruptDone' = TRUE
  /\ stop' = [stop EXCEPT ![s] = "sent"]
  /\ UNCHANGED <<mu, callerDeadline, callerCrossed, flagVars, ownVars, at, ctx,
                 fdDeadline, sysVars, actVars>>

-----------------------------------------------------------------------------
(* setDeadline: the critical section reads the clock, then replaces. *)

CheckDeadline(t) ==
  /\ setter = "idle"
  /\ setter' = t
  /\ callerCrossed' = (callerCrossed \/ callerDeadline = "past")
  /\ UNCHANGED <<mu, callerDeadline, flagVars, interruptDone, ownVars, at, ctx,
                 stop, fdDeadline, sysVars, shutter>>

ReplaceDeadline ==
  /\ setter \in Deadlines
  /\ callerDeadline' = setter
  /\ fdDeadline' = IF closed \/ interrupted \/ shutdownWake THEN fdDeadline
                   ELSE setter
  /\ setter' = "idle"
  /\ crossed' = (mu # NoOne /\ (crossed \/ setter = "past"))
  /\ UNCHANGED <<mu, callerCrossed, flagVars, interruptDone, slow, wait, sendErr,
                 ended, queued, at, ctx, stop, sysVars, shutter>>

\* The deadline ahead passes, in the poller too where it is the one in force.
Pass ==
  /\ callerDeadline = "future"
  /\ callerDeadline' = "past"
  /\ fdDeadline' = IF fdDeadline = "future" THEN "past" ELSE fdDeadline
  /\ crossed' = (mu # NoOne)
  /\ UNCHANGED <<mu, callerCrossed, flagVars, interruptDone, slow, wait, sendErr,
                 ended, queued, at, ctx, stop, sysVars, actVars>>

-----------------------------------------------------------------------------
(* startShutdown, of Shutdown and of Close, and the release *)

\* The primitive succeeded.  One that fails moves nothing and wakes nobody.
Primitive ==
  /\ shutter # "wake" /\ ~closed
  /\ shutter' = "wake"
  /\ assoc' = IF assoc = "up" THEN "shutting" ELSE assoc
  /\ UNCHANGED <<mu, callerDeadline, callerCrossed, flagVars, interruptDone,
                 ownVars, at, ctx, stop, fdDeadline, closed, setter>>

WakeShutdown ==
  /\ shutter = "wake"
  /\ DeadlineMuFree
  /\ \/ /\ parked /\ ~interrupted /\ ~shutdownWake
        /\ MoveDeadline
        /\ shutdownWake' = TRUE
     \/ /\ ~parked \/ interrupted \/ shutdownWake
        /\ UNCHANGED <<callerFirst, shutdownWake, fdDeadline>>
  /\ shutter' = "done"
  /\ UNCHANGED <<mu, callerDeadline, callerCrossed, parked, interrupted,
                 interruptDone, ownVars, at, ctx, stop, sysVars, setter>>

ReleaseConn ==
  /\ ~closed
  /\ closed' = TRUE
  /\ UNCHANGED <<mu, callerDeadline, callerCrossed, flagVars, interruptDone,
                 ownVars, at, ctx, stop, fdDeadline, assoc, actVars>>

\* The association shuts down or ends on the peer's account.
PeerEnds ==
  /\ ~closed
  /\ \/ assoc = "up" /\ assoc' = "shutting"
     \/ assoc # "gone" /\ assoc' = "gone"
  /\ UNCHANGED <<mu, callerDeadline, callerCrossed, flagVars, interruptDone,
                 ownVars, at, ctx, stop, fdDeadline, closed, actVars>>

\* The steps of a send that has the lock, and of its callback.
SendStep(s) ==
  \/ RawWrite(s) \/ Attempt(s) \/ Register(s) \/ WaitFails(s) \/ Stop(s) \/ Join(s)
  \/ Unlock(s) \/ Recheck(s) \/ Mark(s) \/ Cleanup(s)

CallbackStep(s) == StartInterrupt(s) \/ Interrupt(s) \/ InterruptDone(s)

SendNext ==
  \/ \E s \in Senders :
       \/ \E c \in {"none", "live"} : Start(s, c)
       \/ \E w \in BOOLEAN : Lock(s, w)
       \/ LockContextDone(s) \/ Writable(s) \/ Cancel(s) \/ SendStep(s) \/ CallbackStep(s)
  \/ \E t \in SetValues : CheckDeadline(t)
  \/ ReplaceDeadline \/ Pass
  \/ Primitive \/ WakeShutdown \/ ReleaseConn
  \/ PeerEnds

SendSpec == SendInit /\ [][SendNext]_sendVars

\* Goroutines that can run do run.  The steps that take deadlineMu get strong
\* fairness: a sync.Mutex hands itself to a waiter that has starved for 1 ms,
\* so SetDeadline calls, however many, cannot keep it from them.  Buffer space,
\* the peer, cancellation, deadlines and the release are owed to nobody.
SendFairness ==
  /\ \A s \in Senders :
       /\ WF_sendVars(SendStep(s) \/ LockContextDone(s))
       /\ SF_sendVars(Recheck(s) \/ Mark(s) \/ Cleanup(s))
       /\ WF_sendVars(CallbackStep(s)) /\ SF_sendVars(Interrupt(s))
  /\ WF_sendVars(ReplaceDeadline)
  /\ SF_sendVars(WakeShutdown)

FairSendSpec == SendSpec /\ SendFairness

-----------------------------------------------------------------------------
(* Properties *)

SendPCs == {"idle", "lock", "recheck", "write", "attempt", "mark", "register",
        "wait", "returned", "join", "cleanup", "unlock"}

\* Every variable has its type.
SendTypeOK ==
  /\ mu \in Senders \cup {NoOne}
  /\ callerDeadline \in Deadlines /\ fdDeadline \in Deadlines \cup {"ago"}
  /\ {callerCrossed, callerFirst, parked, shutdownWake, interrupted,
      interruptDone, slow, wait, queued, crossed, closed}
       \subseteq BOOLEAN
  /\ sendErr \in {"nil", "ctxErr", "deadline", "ESHUTDOWN", "EPIPE", "EAGAIN",
              "ErrClosed"}
  /\ ended \in {"no", "past", "replaced", "ago"}
  /\ at \in [Senders -> SendPCs]
  /\ ctx \in [Senders -> {"none", "live", "done"}]
  /\ stop \in [Senders -> {"nil", "registered", "started", "moved", "sent"}]
  /\ assoc \in {"up", "shutting", "gone"}
  /\ setter \in Deadlines \cup {"idle"}
  /\ shutter \in {"idle", "wake", "done"}

\* A send leaves nothing behind for the next one.  Between two sends the
\* descriptor carries the write deadline the caller set last, also one set while
\* an interrupt or a shutdown wake was in force, and no callback and no
\* completion of one is outstanding; and interrupted is only ever set while the
\* lock is held by a send whose own context is done, so that send's ctx.Err() is
\* never asked of an ordinary send's nil context.
SendLeavesNoTrace ==
  /\ mu = NoOne /\ ~closed /\ DeadlineMuFree => fdDeadline = callerDeadline
  /\ mu = NoOne => ~interruptDone /\ \A s \in Senders : stop[s] = "nil"
  /\ interrupted => \E s \in Senders : mu = s /\ ctx[s] = "done"

\* Once startShutdown has run wakeShutdown, no send sits in the poller for
\* buffer space with nothing to wake it, whichever of the two came first: the
\* send's mark or the SHUTDOWN primitive.
ShutdownReachesParked ==
  \A s \in Senders :
    shutter = "done" /\ assoc = "shutting" /\ ~closed =>
      (at[s] \in {"register", "wait"} => InPast(fdDeadline))

\* What a send reports is what happened to it.  Known kernel acceptance wins
\* over cancellation, deadline and shutdown, and an error means that nothing was
\* queued.  os.ErrDeadlineExceeded is only reported when a write deadline of the
\* caller's was in the past during the send, never for the package's own
\* aLongTimeAgo; and a raw write that the caller's deadline ended reports it and
\* not the context or the shutdown, even if they move the deadline, or a
\* SetDeadline replaces it, before the send gets to look.
ErrorIsTrue ==
  \A s \in Senders : at[s] = "unlock" =>
    /\ queued <=> sendErr = "nil"
    /\ sendErr = "deadline" => crossed
    /\ ended = "past" => sendErr = "deadline"

\* "A wait the write deadline ended matches the latter and not a context
\* error, even if ctx is done by the time the call returns" (SendMsgContext),
\* with no exception for a deadline that passes inside setDeadline.
DeadlineNeverContext ==
  \A s \in Senders :
    at[s] = "unlock" /\ ended \in {"past", "replaced"} => sendErr # "ctxErr"

\* A cancelled send returns, and so does one that is parked when a local shutdown
\* has run, although buffer space may never come, the peer may never answer, and
\* other goroutines keep calling SetDeadline and Shutdown.
WokenSendReturns ==
  \A s \in Senders :
    /\ ctx[s] = "done" ~> at[s] = "idle"
    /\ shutter = "wake" /\ at[s] = "wait" ~> at[s] = "idle"
=============================================================================
