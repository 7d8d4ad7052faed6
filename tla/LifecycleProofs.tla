--------------------------- MODULE LifecycleProofs ---------------------------
(***************************************************************************)
(* Proofs, for any set of callers, of the safety properties of Lifecycle   *)
(* and of its refinement of Descriptor.                                    *)
(***************************************************************************)
EXTENDS Lifecycle, TLAPS

OwnPCs == HoldPCs \cup DonePCs

\* Which call each step belongs to.
CallPCs ==
  \A c \in Callers :
    /\ pc[c] \in ClosePCs \cup {"claim", "finish"} => op[c] = "close"
    /\ pc[c] \in {"load", "claimClosed", "claimAborting", "closeAbort",
                  "waitDone", "abortive"} => op[c] \in {"abort", "closeNow"}
    /\ pc[c] \in {"shutLoad", "shutClaim", "shutStart"} => op[c] = "shutdown"
    /\ pc[c] = "closeDone" => op[c] \in {"close", "abort", "closeNow"}
    /\ pc[c] # "idle" => ret[c] = "none" /\ op[c] # "none"

\* One call at a time holds the descriptor, and the state says which.
Ownership ==
  /\ \A c, d \in Callers : pc[c] \in OwnPCs /\ pc[d] \in OwnPCs => c = d
  /\ \A c \in Callers :
       /\ pc[c] \in HoldPCs => releases = 0
       /\ pc[c] \in DonePCs => releases = 1
       /\ pc[c] \in OwnPCs => ~done
       /\ pc[c] \in ClosePCs \cup {"finish"} =>
            state \in {"lifeClosing", "lifeAborting"}
       /\ pc[c] \in {"abortive", "closeDone"} => state = "lifeClosed"
       /\ state = "lifeOpen" => pc[c] \notin OwnPCs
  /\ state = "lifeOpen" => releases = 0
  /\ releases <= 1

\* The abort channel is closed by the one Abort that moved the state.
Overtaking ==
  /\ state \in {"lifeOpen", "lifeClosing"} =>
       ~abort /\ \A c \in Callers : pc[c] # "closeAbort"
  /\ \A c \in Callers : pc[c] = "closeAbort" => ~abort
  /\ \A c, d \in Callers : pc[c] = "closeAbort" /\ pc[d] = "closeAbort" => c = d

\* What the owner knows of the association once it has released.
EndOfAssoc ==
  \A c \in Callers :
    /\ pc[c] = "release" => assoc = "gone"
    /\ pc[c] \in DonePCs /\ err[c] = "nil" => assoc \in {"gone", "aborted"}

\* A Conn that was never opened stays so.
ZeroStaysZero ==
  ~made => /\ state = "lifeOpen"
           /\ \A c \in Callers : pc[c] \in {"idle", "claim", "load", "shutLoad"}

\* The inductive invariant.
IInv ==
  /\ TypeOK
  /\ CallPCs
  /\ Ownership
  /\ Overtaking
  /\ EndOfAssoc
  /\ ZeroStaysZero
  /\ ChannelsClosedOnce
  /\ DoneAfterRelease
  /\ AbortReturnsAfterRelease
  /\ NilCloseEndsAssoc
  /\ NoWaitOnUntouchedAssoc

-----------------------------------------------------------------------------

\* The invariant holds of a socket that is just open.
LEMMA InitIInv == Init => IInv
  <1> SUFFICES ASSUME Init PROVE IInv
    OBVIOUS
  <1>1. /\ ~abort /\ ~done /\ ~shut /\ ~expired /\ ~refused
        /\ abort \in BOOLEAN /\ done \in BOOLEAN /\ shut \in BOOLEAN
        /\ expired \in BOOLEAN /\ refused \in BOOLEAN
    BY Zenon DEF Init
  <1>2. /\ made \in BOOLEAN /\ state = "lifeOpen" /\ assoc = "up"
        /\ releases = 0 /\ pc = [c \in Callers |-> "idle"]
        /\ op = [c \in Callers |-> "none"] /\ err = [c \in Callers |-> "nil"]
        /\ ret = [c \in Callers |-> "none"]
    BY DEF Init
  <1>3. QED BY <1>1, <1>2 DEF IInv, TypeOK, CallPCs, Ownership, Overtaking, EndOfAssoc,
     ZeroStaysZero, ChannelsClosedOnce, DoneAfterRelease,
     AbortReturnsAfterRelease, NilCloseEndsAssoc, NoWaitOnUntouchedAssoc,
     LifeStates, Ops, PCs, HoldPCs, ClosePCs, DonePCs, OwnPCs

\* Every step keeps it.
LEMMA NextIInv == IInv /\ [Next]_vars => IInv'
  <1> SUFFICES ASSUME IInv, [Next]_vars PROVE IInv'
    OBVIOUS
  <1> USE DEF IInv, TypeOK, CallPCs, Ownership, Overtaking, EndOfAssoc,
        ZeroStaysZero, ChannelsClosedOnce, DoneAfterRelease,
        AbortReturnsAfterRelease, NilCloseEndsAssoc, NoWaitOnUntouchedAssoc,
        LifeStates, Ops, PCs, HoldPCs, ClosePCs, DonePCs, OwnPCs,
        lifeVars, callVars, sysVars, Goto, Step, StepErr, Return
  <1>1. ASSUME NEW c \in Callers, NEW o \in Ops, Call(c, o) PROVE IInv'
    BY <1>1 DEF Call, Entry
  <1>2. ASSUME NEW c \in Callers, ZeroValue(c) PROVE IInv'
    BY <1>2 DEF ZeroValue
  <1>3. ASSUME NEW c \in Callers, Claim(c) PROVE IInv'
    <2>1. CASE state = "lifeOpen"
      <3>1. expired' \in BOOLEAN
        BY <1>3, <2>1, Zenon DEF Claim
      <3>2. /\ made
            /\ state' = "lifeClosing"
            /\ Step(c, "claim", "storeShut")
            /\ UNCHANGED <<made, abort, done, shut, assoc, refused, releases>>
        BY <1>3, <2>1, Zenon DEF Claim
      <3>3. QED BY <2>1, <3>1, <3>2
    <2>2. CASE state # "lifeOpen"
      BY <1>3, <2>2 DEF Claim
    <2>3. QED BY <2>1, <2>2
  <1>4. ASSUME NEW c \in Callers, StoreShut(c) PROVE IInv'
    BY <1>4 DEF StoreShut
  <1>5. ASSUME NEW c \in Callers, CloseStartShutdown(c) PROVE IInv'
    <2>1. /\ Step(c, "startShutdown", "poll")
          /\ assoc' = "up" => assoc = "up" /\ refused'
          /\ assoc = "gone" => assoc' = "gone"
          /\ assoc' \in {"shutting", assoc}
          /\ refused' \in BOOLEAN
          /\ UNCHANGED <<lifeVars, expired, releases>>
      BY <1>5 DEF CloseStartShutdown, startShutdown
    <2>2. QED BY <2>1
  <1>6. ASSUME NEW c \in Callers, Poll(c) PROVE IInv'
    BY <1>6 DEF Poll
  <1>7. ASSUME NEW c \in Callers, Remaining(c) PROVE IInv'
    BY <1>7 DEF Remaining
  <1>8. ASSUME NEW c \in Callers, Select(c) PROVE IInv'
    BY <1>8 DEF Select
  <1>9. ASSUME NEW c \in Callers, Release(c) PROVE IInv'
    BY <1>9 DEF Release
  <1>10. ASSUME NEW c \in Callers, AbortClose(c) PROVE IInv'
    BY <1>10 DEF AbortClose, abortive
  <1>11. ASSUME NEW c \in Callers, Finish(c) PROVE IInv'
    BY <1>11 DEF Finish
  <1>12. ASSUME NEW c \in Callers, CloseDone(c) PROVE IInv'
    <2>1. CASE ~done
      <3>1. done' /\ done' \in BOOLEAN
        BY <1>12, <2>1, Zenon DEF CloseDone
      <3>2. /\ Return(c, "closeDone", err[c])
            /\ UNCHANGED <<made, state, abort, shut, sysVars>>
        BY <1>12, <2>1, Zenon DEF CloseDone
      <3>3. QED BY <3>1, <3>2
    <2>2. CASE done
      BY <1>12, <2>2 DEF CloseDone
    <2>3. QED BY <2>1, <2>2
  <1>13. ASSUME NEW c \in Callers, Load(c) PROVE IInv'
    BY <1>13 DEF Load
  <1>14. ASSUME NEW c \in Callers, ClaimClosed(c) PROVE IInv'
    BY <1>14 DEF ClaimClosed
  <1>15. ASSUME NEW c \in Callers, FinishAbortive(c) PROVE IInv'
    BY <1>15 DEF FinishAbortive, abortive
  <1>16. ASSUME NEW c \in Callers, ClaimAborting(c) PROVE IInv'
    BY <1>16 DEF ClaimAborting
  <1>17. ASSUME NEW c \in Callers, CloseAbort(c) PROVE IInv'
    <2>1. CASE ~abort
      <3>1. abort' /\ abort' \in BOOLEAN
        BY <1>17, <2>1, Zenon DEF CloseAbort
      <3>2. /\ Step(c, "closeAbort", "waitDone")
            /\ UNCHANGED <<made, state, done, shut, sysVars>>
        BY <1>17, <2>1, Zenon DEF CloseAbort
      <3>3. QED BY <3>1, <3>2
    <2>2. CASE abort
      BY <1>17, <2>2 DEF CloseAbort
    <2>3. QED BY <2>1, <2>2
  <1>18. ASSUME NEW c \in Callers, WaitDone(c) PROVE IInv'
    BY <1>18 DEF WaitDone
  <1>19. ASSUME NEW c \in Callers, ShutLoad(c) PROVE IInv'
    BY <1>19 DEF ShutLoad
  <1>20. ASSUME NEW c \in Callers, ShutClaim(c) PROVE IInv'
    BY <1>20 DEF ShutClaim
  <1>21. ASSUME NEW c \in Callers, ShutStart(c) PROVE IInv'
    <2>1. /\ \E e \in {"nil", "error", "ErrClosed"} : Return(c, "shutStart", e)
          /\ assoc' \in {"shutting", assoc}
          /\ assoc # "up" => assoc' = assoc
          /\ refused => refused'
          /\ refused' \in BOOLEAN
          /\ UNCHANGED <<lifeVars, expired, releases>>
      BY <1>21 DEF ShutStart, startShutdown
    <2>2. QED BY <2>1
  <1>22. CASE Expire
    <2>1. expired' \in BOOLEAN
      BY <1>22, Zenon DEF Expire
    <2>2. UNCHANGED <<lifeVars, callVars, assoc, refused, releases>>
      BY <1>22, Zenon DEF Expire
    <2>3. QED BY <2>1, <2>2
  <1>23. CASE PeerShutdown
    BY <1>23 DEF PeerShutdown
  <1>24. CASE AssocEnds
    BY <1>24 DEF AssocEnds
  <1>25. CASE UNCHANGED vars
    BY <1>25 DEF vars
  <1> HIDE DEF IInv, lifeVars, callVars, sysVars, Goto, Step, StepErr, Return
  <1>26. QED
    BY <1>1, <1>2, <1>3, <1>4, <1>5, <1>6, <1>7, <1>8, <1>9, <1>10, <1>11,
       <1>12, <1>13, <1>14, <1>15, <1>16, <1>17, <1>18, <1>19, <1>20, <1>21,
       <1>22, <1>23, <1>24, <1>25 DEF Next, CallStep

\* Spec keeps the inductive invariant.
THEOREM Invariance == Spec => []IInv
  BY InitIInv, NextIInv, PTL DEF Spec

\* Type correctness of the close machine.
THEOREM TypeCorrect == Spec => []TypeOK
  <1>1. IInv => TypeOK
    BY DEF IInv
  <1>2. QED BY Invariance, <1>1, PTL

\* Any number of racing Close, CloseWithTimeout and Abort calls give the
\* descriptor at most one close(2).
THEOREM ReleasedAtMostOnce == Spec => []ReleasedOnce
  <1>1. IInv => ReleasedOnce
    BY DEF IInv, Ownership, ReleasedOnce
  <1>2. QED BY Invariance, <1>1, PTL

\* No call of close.go closes the abort or the done channel twice.
THEOREM NoDoubleChannelClose == Spec => []ChannelsClosedOnce
  <1>1. IInv => ChannelsClosedOnce
    BY DEF IInv
  <1>2. QED BY Invariance, <1>1, PTL

\* done closed means closed and released, and an Abort that returns nil or a
\* Close that returns nil has seen the release; such a Close leaves no live
\* association.
THEOREM TruthfulAnswers ==
  Spec => [](DoneAfterRelease /\ AbortReturnsAfterRelease /\ NilCloseEndsAssoc)
  <1>1. IInv => DoneAfterRelease /\ AbortReturnsAfterRelease /\ NilCloseEndsAssoc
    BY DEF IInv
  <1>2. QED BY Invariance, <1>1, PTL

\* A Close never waits out its grace on an association that was not asked to
\* shut down.
THEOREM WaitsAreStarted == Spec => []NoWaitOnUntouchedAssoc
  <1>1. IInv => NoWaitOnUntouchedAssoc
    BY DEF IInv
  <1>2. QED BY Invariance, <1>1, PTL

-----------------------------------------------------------------------------
\* The state only moves forward: the compare-and-swaps of close and abortNow
\* and the store of finish.
THEOREM ForwardOnly == Spec => StateForward
  <1>1. IInv /\ [Next]_vars => [state' \in Ahead(state)]_state
    <2> SUFFICES ASSUME IInv, [Next]_vars, state' # state
                 PROVE  state' \in Ahead(state)
      BY Zenon
    <2>1. PICK c \in Callers : Claim(c) \/ Finish(c) \/ ClaimClosed(c) \/ ClaimAborting(c)
      BY DEF Next, vars, lifeVars, CallStep, Call, ZeroValue, StoreShut,
         CloseStartShutdown, Poll, Remaining, Select, Release, AbortClose,
         CloseDone, Load, FinishAbortive, CloseAbort, WaitDone, ShutLoad,
         ShutClaim, ShutStart, abortive, Expire, PeerShutdown, AssocEnds
    <2>2. CASE Claim(c)
      BY <2>2 DEF Claim, Ahead
    <2>3. CASE Finish(c)
      BY <2>3 DEF Finish, Step, Goto, Ahead, IInv, Ownership
    <2>4. CASE ClaimClosed(c)
      BY <2>4 DEF ClaimClosed, Ahead
    <2>5. CASE ClaimAborting(c)
      BY <2>5 DEF ClaimAborting, Ahead
    <2>6. QED BY <2>1, <2>2, <2>3, <2>4, <2>5
  <1>2. QED BY Invariance, <1>1, PTL DEF Spec, StateForward

-----------------------------------------------------------------------------
(* Refinement: each step is a step of Descriptor or changes nothing in it. *)

\* The initial states map to initial states.
LEMMA InitRefines == Init => D!Init
  BY DEF Init, D!Init, fdBar, ownerBar, callBar, HoldPCs, ClosePCs, DonePCs

\* A step inside a call that neither takes nor gives up the descriptor is
\* invisible to Descriptor.
LEMMA InnerStep ==
  ASSUME NEW c \in Callers, NEW from \in PCs \ {"idle"}, NEW to \in PCs \ {"idle"},
         IInv, Goto(c, from, to), UNCHANGED <<op, ret, fdBar>>,
         from \in OwnPCs <=> to \in OwnPCs
  PROVE  UNCHANGED D!vars
  <1>1. callBar' = callBar
    BY DEF callBar, Goto, IInv, TypeOK
  <1>2. ownerBar' = ownerBar
    BY DEF ownerBar, Goto, IInv, TypeOK, OwnPCs
  <1>3. QED BY <1>1, <1>2 DEF D!vars

\* A return is an answer Descriptor allows.
LEMMA ReturnStep ==
  ASSUME NEW c \in Callers, NEW from \in PCs \ {"idle"},
         NEW e \in {"nil", "error", "ErrClosed"},
         IInv, Return(c, from, e), UNCHANGED fdBar, D!MayAnswer(c, e)
  PROVE  D!Next
  <1>1. callBar' = [callBar EXCEPT ![c] = "none"] /\ callBar[c] # "none"
    BY Zenon DEF callBar, Return, Goto, IInv, TypeOK, CallPCs, Ops
  <1>2. ownerBar' = ownerBar \ {c}
    BY DEF ownerBar, Return, Goto, IInv, TypeOK, OwnPCs, HoldPCs, ClosePCs, DonePCs
  <1>3. ret' = [ret EXCEPT ![c] = e]
    BY DEF Return
  <1>4. D!Answer(c, e)
    BY <1>1, <1>2, <1>3 DEF D!Answer
  <1>5. QED BY <1>4 DEF D!Next, D!Answers

\* Every step maps to a step or a stutter.
LEMMA NextRefines == IInv /\ IInv' /\ [Next]_vars => [D!Next]_(D!vars)
  <1> SUFFICES ASSUME IInv, IInv', [Next]_vars PROVE D!Next \/ UNCHANGED D!vars
    OBVIOUS
  <1> DEFINE Refines == D!Next \/ UNCHANGED D!vars
  <1>1. ASSUME NEW c \in Callers, NEW o \in Ops, Call(c, o) PROVE Refines
    <2>1. callBar' = [callBar EXCEPT ![c] = IF o = "closeNow" THEN "abort" ELSE o]
      BY <1>1, Zenon DEF Call, Entry, Goto, callBar, Ops, IInv, TypeOK
    <2>2. ownerBar' = ownerBar
      BY <1>1 DEF Call, Entry, Goto, ownerBar, IInv, TypeOK, HoldPCs, ClosePCs, DonePCs
    <2>3. ret' = [ret EXCEPT ![c] = "none"] /\ callBar[c] = "none" /\ fdBar' = fdBar
      BY <1>1 DEF Call, Goto, callBar, fdBar, lifeVars, sysVars
    <2>4. \E a \in D!Ops : D!Invoke(c, a)
      BY <2>1, <2>2, <2>3, Zenon DEF D!Invoke, D!Ops, Ops
    <2>5. QED BY <2>4 DEF D!Next
  <1> USE DEF PCs, HoldPCs, ClosePCs, DonePCs, OwnPCs, Step, StepErr, Goto
  <1>2. ASSUME NEW c \in Callers, ZeroValue(c) PROVE Refines
    <2>1. PICK from \in {"claim", "load", "shutLoad"} : Return(c, from, "ErrClosed")
      BY <1>2 DEF ZeroValue
    <2>2. UNCHANGED fdBar /\ D!MayAnswer(c, "ErrClosed")
      BY <1>2, <2>1 DEF ZeroValue, fdBar, ownerBar, lifeVars, sysVars, D!MayAnswer,
         Return
    <2>3. QED BY <2>1, <2>2, ReturnStep
  <1>3. ASSUME NEW c \in Callers, Claim(c) PROVE Refines
    <2>1. CASE state = "lifeOpen"
      <3>1. /\ pc[c] = "claim" /\ pc' = [pc EXCEPT ![c] = "storeShut"]
            /\ made /\ made' = made /\ releases' = releases /\ releases = 0
            /\ state' = "lifeClosing" /\ UNCHANGED <<op, ret>>
        BY <1>3, <2>1 DEF Claim, IInv, Ownership
      <3>2. fdBar = "open" /\ fdBar' = "claimed"
        BY <2>1, <3>1 DEF fdBar
      <3>3. callBar' = callBar /\ callBar[c] = "close"
        BY <3>1 DEF callBar, IInv, TypeOK, CallPCs
      <3>4. ownerBar' = {c}
        <4>1. \A d \in Callers : pc[d] \notin OwnPCs
          BY <2>1 DEF IInv, Ownership
        <4>2. \A d \in Callers : pc'[d] \in OwnPCs <=> d = c
          BY <3>1, <4>1 DEF IInv, TypeOK
        <4>3. QED BY <4>2 DEF ownerBar
      <3>5. D!Claim(c)
        BY <3>1, <3>2, <3>3, <3>4 DEF D!Claim
      <3>6. QED BY <3>5 DEF D!Next
    <2>2. CASE state # "lifeOpen"
      <3>1. Return(c, "claim", "ErrClosed") /\ UNCHANGED fdBar
        BY <1>3, <2>2 DEF Claim, fdBar
      <3>2. D!MayAnswer(c, "ErrClosed")
        BY <2>2, <3>1 DEF D!MayAnswer, fdBar, ownerBar, Return
      <3>3. QED BY <3>1, <3>2, ReturnStep
    <2>3. QED BY <2>1, <2>2
  <1>4. ASSUME NEW c \in Callers, StoreShut(c) \/ CloseStartShutdown(c) \/ Poll(c)
                                   \/ Remaining(c) \/ Select(c)
        PROVE Refines
    <2>1. PICK from \in ClosePCs, to \in ClosePCs :
             Goto(c, from, to) /\ UNCHANGED <<op, ret, made, state, releases>>
      BY <1>4 DEF StoreShut, CloseStartShutdown, startShutdown, Poll, Remaining,
         Select, lifeVars, sysVars
    <2>2. UNCHANGED <<op, ret, fdBar>>
      BY <2>1 DEF fdBar
    <2>3. QED BY <2>1, <2>2, InnerStep, Zenon
  <1>5. ASSUME NEW c \in Callers, Release(c) \/ AbortClose(c) \/ FinishAbortive(c)
        PROVE Refines
    <2>1. PICK from \in HoldPCs, to \in DonePCs :
             /\ Goto(c, from, to) /\ UNCHANGED <<op, ret, made, state>>
             /\ releases' = releases + 1
      BY <1>5 DEF Release, AbortClose, FinishAbortive, abortive, lifeVars
    <2>2. fdBar = "claimed" /\ fdBar' = "released" /\ c \in ownerBar
      <3>1. releases = 0 /\ state # "lifeOpen" /\ made
        BY <2>1 DEF IInv, Ownership, ZeroStaysZero
      <3>2. fdBar = "claimed" /\ fdBar' = "released"
        BY <2>1, <3>1 DEF fdBar
      <3>3. c \in ownerBar
        BY <2>1 DEF ownerBar
      <3>4. QED BY <3>2, <3>3
    <2>3. callBar' = callBar /\ ownerBar' = ownerBar
      BY <2>1 DEF callBar, ownerBar, IInv, TypeOK
    <2>4. D!Release(c)
      BY <2>1, <2>2, <2>3 DEF D!Release
    <2>5. QED BY <2>4 DEF D!Next
  <1>6. ASSUME NEW c \in Callers, Finish(c) PROVE Refines
    <2>1. Goto(c, "finish", "closeDone") /\ UNCHANGED <<op, ret, made, releases>>
      BY <1>6 DEF Finish, sysVars
    <2>2. UNCHANGED <<op, ret, fdBar>>
      BY <2>1 DEF fdBar, IInv, Ownership
    <2>3. QED BY <2>1, <2>2, InnerStep, Zenon
  <1>7. ASSUME NEW c \in Callers, CloseDone(c) PROVE Refines
    <2>1. ~done
      BY <1>7 DEF CloseDone, IInv, Ownership, Return
    <2>2. Return(c, "closeDone", err[c]) /\ UNCHANGED <<made, state, releases>>
      BY <1>7, <2>1, Zenon DEF CloseDone, sysVars
    <2>3. UNCHANGED fdBar /\ err[c] \in {"nil", "error"}
      BY <2>2 DEF fdBar, IInv, TypeOK
    <2>4. D!MayAnswer(c, err[c])
      <3>1. pc[c] = "closeDone"
        BY <2>2 DEF Return
      <3>2. c \in ownerBar
        BY <3>1 DEF ownerBar
      <3>3. releases = 1
        BY <3>1 DEF IInv, Ownership
      <3>4. fdBar = "released"
        BY <3>3 DEF fdBar
      <3>5. QED BY <2>3, <3>2, <3>4 DEF D!MayAnswer
    <2>5. QED BY <2>2, <2>3, <2>4, ReturnStep
  <1>8. ASSUME NEW c \in Callers, Load(c) PROVE Refines
    <2>1. CASE state = "lifeClosed"
      <3>1. Return(c, "load", "ErrClosed") /\ UNCHANGED fdBar
        BY <1>8, <2>1 DEF Load, fdBar, lifeVars, sysVars
      <3>2. D!MayAnswer(c, "ErrClosed")
        BY <2>1, <3>1 DEF D!MayAnswer, fdBar, ownerBar, Return
      <3>3. QED BY <3>1, <3>2, ReturnStep
    <2>2. CASE state # "lifeClosed"
      <3>1. PICK to \in {"claimClosed", "claimAborting", "waitDone"} :
              Goto(c, "load", to) /\ UNCHANGED <<op, ret, made, state, releases>>
        BY <1>8, <2>2 DEF Load, lifeVars, sysVars
      <3>2. UNCHANGED <<op, ret, fdBar>>
        BY <3>1 DEF fdBar
      <3>3. /\ "load" \in PCs \ {"idle"} /\ to \in PCs \ {"idle"}
            /\ "load" \in OwnPCs <=> to \in OwnPCs
        BY <3>1
      <3>4. QED BY <3>1, <3>2, <3>3, InnerStep, Zenon
    <2>3. QED BY <2>1, <2>2
  <1>9. ASSUME NEW c \in Callers, ClaimClosed(c) PROVE Refines
    <2>1. CASE state = "lifeOpen"
      <3>1. /\ pc[c] = "claimClosed" /\ pc' = [pc EXCEPT ![c] = "abortive"]
            /\ made /\ made' = made /\ releases' = releases /\ releases = 0
            /\ state' = "lifeClosed" /\ UNCHANGED <<op, ret>>
        BY <1>9, <2>1 DEF ClaimClosed, IInv, Ownership, ZeroStaysZero, sysVars
      <3>2. fdBar = "open" /\ fdBar' = "claimed"
        BY <2>1, <3>1 DEF fdBar
      <3>3. callBar' = callBar /\ callBar[c] = "abort"
        BY <3>1 DEF callBar, IInv, TypeOK, CallPCs
      <3>4. ownerBar' = {c}
        <4>1. \A d \in Callers : pc[d] \notin OwnPCs
          BY <2>1 DEF IInv, Ownership
        <4>2. \A d \in Callers : pc'[d] \in OwnPCs <=> d = c
          BY <3>1, <4>1 DEF IInv, TypeOK
        <4>3. QED BY <4>2 DEF ownerBar
      <3>5. D!Claim(c)
        BY <3>1, <3>2, <3>3, <3>4 DEF D!Claim
      <3>6. QED BY <3>5 DEF D!Next
    <2>2. CASE state # "lifeOpen"
      <3>1. Goto(c, "claimClosed", "load") /\ UNCHANGED <<op, ret, fdBar>>
        BY <1>9, <2>2 DEF ClaimClosed, fdBar, sysVars
      <3>2. QED BY <3>1, InnerStep, Zenon
    <2>3. QED BY <2>1, <2>2
  <1>10. ASSUME NEW c \in Callers, ClaimAborting(c) \/ CloseAbort(c) PROVE Refines
    <2>1. PICK from \in {"claimAborting", "closeAbort"},
               to \in {"closeAbort", "load", "waitDone", "panicked"} :
             /\ Goto(c, from, to) /\ UNCHANGED <<op, ret, made, releases>>
             /\ state = "lifeOpen" <=> state' = "lifeOpen"
      BY <1>10 DEF ClaimAborting, CloseAbort, sysVars
    <2>2. UNCHANGED <<op, ret, fdBar>>
      BY <2>1 DEF fdBar
    <2>3. /\ from \in PCs \ {"idle"} /\ to \in PCs \ {"idle"}
          /\ from \in OwnPCs <=> to \in OwnPCs
      BY <2>1
    <2>4. QED BY <2>1, <2>2, <2>3, InnerStep, Zenon
  <1>11. ASSUME NEW c \in Callers, WaitDone(c) PROVE Refines
    <2>1. Return(c, "waitDone", "nil") /\ UNCHANGED fdBar /\ done
      BY <1>11 DEF WaitDone, fdBar, lifeVars, sysVars
    <2>2. releases = 1 /\ callBar[c] = "abort" /\ c \notin ownerBar
      BY <2>1 DEF IInv, DoneAfterRelease, CallPCs, callBar, ownerBar, Return
    <2>3. D!MayAnswer(c, "nil")
      BY <2>2 DEF D!MayAnswer, fdBar
    <2>4. QED BY <2>1, <2>3, ReturnStep
  <1>12. ASSUME NEW c \in Callers, ShutLoad(c) PROVE Refines
    <2>1. CASE state = "lifeOpen"
      <3>1. Goto(c, "shutLoad", "shutClaim") /\ UNCHANGED <<op, ret, fdBar>>
        BY <1>12, <2>1 DEF ShutLoad, fdBar, lifeVars, sysVars
      <3>2. QED BY <3>1, InnerStep, Zenon
    <2>2. CASE state # "lifeOpen"
      <3>1. Return(c, "shutLoad", "ErrClosed") /\ UNCHANGED fdBar
        BY <1>12, <2>2 DEF ShutLoad, fdBar, lifeVars, sysVars
      <3>2. D!MayAnswer(c, "ErrClosed")
        BY <2>2, <3>1 DEF D!MayAnswer, fdBar, ownerBar, Return
      <3>3. QED BY <3>1, <3>2, ReturnStep
    <2>3. QED BY <2>1, <2>2
  <1>13. ASSUME NEW c \in Callers, ShutClaim(c) PROVE Refines
    <2>1. UNCHANGED fdBar
      BY <1>13 DEF ShutClaim, fdBar, sysVars
    <2>2. CASE Return(c, "shutClaim", "nil")
      <3>1. D!MayAnswer(c, "nil")
        BY <2>2 DEF D!MayAnswer, callBar, Return, IInv, CallPCs
      <3>2. QED BY <2>1, <2>2, <3>1, ReturnStep
    <2>3. CASE Step(c, "shutClaim", "shutStart")
      BY <2>1, <2>3, InnerStep, Zenon
    <2>4. QED BY <1>13, <2>2, <2>3 DEF ShutClaim
  <1>14. ASSUME NEW c \in Callers, ShutStart(c) PROVE Refines
    <2>1. PICK e \in {"nil", "error", "ErrClosed"} :
            /\ Return(c, "shutStart", e) /\ UNCHANGED <<made, state, releases>>
            /\ e = "ErrClosed" => releases > 0
      BY <1>14 DEF ShutStart, startShutdown, lifeVars, sysVars
    <2>2. UNCHANGED fdBar
      BY <2>1 DEF fdBar
    <2>3. D!MayAnswer(c, e)
      BY <2>1 DEF D!MayAnswer, callBar, fdBar, ownerBar, Return, IInv, CallPCs
    <2>4. QED BY <2>1, <2>2, <2>3, ReturnStep
  <1>15. ASSUME Expire \/ PeerShutdown \/ AssocEnds \/ UNCHANGED vars PROVE Refines
    <2>1. UNCHANGED <<made, state, releases, pc, op, ret>>
      BY <1>15 DEF Expire, PeerShutdown, AssocEnds, vars, lifeVars, callVars, sysVars
    <2>2. QED BY <2>1 DEF D!vars, fdBar, ownerBar, callBar
  <1> HIDE DEF Refines, PCs, HoldPCs, ClosePCs, DonePCs, OwnPCs, Step, StepErr, Goto
  <1>16. Refines
    BY <1>1, <1>2, <1>3, <1>4, <1>5, <1>6, <1>7, <1>8, <1>9, <1>10, <1>11,
       <1>12, <1>13, <1>14, <1>15 DEF Next, CallStep
  <1>17. QED BY <1>16 DEF Refines

\* The close machine implements the abstract descriptor: one owner, one
\* release, truthful answers, for any number of callers.
THEOREM Refinement == Spec => ImplementsDescriptor
  BY InitRefines, NextRefines, Invariance, PTL
     DEF Spec, ImplementsDescriptor, D!Spec
=============================================================================
