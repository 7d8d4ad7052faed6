----------------------------- MODULE WaitProofs -----------------------------
(* Proofs about the two calls that wait: a send on a Conn, for every set of     *)
(* senders and of deadlines, and the close of a one-to-many socket, for every   *)
(* number of ids and of associations.                                           *)
EXTENDS SendWait, EndpointClose, TLAPS

-----------------------------------------------------------------------------
(* A send: the three safety properties of the send_wait run *)

\* Each variable and its type.
SendTypes ==
  /\ mu \in Senders \cup {NoOne}
  /\ callerDeadline \in Deadlines /\ fdDeadline \in Deadlines \cup {"ago"}
  /\ callerCrossed \in BOOLEAN /\ callerFirst \in BOOLEAN /\ parked \in BOOLEAN
  /\ shutdownWake \in BOOLEAN /\ interrupted \in BOOLEAN /\ interruptDone \in BOOLEAN
  /\ slow \in BOOLEAN /\ wait \in BOOLEAN /\ queued \in BOOLEAN /\ crossed \in BOOLEAN
  /\ closed \in BOOLEAN
  /\ sendErr \in {"nil", "ctxErr", "deadline", "ESHUTDOWN", "EPIPE", "EAGAIN", "ErrClosed"}
  /\ ended \in {"no", "past", "replaced", "ago"}
  /\ at \in [Senders -> SendPCs]
  /\ ctx \in [Senders -> {"none", "live", "done"}]
  /\ stop \in [Senders -> {"nil", "registered", "started", "moved", "sent"}]
  /\ assoc \in {"up", "shutting", "gone"}
  /\ setter \in Deadlines \cup {"idle"}
  /\ shutter \in {"idle", "wake", "done"}

\* A send that has the lock: before its verdict, with it, and the steps at which
\* it may be marked parked.
Trying  == {"recheck", "write", "attempt", "mark", "register", "wait"}
Ending  == {"returned", "join", "cleanup"}
Waiting == {"attempt", "mark", "register", "wait"} \cup Ending

\* The send lock is held by the one sender that is past it.
Owner == \A s \in Senders : mu = s <=> at[s] \notin {"idle", "lock"}

\* A callback belongs to the slow send that holds the lock and has not joined it;
\* the channel holds its completion and no other.
Callbacks ==
  /\ \A s \in Senders :
       /\ stop[s] # "nil" =>
            /\ mu = s /\ slow /\ ctx[s] # "none"
            /\ at[s] \in {"attempt", "mark", "register", "wait", "returned", "join"}
       /\ stop[s] \in {"started", "moved", "sent"} => ctx[s] = "done"
       /\ stop[s] = "sent" => interruptDone
       /\ at[s] = "join" => stop[s] \in {"started", "moved", "sent"}
  /\ interruptDone => \E s \in Senders : stop[s] = "sent"

\* What the flags under deadlineMu say of the send that holds the lock.
Flags ==
  /\ \A s \in Senders :
       /\ at[s] \in {"register", "wait", "join", "cleanup"} => slow
       /\ at[s] \in {"recheck", "write"} => ~slow
       /\ at[s] \in Waiting /\ slow => parked
  /\ mu = NoOne => ~slow
  /\ parked => slow /\ \E s \in Senders : at[s] \in Waiting
  /\ shutdownWake => parked
  /\ interrupted =>
       /\ parked
       /\ \E s \in Senders :
            /\ mu = s /\ ctx[s] = "done"
            /\ stop[s] \in {"moved", "sent"} \/ at[s] = "cleanup"

\* A wake has moved the descriptor's deadline.
Woken == interrupted \/ shutdownWake

\* The descriptor has the caller's deadline unless a wake has moved it.
Deadline ==
  /\ ~closed /\ ~Woken => fdDeadline = callerDeadline
  /\ ~closed /\ Woken => fdDeadline = "ago"

\* A send that parks after the primitive finds the association shutting down, and
\* one that parked before it is woken.
Shut ==
  /\ shutter # "idle" => assoc # "up"
  /\ \A s \in Senders :
       shutter = "done" /\ assoc = "shutting" /\ at[s] \in {"register", "wait"} => Woken

\* A deadline of the caller's that has passed leaves a mark for as long as the
\* send holds the lock.
Crossing ==
  /\ mu # NoOne /\ callerDeadline = "past" => crossed
  /\ Woken /\ callerFirst => crossed
  /\ \A s \in Senders :
       /\ mu = s /\ callerCrossed
       /\ slow \/ (ctx[s] # "none" /\ at[s] \notin {"recheck", "unlock"})
       => crossed

\* The error of the send that holds the lock, and how it came about.
Errors ==
  \A s \in Senders :
    /\ at[s] \in Trying => sendErr = "nil" /\ ~queued /\ ended = "no"
    /\ at[s] \in Ending \cup {"unlock"} => (queued <=> sendErr = "nil")
    /\ at[s] \in Ending /\ sendErr = "deadline" => crossed \/ Woken
    /\ at[s] \in Ending /\ ended = "past" =>
         /\ sendErr = "deadline"
         /\ Woken => callerFirst
         /\ callerCrossed \/ (callerDeadline = "past" /\ setter = "idle")
    /\ at[s] = "unlock" /\ sendErr = "deadline" => crossed
    /\ at[s] = "unlock" /\ ended = "past" => sendErr = "deadline"

\* The inductive invariant.
SendInv ==
  SendTypes /\ Owner /\ Callbacks /\ Flags /\ Deadline /\ Shut /\ Crossing /\ Errors

\* The invariant holds before the first send.
LEMMA SendStarts == SendInit => SendInv
<1> SUFFICES ASSUME SendInit PROVE SendInv
  OBVIOUS
<1>1. /\ callerCrossed \in BOOLEAN /\ callerFirst \in BOOLEAN /\ parked \in BOOLEAN
      /\ shutdownWake \in BOOLEAN /\ interrupted \in BOOLEAN
      /\ interruptDone \in BOOLEAN /\ slow \in BOOLEAN /\ wait \in BOOLEAN
      /\ queued \in BOOLEAN /\ crossed \in BOOLEAN /\ closed \in BOOLEAN
  BY Zenon DEF SendInit
<1>2. QED
  BY <1>1, SendAssumption
  DEF SendInit, SendInv, SendTypes, Owner, Callbacks, Flags, Woken, Deadline, Shut, Crossing,
      Errors, Trying, Ending, Waiting, Deadlines, SendPCs

\* Every step of a send, of its callback, of SetDeadline, of a shutdown and of the
\* kernel keeps the invariant.
LEMMA SendSteps == SendInv /\ [SendNext]_sendVars => SendInv'
<1> SUFFICES ASSUME SendInv, [SendNext]_sendVars PROVE SendInv'
  OBVIOUS
<1> USE SendAssumption
    DEF SendInv, SendTypes, Owner, Callbacks, Flags, Woken, Deadline, Shut, Crossing,
        Errors, Trying, Ending, Waiting, Deadlines, SendPCs, Goto, DeadlineMuFree,
        ownVars, flagVars, sysVars, actVars
<1>1. ASSUME NEW s \in Senders, NEW c \in {"none", "live"}, Start(s, c) PROVE SendInv'
  BY <1>1, SMTT(20) DEF Start
<1>2. ASSUME NEW s \in Senders, NEW w \in BOOLEAN, Lock(s, w) PROVE SendInv'
  <2>1. /\ slow' \in BOOLEAN /\ queued' \in BOOLEAN /\ crossed' \in BOOLEAN
        /\ ~slow' /\ ~queued' /\ (crossed' <=> callerDeadline = "past")
    BY <1>2, Zenon DEF Lock, NewSend
  <2>2. QED
    BY <1>2, <2>1 DEF Lock, NewSend
<1>3. ASSUME NEW s \in Senders, LockContextDone(s) PROVE SendInv'
  BY <1>3 DEF LockContextDone
<1>4. ASSUME NEW s \in Senders, Recheck(s) PROVE SendInv'
  <2>1. CASE ctx[s] = "done"
    BY <1>4, <2>1 DEF Recheck
  <2>2. CASE ctx[s] # "done"
    <3>1. callerCrossed' \in BOOLEAN /\ ~callerCrossed'
      BY <1>4, <2>2, Zenon DEF Recheck
    <3>2. QED
      BY <1>4, <2>2, <3>1 DEF Recheck
  <2>3. QED
    BY <2>1, <2>2, Zenon
<1>5. ASSUME NEW s \in Senders, RawWrite(s) PROVE SendInv'
  <2>1. CASE InPast(fdDeadline) \/ closed
    BY <1>5, <2>1, SMTT(20) DEF RawWrite, RawWriteFails, InPast
  <2>2. CASE ~InPast(fdDeadline) /\ ~closed
    BY <1>5, <2>2, SMTT(20) DEF RawWrite, RawWriteFails
  <2>3. QED
    BY <2>1, <2>2, Zenon
<1>6. ASSUME NEW s \in Senders, Attempt(s) PROVE SendInv'
  <2>1. queued' \in BOOLEAN
    BY <1>6, Zenon DEF Attempt
  <2>2. QED
    BY <1>6, <2>1 DEF Attempt
<1>7. ASSUME NEW s \in Senders, Mark(s) PROVE SendInv'
  BY <1>7 DEF Mark
<1>8. ASSUME NEW s \in Senders, Register(s) PROVE SendInv'
  BY <1>8 DEF Register
<1>9. ASSUME NEW s \in Senders, WaitFails(s) PROVE SendInv'
  BY <1>9 DEF WaitFails, RawWriteFails, InPast
<1>10. ASSUME NEW s \in Senders, Writable(s) PROVE SendInv'
  BY <1>10 DEF Writable
<1>11. ASSUME NEW s \in Senders, Stop(s) PROVE SendInv'
  BY <1>11 DEF Stop
<1>12. ASSUME NEW s \in Senders, Join(s) PROVE SendInv'
  <2>1. interruptDone' \in BOOLEAN /\ ~interruptDone'
    BY <1>12, Zenon DEF Join
  <2>2. QED
    BY <1>12, <2>1 DEF Join
<1>13. ASSUME NEW s \in Senders, Cleanup(s) PROVE SendInv'
  <2>1. /\ interrupted' \in BOOLEAN /\ shutdownWake' \in BOOLEAN /\ parked' \in BOOLEAN
        /\ ~interrupted' /\ ~shutdownWake' /\ ~parked'
    BY <1>13, Zenon DEF Cleanup, RenamedError, RestoredDeadline
  <2>2. QED
    BY <1>13, <2>1 DEF Cleanup, RenamedError, RestoredDeadline
<1>14. ASSUME NEW s \in Senders, Unlock(s) PROVE SendInv'
  <2>1. /\ slow' \in BOOLEAN /\ queued' \in BOOLEAN /\ crossed' \in BOOLEAN
        /\ ~slow' /\ ~queued' /\ ~crossed' /\ wait' \in BOOLEAN
    BY <1>14, Zenon DEF Unlock, NewSend
  <2>2. QED
    BY <1>14, <2>1 DEF Unlock, NewSend
<1>15. ASSUME NEW s \in Senders, Cancel(s) PROVE SendInv'
  BY <1>15 DEF Cancel
<1>16. ASSUME NEW s \in Senders, StartInterrupt(s) PROVE SendInv'
  BY <1>16 DEF StartInterrupt
<1>17. ASSUME NEW s \in Senders, Interrupt(s) PROVE SendInv'
  <2>1. /\ callerFirst' \in BOOLEAN /\ interrupted' \in BOOLEAN
        /\ shutdownWake \/ (callerFirst' <=> callerCrossed \/ callerDeadline = "past")
    BY <1>17, Zenon DEF Interrupt, MoveDeadline
  <2>2. QED
    BY <1>17, <2>1, SMTT(20) DEF Interrupt, MoveDeadline
<1>18. ASSUME NEW s \in Senders, InterruptDone(s) PROVE SendInv'
  BY <1>18 DEF InterruptDone
<1>19. ASSUME NEW t \in SetValues, CheckDeadline(t) PROVE SendInv'
  BY <1>19 DEF CheckDeadline
<1>20. CASE ReplaceDeadline
  <2>1. /\ crossed' \in BOOLEAN
        /\ crossed' <=> (mu # NoOne /\ (crossed \/ setter = "past"))
    BY <1>20, Zenon DEF ReplaceDeadline
  <2>2. QED
    BY <1>20, <2>1 DEF ReplaceDeadline
<1>21. CASE Pass
  <2>1. crossed' \in BOOLEAN /\ (crossed' <=> mu # NoOne)
    BY <1>21, Zenon DEF Pass
  <2>2. QED
    BY <1>21, <2>1 DEF Pass
<1>22. CASE Primitive
  BY <1>22 DEF Primitive
<1>23. CASE WakeShutdown
  <2>1. /\ callerFirst' \in BOOLEAN /\ shutdownWake' \in BOOLEAN
        /\ \/ callerFirst' <=> (callerCrossed \/ callerDeadline = "past")
           \/ (callerFirst' = callerFirst /\ shutdownWake' = shutdownWake)
    BY <1>23, Zenon DEF WakeShutdown, MoveDeadline
  <2>2. QED
    BY <1>23, <2>1, SMTT(20) DEF WakeShutdown, MoveDeadline
<1>24. CASE ReleaseConn
  BY <1>24, SMTT(20) DEF ReleaseConn
<1>25. CASE PeerEnds
  BY <1>25 DEF PeerEnds
<1>26. CASE UNCHANGED sendVars
  BY <1>26, SMTT(20) DEF sendVars
<1> HIDE DEF SendInv
<1>27. QED
  BY <1>1, <1>2, <1>3, <1>4, <1>5, <1>6, <1>7, <1>8, <1>9, <1>10, <1>11, <1>12, <1>13,
     <1>14, <1>15, <1>16, <1>17, <1>18, <1>19, <1>20, <1>21, <1>22, <1>23, <1>24,
     <1>25, <1>26 DEF SendNext, SendStep, CallbackStep

\* The invariant holds of every run of the send path.
THEOREM SendInvariance == SendSpec => []SendInv
BY SendStarts, SendSteps, PTL DEF SendSpec

\* However many goroutines send, whatever deadlines they set, a send leaves the
\* caller's deadline on the descriptor, no callback and no completion behind.
THEOREM NoTraceOfASend == SendSpec => []SendLeavesNoTrace
<1>1. SendInv => SendLeavesNoTrace
  BY SendAssumption
  DEF SendInv, SendTypes, Owner, Callbacks, Flags, Woken, Deadline, SendLeavesNoTrace,
      Waiting, Ending
<1>2. QED
  BY <1>1, SendInvariance, PTL

\* No send stays parked behind a local shutdown that has run.
THEOREM ShutdownWakesAll == SendSpec => []ShutdownReachesParked
<1>1. SendInv => ShutdownReachesParked
  BY DEF SendInv, Woken, Deadline, Shut, ShutdownReachesParked, InPast
<1>2. QED
  BY <1>1, SendInvariance, PTL

\* What a send reports is what happened to it.
THEOREM ReportsAreTrue == SendSpec => []ErrorIsTrue
<1>1. SendInv => ErrorIsTrue
  BY DEF SendInv, Errors, ErrorIsTrue
<1>2. QED
  BY <1>1, SendInvariance, PTL

-----------------------------------------------------------------------------
(* The close of an endpoint *)

States == InUse \cup {"gone", "aborted"}

PCs == {"open", "first", "each", "poll", "wait", "abortive", "release", "finished"}

\* Each variable the proofs speak of, and its type.
Types ==
  /\ born \in Nat /\ seen \in Nat
  /\ id \in [Assocs -> Ids] /\ eof \in [Assocs -> BOOLEAN] /\ st \in [Assocs -> States]
  /\ pc \in PCs /\ listed \subseteq Assocs /\ err \in BOOLEAN

\* An id on the list read last is held by an association of that list, or by none.
IdsAreKept == \A n \in Held \ listed, m \in listed : id[n] # id[m]

\* What shutdownEach has done so far, and what its result is worth to the next
\* look: an id in shut is one of the list, and everyone listed has been asked.
Asked ==
  /\ pc \in {"open", "poll", "wait"} =>
       /\ \A n \in listed : eof[n] \/ n \notin Held
       /\ \A i \in shut : \E m \in listed : id[m] = i
  /\ pc \in {"first", "each"} =>
       /\ \A n \in listed \cap Held : id[n] \in shut \/ id[n] \notin todo => eof[n]
       /\ \A i \in todo \cup next : \E m \in listed : id[m] = i

\* What the close leaves: what was born after the list was found empty.
Left ==
  /\ pc = "release" => \A n \in Held : n > seen
  /\ pc = "finished" /\ ~err => \A n \in Held : st[n] = "shutting" /\ n > seen

CloseInv == Types /\ Left /\ seen <= born
AskedInv == Types /\ IdsAreKept /\ Asked

-----------------------------------------------------------------------------
(* The steps that make no association *)

HeldStates == {"setup", "up", "shutting"}

\* The associations age: they keep their ids, an SCTP_EOF send stays made, and
\* one that has left the socket does not come back.
Ages ==
  /\ born' = born /\ id' = id
  /\ eof' \in [Assocs -> BOOLEAN] /\ st' \in [Assocs -> States]
  /\ \A n \in Assocs : eof[n] => eof'[n]
  /\ \A n \in Assocs : st'[n] \in HeldStates => st[n] \in HeldStates
  /\ \A n \in Assocs : st[n] = "shutting" /\ st'[n] \in HeldStates => st'[n] = "shutting"

\* Held, by its states.
LEMMA HeldIs == ASSUME Types PROVE \A n : n \in Held <=> n \in Assocs /\ st[n] \in HeldStates
BY DEF Types, Held, HeldStates, InUse

\* The same in the next state.
LEMMA HeldIsNext ==
  ASSUME Types' PROVE \A n : n \in Held' <=> n \in Assocs' /\ st'[n] \in HeldStates
BY DEF Types, Held, HeldStates, InUse

\* What one SCTP_EOF send does: whoever has the id has been asked.
LEMMA SendEOFAges ==
  ASSUME Types, NEW i, SendEOF(i)
  PROVE  Ages /\ \A n \in Held : id[n] = i => eof'[n]
<1> DEFINE N == {n \in Held : id[n] = i}
<1>1. eof' = [n \in Assocs |-> eof[n] \/ n \in N]
  BY Zenon DEF SendEOF
<1>2. PICK ok \in BOOLEAN :
        st' = [n \in Assocs |->
                 IF n \notin N \/ ~ok THEN st[n]
                 ELSE IF st[n] = "setup" THEN "gone" ELSE "shutting"]
  BY Zenon DEF SendEOF
<1>3. eof' \in [Assocs -> BOOLEAN]
  BY <1>1, Zenon
<1>4. \A n \in Assocs : (eof[n] => eof'[n]) /\ (n \in N => eof'[n])
  BY <1>1, Zenon
<1>5. born' = born /\ id' = id
  BY DEF SendEOF
<1>6. \A n \in N : n \in Assocs /\ st[n] \in HeldStates
  BY HeldIs
<1>7. \A n \in Assocs :
        /\ st'[n] \in States
        /\ st'[n] \in HeldStates => st[n] \in HeldStates
        /\ st[n] = "shutting" /\ st'[n] \in HeldStates => st'[n] = "shutting"
  <2> HIDE DEF N
  <2> QED
    BY <1>2, <1>6 DEF Types, States, HeldStates, InUse
<1>8. st' \in [Assocs -> States]
  BY <1>2, <1>7, Zenon
<1>9. \A n \in Held : n \in Assocs
  BY HeldIs
<1>10. QED
  BY <1>3, <1>4, <1>5, <1>7, <1>8, <1>9 DEF Ages

\* What peers, timers and PeelOff do to an association ages it.
LEMMA MovesAge ==
  ASSUME Types, NEW n \in Assocs, AssocMoves(n) \/ PeelOff(n) PROVE Ages
BY DEF Types, AssocMoves, PeelOff, Becomes, Ages, States, HeldStates, InUse

\* So does AbortAssoc.
LEMMA AbortsAge == ASSUME Types, NEW i, AbortAssoc(i) PROVE Ages
BY DEF Types, AbortAssoc, Ages, States, HeldStates, InUse

\* So does the close(2) that ends the close of the endpoint.
LEMMA ReleaseAges ==
  ASSUME Types, Abortive \/ Release PROVE Ages
BY HeldIs DEF Types, Abortive, Release, Ages, States, HeldStates, InUse

-----------------------------------------------------------------------------
(* Types *)

\* A birth adds one association, with an id that is not on the list read last
\* unless Wrapped, and changes no other.
LEMMA BirthAdds ==
  ASSUME Types, Birth
  PROVE  /\ born' = born + 1 /\ Types' /\ UNCHANGED <<closeVars, histVars>>
         /\ \A n \in Assocs : id'[n] = id[n] /\ st'[n] = st[n] /\ (eof'[n] <=> eof[n])
         /\ ~Wrapped => \A n \in listed : id[n] # id'[born']
<1>1. PICK i \in NextIds, s \in {"setup", "up"} :
        /\ Wrapped \/ \A n \in listed : id[n] # i
        /\ born' = born + 1
        /\ id' = [n \in 1..born' |-> IF n = born' THEN i ELSE id[n]]
        /\ st' = [n \in 1..born' |-> IF n = born' THEN s ELSE st[n]]
        /\ eof' = [n \in 1..born' |-> n \in Assocs /\ eof[n]]
  BY Zenon DEF Birth
<1>2. UNCHANGED <<closeVars, histVars>>
  BY DEF Birth
<1>3. i \in Ids
  BY <1>1 DEF NextIds
<1>4. eof' \in [Assocs' -> BOOLEAN] /\ \A n \in 1..born' : eof'[n] <=> (n \in Assocs /\ eof[n])
  BY <1>1, Zenon DEF Assocs
<1>5. \A n \in Assocs : n \in 1..born' /\ n # born'
  BY <1>1 DEF Types, Assocs
<1>6. born' \in 1..born'
  BY <1>1 DEF Types
<1>7. Types'
  BY <1>1, <1>2, <1>3, <1>4, <1>5 DEF Types, Assocs, States, InUse, closeVars, histVars
<1>8. QED
  BY <1>1, <1>2, <1>4, <1>5, <1>6, <1>7

\* Ageing keeps the types.
LEMMA AgesTypes ==
  ASSUME Types, Ages, seen' \in Nat, pc' \in PCs, err' \in BOOLEAN, listed' \subseteq Assocs
  PROVE  Types'
BY DEF Types, Ages, Assocs

\* Associations that stay as they are have aged.
LEMMA SameAges == ASSUME Types, UNCHANGED assocVars PROVE Ages
BY DEF Types, assocVars, Ages

\* A look at the list keeps the types.
LEMMA LookTypes ==
  ASSUME Types, NEW to \in PCs, Look(to), UNCHANGED assocVars, err' \in BOOLEAN
  PROVE  Types'
BY SameAges, AgesTypes, HeldIs DEF Look, Types

\* Every step but a birth ages the associations, and keeps the types.
LEMMA StepAges ==
  ASSUME Types, [Next]_vars PROVE Types' /\ (Birth \/ Ages)
<1> USE DEF closeVars, histVars
<1>1. CASE Birth
  BY <1>1, BirthAdds
<1>2. ASSUME NEW n \in Assocs, AssocMoves(n) \/ PeelOff(n) PROVE Types' /\ Ages
  <2>1. UNCHANGED <<closeVars, histVars>>
    BY <1>2 DEF AssocMoves, PeelOff
  <2>2. QED
    BY <1>2, <2>1, MovesAge, AgesTypes DEF Types
<1>3. ASSUME NEW i \in Ids, CloseAssoc(i) PROVE Types' /\ Ages
  BY <1>3, SendEOFAges, AgesTypes DEF CloseAssoc, Types
<1>4. ASSUME NEW i \in Ids, AbortAssoc(i) PROVE Types' /\ Ages
  <2>1. UNCHANGED <<closeVars, histVars>>
    BY <1>4 DEF AbortAssoc
  <2>2. QED
    BY <1>4, <2>1, AbortsAge, AgesTypes DEF Types
<1>5. CASE StartShutdown
  <2>1. CASE Look("first")
    BY <1>5, <2>1, LookTypes, SameAges DEF StartShutdown, Types, PCs
  <2>2. CASE pc' = "poll" /\ UNCHANGED <<todo, next, histVars>>
    BY <1>5, <2>2, SameAges, AgesTypes DEF StartShutdown, Types, PCs
  <2>3. QED
    BY <1>5, <2>1, <2>2 DEF StartShutdown
<1>6. CASE AssocGone
  <2>1. CASE (Look("each") \/ Look("release")) /\ UNCHANGED err
    BY <1>6, <2>1, LookTypes, SameAges DEF AssocGone, Types, PCs
  <2>2. CASE pc' = "abortive" /\ err' = TRUE /\ UNCHANGED <<todo, next, histVars>>
    BY <1>6, <2>2, SameAges, AgesTypes DEF AssocGone, Types, PCs
  <2>3. QED
    BY <1>6, <2>1, <2>2, Zenon DEF AssocGone
<1>7. ASSUME NEW i \in Ids, ShutdownOne(i) PROVE Types' /\ Ages
  BY <1>7, SendEOFAges, SameAges, AgesTypes DEF ShutdownOne, Types
<1>8. CASE ShutdownEachEnds \/ Wait \/ Expire \/ Abort
  BY <1>8, SameAges, AgesTypes DEF ShutdownEachEnds, Wait, Expire, Abort, Types, PCs
<1>9. CASE Abortive \/ Release
  <2>1. err' \in BOOLEAN /\ pc' = "finished" /\ UNCHANGED histVars
    <3>1. CASE Abortive
      BY <3>1, Zenon DEF Abortive
    <3>2. CASE Release
      BY <3>2 DEF Release, Types
    <3>3. QED
      BY <1>9, <3>1, <3>2
  <2>2. QED
    BY <1>9, <2>1, ReleaseAges, AgesTypes DEF Types, PCs
<1>10. CASE Finished \/ UNCHANGED vars
  BY <1>10, SameAges, AgesTypes DEF Finished, vars, Types
<1>11. QED
  BY <1>1, <1>2, <1>3, <1>4, <1>5, <1>6, <1>7, <1>8, <1>9, <1>10 DEF Next, CloseStep

-----------------------------------------------------------------------------
(* Everyone listed is asked *)

\* What ages leaves the socket, or stays on the list.
LEMMA HeldShrinks ==
  ASSUME Types, Types', Ages PROVE Held' \subseteq Held
BY HeldIs, HeldIsNext DEF Ages, Assocs

\* Ageing brings no id of the list to another association.
LEMMA AgesKeepsIds ==
  ASSUME Types, Types', Ages, IdsAreKept, UNCHANGED listed PROVE IdsAreKept'
BY HeldShrinks DEF IdsAreKept, Ages

\* Ageing takes back no SCTP_EOF send that was made.
LEMMA AgesKeepsAsked ==
  ASSUME AskedInv, Types', Ages, UNCHANGED <<closeVars, histVars>> PROVE AskedInv'
<1>1. Held' \subseteq Held
  BY HeldShrinks DEF AskedInv
<1>2. IdsAreKept'
  BY AgesKeepsIds DEF AskedInv, histVars
<1>3. \A n \in listed : n \in Assocs
  BY DEF AskedInv, Types
<1>4. Asked'
  BY <1>1, <1>3 DEF AskedInv, Asked, Ages, closeVars, histVars
<1>5. QED
  BY <1>2, <1>4 DEF AskedInv

\* A new association takes no id of the list, so it is not taken for one of it.
LEMMA BirthKeepsAsked ==
  ASSUME AskedInv, ~Wrapped, Birth PROVE AskedInv'
<1>1. /\ born' = born + 1 /\ Types' /\ UNCHANGED <<closeVars, histVars>>
      /\ \A n \in Assocs : id'[n] = id[n] /\ st'[n] = st[n] /\ (eof'[n] <=> eof[n])
      /\ \A n \in listed : id[n] # id'[born']
  BY BirthAdds DEF AskedInv
<1>2. \A n \in listed : n \in Assocs
  BY DEF AskedInv, Types
<1>3. \A n \in Held' : n \in Held \/ n = born'
  <2>1. Types /\ Types'
    BY <1>1 DEF AskedInv
  <2>2. \A n \in Assocs' : n \in Assocs \/ n = born'
    BY <1>1, <2>1 DEF Types, Assocs
  <2>3. QED
    BY <1>1, <2>1, <2>2, HeldIs, HeldIsNext
<1>4. \A n \in Held : n \in Assocs
  BY HeldIs DEF AskedInv
<1>5. listed' = listed
  BY <1>1 DEF histVars
<1>6. \A n \in Held', m \in listed : n \notin listed => id'[n] # id'[m]
  BY <1>1, <1>2, <1>3, <1>4 DEF AskedInv, IdsAreKept
<1>7. IdsAreKept'
  BY <1>5, <1>6 DEF IdsAreKept
<1>8. born' \notin listed
  BY <1>1, <1>2 DEF AskedInv, Types, Assocs
<1>9. Asked'
  BY <1>1, <1>2, <1>3, <1>5, <1>8 DEF AskedInv, Asked, closeVars
<1>10. QED
  BY <1>1, <1>7, <1>9 DEF AskedInv

\* A look: whoever has an id that was shut down was on the last list, and asked.
LEMMA LookKeepsAsked ==
  ASSUME AskedInv, Types', pc \in {"open", "poll"}, NEW to \in {"first", "each", "release"},
         Look(to), UNCHANGED <<assocVars, shut>>
  PROVE  AskedInv'
<1>1. Held' = Held /\ listed' = Held /\ todo' = {id[n] : n \in Held} /\ next' = {}
  BY DEF Look, Listed, Held, Assocs, assocVars
<1>2. \A n \in Held : id[n] \in shut => eof[n]
  BY DEF AskedInv, IdsAreKept, Asked
<1>3. IdsAreKept'
  BY <1>1 DEF IdsAreKept
<1>4. Asked'
  BY <1>1, <1>2 DEF Asked, Look, assocVars
<1>5. QED
  BY <1>3, <1>4 DEF AskedInv

\* Every step keeps it, as long as no id comes round between two looks.
LEMMA AskedSteps == ASSUME ~Wrapped PROVE AskedInv /\ [Next]_vars => AskedInv'
<1> SUFFICES ASSUME AskedInv, [Next]_vars PROVE AskedInv'
  OBVIOUS
<1>0. Types /\ Types' /\ (Birth \/ Ages)
  BY StepAges DEF AskedInv
<1>1. CASE Birth
  BY <1>1, BirthKeepsAsked
<1>2. ASSUME NEW n \in Assocs, AssocMoves(n) \/ PeelOff(n) PROVE AskedInv'
  BY <1>0, <1>2, MovesAge, AgesKeepsAsked DEF AssocMoves, PeelOff
<1>3. ASSUME NEW i \in Ids, CloseAssoc(i) \/ AbortAssoc(i) PROVE AskedInv'
  BY <1>0, <1>3, SendEOFAges, AbortsAge, AgesKeepsAsked, Zenon DEF CloseAssoc, AbortAssoc
<1>4. CASE StartShutdown
  <2>1. CASE Look("first")
    BY <1>0, <1>4, <2>1, LookKeepsAsked DEF StartShutdown
  <2>2. CASE pc' = "poll" /\ UNCHANGED <<todo, next, histVars>>
    BY <1>0, <1>4, <2>2, SameAges, AgesKeepsIds
    DEF StartShutdown, AskedInv, Asked, histVars, assocVars, Held, Assocs
  <2>3. QED
    BY <1>4, <2>1, <2>2 DEF StartShutdown
<1>5. CASE AssocGone
  <2>1. CASE Look("each") \/ Look("release")
    BY <1>0, <1>5, <2>1, LookKeepsAsked DEF AssocGone
  <2>2. CASE pc' = "abortive" /\ UNCHANGED <<todo, next, histVars>>
    BY <1>0, <1>5, <2>2, SameAges, AgesKeepsIds DEF AssocGone, AskedInv, Asked, histVars
  <2>3. QED
    BY <1>5, <2>1, <2>2 DEF AssocGone
<1>6. ASSUME NEW i \in Ids, ShutdownOne(i) PROVE AskedInv'
  <2>1. Ages /\ Held' \subseteq Held /\ \A n \in Held : id[n] = i => i \in shut \/ eof'[n]
    BY <1>0, <1>6, SendEOFAges, SameAges, HeldShrinks DEF ShutdownOne
  <2>2. IdsAreKept'
    BY <1>0, <1>6, <2>1, AgesKeepsIds DEF ShutdownOne, AskedInv, histVars
  <2>3. \A n \in listed : n \in Assocs
    BY <1>0 DEF Types
  <2>4. Asked'
    BY <1>6, <2>1, <2>3, Zenon DEF ShutdownOne, AskedInv, Asked, Ages, histVars
  <2>5. QED
    BY <1>0, <2>2, <2>4 DEF AskedInv
<1>7. CASE ShutdownEachEnds
  <2>1. IdsAreKept' /\ Held' = Held
    BY <1>0, <1>7, SameAges, AgesKeepsIds
    DEF ShutdownEachEnds, AskedInv, histVars, assocVars, Held, Assocs
  <2>2. Asked'
    BY <1>7, <2>1 DEF ShutdownEachEnds, Forget, AskedInv, Asked, assocVars, histVars
  <2>3. QED
    BY <1>0, <2>1, <2>2 DEF AskedInv
<1>8. CASE Wait \/ Expire \/ Abort \/ Finished \/ UNCHANGED vars
  <2>1. /\ UNCHANGED <<assocVars, todo, next, shut, histVars>>
        /\ pc' = pc \/ (pc = "wait" /\ pc' \in {"poll", "abortive"})
    BY <1>8 DEF Wait, Expire, Abort, Finished, vars, closeVars
  <2>2. IdsAreKept' /\ Held' = Held
    BY <1>0, <2>1, SameAges, AgesKeepsIds DEF AskedInv, histVars, assocVars, Held, Assocs
  <2>3. Asked'
    BY <2>1, <2>2, Zenon DEF AskedInv, Asked, assocVars, histVars
  <2>4. QED
    BY <1>0, <2>2, <2>3 DEF AskedInv
<1>9. CASE Abortive \/ Release
  <2>1. pc' = "finished" /\ UNCHANGED histVars
    BY <1>9 DEF Abortive, Release
  <2>2. IdsAreKept'
    BY <1>0, <1>9, <2>1, ReleaseAges, AgesKeepsIds DEF AskedInv, histVars
  <2>3. QED
    BY <1>0, <2>1, <2>2 DEF AskedInv, Asked
<1>10. QED
  BY <1>1, <1>2, <1>3, <1>4, <1>5, <1>6, <1>7, <1>8, <1>9 DEF Next, CloseStep

-----------------------------------------------------------------------------
(* What a close leaves behind *)

\* A close has seen no more than was born.
LEMMA SeenSteps == ASSUME Types, seen <= born, [Next]_vars PROVE seen' <= born'
<1> USE DEF closeVars, histVars, assocVars
<1>0. born' = born \/ (Birth /\ born' = born + 1)
  BY StepAges, BirthAdds DEF Ages
<1>1. CASE Birth \/ (\E n \in Assocs : AssocMoves(n) \/ PeelOff(n))
  <2>1. seen' = seen
    BY <1>1 DEF Birth, AssocMoves, PeelOff
  <2>2. QED BY <1>0, <2>1 DEF Types
<1>2. CASE \E i \in Ids : CloseAssoc(i) \/ AbortAssoc(i) \/ ShutdownOne(i)
  BY <1>0, <1>2 DEF CloseAssoc, AbortAssoc, ShutdownOne, Types
<1>3. CASE StartShutdown \/ AssocGone
  BY <1>0, <1>3 DEF StartShutdown, AssocGone, Look, Types
<1>4. CASE \/ ShutdownEachEnds \/ Wait \/ Abortive \/ Release
           \/ Expire \/ Abort \/ Finished \/ UNCHANGED vars
  BY <1>0, <1>4, Zenon
  DEF ShutdownEachEnds, Wait, Abortive, Release, Expire, Abort, Finished, vars, Types
<1>5. QED
  BY <1>1, <1>2, <1>3, <1>4 DEF Next, CloseStep

\* Ageing leaves nothing behind that was not left before.
LEMMA AgesKeepsLeft ==
  ASSUME CloseInv, Types', Ages, pc' = pc, err' = err, seen' = seen
  PROVE  CloseInv'
<1>1. Types /\ Held' \subseteq Held
  BY HeldShrinks DEF CloseInv
<1>2. \A n \in Held' : n \in Assocs /\ st'[n] \in HeldStates
  BY <1>1, HeldIsNext DEF Ages, Assocs
<1>3. QED
  BY <1>1, <1>2 DEF CloseInv, Left, Ages

\* Every step keeps it, also when ids come round.
LEMMA LeftSteps == CloseInv /\ [Next]_vars => CloseInv'
<1> SUFFICES ASSUME CloseInv, [Next]_vars PROVE CloseInv'
  OBVIOUS
<1>0. Types /\ Types' /\ (Birth \/ Ages) /\ seen' <= born'
  BY StepAges, SeenSteps DEF CloseInv
<1>1. CASE Birth
  <2>1. /\ born' = born + 1 /\ UNCHANGED <<closeVars, histVars>> /\ pc # "finished"
        /\ \A n \in Assocs : st'[n] = st[n]
    BY <1>0, <1>1, BirthAdds, Zenon DEF Birth
  <2>2. \A n \in Assocs' : n \in Assocs \/ n = born'
    BY <1>0, <2>1 DEF Types, Assocs
  <2>3. \A n \in Held' : n \in Held \/ n = born'
    BY <1>0, <2>1, <2>2, HeldIs, HeldIsNext, Zenon
  <2>4. pc = "release" => born' > seen
    BY <1>0, <2>1 DEF CloseInv, Left, Types
  <2>5. QED
    BY <1>0, <2>1, <2>3, <2>4 DEF CloseInv, Left, closeVars, histVars
<1>2. CASE pc' = pc /\ err' = err /\ seen' = seen /\ Ages
  BY <1>0, <1>2, AgesKeepsLeft
<1>3. CASE pc' \notin {"release", "finished"}
  BY <1>0, <1>3 DEF CloseInv, Left
<1>4. CASE AssocGone /\ pc' = "release"
  <2>1. Listed = {}
    BY <1>4 DEF AssocGone, Look
  <2>2. Held = {}
    BY <2>1 DEF Listed
  <2>3. Held' = Held
    BY <1>4 DEF AssocGone, Held, Assocs, assocVars
  <2>4. QED
    BY <1>0, <1>4, <2>2, <2>3 DEF CloseInv, Left
<1>5. CASE Abortive
  <2>1. PICK linger \in BOOLEAN :
          /\ st' = [n \in Assocs |->
                      IF n \notin Held THEN st[n]
                      ELSE IF linger THEN "aborted" ELSE "shutting"]
          /\ err' = (err \/ ~linger)
    BY <1>5, Zenon DEF Abortive
  <2>2. ~err' => linger
    BY <2>1, Zenon
  <2>3. linger => Held' = {}
    BY <1>0, <1>5, <2>1, HeldIs, HeldIsNext DEF Abortive, Assocs, HeldStates
  <2>4. QED
    BY <1>0, <1>5, <2>2, <2>3 DEF CloseInv, Left, Abortive
<1>6. CASE Release
  <2>1. Held' \subseteq Held
    BY <1>0, <1>6, ReleaseAges, HeldShrinks
  <2>2. \A n \in Held : n \in Assocs
    BY <1>0, HeldIs
  <2>3. QED
    BY <1>0, <1>6, <2>1, <2>2 DEF CloseInv, Left, Release, histVars
<1>7. ASSUME ~Birth
      PROVE  \/ pc' = pc /\ err' = err /\ seen' = seen
             \/ pc' \notin {"release", "finished"}
             \/ AssocGone /\ pc' = "release"
             \/ Abortive \/ Release
  <2> USE DEF closeVars, histVars, closeFrame
  <2>1. CASE \E n \in Assocs : AssocMoves(n) \/ PeelOff(n)
    BY <2>1 DEF AssocMoves, PeelOff
  <2>2. CASE \E i \in Ids : CloseAssoc(i) \/ AbortAssoc(i)
    BY <2>2 DEF CloseAssoc, AbortAssoc
  <2>3. CASE StartShutdown \/ AssocGone
    BY <2>3 DEF StartShutdown, AssocGone, Look
  <2>4. CASE \E i \in Ids : ShutdownOne(i)
    BY <2>4 DEF ShutdownOne
  <2>5. CASE ShutdownEachEnds \/ Wait \/ Expire \/ Abort \/ Finished \/ UNCHANGED vars
    BY <2>5 DEF ShutdownEachEnds, Wait, Expire, Abort, Finished, vars
  <2>6. QED
    BY <1>7, <2>1, <2>2, <2>3, <2>4, <2>5 DEF Next, CloseStep
<1>8. QED
  BY <1>0, <1>1, <1>2, <1>3, <1>4, <1>5, <1>6, <1>7

-----------------------------------------------------------------------------
(* Theorems *)

\* Both invariants hold of an endpoint without associations.
LEMMA CloseStarts == Init => CloseInv /\ AskedInv
<1> SUFFICES ASSUME Init PROVE CloseInv /\ AskedInv
  OBVIOUS
<1>1. /\ Assocs = {} /\ Held = {} /\ listed = {} /\ shut = {} /\ pc = "open"
      /\ seen = born /\ born = 0
  BY DEF Init, Assocs, Held
<1>2. id \in [Assocs -> Ids] /\ eof \in [Assocs -> BOOLEAN] /\ st \in [Assocs -> States]
  BY <1>1 DEF Init
<1>3. err \in BOOLEAN
  BY Zenon DEF Init
<1>4. Types
  BY <1>1, <1>2, <1>3 DEF Init, Types, PCs
<1>5. QED
  BY <1>1, <1>4 DEF CloseInv, AskedInv, Left, IdsAreKept, Asked

\* However many associations a one-to-many socket has and however they come and
\* go, a Close that returns nil leaves none up that it has not ended.
THEOREM NothingLeftUp == Spec => []NilLeavesNothingUp
<1>1. CloseInv => NilLeavesNothingUp
  BY DEF CloseInv, Left, NilLeavesNothingUp
<1>2. QED
  BY <1>1, CloseStarts, LeftSteps, PTL DEF Spec

\* As long as no id comes round between two looks at the list, shutdownEach has
\* asked every association it was given to shut down, though it knows them by ids
\* that others have had.
THEOREM EveryoneIsAsked == ~Wrapped => (Spec => []EachListedIsShutDown)
<1> SUFFICES ASSUME ~Wrapped PROVE Spec => []EachListedIsShutDown
  OBVIOUS
<1>1. AskedInv /\ [Next]_vars => AskedInv'
  BY AskedSteps
<1>2. AskedInv => EachListedIsShutDown
  BY HeldIs DEF AskedInv, Asked, EachListedIsShutDown, Types, HeldStates
<1>3. QED
  BY <1>1, <1>2, CloseStarts, PTL DEF Spec
=============================================================================
