--------------------------- MODULE OpeningProofs ---------------------------
(***************************************************************************)
(* Proofs about how a connection comes about, for any number of retries,   *)
(* any sets of goroutines and associations, any table of interfaces and    *)
(* any limits: Dial, the cache of zones its addresses are encoded with,    *)
(* and PeelOff.                                                            *)
(***************************************************************************)
EXTENDS Dial, ZoneCache, PeelOff, TLAPS

-----------------------------------------------------------------------------
(* Dial *)

\* The steps between a verdict of "established" and the return of the Conn.
Winning == {"clear", "restore", "newConn", "selfCheck", "abortSelf"}

\* What is opened and not yet closed: nothing between two attempts and after an
\* error, the attempt's own socket otherwise.
Balance ==
  /\ opened \in Nat /\ closed \in Nat
  /\ opened = closed + (IF pc = "start" \/ (pc = "done" /\ res # "conn") THEN 0 ELSE 1)
  /\ pc = "start" => opened = retries
  /\ pc \notin {"start", "done"} => opened = retries + 1
  /\ opened <= retries + 1
  /\ pc \notin {"abandon", "done"} => res = "none"
  /\ pc = "abandon" => res \in {"error", "ctxErr"}
  /\ pc = "done" => res # "none"

\* The kernel's side of an attempt: its records tell what became of its setup, and
\* stay in the queue.
Kernel ==
  /\ pc \in {"start", "setup", "connect"} => assoc = "none"
  /\ assoc = "up" => est
  /\ est => assoc \in {"up", "gone"} /\ head = "COMM_UP"
  /\ head = "COMM_UP" => est
  /\ assoc = "gone" => est \/ pc = "done"
  /\ assoc = "failed" => head = "CANT_STR"
  /\ snap # "none" => est
  /\ snap = "peer" => ~self
  /\ settled => Settled

\* The verdict, and what each step of the winning path has put right.
Verdict ==
  /\ verdict = "established" => est
  /\ pc \in Winning \/ res = "conn" => verdict = "established"
  /\ pc \in {"restore", "newConn", "selfCheck", "abortSelf"} \/ res = "conn" =>
       fdDeadline = "none"
  /\ pc \in {"newConn", "selfCheck", "abortSelf"} \/ res = "conn" => rto = "lasting"
  /\ res = "conn" /\ guard => snap # "self"
  /\ (pc = "selfCheck" \/ res = "conn") /\ self => snap \in {"none", "self"}

\* No callback is under way outside the wait, and it runs only for a context that
\* is done, so an error of its deadline means that the context had ended.
Callbacks ==
  /\ \/ pc \in {"prepare", "park", "stop"}
     \/ pc \in {"soError", "status", "peek", "soAgain"} /\ waitErr = "nil"
     \/ fn \in {"none", "stopped", "closed"}
  /\ pc \in {"start", "setup", "connect", "arm"} => fn = "none"
  /\ pc \in {"start", "setup", "connect", "arm", "prepare", "park"} => waitErr = "nil"
  /\ fn \in {"started", "moved", "closed"} => ctx = "done"
  /\ fdDeadline = "ago" => ctx = "done"
  /\ waitErr = "deadline" => ctx = "done"
  /\ pc = "decide" /\ verdict = "none" /\ waitErr = "deadline" => ~settled
  /\ res = "ctxErr" => ctx = "done" /\ ~settled

\* The inductive invariant.
DialInv == TypeOK /\ Balance /\ Kernel /\ Verdict /\ Callbacks

\* The invariant holds of a Dial that has not begun.
LEMMA DialStarts == Init => DialInv
<1> SUFFICES ASSUME Init PROVE DialInv
  OBVIOUS
<1>1. /\ edge \in BOOLEAN /\ self \in BOOLEAN /\ est \in BOOLEAN /\ settled \in BOOLEAN
      /\ ~est /\ ~settled
  BY Zenon DEF Init
<1>2. QED
  BY <1>1, DialAssumption
  DEF Init, DialInv, TypeOK, Balance, Kernel, Verdict, Callbacks, Winning, Settled,
      Steps

\* The invariant says nothing of the pending error, and of what the poller knows,
\* but their type.
LEMMA PollerKeeps ==
  ASSUME DialInv, edge' \in BOOLEAN, poll' \in {"idle", "ready", "error"},
         skErr' \in {skErr, "0"},
         UNCHANGED <<callVars, waitVars, fnVars, fdDeadline, assoc, self, head, rto, snap,
                     fdVars, histVars>>
  PROVE DialInv'
<1>1. UNCHANGED <<pc, res, guard, retries, verdict, waitErr, ctx, fn, fdDeadline, assoc, self,
                  head, rto, snap, opened, closed, est, settled>>
  BY DEF callVars, waitVars, fnVars, fdVars, histVars
<1>2. TypeOK'
  BY <1>1 DEF DialInv, TypeOK
<1>3. Balance'
  BY <1>1 DEF DialInv, Balance
<1>4. Kernel'
  BY <1>1 DEF DialInv, Kernel, Settled
<1>5. Verdict'
  BY <1>1 DEF DialInv, Verdict, Winning
<1>6. Callbacks'
  BY <1>1 DEF DialInv, Callbacks
<1>7. QED
  BY <1>2, <1>3, <1>4, <1>5, <1>6 DEF DialInv

\* Every step of the dial, of its context and of the kernel keeps the invariant.
LEMMA DialSteps == DialInv /\ [Next]_vars => DialInv'
<1> SUFFICES ASSUME DialInv, [Next]_vars PROVE DialInv'
  OBVIOUS
<1> USE DialAssumption
    DEF DialInv, TypeOK, Balance, Kernel, Verdict, Callbacks, Winning, Settled, Steps,
        Goto, Step, Fail, callVars, waitVars, fnVars, pollVars, sockVars, fdVars, histVars
<1>1. CASE Open
  BY <1>1 DEF Open
<1>2. CASE Setup
  BY <1>2 DEF Setup
<1>3. CASE Connect
  BY <1>3 DEF Connect
<1>4. CASE Arm
  BY <1>4 DEF Arm
<1>5. CASE Prepare
  BY <1>5 DEF Prepare, ReadEnds
<1>6. CASE Wake
  BY <1>6 DEF Wake, ReadEnds
<1>7. CASE SoError
  <2> HIDE DEF TypeOK, Balance, Kernel, Verdict, Callbacks
  <2>1. TypeOK'
    BY <1>7 DEF SoError, Conclude, Undecided, lookFrame, TypeOK
  <2>2. Balance'
    BY <1>7 DEF SoError, Conclude, Undecided, lookFrame, TypeOK, Balance
  <2>3. Kernel'
    BY <1>7 DEF SoError, Conclude, Undecided, lookFrame, TypeOK, Kernel
  <2>4. Verdict'
    BY <1>7 DEF SoError, Conclude, Undecided, lookFrame, TypeOK, Balance, Kernel, Verdict
  <2>5. Callbacks'
    BY <1>7 DEF SoError, Conclude, Undecided, lookFrame, TypeOK, Balance, Kernel, Callbacks
  <2>6. QED BY <2>1, <2>2, <2>3, <2>4, <2>5
<1>8. CASE Status
  <2> HIDE DEF TypeOK, Balance, Kernel, Verdict, Callbacks
  <2>1. TypeOK'
    BY <1>8 DEF Status, Conclude, Undecided, lookFrame, TypeOK
  <2>2. Balance'
    BY <1>8 DEF Status, Conclude, Undecided, lookFrame, TypeOK, Balance
  <2>3. Kernel'
    BY <1>8 DEF Status, Conclude, Undecided, lookFrame, TypeOK, Kernel
  <2>4. Verdict'
    BY <1>8 DEF Status, Conclude, Undecided, lookFrame, TypeOK, Balance, Kernel, Verdict
  <2>5. Callbacks'
    BY <1>8 DEF Status, Conclude, Undecided, lookFrame, TypeOK, Balance, Kernel, Callbacks
  <2>6. QED BY <2>1, <2>2, <2>3, <2>4, <2>5
<1>9. CASE Peek
  <2> HIDE DEF TypeOK, Balance, Kernel, Verdict, Callbacks
  <2>1. TypeOK'
    BY <1>9 DEF Peek, Conclude, Undecided, lookFrame, TypeOK
  <2>2. Balance'
    BY <1>9 DEF Peek, Conclude, Undecided, lookFrame, TypeOK, Balance
  <2>3. Kernel'
    BY <1>9 DEF Peek, Conclude, Undecided, lookFrame, TypeOK, Kernel
  <2>4. Verdict'
    BY <1>9 DEF Peek, Conclude, Undecided, lookFrame, TypeOK, Balance, Kernel, Verdict
  <2>5. Callbacks'
    BY <1>9 DEF Peek, Conclude, Undecided, lookFrame, TypeOK, Balance, Kernel, Callbacks
  <2>6. QED BY <2>1, <2>2, <2>3, <2>4, <2>5
<1>10. CASE SoAgain
  <2> HIDE DEF TypeOK, Balance, Kernel, Verdict, Callbacks
  <2>1. TypeOK'
    BY <1>10 DEF SoAgain, Conclude, Undecided, lookFrame, TypeOK
  <2>2. Balance'
    BY <1>10 DEF SoAgain, Conclude, Undecided, lookFrame, TypeOK, Balance
  <2>3. Kernel'
    BY <1>10 DEF SoAgain, Conclude, Undecided, lookFrame, TypeOK, Kernel
  <2>4. Verdict'
    BY <1>10 DEF SoAgain, Conclude, Undecided, lookFrame, TypeOK, Balance, Kernel, Verdict
  <2>5. Callbacks'
    BY <1>10 DEF SoAgain, Conclude, Undecided, lookFrame, TypeOK, Balance, Kernel, Callbacks
  <2>6. QED BY <2>1, <2>2, <2>3, <2>4, <2>5
<1>11. CASE Stop
  <2> HIDE DEF TypeOK, Balance, Kernel, Verdict, Callbacks
  <2>1. TypeOK'
    BY <1>11 DEF Stop, AfterStop, TypeOK
  <2>2. Balance'
    BY <1>11 DEF Stop, AfterStop, TypeOK, Balance
  <2>3. Kernel'
    BY <1>11 DEF Stop, AfterStop, TypeOK, Kernel
  <2>4. Verdict'
    BY <1>11 DEF Stop, AfterStop, TypeOK, Balance, Kernel, Verdict
  <2>5. Callbacks'
    BY <1>11 DEF Stop, AfterStop, TypeOK, Balance, Kernel, Callbacks
  <2>6. QED BY <2>1, <2>2, <2>3, <2>4, <2>5
<1>12. CASE Decide
  <2> HIDE DEF TypeOK, Balance, Kernel, Verdict, Callbacks
  <2>1. TypeOK'
    BY <1>12 DEF Decide, TypeOK
  <2>2. Balance'
    BY <1>12 DEF Decide, TypeOK, Balance
  <2>3. Kernel'
    BY <1>12 DEF Decide, TypeOK, Kernel
  <2>4. Verdict'
    BY <1>12 DEF Decide, TypeOK, Balance, Kernel, Verdict
  <2>5. Callbacks'
    BY <1>12 DEF Decide, TypeOK, Balance, Kernel, Callbacks
  <2>6. QED BY <2>1, <2>2, <2>3, <2>4, <2>5
<1>13. CASE Clear
  <2> HIDE DEF TypeOK, Balance, Kernel, Verdict, Callbacks
  <2>1. TypeOK'
    BY <1>13 DEF Clear, TypeOK
  <2>2. Balance'
    BY <1>13 DEF Clear, TypeOK, Balance
  <2>3. Kernel'
    BY <1>13 DEF Clear, TypeOK, Kernel
  <2>4. Verdict'
    BY <1>13 DEF Clear, TypeOK, Balance, Kernel, Verdict
  <2>5. Callbacks'
    BY <1>13 DEF Clear, TypeOK, Balance, Kernel, Callbacks
  <2>6. QED BY <2>1, <2>2, <2>3, <2>4, <2>5
<1>14. CASE Abandon
  <2> HIDE DEF TypeOK, Balance, Kernel, Verdict, Callbacks
  <2>1. edge' \in BOOLEAN
    BY <1>14, Zenon DEF Abandon, CloseFD, TypeOK
  <2>2. TypeOK'
    BY <1>14, <2>1 DEF Abandon, CloseFD, TypeOK, Balance
  <2>3. Balance'
    BY <1>14, <2>1 DEF Abandon, CloseFD, TypeOK, Balance
  <2>4. Kernel'
    BY <1>14, <2>1 DEF Abandon, CloseFD, TypeOK, Kernel
  <2>5. Verdict'
    BY <1>14, <2>1 DEF Abandon, CloseFD, TypeOK, Balance, Kernel, Verdict
  <2>6. Callbacks'
    BY <1>14, <2>1 DEF Abandon, CloseFD, TypeOK, Balance, Kernel, Callbacks
  <2>7. QED BY <2>2, <2>3, <2>4, <2>5, <2>6
<1>15. CASE Restore
  <2> HIDE DEF TypeOK, Balance, Kernel, Verdict, Callbacks
  <2>1. edge' \in BOOLEAN
    BY <1>15, Zenon DEF Restore, CloseFD, TypeOK
  <2>2. TypeOK'
    BY <1>15, <2>1 DEF Restore, CloseFD, TypeOK, Balance
  <2>3. Balance'
    BY <1>15, <2>1 DEF Restore, CloseFD, TypeOK, Balance
  <2>4. Kernel'
    BY <1>15, <2>1 DEF Restore, CloseFD, TypeOK, Kernel
  <2>5. Verdict'
    BY <1>15, <2>1 DEF Restore, CloseFD, TypeOK, Balance, Kernel, Verdict
  <2>6. Callbacks'
    BY <1>15, <2>1 DEF Restore, CloseFD, TypeOK, Balance, Kernel, Callbacks
  <2>7. QED BY <2>2, <2>3, <2>4, <2>5, <2>6
<1>16. CASE NewConn
  <2> HIDE DEF TypeOK, Balance, Kernel, Verdict, Callbacks
  <2>1. edge' \in BOOLEAN
    BY <1>16, Zenon DEF NewConn, CloseFD, TypeOK
  <2>2. TypeOK'
    BY <1>16, <2>1 DEF NewConn, CloseFD, TypeOK, Balance
  <2>3. Balance'
    BY <1>16, <2>1 DEF NewConn, CloseFD, TypeOK, Balance
  <2>4. Kernel'
    BY <1>16, <2>1 DEF NewConn, CloseFD, TypeOK, Kernel
  <2>5. Verdict'
    BY <1>16, <2>1 DEF NewConn, CloseFD, TypeOK, Balance, Kernel, Verdict
  <2>6. Callbacks'
    BY <1>16, <2>1 DEF NewConn, CloseFD, TypeOK, Balance, Kernel, Callbacks
  <2>7. QED BY <2>2, <2>3, <2>4, <2>5, <2>6
<1>17. CASE SelfCheck
  <2> HIDE DEF TypeOK, Balance, Kernel, Verdict, Callbacks
  <2>1. TypeOK'
    BY <1>17 DEF SelfCheck, TypeOK
  <2>2. Balance'
    BY <1>17 DEF SelfCheck, TypeOK, Balance
  <2>3. Kernel'
    BY <1>17 DEF SelfCheck, TypeOK, Kernel
  <2>4. Verdict'
    BY <1>17 DEF SelfCheck, TypeOK, Balance, Kernel, Verdict
  <2>5. Callbacks'
    BY <1>17 DEF SelfCheck, TypeOK, Balance, Kernel, Callbacks
  <2>6. QED BY <2>1, <2>2, <2>3, <2>4, <2>5
<1>18. CASE AbortSelf
  <2> HIDE DEF TypeOK, Balance, Kernel, Verdict, Callbacks
  <2>1. edge' \in BOOLEAN /\ self' \in BOOLEAN /\ est' \in BOOLEAN
         /\ settled' \in BOOLEAN /\ ~est' /\ ~settled'
    BY <1>18, Zenon DEF AbortSelf, LastAttempt, TypeOK
  <2>2. TypeOK'
    BY <1>18, <2>1 DEF AbortSelf, LastAttempt, TypeOK, Balance
  <2>3. Balance'
    BY <1>18, <2>1 DEF AbortSelf, LastAttempt, TypeOK, Balance
  <2>4. Kernel'
    BY <1>18, <2>1 DEF AbortSelf, LastAttempt, TypeOK, Kernel
  <2>5. Verdict'
    BY <1>18, <2>1 DEF AbortSelf, LastAttempt, TypeOK, Balance, Kernel, Verdict
  <2>6. Callbacks'
    BY <1>18, <2>1 DEF AbortSelf, LastAttempt, TypeOK, Balance, Kernel, Callbacks
  <2>7. QED BY <2>2, <2>3, <2>4, <2>5, <2>6
<1>19. CASE CtxDone
  <2> HIDE DEF TypeOK, Balance, Kernel, Verdict, Callbacks
  <2>1. TypeOK'
    BY <1>19 DEF CtxDone, TypeOK
  <2>2. Balance'
    BY <1>19 DEF CtxDone, TypeOK, Balance
  <2>3. Kernel'
    BY <1>19 DEF CtxDone, TypeOK, Kernel
  <2>4. Verdict'
    BY <1>19 DEF CtxDone, TypeOK, Balance, Kernel, Verdict
  <2>5. Callbacks'
    BY <1>19 DEF CtxDone, TypeOK, Balance, Kernel, Callbacks
  <2>6. QED BY <2>1, <2>2, <2>3, <2>4, <2>5
<1>20. CASE Callback
  <2> HIDE DEF TypeOK, Balance, Kernel, Verdict, Callbacks
  <2>1. TypeOK'
    BY <1>20 DEF Callback, TypeOK
  <2>2. Balance'
    BY <1>20 DEF Callback, TypeOK, Balance
  <2>3. Kernel'
    BY <1>20 DEF Callback, TypeOK, Kernel
  <2>4. Verdict'
    BY <1>20 DEF Callback, TypeOK, Balance, Kernel, Verdict, Callbacks
  <2>5. Callbacks'
    BY <1>20 DEF Callback, TypeOK, Balance, Kernel, Callbacks
  <2>6. QED BY <2>1, <2>2, <2>3, <2>4, <2>5
<1>21. CASE Establish
  <2> HIDE DEF TypeOK, Balance, Kernel, Verdict, Callbacks
  <2>1. /\ assoc = "setup" /\ assoc' = "up" /\ head' = "COMM_UP" /\ edge' = TRUE /\ est' = TRUE
        /\ self' \in BOOLEAN
        /\ UNCHANGED <<pc, res, guard, retries, verdict, waitErr, ctx, fn, fdDeadline, poll,
                       skErr, rto, snap, opened, closed, settled>>
    BY <1>21, Zenon DEF Establish, kernelFrame
  <2>2. TypeOK'
    BY <2>1 DEF TypeOK
  <2>3. Balance'
    BY <2>1 DEF Balance
  <2>4. Kernel'
    BY <2>1 DEF Kernel, TypeOK
  <2>5. Verdict'
    BY <2>1 DEF Verdict, Kernel, TypeOK
  <2>6. Callbacks'
    BY <2>1 DEF Callbacks
  <2>7. QED
    BY <2>2, <2>3, <2>4, <2>5, <2>6
<1>22. CASE SetupFails
  <2> HIDE DEF TypeOK, Balance, Kernel, Verdict, Callbacks
  <2>1. /\ \/ assoc = "setup" /\ assoc' = "failing" /\ skErr' = "errno" /\ head' = head
           \/ assoc = "failing" /\ assoc' = "failed" /\ skErr' = skErr /\ head' = "CANT_STR"
        /\ edge' = TRUE
        /\ UNCHANGED <<pc, res, guard, retries, verdict, waitErr, ctx, fn, fdDeadline, poll,
                       self, rto, snap, opened, closed, est, settled>>
    BY <1>22, Zenon DEF SetupFails, kernelFrame
  <2>2. TypeOK'
    BY <2>1 DEF TypeOK
  <2>3. Balance'
    BY <2>1 DEF Balance
  <2>4. Kernel'
    BY <2>1 DEF Kernel, TypeOK
  <2>5. Verdict'
    BY <2>1 DEF Verdict
  <2>6. Callbacks'
    BY <2>1 DEF Callbacks
  <2>7. QED
    BY <2>2, <2>3, <2>4, <2>5, <2>6
<1>23. CASE AssocEnds
  <2> HIDE DEF TypeOK, Balance, Kernel, Verdict, Callbacks
  <2>1. /\ assoc = "up" /\ assoc' = "gone" /\ edge' = TRUE /\ skErr' \in {skErr, "errno"}
        /\ UNCHANGED <<pc, res, guard, retries, verdict, waitErr, ctx, fn, fdDeadline, poll,
                       self, head, rto, snap, opened, closed, est, settled>>
    BY <1>23, Zenon DEF AssocEnds, kernelFrame
  <2>2. TypeOK'
    BY <2>1 DEF TypeOK
  <2>3. Balance'
    BY <2>1 DEF Balance
  <2>4. Kernel'
    BY <2>1 DEF Kernel, TypeOK
  <2>5. Verdict'
    BY <2>1 DEF Verdict
  <2>6. Callbacks'
    BY <2>1 DEF Callbacks
  <2>7. QED
    BY <2>2, <2>3, <2>4, <2>5, <2>6
<1>24. CASE ErrorTaken
  <2>1. edge' \in BOOLEAN /\ poll' \in {"idle", "ready", "error"} /\ skErr' \in {skErr, "0"}
    BY <1>24, Zenon DEF ErrorTaken, kernelFrame
  <2> HIDE DEF DialInv
  <2>2. QED
    BY <1>24, <2>1, PollerKeeps, Zenon DEF ErrorTaken, kernelFrame
<1>25. CASE OtherChange
  <2>1. edge' \in BOOLEAN /\ poll' \in {"idle", "ready", "error"} /\ skErr' \in {skErr, "0"}
    BY <1>25, Zenon DEF OtherChange, kernelFrame
  <2> HIDE DEF DialInv
  <2>2. QED
    BY <1>25, <2>1, PollerKeeps, Zenon DEF OtherChange, kernelFrame
<1>26. CASE Netpoll
  <2>1. edge' \in BOOLEAN /\ poll' \in {"idle", "ready", "error"} /\ skErr' \in {skErr, "0"}
    BY <1>26, Zenon DEF Netpoll
  <2> HIDE DEF DialInv
  <2>2. QED
    BY <1>26, <2>1, PollerKeeps, Zenon DEF Netpoll
<1>27. CASE Returned \/ UNCHANGED vars
  <2>1. UNCHANGED vars
    BY <1>27, Zenon DEF Returned
  <2>2. edge' \in BOOLEAN /\ poll' \in {"idle", "ready", "error"} /\ skErr' \in {skErr, "0"}
    BY <2>1, Zenon DEF vars
  <2> HIDE DEF DialInv
  <2>3. QED
    BY <2>1, <2>2, PollerKeeps, Zenon DEF vars
<1> HIDE DEF DialInv
<1>28. QED
  BY <1>1, <1>2, <1>3, <1>4, <1>5, <1>6, <1>7, <1>8, <1>9, <1>10, <1>11, <1>12, <1>13,
     <1>14, <1>15, <1>16, <1>17, <1>18, <1>19, <1>20, <1>21, <1>22, <1>23, <1>24,
     <1>25, <1>26, <1>27 DEF Next, DialStep

\* The invariant holds of every run of a dial.
THEOREM DialInvariance == Spec => []DialInv
BY DialStarts, DialSteps, PTL DEF Spec

\* Whatever the number of attempts, every path through dial closes the sockets
\* it opened, and no attempt is made while an earlier one's is open.
THEOREM NoSocketLeaks == Spec => []SocketsClosed
<1>1. DialInv => SocketsClosed
  BY DEF DialInv, Balance, SocketsClosed
<1>2. QED
  BY <1>1, DialInvariance, PTL

\* A Conn that Dial returns has an established association, no deadline and no
\* callback of the dial's, and the lasting RTO.Initial.
THEOREM ConnReady == Spec => []ConnIsReady
<1>1. DialInv => ConnIsReady
  BY DEF DialInv, TypeOK, Balance, Kernel, Verdict, Callbacks, ConnIsReady
<1>2. QED
  BY <1>1, DialInvariance, PTL

\* The context's error is never returned for a setup that was settled when the
\* context ended.
THEOREM SettledIsReported == Spec => []VerdictBeatsContext
<1>1. DialInv => VerdictBeatsContext
  BY DEF DialInv, Callbacks, VerdictBeatsContext
<1>2. QED
  BY <1>1, DialInvariance, PTL

-----------------------------------------------------------------------------
(* The cache of zones *)

Index  == 0..MaxIndex
Tables == [Names -> Index]

\* Types, the lock, and that nothing is stamped with a time to come.
ZoneType ==
  /\ clock \in Nat /\ created \in Index /\ host \in Tables
  /\ until \in [Names -> [Index -> Nat]]
  /\ byName \in Tables /\ ift \in Tables
  /\ fetched \in Nat /\ fetched <= clock /\ read \in Nat /\ read <= clock
  /\ looking \in [Lookers -> {"idle", "index", "refresh", "interfaces", "store"}]
  /\ zone \in [Lookers -> Names] /\ now \in [Lookers -> Nat]
  /\ zoneMu \in Lookers \cup {Nobody}
  /\ \A g \in Lookers : /\ now[g] <= clock
                        /\ looking[g] \in {"interfaces", "store"} <=> zoneMu = g
  /\ \A n \in Names, i \in Index : until[n][i] <= clock

\* The copy is as old as its time says, give or take one read of the table, and
\* the table about to be stored was read within ReadTicks, after its lookup began.
CopyInv ==
  /\ fetched # 0 => \A n \in Names : HadSince(n, byName[n], fetched - ReadTicks)
  /\ \A g \in Lookers : looking[g] = "store" =>
       /\ clock - read <= ReadTicks /\ now[g] <= read
       /\ \A n \in Names : HadSince(n, ift[n], read)

\* A return, whatever it answers.
Idles(g) ==
  /\ looking' = [looking EXCEPT ![g] = "idle"]
  /\ zone' = [zone EXCEPT ![g] = NoZone]
  /\ now' = [now EXCEPT ![g] = 0]

\* What it leaves, as the proofs use it.
Idle(g) ==
  /\ looking' \in [Lookers -> {"idle", "index", "refresh", "interfaces", "store"}]
  /\ looking'[g] = "idle" /\ \A h \in Lookers \ {g} : looking'[h] = looking[h]
  /\ zone' \in [Lookers -> Names] /\ now' \in [Lookers -> Nat]
  /\ \A h \in Lookers : now'[h] <= clock

\* Every answer is a return.
LEMMA FoundIdles == \A g, copy, f : Found(g, copy, f) => Idles(g)
  BY DEF Found, Idles

\* A return keeps the types.
LEMMA IdlesType ==
  ASSUME NEW g \in Lookers, Idles(g), ZoneType
  PROVE Idle(g)
  BY ZoneAssumption DEF Idle, Idles, ZoneType, NoZone

\* The types, by each step.
LEMMA NextZoneType == ASSUME ZoneType, [ZoneNext]_zoneVars PROVE ZoneType'
  <1> USE ZoneAssumption DEF Idle, cacheVars, lookVars, hostVars, answerVars, Goes
  <1>1. ASSUME NEW g \in Lookers, Lookup(g) PROVE ZoneType'
    BY <1>1 DEF Lookup, ZoneType
  <1>2. ASSUME NEW g \in Lookers, index(g) PROVE ZoneType'
    <2>1. CASE Goes(g, "refresh")
      BY <1>2, <2>1, Zenon DEF index, ZoneType
    <2>2. CASE Idles(g)
      <3>1. Idle(g) BY <2>2, IdlesType
      <3>2. QED BY <1>2, <2>2, <3>1, Zenon DEF index, ZoneType
    <2>3. QED BY <1>2, <2>1, <2>2, FoundIdles, Zenon DEF index
  <1>3. ASSUME NEW g \in Lookers, refresh(g) PROVE ZoneType'
    <2>1. CASE Goes(g, "interfaces") /\ zoneMu' = g
      BY <1>3, <2>1 DEF refresh, ZoneType
    <2>2. CASE Idles(g) /\ zoneMu' = zoneMu
      <3>1. Idle(g) BY <2>2, IdlesType
      <3>2. QED BY <1>3, <2>2, <3>1 DEF refresh, ZoneType
    <2>3. QED BY <1>3, <2>1, <2>2, FoundIdles, Zenon DEF refresh
  <1>4. ASSUME NEW g \in Lookers, interfaces(g) PROVE ZoneType'
    <2>1. CASE Goes(g, "store") /\ ift' = host /\ read' = clock /\ zoneMu' = zoneMu
      BY <1>4, <2>1 DEF interfaces, ZoneType
    <2>2. CASE Idles(g) /\ zoneMu' = Nobody /\ UNCHANGED <<ift, read>>
      <3>1. Idle(g) BY <2>2, IdlesType
      <3>2. QED BY <1>4, <2>2, <3>1 DEF interfaces, ZoneType
    <2>3. QED BY <1>4, <2>1, <2>2, FoundIdles, Zenon DEF interfaces
  <1>5. ASSUME NEW g \in Lookers, store(g) PROVE ZoneType'
    <2>1. Idles(g)
      BY <1>5, FoundIdles, Zenon DEF store
    <2>2. Idle(g) BY <2>1, IdlesType
    <2>3. QED BY <1>5, <2>2 DEF store, ZoneType
  <1>6. ASSUME Tick PROVE ZoneType'
    BY <1>6 DEF Tick, ZoneType
  <1>7. ASSUME NEW n \in Names, Change(n) PROVE ZoneType'
    <2>1. host[n] \in Index /\ until[n] \in [Index -> Nat]
      BY DEF ZoneType, Tables
    <2>2. until' = [until EXCEPT ![n] = [until[n] EXCEPT ![host[n]] = clock]]
      BY <1>7 DEF Change
    <2>3. /\ until' \in [Names -> [Index -> Nat]]
          /\ \A m \in Names, i \in Index : until'[m][i] <= clock
      <3>1. [until[n] EXCEPT ![host[n]] = clock] \in [Index -> Nat]
            /\ \A i \in Index : [until[n] EXCEPT ![host[n]] = clock][i] <= clock
        BY <2>1 DEF ZoneType
      <3>2. QED BY <2>2, <3>1 DEF ZoneType
    <2>4. created' \in Index /\ host' \in Tables
      <3>1. created' = created \/ (created < MaxIndex /\ created' = created + 1)
        BY <1>7 DEF Change
      <3>2. created' \in Index /\ 0 \in Index
        BY <3>1 DEF ZoneType, Index
      <3>3. host' = [host EXCEPT ![n] = created'] \/ host' = [host EXCEPT ![n] = 0]
        BY <1>7 DEF Change
      <3>4. ASSUME NEW i \in Index PROVE [host EXCEPT ![n] = i] \in Tables
        BY DEF ZoneType, Tables
      <3>5. QED BY <3>2, <3>3, <3>4
    <2>5. QED BY <1>7, <2>3, <2>4 DEF Change, ZoneType
  <1>8. ASSUME UNCHANGED zoneVars PROVE ZoneType'
    BY <1>8 DEF zoneVars, ZoneType
  <1>9. QED BY <1>1, <1>2, <1>3, <1>4, <1>5, <1>6, <1>7, <1>8 DEF ZoneNext

\* What an interface had since a time that is past it had, whatever happens to
\* the host.
LEMMA HadKept ==
  ASSUME ZoneType, NEW m \in Names, Change(m),
         NEW n \in Names, NEW i \in Index, NEW t \in Int, t <= clock, HadSince(n, i, t)
  PROVE HadSince(n, i, t)'
  <1>1. host[m] \in Index /\ until[n] \in [Index -> Nat] /\ until \in [Names -> [Index -> Nat]]
    BY DEF ZoneType, Tables
  <1>2. until' = [until EXCEPT ![m] = [until[m] EXCEPT ![host[m]] = clock]]
    BY DEF Change
  <1>3. host'[n] = host[n] \/ (n = m /\ until'[n] = [until[n] EXCEPT ![host[n]] = clock])
    BY <1>1, <1>2, Zenon DEF Change, ZoneType, Tables
  <1>4. until'[n][i] = until[n][i] \/ until'[n][i] = clock
    BY <1>1, <1>2
  <1>5. clock \in Nat /\ until[n][i] \in Nat
    BY <1>1 DEF ZoneType
  <1>6. CASE host[n] = i
    <2>1. CASE host'[n] = host[n] BY <1>6, <2>1, Zenon DEF HadSince
    <2>2. CASE until'[n] = [until[n] EXCEPT ![host[n]] = clock]
      <3>1. until'[n][i] = clock BY <1>1, <1>6, <2>2
      <3>2. QED BY <1>5, <3>1 DEF HadSince
    <2>3. QED BY <1>3, <2>1, <2>2
  <1>7. CASE until[n][i] >= t
    BY <1>4, <1>5, <1>7 DEF HadSince
  <1>8. QED BY <1>6, <1>7, Zenon DEF HadSince

\* An answer that was true since a time is true since any earlier time.
LEMMA HadEarlier ==
  ASSUME ZoneType, NEW n \in Names, NEW i \in Index, NEW t \in Int, NEW u \in Int,
         u <= t, HadSince(n, i, t)
  PROVE HadSince(n, i, u)
  BY DEF ZoneType, HadSince

\* An answer that is recent enough, or a decimal zone's own number, is no stale one.
LEMMA FoundFresh ==
  ASSUME NEW g \in Lookers, NEW copy, NEW f, Found(g, copy, f), ~stale,
         f \/ ~TooOld(g, copy[zone[g]])
  PROVE ~stale'
  BY Zenon DEF Found

\* Each step keeps the copy's age, and none returns what is too old.
LEMMA NextCopyInv ==
  ASSUME ZoneType, CopyInv, ~stale, [ZoneNext]_zoneVars
  PROVE CopyInv' /\ ~stale'
  <1> USE DEF cacheVars, lookVars, hostVars, answerVars, Goes
  <1>a. /\ TTL \in Nat /\ TTL > 0 /\ ReadTicks \in Nat /\ clock \in Nat /\ fetched \in Nat
        /\ read \in Nat /\ fetched <= clock /\ read <= clock
    BY ZoneAssumption DEF ZoneType
  <1>b. /\ \A g \in Lookers : now[g] \in Nat /\ now[g] <= clock /\ zone[g] \in Names
        /\ \A n \in Names : byName[n] \in Index /\ ift[n] \in Index
    BY DEF ZoneType, Tables
  <1>p. /\ looking \in [Lookers -> {"idle", "index", "refresh", "interfaces", "store"}]
        /\ \A g, h \in Lookers :
             looking[g] \in {"interfaces", "store"} /\ looking[h] \in {"interfaces", "store"} => g = h
    BY DEF ZoneType
  \* A step that leaves the host and the copy alone, and brings no one to "store".
  <1>s. ASSUME UNCHANGED <<clock, host, until, byName, fetched, ift, read>>,
               \A g \in Lookers : looking'[g] = "store" => looking[g] = "store" /\ now'[g] = now[g]
        PROVE CopyInv'
    BY <1>s DEF CopyInv, HadSince
  <1>i. ASSUME NEW g \in Lookers, Idles(g)
        PROVE \A h \in Lookers : looking'[h] = "store" => looking[h] = "store" /\ now'[h] = now[h]
    BY <1>p, <1>i DEF Idles, ZoneType
  \* A copy taken after a time within zoneCacheTTL of the lookup.
  <1>c. ASSUME NEW g \in Lookers, fetched # 0, now[g] - fetched < TTL
        PROVE ~TooOld(g, byName[zone[g]])
    <2>1. HadSince(zone[g], byName[zone[g]], fetched - ReadTicks)
      BY <1>b, <1>c, Zenon DEF CopyInv
    <2>2. now[g] - TTL - ReadTicks + 1 <= fetched - ReadTicks
          /\ now[g] - TTL - ReadTicks + 1 \in Int /\ fetched - ReadTicks \in Int
      <3>1. now[g] \in Nat
        BY <1>b
      <3>2. QED BY <1>a, <1>c, <3>1
    <2>3. HadSince(zone[g], byName[zone[g]], now[g] - TTL - ReadTicks + 1)
      BY <1>b, <2>1, <2>2, HadEarlier
    <2>4. QED BY <2>3, Zenon DEF TooOld
  <1>1. ASSUME NEW g \in Lookers, Lookup(g) PROVE CopyInv' /\ ~stale'
    <2>1. \A h \in Lookers : looking'[h] = "store" => looking[h] = "store" /\ now'[h] = now[h]
      BY <1>1, <1>p DEF Lookup, ZoneType
    <2>2. QED BY <1>1, <1>s, <2>1 DEF Lookup
  <1>2. ASSUME NEW g \in Lookers, index(g) PROVE CopyInv' /\ ~stale'
    <2>1. CASE Goes(g, "refresh")
      BY <1>2, <1>p, <1>s, <2>1, Zenon DEF index
    <2>2. CASE /\ Found(g, byName, FALSE)
               /\ Fresh(g) \/ (byName[zone[g]] = 0 /\ isDecimal(zone[g]))
      <3>1. ASSUME Fresh(g) PROVE ~stale'
        BY <1>c, <2>2, <3>1, FoundFresh, Zenon DEF Fresh
      <3>2. ASSUME byName[zone[g]] = 0, isDecimal(zone[g]) PROVE ~stale'
        BY <2>2, <3>2, FoundFresh, Zenon DEF TooOld, encodeZone
      <3>3. CopyInv'
        BY <1>2, <1>i, <1>s, <2>2, FoundIdles, Zenon DEF index
      <3>4. QED BY <2>2, <3>1, <3>2, <3>3, Zenon
    <2>3. QED BY <1>2, <2>1, <2>2, Zenon DEF index
  <1>3. ASSUME NEW g \in Lookers, refresh(g) PROVE CopyInv' /\ ~stale'
    <2>1. CASE Goes(g, "interfaces")
      BY <1>3, <1>p, <1>s, <2>1 DEF refresh
    <2>2. CASE ReadSince(g) /\ Found(g, byName, FALSE)
      <3>1. fetched # 0 /\ now[g] - fetched < TTL
        <4>1. now[g] \in Nat /\ fetched > now[g]
          BY <1>b, <2>2, Zenon DEF ReadSince
        <4>2. QED BY <1>a, <4>1
      <3>2. ~stale'
        BY <1>c, <2>2, <3>1, FoundFresh, Zenon
      <3>3. QED BY <1>3, <1>i, <1>s, <2>2, <3>2, FoundIdles, Zenon DEF refresh
    <2>3. QED BY <1>3, <2>1, <2>2, Zenon DEF refresh
  <1>4. ASSUME NEW g \in Lookers, interfaces(g) PROVE CopyInv' /\ ~stale'
    <2>1. CASE Goes(g, "store") /\ ift' = host /\ read' = clock
      <3>1. ~stale' /\ UNCHANGED <<clock, host, until, byName, fetched, now>>
        BY <1>4, <2>1 DEF interfaces
      <3>2. \A h \in Lookers : looking'[h] = "store" => h = g
        BY <1>4, <1>p, <2>1 DEF interfaces
      <3>3. /\ fetched' # 0 => \A n \in Names : HadSince(n, byName[n], fetched - ReadTicks)'
            /\ \A n \in Names : HadSince(n, ift[n], read)'
        BY <2>1, <3>1 DEF CopyInv, HadSince
      <3>4. clock' - read' <= ReadTicks /\ now'[g] <= read'
        <4>1. now[g] \in Nat /\ now[g] <= clock
          BY <1>b
        <4>2. QED BY <1>a, <2>1, <3>1, <4>1
      <3>5. QED BY <3>1, <3>2, <3>3, <3>4, Zenon DEF CopyInv
    <2>2. CASE Found(g, byName, TRUE) /\ UNCHANGED <<ift, read>>
      <3>1. ~stale'
        BY <2>2, FoundFresh, Zenon
      <3>2. QED BY <1>4, <1>i, <1>s, <2>2, <3>1, FoundIdles, Zenon DEF interfaces
    <2>3. QED BY <1>4, <2>1, <2>2, Zenon DEF interfaces
  <1>5. ASSUME NEW g \in Lookers, store(g) PROVE CopyInv' /\ ~stale'
    <2>1. looking[g] = "store" /\ byName' = ift /\ fetched' = clock /\ Found(g, byName', FALSE)
          /\ UNCHANGED <<clock, host, until>>
      BY <1>5, Zenon DEF store
    <2>2. /\ clock - read <= ReadTicks /\ now[g] <= read
          /\ \A n \in Names : HadSince(n, ift[n], read)
      BY <2>1, Zenon DEF CopyInv
    <2>3. \A n \in Names : HadSince(n, ift[n], clock - ReadTicks)
      <3>1. clock - ReadTicks <= read /\ clock - ReadTicks \in Int /\ read \in Int
        BY <1>a, <2>2
      <3>2. QED BY <1>a, <1>b, <2>2, <3>1, HadEarlier, Zenon
    <2>4. \A h \in Lookers : looking'[h] # "store"
      <3>1. Idles(g)
        BY <2>1, FoundIdles, Zenon
      <3>2. QED BY <1>p, <2>1, <3>1 DEF Idles
    <2>5. CopyInv'
      BY <2>1, <2>3, <2>4, Zenon DEF CopyInv, HadSince
    <2>6. ~TooOld(g, ift[zone[g]])
      <3>1. /\ now[g] - TTL - ReadTicks + 1 <= read
            /\ now[g] - TTL - ReadTicks + 1 \in Int /\ read \in Int
        <4>1. now[g] \in Nat /\ now[g] <= read
          BY <1>b, <2>2
        <4>2. QED BY <1>a, <4>1
      <3>2. HadSince(zone[g], ift[zone[g]], now[g] - TTL - ReadTicks + 1)
        BY <1>b, <2>2, <3>1, HadEarlier, Zenon
      <3>3. QED BY <3>2, Zenon DEF TooOld
    <2>7. QED BY <2>1, <2>5, <2>6, FoundFresh, Zenon
  <1>6. ASSUME Tick PROVE CopyInv' /\ ~stale'
    <2>1. clock' = clock + 1
          /\ UNCHANGED <<host, until, byName, fetched, ift, read, looking, now, stale>>
          /\ \A g \in Lookers : looking[g] = "store" => clock - read < ReadTicks
      BY <1>6 DEF Tick
    <2>2. \A n, i, t : HadSince(n, i, t) => HadSince(n, i, t)'
      BY <2>1, Zenon DEF HadSince
    <2>3. \A g \in Lookers : looking[g] = "store" => clock' - read <= ReadTicks
      BY <1>a, <2>1
    <2>4. QED BY <2>1, <2>2, <2>3, Zenon DEF CopyInv, HadSince
  <1>7. ASSUME NEW m \in Names, Change(m) PROVE CopyInv' /\ ~stale'
    <2>1. UNCHANGED <<clock, byName, fetched, ift, read, looking, now, stale>>
      BY <1>7 DEF Change
    <2>2. ASSUME NEW n \in Names, fetched # 0
          PROVE HadSince(n, byName[n], fetched - ReadTicks)'
      <3>1. PICK i \in Index, t \in Int : i = byName[n] /\ t = fetched - ReadTicks /\ t <= clock
        <4>1. byName[n] \in Index
          BY <1>b
        <4>2. QED BY <1>a, <4>1
      <3>2. HadSince(n, i, t)
        BY <2>2, <3>1, Zenon DEF CopyInv
      <3>3. HadSince(n, i, t)'
        BY <1>7, <3>1, <3>2, HadKept
      <3>4. i = byName'[n] /\ t = fetched' - ReadTicks
        BY <2>1, <3>1
      <3>5. QED BY <3>3, <3>4, Zenon DEF HadSince
    <2>3. ASSUME NEW g \in Lookers, NEW n \in Names, looking[g] = "store"
          PROVE HadSince(n, ift[n], read)'
      <3>1. PICK i \in Index, t \in Int : i = ift[n] /\ t = read /\ t <= clock
        <4>1. ift[n] \in Index
          BY <1>b
        <4>2. QED BY <1>a, <4>1
      <3>2. HadSince(n, i, t)
        BY <2>3, <3>1, Zenon DEF CopyInv
      <3>3. HadSince(n, i, t)'
        BY <1>7, <3>1, <3>2, HadKept
      <3>4. i = ift'[n] /\ t = read'
        BY <2>1, <3>1
      <3>5. QED BY <3>3, <3>4, Zenon DEF HadSince
    <2>4. QED BY <2>1, <2>2, <2>3, Zenon DEF CopyInv
  <1>8. ASSUME UNCHANGED zoneVars PROVE CopyInv' /\ ~stale'
    BY <1>8, Zenon DEF zoneVars, CopyInv, HadSince
  <1>9. QED BY <1>1, <1>2, <1>3, <1>4, <1>5, <1>6, <1>7, <1>8 DEF ZoneNext

\* However many goroutines look zones up while interfaces come and go, an index
\* is encoded that its interface had within zoneCacheTTL, and one read of the
\* table, of the start of the lookup.
THEOREM NoZoneTooOld == ZoneSpec => []ZoneIsRecent
  <1> DEFINE Inv == ZoneType /\ CopyInv /\ ~stale
  <1>1. ZoneInit => Inv
    <2> SUFFICES ASSUME ZoneInit PROVE Inv
      OBVIOUS
    <2>1. ZoneType
      BY ZoneAssumption DEF ZoneInit, ZoneType, Tables, Index, NoZone
    <2>2. CopyInv
      BY DEF ZoneInit, CopyInv
    <2>3. ~stale
      BY Zenon DEF ZoneInit
    <2>4. QED BY <2>1, <2>2, <2>3
  <1>2. Inv /\ [ZoneNext /\ UNCHANGED part]_<<part, zoneVars>> => Inv'
    BY NextZoneType, NextCopyInv
  <1>3. Inv => ZoneIsRecent
    BY DEF ZoneIsRecent
  <1>4. QED BY <1>1, <1>2, <1>3, PTL DEF ZoneSpec

-----------------------------------------------------------------------------
(* The peel-offs of an endpoint *)

Places == {"setup", "endpoint", "conn", "ended", "init", "EMFILE", "ENFILE"}
PeelPCs == {"idle", "lock", "status", "spare", "peel", "newConn"}
Holding == {"status", "spare", "peel"}

\* Types, who holds recordMu, and that a descriptor is left for a peel-off
\* unless one was taken since it looked.
PeelInv ==
  /\ recordMu \in Peelers \cup {Unheld, Reader} /\ rpc \in {"idle", "attempt", "recvmsg", "wait"}
  /\ peeling \in [Peelers -> PeelPCs] /\ arg \in [Peelers -> Assocs] /\ where \in [Assocs -> Places]
  /\ free \in Nat /\ others \in Nat /\ raced \in BOOLEAN
  /\ recordMu = Reader <=> rpc = "recvmsg"
  /\ \A p \in Peelers : recordMu = p <=> peeling[p] \in Holding
  /\ \A p \in Peelers : peeling[p] = "peel" => free > 0 \/ raced
  /\ (\E a \in Assocs : where[a] = "EMFILE") => raced

\* The invariant holds at the start.
LEMMA InitPeelInv == ASSUME PeelInit PROVE PeelInv
  <1>1. where \in [Assocs -> {"setup", "endpoint"}]
    BY DEF PeelInit
  <1>2. where \in [Assocs -> Places] /\ \A a \in Assocs : where[a] # "EMFILE"
    BY <1>1 DEF Places
  <1>3. QED
    BY <1>2, PeelAssumption, Zenon
    DEF PeelInit, PeelInv, Unheld, Reader, PeelPCs, Holding

\* Every step of a peel-off, of the program and of the kernel keeps it.
LEMMA NextPeelInv == ASSUME PeelInv, [PeelNext]_peelOffVars PROVE PeelInv'
  <1>a. Unheld # Reader /\ Unheld \notin Peelers /\ Reader \notin Peelers
    BY PeelAssumption, Zenon DEF Unheld, Reader
  <1> USE <1>a DEF recvVars, peelVars, spareVars, recvFrame, peelFrame, sysFrame,
                   Unlock, PeelRelease, PeelGoto, PeelReturn, PeelPCs, Holding
  <1> HIDE DEF Unheld, Reader
  \* A step of the reader, which leaves the peel-offs and the descriptors alone.
  <1>1. ASSUME UNCHANGED <<peelVars, spareVars>>,
               rpc' \in {"idle", "attempt", "recvmsg", "wait"},
               where' \in [Assocs -> Places],
               \A a \in Assocs : where'[a] = "EMFILE" => where[a] = "EMFILE",
               recordMu' = recordMu \/ {recordMu, recordMu'} \subseteq {Unheld, Reader},
               recordMu' = Reader <=> rpc' = "recvmsg"
        PROVE PeelInv'
    BY <1>1 DEF PeelInv
  <1>2. ASSUME RecvMsg \/ RecvAttempt \/ RecvNote \/ RecvWake PROVE PeelInv'
    BY <1>1, <1>2, Zenon DEF RecvMsg, RecvAttempt, RecvNote, RecvWake, PeelInv
  <1>3. ASSUME RecvData \/ RecvEmpty PROVE PeelInv'
    <2>1. /\ where' \in [Assocs -> Places]
          /\ \A a \in Assocs : where'[a] = "EMFILE" => where[a] = "EMFILE"
      BY <1>3 DEF RecvData, RecvEmpty, AbortIf, PeelInv, Places
    <2>2. QED BY <1>1, <1>3, <2>1, Zenon DEF RecvData, RecvEmpty, PeelInv
  <1>4. ASSUME NEW p \in Peelers, NEW a \in Assocs, PeelCall(p, a) PROVE PeelInv'
    BY <1>4, Zenon DEF PeelCall, PeelInv
  <1>5. ASSUME NEW p \in Peelers, PeelLock(p) PROVE PeelInv'
    BY <1>5 DEF PeelLock, PeelInv
  <1>6. ASSUME NEW p \in Peelers, PeelStatus(p) PROVE PeelInv'
    BY <1>6, SMTT(20) DEF PeelStatus, PeelInv
  <1>7. ASSUME NEW p \in Peelers, Spare(p) PROVE PeelInv'
    BY <1>7 DEF Spare, PeelInv
  <1>8. ASSUME NEW p \in Peelers, Peel(p) PROVE PeelInv'
    <2>1. peeling[p] = "peel" /\ recordMu = p /\ arg[p] \in Assocs
      BY <1>8 DEF Peel, PeelInv
    <2>2. \A q \in Peelers \ {p} : peeling[q] \notin Holding
      BY <2>1 DEF PeelInv
    <2>3. recordMu' = Unheld /\ UNCHANGED <<rpc, arg, others, raced>>
      BY <1>8, <2>1, Zenon DEF Peel
    <2>4. peeling' \in [Peelers -> PeelPCs] /\ \A q \in Peelers : peeling'[q] \notin Holding
      BY <1>8, <2>1, <2>2 DEF Peel, PeelInv
    <2>5. free' \in Nat
      <3>1. free' = free \/ (free > 0 /\ free' = free - 1)
        BY <1>8, Zenon DEF Peel
      <3>2. free \in Nat
        BY DEF PeelInv
      <3>3. QED BY <3>1, <3>2
    <2>6. /\ where' \in [Assocs -> Places]
          /\ \A b \in Assocs : where'[b] = "EMFILE" => where[b] = "EMFILE" \/ raced
      <3>1. /\ where \in [Assocs -> Places] /\ raced \in BOOLEAN
            /\ free = 0 => raced
        BY <2>1 DEF PeelInv
      <3>2. \/ where' = where
            \/ \E v \in {"conn", "ENFILE"} : where' = [where EXCEPT ![arg[p]] = v]
            \/ free = 0 /\ where' = [where EXCEPT ![arg[p]] = "EMFILE"]
        BY <1>8, Zenon DEF Peel
      <3>3. QED BY <2>1, <3>1, <3>2 DEF Places
    <2>7. QED BY <2>1, <2>3, <2>4, <2>5, <2>6 DEF PeelInv
  <1>9. ASSUME NEW p \in Peelers, PeeledConn(p) PROVE PeelInv'
    <2>1. /\ peeling[p] = "newConn" /\ peeling' = [peeling EXCEPT ![p] = "idle"]
          /\ UNCHANGED <<recordMu, rpc, arg, others, raced>>
          /\ \/ UNCHANGED <<where, free>>
             \/ where' = [where EXCEPT ![arg[p]] = "init"] /\ free' = free + 1
      BY <1>9, Zenon DEF PeeledConn
    <2>2. /\ where' \in [Assocs -> Places]
          /\ \A b \in Assocs : where'[b] = "EMFILE" => where[b] = "EMFILE"
      BY <2>1 DEF PeelInv, Places
    <2>3. peeling' \in [Peelers -> PeelPCs] /\ free' \in Nat
      BY <2>1 DEF PeelInv
    <2>4. QED BY <2>1, <2>2, <2>3 DEF PeelInv
  <1>10. ASSUME NEW a \in Assocs,
                Established(a) \/ Ends(a) \/ \E k \in {"note", "data"} : Arrive(a, k)
         PROVE PeelInv'
    BY <1>10, Zenon DEF Established, Ends, Arrive, PeelInv, Places
  <1>11. ASSUME CloseEndpoint PROVE PeelInv'
    BY <1>11, Zenon DEF CloseEndpoint, PeelInv, Places
  <1>12. ASSUME TakeFD PROVE PeelInv'
    <2>1. raced' \in BOOLEAN /\ (raced' <=> raced \/ \E p \in Peelers : peeling[p] = "peel")
      BY <1>12, Zenon DEF TakeFD
    <2>2. QED BY <1>12, <2>1 DEF TakeFD, PeelInv
  <1>13. ASSUME GiveFD PROVE PeelInv'
    BY <1>13 DEF GiveFD, PeelInv
  <1>14. ASSUME UNCHANGED peelOffVars PROVE PeelInv'
    BY <1>14 DEF peelOffVars, PeelInv
  <1>15. QED
    BY <1>2, <1>3, <1>4, <1>5, <1>6, <1>7, <1>8, <1>9, <1>10, <1>11, <1>12, <1>13, <1>14
       DEF PeelNext, RecvStep, PeelStep, Finished

\* So it is an invariant.
LEMMA PeelInvariance == PeelSpec => []PeelInv
  <1>1. PeelInit => PeelInv
    BY InitPeelInv
  <1>2. PeelInv /\ [PeelNext /\ UNCHANGED part]_<<part, peelOffVars>> => PeelInv'
    BY NextPeelInv
  <1>3. QED BY <1>1, <1>2, PTL DEF PeelSpec

\* PeelOff looks for a spare descriptor and peels the association off with
\* recordMu held: for want of one an association is lost only when a goroutine
\* outside the package took it in between, whatever other peel-offs do.
THEOREM PeelCostsNothing == PeelSpec => []LostOnlyInRace
  <1>1. PeelInv => LostOnlyInRace
    BY DEF PeelInv, LostOnlyInRace
  <1>2. QED BY <1>1, PeelInvariance, PTL

\* No one waits for the network with recordMu held: neither a RecvMsg that is
\* parked nor a call that has returned holds it.
THEOREM HolderAlwaysRuns == PeelSpec => []HolderRuns
  <1>1. PeelInv => HolderRuns
    BY DEF PeelInv, HolderRuns, Holding
  <1>2. QED BY <1>1, PeelInvariance, PTL

-----------------------------------------------------------------------------
(* The records a reader of the endpoint reads *)

PeelRecords == [assoc : Assocs, n : Nat, kind : {"note", "data"}, part : Nat]

\* Types, as far as the records need them.
RecordTypes ==
  /\ queue \in Seq(PeelRecords) /\ acc \in Seq(PeelRecords) /\ got \in Seq(PeelRecords)
  /\ arrived \in Nat

\* A record is begun only within a callback, and the rest of it heads the queue.
BegunInv ==
  acc # <<>> => /\ rpc = "recvmsg" /\ queue # <<>>
                /\ queue[1].kind = "note" /\ queue[1].part = Len(acc) + 1
                /\ \A i \in 1..Len(acc) : acc[i].part = i /\ acc[i].n = queue[1].n

\* No other notification of the queue is begun.
FreshInv ==
  \A i \in 1..Len(queue) :
    queue[i].kind = "note" /\ (i # 1 \/ acc = <<>>) => queue[i].part = 1

GotInv == \A i \in 1..Len(got) : got[i].part = i /\ got[i].n = got[1].n /\ Len(got) = Pieces

ReadInv == RecordTypes /\ BegunInv /\ FreshInv /\ GotInv /\ cut = FALSE

\* The first record of a queue and the others.
LEMMA FirstIs ==
  ASSUME NEW S, NEW q \in Seq(S), q # <<>>
  PROVE  /\ Len(q) \in Nat /\ 1 <= Len(q) /\ Head(q) = q[1] /\ q[1] \in S
         /\ Tail(q) \in Seq(S) /\ Len(Tail(q)) = Len(q) - 1
         /\ \A i \in 1..(Len(q) - 1) : Tail(q)[i] = q[i + 1]
  <1>1. Len(q) \in Nat /\ 1 <= Len(q)
    OBVIOUS
  <1>2. Head(q) = q[1] /\ q[1] \in S
    BY <1>1
  <1>3. Tail(q) \in Seq(S) /\ Len(Tail(q)) = Len(q) - 1
    BY <1>1
  <1>4. \A i \in 1..(Len(q) - 1) : Tail(q)[i] = q[i + 1]
    BY <1>1
  <1>5. QED BY <1>1, <1>2, <1>3, <1>4, Zenon

\* An index that is not the first.
LEMMA LaterIndex ==
  ASSUME NEW n \in Nat, NEW i \in 1..n, i # 1
  PROVE  i \in 2..n
  OBVIOUS

\* A sequence with a new first element.
LEMMA ConsIs ==
  ASSUME NEW S, NEW q \in Seq(S), NEW x \in S
  PROVE  /\ <<x>> \o q \in Seq(S) /\ Len(<<x>> \o q) = Len(q) + 1 /\ Len(q) \in Nat
         /\ (<<x>> \o q)[1] = x
         /\ \A i \in 1..Len(q) : (<<x>> \o q)[i + 1] = q[i]
  OBVIOUS

\* What a recvmsg leaves: the record has gone, or the rest of it stays first.
LEMMA RestIs ==
  ASSUME RecordTypes, queue # <<>>
  PROVE  /\ Rest \in Seq(PeelRecords) /\ Head(queue) = queue[1] /\ queue[1] \in PeelRecords
         /\ Len(queue) \in Nat /\ 1 <= Len(queue)
         /\ queue[1].part = Pieces =>
              /\ Len(Rest) = Len(queue) - 1
              /\ \A i \in 1..(Len(queue) - 1) : Rest[i] = queue[i + 1]
         /\ queue[1].part # Pieces =>
              /\ Len(Rest) = Len(queue)
              /\ Rest[1].kind = queue[1].kind /\ Rest[1].n = queue[1].n
              /\ Rest[1].part = queue[1].part + 1
              /\ \A i \in 2..Len(queue) : Rest[i] = queue[i]
  <1>1. /\ Len(queue) \in Nat /\ 1 <= Len(queue) /\ Head(queue) = queue[1]
        /\ queue[1] \in PeelRecords
        /\ Tail(queue) \in Seq(PeelRecords) /\ Len(Tail(queue)) = Len(queue) - 1
        /\ \A i \in 1..(Len(queue) - 1) : Tail(queue)[i] = queue[i + 1]
    BY FirstIs DEF RecordTypes
  <1>2. CASE queue[1].part = Pieces
    <2>1. Rest = Tail(queue)
      BY <1>1, <1>2, Zenon DEF Rest
    <2>2. QED BY <1>1, <1>2, <2>1, Zenon
  <1>3. CASE queue[1].part # Pieces
    <2>1. PICK x : x = [queue[1] EXCEPT !.part = @ + 1]
      BY Zenon
    <2>2. Rest = <<x>> \o Tail(queue)
      BY <1>1, <1>3, <2>1, Zenon DEF Rest
    <2>3. /\ x \in PeelRecords /\ x.kind = queue[1].kind /\ x.n = queue[1].n
          /\ x.part = queue[1].part + 1
      <3>1. queue[1] \in PeelRecords /\ x = [queue[1] EXCEPT !.part = @ + 1]
        BY <1>1, <2>1
      <3>2. QED BY <3>1 DEF PeelRecords
    <2>4. /\ Rest \in Seq(PeelRecords) /\ Len(Rest) = Len(Tail(queue)) + 1
          /\ Rest[1] = x /\ \A i \in 1..Len(Tail(queue)) : Rest[i + 1] = Tail(queue)[i]
      BY <1>1, <2>2, <2>3, ConsIs
    <2>5. ASSUME NEW i \in 2..Len(queue) PROVE Rest[i] = queue[i]
      <3>1. PICK j \in 1..(Len(queue) - 1) : i = j + 1
        BY <1>1
      <3>2. QED BY <1>1, <2>4, <3>1
    <2>6. Len(Rest) = Len(queue)
      BY <1>1, <2>4
    <2>7. QED BY <1>1, <1>3, <2>3, <2>4, <2>5, <2>6, Zenon
  <1>4. QED BY <1>2, <1>3, Zenon

\* A step that leaves the records alone, and the callback in which one is begun.
LEMMA RecordsSame ==
  ASSUME ReadInv, UNCHANGED <<queue, acc, cut, arrived>>, got' = got \/ got' = <<>>,
         acc # <<>> => rpc' = "recvmsg"
  PROVE  ReadInv'
  <1>1. got' \in Seq(PeelRecords) /\ GotInv'
    <2>1. CASE got' = got
      BY <2>1 DEF ReadInv, RecordTypes, GotInv
    <2>2. CASE got' = <<>>
      BY <2>2 DEF GotInv
    <2>3. QED BY <2>1, <2>2
  <1>2. RecordTypes'
    BY <1>1, Zenon DEF ReadInv, RecordTypes
  <1>3. BegunInv' /\ FreshInv' /\ cut' = FALSE
    BY Zenon DEF ReadInv, BegunInv, FreshInv
  <1>4. QED BY <1>1, <1>2, <1>3 DEF ReadInv

\* A step after which no record is begun.
LEMMA RecordsApart ==
  ASSUME ReadInv, acc' = <<>>, cut' = cut, arrived' \in Nat, UNCHANGED got,
         queue' \in Seq(PeelRecords),
         \A i \in 1..Len(queue') : queue'[i].kind = "note" => queue'[i].part = 1
  PROVE  ReadInv'
  <1>1. acc' \in Seq(PeelRecords)
    OBVIOUS
  <1>2. RecordTypes'
    BY <1>1, Zenon DEF ReadInv, RecordTypes
  <1>3. BegunInv' /\ FreshInv' /\ GotInv' /\ cut' = FALSE
    BY Zenon DEF ReadInv, BegunInv, FreshInv, GotInv
  <1>4. QED BY <1>2, <1>3 DEF ReadInv

\* A piece of a notification.
LEMMA NoteRead ==
  ASSUME ReadInv, RecvNote
  PROVE  ReadInv'
  <1> DEFINE h == queue[1]
  <1>0. /\ rpc = "recvmsg" /\ queue # <<>> /\ queue' = Rest /\ cut' = cut
        /\ arrived' = arrived /\ Head(queue).kind = "note" /\ Pieces \in Nat
    BY PeelAssumption DEF RecvNote, recvFrame
  <1>1. RecordTypes
    BY DEF ReadInv
  <1>2. /\ queue' \in Seq(PeelRecords) /\ Head(queue) = h /\ h \in PeelRecords
        /\ Len(queue) \in Nat /\ 1 <= Len(queue)
        /\ h.part = Pieces =>
             /\ Len(queue') = Len(queue) - 1
             /\ \A i \in 1..(Len(queue) - 1) : queue'[i] = queue[i + 1]
        /\ h.part # Pieces =>
             /\ Len(queue') = Len(queue)
             /\ queue'[1].kind = h.kind /\ queue'[1].n = h.n
             /\ queue'[1].part = h.part + 1
             /\ \A i \in 2..Len(queue) : queue'[i] = queue[i]
    BY <1>0, <1>1, RestIs, Zenon
  <1>3. /\ acc \in Seq(PeelRecords) /\ Len(acc) \in Nat /\ h.kind = "note"
        /\ h.part = Len(acc) + 1
        /\ \A i \in 1..Len(acc) : acc[i].part = i /\ acc[i].n = h.n
    <2>1. acc \in Seq(PeelRecords) /\ Len(acc) \in Nat /\ h.kind = "note"
      <3>1. acc \in Seq(PeelRecords)
        BY <1>0, <1>1, <1>2, Zenon DEF ReadInv, RecordTypes
      <3>2. Len(acc) \in Nat
        BY <3>1
      <3>3. h.kind = "note"
        BY <1>0, <1>1, <1>2, Zenon
      <3>4. QED BY <3>1, <3>2, <3>3, Zenon
    <2>2. CASE acc = <<>>
      <3>1. Len(acc) = 0
        BY <2>1, <2>2
      <3>q. Len(queue) \in Nat /\ 1 <= Len(queue)
        BY <1>2, Zenon
      <3>2. 1 \in 1..Len(queue)
        BY <3>q
      <3>3. h.part = 1
        BY <1>2, <2>1, <2>2, <3>2, Zenon DEF ReadInv, FreshInv
      <3>4. QED BY <2>1, <3>1, <3>3
    <2>3. CASE acc # <<>>
      BY <2>1, <2>3, Zenon DEF ReadInv, BegunInv
    <2>4. QED BY <2>1, <2>2, <2>3, Zenon
  <1>4. \A i \in 2..Len(queue) : queue[i].kind = "note" => queue[i].part = 1
    <2>1. FreshInv
      BY DEF ReadInv
    <2>2. Len(queue) \in Nat
      BY <1>2, Zenon
    <2>3. QED BY <2>1, <2>2 DEF FreshInv
  <1>5. PICK more : more = Append(acc, h)
    BY Zenon
  <1>6. /\ more \in Seq(PeelRecords) /\ Len(more) = Len(acc) + 1
        /\ more[Len(acc) + 1] = h /\ \A i \in 1..Len(acc) : more[i] = acc[i]
    <2>1. acc \in Seq(PeelRecords) /\ h \in PeelRecords
      BY <1>2, <1>3, Zenon
    <2>2. QED BY <1>5, <2>1
  <1>7. \A i \in 1..Len(more) : more[i].part = i /\ more[i].n = h.n
    <2>1. ASSUME NEW i \in 1..Len(more) PROVE more[i].part = i /\ more[i].n = h.n
      <3>1. i \in 1..Len(acc) \/ i = Len(acc) + 1
        BY <1>3, <1>6
      <3>2. QED BY <1>3, <1>6, <3>1, Zenon
    <2>2. QED BY <2>1, Zenon
  <1>8. CASE h.part < Pieces
    <2>2. h.part # Pieces
      BY <1>0, <1>8
    <2>1. acc' = more /\ UNCHANGED <<rpc, got>>
      <3>1. Head(queue) = h
        BY <1>2, Zenon
      <3>2. QED BY <1>5, <2>2, <3>1, Zenon DEF RecvNote
    <2>3. RecordTypes'
      BY <1>0, <1>1, <1>2, <1>6, <2>1, Zenon DEF RecordTypes
    <2>4. BegunInv'
      <3>1. queue' # <<>> /\ queue'[1].kind = "note" /\ queue'[1].part = Len(more) + 1
            /\ queue'[1].n = h.n
        <4>1. /\ Len(queue') = Len(queue) /\ 1 <= Len(queue) /\ queue'[1].kind = h.kind
              /\ queue'[1].n = h.n /\ queue'[1].part = h.part + 1
          BY <1>2, <2>2, Zenon
        <4>2. h.kind = "note" /\ h.part = Len(more)
          BY <1>3, <1>6, Zenon
        <4>3. Len(queue') # 0
          BY <4>1
        <4>4. queue' # <<>>
          BY <4>3
        <4>5. QED BY <4>1, <4>2, <4>4, Zenon
      <3>2. QED BY <1>0, <1>7, <2>1, <3>1, Zenon DEF BegunInv
    <2>5. FreshInv'
      <3>1. Len(more) # 0
        BY <1>3, <1>6
      <3>2. more # <<>>
        BY <3>1
      <3>3. Len(queue') = Len(queue) /\ \A i \in 2..Len(queue) : queue'[i] = queue[i]
        BY <1>2, <2>2, Zenon
      <3>4. Len(queue) \in Nat /\ acc' # <<>>
        BY <1>2, <2>1, <3>2, Zenon
      <3>5. QED BY <1>4, <3>3, <3>4 DEF FreshInv
    <2>6. GotInv' /\ cut' = FALSE
      BY <1>0, <2>1, Zenon DEF ReadInv, GotInv
    <2>7. QED BY <2>3, <2>4, <2>5, <2>6 DEF ReadInv
  <1>9. CASE h.part = Pieces
    <2>1. acc' = <<>> /\ got' = more
      <3>1. Head(queue) = h
        BY <1>2, Zenon
      <3>2. ~(h.part < Pieces)
        BY <1>0, <1>9
      <3>3. QED BY <1>5, <3>1, <3>2, Zenon DEF RecvNote
    <2>2. RecordTypes'
      <3>1. acc' \in Seq(PeelRecords)
        BY <2>1
      <3>2. QED BY <1>0, <1>1, <1>2, <1>6, <2>1, <3>1, Zenon DEF RecordTypes
    <2>3. FreshInv'
      <3>1. ASSUME NEW i \in 1..Len(queue'), queue'[i].kind = "note" PROVE queue'[i].part = 1
        <4>0. Len(queue) \in Nat /\ Len(queue') = Len(queue) - 1
          BY <1>2, <1>9, Zenon
        <4>1. i \in 1..(Len(queue) - 1) /\ i + 1 \in 2..Len(queue)
          BY <4>0
        <4>2. QED BY <1>2, <1>4, <1>9, <3>1, <4>1, Zenon
      <3>2. QED BY <3>1, Zenon DEF FreshInv
    <2>4. GotInv'
      <3>1. Len(more) = Pieces /\ 1 \in 1..Len(more)
        BY <1>3, <1>6, <1>9
      <3>2. more[1].n = h.n
        BY <1>7, <3>1, Zenon
      <3>3. QED BY <1>7, <2>1, <3>1, <3>2, Zenon DEF GotInv
    <2>5. BegunInv' /\ cut' = FALSE
      BY <1>0, <2>1, Zenon DEF ReadInv, BegunInv
    <2>6. QED BY <2>2, <2>3, <2>4, <2>5 DEF ReadInv
  <1>10. QED
    <2>1. h.part < Pieces \/ h.part = Pieces
      BY <1>0, <1>2 DEF RecvNote
    <2>2. QED BY <1>8, <1>9, <2>1

\* A piece of data comes when no record is begun.
LEMMA DataRead ==
  ASSUME ReadInv, RecvData
  PROVE  ReadInv'
  <1>0. /\ queue # <<>> /\ queue' = Rest /\ acc' = <<>> /\ arrived' = arrived /\ got' = got
        /\ Head(queue).kind = "data" /\ cut' = (cut \/ acc # <<>>)
    BY Zenon DEF RecvData, AbortIf
  <1>1. /\ queue' \in Seq(PeelRecords) /\ queue[1].kind = "data"
        /\ Len(queue) \in Nat /\ 1 <= Len(queue)
        /\ queue[1].part = Pieces =>
             /\ Len(queue') = Len(queue) - 1
             /\ \A i \in 1..(Len(queue) - 1) : queue'[i] = queue[i + 1]
        /\ queue[1].part # Pieces =>
             /\ Len(queue') = Len(queue) /\ queue'[1].kind = queue[1].kind
             /\ \A i \in 2..Len(queue) : queue'[i] = queue[i]
    BY <1>0, RestIs, Zenon DEF ReadInv
  <1>2. acc = <<>>
    BY <1>1 DEF ReadInv, BegunInv
  <1>3. cut' = cut
    BY <1>0, <1>2, Zenon DEF ReadInv
  <1>4. \A i \in 2..Len(queue) : queue[i].kind = "note" => queue[i].part = 1
    BY <1>1 DEF ReadInv, FreshInv
  <1>5. ASSUME NEW i \in 1..Len(queue'), queue'[i].kind = "note" PROVE queue'[i].part = 1
    <2>1. CASE queue[1].part = Pieces
      <3>0. Len(queue') = Len(queue) - 1 /\ Len(queue) \in Nat
        BY <1>1, <2>1, Zenon
      <3>1. i \in 1..(Len(queue) - 1) /\ i + 1 \in 2..Len(queue)
        BY <3>0
      <3>2. QED BY <1>1, <1>4, <1>5, <2>1, <3>1
    <2>2. CASE queue[1].part # Pieces
      <3>1. i \in 2..Len(queue)
        <4>1. Len(queue') = Len(queue) /\ queue'[1].kind = "data" /\ Len(queue) \in Nat
          BY <1>1, <2>2, Zenon
        <4>2. i # 1
          BY <1>5, <4>1, Zenon
        <4>3. QED BY <4>1, <4>2, LaterIndex, Zenon
      <3>2. QED BY <1>1, <1>4, <1>5, <2>2, <3>1
    <2>3. QED BY <2>1, <2>2
  <1>6. arrived' \in Nat
    BY <1>0 DEF ReadInv, RecordTypes
  <1>7. QED BY <1>0, <1>1, <1>3, <1>5, <1>6, RecordsApart, Zenon

\* A record comes in at the end of the queue.
LEMMA RecordArrives ==
  ASSUME ReadInv, NEW a \in Assocs, NEW k \in {"note", "data"}, Arrive(a, k)
  PROVE  ReadInv'
  <1>0. PICK r : r = [assoc |-> a, n |-> arrived + 1, kind |-> k, part |-> 1]
    BY Zenon
  <1>1. /\ arrived' = arrived + 1 /\ queue' = Append(queue, r)
        /\ UNCHANGED <<rpc, acc, got, cut>>
    BY <1>0 DEF Arrive, sysFrame, recvVars
  <1>2. r \in PeelRecords /\ r.part = 1 /\ arrived' \in Nat
    <2>1. arrived \in Nat
      BY DEF ReadInv, RecordTypes
    <2>2. QED BY <1>0, <1>1, <2>1 DEF PeelRecords
  <1>3. /\ queue' \in Seq(PeelRecords) /\ Len(queue') = Len(queue) + 1 /\ Len(queue) \in Nat
        /\ queue'[Len(queue) + 1] = r /\ \A i \in 1..Len(queue) : queue'[i] = queue[i]
    <2>1. queue \in Seq(PeelRecords)
      BY DEF ReadInv, RecordTypes
    <2>2. queue' = Append(queue, r) /\ r \in PeelRecords
      BY <1>1, <1>2, Zenon
    <2>3. QED BY <2>1, <2>2
  <1>4. RecordTypes'
    BY <1>1, <1>2, <1>3, Zenon DEF ReadInv, RecordTypes
  <1>5. BegunInv'
    <2>1. ASSUME acc # <<>> PROVE queue' # <<>> /\ queue'[1] = queue[1]
      <3>1. 1 \in 1..Len(queue)
        <4>1. queue \in Seq(PeelRecords) /\ queue # <<>>
          BY <2>1, Zenon DEF ReadInv, BegunInv, RecordTypes
        <4>2. QED BY <4>1
      <3>2. QED BY <1>3, <3>1
    <2>2. QED BY <1>1, <2>1, Zenon DEF ReadInv, BegunInv
  <1>6. FreshInv'
    <2>1. ASSUME NEW i \in 1..Len(queue'), queue'[i].kind = "note", i # 1 \/ acc = <<>>
          PROVE queue'[i].part = 1
      <3>0. Len(queue') = Len(queue) + 1 /\ Len(queue) \in Nat
        BY <1>3, Zenon
      <3>1. i \in 1..Len(queue) \/ i = Len(queue) + 1
        BY <3>0
      <3>2. QED BY <1>2, <1>3, <2>1, <3>1, Zenon DEF ReadInv, FreshInv
    <2>2. QED BY <1>1, <2>1, Zenon DEF FreshInv
  <1>7. GotInv' /\ cut' = FALSE
    BY <1>1, Zenon DEF ReadInv, GotInv
  <1>8. QED BY <1>4, <1>5, <1>6, <1>7 DEF ReadInv

\* A peel-off moves records while none is begun.
LEMMA RecordsMove ==
  ASSUME ReadInv, acc = <<>>, NEW a \in Assocs, Moves(a),
         UNCHANGED <<acc, got, cut, arrived>>
  PROVE  ReadInv'
  <1>1. queue \in Seq(PeelRecords) /\ DOMAIN queue = 1..Len(queue) /\ arrived \in Nat
    BY DEF ReadInv, RecordTypes
  <1>n. PICK n \in 0..Len(queue) :
           \E place \in [1..n -> {i \in DOMAIN queue : queue[i].assoc # a}] :
              queue' = [i \in 1..n |-> queue[place[i]]]
    BY Zenon DEF Moves
  <1>p. PICK place \in [1..n -> {i \in DOMAIN queue : queue[i].assoc # a}] :
           queue' = [i \in 1..n |-> queue[place[i]]]
    BY <1>n
  <1>2. n \in Nat /\ place \in [1..n -> 1..Len(queue)]
    BY <1>1
  <1>3. \A i \in 1..n : place[i] \in 1..Len(queue) /\ queue'[i] = queue[place[i]]
    BY <1>2, <1>p
  <1>4. queue' \in Seq(PeelRecords) /\ Len(queue') = n
    BY <1>1, <1>2, <1>p
  <1>5. \A i \in 1..Len(queue') : queue'[i].kind = "note" => queue'[i].part = 1
    <2>1. ASSUME NEW i \in 1..Len(queue'), queue'[i].kind = "note" PROVE queue'[i].part = 1
      <3>1. i \in 1..n
        BY <1>4
      <3>2. place[i] \in 1..Len(queue) /\ queue'[i] = queue[place[i]]
        BY <1>3, <3>1, Zenon
      <3>3. QED BY <2>1, <3>2, Zenon DEF ReadInv, FreshInv
    <2>2. QED BY <2>1, Zenon
  <1>6. acc' = <<>> /\ arrived' \in Nat /\ cut' = cut /\ got' = got
    BY <1>1
  <1>7. QED BY <1>4, <1>5, <1>6, RecordsApart, Zenon

\* Every step keeps what is known of the queue and of the record being read.
LEMMA NextReadInv ==
  ASSUME PeelInv, ReadInv, [PeelNext]_peelOffVars
  PROVE  ReadInv'
  <1>a. acc # <<>> => rpc = "recvmsg" /\ queue # <<>>
    BY DEF ReadInv, BegunInv
  <1>1. ASSUME RecvMsg \/ RecvAttempt \/ RecvWake PROVE ReadInv'
    <2>1. /\ UNCHANGED <<queue, acc, cut, arrived>> /\ (got' = got \/ got' = <<>>)
          /\ rpc # "recvmsg"
      BY <1>1 DEF RecvMsg, RecvAttempt, RecvWake, recvFrame
    <2>2. QED BY <1>a, <2>1, RecordsSame
  <1>2. ASSUME RecvNote PROVE ReadInv'
    BY <1>2, NoteRead
  <1>3. ASSUME RecvData PROVE ReadInv'
    BY <1>3, DataRead
  <1>4. ASSUME RecvEmpty PROVE ReadInv'
    <2>1. queue = <<>> /\ UNCHANGED <<queue, got, arrived>> /\ acc' = <<>>
          /\ cut' = (cut \/ acc # <<>>)
      BY <1>4, Zenon DEF RecvEmpty, AbortIf
    <2>2. acc = <<>>
      BY <1>a, <2>1
    <2>3. cut' = cut
      BY <2>1, <2>2, Zenon DEF ReadInv
    <2>4. QED BY <2>1, <2>2, <2>3, RecordsSame
  <1>5. ASSUME NEW p \in Peelers,
               PeelLock(p) \/ PeelStatus(p) \/ Spare(p) \/ PeeledConn(p)
                 \/ \E a \in Assocs : PeelCall(p, a)
        PROVE ReadInv'
    <2>1. UNCHANGED <<queue, acc, cut, arrived, got, rpc>>
      BY <1>5, Zenon DEF PeelLock, PeelStatus, Spare, PeeledConn, PeelCall, peelFrame, recvVars
    <2>2. QED BY <1>a, <2>1, RecordsSame
  <1>6. ASSUME NEW p \in Peelers, Peel(p) PROVE ReadInv'
    <2>1. UNCHANGED <<acc, cut, arrived, got, rpc>> /\ peeling[p] = "peel"
      BY <1>6, Zenon DEF Peel, peelFrame, recvVars, PeelGoto, PeelReturn
    <2>2. rpc # "recvmsg" /\ arg[p] \in Assocs
      BY <2>1, PeelAssumption DEF PeelInv, Holding
    <2>3. CASE Moves(arg[p])
      BY <1>a, <2>1, <2>2, <2>3, RecordsMove
    <2>4. CASE queue' = queue
      BY <1>a, <2>1, <2>2, <2>4, RecordsSame
    <2>5. QED BY <1>6, <2>3, <2>4, Zenon DEF Peel
  <1>7. ASSUME NEW a \in Assocs, NEW k \in {"note", "data"}, Arrive(a, k) PROVE ReadInv'
    BY <1>7, RecordArrives
  <1>8. ASSUME TakeFD \/ GiveFD \/ \E a \in Assocs : Established(a) \/ Ends(a)
        PROVE ReadInv'
    <2>1. UNCHANGED <<queue, acc, cut, arrived, got, rpc>>
      BY <1>8, Zenon DEF TakeFD, GiveFD, Established, Ends, sysFrame, recvVars
    <2>2. QED BY <1>a, <2>1, RecordsSame
  <1>9. ASSUME CloseEndpoint PROVE ReadInv'
    <2>1. rpc # "recvmsg" /\ queue' = <<>> /\ UNCHANGED <<acc, cut, arrived, got, rpc>>
      BY <1>9, Zenon DEF CloseEndpoint, sysFrame, recvVars
    <2>2. /\ acc' = <<>> /\ arrived' \in Nat /\ queue' \in Seq(PeelRecords)
          /\ \A i \in 1..Len(queue') : queue'[i].kind = "note" => queue'[i].part = 1
      BY <1>a, <2>1 DEF ReadInv, RecordTypes
    <2>3. QED BY <2>1, <2>2, RecordsApart
  <1>10. ASSUME UNCHANGED peelOffVars PROVE ReadInv'
    <2>1. UNCHANGED <<queue, acc, cut, arrived, got, rpc>>
      BY <1>10, Zenon DEF peelOffVars, recvVars
    <2>2. QED BY <1>a, <2>1, RecordsSame
  <1>11. QED
    BY <1>1, <1>2, <1>3, <1>4, <1>5, <1>6, <1>7, <1>8, <1>9, <1>10
       DEF PeelNext, RecvStep, PeelStep, Finished

\* A receive callback holds recordMu from the first piece of a notification to
\* its last, and a peel-off holds it too: RecvMsg returns each notification
\* whole, and its defensive path never aborts the endpoint.
THEOREM RecordsAreWhole == PeelSpec => []RecordWhole
  <1>1. PeelInit => ReadInv
    <2> SUFFICES ASSUME PeelInit PROVE ReadInv
      OBVIOUS
    <2>1. queue = <<>> /\ acc = <<>> /\ got = <<>> /\ arrived = 0 /\ cut = FALSE
      BY Zenon DEF PeelInit
    <2>2. RecordTypes
      BY <2>1 DEF RecordTypes
    <2>3. BegunInv /\ GotInv
      BY <2>1 DEF BegunInv, GotInv
    <2>4. FreshInv
      BY <2>1 DEF FreshInv
    <2>5. QED BY <2>1, <2>2, <2>3, <2>4, Zenon DEF ReadInv
  <1>2. PeelInv /\ ReadInv /\ [PeelNext /\ UNCHANGED part]_<<part, peelOffVars>> => ReadInv'
    BY NextReadInv
  <1>3. ReadInv => RecordWhole
    BY DEF ReadInv, GotInv, RecordWhole
  <1>4. QED BY <1>1, <1>2, <1>3, PeelInvariance, PTL DEF PeelSpec
=============================================================================
