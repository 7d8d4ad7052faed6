--------------------------- MODULE OptionsProofs ---------------------------
(***************************************************************************)
(* Proofs, for any set of goroutines and any values of the options, of the *)
(* properties of Options.                                                  *)
(***************************************************************************)
EXTENDS Options, TLAPS

\* The steps at which a goroutine holds each of the three locks.
SendPCs == {"encode", "sendmsg", "sndOpt", "sndRead", "sndWrite", "sndRestore",
            "prOpt", "prWrite"}
OptPCs  == {"sndRead", "sndWrite", "sndRestore", "prWrite", "get", "thrRead",
            "thrWrite", "parWrite"}
BindPCs == {"check", "bindx", "local", "peer", "scope"}
PCs == {"idle", "send", "snd", "pr", "getOpt", "thr", "par", "bind", "connectx", "connected", "addr"}
         \cup SendPCs \cup OptPCs \cup BindPCs

Threshold == [max : Nat, pf : Nat, sw : Nat]
Job == [snd : Opt(Snds), pr : Opt(Policies \cup {None}),
        cmsg : [snd : Opt(Snds), pr : Opt(Policies \cup {None})],
        max : Opt(Limits), pf : Opt(Limits), sw : Opt(Limits),
        cur : Threshold, scope : Scopes, ips : SUBSET Addrs, add : BOOLEAN, blind : BOOLEAN]

\* Types, and that a lock is held at the steps that need it by whoever is
\* there, and by no one else.
LockInv ==
  /\ pc \in [Callers -> PCs] /\ mu \in [Locks -> Callers \cup {NoOne}]
  /\ \A g \in Callers :
       /\ pc[g] \in SendPCs <=> mu["send"] = g
       /\ pc[g] \in OptPCs <=> mu["opt"] = g
       /\ pc[g] \in BindPCs <=> mu["bind"] = g

\* No lock is held at the start.
LEMMA InitLockInv == OptionsAssumption /\ Init => LockInv
  BY DEF OptionsAssumption, Init, LockInv, Locks, PCs, SendPCs, OptPCs, BindPCs

\* Every operation locks and unlocks in pairs.
LEMMA NextLockInv == OptionsAssumption /\ LockInv /\ [Next]_vars => LockInv'
  <1> SUFFICES ASSUME OptionsAssumption, LockInv, [Next]_vars PROVE LockInv'
    OBVIOUS
  <1> USE DEF OptionsAssumption, LockInv, Locks, PCs, SendPCs, OptPCs, BindPCs, frame, Goto, Return
  <1>1. ASSUME NEW g \in Callers, NEW o, NEW to \in {"send", "snd", "pr", "getOpt", "thr", "par", "bind", "connectx"}, NEW j,
               Call(g, o, to, j)
        PROVE LockInv'
    BY <1>1 DEF Call
  <1>2. ASSUME NEW g \in Callers, Locked(g) PROVE LockInv'
    BY <1>2 DEF Locked, Lock
  <1>3. ASSUME NEW g \in Callers, ErrClosed(g) \/ Refused(g) PROVE LockInv'
    BY <1>3 DEF ErrClosed, Refused, vars
  <1>4. ASSUME NEW g \in Callers,
               Encode(g) \/ Sendmsg(g) \/ SndRead(g)
        PROVE LockInv'
    BY <1>4 DEF Encode, Sendmsg, SndRead
  <1>5. ASSUME NEW g \in Callers,
               SndWrite(g) \/ SndRestore(g) \/ PrWrite(g)
        PROVE LockInv'
    BY <1>5 DEF SndWrite, SndRestore, PrWrite
  <1>6. ASSUME NEW g \in Callers,
               Get(g) \/ ReadThresholds(g) \/ WriteThresholds(g) \/ WriteParams(g)
        PROVE LockInv'
    BY <1>6 DEF Get, ReadThresholds, WriteThresholds, WriteParams
  <1>7. ASSUME NEW g \in Callers,
               Check(g) \/ Bindx(g)
        PROVE LockInv'
    BY <1>7 DEF Check, Bindx
  <1>7a. ASSUME NEW g \in Callers, Connectx(g) \/ Connected(g) PROVE LockInv'
    BY <1>7a DEF Connectx, Connected
  <1>8. ASSUME NEW g \in Callers,
               RefreshLocal(g) \/ RefreshPeer(g) \/ RefreshScope(g)
        PROVE LockInv'
    BY <1>8 DEF RefreshLocal, RefreshPeer, RefreshScope
  <1>9. ASSUME Close \/ End \/ PeerChanges \/ UNCHANGED vars PROVE LockInv'
    BY <1>9 DEF Close, End, PeerChanges, unmoved, vars
  <1> HIDE DEF LockInv
  <1>10. QED
    BY <1>1, <1>2, <1>3, <1>4, <1>5, <1>6, <1>7, <1>7a, <1>8, <1>9, Zenon DEF Next, Step,
       SendMsg, SetDefaultSndInfo, SetDefaultPrInfo, DefaultInfo,
       SetPathThresholds, SetPathParams, BindAdd, BindRemove, Connect

\* The arguments and results of a call have their types.
JobInv ==
  /\ job \in [Callers -> Job]
  /\ kern \in [snd : Snds, pr : Policies \cup {None}]
  /\ def \in [snd : Snds, pr : Policies \cup {None}]
  /\ thr \in [Scopes -> Threshold]

\* An optional field of a type, or a value of it, is of the type.
LEMMA OrType ==
  ASSUME NEW S, NEW field \in Opt(S), NEW v \in S
  PROVE Or(field, v) \in S
  BY DEF Opt, Or

\* A goroutine without a call has an empty job.
LEMMA NothingType == Nothing \in Job
  BY DEF Nothing, Job, Opt, Threshold, Scopes

\* What is written to the thresholds of a scope is of their type.
LEMMA WrittenType ==
  ASSUME NEW t \in [Scopes -> Threshold], NEW c \in Scopes, NEW v \in Threshold,
         NEW max \in Opt(Nat)
  PROVE Written(t, c, v) \in [Scopes -> Threshold] /\ MaxSet(t, c, max) \in [Scopes -> Threshold]
  <1>1. Written(t, c, v) \in [Scopes -> Threshold]
    BY DEF Written
  <1>2. ASSUME NEW d \in Scopes PROVE [t[d] EXCEPT !.max = Or(max, @)] \in Threshold
    <2>1. t[d].max \in Nat
      BY DEF Threshold
    <2>2. Or(max, t[d].max) \in Nat
      BY <2>1, OrType
    <2>3. QED BY <2>2 DEF Threshold
  <1>3. MaxSet(t, c, max) \in [Scopes -> Threshold]
    BY <1>2 DEF MaxSet
  <1>4. QED BY <1>1, <1>3

\* What setup left has its type.
LEMMA InitJobInv == OptionsAssumption /\ Init => JobInv
  <1> SUFFICES ASSUME OptionsAssumption, Init PROVE JobInv
    OBVIOUS
  <1>1. job \in [Callers -> Job]
    BY NothingType DEF Init
  <1>2. PICK s \in Start : kern = s.def /\ def = s.def /\ thr = s.thr
    BY DEF Init, OptionsAssumption
  <1>3. s.def \in [snd : Snds, pr : Policies \cup {None}] /\ s.thr \in [Scopes -> Thresholds]
    BY Zenon DEF Start
  <1>4. Thresholds \subseteq Threshold
    BY DEF Thresholds, Threshold, OptionsAssumption
  <1>5. QED
    BY <1>1, <1>2, <1>3, <1>4 DEF JobInv

\* Every step stores values of their types.
LEMMA NextJobInv == OptionsAssumption /\ JobInv /\ [Next]_vars => JobInv'
  <1> SUFFICES ASSUME OptionsAssumption, JobInv, [Next]_vars PROVE JobInv'
    OBVIOUS
  <1>t. /\ \A S, v : v \in S => {v} \in Opt(S) /\ {} \in Opt(S)
        /\ \A S, T : S \subseteq T => Opt(S) \subseteq Opt(T)
        /\ Limits \subseteq Nat
    BY DEF Opt, OptionsAssumption
  <1>o. \A S, field, v : field \in Opt(S) /\ v \in S => Or(field, v) \in S
    BY OrType
  <1> USE DEF JobInv, frame, Goto, Return, optVars, thrVars
  <1>1. ASSUME NEW g \in Callers, NEW o, NEW to, NEW j \in Job, Call(g, o, to, j)
        PROVE JobInv'
    BY <1>1 DEF Call
  <1>2. ASSUME NEW g \in Callers,
               SendMsg(g) \/ SetDefaultSndInfo(g) \/ SetDefaultPrInfo(g) \/ DefaultInfo(g)
        PROVE JobInv'
    <2>1. ASSUME NEW info \in Opt(Snds), NEW pr \in Opt(Policies \cup {None})
          PROVE /\ [Nothing EXCEPT !.snd = info, !.pr = pr] \in Job
                /\ [Nothing EXCEPT !.snd = info] \in Job
                /\ [Nothing EXCEPT !.pr = pr] \in Job
      BY NothingType, Zenon DEF Job
    <2>2. ASSUME SendMsg(g) PROVE JobInv'
      BY <1>1, <2>1, <2>2, Zenon DEF SendMsg
    <2>3. ASSUME SetDefaultSndInfo(g) PROVE JobInv'
      <3>1. PICK v \in Snds : Call(g, "SetDefaultSndInfo", "snd", [Nothing EXCEPT !.snd = {v}])
        BY <2>3, Zenon DEF SetDefaultSndInfo
      <3>2. [Nothing EXCEPT !.snd = {v}] \in Job
        BY <1>t, NothingType DEF Job
      <3>3. QED BY <1>1, <3>1, <3>2
    <2>4. ASSUME SetDefaultPrInfo(g) PROVE JobInv'
      <3>1. PICK p \in Policies \cup {None} :
              Call(g, "SetDefaultPrInfo", "pr", [Nothing EXCEPT !.pr = {p}])
        BY <2>4, Zenon DEF SetDefaultPrInfo
      <3>2. [Nothing EXCEPT !.pr = {p}] \in Job
        BY <1>t, NothingType, Zenon DEF Job
      <3>3. QED BY <1>1, <3>1, <3>2
    <2>5. ASSUME DefaultInfo(g) PROVE JobInv'
      BY <1>1, <2>5, NothingType DEF DefaultInfo
    <2>6. QED BY <1>2, <2>2, <2>3, <2>4, <2>5
  <1>3. ASSUME NEW g \in Callers, SetPathThresholds(g) \/ SetPathParams(g)
        PROVE JobInv'
    <2>1. ASSUME NEW x \in Opt(Limits), NEW p \in Opt(Limits), NEW w \in Opt(Limits), NEW c \in Scopes
          PROVE /\ [Nothing EXCEPT !.max = x, !.pf = p, !.sw = w, !.scope = c] \in Job
                /\ [Nothing EXCEPT !.max = x, !.scope = c] \in Job
      BY NothingType, Zenon DEF Job
    <2>2. ASSUME SetPathThresholds(g) PROVE JobInv'
      <3>1. PICK t \in Changes, c \in Scopes :
              Call(g, "SetPathThresholds", "thr",
                   [Nothing EXCEPT !.max = t.max, !.pf = t.pf, !.sw = t.sw, !.scope = c])
        BY <2>2, Zenon DEF SetPathThresholds
      <3>2. t.max \in Opt(Limits) /\ t.pf \in Opt(Limits) /\ t.sw \in Opt(Limits)
        BY DEF OptionsAssumption
      <3>3. QED BY <1>1, <2>1, <3>1, <3>2, Zenon
    <2>3. ASSUME SetPathParams(g) PROVE JobInv'
      BY <1>1, <1>t, <2>1, <2>3, Zenon DEF SetPathParams
    <2>4. QED BY <1>3, <2>2, <2>3
  <1>4. ASSUME NEW g \in Callers, BindAdd(g) \/ BindRemove(g) PROVE JobInv'
    <2>1. ASSUME NEW S \in Lists
          PROVE /\ [Nothing EXCEPT !.ips = S, !.add = TRUE] \in Job
                /\ [Nothing EXCEPT !.ips = S] \in Job
      BY NothingType, Zenon DEF Job, OptionsAssumption
    <2>2. QED BY <1>1, <1>4, <2>1, Zenon DEF BindAdd, BindRemove
  <1>5. ASSUME NEW g \in Callers, Locked(g) PROVE JobInv'
    BY <1>5 DEF Locked, Lock
  <1>6. ASSUME NEW g \in Callers, ErrClosed(g) \/ Refused(g) \/ Sendmsg(g) \/ Get(g)
        PROVE JobInv'
    BY <1>6, NothingType DEF ErrClosed, Refused, Sendmsg, Get, vars
  <1>7. ASSUME NEW g \in Callers, Encode(g) PROVE JobInv'
    <2>1. encode(job[g], def) \in [snd : Opt(Snds), pr : Opt(Policies \cup {None})]
      BY <1>t, <1>o, Zenon DEF encode, Job
    <2>2. [job[g] EXCEPT !.cmsg = encode(job[g], def)] \in Job
      BY <2>1, ZenonT(30) DEF Job
    <2>3. QED BY <1>7, <2>2 DEF Encode
  <1>8. ASSUME NEW g \in Callers, SndRead(g) PROVE JobInv'
    <2>1. {kern.pr} \in Opt(Policies \cup {None})
      BY <1>t
    <2>2. [job[g] EXCEPT !.pr = {kern.pr}] \in Job
      BY <2>1, ZenonT(30) DEF Job
    <2>3. QED BY <1>8, <2>2 DEF SndRead
  <1>9. ASSUME NEW g \in Callers, SndWrite(g) \/ SndRestore(g) \/ PrWrite(g) PROVE JobInv'
    <2>1. Or(job[g].snd, kern.snd) \in Snds /\ Or(job[g].pr, None) \in Policies \cup {None}
      BY <1>o, Zenon DEF Job
    <2>2. /\ job' \in [Callers -> Job] /\ thr' = thr
      BY <1>9, NothingType DEF SndWrite, SndRestore, PrWrite
    <2>3. /\ kern' = kern \/ (\E v \in Snds, p \in Policies \cup {None} : kern' = [snd |-> v, pr |-> p])
          /\ def' = def \/ (\E v \in Snds, p \in Policies \cup {None} : def' = [snd |-> v, pr |-> p])
      <3>1. ASSUME NEW d \in [snd : Snds, pr : Policies \cup {None}],
                   NEW v \in Snds, NEW p \in Policies \cup {None}
            PROVE [d EXCEPT !.snd = v] = [snd |-> v, pr |-> d.pr]
                  /\ [d EXCEPT !.pr = p] = [snd |-> d.snd, pr |-> p]
        OBVIOUS
      <3>2. CASE SndWrite(g)
        BY <2>1, <3>1, <3>2 DEF SndWrite, Stored
      <3>3. CASE SndRestore(g)
        BY <2>1, <3>1, <3>3 DEF SndRestore, Stored
      <3>4. CASE PrWrite(g)
        BY <2>1, <3>1, <3>4 DEF PrWrite, Stored
      <3>5. QED BY <1>9, <3>2, <3>3, <3>4
    <2>4. QED BY <2>2, <2>3
  <1>10. ASSUME NEW g \in Callers, ReadThresholds(g) PROVE JobInv'
    <2>1. [job[g] EXCEPT !.cur = thr[job[g].scope]] \in Job
      <3>1. job[g].scope \in Scopes
        BY Zenon DEF Job
      <3>2. thr[job[g].scope] \in Threshold
        BY <3>1
      <3>3. QED BY <3>2, ZenonT(30) DEF Job
    <2>2. QED BY <1>10, <2>1, NothingType DEF ReadThresholds
  <1>11. ASSUME NEW g \in Callers, WriteThresholds(g) \/ WriteParams(g) PROVE JobInv'
    <2>1. /\ job[g] \in Job /\ job[g].scope \in Scopes /\ job[g].max \in Opt(Nat)
          /\ job[g].pf \in Opt(Nat) /\ job[g].sw \in Opt(Nat)
          /\ job[g].cur.max \in Nat /\ job[g].cur.pf \in Nat /\ job[g].cur.sw \in Nat
      BY <1>t, ZenonT(30) DEF Job, Threshold
    <2>2. mergePathThresholds(job[g].cur, job[g]) \in Threshold
      BY <1>o, <2>1 DEF mergePathThresholds, Threshold
    <2>3. /\ Written(thr, job[g].scope, mergePathThresholds(job[g].cur, job[g])) \in [Scopes -> Threshold]
          /\ MaxSet(thr, job[g].scope, job[g].max) \in [Scopes -> Threshold]
      BY <2>1, <2>2, WrittenType
    <2>4. thr' \in [Scopes -> Threshold]
      BY <1>11, <2>3, Zenon DEF WriteThresholds, WriteParams
    <2>5. QED BY <1>11, <2>4, NothingType DEF WriteThresholds, WriteParams
  <1>12. ASSUME NEW g \in Callers,
               Bindx(g) \/ RefreshLocal(g) \/ RefreshPeer(g) \/ RefreshScope(g)
                 \/ Connectx(g) \/ Connected(g)
        PROVE JobInv'
    BY <1>12, NothingType DEF Bindx, RefreshLocal, RefreshPeer, RefreshScope, Connectx, Connected
  <1>12a. ASSUME NEW g \in Callers, Check(g) PROVE JobInv'
    <2>1. ASSUME NEW x \in BOOLEAN PROVE [job[g] EXCEPT !.blind = x] \in Job
      BY ZenonT(30) DEF Job
    <2>2. CASE Return(g)
      BY <1>12a, <2>2, NothingType DEF Check
    <2>3. CASE \E x \in BOOLEAN : job' = [job EXCEPT ![g].blind = x]
      BY <1>12a, <2>1, <2>3 DEF Check
    <2>4. QED BY <1>12a, <2>2, <2>3 DEF Check
  <1>12b. ASSUME NEW g \in Callers, Connect(g) PROVE JobInv'
    BY <1>1, <1>12b, NothingType, Zenon DEF Connect
  <1>13. ASSUME Close \/ End \/ PeerChanges \/ UNCHANGED vars PROVE JobInv'
    BY <1>13 DEF Close, End, PeerChanges, unmoved, vars
  <1> HIDE DEF JobInv
  <1>14. QED
    BY <1>2, <1>3, <1>4, <1>5, <1>6, <1>7, <1>8, <1>9, <1>10, <1>11, <1>12, <1>12a,
       <1>12b, <1>13 DEF Next, Step

-----------------------------------------------------------------------------
(* The path thresholds *)

\* Who is about to write the thresholds back has read the ones in force.
ThrInv ==
  /\ thr = given
  /\ \A g \in Callers : pc[g] = "thrWrite" => job[g].cur = thr[job[g].scope]

\* Only who holds optMu writes thresholds.
LEMMA NextThrInv ==
  LockInv /\ JobInv /\ ThrInv /\ [Next]_vars => ThrInv'
  <1> SUFFICES ASSUME LockInv, JobInv, ThrInv, [Next]_vars PROVE ThrInv'
    OBVIOUS
  <1>x. \A g, h \in Callers : pc[g] \in OptPCs /\ pc[h] \in OptPCs => g = h
    BY DEF LockInv
  <1>y. /\ pc \in [Callers -> PCs] /\ job \in [Callers -> Job] /\ {"thrWrite", "parWrite"} \subseteq OptPCs
    BY DEF LockInv, JobInv, OptPCs
  <1> USE <1>y DEF ThrInv, frame, Goto, Return, optVars, thrVars
  <1>1. ASSUME NEW g \in Callers, NEW o, NEW to \in {"send", "snd", "pr", "getOpt", "thr", "par", "bind", "connectx"}, NEW j,
               Call(g, o, to, j)
        PROVE ThrInv'
    BY <1>1 DEF Call
  <1>2. ASSUME NEW g \in Callers, Locked(g) PROVE ThrInv'
    BY <1>2 DEF Locked, Lock
  <1>3. ASSUME NEW g \in Callers,
               ErrClosed(g) \/ Refused(g) \/ Sendmsg(g) \/ Get(g) \/ Check(g) \/ Bindx(g)
               \/ Connectx(g) \/ Connected(g) \/ RefreshLocal(g) \/ RefreshPeer(g) \/ RefreshScope(g)
        PROVE ThrInv'
    BY <1>3 DEF ErrClosed, Refused, vars, Sendmsg, Get, Check, Bindx,
                Connectx, Connected, RefreshLocal, RefreshPeer, RefreshScope
  <1>4. ASSUME NEW g \in Callers,
               Encode(g) \/ SndRead(g) \/ SndWrite(g) \/ SndRestore(g) \/ PrWrite(g)
        PROVE ThrInv'
    BY <1>4 DEF Encode, SndRead, SndWrite, SndRestore, PrWrite
  <1>5. ASSUME NEW g \in Callers, ReadThresholds(g) PROVE ThrInv'
    <2>1. CASE Return(g)
      BY <1>5, <2>1 DEF ReadThresholds
    <2>2. CASE job' = [job EXCEPT ![g].cur = thr[job[g].scope]] /\ Goto(g, "thrWrite")
      <3>1. /\ [job[g] EXCEPT !.cur = thr[job[g].scope]].cur = thr[job[g].scope]
            /\ [job[g] EXCEPT !.cur = thr[job[g].scope]].scope = job[g].scope
        BY DEF Job
      <3>2. QED BY <1>5, <2>2, <3>1 DEF ReadThresholds
    <2>3. QED BY <1>5, <2>1, <2>2 DEF ReadThresholds
  <1>6. ASSUME NEW g \in Callers, WriteThresholds(g) \/ WriteParams(g) PROVE ThrInv'
    <2>1. pc'[g] = "idle" /\ \A h \in Callers \ {g} : pc'[h] = pc[h] /\ pc[h] # "thrWrite"
      BY <1>x, <1>6 DEF WriteThresholds, WriteParams
    <2>2. thr' = given'
      <3>1. CASE WriteThresholds(g)
        <4>1. job[g].cur = given[job[g].scope] /\ thr = given
          BY <3>1, Zenon DEF WriteThresholds
        <4>2. \/ /\ thr' = Written(thr, job[g].scope, mergePathThresholds(job[g].cur, job[g]))
                 /\ given' = Written(given, job[g].scope, mergePathThresholds(given[job[g].scope], job[g]))
              \/ UNCHANGED thrVars
          BY <3>1, Zenon DEF WriteThresholds
        <4>3. QED BY <4>1, <4>2
      <3>2. CASE WriteParams(g)
        BY <3>2, Zenon DEF WriteParams
      <3>3. QED BY <1>6, <3>1, <3>2
    <2>3. QED BY <2>1, <2>2
  <1>7. ASSUME Close \/ End \/ PeerChanges \/ UNCHANGED vars PROVE ThrInv'
    BY <1>7 DEF Close, End, PeerChanges, unmoved, vars
  <1> HIDE DEF ThrInv
  <1>8. QED
    BY <1>1, <1>2, <1>3, <1>4, <1>5, <1>6, <1>7, Zenon DEF Next, Step, SendMsg, SetDefaultSndInfo,
       SetDefaultPrInfo, DefaultInfo, SetPathThresholds, SetPathParams, BindAdd, BindRemove, Connect

\* SetPathThresholds reads the thresholds of a path, merges the ones it was
\* given and writes all three, under optMu; whatever the goroutines do beside
\* it, no change by another call is lost.
THEOREM ThresholdsNeverLost == OptionsAssumption => (Spec => []ThresholdsKept)
  <1> SUFFICES ASSUME OptionsAssumption PROVE Spec => []ThresholdsKept
    OBVIOUS
  <1>1. Init => LockInv /\ JobInv /\ ThrInv
    BY InitLockInv, InitJobInv DEF Init, ThrInv
  <1>2. LockInv /\ JobInv /\ ThrInv /\ [Next]_vars => (LockInv /\ JobInv /\ ThrInv)'
    BY NextLockInv, NextJobInv, NextThrInv
  <1>3. ThrInv => ThresholdsKept
    BY DEF ThrInv, ThresholdsKept
  <1>4. QED BY <1>1, <1>2, <1>3, PTL DEF Spec

-----------------------------------------------------------------------------
(* The default send parameters *)

Default == [snd : Snds, pr : Policies \cup {None}]

\* The cache is what was last set, and so is the kernel's copy but for the
\* moment before the policy is written again; who wrote the flags has the
\* policy to restore, and who sends has encoded the cache of this moment.
DefInv ==
  /\ set \in Default /\ torn \in BOOLEAN /\ ~misled
  /\ ~torn => def = set
  /\ ~torn /\ (\A g \in Callers : pc[g] # "sndRestore") => kern = set
  /\ \A g \in Callers :
       /\ pc[g] = "sndWrite" => job[g].pr = {kern.pr}
       /\ pc[g] = "sndRestore" /\ ~torn => job[g].pr = {set.pr}
       /\ pc[g] = "sendmsg" => job[g].cmsg = encode(job[g], def)

\* A write to one of the two parameters leaves the other.
LEMMA RecordExcept ==
  ASSUME NEW d \in Default, NEW v, NEW p
  PROVE /\ [d EXCEPT !.snd = v] = [snd |-> v, pr |-> d.pr]
        /\ [d EXCEPT !.pr = p] = [snd |-> d.snd, pr |-> p]
  BY DEF Default

\* A field that is given is used, one that is nil is not.
LEMMA OrSingle == \A v, w : Or({v}, w) = v /\ Or({}, w) = w
  BY DEF Or

\* What the kernel makes of the encoded options when it and the cache agree.
LEMMA EncodeRight ==
  ASSUME NEW j \in Job, NEW d \in Default, OptionsAssumption
  PROVE KernelUses(encode(j, d), d) = [snd |-> Or(j.snd, d.snd), pr |-> Or(j.pr, d.pr)]
  <1>1. CASE j.snd = {} /\ j.pr = {} /\ owner = "Conn"
    BY <1>1, OrSingle DEF encode, KernelUses
  <1>2. CASE ~(j.snd = {} /\ j.pr = {} /\ owner = "Conn")
    <2>1. encode(j, d) = [snd |-> {Or(j.snd, d.snd)},
                  pr |-> IF j.pr = {} /\ d.pr = None THEN {} ELSE {Or(j.pr, d.pr)}]
      BY <1>2 DEF encode
    <2> DEFINE c == encode(j, d)
    <2>2. c.snd = {Or(j.snd, d.snd)} /\ c.snd # {}
          /\ c.pr = IF j.pr = {} /\ d.pr = None THEN {} ELSE {Or(j.pr, d.pr)}
      BY <2>1
    <2> HIDE DEF c
    <2>3. Or(c.snd, d.snd) = Or(j.snd, d.snd)
      BY <2>2, OrSingle, Zenon
    <2>4. Or(c.pr, IF c.snd = {} THEN d.pr ELSE None) = Or(j.pr, d.pr)
      <3>1. CASE j.pr = {} /\ d.pr = None
        BY <2>2, <3>1, OrSingle
      <3>2. CASE ~(j.pr = {} /\ d.pr = None)
        <4>1. c.pr = {Or(j.pr, d.pr)}
          BY <2>2, <3>2
        <4>2. ASSUME NEW w PROVE Or({Or(j.pr, d.pr)}, w) = Or(j.pr, d.pr)
          BY OrSingle
        <4>3. QED BY <4>1, <4>2
      <3>3. QED BY <3>1, <3>2
    <2>5. QED BY <2>3, <2>4 DEF KernelUses, c
  <1>3. QED BY <1>1, <1>2

\* A step of SendMsg, a setter or a getter, with send.mu or optMu held,
\* and every other step.
LEMMA NextDefInv ==
  ASSUME OptionsAssumption, LockInv, JobInv, DefInv, [Next]_vars
  PROVE DefInv'
  <1>x. /\ \A g, h \in Callers : pc[g] \in OptPCs /\ pc[h] \in OptPCs => g = h
        /\ \A g, h \in Callers : pc[g] \in SendPCs /\ pc[h] \in SendPCs => g = h
    BY DEF LockInv
  <1>y. /\ pc \in [Callers -> PCs] /\ job \in [Callers -> Job]
        /\ kern \in Default /\ def \in Default /\ set \in Default
        /\ {"sndRead", "sndWrite", "sndRestore", "prWrite", "get"} \subseteq OptPCs
        /\ {"encode", "sendmsg", "sndRead", "sndWrite", "sndRestore", "prWrite"} \subseteq SendPCs
    BY DEF LockInv, JobInv, DefInv, OptPCs, SendPCs, Default
  <1>z. misled' = misled => ~misled'
    BY DEF DefInv
  <1> USE <1>y
  \* A step that leaves the parameters alone, and moves g to none of the steps above.
  <1>1. ASSUME NEW g \in Callers, NEW to \in PCs \ {"sndWrite", "sndRestore", "sendmsg"},
               pc' = [pc EXCEPT ![g] = to], \A h \in Callers \ {g} : job'[h] = job[h],
               UNCHANGED <<owner, kern, def, set, torn>>, ~misled', pc[g] # "sndRestore" \/ torn
        PROVE DefInv'
    BY <1>1 DEF DefInv, encode
  <1> USE DEF frame, Goto, Return, optVars
  <1>2. ASSUME NEW g \in Callers, NEW o, NEW to \in {"send", "snd", "pr", "getOpt", "thr", "par", "bind", "connectx"}, NEW j,
               Call(g, o, to, j)
        PROVE DefInv'
    BY <1>1, <1>z, <1>2, Zenon DEF Call, PCs
  <1>3. ASSUME NEW g \in Callers, Locked(g) PROVE DefInv'
    BY <1>1, <1>z, <1>3 DEF Locked, Lock, PCs, SendPCs, OptPCs, BindPCs
  <1>4. ASSUME NEW g \in Callers, ErrClosed(g) \/ Refused(g) PROVE DefInv'
    <2>1. CASE ErrClosed(g) BY <1>1, <1>z, <2>1, Zenon DEF ErrClosed, PCs
    <2>2. CASE Refused(g) BY <2>2, Zenon DEF Refused, vars, DefInv, encode
    <2>3. QED BY <1>4, <2>1, <2>2
  <1>5. ASSUME NEW g \in Callers,
               ReadThresholds(g) \/ WriteThresholds(g) \/ WriteParams(g)
        PROVE DefInv'
    BY <1>1, <1>z, <1>5 DEF ReadThresholds, WriteThresholds, WriteParams, PCs, OptPCs
  <1>6. ASSUME NEW g \in Callers, Check(g) \/ Bindx(g) PROVE DefInv'
    BY <1>1, <1>z, <1>6 DEF Check, Bindx, PCs, BindPCs
  <1>6a. ASSUME NEW g \in Callers, Connectx(g) \/ Connected(g) PROVE DefInv'
    BY <1>1, <1>z, <1>6a DEF Connectx, Connected, bindVars, PCs, BindPCs
  <1>7. ASSUME NEW g \in Callers, RefreshLocal(g) \/ RefreshPeer(g) \/ RefreshScope(g)
        PROVE DefInv'
    BY <1>1, <1>z, <1>7 DEF RefreshLocal, RefreshPeer, RefreshScope, PCs, BindPCs
  <1>8. ASSUME Close \/ End \/ PeerChanges \/ UNCHANGED vars PROVE DefInv'
    BY <1>8 DEF Close, End, PeerChanges, unmoved, vars, DefInv, encode
  <1>9. ASSUME NEW g \in Callers, Encode(g) PROVE DefInv'
    <2>1. /\ [job[g] EXCEPT !.cmsg = encode(job[g], def)].cmsg = encode(job[g], def)
          /\ [job[g] EXCEPT !.cmsg = encode(job[g], def)].snd = job[g].snd
          /\ [job[g] EXCEPT !.cmsg = encode(job[g], def)].pr = job[g].pr
      BY DEF Job
    <2>2. job'[g].cmsg = encode(job[g], def) /\ job'[g].snd = job[g].snd /\ job'[g].pr = job[g].pr
      BY <1>9, <2>1 DEF Encode
    <2>3. encode(job[g], def) = encode(job[g], def)'
      BY <1>9, <2>2 DEF Encode, encode
    <2>4. QED BY <1>9, <2>2, <2>3 DEF Encode, DefInv, encode
  <1>10. ASSUME NEW g \in Callers, SndRead(g) PROVE DefInv'
    <2>1. [job[g] EXCEPT !.pr = {kern.pr}].pr = {kern.pr}
      BY DEF Job
    <2>2. QED BY <1>10, <2>1 DEF SndRead, DefInv, encode
  <1>11. ASSUME NEW g \in Callers, Sendmsg(g) \/ Get(g) PROVE DefInv'
    <2>1. ~torn => kern = set /\ def = set
      BY <1>x, <1>11 DEF Sendmsg, Get, DefInv
    <2>2. ~misled /\ torn \in BOOLEAN
      BY DEF DefInv
    <2>3. CASE Sendmsg(g)
      <3>1. ~torn => KernelUses(job[g].cmsg, kern)
                     = [snd |-> Or(job[g].snd, set.snd), pr |-> Or(job[g].pr, set.pr)]
        <4>1. job[g].cmsg = encode(job[g], def)
          BY <2>3, Zenon DEF Sendmsg, DefInv
        <4>2. QED BY <2>1, <4>1, EncodeRight
      <3>2. ~misled'
        BY <2>2, <2>3, <3>1, Zenon DEF Sendmsg, Met
      <3>3. QED BY <1>1, <2>3, <3>2, Zenon DEF Sendmsg, PCs
    <2>4. CASE Get(g)
      <3>1. ~misled'
        BY <2>1, <2>2, <2>4, Zenon DEF Get, Met
      <3>2. QED BY <1>1, <2>4, <3>1, Zenon DEF Get, PCs
    <2>5. QED BY <1>11, <2>3, <2>4
  <1>12. ASSUME NEW g \in Callers, SndWrite(g) PROVE DefInv'
    <2>1. /\ ~torn => kern = set /\ def = set
          /\ job[g].pr = {kern.pr}
          /\ \A h \in Callers \ {g} : pc[h] \notin {"sndWrite", "sndRestore", "sendmsg"}
      BY <1>x, <1>12 DEF SndWrite, DefInv
    <2>2. CASE UNCHANGED kern /\ Return(g) /\ UNCHANGED <<def, set>>
      BY <1>1, <1>12, <2>1, <2>2 DEF SndWrite, PCs, DefInv
    <2> DEFINE v == Or(job[g].snd, kern.snd)
    <2>3. CASE kern' = [snd |-> v, pr |-> None] /\ Restored(g) /\ Return(g)
               /\ Stored([def EXCEPT !.snd = kern'.snd])
      <3>1. kern.pr = None
        BY <2>1, <2>3 DEF Restored
      <3>2. v \in Snds
        BY OrType DEF JobInv, Job
      <3>3. def' = [snd |-> v, pr |-> def.pr] /\ set' = [snd |-> v, pr |-> def.pr]
        BY <2>3, RecordExcept, Zenon DEF Stored
      <3>4. ~torn => kern' = set' /\ def' = set'
        BY <2>1, <2>3, <3>1, <3>3
      <3>5. set' \in Default
        BY <3>2, <3>3 DEF Default
      <3>6. torn' = torn /\ misled' = misled
        BY <1>12 DEF SndWrite
      <3>7. \A h \in Callers : pc'[h] \notin {"sndWrite", "sndRestore", "sendmsg"}
        BY <2>1, <2>3
      <3>8. QED BY <3>4, <3>5, <3>6, <3>7 DEF DefInv
    <2>4. CASE kern' = [snd |-> v, pr |-> None] /\ ~Restored(g)
               /\ Goto(g, "sndRestore") /\ UNCHANGED <<mu, job, def, set>>
      <3>1. pc'[g] = "sndRestore"
            /\ \A h \in Callers \ {g} : pc'[h] \notin {"sndWrite", "sndRestore", "sendmsg"}
        BY <2>1, <2>4
      <3>2. torn' = torn /\ misled' = misled
        BY <1>12 DEF SndWrite
      <3>3. QED BY <2>1, <2>4, <3>1, <3>2 DEF DefInv
    <2>5. QED BY <1>12, <2>2, <2>3, <2>4 DEF SndWrite
  <1>13. ASSUME NEW g \in Callers, SndRestore(g) \/ PrWrite(g) PROVE DefInv'
    <2>1. /\ ~torn => def = set
          /\ \A h \in Callers : pc'[h] \notin {"sndWrite", "sndRestore", "sendmsg"}
      BY <1>x, <1>13 DEF SndRestore, PrWrite, DefInv
    <2> DEFINE p == Or(job[g].pr, None)
    <2>2. p \in Policies \cup {None} /\ set \in Default /\ torn \in BOOLEAN
      BY OrType DEF JobInv, Job, DefInv
    <2>3. misled' = misled
      BY <1>13 DEF SndRestore, PrWrite
    <2>4. CASE SndRestore(g) /\ kern' = [kern EXCEPT !.pr = p]
               /\ Stored([def EXCEPT !.snd = kern.snd]) /\ UNCHANGED torn
      <3>1. ~torn => p = set.pr
        BY <2>4, OrSingle, Zenon DEF SndRestore, DefInv
      <3>2. /\ kern' = [snd |-> kern.snd, pr |-> p]
            /\ def' = [snd |-> kern.snd, pr |-> def.pr] /\ set' = def'
        BY <2>4, RecordExcept, Zenon DEF Stored
      <3>3. ~torn => kern' = set'
        BY <2>1, <3>1, <3>2
      <3>4. set' \in Default
        BY <3>2 DEF Default
      <3>5. QED BY <2>1, <2>3, <2>4, <3>2, <3>3, <3>4 DEF DefInv
    <2>5. CASE SndRestore(g) /\ torn' = TRUE /\ UNCHANGED <<kern, def, set>>
      BY <2>1, <2>2, <2>3, <2>5 DEF DefInv
    <2>6. CASE PrWrite(g) /\ kern' = [kern EXCEPT !.pr = p]
               /\ Stored([def EXCEPT !.pr = kern'.pr])
      <3>1. ~torn => kern = set
        BY <1>x, <2>6 DEF PrWrite, DefInv
      <3>2. /\ kern' = [snd |-> kern.snd, pr |-> p]
            /\ def' = [snd |-> def.snd, pr |-> p] /\ set' = def'
        <4>1. kern' = [snd |-> kern.snd, pr |-> p]
          BY <2>6, RecordExcept, Zenon
        <4>2. kern'.pr = p
          BY <4>1
        <4>3. QED BY <2>6, <4>1, <4>2, RecordExcept, Zenon DEF Stored
      <3>3. ~torn => kern' = set'
        BY <2>1, <3>1, <3>2
      <3>4. set' \in Default /\ torn' = torn
        BY <2>2, <2>6, <3>2 DEF Default, PrWrite
      <3>5. QED BY <2>1, <2>3, <3>2, <3>3, <3>4 DEF DefInv
    <2>7. CASE PrWrite(g) /\ UNCHANGED <<kern, def, set>>
      <3>1. ~torn => kern = set
        BY <1>x, <2>7 DEF PrWrite, DefInv
      <3>2. torn' = torn
        BY <2>7 DEF PrWrite
      <3>3. QED BY <2>1, <2>2, <2>3, <2>7, <3>1, <3>2 DEF DefInv
    <2>8. QED BY <1>13, <2>4, <2>5, <2>6, <2>7, Zenon DEF SndRestore, PrWrite
  <1>14. QED
    BY <1>2, <1>3, <1>4, <1>5, <1>6, <1>6a, <1>7, <1>8, <1>9, <1>10, <1>11, <1>12, <1>13, Zenon DEF Next, Step,
       SendMsg, SetDefaultSndInfo, SetDefaultPrInfo, DefaultInfo, SetPathThresholds,
       SetPathParams, BindAdd, BindRemove, Connect

\* setDefaultSndInfo overwrites the policy with the flags and writes it again,
\* two system calls; SendMsg completes its options from the cache, and the
\* kernel from its own.  Whatever the goroutines do, every message and every
\* getter meets the parameters last set, unless a second write has failed.
THEOREM DefaultsAlwaysInForce == OptionsAssumption => (Spec => []DefaultsInForce)
  <1> SUFFICES ASSUME OptionsAssumption PROVE Spec => []DefaultsInForce
    OBVIOUS
  <1>1. Init => LockInv /\ JobInv /\ DefInv
    <2> SUFFICES ASSUME Init PROVE LockInv /\ JobInv /\ DefInv
      OBVIOUS
    <2>1. LockInv /\ JobInv
      BY InitLockInv, InitJobInv
    <2>2. set = def /\ kern = set
      BY DEF Init
    <2>3. QED BY <2>1, <2>2, Zenon DEF Init, JobInv, DefInv, Default
  <1>2. LockInv /\ JobInv /\ DefInv /\ [Next]_vars => (LockInv /\ JobInv /\ DefInv)'
    BY NextLockInv, NextJobInv, NextDefInv
  <1>3. DefInv => DefaultsInForce
    BY DEF DefInv, DefaultsInForce
  <1>4. QED BY <1>1, <1>2, <1>3, PTL DEF Spec

-----------------------------------------------------------------------------
(* The bound addresses *)

\* The snapshot, if it is fresh, is out of date only while a goroutine that has
\* changed the list has still to read it: one that holds bindMu, or a Connect
\* that found no snapshot.
LaddrInv ==
  snap.fresh /\ (\A g \in Callers : pc[g] # "local") =>
    \/ snap.laddr = Listed(addrs)
    \/ snap.laddr = {} /\ \E g \in Callers : pc[g] \in {"connected", "addr"}

\* The scope is out of date only while the goroutine that read a list has still
\* to work it out.
ScopeInv ==
  (\A g \in Callers : pc[g] \notin {"peer", "scope"}) =>
    snap.scope = linkLocalPathScope(snap.laddr, snap.raddr) \/ owner # "Conn"

\* A removal that was compared with the list and allowed leaves an address, and
\* is the only one until it is made.
RemoveInv ==
  /\ ~busy
  /\ \A g \in Callers : pc[g] = "bindx" /\ ~job[g].blind =>
       /\ addrs.bound # {}
       /\ ~job[g].add => ~(addrs.bound \subseteq job[g].ips)

BindInv ==
  /\ addrs = [bound |-> addrs.bound, assoc |-> addrs.assoc, peer |-> addrs.peer,
              asconf |-> addrs.asconf]
  /\ snap = [laddr |-> snap.laddr, raddr |-> snap.raddr, fresh |-> snap.fresh,
             scope |-> snap.scope]
  /\ LaddrInv /\ ScopeInv /\ RemoveInv

\* A step of BindAdd, BindRemove and Connect, and every other step.
LEMMA NextBindInv ==
  ASSUME OptionsAssumption, LockInv, JobInv, BindInv, [Next]_vars
  PROVE BindInv'
  <1>x. \A g, h \in Callers : pc[g] \in BindPCs /\ pc[h] \in BindPCs => g = h
    BY DEF LockInv
  <1>y. /\ pc \in [Callers -> PCs] /\ job \in [Callers -> Job]
        /\ BindPCs = {"check", "bindx", "local", "peer", "scope"}
    BY DEF LockInv, JobInv, BindPCs
  <1>z. busy' = busy => ~busy'
    BY DEF BindInv, RemoveInv
  <1>r. /\ addrs = [bound |-> addrs.bound, assoc |-> addrs.assoc, peer |-> addrs.peer,
                    asconf |-> addrs.asconf]
        /\ snap = [laddr |-> snap.laddr, raddr |-> snap.raddr, fresh |-> snap.fresh,
                   scope |-> snap.scope]
        /\ LaddrInv /\ ScopeInv /\ RemoveInv
    BY Zenon DEF BindInv
  <1> USE <1>y DEF frame, Goto, Return, bindVars
  <1>u. ASSUME UNCHANGED <<owner, addrs, snap>>
        PROVE /\ Listed(addrs)' = Listed(addrs)
              /\ linkLocalPathScope(snap.laddr, snap.raddr)' = linkLocalPathScope(snap.laddr, snap.raddr)
    BY <1>u DEF Listed, linkLocalPathScope
  \* A step outside the bind calls.
  <1>1. ASSUME NEW g \in Callers, NEW to \in PCs \ BindPCs,
               pc' = [pc EXCEPT ![g] = to], \A h \in Callers \ {g} : job'[h] = job[h],
               UNCHANGED <<owner, addrs, snap>>, ~busy',
               pc[g] \notin {"local", "peer", "scope", "connected", "addr"}
        PROVE BindInv'
    <2>1. Listed(addrs)' = Listed(addrs)
          /\ linkLocalPathScope(snap.laddr, snap.raddr)' = linkLocalPathScope(snap.laddr, snap.raddr)
      BY <1>1, <1>u
    <2>2. \A h \in Callers : pc'[h] \in BindPCs => h # g /\ pc'[h] = pc[h]
      BY <1>1
    <2>3. \A h \in Callers : pc[h] \in {"local", "peer", "scope", "connected", "addr"} => pc'[h] = pc[h]
      BY <1>1
    <2>4. LaddrInv'
      BY <1>1, <1>r, <2>1, <2>3 DEF LaddrInv
    <2>5. ScopeInv'
      BY <1>1, <1>r, <2>1, <2>3 DEF ScopeInv
    <2>6. RemoveInv'
      BY <1>1, <1>r, <2>2 DEF RemoveInv
    <2>7. QED BY <1>1, <1>r, <2>4, <2>5, <2>6, Zenon DEF BindInv
  <1>2. ASSUME NEW g \in Callers, NEW o, NEW to \in {"send", "snd", "pr", "getOpt", "thr", "par", "bind", "connectx"}, NEW j,
               Call(g, o, to, j)
        PROVE BindInv'
    BY <1>1, <1>2, <1>z, Zenon DEF Call, PCs
  <1>3. ASSUME NEW g \in Callers, Locked(g) PROVE BindInv'
    <2>1. ASSUME NEW from \in {"bind", "addr"}, NEW to \in {"check", "local"},
                 Lock(g, from, "bind", to), from = "bind" <=> to = "check"
          PROVE BindInv'
      <3>1. \A h \in Callers : pc'[h] = pc[h] \/ (h = g /\ pc[h] = from /\ pc'[h] = to)
        BY <2>1 DEF Lock
      <3>2. Listed(addrs)' = Listed(addrs) /\ UNCHANGED <<owner, addrs, snap, busy, job>>
            /\ linkLocalPathScope(snap.laddr, snap.raddr)' = linkLocalPathScope(snap.laddr, snap.raddr)
        BY <1>u, <2>1 DEF Lock
      <3>3. pc[g] = from /\ pc'[g] = to
        BY <2>1 DEF Lock
      <3>4. LaddrInv'
        <4>1. CASE from = "bind"
          BY <1>r, <2>1, <3>1, <3>2, <4>1 DEF LaddrInv
        <4>2. CASE from = "addr"
          BY <2>1, <3>3, <4>2 DEF LaddrInv
        <4>3. QED BY <4>1, <4>2
      <3>5. ScopeInv' /\ RemoveInv'
        BY <1>r, <2>1, <3>1, <3>2 DEF ScopeInv, RemoveInv
      <3>6. QED BY <1>r, <3>2, <3>4, <3>5, Zenon DEF BindInv
    <2>2. CASE Lock(g, "bind", "bind", "check") \/ Lock(g, "addr", "bind", "local")
      BY <2>1, <2>2
    <2>3. CASE ~(Lock(g, "bind", "bind", "check") \/ Lock(g, "addr", "bind", "local"))
      BY <1>1, <1>3, <1>z, <2>3 DEF Locked, Lock, PCs, SendPCs, OptPCs
    <2>4. QED BY <2>2, <2>3
  <1>4. ASSUME NEW g \in Callers, ErrClosed(g) \/ Refused(g) PROVE BindInv'
    <2>1. CASE ErrClosed(g) BY <1>1, <1>z, <2>1, Zenon DEF ErrClosed, PCs
    <2>2. CASE Refused(g)
      BY <1>u, <2>2, Zenon DEF Refused, vars, BindInv, LaddrInv, ScopeInv, RemoveInv
    <2>3. QED BY <1>4, <2>1, <2>2
  <1>5. ASSUME NEW g \in Callers, Encode(g) \/ Sendmsg(g) \/ SndRead(g) \/ SndWrite(g)
               \/ SndRestore(g) \/ PrWrite(g) \/ Get(g)
        PROVE BindInv'
    BY <1>1, <1>z, <1>5 DEF Encode, Sendmsg, SndRead, SndWrite, SndRestore, PrWrite, Get,
       PCs, SendPCs, OptPCs
  <1>6. ASSUME NEW g \in Callers,
               ReadThresholds(g) \/ WriteThresholds(g) \/ WriteParams(g)
        PROVE BindInv'
    BY <1>1, <1>z, <1>6 DEF ReadThresholds, WriteThresholds, WriteParams, PCs, OptPCs
  <1>7. ASSUME NEW g \in Callers, Check(g) PROVE BindInv'
    <2>1. CASE Return(g)
      BY <1>1, <1>z, <1>7, <2>1, Zenon DEF Check, PCs
    <2>2. ASSUME NEW read \in BOOLEAN, job[g].add => read,
                 ~(read /\ ~job[g].add /\ removesEveryAddress(addrs.bound, job[g].ips)),
                 Goto(g, "bindx"), job' = [job EXCEPT ![g].blind = ~(read /\ addrs.bound # {})]
          PROVE BindInv'
      <3>1. \A h \in Callers : \/ pc'[h] = pc[h] /\ job'[h] = job[h]
                               \/ (h = g /\ pc[h] = "check" /\ pc'[h] = "bindx")
        BY <1>7, <2>2 DEF Check
      <3>2. Listed(addrs)' = Listed(addrs) /\ UNCHANGED <<owner, addrs, snap, busy>>
            /\ linkLocalPathScope(snap.laddr, snap.raddr)' = linkLocalPathScope(snap.laddr, snap.raddr)
        BY <1>u, <1>7 DEF Check
      <3>3. ~job'[g].blind => addrs.bound # {} /\ (~job'[g].add => ~(addrs.bound \subseteq job'[g].ips))
        <4>1. job[g] \in Job
          BY Zenon
        <4>2. /\ job'[g].blind = ~(read /\ addrs.bound # {})
              /\ job'[g].add = job[g].add /\ job'[g].ips = job[g].ips
          BY <2>2, <4>1 DEF Job
        <4>3. QED BY <2>2, <4>2 DEF removesEveryAddress
      <3>4. LaddrInv' /\ ScopeInv'
        BY <1>r, <3>1, <3>2 DEF LaddrInv, ScopeInv
      <3>5. RemoveInv'
        BY <1>r, <3>1, <3>2, <3>3 DEF RemoveInv
      <3>6. QED BY <1>r, <3>2, <3>4, <3>5, Zenon DEF BindInv
    <2>3. QED BY <1>7, <2>1, <2>2 DEF Check
  <1>8. ASSUME NEW g \in Callers, Bindx(g) PROVE BindInv'
    <2> DEFINE b == IF job[g].add THEN addrs.bound \cup job[g].ips ELSE addrs.bound \ job[g].ips
    <2>1. ~job[g].blind => b # {}
      BY <1>r, <1>8 DEF Bindx, RemoveInv
    <2>2. ~busy
      BY <1>r DEF RemoveInv
    <2>3. \A h \in Callers \ {g} : pc[h] \notin BindPCs
      BY <1>x, <1>8 DEF Bindx
    <2>4. CASE Return(g) /\ busy' = (busy \/ (b = {} /\ ~job[g].blind)) /\ UNCHANGED addrs
      <3>1. ~busy'
        BY <2>1, <2>2, <2>4, Zenon
      <3>2. QED BY <1>1, <1>8, <2>4, <3>1, Zenon DEF Bindx, PCs
    <2>5. CASE /\ Goto(g, "local") /\ UNCHANGED <<mu, job, busy>>
               /\ addrs' = [addrs EXCEPT !.bound = b, !.assoc = IF addrs.asconf THEN b ELSE @]
      <3>1. addrs' = [bound |-> b, assoc |-> IF addrs.asconf THEN b ELSE addrs.assoc,
                      peer |-> addrs.peer, asconf |-> addrs.asconf]
        BY <1>r, <2>5, Zenon
      <3>2. pc'[g] = "local" /\ \A h \in Callers \ {g} : pc'[h] \notin BindPCs
        BY <2>3, <2>5, <1>8 DEF Bindx
      <3>3. linkLocalPathScope(snap.laddr, snap.raddr)' = linkLocalPathScope(snap.laddr, snap.raddr)
        BY <1>8 DEF Bindx, linkLocalPathScope
      <3>4. \A h \in Callers : pc[h] \notin {"peer", "scope"}
        BY <1>8, <2>3 DEF Bindx
      <3>5. UNCHANGED <<owner, snap, busy>>
        BY <1>8, <2>5 DEF Bindx
      <3>6. addrs' = [bound |-> addrs'.bound, assoc |-> addrs'.assoc,
                      peer |-> addrs'.peer, asconf |-> addrs'.asconf]
        BY <3>1, Zenon
      <3> HIDE DEF b
      <3>7. LaddrInv' /\ ScopeInv' /\ RemoveInv'
        BY <1>r, <2>2, <3>2, <3>3, <3>4, <3>5 DEF LaddrInv, ScopeInv, RemoveInv
      <3>8. QED BY <1>r, <3>5, <3>6, <3>7, Zenon DEF BindInv
    <2>6. QED BY <1>8, <2>4, <2>5 DEF Bindx
  <1>9. ASSUME NEW g \in Callers, RefreshLocal(g) PROVE BindInv'
    <2>1. \/ snap' = [laddr |-> Listed(addrs), raddr |-> snap.raddr, fresh |-> TRUE, scope |-> snap.scope]
          \/ snap' = [laddr |-> snap.laddr, raddr |-> snap.raddr, fresh |-> FALSE, scope |-> snap.scope]
      BY <1>r, <1>9 DEF RefreshLocal
    <2>2. Listed(addrs)' = Listed(addrs)
      BY <1>9 DEF RefreshLocal, Listed
    <2>3. \A h \in Callers \ {g} : pc[h] \notin BindPCs
      BY <1>x, <1>9 DEF RefreshLocal
    <2>4. /\ owner = "Conn" => pc'[g] = "peer"
          /\ \A h \in Callers : pc'[h] # "bindx"
          /\ UNCHANGED <<owner, addrs, busy>>
      BY <1>9, <2>3 DEF RefreshLocal
    <2>5. LaddrInv'
      BY <2>1, <2>2 DEF LaddrInv
    <2>6. ScopeInv'
      BY <1>r, <1>9, <2>1, <2>3, <2>4 DEF ScopeInv
    <2>7. RemoveInv'
      BY <1>r, <2>4 DEF RemoveInv
    <2>8. snap' = [laddr |-> snap'.laddr, raddr |-> snap'.raddr, fresh |-> snap'.fresh,
                   scope |-> snap'.scope]
      BY <2>1
    <2>9. QED BY <1>r, <2>4, <2>5, <2>6, <2>7, <2>8, Zenon DEF BindInv
  <1>10. ASSUME NEW g \in Callers, RefreshPeer(g) PROVE BindInv'
    <2>1. \/ snap' = [laddr |-> snap.laddr, raddr |-> addrs.peer, fresh |-> snap.fresh, scope |-> snap.scope]
          \/ snap' = snap
      BY <1>r, <1>10 DEF RefreshPeer
    <2>2. Listed(addrs)' = Listed(addrs)
      BY <1>10 DEF RefreshPeer, Listed
    <2>3. /\ pc'[g] = "scope" /\ \A h \in Callers \ {g} : pc'[h] = pc[h] /\ pc[h] \notin BindPCs
          /\ pc[g] = "peer" /\ UNCHANGED <<owner, addrs, busy>>
      BY <1>x, <1>10 DEF RefreshPeer
    <2>4. snap'.laddr = snap.laddr /\ snap'.fresh = snap.fresh
          /\ snap' = [laddr |-> snap'.laddr, raddr |-> snap'.raddr, fresh |-> snap'.fresh,
                      scope |-> snap'.scope]
      BY <1>r, <2>1
    <2>5. LaddrInv'
      BY <1>r, <2>2, <2>3, <2>4 DEF LaddrInv
    <2>6. ScopeInv' /\ RemoveInv'
      BY <1>r, <2>3 DEF ScopeInv, RemoveInv
    <2>7. QED BY <1>r, <2>3, <2>4, <2>5, <2>6, Zenon DEF BindInv
  <1>11. ASSUME NEW g \in Callers, RefreshScope(g) PROVE BindInv'
    <2>1. snap' = [laddr |-> snap.laddr, raddr |-> snap.raddr, fresh |-> snap.fresh,
                   scope |-> linkLocalPathScope(snap.laddr, snap.raddr)]
      BY <1>r, <1>11 DEF RefreshScope
    <2>f. /\ snap'.laddr = snap.laddr /\ snap'.raddr = snap.raddr /\ snap'.fresh = snap.fresh
          /\ snap'.scope = linkLocalPathScope(snap.laddr, snap.raddr)
          /\ snap' = [laddr |-> snap'.laddr, raddr |-> snap'.raddr, fresh |-> snap'.fresh,
                      scope |-> snap'.scope]
      BY <2>1
    <2>s. linkLocalPathScope(snap.laddr, snap.raddr)' = linkLocalPathScope(snap.laddr, snap.raddr)
      BY <2>f DEF linkLocalPathScope
    <2>2. /\ snap'.laddr = snap.laddr /\ snap'.fresh = snap.fresh
          /\ snap' = [laddr |-> snap'.laddr, raddr |-> snap'.raddr, fresh |-> snap'.fresh,
                      scope |-> snap'.scope]
          /\ snap'.scope = linkLocalPathScope(snap.laddr, snap.raddr)'
      BY <2>f, <2>s, Zenon
    <2>3. /\ \A h \in Callers : pc'[h] \notin BindPCs /\ pc[h] # "local"
          /\ \A h \in Callers : pc[h] \in {"connected", "addr"} => pc'[h] = pc[h]
          /\ UNCHANGED <<owner, addrs, busy>> /\ Listed(addrs)' = Listed(addrs)
      BY <1>x, <1>11 DEF RefreshScope, Listed
    <2>4. LaddrInv'
      BY <1>r, <2>2, <2>3 DEF LaddrInv
    <2>5. ScopeInv' /\ RemoveInv'
      BY <1>r, <2>2, <2>3 DEF ScopeInv, RemoveInv
    <2>6. QED BY <1>r, <2>2, <2>3, <2>4, <2>5, Zenon DEF BindInv
  <1>12. ASSUME Close \/ End \/ PeerChanges \/ UNCHANGED vars PROVE BindInv'
    <2>1. /\ UNCHANGED <<owner, snap, busy, pc, job>>
          /\ addrs' = addrs \/ \E p : addrs' = [addrs EXCEPT !.peer = p]
      BY <1>12 DEF Close, End, PeerChanges, unmoved, vars
    <2>2. /\ addrs' = [bound |-> addrs.bound, assoc |-> addrs.assoc, peer |-> addrs'.peer,
                       asconf |-> addrs.asconf]
      BY <1>r, <2>1
    <2>3. /\ addrs'.bound = addrs.bound
          /\ addrs' = [bound |-> addrs'.bound, assoc |-> addrs'.assoc, peer |-> addrs'.peer,
                       asconf |-> addrs'.asconf]
      BY <2>2
    <2>4. Listed(addrs)' = Listed(addrs)
          /\ linkLocalPathScope(snap.laddr, snap.raddr)' = linkLocalPathScope(snap.laddr, snap.raddr)
      BY <2>1, <2>2 DEF Listed, linkLocalPathScope
    <2>5. LaddrInv' /\ ScopeInv' /\ RemoveInv'
      BY <1>r, <2>1, <2>3, <2>4 DEF LaddrInv, ScopeInv, RemoveInv
    <2>6. QED BY <1>r, <2>1, <2>3, <2>5, Zenon DEF BindInv
  <1>13. ASSUME NEW g \in Callers, Connectx(g) PROVE BindInv'
    <2>1. /\ pc[g] = "connectx" /\ UNCHANGED <<owner, busy>>
          /\ \A h \in Callers \ {g} : pc'[h] = pc[h] /\ job'[h] = job[h]
      BY <1>13 DEF Connectx
    <2>2. \/ addrs' = addrs
          \/ addrs.bound = {} /\ addrs' = [bound |-> Addrs, assoc |-> addrs.assoc,
                                           peer |-> addrs.peer, asconf |-> addrs.asconf]
      BY <1>r, <1>13 DEF Connectx
    <2>3. addrs' = [bound |-> addrs'.bound, assoc |-> addrs'.assoc, peer |-> addrs'.peer,
                    asconf |-> addrs'.asconf]
      BY <1>r, <2>2
    <2>4. Listed(addrs)' = Listed(addrs) \/ Listed(addrs) = {}
      BY <2>1, <2>2 DEF Listed
    <2>5. CASE pc'[g] = "connected" /\ snap' = snap
      <3>1. linkLocalPathScope(snap.laddr, snap.raddr)' = linkLocalPathScope(snap.laddr, snap.raddr)
        BY <2>5 DEF linkLocalPathScope
      <3>2. LaddrInv'
        BY <1>r, <2>1, <2>4, <2>5 DEF LaddrInv
      <3>3. ScopeInv'
        BY <1>r, <2>1, <2>5, <3>1 DEF ScopeInv
      <3>4. RemoveInv'
        BY <1>r, <2>1, <2>2, <2>5 DEF RemoveInv
      <3>5. QED BY <1>r, <2>3, <2>5, <3>2, <3>3, <3>4, Zenon DEF BindInv
    <2>6. CASE pc'[g] = "idle" /\ snap' = [snap EXCEPT !.fresh = @ /\ addrs' = addrs]
      <3>1. snap' = [laddr |-> snap.laddr, raddr |-> snap.raddr,
                     fresh |-> (snap.fresh /\ addrs' = addrs), scope |-> snap.scope]
        BY <1>r, <2>6
      <3>2. /\ snap'.laddr = snap.laddr /\ snap'.raddr = snap.raddr /\ snap'.scope = snap.scope
            /\ snap'.fresh => snap.fresh /\ addrs' = addrs
            /\ snap' = [laddr |-> snap'.laddr, raddr |-> snap'.raddr, fresh |-> snap'.fresh,
                        scope |-> snap'.scope]
        BY <3>1
      <3>3. linkLocalPathScope(snap.laddr, snap.raddr)' = linkLocalPathScope(snap.laddr, snap.raddr)
        BY <3>2 DEF linkLocalPathScope
      <3>4. snap'.fresh => Listed(addrs)' = Listed(addrs)
        BY <2>1, <3>2 DEF Listed
      <3>5. LaddrInv'
        BY <1>r, <2>1, <2>6, <3>2, <3>4 DEF LaddrInv
      <3>6. ScopeInv'
        BY <1>r, <2>1, <2>6, <3>2, <3>3 DEF ScopeInv
      <3>7. RemoveInv'
        BY <1>r, <2>1, <2>2, <2>6 DEF RemoveInv
      <3>8. QED BY <2>3, <3>2, <3>5, <3>6, <3>7, Zenon DEF BindInv
    <2>7. QED BY <1>13, <2>5, <2>6 DEF Connectx
  <1>14. ASSUME NEW g \in Callers, Connected(g) PROVE BindInv'
    <2>1. /\ pc[g] = "connected" /\ UNCHANGED <<owner, addrs, snap, busy>>
          /\ \A h \in Callers \ {g} : pc'[h] = pc[h] /\ job'[h] = job[h]
          /\ IF snap.laddr = {} THEN pc'[g] = "addr" ELSE pc'[g] = "idle"
      BY <1>14 DEF Connected
    <2>2. Listed(addrs)' = Listed(addrs)
          /\ linkLocalPathScope(snap.laddr, snap.raddr)' = linkLocalPathScope(snap.laddr, snap.raddr)
      BY <1>u, <2>1
    <2>3. LaddrInv'
      BY <1>r, <2>1, <2>2 DEF LaddrInv
    <2>4. ScopeInv' /\ RemoveInv'
      BY <1>r, <2>1, <2>2 DEF ScopeInv, RemoveInv
    <2>5. QED BY <1>r, <2>1, <2>3, <2>4, Zenon DEF BindInv
  <1>15. QED
    BY <1>2, <1>3, <1>4, <1>5, <1>6, <1>7, <1>8, <1>9, <1>10, <1>11, <1>12, <1>13, <1>14, Zenon
       DEF Next, Step,
       SendMsg, SetDefaultSndInfo, SetDefaultPrInfo, DefaultInfo, SetPathThresholds,
       SetPathParams, BindAdd, BindRemove, Connect

\* BindAdd and BindRemove change the kernel's list and then read it into the
\* snapshot, under bindMu: between two of them LocalAddr and the path scope are
\* those of the kernel's list, and BindRemove's check is still true when the
\* kernel is asked.
THEOREM SnapshotsAlwaysCurrent == OptionsAssumption => (Spec => []SnapshotsCurrent)
  <1> SUFFICES ASSUME OptionsAssumption PROVE Spec => []SnapshotsCurrent
    OBVIOUS
  <1>1. Init => LockInv /\ JobInv /\ BindInv
    <2> SUFFICES ASSUME Init PROVE LockInv /\ JobInv /\ BindInv
      OBVIOUS
    <2>1. PICK s \in Start :
            /\ addrs = [bound |-> s.bound, assoc |-> s.bound, peer |-> s.peer, asconf |-> s.asconf]
            /\ snap = [laddr |-> s.bound, raddr |-> s.peer, fresh |-> TRUE,
                       scope |-> linkLocalPathScope(s.bound, s.peer)]
      BY Zenon DEF Init, OptionsAssumption
    <2>2. /\ addrs = [bound |-> addrs.bound, assoc |-> addrs.assoc, peer |-> addrs.peer,
                       asconf |-> addrs.asconf]
          /\ snap = [laddr |-> snap.laddr, raddr |-> snap.raddr, fresh |-> snap.fresh,
                      scope |-> snap.scope]
      BY <2>1
    <2>3. snap.laddr = Listed(addrs) /\ snap.scope = linkLocalPathScope(snap.laddr, snap.raddr)
      BY <2>1 DEF Listed
    <2>4. LaddrInv /\ ScopeInv /\ RemoveInv
      BY <2>3 DEF Init, LaddrInv, ScopeInv, RemoveInv
    <2>5. QED BY <2>2, <2>4, InitLockInv, InitJobInv, Zenon DEF BindInv
  <1>2. LockInv /\ JobInv /\ BindInv /\ [Next]_vars => (LockInv /\ JobInv /\ BindInv)'
    BY NextLockInv, NextJobInv, NextBindInv
  <1>3. LockInv /\ BindInv => SnapshotsCurrent
    <2> SUFFICES ASSUME LockInv, BindInv PROVE SnapshotsCurrent
      OBVIOUS
    <2>1. mu["bind"] = NoOne => \A g \in Callers : pc[g] \notin BindPCs
      BY DEF LockInv, OptionsAssumption
    <2>2. QED BY <2>1 DEF BindInv, LaddrInv, ScopeInv, RemoveInv, SnapshotsCurrent, BindPCs
  <1>4. QED BY <1>1, <1>2, <1>3, PTL DEF Spec
=============================================================================
