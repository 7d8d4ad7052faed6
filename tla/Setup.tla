------------------------------- MODULE Setup -------------------------------
(***************************************************************************)
(* From a Config to a configured socket: prepare (config.go) checks the    *)
(* Config and lists the operations, Config.Control runs on the new socket, *)
(* and applyConfig (config_linux.go) writes the operations one after the   *)
(* other, until one fails.  The kernel's endpoint is external: what it     *)
(* refuses depends on the operations before, and on sysctls of the host    *)
(* that the package does not see.                                          *)
(*                                                                         *)
(* An optional field is a set: {} when it is nil, {v} when it holds v.  A  *)
(* field of no consequence to another one is "nil", "good", or "bad" when  *)
(* its own range check refuses it.                                         *)
(***************************************************************************)
EXTENDS Part, Naturals, Sequences, FiniteSets, Functions

CONSTANTS
  Calls,          \* what a constructor may be called with: [style, cfg]
  AuthMaxChunks,  \* the chunk types an association's copy of the list holds
  NumChunkTypes,  \* the chunk types an endpoint's own list holds
  MaxControl      \* the socket calls one Config.Control makes

Pair   == {"ASCONF", "ASCONF-ACK"}
Barred == {"INIT", "INIT-ACK", "SHUTDOWN-COMPLETE", "AUTH"}
Events == {"AssocChange", "PartialDelivery", "Shutdown", "SenderDry"}

\* The fields of a Config that may be nil, and what it is besides.
Optional == {"frag", "auth", "hmacs", "chunks", "asconf", "reconfig", "mask", "snd",
             "pr", "notes"}
IsConfig(c) ==
  /\ \A f \in Optional : \A v, w \in c[f] : v = w
  /\ c.auth \cup c.asconf \subseteq BOOLEAN /\ c.intl \in BOOLEAN
  /\ \A l \in c.hmacs \cup c.chunks \cup c.notes : l \in Seq(Range(l))

\* What the constants are assumed to be.
ASSUME SetupAssumption ==
  /\ AuthMaxChunks \in Nat /\ NumChunkTypes \in Nat /\ MaxControl \in Nat
  /\ 2 <= AuthMaxChunks /\ AuthMaxChunks <= NumChunkTypes
  /\ \A k \in Calls : IsConfig(k.cfg)

VARIABLES
  ctor,   \* the constructor's style and its Config
  phase,  \* its next step
  next,   \* how many operations are applied, or calls Control made
  sysctl, \* the host's net.sctp sysctls
  ep,     \* the kernel's endpoint
  left,   \* history: the default PR-SCTP policy that Control left
  sock,   \* the socket: "none", "open" or "closed"
  err     \* why the constructor failed

setupVars == <<ctor, phase, next, sysctl, ep, left, sock, err>>

isEndpoint(style) == style \in {"ListenEndpoint", "OpenEndpoint"}

-----------------------------------------------------------------------------
(* prepare: what a Config may ask for *)

\* The fields that stand alone, in the order of their operations, and the
\* three that have none.
Before == <<"ReadBuffer", "WriteBuffer", "InitMsg">>
Middle == <<"ExperimentalECN", "AdaptationLayer", "RTOInfo", "DelayedSACK",
            "FragmentsDisabled", "ReusePort", "ReceiveNxtInfo", "NoDelay">>
DialOnly == {"AbandonPolicy", "SetupRTOInitial"}
Alone == Range(Before) \cup Range(Middle) \cup DialOnly
           \cup {"PartialReliability", "CloseTimeout"}

AloneValid(style, c) ==
  /\ \A f \in Alone : c.alone[f] # "bad"
  /\ style # "Dial" => \A f \in DialOnly : c.alone[f] = "nil"
  /\ isEndpoint(style) => c.alone["ReusePort"] = "nil"

resolveFragmentInterleave(style, c) ==
  IF c.frag = {} THEN (IF isEndpoint(style) THEN "Assocs" ELSE "None")
  ELSE CHOOSE level \in c.frag : TRUE

InterleaveValid(style, c) ==
  /\ c.frag \subseteq {"None", "Assocs"}
  /\ c.intl => resolveFragmentInterleave(style, c) = "Assocs"

authOn(c) == c.auth = {TRUE}

HmacsValid(c) ==
  \A ids \in c.hmacs :
    /\ authOn(c)
    /\ Range(ids) \subseteq {"SHA1", "SHA256"} /\ IsInjective(ids)
    /\ "SHA1" \in Range(ids)

\* Mutation: the pair counts only when the Config asks for ASCONF.
ChunksValid_Asked(c) ==
  \A l \in c.chunks :
    /\ authOn(c)
    /\ Range(l) \cap Barred = {} /\ IsInjective(l)
    /\ Cardinality(Range(l) \cup (IF c.asconf = {TRUE} THEN Pair ELSE {})) <= AuthMaxChunks

\* ASCONF and ASCONF-ACK are counted whether the Config asks for them or not.
ChunksValid(c) ==
  \A l \in c.chunks :
    /\ authOn(c)
    /\ Range(l) \cap Barred = {} /\ IsInjective(l)
    /\ Cardinality(Range(l) \cup Pair) <= AuthMaxChunks

ReconfigValid(c) ==
  /\ c.asconf = {TRUE} => authOn(c)
  /\ c.mask \subseteq {"zero", "known"}
  /\ c.mask = {"known"} => c.reconfig = {TRUE}

\* validateDefaultSndInfo, validatePrInfo and the notification types.
DefaultsValid(c) ==
  /\ "bad" \notin c.snd \cup c.pr
  /\ \A l \in c.notes : Range(l) \subseteq Events

\* prepareFileStyle: a descriptor that is already set up takes no settings.
FileValid(c) ==
  /\ \A f \in Alone \ {"CloseTimeout"} : c.alone[f] = "nil"
  /\ c.alone["CloseTimeout"] # "bad"
  /\ \A f \in Optional : c[f] = {}
  /\ ~c.intl /\ ~c.control

prepareOK(style, c) ==
  IF style = "File" THEN FileValid(c)
  ELSE /\ AloneValid(style, c) /\ InterleaveValid(style, c)
       /\ HmacsValid(c) /\ ChunksValid(c) /\ ReconfigValid(c) /\ DefaultsValid(c)

-----------------------------------------------------------------------------
(* prepare: the operations, in their order *)

Op(kind, arg) == [kind |-> kind, arg |-> arg]
Given(kind, field) == IF field = {} THEN <<>> ELSE <<Op(kind, field)>>
Each(kind, seq) == [i \in DOMAIN seq |-> Op(kind, {seq[i]})]
\* The members of a sequence that are at some of its places, in their order.
Pick(seq, places) ==
  [i \in 1..Cardinality(places) |->
     seq[CHOOSE k \in places : Cardinality({m \in places : m <= k}) = i]]
Settings(c, fields) ==
  Each("alone", Pick(fields, {i \in DOMAIN fields : c.alone[fields[i]] = "good"}))

interleaveOps(style, c) ==
  IF c.frag # {} \/ isEndpoint(style)
  THEN <<Op("FragmentInterleave", {resolveFragmentInterleave(style, c)})>> ELSE <<>>

authOps(c) ==
  Given("Authentication", c.auth) \o Given("HMACIdentifiers", c.hmacs)
    \o Each("AuthChunk", IF c.chunks = {} THEN <<>> ELSE CHOOSE l \in c.chunks : TRUE)
    \o Given("DynamicAddressReconfiguration", c.asconf)

streamOps(c) ==
  Given("StreamReconfiguration", c.reconfig) \o Given("StreamResetMask", c.mask)
    \o (IF c.intl THEN <<Op("MessageInterleaving", {TRUE})>> ELSE <<>>)

\* Every type once, in the order of first occurrence.
buildSubscriptions(c) ==
  IF c.notes = {} THEN <<>> ELSE
    LET l == CHOOSE l \in c.notes : TRUE
    IN Each("Notification",
            Pick(l, {i \in DOMAIN l : \A j \in 1..(i - 1) : l[j] # l[i]}))

\* Mutation: message interleaving is written before the level it needs.
prepareOps_Early(style, c) ==
  <<Op("RecvRcvInfo", {}), Op("AssocChange", {})>> \o
  IF style = "File" THEN <<>> ELSE
       Settings(c, Before) \o streamOps(c) \o interleaveOps(style, c) \o authOps(c)
    \o Settings(c, <<"PartialReliability">> \o Middle)
    \o Given("DefaultSndInfo", c.snd) \o Given("DefaultPrInfo", c.pr)
    \o buildSubscriptions(c)

prepareOps(style, c) ==
  <<Op("RecvRcvInfo", {}), Op("AssocChange", {})>> \o
  IF style = "File" THEN <<>> ELSE
       Settings(c, Before) \o interleaveOps(style, c) \o authOps(c)
    \o Settings(c, <<"PartialReliability">>) \o streamOps(c) \o Settings(c, Middle)
    \o Given("DefaultSndInfo", c.snd) \o Given("DefaultPrInfo", c.pr)
    \o buildSubscriptions(c)

ops == prepareOps(ctor.style, ctor.cfg)

\* The caller's logical subscriptions, and those of a peeled connection.
ownSubscriptions(c) == UNION {Range(l) : l \in c.notes}
subscribed(style, c) ==
  ownSubscriptions(c) \cup (IF isEndpoint(style) THEN {"AssocChange"} ELSE {})

-----------------------------------------------------------------------------
(* The kernel's endpoint *)

\* With AUTH and ASCONF both on, the pair joins the list, for good.
WithPair(k) == IF k.auth /\ k.asconf THEN [k EXCEPT !.chunks = @ \cup Pair] ELSE k

NewEndpoint(h) ==
  WithPair([auth |-> h.auth, asconf |-> h.addip, chunks |-> {}, hmacs |-> <<"SHA1">>,
            frag |-> "None", intl |-> FALSE, reconfig |-> FALSE, mask |-> "zero",
            snd |-> "zero", pr |-> "none", events |-> {}, rcvinfo |-> FALSE,
            alone |-> {}, keys |-> {}])

\* Why the kernel refuses an operation, if it does.
KernelRefuses(k, op) ==
  IF op.kind \in {"HMACIdentifiers", "AuthChunk", "Key"} /\ ~k.auth THEN "EACCES"
  ELSE IF op.kind = "MessageInterleaving" /\ (~sysctl.intl \/ k.frag = "None") THEN "EPERM"
  ELSE IF op.kind = "AuthChunk"
            /\ (op.arg \subseteq Barred \/ Cardinality(k.chunks \cup op.arg) > NumChunkTypes)
       THEN "EINVAL"
  ELSE "ok"

setDefaultPrInfo(k, policy) == [k EXCEPT !.pr = policy]

\* The kernel keeps the policy in the word of the flags, and overwrites both.
OverwriteSndInfo(k, v) == [k EXCEPT !.snd = v, !.pr = "none"]

\* setDefaultSndInfo: the policy is read, overwritten with the flags, and set
\* again when there was one.
setDefaultSndInfo(k, v) ==
  LET over == OverwriteSndInfo(k, v)
  IN IF k.pr = "none" THEN over ELSE setDefaultPrInfo(over, k.pr)

applyOp(k, op) ==
  LET v == CHOOSE v \in op.arg : TRUE IN
  CASE op.kind = "RecvRcvInfo" -> [k EXCEPT !.rcvinfo = TRUE]
    [] op.kind = "AssocChange" -> [k EXCEPT !.events = @ \cup {"AssocChange", "PartialDelivery"}]
    [] op.kind = "alone" -> [k EXCEPT !.alone = @ \cup op.arg]
    [] op.kind = "FragmentInterleave" -> [k EXCEPT !.frag = v, !.intl = @ /\ v # "None"]
    [] op.kind = "Authentication" -> WithPair([k EXCEPT !.auth = v])
    [] op.kind = "HMACIdentifiers" -> [k EXCEPT !.hmacs = v]
    [] op.kind = "AuthChunk" -> [k EXCEPT !.chunks = @ \cup op.arg]
    [] op.kind = "DynamicAddressReconfiguration" -> WithPair([k EXCEPT !.asconf = v])
    [] op.kind = "StreamReconfiguration" -> [k EXCEPT !.reconfig = v]
    [] op.kind = "StreamResetMask" -> [k EXCEPT !.mask = v]
    [] op.kind = "MessageInterleaving" -> [k EXCEPT !.intl = v]
    [] op.kind = "DefaultSndInfo" -> setDefaultSndInfo(k, v)
    [] op.kind = "DefaultPrInfo" -> setDefaultPrInfo(k, v)
    [] op.kind = "Notification" -> [k EXCEPT !.events = @ \cup op.arg]

-----------------------------------------------------------------------------
(* The constructor *)

SetupInit ==
  /\ ctor \in Calls
  /\ phase = "prepare" /\ next = 0 /\ sock = "none" /\ err = "none"
  /\ sysctl = [auth |-> FALSE, addip |-> FALSE, intl |-> FALSE]
  /\ ep = NewEndpoint(sysctl) /\ left = "none"

\* A constructor that fails closes the socket it opened.
Fail(e) ==
  /\ phase' = "failed" /\ err' = e
  /\ sock' = (IF sock = "open" THEN "closed" ELSE sock)

Prepare ==
  /\ phase = "prepare"
  /\ IF prepareOK(ctor.style, ctor.cfg)
     THEN phase' = "open" /\ UNCHANGED <<sock, err>>
     ELSE Fail("EINVAL of prepare")
  /\ UNCHANGED <<ctor, next, sysctl, ep, left>>

\* The new socket takes after the host's sysctls; one that is adopted was set
\* up by someone else.
OpenSocket ==
  /\ phase = "open"
  /\ sysctl' \in [auth : BOOLEAN, addip : BOOLEAN, intl : BOOLEAN]
  /\ ep' = NewEndpoint(sysctl')
  /\ sock' = "open"
  /\ phase' = (IF ctor.cfg.control THEN "control" ELSE "apply")
  /\ UNCHANGED <<ctor, next, left, err>>

enableAuth(k) == WithPair([k EXCEPT !.auth = TRUE])

\* InstallAuthKey(1) or ActivateAuthKey(1), which switch AUTH on first.  A key
\* that is not installed cannot be activated.
AuthKey ==
  /\ phase = "control" /\ next < MaxControl
  /\ \E install \in BOOLEAN :
       LET k == enableAuth(ep)
           e == IF KernelRefuses(k, Op("Key", {})) # "ok" THEN "EACCES"
                ELSE IF ~install /\ k.keys = {} THEN "Control" ELSE "ok"
       IN IF e = "ok"
          THEN /\ ep' = [k EXCEPT !.keys = @ \cup {IF install THEN "installed" ELSE "active"}]
               /\ next' = next + 1 /\ UNCHANGED <<phase, sock, err>>
          ELSE ep' = k /\ next' = next /\ Fail(e)
  /\ UNCHANGED <<ctor, sysctl, left>>

\* Control writes options of its own, or returns an error.
ControlCall ==
  /\ phase = "control" /\ next < MaxControl
  /\ \/ /\ \E k \in {[ep EXCEPT !.pr = "ttl"], [ep EXCEPT !.frag = "Assocs"],
                     [ep EXCEPT !.auth = FALSE], [ep EXCEPT !.events = Events]} : ep' = k
        /\ next' = next + 1 /\ UNCHANGED <<phase, sock, err>>
     \/ Fail("Control") /\ UNCHANGED <<ep, next>>
  /\ UNCHANGED <<ctor, sysctl, left>>

ControlReturns ==
  /\ phase = "control"
  /\ phase' = "apply" /\ next' = 0 /\ left' = ep.pr
  /\ UNCHANGED <<ctor, sysctl, ep, sock, err>>

\* applyConfig: the operation that fails, for a reason of its own or of the
\* host, is the last.
Apply ==
  /\ phase = "apply" /\ next < Len(ops)
  /\ LET op == ops[next + 1]  e == KernelRefuses(ep, op) IN
       IF e = "ok"
       THEN ep' = applyOp(ep, op) /\ next' = next + 1 /\ UNCHANGED <<phase, sock, err>>
       ELSE Fail(e) /\ UNCHANGED <<ep, next>>
  /\ UNCHANGED <<ctor, sysctl, left>>

\* Also an operation that breaks no rule may fail, RTOInfo against a limit of
\* the host among them, and so may the bind and the listen that follow.
SystemCallFails ==
  /\ phase \in {"apply", "bind"}
  /\ Fail("host")
  /\ UNCHANGED <<ctor, next, sysctl, ep, left>>

Applied ==
  /\ phase = "apply" /\ next = Len(ops)
  /\ phase' = "bind"
  /\ UNCHANGED <<ctor, next, sysctl, ep, left, sock, err>>

\* setupListener, setupEndpoint: bound, and listening.  newEndpoint, newConn
\* and newListener keep the logical subscriptions.
Bind ==
  /\ phase = "bind"
  /\ phase' = "ready"
  /\ UNCHANGED <<ctor, next, sysctl, ep, left, sock, err>>

Done == phase \in {"ready", "failed"} /\ UNCHANGED setupVars

SetupNext ==
  \/ Prepare \/ OpenSocket \/ AuthKey \/ ControlCall \/ ControlReturns
  \/ Apply \/ SystemCallFails \/ Applied \/ Bind \/ Done

\* The constructors by themselves.
SetupSpec ==
  /\ part = "setup" /\ SetupInit
  /\ [][SetupNext /\ UNCHANGED part]_<<part, setupVars>>

-----------------------------------------------------------------------------
(* Properties *)

\* A Config that prepare accepts finds every prerequisite in place: of the
\* kernel's refusals, only EPERM for want of the intl_enable sysctl is left.
OnlyHostRefuses ==
  /\ err \notin {"EACCES", "EINVAL"}
  /\ err = "EPERM" => ~sysctl.intl

\* What a Config asks for, and the events that the package relies on.
InForce(style, c) ==
  /\ c.auth \subseteq {ep.auth} /\ c.asconf \subseteq {ep.asconf}
  /\ c.hmacs \subseteq {ep.hmacs} /\ \A l \in c.chunks : Range(l) \subseteq ep.chunks
  /\ c.frag \subseteq {ep.frag}
  /\ c.intl => ep.intl
  /\ isEndpoint(style) /\ c.frag = {} => ep.frag = "Assocs"
  /\ c.reconfig \subseteq {ep.reconfig} /\ c.mask \subseteq {ep.mask}
  /\ c.snd \subseteq {ep.snd} /\ ep.pr \in (IF c.pr = {} THEN {left} ELSE c.pr)
  /\ {"AssocChange", "PartialDelivery"} \cup subscribed(style, c) \subseteq ep.events
  /\ \A f \in Alone : c.alone[f] = "good" => f \in ep.alone \cup DialOnly \cup {"CloseTimeout"}

\* The list of chunk types to authenticate never outgrows an association's
\* copy of it, on no host and whatever keys Control installs: the kernel adds
\* ASCONF and ASCONF-ACK by itself, and would copy a longer list unchecked.
ChunkListFits == part = "setup" => Cardinality(ep.chunks) <= AuthMaxChunks

\* Typed settings win over anything Control wrote, and do not undo each other
\* nor a default of Control they say nothing of: a socket that is handed over
\* has what its Config asks for.  A constructor that fails after prepare found
\* its Config valid fails for what the host refuses.
ConfigHolds ==
  part = "setup" =>
    /\ phase = "ready" => InForce(ctor.style, ctor.cfg)
    /\ OnlyHostRefuses
=============================================================================
