------------------------------ MODULE Options ------------------------------
(***************************************************************************)
(* The settings of an open socket that take more than one system call to   *)
(* change, or that the package keeps a copy of: the default send           *)
(* parameters (send_linux.go), which SendMsg uses, the path thresholds     *)
(* (options_linux.go), and the bound addresses with their snapshots        *)
(* (conn_linux.go, listener_linux.go, endpoint_linux.go).  Goroutines call *)
(* them concurrently, while the socket may be closed, the association end  *)
(* and the peer change its addresses.                                      *)
(*                                                                         *)
(* A step is one lock operation or one system call.  The system calls of   *)
(* one socket.control see one descriptor, which Close releases before or   *)
(* after them.  A field that may be nil is a set, as in Setup.  A Conn has *)
(* an association id, and the socket is of AF_INET6.                       *)
(***************************************************************************)
EXTENDS Naturals, FiniteSets

CONSTANTS
  Callers,    \* the goroutines
  Starts,     \* how a socket may be set up, and which operations are called
  Snds,       \* values of SndInfo, and the policies of PrInfo but for PRNone
  Policies,
  Limits,     \* values of a threshold
  Changes,    \* the PathThresholds that SetPathThresholds is given
  Addrs,      \* the local addresses, link-local ones and others
  Lists,      \* the lists of them that BindAdd and BindRemove are given
  Peers,      \* the peer's addresses
  ZoneOf,     \* ZoneOf[a]: {} or the zone that link-local address a carries
  Holders     \* Holders[a]: the interfaces that hold link-local address a

NoOne == "no one"
None  == "none"
Opt(S) == {{}} \cup {{v} : v \in S}   \* a field that may be nil
Locks == {"send", "opt", "bind"}
Operations == {"SendMsg", "SetDefaultSndInfo", "SetDefaultPrInfo", "DefaultInfo",
               "SetPathThresholds", "SetPathParams", "BindAdd", "BindRemove", "Connect"}

\* The thresholds, what the kernel accepts of them, and what has them: the
\* association, and a path of it.
Thresholds == {t \in [max : Limits, pf : Limits, sw : Limits] : t.pf <= t.sw}
Scopes == {"assoc", "path"}

\* Only an Endpoint may be open without a local address.
Start ==
  {s \in [owner : {"Conn", "Listener", "Endpoint"}, menu : SUBSET Operations,
          def : [snd : Snds, pr : Policies \cup {None}], thr : [Scopes -> Thresholds],
          bound : SUBSET Addrs, peer : (SUBSET Peers) \ {{}}, asconf : BOOLEAN] :
     s.bound = {} => s.owner = "Endpoint"}

\* What the constants are assumed to be.
OptionsAssumption ==
  /\ NoOne \notin Callers /\ None \notin Policies
  /\ Limits \subseteq Nat /\ Starts \subseteq Start
  /\ Changes \subseteq [max : Opt(Limits), pf : Opt(Limits), sw : Opt(Limits)]
  /\ Lists \subseteq (SUBSET Addrs) \ {{}}
  /\ ZoneOf \in [Addrs \cup Peers -> SUBSET Nat]
  /\ Holders \in [Addrs -> SUBSET Nat]

VARIABLES
  owner, menu,   \* what the socket is of, and the operations called on it
  open, up,      \* the descriptor is open, and the association is up
  mu,            \* send.mu, optMu and bindMu
  kern, def,     \* the kernel's default send parameters, and the cached ones
  set, torn,     \* history: those last set, and that a set failed halfway
  misled,        \* history: a send or a getter met others, none of them torn
  thr, given,    \* the kernel's thresholds, and history: those last given
  addrs,         \* the kernel's lists: bound, of the association, and the peer's
  snap,          \* the snapshots laddr and raddr, and pathScope; history: fresh
  busy,          \* history: the kernel refused to remove the last address
  pc, job        \* each goroutine: its next step, its arguments and results

optVars  == <<kern, def, set, torn, misled>>
thrVars  == <<thr, given>>
bindVars == <<addrs, snap, busy>>
vars == <<owner, menu, open, up, mu, optVars, thrVars, bindVars, pc, job>>

Or(field, v) == IF field = {} THEN v ELSE CHOOSE w \in field : TRUE

Nothing == [snd |-> {}, pr |-> {}, cmsg |-> [snd |-> {}, pr |-> {}],
            max |-> {}, pf |-> {}, sw |-> {}, cur |-> [max |-> 0, pf |-> 0, sw |-> 0],
            scope |-> "path", ips |-> {}, add |-> FALSE, blind |-> FALSE]

\* linkLocalPathScope: the one zone of the local addresses, else of the peer's,
\* else of the interfaces that hold the local ones; 0 for none or several.
linkLocalPathScope(local, peer) ==
  LET zones(S) == UNION {ZoneOf[a] : a \in S}
      candidates == IF zones(local) # {} THEN zones(local)
                    ELSE IF zones(peer) # {} THEN zones(peer)
                    ELSE UNION {Holders[a] : a \in local}
  IN IF \E z \in candidates : candidates = {z}
     THEN CHOOSE z \in candidates : TRUE ELSE 0

\* The list a snapshot is taken of.
Listed(l) == IF owner = "Conn" THEN l.assoc ELSE l.bound

\* readDefaults and refreshSnapshots have taken over what setup left.
Init ==
  /\ \E s \in Starts :
       /\ owner = s.owner /\ menu = s.menu
       /\ kern = s.def /\ def = s.def /\ set = s.def
       /\ thr = s.thr /\ given = s.thr
       /\ addrs = [bound |-> s.bound, assoc |-> s.bound, peer |-> s.peer, asconf |-> s.asconf]
       /\ snap = [laddr |-> s.bound, raddr |-> s.peer, fresh |-> TRUE,
                  scope |-> linkLocalPathScope(s.bound, s.peer)]
  /\ open = TRUE /\ up = TRUE /\ mu = [l \in Locks |-> NoOne]
  /\ torn = FALSE /\ misled = FALSE /\ busy = FALSE
  /\ pc = [g \in Callers |-> "idle"] /\ job = [g \in Callers |-> Nothing]

-----------------------------------------------------------------------------
(* Calls, locks and returns *)

frame == UNCHANGED <<owner, menu, open, up>>

\* The operations of the three types.
Has(op) ==
  \/ op \in {"BindAdd", "BindRemove"}
  \/ owner = "Conn" /\ op # "Connect"
  \/ owner = "Endpoint" /\ op \in {"SendMsg", "Connect"}

Call(g, op, to, j) ==
  /\ pc[g] = "idle" /\ open /\ op \in menu /\ Has(op)
  /\ pc' = [pc EXCEPT ![g] = to] /\ job' = [job EXCEPT ![g] = j]
  /\ UNCHANGED <<mu, optVars, thrVars, bindVars>> /\ frame

\* On a closed socket every operation fails at once.
Refused(g) == pc[g] = "idle" /\ ~open /\ UNCHANGED vars

Goto(g, to) == pc' = [pc EXCEPT ![g] = to]

\* The deferred unlocks.
Return(g) ==
  /\ Goto(g, "idle")
  /\ mu' = [l \in Locks |-> IF mu[l] = g THEN NoOne ELSE mu[l]]
  /\ job' = [job EXCEPT ![g] = Nothing]

Lock(g, from, l, to) ==
  /\ pc[g] = from /\ mu[l] = NoOne
  /\ mu' = [mu EXCEPT ![l] = g] /\ Goto(g, to)
  /\ UNCHANGED <<job, optVars, thrVars, bindVars>> /\ frame

\* socket.control finds the descriptor released.
ErrClosed(g) ==
  /\ pc[g] \in {"sendmsg", "sndRead", "prWrite", "get", "thrRead", "thrWrite",
                "parWrite", "check", "bindx", "connectx"}
  /\ ~open
  /\ Return(g) /\ UNCHANGED <<optVars, thrVars, bindVars>> /\ frame

-----------------------------------------------------------------------------
(* The default send parameters *)

SendMsg(g) ==
  \E info \in Opt(Snds), pr \in Opt(Policies \cup {None}) :
    Call(g, "SendMsg", "send", [Nothing EXCEPT !.snd = info, !.pr = pr])

\* Mutation: a send that gives one of the two leaves the other to the kernel.
encode_Given(opts, d) == [snd |-> opts.snd, pr |-> opts.pr]

\* encode: with one of the two given, the other goes along from the cache, as
\* both do on an Endpoint, whose sends name their association.
encode(opts, d) ==
  IF owner = "Conn" /\ opts.snd = {} /\ opts.pr = {} THEN [snd |-> {}, pr |-> {}]
  ELSE [snd |-> {Or(opts.snd, d.snd)},
        pr |-> IF opts.pr = {} /\ d.pr = None THEN {} ELSE {Or(opts.pr, d.pr)}]

Encode(g) ==
  /\ pc[g] = "encode" /\ Goto(g, "sendmsg")
  /\ job' = [job EXCEPT ![g].cmsg = encode(job[g], def)]
  /\ UNCHANGED <<mu, optVars, thrVars, bindVars>> /\ frame

\* The kernel's own defaults apply to a message without SNDINFO, and its
\* default policy only to one without either.
KernelUses(cmsg, k) ==
  [snd |-> Or(cmsg.snd, k.snd),
   pr |-> Or(cmsg.pr, IF cmsg.snd = {} THEN k.pr ELSE None)]

Met(used, due) == misled' = (misled \/ (~torn /\ used # due))

Sendmsg(g) ==
  /\ pc[g] = "sendmsg" /\ open
  /\ Met(KernelUses(job[g].cmsg, kern),
         [snd |-> Or(job[g].snd, set.snd), pr |-> Or(job[g].pr, set.pr)])
  /\ Return(g) /\ UNCHANGED <<kern, def, set, torn, thrVars, bindVars>> /\ frame

SetDefaultSndInfo(g) ==
  \E v \in Snds : Call(g, "SetDefaultSndInfo", "snd", [Nothing EXCEPT !.snd = {v}])

\* setDefaultSndInfo: the policy is read, overwritten with the flags, and
\* written again unless it is PRNone.
SndRead(g) ==
  /\ pc[g] = "sndRead" /\ open
  /\ job' = [job EXCEPT ![g].pr = {kern.pr}]
  /\ Goto(g, "sndWrite")
  /\ UNCHANGED <<mu, optVars, thrVars, bindVars>> /\ frame

Restored(g) == job[g].pr = {None}

Stored(d) == def' = d /\ set' = d

SndWrite(g) ==
  /\ pc[g] = "sndWrite"
  /\ \/ /\ kern' = [snd |-> Or(job[g].snd, kern.snd), pr |-> None]
        /\ IF Restored(g) THEN Return(g) /\ Stored([def EXCEPT !.snd = kern'.snd])
           ELSE Goto(g, "sndRestore") /\ UNCHANGED <<mu, job, def, set>>
     \/ Return(g) /\ UNCHANGED <<kern, def, set>>
  /\ UNCHANGED <<torn, misled, thrVars, bindVars>> /\ frame

SndRestore(g) ==
  /\ pc[g] = "sndRestore"
  /\ \/ /\ kern' = [kern EXCEPT !.pr = Or(job[g].pr, None)]
        /\ Stored([def EXCEPT !.snd = kern.snd]) /\ UNCHANGED torn
     \/ torn' = TRUE /\ UNCHANGED <<kern, def, set>>
  /\ Return(g) /\ UNCHANGED <<misled, thrVars, bindVars>> /\ frame

SetDefaultPrInfo(g) ==
  \E p \in Policies \cup {None} :
    Call(g, "SetDefaultPrInfo", "pr", [Nothing EXCEPT !.pr = {p}])

PrWrite(g) ==
  /\ pc[g] = "prWrite" /\ open
  /\ \/ /\ kern' = [kern EXCEPT !.pr = Or(job[g].pr, None)]
        /\ Stored([def EXCEPT !.pr = kern'.pr])
     \/ UNCHANGED <<kern, def, set>>
  /\ Return(g) /\ UNCHANGED <<torn, misled, thrVars, bindVars>> /\ frame

DefaultInfo(g) == Call(g, "DefaultInfo", "getOpt", Nothing)

\* DefaultSndInfo and DefaultPrInfo.
Get(g) ==
  /\ pc[g] = "get" /\ open
  /\ Met(kern, set)
  /\ Return(g) /\ UNCHANGED <<kern, def, set, torn, thrVars, bindVars>> /\ frame

-----------------------------------------------------------------------------
(* The path thresholds *)

\* Of a path or, for the zero address, of the association and all its paths.
SetPathThresholds(g) ==
  \E t \in Changes, c \in Scopes :
    Call(g, "SetPathThresholds", "thr",
         [Nothing EXCEPT !.max = t.max, !.pf = t.pf, !.sw = t.sw, !.scope = c])

ReadThresholds(g) ==
  /\ pc[g] = "thrRead" /\ open
  /\ \/ job' = [job EXCEPT ![g].cur = thr[job[g].scope]] /\ Goto(g, "thrWrite") /\ UNCHANGED mu
     \/ Return(g)
  /\ UNCHANGED <<optVars, thrVars, bindVars>> /\ frame

mergePathThresholds(cur, t) ==
  [max |-> Or(t.max, cur.max), pf |-> Or(t.pf, cur.pf), sw |-> Or(t.sw, cur.sw)]

\* What is written for the association, the kernel applies to every path.
Written(t, scope, v) == [c \in Scopes |-> IF scope \in {"assoc", c} THEN v ELSE t[c]]

\* The kernel refuses a Potentially Failed threshold above the switchover's,
\* and may refuse the call for a reason of its own.
WriteThresholds(g) ==
  /\ pc[g] = "thrWrite" /\ open
  /\ LET c == job[g].scope  v == mergePathThresholds(job[g].cur, job[g]) IN
       \/ /\ v.pf <= v.sw
          /\ thr' = Written(thr, c, v)
          /\ given' = Written(given, c, mergePathThresholds(given[c], job[g]))
       \/ UNCHANGED thrVars
  /\ Return(g) /\ UNCHANGED <<optVars, bindVars>> /\ frame

SetPathParams(g) ==
  \E x \in Limits, c \in Scopes :
    Call(g, "SetPathParams", "par", [Nothing EXCEPT !.max = {x}, !.scope = c])

\* PathMaxRetrans alone is written, to the path or to the association and all.
MaxSet(t, scope, max) ==
  [c \in Scopes |-> IF scope \in {"assoc", c} THEN [t[c] EXCEPT !.max = Or(max, @)] ELSE t[c]]

WriteParams(g) ==
  /\ pc[g] = "parWrite" /\ open
  /\ \/ /\ thr' = MaxSet(thr, job[g].scope, job[g].max)
        /\ given' = MaxSet(given, job[g].scope, job[g].max)
     \/ UNCHANGED thrVars
  /\ Return(g) /\ UNCHANGED <<optVars, bindVars>> /\ frame

-----------------------------------------------------------------------------
(* The bound addresses *)

BindAdd(g) ==
  \E S \in Lists :
    Call(g, "BindAdd", "bind", [Nothing EXCEPT !.ips = S, !.add = TRUE])
BindRemove(g) ==
  \E S \in Lists :
    Call(g, "BindRemove", "bind", [Nothing EXCEPT !.ips = S])

\* The unspecified address, which stands for all of them, is not in Lists.
removesEveryAddress(bound, remove) == bound # {} /\ bound \subseteq remove

\* A removal of every address is refused.  A list that is empty, or cannot be
\* read, is not compared with it.
Check(g) ==
  /\ pc[g] = "check" /\ open
  /\ \E read \in {TRUE, job[g].add} :
       IF read /\ ~job[g].add /\ removesEveryAddress(addrs.bound, job[g].ips)
       THEN Return(g)
       ELSE /\ Goto(g, "bindx") /\ UNCHANGED mu
            /\ job' = [job EXCEPT ![g].blind = ~(read /\ addrs.bound # {})]
  /\ UNCHANGED <<optVars, thrVars, bindVars>> /\ frame

\* Mutation: the lock is released before the snapshot is taken.
Bindx_Unlocked(g) ==
  /\ pc[g] = "bindx" /\ open
  /\ LET b == IF job[g].add THEN addrs.bound \cup job[g].ips ELSE addrs.bound \ job[g].ips IN
       \/ /\ b # {} /\ Goto(g, "local") /\ UNCHANGED <<job, busy>>
          /\ mu' = [mu EXCEPT !["bind"] = NoOne]
          /\ addrs' = [addrs EXCEPT !.bound = b,
                                    !.assoc = IF addrs.asconf THEN b ELSE @]
       \/ Return(g) /\ busy' = (busy \/ (b = {} /\ ~job[g].blind)) /\ UNCHANGED addrs
  /\ UNCHANGED <<optVars, thrVars, snap>> /\ frame

\* The kernel binds or releases the addresses, on the association too when
\* ASCONF was negotiated, or refuses them.
Bindx(g) ==
  /\ pc[g] = "bindx" /\ open
  /\ LET b == IF job[g].add THEN addrs.bound \cup job[g].ips ELSE addrs.bound \ job[g].ips IN
       \/ /\ b # {} /\ Goto(g, "local") /\ UNCHANGED <<mu, job, busy>>
          /\ addrs' = [addrs EXCEPT !.bound = b,
                                    !.assoc = IF addrs.asconf THEN b ELSE @]
       \/ Return(g) /\ busy' = (busy \/ (b = {} /\ ~job[g].blind)) /\ UNCHANGED addrs
  /\ UNCHANGED <<optVars, thrVars, snap>> /\ frame

Readable == open /\ (owner = "Conn" => up)

\* refreshSnapshots: the two lists and the scope; refreshAddr: the one.  A list
\* that cannot be read, for whatever reason, leaves its snapshot as it was.
RefreshLocal(g) ==
  /\ pc[g] = "local"
  /\ \/ Readable /\ snap' = [snap EXCEPT !.laddr = Listed(addrs), !.fresh = TRUE]
     \/ snap' = [snap EXCEPT !.fresh = FALSE]
  /\ IF owner = "Conn" THEN Goto(g, "peer") /\ UNCHANGED <<mu, job>> ELSE Return(g)
  /\ UNCHANGED <<optVars, thrVars, addrs, busy>> /\ frame

RefreshPeer(g) ==
  /\ pc[g] = "peer"
  /\ \/ Readable /\ snap' = [snap EXCEPT !.raddr = addrs.peer]
     \/ UNCHANGED snap
  /\ Goto(g, "scope")
  /\ UNCHANGED <<mu, job, optVars, thrVars, addrs, busy>> /\ frame

RefreshScope(g) ==
  /\ pc[g] = "scope"
  /\ snap' = [snap EXCEPT !.scope = linkLocalPathScope(snap.laddr, snap.raddr)]
  /\ Return(g) /\ UNCHANGED <<optVars, thrVars, addrs, busy>> /\ frame

\* Endpoint.Connect, which binds an endpoint that is not bound.
Connect(g) == Call(g, "Connect", "connectx", Nothing)

\* sctp_connectx: an unbound endpoint is bound to every address, which a setup
\* that fails may have got to as well.
Connectx(g) ==
  /\ pc[g] = "connectx" /\ open
  /\ LET autobound == [addrs EXCEPT !.bound = IF @ = {} THEN Addrs ELSE @] IN
       \/ /\ addrs' = autobound /\ UNCHANGED snap
          /\ Goto(g, "connected") /\ UNCHANGED <<mu, job>>
       \/ /\ addrs' \in {addrs, autobound}
          /\ snap' = [snap EXCEPT !.fresh = @ /\ addrs' = addrs]
          /\ Return(g)
  /\ UNCHANGED <<optVars, thrVars, busy>> /\ frame

\* The Addr of an endpoint that had none is read under bindMu.
Connected(g) ==
  /\ pc[g] = "connected"
  /\ IF snap.laddr = {} THEN Goto(g, "addr") /\ UNCHANGED <<mu, job>> ELSE Return(g)
  /\ UNCHANGED <<optVars, thrVars, bindVars>> /\ frame

-----------------------------------------------------------------------------
(* The rest of the program, the kernel and the peer *)

unmoved == UNCHANGED <<owner, menu, mu, optVars, thrVars, snap, busy, pc, job>>

Close == open /\ open' = FALSE /\ UNCHANGED <<up, addrs>> /\ unmoved
End   == up /\ up' = FALSE /\ UNCHANGED <<open, addrs>> /\ unmoved

\* By ASCONF, where it was negotiated.
PeerChanges ==
  /\ up /\ addrs.asconf
  /\ \E p \in (SUBSET Peers) \ {{}} : addrs' = [addrs EXCEPT !.peer = p]
  /\ UNCHANGED <<open, up>> /\ unmoved

\* Mutation: SetPathThresholds has a lock of its own.
Locked_OwnLock(g) ==
  \/ Lock(g, "send", "send", "encode")
  \/ Lock(g, "snd", "send", "sndOpt") \/ Lock(g, "sndOpt", "opt", "sndRead")
  \/ Lock(g, "pr", "send", "prOpt") \/ Lock(g, "prOpt", "opt", "prWrite")
  \/ Lock(g, "getOpt", "opt", "get") \/ Lock(g, "thr", "bind", "thrRead")
  \/ Lock(g, "par", "opt", "parWrite") \/ Lock(g, "bind", "bind", "check")
  \/ Lock(g, "addr", "bind", "local")

\* Where each operation takes which lock, and goes on from there.
Locked(g) ==
  \/ Lock(g, "send", "send", "encode")
  \/ Lock(g, "snd", "send", "sndOpt") \/ Lock(g, "sndOpt", "opt", "sndRead")
  \/ Lock(g, "pr", "send", "prOpt") \/ Lock(g, "prOpt", "opt", "prWrite")
  \/ Lock(g, "getOpt", "opt", "get") \/ Lock(g, "thr", "opt", "thrRead")
  \/ Lock(g, "par", "opt", "parWrite") \/ Lock(g, "bind", "bind", "check")
  \/ Lock(g, "addr", "bind", "local")

Step(g) ==
  \/ SendMsg(g) \/ SetDefaultSndInfo(g) \/ SetDefaultPrInfo(g) \/ DefaultInfo(g)
  \/ SetPathThresholds(g) \/ SetPathParams(g) \/ BindAdd(g) \/ BindRemove(g)
  \/ Connect(g) \/ Connectx(g) \/ Connected(g)
  \/ Locked(g) \/ ErrClosed(g) \/ Refused(g)
  \/ Encode(g) \/ Sendmsg(g) \/ SndRead(g) \/ SndWrite(g) \/ SndRestore(g)
  \/ PrWrite(g) \/ Get(g)
  \/ ReadThresholds(g) \/ WriteThresholds(g) \/ WriteParams(g)
  \/ Check(g) \/ Bindx(g) \/ RefreshLocal(g) \/ RefreshPeer(g) \/ RefreshScope(g)

Next == (\E g \in Callers : Step(g)) \/ Close \/ End \/ PeerChanges

Spec == Init /\ [][Next]_vars

-----------------------------------------------------------------------------
(* Properties *)

\* A message goes out with the options of its send and, for those it leaves
\* out, the defaults last set, whether the kernel applies them or the package
\* sends them from its cache; DefaultSndInfo and DefaultPrInfo report the same.
\* No one meets the moment in which SetDefaultSndInfo has overwritten the
\* policy.  Only a second write that fails leaves the two apart.
DefaultsInForce == ~misled

\* No threshold goes back to an older value: SetPathThresholds writes all three
\* back, of a path or of the whole association, and loses neither another's
\* change nor one of SetPathParams.
ThresholdsKept == thr = given

\* Between two bind calls, and once a Connect that bound the endpoint is over,
\* the snapshot is the kernel's list, never an older one that was stored later,
\* unless that list could not be read, or a Connect failed after the kernel had
\* bound the endpoint.  The scope of a link-local path was worked out from the
\* two lists of the snapshot.  A BindRemove that found addresses, and would
\* leave none, does not get as far as the kernel, though others run beside it.
SnapshotsCurrent ==
  /\ mu["bind"] = NoOne /\ snap.fresh
       /\ (\A g \in Callers : pc[g] \notin {"connected", "addr"}) =>
       snap.laddr = Listed(addrs)
  /\ mu["bind"] = NoOne /\ owner = "Conn" =>
       snap.scope = linkLocalPathScope(snap.laddr, snap.raddr)
  /\ ~busy
=============================================================================
