------------------------------ MODULE MCParts ------------------------------
(* Parts for TLC. *)
EXTENDS Parts, TLC

CONSTANTS g1, g2,  \* two goroutines, and two associations
          a1, a2

Goroutines == {g1, g2}
TwoAssocs == {a1, a2}

-----------------------------------------------------------------------------
(* What constructors are called with *)

Nil == [frag |-> {}, auth |-> {}, hmacs |-> {}, chunks |-> {}, asconf |-> {}, reconfig |-> {},
        mask |-> {}, intl |-> FALSE, snd |-> {}, pr |-> {}, notes |-> {},
        alone |-> [f \in Alone |-> "nil"], control |-> FALSE]
Hmacs == {<<"SHA1">>, <<"SHA256">>, <<"SHA256", "SHA1">>, <<"SHA1", "SHA1">>, <<"MD5">>}
Chunks == {<<>>, <<"DATA">>, <<"DATA", "SACK">>, <<"DATA", "DATA">>, <<"AUTH">>,
           <<"ASCONF", "DATA">>, <<"ASCONF", "DATA", "SACK">>,
           <<"DATA", "ASCONF-ACK", "ASCONF">>}
AuthConfigs ==
  {[Nil EXCEPT !.auth = a, !.hmacs = l[1], !.chunks = l[2], !.asconf = d, !.control = ctl] :
     a \in Opt(BOOLEAN), d \in Opt(BOOLEAN), ctl \in BOOLEAN,
     l \in (Opt(Hmacs) \X Opt({<<"DATA">>})) \cup (Opt({<<"SHA1">>}) \X Opt(Chunks))}
StreamConfigs ==
  {[Nil EXCEPT !.frag = f, !.intl = i, !.reconfig = r, !.mask = m, !.control = ctl] :
     f \in Opt({"None", "Assocs", "Streams"}), i \in BOOLEAN, r \in Opt(BOOLEAN),
     m \in Opt({"zero", "known", "unknown"}), ctl \in BOOLEAN}
DefaultConfigs ==
  {[Nil EXCEPT !.snd = s, !.pr = p, !.notes = n, !.control = TRUE] :
     s \in Opt({"unordered", "bad"}), p \in Opt({"rtx", "bad"}),
     n \in Opt({<<"Shutdown", "SenderDry", "Shutdown">>, <<"unknown">>})}
AloneConfigs ==
  {[Nil EXCEPT !.alone = [f \in Alone |-> IF f \in F THEN v ELSE "nil"]] :
     F \in {{f} : f \in Alone}
           \cup {Alone, Alone \ ({"ReusePort"} \cup DialOnly)},
     v \in {"good", "bad"}}
SetupCalls ==
  [style : {"Dial", "Listen"}, cfg : AuthConfigs]
  \cup [style : {"Dial", "Listen", "ListenEndpoint", "OpenEndpoint", "File"},
        cfg : StreamConfigs \cup DefaultConfigs \cup AloneConfigs \cup {Nil}]

-----------------------------------------------------------------------------
(* The sockets whose options are set, and the operations called on each *)

Local  == {"a", "b", "c"}
Remote == {"p", "q"}
SocketStarts ==
  LET s0 == [owner |-> "Conn", menu |-> {}, def |-> [snd |-> "x", pr |-> "ttl"],
             thr |-> [c \in Scopes |-> [max |-> 1, pf |-> 1, sw |-> 2]], bound |-> {"a"}, peer |-> {"p"},
             asconf |-> FALSE]
  IN {[s0 EXCEPT !.menu = {"SendMsg", "SetDefaultSndInfo", "SetDefaultPrInfo", "DefaultInfo"}],
      [s0 EXCEPT !.menu = {"SetPathThresholds", "SetPathParams"}],
      [s0 EXCEPT !.owner = "Endpoint", !.menu = {"BindAdd", "BindRemove"}],
      [s0 EXCEPT !.owner = "Endpoint", !.menu = {"SendMsg"}],
      [s0 EXCEPT !.owner = "Endpoint", !.menu = {"BindAdd", "BindRemove", "Connect"}, !.bound = {}],
      s0,
      [s0 EXCEPT !.owner = "Listener", !.menu = {"BindAdd", "BindRemove"}]}
     \cup {[s0 EXCEPT !.menu = {"BindAdd", "BindRemove"}, !.bound = b, !.asconf = b # {"c"}] :
            b \in {{"b"}, {"c"}, {"a", "c"}}}
Zones ==
  [a \in Local \cup Remote |->
     IF a \in {"a", "p"} THEN {1} ELSE IF a = "b" THEN {2} ELSE {}]
HeldBy == [a \in Local |-> IF a = "c" THEN {2} ELSE {}]

-----------------------------------------------------------------------------
OneOrAll ==
  LET nil == [max |-> {}, pf |-> {}, sw |-> {}]
  IN {[nil EXCEPT !.max = {2}], [nil EXCEPT !.pf = {2}], [nil EXCEPT !.sw = {1}],
      [max |-> {2}, pf |-> {2}, sw |-> {2}]}
BindLists == {{"b"}, {"a", "c"}}
ZoneNames == {"eth", "7"}
Decimals  == [n \in {"7"} |-> 7]
ClassSizes == <<2, 3>>
Lengths   == 1..6

Symmetry == Permutations(Goroutines)
=============================================================================
