----------------------------- MODULE AcceptProofs ----------------------------
(* Proofs, for any number of Accepts and of associations, that a descriptor has *)
(* one owner, that an association's end loses no Conn, and that a Conn of a     *)
(* live association is whole.                                                   *)
EXTENDS Accept, TLAPS

Before == {"idle", "lock", "accept4", "wait", "dup"}
Making == {"check", "wrap", "apply", "events", "status", "interleaving", "laddr", "raddr"}
Ends   == {"none", "up", "ended", "shutdown", "reset"}
Knows  == [id : BOOLEAN, addrs : BOOLEAN, given : BOOLEAN]

\* Types.
Types ==
  /\ lpc \in {"none", "setup", "open", "closed"} /\ lfd \in BOOLEAN
  /\ backlog \in Seq(Assocs) /\ excused \subseteq All
  /\ assoc \in [All -> Ends] /\ events \in [All -> BOOLEAN]
  /\ fds \in [All -> {0, 1}] /\ cut \in [All -> BOOLEAN] /\ orig \in BOOLEAN
  /\ asked \in BOOLEAN /\ pc \in [Makers -> Before \cup Making]
  /\ cur \in [Makers -> All \cup {Nothing}] /\ ended \in [Makers -> BOOLEAN]
  /\ conn \in [All -> Knows]

Held(a) == \E m \in Makers : cur[m] = a

\* The queue holds associations that nobody has, once each.
QueueInv ==
  /\ \A i, j \in 1..Len(backlog) : backlog[i] = backlog[j] => i = j
  /\ \A a \in Range(backlog) : assoc[a] # "none" /\ ~Held(a) /\ ~conn[a].given

\* What a maker has by where it is.
MakerInv ==
  \A m \in Makers : /\ pc[m] \in Before <=> cur[m] = Nothing
                    /\ pc[m] \in {"check", "apply"} => cur[m] = Handed
                    /\ cur[m] # Nothing => assoc[cur[m]] # "none" /\ ~conn[cur[m]].given

\* No two makers have the same association.
SoleInv == \A m, n \in Makers : cur[m] = cur[n] /\ cur[m] # Nothing => m = n

\* Handed is an association that FileConn may be called with once.
HandedInv ==
  /\ assoc[Handed] # "none"
  /\ \A m \in Makers : pc[m] = "dup" => asked /\ ~Held(Handed) /\ ~conn[Handed].given
  /\ \A m, n \in Makers : pc[m] = "dup" /\ pc[n] = "dup" => m = n
  /\ Held(Handed) \/ conn[Handed].given => asked

\* A Conn is of an association that was made.
GivenInv == \A a \in All : conn[a].given => assoc[a] # "none"

\* Where an association is: not yet made, queued once, with one maker, with its
\* Conn, or lost.
PlaceInv == QueueInv /\ MakerInv /\ SoleInv /\ HandedInv /\ GivenInv

\* The descriptors, and the socket FileConn was given.
FdInv ==
  /\ \A a \in All : fds[a] = IF Held(a) \/ conn[a].given THEN 1 ELSE 0
  /\ lfd => lpc # "none"
  /\ ~cut[Handed] /\ (orig => assoc[Handed] \in {"up", "ended"})

\* What newConn has found out by where it is.
FoundInv ==
  \A m \in Makers :
    /\ ended[m] => pc[m] = "interleaving" /\ assoc[cur[m]] # "up"
    /\ pc[m] \in {"status", "interleaving", "laddr", "raddr"} =>
         (assoc[cur[m]] = "up" => events[cur[m]])
    /\ pc[m] \in {"interleaving", "laddr", "raddr"} => conn[cur[m]].id \/ ended[m]

\* Addresses are read last, and only with an id.
AddrsInv ==
  \A a \in All : conn[a].addrs =>
    /\ conn[a].id
    /\ conn[a].given \/ \E m \in Makers : cur[m] = a /\ pc[m] = "raddr"

\* A Conn of an association that is up has its id and its events.
WholeInv == \A a \in All : conn[a].given => (assoc[a] = "up" => conn[a].id /\ events[a])

\* What a Conn knows while it is made, and after.
ConnInv == FoundInv /\ AddrsInv /\ WholeInv

AcceptInv == Types /\ PlaceInv /\ FdInv /\ ConnInv /\ EndLosesNothing

-----------------------------------------------------------------------------
(* The queue *)

\* The range of a queue is what its places hold.
LEMMA Elements ==
  ASSUME NEW S, NEW s \in Seq(S) PROVE Range(s) = {s[i] : i \in 1..Len(s)}
  BY DEF Range

\* What is queued is an association.
LEMMA Queued == ASSUME NEW S, NEW s \in Seq(S) PROVE Range(s) \subseteq S
  BY DEF Range

\* accept4 takes the first association off the queue, which is not there again.
LEMMA Dequeue ==
  ASSUME Types, PlaceInv, backlog # <<>>
  PROVE /\ Head(backlog) \in Assocs /\ Head(backlog) \in Range(backlog)
        /\ Tail(backlog) \in Seq(Assocs)
        /\ Range(Tail(backlog)) = Range(backlog) \ {Head(backlog)}
        /\ \A i, j \in 1..Len(Tail(backlog)) :
             Tail(backlog)[i] = Tail(backlog)[j] => i = j
  <1> DEFINE t == Tail(backlog)
  <1>1. /\ backlog \in Seq(Assocs) /\ Len(backlog) \in Nat /\ Len(backlog) > 0
        /\ Head(backlog) = backlog[1] /\ Head(backlog) \in Assocs
        /\ t \in Seq(Assocs) /\ Len(t) = Len(backlog) - 1
        /\ \A i \in 1..Len(t) : t[i] = backlog[i + 1]
    BY DEF Types
  <1> HIDE DEF t
  <1>2. /\ Range(backlog) = {backlog[i] : i \in 1..Len(backlog)}
        /\ Range(t) = {t[i] : i \in 1..Len(t)}
    <2>1. backlog \in Seq(Assocs) /\ t \in Seq(Assocs) BY <1>1
    <2>2. QED BY <2>1, Elements
  <1>3. \A i, j \in 1..Len(backlog) : backlog[i] = backlog[j] => i = j
    BY DEF PlaceInv, QueueInv
  <1>4. \A i, j \in 1..Len(t) : t[i] = t[j] => i = j
    BY <1>1, <1>3
  <1>5. Range(t) = Range(backlog) \ {Head(backlog)}
    <2>1. ASSUME NEW a \in Range(t) PROVE a \in Range(backlog) \ {Head(backlog)}
      <3>1. PICK i \in 1..Len(t) : a = t[i] BY <1>2
      <3>2. a = backlog[i + 1] /\ i + 1 \in 1..Len(backlog) /\ i + 1 # 1 /\ 1 \in 1..Len(backlog)
        BY <1>1, <3>1
      <3>3. a # backlog[1] BY <1>3, <3>2
      <3>4. QED BY <1>1, <1>2, <3>2, <3>3
    <2>2. ASSUME NEW a \in Range(backlog), a # Head(backlog) PROVE a \in Range(t)
      <3>1. PICK i \in 1..Len(backlog) : a = backlog[i] BY <1>2
      <3>2. i # 1 BY <1>1, <2>2, <3>1
      <3>3. i - 1 \in 1..Len(t) /\ (i - 1) + 1 = i BY <1>1, <3>2
      <3>4. t[i - 1] = a BY <1>1, <3>1, <3>3
      <3>5. QED BY <1>2, <3>3, <3>4
    <2>3. QED BY <2>1, <2>2
  <1>6. Head(backlog) \in Range(backlog)
    BY <1>1, <1>2
  <1>7. QED BY <1>1, <1>4, <1>5, <1>6 DEF t

\* An association that is not queued is queued once.
LEMMA Enqueue ==
  ASSUME Types, PlaceInv, NEW a \in Assocs, a \notin Range(backlog)
  PROVE /\ Append(backlog, a) \in Seq(Assocs)
        /\ Range(Append(backlog, a)) = Range(backlog) \cup {a}
        /\ \A i, j \in 1..Len(Append(backlog, a)) :
             Append(backlog, a)[i] = Append(backlog, a)[j] => i = j
  <1> DEFINE b == Append(backlog, a)
  <1>1. /\ backlog \in Seq(Assocs) /\ Len(backlog) \in Nat
        /\ b \in Seq(Assocs) /\ Len(b) = Len(backlog) + 1
        /\ \A i \in 1..Len(backlog) : b[i] = backlog[i]
        /\ b[Len(backlog) + 1] = a
    BY DEF Types
  <1> HIDE DEF b
  <1>2. /\ Range(backlog) = {backlog[i] : i \in 1..Len(backlog)}
        /\ Range(b) = {b[i] : i \in 1..Len(b)}
    <2>1. backlog \in Seq(Assocs) /\ b \in Seq(Assocs) BY <1>1
    <2>2. QED BY <2>1, Elements
  <1>3. \A i, j \in 1..Len(backlog) : backlog[i] = backlog[j] => i = j
    BY DEF PlaceInv, QueueInv
  <1>4. \A i \in 1..Len(b) : i \in 1..Len(backlog) \/ i = Len(backlog) + 1
    BY <1>1
  <1>5. \A i \in 1..Len(backlog) : backlog[i] # a
    BY <1>2
  <1>6. \A i, j \in 1..Len(b) : b[i] = b[j] => i = j
    BY <1>1, <1>3, <1>4, <1>5
  <1>7. Range(b) = Range(backlog) \cup {a}
    <2>1. \A x \in Range(b) : x \in Range(backlog) \cup {a}
      BY <1>1, <1>2, <1>4
    <2>2. a \in Range(b) /\ \A x \in Range(backlog) : x \in Range(b)
      <3>1. Len(backlog) + 1 \in 1..Len(b) /\ \A i \in 1..Len(backlog) : i \in 1..Len(b)
        BY <1>1
      <3>2. QED BY <1>1, <1>2, <3>1
    <2>3. QED BY <2>1, <2>2
  <1>8. QED BY <1>1, <1>6, <1>7 DEF b

\* Nothing is in an empty queue.
LEMMA EmptyRange == Range(<<>>) = {}
  BY DEF Range

-----------------------------------------------------------------------------
(* The steps, by what they do *)

\* A step of the Listener's own, or none, leaves the associations alone.
ListenerStep ==
  /\ lpc' \in {"none", "setup", "open", "closed"} /\ lfd' \in BOOLEAN /\ (lfd' => lpc' # "none")
  /\ UNCHANGED <<kernelVars, ownVars, makerVars, conn, excused>>

\* The Listener's own steps keep the invariant.
LEMMA ListenerKeeps == ASSUME AcceptAssumption, AcceptInv, ListenerStep PROVE AcceptInv'
  <1> USE DEF kernelVars, ownVars, makerVars, ListenerStep, AcceptInv
  <1>1. Types' BY DEF Types
  <1>2. PlaceInv' BY DEF PlaceInv, QueueInv, MakerInv, SoleInv, HandedInv, GivenInv, Held
  <1>3. FdInv' BY DEF FdInv, Held
  <1>4. ConnInv' BY DEF ConnInv, FoundInv, AddrsInv, WholeInv
  <1>5. EndLosesNothing' BY DEF EndLosesNothing
  <1>6. QED BY <1>1, <1>2, <1>3, <1>4, <1>5

\* A step of a maker that has no socket yet, and gets none.
WaitStep(m) ==
  /\ pc[m] \in Before
  /\ pc' \in [Makers -> Before \cup Making]
  /\ pc'[m] \in Before \ {"dup"} /\ \A n \in Makers \ {m} : pc'[n] = pc[n]
  /\ cur' = cur /\ ended' = ended
  /\ UNCHANGED <<asked, listenVars, kernelVars, ownVars, conn, excused>>

\* So do the steps of a call that waits, or returns with nothing.
LEMMA WaitKeeps ==
  ASSUME AcceptAssumption, AcceptInv, NEW m \in Makers, WaitStep(m) PROVE AcceptInv'
  <1> USE DEF kernelVars, listenVars, ownVars, WaitStep, AcceptInv
  <1>1. Types' BY DEF Types
  <1>2. PlaceInv'
    BY DEF PlaceInv, QueueInv, MakerInv, SoleInv, HandedInv, GivenInv, Held, Before
  <1>3. FdInv' BY DEF FdInv, Held
  <1>4. ConnInv'
    <2>1. pc'[m] \notin Making /\ pc[m] \notin Making BY DEF Before, Making
    <2>2. FoundInv' BY <2>1 DEF ConnInv, FoundInv, Making
    <2>3. AddrsInv' BY <2>1 DEF ConnInv, AddrsInv, Making
    <2>4. WholeInv' BY DEF ConnInv, WholeInv
    <2>5. QED BY <2>2, <2>3, <2>4 DEF ConnInv
  <1>5. EndLosesNothing' BY DEF EndLosesNothing
  <1>6. QED BY <1>1, <1>2, <1>3, <1>4, <1>5

\* A maker that returns with no Conn has closed its descriptor.
ReleaseStep(m) ==
  /\ pc[m] \in Making
  /\ pc' = [pc EXCEPT ![m] = "idle"] /\ cur' = [cur EXCEPT ![m] = Nothing]
  /\ ended' = [ended EXCEPT ![m] = FALSE]
  /\ fds' = [fds EXCEPT ![cur[m]] = @ - 1]
  /\ assoc' \in [All -> Ends]
  /\ \A a \in All : assoc'[a] = assoc[a] \/ (a = cur[m] /\ assoc'[a] \in {"reset", "shutdown"})
  /\ (orig \/ cur[m] # Handed) => assoc'[Handed] = assoc[Handed]
  /\ cut' \in [All -> BOOLEAN] /\ cut'[Handed] = cut[Handed]
  /\ conn' \in [All -> Knows]
  /\ \A a \in All : conn'[a] = conn[a] \/ (a = cur[m] /\ conn'[a] = Unknown)
  /\ conn'[cur[m]].addrs = FALSE
  /\ excused \subseteq excused' /\ excused' \subseteq All
  /\ cur[m] \in excused' \cup {Handed}
  /\ UNCHANGED <<asked, listenVars, backlog, unnamed, events, orig>>

\* A release closes the one descriptor the maker has, and takes nobody else's
\* association, or what a Conn knows, with it.
LEMMA ReleaseKeeps ==
  ASSUME AcceptAssumption, AcceptInv, NEW m \in Makers, ReleaseStep(m) PROVE AcceptInv'
  <1> USE DEF listenVars, AcceptInv
  <1>a. cur[m] \in All /\ cur[m] # Nothing /\ Nothing \notin All
    BY DEF ReleaseStep, Types, PlaceInv, MakerInv, AcceptAssumption, All, Before, Making
  <1>b. /\ cur' \in [Makers -> All \cup {Nothing}] /\ cur'[m] = Nothing
        /\ \A n \in Makers \ {m} : cur'[n] = cur[n] /\ cur[n] # cur[m]
        /\ pc' \in [Makers -> Before \cup Making] /\ pc'[m] = "idle"
        /\ \A n \in Makers \ {m} : pc'[n] = pc[n]
        /\ ended' \in [Makers -> BOOLEAN] /\ ended'[m] = FALSE
        /\ \A n \in Makers \ {m} : ended'[n] = ended[n]
    BY <1>a DEF ReleaseStep, Types, PlaceInv, SoleInv, Before
  <1>c. \A a \in All : /\ a # cur[m] => (Held(a)' <=> Held(a))
                       /\ a = cur[m] => Held(a) /\ ~Held(a)'
    BY <1>a, <1>b DEF Held, Types
  <1>d. /\ \A a \in All : (conn'[a].given <=> conn[a].given) /\ (assoc'[a] = "none" <=> assoc[a] = "none")
        /\ ~conn[cur[m]].given
    BY <1>a DEF ReleaseStep, Unknown, PlaceInv, MakerInv
  <1>1. Types'
    <2>1. fds[cur[m]] = 1 BY <1>a, <1>c DEF FdInv
    <2>2. fds' \in [All -> {0, 1}] BY <1>a, <2>1 DEF ReleaseStep, Types
    <2>3. QED BY <1>b, <2>2 DEF ReleaseStep, Types
  <1>2. PlaceInv'
    <2>1. QueueInv'
      <3>1. Range(backlog) \subseteq All BY Queued DEF Types, All
      <3>2. backlog' = backlog BY DEF ReleaseStep
      <3>3. QED BY <1>c, <1>d, <3>1, <3>2 DEF PlaceInv, QueueInv
    <2>2. MakerInv' BY <1>a, <1>b, <1>d DEF PlaceInv, MakerInv, Before, Types
    <2>3. SoleInv' BY <1>b DEF PlaceInv, SoleInv
    <2>4. HandedInv'
      <3>1. Handed \in All /\ asked' = asked BY DEF All, ReleaseStep
      <3>2. QED BY <1>a, <1>b, <1>c, <1>d, <3>1 DEF PlaceInv, HandedInv
    <2>5. GivenInv' BY <1>d DEF PlaceInv, GivenInv
    <2>6. QED BY <2>1, <2>2, <2>3, <2>4, <2>5 DEF PlaceInv
  <1>3. FdInv'
    <2>1. Handed \in All BY DEF All
    <2>2. \A a \in All : fds'[a] = IF Held(a)' \/ conn'[a].given THEN 1 ELSE 0
      BY <1>a, <1>c, <1>d DEF ReleaseStep, FdInv, Types
    <2>3. QED BY <2>1, <2>2 DEF ReleaseStep, FdInv
  <1>4. ConnInv'
    <2>a. events' = events BY DEF ReleaseStep
    <2>1. FoundInv'
      <3>1. ASSUME NEW n \in Makers, n # m, cur[n] # Nothing
            PROVE cur[n] \in All /\ assoc'[cur[n]] = assoc[cur[n]] /\ conn'[cur[n]] = conn[cur[n]]
        BY <1>a, <1>b, <3>1 DEF ReleaseStep, Types
      <3>2. ASSUME NEW n \in Makers, n # m, cur[n] = Nothing PROVE pc[n] \in Before /\ ~ended[n]
        BY <3>2 DEF PlaceInv, MakerInv, ConnInv, FoundInv, Before
      <3>3. QED BY <1>b, <2>a, <3>1, <3>2 DEF ConnInv, FoundInv, Before
    <2>2. AddrsInv'
      <3> SUFFICES ASSUME NEW a \in All, conn'[a].addrs
            PROVE conn'[a].id /\ (conn'[a].given \/ \E n \in Makers : cur'[n] = a /\ pc'[n] = "raddr")
        BY DEF AddrsInv
      <3>1. a # cur[m] /\ conn'[a] = conn[a] BY DEF ReleaseStep
      <3>2. QED BY <1>b, <3>1 DEF ConnInv, AddrsInv
    <2>3. WholeInv'
      <3>1. \A a \in All : conn'[a].given =>
              conn'[a] = conn[a] /\ (assoc'[a] = "up" => assoc[a] = "up")
        BY <1>d DEF ReleaseStep
      <3>2. QED BY <2>a, <3>1 DEF ConnInv, WholeInv
    <2>4. QED BY <2>1, <2>2, <2>3 DEF ConnInv
  <1>5. EndLosesNothing'
    <2>1. ASSUME NEW a \in Assocs, assoc'[a] # "none"
          PROVE a \in Range(backlog') \cup Range(cur') \cup excused' \/ conn'[a].given
      <3>1. a \in All /\ a # Handed BY DEF All, AcceptAssumption
      <3>2. CASE a = cur[m] BY <3>1, <3>2 DEF ReleaseStep
      <3>3. CASE a # cur[m]
        <4>1. a \in Range(cur) => a \in Range(cur') BY <1>b, <3>3 DEF Range, Types
        <4>2. QED BY <1>d, <2>1, <3>1, <4>1 DEF ReleaseStep, EndLosesNothing
      <3>4. QED BY <3>2, <3>3
    <2>2. QED BY <2>1 DEF EndLosesNothing
  <1>6. QED BY <1>1, <1>2, <1>3, <1>4, <1>5

\* A maker goes on with its socket.
MakeStep(m) ==
  /\ pc[m] \in Making /\ cur' = cur
  /\ pc' \in [Makers -> Before \cup Making] /\ pc'[m] \in Making
  /\ pc'[m] \in {"check", "apply"} => cur[m] = Handed
  /\ \A n \in Makers \ {m} : pc'[n] = pc[n]
  /\ ended' \in [Makers -> BOOLEAN] /\ \A n \in Makers \ {m} : ended'[n] = ended[n]
  /\ events' \in [All -> BOOLEAN] /\ \A a \in All \ {cur[m]} : events'[a] = events[a]
  /\ conn' \in [All -> Knows] /\ \A a \in All \ {cur[m]} : conn'[a] = conn[a]
  /\ conn'[cur[m]].given <=> conn[cur[m]].given
  /\ ended'[m] => pc'[m] = "interleaving" /\ assoc[cur[m]] # "up"
  /\ pc'[m] \in {"status", "interleaving", "laddr", "raddr"} =>
       (assoc[cur[m]] = "up" => events'[cur[m]])
  /\ pc'[m] \in {"interleaving", "laddr", "raddr"} => conn'[cur[m]].id \/ ended'[m]
  /\ conn'[cur[m]].addrs => conn'[cur[m]].id /\ pc'[m] = "raddr"
  /\ UNCHANGED <<asked, listenVars, backlog, unnamed, assoc, ownVars, excused>>

\* A step of newConn brings nothing but its own Conn nearer to being whole.
LEMMA MakeKeeps ==
  ASSUME AcceptAssumption, AcceptInv, NEW m \in Makers, MakeStep(m) PROVE AcceptInv'
  <1> USE DEF listenVars, ownVars, AcceptInv
  <1>a. cur[m] \in All /\ cur[m] # Nothing /\ Nothing \notin All /\ ~conn[cur[m]].given /\ Handed \in All
    BY DEF MakeStep, Types, PlaceInv, MakerInv, AcceptAssumption, All, Before, Making
  <1>b. \A a \in All : (conn'[a].given <=> conn[a].given) /\ (Held(a)' <=> Held(a))
    BY DEF MakeStep, Held
  <1>1. Types' BY DEF MakeStep, Types
  <1>c. /\ pc[m] \in Making /\ pc'[m] \in Making /\ \A n \in Makers \ {m} : pc'[n] = pc[n]
        /\ pc'[m] \in {"check", "apply"} => cur[m] = Handed
        /\ UNCHANGED <<asked, backlog, assoc, cur>>
    BY DEF MakeStep
  <1>2. PlaceInv'
    <2>1. QueueInv'
      <3>1. Range(backlog) \subseteq All BY Queued DEF Types, All
      <3>2. QED BY <1>b, <1>c, <3>1 DEF PlaceInv, QueueInv
    <2>2. MakerInv' BY <1>a, <1>b, <1>c DEF PlaceInv, MakerInv, Before, Making, Types
    <2>3. SoleInv' BY <1>c DEF PlaceInv, SoleInv
    <2>4. HandedInv'
      <3>1. pc'[m] # "dup" /\ pc[m] # "dup" BY <1>c DEF Making
      <3>2. QED BY <1>a, <1>b, <1>c, <3>1, Zenon DEF PlaceInv, HandedInv
    <2>5. GivenInv' BY <1>b, <1>c, Zenon DEF PlaceInv, GivenInv
    <2>6. QED BY <2>1, <2>2, <2>3, <2>4, <2>5 DEF PlaceInv
  <1>3. FdInv' BY <1>b, Zenon DEF MakeStep, FdInv
  <1>4. ConnInv'
    <2>a. /\ \A n \in Makers \ {m} : ended'[n] = ended[n]
          /\ \A a \in All \ {cur[m]} : events'[a] = events[a] /\ conn'[a] = conn[a]
          /\ conn'[cur[m]].addrs => conn'[cur[m]].id /\ pc'[m] = "raddr"
      BY DEF MakeStep
    <2>1. FoundInv'
      <3> SUFFICES ASSUME NEW n \in Makers
            PROVE /\ ended'[n] => pc'[n] = "interleaving" /\ assoc'[cur'[n]] # "up"
                  /\ pc'[n] \in {"status", "interleaving", "laddr", "raddr"} =>
                        (assoc'[cur'[n]] = "up" => events'[cur'[n]])
                  /\ pc'[n] \in {"interleaving", "laddr", "raddr"} => conn'[cur'[n]].id \/ ended'[n]
        BY DEF FoundInv
      <3>1. CASE n = m BY <3>1 DEF MakeStep
      <3>2. CASE n # m
        <4>1. pc[n] \in {"status", "interleaving", "laddr", "raddr"} => cur[n] \in All \ {cur[m]}
          BY <1>a, <3>2 DEF PlaceInv, MakerInv, SoleInv, Types, Before
        <4>2. QED BY <1>c, <2>a, <3>2, <4>1 DEF ConnInv, FoundInv
      <3>3. QED BY <3>1, <3>2
    <2>2. AddrsInv'
      <3> SUFFICES ASSUME NEW a \in All, conn'[a].addrs
            PROVE conn'[a].id /\ (conn'[a].given \/ \E n \in Makers : cur'[n] = a /\ pc'[n] = "raddr")
        BY DEF AddrsInv
      <3>1. CASE a = cur[m] BY <1>c, <2>a, <3>1, Zenon
      <3>2. CASE a # cur[m]
        <4>1. conn[a].addrs /\ conn'[a] = conn[a] BY <2>a, <3>2
        <4>2. QED BY <1>c, <3>2, <4>1 DEF ConnInv, AddrsInv
      <3>3. QED BY <3>1, <3>2
    <2>3. WholeInv'
      <3> SUFFICES ASSUME NEW a \in All, conn'[a].given, assoc'[a] = "up"
                   PROVE conn'[a].id /\ events'[a]
        BY DEF WholeInv
      <3>1. a # cur[m] BY <1>a, <1>b
      <3>2. QED BY <1>c, <2>a, <3>1 DEF ConnInv, WholeInv
    <2>4. QED BY <2>1, <2>2, <2>3 DEF ConnInv
  <1>5. EndLosesNothing' BY <1>b, Zenon DEF MakeStep, EndLosesNothing, All
  <1>6. QED BY <1>1, <1>2, <1>3, <1>4, <1>5

\* A maker returns the Conn.
GiveStep(m) ==
  /\ pc[m] = "raddr" \/ (pc[m] = "interleaving" /\ ended[m])
  /\ pc' = [pc EXCEPT ![m] = "idle"] /\ cur' = [cur EXCEPT ![m] = Nothing]
  /\ ended' = [ended EXCEPT ![m] = FALSE]
  /\ conn' \in [All -> Knows] /\ \A a \in All \ {cur[m]} : conn'[a] = conn[a]
  /\ conn'[cur[m]].given /\ (conn'[cur[m]].id <=> conn[cur[m]].id)
  /\ conn'[cur[m]].addrs => conn[cur[m]].addrs \/ pc[m] = "raddr"
  /\ UNCHANGED <<asked, listenVars, kernelVars, ownVars, excused>>

\* A Conn that is returned is whole, and takes the descriptor over from its maker.
LEMMA GiveKeeps ==
  ASSUME AcceptAssumption, AcceptInv, NEW m \in Makers, GiveStep(m) PROVE AcceptInv'
  <1> USE DEF listenVars, kernelVars, ownVars, AcceptInv
  <1>a. /\ cur[m] \in All /\ cur[m] # Nothing /\ Nothing \notin All /\ ~conn[cur[m]].given
        /\ Handed \in All /\ assoc[cur[m]] # "none"
    BY DEF GiveStep, Types, PlaceInv, MakerInv, AcceptAssumption, All, Before, Making
  <1>b. /\ cur' \in [Makers -> All \cup {Nothing}] /\ cur'[m] = Nothing
        /\ \A n \in Makers \ {m} : cur'[n] = cur[n] /\ cur[n] # cur[m]
        /\ pc' \in [Makers -> Before \cup Making] /\ pc'[m] = "idle"
        /\ \A n \in Makers \ {m} : pc'[n] = pc[n]
        /\ ended' \in [Makers -> BOOLEAN] /\ ended'[m] = FALSE
        /\ \A n \in Makers \ {m} : ended'[n] = ended[n]
    BY <1>a DEF GiveStep, Types, PlaceInv, SoleInv, Before
  <1>c. \A a \in All : /\ a # cur[m] => (Held(a)' <=> Held(a))
                       /\ a = cur[m] => Held(a) /\ ~Held(a)'
    BY <1>a, <1>b DEF Held, Types
  <1>1. Types' BY <1>b DEF GiveStep, Types
  <1>d. /\ pc[m] = "raddr" \/ (pc[m] = "interleaving" /\ ended[m])
        /\ \A a \in All \ {cur[m]} : conn'[a] = conn[a]
        /\ conn'[cur[m]].given /\ (conn'[cur[m]].id <=> conn[cur[m]].id)
        /\ UNCHANGED <<asked, backlog, assoc, events>>
    BY DEF GiveStep
  <1>2. PlaceInv'
    <2>1. QueueInv'
      <3>1. Range(backlog) \subseteq All BY Queued DEF Types, All
      <3>2. cur[m] \notin Range(backlog) BY <1>a, <1>c DEF PlaceInv, QueueInv
      <3>3. QED BY <1>c, <1>d, <3>1, <3>2 DEF PlaceInv, QueueInv
    <2>2. MakerInv' BY <1>a, <1>b, <1>d DEF PlaceInv, MakerInv, Before, Types
    <2>3. SoleInv' BY <1>b DEF PlaceInv, SoleInv
    <2>4. HandedInv'
      <3>1. CASE cur[m] = Handed
        <4>1. asked /\ \A n \in Makers : pc[n] # "dup" BY <1>a, <1>c, <3>1 DEF PlaceInv, HandedInv
        <4>2. QED BY <1>b, <1>d, <4>1 DEF PlaceInv, HandedInv
      <3>2. CASE cur[m] # Handed
        <4>1. (Held(Handed)' <=> Held(Handed)) /\ conn'[Handed] = conn[Handed]
          BY <1>a, <1>c, <1>d, <3>2
        <4>2. \A n \in Makers : pc'[n] = "dup" => pc[n] = "dup" BY <1>b
        <4>3. asked' = asked /\ assoc' = assoc BY <1>d
        <4>4. QED BY <4>1, <4>2, <4>3 DEF PlaceInv, HandedInv
      <3>3. QED BY <3>1, <3>2
    <2>5. GivenInv' BY <1>a, <1>d DEF PlaceInv, GivenInv
    <2>6. QED BY <2>1, <2>2, <2>3, <2>4, <2>5 DEF PlaceInv
  <1>3. FdInv' BY <1>a, <1>c DEF GiveStep, FdInv
  <1>4. ConnInv'
    <2>1. FoundInv'
      <3> SUFFICES ASSUME NEW n \in Makers
            PROVE /\ ended'[n] => pc'[n] = "interleaving" /\ assoc'[cur'[n]] # "up"
                  /\ pc'[n] \in {"status", "interleaving", "laddr", "raddr"} =>
                        (assoc'[cur'[n]] = "up" => events'[cur'[n]])
                  /\ pc'[n] \in {"interleaving", "laddr", "raddr"} => conn'[cur'[n]].id \/ ended'[n]
        BY DEF FoundInv
      <3>1. CASE n = m BY <1>b, <3>1
      <3>2. CASE n # m
        <4>1. pc[n] \in {"status", "interleaving", "laddr", "raddr"} => cur[n] \in All \ {cur[m]}
          BY <1>a, <3>2 DEF PlaceInv, MakerInv, SoleInv, Types, Before
        <4>2. QED BY <1>b, <1>d, <3>2, <4>1 DEF ConnInv, FoundInv
      <3>3. QED BY <3>1, <3>2
    <2>2. conn[cur[m]].id \/ assoc[cur[m]] # "up" BY <1>d DEF ConnInv, FoundInv
    <2>3. assoc[cur[m]] = "up" => events[cur[m]] BY <1>d DEF ConnInv, FoundInv
    <2>4. AddrsInv'
      <3> SUFFICES ASSUME NEW a \in All, conn'[a].addrs
            PROVE conn'[a].id /\ (conn'[a].given \/ \E n \in Makers : cur'[n] = a /\ pc'[n] = "raddr")
        BY DEF AddrsInv
      <3>1. CASE a = cur[m]
        <4>1. conn[a].addrs \/ pc[m] = "raddr" BY <3>1 DEF GiveStep
        <4>2. conn[a].addrs => conn[a].id BY <1>a DEF ConnInv, AddrsInv
        <4>3. pc[m] = "raddr" => conn[a].id BY <3>1 DEF ConnInv, FoundInv
        <4>4. QED BY <1>d, <3>1, <4>1, <4>2, <4>3
      <3>2. CASE a # cur[m]
        <4>1. conn[a].addrs /\ conn'[a] = conn[a] BY <1>d, <3>2, Zenon
        <4>2. QED BY <1>b, <3>2, <4>1 DEF ConnInv, AddrsInv
      <3>3. QED BY <3>1, <3>2
    <2>5. WholeInv' BY <1>d, <2>2, <2>3 DEF ConnInv, WholeInv
    <2>6. QED BY <2>1, <2>4, <2>5 DEF ConnInv
  <1>5. EndLosesNothing'
    <2>1. ASSUME NEW a \in Assocs, assoc'[a] # "none"
          PROVE a \in Range(backlog') \cup Range(cur') \cup excused' \/ conn'[a].given
      <3>1. a \in All BY DEF All
      <3>2. CASE a = cur[m] BY <3>1, <3>2 DEF GiveStep
      <3>3. CASE a # cur[m]
        <4>1. a \in Range(cur) => a \in Range(cur') BY <1>b, <3>3 DEF Range, Types
        <4>2. QED BY <2>1, <3>1, <3>3, <4>1 DEF GiveStep, EndLosesNothing
      <3>4. QED BY <3>2, <3>3
    <2>2. QED BY <2>1 DEF EndLosesNothing
  <1>6. QED BY <1>1, <1>2, <1>3, <1>4, <1>5

\* Associations end, and some that are queued may be taken off the queue and
\* lost; none but the peer ends Handed while its owner has it open.
LoseStep ==
  /\ backlog' \in Seq(Assocs)
  /\ \A i, j \in 1..Len(backlog') : backlog'[i] = backlog'[j] => i = j
  /\ Range(backlog') \subseteq Range(backlog) /\ Range(backlog) \subseteq Range(backlog') \cup excused'
  /\ excused \subseteq excused' /\ excused' \subseteq All
  /\ assoc' \in [All -> Ends]
  /\ \A a \in All : assoc'[a] = assoc[a] \/ (assoc[a] = "up" /\ assoc'[a] \notin {"up", "none"})
  /\ orig' \in BOOLEAN /\ (orig' => orig /\ assoc'[Handed] \in {assoc[Handed], "ended"})
  /\ lfd' \in BOOLEAN /\ (lfd' => lfd) /\ lpc' = lpc
  /\ UNCHANGED <<events, fds, cut, makerVars, conn>>

\* An end, wherever the association is, takes no descriptor and no Conn with it.
LEMMA LoseKeeps == ASSUME AcceptAssumption, AcceptInv, LoseStep PROVE AcceptInv'
  <1> USE DEF makerVars, AcceptInv
  <1>a. Handed \in All /\ Range(backlog) \subseteq All
    BY Queued DEF Types, All
  <1>b. \A a : Held(a)' <=> Held(a) BY DEF Held, LoseStep
  <1>c. /\ \A a \in All : assoc'[a] = assoc[a] \/ (assoc[a] = "up" /\ assoc'[a] \notin {"up", "none"})
        /\ UNCHANGED <<events, fds, cut, asked, pc, cur, ended, conn>>
    BY DEF LoseStep
  <1>1. Types' BY DEF LoseStep, Types
  <1>2. PlaceInv'
    <2>1. QueueInv'
      <3>1. /\ \A i, j \in 1..Len(backlog') : backlog'[i] = backlog'[j] => i = j
            /\ Range(backlog') \subseteq Range(backlog)
        BY DEF LoseStep
      <3>2. QED BY <1>a, <1>b, <1>c, <3>1 DEF PlaceInv, QueueInv
    <2>2. MakerInv' BY <1>c DEF PlaceInv, MakerInv, Types
    <2>3. SoleInv' BY <1>c DEF PlaceInv, SoleInv
    <2>4. HandedInv' BY <1>a, <1>b, <1>c, Zenon DEF PlaceInv, HandedInv
    <2>5. GivenInv' BY <1>c DEF PlaceInv, GivenInv
    <2>6. QED BY <2>1, <2>2, <2>3, <2>4, <2>5 DEF PlaceInv
  <1>3. FdInv'
    <2>1. \A a \in All : fds'[a] = IF Held(a)' \/ conn'[a].given THEN 1 ELSE 0
      BY <1>b, <1>c DEF FdInv
    <2>2. QED BY <2>1 DEF FdInv, LoseStep
  <1>4. ConnInv'
    <2>1. \A n \in Makers : cur[n] = Nothing \/ cur[n] \in All BY DEF Types
    <2>2. \A n \in Makers : ended[n] \/ pc[n] \in {"status", "interleaving", "laddr", "raddr"} => cur[n] \in All
      BY <2>1 DEF ConnInv, FoundInv, PlaceInv, MakerInv, Before
    <2>3. FoundInv' BY <1>c, <2>2 DEF ConnInv, FoundInv
    <2>4. AddrsInv' BY <1>c DEF ConnInv, AddrsInv
    <2>5. WholeInv' BY <1>c DEF ConnInv, WholeInv
    <2>6. QED BY <2>3, <2>4, <2>5 DEF ConnInv
  <1>5. EndLosesNothing' BY DEF LoseStep, EndLosesNothing, All
  <1>6. QED BY <1>1, <1>2, <1>3, <1>4, <1>5

\* A maker gets the descriptor of an association: the first in the queue, or the
\* one FileConn is given.
TakeStep(m, a) ==
  /\ a \in All
  /\ \/ pc[m] = "accept4" /\ a \in Range(backlog)
     \/ pc[m] = "dup" /\ a = Handed
  /\ pc' = [pc EXCEPT ![m] = IF a = Handed THEN "check" ELSE "wrap"]
  /\ cur' = [cur EXCEPT ![m] = a] /\ ended' = ended
  /\ fds' = [fds EXCEPT ![a] = @ + 1]
  /\ backlog' \in Seq(Assocs)
  /\ \A i, j \in 1..Len(backlog') : backlog'[i] = backlog'[j] => i = j
  /\ Range(backlog') = Range(backlog) \ {a}
  /\ UNCHANGED <<assoc, events, orig, cut, asked, listenVars, conn, excused>>

\* Nobody else has the descriptor a maker gets.
LEMMA TakeKeeps ==
  ASSUME AcceptAssumption, AcceptInv, NEW m \in Makers, NEW a, TakeStep(m, a) PROVE AcceptInv'
  <1> USE DEF listenVars, AcceptInv
  <1>a. /\ Range(backlog) \subseteq Assocs /\ Assocs \subseteq All /\ Handed \in All \ Assocs
        /\ Nothing \notin All
    BY Queued DEF Types, All, AcceptAssumption
  <1>b. a \in All /\ a # Nothing /\ ~Held(a) /\ ~conn[a].given /\ assoc[a] # "none" /\ cur[m] = Nothing
    BY <1>a DEF TakeStep, PlaceInv, QueueInv, MakerInv, HandedInv, Before
  <1>c. /\ cur' \in [Makers -> All \cup {Nothing}] /\ cur'[m] = a
        /\ \A n \in Makers \ {m} : cur'[n] = cur[n] /\ cur[n] # a
        /\ pc' \in [Makers -> Before \cup Making] /\ pc'[m] \in {"check", "wrap"}
        /\ pc'[m] = "check" => a = Handed
        /\ \A n \in Makers \ {m} : pc'[n] = pc[n]
    BY <1>b DEF TakeStep, Types, Held, Making
  <1>d. \A b \in All : /\ b # a => (Held(b)' <=> Held(b))
                       /\ b = a => Held(b)'
    BY <1>a, <1>b, <1>c, Zenon DEF Held
  <1>1. Types'
    <2>1. fds[a] = 0 BY <1>b DEF FdInv
    <2>2. fds' \in [All -> {0, 1}] BY <1>b, <2>1 DEF TakeStep, Types
    <2>3. QED BY <1>c, <2>2, Zenon DEF TakeStep, Types
  <1>e. UNCHANGED <<assoc, events, asked, ended, conn>> BY DEF TakeStep
  <1>2. PlaceInv'
    <2>1. QueueInv'
      <3>1. /\ \A i, j \in 1..Len(backlog') : backlog'[i] = backlog'[j] => i = j
            /\ Range(backlog') = Range(backlog) \ {a}
        BY DEF TakeStep
      <3>2. \A b \in Range(backlog') : b \in Range(backlog) /\ (Held(b)' <=> Held(b))
        BY <1>a, <1>d, <3>1
      <3>3. QED BY <1>e, <3>1, <3>2 DEF PlaceInv, QueueInv
    <2>2. MakerInv'
      <3> SUFFICES ASSUME NEW n \in Makers
            PROVE /\ pc'[n] \in Before <=> cur'[n] = Nothing
                  /\ pc'[n] \in {"check", "apply"} => cur'[n] = Handed
                  /\ cur'[n] # Nothing => assoc'[cur'[n]] # "none" /\ ~conn'[cur'[n]].given
        BY DEF MakerInv
      <3>1. CASE n = m BY <1>b, <1>c, <1>e, <3>1 DEF Before
      <3>2. CASE n # m
        <4>1. pc'[n] = pc[n] /\ cur'[n] = cur[n] BY <1>c, <3>2
        <4>2. QED BY <1>e, <4>1 DEF PlaceInv, MakerInv
      <3>3. QED BY <3>1, <3>2
    <2>3. SoleInv' BY <1>c DEF PlaceInv, SoleInv
    <2>4. HandedInv'
      <3>1. CASE a = Handed
        <4>1. pc[m] = "dup" BY <1>a, <3>1 DEF TakeStep
        <4>2. asked /\ \A n \in Makers \ {m} : pc[n] # "dup"
          BY <4>1 DEF PlaceInv, HandedInv
        <4>3. \A n \in Makers : pc'[n] # "dup" BY <1>c, <4>2
        <4>4. QED BY <1>e, <4>2, <4>3 DEF PlaceInv, HandedInv
      <3>2. CASE a # Handed
        <4>1. Held(Handed)' <=> Held(Handed) BY <1>a, <1>d, <3>2
        <4>2. pc'[m] # "dup" BY <1>c
        <4>3. QED BY <1>c, <1>e, <4>1, <4>2 DEF PlaceInv, HandedInv
      <3>3. QED BY <3>1, <3>2
    <2>5. GivenInv' BY <1>e DEF PlaceInv, GivenInv
    <2>6. QED BY <2>1, <2>2, <2>3, <2>4, <2>5 DEF PlaceInv
  <1>3. FdInv'
    <2>1. \A b \in All : fds'[b] = IF Held(b)' \/ conn'[b].given THEN 1 ELSE 0
      BY <1>b, <1>d DEF TakeStep, FdInv, Types
    <2>2. QED BY <2>1 DEF TakeStep, FdInv
  <1>4. ConnInv'
    <2>1. ~ended[m] /\ pc[m] # "raddr" BY Zenon DEF TakeStep, ConnInv, FoundInv
    <2>2. FoundInv' BY <1>c, <1>e, <2>1, Zenon DEF ConnInv, FoundInv
    <2>3. AddrsInv' BY <1>c, <1>e, <2>1 DEF ConnInv, AddrsInv
    <2>4. WholeInv' BY <1>e DEF ConnInv, WholeInv
    <2>5. QED BY <2>2, <2>3, <2>4 DEF ConnInv
  <1>5. EndLosesNothing'
    <2>1. a \in Range(cur') /\ \A b \in Range(cur) : b = Nothing \/ b \in Range(cur')
      BY <1>b, <1>c DEF Range, Types
    <2>2. QED BY <1>a, <2>1, Zenon DEF TakeStep, EndLosesNothing
  <1>6. QED BY <1>1, <1>2, <1>3, <1>4, <1>5

\* An association that is made is queued, and nobody has it.
LEMMA ArriveKeeps ==
  ASSUME AcceptAssumption, AcceptInv, NEW a \in All, Arrive(a) PROVE AcceptInv'
  <1> USE DEF listenVars, ownVars, makerVars, AcceptInv
  <1>a. /\ a \in Assocs /\ a # Nothing /\ a # Handed /\ a \notin Range(backlog)
        /\ ~Held(a) /\ ~conn[a].given
    BY Zenon DEF Arrive, PlaceInv, QueueInv, MakerInv, HandedInv, GivenInv, All, AcceptAssumption, Held
  <1>b. /\ backlog' \in Seq(Assocs) /\ Range(backlog') = Range(backlog) \cup {a}
        /\ \A i, j \in 1..Len(backlog') : backlog'[i] = backlog'[j] => i = j
    BY <1>a, Enqueue DEF Arrive
  <1>c. /\ assoc' \in [All -> Ends] /\ assoc'[a] = "up" /\ \A b \in All \ {a} : assoc'[b] = assoc[b]
        /\ events' \in [All -> BOOLEAN] /\ \A b \in All \ {a} : events'[b] = events[b]
    <2>1. PICK on \in {~lorig, TRUE} : events' = [events EXCEPT ![a] = on] BY Zenon DEF Arrive
    <2>2. on \in BOOLEAN BY <2>1, Zenon
    <2>3. QED BY <2>1, <2>2 DEF Arrive, Types, Ends
  <1>d. UNCHANGED <<lpc, lfd, fds, orig, cut, makerVars, conn, excused>> BY DEF Arrive
  <1>e. \A b : Held(b)' <=> Held(b) BY <1>d DEF Held
  <1>f. Handed \in All /\ Nothing \notin All /\ Assocs \subseteq All /\ Range(backlog) \subseteq Assocs
        /\ \A n \in Makers : cur[n] \in All \cup {Nothing} /\ cur[n] # a
    BY <1>a, Queued DEF All, AcceptAssumption, Types, Held
  <1>1. Types' BY <1>b, <1>c, <1>d DEF Types
  <1>2. PlaceInv'
    <2>1. QueueInv'
      BY <1>a, <1>b, <1>c, <1>d, <1>e, <1>f, Zenon DEF PlaceInv, QueueInv
    <2>2. MakerInv' BY <1>c, <1>d, <1>f DEF PlaceInv, MakerInv
    <2>3. SoleInv' BY <1>d DEF PlaceInv, SoleInv
    <2>4. HandedInv' BY <1>a, <1>c, <1>d, <1>e, <1>f, Zenon DEF PlaceInv, HandedInv
    <2>5. GivenInv' BY <1>c, <1>d, Zenon DEF PlaceInv, GivenInv
    <2>6. QED BY <2>1, <2>2, <2>3, <2>4, <2>5 DEF PlaceInv
  <1>3. FdInv' BY <1>a, <1>c, <1>d, <1>e, <1>f, Zenon DEF FdInv
  <1>4. ConnInv'
    <2>1. \A n \in Makers : ended[n] \/ pc[n] \in {"status", "interleaving", "laddr", "raddr"}
            => cur[n] \in All \ {a}
      BY <1>f DEF ConnInv, FoundInv, PlaceInv, MakerInv, Before
    <2>2. FoundInv' BY <1>c, <1>d, <2>1 DEF ConnInv, FoundInv
    <2>3. AddrsInv' BY <1>d DEF ConnInv, AddrsInv
    <2>4. WholeInv' BY <1>a, <1>c, <1>d, Zenon DEF ConnInv, WholeInv
    <2>5. QED BY <2>2, <2>3, <2>4 DEF ConnInv
  <1>5. EndLosesNothing' BY <1>b, <1>c, <1>d, <1>f DEF EndLosesNothing
  <1>6. QED BY <1>1, <1>2, <1>3, <1>4, <1>5

\* FileConn is called once, so that nobody has the duplicate it will make.
LEMMA CallFileConnKeeps ==
  ASSUME AcceptAssumption, AcceptInv, NEW m \in Makers, CallFileConn(m) PROVE AcceptInv'
  <1> USE DEF listenVars, kernelVars, ownVars, AcceptInv
  <1>a. /\ pc' \in [Makers -> Before \cup Making] /\ pc[m] = "idle" /\ pc'[m] = "dup"
        /\ \A n \in Makers \ {m} : pc'[n] = pc[n]
        /\ ~asked /\ asked' = TRUE
        /\ UNCHANGED <<cur, ended, listenVars, kernelVars, ownVars, conn, excused>>
    BY DEF CallFileConn, Goto, Types, Before
  <1>b. \A b : Held(b)' <=> Held(b) BY <1>a DEF Held
  <1>1. Types' BY <1>a DEF Types
  <1>2. PlaceInv'
    <2>1. QueueInv' BY <1>a, <1>b, Zenon DEF PlaceInv, QueueInv
    <2>2. MakerInv' BY <1>a DEF PlaceInv, MakerInv, Before
    <2>3. SoleInv' BY <1>a DEF PlaceInv, SoleInv
    <2>4. HandedInv' BY <1>a, <1>b, Zenon DEF PlaceInv, HandedInv
    <2>5. GivenInv' BY <1>a DEF PlaceInv, GivenInv
    <2>6. QED BY <2>1, <2>2, <2>3, <2>4, <2>5 DEF PlaceInv
  <1>3. FdInv' BY <1>a, <1>b DEF FdInv
  <1>4. ConnInv'
    <2>1. FoundInv' BY <1>a, Zenon DEF ConnInv, FoundInv
    <2>2. AddrsInv'
      <3>1. cur' = cur /\ conn' = conn /\ \A n \in Makers : pc[n] = "raddr" => pc'[n] = "raddr"
        BY <1>a
      <3>2. QED BY <3>1 DEF ConnInv, AddrsInv
    <2>3. WholeInv' BY <1>a DEF ConnInv, WholeInv
    <2>4. QED BY <2>1, <2>2, <2>3 DEF ConnInv
  <1>5. EndLosesNothing' BY <1>a DEF EndLosesNothing
  <1>6. QED BY <1>1, <1>2, <1>3, <1>4, <1>5

-----------------------------------------------------------------------------
(* Every step is one of these *)

\* What a return of a maker leaves, when it had no socket.
LEMMA ReturnWaits ==
  ASSUME AcceptAssumption, AcceptInv, NEW m \in Makers, pc[m] \in Before, Return(m),
         UNCHANGED <<asked, listenVars, kernelVars, ownVars, conn, excused>>
  PROVE WaitStep(m)
  <1>1. ~ended[m] /\ cur[m] = Nothing
    BY Zenon DEF AcceptInv, PlaceInv, MakerInv, ConnInv, FoundInv, Before
  <1>2. cur' = cur /\ ended' = ended BY <1>1 DEF Return, AcceptInv, Types
  <1>3. /\ pc' \in [Makers -> Before \cup Making] /\ pc'[m] = "idle"
        /\ \A n \in Makers \ {m} : pc'[n] = pc[n]
    BY DEF Return, Goto, AcceptInv, Types, Before
  <1>4. QED BY <1>2, <1>3 DEF WaitStep, Before

\* What a move of a maker leaves, when it has no socket before or after.
LEMMA GotoWaits ==
  ASSUME AcceptInv, NEW m \in Makers, pc[m] \in Before, NEW step \in Before \ {"dup"}, Goto(m, step),
         UNCHANGED <<cur, ended, asked, listenVars, kernelVars, ownVars, conn, excused>>
  PROVE WaitStep(m)
  BY DEF WaitStep, Goto, AcceptInv, Types

\* The steps of accept.
LEMMA AcceptStepKeeps ==
  ASSUME AcceptAssumption, AcceptInv, NEW m \in Makers, CallAccept(m) \/ AcceptStep(m)
  PROVE AcceptInv'
  <1>1. CASE CallAccept(m)
    BY <1>1, GotoWaits, WaitKeeps DEF CallAccept, Before
  <1>2. CASE BeginRead(m)
    BY <1>2, GotoWaits, ReturnWaits, WaitKeeps DEF BeginRead, Before
  <1>3. CASE Wait(m)
    BY <1>3, GotoWaits, ReturnWaits, WaitKeeps DEF Wait, Before
  <1>4. CASE Accept4(m)
    <2>a. pc[m] \in Before BY <1>4 DEF Accept4, Before
    <2>1. CASE /\ Return(m) \/ (Goto(m, "wait") /\ UNCHANGED <<cur, ended>>)
               /\ UNCHANGED <<backlog, unnamed, assoc, fds, excused>>
      <3>1. UNCHANGED <<asked, listenVars, kernelVars, ownVars, conn, excused>>
        BY <1>4, <2>1 DEF Accept4, kernelVars, ownVars
      <3>2. QED BY <2>a, <2>1, <3>1, GotoWaits, ReturnWaits, WaitKeeps DEF Before
    <2>2. CASE /\ backlog # <<>> /\ Head(backlog) \in unnamed
               /\ backlog' = Tail(backlog)
               /\ assoc' = [assoc EXCEPT ![Head(backlog)] = IF @ = "up" THEN "shutdown" ELSE @]
               /\ excused' = excused \cup {Head(backlog)}
               /\ Refused(m) /\ UNCHANGED fds
      <3>1. /\ Head(backlog) \in Assocs /\ Tail(backlog) \in Seq(Assocs)
            /\ Range(Tail(backlog)) = Range(backlog) \ {Head(backlog)}
            /\ \A i, j \in 1..Len(Tail(backlog)) : Tail(backlog)[i] = Tail(backlog)[j] => i = j
        BY <2>2, Dequeue, Zenon DEF AcceptInv
      <3>2. Assocs \subseteq All /\ Handed \notin Assocs BY DEF All, AcceptAssumption
      <3>3. LoseStep
        <4>1. UNCHANGED <<events, orig, cut, asked, listenVars, conn, makerVars>>
          BY <1>4, <2>2 DEF Accept4, Refused, makerVars
        <4>2. /\ assoc' \in [All -> Ends] /\ assoc'[Handed] = assoc[Handed]
              /\ \A a \in All : assoc'[a] = assoc[a]
                                 \/ (assoc[a] = "up" /\ assoc'[a] \notin {"up", "none"})
          <5> DEFINE h == Head(backlog)
                     v == IF assoc[h] = "up" THEN "shutdown" ELSE assoc[h]
          <5>1. h \in All /\ h # Handed /\ Handed \in All BY <3>1, <3>2 DEF All
          <5>2. assoc \in [All -> Ends] BY DEF AcceptInv, Types
          <5>3. v \in Ends /\ (v = assoc[h] \/ (assoc[h] = "up" /\ v \notin {"up", "none"}))
            BY <5>1, <5>2 DEF Ends
          <5>4. assoc' = [assoc EXCEPT ![h] = v] BY <2>2
          <5> HIDE DEF h, v
          <5>5. QED BY <5>1, <5>2, <5>3, <5>4
        <4>3. excused \subseteq All /\ orig \in BOOLEAN /\ lfd \in BOOLEAN BY DEF AcceptInv, Types
        <4>4. /\ Range(backlog) \subseteq Range(backlog') \cup excused'
              /\ Range(backlog') \subseteq Range(backlog) /\ excused \subseteq excused'
              /\ excused' \subseteq All
          BY <2>2, <3>1, <3>2, <4>3
        <4>5. QED BY <2>2, <3>1, <4>1, <4>2, <4>3, <4>4, Zenon DEF LoseStep, listenVars
      <3>4. QED BY <3>3, LoseKeeps
    <2>3. CASE /\ backlog # <<>> /\ backlog' = Tail(backlog)
               /\ cur' = [cur EXCEPT ![m] = Head(backlog)]
               /\ fds' = [fds EXCEPT ![Head(backlog)] = @ + 1]
               /\ Goto(m, "wrap")
               /\ UNCHANGED <<ended, unnamed, assoc, excused>>
      <3>1. /\ Head(backlog) \in Assocs /\ Tail(backlog) \in Seq(Assocs)
            /\ Head(backlog) \in Range(backlog)
            /\ Range(Tail(backlog)) = Range(backlog) \ {Head(backlog)}
            /\ \A i, j \in 1..Len(Tail(backlog)) : Tail(backlog)[i] = Tail(backlog)[j] => i = j
        BY <2>3, Dequeue DEF AcceptInv
      <3>2. Assocs \subseteq All /\ Handed \notin Assocs BY DEF All, AcceptAssumption
      <3>3. TakeStep(m, Head(backlog))
        BY <1>4, <2>3, <3>1, <3>2, Zenon DEF TakeStep, Accept4, Goto
      <3>4. QED BY <3>3, TakeKeeps
    <2>4. QED BY <1>4, <2>1, <2>2, <2>3 DEF Accept4
  <1>5. QED BY <1>1, <1>2, <1>3, <1>4 DEF AcceptStep

\* close(2) of a maker's descriptor, and the return.
LEMMA CloseReleases ==
  ASSUME AcceptAssumption, AcceptInv, NEW m \in Makers, pc[m] \in Making, Return(m),
         NEW how \in {"reset", "shutdown"}, CloseFd(cur[m], how),
         cut' \in [All -> BOOLEAN], cut'[Handed] = cut[Handed],
         conn' = [conn EXCEPT ![cur[m]] = Unknown] \/ (conn' = conn /\ pc[m] = "check"),
         excused' = excused \cup {cur[m]} \/ (excused' = excused /\ cur[m] = Handed),
         UNCHANGED <<asked, listenVars, backlog, unnamed, events, orig>>
  PROVE AcceptInv'
  <1>a. cur[m] \in All /\ Handed \in All
    BY DEF AcceptInv, Types, PlaceInv, MakerInv, AcceptAssumption, All, Before, Making
  <1>b. ~conn[cur[m]].given /\ Held(cur[m]) /\ \A n \in Makers : cur[n] = cur[m] => n = m
    BY <1>a, Zenon DEF AcceptInv, PlaceInv, MakerInv, SoleInv, Held, AcceptAssumption, All
  <1>1. /\ assoc' \in [All -> Ends]
        /\ \A a \in All : assoc'[a] = assoc[a] \/ (a = cur[m] /\ assoc'[a] \in {"reset", "shutdown"})
        /\ (orig \/ cur[m] # Handed) => assoc'[Handed] = assoc[Handed]
    BY <1>a DEF CloseFd, AcceptInv, Types, Ends
  <1>2. /\ conn' \in [All -> Knows]
        /\ \A a \in All : conn'[a] = conn[a] \/ (a = cur[m] /\ conn'[a] = Unknown)
        /\ conn'[cur[m]].addrs = FALSE
    <2>1. CASE conn' = [conn EXCEPT ![cur[m]] = Unknown]
      <3>1. Unknown \in Knows BY DEF Unknown, Knows
      <3>2. QED BY <1>a, <2>1, <3>1 DEF AcceptInv, Types, Unknown
    <2>2. CASE conn' = conn /\ pc[m] = "check"
      <3>1. ~conn[cur[m]].addrs
        BY <1>a, <1>b, <2>2, Zenon DEF AcceptInv, ConnInv, AddrsInv
      <3>2. conn[cur[m]].addrs \in BOOLEAN BY <1>a DEF AcceptInv, Types, Knows
      <3>3. conn'[cur[m]].addrs = FALSE BY <2>2, <3>1, <3>2
      <3>4. QED BY <2>2, <3>3 DEF AcceptInv, Types
    <2>3. QED BY <2>1, <2>2, Zenon
  <1>3. excused \subseteq excused' /\ excused' \subseteq All /\ cur[m] \in excused' \cup {Handed}
    BY <1>a DEF AcceptInv, Types
  <1>4. fds' = [fds EXCEPT ![cur[m]] = @ - 1] BY DEF CloseFd
  <1>5. ReleaseStep(m)
    BY <1>1, <1>2, <1>3, <1>4, Zenon DEF ReleaseStep, Return, Goto
  <1>6. QED BY <1>5, ReleaseKeeps

\* A maker whose step fails closes its descriptor.
LEMMA FailsKeeps ==
  ASSUME AcceptAssumption, AcceptInv, NEW m \in Makers,
         CheckFails(m) \/ WrapFails(m) \/ ApplyFails(m) \/ InitFails(m)
  PROVE AcceptInv'
  <1>1. /\ pc[m] \in Making /\ Return(m) /\ excused' = excused \cup {cur[m]}
        /\ conn' = [conn EXCEPT ![cur[m]] = Unknown]
        /\ UNCHANGED <<asked, listenVars, backlog, unnamed, events, orig>>
        /\ PlainClose(cur[m]) \/ (cur[m] # Handed /\ Abortive(cur[m]))
    BY Zenon DEF CheckFails, WrapFails, ApplyFails, InitFails, Fails, NewConnClose, Making
  <1>2. cur[m] \in All /\ Handed \in All
    BY <1>1, Zenon DEF AcceptInv, Types, PlaceInv, MakerInv, AcceptAssumption, All, Before, Making
  <1>3. PICK how \in {"reset", "shutdown"} : CloseFd(cur[m], how)
    BY <1>1, Zenon DEF PlainClose, Abortive
  <1>4. cut' \in [All -> BOOLEAN] /\ cut'[Handed] = cut[Handed]
    <2>1. CASE PlainClose(cur[m]) BY <2>1 DEF PlainClose, AcceptInv, Types
    <2>2. CASE cur[m] # Handed /\ Abortive(cur[m])
      <3>1. PICK v : v \in BOOLEAN /\ cut' = [cut EXCEPT ![cur[m]] = v]
        <4>1. (fds[cur[m]] > 1 \/ (cur[m] = Handed /\ orig)) \in BOOLEAN BY Zenon
        <4>2. QED BY <2>2, <4>1, Zenon DEF Abortive
      <3>2. QED BY <1>2, <2>2, <3>1 DEF AcceptInv, Types
    <2>3. QED BY <1>1, <2>1, <2>2, Zenon
  <1>5. QED BY <1>1, <1>3, <1>4, CloseReleases, Zenon

\* A maker that goes on, and changes at most what its Conn knows and its events.
LEMMA ConnStepKeeps ==
  ASSUME AcceptAssumption, AcceptInv, NEW m \in Makers,
         WrapSocketFile(m) \/ ApplyConfig(m) \/ SetEvents(m) \/ Status(m) \/ Interleaving(m)
         \/ LocalAddrs(m) \/ PeerAddrs(m)
  PROVE AcceptInv'
  <1> DEFINE a == cur[m]
  <1>a. pc[m] \in Making
    BY DEF WrapSocketFile, ApplyConfig, SetEvents, Status, Interleaving, LocalAddrs, PeerAddrs, Making
  <1>b. a \in All /\ ~conn[a].given /\ conn[a] \in Knows /\ \A n \in Makers : cur[n] = a => n = m
    BY <1>a DEF AcceptInv, Types, PlaceInv, MakerInv, SoleInv, AcceptAssumption, All, Before, Making
  <1>c. /\ pc \in [Makers -> Before \cup Making] /\ ended \in [Makers -> BOOLEAN]
        /\ events \in [All -> BOOLEAN] /\ conn \in [All -> Knows]
    BY DEF AcceptInv, Types
  <1>d. conn[a].addrs => pc[m] = "raddr"
    BY <1>b, Zenon DEF AcceptInv, ConnInv, AddrsInv
  <1>e. /\ pc[m] \in {"status", "interleaving", "laddr", "raddr"} => (assoc[a] = "up" => events[a])
        /\ pc[m] \in {"interleaving", "laddr", "raddr"} => conn[a].id \/ ended[m]
        /\ ended[m] => pc[m] = "interleaving" /\ assoc[a] # "up"
    BY Zenon DEF AcceptInv, ConnInv, FoundInv
  <1>f. \A step \in Making : Goto(m, step) =>
          /\ pc' \in [Makers -> Before \cup Making] /\ pc'[m] = step
          /\ \A n \in Makers \ {m} : pc'[n] = pc[n]
    BY <1>c DEF Goto
  <1>1. CASE WrapSocketFile(m) \/ ApplyConfig(m)
    <2>1. /\ \E step \in {"apply", "events"} : Goto(m, step) /\ (step = "apply" => a = Handed)
          /\ pc[m] \in {"wrap", "apply"}
          /\ UNCHANGED <<cur, ended, asked, listenVars, kernelVars, ownVars, conn, excused>>
      BY <1>1, Zenon DEF WrapSocketFile, ApplyConfig
    <2>2. MakeStep(m)
      BY <1>a, <1>b, <1>c, <1>d, <1>e, <1>f, <2>1, Zenon DEF MakeStep, kernelVars, Making
    <2>3. QED BY <2>2, MakeKeeps
  <1>2. CASE SetEvents(m)
    <2>1. events' \in [All -> BOOLEAN] /\ (assoc[a] = "up" => events'[a])
          /\ \A b \in All \ {a} : events'[b] = events[b]
      <3>1. PICK v : v \in BOOLEAN /\ (assoc[a] = "up" => v) /\ events' = [events EXCEPT ![a] = v]
        <4>1. (events[a] \/ assoc[a] = "up") \in BOOLEAN BY Zenon
        <4>2. QED BY <1>2, <4>1, Zenon DEF SetEvents
      <3>2. QED BY <1>b, <1>c, <3>1, Zenon
    <2>2. Goto(m, "status") /\ pc[m] = "events"
          /\ UNCHANGED <<backlog, unnamed, assoc, cur, ended, asked, listenVars, ownVars, conn, excused>>
      BY <1>2, Zenon DEF SetEvents
    <2>3. MakeStep(m)
      BY <1>a, <1>b, <1>c, <1>d, <1>e, <1>f, <2>1, <2>2, Zenon DEF MakeStep, Making
    <2>4. QED BY <2>3, MakeKeeps
  <1>3. CASE Status(m)
    <2>1. /\ ended' \in [Makers -> BOOLEAN] /\ (ended'[m] <=> assoc[a] # "up")
          /\ \A n \in Makers \ {m} : ended'[n] = ended[n]
      <3>1. PICK v : v \in BOOLEAN /\ (v <=> assoc[a] # "up") /\ ended' = [ended EXCEPT ![m] = v]
        <4>1. (assoc[a] # "up") \in BOOLEAN BY Zenon
        <4>2. QED BY <1>3, <4>1, Zenon DEF Status
      <3>2. QED BY <1>c, <3>1, Zenon
    <2>2. /\ conn' \in [All -> Knows] /\ (conn'[a].id <=> assoc[a] = "up")
          /\ (conn'[a].addrs <=> conn[a].addrs) /\ (conn'[a].given <=> conn[a].given)
          /\ \A b \in All \ {a} : conn'[b] = conn[b]
      <3>1. PICK v : v \in BOOLEAN /\ (v <=> assoc[a] = "up") /\ conn' = [conn EXCEPT ![a].id = v]
        <4>1. (assoc[a] = "up") \in BOOLEAN BY Zenon
        <4>2. QED BY <1>3, <4>1, Zenon DEF Status
      <3>2. QED BY <1>b, <1>c, <3>1 DEF Knows
    <2>3. /\ Goto(m, "interleaving") /\ pc[m] = "status"
          /\ UNCHANGED <<cur, asked, listenVars, kernelVars, ownVars, excused>>
      BY <1>3 DEF Status
    <2>4. MakeStep(m)
      BY <1>a, <1>b, <1>c, <1>d, <1>e, <1>f, <2>1, <2>2, <2>3, Zenon DEF MakeStep, kernelVars, Making
    <2>5. QED BY <2>4, MakeKeeps
  <1>4. CASE Interleaving(m) /\ ~ended[m]
    <2>1. /\ Goto(m, "laddr") /\ pc[m] = "interleaving"
          /\ UNCHANGED <<cur, ended, conn, asked, listenVars, kernelVars, ownVars, excused>>
      BY <1>4, Zenon DEF Interleaving
    <2>2. MakeStep(m)
      BY <1>a, <1>b, <1>c, <1>d, <1>e, <1>f, <1>4, <2>1, Zenon DEF MakeStep, kernelVars, Making
    <2>3. QED BY <2>2, MakeKeeps
  <1>5. CASE Interleaving(m) /\ ended[m]
    <2>1. /\ conn' \in [All -> Knows] /\ (conn'[a].id <=> conn[a].id)
          /\ (conn'[a].addrs <=> conn[a].addrs) /\ conn'[a].given
          /\ \A b \in All \ {a} : conn'[b] = conn[b]
      <3>1. PICK v : v \in BOOLEAN /\ v /\ conn' = [conn EXCEPT ![a].given = v]
        <4>1. conn' = [conn EXCEPT ![a].given = TRUE] BY <1>5 DEF Interleaving, HandOver
        <4>2. QED BY <4>1, Zenon
      <3>2. QED BY <1>b, <1>c, <3>1, Zenon DEF Knows
    <2>2. GiveStep(m)
      BY <1>5, <2>1 DEF GiveStep, Interleaving, HandOver, Return, Goto
    <2>3. QED BY <2>2, GiveKeeps
  <1>6. CASE LocalAddrs(m)
    <2>1. PICK v \in ReadList(m) : conn' = [conn EXCEPT ![a].addrs = v] BY <1>6, Zenon DEF LocalAddrs
    <2>2. v \in BOOLEAN BY <2>1, Zenon DEF ReadList
    <2>3. /\ conn' \in [All -> Knows] /\ (conn'[a].id <=> conn[a].id)
          /\ (conn'[a].given <=> conn[a].given)
          /\ \A b \in All \ {a} : conn'[b] = conn[b]
      BY <1>b, <1>c, <2>1, <2>2 DEF Knows
    <2>4. /\ Goto(m, "raddr") /\ pc[m] = "laddr"
          /\ UNCHANGED <<cur, ended, asked, listenVars, kernelVars, ownVars, excused>>
      BY <1>6 DEF LocalAddrs
    <2>5. MakeStep(m)
      BY <1>a, <1>b, <1>c, <1>d, <1>e, <1>f, <2>3, <2>4, Zenon DEF MakeStep, kernelVars, Making
    <2>6. QED BY <2>5, MakeKeeps
  <1>7. CASE PeerAddrs(m)
    <2>1. PICK v \in ReadList(m) :
            conn' = [conn EXCEPT ![a].addrs = @ \/ v, ![a].given = TRUE]
      BY <1>7, Zenon DEF PeerAddrs
    <2>2. PICK w : w \in BOOLEAN /\ conn' = [conn EXCEPT ![a].addrs = w, ![a].given = TRUE]
      <3>1. (conn[a].addrs \/ v) \in BOOLEAN BY Zenon
      <3>2. QED BY <2>1, <3>1, Zenon
    <2>3. /\ conn' \in [All -> Knows] /\ (conn'[a].id <=> conn[a].id) /\ conn'[a].given
          /\ \A b \in All \ {a} : conn'[b] = conn[b]
      BY <1>b, <1>c, <2>2 DEF Knows
    <2>4. GiveStep(m)
      BY <1>7, <2>3, Zenon DEF GiveStep, PeerAddrs, Return, Goto
    <2>5. QED BY <2>4, GiveKeeps
  <1>8. QED BY <1>1, <1>2, <1>3, <1>4, <1>5, <1>6, <1>7

\* FileConn, up to newConn.
LEMMA AdoptStepKeeps ==
  ASSUME AcceptAssumption, AcceptInv, NEW m \in Makers, Dup(m) \/ CheckAdoptable(m)
  PROVE AcceptInv'
  <1>a. Handed \in All /\ Handed \notin Assocs BY DEF All, AcceptAssumption
  <1>1. CASE Dup(m)
    <2>a. pc[m] = "dup" /\ UNCHANGED <<orig, cut, asked, listenVars, kernelVars, conn, excused>>
      BY <1>1 DEF Dup
    <2>1. CASE Goto(m, "check") /\ UNCHANGED ended /\ fds' = [fds EXCEPT ![Handed] = @ + 1]
               /\ cur' = [cur EXCEPT ![m] = Handed]
      <3>1. Range(backlog) \subseteq Assocs BY Queued DEF AcceptInv, Types
      <3>2. TakeStep(m, Handed)
        BY <1>a, <2>a, <2>1, <3>1 DEF TakeStep, Goto, kernelVars, AcceptInv, Types, PlaceInv, QueueInv
      <3>3. QED BY <3>2, TakeKeeps
    <2>2. CASE Return(m) /\ UNCHANGED fds
      <3>1. UNCHANGED <<asked, listenVars, kernelVars, ownVars, conn, excused>>
        BY <2>a, <2>2 DEF ownVars
      <3>2. WaitStep(m) BY <2>a, <2>2, <3>1, ReturnWaits DEF Before
      <3>3. QED BY <3>2, WaitKeeps
    <2>3. QED BY <1>1, <2>1, <2>2 DEF Dup
  <1>2. CASE CheckAdoptable(m)
    <2>a. pc[m] = "check" /\ cur[m] = Handed
          /\ UNCHANGED <<backlog, unnamed, events, orig, asked, listenVars, conn, excused>>
      BY <1>2, Zenon DEF CheckAdoptable, AcceptInv, PlaceInv, MakerInv
    <2>1. CASE Goto(m, "wrap") /\ UNCHANGED <<cur, ended, assoc, fds, cut>>
      <3>1. ~conn[Handed].addrs
        BY <1>a, <2>a, Zenon DEF AcceptInv, PlaceInv, MakerInv, SoleInv, ConnInv, AddrsInv, AcceptAssumption
      <3>2. ~ended[m] BY <2>a, Zenon DEF AcceptInv, ConnInv, FoundInv
      <3>3. MakeStep(m)
        BY <2>a, <2>1, <3>1, <3>2, Zenon DEF MakeStep, Goto, ownVars, Making, AcceptInv, Types
      <3>4. QED BY <3>3, MakeKeeps
    <2>2. CASE PlainClose(Handed) /\ Return(m)
      <3>1. CloseFd(cur[m], "shutdown") /\ cut' = cut BY <2>a, <2>2 DEF PlainClose
      <3>2. cut' \in [All -> BOOLEAN] /\ cut'[Handed] = cut[Handed] BY <3>1 DEF AcceptInv, Types
      <3>3. pc[m] \in Making BY <2>a DEF Making
      <3>4. QED BY <2>a, <2>2, <3>1, <3>2, <3>3, CloseReleases, Zenon
    <2>3. QED BY <1>2, <2>1, <2>2 DEF CheckAdoptable
  <1>3. QED BY <1>1, <1>2

\* What happens to the associations besides.
LEMMA LossKeeps ==
  ASSUME AcceptAssumption, AcceptInv, Destroy \/ OwnerCloses \/ \E a \in All : End(a)
  PROVE AcceptInv'
  <1>a. /\ Handed \in All /\ Handed \notin Assocs /\ Assocs \subseteq All
        /\ Range(backlog) \subseteq Assocs
    BY Queued DEF All, AcceptAssumption, AcceptInv, Types
  <1>b. /\ backlog \in Seq(Assocs) /\ assoc \in [All -> Ends] /\ excused \subseteq All
        /\ orig \in BOOLEAN /\ lfd \in BOOLEAN
        /\ \A i, j \in 1..Len(backlog) : backlog[i] = backlog[j] => i = j
    BY DEF AcceptInv, Types, PlaceInv, QueueInv
  <1>1. CASE Destroy
    <2>1. CASE lorig
      BY <1>1, <1>a, <1>b, <2>1, LoseKeeps, Zenon DEF LoseStep, Destroy, makerVars, ownVars
    <2>2. CASE ~lorig
      <3>1. backlog' = <<>> /\ excused' = excused \cup Range(backlog)
            /\ assoc' = [a \in All |->
                 IF assoc[a] = "up" /\ a \in Range(backlog) THEN "shutdown" ELSE assoc[a]]
            /\ UNCHANGED <<lpc, events, fds, orig, cut, makerVars, conn>>
        BY <1>1, <2>2 DEF Destroy, ownVars
      <3>f. lfd' \in BOOLEAN /\ ~lfd' BY <1>1, Zenon DEF Destroy
      <3>2. backlog' \in Seq(Assocs) /\ Len(backlog') = 0 /\ Range(backlog') = {}
        <4>1. <<>> \in Seq(Assocs) /\ Len(<<>>) = 0 OBVIOUS
        <4>2. QED BY <3>1, <4>1, EmptyRange
      <3>3. assoc' \in [All -> Ends] /\ assoc'[Handed] = assoc[Handed]
            /\ \A a \in All : assoc'[a] = assoc[a]
                               \/ (assoc[a] = "up" /\ assoc'[a] \notin {"up", "none"})
        BY <1>a, <1>b, <3>1 DEF Ends
      <3>4. LoseStep BY <1>a, <1>b, <3>1, <3>f, <3>2, <3>3 DEF LoseStep
      <3>5. QED BY <3>4, LoseKeeps
    <2>3. QED BY <2>1, <2>2
  <1>2. CASE OwnerCloses
    <2>1. LoseStep
      BY <1>2, <1>a, <1>b, Zenon DEF LoseStep, OwnerCloses, listenVars, Ends
    <2>2. QED BY <2>1, LoseKeeps
  <1>3. ASSUME NEW a \in All, End(a) PROVE AcceptInv'
    <2>1. LoseStep
      BY <1>3, <1>a, <1>b DEF LoseStep, End, listenVars, ownVars, Ends
    <2>2. QED BY <2>1, LoseKeeps
  <1>4. QED BY <1>1, <1>2, <1>3

\* Before any call nobody has a descriptor.
LEMMA InitAcceptInv == ASSUME AcceptAssumption, Init PROVE AcceptInv
  <1>a. Nothing \notin All /\ Handed \in All /\ Assocs \subseteq All BY DEF All, AcceptAssumption
  <1>b. backlog \in Seq(Assocs) /\ Len(backlog) = 0 /\ Range(backlog) = {}
    <2>1. <<>> \in Seq(Assocs) /\ Len(<<>>) = 0 OBVIOUS
    <2>2. QED BY <2>1, EmptyRange DEF Init
  <1>c. \A a \in All : ~Held(a) BY <1>a DEF Held, Init
  <1>d. conn \in [All -> Knows] /\ \A a \in All : ~conn[a].given /\ ~conn[a].addrs
    BY DEF Init, Unknown, Knows
  <1>1. Types BY <1>a, <1>b, <1>d, Zenon DEF Types, Init, Before, Making, Ends
  <1>2. PlaceInv
    BY <1>a, <1>b, <1>c, <1>d
       DEF PlaceInv, QueueInv, MakerInv, SoleInv, HandedInv, GivenInv, Init, Before
  <1>3. FdInv BY <1>a, <1>c, <1>d DEF FdInv, Init
  <1>4. ConnInv BY <1>d DEF ConnInv, FoundInv, AddrsInv, WholeInv, Init
  <1>5. EndLosesNothing BY <1>a DEF EndLosesNothing, Init, AcceptAssumption, All
  <1>6. QED BY <1>1, <1>2, <1>3, <1>4, <1>5 DEF AcceptInv

\* Every step keeps the invariant.
LEMMA NextAcceptInv == ASSUME AcceptInv, [Next]_vars PROVE AcceptInv'
  <1> USE AcceptAssumption
  <1>1. CASE Open \/ FileListener \/ SetupListener \/ Close \/ SetDeadline \/ UNCHANGED vars
    <2>1. /\ UNCHANGED <<kernelVars, ownVars, makerVars, conn, excused>>
          /\ \/ UNCHANGED <<lpc, lfd>>
             \/ lpc' \in {"setup", "none"} /\ (lfd' <=> lpc' # "none") /\ lfd' \in BOOLEAN
             \/ lpc' \in {"open", "closed"} /\ lfd' = lfd
      BY <1>1, Zenon DEF Open, FileListener, SetupListener, Close, SetDeadline, vars, listenVars
    <2>2. ListenerStep
      BY <2>1 DEF ListenerStep, AcceptInv, Types, FdInv
    <2>3. QED BY <2>2, ListenerKeeps
  <1>2. ASSUME NEW m \in Makers, AdoptStep(m) \/ ConnStep(m) PROVE AcceptInv'
    BY <1>2, AdoptStepKeeps, ConnStepKeeps, FailsKeeps DEF AdoptStep, ConnStep
  <1>3. ASSUME NEW m \in Makers, CallAccept(m) \/ CallFileConn(m) \/ AcceptStep(m) PROVE AcceptInv'
    BY <1>3, AcceptStepKeeps, CallFileConnKeeps
  <1>4. CASE Destroy \/ Environment
    BY <1>4, LossKeeps, ArriveKeeps DEF Environment
  <1>5. QED BY <1>1, <1>2, <1>3, <1>4 DEF Next

\* The invariant holds whatever the calls, the peers and the kernel do.
LEMMA AcceptInvHolds == Spec => []AcceptInv
  <1>1. Init => AcceptInv BY InitAcceptInv, AcceptAssumption
  <1>2. AcceptInv /\ [Next]_vars => AcceptInv' BY NextAcceptInv
  <1>3. QED BY <1>1, <1>2, PTL DEF Spec

INSTANCE FiniteSetTheorems

\* On every path through accept, adoptFile, wrapSocketFile and newConn a
\* descriptor has one owner, the maker of its Conn or the Conn, for any number of
\* Accepts beside Close and FileConn; and a FileConn that gives no Conn leaves
\* the socket to its owner as it was.
THEOREM DescriptorHasOneOwner == Spec => []OneOwner
  <1>1. AcceptInv => OneOwner
    <2> SUFFICES ASSUME AcceptInv PROVE OneOwner OBVIOUS
    <2>1. ASSUME NEW a \in All
          PROVE fds[a] = Cardinality({m \in Makers : cur[m] = a}) + (IF conn[a].given THEN 1 ELSE 0)
      <3> DEFINE S == {m \in Makers : cur[m] = a}
      <3>1. CASE Held(a)
        <4>1. PICK m \in Makers : cur[m] = a BY <3>1 DEF Held
        <4>2. a # Nothing BY AcceptAssumption DEF All
        <4>3. S = {m} BY <4>1, <4>2 DEF AcceptInv, PlaceInv, SoleInv
        <4>4. Cardinality(S) = 1 BY <4>3, FS_Singleton, Zenon
        <4>5. ~conn[a].given /\ fds[a] = 1 BY <3>1, <4>1, <4>2 DEF AcceptInv, PlaceInv, MakerInv, FdInv
        <4>6. QED BY <4>4, <4>5
      <3>2. CASE ~Held(a)
        <4>1. S = {} BY <3>2 DEF Held
        <4>2. Cardinality(S) = 0 BY <4>1, FS_EmptySet
        <4>3. fds[a] = IF conn[a].given THEN 1 ELSE 0 BY <3>2 DEF AcceptInv, FdInv
        <4>4. QED BY <4>2, <4>3
      <3>3. QED BY <3>1, <3>2
    <2>2. QED BY <2>1, Zenon DEF OneOwner, AcceptInv, FdInv
  <1>2. QED BY <1>1, AcceptInvHolds, PTL

\* An association that accept4 dequeued becomes a Conn though it ends at any
\* point of accept and newConn: what is lost is lost to a failed system call, to
\* an address that cannot be reported, or to the Listener's Close.
THEOREM EndNeverLosesAConn == Spec => []EndLosesNothing
  <1>1. AcceptInv => EndLosesNothing BY DEF AcceptInv
  <1>2. QED BY <1>1, AcceptInvHolds, PTL

\* init has set the package's events and read the id before newConn returns the
\* Conn of an association that is up, whoever queued it.
THEOREM ReturnedConnIsWhole == Spec => []LiveConnIsWhole
  <1>1. AcceptInv => LiveConnIsWhole BY DEF AcceptInv, ConnInv, AddrsInv, WholeInv, LiveConnIsWhole
  <1>2. QED BY <1>1, AcceptInvHolds, PTL
=============================================================================
