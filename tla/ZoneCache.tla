----------------------------- MODULE ZoneCache -----------------------------
(* The interface names of zoned addresses (sockaddr.go).  encodeZone looks a   *)
(* zone up in zoneCache, a copy of the host's interface table shared by every  *)
(* goroutine, while interfaces come and go.  index reads the clock, then the   *)
(* copy under the read lock; refresh reads the table again under the lock and  *)
(* takes the time of the copy after the table was read.                        *)
EXTENDS Part, Integers, FiniteSets

CONSTANTS Lookers,    \* goroutines that encode zoned addresses
          Nobody,
          Names,      \* zones asked for
          Number,     \* the zones that are decimal, with their values
          TTL,        \* zoneCacheTTL
          ReadTicks,  \* the longest a read of the host's table takes
          MaxTime,    \* bound on the clock
          MaxIndex    \* bound on the interfaces ever created

\* What the constants are assumed to be.
ASSUME ZoneAssumption ==
  /\ Nobody \notin Lookers /\ Names # {}
  /\ DOMAIN Number \subseteq Names
  /\ TTL \in Nat \ {0} /\ ReadTicks \in Nat /\ MaxTime \in Nat /\ MaxIndex \in Nat

VARIABLES clock,
          host,       \* the host's table: the index of a name, 0 for none
          created,    \* interfaces created so far
          until,      \* history: when a name last had an index it has no more
          zoneMu,         \* zoneCache.mu when it is write-locked
          byName, fetched,         \* the copy and its time
          ift, read,  \* the table read last, and when until it is stored
          looking, zone, now,           \* of a lookup
          stale, missed            \* history: whether a lookup has returned such an answer

cacheVars == <<byName, fetched, read, ift>>
answerVars == <<stale, missed>>
lookVars == <<looking, zone, now, answerVars>>
hostVars == <<clock, host, created, until>>
zoneVars == <<hostVars, zoneMu, cacheVars, lookVars>>

isDecimal(n) == n \in DOMAIN Number

NoZone == CHOOSE n \in Names : TRUE

\* What encodeZone makes of a lookup: the index, or the number of a decimal
\* zone; 0 stands for a refusal, which a zone of "0" and an unknown name get.
encodeZone(n, index) ==
  IF index # 0 THEN index ELSE IF isDecimal(n) THEN Number[n] ELSE 0

ZoneInit ==
  /\ clock = 1 /\ created = 0 /\ zoneMu = Nobody
  /\ host = [n \in Names |-> 0]
  /\ until = [n \in Names |-> [i \in 0..MaxIndex |-> 0]]
  /\ byName = host /\ ift = host /\ fetched = 0 /\ read = 0
  /\ looking = [g \in Lookers |-> "idle"]
  /\ zone = [g \in Lookers |-> NoZone]
  /\ now = [g \in Lookers |-> 0]
  /\ stale = FALSE /\ missed = FALSE

-----------------------------------------------------------------------------
(* zoneCache *)

\* A name had an index, or none for index 0, at some moment from a time on.
HadSince(n, i, t) == host[n] = i \/ until[n][i] >= t

\* The answer is older than a copy may be: its interface has had this index, or
\* no interface has had this name, for longer than zoneCacheTTL and the time of
\* a read of the table.  An absent decimal zone is its number, whatever the host.
TooOld(g, i) ==
  /\ ~(isDecimal(zone[g]) /\ encodeZone(zone[g], i) = Number[zone[g]])
  /\ ~HadSince(zone[g], i, now[g] - TTL - ReadTicks + 1)

\* The lookup finds no interface, and the host had one ever since it began.
Misses(g, i) == i = 0 /\ ~isDecimal(zone[g]) /\ ~HadSince(zone[g], 0, now[g])

\* A lookup returns what its copy has; failed when its own read has failed.
Found(g, copy, failed) ==
  LET i == copy[zone[g]] IN
  /\ stale' = (stale \/ (~failed /\ TooOld(g, i)))
  /\ missed' = (missed \/ (~failed /\ Misses(g, i)))
  /\ looking' = [looking EXCEPT ![g] = "idle"]
  /\ zone' = [zone EXCEPT ![g] = NoZone]
  /\ now' = [now EXCEPT ![g] = 0]
Goes(g, at) == looking' = [looking EXCEPT ![g] = at] /\ UNCHANGED <<zone, now, answerVars>>

\* index: the clock is read before the lock is asked for.
Lookup(g) ==
  /\ looking[g] = "idle" /\ looking' = [looking EXCEPT ![g] = "index"]
  /\ \E n \in Names : zone' = [zone EXCEPT ![g] = n]
  /\ now' = [now EXCEPT ![g] = clock]
  /\ UNCHANGED <<hostVars, zoneMu, cacheVars, answerVars>>

Fresh(g) == fetched # 0 /\ now[g] - fetched < TTL

index(g) ==
  LET n == zone[g] IN
  /\ looking[g] = "index" /\ zoneMu = Nobody
  /\ IF \/ Fresh(g) /\ byName[n] # 0
        \/ fetched # 0 /\ byName[n] = 0 /\ isDecimal(n)
     THEN Found(g, byName, FALSE)
     ELSE Goes(g, "refresh")
  /\ UNCHANGED <<hostVars, zoneMu, cacheVars>>

\* Mutation: any copy will do, since another lookup has just held the lock.
ReadSince_Ever(g) == fetched # 0

\* fetched.After(now)
ReadSince(g) == fetched > now[g]

\* refresh uses a copy another lookup took in the meantime, or keeps the lock
\* to read the table.
refresh(g) ==
  /\ looking[g] = "refresh" /\ zoneMu = Nobody
  /\ IF ReadSince(g)
     THEN Found(g, byName, FALSE) /\ zoneMu' = zoneMu
     ELSE Goes(g, "interfaces") /\ zoneMu' = g
  /\ UNCHANGED <<hostVars, cacheVars>>

\* net.Interfaces answers with the table of this moment, or fails and leaves
\* the copy and its time as they were.
interfaces(g) ==
  /\ looking[g] = "interfaces"
  /\ \/ Goes(g, "store") /\ ift' = host /\ read' = clock /\ zoneMu' = zoneMu
     \/ Found(g, byName, TRUE) /\ zoneMu' = Nobody /\ UNCHANGED <<ift, read>>
  /\ UNCHANGED <<hostVars, byName, fetched>>

store(g) ==
  /\ looking[g] = "store"
  /\ byName' = ift /\ fetched' = clock
  /\ Found(g, byName', FALSE) /\ zoneMu' = Nobody /\ read' = 0
  /\ UNCHANGED <<hostVars, ift>>

-----------------------------------------------------------------------------
(* The host *)

\* Time passes; a table that was read is stored within ReadTicks.
Tick ==
  /\ clock < MaxTime /\ clock' = clock + 1
  /\ \A g \in Lookers : looking[g] = "store" => clock - read < ReadTicks
  /\ UNCHANGED <<host, created, until, zoneMu, cacheVars, lookVars>>

\* An interface is created, with an index not used before, or removed.
Change(n) ==
  /\ \/ /\ host[n] = 0 /\ created < MaxIndex
        /\ created' = created + 1 /\ host' = [host EXCEPT ![n] = created']
     \/ /\ host[n] # 0 /\ host' = [host EXCEPT ![n] = 0] /\ created' = created
  /\ until' = [until EXCEPT ![n][host[n]] = clock]
  /\ UNCHANGED <<clock, zoneMu, cacheVars, lookVars>>

ZoneNext ==
  \/ \E g \in Lookers : Lookup(g) \/ index(g) \/ refresh(g) \/ interfaces(g) \/ store(g)
  \/ Tick \/ (\E n \in Names : Change(n))

ZoneSpec ==
  /\ part = "zones" /\ ZoneInit
  /\ [][ZoneNext /\ UNCHANGED part]_<<part, zoneVars>>

-----------------------------------------------------------------------------
(* Properties *)

\* A zone is encoded as an index its interface had at most zoneCacheTTL, and
\* the time one read of the table takes, before the lookup began, however lookups,
\* reads of the table and changes to the host interleave.  A copy past its time
\* is used only by the lookup whose own read has failed.
ZoneIsRecent == part = "zones" => ~stale

\* "The table is read again ... when a name is missing from it, so an interface
\* created since the last read is found at once": a lookup that finds no
\* interface of its name began, or ran, while the host had none.
FoundAtOnce == part = "zones" => ~missed
=============================================================================
