---------------------------- MODULE EndpointClose ----------------------------
(***************************************************************************)
(* Closing a one-to-many socket (endpoint_linux.go: endpointCloseOps, under *)
(* lifecycle.close): the associations are shut down one SCTP_EOF send at a  *)
(* time from a list the kernel may change between any two sends.  They end, *)
(* appear, are peeled off, and pass their ids on while the close waits.     *)
(*                                                                          *)
(* An association is its number in the order of their births; its id is     *)
(* what the kernel and the code know it by.  The races of several closing   *)
(* calls are Lifecycle's; here one close runs, and an Abort overtakes it.   *)
(***************************************************************************)
EXTENDS Naturals, FiniteSets

CONSTANTS
  IdSpace,  \* the kernel hands out the ids 1..IdSpace in a cycle
  MaxBorn,  \* the associations that are born in one behaviour
  Wrapped   \* the cycle may pass an id on between two looks of a close

ASSUME EndpointAssumption ==
  IdSpace \in Nat \ {0} /\ MaxBorn \in Nat /\ Wrapped \in BOOLEAN

Ids == 1..IdSpace

VARIABLES
  born,     \* how many associations there have been
  id,       \* id[n]: the id of association n
  st,       \* st[n]: the state of association n
  eof,      \* history: eof[n], an SCTP_EOF send has been made for association n
  cursor,   \* the id given last
  pc,       \* the next step of the close
  todo,     \* the ids shutdownEach has still to look at
  next,     \* shutdownEach's next
  shut,     \* endpointCloseOps.shut
  abort, expired, err,
  listed,   \* history: the associations in the list read last
  seen      \* history: the associations that had been born by then

assocVars == <<born, id, st, eof, cursor>>
closeVars == <<pc, todo, next, shut, abort, expired, err>>
histVars  == <<listed, seen>>
vars == <<assocVars, closeVars, histVars>>

Assocs == 1..born
InUse  == {"setup", "up", "shutting", "peeled"}
Held   == {n \in Assocs : st[n] \in InUse \ {"peeled"}}

Init ==
  /\ born = 0 /\ id = <<>> /\ st = <<>> /\ eof = <<>> /\ cursor = IdSpace
  /\ pc = "open" /\ todo = {} /\ next = {} /\ shut = {}
  /\ abort = FALSE /\ expired = FALSE /\ err = FALSE
  /\ listed = {} /\ seen = 0

Closing == pc \notin {"open", "finished"}

-----------------------------------------------------------------------------
(* The associations, until the descriptor is gone *)

\* The first free id after the last one given.
NextIds == {i \in Ids : ~\E n \in Assocs : id[n] = i /\ st[n] \in InUse}
Distance(i) == (i + IdSpace - cursor - 1) % IdSpace

\* A Connect, or the INIT of a peer on a listening endpoint.  Unless Wrapped, an
\* id on the list read last is not given again before the next look: on Linux
\* that takes 2^31 - 1 births since the id was given.
Birth ==
  /\ pc # "finished" /\ born < MaxBorn
  /\ \E i \in NextIds, s \in {"setup", "up"} :
       /\ \A j \in NextIds : Distance(i) <= Distance(j)
       /\ Wrapped \/ \A n \in listed : id[n] # i
       /\ born' = born + 1
       /\ id' = [n \in 1..born' |-> IF n = born' THEN i ELSE id[n]]
       /\ st' = [n \in 1..born' |-> IF n = born' THEN s ELSE st[n]]
       /\ eof' = [n \in 1..born' |-> n \in Assocs /\ eof[n]]
       /\ cursor' = i
  /\ UNCHANGED <<closeVars, histVars>>

Becomes(n, s) == st' = [st EXCEPT ![n] = s]

\* What the peers and the timers do to an association on their own.
AssocMoves(n) ==
  /\ \/ st[n] = "setup" /\ \E s \in {"up", "gone"} : Becomes(n, s)
     \/ st[n] = "up" /\ \E s \in {"shutting", "gone"} : Becomes(n, s)
     \/ st[n] = "shutting" /\ Becomes(n, "gone")
  /\ UNCHANGED <<born, id, eof, cursor, closeVars, histVars>>

\* PeelOff, by a call that found the endpoint open: the association leaves the
\* list and keeps its id.
PeelOff(n) ==
  /\ pc # "finished" /\ st[n] \in {"up", "shutting"}
  /\ Becomes(n, "peeled")
  /\ UNCHANGED <<born, id, eof, cursor, closeVars, histVars>>

\* One SCTP_EOF send to the association that has the id now, if any does.  It
\* cancels a setup and shuts down an association that is up, or fails.
SendEOF(i) ==
  LET N == {n \in Held : id[n] = i} IN
    /\ eof' = [n \in Assocs |-> eof[n] \/ n \in N]
    /\ \E ok \in BOOLEAN :
         st' = [n \in Assocs |->
                  IF n \notin N \/ ~ok THEN st[n]
                  ELSE IF st[n] = "setup" THEN "gone" ELSE "shutting"]
    /\ UNCHANGED <<born, id, cursor>>

\* endAssoc asks for an endpoint whose descriptor is not released: CloseAssoc and
\* AbortAssoc may come in the middle of a Close.
CloseAssoc(i) ==
  /\ pc # "finished"
  /\ SendEOF(i)
  /\ UNCHANGED <<closeVars, histVars>>

\* AbortAssoc: the association ends at once.
AbortAssoc(i) ==
  /\ pc # "finished"
  /\ st' = [n \in Assocs |-> IF n \in Held /\ id[n] = i THEN "aborted" ELSE st[n]]
  /\ UNCHANGED <<born, id, eof, cursor, closeVars, histVars>>

-----------------------------------------------------------------------------
(* lifecycle.close over endpointCloseOps *)

closeFrame == UNCHANGED <<abort, expired>>

\* assocIDs: the ids held now, read in one system call.
Listed == {id[n] : n \in Held}

Look(to) ==
  /\ pc' = to
  /\ todo' = Listed /\ next' = {}
  /\ listed' = Held /\ seen' = born

\* startShutdown.  A list that cannot be read is read again by the wait.
StartShutdown ==
  /\ pc = "open"
  /\ \/ Look("first")
     \/ pc' = "poll" /\ UNCHANGED <<todo, next, histVars>>
  /\ UNCHANGED <<shut, err>> /\ closeFrame /\ UNCHANGED assocVars

\* Mutation: a list that cannot be read is taken for an empty one.
AssocGone_ErrorIsGone ==
  /\ pc = "poll"
  /\ \/ Listed # {} /\ Look("each")
     \/ Listed = {} /\ Look("release")
     \/ pc' = "release" /\ UNCHANGED <<todo, next, histVars>>
  /\ UNCHANGED <<shut, err>> /\ closeFrame /\ UNCHANGED assocVars

\* assocGone reads the list again.  An error is no evidence of the end.
AssocGone ==
  /\ pc = "poll"
  /\ \/ Listed # {} /\ Look("each") /\ UNCHANGED err
     \/ Listed = {} /\ Look("release") /\ UNCHANGED err
     \/ pc' = "abortive" /\ err' = TRUE /\ UNCHANGED <<todo, next, histVars>>
  /\ UNCHANGED shut /\ closeFrame /\ UNCHANGED assocVars

\* shutdownEach, one listed id: a send for it unless one was made before.
ShutdownOne(i) ==
  /\ pc \in {"first", "each"} /\ i \in todo
  /\ \/ i \notin shut /\ SendEOF(i)
     \/ i \in shut /\ UNCHANGED assocVars
  /\ todo' = todo \ {i}
  /\ next' = next \cup {i}
  /\ UNCHANGED <<pc, shut, err, histVars>> /\ closeFrame

\* Mutation: an id once shut down is never forgotten.
Forget_Never == shut \cup next

\* What shut becomes: the ids of this list, and no other.
Forget == next

\* The end of shutdownEach: startShutdown's is followed by the first poll, a
\* poll's by the wait.
ShutdownEachEnds ==
  /\ todo = {}
  /\ \/ pc = "first" /\ pc' = "poll"
     \/ pc = "each" /\ pc' = "wait"
  /\ shut' = Forget
  /\ UNCHANGED <<todo, next, err, assocVars, histVars>> /\ closeFrame

\* Mutation: the wait has no end of its own.
Wait_Endless ==
  /\ pc = "wait"
  /\ pc' = "poll"
  /\ UNCHANGED <<todo, next, shut, err, assocVars, histVars>> /\ closeFrame

\* Grace has run out, an Abort has overtaken the wait, or the next poll is due.
Wait ==
  /\ pc = "wait"
  /\ \/ (expired \/ abort) /\ pc' = "abortive"
     \/ ~expired /\ pc' = "poll"
  /\ UNCHANGED <<todo, next, shut, err, assocVars, histVars>> /\ closeFrame

\* abortive: close(2) aborts every association the socket holds, or, when
\* SO_LINGER could not be set, shuts them down and the close reports it.
Abortive ==
  /\ pc = "abortive" /\ pc' = "finished"
  /\ \E linger \in BOOLEAN :
       /\ st' = [n \in Assocs |->
                   IF n \notin Held THEN st[n]
                   ELSE IF linger THEN "aborted" ELSE "shutting"]
       /\ err' = (err \/ ~linger)
  /\ UNCHANGED <<born, id, eof, cursor, todo, next, shut, histVars>> /\ closeFrame

\* release: close(2) starts the shutdown of what the socket holds by now.
Release ==
  /\ pc = "release" /\ pc' = "finished"
  /\ st' = [n \in Assocs |-> IF n \in Held THEN "shutting" ELSE st[n]]
  /\ UNCHANGED <<born, id, eof, cursor, todo, next, shut, err, histVars>>
  /\ closeFrame

\* The clock, and an Abort by another goroutine.
Expire ==
  /\ Closing /\ ~expired /\ expired' = TRUE
  /\ UNCHANGED <<assocVars, pc, todo, next, shut, abort, err, histVars>>
Abort ==
  /\ Closing /\ ~abort /\ abort' = TRUE
  /\ UNCHANGED <<assocVars, pc, todo, next, shut, expired, err, histVars>>

CloseStep ==
  \/ AssocGone \/ (\E i \in Ids : ShutdownOne(i)) \/ ShutdownEachEnds
  \/ Wait \/ Abortive \/ Release

Finished == pc = "finished" /\ UNCHANGED vars

Next ==
  \/ Birth
  \/ \E n \in Assocs : AssocMoves(n) \/ PeelOff(n)
  \/ \E i \in Ids : CloseAssoc(i) \/ AbortAssoc(i)
  \/ StartShutdown \/ CloseStep \/ Expire \/ Abort \/ Finished

Spec == Init /\ [][Next]_vars

\* The close runs and its grace passes.  Nothing is asked of the peers.
FairSpec == Spec /\ WF_vars(CloseStep) /\ WF_vars(Expire)

-----------------------------------------------------------------------------
(* Properties *)

\* Every variable has its type, and no two associations share an id while they
\* are in use.
TypeOK ==
  /\ born \in 0..MaxBorn /\ cursor \in Ids /\ seen \in 0..born
  /\ id \in [Assocs -> Ids] /\ eof \in [Assocs -> BOOLEAN]
  /\ st \in [Assocs -> InUse \cup {"gone", "aborted"}]
  /\ pc \in {"open", "first", "each", "poll", "wait", "abortive", "release", "finished"}
  /\ todo \subseteq Ids /\ next \subseteq Ids /\ shut \subseteq Ids
  /\ abort \in BOOLEAN /\ expired \in BOOLEAN /\ err \in BOOLEAN
  /\ listed \subseteq Assocs
  /\ \A m, n \in Assocs : st[m] \in InUse /\ st[n] \in InUse /\ id[m] = id[n] => m = n

\* A close never waits on an association it has not asked to shut down: after
\* shutdownEach, an SCTP_EOF send has been made for every association of the
\* list it was given, and an id inherited from an ended association is not
\* taken for that one's.
EachListedIsShutDown ==
  pc \in {"poll", "wait"} =>
    \A n \in listed : eof[n] \/ st[n] \notin {"setup", "up", "shutting"}

\* A Close that returns nil leaves no association behind on the endpoint that
\* was up and unasked: all have ended, been peeled off, or were born after the
\* list was found empty and are shutting down.  One that was overtaken or ran out
\* of grace and returns nil has aborted them.
NilLeavesNothingUp ==
  pc = "finished" /\ ~err =>
    \A n \in Held : st[n] = "shutting" /\ n > seen

\* The close ends, whatever the peers do and however many associations appear
\* while it waits.
CloseEnds == Closing ~> pc = "finished"
=============================================================================
