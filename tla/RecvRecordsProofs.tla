-------------------------- MODULE RecvRecordsProofs --------------------------
(***************************************************************************)
(* Proofs, for any number of readers, messages, pieces and notifications,  *)
(* that ReadMsg returns whole messages, that no read starts in the middle  *)
(* of one, and that an aborted delivery is reported.                       *)
(***************************************************************************)
EXTENDS RecvRecords, TLAPS

\* A piece that is queued, or that the kernel queues next.
Sendable == [msg : Nat, piece : 1..MsgLen]
Records  == Sendable \cup Notes

\* The stream of records: those in the queue, and the next piece.
At(i) == IF i = Len(queue) + 1 THEN sending ELSE queue[i]

\* A notification ends the message in progress, or passes between its pieces.
Cuts(x)   == x \in Notes /\ x.kind \in {"PartialDelivery", "Restart"}
Aborts(x) == x \in Notes /\ x.kind = "PartialDelivery"
Passes(x) == x \in Notes /\ x.kind \notin {"PartialDelivery", "Restart"}

\* Nothing but passing notifications lies between the records j and i.
Clear(j, i) == \A k \in (j + 1)..(i - 1) : Passes(queue[k])

Follows(p, q) == q = [p EXCEPT !.piece = @ + 1]

Errors == {"ErrShortNotification", "ErrMessageInterrupted", "ErrMessageTooLong",
           "ErrNotificationTooLong", "handler", "ErrClosed", "deadline", "EOF", "ENOTCONN"}
PCs == {"idle", "lock", "top", "recv", "park", "immediate", "handler"}
States == [max : Nat, got : Seq(Sendable), tooLong : BOOLEAN, queued : Seq(Notes),
           full : BOOLEAN, errs : SUBSET Errors]

\* Types, and who has recv.mu.
Types ==
  /\ queue \in Seq(Records) /\ sending \in Sendable /\ notes \in 0..MaxNotes
  /\ partial \in BOOLEAN /\ held \in {<<>>} \cup {<<p>> : p \in Sendable}
  /\ mu \in Readers \cup {NoOne} /\ pc \in [Readers -> PCs]
  /\ call \in [Readers -> Calls \cup {"none"}] /\ rm \in [Readers -> States]
  /\ \A r \in Readers : /\ pc[r] \in {"top", "recv", "park"} <=> mu = r
                        /\ pc[r] \in {"handler", "immediate"} => rm[r].queued # <<>>
                        /\ pc[r] = "immediate" => call[r] = "ReadMsg"
                        /\ pc[r] = "idle" => rm[r] = Fresh

\* The pieces of a message come one after the other, what comes after a record
\* that cuts a message begins one, and an abort comes in the middle of one.
StreamInv ==
  \A i \in 1..(Len(queue) + 1), j \in 1..Len(queue) : j < i /\ Clear(j, i) =>
    /\ At(i) \in Sendable =>
         /\ queue[j] \in Sendable =>
              (EOR(queue[j]) /\ At(i).piece = 1) \/ Follows(queue[j], At(i))
         /\ Cuts(queue[j]) => At(i).piece = 1
    /\ Aborts(At(i)) => ~Cuts(queue[j]) /\ (queue[j] \in Sendable => ~EOR(queue[j]))

\* The next piece begins a message, or follows the one the caller holds, and an
\* abort finds one begun.
HeldInv ==
  open => \A i \in 1..(Len(queue) + 1) : Clear(0, i) =>
    /\ At(i) \in Sendable /\ At(i).piece # 1 =>
         partial /\ \E p \in Sendable : held = <<p>> /\ Follows(p, At(i))
    /\ Aborts(At(i)) => partial

\* The next piece, if no message is cut before it, does not begin one.
Going ==
  \A i \in 1..(Len(queue) + 1) : At(i) \in Sendable /\ Clear(0, i) => At(i).piece # 1

\* r is in the middle of a message.
Middle(r) == call[r] = "ReadMsg" /\ pc[r] \in {"recv", "park"} /\ rm[r].got # <<>>

\* What a ReadMsg may return.
Whole(got, errs) ==
  /\ OneMessage(got)
  /\ \/ got = <<>> \/ "ErrMessageInterrupted" \in errs
     \/ EOR(got[Len(got)])
     \/ Len(got) \in Maxes /\ "ErrMessageTooLong" \in errs

\* A ReadMsg in the middle of a message goes on with the next piece of it.
ReadOK(r) ==
  call[r] = "ReadMsg" =>
    /\ rm[r].max \in Maxes /\ OneMessage(rm[r].got)
    /\ rm[r].tooLong => rm[r].got # <<>> /\ Len(rm[r].got) = rm[r].max
    /\ pc[r] \in {"lock", "top", "immediate"} => rm[r].got = <<>>
    /\ pc[r] = "handler" => Whole(rm[r].got, rm[r].errs)
    /\ Middle(r) =>
         /\ ~rm[r].tooLong => held = <<rm[r].got[Len(rm[r].got)]>>
         /\ open => Going

GotInv == \A r \in Readers : ReadOK(r)

RecvInv == Types /\ StreamInv /\ HeldInv /\ GotInv /\ MessageWhole

-----------------------------------------------------------------------------
(* The stream of records *)

\* A sequence with one more element.
LEMMA AppendFacts ==
  ASSUME NEW S, NEW s \in Seq(S), NEW x \in S
  PROVE /\ Append(s, x) \in Seq(S) /\ Append(s, x) # <<>> /\ Len(Append(s, x)) = Len(s) + 1
        /\ \A i \in 1..Len(s) : Append(s, x)[i] = s[i]
        /\ Append(s, x)[Len(s) + 1] = x
  OBVIOUS

\* And with one less.
LEMMA TailFacts ==
  ASSUME NEW S, NEW s \in Seq(S), s # <<>>
  PROVE /\ Head(s) \in S /\ Head(s) = s[1] /\ Tail(s) \in Seq(S) /\ Len(Tail(s)) = Len(s) - 1
        /\ \A i \in 1..Len(Tail(s)) : Tail(s)[i] = s[i + 1]
  OBVIOUS

\* A record is a piece or a notification, as its fields tell.
LEMMA RecordKinds ==
  /\ \A x \in Sendable : "piece" \in DOMAIN x /\ "kind" \notin DOMAIN x /\ x \notin Notes
  /\ \A x \in Notes : "kind" \in DOMAIN x /\ "piece" \notin DOMAIN x /\ x \notin Sendable
  /\ \A x \in Records : x \in Sendable \/ Cuts(x) \/ Passes(x)
  /\ \A x \in Sendable : ~Cuts(x) /\ ~Passes(x) /\ ~Aborts(x)
  /\ \A x : Aborts(x) => Cuts(x)
  /\ \A x : ~(Cuts(x) /\ Passes(x))
  <1>1. \A x \in Sendable : DOMAIN x = {"msg", "piece"} BY DEF Sendable
  <1>2. \A x \in Notes : DOMAIN x = {"id", "kind", "form"} BY DEF Notes
  <1>3. QED BY <1>1, <1>2 DEF Cuts, Passes, Aborts, Records

\* What follows a piece is one further, and no piece follows the last.
LEMMA FollowsProperties ==
  ASSUME NEW p \in Sendable, NEW q \in Sendable, Follows(p, q)
  PROVE /\ q.piece # 1 /\ ~EOR(p) /\ q = [p EXCEPT !.piece = @ + 1]
        /\ p = [q EXCEPT !.piece = @ - 1]
  <1>1. MsgLen \in Nat BY RecvAssumption
  <1>2. /\ p = [msg |-> p.msg, piece |-> p.piece] /\ p.piece \in 1..MsgLen
        /\ q = [msg |-> q.msg, piece |-> q.piece] /\ q.piece \in 1..MsgLen
    BY DEF Sendable
  <1>3. q.msg = p.msg /\ q.piece = p.piece + 1 BY <1>2 DEF Follows
  <1>4. q.piece # 1 /\ ~EOR(p) BY <1>1, <1>2, <1>3 DEF EOR
  <1>5. p = [q EXCEPT !.piece = @ - 1]
    <2>1. [q EXCEPT !.piece = @ - 1] = [msg |-> q.msg, piece |-> q.piece - 1] BY <1>2
    <2>2. q.piece - 1 = p.piece BY <1>2, <1>3
    <2>3. QED BY <1>2, <1>3, <2>1, <2>2
  <1>6. QED BY <1>4, <1>5 DEF Follows

\* One record is taken off the queue.
LEMMA PopStream ==
  ASSUME Types, queue # <<>>, queue' = Tail(queue), sending' = sending,
         NEW n, n = Len(queue)
  PROVE /\ queue' \in Seq(Records) /\ n \in Nat /\ n > 0 /\ Head1 \in Records
        /\ Head1 = queue[1] /\ Head1 = At(1) /\ Len(queue') = n - 1 /\ queue' # queue
        /\ \A i \in 1..(n - 1) : queue'[i] = queue[i + 1]
        /\ \A i \in 1..n : At(i)' = At(i + 1)
        /\ \A j \in Nat, i \in 1..n : Clear(j, i)' <=> Clear(j + 1, i + 1)
  <1>1. /\ queue' \in Seq(Records) /\ n \in Nat /\ n > 0
        /\ Head1 = queue[1] /\ Head1 \in Records /\ Len(queue') = n - 1
        /\ \A i \in 1..(n - 1) : queue'[i] = queue[i + 1]
    BY TailFacts DEF Types, Head1
  <1>2. Head1 = At(1) /\ queue' # queue
    <2>1. n - 1 # n /\ 1 # n + 1 BY <1>1
    <2>2. QED BY <1>1, <2>1, Zenon DEF At
  <1>3. ASSUME NEW i \in 1..n PROVE At(i)' = At(i + 1)
    <2>1. (n - 1) + 1 = n /\ (i + 1 = n + 1 <=> i = n) BY <1>1
    <2>2. CASE i = n BY <1>1, <2>1, <2>2, Zenon DEF At
    <2>3. CASE i # n
      <3>1. i \in 1..(n - 1) BY <1>1, <2>3
      <3>2. QED BY <1>1, <2>1, <2>3, <3>1, Zenon DEF At
    <2>4. QED BY <2>2, <2>3
  <1>4. ASSUME NEW j \in Nat, NEW i \in 1..n PROVE Clear(j, i)' <=> Clear(j + 1, i + 1)
    <2>1. ASSUME Clear(j, i)', NEW k \in ((j + 1) + 1)..((i + 1) - 1) PROVE Passes(queue[k])
      <3>1. k - 1 \in (j + 1)..(i - 1) /\ k - 1 \in 1..(n - 1) /\ (k - 1) + 1 = k BY <1>1
      <3>2. Passes(queue'[k - 1]) BY <2>1, <3>1 DEF Clear, Passes
      <3>3. QED BY <1>1, <3>1, <3>2
    <2>2. ASSUME Clear(j + 1, i + 1), NEW k \in (j + 1)..(i - 1) PROVE Passes(queue'[k])
      <3>1. k + 1 \in ((j + 1) + 1)..((i + 1) - 1) /\ k \in 1..(n - 1) BY <1>1
      <3>2. Passes(queue[k + 1]) BY <2>2, <3>1 DEF Clear
      <3>3. QED BY <1>1, <3>1, <3>2
    <2>3. QED BY <2>1, <2>2 DEF Clear, Passes
  <1>5. QED BY <1>1, <1>2, <1>3, <1>4

\* One record is queued.
LEMMA AppendStream ==
  ASSUME Types, NEW x \in Records, queue' = Append(queue, x), NEW n, n = Len(queue)
  PROVE /\ queue' \in Seq(Records) /\ n \in Nat /\ Len(queue') = n + 1
        /\ \A i \in 1..n : queue'[i] = queue[i] /\ At(i)' = At(i) /\ At(i) = queue[i]
        /\ queue'[n + 1] = x /\ At(n + 1) = sending
        /\ At(n + 1)' = x /\ At(n + 2)' = sending'
        /\ \A j \in Nat, i \in 1..(n + 1) : Clear(j, i)' <=> Clear(j, i)
        /\ \A j \in 0..n : Clear(j, n + 2)' => Passes(x) /\ Clear(j, n + 1)
  <1>1. /\ queue' \in Seq(Records) /\ n \in Nat /\ Len(queue') = n + 1
        /\ \A i \in 1..n : queue'[i] = queue[i]
        /\ queue'[n + 1] = x
    BY AppendFacts DEF Types
  <1>2. /\ \A i \in 1..n : At(i)' = At(i) /\ At(i) = queue[i]
        /\ At(n + 1) = sending /\ At(n + 1)' = x /\ At(n + 2)' = sending'
    <2>1. /\ \A i \in 1..n : i # n + 1 /\ i # (n + 1) + 1
          /\ n + 1 # (n + 1) + 1 /\ n + 2 = (n + 1) + 1
      BY <1>1
    <2>2. \A i \in 1..n : At(i)' = At(i) /\ At(i) = queue[i] BY <1>1, <2>1, Zenon DEF At
    <2>3. At(n + 1) = sending BY Zenon DEF At
    <2>4. At(n + 1)' = x BY <1>1, <2>1, Zenon DEF At
    <2>5. At(n + 2)' = sending' BY <1>1, <2>1, Zenon DEF At
    <2>6. QED BY <2>2, <2>3, <2>4, <2>5
  <1>3. ASSUME NEW j \in Nat, NEW i \in 1..(n + 1) PROVE Clear(j, i)' <=> Clear(j, i)
    <2>1. \A k \in (j + 1)..(i - 1) : queue'[k] = queue[k] BY <1>1
    <2>2. QED BY <2>1 DEF Clear, Passes
  <1>4. ASSUME NEW j \in 0..n, Clear(j, n + 2)' PROVE Passes(x) /\ Clear(j, n + 1)
    <2>1. \A k \in (j + 1)..((n + 2) - 1) : Passes(queue'[k]) BY <1>4 DEF Clear, Passes
    <2>2. n + 1 \in (j + 1)..((n + 2) - 1) BY <1>1
    <2>3. ASSUME NEW k \in (j + 1)..((n + 1) - 1) PROVE Passes(queue[k])
      <3>1. k \in (j + 1)..((n + 2) - 1) /\ k \in 1..n BY <1>1
      <3>2. QED BY <1>1, <2>1, <3>1
    <2>4. QED BY <1>1, <2>1, <2>2, <2>3 DEF Clear
  <1>5. QED BY <1>1, <1>2, <1>3, <1>4

\* A step that leaves the queue alone.
LEMMA StayKeeps ==
  ASSUME StreamInv, HeldInv, UNCHANGED <<queue, sending>>,
         open' => open /\ held' = held /\ partial' = partial
  PROVE StreamInv' /\ HeldInv' /\ (Going => Going')
  <1>1. \A i : At(i)' = At(i) BY DEF At
  <1>2. \A j, i : Clear(j, i)' <=> Clear(j, i) BY DEF Clear
  <1>3. StreamInv' BY <1>1, <1>2 DEF StreamInv
  <1>4. HeldInv' BY <1>1, <1>2 DEF HeldInv
  <1>5. Going => Going' BY <1>1, <1>2 DEF Going
  <1>6. QED BY <1>3, <1>4, <1>5

\* A record is read: a piece is remembered, a notification that cuts no message
\* changes nothing.
LEMMA PopKeeps ==
  ASSUME Types, StreamInv, HeldInv, queue # <<>>, queue' = Tail(queue), sending' = sending,
         Head1 \in Sendable => (partial' <=> ~EOR(Head1)) /\ Hold(Head1),
         Passes(Head1) /\ open' => open /\ held' = held /\ (partial' <=> partial)
  PROVE /\ StreamInv' /\ HeldInv'
        /\ Head1 \in Sendable /\ ~EOR(Head1) => Going'
        /\ Passes(Head1) /\ Going => Going'
  <1>n. PICK n : n = Len(queue) OBVIOUS
  <1>1. /\ n \in Nat /\ n > 0 /\ Head1 \in Records
        /\ Head1 = queue[1] /\ Head1 = At(1) /\ Len(queue') = n - 1
        /\ \A i \in 1..(n - 1) : queue'[i] = queue[i + 1]
        /\ \A i \in 1..n : At(i)' = At(i + 1)
        /\ \A j \in Nat, i \in 1..n : Clear(j, i)' <=> Clear(j + 1, i + 1)
    BY <1>n, PopStream, Zenon
  <1>a. (n - 1) + 1 = n BY <1>1
  <1>2. StreamInv'
    <2> SUFFICES ASSUME NEW i \in 1..n, NEW j \in 1..(n - 1), j < i, Clear(j, i)'
        PROVE /\ At(i)' \in Sendable =>
                   /\ queue'[j] \in Sendable =>
                        (EOR(queue'[j]) /\ (At(i)').piece = 1) \/ Follows(queue'[j], At(i)')
                   /\ Cuts(queue'[j]) => (At(i)').piece = 1
              /\ Aborts(At(i)') => ~Cuts(queue'[j]) /\ (queue'[j] \in Sendable => ~EOR(queue'[j]))
      BY <1>1, <1>a DEF StreamInv, Cuts, Aborts, EOR, Follows
    <2>1. i + 1 \in 1..(n + 1) /\ j + 1 \in 1..n /\ j + 1 < i + 1 /\ j \in Nat BY <1>1
    <2>2. Clear(j + 1, i + 1) /\ At(i)' = At(i + 1) /\ queue'[j] = queue[j + 1] BY <1>1, <2>1
    <2>3. QED BY <2>1, <2>2, <1>n DEF StreamInv
  <1>3. ASSUME NEW i \in 1..n, Clear(0, i)'
        PROVE /\ i + 1 \in 1..(n + 1) /\ At(i)' = At(i + 1) /\ Clear(1, i + 1)
              /\ At(i + 1) \in Sendable =>
                   /\ Head1 \in Sendable =>
                        (EOR(Head1) /\ At(i + 1).piece = 1) \/ Follows(Head1, At(i + 1))
                   /\ Cuts(Head1) => At(i + 1).piece = 1
              /\ Aborts(At(i + 1)) => ~Cuts(Head1) /\ (Head1 \in Sendable => ~EOR(Head1))
              /\ Passes(Head1) => Clear(0, i + 1)
    <2>1. i + 1 \in 1..(n + 1) /\ 1 \in 1..n /\ 1 < i + 1 /\ 0 + 1 = 1 /\ 0 \in Nat BY <1>1
    <2>2. At(i)' = At(i + 1) /\ Clear(1, i + 1) BY <1>1, <1>3, <2>1
    <2>3. Passes(Head1) => Clear(0, i + 1)
      <3>1. ASSUME Passes(Head1), NEW k \in (0 + 1)..((i + 1) - 1) PROVE Passes(queue[k])
        <4>1. k = 1 \/ k \in (1 + 1)..((i + 1) - 1) BY <1>1
        <4>2. QED BY <1>1, <2>2, <3>1, <4>1, Zenon DEF Clear
      <3>2. QED BY <3>1 DEF Clear
    <2>4. QED BY <1>1, <2>1, <2>2, <2>3, <1>n, Zenon DEF StreamInv
  <1>4. HeldInv'
    <2> SUFFICES ASSUME open', NEW i \in 1..n, Clear(0, i)'
        PROVE /\ At(i)' \in Sendable /\ (At(i)').piece # 1 =>
                   partial' /\ \E p \in Sendable : held' = <<p>> /\ Follows(p, At(i)')
              /\ Aborts(At(i)') => partial'
      BY <1>1, <1>a DEF HeldInv, Aborts, Follows
    <2>1. CASE Head1 \in Sendable
      <3>1. At(i + 1) \in Sendable /\ At(i + 1).piece # 1 =>
              Follows(Head1, At(i + 1)) /\ ~EOR(Head1)
        BY <1>3, <2>1, FollowsProperties
      <3>2. ~EOR(Head1) => partial' /\ held' = <<Head1>> BY <2>1 DEF Hold
      <3>3. Aborts(At(i + 1)) => ~EOR(Head1) BY <1>3, <2>1
      <3>4. QED BY <1>3, <2>1, <3>1, <3>2, <3>3
    <2>2. CASE Cuts(Head1)
      BY <1>3, <2>2
    <2>3. CASE Passes(Head1)
      BY <1>3, <2>3, <1>n DEF HeldInv
    <2>4. QED BY <1>1, <2>1, <2>2, <2>3, RecordKinds
  <1>5. Head1 \in Sendable /\ ~EOR(Head1) => Going'
    <2> SUFFICES ASSUME Head1 \in Sendable, ~EOR(Head1), NEW i \in 1..n,
                        At(i)' \in Sendable, Clear(0, i)'
        PROVE (At(i)').piece # 1
      BY <1>1, <1>a DEF Going
    <2> QED BY <1>3, FollowsProperties
  <1>6. Passes(Head1) /\ Going => Going'
    <2> SUFFICES ASSUME Passes(Head1), Going, NEW i \in 1..n, At(i)' \in Sendable, Clear(0, i)'
        PROVE (At(i)').piece # 1
      BY <1>1, <1>a DEF Going
    <2> QED BY <1>3, <1>n DEF Going
  <1>7. QED BY <1>2, <1>4, <1>5, <1>6

\* The kernel queues the next piece, or a notification: an abort in the middle of
\* a message, of which no more comes.
LEMMA AppendKeeps ==
  ASSUME Types, StreamInv, HeldInv, NEW x \in Records, queue' = Append(queue, x),
         sending' \in Sendable, UNCHANGED <<open, held, partial>>,
         x \in Sendable =>
           x = sending /\ IF EOR(x) THEN sending'.piece = 1 ELSE Follows(x, sending'),
         Cuts(x) => sending'.piece = 1 /\ (Aborts(x) => sending.piece # 1),
         Passes(x) => sending' = sending
  PROVE StreamInv' /\ HeldInv' /\ (Going => Going')
  <1>n. PICK n : n = Len(queue) OBVIOUS
  <1>1. /\ n \in Nat /\ Len(queue') = n + 1
        /\ \A i \in 1..n : queue'[i] = queue[i] /\ At(i)' = At(i) /\ At(i) = queue[i]
        /\ queue'[n + 1] = x /\ At(n + 1) = sending
        /\ At(n + 1)' = x /\ At(n + 2)' = sending'
        /\ \A j \in Nat, i \in 1..(n + 1) : Clear(j, i)' <=> Clear(j, i)
        /\ \A j \in 0..n : Clear(j, n + 2)' => Passes(x) /\ Clear(j, n + 1)
    BY <1>n, AppendStream
  <1>a. /\ (n + 1) + 1 = n + 2 /\ \A i \in 1..(n + 2) : i \in 1..n \/ i = n + 1 \/ i = n + 2
        /\ n + 1 \in 1..(n + 1) /\ \A i \in 1..n : i \in 1..(n + 1)
    BY <1>1
  <1>b. x \notin Notes \/ x \notin Sendable BY RecordKinds
  <1>s. sending \in Sendable BY DEF Types
  <1>2. StreamInv'
    <2> SUFFICES ASSUME NEW i \in 1..(n + 2), NEW j \in 1..(n + 1), j < i, Clear(j, i)'
        PROVE /\ At(i)' \in Sendable =>
                   /\ queue'[j] \in Sendable =>
                        (EOR(queue'[j]) /\ (At(i)').piece = 1) \/ Follows(queue'[j], At(i)')
                   /\ Cuts(queue'[j]) => (At(i)').piece = 1
              /\ Aborts(At(i)') => ~Cuts(queue'[j]) /\ (queue'[j] \in Sendable => ~EOR(queue'[j]))
      BY <1>n, <1>1, <1>a DEF StreamInv, Cuts, Aborts, EOR, Follows
    <2>1. CASE i \in 1..n
      <3>1. j \in 1..n /\ j \in Nat /\ i \in 1..(n + 1) BY <1>1, <2>1, SMTT(20)
      <3>2. QED BY <1>1, <2>1, <3>1, <1>n DEF StreamInv
    <2>2. CASE i = n + 1
      <3>1. j \in 1..n /\ j \in Nat /\ i \in 1..(n + 1) BY <1>1, <2>2
      <3>2. /\ queue[j] \in Sendable =>
                 (EOR(queue[j]) /\ sending.piece = 1) \/ Follows(queue[j], sending)
            /\ Cuts(queue[j]) => sending.piece = 1
        BY <1>1, <1>s, <2>2, <3>1, <1>n DEF StreamInv
      <3>3. CASE x \in Sendable
        <4>1. ~Aborts(x) BY <3>3, RecordKinds
        <4>2. QED BY <1>1, <2>2, <3>1, <3>2, <3>3, <4>1, Zenon
      <3>4. CASE x \notin Sendable
        <4>1. ASSUME Aborts(x) PROVE ~Cuts(queue[j]) /\ (queue[j] \in Sendable => ~EOR(queue[j]))
          <5>1. sending.piece # 1 BY <4>1, RecordKinds
          <5>2. QED BY <1>s, <3>2, <5>1, FollowsProperties
        <4>2. QED BY <1>1, <2>2, <3>1, <3>4, <4>1
      <3>5. QED BY <3>3, <3>4, Zenon
    <2>3. CASE i = n + 2
      <3>1. ~Aborts(At(i)') BY <1>1, <2>3, RecordKinds
      <3>2. CASE j = n + 1
        BY <1>1, <2>3, <3>1, <3>2
      <3>3. CASE j # n + 1
        <4>1. j \in 1..n /\ j \in 0..n /\ j < n + 1 BY <1>1, <3>3
        <4>2. Clear(j, n + 1) /\ sending' = sending BY <1>1, <2>3, <4>1
        <4>3. /\ queue[j] \in Sendable =>
                   (EOR(queue[j]) /\ sending.piece = 1) \/ Follows(queue[j], sending)
              /\ Cuts(queue[j]) => sending.piece = 1
          BY <1>1, <1>a, <1>s, <4>1, <4>2, <1>n DEF StreamInv
        <4>4. QED BY <1>1, <2>3, <3>1, <4>1, <4>2, <4>3
      <3>4. QED BY <3>2, <3>3, Zenon
    <2>4. QED BY <1>a, <2>1, <2>2, <2>3, Zenon
  <1>3. ASSUME NEW i \in 1..(n + 2), Clear(0, i)'
        PROVE \/ \E k \in 1..(n + 1) : At(i)' = At(k) /\ Clear(0, k)
              \/ Aborts(At(i)') /\ Clear(0, n + 1) /\ sending.piece # 1
              \/ At(i)' \in Notes /\ ~Aborts(At(i)')
    <2>0. 0 \in Nat /\ 0 \in 0..n BY <1>1
    <2>1. CASE i \in 1..n BY <1>1, <1>a, <1>3, <2>0, <2>1, Zenon
    <2>2. CASE i = n + 1
      <3>1. Clear(0, n + 1) /\ At(i)' = x BY <1>1, <1>a, <1>3, <2>0, <2>2, Zenon
      <3>2. CASE x \in Sendable
        <4>1. At(i)' = At(n + 1) BY <1>1, <3>1, <3>2
        <4>2. QED BY <1>a, <3>1, <4>1
      <3>3. CASE Aborts(x) BY <3>1, <3>3, RecordKinds
      <3>4. CASE x \in Notes /\ ~Aborts(x) BY <3>1, <3>4
      <3>5. QED BY <3>2, <3>3, <3>4 DEF Records
    <2>3. CASE i = n + 2
      <3>1. Passes(x) /\ Clear(0, n + 1) BY <1>1, <1>3, <2>0, <2>3
      <3>2. At(i)' = At(n + 1) BY <1>1, <2>3, <3>1
      <3>3. QED BY <1>a, <3>1, <3>2
    <2>4. QED BY <1>a, <2>1, <2>2, <2>3
  <1>4. HeldInv'
    <2> SUFFICES ASSUME open', NEW i \in 1..(n + 2), Clear(0, i)'
        PROVE /\ At(i)' \in Sendable /\ (At(i)').piece # 1 =>
                   partial' /\ \E p \in Sendable : held' = <<p>> /\ Follows(p, At(i)')
              /\ Aborts(At(i)') => partial'
      BY <1>1, <1>a DEF HeldInv, Aborts, Follows
    <2>1. CASE \E k \in 1..(n + 1) : At(i)' = At(k) /\ Clear(0, k)
      BY <2>1, <1>n DEF HeldInv
    <2>2. CASE Aborts(At(i)') /\ Clear(0, n + 1) /\ sending.piece # 1
      <3>1. partial BY <1>1, <1>a, <1>s, <2>2, <1>n DEF HeldInv
      <3>2. QED BY <2>2, <3>1, RecordKinds DEF Aborts
    <2>3. CASE At(i)' \in Notes /\ ~Aborts(At(i)')
      BY <2>3, RecordKinds
    <2>4. QED BY <1>3, <2>1, <2>2, <2>3
  <1>5. Going => Going'
    <2> SUFFICES ASSUME Going, NEW i \in 1..(n + 2), At(i)' \in Sendable, Clear(0, i)'
        PROVE (At(i)').piece # 1
      BY <1>1, <1>a DEF Going
    <2>1. PICK k \in 1..(n + 1) : At(i)' = At(k) /\ Clear(0, k)
      BY <1>3, RecordKinds
    <2>2. QED BY <2>1, <1>n DEF Going
  <1>6. QED BY <1>2, <1>4, <1>5

-----------------------------------------------------------------------------
(* The readers *)

\* A step of reader r, as the other readers and the lock see it.
Moves(r) ==
  /\ pc' \in [Readers -> PCs] /\ call' \in [Readers -> Calls \cup {"none"}]
  /\ rm' \in [Readers -> States] /\ mu' \in Readers \cup {NoOne}
  /\ \A n \in Readers \ {r} : pc'[n] = pc[n] /\ call'[n] = call[n] /\ rm'[n] = rm[n]
  /\ \A n \in Readers : pc'[n] \in {"top", "recv", "park"} <=> mu' = n
  /\ pc'[r] \in {"handler", "immediate"} => rm'[r].queued # <<>>
  /\ pc'[r] = "immediate" => call'[r] = "ReadMsg"
  /\ pc'[r] = "idle" => rm'[r] = Fresh

\* The stream, as it is left by a step.
StreamKept ==
  /\ queue' \in Seq(Records) /\ sending' \in Sendable /\ notes' \in 0..MaxNotes
  /\ partial' \in BOOLEAN /\ held' \in {<<>>} \cup {<<p>> : p \in Sendable}
  /\ StreamInv' /\ HeldInv'

\* A step of one reader keeps what another is in the middle of.
LEMMA ReaderKeeps ==
  ASSUME RecvInv, NEW r \in Readers, Moves(r), StreamKept, ReadOK(r)', MessageWhole',
         mu = r \/ (UNCHANGED <<queue, sending, held>> /\ (open' => open))
  PROVE RecvInv'
  <1>1. Types' BY DEF Types, Moves, StreamKept, RecvInv
  <1>2. ASSUME NEW n \in Readers, n # r PROVE ReadOK(n)'
    <2>1. pc'[n] = pc[n] /\ call'[n] = call[n] /\ rm'[n] = rm[n] BY <1>2, Zenon DEF Moves
    <2>2. ReadOK(n) BY DEF RecvInv, GotInv
    <2>3. CASE mu = r
      <3>1. pc[n] \notin {"recv", "park"} BY <1>2, <2>3, Zenon DEF RecvInv, Types
      <3>2. QED BY <2>1, <2>2, <3>1, Zenon DEF ReadOK, Middle
    <2>4. CASE UNCHANGED <<queue, sending, held>> /\ (open' => open)
      <3>1. Going => Going' BY <2>4, Zenon DEF Going, At, Clear
      <3>2. QED BY <2>1, <2>2, <2>4, <3>1, Zenon DEF ReadOK, Middle
    <2>5. QED BY <2>3, <2>4
  <1>3. GotInv' BY <1>2 DEF GotInv
  <1>4. QED BY <1>1, <1>3 DEF RecvInv, StreamKept

\* A call returns.
LEMMA ReturnMoves ==
  ASSUME RecvInv, NEW r \in Readers, NEW got, NEW errs, Return(r, got, errs),
         call[r] = "ReadMsg" => Whole(got, errs)
  PROVE Moves(r) /\ ReadOK(r)' /\ MessageWhole'
  <1>a. NoOne \notin Readers BY RecvAssumption
  <1>f. Fresh \in States /\ Fresh.queued = <<>> BY DEF Fresh, States
  <1>1. /\ pc' \in [Readers -> PCs] /\ pc'[r] = "idle"
        /\ call' \in [Readers -> Calls \cup {"none"}] /\ call'[r] = "none"
        /\ rm' \in [Readers -> States] /\ rm'[r] = Fresh
        /\ \A n \in Readers \ {r} : pc'[n] = pc[n] /\ call'[n] = call[n] /\ rm'[n] = rm[n]
    BY <1>f DEF Return, RecvInv, Types, PCs
  <1>2. /\ mu' \in Readers \cup {NoOne}
        /\ \A n \in Readers : pc'[n] \in {"top", "recv", "park"} <=> mu' = n
    BY <1>a, <1>1, SMTT(20) DEF Return, RecvInv, Types
  <1>3. MessageWhole'
    <2>1. ret'.call = call[r] /\ ret'.got = got /\ ret'.errs = errs BY Zenon DEF Return
    <2>2. QED BY <2>1 DEF MessageWhole, Whole
  <1>4. ReadOK(r)' BY <1>1, Zenon DEF ReadOK
  <1>5. QED BY <1>1, <1>2, <1>3, <1>4, Zenon DEF Moves

\* A call goes on, with the lock or waiting for it.
LEMMA GotoMoves ==
  ASSUME RecvInv, NEW r \in Readers, NEW to, Goto(r, to),
         \/ mu = r /\ to \in {"top", "recv", "park"}
         \/ mu # r /\ to = "lock",
         rm' \in [Readers -> States], \A n \in Readers \ {r} : rm'[n] = rm[n]
  PROVE /\ Moves(r) /\ MessageWhole' /\ pc'[r] = to /\ call'[r] = call[r]
  <1>1. pc' \in [Readers -> PCs] /\ pc'[r] = to /\ \A n \in Readers \ {r} : pc'[n] = pc[n]
    BY Zenon DEF Goto, RecvInv, Types, PCs
  <1>2. UNCHANGED <<mu, ret, call>> BY DEF Goto
  <1>3. MessageWhole' BY <1>2 DEF MessageWhole, RecvInv
  <1>4. QED BY <1>1, <1>2, <1>3, Zenon DEF Moves, RecvInv, Types

\* A call gives the lock up, if it has it, and turns to the handler.
LEMMA HandlerMoves ==
  ASSUME RecvInv, NEW r \in Readers, NEW to \in {"handler", "immediate"},
         pc' = [pc EXCEPT ![r] = to], mu' = IF mu = r THEN NoOne ELSE mu, UNCHANGED <<ret, call>>,
         NEW s \in States, s.queued # <<>>, rm' = [rm EXCEPT ![r] = s],
         to = "immediate" => call[r] = "ReadMsg"
  PROVE Moves(r) /\ MessageWhole' /\ pc'[r] = to /\ rm'[r] = s /\ call'[r] = call[r]
  <1>a. NoOne \notin Readers BY RecvAssumption
  <1>1. /\ pc' \in [Readers -> PCs] /\ pc'[r] = to
        /\ rm' \in [Readers -> States] /\ rm'[r] = s
        /\ \A n \in Readers \ {r} : pc'[n] = pc[n] /\ call'[n] = call[n] /\ rm'[n] = rm[n]
    BY DEF RecvInv, Types, PCs
  <1>2. /\ mu' \in Readers \cup {NoOne}
        /\ \A n \in Readers : pc'[n] \in {"top", "recv", "park"} <=> mu' = n
    BY <1>a, <1>1 DEF RecvInv, Types
  <1>3. MessageWhole' BY Zenon DEF MessageWhole, RecvInv
  <1>4. QED BY <1>1, <1>2, <1>3, Zenon DEF Moves, RecvInv, Types

\* The state of a ReadMsg that has more errors.
LEMMA WithErrsType ==
  ASSUME NEW s \in States, NEW errs \in SUBSET Errors
  PROVE /\ WithErrs(s, errs) \in States
        /\ WithErrs(s, errs).got = s.got /\ WithErrs(s, errs).max = s.max
        /\ WithErrs(s, errs).queued = s.queued
        /\ WithErrs(s, errs).errs = s.errs \cup errs
        /\ WithErrs(s, errs).tooLong <=> s.tooLong
  BY DEF WithErrs, States

\* A ReadMsg that is done returns, at once or after the handler.
LEMMA FinishMoves ==
  ASSUME RecvInv, NEW r \in Readers, NEW s \in States, Finish(r, s), call[r] = "ReadMsg",
         Whole(s.got, s.errs), s.max \in Maxes,
         s.tooLong => s.got # <<>> /\ Len(s.got) = s.max
  PROVE Moves(r) /\ ReadOK(r)' /\ MessageWhole'
  <1>1. CASE s.queued = <<>> BY <1>1, ReturnMoves DEF Finish
  <1>2. CASE s.queued # <<>>
    <2>1. Moves(r) /\ MessageWhole' /\ pc'[r] = "handler" /\ rm'[r] = s /\ call'[r] = call[r]
      BY <1>2, HandlerMoves, Zenon DEF Finish
    <2>2. ReadOK(r)' BY <2>1, Zenon DEF ReadOK, Whole, Middle
    <2>3. QED BY <2>1, <2>2
  <1>3. QED BY <1>1, <1>2

\* A piece that follows the last of a message goes on with it.
LEMMA AppendMessage ==
  ASSUME NEW got \in Seq(Sendable), NEW p \in Sendable, OneMessage(got),
         got = <<>> \/ Follows(got[Len(got)], p)
  PROVE /\ Append(got, p) \in Seq(Sendable) /\ Append(got, p) # <<>>
        /\ Append(got, p)[Len(Append(got, p))] = p
        /\ OneMessage(Append(got, p))
  <1> DEFINE n == Len(got)
             b == Append(got, p)
  <1>1. /\ b \in Seq(Sendable) /\ b # <<>> /\ n \in Nat /\ Len(b) = n + 1
        /\ \A i \in 1..n : b[i] = got[i]
        /\ b[n + 1] = p
    BY AppendFacts
  <1>2. n = 0 <=> got = <<>> OBVIOUS
  <1> HIDE DEF n, b
  <1>3. ASSUME NEW i \in 1..(Len(b) - 1) PROVE b[i + 1] = [b[i] EXCEPT !.piece = @ + 1]
    <2>1. CASE i = n
      <3>1. n # 0 /\ n \in 1..n BY <1>1, <2>1
      <3>2. Follows(got[n], p) /\ b[n] = got[n] BY <1>1, <1>2, <3>1 DEF n
      <3>3. QED BY <1>1, <2>1, <3>2 DEF Follows
    <2>2. CASE i # n
      <3>1. i \in 1..(n - 1) /\ i \in 1..n /\ i + 1 \in 1..n BY <1>1, <2>2
      <3>2. got[i + 1] = [got[i] EXCEPT !.piece = @ + 1] BY <3>1 DEF OneMessage, n
      <3>3. QED BY <1>1, <3>1, <3>2, Zenon
    <2>3. QED BY <2>1, <2>2
  <1>4. QED BY <1>1, <1>3 DEF OneMessage, b

\* The stream, when nothing is read.
LEMMA StayStream ==
  ASSUME RecvInv, UNCHANGED <<queue, sending, notes, partial>>,
         held' = held \/ (held' = <<>> /\ ~open'), open' => open
  PROVE StreamKept /\ (Going => Going')
  BY StayKeeps DEF StreamKept, RecvInv, Types

\* The stream, when a piece is read: it begins a message, or follows what the
\* caller holds.
LEMMA PieceRead ==
  ASSUME RecvInv, open, IsPiece, Pop, partial' = ~EOR(Head1), Hold(Head1)
  PROVE /\ StreamKept /\ Head1 \in Sendable
        /\ ~EOR(Head1) => Going' /\ held' = <<Head1>>
        /\ Head1.piece # 1 => \E p \in Sendable : held = <<p>> /\ Follows(p, Head1)
        /\ Going => Head1.piece # 1
  <1>n. PICK n : n = Len(queue) BY Zenon
  <1>1. queue # <<>> /\ queue' = Tail(queue) /\ sending' = sending /\ notes' = notes
    BY DEF IsPiece, Pop
  <1>2. /\ queue' \in Seq(Records) /\ Head1 \in Records /\ Head1 = At(1) /\ n \in Nat
    BY <1>n, <1>1, PopStream DEF RecvInv
  <1>3. Head1 \in Sendable BY <1>2, RecordKinds DEF IsPiece, Records
  <1>4. partial' \in BOOLEAN /\ (partial' <=> ~EOR(Head1)) BY Zenon
  <1>5. held' \in {<<>>} \cup {<<p>> : p \in Sendable} /\ (~EOR(Head1) => held' = <<Head1>>)
    BY <1>3 DEF Hold
  <1>6. ~Passes(Head1) BY <1>3, RecordKinds
  <1>7. StreamInv' /\ HeldInv' /\ (~EOR(Head1) => Going')
    BY <1>1, <1>3, <1>4, <1>6, PopKeeps DEF RecvInv
  <1>8. 1 \in 1..(Len(queue) + 1) /\ Clear(0, 1) BY <1>n, <1>2 DEF Clear
  <1>9. /\ Head1.piece # 1 => \E p \in Sendable : held = <<p>> /\ Follows(p, Head1)
        /\ Going => Head1.piece # 1
    BY <1>2, <1>3, <1>8 DEF RecvInv, HeldInv, Going
  <1>10. StreamKept BY <1>1, <1>2, <1>4, <1>5, <1>7 DEF StreamKept, RecvInv, Types
  <1>11. QED BY <1>3, <1>5, <1>7, <1>9, <1>10

\* The stream, when a notification is read: it cuts a message, or passes.
LEMMA NoteRead ==
  ASSUME RecvInv, open, IsNote, Pop, partial' \in BOOLEAN, held' \in {<<>>, held},
         Passes(Head1) /\ open' => held' = held /\ (partial' <=> partial)
  PROVE /\ StreamKept /\ Head1 \in Notes
        /\ ~MessageCut /\ Going => Going'
        /\ Aborts(Head1) => partial
        /\ Passes(Head1) <=> ~MessageCut
  <1>n. PICK n : n = Len(queue) BY Zenon
  <1>1. queue # <<>> /\ queue' = Tail(queue) /\ sending' = sending /\ notes' = notes
    BY DEF IsNote, Pop
  <1>2. /\ queue' \in Seq(Records) /\ Head1 \in Records /\ Head1 = At(1) /\ n \in Nat
    BY <1>n, <1>1, PopStream DEF RecvInv
  <1>3. Head1 \in Notes BY <1>2, RecordKinds DEF IsNote, Records
  <1>4. Head1 \notin Sendable /\ (Passes(Head1) <=> ~MessageCut)
    BY <1>3, RecordKinds DEF Passes, MessageCut
  <1>7. StreamInv' /\ HeldInv' /\ (Passes(Head1) /\ Going => Going')
    BY <1>1, <1>4, PopKeeps DEF RecvInv
  <1>8. 1 \in 1..(Len(queue) + 1) /\ Clear(0, 1) BY <1>n, <1>2 DEF Clear
  <1>9. Aborts(Head1) => partial
    BY <1>2, <1>8 DEF RecvInv, HeldInv
  <1>10. StreamKept BY <1>1, <1>2, <1>7 DEF StreamKept, RecvInv, Types
  <1>11. QED BY <1>3, <1>4, <1>7, <1>9, <1>10

-----------------------------------------------------------------------------
(* Each step *)

\* A reader makes a call, or gets recv.mu: no record moves.
LEMMA CallKeeps ==
  ASSUME RecvInv, NEW r \in Readers, ReadCall(r) \/ Lock(r)
  PROVE RecvInv'
  <1>a. NoOne \notin Readers BY RecvAssumption
  <1>1. CASE ReadCall(r)
    <2>1. PICK c \in Calls : call' = [call EXCEPT ![r] = c] BY <1>1, Zenon DEF ReadCall
    <2>2. call' \in [Readers -> Calls \cup {"none"}] /\ call'[r] = c
          /\ \A n \in Readers \ {r} : call'[n] = call[n]
      BY <2>1 DEF RecvInv, Types
    <2>3. /\ rm' \in [Readers -> States] /\ \A n \in Readers \ {r} : rm'[n] = rm[n]
          /\ rm'[r].got = <<>> /\ ~rm'[r].tooLong
          /\ c = "ReadMsg" => rm'[r].max \in Maxes
      <3>1. rm[r] = Fresh /\ Fresh \in States BY <1>1 DEF ReadCall, RecvInv, Types, Fresh, States
      <3>2. CASE c = "ReadMsg"
        <4>1. PICK m \in Maxes : rm' = [rm EXCEPT ![r].max = m] BY <1>1, <2>2, <3>2 DEF ReadCall
        <4>2. m \in Nat BY RecvAssumption
        <4>3. PICK s : s \in States /\ s.got = <<>> /\ ~s.tooLong /\ s = rm[r]
          BY <3>1, Zenon DEF Fresh
        <4>4. PICK u : u = [s EXCEPT !.max = m] BY Zenon
        <4>5. u \in States /\ u.got = <<>> /\ u.max = m /\ ~u.tooLong
          BY <4>2, <4>3, <4>4 DEF States
        <4>6. rm' = [rm EXCEPT ![r] = u] BY <4>1, <4>3, <4>4
        <4>7. QED BY <4>5, <4>6 DEF RecvInv, Types
      <3>3. CASE c # "ReadMsg"
        BY <1>1, <2>2, <3>1, <3>3 DEF ReadCall, RecvInv, Types, Fresh
      <3>4. QED BY <3>2, <3>3
    <2>4. /\ pc[r] = "idle" /\ pc' = [pc EXCEPT ![r] = "lock"]
          /\ UNCHANGED <<queue, sending, notes, partial, held, open, mu, ret>>
      BY <1>1 DEF ReadCall, kernVars, recvVars
    <2>5. pc' \in [Readers -> PCs] /\ pc'[r] = "lock" /\ \A n \in Readers \ {r} : pc'[n] = pc[n]
      BY <2>4 DEF RecvInv, Types, PCs
    <2>6. Moves(r) BY <2>2, <2>3, <2>4, <2>5, Zenon DEF Moves, RecvInv, Types
    <2>7. ReadOK(r)'
      <3>1. OneMessage(<<>>) BY DEF OneMessage
      <3>2. QED BY <2>2, <2>3, <2>5, <3>1, Zenon DEF ReadOK, Middle
    <2>8. MessageWhole' BY <2>4, Zenon DEF MessageWhole, RecvInv
    <2>9. StreamKept BY <2>4, StayStream
    <2>10. QED BY <2>4, <2>6, <2>7, <2>8, <2>9, ReaderKeeps
  <1>2. CASE Lock(r)
    <2>1. /\ pc[r] = "lock" /\ mu = NoOne /\ mu' = r /\ pc' = [pc EXCEPT ![r] = "top"]
          /\ ret' = NoReturn
          /\ UNCHANGED <<queue, sending, notes, partial, held, open, call, rm>>
      BY <1>2 DEF Lock, kernVars, recvVars
    <2>2. pc' \in [Readers -> PCs] /\ pc'[r] = "top" /\ \A n \in Readers \ {r} : pc'[n] = pc[n]
      BY <2>1, Zenon DEF RecvInv, Types, PCs
    <2>3. Moves(r) BY <1>a, <2>1, <2>2, Zenon DEF Moves, RecvInv, Types
    <2>4. ReadOK(r)' BY <2>1, <2>2, Zenon DEF ReadOK, Middle, RecvInv, GotInv
    <2>5. MessageWhole' BY <2>1 DEF MessageWhole, NoReturn
    <2>6. StreamKept BY <2>1, StayStream
    <2>7. QED BY <2>1, <2>3, <2>4, <2>5, <2>6, ReaderKeeps
  <1>3. QED BY <1>1, <1>2

\* A reader that has the lock looks for a record, or waits for one.
LEMMA WaitKeeps ==
  ASSUME RecvInv, NEW r \in Readers, Top(r) \/ Park(r) \/ Wake(r)
  PROVE RecvInv'
  <1>a. mu = r /\ UNCHANGED <<queue, sending, notes, partial, held, open>>
    BY Zenon DEF Top, Park, Wake, kernVars, recvVars, RecvInv, Types
  <1>b. StreamKept /\ (Going => Going') BY <1>a, StayStream
  <1>c. rm \in [Readers -> States] /\ ReadOK(r) /\ pc \in [Readers -> PCs]
    BY Zenon DEF RecvInv, Types, GotInv
  <1>1. CASE \E got, errs : Return(r, got, errs) /\ (call[r] = "ReadMsg" => got = <<>>)
    <2>1. PICK got, errs : Return(r, got, errs) /\ (call[r] = "ReadMsg" => got = <<>>) BY <1>1
    <2>2. call[r] = "ReadMsg" => Whole(got, errs) BY <2>1 DEF Whole, OneMessage
    <2>3. Moves(r) /\ ReadOK(r)' /\ MessageWhole' BY <2>1, <2>2, ReturnMoves
    <2>4. QED BY <1>a, <1>b, <2>3, ReaderKeeps
  <1>2. CASE \E to \in {"recv", "park"} : Goto(r, to) /\ UNCHANGED rm
    <2>1. PICK to \in {"recv", "park"} : Goto(r, to) /\ UNCHANGED rm BY <1>2
    <2>2. Moves(r) /\ MessageWhole' /\ pc'[r] = to /\ call'[r] = call[r] /\ rm'[r] = rm[r]
      BY <1>a, <1>c, <2>1, GotoMoves, Zenon
    <2>3. pc[r] \in {"top", "recv", "park"} BY <1>a, Zenon DEF RecvInv, Types
    <2>4. ReadOK(r)' BY <1>a, <1>b, <1>c, <2>1, <2>2, <2>3, Zenon DEF ReadOK, Middle
    <2>5. QED BY <1>a, <1>b, <2>2, <2>4, ReaderKeeps, Zenon
  <1>3. QED BY <1>1, <1>2 DEF Top, Park, Wake

\* Read and RecvMsg: what they return is no ReadMsg's.
LEMMA RecvKeeps ==
  ASSUME RecvInv, NEW r \in Readers,
         RecvData(r) \/ RecvNote(r) \/ RecvHandler(r) \/ RecvCut(r) \/ RecvEnds(r)
  PROVE RecvInv'
  <1>a. call[r] # "ReadMsg"
    BY DEF RecvData, RecvNote, RecvHandler, RecvCut, RecvEnds
  <1>b. ASSUME NEW got, NEW errs, Return(r, got, errs) PROVE Moves(r) /\ ReadOK(r)' /\ MessageWhole'
    BY <1>a, <1>b, ReturnMoves
  <1>f. Fresh \in States BY SMTT(20) DEF Fresh, States
  <1>1. CASE RecvData(r)
    <2>1. mu = r BY <1>1, Zenon DEF RecvData, RecvInv, Types
    <2>2. StreamKept BY <1>1, PieceRead, Zenon DEF RecvData
    <2>3. Moves(r) /\ ReadOK(r)' /\ MessageWhole' BY <1>1, <1>b, Zenon DEF RecvData
    <2>4. QED BY <2>1, <2>2, <2>3, ReaderKeeps
  <1>2. CASE RecvNote(r)
    <2>1. /\ mu = r /\ open /\ IsNote /\ Pop /\ open' = open
      BY <1>2, Zenon DEF RecvNote, RecvInv, Types
    <2>2. partial' \in BOOLEAN /\ (partial' <=> partial /\ Head1.kind # "PartialDelivery")
      BY <1>2, Zenon DEF RecvNote
    <2>3. held' \in {<<>>, held} /\ (Passes(Head1) => held' = held)
      BY <1>2 DEF RecvNote, Passes, Interrupted, MessageCut
    <2>4. StreamKept /\ Head1 \in Notes
      BY <2>1, <2>2, <2>3, NoteRead DEF Passes
    <2>5. CASE \E got, errs : Return(r, got, errs)
      BY <1>b, <2>1, <2>4, <2>5, ReaderKeeps
    <2>6. CASE Goto(r, "top") /\ UNCHANGED rm
      <3>1. Moves(r) /\ MessageWhole' /\ call'[r] = call[r]
        BY <2>1, <2>6, GotoMoves, Zenon DEF RecvInv, Types
      <3>2. ReadOK(r)' BY <1>a, <3>1, Zenon DEF ReadOK
      <3>3. QED BY <2>1, <2>4, <3>1, <3>2, ReaderKeeps, Zenon
    <2>7. CASE \E errs \in SUBSET {"ErrMessageInterrupted"} :
                 /\ pc' = [pc EXCEPT ![r] = "handler"] /\ mu' = NoOne /\ UNCHANGED <<call, ret>>
                 /\ rm' = [rm EXCEPT ![r].queued = <<Head1>>, ![r].errs = errs]
      <3>1. PICK errs \in SUBSET {"ErrMessageInterrupted"} :
              rm' = [rm EXCEPT ![r].queued = <<Head1>>, ![r].errs = errs]
        BY <2>7, Zenon
      <3>2. PICK s \in States : s.queued # <<>> /\ rm' = [rm EXCEPT ![r] = s]
        <4>a. "ErrMessageInterrupted" \in Errors BY DEF Errors
        <4>0. errs \in SUBSET Errors BY <3>1, <4>a, Zenon
        <4>1. rm[r] \in States /\ <<Head1>> \in Seq(Notes) BY <2>4, SMTT(20) DEF RecvInv, Types
        <4>2. PICK u : u = [rm[r] EXCEPT !.queued = <<Head1>>, !.errs = errs] OBVIOUS
        <4>3. u \in States /\ u.queued = <<Head1>> /\ <<Head1>> # <<>>
          BY <4>0, <4>1, <4>2, Zenon DEF States
        <4>4. rm' = [rm EXCEPT ![r] = u] BY <3>1, <4>2, Zenon
        <4>5. QED BY <4>3, <4>4, Zenon
      <3>3. Moves(r) /\ MessageWhole' /\ call'[r] = call[r]
        BY <2>1, <2>7, <3>2, HandlerMoves, Zenon
      <3>4. ReadOK(r)' BY <1>a, <3>3, Zenon DEF ReadOK
      <3>5. QED BY <2>1, <2>4, <3>3, <3>4, ReaderKeeps
    <2>8. QED BY <1>2, <2>5, <2>6, <2>7, Zenon DEF RecvNote
  <1>3. CASE RecvHandler(r)
    <2>1. UNCHANGED <<queue, sending, notes, partial, held, open>> /\ mu # r
      BY <1>3, Zenon DEF RecvHandler, kernVars, recvVars, RecvInv, Types
    <2>2. StreamKept BY <2>1, StayStream
    <2>3. CASE \E got, errs : Return(r, got, errs)
      BY <1>b, <2>1, <2>2, <2>3, ReaderKeeps
    <2>4. CASE Goto(r, "lock") /\ rm' = [rm EXCEPT ![r] = Fresh]
      <3>1. Moves(r) /\ MessageWhole' /\ call'[r] = call[r]
        BY <1>f, <2>1, <2>4, GotoMoves, Zenon DEF RecvInv, Types
      <3>2. ReadOK(r)' BY <1>a, <3>1, Zenon DEF ReadOK
      <3>3. QED BY <2>1, <2>2, <3>1, <3>2, ReaderKeeps
    <2>5. QED BY <1>3, <2>3, <2>4, Zenon DEF RecvHandler
  <1>4. CASE RecvCut(r)
    <2>1. mu = r /\ open /\ IsNote /\ Pop /\ UNCHANGED <<partial, held>>
      BY <1>4, Zenon DEF RecvCut, recvVars, RecvInv, Types
    <2>2. partial' \in BOOLEAN BY <2>1, Zenon DEF RecvInv, Types
    <2>3. StreamKept BY <2>1, <2>2, NoteRead
    <2>4. Moves(r) /\ ReadOK(r)' /\ MessageWhole' BY <1>4, <1>b, Zenon DEF RecvCut
    <2>5. QED BY <2>1, <2>3, <2>4, ReaderKeeps
  <1>5. CASE RecvEnds(r)
    <2>1. UNCHANGED <<queue, sending, notes, partial, held, open>>
      BY <1>5 DEF RecvEnds, kernVars, recvVars
    <2>2. StreamKept BY <2>1, StayStream
    <2>3. Moves(r) /\ ReadOK(r)' /\ MessageWhole' BY <1>5, <1>b DEF RecvEnds
    <2>4. QED BY <2>1, <2>2, <2>3, ReaderKeeps
  <1>6. QED BY <1>1, <1>2, <1>3, <1>4, <1>5

-----------------------------------------------------------------------------
(* The steps of ReadMsg *)

\* The state of a ReadMsg that has one more notification queued.
LEMMA QueuedType ==
  ASSUME NEW s \in States, NEW n \in Notes, NEW u, u = [s EXCEPT !.queued = Append(@, n)]
  PROVE /\ u \in States /\ u.queued # <<>> /\ u.got = s.got /\ u.max = s.max
        /\ u.errs = s.errs /\ (u.tooLong <=> s.tooLong)
  <1>1. s.queued \in Seq(Notes) BY DEF States
  <1>2. Append(s.queued, n) \in Seq(Notes) /\ Append(s.queued, n) # <<>> BY <1>1, AppendFacts
  <1>3. QED BY <1>2, Zenon DEF States

\* A ReadMsg that goes on with what it has.
LEMMA GoesOn ==
  ASSUME RecvInv, NEW r \in Readers, call[r] = "ReadMsg", pc[r] = "recv", open, Goto(r, "recv"),
         NEW u \in States, rm' = [rm EXCEPT ![r] = u],
         u.got = rm[r].got, u.max = rm[r].max, u.tooLong <=> rm[r].tooLong,
         rm[r].got # <<>> => held' = held /\ (Going => Going')
  PROVE Moves(r) /\ ReadOK(r)' /\ MessageWhole'
  <1>1. mu = r BY Zenon DEF RecvInv, Types
  <1>2. /\ rm' \in [Readers -> States] /\ rm'[r] = u
        /\ \A n \in Readers \ {r} : rm'[n] = rm[n]
    BY Zenon DEF RecvInv, Types
  <1>3. Moves(r) /\ MessageWhole' /\ pc'[r] = "recv" /\ call'[r] = call[r]
    BY <1>1, <1>2, GotoMoves, Zenon
  <1>4. ReadOK(r) BY DEF RecvInv, GotInv
  <1>5. ReadOK(r)' BY <1>2, <1>3, <1>4, Zenon DEF ReadOK, Middle
  <1>6. QED BY <1>3, <1>5, Zenon

\* A ReadMsg that ends with nothing, or says that the message is interrupted.
LEMMA StopsShort ==
  ASSUME RecvInv, NEW r \in Readers, call[r] = "ReadMsg", NEW s \in States, Finish(r, s),
         s.got = rm[r].got, s.max = rm[r].max, s.tooLong <=> rm[r].tooLong,
         s.got = <<>> \/ "ErrMessageInterrupted" \in s.errs
  PROVE Moves(r) /\ ReadOK(r)' /\ MessageWhole'
  <1>1. ReadOK(r) BY Zenon DEF RecvInv, GotInv
  <1>2. /\ Whole(s.got, s.errs) /\ s.max \in Maxes
        /\ s.tooLong => s.got # <<>> /\ Len(s.got) = s.max
    BY <1>1, Zenon DEF ReadOK, Whole
  <1>3. QED BY <1>2, FinishMoves, Zenon

\* A ReadMsg whose read fails: in the middle of a message the connection is aborted.
LEMMA EndedMoves ==
  ASSUME RecvInv, NEW r \in Readers, call[r] = "ReadMsg", NEW e \in Errors,
         FinishEnded(r, rm[r], e)
  PROVE /\ Moves(r) /\ ReadOK(r)' /\ MessageWhole'
        /\ UNCHANGED <<open, held>> \/ (~open' /\ held' = <<>>)
  <1>1. rm[r] \in States /\ ReadEnded(e) \in Errors BY Zenon DEF RecvInv, Types, ReadEnded, Errors
  <1>2. CASE rm[r].got = <<>>
    <2>1. PICK s : s = WithErrs(rm[r], {ReadEnded(e)}) BY Zenon
    <2>2. s \in States /\ s.got = rm[r].got /\ s.max = rm[r].max /\ (s.tooLong <=> rm[r].tooLong)
      BY <1>1, <2>1, WithErrsType, SMTT(20)
    <2>3. Finish(r, s) /\ UNCHANGED <<open, held>> BY <1>2, <2>1, Zenon DEF FinishEnded
    <2>4. QED BY <1>2, <2>2, <2>3, StopsShort, Zenon
  <1>3. CASE rm[r].got # <<>>
    <2>0. {"ErrMessageInterrupted", ReadEnded(e)} \in SUBSET Errors BY <1>1, Zenon DEF Errors
    <2>1. PICK s : s = WithErrs(rm[r], {"ErrMessageInterrupted", ReadEnded(e)}) BY Zenon
    <2>2. /\ s \in States /\ s.got = rm[r].got /\ s.max = rm[r].max
          /\ (s.tooLong <=> rm[r].tooLong) /\ "ErrMessageInterrupted" \in s.errs
      BY <1>1, <2>0, <2>1, WithErrsType, Zenon
    <2>3. Finish(r, s) /\ held' = <<>> BY <1>3, <2>1, Zenon DEF FinishEnded
    <2>4. ~open' BY <1>3, Zenon DEF FinishEnded
    <2>5. QED BY <2>2, <2>3, <2>4, StopsShort, Zenon
  <1>4. QED BY <1>2, <1>3, Zenon

\* A piece goes on with the message of the pieces before it.
LEMMA MsgDataKeeps ==
  ASSUME RecvInv, NEW r \in Readers, MsgData(r)
  PROVE RecvInv'
  <1> DEFINE s == rm[r]
             got == IF s.tooLong THEN s.got ELSE Append(s.got, Head1)
             tooLong == s.tooLong \/ (Len(got) = s.max /\ ~EOR(Head1))
             t == [s EXCEPT !.got = got, !.tooLong = tooLong]
             more == IF tooLong THEN {"ErrMessageTooLong"} ELSE {}
  <1>1. /\ pc[r] = "recv" /\ call[r] = "ReadMsg" /\ open /\ IsPiece /\ Pop
        /\ partial' = ~EOR(Head1) /\ Hold(Head1) /\ open' = open
        /\ IF EOR(Head1) THEN Finish(r, WithErrs(t, more))
           ELSE Goto(r, "recv") /\ rm' = [rm EXCEPT ![r] = t]
    BY DEF MsgData
  <1>2. mu = r /\ s \in States /\ ReadOK(r) BY <1>1 DEF RecvInv, Types, GotInv
  <1>3. /\ StreamKept /\ Head1 \in Sendable
        /\ ~EOR(Head1) => Going' /\ held' = <<Head1>>
        /\ Head1.piece # 1 => \E p \in Sendable : held = <<p>> /\ Follows(p, Head1)
        /\ Going => Head1.piece # 1
    BY <1>1, PieceRead
  <1> HIDE DEF s
  <1>4. s.got # <<>> /\ ~s.tooLong => Follows(s.got[Len(s.got)], Head1)
    <2>1. SUFFICES ASSUME s.got # <<>>, ~s.tooLong PROVE Follows(s.got[Len(s.got)], Head1)
      OBVIOUS
    <2>2. held = <<s.got[Len(s.got)]>> /\ Going
      BY <1>1, <1>2, <2>1 DEF ReadOK, Middle, s
    <2>3. PICK p \in Sendable : held = <<p>> /\ Follows(p, Head1) BY <1>3, <2>2
    <2>4. p = s.got[Len(s.got)] BY <2>2, <2>3
    <2>5. QED BY <2>3, <2>4
  <1>5. /\ s.got \in Seq(Sendable) /\ OneMessage(s.got) /\ s.max \in Maxes
        /\ s.tooLong => s.got # <<>> /\ Len(s.got) = s.max
    BY <1>1, <1>2 DEF ReadOK, States, s
  <1>6. /\ got \in Seq(Sendable) /\ OneMessage(got) /\ got # <<>>
        /\ ~s.tooLong => got[Len(got)] = Head1
        /\ s.tooLong => got = s.got
    BY <1>3, <1>4, <1>5, AppendMessage, Zenon
  <1>7. tooLong \in BOOLEAN BY Zenon
  <1> HIDE DEF got
  <1>8. PICK b : b \in BOOLEAN /\ (b <=> tooLong) /\ t = [s EXCEPT !.got = got, !.tooLong = b]
    BY <1>7, Zenon
  <1> HIDE DEF t
  <1>9. /\ t \in States /\ t.got = got /\ t.max = s.max /\ (t.tooLong <=> b)
        /\ b => Len(got) = s.max
    BY <1>2, <1>5, <1>6, <1>8, Zenon DEF States
  <1>10. CASE EOR(Head1)
    <2>1. more \in SUBSET Errors /\ (b => "ErrMessageTooLong" \in more) BY <1>8 DEF Errors
    <2>2. PICK e \in SUBSET Errors : e = more BY <2>1, Zenon
    <2>3. PICK u : u = WithErrs(t, e) OBVIOUS
    <2>4. /\ u \in States /\ u.got = got /\ u.max = s.max /\ u.errs = t.errs \cup e
          /\ u.tooLong <=> b
      BY <1>9, <2>2, <2>3, WithErrsType, SMTT(20)
    <2>5. Whole(u.got, u.errs)
      <3>1. CASE s.tooLong
        <4>1. b BY <1>8, <3>1
        <4>2. Len(got) \in Maxes /\ "ErrMessageTooLong" \in u.errs
          BY <1>5, <1>9, <2>1, <2>2, <2>4, <4>1, Zenon
        <4>3. QED BY <1>6, <2>4, <4>2 DEF Whole
      <3>2. CASE ~s.tooLong BY <1>6, <1>10, <2>4, <3>2, Zenon DEF Whole
      <3>3. QED BY <3>1, <3>2
    <2>6. Finish(r, u) BY <1>1, <1>10, <2>2, <2>3, Zenon
    <2>7. Moves(r) /\ ReadOK(r)' /\ MessageWhole'
      BY <1>1, <1>5, <1>6, <1>9, <2>4, <2>5, <2>6, FinishMoves, Zenon
    <2>8. QED BY <1>2, <1>3, <2>7, ReaderKeeps
  <1>11. CASE ~EOR(Head1)
    <2>1. Goto(r, "recv") /\ rm' = [rm EXCEPT ![r] = t] BY <1>1, <1>11, Zenon
    <2>2. /\ rm' \in [Readers -> States] /\ rm'[r] = t
          /\ \A n \in Readers \ {r} : rm'[n] = rm[n]
      BY <1>9, <2>1, Zenon DEF RecvInv, Types
    <2>3. Moves(r) /\ MessageWhole' /\ pc'[r] = "recv" /\ call'[r] = call[r]
      BY <1>2, <2>1, <2>2, GotoMoves, Zenon
    <2>4. ~b => ~s.tooLong BY <1>8
    <2>5. ReadOK(r)'
      BY <1>1, <1>3, <1>5, <1>6, <1>9, <1>11, <2>2, <2>3, <2>4, Zenon DEF ReadOK, Middle
    <2>6. QED BY <1>2, <1>3, <2>3, <2>5, ReaderKeeps, Zenon
  <1>12. QED BY <1>10, <1>11

\* A notification ends the message of a ReadMsg, or goes by.
LEMMA MsgNoteKeeps ==
  ASSUME RecvInv, NEW r \in Readers, MsgNote(r)
  PROVE RecvInv'
  <1> DEFINE s == rm[r]
             begun == s.got # <<>>
             bad == Framing # {}
             kept == Kept(handler /\ (~begun \/ ~s.full))
             t == WithErrs(s, Framing)
             Queue(x) == [x EXCEPT !.queued = Append(@, Head1)]
  <1>1. /\ pc[r] = "recv" /\ call[r] = "ReadMsg" /\ open /\ IsNote /\ Pop
    BY DEF MsgNote
  <1>2. mu = r /\ s \in States /\ ReadOK(r) BY <1>1, Zenon DEF RecvInv, Types, GotInv
  <1>3. Head1 \in Notes
    <2>1. Head1 \in Records BY <1>1, PopStream, Zenon DEF IsNote, Pop, RecvInv
    <2>2. QED BY <1>1, <2>1, RecordKinds, Zenon DEF IsNote, Records
  <1>4. /\ Framing \in SUBSET Errors /\ {"ErrMessageInterrupted"} \in SUBSET Errors
        /\ {"ErrNotificationTooLong"} \in SUBSET Errors /\ "EOF" \in Errors
    BY DEF Errors, Framing
  <1>5. /\ t \in States /\ t.got = s.got /\ t.max = s.max /\ (t.tooLong <=> s.tooLong)
    <2> HIDE DEF s
    <2>1. QED BY <1>2, <1>4, WithErrsType, Zenon DEF s
  <1>6. CASE begun /\ MessageCut
    <2>1. /\ held' = <<>>
          /\ \E x \in {t, Queue(t)} : Finish(r, WithErrs(x, {"ErrMessageInterrupted"}))
      BY <1>6 DEF MsgNote
    <2>2. partial' \in BOOLEAN BY <1>6, Zenon DEF MsgNote
    <2>3. Passes(Head1) <=> ~MessageCut BY <1>3 DEF Passes, MessageCut
    <2>4. StreamKept BY <1>1, <1>6, <2>1, <2>2, <2>3, NoteRead
    <2> HIDE DEF t, s
    <2>5. PICK x \in {t, Queue(t)} : Finish(r, WithErrs(x, {"ErrMessageInterrupted"})) BY <2>1
    <2>6. /\ x \in States /\ x.got = s.got /\ x.max = s.max /\ (x.tooLong <=> s.tooLong)
      BY <1>3, <1>5, <2>5, QueuedType
    <2>7. PICK u : u = WithErrs(x, {"ErrMessageInterrupted"}) OBVIOUS
    <2>8. /\ u \in States /\ u.got = s.got /\ u.max = s.max /\ (u.tooLong <=> s.tooLong)
          /\ "ErrMessageInterrupted" \in u.errs
      BY <1>4, <2>6, <2>7, WithErrsType
    <2>9. Moves(r) /\ ReadOK(r)' /\ MessageWhole' BY <1>1, <2>5, <2>7, <2>8, StopsShort DEF s
    <2>10. QED BY <1>2, <2>4, <2>9, ReaderKeeps
  <1>7. CASE ~(begun /\ MessageCut)
    <2>1. UNCHANGED partial BY <1>7, Zenon DEF MsgNote
    <2>2. partial' \in BOOLEAN /\ (partial' <=> partial) BY <2>1, Zenon DEF RecvInv, Types
    <2>3. Passes(Head1) <=> ~MessageCut BY <1>3 DEF Passes, MessageCut
    <2>a. ASSUME UNCHANGED <<open, held>>
          PROVE StreamKept /\ (begun => held' = held /\ (Going => Going'))
      BY <1>1, <1>7, <2>a, <2>2, <2>3, NoteRead, Zenon
    <2>b. ASSUME UNCHANGED <<open, held>>, Goto(r, "recv"), NEW u \in States,
                 rm' = [rm EXCEPT ![r] = u],
                 u.got = s.got, u.max = s.max, u.tooLong <=> s.tooLong
          PROVE RecvInv'
      <3>1. StreamKept /\ (begun => held' = held /\ (Going => Going')) BY <2>a, <2>b, Zenon
      <3>2. Moves(r) /\ ReadOK(r)' /\ MessageWhole' BY <1>1, <2>b, <3>1, GoesOn, Zenon
      <3>3. QED BY <1>2, <3>1, <3>2, ReaderKeeps, Zenon
    <2>4. CASE /\ Goto(r, "recv") /\ UNCHANGED <<open, held>>
               /\ rm' = [rm EXCEPT ![r] =
                    [t EXCEPT !.full = @ \/ (kept /\ Head1.form = "tooLong")]]
      <3> HIDE DEF t, kept
      <3>1. PICK u : u = [t EXCEPT !.full = @ \/ (kept /\ Head1.form = "tooLong")] BY Zenon
      <3>2. u \in States /\ u.got = t.got /\ u.max = t.max /\ (u.tooLong <=> t.tooLong)
        BY <1>5, <3>1 DEF States
      <3>3. QED BY <1>5, <2>4, <2>b, <3>1, <3>2, Zenon
    <2>5. CASE bad /\ ~begun /\ Finish(r, t) /\ UNCHANGED <<open, held>>
      <3> HIDE DEF t
      <3>1. Moves(r) /\ ReadOK(r)' /\ MessageWhole' BY <1>1, <1>5, <2>5, StopsShort, Zenon
      <3>2. QED BY <1>2, <2>5, <2>a, <3>1, ReaderKeeps, Zenon
    <2>6. CASE FinishEnded(r, s, "EOF")
      <3>1. /\ Moves(r) /\ ReadOK(r)' /\ MessageWhole'
            /\ UNCHANGED <<open, held>> \/ (~open' /\ held' = <<>>)
        BY <1>1, <1>4, <2>6, EndedMoves, Zenon
      <3>2. StreamKept BY <1>1, <2>2, <2>3, <3>1, NoteRead, Zenon
      <3>3. QED BY <1>2, <3>1, <3>2, ReaderKeeps
    <2>7. CASE Goto(r, "recv") /\ UNCHANGED <<rm, open, held>>
      <3>1. rm' = [rm EXCEPT ![r] = s] BY <2>7, Zenon DEF RecvInv, Types
      <3>2. QED BY <1>2, <2>7, <2>b, <3>1, Zenon
    <2>8. CASE /\ ~begun
               /\ held' = IF MessageCut THEN <<>> ELSE held
               /\ pc' = [pc EXCEPT ![r] = "immediate"] /\ mu' = NoOne
               /\ rm' = [rm EXCEPT ![r] = Queue(s)]
               /\ UNCHANGED <<open, ret, call>>
      <3>1. StreamKept BY <1>1, <2>2, <2>3, <2>8, NoteRead
      <3>2. PICK u : u = Queue(s) BY Zenon
      <3>a. PICK x : x = s OBVIOUS
      <3>b. u = [x EXCEPT !.queued = Append(@, Head1)] /\ x \in States BY <1>2, <3>2, <3>a
      <3>c. /\ u \in States /\ u.queued # <<>> /\ u.got = x.got /\ u.max = x.max
            /\ u.errs = x.errs /\ (u.tooLong <=> x.tooLong)
        <4>1. x.queued \in Seq(Notes) BY <3>b DEF States
        <4>2. Append(x.queued, Head1) \in Seq(Notes) /\ Append(x.queued, Head1) # <<>>
          BY <1>3, <4>1, AppendFacts
        <4>3. QED BY <3>b, <4>2, Zenon DEF States
      <3>3. /\ u \in States /\ u.queued # <<>> /\ u.got = s.got /\ u.max = s.max
            /\ u.tooLong <=> s.tooLong
        BY <3>a, <3>c
      <3>4. Moves(r) /\ MessageWhole' /\ pc'[r] = "immediate" /\ rm'[r] = u /\ call'[r] = call[r]
        BY <1>1, <1>2, <2>8, <3>2, <3>3, HandlerMoves, Zenon
      <3>5. ReadOK(r)' BY <1>1, <1>2, <2>8, <3>3, <3>4 DEF ReadOK, Middle
      <3>6. QED BY <1>2, <3>1, <3>4, <3>5, ReaderKeeps, Zenon
    <2>9. CASE /\ Goto(r, "recv") /\ UNCHANGED <<open, held>>
               /\ \/ rm' = [rm EXCEPT ![r] = Queue(s)]
                  \/ rm' = [rm EXCEPT ![r] =
                       [WithErrs(s, {"ErrNotificationTooLong"}) EXCEPT !.full = TRUE]]
      <3>1. CASE rm' = [rm EXCEPT ![r] = Queue(s)]
        <4>1. PICK u : u = Queue(s) BY Zenon
        <4>2. u \in States /\ u.got = s.got /\ u.max = s.max /\ (u.tooLong <=> s.tooLong)
          BY <1>2, <1>3, <4>1, QueuedType
        <4>3. QED BY <2>9, <2>b, <3>1, <4>1, <4>2, Zenon
      <3>2. CASE rm' = [rm EXCEPT ![r] =
                   [WithErrs(s, {"ErrNotificationTooLong"}) EXCEPT !.full = TRUE]]
        <4>1. PICK x : x = WithErrs(s, {"ErrNotificationTooLong"}) OBVIOUS
        <4>2. x \in States /\ x.got = s.got /\ x.max = s.max /\ (x.tooLong <=> s.tooLong)
          BY <1>2, <1>4, <4>1, WithErrsType, Zenon
        <4>3. PICK v : v \in BOOLEAN /\ v = TRUE BY Zenon
        <4>4. PICK u : u = [x EXCEPT !.full = v] BY Zenon
        <4>5. u \in States /\ u.got = s.got /\ u.max = s.max /\ (u.tooLong <=> s.tooLong)
          BY <4>2, <4>3, <4>4, Zenon DEF States
        <4>6. rm' = [rm EXCEPT ![r] = u] BY <3>2, <4>1, <4>3, <4>4, Zenon
        <4>7. QED BY <2>9, <2>b, <4>5, <4>6, Zenon
      <3>3. QED BY <2>9, <3>1, <3>2
    <2>10. QED BY <1>7, <2>4, <2>5, <2>6, <2>7, <2>8, <2>9, Zenon DEF MsgNote
  <1>8. QED BY <1>6, <1>7, Zenon

\* The handler runs without the lock, and keeps what its ReadMsg will return.
LEMMA HandlerKeeps ==
  ASSUME RecvInv, NEW r \in Readers, MsgImmediate(r) \/ MsgHandler(r)
  PROVE RecvInv'
  <1>1. /\ pc[r] \in {"immediate", "handler"} /\ call[r] = "ReadMsg"
        /\ UNCHANGED <<queue, sending, notes, partial, held, open>>
    BY DEF MsgImmediate, MsgHandler, kernVars, recvVars, RecvInv, Types
  <1>2. /\ mu # r /\ rm[r] \in States /\ rm[r].queued # <<>> /\ ReadOK(r)
        /\ rm[r].queued \in Seq(Notes)
    BY <1>1, Zenon DEF RecvInv, Types, GotInv, States
  <1>3. StreamKept BY <1>1, StayStream
  <1>4. CASE MsgImmediate(r)
    <2>1. CASE \E errs : Return(r, <<>>, errs)
      <3>1. \A errs : Whole(<<>>, errs) BY DEF Whole, OneMessage
      <3>2. QED BY <1>1, <1>3, <2>1, <3>1, ReturnMoves, ReaderKeeps, Zenon
    <2>2. CASE Goto(r, "lock") /\ rm' = [rm EXCEPT ![r].queued = <<>>]
      <3>1. PICK u : u = [rm[r] EXCEPT !.queued = <<>>] BY Zenon
      <3>2. /\ u \in States /\ u.got = rm[r].got /\ u.max = rm[r].max
            /\ u.tooLong <=> rm[r].tooLong
        <4>1. <<>> \in Seq(Notes) OBVIOUS
        <4>2. QED BY <1>2, <3>1, <4>1, Zenon DEF States
      <3>3. rm' = [rm EXCEPT ![r] = u] BY <2>2, <3>1
      <3>4. /\ rm' \in [Readers -> States] /\ rm'[r] = u
            /\ \A n \in Readers \ {r} : rm'[n] = rm[n]
        BY <3>2, <3>3, Zenon DEF RecvInv, Types
      <3>5. Moves(r) /\ MessageWhole' /\ pc'[r] = "lock" /\ call'[r] = call[r]
        BY <1>2, <2>2, <3>4, GotoMoves
      <3>6. pc[r] = "immediate" BY <1>4 DEF MsgImmediate
      <3>7. ReadOK(r)' BY <1>1, <1>2, <3>2, <3>4, <3>5, <3>6, Zenon DEF ReadOK, Middle
      <3>8. QED BY <1>1, <1>3, <3>5, <3>7, ReaderKeeps, Zenon
    <2>3. QED BY <1>4, <2>1, <2>2 DEF MsgImmediate
  <1>5. CASE MsgHandler(r)
    <2>1. PICK herr \in {{}, {"handler"}} :
            Finish(r, WithErrs([rm[r] EXCEPT !.queued = Tail(@)], herr))
      BY <1>5, Zenon DEF MsgHandler
    <2>2. pc[r] = "handler" BY <1>5 DEF MsgHandler
    <2>3. PICK x : x = [rm[r] EXCEPT !.queued = Tail(@)] BY Zenon
    <2>4. Tail(rm[r].queued) \in Seq(Notes) BY <1>2, TailFacts
    <2>5. /\ x \in States /\ x.got = rm[r].got /\ x.max = rm[r].max /\ x.errs = rm[r].errs
          /\ x.tooLong <=> rm[r].tooLong
      BY <1>2, <2>3, <2>4, Zenon DEF States
    <2>6. PICK u : u = WithErrs(x, herr) OBVIOUS
    <2>7. herr \in SUBSET Errors BY DEF Errors
    <2>8. /\ u \in States /\ u.got = rm[r].got /\ u.max = rm[r].max
          /\ u.errs = rm[r].errs \cup herr /\ (u.tooLong <=> rm[r].tooLong)
      BY <2>5, <2>6, <2>7, WithErrsType, SMTT(20)
    <2>9. Whole(u.got, u.errs) BY <1>1, <1>2, <2>2, <2>8, Zenon DEF ReadOK, Whole
    <2>10. Finish(r, u) BY <2>1, <2>3, <2>6
    <2>11. Moves(r) /\ ReadOK(r)' /\ MessageWhole'
      BY <1>1, <1>2, <2>8, <2>9, <2>10, FinishMoves, Zenon DEF ReadOK
    <2>12. QED BY <1>1, <1>3, <2>11, ReaderKeeps, Zenon
  <1>6. QED BY <1>4, <1>5

\* A ReadMsg ends with a record cut short, or with a read that fails.
LEMMA MsgEndKeeps ==
  ASSUME RecvInv, NEW r \in Readers, MsgCut(r) \/ MsgEnds(r)
  PROVE RecvInv'
  <1>1. rm[r] \in States /\ call[r] = "ReadMsg" BY Zenon DEF RecvInv, Types, MsgCut, MsgEnds
  <1>2. CASE MsgCut(r)
    <2>1. mu = r /\ open /\ IsNote /\ Pop /\ UNCHANGED <<partial, held>>
      BY <1>2, Zenon DEF MsgCut, recvVars, RecvInv, Types
    <2>2. partial' \in BOOLEAN /\ (partial' <=> partial) BY <2>1, Zenon DEF RecvInv, Types
    <2>3. StreamKept BY <2>1, <2>2, NoteRead
    <2>4. PICK e : e = {"ErrShortNotification"} \cup
                       IF rm[r].got # <<>> THEN {"ErrMessageInterrupted"} ELSE {}
      BY Zenon
    <2>5. e \in SUBSET Errors /\ (rm[r].got # <<>> => "ErrMessageInterrupted" \in e)
      BY <2>4 DEF Errors
    <2>6. PICK u : u = WithErrs(rm[r], e) OBVIOUS
    <2>7. /\ u \in States /\ u.got = rm[r].got /\ u.max = rm[r].max
          /\ u.errs = rm[r].errs \cup e /\ (u.tooLong <=> rm[r].tooLong)
      BY <1>1, <2>5, <2>6, WithErrsType, Zenon
    <2>8. Finish(r, u) BY <1>2, <2>4, <2>6, Zenon DEF MsgCut
    <2>9. Moves(r) /\ ReadOK(r)' /\ MessageWhole' BY <1>1, <2>5, <2>7, <2>8, StopsShort, Zenon
    <2>10. QED BY <2>1, <2>3, <2>9, ReaderKeeps
  <1>3. CASE MsgEnds(r)
    <2>1. PICK e \in Ending(r) : FinishEnded(r, rm[r], e) BY <1>3 DEF MsgEnds
    <2>2. e \in Errors /\ pc[r] \in {"recv", "park"} BY <2>1 DEF Ending, Errors
    <2>3. mu = r /\ UNCHANGED <<queue, sending, notes, partial>>
      BY <1>3, <2>2, Zenon DEF MsgEnds, kernVars, recvVars, RecvInv, Types
    <2>4. /\ Moves(r) /\ ReadOK(r)' /\ MessageWhole'
          /\ UNCHANGED <<open, held>> \/ (~open' /\ held' = <<>>)
      BY <1>1, <2>1, <2>2, EndedMoves, Zenon
    <2>5. StreamKept BY <2>3, <2>4, StayStream
    <2>6. QED BY <2>3, <2>4, <2>5, ReaderKeeps
  <1>4. QED BY <1>2, <1>3

-----------------------------------------------------------------------------
(* The other steps *)

\* Subscribing and closing touch no record, and the kernel only adds to the
\* queue.
LEMMA OthersKeep ==
  ASSUME RecvInv,
         \/ \E t \in Internal, on \in BOOLEAN : Subscribe(t, on)
         \/ Close \/ QueuePiece \/ \E k \in Kinds, f \in Forms : QueueNote(k, f)
  PROVE RecvInv'
  <1>a. UNCHANGED <<partial, held, mu, pc, call, rm, ret>>
    BY Zenon DEF Subscribe, Close, QueuePiece, QueueNote, kernOthers, kernVars, recvVars
  <1>b. ASSUME StreamKept, open' => open, Going => Going' PROVE RecvInv'
    <2>1. Types' BY <1>a, <1>b, Zenon DEF RecvInv, Types, StreamKept
    <2>2. MessageWhole' BY <1>a, Zenon DEF RecvInv, MessageWhole
    <2>3. ASSUME NEW r \in Readers PROVE ReadOK(r)'
      <3>1. ReadOK(r) BY DEF RecvInv, GotInv
      <3>2. QED BY <1>a, <1>b, <3>1, Zenon DEF ReadOK, Middle
    <2>4. QED BY <1>b, <2>1, <2>2, <2>3, Zenon DEF RecvInv, GotInv, StreamKept
  <1>1. CASE \E t \in Internal, on \in BOOLEAN : Subscribe(t, on)
    BY <1>1, <1>a, <1>b, StayStream, SMTT(20) DEF Subscribe, kernVars
  <1>2. CASE Close
    <2>1. ~open' BY <1>2, Zenon DEF Close
    <2>2. QED BY <1>2, <1>a, <1>b, <2>1, StayStream, Zenon DEF Close, kernVars
  <1>3. CASE QueuePiece
    <2>1. /\ queue' = Append(queue, sending)
          /\ UNCHANGED <<notes, open>>
          /\ sending' = IF EOR(sending) THEN NextMsg ELSE [sending EXCEPT !.piece = @ + 1]
      BY <1>3 DEF QueuePiece, kernOthers
    <2>2. sending \in Sendable /\ sending \in Records BY Zenon DEF RecvInv, Types, Records
    <2>3. /\ sending' \in Sendable
          /\ IF EOR(sending) THEN sending'.piece = 1 ELSE Follows(sending, sending')
      <3>1. MsgLen \in Nat \ {0} BY RecvAssumption
      <3>2. QED BY <2>1, <2>2, <3>1 DEF Sendable, EOR, NextMsg, Follows
    <2>4. ~Cuts(sending) /\ ~Passes(sending) BY <2>2, RecordKinds
    <2>5. StreamInv' /\ HeldInv' /\ (Going => Going')
      BY <1>a, <2>1, <2>2, <2>3, <2>4, AppendKeeps DEF RecvInv
    <2>6. queue' \in Seq(Records) BY <2>1, <2>2, AppendFacts DEF RecvInv, Types
    <2>7. StreamKept BY <1>a, <2>1, <2>3, <2>5, <2>6 DEF StreamKept, RecvInv, Types
    <2>8. QED BY <1>b, <2>1, <2>5, <2>7
  <1>4. CASE \E k \in Kinds, f \in Forms : QueueNote(k, f)
    <2>0. PICK k \in Kinds, f \in Forms : QueueNote(k, f) BY <1>4
    <2>1. /\ notes < MaxNotes /\ notes' = notes + 1
          /\ queue' = Append(queue, [id |-> notes + 1, kind |-> k, form |-> f])
          /\ k = "PartialDelivery" => sending.piece > 1
          /\ UNCHANGED open
          /\ sending' = IF k \in {"PartialDelivery", "Restart"} /\ sending.piece > 1
                        THEN NextMsg ELSE sending
      BY <2>0, Zenon DEF QueueNote, kernOthers
    <2>2. PICK x : x = [id |-> notes + 1, kind |-> k, form |-> f] BY Zenon
    <2>3. notes \in 0..MaxNotes /\ MaxNotes \in Nat /\ notes + 1 \in 1..MaxNotes
      BY <2>1, RecvAssumption, SMTT(20) DEF RecvInv, Types
    <2>4. x \in Notes /\ x.kind = k BY <2>2, <2>3 DEF Notes
    <2>5. x \in Records /\ x \notin Sendable BY <2>4, RecordKinds DEF Records
    <2>6. sending \in Sendable /\ sending.piece \in Nat /\ sending.piece >= 1
      <3>1. sending \in Sendable BY Zenon DEF RecvInv, Types
      <3>2. QED BY RecvAssumption, <3>1 DEF Sendable
    <2>7. sending' \in Sendable
      <3>1. MsgLen \in Nat \ {0} BY RecvAssumption
      <3>2. QED BY <2>1, <2>6, <3>1, SMTT(20) DEF Sendable, NextMsg
    <2>8. Cuts(x) => sending'.piece = 1 /\ (Aborts(x) => sending.piece # 1)
      BY <2>1, <2>4, <2>6, SMTT(20) DEF Cuts, Aborts, NextMsg
    <2>9. Passes(x) => sending' = sending BY <2>1, <2>4 DEF Passes
    <2>10. StreamInv' /\ HeldInv' /\ (Going => Going')
      BY <1>a, <2>1, <2>2, <2>5, <2>7, <2>8, <2>9, AppendKeeps, Zenon DEF RecvInv
    <2>11. queue' \in Seq(Records) BY <2>1, <2>2, <2>5, AppendFacts, Zenon DEF RecvInv, Types
    <2>12. StreamKept
      <3>1. /\ partial \in BOOLEAN /\ held \in {<<>>} \cup {<<p>> : p \in Sendable}
            /\ notes' \in 0..MaxNotes
        BY <2>1, <2>3 DEF RecvInv, Types
      <3>2. QED BY <1>a, <2>7, <2>10, <2>11, <3>1, Zenon DEF StreamKept
    <2>13. open' => open BY <2>1, Zenon
    <2>14. QED BY <1>b, <2>10, <2>12, <2>13, Zenon
  <1>5. QED BY <1>1, <1>2, <1>3, <1>4

\* RecvInv holds in every reachable state.
LEMMA RecvInvHolds == Spec => []RecvInv
  <1>1. Init => RecvInv
    <2> SUFFICES ASSUME Init PROVE RecvInv OBVIOUS
    <2>0. MsgLen \in Nat \ {0} BY RecvAssumption
    <2>1. /\ queue = <<>> /\ sending = [msg |-> 1, piece |-> 1] /\ notes = 0 /\ mu = NoOne
          /\ held = <<>> /\ ret = NoReturn /\ pc = [r \in Readers |-> "idle"]
          /\ call = [r \in Readers |-> "none"] /\ rm = [r \in Readers |-> Fresh]
      BY DEF Init
    <2>2. partial \in BOOLEAN BY Zenon DEF Init
    <2>3. sending \in Sendable /\ sending.piece = 1 BY <2>0, <2>1 DEF Sendable
    <2>4. queue \in Seq(Records) /\ Len(queue) = 0 BY <2>1
    <2>5. Fresh \in States
      <3>1. <<>> \in Seq(Sendable) /\ <<>> \in Seq(Notes) OBVIOUS
      <3>2. QED BY <3>1, Zenon DEF Fresh, States
    <2>6. Types
      <3>1. MaxNotes \in Nat /\ NoOne \notin Readers BY RecvAssumption
      <3>2. QED BY <2>1, <2>2, <2>3, <2>4, <2>5, <3>1, SMTT(20) DEF Types, PCs
    <2>7. StreamInv
      <3>1. \A j \in 1..Len(queue) : FALSE BY <2>4
      <3>2. QED BY <3>1, Zenon DEF StreamInv
    <2>8. \A i \in 1..(Len(queue) + 1) : At(i) = sending BY <2>4 DEF At
    <2>9. HeldInv BY <2>3, <2>8, RecordKinds DEF HeldInv
    <2>10. GotInv BY <2>1, Zenon DEF GotInv, ReadOK
    <2>11. MessageWhole BY <2>1, Zenon DEF MessageWhole, NoReturn
    <2>12. QED BY <2>6, <2>7, <2>9, <2>10, <2>11 DEF RecvInv
  <1>2. RecvInv /\ [Next]_vars => RecvInv'
    <2> SUFFICES ASSUME RecvInv, [Next]_vars PROVE RecvInv' OBVIOUS
    <2>1. ASSUME NEW r \in Readers,
                 ReadCall(r) \/ Lock(r) \/ ReadStep(r) \/ RecvEnds(r) \/ MsgEnds(r)
          PROVE RecvInv'
      BY <2>1, CallKeeps, WaitKeeps, RecvKeeps, MsgDataKeeps, MsgNoteKeeps, HandlerKeeps,
         MsgEndKeeps, Zenon DEF ReadStep
    <2>2. CASE UNCHANGED vars
      <3>1. /\ UNCHANGED <<queue, sending, notes, partial, held, open>>
            /\ UNCHANGED <<mu, pc, call, rm, ret>>
        BY <2>2 DEF vars, kernVars, recvVars
      <3>2. StreamKept /\ (Going => Going') BY <3>1, StayStream
      <3>3. Types' /\ MessageWhole'
        BY <3>1, <3>2, Zenon DEF RecvInv, Types, MessageWhole, StreamKept
      <3>4. ASSUME NEW r \in Readers PROVE ReadOK(r)'
        <4>1. ReadOK(r) BY DEF RecvInv, GotInv
        <4>2. QED BY <3>1, <3>2, <4>1, Zenon DEF ReadOK, Middle
      <3>5. QED BY <3>2, <3>3, <3>4, Zenon DEF RecvInv, GotInv, StreamKept
    <2>3. QED BY <2>1, <2>2, OthersKeep DEF Next
  <1>3. QED BY <1>1, <1>2, PTL DEF Spec

-----------------------------------------------------------------------------
(* The theorems *)

\* What a ReadMsg returns is one message, whole unless it says otherwise, for
\* any number of readers and any mix of Read, RecvMsg and ReadMsg on the
\* connection, whatever notifications come between the pieces.
THEOREM ReadMsgReturnsOneMessage == Spec => []MessageWhole
  <1>1. RecvInv => MessageWhole BY DEF RecvInv
  <1>2. QED BY <1>1, RecvInvHolds, PTL

\* Only a step of a reader that holds recv.mu, on an open connection, takes a
\* record off the queue.
LEMMA TakingSteps ==
  ASSUME RecvInv, [Next]_vars, queue # <<>>, queue' = Tail(queue)
  PROVE open /\ \E r \in Readers : mu = r /\ ( RecvData(r) \/ RecvNote(r) \/ RecvCut(r)
                                      \/ MsgData(r) \/ MsgNote(r) \/ MsgCut(r) )
  <1>1. queue \in Seq(Records) BY Zenon DEF RecvInv, Types
  <1>n. PICK n : n = Len(queue) OBVIOUS
  <1>2. n \in Nat /\ Len(queue) = n /\ Len(queue') = n - 1 BY <1>1, <1>n, TailFacts
  <1>3. queue' # queue
    <2>1. n - 1 # n BY <1>2
    <2>2. QED BY <1>2, <2>1
  <1>4. ~QueuePiece /\ ~(\E k \in Kinds, f \in Forms : QueueNote(k, f))
    <2>1. \A x : Len(Append(queue, x)) = n + 1 BY <1>1, <1>2
    <2>2. n - 1 # n + 1 BY <1>2
    <2>3. \A x : queue' # Append(queue, x) BY <1>2, <2>1, <2>2
    <2>4. QED BY <2>3, Zenon DEF QueuePiece, QueueNote
  <1>5. ~UNCHANGED vars BY <1>3 DEF vars, kernVars
  <1>6. ~Close /\ ~(\E t \in Internal, on \in BOOLEAN : Subscribe(t, on))
    BY <1>3 DEF Close, Subscribe, kernVars
  <1>7. PICK r \in Readers : ReadCall(r) \/ Lock(r) \/ ReadStep(r) \/ RecvEnds(r) \/ MsgEnds(r)
    BY <1>4, <1>5, <1>6 DEF Next
  <1>8. ~ReadCall(r) /\ ~Lock(r) /\ ~RecvEnds(r) /\ ~MsgEnds(r)
    BY <1>3 DEF ReadCall, Lock, RecvEnds, MsgEnds, kernVars
  <1>9. ~Top(r) /\ ~Park(r) /\ ~Wake(r) /\ ~RecvHandler(r) /\ ~MsgImmediate(r) /\ ~MsgHandler(r)
    BY <1>3 DEF Top, Park, Wake, RecvHandler, MsgImmediate, MsgHandler, kernVars
  <1>10. RecvData(r) \/ RecvNote(r) \/ RecvCut(r) \/ MsgData(r) \/ MsgNote(r) \/ MsgCut(r)
    BY <1>7, <1>8, <1>9 DEF ReadStep
  <1>11. open /\ pc[r] = "recv"
    BY <1>10, Zenon DEF RecvData, RecvNote, RecvCut, MsgData, MsgNote, MsgCut
  <1>12. QED BY <1>10, <1>11, Zenon DEF RecvInv, Types

\* No read begins in the middle of a message: a piece that a call takes begins
\* a message, or is the one after the piece the caller got last.
THEOREM NoReadBeginsInTheMiddle == Spec => NoOrphanPiece
  <1>1. RecvInv /\ [Next]_vars =>
          [\A p \in Pieces : Takes(p) =>
             p.piece = 1 \/ held = <<[p EXCEPT !.piece = @ - 1]>>]_vars
    <2> SUFFICES ASSUME RecvInv, [Next]_vars, NEW p \in Pieces, Takes(p), p.piece # 1
                 PROVE held = <<[p EXCEPT !.piece = @ - 1]>>
      OBVIOUS
    <2>1. IsPiece /\ Head1 = p /\ queue # <<>> /\ queue' = Tail(queue) BY DEF Takes, IsPiece
    <2>2. open BY <2>1, TakingSteps
    <2>3. PICK n : n = Len(queue) BY Zenon
    <2>4. queue \in Seq(Records) /\ n \in Nat /\ n > 0
      <3>1. queue \in Seq(Records) BY Zenon DEF RecvInv, Types
      <3>2. QED BY <2>1, <2>3, <3>1
    <2>5. p = At(1) /\ 1 \in 1..(Len(queue) + 1) /\ Clear(0, 1)
      <3>1. 1 # n + 1 /\ 1 \in 1..(n + 1) BY <2>4
      <3>2. p = At(1) BY <2>1, <2>3, <3>1, Zenon DEF At, Head1
      <3>3. QED BY <2>3, <3>1, <3>2 DEF Clear
    <2>6. p \in Sendable /\ p.piece \in Nat BY RecvAssumption DEF Pieces, Sendable
    <2>7. PICK q \in Sendable : held = <<q>> /\ Follows(q, p)
      BY <2>2, <2>5, <2>6 DEF RecvInv, HeldInv
    <2>8. q = [p EXCEPT !.piece = @ - 1]
      <3>1. p = [q EXCEPT !.piece = q.piece + 1] /\ q.piece \in Nat
        BY <2>7, RecvAssumption DEF Follows, Sendable
      <3>2. (q.piece + 1) - 1 = q.piece BY <3>1
      <3>3. q = [msg |-> q.msg, piece |-> q.piece] /\ p = [msg |-> q.msg, piece |-> q.piece + 1]
        BY <3>1 DEF Sendable
      <3>4. QED BY <3>2, <3>3
    <2>9. QED BY <2>7, <2>8
  <1>2. QED BY <1>1, RecvInvHolds, PTL DEF Spec, NoOrphanPiece

\* Every well-formed record of an aborted delivery that Read or RecvMsg meets is
\* reported by that call, whichever call got the part of the message that it
\* cuts: with a message begun, recvState.partial is set.
THEOREM AbortIsReported == Spec => AbortReported
  <1>1. RecvInv /\ [Next]_vars =>
          [IsNote /\ Head1.kind = "PartialDelivery" /\ Head1.form = "whole"
             /\ queue' = Tail(queue) /\ call[mu] # "ReadMsg" => held' = <<>>]_vars
    <2> SUFFICES ASSUME RecvInv, [Next]_vars, IsNote, Head1.kind = "PartialDelivery",
                        Head1.form = "whole", queue' = Tail(queue), call[mu] # "ReadMsg"
                 PROVE held' = <<>>
      OBVIOUS
    <2>1. queue # <<>> BY DEF IsNote
    <2>2. PICK r \in Readers : mu = r /\ ( RecvData(r) \/ RecvNote(r) \/ RecvCut(r)
                                  \/ MsgData(r) \/ MsgNote(r) \/ MsgCut(r) )
      BY <2>1, TakingSteps
    <2>3. open BY <2>1, TakingSteps
    <2>4. PICK n : n = Len(queue) OBVIOUS
    <2>5. queue \in Seq(Records) /\ n \in Nat /\ n > 0
      <3>1. queue \in Seq(Records) BY Zenon DEF RecvInv, Types
      <3>2. QED BY <2>1, <2>4, <3>1
    <2>6. Head1 = At(1) /\ 1 \in 1..(Len(queue) + 1) /\ Clear(0, 1) /\ Head1 \in Records
      <3>1. 1 # n + 1 /\ 1 \in 1..(n + 1) /\ Head1 \in Records BY <2>4, <2>5 DEF Head1
      <3>2. Head1 = At(1) BY <2>4, <3>1, Zenon DEF At, Head1
      <3>3. QED BY <2>4, <3>1, <3>2 DEF Clear
    <2>7. Head1 \in Notes /\ ~IsPiece BY <2>6, RecordKinds DEF IsNote, IsPiece, Records
    <2>8. partial BY <2>3, <2>6, <2>7 DEF RecvInv, HeldInv, Aborts
    <2>9. RecvNote(r)
      BY <2>2, <2>7, Zenon DEF RecvData, RecvCut, MsgData, MsgNote, MsgCut
    <2>10. Interrupted /\ MessageCut BY <2>8 DEF Interrupted, MessageCut
    <2>11. CASE ~Kept(call[r] = "RecvMsg" \/ handler)
      BY <2>9, <2>10, <2>11 DEF RecvNote
    <2>12. CASE Kept(call[r] = "RecvMsg" \/ handler)
      <3>1. Framing = {} BY DEF Framing
      <3>2. QED BY <2>9, <2>10, <2>12, <3>1 DEF RecvNote
    <2>13. QED BY <2>11, <2>12
  <1>2. QED BY <1>1, RecvInvHolds, PTL DEF Spec, AbortReported

=============================================================================
