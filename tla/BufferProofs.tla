---------------------------- MODULE BufferProofs ----------------------------
(* Proofs about the buffers ReadMsg assembles a message in (ReadBuffers), for    *)
(* every value of the constants.                                                 *)
EXTENDS ReadBuffers, TLAPS

-----------------------------------------------------------------------------
\* The elements of a piece of a sequence.
LEMMA SubSeqIs ==
  ASSUME NEW S, NEW s \in Seq(S), NEW m \in Int, NEW n \in Int, \A i \in m..n : s[i] \in S
  PROVE  /\ SubSeq(s, m, n) \in Seq(S)
         /\ Len(SubSeq(s, m, n)) = IF m <= n THEN n - m + 1 ELSE 0
         /\ \A i \in 1..(n - m + 1) : SubSeq(s, m, n)[i] = s[m + i - 1]
<1>1. \A i \in 1..(n - m + 1) : m + i - 1 \in m..n /\ s[m + i - 1] \in S
  OBVIOUS
<1>2. SubSeq(s, m, n) \in Seq(S)
  BY <1>1
<1>3. Len(SubSeq(s, m, n)) = IF m <= n THEN n - m + 1 ELSE 0
  OBVIOUS
<1>4. \A i \in 1..(n - m + 1) : SubSeq(s, m, n)[i] = s[m + i - 1]
  OBVIOUS
<1> QED BY <1>2, <1>3, <1>4, Zenon

(* ReadBuffers *)

ReadPCs    == {"idle", "read", "copy", "handler"}
Buffer == [id : Ids, len : Nat]

BufferTypes ==
  /\ pool \in [Classes -> Seq(Buffer)]
  /\ holds \in [Ids -> SUBSET (Readers \X (0..1))]
  /\ reading \in [Readers -> ReadPCs] /\ max \in [Readers -> Nat] /\ call \in [Readers -> 0..1]
  /\ buf \in [Readers -> Buffer] /\ grown \in [Readers -> Buffer]
  /\ class \in [Readers -> Classes \cup {0}] /\ total \in [Readers -> Nat]
  /\ tooLong \in [Readers -> BOOLEAN] /\ res \in [Readers -> SUBSET Ids]

\* A free buffer is one of its class, nobody's, and in the cache once.
PoolInv ==
  \A k \in Classes : \A i \in 1..Len(pool[k]) :
    /\ pool[k][i].id \in PooledOf(k) /\ pool[k][i].len = Sizes[k]
    /\ \A j \in 1..Len(pool[k]) : i # j => pool[k][i].id # pool[k][j].id
    /\ \A r \in Readers : pool[k][i].id # buf[r].id /\ pool[k][i].id # grown[r].id

\* A buffer of a call is one of its class, or its own when it has none.
BufOf(r) ==
  /\ reading[r] = "idle" => buf[r] = NoBuffer /\ class[r] = 0 /\ total[r] = 0
  /\ reading[r] # "idle" /\ class[r] = 0 => \E w \in 1..3 : buf[r].id = Own(r, call[r], w)
  /\ class[r] # 0 => buf[r].id \in PooledOf(class[r])
BufInv == \A r \in Readers : BufOf(r)

\* So is the one it grows into, which is larger.
GrownOf(r) ==
  LET k == classFor(sizeToGrow(r)) IN
  /\ reading[r] # "copy" => grown[r] = NoBuffer
  /\ reading[r] = "copy" =>
       /\ Full(r) /\ grown[r].len > total[r] /\ grown[r].id # buf[r].id
       /\ k \in Classes \cup {0}
       /\ k = 0 => \E w \in 1..3 : grown[r].id = Own(r, call[r], w)
       /\ k # 0 => grown[r].id \in PooledOf(k)
GrownInv == \A r \in Readers : GrownOf(r)

\* No buffer of a class is lent to two calls.
LentOnce ==
  \A r, s \in Readers : r # s =>
    /\ buf[r].id \in Pooled => buf[r].id # buf[s].id /\ buf[r].id # grown[s].id
    /\ grown[r].id \in Pooled => grown[r].id # grown[s].id

\* The call whose result the caller of a goroutine has.
LastCall(r) == IF reading[r] = "idle" THEN call[r] ELSE 1 - call[r]

\* A result is in memory of the call's own.
ResOf(r) ==
  \A b \in res[r] : /\ \E w \in 1..4 : b = Own(r, LastCall(r), w)
                    /\ holds[b] = {<<r, LastCall(r)>>}
ResInv == \A r \in Readers : ResOf(r)

\* Only what a call assembles, or has returned, holds bytes.
HoldsInv ==
  /\ \A r \in Readers : total[r] > 0 => holds[buf[r].id] = {Message(r)}
  /\ \A b \in Ids : holds[b] # {} =>
       \E r \in Readers : (total[r] > 0 /\ b = buf[r].id) \/ b \in res[r]

BufferInv ==
  BufferTypes /\ PoolInv /\ BufInv /\ GrownInv /\ LentOnce /\ ResInv /\ HoldsInv

-----------------------------------------------------------------------------
(* The memory *)

\* The assumptions on the constants of ReadBuffers.
LEMMA BufferConstants ==
  /\ IsFiniteSet(Readers) /\ 0 \notin Readers
  /\ Sizes \in Seq(Nat) /\ Slots \in Nat /\ First \in Nat /\ Chunk \in Nat \ {0}
  /\ Maxes \subseteq Nat
BY BufferAssumption

\* A call has its own memory, and no other call has it.
LEMMA OwnIsOwn ==
  ASSUME NEW r, NEW s, NEW c, NEW d, NEW w, NEW v, Own(r, c, w) = Own(s, d, v)
  PROVE  r = s /\ c = d /\ w = v
BY DEF Own

\* The memory of a call is in no class, and is not the memory of NoBuffer.
LEMMA OwnNotPooled ==
  ASSUME NEW r \in Readers, NEW c, NEW w, NEW k
  PROVE  Own(r, c, w) \notin PooledOf(k) /\ Own(r, c, w) # NoBuffer.id
BY BufferConstants DEF Own, PooledOf, NoBuffer

\* Memory belongs to one class.
LEMMA PooledApart ==
  ASSUME NEW k, NEW j, NEW b, b \in PooledOf(k), b \in PooledOf(j)
  PROVE  k = j
BY DEF PooledOf

\* NoBuffer is in no class.
LEMMA NoneNotPooled ==
  ASSUME NEW k
  PROVE  NoBuffer.id \notin PooledOf(k)
BY DEF PooledOf, NoBuffer

\* What is memory.
LEMMA PooledInIds ==
  ASSUME NEW k \in Classes, NEW b \in PooledOf(k)
  PROVE  b \in Pooled /\ b \in Ids
BY DEF Ids, Pooled

\* So is a buffer that a call makes.
LEMMA OwnInIds ==
  ASSUME NEW r \in Readers, NEW c \in 0..1, NEW w \in 1..4
  PROVE  Own(r, c, w) \in Ids
BY DEF Ids

\* NoBuffer is an empty buffer.
LEMMA NoBufferIs ==
  NoBuffer \in Buffer /\ NoBuffer.len = 0
BY DEF Buffer, NoBuffer, Ids

\* Classes are numbered from 1 and their sizes are numbers.
LEMMA ClassesAre ==
  Classes \subseteq Nat \ {0} /\ \A k \in Classes : Sizes[k] \in Nat
BY BufferConstants DEF Classes

\* What it means that nobody refers to it.
LEMMA ReferredAre ==
  ASSUME NEW b, b \notin Referred
  PROVE  /\ \A s \in Readers : b # buf[s].id /\ b # grown[s].id
         /\ \A k \in Classes : \A i \in DOMAIN pool[k] : b # pool[k][i].id
BY DEF Referred

-----------------------------------------------------------------------------
(* Whose a buffer is *)

\* A full buffer below the limit is to grow.
LEMMA SizeIsNat ==
  ASSUME BufferTypes, NEW r \in Readers, Full(r)
  PROVE  sizeToGrow(r) \in Nat /\ sizeToGrow(r) > total[r]
<1>1. /\ buf[r].len \in Nat /\ max[r] \in Nat /\ total[r] \in Nat
      /\ total[r] = buf[r].len /\ total[r] < max[r] /\ Chunk \in Nat \ {0}
  BY BufferConstants DEF BufferTypes, Buffer, Full
<1> QED BY <1>1 DEF sizeToGrow, Least

\* What a call has borrowed is one of a class, and what it has not is its own.
LEMMA BufIs ==
  ASSUME BufferInv, NEW r \in Readers, reading[r] # "idle"
  PROVE  \/ \E w \in 1..3 : buf[r].id = Own(r, call[r], w)
         \/ \E k \in Classes : buf[r].id \in PooledOf(k)
BY DEF BufferInv, BufferTypes, BufInv, BufOf

\* So is the one it grows into.
LEMMA GrownIs ==
  ASSUME BufferInv, NEW r \in Readers, reading[r] = "copy"
  PROVE  \/ \E w \in 1..3 : grown[r].id = Own(r, call[r], w)
         \/ \E k \in Classes : grown[r].id \in PooledOf(k)
BY DEF BufferInv, GrownInv, GrownOf

\* Whether or not it is in a call.
LEMMA BufMay ==
  ASSUME BufferInv, NEW r \in Readers
  PROVE  \/ buf[r].id = NoBuffer.id
         \/ \E w \in 1..3 : buf[r].id = Own(r, call[r], w)
         \/ \E k \in Classes : buf[r].id \in PooledOf(k)
BY BufIs DEF BufferInv, BufInv, BufOf

\* The same of the buffer it grew into.
LEMMA GrownMay ==
  ASSUME BufferInv, NEW r \in Readers
  PROVE  \/ grown[r].id = NoBuffer.id
         \/ \E w \in 1..3 : grown[r].id = Own(r, call[r], w)
         \/ \E k \in Classes : grown[r].id \in PooledOf(k)
BY GrownIs DEF BufferInv, GrownInv, GrownOf

\* No other call has the buffer of a call.
LEMMA BufAlone ==
  ASSUME BufferInv, NEW r \in Readers, reading[r] # "idle", NEW s \in Readers, r # s
  PROVE  buf[r].id # buf[s].id /\ buf[r].id # grown[s].id
<1>1. CASE \E w \in 1..3 : buf[r].id = Own(r, call[r], w)
  BY <1>1, BufMay, GrownMay, OwnIsOwn, OwnNotPooled
<1>2. CASE \E k \in Classes : buf[r].id \in PooledOf(k)
  BY <1>2, PooledInIds DEF BufferInv, LentOnce
<1> QED BY <1>1, <1>2, BufIs

\* Nor the one it grows into.
LEMMA GrownAlone ==
  ASSUME BufferInv, NEW r \in Readers, reading[r] = "copy", NEW s \in Readers, r # s
  PROVE  grown[r].id # buf[s].id /\ grown[r].id # grown[s].id
<1>1. CASE \E w \in 1..3 : grown[r].id = Own(r, call[r], w)
  BY <1>1, BufMay, GrownMay, OwnIsOwn, OwnNotPooled
<1>2. CASE \E k \in Classes : grown[r].id \in PooledOf(k)
  BY <1>2, PooledInIds DEF BufferInv, LentOnce
<1> QED BY <1>1, <1>2, GrownIs

\* A result is not in what a call has.
LEMMA NotInResult ==
  ASSUME BufferInv, NEW r \in Readers, reading[r] # "idle", NEW b, NEW s \in Readers,
         \/ \E w \in 1..3 : b = Own(r, call[r], w)
         \/ \E k \in Classes : b \in PooledOf(k)
  PROVE  b \notin res[s]
<1> SUFFICES ASSUME b \in res[s] PROVE FALSE
  OBVIOUS
<1>1. PICK w \in 1..4 : b = Own(s, LastCall(s), w)
  BY DEF BufferInv, ResInv, ResOf
<1>2. call[r] \in 0..1 /\ LastCall(r) = 1 - call[r]
  BY DEF BufferInv, BufferTypes, LastCall
<1>3. ~(\E k \in Classes : b \in PooledOf(k))
  BY <1>1, OwnNotPooled
<1>4. s = r /\ LastCall(s) = call[r]
  BY <1>1, <1>3, OwnIsOwn
<1> QED BY <1>2, <1>4

\* Memory that no call has filled and nobody was given has no bytes.
LEMMA HoldsNothing ==
  ASSUME BufferInv, NEW b \in Ids,
         \A s \in Readers : b \notin res[s] /\ (b = buf[s].id => total[s] = 0)
  PROVE  holds[b] = {}
<1> SUFFICES ASSUME holds[b] # {} PROVE FALSE
  OBVIOUS
<1>1. PICK r \in Readers : (total[r] > 0 /\ b = buf[r].id) \/ b \in res[r]
  BY DEF BufferInv, HoldsInv
<1> QED BY <1>1

\* The buffer of a call holds its message, or nothing yet.
LEMMA BufHolds ==
  ASSUME BufferInv, NEW r \in Readers, reading[r] # "idle"
  PROVE  /\ buf[r].id \in Ids
         /\ \A s \in Readers : buf[r].id \notin res[s]
         /\ holds[buf[r].id] = IF total[r] = 0 THEN {} ELSE {Message(r)}
<1>1. buf[r].id \in Ids /\ total[r] \in Nat
  BY DEF BufferInv, BufferTypes, Buffer
<1>2. \A s \in Readers : buf[r].id \notin res[s]
  BY BufIs, NotInResult
<1>3. CASE total[r] = 0
  <2>1. \A s \in Readers : buf[r].id = buf[s].id => total[s] = 0
    BY <1>3, BufAlone
  <2> QED BY <1>1, <1>2, <1>3, <2>1, HoldsNothing
<1>4. CASE total[r] # 0
  BY <1>1, <1>2, <1>4 DEF BufferInv, HoldsInv
<1> QED BY <1>3, <1>4

-----------------------------------------------------------------------------
(* The steps *)

\* Nothing of the call of another goroutine changes.
Apart(r) ==
  \A s \in Readers \ {r} :
    /\ reading'[s] = reading[s] /\ max'[s] = max[s] /\ call'[s] = call[s] /\ buf'[s] = buf[s]
    /\ class'[s] = class[s] /\ total'[s] = total[s] /\ tooLong'[s] = tooLong[s]
    /\ grown'[s] = grown[s] /\ res'[s] = res[s]

\* A step of one call keeps what is said of the others.
LEMMA ApartKeeps ==
  ASSUME BufferInv, NEW r \in Readers, Apart(r), NEW s \in Readers \ {r}
  PROVE  BufOf(s)' /\ GrownOf(s)'
<1>1. BufOf(s)'
  <2>1. BufOf(s)
    BY DEF BufferInv, BufInv
  <2>2. NoBuffer' = NoBuffer
    OBVIOUS
  <2> QED BY <2>1 DEF Apart, BufOf
<1>2. GrownOf(s)'
  <2>1. GrownOf(s)
    BY DEF BufferInv, GrownInv
  <2>2. sizeToGrow(s)' = sizeToGrow(s) /\ (Full(s)' <=> Full(s))
    BY DEF Apart, sizeToGrow, Full
  <2> QED BY <2>1, <2>2 DEF Apart, GrownOf
<1> QED BY <1>1, <1>2

\* Where buffers and results stay, so does what is said of them.
LEMMA PoolSame ==
  ASSUME PoolInv, UNCHANGED <<pool, buf, grown>>
  PROVE  PoolInv'
BY DEF PoolInv

\* No buffer is lent twice while the calls keep theirs.
LEMMA LentSame ==
  ASSUME LentOnce, UNCHANGED <<buf, grown>>
  PROVE  LentOnce'
BY DEF LentOnce

\* A result stays its own while no one touches its buffers.
LEMMA ResSame ==
  ASSUME ResInv, res' = res, \A s \in Readers : LastCall(s)' = LastCall(s),
         \A s \in Readers : \A b \in res[s] : holds'[b] = holds[b]
  PROVE  ResInv'
<1> SUFFICES ASSUME NEW s \in Readers, NEW b \in res[s]
             PROVE  /\ \E w \in 1..4 : b = Own(s, LastCall(s)', w)
                    /\ holds'[b] = {<<s, LastCall(s)'>>}
  BY DEF ResInv, ResOf
<1>1. /\ \E w \in 1..4 : b = Own(s, LastCall(s), w)
      /\ holds[b] = {<<s, LastCall(s)>>}
  BY DEF ResInv, ResOf
<1>2. LastCall(s)' = LastCall(s) /\ holds'[b] = holds[b]
  OBVIOUS
<1> QED BY <1>1, <1>2, Zenon

\* A step of one call leaves buffers lent once if no other call has its own.
LEMMA LentApart ==
  ASSUME LentOnce, NEW r \in Readers, Apart(r),
         \A s \in Readers \ {r} :
           /\ buf'[r].id \in Pooled => buf'[r].id # buf[s].id /\ buf'[r].id # grown[s].id
           /\ grown'[r].id \in Pooled => grown'[r].id # buf[s].id /\ grown'[r].id # grown[s].id
  PROVE  LentOnce'
<1> SUFFICES ASSUME NEW p \in Readers, NEW q \in Readers, p # q
             PROVE  /\ buf'[p].id \in Pooled => buf'[p].id # buf'[q].id /\ buf'[p].id # grown'[q].id
                    /\ grown'[p].id \in Pooled => grown'[p].id # grown'[q].id
  BY DEF LentOnce
<1>1. \A s \in Readers \ {r} : buf'[s] = buf[s] /\ grown'[s] = grown[s]
  BY DEF Apart
<1>2. CASE p = r
  <2>1. q \in Readers \ {r} /\ buf'[q] = buf[q] /\ grown'[q] = grown[q]
    BY <1>1, <1>2
  <2> QED BY <1>2, <2>1
<1>3. CASE q = r
  <2>1. p \in Readers \ {r} /\ buf'[p] = buf[p] /\ grown'[p] = grown[p]
    BY <1>1, <1>3
  <2> QED BY <1>3, <2>1
<1>4. CASE p # r /\ q # r
  <2>1. /\ buf'[p] = buf[p] /\ grown'[p] = grown[p]
        /\ buf'[q] = buf[q] /\ grown'[q] = grown[q]
    BY <1>1, <1>4
  <2>2. /\ buf[p].id \in Pooled => buf[p].id # buf[q].id /\ buf[p].id # grown[q].id
        /\ grown[p].id \in Pooled => grown[p].id # grown[q].id
    BY DEF LentOnce
  <2> QED BY <2>1, <2>2
<1> QED BY <1>2, <1>3, <1>4

\* A call starts, in memory of its own that its last result is not in.
LEMMA ReadMsgKeeps ==
  ASSUME BufferInv, NEW r \in Readers, readMsg(r)
  PROVE  BufferInv'
<1>0. BufferTypes /\ PoolInv /\ BufInv /\ GrownInv /\ LentOnce /\ ResInv /\ HoldsInv
  BY DEF BufferInv
<1>1. PICK m \in Maxes :
        /\ max' = [max EXCEPT ![r] = m]
        /\ buf' = [buf EXCEPT ![r] = [id |-> Own(r, 1 - call[r], 1), len |-> Least(First, m)]]
        /\ call' = [call EXCEPT ![r] = 1 - @]
  BY Zenon DEF readMsg
<1>2. /\ reading[r] = "idle" /\ reading' = [reading EXCEPT ![r] = "read"]
      /\ UNCHANGED <<pool, holds, class, total, tooLong, grown, res>>
  BY DEF readMsg
<1> DEFINE b == [id |-> Own(r, 1 - call[r], 1), len |-> Least(First, m)]
<1>3. m \in Nat /\ Least(First, m) \in Nat
  BY BufferConstants DEF Least
<1>4. call[r] \in 0..1 /\ 1 - call[r] \in 0..1
  BY <1>0 DEF BufferTypes
<1>5. b \in Buffer /\ b.id = Own(r, 1 - call[r], 1)
  BY <1>3, <1>4, OwnInIds DEF Buffer
<1> HIDE DEF b
<1>6. /\ buf'[r] = b /\ reading'[r] = "read" /\ call'[r] = 1 - call[r] /\ max'[r] = m
      /\ class[r] = 0 /\ total[r] = 0 /\ grown[r] = NoBuffer
  BY <1>0, <1>1, <1>2 DEF b, BufferTypes, BufInv, BufOf, GrownInv, GrownOf
<1>7. Apart(r)
  BY <1>0, <1>1, <1>2 DEF Apart, BufferTypes
<1>8. BufferTypes'
  BY <1>0, <1>1, <1>2, <1>3, <1>4, <1>5 DEF BufferTypes, ReadPCs, b
<1>9. BufOf(r)' /\ GrownOf(r)'
  BY <1>2, <1>5, <1>6 DEF BufOf, GrownOf
<1>10. BufInv' /\ GrownInv'
  BY <1>7, <1>9, ApartKeeps DEF BufInv, GrownInv
<1>11. PoolInv'
  BY <1>0, <1>2, <1>5, <1>6, <1>7, OwnNotPooled DEF PoolInv, Apart
<1>12. LentOnce'
  <2>1. buf'[r].id \notin Pooled
    BY <1>5, <1>6, OwnNotPooled DEF Pooled
  <2>2. grown'[r].id \notin Pooled
    BY <1>2, <1>6, NoneNotPooled DEF Pooled
  <2> QED BY <1>0, <1>7, <2>1, <2>2, LentApart
<1>13. ResInv'
  <2>1. \A s \in Readers : LastCall(s)' = LastCall(s)
    BY <1>2, <1>4, <1>6, <1>7 DEF LastCall, Apart
  <2>2. res' = res /\ holds' = holds
    BY <1>2
  <2> QED BY <1>0, <2>1, <2>2, ResSame
<1>14. HoldsInv'
  <2>1. \A s \in Readers : total[s] > 0 => s # r
    BY <1>6
  <2>2. \A s \in Readers : total[s] > 0 => buf'[s] = buf[s] /\ Message(s)' = Message(s)
    BY <1>7, <2>1 DEF Apart, Message
  <2> QED BY <1>0, <1>2, <2>2 DEF HoldsInv
<1> QED BY <1>8, <1>10, <1>11, <1>12, <1>13, <1>14 DEF BufferInv

\* A buffer that goes back is in the cache once, and no call's any more.
LEMMA PutKeeps ==
  ASSUME BufferInv, NEW r \in Readers, reading[r] # "idle", Apart(r),
         pool' = put(pool, class[r], buf[r]), buf'[r].id # buf[r].id,
         grown'[r] = NoBuffer,
         \A k \in Classes : \A i \in 1..Len(pool[k]) : pool[k][i].id # buf'[r].id
  PROVE  pool' \in [Classes -> Seq(Buffer)] /\ PoolInv'
<1>0. BufferTypes /\ PoolInv /\ BufInv /\ pool \in [Classes -> Seq(Buffer)]
  BY DEF BufferInv, BufferTypes
<1>1. \A k \in Classes : \A i \in 1..Len(pool[k]) : \A s \in Readers :
        pool[k][i].id # buf'[s].id /\ pool[k][i].id # grown'[s].id
  BY <1>0, NoneNotPooled DEF PoolInv, Apart
<1>2. CASE class[r] = 0 \/ Len(pool[class[r]]) >= Slots
  <2>1. pool' = pool
    BY <1>2 DEF put
  <2> QED BY <1>0, <1>1, <2>1 DEF PoolInv
<1>3. CASE ~(class[r] = 0 \/ Len(pool[class[r]]) >= Slots)
  <2> DEFINE k == class[r]
             e == [id |-> buf[r].id, len |-> Sizes[k]]
             n == Len(pool[k])
  <2>1. k \in Classes /\ pool' = [pool EXCEPT ![k] = Append(@, e)]
    BY <1>0, <1>3 DEF put, BufferTypes
  <2>2. e \in Buffer /\ e.id = buf[r].id /\ e.len = Sizes[k] /\ e.id \in PooledOf(k)
    BY <1>0, <1>3, <2>1, ClassesAre, Zenon DEF Buffer, BufferTypes, BufInv, BufOf
  <2>3. pool[k] \in Seq(Buffer) /\ n \in Nat
    BY <1>0, <2>1
  <2>4. /\ Append(pool[k], e) \in Seq(Buffer) /\ Len(Append(pool[k], e)) = n + 1
        /\ \A i \in 1..n : Append(pool[k], e)[i] = pool[k][i]
        /\ Append(pool[k], e)[n + 1] = e
    BY <2>2, <2>3
  <2> DEFINE q == Append(pool[k], e)
  <2>5. pool' \in [Classes -> Seq(Buffer)] /\ pool'[k] = q
        /\ \A j \in Classes \ {k} : pool'[j] = pool[j]
    BY <1>0, <2>1, <2>4
  <2> HIDE DEF q, e, k, n
  <2>6. \A s \in Readers : e.id # buf'[s].id /\ e.id # grown'[s].id
    <3>1. \A s \in Readers \ {r} : e.id # buf'[s].id /\ e.id # grown'[s].id
      BY <2>2, BufAlone DEF Apart
    <3>2. e.id # buf'[r].id /\ e.id # grown'[r].id
      BY <2>2, NoneNotPooled
    <3> QED BY <3>1, <3>2
  <2>7. ASSUME NEW j \in Classes, NEW i \in 1..Len(pool'[j])
        PROVE  /\ pool'[j][i].id \in PooledOf(j) /\ pool'[j][i].len = Sizes[j]
               /\ \A m \in 1..Len(pool'[j]) : i # m => pool'[j][i].id # pool'[j][m].id
               /\ \A s \in Readers : /\ pool'[j][i].id # buf'[s].id
                                     /\ pool'[j][i].id # grown'[s].id
    <3>1. CASE j # k
      <4>1. pool'[j] = pool[j]
        BY <2>5, <3>1
      <4>2. i \in 1..Len(pool[j])
        BY <2>7, <4>1
      <4>3. /\ pool[j][i].id \in PooledOf(j) /\ pool[j][i].len = Sizes[j]
            /\ \A m \in 1..Len(pool[j]) : i # m => pool[j][i].id # pool[j][m].id
        BY <1>0, <4>2 DEF PoolInv
      <4>4. \A s \in Readers : pool[j][i].id # buf'[s].id /\ pool[j][i].id # grown'[s].id
        BY <1>1, <4>2
      <4> QED BY <4>1, <4>3, <4>4, Zenon
    <3>2. CASE j = k
      <4>1. Len(pool'[j]) = n + 1 /\ \A m \in 1..n : pool'[j][m] = pool[k][m]
        <5>1. pool'[j] = Append(pool[k], e)
          BY <2>5, <3>2 DEF q
        <5> QED BY <2>4, <5>1
      <4>2. pool'[j][n + 1] = e
        <5>1. pool'[j] = Append(pool[k], e)
          BY <2>5, <3>2 DEF q
        <5> QED BY <2>4, <5>1, Zenon
      <4>3. \A m \in 1..n : pool[k][m].id # e.id
        BY <1>0, <2>1, <2>2 DEF PoolInv, n
      <4>4. \A m \in 1..n : /\ pool[k][m].id \in PooledOf(k) /\ pool[k][m].len = Sizes[k]
                            /\ \A x \in 1..n : m # x => pool[k][m].id # pool[k][x].id
        BY <1>0, <2>1 DEF PoolInv, n
      <4>5. \A m \in 1..Len(pool'[j]) : m \in 1..n \/ m = n + 1
        BY <2>3, <4>1
      <4>6. \A m \in 1..n : \A s \in Readers :
              pool[k][m].id # buf'[s].id /\ pool[k][m].id # grown'[s].id
        BY <1>1, <2>1 DEF n
      <4>7. CASE i \in 1..n
        BY <3>2, <4>1, <4>2, <4>3, <4>4, <4>5, <4>6, <4>7
      <4>8. CASE i = n + 1
        <5>1. pool'[j][i] = e
          BY <4>2, <4>8
        <5>2. \A m \in 1..Len(pool'[j]) : i # m => pool'[j][m].id # e.id
          BY <4>1, <4>3, <4>5, <4>8
        <5> QED BY <2>2, <2>6, <3>2, <5>1, <5>2
      <4> QED BY <2>7, <4>5, <4>7, <4>8, Zenon
    <3> QED BY <3>1, <3>2, Zenon
  <2> QED BY <2>5, <2>7 DEF PoolInv
<1> QED BY <1>2, <1>3

\* A call moves to the larger buffer and gives the old one back.
LEMMA CopyKeeps ==
  ASSUME BufferInv, NEW r \in Readers, Copy(r)
  PROVE  BufferInv'
<1>0. BufferTypes /\ PoolInv /\ BufInv /\ GrownInv /\ LentOnce /\ ResInv /\ HoldsInv
  BY DEF BufferInv
<1> DEFINE k == classFor(sizeToGrow(r))
           g == grown[r]
           h == [g EXCEPT !.len = Least(@, max[r])]
           old == buf[r]
<1>1. /\ reading[r] = "copy" /\ reading' = [reading EXCEPT ![r] = "read"]
      /\ holds' = [holds EXCEPT ![g.id] = holds[old.id], ![old.id] = {}]
      /\ pool' = put(pool, class[r], old) /\ buf' = [buf EXCEPT ![r] = h]
      /\ class' = [class EXCEPT ![r] = k] /\ grown' = [grown EXCEPT ![r] = NoBuffer]
      /\ UNCHANGED <<max, call, total, tooLong, res>>
  BY DEF Copy
<1>2. /\ Full(r) /\ g.id # old.id
      /\ k = 0 => \E w \in 1..3 : g.id = Own(r, call[r], w)
      /\ k # 0 => g.id \in PooledOf(k)
  BY <1>0, <1>1 DEF GrownInv, GrownOf
<1>3. k \in Classes \cup {0}
  BY <1>0, <1>1 DEF GrownInv, GrownOf
<1>4. g \in Buffer /\ old \in Buffer /\ max[r] \in Nat
  BY <1>0 DEF BufferTypes
<1>5. h \in Buffer /\ h.id = g.id
  BY <1>4 DEF Buffer, Least
<1> HIDE DEF k, h
<1>6. /\ reading'[r] = "read" /\ buf'[r] = h /\ class'[r] = k /\ grown'[r] = NoBuffer
  BY <1>0, <1>1 DEF BufferTypes
<1>7. Apart(r)
  BY <1>0, <1>1 DEF Apart, BufferTypes
<1>8. pool' \in [Classes -> Seq(Buffer)] /\ PoolInv'
  <2>1. \A j \in Classes : \A i \in 1..Len(pool[j]) : pool[j][i].id # buf'[r].id
    BY <1>0, <1>5, <1>6 DEF PoolInv
  <2>2. reading[r] # "idle" /\ buf'[r].id # buf[r].id
    BY <1>1, <1>2, <1>5, <1>6
  <2> QED BY <1>1, <1>6, <1>7, <2>1, <2>2, PutKeeps
<1>9. g.id \in Ids /\ old.id \in Ids
  BY <1>4 DEF Buffer
<1>10. /\ holds'[g.id] = holds[old.id] /\ holds'[old.id] = {}
       /\ \A b \in Ids \ {g.id, old.id} : holds'[b] = holds[b]
  BY <1>0, <1>1, <1>2, <1>9 DEF BufferTypes
<1>11. BufferTypes'
  <2>1. holds' \in [Ids -> SUBSET (Readers \X (0..1))]
    BY <1>0, <1>1, <1>9 DEF BufferTypes
  <2>2. buf' \in [Readers -> Buffer] /\ grown' \in [Readers -> Buffer]
    BY <1>0, <1>1, <1>5, NoBufferIs DEF BufferTypes
  <2>3. reading' \in [Readers -> ReadPCs] /\ class' \in [Readers -> Classes \cup {0}]
    BY <1>0, <1>1, <1>3 DEF BufferTypes, ReadPCs
  <2> QED BY <1>0, <1>1, <1>8, <2>1, <2>2, <2>3, Zenon DEF BufferTypes
<1>12. BufInv' /\ GrownInv'
  <2>1. BufOf(r)'
    BY <1>1, <1>2, <1>5, <1>6 DEF BufOf
  <2>2. GrownOf(r)'
    BY <1>6 DEF GrownOf
  <2> QED BY <1>7, <2>1, <2>2, ApartKeeps DEF BufInv, GrownInv
<1>13. \A s \in Readers \ {r} : /\ g.id # buf[s].id /\ g.id # grown[s].id
                                /\ old.id # buf[s].id /\ old.id # grown[s].id
  BY <1>1, BufAlone, GrownAlone
<1>14. LentOnce'
  <2>1. NoBuffer.id \notin Pooled
    BY NoneNotPooled DEF Pooled
  <2>2. \A s \in Readers \ {r} : buf'[r].id # buf[s].id /\ buf'[r].id # grown[s].id
    BY <1>5, <1>6, <1>13
  <2> QED BY <1>0, <1>6, <1>7, <2>1, <2>2, LentApart
<1>15. \A s \in Readers : g.id \notin res[s] /\ old.id \notin res[s]
  BY <1>1, BufIs, GrownIs, NotInResult
<1>16. ResInv'
  <2>1. \A s \in Readers : LastCall(s)' = LastCall(s)
    BY <1>1, <1>6, <1>7 DEF LastCall, Apart
  <2>2. \A s \in Readers : \A b \in res[s] : holds'[b] = holds[b]
    BY <1>0, <1>10, <1>15, Zenon DEF BufferTypes
  <2>3. res' = res
    BY <1>1
  <2> QED BY <1>0, <2>1, <2>2, <2>3, ResSame
<1>17. HoldsInv'
  <2>1. \A s \in Readers : Message(s)' = Message(s)
    BY <1>1 DEF Message
  <2>2. ASSUME NEW s \in Readers, total'[s] > 0 PROVE holds'[buf'[s].id] = {Message(s)}
    <3>1. CASE s = r
      <4>1. buf'[r].id = g.id /\ total[r] > 0
        BY <1>1, <1>5, <1>6, <2>2, <3>1
      <4>2. holds[old.id] = {Message(r)}
        BY <1>0, <4>1 DEF HoldsInv
      <4> QED BY <1>10, <3>1, <4>1, <4>2
    <3>2. CASE s # r
      <4>1. buf'[s] = buf[s] /\ buf[s].id \in Ids /\ total[s] > 0
        BY <1>0, <1>1, <1>7, <2>2, <3>2 DEF Apart, BufferTypes, Buffer
      <4> QED BY <1>0, <1>10, <1>13, <3>2, <4>1 DEF HoldsInv
    <3> QED BY <3>1, <3>2
  <2>3. ASSUME NEW b \in Ids, holds'[b] # {}
        PROVE  \E s \in Readers : (total'[s] > 0 /\ b = buf'[s].id) \/ b \in res'[s]
    <3>1. b # old.id
      BY <1>10, <2>3
    <3>2. CASE b = g.id
      <4>1. holds[old.id] = IF total[r] = 0 THEN {} ELSE {Message(r)}
        BY <1>1, BufHolds, Zenon
      <4>2. total[r] > 0
        BY <1>0, <1>10, <2>3, <3>2, <4>1 DEF BufferTypes
      <4> QED BY <1>1, <1>5, <1>6, <3>2, <4>2
    <3>3. CASE b # g.id
      <4>1. holds[b] # {}
        BY <1>10, <2>3, <3>1, <3>3, Zenon
      <4>2. PICK s \in Readers : (total[s] > 0 /\ b = buf[s].id) \/ b \in res[s]
        BY <1>0, <4>1 DEF HoldsInv
      <4> QED BY <1>1, <1>7, <3>1, <4>2 DEF Apart
    <3> QED BY <3>2, <3>3
  <2> QED BY <2>1, <2>2, <2>3 DEF HoldsInv
<1> QED BY <1>8, <1>11, <1>12, <1>14, <1>16, <1>17 DEF BufferInv

\* A step that only moves a call on.
LEMMA MovesOn ==
  ASSUME BufferInv, NEW r \in Readers, reading[r] = "read", NEW where \in {"read", "handler"},
         reading' = [reading EXCEPT ![r] = where],
         UNCHANGED <<pool, holds, max, call, buf, class, total, tooLong, grown, res>>
  PROVE  BufferInv'
<1>0. BufferTypes /\ PoolInv /\ BufInv /\ GrownInv /\ LentOnce /\ ResInv /\ HoldsInv
  BY DEF BufferInv
<1>1. reading'[r] = where
  BY <1>0 DEF BufferTypes
<1>2. Apart(r)
  BY <1>0 DEF Apart, BufferTypes
<1>3. BufferTypes'
  BY <1>0 DEF BufferTypes, ReadPCs
<1>4. BufOf(r)' /\ GrownOf(r)'
  BY <1>0, <1>1, Zenon DEF BufInv, BufOf, GrownInv, GrownOf
<1>5. BufInv' /\ GrownInv'
  BY <1>2, <1>4, ApartKeeps DEF BufInv, GrownInv
<1>6. PoolInv' /\ LentOnce' /\ HoldsInv'
  BY <1>0 DEF PoolInv, LentOnce, HoldsInv, Message
<1>7. ResInv'
  <2>1. \A s \in Readers : LastCall(s)' = LastCall(s)
    BY <1>1, <1>2 DEF LastCall, Apart
  <2> QED BY <1>0, <2>1 DEF ResInv, ResOf
<1> QED BY <1>3, <1>5, <1>6, <1>7 DEF BufferInv

\* A piece of the message is read into the buffer.
LEMMA PieceOfKeeps ==
  ASSUME BufferInv, NEW r \in Readers, ReadPiece(r)
  PROVE  BufferInv'
<1>0. BufferTypes /\ PoolInv /\ BufInv /\ GrownInv /\ LentOnce /\ ResInv /\ HoldsInv
  BY DEF BufferInv
<1>1. PICK eor \in BOOLEAN :
        /\ reading' = [reading EXCEPT ![r] = IF eor THEN "handler" ELSE "read"]
        /\ \/ \E n \in 1..(buf[r].len - total[r]) :
                /\ total' = [total EXCEPT ![r] = @ + n]
                /\ tooLong' = [tooLong EXCEPT ![r] = total'[r] = max[r] /\ ~eor]
                /\ holds' = [holds EXCEPT ![buf[r].id] = @ \cup {Message(r)}]
           \/ UNCHANGED <<total, tooLong, holds>>
  BY Zenon DEF ReadPiece
<1>2. reading[r] = "read" /\ UNCHANGED <<pool, max, call, buf, class, grown, res>>
  BY DEF ReadPiece
<1>3. CASE UNCHANGED <<total, tooLong, holds>>
  BY <1>1, <1>2, <1>3, MovesOn, Zenon
<1>4. ASSUME NEW n \in 1..(buf[r].len - total[r]),
             total' = [total EXCEPT ![r] = @ + n],
             tooLong' = [tooLong EXCEPT ![r] = total'[r] = max[r] /\ ~eor],
             holds' = [holds EXCEPT ![buf[r].id] = @ \cup {Message(r)}]
      PROVE  BufferInv'
  <2>0. buf[r].len \in Nat /\ total[r] \in Nat /\ n \in Nat \ {0} /\ total[r] + n \in Nat \ {0}
    BY <1>0 DEF BufferTypes, Buffer
  <2>1. /\ reading'[r] \in {"handler", "read"} /\ total'[r] = total[r] + n
    BY <1>0, <1>1, <1>4 DEF BufferTypes
  <2>2. Apart(r)
    BY <1>0, <1>1, <1>2, <1>4 DEF Apart, BufferTypes
  <2>3. Message(r) \in Readers \X (0..1)
    BY <1>0 DEF Message, BufferTypes
  <2>4. /\ buf[r].id \in Ids /\ \A s \in Readers : buf[r].id \notin res[s]
        /\ holds[buf[r].id] = IF total[r] = 0 THEN {} ELSE {Message(r)}
    BY <1>2, BufHolds, Zenon
  <2>5. holds'[buf[r].id] = {Message(r)} /\ \A b \in Ids \ {buf[r].id} : holds'[b] = holds[b]
    BY <1>0, <1>4, <2>4 DEF BufferTypes
  <2>6. BufferTypes'
    <3>1. holds' \in [Ids -> SUBSET (Readers \X (0..1))]
      BY <1>0, <1>4, <2>3, <2>4 DEF BufferTypes
    <3>2. total' \in [Readers -> Nat] /\ reading' \in [Readers -> ReadPCs]
      BY <1>0, <1>1, <1>4, <2>0 DEF BufferTypes, ReadPCs
    <3>3. tooLong' \in [Readers -> BOOLEAN]
      BY <1>0, <1>4 DEF BufferTypes
    <3> QED BY <1>0, <1>2, <3>1, <3>2, <3>3 DEF BufferTypes
  <2>7. BufOf(r)' /\ GrownOf(r)'
    BY <1>0, <1>2, <2>1, Zenon DEF BufInv, BufOf, GrownInv, GrownOf
  <2>8. BufInv' /\ GrownInv'
    BY <2>2, <2>7, ApartKeeps DEF BufInv, GrownInv
  <2>9. PoolInv' /\ LentOnce'
    BY <1>0, <1>2, PoolSame, LentSame
  <2>10. ResInv'
    <3>1. \A s \in Readers : LastCall(s)' = LastCall(s)
      BY <1>2, <2>1, <2>2 DEF LastCall, Apart
    <3>2. \A s \in Readers : \A b \in res[s] : holds'[b] = holds[b]
      BY <1>0, <2>4, <2>5 DEF BufferTypes
    <3>3. res' = res
      BY <1>2
    <3> QED BY <1>0, <3>1, <3>2, <3>3, ResSame
  <2>11. HoldsInv'
    <3>1. \A s \in Readers : Message(s)' = Message(s)
      BY <1>2 DEF Message
    <3>2. ASSUME NEW s \in Readers, total'[s] > 0 PROVE holds'[buf'[s].id] = {Message(s)}
      <4>1. CASE s = r
        BY <1>2, <2>5, <4>1
      <4>2. CASE s # r
        <5>1. total[s] > 0 /\ buf[s].id # buf[r].id /\ buf[s].id \in Ids
          BY <1>0, <1>2, <2>2, <3>2, <4>2, BufAlone, Zenon DEF Apart, BufferTypes, Buffer
        <5> QED BY <1>0, <1>2, <2>5, <5>1 DEF HoldsInv
      <4> QED BY <4>1, <4>2
    <3>3. ASSUME NEW b \in Ids, holds'[b] # {}
          PROVE  \E s \in Readers : (total'[s] > 0 /\ b = buf'[s].id) \/ b \in res'[s]
      <4>1. CASE b = buf[r].id
        BY <1>2, <2>0, <2>1, <4>1
      <4>2. CASE b # buf[r].id
        <5>1. PICK s \in Readers : (total[s] > 0 /\ b = buf[s].id) \/ b \in res[s]
          BY <1>0, <2>5, <3>3, <4>2 DEF HoldsInv
        <5> QED BY <1>2, <2>2, <4>2, <5>1 DEF Apart
      <4> QED BY <4>1, <4>2
    <3> QED BY <3>1, <3>2, <3>3 DEF HoldsInv
  <2> QED BY <2>6, <2>8, <2>9, <2>10, <2>11 DEF BufferInv
<1> QED BY <1>1, <1>3, <1>4

\* A read ends in an error.
LEMMA FailsKeeps ==
  ASSUME BufferInv, NEW r \in Readers, Fails(r)
  PROVE  BufferInv'
<1>1. /\ reading[r] = "read" /\ reading' = [reading EXCEPT ![r] = "handler"]
      /\ UNCHANGED <<pool, holds, max, call, buf, class, total, tooLong, grown, res>>
  BY DEF Fails
<1> QED BY <1>1, MovesOn, Zenon

\* A call returns, with a copy if the message is in a borrowed buffer.
LEMMA ReturnKeeps ==
  ASSUME BufferInv, NEW r \in Readers, Returns(r)
  PROVE  BufferInv'
<1>0. BufferTypes /\ PoolInv /\ BufInv /\ GrownInv /\ LentOnce /\ ResInv /\ HoldsInv
  BY DEF BufferInv
<1> DEFINE own == IF class[r] = 0 THEN buf[r].id ELSE Own(r, call[r], 4)
           old == buf[r].id
<1>1. /\ reading[r] = "handler" /\ reading' = [reading EXCEPT ![r] = "idle"]
      /\ holds' = [b \in Ids |-> IF b = own THEN holds[old]
                                   ELSE IF b \in res[r] \cup {old} THEN {} ELSE holds[b]]
      /\ res' = [res EXCEPT ![r] = IF total[r] = 0 THEN {} ELSE {own}]
      /\ pool' = put(pool, class[r], buf[r])
      /\ buf' = [buf EXCEPT ![r] = NoBuffer] /\ class' = [class EXCEPT ![r] = 0]
      /\ max' = [max EXCEPT ![r] = 0] /\ total' = [total EXCEPT ![r] = 0]
      /\ tooLong' = [tooLong EXCEPT ![r] = FALSE] /\ UNCHANGED <<call, grown>>
  BY Zenon DEF Returns, Forget
<1>2. /\ reading'[r] = "idle" /\ buf'[r] = NoBuffer /\ class'[r] = 0 /\ total'[r] = 0
      /\ res'[r] = IF total[r] = 0 THEN {} ELSE {own}
  BY <1>0, <1>1 DEF BufferTypes
<1>3. Apart(r)
  BY <1>0, <1>1 DEF Apart, BufferTypes
<1>4. \E w \in 1..4 : own = Own(r, call[r], w)
  <2>1. BufOf(r)
    BY <1>0 DEF BufInv
  <2>2. CASE class[r] = 0
    <3>1. \E w \in 1..3 : buf[r].id = Own(r, call[r], w)
      BY <1>1, <2>1, <2>2 DEF BufOf
    <3> QED BY <2>2, <3>1
  <2>3. CASE class[r] # 0
    BY <2>3
  <2> QED BY <2>2, <2>3
<1>5. call[r] \in 0..1 /\ own \in Ids
  <2>1. call[r] \in 0..1
    BY <1>0 DEF BufferTypes
  <2> QED BY <1>4, <2>1, OwnInIds
<1>6. /\ old \in Ids /\ \A s \in Readers : old \notin res[s]
      /\ holds[old] = IF total[r] = 0 THEN {} ELSE {Message(r)}
  BY <1>1, BufHolds, Zenon
<1>7. own # old => class[r] # 0
  BY Zenon
<1>8. \A s \in Readers \ {r} : own \notin res[s] /\ own # buf[s].id
  <2> SUFFICES ASSUME NEW s \in Readers \ {r} PROVE own \notin res[s] /\ own # buf[s].id
    OBVIOUS
  <2> HIDE DEF own
  <2>0. PICK w \in 1..4 : own = Own(r, call[r], w)
    BY <1>4
  <2>1. own \notin res[s]
    <3> SUFFICES ASSUME own \in res[s] PROVE FALSE
      OBVIOUS
    <3>1. ResOf(s)
      BY <1>0 DEF ResInv
    <3>2. PICK v \in 1..4 : own = Own(s, LastCall(s), v)
      BY <3>1 DEF ResOf
    <3>3. Own(r, call[r], w) = Own(s, LastCall(s), v)
      BY <2>0, <3>2
    <3>4. r = s
      BY <3>3, OwnIsOwn
    <3> QED BY <3>4
  <2>2. BufOf(s)
    BY <1>0 DEF BufInv
  <2>3. CASE reading[s] = "idle"
    <3>1. buf[s] = NoBuffer
      BY <2>2, <2>3 DEF BufOf
    <3> QED BY <2>0, <2>1, <3>1, OwnNotPooled
  <2>4. CASE class[s] # 0
    <3>1. buf[s].id \in PooledOf(class[s])
      BY <2>2, <2>4 DEF BufOf
    <3> QED BY <2>0, <2>1, <3>1, OwnNotPooled
  <2>5. CASE reading[s] # "idle" /\ class[s] = 0
    <3>1. \E v \in 1..3 : buf[s].id = Own(s, call[s], v)
      BY <2>2, <2>5 DEF BufOf
    <3> QED BY <2>0, <2>1, <3>1, OwnIsOwn
  <2> QED BY <2>3, <2>4, <2>5
<1> HIDE DEF own, old
<1>9. pool' \in [Classes -> Seq(Buffer)] /\ PoolInv'
  <2>1. \A j \in Classes : \A i \in 1..Len(pool[j]) : pool[j][i].id # buf'[r].id
    BY <1>0, <1>2, NoneNotPooled, Zenon DEF PoolInv
  <2>2. reading[r] # "idle"
    BY <1>1, Zenon
  <2>3. grown'[r] = NoBuffer
    BY <1>0, <1>1, Zenon DEF GrownInv, GrownOf
  <2>4. buf[r].id # NoBuffer.id
    <3>0. BufOf(r)
      BY <1>0 DEF BufInv
    <3>1. CASE class[r] = 0
      <4>1. \E w \in 1..3 : buf[r].id = Own(r, call[r], w)
        BY <2>2, <3>0, <3>1 DEF BufOf
      <4> QED BY <4>1, OwnNotPooled
    <3>2. CASE class[r] # 0
      <4>1. buf[r].id \in PooledOf(class[r])
        BY <3>0, <3>2 DEF BufOf
      <4> QED BY <4>1, NoneNotPooled
    <3> QED BY <3>1, <3>2
  <2> QED BY <1>1, <1>2, <1>3, <2>1, <2>2, <2>3, <2>4, PutKeeps, Zenon
<1>10. BufferTypes'
  <2>1. holds' \in [Ids -> SUBSET (Readers \X (0..1))]
    BY <1>0, <1>1, <1>6 DEF BufferTypes
  <2>2. res' \in [Readers -> SUBSET Ids]
    BY <1>0, <1>1, <1>5 DEF BufferTypes
  <2>3. buf' \in [Readers -> Buffer] /\ class' \in [Readers -> Classes \cup {0}]
    BY <1>0, <1>1, NoBufferIs DEF BufferTypes
  <2>4. reading' \in [Readers -> ReadPCs] /\ total' \in [Readers -> Nat] /\ max' \in [Readers -> Nat]
    BY <1>0, <1>1 DEF BufferTypes, ReadPCs
  <2>5. tooLong' \in [Readers -> BOOLEAN]
    BY <1>0, <1>1 DEF BufferTypes
  <2> QED BY <1>0, <1>1, <1>9, <2>1, <2>2, <2>3, <2>4, <2>5, Zenon DEF BufferTypes
<1>11. BufOf(r)' /\ GrownOf(r)'
  BY <1>0, <1>1, <1>2, Zenon DEF BufOf, GrownInv, GrownOf
<1>12. BufInv' /\ GrownInv'
  BY <1>3, <1>11, ApartKeeps DEF BufInv, GrownInv
<1>13. LentOnce'
  <2>1. NoBuffer.id \notin Pooled
    BY NoneNotPooled DEF Pooled
  <2>2. grown'[r] = NoBuffer
    BY <1>0, <1>1, Zenon DEF GrownInv, GrownOf
  <2> QED BY <1>0, <1>2, <1>3, <2>1, <2>2, LentApart
<1>14. \A b \in Ids :   /\ b = own => holds'[b] = holds[old]
                        /\ b # own /\ b \notin res[r] /\ b # old => holds'[b] = holds[b]
                        /\ b # own /\ b \in res[r] \cup {old} => holds'[b] = {}
  BY <1>1, Zenon
<1>15. \A s \in Readers \ {r} : \A b \in res[s] : b \in Ids /\ b \notin res[r]
  <2> SUFFICES ASSUME NEW s \in Readers \ {r}, NEW b \in res[s]
               PROVE  b \in Ids /\ b \notin res[r]
    OBVIOUS
  <2>1. b \in Ids
    BY <1>0 DEF BufferTypes
  <2>2. \E w \in 1..4 : b = Own(s, LastCall(s), w)
    BY <1>0 DEF ResInv, ResOf
  <2>3. b \in res[r] => \E w \in 1..4 : b = Own(r, LastCall(r), w)
    BY <1>0 DEF ResInv, ResOf
  <2> QED BY <2>1, <2>2, <2>3, OwnIsOwn
<1>16. ResInv'
  <2>1. ASSUME NEW s \in Readers \ {r} PROVE ResOf(s)'
    <3>1. res'[s] = res[s] /\ LastCall(s)' = LastCall(s)
      BY <1>1, <1>3, Zenon DEF LastCall, Apart
    <3>2. \A b \in res[s] : holds'[b] = holds[b]
      BY <1>6, <1>8, <1>14, <1>15, Zenon
    <3> QED BY <1>0, <3>1, <3>2 DEF ResInv, ResOf
  <2>2. ResOf(r)'
    <3>1. LastCall(r)' = call[r]
      BY <1>1, <1>2 DEF LastCall
    <3>2. total[r] # 0 => holds'[own] = {<<r, call[r]>>}
      BY <1>5, <1>6, <1>14 DEF Message
    <3> QED BY <1>2, <1>4, <3>1, <3>2 DEF ResOf
  <2> QED BY <2>1, <2>2 DEF ResInv
<1>17. HoldsInv'
  <2>1. \A s \in Readers : Message(s)' = Message(s)
    BY <1>1 DEF Message
  <2>2. ASSUME NEW s \in Readers, total'[s] > 0 PROVE holds'[buf'[s].id] = {Message(s)}
    <3>1. s # r
      BY <1>2, <2>2
    <3>2. buf'[s] = buf[s] /\ total[s] > 0 /\ buf[s].id \in Ids
      BY <1>0, <1>3, <2>2, <3>1 DEF Apart, BufferTypes, Buffer
    <3>3. buf[s].id # old
      BY <1>1, <3>1, BufAlone, Zenon DEF old
    <3>4. reading[s] # "idle"
      BY <1>0, <3>2 DEF BufInv, BufOf
    <3>5. buf[s].id \notin res[r]
      BY <3>4, BufIs, NotInResult
    <3> QED BY <1>0, <1>8, <1>14, <3>1, <3>2, <3>3, <3>5 DEF HoldsInv
  <2>3. ASSUME NEW b \in Ids, holds'[b] # {}
        PROVE  \E s \in Readers : (total'[s] > 0 /\ b = buf'[s].id) \/ b \in res'[s]
    <3>1. CASE b = own
      <4>1. total[r] # 0
        BY <1>6, <1>14, <2>3, <3>1
      <4> QED BY <1>2, <3>1, <4>1
    <3>2. CASE b # own
      <4>1. b \notin res[r] /\ b # old /\ holds[b] # {}
        BY <1>14, <2>3, <3>2
      <4>2. PICK s \in Readers : (total[s] > 0 /\ b = buf[s].id) \/ b \in res[s]
        BY <1>0, <4>1 DEF HoldsInv
      <4>3. s # r
        BY <4>1, <4>2 DEF old
      <4>4. total'[s] = total[s] /\ buf'[s] = buf[s] /\ res'[s] = res[s]
        BY <1>1, <1>3, <4>3, Zenon DEF Apart
      <4> QED BY <4>2, <4>4
    <3> QED BY <3>1, <3>2
  <2> QED BY <2>1, <2>2, <2>3 DEF HoldsInv
<1> QED BY <1>9, <1>10, <1>12, <1>13, <1>16, <1>17 DEF BufferInv

\* The invariant holds at the start.
LEMMA BufferInitial ==
  ASSUME BuffersInit PROVE BufferInv
<1>0. /\ pool = [k \in Classes |-> <<>>] /\ holds = [b \in Ids |-> {}]
      /\ reading = [r \in Readers |-> "idle"]
      /\ max = [r \in Readers |-> 0] /\ call = [r \in Readers |-> 0]
      /\ buf = [r \in Readers |-> NoBuffer] /\ class = [r \in Readers |-> 0]
      /\ total = [r \in Readers |-> 0] /\ tooLong = [r \in Readers |-> FALSE]
      /\ grown = [r \in Readers |-> NoBuffer] /\ res = [r \in Readers |-> {}]
  BY DEF BuffersInit
<1>1. BufferTypes
  <2>1. pool \in [Classes -> Seq(Buffer)]
    BY <1>0
  <2>2. holds \in [Ids -> SUBSET (Readers \X (0..1))] /\ res \in [Readers -> SUBSET Ids]
    BY <1>0
  <2>3. buf \in [Readers -> Buffer] /\ grown \in [Readers -> Buffer]
    BY <1>0, NoBufferIs
  <2> QED BY <1>0, <2>1, <2>2, <2>3 DEF BufferTypes, ReadPCs
<1>2. PoolInv
  BY <1>0 DEF PoolInv
<1>3. BufInv /\ GrownInv
  BY <1>0 DEF BufInv, BufOf, GrownInv, GrownOf
<1>4. LentOnce
  <2>1. NoBuffer.id \notin Pooled
    BY NoneNotPooled, Zenon DEF Pooled
  <2> QED BY <1>0, <2>1 DEF LentOnce
<1>5. ResInv /\ HoldsInv
  BY <1>0 DEF ResInv, ResOf, HoldsInv
<1> QED BY <1>1, <1>2, <1>3, <1>4, <1>5 DEF BufferInv

\* It is of the variables of ReadBuffers only.
LEMMA BufferSame ==
  ASSUME BufferInv, UNCHANGED bufferVars PROVE BufferInv'
<1>1. UNCHANGED <<reading, pool, holds, max, call, buf, class, total, tooLong, grown, res>>
  BY DEF bufferVars
<1>2. BufferTypes'
  BY <1>1 DEF BufferInv, BufferTypes
<1>3. PoolInv'
  BY <1>1 DEF BufferInv, PoolInv
<1>4. LentOnce'
  BY <1>1 DEF BufferInv, LentOnce
<1>5. HoldsInv'
  BY <1>1 DEF BufferInv, HoldsInv, Message
<1>6. BufInv'
  BY <1>1 DEF BufferInv, BufInv, BufOf
<1>7. ResInv'
  <2>1. \A r \in Readers : LastCall(r)' = LastCall(r)
    BY <1>1 DEF LastCall
  <2> QED BY <1>1, <2>1 DEF BufferInv, ResInv, ResOf
<1>8. GrownInv'
  BY <1>1, Zenon DEF BufferInv, GrownInv, GrownOf, Full, sizeToGrow
<1> QED BY <1>2, <1>3, <1>4, <1>5, <1>6, <1>7, <1>8 DEF BufferInv

\* It says that results are the callers' own.
LEMMA BufferSays ==
  ASSUME BufferInv PROVE ResultIsOwn
<1>0. BufferTypes /\ GrownInv /\ ResInv /\ HoldsInv
  BY DEF BufferInv
<1> SUFFICES ASSUME NEW r \in Readers
             PROVE  /\ total[r] > 0 => holds[buf[r].id] = {Message(r)}
                    /\ \A b \in res[r] :
                         holds[b] = {<<r, IF reading[r] = "idle" THEN call[r] ELSE 1 - call[r]>>}
                    /\ reading[r] = "copy" => grown[r].len > total[r]
  BY DEF ResultIsOwn
<1>1. total[r] > 0 => holds[buf[r].id] = {Message(r)}
  BY <1>0 DEF HoldsInv
<1>2. \A b \in res[r] : holds[b] = {<<r, IF reading[r] = "idle" THEN call[r] ELSE 1 - call[r]>>}
  BY <1>0 DEF ResInv, ResOf, LastCall
<1>3. reading[r] = "copy" => grown[r].len > total[r]
  BY <1>0 DEF GrownInv, GrownOf
<1> QED BY <1>1, <1>2, <1>3, Zenon

\* What getReadMsgBuffer relies on: classFor gives a class that holds the size, and
\* make finds memory nobody refers to.
Finds(r) ==
  LET size == sizeToGrow(r)
      k == classFor(size) IN
  /\ k \in Classes \cup {0} /\ (k # 0 => size <= Sizes[k])
  /\ k # 0 /\ pool[k] = <<>> => Unused(k) \in PooledOf(k) /\ Unused(k) \notin Referred

\* What getReadMsgBuffer returns is nobody else's, and no longer in the cache.
Taking(r) ==
  LET k == classFor(sizeToGrow(r)) IN
  pool' = IF Taken(k) THEN [pool EXCEPT ![k] = SubSeq(@, 1, Len(@) - 1)] ELSE pool
Got(r) == get(r, classFor(sizeToGrow(r)), sizeToGrow(r))

\* getReadMsgBuffer takes the last free buffer of the class, if it has one.
LEMMA TakenLeaves ==
  ASSUME BufferInv, NEW r \in Readers, Full(r), Taking(r), Finds(r)
  PROVE  /\ pool' \in [Classes -> Seq(Buffer)]
         /\ \A j \in Classes : \A i \in 1..Len(pool'[j]) :
              i \in 1..Len(pool[j]) /\ pool'[j][i] = pool[j][i]
         /\ LET k == classFor(sizeToGrow(r)) IN
            Taken(k) => Len(pool'[k]) = Len(pool[k]) - 1 /\ Len(pool[k]) \in Nat \ {0}
<1> DEFINE k == classFor(sizeToGrow(r))
<1>0. pool \in [Classes -> Seq(Buffer)]
  BY DEF BufferInv, BufferTypes
<1>1. k \in Classes \cup {0}
  BY Zenon DEF Finds
<1>2. pool' = IF Taken(k) THEN [pool EXCEPT ![k] = SubSeq(@, 1, Len(@) - 1)] ELSE pool
  BY DEF Taking
<1> HIDE DEF k
<1>3. CASE ~Taken(k)
  BY <1>0, <1>2, <1>3 DEF k
<1>4. CASE Taken(k)
  <2>1. k \in Classes /\ pool[k] \in Seq(Buffer) /\ pool[k] # <<>>
    BY <1>0, <1>1, <1>4 DEF Taken
  <2> DEFINE p == pool[k]
             n == Len(p)
             q == SubSeq(p, 1, n - 1)
  <2>2. n \in Nat \ {0} /\ \A i \in 1..n : p[i] \in Buffer
    BY <2>1
  <2>3. \A i \in 1..(n - 1) : p[i] \in Buffer
    BY <2>2
  <2> HIDE DEF p, n
  <2>4. 1 \in Int /\ n - 1 \in Int
    BY <2>2
  <2>5. q \in Seq(Buffer)
    BY <2>3, <2>4, SubSeqIs
  <2>6. Len(q) = n - 1
    <3>1. Len(q) = IF 1 <= n - 1 THEN n - 1 - 1 + 1 ELSE 0
      BY <2>3, <2>4, SubSeqIs
    <3> QED BY <2>2, <3>1
  <2>7. \A i \in 1..(n - 1) : q[i] = p[i]
    <3>1. \A i \in 1..(n - 1 - 1 + 1) : q[i] = p[1 + i - 1]
      BY <2>3, <2>4, SubSeqIs
    <3> QED BY <2>2, <3>1
  <2>8. pool' = [pool EXCEPT ![k] = q]
    BY <1>2, <1>4 DEF p, n
  <2> HIDE DEF q
  <2>9. pool' \in [Classes -> Seq(Buffer)]
    BY <1>0, <2>1, <2>5, <2>8
  <2>10. pool'[k] = q /\ \A j \in Classes \ {k} : pool'[j] = pool[j]
    BY <1>0, <2>1, <2>8
  <2>11. ASSUME NEW j \in Classes, NEW i \in 1..Len(pool'[j])
         PROVE  i \in 1..Len(pool[j]) /\ pool'[j][i] = pool[j][i]
    <3>1. CASE j = k
      <4>1. i \in 1..(n - 1)
        BY <2>6, <2>10, <2>11, <3>1
      <4>2. i \in 1..n /\ q[i] = p[i]
        BY <2>2, <2>7, <4>1
      <4> QED BY <2>10, <3>1, <4>2 DEF p, n
    <3>2. CASE j # k
      BY <2>10, <2>11, <3>2
    <3> QED BY <3>1, <3>2
  <2>12. Len(pool'[k]) = Len(pool[k]) - 1 /\ Len(pool[k]) \in Nat \ {0}
    BY <2>2, <2>6, <2>10 DEF n, p
  <2> QED BY <2>9, <2>11, <2>12 DEF k
<1> QED BY <1>3, <1>4, Zenon

\* What it returns is larger than what has been read, belongs to nobody, and is no
\* longer in the cache.
LEMMA GotIs ==
  ASSUME BufferInv, NEW r \in Readers, reading[r] = "read", Full(r), Taking(r), Finds(r)
  PROVE  /\ Got(r) \in Buffer /\ Got(r).len > total[r] /\ Got(r).id # buf[r].id
         /\ LET k == classFor(sizeToGrow(r)) IN
            /\ k \in Classes \cup {0}
            /\ k = 0 => \E w \in 1..3 : Got(r).id = Own(r, call[r], w)
            /\ k # 0 => /\ k \in Classes /\ Got(r).id \in PooledOf(k)
                        /\ \A s \in Readers : Got(r).id # buf[s].id /\ Got(r).id # grown[s].id
         /\ \A j \in Classes : \A i \in 1..Len(pool'[j]) : pool'[j][i].id # Got(r).id
<1> DEFINE size == sizeToGrow(r)
           k == classFor(size)
           g == Got(r)
<1>0. BufferTypes /\ PoolInv /\ call[r] \in 0..1 /\ total[r] \in Nat
  BY DEF BufferInv, BufferTypes
<1>1. size \in Nat /\ size > total[r]
  BY <1>0, SizeIsNat, Zenon
<1>2. k \in Classes \cup {0} /\ (k # 0 => size <= Sizes[k])
  BY DEF Finds
<1>3. /\ \A j \in Classes : \A i \in 1..Len(pool'[j]) :
           i \in 1..Len(pool[j]) /\ pool'[j][i] = pool[j][i]
      /\ Taken(k) => Len(pool'[k]) = Len(pool[k]) - 1 /\ Len(pool[k]) \in Nat \ {0}
  BY TakenLeaves, Zenon
<1>4. g = get(r, k, size)
  BY DEF Got
<1> HIDE DEF size, k, g
<1>5. CASE k = 0
  <2> DEFINE w == IF buf[r].id = Own(r, call[r], 2) THEN 3 ELSE 2
  <2>1. ~Taken(k)
    BY <1>5 DEF Taken
  <2>2. g = [id |-> Own(r, call[r], w), len |-> size]
    BY <1>4, <1>5, <2>1, Zenon DEF get
  <2>3. w \in 1..3 /\ w \in 1..4 /\ Own(r, call[r], w) # buf[r].id
    BY OwnIsOwn
  <2> HIDE DEF w
  <2>4. g \in Buffer /\ g.len > total[r] /\ g.id # buf[r].id /\ g.id = Own(r, call[r], w)
    BY <1>0, <1>1, <2>2, <2>3, OwnInIds, Zenon DEF Buffer
  <2>5. \A j \in Classes : \A i \in 1..Len(pool'[j]) : pool'[j][i].id # g.id
    <3> SUFFICES ASSUME NEW j \in Classes, NEW i \in 1..Len(pool'[j])
                 PROVE  pool'[j][i].id # g.id
      BY Zenon
    <3>1. i \in 1..Len(pool[j]) /\ pool'[j][i] = pool[j][i]
      BY <1>3
    <3>2. pool[j][i].id \in PooledOf(j)
      BY <1>0, <3>1 DEF PoolInv
    <3> QED BY <2>4, <3>1, <3>2, OwnNotPooled, Zenon
  <2> QED BY <1>5, <2>3, <2>4, <2>5, Zenon DEF k, g, size
<1>6. CASE Taken(k)
  <2>1. k \in Classes /\ k # 0
    BY <1>2, <1>6, Zenon DEF Taken
  <2> DEFINE n == Len(pool[k])
  <2>2. n \in 1..n /\ Len(pool'[k]) = n - 1 /\ n \in Nat
    BY <1>3, <1>6
  <2>3. g = pool[k][n]
    BY <1>4, <1>6 DEF get
  <2>4. pool[k][n] \in Buffer
    BY <1>0, <2>1, <2>2 DEF BufferTypes
  <2>5. /\ g.id \in PooledOf(k) /\ g.len = Sizes[k]
        /\ \A j \in 1..n : n # j => g.id # pool[k][j].id
        /\ \A s \in Readers : g.id # buf[s].id /\ g.id # grown[s].id
    BY <1>0, <2>1, <2>2, <2>3 DEF PoolInv
  <2> HIDE DEF n
  <2>6. g.len > total[r]
    BY <1>0, <1>1, <1>2, <2>1, <2>5, ClassesAre
  <2>7. ASSUME NEW j \in Classes, NEW i \in 1..Len(pool'[j]) PROVE pool'[j][i].id # g.id
    <3>1. i \in 1..Len(pool[j]) /\ pool'[j][i] = pool[j][i]
      BY <1>3, <2>7
    <3>2. CASE j = k
      <4>1. i \in 1..(n - 1)
        BY <2>2, <2>7, <3>2
      <4>2. i \in 1..n /\ i # n
        BY <2>2, <4>1
      <4> QED BY <2>5, <3>1, <3>2, <4>2
    <3>3. CASE j # k
      <4>1. pool[j][i].id \in PooledOf(j)
        BY <1>0, <3>1 DEF PoolInv
      <4> QED BY <2>5, <3>1, <3>3, <4>1, PooledApart
    <3> QED BY <3>2, <3>3
  <2> QED BY <2>1, <2>3, <2>4, <2>5, <2>6, <2>7, Zenon DEF k, g, size
<1>7. CASE k # 0 /\ ~Taken(k)
  <2>1. k \in Classes /\ pool[k] = <<>>
    BY <1>2, <1>7 DEF Taken
  <2>2. g = [id |-> Unused(k), len |-> Sizes[k]]
    BY <1>4, <1>7, Zenon DEF get
  <2>3. Unused(k) \in PooledOf(k) /\ Unused(k) \notin Referred
    BY <1>7, <2>1, Zenon DEF Finds, k, size
  <2>4. g.id = Unused(k) /\ g.len = Sizes[k]
    BY <2>2
  <2>5. g \in Buffer
    BY <2>1, <2>2, <2>3, PooledInIds, ClassesAre DEF Buffer
  <2>6. g.len > total[r]
    BY <1>0, <1>1, <1>2, <2>1, <2>4, ClassesAre
  <2>7. /\ \A s \in Readers : g.id # buf[s].id /\ g.id # grown[s].id
        /\ \A j \in Classes : \A i \in DOMAIN pool[j] : g.id # pool[j][i].id
    BY <2>3, <2>4, ReferredAre
  <2>8. \A j \in Classes : DOMAIN pool[j] = 1..Len(pool[j])
    BY <1>0 DEF BufferTypes
  <2>9. \A j \in Classes : \A i \in 1..Len(pool'[j]) : pool'[j][i].id # g.id
    BY <1>3, <2>7, <2>8
  <2> QED BY <1>7, <2>1, <2>3, <2>4, <2>5, <2>6, <2>7, <2>9, Zenon DEF k, g, size
<1> QED BY <1>5, <1>6, <1>7, Zenon

\* A call gets a larger buffer.
LEMMA GrowKeeps ==
  ASSUME BufferInv, NEW r \in Readers, Grow(r), Finds(r)
  PROVE  BufferInv'
<1>0. BufferTypes /\ PoolInv /\ BufInv /\ GrownInv /\ LentOnce /\ ResInv /\ HoldsInv
  BY DEF BufferInv
<1> DEFINE k == classFor(sizeToGrow(r))
           g == Got(r)
<1>1. /\ reading[r] = "read" /\ Full(r) /\ Taking(r) /\ reading' = [reading EXCEPT ![r] = "copy"]
      /\ grown' = [grown EXCEPT ![r] = g]
      /\ UNCHANGED <<holds, max, call, buf, class, total, tooLong, res>>
  BY DEF Grow, Taking, Got
<1>2. /\ g \in Buffer /\ g.len > total[r] /\ g.id # buf[r].id
      /\ k \in Classes \cup {0}
      /\ k = 0 => \E w \in 1..3 : g.id = Own(r, call[r], w)
      /\ k # 0 => /\ k \in Classes /\ g.id \in PooledOf(k)
                  /\ \A s \in Readers : g.id # buf[s].id /\ g.id # grown[s].id
      /\ \A j \in Classes : \A i \in 1..Len(pool'[j]) : pool'[j][i].id # g.id
  BY <1>1, GotIs, Zenon
<1>3. /\ pool' \in [Classes -> Seq(Buffer)]
      /\ \A j \in Classes : \A i \in 1..Len(pool'[j]) :
           i \in 1..Len(pool[j]) /\ pool'[j][i] = pool[j][i]
  BY <1>1, TakenLeaves, Zenon
<1>4. sizeToGrow(r)' = sizeToGrow(r) /\ (Full(r)' <=> Full(r))
  BY <1>1, Zenon DEF sizeToGrow, Full
<1>5. k' = k
  BY <1>4
<1> HIDE DEF k, g
<1>6. reading'[r] = "copy" /\ grown'[r] = g
  BY <1>0, <1>1 DEF BufferTypes
<1>7. Apart(r)
  BY <1>0, <1>1 DEF Apart, BufferTypes
<1>8. BufferTypes'
  BY <1>0, <1>1, <1>2, <1>3, Zenon DEF BufferTypes, ReadPCs
<1>9. BufOf(r)'
  BY <1>0, <1>1, <1>6, Zenon DEF BufInv, BufOf
<1>10. GrownOf(r)'
  BY <1>1, <1>2, <1>4, <1>5, <1>6, Zenon DEF GrownOf, k
<1>11. BufInv' /\ GrownInv'
  BY <1>7, <1>9, <1>10, ApartKeeps DEF BufInv, GrownInv
<1>12. PoolInv'
  <2> SUFFICES ASSUME NEW j \in Classes, NEW i \in 1..Len(pool'[j])
               PROVE  /\ pool'[j][i].id \in PooledOf(j) /\ pool'[j][i].len = Sizes[j]
                      /\ \A m \in 1..Len(pool'[j]) : i # m => pool'[j][i].id # pool'[j][m].id
                      /\ \A s \in Readers : /\ pool'[j][i].id # buf'[s].id
                                            /\ pool'[j][i].id # grown'[s].id
    BY Zenon DEF PoolInv
  <2>1. i \in 1..Len(pool[j]) /\ pool'[j][i] = pool[j][i]
    BY <1>3
  <2>2. ASSUME NEW s \in Readers PROVE pool'[j][i].id # grown'[s].id
    <3>1. CASE s = r
      BY <1>2, <1>6, <3>1
    <3>2. CASE s # r
      <4>1. grown'[s] = grown[s]
        BY <1>7, <3>2 DEF Apart
      <4>2. pool[j][i].id # grown[s].id
        BY <1>0, <2>1 DEF PoolInv
      <4> QED BY <2>1, <4>1, <4>2
    <3> QED BY <3>1, <3>2
  <2>3. /\ pool[j][i].id \in PooledOf(j) /\ pool[j][i].len = Sizes[j]
        /\ \A m \in 1..Len(pool[j]) : i # m => pool[j][i].id # pool[j][m].id
        /\ \A s \in Readers : pool[j][i].id # buf[s].id
    BY <1>0, <2>1, Zenon DEF PoolInv
  <2>4. \A m \in 1..Len(pool'[j]) : i # m => pool'[j][i].id # pool'[j][m].id
    BY <1>3, <2>1, <2>3, Zenon
  <2> QED BY <1>1, <2>1, <2>2, <2>3, <2>4, Zenon
<1>13. LentOnce'
  <2>1. grown'[r].id \in Pooled =>
          \A s \in Readers : grown'[r].id # buf[s].id /\ grown'[r].id # grown[s].id
    <3>1. CASE k = 0
      <4>1. g.id \notin Pooled
        BY <1>2, <3>1, OwnNotPooled DEF Pooled
      <4> QED BY <1>6, <4>1
    <3>2. CASE k # 0
      BY <1>2, <1>6, <3>2
    <3> QED BY <3>1, <3>2
  <2>2. ASSUME NEW s \in Readers \ {r}, buf'[r].id \in Pooled
        PROVE  buf'[r].id # buf[s].id /\ buf'[r].id # grown[s].id
    <3>1. buf'[r] = buf[r]
      BY <1>1
    <3> QED BY <1>0, <2>2, <3>1 DEF LentOnce
  <2> QED BY <1>0, <1>7, <2>1, <2>2, LentApart
<1>14. ResInv'
  <2>1. \A s \in Readers : LastCall(s)' = LastCall(s)
    BY <1>1, <1>6, <1>7 DEF LastCall, Apart
  <2>2. res' = res /\ holds' = holds
    BY <1>1
  <2> QED BY <1>0, <2>1, <2>2, ResSame
<1>15. HoldsInv'
  BY <1>0, <1>1, Zenon DEF HoldsInv, Message
<1> QED BY <1>8, <1>11, <1>12, <1>13, <1>14, <1>15 DEF BufferInv

-----------------------------------------------------------------------------
(* What getReadMsgBuffer finds.  What follows counts the buffers of a class, and *)
(* takes the least class that is large enough.                                   *)
INSTANCE FiniteSetTheorems
INSTANCE WellFoundedInduction

\* A set of numbers that is not empty has a least one.
LEMMA LeastOf ==
  ASSUME NEW T, T \subseteq Nat, T # {}
  PROVE  \E x \in T : \A y \in T : x <= y
<1> DEFINE R == {ss \in Nat \X Nat : ss[1] < ss[2]}
<1>1. R = OpToRel(<, Nat)
  BY Zenon DEF OpToRel
<1>2. IsWellFoundedOn(R, Nat)
  BY <1>1, NatLessThanWellFounded, Zenon
<1> HIDE DEF R
<1>3. PICK x \in T : \A y \in T : ~ (<<y, x>> \in R)
  BY <1>2, WFMin, Zenon
<1>4. SUFFICES ASSUME NEW y \in T PROVE x <= y
  OBVIOUS
<1>5. <<y, x>> \in Nat \X Nat /\ <<y, x>>[1] = y /\ <<y, x>>[2] = x
  OBVIOUS
<1>6. ~(y < x)
  BY <1>3, <1>5, Zenon DEF R
<1>7. x \in Nat /\ y \in Nat
  OBVIOUS
<1> QED BY <1>6, <1>7

\* classFor gives a class that holds the size, or none.
LEMMA ClassForHolds ==
  ASSUME NEW size \in Nat
  PROVE  /\ classFor(size) \in Classes \cup {0}
         /\ classFor(size) # 0 => size <= Sizes[classFor(size)]
<1> DEFINE T == {k \in Classes : size <= Sizes[k]}
           IsLeast(k) == size <= Sizes[k] /\ \A j \in 1..(k - 1) : size > Sizes[j]
<1>1. CASE \A k \in Classes : size > Sizes[k]
  BY <1>1 DEF classFor
<1>2. CASE ~(\A k \in Classes : size > Sizes[k])
  <2>1. T # {} /\ T \subseteq Nat
    <3>1. PICK k \in Classes : ~(size > Sizes[k])
      BY <1>2
    <3>2. k \in T
      BY <3>1, ClassesAre
    <3> QED BY <3>2, ClassesAre, Zenon
  <2>2. PICK k \in T : \A j \in T : k <= j
    BY <2>1, LeastOf, Zenon
  <2>3. \A j \in 1..(k - 1) : size > Sizes[j]
    <3> SUFFICES ASSUME NEW j \in 1..(k - 1) PROVE size > Sizes[j]
      OBVIOUS
    <3>1. j \in Classes
      BY BufferConstants DEF Classes
    <3> QED BY <2>2, <3>1, ClassesAre
  <2>4. \E m \in Classes : IsLeast(m)
    BY <2>3
  <2>5. classFor(size) = CHOOSE m \in Classes : IsLeast(m)
    BY <1>2 DEF classFor
  <2> HIDE DEF IsLeast
  <2>6. classFor(size) \in Classes /\ IsLeast(classFor(size))
    BY <2>4, <2>5, Zenon
  <2> QED BY <2>6 DEF IsLeast
<1> QED BY <1>1, <1>2

\* The memory calls have, but for what r may grow into.
Lent(r) == {buf[s].id : s \in Readers} \cup {grown[s].id : s \in Readers \ {r}}

\* Calls have at most two buffers each, and the one that is to grow has one.
LEMMA LentIsFew ==
  ASSUME NEW r \in Readers
  PROVE  /\ IsFiniteSet(Lent(r)) /\ Cardinality(Readers) \in Nat
         /\ Cardinality(Lent(r)) <= 2 * Cardinality(Readers) - 1
<1> DEFINE X == {buf[s].id : s \in Readers}
           Rest == Readers \ {r}
           Y == {grown[s].id : s \in Rest}
           f == [s \in Readers |-> buf[s].id]
           g == [s \in Rest |-> grown[s].id]
<1>1. IsFiniteSet(Readers) /\ Cardinality(Readers) \in Nat
  BY BufferConstants, FS_CardinalityType
<1>2. IsFiniteSet(Rest) /\ Cardinality(Rest) = Cardinality(Readers) - 1
  BY <1>1, FS_RemoveElement
<1>3. f \in Surjection(Readers, X)
  BY DEF Surjection
<1>4. g \in Surjection(Rest, Y)
  BY DEF Surjection
<1> HIDE DEF X, Y, f, g, Rest
<1>5. IsFiniteSet(X) /\ Cardinality(X) <= Cardinality(Readers)
  BY <1>1, <1>3, FS_Surjection
<1>6. IsFiniteSet(Y) /\ Cardinality(Y) <= Cardinality(Rest)
  BY <1>2, <1>4, FS_Surjection
<1>7. /\ IsFiniteSet(X \cup Y)
      /\ Cardinality(X \cup Y) = Cardinality(X) + Cardinality(Y) - Cardinality(X \cap Y)
  BY <1>5, <1>6, FS_Union
<1>8. /\ Cardinality(X) \in Nat /\ Cardinality(Y) \in Nat /\ Cardinality(X \cap Y) \in Nat
      /\ Cardinality(Rest) \in Nat
  <2>1. X \cap Y \in SUBSET X
    OBVIOUS
  <2>2. IsFiniteSet(X \cap Y)
    BY <1>5, <2>1, FS_Subset
  <2> QED BY <1>2, <1>5, <1>6, <2>2, FS_CardinalityType
<1>9. Cardinality(X \cup Y) <= 2 * Cardinality(Readers) - 1
  BY <1>1, <1>2, <1>5, <1>6, <1>7, <1>8
<1>10. Lent(r) = X \cup Y
  BY DEF Lent, X, Y, Rest
<1> QED BY <1>1, <1>7, <1>9, <1>10

\* So a class, which has memory for Slots buffers and two for each call, has one
\* that no call has.
LEMMA SomeNotLent ==
  ASSUME NEW r \in Readers, NEW k
  PROVE  \E b \in PooledOf(k) : b \notin Lent(r)
<1> SUFFICES ASSUME PooledOf(k) \subseteq Lent(r) PROVE FALSE
  OBVIOUS
<1> DEFINE n == Slots + 2 * Cardinality(Readers)
           P == PooledOf(k)
           h == [i \in 1..n |-> <<0, k, i>>]
<1>1. /\ IsFiniteSet(Lent(r)) /\ Cardinality(Readers) \in Nat
      /\ Cardinality(Lent(r)) <= 2 * Cardinality(Readers) - 1
  BY LentIsFew
<1>2. P = {<<0, k, i>> : i \in 1..n}
  BY DEF PooledOf
<1>3. h \in Injection(1..n, P)
  BY <1>2 DEF Injection, IsInjective
<1>4. n \in Nat /\ n >= 2 * Cardinality(Readers) /\ n \in Int /\ 1 \in Int
  BY <1>1, BufferConstants
<1> HIDE DEF n, P, h
<1>5. P \in SUBSET Lent(r)
  BY DEF P
<1>6. IsFiniteSet(P) /\ Cardinality(P) <= Cardinality(Lent(r))
  BY <1>1, <1>5, FS_Subset
<1>7. Cardinality(1..n) <= Cardinality(P)
  BY <1>3, <1>6, FS_Injection
<1>8. Cardinality(1..n) = n
  <2>1. Cardinality(1..n) = IF 1 > n THEN 0 ELSE n - 1 + 1
    BY <1>4, FS_Interval
  <2> QED BY <1>4, <2>1
<1>9. Cardinality(P) \in Nat /\ Cardinality(Lent(r)) \in Nat
  BY <1>1, <1>6, FS_CardinalityType
<1> QED BY <1>1, <1>4, <1>6, <1>7, <1>8, <1>9

\* make finds memory nobody refers to.
LEMMA UnusedIsFree ==
  ASSUME BufferInv, NEW r \in Readers, reading[r] # "copy", NEW k \in Classes, pool[k] = <<>>
  PROVE  Unused(k) \in PooledOf(k) /\ Unused(k) \notin Referred
<1>1. PICK b \in PooledOf(k) : b \notin Lent(r)
  BY SomeNotLent
<1>2. \A s \in Readers : b # buf[s].id /\ b # grown[s].id
  <2>1. grown[r] = NoBuffer
    BY Zenon DEF BufferInv, GrownInv, GrownOf
  <2>2. b # grown[r].id
    BY <2>1, NoneNotPooled
  <2> QED BY <1>1, <2>2 DEF Lent
<1>3. \A j \in Classes : \A i \in DOMAIN pool[j] : pool[j][i].id # b
  <2> SUFFICES ASSUME NEW j \in Classes, NEW i \in DOMAIN pool[j], pool[j][i].id = b
               PROVE  FALSE
    OBVIOUS
  <2>1. i \in 1..Len(pool[j])
    BY DEF BufferInv, BufferTypes
  <2>2. b \in PooledOf(j)
    BY <2>1 DEF BufferInv, PoolInv
  <2>3. j = k
    BY <1>1, <2>2, PooledApart
  <2> QED BY <2>1, <2>3
<1>4. \A s \in Readers : b \notin res[s]
  <2> SUFFICES ASSUME NEW s \in Readers, b \in res[s] PROVE FALSE
    OBVIOUS
  <2>1. \E w \in 1..4 : b = Own(s, LastCall(s), w)
    BY DEF BufferInv, ResInv, ResOf
  <2> QED BY <1>1, <2>1, OwnNotPooled
<1>5. b \notin Referred
  BY <1>2, <1>3, <1>4 DEF Referred
<1> QED BY <1>5, Zenon DEF Unused

\* So a call that is to grow finds a buffer.
LEMMA GrowFinds ==
  ASSUME BufferInv, NEW r \in Readers, Grow(r)
  PROVE  Finds(r)
<1> DEFINE size == sizeToGrow(r)
           k == classFor(size)
<1>1. reading[r] # "copy" /\ Full(r)
  BY DEF Grow
<1>2. size \in Nat
  BY <1>1, SizeIsNat, Zenon DEF BufferInv
<1>3. k \in Classes \cup {0} /\ (k # 0 => size <= Sizes[k])
  BY <1>2, ClassForHolds
<1> HIDE DEF size, k
<1>4. k # 0 /\ pool[k] = <<>> => Unused(k) \in PooledOf(k) /\ Unused(k) \notin Referred
  BY <1>1, <1>3, UnusedIsFree
<1> QED BY <1>3, <1>4 DEF Finds, k, size

\* Every step of ReadBuffers keeps it.
LEMMA BufferStep ==
  ASSUME BufferInv, BuffersNext PROVE BufferInv'
BY ReadMsgKeeps, GrowFinds, GrowKeeps, CopyKeeps, PieceOfKeeps, FailsKeeps, ReturnKeeps
   DEF BuffersNext

\* The bytes of a ReadMsg, while it assembles them and after it has returned them,
\* are those of its own message, for every number of concurrent calls, every table
\* of size classes and of cached buffers, and every limit: a pooled buffer is never
\* lent twice, nor given to a caller.
THEOREM ResultIsOwnHolds == BuffersSpec => []ResultIsOwn
<1>1. BuffersInit => BufferInv
  BY BufferInitial
<1>2. BufferInv /\ [BuffersNext /\ UNCHANGED part]_<<part, bufferVars>> => BufferInv'
  <2>1. BufferInv /\ BuffersNext => BufferInv'
    BY BufferStep, Zenon
  <2>2. BufferInv /\ UNCHANGED bufferVars => BufferInv'
    BY BufferSame, Zenon
  <2> QED BY <2>1, <2>2, Zenon
<1>3. BufferInv => ResultIsOwn
  BY BufferSays
<1> QED BY <1>1, <1>2, <1>3, PTL DEF BuffersSpec
=============================================================================
