---------------------------- MODULE ReadBuffers ----------------------------
(* The memory ReadMsg assembles a message in (recv_linux.go).  A call starts    *)
(* with a small buffer of its own, borrows larger ones from readMsgBuffers as   *)
(* the message grows, and copies what it returns out of a borrowed one.  The    *)
(* caches are shared by every connection, and a class keeps a few free buffers. *)
EXTENDS Part, Integers, Sequences, FiniteSets

CONSTANTS Readers,  \* goroutines in ReadMsg, each on a connection of its own
          Sizes,    \* the sizes of the classes, in increasing order
          Slots,    \* free buffers a class keeps
          First,    \* the size of the buffer a call starts with
          Chunk,    \* the least size it grows to
          Maxes     \* the limits callers give

VARIABLES pool,     \* readMsgBuffers: the free buffers of each class, with their lengths
          holds,    \* the calls whose messages a buffer has bytes of
          reading, max, call,      \* a call: where it is, its limit, which of its caller's
          buf, class, total, tooLong,   \* readMsgState; class 0 is a buffer of its own
          grown,    \* the buffer it grows into
          res       \* the memory of what the last call returned, if anything

bufferVars == <<pool, holds, reading, max, call, buf, class, total, tooLong, grown, res>>

Classes == DOMAIN Sizes
Least(a, b) == IF a < b THEN a ELSE b

\* What the constants are assumed to be.
ASSUME BufferAssumption ==
  /\ IsFiniteSet(Readers) /\ 0 \notin Readers
  /\ Sizes \in Seq(Nat) /\ Slots \in Nat /\ First \in Nat /\ Chunk \in Nat \ {0}
  /\ Maxes \subseteq Nat

\* The memory of a class, numbered, and that of a call: the buffer it starts
\* with, the copy it returns, and two larger than any class, of which it grows
\* out of one into the other.  A call and the one after it of the same goroutine
\* have memory of their own, since the caller may still have the last result.
PooledOf(k) == {<<0, k, i>> : i \in 1..(Slots + 2 * Cardinality(Readers))}
Pooled == UNION {PooledOf(k) : k \in Classes}
Own(r, c, which) == <<r, c, which>>
Ids == {<<0, 0, 0>>} \cup Pooled \cup {Own(r, c, w) : r \in Readers, c \in 0..1, w \in 1..4}

NoBuffer == [id |-> <<0, 0, 0>>, len |-> 0]

\* make: memory nobody refers to any more is used again.
Referred ==
  {b.id : b \in UNION {{pool[k][i] : i \in DOMAIN pool[k]} : k \in Classes}}
    \cup {f[r].id : f \in {buf, grown}, r \in Readers} \cup UNION {res[r] : r \in Readers}
Unused(k) == CHOOSE b \in PooledOf(k) : b \notin Referred

BuffersInit ==
  /\ pool = [k \in Classes |-> <<>>] /\ holds = [b \in Ids |-> {}]
  /\ reading = [r \in Readers |-> "idle"]
  /\ max = [r \in Readers |-> 0] /\ call = [r \in Readers |-> 0]
  /\ buf = [r \in Readers |-> NoBuffer] /\ class = [r \in Readers |-> 0]
  /\ total = [r \in Readers |-> 0] /\ tooLong = [r \in Readers |-> FALSE]
  /\ grown = [r \in Readers |-> NoBuffer] /\ res = [r \in Readers |-> {}]

-----------------------------------------------------------------------------
(* readMsgBufferCache *)

\* The smallest class that holds a size, or 0.
classFor(size) ==
  IF \A k \in Classes : size > Sizes[k] THEN 0
  ELSE CHOOSE k \in Classes : size <= Sizes[k] /\ \A j \in 1..(k - 1) : size > Sizes[j]

\* getReadMsgBuffer: the free buffer put last, or a new one.
Taken(k) == k # 0 /\ pool[k] # <<>>
get(r, k, size) ==
  IF Taken(k) THEN pool[k][Len(pool[k])]
  ELSE IF k = 0
       THEN [id |-> Own(r, call[r], IF buf[r].id = Own(r, call[r], 2) THEN 3 ELSE 2),
             len |-> size]
  ELSE [id |-> Unused(k), len |-> Sizes[k]]

\* put: a full class drops the buffer; one it keeps has its whole length again,
\* and anyone may write to it.
put(p, k, b) ==
  IF k = 0 \/ Len(p[k]) >= Slots THEN p
  ELSE [p EXCEPT ![k] = Append(@, [id |-> b.id, len |-> Sizes[k]])]

-----------------------------------------------------------------------------
(* readMsg *)

Message(r) == <<r, call[r]>>

readMsg(r) ==
  /\ reading[r] = "idle" /\ reading' = [reading EXCEPT ![r] = "read"]
  /\ \E m \in Maxes :
       LET b == [id |-> Own(r, 1 - call[r], 1), len |-> Least(First, m)] IN
       /\ max' = [max EXCEPT ![r] = m]
       /\ buf' = [buf EXCEPT ![r] = b]
       /\ call' = [call EXCEPT ![r] = 1 - @]
  /\ UNCHANGED <<pool, holds, class, total, tooLong, grown, res>>

Full(r) == ~tooLong[r] /\ total[r] = buf[r].len /\ total[r] < max[r]

\* The size asked for doubles, or is Chunk, and is no more than the limit.
sizeToGrow(r) ==
  LET len == buf[r].len
      grow == IF len < Chunk THEN Chunk - len ELSE len IN
  len + Least(grow, max[r] - total[r])

\* The buffer is full: get another.
Grow(r) ==
  /\ reading[r] = "read" /\ Full(r)
  /\ LET k == classFor(sizeToGrow(r)) IN
     /\ grown' = [grown EXCEPT ![r] = get(r, k, sizeToGrow(r))]
     /\ pool' = IF Taken(k) THEN [pool EXCEPT ![k] = SubSeq(@, 1, Len(@) - 1)] ELSE pool
  /\ reading' = [reading EXCEPT ![r] = "copy"]
  /\ UNCHANGED <<holds, max, call, buf, class, total, tooLong, res>>

\* What it held is copied, and it goes back to its class.
Copy(r) ==
  /\ reading[r] = "copy" /\ reading' = [reading EXCEPT ![r] = "read"]
  /\ holds' = [holds EXCEPT ![grown[r].id] = holds[buf[r].id],
                            ![buf[r].id] = {}]
  /\ pool' = put(pool, class[r], buf[r])
  /\ buf' = [buf EXCEPT ![r] = [grown[r] EXCEPT !.len = Least(@, max[r])]]
  /\ class' = [class EXCEPT ![r] = classFor(sizeToGrow(r))]
  /\ grown' = [grown EXCEPT ![r] = NoBuffer]
  /\ UNCHANGED <<max, call, total, tooLong, res>>

\* A piece of the message comes, and may be its last.  Past the limit the rest
\* goes to the connection's scratch buffer.
ReadPiece(r) ==
  /\ reading[r] = "read" /\ ~Full(r)
  /\ \E eor \in BOOLEAN :
       /\ reading' = [reading EXCEPT ![r] = IF eor THEN "handler" ELSE "read"]
       /\ \/ /\ ~tooLong[r]
             /\ \E n \in 1..(buf[r].len - total[r]) :
                  /\ total' = [total EXCEPT ![r] = @ + n]
                  /\ tooLong' = [tooLong EXCEPT ![r] = total'[r] = max[r] /\ ~eor]
                  /\ holds' = [holds EXCEPT ![buf[r].id] = @ \cup {Message(r)}]
          \/ tooLong[r] /\ UNCHANGED <<total, tooLong, holds>>
  /\ UNCHANGED <<pool, max, call, buf, class, grown, res>>

\* An error, a deadline, a close or a record cut short ends the read.
Fails(r) ==
  /\ reading[r] = "read" /\ ~Full(r) /\ reading' = [reading EXCEPT ![r] = "handler"]
  /\ UNCHANGED <<pool, holds, max, call, buf, class, total, tooLong, grown, res>>

Forget(r) ==
  /\ buf' = [buf EXCEPT ![r] = NoBuffer] /\ class' = [class EXCEPT ![r] = 0]
  /\ max' = [max EXCEPT ![r] = 0] /\ total' = [total EXCEPT ![r] = 0]
  /\ tooLong' = [tooLong EXCEPT ![r] = FALSE]

\* Mutation: the caller is given the borrowed buffer itself.
Returns_NoCopy(r) ==
  /\ reading[r] = "handler" /\ reading' = [reading EXCEPT ![r] = "idle"]
  /\ res' = [res EXCEPT ![r] = IF total[r] = 0 THEN {} ELSE {buf[r].id}]
  /\ pool' = put(pool, class[r], buf[r])
  /\ holds' = [holds EXCEPT ![buf[r].id] = IF class[r] = 0 THEN @ ELSE {}]
  /\ Forget(r) /\ UNCHANGED <<call, grown>>

\* The handlers have run, with the buffer still borrowed; the result is copied
\* when it is in a borrowed buffer, which then goes back.
Returns(r) ==
  /\ reading[r] = "handler" /\ reading' = [reading EXCEPT ![r] = "idle"]
  /\ LET own == IF class[r] = 0 THEN buf[r].id ELSE Own(r, call[r], 4) IN
     /\ holds' = [b \in Ids |-> IF b = own THEN holds[buf[r].id]
                                ELSE IF b \in res[r] \cup {buf[r].id} THEN {} ELSE holds[b]]
     /\ res' = [res EXCEPT ![r] = IF total[r] = 0 THEN {} ELSE {own}]
  /\ pool' = put(pool, class[r], buf[r])
  /\ Forget(r) /\ UNCHANGED <<call, grown>>

BuffersNext ==
  \E r \in Readers :
    readMsg(r) \/ Grow(r) \/ Copy(r) \/ ReadPiece(r) \/ Fails(r) \/ Returns(r)

BuffersSpec ==
  /\ part = "buffers" /\ BuffersInit
  /\ [][BuffersNext /\ UNCHANGED part]_<<part, bufferVars>>

-----------------------------------------------------------------------------
(* Properties *)

\* The bytes a call has assembled, and those its caller was given, are those of
\* its message, whatever other calls on other connections read at the same time:
\* no buffer is lent twice, given back in use, or given to a caller and lent.  A
\* buffer a call grows into has room for more than the one that was full.
ResultIsOwn ==
  part = "buffers" => \A r \in Readers :
    /\ total[r] > 0 => holds[buf[r].id] = {Message(r)}
    /\ \A b \in res[r] :
         holds[b] = {<<r, IF reading[r] = "idle" THEN call[r] ELSE 1 - call[r]>>}
    /\ reading[r] = "copy" => grown[r].len > total[r]
=============================================================================
