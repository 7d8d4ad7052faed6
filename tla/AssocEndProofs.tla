--------------------------- MODULE AssocEndProofs ---------------------------
(***************************************************************************)
(* Proofs about what a connection is told by its association, for every    *)
(* value of the constants.  A notification is given whole (Notes), and the *)
(* latch, termState, makes all calls report the same end, after everything *)
(* that was queued before it (AssocEnd).                                   *)
(***************************************************************************)
EXTENDS Notes, AssocEnd, TLAPS

-----------------------------------------------------------------------------
(* Sequences *)

\* Sequences of one length with the same elements are one.
LEMMA SameSeq ==
  ASSUME NEW S, NEW s \in Seq(S), NEW t \in Seq(S), Len(s) = Len(t),
         \A i \in 1..Len(s) : s[i] = t[i]
  PROVE  s = t
<1>1. s \in [1..Len(s) -> S] /\ t \in [1..Len(s) -> S]
  OBVIOUS
<1> QED BY <1>1

\* The elements of a piece of a sequence.
LEMMA SubSeqIs ==
  ASSUME NEW S, NEW s \in Seq(S), NEW m \in Int, NEW n \in Int, \A i \in m..n : s[i] \in S
  PROVE  /\ SubSeq(s, m, n) \in Seq(S)
         /\ Len(SubSeq(s, m, n)) = IF m <= n THEN n - m + 1 ELSE 0
         /\ \A i \in 1..(n - m + 1) : SubSeq(s, m, n)[i] = s[m + i - 1]
<1>1. \A i \in 1..(n - m + 1) : m + i - 1 \in m..n /\ s[m + i - 1] \in S
  OBVIOUS
<1>2. SubSeq(s, m, n) \in Seq(S)
  BY <1>1
<1>3. Len(SubSeq(s, m, n)) = IF m <= n THEN n - m + 1 ELSE 0
  OBVIOUS
<1>4. \A i \in 1..(n - m + 1) : SubSeq(s, m, n)[i] = s[m + i - 1]
  OBVIOUS
<1> QED BY <1>2, <1>3, <1>4, Zenon

\* The elements of a sequence and the one after it.
LEMMA ConcatIs ==
  ASSUME NEW S, NEW s \in Seq(S), NEW t \in Seq(S)
  PROVE  /\ s \o t \in Seq(S) /\ Len(s \o t) = Len(s) + Len(t)
         /\ \A i \in 1..(Len(s) + Len(t)) :
              (s \o t)[i] = IF i <= Len(s) THEN s[i] ELSE t[i - Len(s)]
OBVIOUS

\* The empty sequence adds nothing.
LEMMA ConcatEmpty ==
  ASSUME NEW S, NEW s \in Seq(S)
  PROVE  s \o <<>> = s /\ <<>> \o s = s
OBVIOUS

-----------------------------------------------------------------------------
(* Notes *)

\* The assumptions on the constants of Notes.
LEMMA NoteConstants ==
  /\ Header \in Nat /\ Prefix \in Nat /\ NoteLimit \in Nat /\ MaxTotal \in Nat
  /\ Header <= Prefix /\ Declares \subseteq Nat
BY NoteAssumption

Byte == (0..1) \X Nat

\* The bytes from one place of the record to another: their number and what they are.
LEMMA BytesAre ==
  ASSUME NEW a \in Nat, NEW b \in Nat, a <= b, record \in Record
  PROVE  /\ Bytes(a, b) \in Seq(Byte)
         /\ Len(Bytes(a, b)) = b - a
         /\ \A i \in 1..(b - a) : Bytes(a, b)[i] = <<record.nr, a + i>>
<1>1. record.nr \in 0..1
  BY DEF Record
<1>2. \A i \in 1..(b - a) : <<record.nr, a + i>> \in Byte
  BY <1>1 DEF Byte
<1>3. Bytes(a, b) \in [1..(b - a) -> Byte]
  BY <1>2 DEF Bytes
<1>4. b - a \in Nat
  OBVIOUS
<1> QED
  BY <1>3, <1>4 DEF Bytes

\* A run of the record's bytes and the one after it are one run.
LEMMA BytesJoin ==
  ASSUME NEW a \in Nat, NEW b \in Nat, NEW c \in Nat, a <= b, b <= c, record \in Record
  PROVE  Bytes(a, b) \o Bytes(b, c) = Bytes(a, c)
<1> DEFINE s == Bytes(a, b)
           t == Bytes(b, c)
           u == Bytes(a, c)
<1>1. /\ s \in Seq(Byte) /\ Len(s) = b - a
      /\ \A i \in 1..(b - a) : s[i] = <<record.nr, a + i>>
  BY BytesAre, Zenon
<1>2. /\ t \in Seq(Byte) /\ Len(t) = c - b
      /\ \A i \in 1..(c - b) : t[i] = <<record.nr, b + i>>
  BY BytesAre, Zenon
<1>3. /\ u \in Seq(Byte) /\ Len(u) = c - a
      /\ \A i \in 1..(c - a) : u[i] = <<record.nr, a + i>>
  <2>1. a <= c
    OBVIOUS
  <2> QED BY <2>1, BytesAre, Zenon
<1> HIDE DEF s, t, u
<1>4. /\ s \o t \in Seq(Byte) /\ Len(s \o t) = c - a
      /\ \A i \in 1..(c - a) : (s \o t)[i] = IF i <= b - a THEN s[i] ELSE t[i - (b - a)]
  <2>1. /\ s \o t \in Seq(Byte) /\ Len(s \o t) = Len(s) + Len(t)
        /\ \A i \in 1..(Len(s) + Len(t)) :
             (s \o t)[i] = IF i <= Len(s) THEN s[i] ELSE t[i - Len(s)]
    BY <1>1, <1>2, ConcatIs, Zenon
  <2>2. Len(s) + Len(t) = c - a
    BY <1>1, <1>2
  <2> QED BY <1>1, <2>1, <2>2, Zenon
<1> DEFINE w == s \o t
<1> HIDE DEF w
<1>5. \A i \in 1..(c - a) : w[i] = u[i]
  <2> SUFFICES ASSUME NEW i \in 1..(c - a) PROVE w[i] = u[i]
    OBVIOUS
  <2>1. w[i] = IF i <= b - a THEN s[i] ELSE t[i - (b - a)]
    BY <1>4 DEF w
  <2>2. u[i] = <<record.nr, a + i>>
    BY <1>3
  <2>3. CASE i <= b - a
    <3>1. s[i] = <<record.nr, a + i>>
      BY <1>1, <2>3
    <3> QED BY <2>1, <2>2, <2>3, <3>1
  <2>4. CASE ~(i <= b - a)
    <3>1. i - (b - a) \in 1..(c - b) /\ b + (i - (b - a)) = a + i
      BY <2>4
    <3>2. t[i - (b - a)] = <<record.nr, a + i>>
      BY <1>2, <3>1
    <3> QED BY <2>1, <2>2, <2>4, <3>2
  <2> QED BY <2>3, <2>4
<1>6. w = u
  BY <1>3, <1>4, <1>5, SameSeq, Zenon DEF w
<1> QED BY <1>6 DEF s, t, u, w

\* A piece of a run is the run of its ends.
Slice(s, i, j) == SubSeq(s, i, j)

\* A piece of a run of bytes is the run between its ends.
LEMMA BytesPiece ==
  ASSUME NEW a \in Nat, NEW b \in Nat, NEW c \in Nat, NEW d \in Nat,
         a <= b, b <= c, c <= d, record \in Record
  PROVE  Slice(Bytes(a, d), b - a + 1, c - a) = Bytes(b, c)
<1> DEFINE k == b - a + 1
           j == c - a
           s == Bytes(a, d)
           u == Bytes(b, c)
           w == SubSeq(s, k, j)
<1>1. /\ s \in Seq(Byte) /\ Len(s) = d - a
      /\ \A m \in 1..(d - a) : s[m] = <<record.nr, a + m>>
  <2>1. a <= d
    OBVIOUS
  <2> QED BY <2>1, BytesAre, Zenon
<1>2. /\ u \in Seq(Byte) /\ Len(u) = c - b
      /\ \A m \in 1..(c - b) : u[m] = <<record.nr, b + m>>
  BY BytesAre, Zenon
<1> HIDE DEF s, u
<1>3. \A m \in k..j : s[m] \in Byte
  BY <1>1
<1>4. k \in Int /\ j \in Int /\ k = b - a + 1 /\ j = c - a
  OBVIOUS
<1> HIDE DEF k, j
<1>5. w \in Seq(Byte)
  BY <1>3, <1>4, SubSeqIs
<1>6. Len(w) = IF k <= j THEN j - k + 1 ELSE 0
  BY <1>3, <1>4, SubSeqIs
<1>7. \A m \in 1..(j - k + 1) : w[m] = s[k + m - 1]
  BY <1>3, <1>4, SubSeqIs
<1> HIDE DEF w
<1>8. Len(w) = c - b
  BY <1>4, <1>6
<1>9. \A m \in 1..(c - b) : w[m] = u[m]
  <2> SUFFICES ASSUME NEW m \in 1..(c - b) PROVE w[m] = u[m]
    OBVIOUS
  <2>1. w[m] = s[k + m - 1]
    BY <1>4, <1>7
  <2>2. k + m - 1 \in 1..(d - a) /\ a + (k + m - 1) = b + m
    BY <1>4
  <2> QED BY <1>1, <1>2, <2>1, <2>2, Zenon
<1>10. w = u
  BY <1>2, <1>5, <1>8, <1>9, SameSeq, Zenon
<1> QED BY <1>10 DEF s, u, w, k, j, Slice

\* The empty run.
LEMMA NoBytes ==
  ASSUME record \in Record
  PROVE  Bytes(0, 0) = <<>>
BY BytesAre

-----------------------------------------------------------------------------
(* What an accumulator holds of the first n bytes of the record *)

Min(a, b) == IF a < b THEN a ELSE b

\* The bytes read so far could be the beginning of a record that is given.
Sound(n) ==
  /\ n <= NoteLimit
  /\ n >= Header => /\ Header <= record.declared /\ record.declared <= NoteLimit
                    /\ n <= record.declared

\* retain, after n bytes.
Retains(n) == n >= Header /\ record.wanted

\* The fields of a notificationAccumulator.
Acc(d, q, n, h, w, e) ==
  [data |-> d, prefix |-> q, total |-> n, haveDeclared |-> h, retain |-> w, err |-> e]

\* An accumulator without an error that has the first n bytes, and w is retain.
Retained(n, w) == IF w THEN Bytes(0, n) ELSE <<>>
Before(n, w, h) == Acc(Retained(n, w), Bytes(0, Min(n, Prefix)), n, h, w, "nil")

\* The accumulator after the first n bytes.
Accumulated(n) == Before(n, Retains(n), n >= Header)

\* An accumulator with an error, after n bytes: they are not the beginning of a
\* record to give.
Refused(e, n) ==
  /\ e \in {"ErrShortNotification", "ErrNotificationTooLong"} /\ ~Sound(n)
  /\ e = "ErrNotificationTooLong" => n > NoteLimit \/ record.declared > NoteLimit

\* Each variable and its type.
NoteTypes ==
  /\ handler \in BOOLEAN /\ record \in Record /\ sent \in Nat /\ served \in Nat
  /\ noting \in BOOLEAN /\ serving \in BOOLEAN

\* A record that is being read: the accumulator has its first bytes, or has
\* refused it and could only refuse it.
NotingInv ==
  noting =>
    /\ verdict = "none" /\ ~serving /\ served = 0 /\ sent > 0 /\ out = <<>>
    /\ \/ notes = Accumulated(sent) /\ Sound(sent)
          /\ (typed <=> sent >= Header) /\ (kept <=> Retains(sent))
       \/ Refused(notes.err, sent)

\* A record that is being served is one to give, and was served from its start.
ServingInv ==
  serving =>
    /\ verdict = "none" /\ ~noting /\ WellFramed /\ record.wanted
    /\ notes.data = Bytes(0, sent) /\ served < sent /\ out = Bytes(0, served)

\* Between records nothing is left of the last one.
DoneInv ==
  /\ ~noting /\ ~serving => served = 0 /\ notes = Zero
  /\ ~noting /\ ~serving /\ verdict = "none" => sent = 0 /\ out = <<>>

NoteInv == NoteTypes /\ NotingInv /\ ServingInv /\ DoneInv /\ GivenWhole

\* reset leaves an accumulator that has read nothing.
LEMMA ZeroBefore ==
  ASSUME record \in Record
  PROVE  Zero = Before(0, FALSE, FALSE)
<1>1. Min(0, Prefix) = 0
  BY NoteConstants DEF Min
<1> QED BY <1>1, NoBytes, Zenon DEF Zero, Before, Acc, Retained

\* keep, called while the prefix has every byte read so far, retains them all.
LEMMA KeepStarts ==
  ASSUME record \in Record, NEW n \in Nat, NEW h \in BOOLEAN, n <= Prefix
  PROVE  keep(Before(n, FALSE, h)) = Before(n, TRUE, h)
<1> DEFINE q == Bytes(0, n)
           a == Acc(<<>>, q, n, h, FALSE, "nil")
<1>1. Min(n, Prefix) = n
  BY NoteConstants DEF Min
<1>2. Before(n, FALSE, h) = a /\ Before(n, TRUE, h) = Acc(q, q, n, h, TRUE, "nil")
  BY <1>1 DEF Before, Retained
<1>3. q \in Seq(Byte) /\ Len(q) = n
  BY BytesAre
<1>4. <<>> \o q = q
  BY <1>3, ConcatEmpty
<1> HIDE DEF q
<1>5. /\ a.data = <<>> /\ a.prefix = q /\ a.total = n /\ a.retain = FALSE /\ a.err = "nil"
  BY DEF Acc
<1>a. [a EXCEPT !.retain = TRUE, !.data = q] = Acc(q, q, n, h, TRUE, "nil")
  <2> DEFINE d == <<>>
             off == FALSE
             on == TRUE
             nil == "nil"
  <2> HIDE DEF d, off, on, nil
  <2>1. [Acc(d, q, n, h, off, nil) EXCEPT !.retain = on] = Acc(d, q, n, h, on, nil)
    BY DEF Acc
  <2>2. [Acc(d, q, n, h, on, nil) EXCEPT !.data = q] = Acc(q, q, n, h, on, nil)
    BY DEF Acc
  <2> QED BY <2>1, <2>2, Zenon DEF d, off, on, nil
<1> HIDE DEF a
<1>6. ~(a.total > Len(a.prefix))
  BY <1>3, <1>5
<1>7. keep(a) = [a EXCEPT !.retain = TRUE, !.data = q]
  BY <1>4, <1>5, <1>6, Zenon DEF keep
<1> QED BY <1>2, <1>a, <1>7, Zenon

\* How many bytes of a piece of m add puts in the prefix.
ToPrefix(n, m) ==
  IF m < Prefix - Min(n, Prefix) THEN m ELSE Prefix - Min(n, Prefix)

\* add fills the prefix with the first bytes of the record, up to its size.
LEMMA PrefixGrows ==
  ASSUME record \in Record, NEW n \in Nat, NEW m \in Nat \ {0}
  PROVE  Bytes(0, Min(n, Prefix)) \o SubSeq(Bytes(n, n + m), 1, ToPrefix(n, m))
           = Bytes(0, Min(n + m, Prefix))
<1> DEFINE x == ToPrefix(n, m)
<1>0. Prefix \in Nat
  BY NoteConstants
<1>1. x \in Nat /\ x <= m /\ (n <= Prefix => Min(n, Prefix) = n /\ n + x = Min(n + m, Prefix))
      /\ (n > Prefix => Min(n, Prefix) = Prefix /\ x = 0 /\ Min(n + m, Prefix) = Prefix)
  BY <1>0 DEF Min, ToPrefix
<1> HIDE DEF x
<1>2. SubSeq(Bytes(n, n + m), 1, x) = Bytes(n, n + x)
  <2> DEFINE y == n + x
             z == n + m
             k == 1
  <2>1. y \in Nat /\ z \in Nat /\ n <= n /\ n <= y /\ y <= z /\ x = y - n /\ k = n - n + 1
    BY <1>1
  <2> HIDE DEF y, z, k
  <2>2. Slice(Bytes(n, z), n - n + 1, y - n) = Bytes(n, y)
    BY <2>1, BytesPiece
  <2>3. SubSeq(Bytes(n, z), k, x) = Bytes(n, y)
    BY <2>1, <2>2, Zenon DEF Slice
  <2> QED BY <2>3 DEF y, z, k
<1>3. CASE n <= Prefix
  <2>1. Bytes(0, n) \o Bytes(n, n + x) = Bytes(0, n + x)
    <3>1. n + x \in Nat /\ n <= n + x /\ 0 <= n /\ 0 \in Nat
      BY <1>1
    <3> QED BY <3>1, BytesJoin, Zenon
  <2> QED BY <1>1, <1>2, <1>3, <2>1, Zenon DEF x
<1>4. CASE n > Prefix
  <2>1. Bytes(0, Prefix) \in Seq(Byte)
    BY <1>0, BytesAre
  <2>2. Bytes(n, n) = <<>>
    BY BytesAre
  <2>3. Bytes(0, Prefix) \o <<>> = Bytes(0, Prefix)
    BY <2>1, ConcatEmpty
  <2>4. n + x = n
    BY <1>1, <1>4
  <2> QED BY <1>1, <1>2, <1>4, <2>2, <2>3, <2>4, Zenon DEF x
<1>5. n <= Prefix \/ n > Prefix
  BY <1>0
<1> QED BY <1>3, <1>4, <1>5, Zenon

\* The accumulator after a piece of m bytes that follows the first n.
Added(n, m, h) == add(Before(n, Retains(n + m), h), Bytes(n, n + m))

\* add either goes on accumulating the record from its beginning or refuses it,
\* and refuses it only when it is not one to give.
LEMMA AddGoesOn ==
  ASSUME record \in Record, NEW n \in Nat, NEW m \in Nat \ {0}, NEW h \in BOOLEAN
  PROVE  \/ Added(n, m, h) = Accumulated(n + m) /\ Sound(n + m)
         \/ Refused(Added(n, m, h).err, n + m)
<1> DEFINE w == Retains(n + m)
           p == Bytes(n, n + m)
           q == Bytes(0, Min(n, Prefix))
           b == Acc(Retained(n, w), q, n, h, w, "nil")
           x == ToPrefix(n, m)
           z == n + m
           y == z >= Header
           head == Bytes(0, Min(z, Prefix))
           c == Acc(Retained(n, w), head, z, y, w, "nil")
           a == add(b, p)
<1>1. Added(n, m, h) = a /\ Accumulated(z) = Acc(Retained(z, w), head, z, y, w, "nil")
  BY DEF Added, Before, Accumulated
<1>2. /\ Header \in Nat /\ Prefix \in Nat /\ NoteLimit \in Nat /\ Header <= Prefix
      /\ record.declared \in Nat /\ record.wanted \in BOOLEAN
  BY NoteConstants, Zenon DEF Record
<1>3. Len(p) = m /\ p # <<>>
  BY BytesAre
<1>4. Len(q) = Min(n, Prefix)
  <2>1. Min(n, Prefix) \in Nat /\ 0 <= Min(n, Prefix) /\ 0 \in Nat
        /\ Min(n, Prefix) - 0 = Min(n, Prefix)
    BY <1>2 DEF Min
  <2> QED BY <2>1, BytesAre
<1>5. q \o SubSeq(p, 1, x) = head
  BY PrefixGrows, Zenon
<1>6. (Len(head) >= Header) = y
  <2>1. Min(n + m, Prefix) \in Nat
    BY <1>2 DEF Min
  <2>2. Len(head) = Min(n + m, Prefix)
    BY <2>1, BytesAre
  <2> QED BY <1>2, <2>2 DEF Min
<1>7. w => Retained(n, w) \o p = Retained(z, w)
  <2>1. n + m \in Nat /\ n <= n + m /\ 0 <= n /\ 0 \in Nat
    OBVIOUS
  <2>2. Bytes(0, n) \o p = Bytes(0, n + m)
    BY <2>1, BytesJoin, Zenon
  <2> QED BY <2>2 DEF Retained
<1>8. ~w => Retained(n, w) = Retained(z, w)
  BY DEF Retained
<1>9. CASE m > NoteLimit - n
  <2>1. a.err = "ErrNotificationTooLong"
    <3> HIDE DEF w, q
    <3>1. b.err = "nil" /\ b.total = n /\ fail(b, "ErrNotificationTooLong").err = "ErrNotificationTooLong"
      BY DEF Acc, fail
    <3> HIDE DEF b, p
    <3>2. a = fail(b, "ErrNotificationTooLong")
      BY <1>3, <1>9, <3>1 DEF add
    <3> QED BY <3>1, <3>2
  <2>2. n + m > NoteLimit
    BY <1>2, <1>9
  <2> QED BY <1>1, <1>2, <2>1, <2>2 DEF Refused, Sound
<1>10. CASE ~(m > NoteLimit - n)
  <2>0. Sound(z) <=> (y => /\ ~(record.declared < Header) /\ ~(record.declared > NoteLimit)
                           /\ ~(z > record.declared))
    BY <1>2, <1>10 DEF Sound
  <2> HIDE DEF w, p, q, x, z, y, head
  <2>1. a = addChecked(c, p)
    <3>1. /\ b.err = "nil" /\ b.total = n /\ b.prefix = q
      BY DEF Acc
    <3>a. [b EXCEPT !.prefix = head, !.total = z, !.haveDeclared = y] = c
      <4> DEFINE nil == "nil"
                 d == Retained(n, w)
      <4> HIDE DEF nil, d
      <4>1. [Acc(d, q, n, h, w, nil) EXCEPT !.prefix = head] = Acc(d, head, n, h, w, nil)
        BY DEF Acc
      <4>2. [Acc(d, head, n, h, w, nil) EXCEPT !.total = z] = Acc(d, head, z, h, w, nil)
        BY DEF Acc
      <4>3. [Acc(d, head, z, h, w, nil) EXCEPT !.haveDeclared = y] = Acc(d, head, z, y, w, nil)
        BY DEF Acc
      <4> QED BY <4>1, <4>2, <4>3, Zenon DEF nil, d
    <3> HIDE DEF b
    <3>2. x = IF Len(p) < Prefix - Len(b.prefix) THEN Len(p) ELSE Prefix - Len(b.prefix)
      BY <1>3, <1>4, <3>1 DEF x, ToPrefix
    <3>3. b.prefix \o SubSeq(p, 1, x) = head /\ b.total + Len(p) = z
      BY <1>3, <1>5, <3>1, Zenon DEF z
    <3>4. a = addChecked([b EXCEPT !.prefix = head, !.total = z, !.haveDeclared = y], p)
      BY <1>3, <1>6, <1>10, <3>1, <3>2, <3>3, Zenon DEF add
    <3> QED BY <3>a, <3>4, Zenon
  <2>2. /\ c.total = z /\ c.haveDeclared = y /\ c.retain = w /\ c.data = Retained(n, w)
        /\ [c EXCEPT !.data = Retained(z, w)] = Acc(Retained(z, w), head, z, y, w, "nil")
    BY DEF Acc
  <2>3. \A e : fail(c, e).err = e
    BY DEF Acc, fail
  <2>4. CASE Sound(z)
    <3>1. CASE w
      <4> HIDE DEF c, a
      <4>1. a = [c EXCEPT !.data = Retained(n, w) \o p]
        BY <2>0, <2>1, <2>2, <2>4, <3>1, Zenon DEF addChecked
      <4> QED BY <1>1, <1>7, <2>2, <2>4, <3>1, <4>1, Zenon DEF z
    <3>2. CASE ~w
      <4>1. c = Acc(Retained(z, w), head, z, y, w, "nil")
        BY <1>8, <3>2, Zenon
      <4> HIDE DEF c, a
      <4>2. a = c
        BY <2>0, <2>1, <2>2, <2>4, <3>2, Zenon DEF addChecked
      <4> QED BY <1>1, <2>4, <4>1, <4>2, Zenon DEF z
    <3> QED BY <3>1, <3>2
  <2>5. CASE ~Sound(z)
    <3> HIDE DEF c, a
    <3>1. \/ record.declared > NoteLimit /\ a.err = "ErrNotificationTooLong"
          \/ a.err = "ErrShortNotification"
      BY <2>0, <2>1, <2>2, <2>3, <2>5, Zenon DEF addChecked
    <3>2. Refused(a.err, z)
      BY <2>5, <3>1 DEF Refused
    <3> QED BY <1>1, <3>2, Zenon DEF z
  <2> QED BY <2>4, <2>5
<1> QED BY <1>9, <1>10

\* A record that is refused stays so however much more of it comes.
LEMMA RefusedStays ==
  ASSUME record \in Record, NEW n \in Nat, NEW m \in Nat, NEW e, Refused(e, n)
  PROVE  Refused(e, n + m)
<1>1. Header \in Nat /\ NoteLimit \in Nat /\ record.declared \in Nat
  BY NoteConstants, Zenon DEF Record
<1> QED BY <1>1 DEF Refused, Sound

\* addPiece on an accumulator without an error: whichever piece completes the
\* header, keep finds every earlier byte in the prefix, and add gets the piece.
LEMMA PieceStarts ==
  ASSUME NoteInv, NEW n \in Nat \ {0}, addPiece(n), verdict = "none", ~serving,
         ~(noting /\ notes.err # "nil")
  PROVE  \E h \in BOOLEAN :
           /\ notes' = Added(sent, n, h)
           /\ (typed' <=> sent + n >= Header) /\ (kept' <=> Retains(sent + n))
<1> DEFINE p == Bytes(sent, sent + n)
           a == IF noting THEN notes ELSE Zero
           isTyped == noting /\ typed
           now == ~isTyped /\ peekType(a, p)
           k == IF now /\ record.wanted THEN keep(a) ELSE a
<1>0. /\ sent \in Nat /\ record \in Record /\ noting \in BOOLEAN /\ Header \in Nat
      /\ Prefix \in Nat /\ Header <= Prefix /\ record.wanted \in BOOLEAN
  BY NoteConstants DEF NoteInv, NoteTypes, Record
<1>1. /\ typed' = (isTyped \/ now) /\ kept' = IF now THEN k.retain ELSE noting /\ kept
      /\ notes' = add(k, p)
  BY DEF addPiece
<1>2. Len(p) = n
  <2>1. sent + n \in Nat /\ sent <= sent + n /\ (sent + n) - sent = n
    BY <1>0
  <2> QED BY <1>0, <2>1, BytesAre, Zenon
<1>3. ASSUME NEW h \in BOOLEAN, NEW w \in BOOLEAN, a = Before(sent, w, h),
             w <=> isTyped /\ record.wanted, isTyped <=> noting /\ sent >= Header,
             sent <= Prefix \/ isTyped, noting => (kept <=> w)
      PROVE  /\ notes' = Added(sent, n, h)
             /\ (typed' <=> sent + n >= Header) /\ (kept' <=> Retains(sent + n))
  <2>1. \A v \in BOOLEAN : Before(sent, v, h).total = sent /\ Before(sent, v, h).retain = v
    BY DEF Before, Acc
  <2>2. peekType(a, p) <=> sent + n >= Header
    BY <1>2, <1>3, <2>1 DEF peekType
  <2>3. k = Before(sent, Retains(sent + n), h)
    <3>1. CASE isTyped
      <4>1. Retains(sent + n) = w /\ ~now
        BY <1>0, <1>3, <3>1 DEF Retains
      <4> QED BY <1>3, <4>1
    <3>2. CASE ~isTyped
      <4>1. w = FALSE /\ sent <= Prefix
        BY <1>3, <3>2
      <4>2. keep(Before(sent, FALSE, h)) = Before(sent, TRUE, h)
        BY <1>0, <4>1, KeepStarts, Zenon
      <4>3. Retains(sent + n) <=> now /\ record.wanted
        BY <2>2, <3>2 DEF Retains
      <4>4. a = Before(sent, FALSE, h)
        BY <1>3, <4>1, Zenon
      <4>5. Retains(sent + n) \in BOOLEAN
        BY <1>0 DEF Retains
      <4>6. CASE now /\ record.wanted
        <5>1. Retains(sent + n) = TRUE
          BY <4>3, <4>5, <4>6
        <5> QED BY <4>2, <4>4, <4>6, <5>1, Zenon
      <4>7. CASE ~(now /\ record.wanted)
        <5>1. Retains(sent + n) = FALSE
          BY <4>3, <4>5, <4>7
        <5> QED BY <4>4, <4>7, <5>1, Zenon
      <4> QED BY <4>6, <4>7
    <3> QED BY <3>1, <3>2
  <2>4. notes' = Added(sent, n, h)
    BY <1>1, <2>3 DEF Added
  <2>5. typed' <=> sent + n >= Header
    <3>1. CASE isTyped
      <4>1. sent + n >= Header
        BY <1>0, <1>3, <3>1
      <4> QED BY <1>1, <3>1, <4>1, Zenon
    <3>2. CASE ~isTyped
      BY <1>1, <2>2, <3>2, Zenon
    <3> QED BY <3>1, <3>2
  <2>6. kept' <=> Retains(sent + n)
    <3>1. k.retain = Retains(sent + n)
      <4>1. Retains(sent + n) \in BOOLEAN
        BY <1>0 DEF Retains
      <4> QED BY <2>1, <2>3, <4>1
    <3>2. CASE now
      BY <1>1, <3>1, <3>2
    <3>3. CASE ~now /\ isTyped
      BY <1>0, <1>1, <1>3, <3>3 DEF Retains
    <3>4. CASE ~now /\ ~isTyped
      <4>1. ~Retains(sent + n)
        BY <2>2, <3>4 DEF Retains
      <4>2. ~(noting /\ kept)
        BY <1>3, <3>4
      <4>3. kept' <=> noting /\ kept
        BY <1>1, <3>4, Zenon
      <4>4. Retains(sent + n) \in BOOLEAN
        BY <1>0 DEF Retains
      <4> QED BY <4>1, <4>2, <4>3, <4>4
    <3> QED BY <3>2, <3>3, <3>4
  <2> QED BY <2>4, <2>5, <2>6
<1>4. CASE noting
  <2>1. notes = Accumulated(sent) /\ (typed <=> sent >= Header) /\ (kept <=> Retains(sent))
    BY <1>4 DEF NoteInv, NotingInv, Refused
  <2> DEFINE h == sent >= Header
             w == Retains(sent)
  <2>2. a = Before(sent, w, h) /\ h \in BOOLEAN /\ w \in BOOLEAN
    BY <1>0, <1>4, <2>1 DEF Accumulated, Retains
  <2>3. /\ (w <=> isTyped /\ record.wanted) /\ (isTyped <=> noting /\ sent >= Header)
        /\ (sent <= Prefix \/ isTyped) /\ (noting => (kept <=> w))
    <3>1. isTyped <=> sent >= Header
      BY <1>4, <2>1
    <3>2. w <=> isTyped /\ record.wanted
      BY <3>1 DEF Retains
    <3>3. sent <= Prefix \/ isTyped
      BY <1>0, <3>1
    <3> QED BY <1>4, <2>1, <3>1, <3>2, <3>3
  <2> QED BY <1>3, <2>2, <2>3, Zenon
<1>5. CASE ~noting
  <2>1. sent = 0 /\ a = Before(0, FALSE, FALSE)
    BY <1>0, <1>5, ZeroBefore DEF NoteInv, DoneInv
  <2>2. /\ ~(isTyped /\ record.wanted) /\ (isTyped <=> noting /\ sent >= Header)
        /\ (sent <= Prefix \/ isTyped) /\ (noting => ~kept)
    BY <1>0, <1>5, <2>1
  <2> QED BY <1>3, <2>1, <2>2, Zenon
<1> QED BY <1>0, <1>4, <1>5

\* addPiece accumulates the piece or leaves the record refused.
LEMMA PieceReads ==
  ASSUME NoteInv, NEW n \in Nat \ {0}, addPiece(n), verdict = "none", ~serving
  PROVE  \/ /\ notes' = Accumulated(sent + n) /\ Sound(sent + n)
            /\ (typed' <=> sent + n >= Header) /\ (kept' <=> Retains(sent + n))
         \/ Refused(notes'.err, sent + n)
<1>0. sent \in Nat /\ record \in Record
  BY DEF NoteInv, NoteTypes
<1>1. CASE noting /\ notes.err # "nil"
  <2>1. Refused(notes.err, sent)
    BY <1>1 DEF NoteInv, NotingInv, Accumulated, Before, Acc
  <2>2. notes' = notes
    <3>1. keep(notes) = notes
      BY <1>1 DEF keep
    <3>2. \A p : add(notes, p) = notes
      BY <1>1 DEF add
    <3> QED BY <1>1, <3>1, <3>2 DEF addPiece
  <2> QED BY <1>0, <2>1, <2>2, RefusedStays
<1>2. CASE ~(noting /\ notes.err # "nil")
  <2>1. PICK h \in BOOLEAN :
          /\ notes' = Added(sent, n, h)
          /\ (typed' <=> sent + n >= Header) /\ (kept' <=> Retains(sent + n))
    BY <1>2, PieceStarts
  <2>2. \/ Added(sent, n, h) = Accumulated(sent + n) /\ Sound(sent + n)
        \/ Refused(Added(sent, n, h).err, sent + n)
    BY <1>0, AddGoesOn
  <2> QED BY <2>1, <2>2
<1> QED BY <1>1, <1>2

-----------------------------------------------------------------------------
(* The steps *)

\* Of one record, what the invariant says is of the same bytes before and after.
LEMMA SameRecord ==
  ASSUME record' = record
  PROVE  /\ Bytes(0, sent)' = Bytes(0, sent') /\ Bytes(0, served)' = Bytes(0, served')
         /\ Bytes(0, Len(out))' = Bytes(0, Len(out'))
         /\ Accumulated(sent)' = Accumulated(sent') /\ (Sound(sent)' <=> Sound(sent'))
         /\ (Retains(sent)' <=> Retains(sent'))
         /\ (Refused(notes.err, sent)' <=> Refused(notes'.err, sent'))
<1>1. \A a, b : Bytes(a, b)' = Bytes(a, b)
  BY DEF Bytes
<1>2. Bytes(0, sent)' = Bytes(0, sent') /\ Bytes(0, served)' = Bytes(0, served')
      /\ Bytes(0, Len(out))' = Bytes(0, Len(out'))
  BY DEF Bytes
<1>3. Accumulated(sent)' = Accumulated(sent')
  BY DEF Accumulated, Before, Retained, Retains, Bytes
<1> QED BY <1>2, <1>3 DEF Refused, Sound, Retains

\* A piece of the record.
LEMMA PieceKeeps ==
  ASSUME NoteInv, Piece
  PROVE  NoteInv'
<1>0. /\ sent \in Nat /\ record \in Record /\ MaxTotal \in Nat
      /\ record' = record /\ noting' = TRUE /\ verdict' = verdict /\ serving' = serving
      /\ served' = served /\ out' = out /\ handler' = handler /\ verdict = "none" /\ ~serving
  BY NoteConstants DEF NoteInv, NoteTypes, Piece
<1>1. PICK n \in Nat \ {0} : sent' = sent + n /\ addPiece(n)
  BY <1>0 DEF Piece
<1>2. \/ /\ notes' = Accumulated(sent') /\ Sound(sent')
         /\ (typed' <=> sent' >= Header) /\ (kept' <=> Retains(sent'))
      \/ Refused(notes'.err, sent')
  BY <1>0, <1>1, PieceReads
<1>3. out = <<>> /\ served = 0
  BY <1>0 DEF NoteInv, NotingInv, DoneInv
<1>4. NoteTypes'
  BY <1>0, <1>1 DEF NoteInv, NoteTypes
<1>5. NotingInv'
  BY <1>0, <1>1, <1>2, <1>3, SameRecord DEF NotingInv
<1>6. ServingInv' /\ DoneInv'
  BY <1>0 DEF ServingInv, DoneInv
<1>7. GivenWhole'
  BY <1>0, <1>1, <1>3, NoBytes, SameRecord DEF GivenWhole
<1> QED BY <1>4, <1>5, <1>6, <1>7 DEF NoteInv

\* finishErr says what is wrong with the record, if anything.
LEMMA FinishIs ==
  ASSUME NoteInv, noting
  PROVE  /\ finishErr(notes) = "nil" =>
              WellFramed /\ notes = Accumulated(sent) /\ (kept <=> record.wanted)
         /\ finishErr(notes) # "nil" =>
              /\ ~WellFramed
              /\ finishErr(notes) \in {"ErrShortNotification", "ErrNotificationTooLong"}
              /\ finishErr(notes) = "ErrNotificationTooLong" =>
                   sent > NoteLimit \/ record.declared > NoteLimit
<1>0. /\ sent \in Nat /\ record.declared \in Nat /\ Header \in Nat /\ NoteLimit \in Nat
  BY NoteConstants, Zenon DEF NoteInv, NoteTypes, Record
<1>1. CASE notes = Accumulated(sent) /\ Sound(sent) /\ (kept <=> Retains(sent))
  <2>1. notes.err = "nil" /\ notes.total = sent /\ (notes.haveDeclared <=> sent >= Header)
    BY <1>1, Zenon DEF Accumulated, Before, Acc
  <2>2. finishErr(notes) = IF ~(sent >= Header) \/ sent # record.declared
                             THEN "ErrShortNotification" ELSE "nil"
    BY <2>1 DEF finishErr
  <2> QED BY <1>0, <1>1, <2>2 DEF WellFramed, Sound, Retains
<1>2. CASE Refused(notes.err, sent)
  <2>1. finishErr(notes) = notes.err /\ notes.err # "nil"
    BY <1>2 DEF Refused, finishErr
  <2>2. ~WellFramed
    BY <1>0, <1>2 DEF Refused, Sound, WellFramed
  <2> QED BY <1>2, <2>1, <2>2 DEF Refused
<1> QED BY <1>1, <1>2 DEF NoteInv, NotingInv

\* The end of the record: refused, dropped, handed over, or served.
LEMMA EndKeeps ==
  ASSUME NoteInv, EndOfRecord
  PROVE  NoteInv'
<1>0. /\ sent \in Nat /\ record \in Record /\ noting /\ verdict = "none" /\ noting' = FALSE
      /\ ~serving /\ served = 0 /\ sent > 0 /\ out = <<>> /\ handler \in BOOLEAN
      /\ UNCHANGED <<handler, record, sent, typed, kept, served>>
  BY DEF NoteInv, NoteTypes, NotingInv, EndOfRecord
<1>1. WellFramed' <=> WellFramed
  BY <1>0 DEF WellFramed
<1>2. NoteTypes'
  BY <1>0, Zenon DEF NoteInv, NoteTypes, EndOfRecord
<1>3. NotingInv'
  BY <1>0 DEF NotingInv
<1>4. Zero' = Zero
  BY DEF Zero
<1>5. CASE finishErr(notes) # "nil"
  <2>1. verdict' = finishErr(notes) /\ notes' = Zero /\ out' = out /\ serving' = serving
    BY <1>5 DEF EndOfRecord
  <2>2. ServingInv' /\ DoneInv'
    BY <1>0, <1>4, <1>5, <2>1, FinishIs DEF ServingInv, DoneInv
  <2>3. GivenWhole'
    BY <1>0, <1>1, <1>5, <2>1, FinishIs, NoBytes, SameRecord DEF GivenWhole
  <2> QED BY <1>2, <1>3, <2>2, <2>3 DEF NoteInv
<1>6. CASE finishErr(notes) = "nil" /\ ~kept
  <2>1. verdict' = "dropped" /\ notes' = Zero /\ out' = out /\ serving' = serving
    BY <1>6 DEF EndOfRecord
  <2>2. ServingInv' /\ DoneInv'
    BY <1>0, <1>4, <2>1 DEF ServingInv, DoneInv
  <2>3. GivenWhole'
    BY <1>0, <1>1, <1>6, <2>1, FinishIs, NoBytes, SameRecord DEF GivenWhole
  <2> QED BY <1>2, <1>3, <2>2, <2>3 DEF NoteInv
<1>7. CASE finishErr(notes) = "nil" /\ kept
  <2>1. WellFramed /\ record.wanted /\ notes.data = Bytes(0, sent)
    <3>1. WellFramed /\ record.wanted /\ notes = Accumulated(sent)
      BY <1>0, <1>7, FinishIs
    <3>2. Retains(sent)
      BY <3>1 DEF WellFramed, Retains
    <3> QED BY <3>1, <3>2 DEF Accumulated, Before, Acc, Retained
  <2>2. CASE handler
    <3>1. verdict' = "given" /\ notes' = Zero /\ out' = notes.data /\ serving' = serving
      BY <1>7, <2>2 DEF EndOfRecord
    <3>2. ServingInv' /\ DoneInv'
      BY <1>0, <1>4, <3>1 DEF ServingInv, DoneInv
    <3>3. Len(out') = sent
      <4>0. 0 \in Nat /\ 0 <= sent
        BY <1>0
      <4>1. Len(Bytes(0, sent)) = sent - 0
        BY <1>0, <4>0, BytesAre, Zenon
      <4> QED BY <1>0, <2>1, <3>1, <4>1
    <3>4. GivenWhole'
      BY <1>0, <1>1, <2>1, <3>1, <3>3, SameRecord DEF GivenWhole
    <3> QED BY <1>2, <1>3, <3>2, <3>4 DEF NoteInv
  <2>3. CASE ~handler
    <3>1. serving' = TRUE /\ UNCHANGED <<notes, verdict, out>>
      BY <1>7, <2>3 DEF EndOfRecord
    <3>2. ServingInv'
      BY <1>0, <1>1, <2>1, <3>1, NoBytes, SameRecord DEF ServingInv
    <3>3. DoneInv'
      BY <3>1 DEF DoneInv
    <3>4. GivenWhole'
      BY <1>0, <1>1, <2>1, <3>1, NoBytes, SameRecord DEF GivenWhole
    <3> QED BY <1>2, <1>3, <3>2, <3>3, <3>4 DEF NoteInv
  <2> QED BY <2>2, <2>3
<1> QED BY <1>5, <1>6, <1>7

\* A record cut short.
LEMMA CutKeeps ==
  ASSUME NoteInv, Cut
  PROVE  NoteInv'
<1>0. /\ sent \in Nat /\ record \in Record /\ noting' = FALSE /\ verdict' = "interrupted"
      /\ ~serving /\ served = 0 /\ out = <<>> /\ notes' = Zero
      /\ UNCHANGED <<handler, record, sent, typed, kept, serving, served, out>>
  BY DEF NoteInv, NoteTypes, NotingInv, Cut
<1>1. Zero' = Zero
  BY DEF Zero
<1>2. NoteTypes'
  BY <1>0, Zenon DEF NoteInv, NoteTypes
<1>3. NotingInv' /\ ServingInv' /\ DoneInv'
  BY <1>0, <1>1 DEF NotingInv, ServingInv, DoneInv
<1>4. GivenWhole'
  BY <1>0, NoBytes, SameRecord DEF GivenWhole
<1> QED BY <1>2, <1>3, <1>4 DEF NoteInv

\* The bytes served so far and the next piece are those of the record in order.
LEMMA ServedGrows ==
  ASSUME NoteInv, serving, NEW n \in 1..(Len(notes.data) - served)
  PROVE  /\ Len(notes.data) = sent /\ served + n <= sent
         /\ out \o SubSeq(notes.data, served + 1, served + n) = Bytes(0, served + n)
<1>0. /\ sent \in Nat /\ served \in Nat /\ record \in Record /\ served < sent
      /\ notes.data = Bytes(0, sent) /\ out = Bytes(0, served)
  BY DEF NoteInv, NoteTypes, ServingInv
<1>1. Len(notes.data) = sent
  BY <1>0, BytesAre
<1>2. n \in Nat /\ served + n <= sent /\ served + n \in Nat
  BY <1>0, <1>1
<1> DEFINE y == served + n
           z == served
           k == served + 1
           o == 0
<1>3. y \in Nat /\ z \in Nat /\ o \in Nat /\ o <= z /\ z <= y /\ y <= sent
      /\ z - o + 1 = k /\ y - o = y
  BY <1>0, <1>2
<1> HIDE DEF y, z, k, o
<1>4. Slice(Bytes(o, sent), z - o + 1, y - o) = Bytes(z, y)
  <2>1. sent \in Nat /\ record \in Record
    BY <1>0
  <2> QED BY <2>1, <1>3, BytesPiece
<1>5. Bytes(o, z) \o Bytes(z, y) = Bytes(o, y)
  BY <1>0, <1>3, BytesJoin, Zenon
<1>6. out \o SubSeq(notes.data, k, y) = Bytes(o, y)
  BY <1>0, <1>3, <1>4, <1>5, Zenon DEF o, z, Slice
<1> QED BY <1>1, <1>2, <1>6, Zenon DEF y, k, o

\* A piece served to RecvMsg.
LEMMA ServeKeeps ==
  ASSUME NoteInv, servePiece
  PROVE  NoteInv'
<1>0. /\ sent \in Nat /\ served \in Nat /\ record \in Record /\ serving /\ ~noting
      /\ WellFramed /\ record.wanted /\ verdict = "none" /\ notes.data = Bytes(0, sent)
      /\ UNCHANGED <<handler, record, sent, noting, typed, kept>>
  BY DEF NoteInv, NoteTypes, ServingInv, servePiece
<1>1. PICK n \in 1..(Len(notes.data) - served) :
        /\ out' = out \o SubSeq(notes.data, served + 1, served + n)
        /\ IF served + n = Len(notes.data)
           THEN serving' = FALSE /\ served' = 0 /\ verdict' = "given" /\ notes' = Zero
           ELSE served' = served + n /\ UNCHANGED <<notes, serving, verdict>>
  BY Zenon DEF servePiece
<1>2. /\ Len(notes.data) = sent /\ served + n <= sent /\ out' = Bytes(0, served + n)
      /\ served + n \in Nat
  <2>1. Len(notes.data) = sent /\ served + n <= sent /\ out' = Bytes(0, served + n)
    BY <1>0, <1>1, ServedGrows, Zenon
  <2> QED BY <1>0, <2>1
<1>3. Len(out') = served + n
  <2> DEFINE y == served + n
             o == 0
  <2>1. o \in Nat /\ y \in Nat /\ o <= y /\ y - o = y
    BY <1>2
  <2> HIDE DEF y, o
  <2>2. Len(Bytes(o, y)) = y - o
    BY <1>0, <2>1, BytesAre, Zenon
  <2> QED BY <1>2, <2>1, <2>2, Zenon DEF y, o
<1>4. Zero' = Zero /\ (WellFramed' <=> WellFramed)
  BY <1>0 DEF Zero, WellFramed
<1>5. CASE served + n = sent
  <2>1. serving' = FALSE /\ served' = 0 /\ verdict' = "given" /\ notes' = Zero
    BY <1>1, <1>2, <1>5
  <2>2. NoteTypes'
    BY <1>0, <2>1, Zenon DEF NoteInv, NoteTypes
  <2>3. NotingInv' /\ ServingInv' /\ DoneInv'
    BY <1>0, <1>4, <2>1 DEF NotingInv, ServingInv, DoneInv
  <2>4. GivenWhole'
    BY <1>0, <1>2, <1>3, <1>4, <1>5, <2>1, SameRecord DEF GivenWhole
  <2> QED BY <2>2, <2>3, <2>4 DEF NoteInv
<1>6. CASE served + n # sent
  <2>1. served' = served + n /\ UNCHANGED <<notes, serving, verdict>>
    BY <1>1, <1>2, <1>6
  <2>2. NoteTypes'
    BY <1>0, <1>2, <2>1 DEF NoteInv, NoteTypes
  <2>3. NotingInv' /\ DoneInv'
    BY <1>0, <2>1 DEF NotingInv, DoneInv
  <2>4. ServingInv'
    BY <1>0, <1>2, <1>4, <1>6, <2>1, SameRecord DEF ServingInv
  <2>5. GivenWhole'
    BY <1>0, <1>2, <1>3, <1>4, <2>1, SameRecord DEF GivenWhole
  <2> QED BY <2>2, <2>3, <2>4, <2>5 DEF NoteInv
<1> QED BY <1>5, <1>6

\* A read that skips the rest of a served record.
LEMMA StopKeeps ==
  ASSUME NoteInv, stopServing
  PROVE  NoteInv'
<1>0. /\ sent \in Nat /\ served \in Nat /\ record \in Record /\ serving /\ ~noting
      /\ WellFramed /\ record.wanted
      /\ serving' = FALSE /\ served' = 0 /\ verdict' = "skipped" /\ notes' = Zero
      /\ UNCHANGED <<handler, record, sent, noting, typed, kept, out>>
  BY DEF NoteInv, NoteTypes, ServingInv, stopServing
<1>1. Zero' = Zero /\ (WellFramed' <=> WellFramed)
  BY <1>0 DEF Zero, WellFramed
<1>2. NoteTypes'
  BY <1>0, Zenon DEF NoteInv, NoteTypes
<1>3. NotingInv' /\ ServingInv' /\ DoneInv'
  BY <1>0, <1>1 DEF NotingInv, ServingInv, DoneInv
<1>4. GivenWhole'
  BY <1>0, <1>1, SameRecord DEF NoteInv, GivenWhole
<1> QED BY <1>2, <1>3, <1>4 DEF NoteInv

\* The next record starts over.
LEMMA NextRecordKeeps ==
  ASSUME NoteInv, NextRecord
  PROVE  NoteInv'
<1>0. /\ verdict # "none" /\ verdict' = "none" /\ record' \in Record /\ sent' = 0
      /\ out' = <<>> /\ UNCHANGED <<handler, notes, noting, typed, kept, serving, served>>
  BY DEF NextRecord
<1>1. ~noting /\ ~serving /\ notes = Zero /\ served = 0
  BY <1>0 DEF NoteInv, NotingInv, ServingInv, DoneInv
<1>2. Zero' = Zero /\ Record' = Record
  BY DEF Zero, Record
<1>3. NoteTypes'
  BY <1>0, <1>2 DEF NoteInv, NoteTypes
<1>4. NotingInv' /\ ServingInv' /\ DoneInv'
  BY <1>0, <1>1, <1>2 DEF NotingInv, ServingInv, DoneInv
<1>5. GivenWhole'
  <2>1. Bytes(0, Len(out))' = <<>>
    BY <1>0 DEF Bytes
  <2> QED BY <1>0, <1>1, <2>1 DEF GivenWhole
<1> QED BY <1>3, <1>4, <1>5 DEF NoteInv

\* The invariant holds at the start.
LEMMA NoteInitial ==
  ASSUME NotesInit
  PROVE  NoteInv
<1>0. /\ handler \in BOOLEAN /\ record \in Record /\ sent = 0 /\ notes = Zero
      /\ noting = FALSE /\ serving = FALSE /\ served = 0 /\ verdict = "none" /\ out = <<>>
  BY DEF NotesInit
<1>1. NoteTypes /\ NotingInv /\ ServingInv /\ DoneInv
  BY <1>0, Zenon DEF NoteTypes, NotingInv, ServingInv, DoneInv
<1>2. GivenWhole
  BY <1>0, NoBytes DEF GivenWhole
<1> QED BY <1>1, <1>2 DEF NoteInv

\* It is of the variables of Notes only.
LEMMA NoteSame ==
  ASSUME NoteInv, UNCHANGED noteVars
  PROVE  NoteInv'
<1>0. UNCHANGED <<handler, record, sent, notes, noting, typed, kept, serving, served, verdict, out>>
  BY DEF noteVars
<1>1. NoteTypes' /\ ServingInv' /\ DoneInv' /\ GivenWhole'
  BY <1>0, Zenon DEF NoteInv, NoteTypes, ServingInv, DoneInv, GivenWhole, WellFramed, Bytes,
              Zero, Record
<1>2. NotingInv'
  BY <1>0, SameRecord DEF NoteInv, NotingInv
<1> QED BY <1>1, <1>2 DEF NoteInv

\* Every step of Notes keeps it.
LEMMA NoteStep ==
  ASSUME NoteInv, NotesNext
  PROVE  NoteInv'
<1>1. CASE Aborted
  <2>1. UNCHANGED noteVars
    BY <1>1 DEF Aborted
  <2> QED BY <2>1, NoteSame
<1> QED
  BY <1>1, PieceKeeps, EndKeeps, CutKeeps, ServeKeeps, StopKeeps, NextRecordKeeps DEF NotesNext

\* A notification is given whole and in order or refused, and refused only when its
\* framing is wrong, however recvmsg divides it and whatever was read before it:
\* for every header size, prefix size, limit and length that a record declares.
THEOREM NoteIsWholeHolds == NotesSpec => []NoteIsWhole
<1>1. NotesInit => NoteInv
  BY NoteInitial
<1>2. NoteInv /\ [NotesNext /\ UNCHANGED part]_<<part, noteVars>> => NoteInv'
  BY NoteStep, NoteSame
<1>3. NoteInv => NoteIsWhole
  BY DEF NoteInv, NoteIsWhole
<1> QED BY <1>1, <1>2, <1>3, PTL DEF NotesSpec

-----------------------------------------------------------------------------
(* The end of the association *)

PCs == {"idle", "lock", "readEnd", "recvmsg", "park", "latched", "sendmsg"}
RecordKinds == {"data", "note", "lost", "complete"}

\* Types, as far as the proofs need them.
Types ==
  /\ termErr \in Verdicts \cup {"nil"} /\ skErr \in Failures \cup {"none"}
  /\ failure \in Failures \cup {"none"} /\ assoc \in {"up", "shutting", "gone"}
  /\ life \in {"open", "closing", "shutRd", "released"}
  /\ failed \in BOOLEAN /\ ended \in BOOLEAN /\ drained \in BOOLEAN
  /\ rcvShut \in BOOLEAN /\ outside \in BOOLEAN
  /\ queue \in Seq(RecordKinds) /\ pc \in [Procs -> PCs]

\* Every failure a call has reported is the latched one, and the latch holds
\* what Linux set, or ENOTCONN where that was out of the package's reach.
Latch ==
  /\ reported \subseteq {termErr} \ {"nil"}
  /\ termErr # "nil" => /\ failure # "none"
                        /\ termErr = failure \/ (termErr = "ENOTCONN" /\ outside)
  /\ drained => termErr # "nil" /\ queue = <<>>

\* Linux keeps the error of a failure until someone takes it, and the record of
\* the end is the last of the queue until someone reads it.
Kernel ==
  /\ skErr # "none" => skErr = failure
  /\ failure # "none" => /\ assoc = "gone"
                         /\ termErr # "nil" \/ skErr # "none" \/ outside
                         /\ failed \/ \E i \in 1..Len(queue) : queue[i] = "lost"
  /\ failed => failure # "none"
  /\ ended => failure = "none" /\ assoc = "gone" /\ queue = <<>>
  /\ \A i \in 1..Len(queue) :
       /\ queue[i] \in {"lost", "complete"} => i = Len(queue) /\ assoc = "gone"
       /\ queue[i] = "lost" => failure # "none"
       /\ queue[i] = "complete" => failure = "none"
  /\ rcvShut => assoc # "up" \/ life \in {"shutRd", "released"}

EndInv == Types /\ Latch /\ Kernel

-----------------------------------------------------------------------------
(* The queue *)

\* What is left of a queue without its head, and that its head is a record.
LEMMA TailFacts ==
  ASSUME NEW q \in Seq(RecordKinds), q # <<>>
  PROVE /\ Len(q) \in Nat /\ Len(q) > 0 /\ Head(q) = q[1] /\ Head(q) \in RecordKinds
        /\ Tail(q) \in Seq(RecordKinds) /\ Len(Tail(q)) = Len(q) - 1
        /\ \A i \in 1..Len(Tail(q)) : Tail(q)[i] = q[i + 1]
        /\ Len(q) = 1 => Tail(q) = <<>>
  OBVIOUS

\* A record is queued behind the others.
LEMMA AppendFacts ==
  ASSUME NEW q \in Seq(RecordKinds), NEW x \in RecordKinds
  PROVE /\ Append(q, x) \in Seq(RecordKinds) /\ Len(Append(q, x)) = Len(q) + 1
        /\ Len(q) \in Nat /\ Append(q, x)[Len(q) + 1] = x
        /\ \A i \in 1..Len(q) : Append(q, x)[i] = q[i]
  OBVIOUS

-----------------------------------------------------------------------------
(* The inductive invariant *)

\* The invariant holds at the start.
LEMMA InitEndInv == Init => EndInv
  <1> SUFFICES ASSUME Init PROVE EndInv
    OBVIOUS
  <1>1. Types
    <2>1. queue = <<>> \/ queue = <<"lost">>
      BY DEF Init
    <2>2. queue \in Seq(RecordKinds)
      <3>1. "lost" \in RecordKinds
        BY DEF RecordKinds
      <3>2. \A x \in RecordKinds : <<x>> \in Seq(RecordKinds)
        OBVIOUS
      <3>3. <<>> \in Seq(RecordKinds)
        OBVIOUS
      <3>4. QED BY <2>1, <3>1, <3>2, <3>3, Zenon
    <2>3. QED BY <2>2, Zenon DEF Init, Types, Verdicts, Failures, PCs
  <1>2. Latch /\ Kernel
    <2>1. CASE queue = <<>> /\ assoc = "up" /\ failure = "none" /\ outside = FALSE
      BY <2>1 DEF Init, Latch, Kernel
    <2>2. CASE queue = <<"lost">> /\ assoc = "gone" /\ outside = TRUE /\ failure \in Failures
      BY <2>2 DEF Init, Latch, Kernel, Failures
    <2>3. QED BY <2>1, <2>2, Zenon DEF Init
  <1>3. QED BY <1>1, <1>2 DEF EndInv

\* What a call returns is a verdict only if the latch holds it.
LEMMA ReturnLatch ==
  ASSUME NEW p, NEW from, NEW r, Return(p, from, r), reported \subseteq {termErr} \ {"nil"},
         termErr # "nil" => termErr' = termErr, r \in Verdicts => r = termErr'
  PROVE reported' \subseteq {termErr'} \ {"nil"}
  BY DEF Return, Verdicts, Failures

\* A step that changes neither the latch nor the kernel.
LEMMA Quiet ==
  ASSUME EndInv, UNCHANGED <<termVars, kernVars, peeled>>, pc' \in [Procs -> PCs],
         life' \in {"open", "closing", "shutRd", "released"},
         life \in {"shutRd", "released"} => life' \in {"shutRd", "released"},
         reported' \subseteq {termErr} \ {"nil"}
  PROVE EndInv'
  BY DEF EndInv, Types, Latch, Kernel, termVars, kernVars

\* Every step keeps it.
LEMMA NextEndInv == EndInv /\ [Next]_vars => EndInv'
  <1> SUFFICES ASSUME EndInv, [Next]_vars PROVE EndInv'
    OBVIOUS
  <1>t. /\ termErr \in Verdicts \cup {"nil"} /\ reported \subseteq {termErr} \ {"nil"}
        /\ life \in {"open", "closing", "shutRd", "released"} /\ pc \in [Procs -> PCs]
        /\ queue \in Seq(RecordKinds)
    BY DEF EndInv, Types, Latch
  <1>v. /\ Verdicts \cap (RecordKinds \cup {"EOF", "ErrClosed", "deadline", "nil", "EPIPE", "ESHUTDOWN", "EAGAIN"}) = {}
        /\ Failures \subseteq Verdicts
    BY DEF Verdicts, Failures, RecordKinds
  \* How calls return and go on.
  <1>r. ASSUME NEW p \in Procs, NEW from \in PCs, NEW to \in PCs, NEW r,
               Return(p, from, r) \/ Goto(p, from, to)
        PROVE pc' \in [Procs -> PCs]
    BY <1>r, <1>t DEF Return, Goto, PCs
  <1>g. ASSUME NEW p \in Procs, NEW from \in PCs, NEW to \in PCs, Goto(p, from, to),
               UNCHANGED <<termVars, kernVars, life, peeled>>
        PROVE EndInv'
    BY <1>g, <1>r, <1>t, Quiet DEF Goto
  <1>q. ASSUME NEW p \in Procs, NEW from \in PCs, NEW r, Return(p, from, r),
               UNCHANGED <<termVars, kernVars, life, peeled>>,
               r \in Verdicts => r = termErr
        PROVE EndInv'
    <2>1. reported' \subseteq {termErr} \ {"nil"}
      BY <1>q, <1>t, ReturnLatch DEF termVars
    <2>2. QED BY <1>q, <1>r, <1>t, <2>1, Quiet
  <1>1. ASSUME NEW r \in Readers, ReadCall(r) \/ Lock(r) \/ Wake(r) PROVE EndInv'
    <2>1. CASE Lock(r)
      BY <1>t, <2>1, Quiet DEF Lock, Procs, PCs
    <2>2. CASE ReadCall(r) \/ Wake(r)
      BY <1>g, <2>2 DEF ReadCall, Wake, Procs, PCs
    <2>3. QED BY <1>1, <2>1, <2>2
  <1>2. ASSUME NEW r \in Readers, ReadEnd(r) PROVE EndInv'
    <2>1. CASE drained /\ Return(r, "readEnd", ReadEnded(termErr))
      BY <1>2, <1>q, <1>v, <2>1 DEF ReadEnd, ReadEnded, Procs, PCs
    <2>2. CASE Return(r, "readEnd", ReadEnded("EOF"))
      BY <1>2, <1>q, <1>v, <2>2 DEF ReadEnd, ReadEnded, Procs, PCs
    <2>3. CASE Goto(r, "readEnd", "recvmsg")
      BY <1>2, <1>g, <2>3 DEF ReadEnd, Procs, PCs
    <2>4. QED BY <1>2, <2>1, <2>2, <2>3 DEF ReadEnd
  <1>3. ASSUME NEW r \in Readers, RawReadFails(r) \/ ReadTimeout(r) PROVE EndInv'
    BY <1>3, <1>q, <1>v DEF RawReadFails, ReadTimeout, ReadEnded, Procs, PCs
  <1>4. ASSUME NEW s \in Senders, SendCall(s) \/ Latched(s) PROVE EndInv'
    BY <1>4, <1>q, <1>g DEF SendCall, Latched, Procs, PCs
  <1>5. ASSUME NEW r \in Readers, RecvRecord(r) PROVE EndInv'
    <2>1. /\ queue # <<>> /\ queue' = Tail(queue)
          /\ UNCHANGED <<termErr, drained, skErr, rcvShut, assoc, failure, outside, life>>
      BY <1>5 DEF RecvRecord
    <2>2. /\ failed' <=> (failed \/ Head(queue) = "lost")
          /\ ended' <=> (ended \/ Head(queue) = "complete")
          /\ failed' \in BOOLEAN /\ ended' \in BOOLEAN
      BY <1>5, Zenon DEF RecvRecord
    <2>3. /\ Len(queue) \in Nat /\ Len(queue) > 0 /\ Head(queue) = queue[1] /\ Head(queue) \in RecordKinds
          /\ queue' \in Seq(RecordKinds) /\ Len(queue') = Len(queue) - 1
          /\ \A i \in 1..Len(queue') : queue'[i] = queue[i + 1]
          /\ Len(queue) = 1 => queue' = <<>>
      BY <1>t, <2>1, TailFacts
    <2>4. reported' \subseteq {termErr'} \ {"nil"} /\ pc' \in [Procs -> PCs]
      <3>1. CASE Return(r, "recvmsg", Head(queue))
        BY <1>r, <1>t, <1>v, <2>1, <2>3, <3>1, ReturnLatch, Zenon DEF Procs, PCs
      <3>2. CASE \E to \in {"readEnd", "recvmsg"} : Goto(r, "recvmsg", to)
        BY <1>r, <1>t, <2>1, <3>2, Zenon DEF Procs, PCs, Goto
      <3>3. QED BY <1>5, <3>1, <3>2 DEF RecvRecord
    <2>5. Types'
      BY <2>1, <2>2, <2>3, <2>4 DEF EndInv, Types
    <2>6. Latch'
      BY <2>1, <2>4 DEF EndInv, Latch
    <2>7. Head(queue) \in {"lost", "complete"} => queue' = <<>> /\ assoc = "gone"
      BY <2>3 DEF EndInv, Kernel
    <2>8. /\ Head(queue) = "lost" => failure # "none"
          /\ Head(queue) = "complete" => failure = "none"
      BY <2>3 DEF EndInv, Kernel
    <2>9. failure # "none" => failed' \/ \E i \in 1..Len(queue') : queue'[i] = "lost"
      <3>1. SUFFICES ASSUME failure # "none", ~failed' PROVE \E i \in 1..Len(queue') : queue'[i] = "lost"
        OBVIOUS
      <3>2. PICK i \in 1..Len(queue) : queue[i] = "lost"
        BY <2>2, <3>1 DEF EndInv, Kernel
      <3>3. i # 1
        BY <2>2, <2>3, <3>1, <3>2
      <3>4. i - 1 \in 1..Len(queue') /\ queue'[i - 1] = "lost"
        BY <2>3, <3>2, <3>3
      <3>5. QED BY <3>4
    <2>10. \A i \in 1..Len(queue') :
             /\ queue'[i] \in {"lost", "complete"} => i = Len(queue') /\ assoc = "gone"
             /\ queue'[i] = "lost" => failure # "none"
             /\ queue'[i] = "complete" => failure = "none"
      BY <2>3 DEF EndInv, Kernel
    <2>11. Kernel'
      BY <2>1, <2>2, <2>7, <2>8, <2>9, <2>10 DEF EndInv, Kernel
    <2>12. QED BY <2>5, <2>6, <2>11 DEF EndInv
  <1>6. ASSUME NEW r \in Readers, RecvNothing(r) PROVE EndInv'
    <2> DEFINE e == IF skErr # "none" THEN skErr ELSE IF rcvShut THEN "EOF" ELSE "EAGAIN"
    <2>1. /\ queue = <<>> /\ skErr' = "none" /\ termErr' = ReadLatch(e)
          /\ UNCHANGED <<failed, ended, queue, rcvShut, assoc, failure, outside, life>>
      BY <1>6 DEF RecvNothing
    <2>2. drained' \in BOOLEAN /\ (drained' <=> drained \/ ReadLatch(e) # "nil")
      BY <1>6, Zenon DEF RecvNothing
    <2>3. skErr # "none" => skErr = failure /\ skErr \in Failures
      BY DEF EndInv, Types, Kernel
    <2>4. /\ ReadLatch(e) \in Verdicts \cup {"nil"}
          /\ termErr # "nil" => ReadLatch(e) = termErr
      BY <1>t, <1>v, <2>3 DEF ReadLatch, StoreLocked, Verdicts
    <2>5. ReadLatch(e) # "nil" => /\ failure # "none"
                                  /\ ReadLatch(e) = failure \/ (ReadLatch(e) = "ENOTCONN" /\ outside)
      <3>1. CASE termErr # "nil"
        BY <2>4, <3>1 DEF EndInv, Latch
      <3>2. CASE termErr = "nil" /\ skErr # "none"
        BY <1>v, <2>3, <3>2 DEF ReadLatch, StoreLocked, Failures
      <3>3. CASE termErr = "nil" /\ skErr = "none"
        <4>1. e \notin Failures
          BY <1>v, <3>3
        <4>2. failed => failure # "none" /\ outside
          BY <3>3 DEF EndInv, Kernel
        <4>3. QED BY <3>3, <4>1, <4>2 DEF ReadLatch, StoreLocked
      <3>4. QED BY <3>1, <3>2, <3>3
    <2>6. skErr # "none" => ReadLatch(e) # "nil"
      BY <1>v, <2>3 DEF ReadLatch, StoreLocked
    <2>7. ReadResult(e) \in Verdicts => ReadResult(e) = ReadLatch(e)
      BY <1>v, <2>6 DEF ReadResult
    <2>8. reported' \subseteq {termErr'} \ {"nil"} /\ pc' \in [Procs -> PCs]
      <3>1. CASE Goto(r, "recvmsg", "park")
        BY <1>r, <1>t, <2>1, <2>4, <3>1, Zenon DEF Procs, PCs, Goto
      <3>2. CASE Return(r, "recvmsg", ReadEnded(ReadResult(e)))
        <4>1. ReadEnded(ReadResult(e)) \in Verdicts => ReadEnded(ReadResult(e)) = termErr'
          BY <1>v, <2>1, <2>7 DEF ReadEnded
        <4>2. QED BY <1>r, <1>t, <2>1, <2>4, <3>2, <4>1, ReturnLatch, Zenon DEF Procs, PCs
      <3>3. QED BY <1>6, <3>1, <3>2 DEF RecvNothing
    <2> HIDE DEF e
    <2>9. Types'
      BY <2>1, <2>2, <2>4, <2>8 DEF EndInv, Types
    <2>10. Latch'
      BY <2>1, <2>2, <2>4, <2>5, <2>8 DEF EndInv, Latch
    <2>11. Kernel'
      BY <2>1, <2>4, <2>6 DEF EndInv, Kernel
    <2>12. QED BY <2>9, <2>10, <2>11 DEF EndInv
  \* sendmsg with an empty latch, by a send and by sendEOF.
  <1>s. ASSUME termErr = "nil" PROVE
          /\ SendLatch(SendErrno) \in Verdicts \cup {"nil"}
          /\ SendLatch(SendErrno) # "nil" =>
               /\ failure # "none"
               /\ SendLatch(SendErrno) = failure \/ (SendLatch(SendErrno) = "ENOTCONN" /\ outside)
          /\ skErr # "none" /\ assoc = "gone" => SendLatch(SendErrno) # "nil"
          /\ SendResult(SendErrno) \in Verdicts => SendResult(SendErrno) = SendLatch(SendErrno)
    <2>1. skErr # "none" => skErr = failure /\ skErr \in Failures
      BY DEF EndInv, Types, Kernel
    <2>2. failed => failure # "none" /\ (skErr = "none" => outside)
      BY <1>s DEF EndInv, Kernel
    <2>3. CASE assoc # "gone"
      <3>1. SendErrno \in {"nil", "ESHUTDOWN"}
        BY <2>3 DEF SendErrno, EndInv, Types
      <3>2. SendLatch(SendErrno) = "nil" /\ SendResult(SendErrno) = SendErrno
        BY <1>s, <1>v, <3>1 DEF SendLatch, SendResult, StoreLocked
      <3>3. QED BY <1>v, <2>3, <3>1, <3>2
    <2>4. CASE assoc = "gone" /\ skErr # "none"
      <3>1. SendErrno = skErr
        BY <2>4 DEF SendErrno
      <3>2. SendLatch(SendErrno) = skErr /\ SendResult(SendErrno) = skErr
        BY <1>s, <1>v, <2>1, <2>4, <3>1 DEF SendLatch, SendResult, StoreLocked
      <3>3. QED BY <1>v, <2>1, <2>4, <3>2
    <2>5. CASE assoc = "gone" /\ skErr = "none"
      <3>1. SendErrno = "EPIPE"
        BY <2>5 DEF SendErrno
      <3>2. SendLatch(SendErrno) = IF failed THEN "ENOTCONN" ELSE "nil"
        BY <1>s, <1>v, <3>1 DEF SendLatch, StoreLocked
      <3>3. SendResult(SendErrno) = IF failed THEN "ENOTCONN" ELSE "EPIPE"
        BY <3>1, <3>2 DEF SendResult
      <3>4. QED BY <1>v, <2>2, <2>5, <3>2, <3>3 DEF Verdicts
    <2>6. QED BY <2>3, <2>4, <2>5 DEF EndInv, Types
  <1>7. ASSUME NEW s \in Senders, SendOnce(s) PROVE EndInv'
    <2>1. CASE Return(s, "sendmsg", "ErrClosed") /\ UNCHANGED <<termErr, skErr>>
      BY <1>7, <1>q, <1>v, <2>1 DEF SendOnce, termVars, kernVars, Procs, PCs
    <2>2. CASE Return(s, "sendmsg", termErr) /\ UNCHANGED <<termErr, skErr>>
      BY <1>7, <1>q, <2>2 DEF SendOnce, termVars, kernVars, Procs, PCs
    <2>3. CASE /\ termErr = "nil" /\ Return(s, "sendmsg", SendResult(SendErrno))
               /\ termErr' = SendLatch(SendErrno)
               /\ skErr' = IF assoc = "gone" THEN "none" ELSE skErr
      <3>1. UNCHANGED <<failed, ended, drained, queue, rcvShut, assoc, failure, outside, life>>
        BY <1>7 DEF SendOnce
      <3>2. reported' \subseteq {termErr'} \ {"nil"} /\ pc' \in [Procs -> PCs]
        BY <1>r, <1>s, <1>t, <2>3, ReturnLatch, Zenon DEF Procs, PCs
      <3>3. Types'
        BY <1>s, <2>3, <3>1, <3>2 DEF EndInv, Types
      <3>4. Latch'
        BY <1>s, <2>3, <3>1, <3>2 DEF EndInv, Latch
      <3>5. Kernel'
        BY <1>s, <2>3, <3>1 DEF EndInv, Kernel
      <3>6. QED BY <3>3, <3>4, <3>5 DEF EndInv
    <2>4. QED BY <1>7, <2>1, <2>2, <2>3 DEF SendOnce
  <1>8. ASSUME StartShutdown PROVE EndInv'
    <2>1. /\ UNCHANGED <<failed, ended, drained, queue, rcvShut, failure, outside, life, pc, reported>>
          /\ assoc' = IF assoc = "up" THEN "shutting" ELSE assoc
      BY <1>8 DEF StartShutdown, callVars
    <2>2. CASE assoc = "gone" /\ termErr = "nil" /\ termErr' = SendLatch(SendErrno) /\ skErr' = "none"
      <3>1. Types'
        BY <1>s, <2>1, <2>2 DEF EndInv, Types
      <3>2. Latch'
        BY <1>s, <2>1, <2>2 DEF EndInv, Latch
      <3>3. Kernel'
        BY <1>s, <2>1, <2>2 DEF EndInv, Kernel
      <3>4. QED BY <3>1, <3>2, <3>3 DEF EndInv
    <2>3. CASE UNCHANGED <<termErr, skErr>>
      <3>1. Types'
        BY <2>1, <2>3 DEF EndInv, Types
      <3>2. Latch'
        BY <2>1, <2>3 DEF EndInv, Latch
      <3>3. Kernel'
        BY <2>1, <2>3 DEF EndInv, Kernel
      <3>4. QED BY <3>1, <3>2, <3>3 DEF EndInv
    <2>4. QED BY <1>8, <2>2, <2>3 DEF StartShutdown
  <1>9. ASSUME CloseStep PROVE EndInv'
    <2>1. /\ UNCHANGED <<termVars, callVars, queue, skErr, assoc, failure, outside>>
          /\ life' \in {"closing", "shutRd", "released"}
          /\ life \in {"shutRd", "released"} => life' \in {"shutRd", "released"}
          /\ rcvShut' = rcvShut \/ (rcvShut' = TRUE /\ life' = "shutRd")
      <3>1. UNCHANGED <<termVars, callVars, queue, skErr, assoc, failure, outside>>
        BY <1>9 DEF CloseStep
      <3>2. \/ /\ life \in {"open", "closing", "shutRd"} /\ rcvShut' = rcvShut
               /\ life' = IF life = "open" THEN "closing" ELSE "released"
            \/ rcvShut' = TRUE /\ life' = "shutRd"
        BY <1>9 DEF CloseStep
      <3>3. rcvShut' = rcvShut \/ (rcvShut' = TRUE /\ life' = "shutRd")
        BY <3>2, Zenon
      <3>4. /\ life' \in {"closing", "shutRd", "released"}
            /\ life \in {"shutRd", "released"} => life' \in {"shutRd", "released"}
        BY <3>2
      <3>5. QED BY <3>1, <3>3, <3>4, Zenon
    <2>2. Types'
      <3>1. life' \in {"open", "closing", "shutRd", "released"} /\ rcvShut' \in BOOLEAN
        BY <1>s, <2>1, Zenon DEF EndInv, Types
      <3>2. QED BY <1>s, <2>1, <3>1 DEF EndInv, Types, termVars, callVars
    <2>3. Latch'
      BY <2>1 DEF EndInv, Latch, termVars, callVars
    <2>4. Kernel'
      BY <2>1 DEF EndInv, Kernel, termVars
    <2>5. QED BY <2>2, <2>3, <2>4 DEF EndInv
  <1>10. ASSUME NEW x \in {"data", "note"}, Arrive(x) PROVE EndInv'
    <2>1. /\ assoc # "gone" /\ queue' = Append(queue, x) /\ x \in RecordKinds
          /\ UNCHANGED <<termVars, callVars, skErr, rcvShut, assoc, failure, outside, life>>
      BY <1>10 DEF Arrive, RecordKinds
    <2>2. /\ queue' \in Seq(RecordKinds) /\ Len(queue') = Len(queue) + 1 /\ Len(queue) \in Nat
          /\ queue'[Len(queue) + 1] = x /\ \A i \in 1..Len(queue) : queue'[i] = queue[i]
      BY <1>t, <2>1, AppendFacts, Zenon
    <2>3. failure = "none" /\ ~ended /\ ~drained
      BY <2>1 DEF EndInv, Latch, Kernel
    <2>4. Types' /\ Latch'
      BY <2>1, <2>2, <2>3 DEF EndInv, Types, Latch, termVars, callVars
    <2>5. \A i \in 1..Len(queue') : queue'[i] \notin {"lost", "complete"}
      BY <2>1, <2>2 DEF EndInv, Kernel
    <2>6. Kernel'
      BY <2>1, <2>3, <2>5 DEF EndInv, Kernel, termVars
    <2>7. QED BY <2>4, <2>6 DEF EndInv
  <1>11. ASSUME PeerShutdown PROVE EndInv'
    <2>1. /\ assoc = "up" /\ assoc' = "shutting" /\ rcvShut' \in BOOLEAN
          /\ UNCHANGED <<termVars, callVars, queue, skErr, failure, outside, life>>
      BY <1>11 DEF PeerShutdown
    <2>2. QED BY <2>1 DEF EndInv, Types, Latch, Kernel, termVars, callVars
  \* The record of the end is queued last.
  <1>e. ASSUME NEW x \in {"lost", "complete"}, assoc # "gone", assoc' = "gone",
               queue' = Append(queue, x), x = "lost" <=> failure' # "none",
               UNCHANGED <<termVars, callVars, rcvShut, outside, life>>,
               skErr' = failure', failure' \in Failures \cup {"none"}
        PROVE EndInv'
    <2>1. /\ queue' \in Seq(RecordKinds) /\ Len(queue') = Len(queue) + 1 /\ Len(queue) \in Nat
          /\ queue'[Len(queue) + 1] = x /\ \A i \in 1..Len(queue) : queue'[i] = queue[i]
      <3>1. x \in RecordKinds
        BY <1>e DEF RecordKinds
      <3>2. QED BY <1>e, <1>t, <3>1, AppendFacts, Zenon
    <2>2. failure = "none" /\ ~ended /\ ~drained /\ ~failed /\ termErr = "nil"
      BY <1>e DEF EndInv, Latch, Kernel
    <2>3. Types' /\ Latch'
      BY <1>e, <2>1, <2>2 DEF EndInv, Types, Latch, termVars, callVars
    <2>4. \A i \in 1..Len(queue) : queue[i] \notin {"lost", "complete"}
      BY <1>e DEF EndInv, Kernel
    <2>5. \A i \in 1..Len(queue') : queue'[i] \in {"lost", "complete"} <=> i = Len(queue')
      BY <1>e, <2>1, <2>4
    <2>6. Len(queue') \in 1..Len(queue') /\ queue'[Len(queue')] = x
      BY <2>1
    <2>7. Kernel'
      BY <1>e, <2>2, <2>5, <2>6 DEF EndInv, Kernel, termVars
    <2>8. QED BY <2>3, <2>7 DEF EndInv
  <1>12. ASSUME Complete PROVE EndInv'
    <2>1. failure = "none" /\ skErr = "none"
      BY <1>12 DEF Complete, EndInv, Kernel
    <2>2. QED BY <1>12, <1>e, <2>1 DEF Complete
  <1>13. ASSUME NEW e \in Failures, Fail(e) PROVE EndInv'
    <2>1. e # "none"
      BY DEF Failures
    <2>2. QED BY <1>13, <1>e, <2>1 DEF Fail
  <1>14. ASSUME TakeError PROVE EndInv'
    BY <1>14, Zenon DEF TakeError, EndInv, Types, Latch, Kernel, termVars, callVars
  <1>15. ASSUME UNCHANGED vars PROVE EndInv'
    BY <1>15, <1>t, Quiet DEF vars, callVars
  <1>16. QED
    BY <1>1, <1>2, <1>3, <1>4, <1>5, <1>6, <1>7, <1>8, <1>9, <1>10, <1>11, <1>12, <1>13, <1>14, <1>15
       DEF Next, ReadStep

\* Spec keeps the inductive invariant.
THEOREM EndInvariance == Spec => []EndInv
  BY InitEndInv, NextEndInv, PTL DEF Spec

-----------------------------------------------------------------------------
(* The properties *)

INSTANCE FiniteSetTheorems

\* All calls agree on how the association failed: one error at most is ever
\* reported, by any number of reads and sends, and it is the one Linux set, or
\* ENOTCONN where that one was taken outside the package.
THEOREM OneVerdict == Spec => []VerdictAgreed
  <1>1. EndInv => VerdictAgreed
    <2> SUFFICES ASSUME EndInv PROVE VerdictAgreed
      OBVIOUS
    <2>1. reported = {} \/ (termErr # "nil" /\ reported = {termErr})
      BY DEF EndInv, Latch
    <2>2. Cardinality(reported) <= 1
      <3>1. CASE reported = {}
        BY <3>1, FS_EmptySet
      <3>2. CASE reported = {termErr}
        <4>1. Cardinality({termErr}) = 1
          BY FS_Singleton
        <4>2. QED BY <3>2, <4>1
      <3>3. QED BY <2>1, <3>1, <3>2
    <2>3. QED BY <2>1, <2>2 DEF EndInv, Latch, VerdictAgreed
  <1>2. QED BY <1>1, EndInvariance, PTL

\* Only the step of its own read ends a read.
LEMMA ReaderReturns ==
  ASSUME EndInv, NEW r \in Readers, NEW v, Returns(r, v), [Next]_vars
  PROVE \/ Return(r, "readEnd", v) /\ ReadEnd(r)
        \/ Return(r, "recvmsg", v) /\ (RecvRecord(r) \/ RecvNothing(r))
        \/ v \in {"ErrClosed", "deadline"}
  <1>t. /\ pc \in [Procs -> PCs] /\ r \in Procs /\ r \notin Senders
        /\ pc[r] # "idle" /\ pc'[r] = "idle" /\ ret' = <<r, v>>
    BY EndAssumption DEF EndInv, Types, Procs, Returns
  <1>r. ASSUME NEW p \in Procs, NEW from, NEW w, Return(p, from, w) PROVE p = r /\ w = v
    BY <1>r, <1>t DEF Return
  <1>g. ASSUME NEW p \in Procs, NEW from \in PCs, NEW to \in PCs \ {"idle"}, Goto(p, from, to) PROVE FALSE
    BY <1>g, <1>t DEF Goto
  <1>1. ASSUME NEW p \in Readers, ReadCall(p) \/ Lock(p) \/ Wake(p) PROVE FALSE
    <2>1. CASE Lock(p)
      BY <1>t, <2>1 DEF Lock
    <2>2. CASE ReadCall(p) \/ Wake(p)
      BY <1>g, <2>2 DEF ReadCall, Wake, Procs, PCs
    <2>3. QED BY <1>1, <2>1, <2>2
  <1>2. ASSUME NEW p \in Readers, ReadEnd(p) PROVE Return(r, "readEnd", v) /\ ReadEnd(r)
    <2>1. PICK w : Return(p, "readEnd", w)
      BY <1>2, <1>g DEF ReadEnd, Procs, PCs
    <2>2. QED BY <1>2, <1>r, <2>1 DEF Procs
  <1>3. ASSUME NEW p \in Readers, RecvRecord(p) \/ RecvNothing(p)
        PROVE Return(r, "recvmsg", v) /\ (RecvRecord(r) \/ RecvNothing(r))
    <2>1. PICK w : Return(p, "recvmsg", w)
      BY <1>3, <1>g, Zenon DEF RecvRecord, RecvNothing, Procs, PCs
    <2>2. QED BY <1>3, <1>r, <2>1 DEF Procs
  <1>4. ASSUME NEW p \in Readers, RawReadFails(p) \/ ReadTimeout(p)
        PROVE v \in {"ErrClosed", "deadline"}
    BY <1>4, <1>r DEF RawReadFails, ReadTimeout, ReadEnded, Procs
  <1>5. ASSUME NEW s \in Senders, SendCall(s) \/ Latched(s) \/ SendOnce(s) PROVE FALSE
    <2>1. CASE SendCall(s) \/ Goto(s, "latched", "sendmsg")
      BY <1>g, <2>1 DEF SendCall, Procs, PCs
    <2>2. ASSUME NEW from, NEW w, Return(s, from, w) PROVE FALSE
      BY <1>r, <1>t, <2>2 DEF Procs
    <2>3. QED BY <1>5, <2>1, <2>2 DEF Latched, SendOnce
  <1>6. ASSUME UNCHANGED pc PROVE FALSE
    BY <1>6, <1>t
  <1>7. QED
    BY <1>1, <1>2, <1>3, <1>4, <1>5, <1>6, Zenon DEF Next, ReadStep, StartShutdown, CloseStep, Arrive,
       PeerShutdown, Complete, Fail, TakeError, callVars, vars

\* A read reports the end, by the latched error or by io.EOF, only when what
\* Linux queued before the end has all been read, although a send may have
\* taken the error long before.
THEOREM ReadsReachTheEnd == Spec => NothingLeftUnread
  <1>1. ASSUME EndInv, [Next]_vars
        PROVE [\A r \in Readers, e \in Verdicts \cup {"EOF"} : Returns(r, e) => queue = <<>>]_vars
    <2>1. SUFFICES ASSUME NEW r \in Readers, NEW e \in Verdicts \cup {"EOF"}, Returns(r, e)
                   PROVE queue = <<>>
      OBVIOUS
    <2>2. CASE Return(r, "readEnd", e) /\ ReadEnd(r)
      <3>1. drained \/ ended
        BY <1>1, <2>2, Zenon DEF ReadEnd, Goto, Return, EndInv, Types, Procs
      <3>2. QED BY <1>1, <3>1 DEF EndInv, Latch, Kernel
    <2>3. CASE Return(r, "recvmsg", e) /\ RecvRecord(r)
      <3>1. queue # <<>> /\ ret' = <<r, Head(queue)>>
        BY <1>1, <2>3, Zenon DEF RecvRecord, Return, Goto, EndInv, Types, Procs
      <3>2. Head(queue) \in RecordKinds
        BY <1>1, <3>1, TailFacts DEF EndInv, Types
      <3>3. QED BY <2>3, <3>1, <3>2 DEF Return, RecordKinds, Verdicts, Failures
    <2>4. CASE RecvNothing(r)
      BY <2>4 DEF RecvNothing
    <2>5. e \notin {"ErrClosed", "deadline"}
      BY DEF Verdicts, Failures
    <2>6. QED BY <1>1, <2>1, <2>2, <2>3, <2>4, <2>5, ReaderReturns
  <1>2. QED BY <1>1, EndInvariance, PTL DEF Spec, NothingLeftUnread

\* Only the step of its own send ends a send.
LEMMA SenderReturns ==
  ASSUME EndInv, NEW s \in Senders, NEW v, Returns(s, v), [Next]_vars
  PROVE \/ Latched(s) /\ v = termErr
        \/ SendOnce(s) /\ Return(s, "sendmsg", v)
  <1>t. /\ pc \in [Procs -> PCs] /\ s \in Procs /\ s \notin Readers
        /\ pc[s] # "idle" /\ pc'[s] = "idle" /\ ret' = <<s, v>>
    BY EndAssumption DEF EndInv, Types, Procs, Returns
  <1>r. ASSUME NEW p \in Procs, NEW from, NEW w, Return(p, from, w) PROVE p = s /\ w = v
    BY <1>r, <1>t DEF Return
  <1>g. ASSUME NEW p \in Procs, NEW from \in PCs, NEW to \in PCs \ {"idle"}, Goto(p, from, to) PROVE FALSE
    BY <1>g, <1>t DEF Goto
  <1>1. ASSUME NEW p \in Readers, ReadCall(p) \/ Lock(p) \/ Wake(p) PROVE FALSE
    <2>1. CASE Lock(p)
      BY <1>t, <2>1 DEF Lock
    <2>2. CASE ReadCall(p) \/ Wake(p)
      BY <1>g, <2>2 DEF ReadCall, Wake, Procs, PCs
    <2>3. QED BY <1>1, <2>1, <2>2
  <1>2. ASSUME NEW p \in Readers, ReadEnd(p) \/ RecvRecord(p) \/ RecvNothing(p) PROVE FALSE
    <2>1. \E from, w : Return(p, from, w)
      BY <1>2, <1>g, Zenon DEF ReadEnd, RecvRecord, RecvNothing, Procs, PCs
    <2>2. QED BY <1>r, <1>t, <2>1 DEF Procs
  <1>3. ASSUME NEW p \in Readers, RawReadFails(p) \/ ReadTimeout(p) PROVE FALSE
    BY <1>3, <1>r, <1>t DEF RawReadFails, ReadTimeout, Procs
  <1>4. ASSUME NEW p \in Senders, SendCall(p) PROVE FALSE
    BY <1>4, <1>g DEF SendCall, Procs, PCs
  <1>5. ASSUME NEW p \in Senders, Latched(p) PROVE Latched(s) /\ v = termErr
    <2>1. Return(p, "latched", termErr)
      BY <1>5, <1>g DEF Latched, Procs, PCs
    <2>2. QED BY <1>5, <1>r, <2>1 DEF Procs
  <1>6. ASSUME NEW p \in Senders, SendOnce(p) PROVE SendOnce(s) /\ Return(s, "sendmsg", v)
    <2>1. PICK w : Return(p, "sendmsg", w)
      BY <1>6 DEF SendOnce
    <2>2. QED BY <1>6, <1>r, <2>1 DEF Procs
  <1>7. ASSUME UNCHANGED pc PROVE FALSE
    BY <1>7, <1>t
  <1>8. QED
    BY <1>1, <1>2, <1>3, <1>4, <1>5, <1>6, <1>7, Zenon DEF Next, ReadStep, StartShutdown, CloseStep, Arrive,
       PeerShutdown, Complete, Fail, TakeError, callVars, vars

\* io.EOF is returned for a graceful end and nothing else, and EPIPE for a
\* failed association only when someone took its error outside the package
\* and no read has come to the record of the failure.
THEOREM EndsAreTold == Spec => GracefulEndIsReal
  <1>1. ASSUME EndInv, [Next]_vars, NEW r \in Readers, Returns(r, "EOF")
        PROVE failure = "none" /\ assoc # "up"
    <2>v. Verdicts \cap (RecordKinds \cup {"EOF", "nil"}) = {} /\ termErr \in Verdicts \cup {"nil"}
          /\ pc \in [Procs -> PCs] /\ r \in Procs
      BY <1>1 DEF Verdicts, Failures, RecordKinds, EndInv, Types, Procs
    <2>1. CASE Return(r, "readEnd", "EOF") /\ ReadEnd(r)
      <3>1. drained => Return(r, "readEnd", ReadEnded(termErr))
        BY <2>1 DEF ReadEnd
      <3>2. ~drained
        BY <2>1, <2>v, <3>1 DEF Return, ReadEnded
      <3>3. ended
        BY <2>1, <2>v, <3>2, Zenon DEF ReadEnd, Goto, Return
      <3>4. QED BY <1>1, <3>3 DEF EndInv, Kernel
    <2>2. CASE Return(r, "recvmsg", "EOF") /\ RecvRecord(r)
      <3>1. queue # <<>> /\ ret' = <<r, Head(queue)>>
        BY <1>1, <2>2, <2>v, Zenon DEF RecvRecord, Return, Goto
      <3>2. Head(queue) \in RecordKinds
        BY <1>1, <3>1, TailFacts DEF EndInv, Types
      <3>3. QED BY <2>2, <3>1, <3>2 DEF Return, RecordKinds
    <2>3. CASE Return(r, "recvmsg", "EOF") /\ RecvNothing(r)
      <3> DEFINE e == IF skErr # "none" THEN skErr ELSE IF rcvShut THEN "EOF" ELSE "EAGAIN"
      <3>1. queue = <<>> /\ Return(r, "recvmsg", ReadEnded(ReadResult(e)))
        BY <2>3, <2>v, Zenon DEF RecvNothing, Return, Goto
      <3>2. life = "open" /\ ReadResult(e) = "EOF"
        <4>0. ret' = <<r, "EOF">> /\ ret' = <<r, ReadEnded(ReadResult(e))>>
          BY <2>3, <3>1, Zenon DEF Return
        <4>1. ReadEnded(ReadResult(e)) = "EOF"
          BY <4>0
        <4>2. QED BY <4>1 DEF ReadEnded
      <3>3. skErr # "none" => skErr \in Failures
        BY <1>1 DEF EndInv, Types
      <3>4. ReadLatch(e) \in Verdicts \cup {"nil"}
        BY <2>v, <3>3 DEF ReadLatch, StoreLocked, Verdicts
      <3>5. ReadLatch(e) = "nil" /\ (e = "EOF" \/ ended)
        BY <2>v, <3>2, <3>4 DEF ReadResult
      <3>6. CASE ended
        BY <1>1, <3>6 DEF EndInv, Kernel
      <3>7. CASE e = "EOF"
        <4>1. rcvShut
          BY <2>v, <3>3, <3>7 DEF Verdicts
        <4>2. ~failed
          BY <2>v, <3>5, <3>7 DEF ReadLatch
        <4>3. failure = "none"
          <5>1. ~\E i \in 1..Len(queue) : queue[i] = "lost"
            BY <3>1
          <5>2. QED BY <1>1, <4>2, <5>1 DEF EndInv, Kernel
        <4>4. QED BY <1>1, <3>2, <4>1, <4>3 DEF EndInv, Kernel
      <3>8. QED BY <3>5, <3>6, <3>7
    <2>4. QED BY <1>1, <2>1, <2>2, <2>3, ReaderReturns
  <1>2. ASSUME EndInv, [Next]_vars, NEW s \in Senders, Returns(s, "EPIPE")
        PROVE failure = "none" \/ (outside /\ ~failed)
    <2>v. Verdicts \cap {"EPIPE", "ErrClosed", "nil", "ESHUTDOWN"} = {} /\ termErr \in Verdicts \cup {"nil"}
      BY <1>2 DEF Verdicts, Failures, EndInv, Types
    <2>1. SendOnce(s) /\ Return(s, "sendmsg", "EPIPE")
      BY <1>2, <2>v, SenderReturns
    <2>2. termErr = "nil" /\ SendResult(SendErrno) = "EPIPE"
      BY <2>1, <2>v, Zenon DEF SendOnce, Return
    <2>3. skErr # "none" => skErr \in Failures
      BY <1>2 DEF EndInv, Types
    <2>4. SendErrno = "EPIPE" => SendLatch(SendErrno) = "nil"
      BY <2>2, <2>v DEF SendResult, SendLatch, StoreLocked, Failures, Verdicts
    <2>5. SendErrno = "EPIPE"
      BY <2>2, <2>3, <2>v DEF SendResult, Verdicts
    <2>6. ~failed
      BY <2>2, <2>4, <2>5 DEF SendLatch
    <2>7. skErr = "none"
      BY <2>3, <2>5, <2>v DEF SendErrno, Verdicts
    <2>8. QED BY <1>2, <2>2, <2>6, <2>7 DEF EndInv, Kernel
  <1>3. EndInv /\ [Next]_vars =>
          [/\ \A r \in Readers : Returns(r, "EOF") => failure = "none" /\ assoc # "up"
           /\ \A s \in Senders : Returns(s, "EPIPE") => failure = "none" \/ (outside /\ ~failed)]_vars
    BY <1>1, <1>2
  <1>4. QED BY <1>3, EndInvariance, PTL DEF Spec, GracefulEndIsReal
=============================================================================
