------------------------------- MODULE Notes -------------------------------
(* How a connection puts a notification record together from the pieces       *)
(* recvmsg returns (notification.go's notificationAccumulator, and addPiece   *)
(* and its callers of recv_linux.go).  The accumulator is reused from record  *)
(* to record.  It keeps the bytes of a record only once the header has said   *)
(* that the caller wants its type, and checks the length the header declares  *)
(* whether it keeps them or not.  A byte is its record and its place in it.   *)
EXTENDS Part, Integers, Sequences

CONSTANTS Header,    \* notificationHeaderSize
          Prefix,    \* sizeAssocChange, at least Header
          NoteLimit, \* NotificationReassemblyLimit
          Declares,  \* the lengths headers declare
          MaxTotal   \* bound on the bytes of a record

VARIABLES handler,   \* whether the connection has a NotificationHandler
          record,    \* the record at the head of the queue
          sent,      \* its bytes read so far
          notes,     \* the notificationAccumulator
          noting, typed, kept, serving, served,             \* the rest of recvState
          verdict, out   \* what the caller was told of the record, and its bytes

noteVars == <<handler, record, sent, notes, noting, typed, kept, serving, served,
              verdict, out>>

\* What the constants are assumed to be.
ASSUME NoteAssumption ==
  /\ Header \in Nat /\ Prefix \in Nat /\ NoteLimit \in Nat /\ MaxTotal \in Nat
  /\ Header <= Prefix /\ Declares \subseteq Nat

\* Which of two records in turn, the length its header declares, and whether the
\* reader keeps notes and the caller has subscribed to its type.
Record == [nr : 0..1, declared : Declares, wanted : BOOLEAN]
Bytes(from, to) == [i \in 1..(to - from) |-> <<record.nr, from + i>>]

\* reset
Zero == [data |-> <<>>, prefix |-> <<>>, total |-> 0, haveDeclared |-> FALSE,
         retain |-> FALSE, err |-> "nil"]

NotesInit ==
  /\ handler \in BOOLEAN /\ record \in Record /\ sent = 0
  /\ notes = Zero
  /\ noting = FALSE /\ typed = FALSE /\ kept = FALSE /\ serving = FALSE /\ served = 0
  /\ verdict = "none" /\ out = <<>>

-----------------------------------------------------------------------------
(* notificationAccumulator *)

fail(a, e) == [a EXCEPT !.err = e, !.data = <<>>]

\* add: the checks are made in this order, and the bytes of a record in error
\* are dropped.
addChecked(a, p) ==
  IF a.haveDeclared /\ record.declared < Header THEN fail(a, "ErrShortNotification")
  ELSE IF a.haveDeclared /\ record.declared > NoteLimit THEN fail(a, "ErrNotificationTooLong")
  ELSE IF a.haveDeclared /\ a.total > record.declared THEN fail(a, "ErrShortNotification")
  ELSE IF a.retain THEN [a EXCEPT !.data = @ \o p] ELSE a
add(a, p) ==
  IF a.err # "nil" \/ p = <<>> THEN a
  ELSE IF Len(p) > NoteLimit - a.total THEN fail(a, "ErrNotificationTooLong")
  ELSE LET head == a.prefix \o SubSeq(p, 1, IF Len(p) < Prefix - Len(a.prefix)
                                            THEN Len(p) ELSE Prefix - Len(a.prefix)) IN
       addChecked([a EXCEPT !.prefix = head, !.total = @ + Len(p),
                            !.haveDeclared = Len(head) >= Header], p)

\* peekType: the header is complete with the piece that is about to be added.
peekType(a, p) == a.total + Len(p) >= Header

\* Mutation: retention starts with the piece at hand.
keep_Later(a) ==
  IF a.retain \/ a.err # "nil" \/ a.total > Len(a.prefix) THEN a
  ELSE [a EXCEPT !.retain = TRUE]

\* keep: retention starts with the bytes that are still in the prefix.
keep(a) ==
  IF a.retain \/ a.err # "nil" \/ a.total > Len(a.prefix) THEN a
  ELSE [a EXCEPT !.retain = TRUE, !.data = @ \o a.prefix]

finishErr(a) ==
  IF a.err # "nil" THEN a.err
  ELSE IF ~a.haveDeclared \/ a.total # record.declared THEN "ErrShortNotification"
  ELSE "nil"

-----------------------------------------------------------------------------
(* recvState *)

\* One recvmsg returns a piece.  The first one starts the record over.
addPiece(n) ==
  LET p == Bytes(sent, sent + n)
      a == IF noting THEN notes ELSE Zero
      isTyped == noting /\ typed
      now == ~isTyped /\ peekType(a, p)
      k == IF now /\ record.wanted THEN keep(a) ELSE a IN
  /\ typed' = (isTyped \/ now)
  /\ kept' = IF now THEN k.retain ELSE noting /\ kept
  /\ notes' = add(k, p)

Piece ==
  /\ verdict = "none" /\ ~serving /\ sent < MaxTotal
  /\ \E n \in 1..(MaxTotal - sent) :
       /\ sent' = sent + n /\ addPiece(n)
  /\ noting' = TRUE
  /\ UNCHANGED <<handler, record, serving, served, verdict, out>>

\* That piece was the last: the record is dropped, handed to the handler, or
\* served to RecvMsg, once its framing has been checked.
EndOfRecord ==
  /\ noting /\ verdict = "none" /\ noting' = FALSE
  /\ IF finishErr(notes) # "nil" THEN
       verdict' = finishErr(notes) /\ notes' = Zero /\ UNCHANGED <<out, serving>>
     ELSE IF ~kept THEN
       verdict' = "dropped" /\ notes' = Zero /\ UNCHANGED <<out, serving>>
     ELSE IF handler THEN
       verdict' = "given" /\ out' = notes.data /\ notes' = Zero /\ UNCHANGED serving
     ELSE
       serving' = TRUE /\ UNCHANGED <<notes, verdict, out>>
  /\ UNCHANGED <<handler, record, sent, typed, kept, served>>

\* recvmsg finds something else where the rest of the record should be: the
\* error is ErrShortNotification whatever the length, and the connection ends.
Cut ==
  /\ noting /\ verdict = "none" /\ noting' = FALSE
  /\ verdict' = "interrupted" /\ notes' = Zero
  /\ UNCHANGED <<handler, record, sent, typed, kept, serving, served, out>>

\* RecvMsg copies the next piece out of the accumulator; the last frees it.
servePiece ==
  /\ serving
  /\ \E n \in 1..(Len(notes.data) - served) :
       /\ out' = out \o SubSeq(notes.data, served + 1, served + n)
       /\ IF served + n = Len(notes.data)
          THEN serving' = FALSE /\ served' = 0 /\ verdict' = "given" /\ notes' = Zero
          ELSE served' = served + n /\ UNCHANGED <<notes, serving, verdict>>
  /\ UNCHANGED <<handler, record, sent, noting, typed, kept>>

\* A Read or ReadMsg comes in the middle of it and skips the rest.
stopServing ==
  /\ serving /\ serving' = FALSE /\ served' = 0
  /\ verdict' = "skipped" /\ notes' = Zero
  /\ UNCHANGED <<handler, record, sent, noting, typed, kept, out>>

NextRecord ==
  /\ verdict \notin {"none", "interrupted"} /\ verdict' = "none"
  /\ \E r \in Record : r.nr = 1 - record.nr /\ record' = r
  /\ sent' = 0 /\ out' = <<>>
  /\ UNCHANGED <<handler, notes, noting, typed, kept, serving, served>>

Aborted == verdict = "interrupted" /\ UNCHANGED noteVars

NotesNext ==
  Piece \/ EndOfRecord \/ Cut \/ servePiece \/ stopServing \/ NextRecord \/ Aborted

NotesSpec ==
  /\ part = "notes" /\ NotesInit
  /\ [][NotesNext /\ UNCHANGED part]_<<part, noteVars>>

-----------------------------------------------------------------------------
(* Properties *)

\* What the record is, whatever its pieces were.
WellFramed == sent = record.declared /\ sent >= Header /\ sent <= NoteLimit

\* A reader is given exactly the bytes of one record in their order, never some
\* of the last one; a record is given or dropped just when it has the header and
\* the length it declares, within the limit, and given just when it is wanted,
\* however recvmsg divides it; and one called too long is longer than the
\* limit or says that it is.
GivenWhole ==
  /\ Len(out) <= sent /\ out = Bytes(0, Len(out))
  /\ verdict = "given" => out = Bytes(0, sent)
  /\ verdict \in {"given", "skipped"} \/ serving => WellFramed /\ record.wanted
  /\ verdict = "dropped" => WellFramed /\ ~record.wanted
  /\ verdict \in {"ErrShortNotification", "ErrNotificationTooLong"} => ~WellFramed
  /\ verdict = "ErrNotificationTooLong" => sent > NoteLimit \/ record.declared > NoteLimit

\* The accumulator gives a notification whole, or refuses it, however recvmsg
\* divides it.
NoteIsWhole == part = "notes" => GivenWhole
=============================================================================
