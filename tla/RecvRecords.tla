---------------------------- MODULE RecvRecords ----------------------------
(***************************************************************************)
(* How Read, RecvMsg and ReadMsg take the records of one receive queue     *)
(* apart (recv_linux.go), on a Conn whose association carries classic      *)
(* DATA.  Data and notifications share the queue.  A message comes in      *)
(* pieces, the last with MSG_EOR, and may be abandoned in the middle: by a *)
(* partial-delivery abort, a restart or the end of the association.        *)
(*                                                                         *)
(* A step is what one recvmsg returns and all that is done about it before *)
(* the next one; recv.mu is held across the steps of a read.  A piece is   *)
(* as much as one recvmsg returns.  Ancillary data is left out, and so is  *)
(* I-DATA, for which ReadMsg is refused and Read interrupts nothing.       *)
(***************************************************************************)
EXTENDS Naturals, Sequences, FiniteSets

CONSTANTS
  Readers,     \* goroutines that read
  Calls,       \* the reads they make: a subset of {"Read", "RecvMsg", "ReadMsg"}
  Kinds,       \* the notifications the kernel queues
  Forms,       \* and their framing: a subset of {"whole", "malformed", "tooLong", "cut"}
  MaxMessages, MsgLen,  \* the messages of the peer, and their pieces
  MaxNotes,    \* how many notifications are queued
  Maxes,       \* the max that ReadMsg is given, in pieces
  QueueLimit   \* NotificationReassemblyLimit, in notifications queued by a ReadMsg

NoOne == "nobody"

ASSUME RecvAssumption ==
  /\ NoOne \notin Readers
  /\ Calls \subseteq {"Read", "RecvMsg", "ReadMsg"}
  /\ Kinds \subseteq {"PartialDelivery", "Restart", "Lost", "Complete", "Other", "Untyped"}
  /\ Forms \subseteq {"whole", "malformed", "tooLong", "cut"}
  /\ {MaxMessages, MsgLen} \cup Maxes \subseteq Nat \ {0}
  /\ {MaxNotes, QueueLimit} \subseteq Nat

Pieces == [msg : 1..MaxMessages, piece : 1..MsgLen]
Notes == [id : 1..MaxNotes, kind : Kinds, form : Forms]
EOR(p) == p.piece = MsgLen

\* The event whose subscription decides about a notification.
EventOf(kind) ==
  IF kind \in {"Restart", "Lost", "Complete"} THEN "AssocChange" ELSE kind
Internal == {"AssocChange", "PartialDelivery"}

VARIABLES
  queue,     \* the receive queue: pieces and notifications
  sending,   \* the piece the kernel queues next
  notes,     \* the notifications queued so far
  up,        \* the association is up
  failed, ended,     \* termState, as the records read have set it
  partial,   \* recvState.partial
  serving,   \* the notification RecvMsg returns in pieces, or <<>>
  mu,        \* the holder of recv.mu
  subs,      \* the internal events the caller subscribed to
  handler,   \* Config.NotificationHandler is set
  open,      \* the connection has not been closed or aborted
  pc, call,  \* each reader's next step and the call it makes
  rm,        \* each reader's readMsgState
  ret,       \* the call that returned last, what it returned, and its errors
  held,      \* history: the last piece of a message the caller holds a part of
  owed       \* history: notifications taken for the handler and not yet handed over

kernVars == <<queue, sending, notes, up>>
recvVars == <<failed, ended, partial, serving>>
fixed == <<subs, handler>>
vars == <<kernVars, recvVars, fixed, mu, open, pc, call, rm, ret, held, owed>>

Fresh == [max |-> 0, got |-> <<>>, tooLong |-> FALSE, queued |-> <<>>, full |-> FALSE,
          errs |-> {}]

NoReturn == [call |-> "none", got |-> <<>>, errs |-> {}]

Init ==
  /\ queue = <<>> /\ sending = [msg |-> 1, piece |-> 1] /\ notes = 0 /\ up = TRUE
  /\ failed = FALSE /\ ended = FALSE /\ partial = FALSE /\ serving = <<>>
  /\ mu = NoOne /\ open = TRUE
  /\ subs \in SUBSET Internal /\ handler \in BOOLEAN
  /\ pc = [r \in Readers |-> "idle"]
  /\ call = [r \in Readers |-> "none"]
  /\ rm = [r \in Readers |-> Fresh]
  /\ ret = NoReturn
  /\ held = <<>> /\ owed = <<>>

-----------------------------------------------------------------------------
(* What every read does *)

Head1 == queue[1]
IsPiece == queue # <<>> /\ "piece" \in DOMAIN Head1
IsNote == queue # <<>> /\ "kind" \in DOMAIN Head1
Pop == queue' = Tail(queue) /\ UNCHANGED <<sending, notes, up>>

\* addPiece: whether the record at the head is retained for the caller, which
\* one too short for its header, of no type, never is.
Kept(keepNotes) ==
  /\ keepNotes /\ Head1.kind # "Untyped"
  /\ (EventOf(Head1.kind) \notin Internal \/ EventOf(Head1.kind) \in subs)

\* Mutation: a restart goes unnoticed.
MessageCut_NoRestart == Head1.kind = "PartialDelivery"

\* messageCut: the record says that a message in progress will not be completed.
MessageCut == Head1.kind \in {"PartialDelivery", "Restart"}

\* Mutation: AssocCommLost goes unnoticed.
EndRecord_NoLost ==
  /\ UNCHANGED failed
  /\ ended' = (ended \/ Head1.kind = "Complete")

\* endRecordLocked, for a record that has come to its end.
EndRecord ==
  /\ failed' = (failed \/ Head1.kind = "Lost")
  /\ ended' = (ended \/ Head1.kind = "Complete")

\* The verdict of notes.finish: not the declared length, or over the limit.
Framing ==
  IF Head1.form = "malformed" THEN {"ErrShortNotification"}
  ELSE IF Head1.form = "tooLong" THEN {"ErrNotificationTooLong"} ELSE {}

\* The caller gets p: with a part of a message in hand unless p ends it.
Hold(p) == held' = IF EOR(p) THEN <<>> ELSE <<p>>

\* readEnded
ReadEnded(e) == IF open THEN e ELSE "ErrClosed"

\* A notification for the handler, and the handler's call.
Owe(n) == owed' = Append(owed, n.id)
HandOver(n) == owed' = SelectSeq(owed, LAMBDA id : id # n.id)

Goto(r, to) == pc' = [pc EXCEPT ![r] = to] /\ UNCHANGED <<mu, ret, call>>

\* r's call returns, and gives recv.mu up.
Return(r, got, errs) ==
  /\ pc' = [pc EXCEPT ![r] = "idle"]
  /\ mu' = IF mu = r THEN NoOne ELSE mu
  /\ ret' = [call |-> call[r], got |-> got, errs |-> errs]
  /\ call' = [call EXCEPT ![r] = "none"]
  /\ rm' = [rm EXCEPT ![r] = Fresh]

ReadCall(r) ==
  /\ pc[r] = "idle"
  /\ \E c \in Calls : call' = [call EXCEPT ![r] = c]
  /\ IF call'[r] = "ReadMsg" THEN \E m \in Maxes : rm' = [rm EXCEPT ![r].max = m]
     ELSE UNCHANGED rm
  /\ pc' = [pc EXCEPT ![r] = "lock"]
  /\ UNCHANGED <<kernVars, recvVars, fixed, mu, open, ret, held, owed>>

Lock(r) ==
  /\ pc[r] = "lock" /\ mu = NoOne
  /\ mu' = r
  /\ pc' = [pc EXCEPT ![r] = "top"]
  /\ ret' = NoReturn   \* history of the calls before: not needed any more
  /\ UNCHANGED <<kernVars, recvVars, fixed, open, call, rm, held, owed>>

\* The top of the loops of recvNext and readMsg: RecvMsg goes on with the
\* notification it is returning, the others drop it; then readEnd.
Top(r) ==
  /\ pc[r] = "top"
  /\ IF serving # <<>> /\ call[r] = "RecvMsg"
     THEN Return(r, serving, {})   \* servePiece
     ELSE \/ ended /\ Return(r, <<>>, {ReadEnded("EOF")})
          \/ ~ended /\ Goto(r, "recv") /\ UNCHANGED rm
  /\ serving' = <<>>               \* its last piece, or stopServing
  /\ UNCHANGED <<kernVars, failed, ended, partial, fixed, open, held, owed>>

\* attempt found nothing: it parks, or the association is over.
Park(r) ==
  /\ pc[r] = "recv" /\ open /\ queue = <<>> /\ ~failed /\ ~ended
  /\ Goto(r, "park")
  /\ UNCHANGED <<kernVars, recvVars, fixed, open, rm, held, owed>>

Wake(r) ==
  /\ pc[r] = "park" /\ open /\ queue # <<>>
  /\ Goto(r, "recv")
  /\ UNCHANGED <<kernVars, recvVars, fixed, open, rm, held, owed>>

\* How a wait ends without a record: raw.Read fails, or the latch speaks.
Ending(r) ==
  {e \in {"ErrClosed", "deadline", "EOF", "ENOTCONN"} :
     \/ e = "ErrClosed" /\ pc[r] \in {"recv", "park"} /\ ~open
     \/ e = "deadline" /\ pc[r] = "park" /\ open
     \/ e = "EOF" /\ pc[r] = "recv" /\ open /\ queue = <<>> /\ ended
     \/ e = "ENOTCONN" /\ pc[r] = "recv" /\ open /\ queue = <<>> /\ failed /\ ~ended}

-----------------------------------------------------------------------------
(* Read and RecvMsg: recvNext *)

\* Mutation: a piece without MSG_EOR is not remembered.
RecvData_Forgotten(r) ==
  /\ pc[r] = "recv" /\ call[r] # "ReadMsg" /\ open /\ IsPiece
  /\ Pop
  /\ Hold(Head1)
  /\ Return(r, <<Head1>>, {})
  /\ UNCHANGED <<recvVars, fixed, open, owed>>

RecvData(r) ==
  /\ pc[r] = "recv" /\ call[r] # "ReadMsg" /\ open /\ IsPiece
  /\ Pop
  /\ partial' = ~EOR(Head1)
  /\ Hold(Head1)
  /\ Return(r, <<Head1>>, {})
  /\ UNCHANGED <<failed, ended, serving, fixed, open, owed>>

\* The record ends a message that has begun.
Interrupted == Head1.kind = "PartialDelivery" /\ partial

RecvNote(r) ==
  LET raw == call[r] = "RecvMsg"
      kept == Kept(raw \/ handler)
      interruption == IF Interrupted /\ (~raw \/ ~kept) THEN {"ErrMessageInterrupted"} ELSE {}
  IN /\ pc[r] = "recv" /\ call[r] # "ReadMsg" /\ open /\ IsNote /\ Head1.form # "cut"
     /\ Pop /\ EndRecord
     /\ partial' = (partial /\ Head1.kind # "PartialDelivery")
     /\ \/ /\ ~kept /\ Framing \cup interruption = {}
           /\ Goto(r, "top")
           /\ UNCHANGED <<serving, rm, held, owed>>
        \/ /\ ~kept /\ Framing \cup interruption # {}
           /\ Return(r, <<>>, Framing \cup interruption)
           /\ held' = IF interruption # {} THEN <<>> ELSE held
           /\ UNCHANGED <<serving, owed>>
        \/ /\ kept /\ Framing # {}
           /\ Return(r, <<>>, Framing)
           /\ UNCHANGED <<serving, held, owed>>
        \/ /\ kept /\ Framing = {} /\ handler
           /\ pc' = [pc EXCEPT ![r] = "handler"] /\ mu' = NoOne
           /\ rm' = [rm EXCEPT ![r].queued = <<Head1>>, ![r].errs = interruption]
           /\ Owe(Head1)
           /\ held' = IF MessageCut THEN <<>> ELSE held
           /\ UNCHANGED <<serving, call, ret>>
        \/ /\ kept /\ Framing = {} /\ ~handler
           /\ Return(r, <<Head1>>, {})   \* the first piece of it, or all
           /\ serving' \in {<<>>, <<Head1>>}
           /\ held' = IF MessageCut THEN <<>> ELSE held
           /\ UNCHANGED owed
     /\ UNCHANGED <<fixed, open>>

\* The handler runs once the lock is released; then the loops of Read and
\* RecvMsg go round, unless there is an error to return.
RecvHandler(r) ==
  /\ pc[r] = "handler" /\ call[r] # "ReadMsg"
  /\ HandOver(rm[r].queued[1])
  /\ \E herr \in {{}, {"handler"}} :
       IF rm[r].errs \cup herr # {} THEN Return(r, <<>>, rm[r].errs \cup herr)
       ELSE Goto(r, "lock") /\ rm' = [rm EXCEPT ![r] = Fresh]
  /\ UNCHANGED <<kernVars, recvVars, fixed, open, held>>

\* A record that does not come to its end: the connection is aborted.
RecvCut(r) ==
  /\ pc[r] = "recv" /\ call[r] # "ReadMsg" /\ open /\ IsNote /\ Head1.form = "cut"
  /\ Pop
  /\ open' = FALSE
  /\ Return(r, <<>>, {"ErrShortNotification"})
  /\ UNCHANGED <<recvVars, fixed, held, owed>>

RecvEnds(r) ==
  /\ call[r] # "ReadMsg"
  /\ \E e \in Ending(r) : Return(r, <<>>, {ReadEnded(e)})
  /\ UNCHANGED <<kernVars, recvVars, fixed, open, held, owed>>

-----------------------------------------------------------------------------
(* ReadMsg: readMsg and readMsgNotification *)

\* The callback of readMsg is done: the lock is released, if it still has it, and
\* the notifications queued behind the message go to the handler.
Finish(r, s) ==
  IF s.queued = <<>> THEN Return(r, s.got, s.errs)
  ELSE /\ pc' = [pc EXCEPT ![r] = "handler"]
       /\ mu' = IF mu = r THEN NoOne ELSE mu
       /\ rm' = [rm EXCEPT ![r] = s]
       /\ UNCHANGED <<ret, call>>

WithErrs(s, errs) == [s EXCEPT !.errs = @ \cup errs]

\* Mutation: the connection is not aborted.
FinishEnded_NoAbort(r, s, e) ==
  /\ Finish(r, WithErrs(s, {ReadEnded(e)} \cup
               IF s.got # <<>> THEN {"ErrMessageInterrupted"} ELSE {}))
  /\ held' = IF s.got # <<>> THEN <<>> ELSE held
  /\ UNCHANGED open

\* A read that fails: in the middle of a message it interrupts the message, and
\* aborts the connection to protect the framing.
FinishEnded(r, s, e) ==
  IF s.got = <<>>
  THEN Finish(r, WithErrs(s, {ReadEnded(e)})) /\ UNCHANGED <<open, held>>
  ELSE /\ Finish(r, WithErrs(s, {"ErrMessageInterrupted", ReadEnded(e)}))
       /\ open' = FALSE
       /\ held' = <<>>

MsgData(r) ==
  LET s == rm[r]
      got == IF s.tooLong THEN s.got ELSE Append(s.got, Head1)
      tooLong == s.tooLong \/ (Len(got) = s.max /\ ~EOR(Head1))
      t == [s EXCEPT !.got = got, !.tooLong = tooLong]
  IN /\ pc[r] = "recv" /\ call[r] = "ReadMsg" /\ open /\ IsPiece
     /\ Pop
     /\ partial' = ~EOR(Head1)
     /\ Hold(Head1)
     /\ IF EOR(Head1)
        THEN Finish(r, WithErrs(t, IF tooLong THEN {"ErrMessageTooLong"} ELSE {}))
        ELSE Goto(r, "recv") /\ rm' = [rm EXCEPT ![r] = t]
     /\ UNCHANGED <<failed, ended, serving, fixed, open, owed>>

MsgNote(r) ==
  LET s == rm[r]
      begun == s.got # <<>>
      kept == Kept(handler /\ (~begun \/ ~s.full))
      bad == Framing # {}
      t == WithErrs(s, Framing)
      Queue(x) == [x EXCEPT !.queued = Append(@, Head1)]
      take == kept /\ ~bad /\ (begun => MessageCut \/ Len(s.queued) < QueueLimit)
  IN /\ pc[r] = "recv" /\ call[r] = "ReadMsg" /\ open /\ IsNote /\ Head1.form # "cut"
     /\ Pop /\ EndRecord
     /\ IF take THEN Owe(Head1) ELSE UNCHANGED owed
     /\ IF begun /\ MessageCut
        THEN /\ partial' = FALSE
             /\ held' = <<>>
             /\ Finish(r, WithErrs(IF take THEN Queue(t) ELSE t, {"ErrMessageInterrupted"}))
             /\ open' = (Head1.kind = "PartialDelivery" /\ ~bad)  \* an exact boundary
        ELSE /\ UNCHANGED partial
             /\ \/ /\ bad /\ begun
                   /\ Goto(r, "recv")
                   /\ rm' = [rm EXCEPT ![r] =
                        [t EXCEPT !.full = @ \/ (kept /\ Head1.form = "tooLong")]]
                   /\ UNCHANGED <<open, held>>
                \/ bad /\ ~begun /\ Finish(r, t) /\ UNCHANGED <<open, held>>
                \/ /\ ~bad /\ ~kept /\ ended'
                   /\ FinishEnded(r, s, "EOF")
                \/ /\ ~bad /\ ~kept /\ ~ended'
                   /\ Goto(r, "recv") /\ UNCHANGED <<rm, open, held>>
                \/ /\ ~bad /\ kept /\ ~begun   \* immediate
                   /\ held' = IF MessageCut THEN <<>> ELSE held
                   /\ pc' = [pc EXCEPT ![r] = "immediate"] /\ mu' = NoOne
                   /\ rm' = [rm EXCEPT ![r] = Queue(s)]
                   /\ UNCHANGED <<open, ret, call>>
                \/ /\ ~bad /\ kept /\ begun
                   /\ Goto(r, "recv")
                   /\ rm' = [rm EXCEPT ![r] =
                        IF take THEN Queue(s)
                        ELSE [WithErrs(s, {"ErrNotificationTooLong"}) EXCEPT !.full = TRUE]]
                   /\ UNCHANGED <<open, held>>
     /\ UNCHANGED <<serving, fixed>>

\* The handler gets a notification that came before the message, and the read
\* goes on, or returns the handler's error.
MsgImmediate(r) ==
  /\ pc[r] = "immediate"
  /\ HandOver(rm[r].queued[1])
  /\ \/ Return(r, <<>>, rm[r].errs \cup {"handler"})
     \/ Goto(r, "lock") /\ rm' = [rm EXCEPT ![r].queued = <<>>]
  /\ UNCHANGED <<kernVars, recvVars, fixed, open, held>>

\* Mutation: the latest notification goes to the handler first.
MsgHandler_Last(r) ==
  LET s == rm[r] IN
  /\ pc[r] = "handler" /\ call[r] = "ReadMsg"
  /\ HandOver(s.queued[Len(s.queued)])
  /\ \E herr \in {{}, {"handler"}} :
       Finish(r, WithErrs([s EXCEPT !.queued = SubSeq(@, 1, Len(@) - 1)], herr))
  /\ UNCHANGED <<kernVars, recvVars, fixed, open, held>>

\* And those that came in the middle of it, in order, after it.
MsgHandler(r) ==
  LET s == rm[r] IN
  /\ pc[r] = "handler" /\ call[r] = "ReadMsg"
  /\ HandOver(s.queued[1])
  /\ \E herr \in {{}, {"handler"}} :
       Finish(r, WithErrs([s EXCEPT !.queued = Tail(@)], herr))
  /\ UNCHANGED <<kernVars, recvVars, fixed, open, held>>

MsgCut(r) ==
  /\ pc[r] = "recv" /\ call[r] = "ReadMsg" /\ open /\ IsNote /\ Head1.form = "cut"
  /\ Pop
  /\ open' = FALSE
  /\ Finish(r, WithErrs(rm[r], {"ErrShortNotification"} \cup
                 IF rm[r].got # <<>> THEN {"ErrMessageInterrupted"} ELSE {}))
  /\ UNCHANGED <<recvVars, fixed, held, owed>>

MsgEnds(r) ==
  /\ call[r] = "ReadMsg"
  /\ \E e \in Ending(r) : FinishEnded(r, rm[r], e)
  /\ UNCHANGED <<kernVars, recvVars, fixed, owed>>

-----------------------------------------------------------------------------
(* The caller's other calls, and the kernel *)

Subscribe(t, on) ==
  /\ subs' = IF on THEN subs \cup {t} ELSE subs \ {t}
  /\ UNCHANGED <<kernVars, recvVars, handler, mu, open, pc, call, rm, ret, held, owed>>

Close ==
  /\ open' = FALSE
  /\ UNCHANGED <<kernVars, recvVars, fixed, mu, pc, call, rm, ret, held, owed>>

kernOthers == <<recvVars, fixed, mu, open, pc, call, rm, ret, held, owed>>
NextMsg == [msg |-> sending.msg + 1, piece |-> 1]

QueuePiece ==
  /\ up /\ sending.msg <= MaxMessages
  /\ queue' = Append(queue, sending)
  /\ sending' = IF EOR(sending) THEN NextMsg ELSE [sending EXCEPT !.piece = @ + 1]
  /\ UNCHANGED <<notes, up, kernOthers>>

\* A partial delivery is aborted only once it has begun; a restart flushes the
\* reassembly of a message that has; the association ends once.
QueueNote(kind, form) ==
  /\ up /\ notes < MaxNotes
  /\ notes' = notes + 1
  /\ queue' = Append(queue, [id |-> notes + 1, kind |-> kind, form |-> form])
  /\ kind = "PartialDelivery" => sending.piece > 1
  /\ kind = "Untyped" => form \in {"malformed", "cut"}
  /\ up' = (kind \notin {"Lost", "Complete"})
  /\ sending' = IF kind \in {"PartialDelivery", "Restart"} /\ sending.piece > 1
                THEN NextMsg ELSE sending
  /\ UNCHANGED kernOthers

ReadStep(r) ==
  \/ Top(r) \/ Park(r) \/ Wake(r)
  \/ RecvData(r) \/ RecvNote(r) \/ RecvHandler(r) \/ RecvCut(r)
  \/ MsgData(r) \/ MsgNote(r) \/ MsgImmediate(r) \/ MsgHandler(r) \/ MsgCut(r)
  \/ (pc[r] = "park" => ~open) /\ (RecvEnds(r) \/ MsgEnds(r))

Next ==
  \/ \E r \in Readers : ReadCall(r) \/ Lock(r) \/ ReadStep(r) \/ RecvEnds(r) \/ MsgEnds(r)
  \/ \E t \in Internal, on \in BOOLEAN : Subscribe(t, on)
  \/ Close
  \/ QueuePiece
  \/ \E k \in Kinds, f \in Forms : QueueNote(k, f)

Spec == Init /\ [][Next]_vars

\* Goroutines that can run do run, the handler returns, and recv.mu is not kept
\* from a waiter for ever.  No deadline and no close is owed to a parked read.
Fairness == \A r \in Readers : WF_vars(ReadStep(r)) /\ SF_vars(Lock(r))

FairSpec == Spec /\ Fairness

-----------------------------------------------------------------------------
(* Properties *)

\* Every variable has its type; a read owns the receive lock from its first
\* recvmsg to its last.
TypeOK ==
  /\ queue \in Seq(Pieces \cup Notes)
  /\ sending \in [msg : 1..(MaxMessages + 1), piece : 1..MsgLen]
  /\ notes \in 0..MaxNotes
  /\ {up, failed, ended, partial, handler, open} \subseteq BOOLEAN
  /\ Len(serving) <= 1 /\ Len(held) <= 1
  /\ mu \in Readers \cup {NoOne} /\ subs \subseteq Internal
  /\ pc \in [Readers -> {"idle", "lock", "top", "recv", "park", "immediate", "handler"}]
  /\ call \in [Readers -> Calls \cup {"none"}]
  /\ \A r \in Readers : pc[r] \in {"top", "recv", "park"} <=> mu = r
  /\ \A r \in Readers : Len(rm[r].got) <= rm[r].max /\ Len(rm[r].queued) <= QueueLimit + 1

\* The pieces of g follow one another in one message.
OneMessage(g) ==
  \A i \in 1..(Len(g) - 1) : g[i + 1] = [g[i] EXCEPT !.piece = @ + 1]

\* ReadMsg returns pieces of one message, with none missing in between, and
\* unless it says otherwise the message is complete: neither an abandoned
\* delivery, nor a restart, nor another reader's call, nor a notification
\* between the pieces mixes two messages or passes a part for a whole.
MessageWhole ==
  ret.call = "ReadMsg" =>
    /\ OneMessage(ret.got)
    /\ \/ ret.got = <<>> \/ "ErrMessageInterrupted" \in ret.errs
       \/ EOR(ret.got[Len(ret.got)])
       \/ Len(ret.got) \in Maxes /\ "ErrMessageTooLong" \in ret.errs

\* This step takes piece p from the queue.
Takes(p) == IsPiece /\ Head1 = p /\ queue' = Tail(queue)

\* No read starts in the middle of a message whose beginning was reported as
\* interrupted, or drained: a piece begins a message or continues the one of
\* which the caller holds the piece before.
NoOrphanPiece ==
  [][\A p \in Pieces : Takes(p) =>
       p.piece = 1 \/ held = <<[p EXCEPT !.piece = @ - 1]>>]_vars

\* A message abandoned after a part of it was returned is reported before the
\* next one begins: by ErrMessageInterrupted, or by the record itself.
AbandonedReported ==
  [][\A p \in Pieces : Takes(p) /\ p.piece = 1 => held = <<>>]_vars

\* The part of it that holds for every mix of reads: a well-formed record of a
\* partial-delivery abort that Read or RecvMsg meets is reported by that call,
\* whichever call returned the part of the message it cuts, and whatever is
\* subscribed: by ErrMessageInterrupted, or by the record itself.
AbortReported ==
  [][IsNote /\ Head1.kind = "PartialDelivery" /\ Head1.form = "whole"
       /\ queue' = Tail(queue) /\ call[mu] # "ReadMsg" => held' = <<>>]_vars

\* Notifications taken for the handler reach it before the read returns, and in
\* the order of the queue when there is one reader, the ones that came between
\* the pieces of a message included.
NotesReachHandler ==
  /\ []((\A r \in Readers : pc[r] = "idle") => owed = <<>>)
  /\ [][Len(owed') < Len(owed) => owed' = Tail(owed)]_vars

\* A ReadMsg in the middle of a message that will never be completed returns,
\* without a deadline and without a close.
InterruptedReturns ==
  \A r \in Readers :
    rm[r].got # <<>> /\ (~up \/ sending.msg # rm[r].got[1].msg) ~> pc[r] = "idle"

=============================================================================
