----------------------------- MODULE Descriptor -----------------------------
(***************************************************************************)
(* What closing one SCTP descriptor promises its callers, whatever the     *)
(* machine behind it does: one call claims the descriptor, that call       *)
(* releases it, and every other call is told the truth about the release.  *)
(* Lifecycle.tla is the machine of close.go, and implements this module.   *)
(***************************************************************************)
CONSTANT Callers  \* the goroutines that call Close, Abort and Shutdown

VARIABLES
  fd,      \* "open", "claimed" by the call that will release it, or "released"
  owner,   \* the caller inside the call that claimed it: empty or a singleton
  call,    \* call[c]: the operation c is inside of, or "none"
  answer   \* answer[c]: what c's last call reported

vars == <<fd, owner, call, answer>>

Ops     == {"close", "abort", "shutdown"}
Answers == {"nil", "error", "ErrClosed"}

Init ==
  /\ fd \in {"open", "released"}  \* a zero Conn never owned a descriptor
  /\ owner = {}
  /\ call = [c \in Callers |-> "none"]
  /\ answer = [c \in Callers |-> "none"]

Invoke(c, op) ==
  /\ call[c] = "none"
  /\ call' = [call EXCEPT ![c] = op]
  /\ answer' = [answer EXCEPT ![c] = "none"]
  /\ UNCHANGED <<fd, owner>>

\* Close and Abort claim an open descriptor; Shutdown never does.
Claim(c) ==
  /\ call[c] \in {"close", "abort"}
  /\ fd = "open"
  /\ fd' = "claimed"
  /\ owner' = {c}
  /\ UNCHANGED <<call, answer>>

Release(c) ==
  /\ c \in owner
  /\ fd = "claimed"
  /\ fd' = "released"
  /\ UNCHANGED <<owner, call, answer>>

\* What each operation may report, and when.  The owner reports only after
\* the release.  An Abort that is not the owner may report nil, but only once
\* the descriptor is released.  ErrClosed is for a descriptor that another
\* call has claimed.  A Shutdown may report anything but never waits.
MayAnswer(c, a) ==
  \/ c \in owner /\ fd = "released" /\ a \in {"nil", "error"}
  \/ c \notin owner /\ call[c] = "abort" /\ fd = "released" /\ a = "nil"
  \/ c \notin owner /\ fd # "open" /\ a = "ErrClosed"
  \/ call[c] = "shutdown" /\ a \in {"nil", "error"}

Answer(c, a) ==
  /\ call[c] # "none"
  /\ MayAnswer(c, a)
  /\ call' = [call EXCEPT ![c] = "none"]
  /\ answer' = [answer EXCEPT ![c] = a]
  /\ owner' = owner \ {c}
  /\ UNCHANGED fd

Next ==
  \E c \in Callers :
    \/ \E op \in Ops : Invoke(c, op)
    \/ Claim(c)
    \/ Release(c)
    \/ \E a \in Answers : Answer(c, a)

Spec == Init /\ [][Next]_vars
=============================================================================
