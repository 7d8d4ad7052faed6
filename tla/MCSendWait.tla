----------------------------- MODULE MCSendWait -----------------------------
(* SendWait with one sending goroutine for TLC, beside its callback and those
   who set deadlines, cancel and shut down. *)
EXTENDS SendWait

CONSTANTS s1

OneSender == {s1}

AnyDeadline  == {"none", "future", "past"}
SomeDeadline == {"none", "future"}
=============================================================================
