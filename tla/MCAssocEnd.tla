----------------------------- MODULE MCAssocEnd -----------------------------
(* AssocEnd with a few goroutines for TLC. *)
EXTENDS AssocEnd

CONSTANTS r1, r2, s1

TwoReaders == {r1, r2}
OneSender  == {s1}
=============================================================================
