------------------------------ MODULE MCAccept ------------------------------
(* Accept for TLC: its goroutines and associations are given in the
   configuration. *)
EXTENDS Accept
=============================================================================
