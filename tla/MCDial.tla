------------------------------- MODULE MCDial -------------------------------
(* Dial as a module for TLC: its one constant is given in the configuration. *)
EXTENDS Dial
=============================================================================
