-------------------------- MODULE MCEndpointClose --------------------------
(* EndpointClose for TLC: its bounds are given in the configurations. *)
EXTENDS EndpointClose
=============================================================================
