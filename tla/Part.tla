-------------------------------- MODULE Part --------------------------------
(* Parts of the package that have no state in common.  A behaviour of the      *)
(* package is one of each; part says which of them a behaviour is of, and the  *)
(* variables of the other ones have the value Absent.                          *)
CONSTANT Parts    \* the parts to look at

VARIABLE part

Absent == "absent"
=============================================================================
