-------------------------------- MODULE MCLog --------------------------------
(* Small instances of Log. *)
EXTENDS Log

CONSTANTS p1, p2, b1, b2, b3
=============================================================================
