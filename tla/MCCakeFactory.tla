--------------------------- MODULE MCCakeFactory ---------------------------
(* Instances of CakeFactory for TLC. *)
EXTENDS CakeFactory

CONSTANTS vanilla, chocolate
=============================================================================
