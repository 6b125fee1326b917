------------------------------ MODULE MCDrain ------------------------------
(***************************************************************************)
(* Instances of Drain for TLC: more keys than elements, two CPUs.          *)
(***************************************************************************)
EXTENDS Drain

CONSTANTS c1, c2, e1, e2
=============================================================================
