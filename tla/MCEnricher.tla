----------------------------- MODULE MCEnricher -----------------------------
(***************************************************************************)
(* Instances of Enricher for TLC.                                          *)
(***************************************************************************)
EXTENDS Enricher, TLC

CONSTANTS p1, c1, podA

Single == p1 :> c1

SinglePod == c1 :> podA
=============================================================================
