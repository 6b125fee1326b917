-------------------------------- MODULE Sums --------------------------------
(***************************************************************************)
(* Sums of counters.  A counter with the value n stands for n units, so    *)
(* the sum of a table of counters is the number of its units; in this form *)
(* the laws of finite sets give the laws of sums.                          *)
(***************************************************************************)
EXTENDS Integers, FiniteSets

(* The units of the counters f[x]: f[x] of them for each x. *)
Units(f) == UNION {{x} \X (1 .. f[x]) : x \in DOMAIN f}

(* The sum of f[x] over the domain of f. *)
Sum(f) == Cardinality(Units(f))
=============================================================================
