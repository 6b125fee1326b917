------------------------------- MODULE Ledger -------------------------------
(***************************************************************************)
(* What a path from the eBPF programs to the metrics promises: every event *)
(* is counted at most once and never before it happened, counters never go *)
(* back, and an event that has not been counted is held somewhere until it *)
(* is counted or lost.  What is lost is not made good later.  The abstract *)
(* specification of Drain and of Delivery.                                 *)
(***************************************************************************)
EXTENDS Naturals

VARIABLES
  made,             \* events recorded by the programs
  counted,          \* events added to the metrics
  held              \* events on their way

vars == <<made, counted, held>>

Init == made = 0 /\ counted = 0 /\ held = 0

(* An event is recorded; a full buffer may lose it at once. *)
Make ==
  /\ made' = made + 1
  /\ counted' = counted
  /\ held' \in held .. held + 1

(* Held events are counted, each once. *)
Count ==
  /\ made' = made
  /\ counted' > counted
  /\ counted' + held' = counted + held

(* Held events are lost. *)
Lose ==
  /\ made' = made
  /\ counted' = counted
  /\ held' < held

Next == Make \/ Count \/ Lose

(* Once no more events are recorded, nothing stays held. *)
EventuallySettled == []<><<Make>>_vars \/ <>[](held = 0)

Steps == Init /\ [][Next]_vars

Spec == Steps /\ EventuallySettled
=============================================================================
