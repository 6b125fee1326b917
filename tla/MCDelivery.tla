----------------------------- MODULE MCDelivery -----------------------------
(***************************************************************************)
(* Instances of Delivery for TLC.                                          *)
(***************************************************************************)
EXTENDS Delivery

CONSTANTS prefill, decode

W(family, mode, detailed, tracing, ps, ds, max) ==
  [family |-> family, kernel_mode |-> mode, detailed_launches |-> detailed,
   enable_nvtx_tracing |-> tracing, pids |-> ps, durations |-> ds, max_calls |-> max]

(* Two durations on the two sides of a bound, or of zero. *)
DurationPairs(family) == {{b, b + 1} : b \in {0} \cup Range(BoundsOf(family))}

(* Two calls around each bound of each histogram, on either path. *)
HistogramWorkloads ==
  UNION {{W(f, "full", FALSE, FALSE, {1}, ds, 2) : ds \in DurationPairs(f)} :
           f \in {"cuda", "nccl", "launch"}}
  \cup {W("launch", "full", TRUE, FALSE, {1}, ds, 2) : ds \in DurationPairs("launch")}

(* Launches of processes that are promoted and demoted. *)
PathWorkloads ==
  {W("launch", mode, FALSE, FALSE, {1}, {1000}, 4) : mode \in {"off", "anonymous"}}
  \cup {W("launch", "anonymous", detailed, FALSE, {1, 2}, {1000}, 3) : detailed \in BOOLEAN}

(* Enough launches to drop some on three ticks, and launches in ranges. *)
RingWorkloads ==
  {W("launch", "full", TRUE, FALSE, {1}, {1000}, 5), W("launch", "full", TRUE, TRUE, {1}, {1000}, 2)}

AllWorkloads == HistogramWorkloads \cup PathWorkloads \cup RingWorkloads

FullDetailed == {W("launch", "full", TRUE, FALSE, {1}, {1000}, 3)}
=============================================================================
