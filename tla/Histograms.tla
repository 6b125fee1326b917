----------------------------- MODULE Histograms -----------------------------
(***************************************************************************)
(* The latency histograms and the statistics of the terminal report: the   *)
(* bucket functions of profi_events.h, the cumulative counters main.rs     *)
(* makes of bucket counts, the conversion of a Prometheus histogram in     *)
(* otlp.rs and TermStats of report.rs.  Durations are nanoseconds.         *)
(*                                                                         *)
(* A collection of durations is a bag, a function from durations to Nat.   *)
(* Bucket i of the code is bucket i + 1 here; the last one is +Inf.        *)
(***************************************************************************)
EXTENDS Integers, Sequences, FiniteSetsExt, Sums

NCCL_BUCKET_BOUNDS_NS ==
  <<10000, 50000, 100000, 500000, 1000000, 5000000, 10000000, 50000000, 100000000,
    500000000, 1000000000>>

CUDA_BUCKET_BOUNDS_NS ==
  <<1000, 5000, 10000, 50000, 100000, 500000, 1000000, 5000000, 10000000, 50000000,
    100000000, 500000000, 1000000000>>

KERNEL_BUCKET_BOUNDS_NS ==
  <<1000, 5000, 10000, 50000, 100000, 500000, 1000000, 10000000>>

(* The table of the family an event belongs to. *)
BoundsOf(family) ==
  CASE family = "cuda"   -> CUDA_BUCKET_BOUNDS_NS
    [] family = "nccl"   -> NCCL_BUCKET_BOUNDS_NS
    [] family = "launch" -> KERNEL_BUCKET_BOUNDS_NS

FirstBound(bounds, d) ==
  CHOOSE i \in 1 .. Len(bounds) + 1 : /\ \A j \in 1 .. i - 1 : d > bounds[j]
                                     /\ i <= Len(bounds) => d <= bounds[i]

profi_nccl_bucket_idx(duration_ns) == FirstBound(NCCL_BUCKET_BOUNDS_NS, duration_ns)

profi_cuda_bucket_idx(duration_ns) == FirstBound(CUDA_BUCKET_BOUNDS_NS, duration_ns)

(* Mutant: the upper bounds are exclusive. *)
profi_kernel_bucket_idx_Exclusive(duration_ns) == FirstBound(KERNEL_BUCKET_BOUNDS_NS, duration_ns + 1)

profi_kernel_bucket_idx(duration_ns) == FirstBound(KERNEL_BUCKET_BOUNDS_NS, duration_ns)

BucketIdxOf(family, d) ==
  CASE family = "cuda"   -> profi_cuda_bucket_idx(d)
    [] family = "nccl"   -> profi_nccl_bucket_idx(d)
    [] family = "launch" -> profi_kernel_bucket_idx(d)
-----------------------------------------------------------------------------
(* Bags of durations.                                                      *)

NoDurations(durations) == [d \in durations |-> 0]

(* How many durations of a bag are in the set D. *)
CountIn(bag, D) == Sum([d \in D |-> bag[d]])

Size(bag) == Sum(bag)

Plus(a, b) == [d \in DOMAIN a |-> a[d] + b[d]]

Minus(a, b) == [d \in DOMAIN a |-> a[d] - b[d]]

(* The bucket_counts that emit_exit has added up for a bag of durations. *)
bucket_counts(family, bag) ==
  [i \in 1 .. Len(BoundsOf(family)) + 1 |->
     CountIn(bag, {d \in DOMAIN bag : BucketIdxOf(family, d) = i})]
-----------------------------------------------------------------------------
(* Cumulative counters.                                                    *)

Cumulative(counts) ==
  [i \in DOMAIN counts |-> Sum([j \in 1 .. i |-> counts[j]])]

inc_cumulative_bucket_counters(metric, counts) ==
  [i \in DOMAIN counts |-> metric[i] + Cumulative(counts)[i]]
-----------------------------------------------------------------------------
(* A Prometheus histogram that observed a bag, as the library exposes it:  *)
(* cumulative counts for the finite bounds, and the number of samples.     *)
PrometheusHistogram(bounds, bag) ==
  [cumulative_count |-> [i \in DOMAIN bounds |-> CountIn(bag, {d \in DOMAIN bag : d <= bounds[i]})],
   sample_count     |-> Size(bag)]

saturating_sub(a, b) == IF a > b THEN a - b ELSE 0

(* Mutant: prev is not advanced. *)
histogram_to_otlp_NoPrev(h) ==
  LET finite == h.cumulative_count
  IN  Append(finite, saturating_sub(h.sample_count, finite[Len(finite)]))

(* The bucket_counts of the OTLP data point, one more than there are bounds. *)
histogram_to_otlp(h) ==
  LET finite  == h.cumulative_count
      prev(i) == IF i = 1 THEN 0 ELSE finite[i - 1]
  IN  Append([i \in DOMAIN finite |-> saturating_sub(finite[i], prev(i))],
             saturating_sub(h.sample_count, prev(Len(finite) + 1)))
-----------------------------------------------------------------------------
(* TermStats; the sums of durations and of sizes are left out.             *)

TermStats == [count : Nat, min_ns : Nat, max_ns : Nat]

NoStats == [count |-> 0, min_ns |-> 0, max_ns |-> 0]

record(s, dur_ns) ==
  [count  |-> s.count + 1,
   min_ns |-> IF s.count = 0 \/ dur_ns < s.min_ns THEN dur_ns ELSE s.min_ns,
   max_ns |-> IF dur_ns > s.max_ns THEN dur_ns ELSE s.max_ns]

(* The durations of a batch, one after the other. *)
record_all(s, durs) ==
  LET after[i \in 0 .. Len(durs)] == IF i = 0 THEN s ELSE record(after[i - 1], durs[i])
  IN  after[Len(durs)]

(* Mutant: the minimum of empty statistics counts as a minimum. *)
merge_ZeroMin(s, other) ==
  [count  |-> s.count + other.count,
   min_ns |-> IF other.min_ns < s.min_ns THEN other.min_ns ELSE s.min_ns,
   max_ns |-> IF other.max_ns > s.max_ns THEN other.max_ns ELSE s.max_ns]

(* The counts are equal after the addition when self was empty. *)
merge(s, other) ==
  LET count == s.count + other.count
  IN  IF other.count = 0 THEN s
      ELSE [count  |-> count,
            min_ns |-> IF count = other.count \/ other.min_ns < s.min_ns
                       THEN other.min_ns ELSE s.min_ns,
            max_ns |-> IF other.max_ns > s.max_ns THEN other.max_ns ELSE s.max_ns]
=============================================================================
