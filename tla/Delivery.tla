------------------------------ MODULE Delivery ------------------------------
(***************************************************************************)
(* From the end of a traced call to the metrics.  emit_exit of             *)
(* profi.bpf.c counts the call in a per-CPU hash map and, for launches     *)
(* under --detailed-launches, submits an event to the ring buffer; the     *)
(* event loop of main.rs drains the maps on its aggregation tick, consumes *)
(* the ring when its file descriptor is readable, reports what was         *)
(* dropped, and adapts the period of the tick.                             *)
(*                                                                         *)
(* A behaviour follows one family of calls under one configuration, both   *)
(* chosen by Init.  A value of the map is the bag of the durations added   *)
(* to it: count and bucket_counts are functions of the bag.  A value is    *)
(* updated in one step here; Drain takes it apart by CPU and element.      *)
(***************************************************************************)
EXTENDS Histograms, BpfMaps

CONSTANTS
  Workloads,        \* what a behaviour follows: the family of calls, the command line,
                    \* the processes (with one thread each), the durations of the
                    \* calls, and a bound on their number
  Pids,             \* all processes
  Kernels,          \* host_fun of the kernels, positive numbers
  AggSize,          \* max_entries of the map the family is counted in
  RingSize,         \* events the ring EVENTS has room for
  ConsumeBudget,    \* RINGBUF_CONSUME_BUDGET
  OverflowTicks,    \* 3 in the code
  ClearTicks,       \* 30 in the code
  Ranges,           \* names of NVTX ranges
  NvtxSize,         \* max_entries of NVTX_STACK
  MaxDepth,         \* bound: nesting of NVTX ranges
  None

ASSUME ConstantsAssumption ==
  /\ Workloads \subseteq [family : {"cuda", "nccl", "launch"},
                          kernel_mode : {"off", "anonymous", "full"},
                          detailed_launches : BOOLEAN, enable_nvtx_tracing : BOOLEAN,
                          pids : SUBSET Pids, durations : SUBSET Nat, max_calls : Nat]
  /\ Kernels \subseteq Nat \ {0}
  /\ IsFiniteSet(Pids) /\ IsFiniteSet(Kernels)
  /\ \A w \in Workloads : IsFiniteSet(w.durations)
  /\ {AggSize, RingSize, NvtxSize, ConsumeBudget, OverflowTicks, ClearTicks}
       \subseteq Nat \ {0}
  /\ MaxDepth \in Nat
  /\ None \notin Ranges

VARIABLES
  workload,                             \* fixed by Init
  UPGRADED_PIDS, AGG,                   \* AGGREGATED, NCCL_AGG or LAUNCH_AGG
  EVENTS, readable,                     \* the ring, and the readiness of its descriptor
  DROPPED, LAUNCH_DROPPED,
  NVTX_STACK, ranges,                   \* the map, and the ranges that are really open
  keys, current,                        \* the drain: keys to visit, and the one read
  calls, bucket_total, kernel_histogram,
  dropped_events, launch_agg_drops, last_dropped_total, last_launch_dropped,
  consecutive_overflow_ticks, consecutive_clear_ticks, agg_interval_fast,
  local_term_stats, term_stats,
  made, lost, exported                  \* history: calls ended; calls lost without a
                                        \* counter; durations drained from the map

map     == <<AGG, keys, current, bucket_total, exported>>
ring    == <<EVENTS, readable, kernel_histogram>>
drops   == <<DROPPED, LAUNCH_DROPPED, lost>>
metrics == <<dropped_events, launch_agg_drops, last_dropped_total, last_launch_dropped>>
adapt   == <<consecutive_overflow_ticks, consecutive_clear_ticks, agg_interval_fast>>
nvtx    == <<NVTX_STACK, ranges>>
stats   == <<local_term_stats, term_stats>>
vars    == <<workload, UPGRADED_PIDS, map, ring, drops, metrics, adapt, nvtx, stats, calls, made>>

Keys == Pids \X (Kernels \cup {0})

Launches == workload.family = "launch"

durations == workload.durations

Empty == NoDurations(durations)

(* A record of the ring; open is the range that is really innermost, for   *)
(* the properties.                                                         *)
Event == [duration_ns : durations, nvtx_marker : Ranges \cup {None}, open : Ranges \cup {None}]

Init ==
  /\ workload \in Workloads
  /\ UPGRADED_PIDS = {}
  /\ AGG = [k \in Keys |-> Empty]
  /\ EVENTS = <<>> /\ readable = FALSE
  /\ DROPPED = 0 /\ LAUNCH_DROPPED = 0
  /\ NVTX_STACK = [p \in Pids |-> None] /\ ranges = [p \in Pids |-> <<>>]
  /\ keys = {} /\ current = <<>>
  /\ calls = 0 /\ kernel_histogram = Empty
  /\ bucket_total = bucket_counts(workload.family, Empty)
  /\ dropped_events = 0 /\ launch_agg_drops = 0
  /\ last_dropped_total = 0 /\ last_launch_dropped = 0
  /\ consecutive_overflow_ticks = 0 /\ consecutive_clear_ticks = 0
  /\ agg_interval_fast = FALSE
  /\ local_term_stats = NoStats /\ term_stats = NoStats
  /\ made = 0 /\ lost = 0 /\ exported = Empty
-----------------------------------------------------------------------------
(* The programs.                                                           *)

(* The name of the innermost open range that has one. *)
Innermost(opened) ==
  LET named == {i \in DOMAIN opened : opened[i] # None}
  IN  IF named = {} THEN None ELSE opened[Max(named)]

(* Mutant: the pop leaves the entry. *)
nvtx_range_pop_Keep(p) ==
  /\ ranges[p] # <<>>
  /\ ranges' = [ranges EXCEPT ![p] = SubSeq(@, 1, Len(@) - 1)]
  /\ UNCHANGED <<workload, UPGRADED_PIDS, map, ring, drops, metrics, adapt, NVTX_STACK, stats, calls,
                 made>>

nvtx_range_pop(p) ==
  /\ ranges[p] # <<>>
  /\ ranges' = [ranges EXCEPT ![p] = SubSeq(@, 1, Len(@) - 1)]
  /\ NVTX_STACK' = [NVTX_STACK EXCEPT ![p] = None]
  /\ UNCHANGED <<workload, UPGRADED_PIDS, map, ring, drops, metrics, adapt, stats, calls, made>>

(* A push without a name returns before it touches the map; a name that    *)
(* cannot be read is stored as the empty one, which is one of Ranges.      *)
nvtx_range_push(p, name) ==
  /\ workload.enable_nvtx_tracing /\ Len(ranges[p]) < MaxDepth
  /\ ranges' = [ranges EXCEPT ![p] = Append(@, name)]
  /\ IF name = None THEN UNCHANGED NVTX_STACK
     ELSE NVTX_STACK' \in LruPut(NVTX_STACK, None, NvtxSize, p, name)
  /\ UNCHANGED <<workload, UPGRADED_PIDS, map, ring, drops, metrics, adapt, stats, calls, made>>

(* Mutant: an event that finds the ring full is not counted. *)
Submit_Silent(p, d) ==
  /\ EVENTS' = IF Len(EVENTS) = RingSize THEN EVENTS
               ELSE Append(EVENTS, [duration_ns |-> d, nvtx_marker |-> NVTX_STACK[p],
                                    open |-> Innermost(ranges[p])])
  /\ readable' = (readable \/ EVENTS = <<>>)
  /\ UNCHANGED DROPPED

(* Mutant: the ring is larger than its map. *)
Submit_OneMore(p, d) ==
  \/ /\ Len(EVENTS) > RingSize
     /\ DROPPED' = DROPPED + 1
     /\ UNCHANGED <<EVENTS, readable>>
  \/ /\ Len(EVENTS) <= RingSize
     /\ EVENTS' = Append(EVENTS, [duration_ns |-> d, nvtx_marker |-> NVTX_STACK[p],
                                  open |-> Innermost(ranges[p])])
     /\ readable' = (readable \/ EVENTS = <<>>)
     /\ UNCHANGED DROPPED

(* bpf_ringbuf_reserve and bpf_ringbuf_submit with flags 0: the kernel     *)
(* wakes the consumer only when it has caught up with this very record.    *)
Submit(p, d) ==
  \/ /\ Len(EVENTS) = RingSize
     /\ DROPPED' = DROPPED + 1
     /\ UNCHANGED <<EVENTS, readable>>
  \/ /\ Len(EVENTS) < RingSize
     /\ EVENTS' = Append(EVENTS, [duration_ns |-> d, nvtx_marker |-> NVTX_STACK[p],
                                  open |-> Innermost(ranges[p])])
     /\ readable' = (readable \/ EVENTS = <<>>)
     /\ UNCHANGED DROPPED

(* A call of process p ends.  mode 1 is the anonymous aggregation. *)
emit_exit(p, addr, d) ==
  LET mode == IF workload.kernel_mode = "anonymous" /\ p \notin UPGRADED_PIDS THEN 1 ELSE 0
      key  == <<p, IF Launches /\ mode = 0 THEN addr ELSE 0>>
      fits == HasRoom(AGG, Empty, AggSize, key)
  IN  /\ made < workload.max_calls
      /\ made' = made + 1
      /\ AGG' = IF fits THEN [AGG EXCEPT ![key][d] = @ + 1] ELSE AGG
      /\ LAUNCH_DROPPED' = IF ~fits /\ Launches THEN LAUNCH_DROPPED + 1 ELSE LAUNCH_DROPPED
      /\ lost' = IF ~fits /\ ~Launches THEN lost + 1 ELSE lost
      /\ IF Launches /\ mode = 0 /\ workload.detailed_launches
         THEN Submit(p, d) ELSE UNCHANGED <<EVENTS, readable, DROPPED>>
      /\ UNCHANGED <<workload, UPGRADED_PIDS, keys, current, bucket_total, exported,
                     kernel_histogram, metrics, adapt, nvtx, stats, calls>>

(* A kernel registration enters the ring KERNEL_REGS, which shares the     *)
(* descriptor; full mode only.                                             *)
RegisterKernel ==
  /\ Launches /\ workload.kernel_mode = "full"
  /\ ~readable /\ readable' = TRUE
  /\ UNCHANGED <<workload, UPGRADED_PIDS, map, EVENTS, kernel_histogram, drops, metrics, adapt, nvtx,
                 stats, calls, made>>
-----------------------------------------------------------------------------
(* The event loop.  An arm runs to its end before select! takes another.   *)

AtSelect == keys = {} /\ current = <<>>

(* Mutant: last_dropped_total is not advanced. *)
ReportDrops_KeepLast ==
  /\ dropped_events' = dropped_events + saturating_sub(DROPPED, last_dropped_total)
  /\ launch_agg_drops' = launch_agg_drops + saturating_sub(LAUNCH_DROPPED, last_launch_dropped)
  /\ last_launch_dropped' = LAUNCH_DROPPED
  /\ UNCHANGED last_dropped_total

(* Mutant: the difference is taken to the total just stored. *)
ReportDrops_StoreFirst ==
  /\ last_dropped_total' = DROPPED
  /\ dropped_events' = dropped_events + saturating_sub(DROPPED, last_dropped_total')
  /\ launch_agg_drops' = launch_agg_drops + saturating_sub(LAUNCH_DROPPED, last_launch_dropped)
  /\ last_launch_dropped' = LAUNCH_DROPPED

ReportDrops ==
  /\ dropped_events' = dropped_events + saturating_sub(DROPPED, last_dropped_total)
  /\ launch_agg_drops' = launch_agg_drops + saturating_sub(LAUNCH_DROPPED, last_launch_dropped)
  /\ last_dropped_total' = DROPPED
  /\ last_launch_dropped' = LAUNCH_DROPPED

(* Mutant: a clear tick does not reset the overflow ticks. *)
AdaptInterval_NoReset ==
  LET overflow == DROPPED > last_dropped_total
  IN  /\ consecutive_overflow_ticks' =
           IF overflow THEN Min({consecutive_overflow_ticks + 1, OverflowTicks})
           ELSE consecutive_overflow_ticks
      /\ consecutive_clear_ticks' =
           IF overflow THEN 0 ELSE Min({consecutive_clear_ticks + 1, ClearTicks})
      /\ agg_interval_fast' = (consecutive_overflow_ticks' >= OverflowTicks)

(* The counters of ticks are only compared with their thresholds, so they  *)
(* stop there.                                                             *)
AdaptInterval ==
  LET overflow == DROPPED > last_dropped_total
  IN  /\ consecutive_overflow_ticks' =
           IF overflow THEN Min({consecutive_overflow_ticks + 1, OverflowTicks}) ELSE 0
      /\ consecutive_clear_ticks' =
           IF overflow THEN 0 ELSE Min({consecutive_clear_ticks + 1, ClearTicks})
      /\ agg_interval_fast' = IF overflow
                              THEN agg_interval_fast \/ consecutive_overflow_ticks' >= OverflowTicks
                              ELSE agg_interval_fast /\ consecutive_clear_ticks' < ClearTicks

(* The aggregation tick up to the keys of the map; what it copies to       *)
(* UPGRADED_PIDS is the business of Enricher.                              *)
AggTick ==
  /\ AtSelect
  /\ UPGRADED_PIDS' \in SUBSET workload.pids
  /\ ReportDrops
  /\ AdaptInterval
  /\ keys' = IF Launches /\ workload.detailed_launches THEN {} ELSE Present(AGG, Empty)
  /\ UNCHANGED <<workload, AGG, current, bucket_total, exported, ring, drops, nvtx, stats, calls,
                 made>>

(* lookup_percpu and the closure of the family. *)
ReadKey(k) ==
  /\ k \in keys /\ current = <<>>
  /\ current' = <<k, AGG[k]>>
  /\ keys' = keys \ {k}
  /\ calls' = calls + Size(AGG[k])
  /\ exported' = Plus(exported, AGG[k])
  /\ bucket_total' = IF Launches /\ workload.kernel_mode # "full" THEN bucket_total
                     ELSE inc_cumulative_bucket_counters(bucket_total,
                                                         bucket_counts(workload.family, AGG[k]))
  /\ local_term_stats' = IF workload.family = "cuda"
                         THEN [local_term_stats EXCEPT !.count = @ + Size(AGG[k])]
                         ELSE local_term_stats
  /\ UNCHANGED <<workload, UPGRADED_PIDS, AGG, ring, drops, metrics, adapt, nvtx, term_stats, made>>

(* Mutant: the key is not deleted. *)
DeleteKey_Keep ==
  /\ current # <<>>
  /\ current' = <<>>
  /\ UNCHANGED <<workload, UPGRADED_PIDS, AGG, keys, bucket_total, exported, ring, drops, metrics,
                 adapt, nvtx, stats, calls, made>>

(* map.delete: what was added since the read goes with the key. *)
DeleteKey ==
  /\ current # <<>>
  /\ AGG' = [AGG EXCEPT ![current[1]] = Empty]
  /\ lost' = lost + Size(Minus(AGG[current[1]], current[2]))
  /\ current' = <<>>
  /\ UNCHANGED <<workload, UPGRADED_PIDS, keys, bucket_total, exported, ring, DROPPED,
                 LAUNCH_DROPPED, metrics, adapt, nvtx, stats, calls, made>>

(* consume_raw_n, the events, and clear_ready, which takes back only the   *)
(* readiness this arm was woken for.                                       *)
RingArm ==
  LET n     == Min({Len(EVENTS), ConsumeBudget})
      batch == SubSeq(EVENTS, 1, n)
  IN  /\ AtSelect /\ readable
      /\ EVENTS' = SubSeq(EVENTS, n + 1, Len(EVENTS))
      /\ readable' = FALSE
      /\ calls' = calls + n
      /\ kernel_histogram' =
           IF workload.kernel_mode # "full" THEN kernel_histogram
           ELSE [d \in durations |-> kernel_histogram[d] +
                   Cardinality({i \in 1 .. n : batch[i].duration_ns = d})]
      /\ local_term_stats' =
           record_all(local_term_stats, [i \in 1 .. n |-> batch[i].duration_ns])
      /\ UNCHANGED <<workload, UPGRADED_PIDS, map, drops, metrics, adapt, nvtx, term_stats, made>>

(* The end of the gc arm, with --report-interval. *)
MergeReport ==
  /\ AtSelect /\ local_term_stats.count > 0
  /\ term_stats' = merge(term_stats, local_term_stats)
  /\ local_term_stats' = NoStats
  /\ UNCHANGED <<workload, UPGRADED_PIDS, map, ring, drops, metrics, adapt, nvtx, calls, made>>

Programs ==
  \/ \E p \in workload.pids :
       \/ \E addr \in Kernels, d \in durations : emit_exit(p, addr, d)
       \/ \E name \in Ranges \cup {None} : nvtx_range_push(p, name)
       \/ nvtx_range_pop(p)
  \/ RegisterKernel

Next ==
  \/ Programs
  \/ AggTick
  \/ \E k \in Keys : ReadKey(k)
  \/ DeleteKey
  \/ RingArm
  \/ MergeReport

(* The interval fires again and again, select! polls the ring, and an arm  *)
(* that started ends.  Nothing is assumed of the programs.                 *)
Fairness ==
  /\ WF_vars(AggTick) /\ WF_vars(\E k \in Keys : ReadKey(k)) /\ WF_vars(DeleteKey)
  /\ WF_vars(RingArm)

Spec == Init /\ [][Next]_vars /\ Fairness
-----------------------------------------------------------------------------
(* The maps, the ring, the metrics and the drain have their types. *)
TypeOK ==
  /\ workload \in Workloads
  /\ UPGRADED_PIDS \subseteq Pids
  /\ AGG \in [Keys -> [durations -> 0 .. workload.max_calls]]
  /\ Cardinality(Present(AGG, Empty)) <= AggSize
  /\ EVENTS \in Seq(Event) /\ Len(EVENTS) <= RingSize
  /\ readable \in BOOLEAN /\ agg_interval_fast \in BOOLEAN
  /\ NVTX_STACK \in [Pids -> Ranges \cup {None}]
  /\ ranges \in [Pids -> Seq(Ranges \cup {None})]
  /\ keys \subseteq Keys
  /\ current # <<>> => current \in Keys \X [durations -> 0 .. workload.max_calls]
  /\ {DROPPED, LAUNCH_DROPPED, dropped_events, launch_agg_drops, last_dropped_total,
      last_launch_dropped, consecutive_overflow_ticks, consecutive_clear_ticks,
      calls, made, lost} \subseteq Nat
  /\ {kernel_histogram, exported} \subseteq [durations -> Nat]
  /\ bucket_total \in [1 .. Len(BoundsOf(workload.family)) + 1 -> Nat]
  /\ {local_term_stats, term_stats} \subseteq TermStats

DetailedLaunches == Launches /\ workload.detailed_launches

(* What is on its way to the metrics: events in the ring, or counts in a   *)
(* map that is drained, without those already read.                        *)
Held ==
  IF DetailedLaunches THEN Len(EVENTS)
  ELSE Sum([k \in Keys |-> Size(AGG[k])]) -
       (IF current = <<>> THEN 0 ELSE Size(current[2]))

(* Every call that emit_exit saw is exported, on its way, or counted in    *)
(* the drop counter of the path it took; only a full AGGREGATED or         *)
(* NCCL_AGG and an update between drain_percpu_hash's read and its delete  *)
(* lose calls silently.  Launches of processes in anonymous mode under     *)
(* --detailed-launches are the exception: no path delivers them.           *)
Accounted ==
  ~(DetailedLaunches /\ workload.kernel_mode = "anonymous") =>
  made = calls + Held + lost + (CASE DetailedLaunches -> DROPPED
                                  [] Launches /\ ~DetailedLaunches -> LAUNCH_DROPPED
                                  [] OTHER -> 0)

(* The le counters main.rs derives from the buckets of profi_events.h are  *)
(* those of a Prometheus histogram that observed every exported duration:  *)
(* the counter of a bound counts the durations up to and including it.     *)
LeExact ==
  (Launches => workload.kernel_mode = "full") =>
  LET bounds == BoundsOf(workload.family)
      reference == PrometheusHistogram(bounds, exported)
  IN  bucket_total = Append(reference.cumulative_count, reference.sample_count)

(* The OTLP point histogram_to_otlp makes of the histogram the ring arm    *)
(* observes has the buckets the eBPF programs would have counted: the two  *)
(* paths of a launch put a duration in the same bucket.                    *)
OtlpExact ==
  Launches =>
    histogram_to_otlp(PrometheusHistogram(KERNEL_BUCKET_BOUNDS_NS, kernel_histogram)) =
      bucket_counts("launch", kernel_histogram)

(* The calls that reach the report: those drained from AGGREGATED, and the *)
(* events of the ring.  The drains of LAUNCH_AGG and NCCL_AGG leave        *)
(* local_term_stats alone.                                                 *)
Reported == IF workload.family = "cuda" \/ DetailedLaunches THEN calls ELSE 0

(* However ring batches, drains and gc ticks alternate, TermStats::record  *)
(* and merge give the report the count of the calls that reach it, and, of *)
(* the events of the ring, the least and the greatest duration.  A row of  *)
(* aggregated calls has no extremes: its drain adds to the count alone, so *)
(* its minimum and its maximum stay 0, and launches and NCCL calls that    *)
(* are aggregated are not in the report at all.                            *)
ReportExact ==
  LET total == merge(term_stats, local_term_stats)
      seen  == {d \in durations : kernel_histogram[d] > 0}
  IN  /\ total.count = Reported
      /\ ~DetailedLaunches => total.min_ns = 0 /\ total.max_ns = 0
      /\ seen # {} => total.min_ns = Min(seen) /\ total.max_ns = Max(seen)

(* The marker nvtx_range_push and nvtx_range_pop leave for emit_exit is    *)
(* the name of the innermost named range that was open when the launch     *)
(* ended, or none: a launch is never attributed to a range that is closed. *)
PhaseOpen ==
  \A i \in DOMAIN EVENTS : EVENTS[i].nvtx_marker \in {None, EVENTS[i].open}

(* The drop metrics that ReportDrops counts up never exceed what the       *)
(* programs dropped: no drop is reported twice.                            *)
DropsOnce == dropped_events <= DROPPED /\ launch_agg_drops <= LAUNCH_DROPPED

(* In the end the drop metrics that ReportDrops counts up equal what the   *)
(* programs dropped: no drop stays unreported.                             *)
DropsReported == <>[](dropped_events = DROPPED /\ launch_agg_drops = LAUNCH_DROPPED)

(* When events are no longer dropped the tick returns to its normal        *)
(* period, however overflow and clear ticks alternated before.             *)
IntervalRestored == <>[](DROPPED = last_dropped_total) => <>[]~agg_interval_fast

L == INSTANCE Ledger WITH counted <- calls, held <- Held

(* Delivery implements Ledger: through the map or through the ring, across *)
(* promotions of the process, no call is counted twice or before it ended, *)
(* no counter goes back, and nothing stays on its way for ever.            *)
CountedAtMostOnce == L!Spec

(* docs/METRICS_REFERENCE.md: --detailed-launches emits "per-launch        *)
(* ringbuf events for exact launch histograms".  In full mode every launch *)
(* that emit_exit did not drop reaches the kernel histogram of the ring    *)
(* arm, once launches pause.                                               *)
EveryLaunchObserved ==
  DetailedLaunches /\ workload.kernel_mode = "full" =>
    <>[](made = Size(kernel_histogram) + DROPPED)
=============================================================================
