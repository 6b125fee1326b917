---------------------------- MODULE HandleCache ----------------------------
(***************************************************************************)
(* MetricHandleCache of cache.rs, with the metric series its handles write *)
(* to, as the event loop of main.rs drives it: invalidate_pids at the head *)
(* of the ring arm, get_or_create and touch for every event of the ring    *)
(* and every drained key, gc on its timer.                                 *)
(*                                                                         *)
(* A key keeps what the caps and the labels depend on: the operation (one  *)
(* of each family: a launch, another CUDA call, an NCCL call), the         *)
(* process, the stream and the kernel handle.  Of the labels of a process  *)
(* only its pod is kept.  Four kinds of series stand for all of them:      *)
(* calls, which carries the pid; duration, a histogram the handle holds;   *)
(* and the counters that a drain looks up by label, count (for the CUDA    *)
(* and for the NCCL family) and kernel_count, which carry no pid.          *)
(***************************************************************************)
EXTENDS Integers, FiniteSets

CONSTANTS
  Pids,
  Pods,               \* pod label of a process
  PodsOf,             \* the pods each process may be labelled with in its life
  Ops,                \* the operations called
  detailed_launches,  \* launches come through the ring, not through LAUNCH_AGG
  Streams,            \* CUDA streams, positive; 0 is the default stream
  Kernels,            \* kernel handles, positive; 0 is "aggregated"
  max_time_series,
  max_streams_per_pid,
  max_kernels_per_pid

ASSUME ConstantsAssumption ==
  /\ IsFiniteSet(Pids) /\ IsFiniteSet(Streams) /\ IsFiniteSet(Kernels)
  /\ Ops \subseteq {"cuda", "launch", "nccl"}
  /\ detailed_launches \in BOOLEAN
  /\ Streams \subseteq Nat \ {0} /\ Kernels \subseteq Nat \ {0}
  /\ PodsOf \in [Pids -> SUBSET Pods] /\ \A p \in Pids : PodsOf[p] # {}
  /\ max_time_series \in Nat \ {0}
  /\ max_streams_per_pid \in Nat /\ max_kernels_per_pid \in Nat

(* Only a launch has a kernel in its key. *)
MetricKey ==
  {k \in [op : Ops, pid : Pids, stream : Streams \cup {0}, addr : Kernels \cup {0}] :
     k.op # "launch" => k.addr = 0}

VARIABLES
  handles,            \* cached key |-> the pod its handle is labelled with
  streams_per_pid,
  kernels_per_pid,
  last_seen,          \* "never", "fresh", or "stale" once older than stale_after
  registry,           \* the registered series
  podOf,              \* the pod the enricher has for a process
  changed_pids,       \* relabelled processes whose handles are not yet invalidated
  ring_arm            \* the event loop is in the ring arm

cache == <<handles, streams_per_pid, kernels_per_pid, last_seen, registry>>
world == <<podOf, changed_pids>>
vars == <<cache, world, ring_arm>>

cached == DOMAIN handles

CallsOf_NoPid(k, pod) ==
  <<"calls", k.op, pod, IF k.op = "nccl" THEN 0 ELSE k.stream>>

CallsOf(k, pod) ==
  <<"calls", k.op, k.pid, pod, IF k.op = "nccl" THEN 0 ELSE k.stream>>

DurationOf(k, pod) == <<"duration", k.op, pod>>

(* The counters of op's family, under the labels of the handle of k. *)
CountOf(op, k, pod) ==
  <<IF op = "nccl" THEN "nccl_count" ELSE "cuda_count", k.op, pod>>

KernelCountOf(k, pod) == <<"kernel_count", k.addr, pod>>

(* The series remove_handle_metrics removes with a handle. *)
SeriesOf(k, pod) ==
  {CallsOf(k, pod), DurationOf(k, pod), CountOf(k.op, k, pod)}
    \cup (IF k.op = "launch" THEN {KernelCountOf(k, pod)} ELSE {})

(* The series a drained key of op registers through the handle of k. *)
DrainedOf(op, k, pod) ==
  IF op # "launch"        THEN {CountOf(op, k, pod)}
  ELSE IF k.op = "launch" THEN {KernelCountOf(k, pod)}
  ELSE {}

Init ==
  /\ handles = [k \in {} |-> {}]
  /\ streams_per_pid = [p \in Pids |-> {}]
  /\ kernels_per_pid = [p \in Pids |-> {}]
  /\ last_seen = [p \in Pids |-> "never"]
  /\ registry = {}
  /\ podOf \in {f \in [Pids -> Pods] : \A p \in Pids : f[p] \in PodsOf[p]}
  /\ changed_pids = {}
  /\ ring_arm = FALSE
-----------------------------------------------------------------------------
(* get_or_create.                                                          *)

(* A value beyond the cap of its process becomes 0. *)
Admit_Late(known, x, cap) ==
  IF x \in known \cup {0} \/ Cardinality(known) <= cap THEN x ELSE 0

Admit(known, x, cap) ==
  IF x \in known \cup {0} \/ Cardinality(known) < cap THEN x ELSE 0

(* The key the handle is cached under. *)
Collapse(k) ==
  [k EXCEPT !.stream = Admit(streams_per_pid[k.pid], k.stream, max_streams_per_pid),
            !.addr = Admit(kernels_per_pid[k.pid], k.addr, max_kernels_per_pid)]

Remember(k) ==
  /\ streams_per_pid' = [streams_per_pid EXCEPT ![k.pid] = @ \cup ({k.stream} \ {0})]
  /\ kernels_per_pid' = [kernels_per_pid EXCEPT ![k.pid] = @ \cup ({k.addr} \ {0})]

HandlesOf(ps) == {k \in cached : k.pid \in ps}

(* A new key at the global cap gets some handle of its process, whatever   *)
(* that one counts: the order of the hash map decides which.               *)
Fallbacks_Late(k) ==
  IF k \notin cached /\ Cardinality(cached) > max_time_series
  THEN HandlesOf({k.pid})
  ELSE {}

Fallbacks(k) ==
  IF k \notin cached /\ Cardinality(cached) >= max_time_series
  THEN HandlesOf({k.pid})
  ELSE {}

(* The keys whose handle get_or_create may return for k; the handle of k   *)
(* itself is created if it is not there.                                   *)
Returned(k) == IF Fallbacks(k) = {} THEN {k} ELSE Fallbacks(k)

(* One event of the ring, or one drained key: get_or_create, the updates   *)
(* through the handle it returns, touch.                                   *)
Process(event, drained) ==
  LET k == Collapse(event)
  IN  /\ Remember(k)
      /\ \E u \in Returned(k) :
           LET pod == IF u \in cached THEN handles[u] ELSE podOf[u.pid]
               new == IF u \in cached THEN {} ELSE {CallsOf(u, pod), DurationOf(u, pod)}
           IN  /\ handles' = [j \in cached \cup {u} |-> IF j = u THEN pod ELSE handles[j]]
               /\ registry' = registry \cup new
                                       \cup (IF drained THEN DrainedOf(event.op, u, pod) ELSE {})
      /\ last_seen' = [last_seen EXCEPT ![k.pid] = "fresh"]

(* Removes the handles of ps and, by remove_handle_metrics, their series. *)
RemoveHandles_CurrentLabels(ps) ==
  LET kept == cached \ HandlesOf(ps)
  IN  /\ handles' = [k \in kept |-> handles[k]]
      /\ registry' = registry \ UNION {SeriesOf(k, podOf[k.pid]) : k \in HandlesOf(ps)}

RemoveHandles(ps) ==
  LET kept == cached \ HandlesOf(ps)
  IN  /\ handles' = [k \in kept |-> handles[k]]
      /\ registry' = registry \ UNION {SeriesOf(k, handles[k]) : k \in HandlesOf(ps)}
-----------------------------------------------------------------------------
(* The ring buffer is readable: the loop enters the ring arm, and first    *)
(* drops the handles of the processes the watcher relabelled.              *)
invalidate_pids ==
  /\ ~ring_arm
  /\ ring_arm' = TRUE
  /\ RemoveHandles(changed_pids)
  /\ changed_pids' = {}
  /\ UNCHANGED <<streams_per_pid, kernels_per_pid, last_seen, podOf>>

(* The ring carries the launches in detail and the events of               *)
(* cuModuleGetFunction, which count as other CUDA calls.                   *)
RingEvent(event) ==
  /\ ring_arm
  /\ event.op = "cuda" \/ (event.op = "launch" /\ detailed_launches)
  /\ Process(event, FALSE)
  /\ UNCHANGED <<world, ring_arm>>

ClearReady ==
  /\ ring_arm
  /\ ring_arm' = FALSE
  /\ UNCHANGED <<cache, world>>

(* The drains of the aggregation arm, one key at a time. *)
DrainKey(key) ==
  /\ ~ring_arm
  /\ key.op = "launch" => ~detailed_launches
  /\ Process(key, TRUE)
  /\ UNCHANGED <<world, ring_arm>>

(* The gc arm forgets every process not seen for stale_after. *)
gc_KeepHandles ==
  LET stale_pids == {p \in Pids : last_seen[p] = "stale"}
  IN  /\ ~ring_arm
      /\ stale_pids # {}
      /\ last_seen' = [p \in Pids |-> IF p \in stale_pids THEN "never" ELSE last_seen[p]]
      /\ streams_per_pid' = [p \in Pids |-> IF p \in stale_pids THEN {} ELSE streams_per_pid[p]]
      /\ kernels_per_pid' = [p \in Pids |-> IF p \in stale_pids THEN {} ELSE kernels_per_pid[p]]
      /\ UNCHANGED <<handles, registry, world, ring_arm>>

gc ==
  LET stale_pids == {p \in Pids : last_seen[p] = "stale"}
  IN  /\ ~ring_arm
      /\ stale_pids # {}
      /\ RemoveHandles(stale_pids)
      /\ last_seen' = [p \in Pids |-> IF p \in stale_pids THEN "never" ELSE last_seen[p]]
      /\ streams_per_pid' = [p \in Pids |-> IF p \in stale_pids THEN {} ELSE streams_per_pid[p]]
      /\ kernels_per_pid' = [p \in Pids |-> IF p \in stale_pids THEN {} ELSE kernels_per_pid[p]]
      /\ UNCHANGED <<world, ring_arm>>

(* A process is quiet for longer than stale_after. *)
Age(p) ==
  /\ last_seen[p] = "fresh"
  /\ last_seen' = [last_seen EXCEPT ![p] = "stale"]
  /\ UNCHANGED <<handles, streams_per_pid, kernels_per_pid, registry, world, ring_arm>>

(* The watcher thread learns another pod for a process and reports it. *)
Relabel(p) ==
  /\ \E pod \in PodsOf[p] \ {podOf[p]} : podOf' = [podOf EXCEPT ![p] = pod]
  /\ changed_pids' = changed_pids \cup {p}
  /\ UNCHANGED <<cache, ring_arm>>

Next ==
  \/ invalidate_pids
  \/ \E k \in MetricKey : RingEvent(k) \/ DrainKey(k)
  \/ ClearReady
  \/ gc
  \/ \E p \in Pids : Age(p) \/ Relabel(p)

Spec == Init /\ [][Next]_vars
-----------------------------------------------------------------------------
(* The cache and the labels have their types. *)
TypeOK ==
  /\ cached \subseteq MetricKey /\ handles \in [cached -> Pods]
  /\ streams_per_pid \in [Pids -> SUBSET Streams]
  /\ kernels_per_pid \in [Pids -> SUBSET Kernels]
  /\ last_seen \in [Pids -> {"never", "fresh", "stale"}]
  /\ \A k \in cached : last_seen[k.pid] # "never"
  /\ podOf \in [Pids -> Pods]
  /\ changed_pids \subseteq Pids
  /\ ring_arm \in BOOLEAN

(* The per-process caps bound the labels that are in use: every stream and *)
(* kernel a cached handle is labelled with was admitted by get_or_create   *)
(* and is still remembered, and no more than the cap are.  Evicting a      *)
(* process and seeing it again does not get around the cap.                *)
WithinCaps ==
  /\ \A k \in cached : /\ k.stream \in streams_per_pid[k.pid] \cup {0}
                       /\ k.addr \in kernels_per_pid[k.pid] \cup {0}
  /\ \A p \in Pids : /\ Cardinality(streams_per_pid[p]) <= max_streams_per_pid
                     /\ Cardinality(kernels_per_pid[p]) <= max_kernels_per_pid

CachedPids == {k.pid : k \in cached}

(* The global cap can be exceeded, but only by one handle for each process *)
(* but the first: at the cap get_or_create creates a handle only for a     *)
(* process that has none, and eviction removes all handles of a process.   *)
HandlesBounded ==
  cached # {} => Cardinality(cached) <= max_time_series + Cardinality(CachedPids) - 1

(* The family of a drained counter fits the operation it is labelled with. *)
Fits(s) ==
  /\ s[1] = "nccl_count" => s[2] = "nccl"
  /\ s[1] = "cuda_count" => s[2] # "nccl"

(* A series whose family fits its operation is never left behind: every    *)
(* such series that is registered is removed with some cached handle, so   *)
(* invalidate_pids and gc leave none without an owner.                     *)
NoOrphanSeries ==
  \A s \in registry : Fits(s) => \E k \in cached : s \in SeriesOf(k, handles[k])

(* What a cached handle counts is exported per process: its calls series   *)
(* is registered, whichever processes were evicted or relabelled since.    *)
(* The processes of a pod share durations and drained counters, and        *)
(* remove_handle_metrics for one of them takes those from the others; the  *)
(* pid label keeps it from taking their calls.                             *)
CallsExported ==
  \A k \in cached : CallsOf(k, handles[k]) \in registry

CountersOf(k, pod) == SeriesOf(k, pod) \ {DurationOf(k, pod)}

(* counter_family_to_otlp of otlp.rs: a counter is "process-cumulative     *)
(* monotonic", from a start time that is the same for every export.  So    *)
(* remove_handle_metrics does not remove a counter of a handle that stays  *)
(* cached: the next drain through it would start the counter from zero.    *)
CountersCumulative ==
  [][\A k \in cached \cap cached' : CountersOf(k, handles[k]) \cap registry \subseteq registry']_vars
=============================================================================
