------------------------------ MODULE Enricher ------------------------------
(***************************************************************************)
(* Enricher of enrichment.rs between its two users: the event loop of      *)
(* main.rs, which labels processes (lookup, evict_pid), re-labels what the *)
(* watcher invalidated, and copies upgraded_pids to the BPF map            *)
(* UPGRADED_PIDS; and the Kubernetes watcher task, which keeps             *)
(* container_map and invalidates what was derived from it.                 *)
(*                                                                         *)
(* A step is what happens under one lock or at one atomic.  What is known  *)
(* of a container is "none" (it is not in the map), "plain" or "full" (its *)
(* pod has the annotation profi/mode: full).  labels is the part of the    *)
(* handle cache that matters here: what the handles of a process are       *)
(* labelled with.                                                          *)
(***************************************************************************)
EXTENDS Integers, FiniteSets

CONSTANTS
  Pids,
  Containers,
  Pods,
  CidOf,              \* the container of each process
  PodOf,              \* the pod of each container
  MapSize,            \* max_entries of UPGRADED_PIDS
  RingEvents,         \* whether the ring buffer ever carries an event
  Allocating,         \* processes the loop looks up even when they have handles
  Relists             \* whether the watch is ever re-established

ASSUME ConstantsAssumption ==
  /\ IsFiniteSet(Pids) /\ Pids # {}
  /\ CidOf \in [Pids -> Containers] /\ PodOf \in [Containers -> Pods]
  /\ MapSize \in Nat /\ RingEvents \in BOOLEAN /\ Relists \in BOOLEAN
  /\ Allocating \subseteq Pids

Info == {"none", "plain", "full"}

VARIABLES
  container_map, container_to_pids, k8s_pid_cache,
  upgraded_pids, upgrade_dirty,
  changed_pids, has_changes,
  UPGRADED_PIDS,          \* the BPF map
  upgraded_pids_synced,   \* what the loop believes the BPF map holds
  labels,                 \* Info, or "absent" for a process without handles
  loop,                   \* the event loop: arm, step, and the lookup in progress
  watcher                 \* the watcher: step, containers, processes, flags

shared == <<container_map, container_to_pids, k8s_pid_cache, upgraded_pids, upgrade_dirty,
            changed_pids, has_changes>>
bpf == <<UPGRADED_PIDS, upgraded_pids_synced>>
vars == <<shared, bpf, labels, loop, watcher>>

(* The arm that runs, the step it is at, and the lookup in progress. *)
LoopState == [arm : {"idle", "ring", "agg", "gc"},
              step : {"none", "link", "promote", "store", "take", "sync"},
              pid : Pids, info : Info]

WatcherState == [step : {"idle", "affected", "purge", "demote", "dirty", "report", "retain"},
                 cids : SUBSET Containers, pids : SUBSET Pids,
                 relist : BOOLEAN, shrunk : BOOLEAN]

AtRest == [arm |-> "idle", step |-> "none", pid |-> CHOOSE p \in Pids : TRUE, info |-> "none"]

Watching == [step |-> "idle", cids |-> {}, pids |-> {}, relist |-> FALSE, shrunk |-> FALSE]

Init ==
  /\ container_map = [c \in Containers |-> "none"]
  /\ container_to_pids = [c \in Containers |-> {}]
  /\ k8s_pid_cache = [p \in Pids |-> "miss"]
  /\ upgraded_pids = {} /\ upgrade_dirty = FALSE
  /\ changed_pids = {} /\ has_changes = FALSE
  /\ UPGRADED_PIDS = {} /\ upgraded_pids_synced = {}
  /\ labels = [p \in Pids |-> "absent"]
  /\ loop = AtRest
  /\ watcher = Watching

(* The watcher holds the write lock of upgraded_pids. *)
UpgradeLocked == watcher.step = "dirty"
-----------------------------------------------------------------------------
(* The event loop: lookup, which is resolve_k8s as far as pods go.         *)

Between == loop.arm # "idle" /\ loop.step = "none"

(* The ring and the drains look a process up when it has no handle; the    *)
(* active-memory gauge and the straggler ratio do so on every tick.        *)
Wanted(p) ==
  \/ loop.arm \in {"ring", "agg"} /\ labels[p] = "absent"
  \/ loop.arm \in {"agg", "gc"} /\ p \in Allocating

(* A handle that exists keeps its label; the gc arm makes none. *)
Label(p, info) ==
  labels' = [labels EXCEPT ![p] = IF loop.arm # "gc" /\ @ = "absent" THEN info ELSE @]

ResolveHit(p) ==
  /\ Between /\ Wanted(p)
  /\ k8s_pid_cache[p] # "miss"
  /\ Label(p, k8s_pid_cache[p])
  /\ UNCHANGED <<shared, bpf, loop, watcher>>

(* The process is gone and so is its cgroup file: no label, not cached. *)
ResolveGone(p) ==
  /\ Between /\ Wanted(p)
  /\ k8s_pid_cache[p] = "miss"
  /\ Label(p, "none")
  /\ UNCHANGED <<shared, bpf, loop, watcher>>

ResolveMiss_CachedInfo(p) ==
  /\ Between /\ Wanted(p)
  /\ k8s_pid_cache[p] = "miss"
  /\ loop' = [loop EXCEPT !.step = "link", !.pid = p, !.info = k8s_pid_cache[p]]
  /\ UNCHANGED <<shared, bpf, labels, watcher>>

ResolveMiss(p) ==
  /\ Between /\ Wanted(p)
  /\ k8s_pid_cache[p] = "miss"
  /\ loop' = [loop EXCEPT !.step = "link", !.pid = p, !.info = container_map[CidOf[p]]]
  /\ UNCHANGED <<shared, bpf, labels, watcher>>

ResolveLink_Skip ==
  /\ loop.step = "link"
  /\ container_to_pids' =
       IF loop.info = "plain" THEN container_to_pids
       ELSE [container_to_pids EXCEPT ![CidOf[loop.pid]] = @ \cup {loop.pid}]
  /\ loop' = [loop EXCEPT !.step = "promote"]
  /\ UNCHANGED <<container_map, k8s_pid_cache, upgraded_pids, upgrade_dirty, changed_pids,
                 has_changes, bpf, labels, watcher>>

ResolveLink ==
  /\ loop.step = "link"
  /\ container_to_pids' = [container_to_pids EXCEPT ![CidOf[loop.pid]] = @ \cup {loop.pid}]
  /\ loop' = [loop EXCEPT !.step = "promote"]
  /\ UNCHANGED <<container_map, k8s_pid_cache, upgraded_pids, upgrade_dirty, changed_pids,
                 has_changes, bpf, labels, watcher>>

ResolvePromote ==
  LET new == loop.info = "full" /\ loop.pid \notin upgraded_pids
  IN  /\ loop.step = "promote"
      /\ ~UpgradeLocked
      /\ upgraded_pids' = IF new THEN upgraded_pids \cup {loop.pid} ELSE upgraded_pids
      /\ upgrade_dirty' = (upgrade_dirty \/ new)
      /\ loop' = [loop EXCEPT !.step = "store"]
      /\ UNCHANGED <<container_map, container_to_pids, k8s_pid_cache, changed_pids, has_changes,
                     bpf, labels, watcher>>

ResolveStore ==
  /\ loop.step = "store"
  /\ k8s_pid_cache' = [k8s_pid_cache EXCEPT ![loop.pid] = loop.info]
  /\ Label(loop.pid, loop.info)
  /\ loop' = [AtRest EXCEPT !.arm = loop.arm]
  /\ UNCHANGED <<container_map, container_to_pids, upgraded_pids, upgrade_dirty, changed_pids,
                 has_changes, bpf, watcher>>
-----------------------------------------------------------------------------
(* The event loop: its arms.                                               *)

(* The ring is readable: has_changes is loaded. *)
RingArm ==
  /\ RingEvents
  /\ loop.arm = "idle"
  /\ loop' = [loop EXCEPT !.arm = "ring", !.step = IF has_changes THEN "take" ELSE "none"]
  /\ UNCHANGED <<shared, bpf, labels, watcher>>

(* Under the lock of changed_pids; then the handles are invalidated. *)
TakeChanged ==
  /\ loop.step = "take"
  /\ labels' = [p \in Pids |-> IF p \in changed_pids THEN "absent" ELSE labels[p]]
  /\ changed_pids' = {}
  /\ has_changes' = (has_changes /\ changed_pids = {})
  /\ loop' = [loop EXCEPT !.step = "none"]
  /\ UNCHANGED <<container_map, container_to_pids, k8s_pid_cache, upgraded_pids, upgrade_dirty,
                 bpf, watcher>>

(* The aggregation tick: upgrade_dirty is swapped with false. *)
AggArm ==
  /\ loop.arm = "idle"
  /\ loop' = [loop EXCEPT !.arm = "agg", !.step = IF upgrade_dirty THEN "sync" ELSE "none"]
  /\ upgrade_dirty' = FALSE
  /\ UNCHANGED <<container_map, container_to_pids, k8s_pid_cache, upgraded_pids, changed_pids,
                 has_changes, bpf, labels, watcher>>

(* The BPF map after the deletes and then the updates, of which those that *)
(* find it full fail.                                                      *)
Synced(before, desired) ==
  LET kept == UPGRADED_PIDS \ (before \ desired)
      new  == desired \ before
  IN  {kept \cup s : s \in
         {t \in SUBSET new : Cardinality(kept \cup t) = Cardinality(kept \cup new)
                             \/ Cardinality(kept \cup t) = MapSize}}

SyncUpgraded_OnlyAdds ==
  /\ loop.step = "sync"
  /\ ~UpgradeLocked
  /\ UPGRADED_PIDS' = UPGRADED_PIDS \cup upgraded_pids
  /\ upgraded_pids_synced' = upgraded_pids
  /\ loop' = [loop EXCEPT !.step = "none"]
  /\ UNCHANGED <<shared, labels, watcher>>

SyncUpgraded ==
  LET before == IF upgraded_pids_synced = {} THEN UPGRADED_PIDS ELSE upgraded_pids_synced
  IN  /\ loop.step = "sync"
      /\ ~UpgradeLocked
      /\ UPGRADED_PIDS' \in Synced(before, upgraded_pids)
      /\ upgraded_pids_synced' = upgraded_pids
      /\ loop' = [loop EXCEPT !.step = "none"]
      /\ UNCHANGED <<shared, labels, watcher>>

GcArm ==
  /\ loop.arm = "idle"
  /\ loop' = [loop EXCEPT !.arm = "gc"]
  /\ UNCHANGED <<shared, bpf, labels, watcher>>

(* gc of the handle cache evicts a stale process.  The locks this takes    *)
(* one after the other, and the store of the dirty flag after the last of  *)
(* them, are one step: a watcher that comes in between can only remove     *)
(* some of the same, and only the loop reads the flag.                     *)
evict_pid(p) ==
  /\ loop.arm = "gc" /\ loop.step = "none"
  /\ labels[p] # "absent"
  /\ ~UpgradeLocked
  /\ labels' = [labels EXCEPT ![p] = "absent"]
  /\ k8s_pid_cache' = [k8s_pid_cache EXCEPT ![p] = "miss"]
  /\ upgraded_pids' = upgraded_pids \ {p}
  /\ upgrade_dirty' = (upgrade_dirty \/ p \in upgraded_pids)
  /\ UNCHANGED <<container_map, container_to_pids, changed_pids, has_changes, bpf, loop, watcher>>

ArmDone ==
  /\ Between
  /\ loop' = AtRest
  /\ UNCHANGED <<shared, bpf, labels, watcher>>
-----------------------------------------------------------------------------
(* The watcher.                                                            *)

(* The new map is in place; then the containers cids are invalidated.      *)
StartInvalidation(cids, relist) ==
  watcher' = [Watching EXCEPT !.step = IF cids # {} THEN "affected"
                                       ELSE IF relist THEN "retain" ELSE "idle",
                              !.cids = cids, !.relist = relist]

Listed(pod) == {c \in Containers : PodOf[c] = pod /\ container_map[c] # "none"}

(* Event::Apply: the pod now has the containers cids, in the given mode. *)
Apply(pod, cids, mode) ==
  /\ watcher.step = "idle"
  /\ \A c \in cids : PodOf[c] = pod
  /\ container_map' = [c \in Containers |-> IF c \in cids THEN mode
                                            ELSE IF c \in Listed(pod) THEN "none"
                                            ELSE container_map[c]]
  /\ StartInvalidation(Listed(pod), FALSE)
  /\ UNCHANGED <<container_to_pids, k8s_pid_cache, upgraded_pids, upgrade_dirty, changed_pids,
                 has_changes, bpf, labels, loop>>

Delete(pod) ==
  /\ watcher.step = "idle"
  /\ container_map' = [c \in Containers |-> IF c \in Listed(pod) THEN "none" ELSE container_map[c]]
  /\ StartInvalidation(Listed(pod), FALSE)
  /\ UNCHANGED <<container_to_pids, k8s_pid_cache, upgraded_pids, upgrade_dirty, changed_pids,
                 has_changes, bpf, labels, loop>>

(* Event::InitDone: the pods were listed afresh.  Only the containers that *)
(* are no longer there are invalidated.                                    *)
InitDone(map) ==
  /\ Relists
  /\ watcher.step = "idle"
  /\ container_map' = map
  /\ StartInvalidation({c \in Containers : container_map[c] # "none" /\ map[c] = "none"}, TRUE)
  /\ UNCHANGED <<container_to_pids, k8s_pid_cache, upgraded_pids, upgrade_dirty, changed_pids,
                 has_changes, bpf, labels, loop>>

AfterInvalidation == IF watcher.relist THEN [Watching EXCEPT !.step = "retain"] ELSE Watching

Affected ==
  LET pids == UNION {container_to_pids[c] : c \in watcher.cids}
  IN  /\ watcher.step = "affected"
      /\ watcher' = IF pids = {} THEN AfterInvalidation
                    ELSE [watcher EXCEPT !.step = "purge", !.cids = {}, !.pids = pids]
      /\ UNCHANGED <<shared, bpf, labels, loop>>

Purge ==
  /\ watcher.step = "purge"
  /\ k8s_pid_cache' = [p \in Pids |-> IF p \in watcher.pids THEN "miss" ELSE k8s_pid_cache[p]]
  /\ watcher' = [watcher EXCEPT !.step = "demote"]
  /\ UNCHANGED <<container_map, container_to_pids, upgraded_pids, upgrade_dirty, changed_pids,
                 has_changes, bpf, labels, loop>>

(* Takes the write lock of upgraded_pids ... *)
Demote ==
  /\ watcher.step = "demote"
  /\ upgraded_pids' = upgraded_pids \ watcher.pids
  /\ watcher' = [watcher EXCEPT !.step = "dirty",
                                !.shrunk = upgraded_pids \cap watcher.pids # {}]
  /\ UNCHANGED <<container_map, container_to_pids, k8s_pid_cache, upgrade_dirty, changed_pids,
                 has_changes, bpf, labels, loop>>

(* ... and releases it after the store. *)
SetDirty_Never ==
  /\ watcher.step = "dirty"
  /\ watcher' = [watcher EXCEPT !.step = "report", !.shrunk = FALSE]
  /\ UNCHANGED <<shared, bpf, labels, loop>>

SetDirty ==
  /\ watcher.step = "dirty"
  /\ upgrade_dirty' = (upgrade_dirty \/ watcher.shrunk)
  /\ watcher' = [watcher EXCEPT !.step = "report", !.shrunk = FALSE]
  /\ UNCHANGED <<container_map, container_to_pids, k8s_pid_cache, upgraded_pids, changed_pids,
                 has_changes, bpf, labels, loop>>

Report_NoFlag ==
  /\ watcher.step = "report"
  /\ changed_pids' = changed_pids \cup watcher.pids
  /\ watcher' = AfterInvalidation
  /\ UNCHANGED <<container_map, container_to_pids, k8s_pid_cache, upgraded_pids, upgrade_dirty,
                 has_changes, bpf, labels, loop>>

(* Under the lock of changed_pids. *)
Report ==
  /\ watcher.step = "report"
  /\ changed_pids' = changed_pids \cup watcher.pids
  /\ has_changes' = TRUE
  /\ watcher' = AfterInvalidation
  /\ UNCHANGED <<container_map, container_to_pids, k8s_pid_cache, upgraded_pids, upgrade_dirty,
                 bpf, labels, loop>>

(* After InitDone, processes cached without a pod are forgotten. *)
Retain ==
  /\ watcher.step = "retain"
  /\ k8s_pid_cache' = [p \in Pids |-> IF k8s_pid_cache[p] = "none" THEN "miss" ELSE k8s_pid_cache[p]]
  /\ watcher' = Watching
  /\ UNCHANGED <<container_map, container_to_pids, upgraded_pids, upgrade_dirty, changed_pids,
                 has_changes, bpf, labels, loop>>
-----------------------------------------------------------------------------
Resolving(p) == ResolveHit(p) \/ ResolveGone(p) \/ ResolveMiss(p)

LoopContinues == ResolveLink \/ ResolvePromote \/ ResolveStore \/ TakeChanged \/ SyncUpgraded \/ ArmDone

WatcherContinues == Affected \/ Purge \/ Demote \/ SetDirty \/ Report \/ Retain

Next ==
  \/ RingArm \/ AggArm \/ GcArm
  \/ \E p \in Pids : Resolving(p) \/ evict_pid(p)
  \/ LoopContinues
  \/ \E pod \in Pods : Delete(pod)
  \/ \E pod \in Pods, cids \in SUBSET Containers, mode \in Info \ {"none"} : Apply(pod, cids, mode)
  \/ \E map \in [Containers -> Info] : InitDone(map)
  \/ WatcherContinues

(* The ticks of the aggregation timer are not ignored for ever (select!    *)
(* tries its branches in random order), a handler works on a bounded batch *)
(* and runs to its end, a lock that is released again and again is         *)
(* obtained, and the watcher's handling of an event runs to its end.       *)
Fairness ==
  /\ SF_vars(AggArm) /\ SF_vars(ArmDone)
  /\ SF_vars(ResolvePromote) /\ SF_vars(SyncUpgraded)
  /\ WF_vars(LoopContinues)
  /\ WF_vars(WatcherContinues)

Spec == Init /\ [][Next]_vars /\ Fairness
-----------------------------------------------------------------------------
(* The shared state and the two threads have their types. *)
TypeOK ==
  /\ container_map \in [Containers -> Info]
  /\ container_to_pids \in [Containers -> SUBSET Pids]
  /\ k8s_pid_cache \in [Pids -> Info \cup {"miss"}]
  /\ upgraded_pids \subseteq Pids /\ upgrade_dirty \in BOOLEAN
  /\ changed_pids \subseteq Pids /\ has_changes \in BOOLEAN
  /\ UPGRADED_PIDS \subseteq Pids /\ upgraded_pids_synced \subseteq Pids
  /\ labels \in [Pids -> Info \cup {"absent"}]
  /\ loop \in LoopState
  /\ loop.arm = "idle" => loop.step = "none"
  /\ watcher \in WatcherState

(* The dirty flag never hides a difference: when it is down, the BPF map   *)
(* holds exactly the upgraded processes, except while the loop is about to *)
(* copy them or the watcher still holds their lock.  The comment on        *)
(* Enricher::upgraded_pids calls it the "ground truth" for the map.        *)
SyncedUnlessDirty ==
  ~upgrade_dirty /\ loop.step # "sync" /\ ~UpgradeLocked /\ Cardinality(upgraded_pids) <= MapSize
    => UPGRADED_PIDS = upgraded_pids

(* Whatever resolve_k8s derived from container_map can be invalidated: a   *)
(* process that is cached with a pod or upgraded is known under its        *)
(* container, where the watcher looks for it.                              *)
CanBeInvalidated ==
  \A p \in Pids :
    p \in upgraded_pids \/ k8s_pid_cache[p] \in {"plain", "full"}
      => p \in container_to_pids[CidOf[p]]

(* When the watcher has taken a process out of the pod cache, the handles  *)
(* that carry its old pod labels do not go unnoticed: until they are gone, *)
(* the process is reported to the ring arm or about to be.                 *)
InvalidationReported ==
  \A p \in Pids :
    labels[p] \in {"plain", "full"} /\ k8s_pid_cache[p] = "miss" =>
      \/ p \in changed_pids /\ has_changes
      \/ p \in watcher.pids /\ watcher.step \in {"demote", "dirty", "report"}

(* A process that is upgraded reaches the BPF map, and one that is not     *)
(* leaves it, unless that changes again first.                             *)
EventuallySynced ==
  \A p \in Pids :
    (p \in upgraded_pids) # (p \in UPGRADED_PIDS) ~> (p \in upgraded_pids) = (p \in UPGRADED_PIDS)

(* The comment in invalidate_containers: "Ensures deleted / re-annotated   *)
(* pods don't leave stale entries in the eBPF UPGRADED_PIDS map".  With    *)
(* both threads at rest, an upgraded process is in an annotated pod.       *)
NoStaleUpgrade ==
  loop = AtRest /\ watcher.step = "idle" =>
    \A p \in upgraded_pids : container_map[CidOf[p]] = "full"

(* The comment on PodInfo::upgrade: when a pod carries the annotation, all *)
(* its processes "should be promoted to full kernel tracing".              *)
Promoted ==
  \A p \in Pids :
    <>[](container_map[CidOf[p]] = "full" /\ labels[p] \in {"plain", "full"})
      => <>(p \in UPGRADED_PIDS)
=============================================================================
