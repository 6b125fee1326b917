--------------------------- MODULE EnricherProofs ---------------------------
(***************************************************************************)
(* Proofs about Enricher, for any processes, containers and pods.          *)
(***************************************************************************)
EXTENDS Enricher, FiniteSetTheorems, TLAPS

(* The provers that try a step which names none, and their time limits.    *)
USE ZenonT(5), SMTT(20), ZenonT(60)

(* A lookup in progress has linked its process once it is past that step. *)
Linked ==
  loop.step \in {"promote", "store"} => loop.pid \in container_to_pids[CidOf[loop.pid]]

(* The handles of p are to be invalidated by the ring arm. *)
Pending(p) ==
  \/ p \in changed_pids /\ has_changes
  \/ p \in watcher.pids /\ watcher.step \in {"demote", "dirty", "report"}

(* InvalidationReported speaks of a process that is not in the pod cache.  *)
(* Before its handles are invalidated it can be cached again, with another *)
(* pod, and then taken out by Retain: so what is preserved is that handles *)
(* labelled unlike the cache are pending, and so are handles labelled      *)
(* while a lookup that bypasses them is in progress.                       *)
LabelsPending ==
  /\ \A p \in Pids : labels[p] \in {"plain", "full"} /\ k8s_pid_cache[p] # labels[p] => Pending(p)
  /\ loop.step \in {"link", "promote", "store"} /\ labels[loop.pid] \in {"plain", "full"}
       => Pending(loop.pid)

Inv == TypeOK /\ CanBeInvalidated /\ Linked /\ LabelsPending

(* AtRest and Watching are values of loop and watcher. *)
LEMMA RestTypes ==
  /\ AtRest \in LoopState
  /\ AtRest.arm = "idle" /\ AtRest.step = "none"
  /\ Watching \in WatcherState
  /\ Watching.step = "idle" /\ Watching.pids = {}
BY ConstantsAssumption DEF AtRest, Watching, Info, LoopState, WatcherState

LEMMA InitInv == Init => Inv
<1> SUFFICES ASSUME Init PROVE Inv
  OBVIOUS
<1>1. TypeOK
  BY RestTypes DEF Init, TypeOK, Info
<1>2. CanBeInvalidated /\ Linked /\ LabelsPending
  <2>1. loop.step = "none"
    BY RestTypes DEF Init
  <2> QED BY <2>1 DEF Init, CanBeInvalidated, Linked, LabelsPending
<1> QED BY <1>1, <1>2 DEF Inv

(* A step of the event loop that only starts or ends an arm. *)
LEMMA TurnInv ==
  ASSUME Inv, loop' \in LoopState, loop'.arm = "idle" => loop'.step = "none",
         loop'.step \in {"none", "take", "sync"},
         UNCHANGED <<container_map, container_to_pids, k8s_pid_cache, upgraded_pids, changed_pids,
                     has_changes, bpf, labels, watcher>>,
         upgrade_dirty' \in BOOLEAN
  PROVE  Inv'
<1>1. TypeOK'
  BY DEF Inv, TypeOK, bpf
<1>2. CanBeInvalidated'
  BY DEF Inv, CanBeInvalidated
<1>3. Linked' /\ LabelsPending'
  BY DEF Inv, Linked, LabelsPending, Pending
<1> QED BY <1>1, <1>2, <1>3 DEF Inv

(* The lookups of the event loop. *)
LEMMA ResolveInv ==
  ASSUME Inv, NEW p \in Pids, Resolving(p)
  PROVE  Inv'
<1>0. loop \in LoopState /\ loop.arm \in {"idle", "ring", "agg", "gc"}
  BY DEF Inv, TypeOK, LoopState
<1> USE ConstantsAssumption DEF Inv, TypeOK, Info, shared, bpf
<1>1. CASE ResolveHit(p)
  BY <1>1 DEF ResolveHit, Between, Wanted, Label, CanBeInvalidated, Linked, LabelsPending, Pending
<1>2. CASE ResolveGone(p)
  BY <1>2 DEF ResolveGone, Between, Wanted, Label, CanBeInvalidated, Linked, LabelsPending, Pending
<1>3. CASE ResolveMiss(p)
  <2>1. /\ loop' = [loop EXCEPT !.step = "link", !.pid = p, !.info = container_map[CidOf[p]]]
        /\ loop.arm # "idle" /\ k8s_pid_cache[p] = "miss"
        /\ UNCHANGED <<shared, bpf, labels, watcher>>
    BY <1>3 DEF ResolveMiss, Between
  <2>2. container_map[CidOf[p]] \in Info
    OBVIOUS
  <2>3. loop' \in LoopState /\ loop'.arm # "idle" /\ loop'.step = "link" /\ loop'.pid = p
    BY <1>0, <2>1, <2>2 DEF LoopState
  <2>4. TypeOK'
    BY <2>1, <2>3
  <2>5. CanBeInvalidated'
    BY <2>1 DEF CanBeInvalidated
  <2>6. Linked'
    BY <2>3 DEF Linked
  <2>7. LabelsPending'
    BY <2>1, <2>3 DEF LabelsPending, Pending
  <2> QED BY <2>4, <2>5, <2>6, <2>7
<1> QED BY <1>1, <1>2, <1>3 DEF Resolving

LEMMA LoopInv ==
  ASSUME Inv, LoopContinues
  PROVE  Inv'
<1>0. loop \in LoopState /\ loop.pid \in Pids /\ loop.info \in Info
  BY DEF Inv, TypeOK, LoopState
<1> USE ConstantsAssumption DEF Inv, TypeOK, Info, shared, bpf
<1>1. CASE ResolveLink
  <2>1. /\ loop' \in LoopState /\ loop'.arm = loop.arm /\ loop'.step = "promote"
        /\ loop'.pid = loop.pid
    BY <1>0, <1>1 DEF ResolveLink, LoopState
  <2>2. /\ loop.step = "link"
        /\ container_to_pids' = [container_to_pids EXCEPT ![CidOf[loop.pid]] = @ \cup {loop.pid}]
        /\ UNCHANGED <<container_map, k8s_pid_cache, upgraded_pids, upgrade_dirty, changed_pids,
                       has_changes, bpf, labels, watcher>>
    BY <1>1 DEF ResolveLink
  <2>3. TypeOK'
    BY <1>0, <2>1, <2>2
  <2>4. CanBeInvalidated' /\ Linked'
    BY <1>0, <2>1, <2>2 DEF CanBeInvalidated, Linked
  <2>5. LabelsPending'
    BY <2>1, <2>2 DEF LabelsPending, Pending
  <2> QED BY <2>3, <2>4, <2>5
<1>2. CASE ResolvePromote
  <2>1. /\ loop' \in LoopState /\ loop'.arm = loop.arm /\ loop'.step = "store"
        /\ loop'.pid = loop.pid
    BY <1>0, <1>2 DEF ResolvePromote, LoopState
  <2>2. /\ loop.step = "promote" /\ upgrade_dirty' \in BOOLEAN
        /\ upgraded_pids' \subseteq upgraded_pids \cup {loop.pid}
        /\ UNCHANGED <<container_map, container_to_pids, k8s_pid_cache, changed_pids, has_changes,
                       bpf, labels, watcher>>
    BY <1>2 DEF ResolvePromote
  <2>3. TypeOK'
    BY <1>0, <2>1, <2>2
  <2>4. CanBeInvalidated' /\ Linked'
    BY <1>0, <2>1, <2>2 DEF CanBeInvalidated, Linked
  <2>5. LabelsPending'
    BY <2>1, <2>2 DEF LabelsPending, Pending
  <2> QED BY <2>3, <2>4, <2>5
<1>3. CASE ResolveStore
  <2>1. loop' \in LoopState /\ loop'.arm = loop.arm /\ loop'.step = "none"
    BY <1>0, <1>3, RestTypes DEF ResolveStore, LoopState
  <2>2. /\ loop.step = "store"
        /\ k8s_pid_cache' = [k8s_pid_cache EXCEPT ![loop.pid] = loop.info]
        /\ Label(loop.pid, loop.info)
        /\ UNCHANGED <<container_map, container_to_pids, upgraded_pids, upgrade_dirty,
                       changed_pids, has_changes, bpf, watcher>>
    BY <1>3 DEF ResolveStore
  <2>3. TypeOK'
    BY <1>0, <2>1, <2>2 DEF Label
  <2>4. CanBeInvalidated' /\ Linked'
    BY <1>0, <2>1, <2>2 DEF CanBeInvalidated, Linked
  <2>5. LabelsPending'
    BY <1>0, <2>1, <2>2 DEF Label, LabelsPending, Pending
  <2> QED BY <2>3, <2>4, <2>5
<1>4. CASE TakeChanged
  <2>1. loop' \in LoopState /\ loop'.arm = loop.arm /\ loop'.step = "none"
    BY <1>0, <1>4 DEF TakeChanged, LoopState
  <2>2. /\ labels' = [p \in Pids |-> IF p \in changed_pids THEN "absent" ELSE labels[p]]
        /\ changed_pids' = {} /\ has_changes' \in BOOLEAN
        /\ UNCHANGED <<container_map, container_to_pids, k8s_pid_cache, upgraded_pids,
                       upgrade_dirty, bpf, watcher>>
    BY <1>4 DEF TakeChanged
  <2>3. TypeOK'
    BY <2>1, <2>2
  <2>4. CanBeInvalidated' /\ Linked'
    BY <2>1, <2>2 DEF CanBeInvalidated, Linked
  <2>5. LabelsPending'
    BY <2>1, <2>2 DEF LabelsPending, Pending
  <2> QED BY <2>3, <2>4, <2>5
<1>5. CASE SyncUpgraded
  <2> DEFINE before == IF upgraded_pids_synced = {} THEN UPGRADED_PIDS ELSE upgraded_pids_synced
  <2>1. UPGRADED_PIDS' \in Synced(before, upgraded_pids)
    BY <1>5 DEF SyncUpgraded
  <2>2. UPGRADED_PIDS' \subseteq Pids
    BY <2>1 DEF Synced
  <2>3. upgraded_pids_synced' = upgraded_pids /\ UNCHANGED <<shared, labels, watcher>>
    BY <1>5 DEF SyncUpgraded
  <2>4. loop' \in LoopState /\ loop'.arm = loop.arm /\ loop'.step = "none"
    BY <1>0, <1>5 DEF SyncUpgraded, LoopState
  <2>5. TypeOK'
    BY <2>2, <2>3, <2>4
  <2> QED BY <2>3, <2>4, <2>5 DEF CanBeInvalidated, Linked, LabelsPending, Pending
<1>6. CASE ArmDone
  BY <1>6, RestTypes, TurnInv DEF ArmDone, Between
<1> QED BY <1>1, <1>2, <1>3, <1>4, <1>5, <1>6 DEF LoopContinues

LEMMA ArmInv ==
  ASSUME Inv, RingArm \/ AggArm \/ GcArm
  PROVE  Inv'
<1>0. loop \in LoopState /\ (loop.arm = "idle" => loop.step = "none") /\ upgrade_dirty \in BOOLEAN
  BY DEF Inv, TypeOK
<1>1. /\ loop' \in LoopState /\ loop'.arm # "idle"
      /\ loop'.step \in {"none", "take", "sync"}
  BY <1>0 DEF RingArm, AggArm, GcArm, LoopState
<1>2. /\ UNCHANGED <<container_map, container_to_pids, k8s_pid_cache, upgraded_pids, changed_pids,
                     has_changes, bpf, labels, watcher>>
      /\ upgrade_dirty' \in BOOLEAN
  BY <1>0 DEF RingArm, AggArm, GcArm, shared
<1> QED BY <1>1, <1>2, TurnInv

LEMMA EvictInv ==
  ASSUME Inv, NEW p \in Pids, evict_pid(p)
  PROVE  Inv'
<1>1. TypeOK'
  BY DEF Inv, TypeOK, Info, evict_pid, bpf
<1>2. CanBeInvalidated' /\ Linked'
  BY DEF Inv, TypeOK, evict_pid, CanBeInvalidated, Linked
<1>3. LabelsPending'
  BY DEF Inv, TypeOK, evict_pid, LabelsPending, Pending
<1> QED BY <1>1, <1>2, <1>3 DEF Inv

(* The watcher changes container_map and starts to invalidate. *)
LEMMA WatchInv ==
  ASSUME Inv,
         NEW cids \in SUBSET Containers, NEW relist \in BOOLEAN,
         watcher.step = "idle", StartInvalidation(cids, relist),
         container_map' \in [Containers -> Info],
         UNCHANGED <<container_to_pids, k8s_pid_cache, upgraded_pids, upgrade_dirty, changed_pids,
                     has_changes, bpf, labels, loop>>
  PROVE  Inv'
<1> USE DEF Inv, TypeOK, Info, bpf
<1>1. watcher' \in WatcherState
      /\ watcher'.step \in {"affected", "retain", "idle"}
  BY RestTypes DEF StartInvalidation, WatcherState
<1>2. TypeOK'
  BY <1>1
<1>3. CanBeInvalidated' /\ Linked'
  BY DEF CanBeInvalidated, Linked
<1>4. LabelsPending'
  BY <1>1 DEF LabelsPending, Pending
<1> QED BY <1>2, <1>3, <1>4

(* A step of the watcher keeps what concerns only the event loop. *)
LEMMA WatcherInv ==
  ASSUME Inv, WatcherContinues
  PROVE  Inv'
<1>0. watcher \in WatcherState /\ watcher.cids \subseteq Containers /\ watcher.pids \subseteq Pids
  BY DEF Inv, TypeOK, WatcherState
<1>a. AfterInvalidation \in WatcherState /\ AfterInvalidation.step \in {"idle", "retain"}
  BY RestTypes DEF AfterInvalidation, WatcherState
<1> USE DEF Inv, TypeOK, Info, shared, bpf
<1>1. CASE Affected
  <2>1. UNION {container_to_pids[c] : c \in watcher.cids} \subseteq Pids
    BY <1>0
  <2>2. watcher' \in WatcherState /\ watcher.step = "affected"
    BY <1>0, <1>1, <1>a, <2>1 DEF Affected, WatcherState
  <2>3. UNCHANGED <<shared, bpf, labels, loop>>
    BY <1>1 DEF Affected
  <2>4. TypeOK'
    BY <2>2, <2>3
  <2>5. CanBeInvalidated' /\ Linked'
    BY <2>3 DEF CanBeInvalidated, Linked
  <2>6. LabelsPending'
    BY <2>2, <2>3 DEF LabelsPending, Pending
  <2> QED BY <2>4, <2>5, <2>6
<1>2. CASE Purge
  <2>1. watcher' \in WatcherState /\ watcher'.step = "demote" /\ watcher'.pids = watcher.pids
    BY <1>0, <1>2 DEF Purge, WatcherState
  <2>2. /\ watcher.step = "purge"
        /\ k8s_pid_cache' = [p \in Pids |-> IF p \in watcher.pids THEN "miss" ELSE k8s_pid_cache[p]]
        /\ UNCHANGED <<container_map, container_to_pids, upgraded_pids, upgrade_dirty,
                       changed_pids, has_changes, bpf, labels, loop>>
    BY <1>2 DEF Purge
  <2>3. TypeOK'
    BY <2>1, <2>2
  <2>4. CanBeInvalidated' /\ Linked'
    BY <2>2 DEF CanBeInvalidated, Linked
  <2>5. LabelsPending'
    BY <2>1, <2>2 DEF LabelsPending, Pending
  <2> QED BY <2>3, <2>4, <2>5
<1>3. CASE Demote
  <2>1. watcher' \in WatcherState /\ watcher'.step = "dirty" /\ watcher'.pids = watcher.pids
    BY <1>0, <1>3 DEF Demote, WatcherState
  <2>2. /\ watcher.step = "demote"
        /\ upgraded_pids' \subseteq upgraded_pids
        /\ UNCHANGED <<container_map, container_to_pids, k8s_pid_cache, upgrade_dirty,
                       changed_pids, has_changes, bpf, labels, loop>>
    BY <1>3 DEF Demote
  <2>3. TypeOK'
    BY <2>1, <2>2
  <2>4. CanBeInvalidated' /\ Linked'
    BY <2>2 DEF CanBeInvalidated, Linked
  <2>5. LabelsPending'
    BY <2>1, <2>2 DEF LabelsPending, Pending
  <2> QED BY <2>3, <2>4, <2>5
<1>4. CASE SetDirty
  <2>1. watcher' \in WatcherState /\ watcher'.step = "report" /\ watcher'.pids = watcher.pids
    BY <1>0, <1>4 DEF SetDirty, WatcherState
  <2>2. /\ watcher.step = "dirty" /\ upgrade_dirty' \in BOOLEAN
        /\ UNCHANGED <<container_map, container_to_pids, k8s_pid_cache, upgraded_pids,
                       changed_pids, has_changes, bpf, labels, loop>>
    BY <1>4 DEF SetDirty
  <2>3. TypeOK'
    BY <2>1, <2>2
  <2>4. CanBeInvalidated' /\ Linked'
    BY <2>2 DEF CanBeInvalidated, Linked
  <2>5. LabelsPending'
    BY <2>1, <2>2 DEF LabelsPending, Pending
  <2> QED BY <2>3, <2>4, <2>5
<1>5. CASE Report
  <2>1. /\ watcher.step = "report" /\ watcher' = AfterInvalidation
        /\ changed_pids' = changed_pids \cup watcher.pids /\ has_changes' = TRUE
        /\ UNCHANGED <<container_map, container_to_pids, k8s_pid_cache, upgraded_pids,
                       upgrade_dirty, bpf, labels, loop>>
    BY <1>5 DEF Report
  <2>2. TypeOK'
    BY <1>0, <1>a, <2>1
  <2>3. CanBeInvalidated' /\ Linked'
    BY <2>1 DEF CanBeInvalidated, Linked
  <2>4. LabelsPending'
    BY <2>1 DEF LabelsPending, Pending
  <2> QED BY <2>2, <2>3, <2>4
<1>6. CASE Retain
  <2>1. /\ watcher.step = "retain" /\ watcher' = Watching
        /\ k8s_pid_cache' =
             [p \in Pids |-> IF k8s_pid_cache[p] = "none" THEN "miss" ELSE k8s_pid_cache[p]]
        /\ UNCHANGED <<container_map, container_to_pids, upgraded_pids, upgrade_dirty,
                       changed_pids, has_changes, bpf, labels, loop>>
    BY <1>6 DEF Retain
  <2>2. TypeOK'
    BY <2>1, RestTypes
  <2>3. CanBeInvalidated' /\ Linked'
    BY <2>1 DEF CanBeInvalidated, Linked
  <2>4. LabelsPending'
    BY <2>1 DEF LabelsPending, Pending
  <2> QED BY <2>2, <2>3, <2>4
<1> QED BY <1>1, <1>2, <1>3, <1>4, <1>5, <1>6 DEF WatcherContinues

LEMMA NextInv == Inv /\ [Next]_vars => Inv'
<1> SUFFICES ASSUME Inv, [Next]_vars PROVE Inv'
  OBVIOUS
<1>1. ASSUME NEW pod \in Pods, Delete(pod) PROVE Inv'
  <2>1. Listed(pod) \in SUBSET Containers
    BY DEF Listed
  <2>2. container_map' \in [Containers -> Info]
    BY <1>1 DEF Delete, Inv, TypeOK, Info
  <2> QED BY <1>1, <2>1, <2>2, WatchInv DEF Delete
<1>2. ASSUME NEW pod \in Pods, NEW cids \in SUBSET Containers, NEW mode \in Info \ {"none"},
             Apply(pod, cids, mode)
      PROVE  Inv'
  <2>1. Listed(pod) \in SUBSET Containers
    BY DEF Listed
  <2>2. container_map' \in [Containers -> Info]
    BY <1>2 DEF Apply, Inv, TypeOK, Info
  <2> QED BY <1>2, <2>1, <2>2, WatchInv DEF Apply
<1>3. ASSUME NEW map \in [Containers -> Info], InitDone(map) PROVE Inv'
  <2> DEFINE gone == {c \in Containers : container_map[c] # "none" /\ map[c] = "none"}
  <2>1. gone \in SUBSET Containers
    OBVIOUS
  <2>2. watcher.step = "idle" /\ StartInvalidation(gone, TRUE) /\ container_map' \in [Containers -> Info]
    BY <1>3 DEF InitDone
  <2> HIDE DEF gone
  <2> QED BY <1>3, <2>1, <2>2, WatchInv DEF InitDone
<1>4. CASE UNCHANGED vars
  BY <1>4 DEF vars, shared, bpf, Inv, TypeOK, CanBeInvalidated, Linked, LabelsPending, Pending
<1> QED
  BY <1>1, <1>2, <1>3, <1>4, ResolveInv, LoopInv, ArmInv, EvictInv, WatcherInv DEF Next

(* The state of both threads is well typed in every reachable state. *)
THEOREM TypeCorrect == Spec => []TypeOK
<1>1. Inv => TypeOK
  BY DEF Inv
<1> QED BY <1>1, InitInv, NextInv, PTL DEF Spec

(* Everything resolve_k8s remembers of a process can be invalidated by the *)
(* watcher, at every step of both threads.                                 *)
THEOREM Invalidatable == Spec => []CanBeInvalidated
<1>1. Inv => CanBeInvalidated
  BY DEF Inv
<1> QED BY <1>1, InitInv, NextInv, PTL DEF Spec

(* No invalidation is lost between invalidate_containers and the ring arm, *)
(* which share changed_pids and the flag has_changes.                      *)
THEOREM NoLostInvalidation == Spec => []InvalidationReported
<1>1. Inv => InvalidationReported
  BY DEF Inv, LabelsPending, Pending, InvalidationReported, TypeOK
<1> QED BY <1>1, InitInv, NextInv, PTL DEF Spec
-----------------------------------------------------------------------------
(* The dirty flag.  SyncedUnlessDirty excuses the states in which the      *)
(* watcher holds the lock; to be preserved it must excuse only those in    *)
(* which it also has removed a process and not yet raised the flag.        *)
SyncInv ==
  /\ Inv
  /\ Cardinality(Pids) <= MapSize
  /\ upgraded_pids_synced = UPGRADED_PIDS
  /\ ~upgrade_dirty /\ loop.step # "sync" /\ ~(UpgradeLocked /\ watcher.shrunk)
       => UPGRADED_PIDS = upgraded_pids

(* The deletes and updates of a sync that starts from what the BPF map     *)
(* really holds, with room for every process, leave it equal to the set.   *)
LEMMA SyncExact ==
  ASSUME UPGRADED_PIDS \subseteq Pids, NEW desired \in SUBSET Pids, Cardinality(Pids) <= MapSize
  PROVE  Synced(UPGRADED_PIDS, desired) = {desired}
<1> DEFINE kept == UPGRADED_PIDS \ (UPGRADED_PIDS \ desired)
           new  == desired \ UPGRADED_PIDS
<1>1. kept \cup new = desired
  OBVIOUS
<1>2. IsFiniteSet(desired) /\ Cardinality(desired) <= Cardinality(Pids)
      /\ Cardinality(desired) \in Nat /\ Cardinality(Pids) \in Nat
  BY FS_Subset, FS_CardinalityType, ConstantsAssumption
<1>3. ASSUME NEW t \in SUBSET new,
             Cardinality(kept \cup t) = Cardinality(kept \cup new) \/ Cardinality(kept \cup t) = MapSize
      PROVE  kept \cup t = desired
  <2>1. kept \cup t \subseteq desired
    BY <1>1
  <2>2. IsFiniteSet(kept \cup t) /\ Cardinality(kept \cup t) <= Cardinality(desired)
        /\ Cardinality(kept \cup t) \in Nat
    BY <1>2, <2>1, FS_Subset, FS_CardinalityType
  <2>3. Cardinality(kept \cup t) = Cardinality(desired)
    <3>1. Cardinality(kept \cup t) = Cardinality(desired) \/ Cardinality(kept \cup t) = MapSize
      BY <1>1, <1>3
    <3>2. MapSize \in Nat
      BY ConstantsAssumption
    <3> HIDE DEF kept
    <3> QED BY <1>2, <2>2, <3>1, <3>2
  <2> QED BY <1>2, <2>1, <2>3, FS_Subset
<1>4. kept \cup new \in Synced(UPGRADED_PIDS, desired)
  BY DEF Synced
<1> QED BY <1>1, <1>3, <1>4 DEF Synced

LEMMA SyncNext == SyncInv /\ [Next]_vars => SyncInv'
<1> SUFFICES ASSUME SyncInv, [Next]_vars PROVE SyncInv'
  OBVIOUS
<1>0. Inv' /\ Cardinality(Pids) <= MapSize
  BY NextInv DEF SyncInv
<1> USE DEF SyncInv, Inv, TypeOK, UpgradeLocked, shared, bpf
<1>1. ASSUME NEW p \in Pids, Resolving(p) PROVE SyncInv'
  BY <1>0, <1>1 DEF Resolving, ResolveHit, ResolveGone, ResolveMiss, Between
<1>2. CASE ResolveLink \/ ResolvePromote
  BY <1>0, <1>2 DEF ResolveLink, ResolvePromote
<1>3. CASE ResolveStore \/ ArmDone \/ TakeChanged
  BY <1>0, <1>3, RestTypes DEF ResolveStore, ArmDone, TakeChanged, Between
<1>4. CASE SyncUpgraded
  <2>1. UPGRADED_PIDS' \in Synced(UPGRADED_PIDS, upgraded_pids)
    BY <1>4 DEF SyncUpgraded
  <2>2. UPGRADED_PIDS' = upgraded_pids
    BY <2>1, <1>0, SyncExact
  <2>3. upgraded_pids_synced' = upgraded_pids /\ upgraded_pids' = upgraded_pids
    BY <1>4 DEF SyncUpgraded
  <2> QED BY <1>0, <2>2, <2>3
<1>5. CASE RingArm \/ AggArm \/ GcArm
  <2>1. CASE RingArm \/ GcArm
    <3>1. loop.step # "sync" /\ UNCHANGED <<upgraded_pids, upgrade_dirty, bpf, watcher>>
      BY <2>1 DEF RingArm, GcArm
    <3> QED BY <1>0, <3>1
  <2>2. CASE AggArm
    <3>1. loop'.step = IF upgrade_dirty THEN "sync" ELSE "none"
      BY <2>2 DEF AggArm, LoopState
    <3>2. loop.step # "sync" /\ UNCHANGED <<upgraded_pids, bpf, watcher>>
      BY <2>2 DEF AggArm
    <3> QED BY <1>0, <3>1, <3>2
  <2> QED BY <1>5, <2>1, <2>2
<1>6. ASSUME NEW p \in Pids, evict_pid(p) PROVE SyncInv'
  <2>1. /\ upgraded_pids' = upgraded_pids \ {p}
        /\ upgrade_dirty' = (upgrade_dirty \/ p \in upgraded_pids)
        /\ UNCHANGED <<bpf, loop, watcher>>
    BY <1>6 DEF evict_pid
  <2>2. CASE p \in upgraded_pids
    BY <1>0, <2>1, <2>2
  <2>3. CASE p \notin upgraded_pids
    <3>1. upgraded_pids' = upgraded_pids /\ upgrade_dirty' = upgrade_dirty
      BY <2>1, <2>3
    <3> QED BY <1>0, <2>1, <3>1
  <2> QED BY <2>2, <2>3
<1>7. ASSUME NEW pod \in Pods, Delete(pod) PROVE SyncInv'
  BY <1>0, <1>7, RestTypes DEF Delete, StartInvalidation
<1>8. ASSUME NEW pod \in Pods, NEW cids \in SUBSET Containers, NEW mode \in Info \ {"none"},
             Apply(pod, cids, mode)
      PROVE  SyncInv'
  BY <1>0, <1>8, RestTypes DEF Apply, StartInvalidation
<1>9. ASSUME NEW map \in [Containers -> Info], InitDone(map) PROVE SyncInv'
  BY <1>0, <1>9, RestTypes DEF InitDone, StartInvalidation
<1>10. CASE Affected \/ Purge \/ Report \/ Retain
  <2>0. AfterInvalidation.step # "dirty" /\ Watching.step # "dirty"
    BY RestTypes DEF AfterInvalidation, WatcherState
  <2>1. watcher.step # "dirty" /\ watcher'.step # "dirty"
    BY <1>10, <2>0 DEF Affected, Purge, Report, Retain, WatcherState
  <2>2. UNCHANGED <<bpf, upgraded_pids, upgrade_dirty, loop>>
    BY <1>10 DEF Affected, Purge, Report, Retain
  <2> QED BY <1>0, <2>1, <2>2
<1>11. CASE Demote
  <2>1. /\ watcher'.step = "dirty" /\ watcher'.shrunk = (upgraded_pids \cap watcher.pids # {})
        /\ watcher.step = "demote"
    BY <1>11 DEF Demote, WatcherState
  <2>2. upgraded_pids' = upgraded_pids \ watcher.pids /\ UNCHANGED <<upgrade_dirty, bpf, loop>>
    BY <1>11 DEF Demote
  <2>3. ~watcher'.shrunk => upgraded_pids' = upgraded_pids
    BY <2>1, <2>2
  <2> QED BY <1>0, <2>1, <2>2, <2>3
<1>12. CASE SetDirty
  BY <1>0, <1>12 DEF SetDirty
<1>13. CASE UNCHANGED vars
  BY <1>0, <1>13 DEF vars
<1> QED
  BY <1>1, <1>2, <1>3, <1>4, <1>5, <1>6, <1>7, <1>8, <1>9, <1>10, <1>11, <1>12, <1>13
  DEF Next, LoopContinues, WatcherContinues

(* As long as UPGRADED_PIDS has room for every process, upgrade_dirty is   *)
(* never down while the BPF map differs from upgraded_pids, whatever the   *)
(* order of the swap in the aggregation arm and the store in the watcher.  *)
THEOREM DirtyFlagSound == Spec /\ Cardinality(Pids) <= MapSize => []SyncedUnlessDirty
<1>1. Init /\ Cardinality(Pids) <= MapSize => SyncInv
  BY InitInv DEF SyncInv, Init
<1>2. SyncInv => SyncedUnlessDirty
  BY DEF SyncInv, SyncedUnlessDirty
<1> QED BY <1>1, <1>2, SyncNext, PTL DEF Spec
=============================================================================
