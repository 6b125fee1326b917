------------------------- MODULE HandleCacheProofs -------------------------
(***************************************************************************)
(* Proofs about HandleCache, for any processes, labels and limits.         *)
(***************************************************************************)
EXTENDS HandleCache, FiniteSetTheorems, TLAPS

(* The provers that try a step which names none, and their time limits.    *)
USE ZenonT(5), SMTT(20), ZenonT(60)

Inv ==
  TypeOK /\ IsFiniteSet(cached) /\ WithinCaps /\ HandlesBounded /\ NoOrphanSeries

(* get_or_create caches a key of the right type, which differs from the    *)
(* event's only in a stream or a kernel that became 0.                     *)
LEMMA CollapseType ==
  ASSUME TypeOK, NEW event \in MetricKey
  PROVE  /\ Collapse(event) \in MetricKey
         /\ Collapse(event).pid = event.pid
         /\ Collapse(event).stream = Admit(streams_per_pid[event.pid], event.stream, max_streams_per_pid)
         /\ Collapse(event).addr = Admit(kernels_per_pid[event.pid], event.addr, max_kernels_per_pid)
<1>1. event.stream \in Streams \cup {0} /\ event.addr \in Kernels \cup {0}
  BY DEF MetricKey
<1>2. Admit(streams_per_pid[event.pid], event.stream, max_streams_per_pid) \in Streams \cup {0}
  BY <1>1 DEF Admit
<1>3. /\ Admit(kernels_per_pid[event.pid], event.addr, max_kernels_per_pid) \in Kernels \cup {0}
      /\ event.addr = 0 => Admit(kernels_per_pid[event.pid], event.addr, max_kernels_per_pid) = 0
  BY <1>1 DEF Admit
<1> QED BY <1>2, <1>3 DEF Collapse, MetricKey

(* What admitting a value does to the values known of a process. *)
LEMMA AdmitBounded ==
  ASSUME NEW U, IsFiniteSet(U), NEW known \in SUBSET U, NEW x, NEW cap \in Nat,
         Cardinality(known) <= cap, 0 \notin U
  PROVE  LET y == Admit(known, x, cap)
         IN  /\ Cardinality(known \cup ({y} \ {0})) <= cap
             /\ y \in (known \cup ({y} \ {0})) \cup {0}
<1> DEFINE y == Admit(known, x, cap)
<1>1. IsFiniteSet(known) /\ Cardinality(known) \in Nat
  BY FS_Subset, FS_CardinalityType
<1>2. CASE y \in known \cup {0}
  <2>1. known \cup ({y} \ {0}) = known
    BY <1>2
  <2> QED BY <1>2, <2>1
<1>3. CASE y \notin known \cup {0}
  <2>1. Cardinality(known) < cap
    BY <1>3 DEF Admit
  <2>2. known \cup ({y} \ {0}) = known \cup {y}
    BY <1>3
  <2>3. Cardinality(known \cup {y}) = Cardinality(known) + 1
    BY <1>1, <1>3, FS_AddElement
  <2> HIDE DEF y
  <2>4. Cardinality(known \cup ({y} \ {0})) <= cap
    BY <1>1, <2>1, <2>2, <2>3
  <2> QED BY <2>2, <2>4 DEF y
<1> QED BY <1>2, <1>3

(* What one event or drained key changes, with the key that was collapsed  *)
(* and the key whose handle was returned.                                  *)
LEMMA ProcessEffect ==
  ASSUME TypeOK, NEW event \in MetricKey, NEW drained \in BOOLEAN, Process(event, drained)
  PROVE  \E u \in MetricKey, pod \in Pods :
           LET k == Collapse(event)
           IN  /\ k \in MetricKey /\ u \in Returned(k) /\ u.pid = k.pid
               /\ u \in cached => pod = handles[u]
               /\ cached' = cached \cup {u}
               /\ handles' = [j \in cached \cup {u} |-> IF j = u THEN pod ELSE handles[j]]
               /\ registry' \subseteq registry \cup {CallsOf(u, pod), DurationOf(u, pod)}
                                               \cup DrainedOf(event.op, u, pod)
               /\ Remember(k)
               /\ last_seen' = [last_seen EXCEPT ![k.pid] = "fresh"]
<1> DEFINE k == Collapse(event)
<1>1. k \in MetricKey
  BY CollapseType
<1>2. PICK u \in Returned(k) :
        LET pod == IF u \in cached THEN handles[u] ELSE podOf[u.pid]
            new == IF u \in cached THEN {} ELSE {CallsOf(u, pod), DurationOf(u, pod)}
        IN  /\ handles' = [j \in cached \cup {u} |-> IF j = u THEN pod ELSE handles[j]]
            /\ registry' = registry \cup new
                                    \cup (IF drained THEN DrainedOf(event.op, u, pod) ELSE {})
  BY DEF Process
<1>3. u \in MetricKey /\ u.pid = k.pid /\ (u \in cached \/ u = k)
  BY <1>1 DEF Returned, Fallbacks, HandlesOf, TypeOK
<1> DEFINE pod == IF u \in cached THEN handles[u] ELSE podOf[u.pid]
<1>4. pod \in Pods
  <2>1. u.pid \in Pids
    BY <1>3 DEF MetricKey
  <2> QED BY <2>1 DEF TypeOK
<1>5. handles' = [j \in cached \cup {u} |-> IF j = u THEN pod ELSE handles[j]]
  BY <1>2
<1>6. cached' = cached \cup {u}
  BY <1>5 DEF cached
<1>7. registry' \subseteq registry \cup {CallsOf(u, pod), DurationOf(u, pod)}
                                   \cup DrainedOf(event.op, u, pod)
  BY <1>2
<1>8. Remember(k) /\ last_seen' = [last_seen EXCEPT ![k.pid] = "fresh"]
  BY DEF Process
<1>9. u \in cached => pod = handles[u]
  OBVIOUS
<1> HIDE DEF pod
<1> QED BY <1>1, <1>2, <1>3, <1>4, <1>5, <1>6, <1>7, <1>8, <1>9

(* get_or_create, for an event or a drained key, preserves the invariant. *)
LEMMA ProcessInv ==
  ASSUME Inv, NEW event \in MetricKey, NEW drained \in BOOLEAN, Process(event, drained),
         UNCHANGED world, ring_arm' \in BOOLEAN
  PROVE  Inv'
<1> DEFINE k == Collapse(event)
<1>1. PICK u \in MetricKey, pod \in Pods :
        /\ k \in MetricKey /\ u \in Returned(k) /\ u.pid = k.pid
        /\ u \in cached => pod = handles[u]
        /\ cached' = cached \cup {u}
        /\ handles' = [j \in cached \cup {u} |-> IF j = u THEN pod ELSE handles[j]]
        /\ registry' \subseteq registry \cup {CallsOf(u, pod), DurationOf(u, pod)}
                                        \cup DrainedOf(event.op, u, pod)
        /\ Remember(k)
        /\ last_seen' = [last_seen EXCEPT ![k.pid] = "fresh"]
  BY ProcessEffect DEF Inv
<1>2. k.pid \in Pids /\ k.stream \in Streams \cup {0} /\ k.addr \in Kernels \cup {0}
  BY <1>1 DEF MetricKey
<1>3. /\ k.pid = event.pid
      /\ k.stream = Admit(streams_per_pid[k.pid], event.stream, max_streams_per_pid)
      /\ k.addr = Admit(kernels_per_pid[k.pid], event.addr, max_kernels_per_pid)
  BY CollapseType DEF Inv
<1>4. u \in cached \/ (u = k /\ Fallbacks(k) = {})
  BY <1>1 DEF Returned, Fallbacks, HandlesOf
<1> HIDE DEF k
<1>5. /\ streams_per_pid' = [streams_per_pid EXCEPT ![k.pid] = @ \cup ({k.stream} \ {0})]
      /\ kernels_per_pid' = [kernels_per_pid EXCEPT ![k.pid] = @ \cup ({k.addr} \ {0})]
  BY <1>1 DEF Remember
<1>6. TypeOK'
  <2>1. streams_per_pid' \in [Pids -> SUBSET Streams] /\ kernels_per_pid' \in [Pids -> SUBSET Kernels]
    BY <1>2, <1>5 DEF Inv, TypeOK
  <2>2. cached' \subseteq MetricKey /\ handles' \in [cached' -> Pods]
    BY <1>1 DEF Inv, TypeOK
  <2>3. last_seen' \in [Pids -> {"never", "fresh", "stale"}]
        /\ \A j \in cached' : last_seen'[j.pid] # "never"
    <3>1. \A j \in cached' : j.pid \in Pids
      BY <2>2 DEF MetricKey
    <3> QED BY <1>1, <1>2, <3>1 DEF Inv, TypeOK
  <2> QED BY <2>1, <2>2, <2>3 DEF Inv, TypeOK, world
<1>7. IsFiniteSet(cached')
  BY <1>1, FS_AddElement DEF Inv
<1>8. WithinCaps'
  <2>1. 0 \notin Streams /\ 0 \notin Kernels /\ IsFiniteSet(Streams) /\ IsFiniteSet(Kernels)
        /\ max_streams_per_pid \in Nat /\ max_kernels_per_pid \in Nat
    BY ConstantsAssumption
  <2>2. streams_per_pid[k.pid] \in SUBSET Streams /\ kernels_per_pid[k.pid] \in SUBSET Kernels
    BY <1>2 DEF Inv, TypeOK
  <2>3. Cardinality(streams_per_pid[k.pid]) <= max_streams_per_pid
        /\ Cardinality(kernels_per_pid[k.pid]) <= max_kernels_per_pid
    BY <1>2 DEF Inv, WithinCaps
  <2>4. Cardinality(streams_per_pid[k.pid] \cup ({k.stream} \ {0})) <= max_streams_per_pid
    BY <1>3, <2>1, <2>2, <2>3, AdmitBounded
  <2>5. Cardinality(kernels_per_pid[k.pid] \cup ({k.addr} \ {0})) <= max_kernels_per_pid
    BY <1>3, <2>1, <2>2, <2>3, AdmitBounded
  <2>6. \A p \in Pids : /\ Cardinality(streams_per_pid'[p]) <= max_streams_per_pid
                        /\ Cardinality(kernels_per_pid'[p]) <= max_kernels_per_pid
    BY <1>2, <1>5, <2>4, <2>5 DEF Inv, TypeOK, WithinCaps
  <2>7. ASSUME NEW j \in cached'
        PROVE  j.stream \in streams_per_pid'[j.pid] \cup {0} /\ j.addr \in kernels_per_pid'[j.pid] \cup {0}
    <3>1. j \in cached \/ j = k
      BY <1>1, <1>4
    <3>2. j.pid \in Pids
      BY <1>6 DEF TypeOK, MetricKey
    <3>3. CASE j \in cached
      BY <1>2, <1>5, <3>2, <3>3 DEF Inv, TypeOK, WithinCaps
    <3>4. CASE j = k
      BY <1>2, <1>5, <3>4 DEF Inv, TypeOK
    <3> QED BY <3>1, <3>3, <3>4
  <2> QED BY <2>6, <2>7 DEF WithinCaps
<1>9. HandlesBounded'
  <2>1. CachedPids' = CachedPids \cup {u.pid}
    BY <1>1 DEF CachedPids
  <2>2. CachedPids \subseteq Pids
    BY DEF CachedPids, Inv, TypeOK, MetricKey
  <2>3. IsFiniteSet(CachedPids) /\ Cardinality(CachedPids) \in Nat /\ Cardinality(cached) \in Nat
    BY <2>2, FS_Subset, FS_CardinalityType, ConstantsAssumption DEF Inv
  <2>4. CASE u \in cached
    <3>1. cached' = cached /\ CachedPids' = CachedPids
      BY <1>1, <2>1, <2>4 DEF CachedPids
    <3> QED BY <3>1 DEF Inv, HandlesBounded
  <2>5. CASE u \notin cached
    <3>1. Cardinality(cached') = Cardinality(cached) + 1
      BY <1>1, <2>5, FS_AddElement DEF Inv
    <3>2. u = k /\ Fallbacks(k) = {}
      BY <1>4, <2>5
    <3>3. Cardinality(CachedPids') = IF u.pid \in CachedPids THEN Cardinality(CachedPids)
                                                              ELSE Cardinality(CachedPids) + 1
      BY <2>1, <2>3, FS_AddElement
    <3>4. max_time_series \in Nat \ {0}
      BY ConstantsAssumption
    <3>5. CASE Cardinality(cached) < max_time_series
      <4>1. Cardinality(CachedPids') >= 1
        <5>1. u.pid \in CachedPids => CachedPids # {}
          OBVIOUS
        <5>2. u.pid \in CachedPids => Cardinality(CachedPids) # 0
          BY <5>1, <2>3, FS_EmptySet
        <5> QED BY <5>2, <2>3, <3>3
      <4>2. Cardinality(CachedPids') \in Nat
        BY <2>3, <3>3
      <4> QED BY <2>3, <3>1, <3>4, <3>5, <4>1, <4>2 DEF HandlesBounded
    <3>6. CASE Cardinality(cached) >= max_time_series
      <4>1. HandlesOf({k.pid}) = {}
        BY <3>2, <3>6, <2>5 DEF Fallbacks
      <4>2. u.pid \notin CachedPids
        BY <4>1, <3>2 DEF HandlesOf, CachedPids
      <4>3. cached # {}
        BY <3>6, <3>4, FS_EmptySet
      <4>4. Cardinality(cached) <= max_time_series + Cardinality(CachedPids) - 1
        BY <4>3 DEF Inv, HandlesBounded
      <4> QED BY <2>3, <3>1, <3>3, <3>4, <4>2, <4>4 DEF HandlesBounded
    <3> QED BY <2>3, <3>4, <3>5, <3>6
  <2> QED BY <2>4, <2>5
<1>10. NoOrphanSeries'
  <2>1. \A j \in cached : j \in cached' /\ handles'[j] = handles[j]
    BY <1>1
  <2>2. u \in cached' /\ handles'[u] = pod
    BY <1>1
  <2>3. ASSUME NEW s \in registry', Fits(s)
        PROVE  \E j \in cached' : s \in SeriesOf(j, handles'[j])
    <3>1. CASE s \in registry
      BY <2>1, <2>3, <3>1 DEF Inv, NoOrphanSeries
    <3>2. CASE s \in {CallsOf(u, pod), DurationOf(u, pod)}
      BY <2>2, <3>2 DEF SeriesOf
    <3>3. CASE s \in DrainedOf(event.op, u, pod)
      <4>1. CASE event.op = "launch"
        BY <2>2, <3>3, <4>1 DEF DrainedOf, SeriesOf
      <4>2. CASE event.op # "launch"
        <5>1. s = CountOf(event.op, u, pod)
          BY <3>3, <4>2 DEF DrainedOf
        <5>2. s[2] = u.op /\ s[1] = IF event.op = "nccl" THEN "nccl_count" ELSE "cuda_count"
          BY <5>1 DEF CountOf
        <5>3. event.op = "nccl" <=> u.op = "nccl"
          BY <5>2, <2>3 DEF Fits
        <5>4. s = CountOf(u.op, u, pod)
          BY <5>1, <5>3 DEF CountOf
        <5> QED BY <2>2, <5>4 DEF SeriesOf
      <4> QED BY <4>1, <4>2
    <3> QED BY <1>1, <3>1, <3>2, <3>3
  <2> QED BY <2>3 DEF NoOrphanSeries
<1> QED BY <1>6, <1>7, <1>8, <1>9, <1>10 DEF Inv

(* Removing all handles of some processes preserves the invariant when     *)
(* what is remembered of the processes that keep a handle is kept.         *)
LEMMA RemoveInv ==
  ASSUME Inv, NEW ps \in SUBSET Pids, RemoveHandles(ps), TypeOK',
         \A p \in Pids : /\ streams_per_pid'[p] \subseteq streams_per_pid[p]
                         /\ kernels_per_pid'[p] \subseteq kernels_per_pid[p]
                         /\ p \notin ps => /\ streams_per_pid'[p] = streams_per_pid[p]
                                           /\ kernels_per_pid'[p] = kernels_per_pid[p]
  PROVE  Inv'
<1> DEFINE K == HandlesOf(ps)
           Q == CachedPids \cap ps
<1>1. /\ handles' = [k \in cached \ K |-> handles[k]]
      /\ registry' = registry \ UNION {SeriesOf(k, handles[k]) : k \in K}
  BY DEF RemoveHandles
<1>2. cached' = cached \ K
  BY <1>1 DEF cached
<1>3. K \subseteq cached /\ IsFiniteSet(K) /\ IsFiniteSet(cached \ K)
  BY FS_Subset DEF Inv, HandlesOf
<1>4. IsFiniteSet(cached')
  BY <1>2, <1>3
<1>5. WithinCaps'
  <2>1. \A k \in cached' : k \in cached /\ k.pid \in Pids /\ k.pid \notin ps
    BY <1>2 DEF HandlesOf, Inv, TypeOK, MetricKey
  <2>2. \A k \in cached' : /\ k.stream \in streams_per_pid'[k.pid] \cup {0}
                           /\ k.addr \in kernels_per_pid'[k.pid] \cup {0}
    <3> SUFFICES ASSUME NEW k \in cached'
                 PROVE  /\ k.stream \in streams_per_pid'[k.pid] \cup {0}
                        /\ k.addr \in kernels_per_pid'[k.pid] \cup {0}
      OBVIOUS
    <3>1. streams_per_pid'[k.pid] = streams_per_pid[k.pid]
          /\ kernels_per_pid'[k.pid] = kernels_per_pid[k.pid]
      BY <2>1
    <3>2. /\ k.stream \in streams_per_pid[k.pid] \cup {0}
          /\ k.addr \in kernels_per_pid[k.pid] \cup {0}
      BY <2>1 DEF Inv, WithinCaps
    <3> QED BY <3>1, <3>2
  <2>3. ASSUME NEW p \in Pids
        PROVE  /\ Cardinality(streams_per_pid'[p]) <= max_streams_per_pid
               /\ Cardinality(kernels_per_pid'[p]) <= max_kernels_per_pid
    <3>1. IsFiniteSet(streams_per_pid[p]) /\ IsFiniteSet(kernels_per_pid[p])
      BY FS_Subset, ConstantsAssumption DEF Inv, TypeOK
    <3>0. /\ streams_per_pid'[p] \in SUBSET streams_per_pid[p]
          /\ kernels_per_pid'[p] \in SUBSET kernels_per_pid[p]
      OBVIOUS
    <3>2. Cardinality(streams_per_pid'[p]) <= Cardinality(streams_per_pid[p])
          /\ IsFiniteSet(streams_per_pid'[p])
      BY <3>0, <3>1, FS_Subset
    <3>3. Cardinality(kernels_per_pid'[p]) <= Cardinality(kernels_per_pid[p])
          /\ IsFiniteSet(kernels_per_pid'[p])
      BY <3>0, <3>1, FS_Subset
    <3>4. /\ Cardinality(streams_per_pid[p]) \in Nat /\ Cardinality(streams_per_pid'[p]) \in Nat
          /\ Cardinality(kernels_per_pid[p]) \in Nat /\ Cardinality(kernels_per_pid'[p]) \in Nat
      BY <3>1, <3>2, <3>3, FS_CardinalityType
    <3> QED BY <3>2, <3>3, <3>4, ConstantsAssumption DEF Inv, WithinCaps
  <2> QED BY <2>2, <2>3 DEF WithinCaps
<1>6. HandlesBounded'
  <2>1. SUFFICES ASSUME cached' # {}
                 PROVE  Cardinality(cached') <= max_time_series + Cardinality(CachedPids') - 1
    BY DEF HandlesBounded
  <2>2. CachedPids \subseteq Pids
    BY DEF CachedPids, Inv, TypeOK, MetricKey
  <2>3. CachedPids' = CachedPids \ Q
    BY <1>2 DEF CachedPids, HandlesOf
  <2>4. IsFiniteSet(CachedPids) /\ IsFiniteSet(Q) /\ Q \subseteq CachedPids
    BY <2>2, FS_Subset, ConstantsAssumption
  <2>5. Cardinality(Q) <= Cardinality(K)
    <3> DEFINE pidOf == [k \in K |-> k.pid]
    <3>1. pidOf \in Surjection(K, Q)
      BY DEF Surjection, HandlesOf, CachedPids
    <3> HIDE DEF pidOf
    <3> QED BY <3>1, <1>3, FS_Surjection
  <2>6. Cardinality(cached') = Cardinality(cached) - Cardinality(K)
    <3>1. cached \cap K = K
      BY <1>3
    <3> QED BY <1>2, <3>1, FS_Difference DEF Inv
  <2>7. Cardinality(CachedPids') = Cardinality(CachedPids) - Cardinality(Q)
    <3>1. CachedPids \cap Q = Q
      OBVIOUS
    <3> QED BY <2>3, <2>4, <3>1, FS_Difference
  <2>8. Cardinality(cached) <= max_time_series + Cardinality(CachedPids) - 1
    BY <1>2, <2>1 DEF Inv, HandlesBounded
  <2>9. /\ Cardinality(cached) \in Nat /\ Cardinality(CachedPids) \in Nat
        /\ Cardinality(K) \in Nat /\ Cardinality(Q) \in Nat /\ max_time_series \in Nat
    BY <1>3, <2>4, FS_CardinalityType, ConstantsAssumption DEF Inv
  <2> HIDE DEF K, Q
  <2> QED BY <2>5, <2>6, <2>7, <2>8, <2>9
<1>7. NoOrphanSeries'
  <2>1. SUFFICES ASSUME NEW s \in registry', Fits(s)
                 PROVE  \E k \in cached' : s \in SeriesOf(k, handles'[k])
    BY DEF NoOrphanSeries
  <2>2. PICK k \in cached : s \in SeriesOf(k, handles[k])
    BY <1>1, <2>1 DEF Inv, NoOrphanSeries
  <2>3. k \notin K
    BY <1>1, <2>1, <2>2
  <2> HIDE DEF K
  <2> QED BY <1>1, <1>2, <2>2, <2>3
<1> QED BY <1>4, <1>5, <1>6, <1>7 DEF Inv

(* The invariant holds of the empty cache. *)
LEMMA InitInv == Init => Inv
<1> SUFFICES ASSUME Init PROVE Inv
  OBVIOUS
<1>1. cached = {}
  BY DEF Init, cached
<1>2. TypeOK
  <2>1. podOf \in [Pids -> Pods]
    BY DEF Init
  <2>2. handles \in [cached -> Pods]
    BY <1>1 DEF Init
  <2> QED BY <1>1, <2>1, <2>2 DEF Init, TypeOK
<1>3. IsFiniteSet(cached)
  BY <1>1, FS_EmptySet
<1>4. WithinCaps
  BY <1>1, FS_EmptySet, ConstantsAssumption DEF Init, WithinCaps
<1>5. HandlesBounded /\ NoOrphanSeries
  BY <1>1 DEF Init, HandlesBounded, NoOrphanSeries
<1> QED BY <1>2, <1>3, <1>4, <1>5 DEF Inv

(* Every step of the event loop, the watcher and the processes preserves   *)
(* the invariant.                                                          *)
LEMMA NextInv == Inv /\ [Next]_vars => Inv'
<1> SUFFICES ASSUME Inv, [Next]_vars PROVE Inv'
  OBVIOUS
<1>1. ASSUME UNCHANGED cache, TypeOK' PROVE Inv'
  <2>1. cached' = cached
    BY <1>1 DEF cache, cached
  <2>2. CachedPids' = CachedPids
    BY <2>1 DEF CachedPids
  <2> QED BY <1>1, <2>1, <2>2 DEF Inv, cache, WithinCaps, HandlesBounded, NoOrphanSeries
<1>2. CASE invalidate_pids
  <2>1. cached' \subseteq cached /\ handles' \in [cached' -> Pods]
    BY <1>2 DEF invalidate_pids, RemoveHandles, cached, Inv, TypeOK
  <2>2. TypeOK'
    BY <1>2, <2>1 DEF invalidate_pids, Inv, TypeOK
  <2>3. changed_pids \in SUBSET Pids /\ RemoveHandles(changed_pids)
    BY <1>2 DEF invalidate_pids, Inv, TypeOK
  <2> QED BY <1>2, <2>2, <2>3, RemoveInv DEF invalidate_pids
<1>3. ASSUME NEW k \in MetricKey, RingEvent(k) PROVE Inv'
  <2>1. Process(k, FALSE) /\ UNCHANGED world /\ ring_arm' \in BOOLEAN
    BY <1>3 DEF RingEvent, Inv, TypeOK
  <2> QED BY <2>1, ProcessInv
<1>4. ASSUME NEW k \in MetricKey, DrainKey(k) PROVE Inv'
  <2>1. Process(k, TRUE) /\ UNCHANGED world /\ ring_arm' \in BOOLEAN
    BY <1>4 DEF DrainKey, Inv, TypeOK
  <2> QED BY <2>1, ProcessInv
<1>5. CASE ClearReady
  BY <1>1, <1>5 DEF ClearReady, Inv, TypeOK, cache, world, cached
<1>6. CASE gc
  <2> DEFINE stale_pids == {p \in Pids : last_seen[p] = "stale"}
  <2>1. /\ RemoveHandles(stale_pids)
        /\ last_seen' = [p \in Pids |-> IF p \in stale_pids THEN "never" ELSE last_seen[p]]
        /\ streams_per_pid' = [p \in Pids |-> IF p \in stale_pids THEN {} ELSE streams_per_pid[p]]
        /\ kernels_per_pid' = [p \in Pids |-> IF p \in stale_pids THEN {} ELSE kernels_per_pid[p]]
        /\ UNCHANGED <<world, ring_arm>>
    BY <1>6 DEF gc
  <2>2. stale_pids \in SUBSET Pids
    OBVIOUS
  <2> HIDE DEF stale_pids
  <2>3. cached' = cached \ HandlesOf(stale_pids) /\ handles' \in [cached' -> Pods]
    BY <2>1 DEF RemoveHandles, cached, Inv, TypeOK
  <2>4. \A k \in cached' : k \in cached /\ k.pid \in Pids \ stale_pids
    BY <2>3 DEF HandlesOf, Inv, TypeOK, MetricKey
  <2>5. last_seen' \in [Pids -> {"never", "fresh", "stale"}]
        /\ \A k \in cached' : last_seen'[k.pid] # "never"
    BY <2>1, <2>4 DEF Inv, TypeOK
  <2>6. streams_per_pid' \in [Pids -> SUBSET Streams] /\ kernels_per_pid' \in [Pids -> SUBSET Kernels]
    BY <2>1 DEF Inv, TypeOK
  <2>7. TypeOK'
    BY <2>1, <2>3, <2>4, <2>5, <2>6 DEF Inv, TypeOK, world
  <2>8. \A p \in Pids : /\ streams_per_pid'[p] \subseteq streams_per_pid[p]
                        /\ kernels_per_pid'[p] \subseteq kernels_per_pid[p]
                        /\ p \notin stale_pids => /\ streams_per_pid'[p] = streams_per_pid[p]
                                                  /\ kernels_per_pid'[p] = kernels_per_pid[p]
    BY <2>1
  <2> QED BY <2>1, <2>2, <2>7, <2>8, RemoveInv
<1>7. ASSUME NEW p \in Pids, Age(p) PROVE Inv'
  <2>1. cached' = cached /\ CachedPids' = CachedPids
    BY <1>7 DEF Age, cached, CachedPids
  <2>2. TypeOK'
    <3>1. \A k \in cached : k.pid \in Pids
      BY DEF Inv, TypeOK, MetricKey
    <3> QED BY <1>7, <2>1, <3>1 DEF Age, Inv, TypeOK, world
  <2> QED BY <1>7, <2>1, <2>2 DEF Age, Inv, WithinCaps, HandlesBounded, NoOrphanSeries
<1>8. ASSUME NEW p \in Pids, Relabel(p) PROVE Inv'
  <2>1. cached' = cached
    BY <1>8 DEF Relabel, cache, cached
  <2>2. PodsOf[p] \subseteq Pods
    BY ConstantsAssumption
  <2>3. TypeOK'
    BY <1>8, <2>1, <2>2 DEF Relabel, cache, Inv, TypeOK
  <2> QED BY <1>1, <1>8, <2>3 DEF Relabel
<1>9. CASE UNCHANGED vars
  <2>1. cached' = cached
    BY <1>9 DEF vars, cache, cached
  <2>2. TypeOK'
    BY <1>9, <2>1 DEF vars, cache, world, Inv, TypeOK
  <2> QED BY <1>1, <1>9, <2>2 DEF vars
<1> QED BY <1>2, <1>3, <1>4, <1>5, <1>6, <1>7, <1>8, <1>9 DEF Next

(* The invariant holds in every reachable state. *)
LEMMA Invariance == Spec => []Inv
<1> QED BY InitInv, NextInv, PTL DEF Spec

(* MetricHandleCache keeps its types, and a process with a cached handle   *)
(* has a last_seen entry, so gc reaches every handle.                      *)
THEOREM TypeCorrect == Spec => []TypeOK
<1>1. Inv => TypeOK
  BY DEF Inv
<1> QED BY <1>1, Invariance, PTL

(* The stream and kernel caps of get_or_create hold for every process, for *)
(* any limits, whatever is evicted and seen again.                         *)
THEOREM CapsHold == Spec => []WithinCaps
<1>1. Inv => WithinCaps
  BY DEF Inv
<1> QED BY <1>1, Invariance, PTL

(* The global cap of get_or_create is exceeded by at most one handle per   *)
(* further process.                                                        *)
THEOREM GlobalCap == Spec => []HandlesBounded
<1>1. Inv => HandlesBounded
  BY DEF Inv
<1> QED BY <1>1, Invariance, PTL

(* remove_handle_metrics leaves no series of a removed handle behind,      *)
(* except those registered in another family's counters.                   *)
THEOREM NoOrphans == Spec => []NoOrphanSeries
<1>1. Inv => NoOrphanSeries
  BY DEF Inv
<1> QED BY <1>1, Invariance, PTL
-----------------------------------------------------------------------------
(* CallsExported, whatever pods the processes share.                       *)
ExportInv == Inv /\ CallsExported

(* The calls of a process are no series of a handle of another process,    *)
(* even when both have the same labels: they carry the pid.                *)
LEMMA CallsOwn ==
  ASSUME NEW k, NEW j, NEW podK, NEW podJ, k.pid # j.pid
  PROVE  CallsOf(k, podK) \notin SeriesOf(j, podJ)
<1>1. CallsOf(k, podK)[1] = "calls" /\ CallsOf(k, podK)[3] = k.pid
  BY DEF CallsOf
<1>2. ASSUME NEW s \in SeriesOf(j, podJ), s[1] = "calls" PROVE s[3] = j.pid
  <2>1. s \in {CallsOf(j, podJ), DurationOf(j, podJ), CountOf(j.op, j, podJ), KernelCountOf(j, podJ)}
    BY <1>2 DEF SeriesOf
  <2> QED BY <1>2, <2>1 DEF CallsOf, DurationOf, CountOf, KernelCountOf
<1> QED BY <1>1, <1>2

(* Removing the handles of some processes takes no calls from the others.  *)
LEMMA RemoveExported ==
  ASSUME ExportInv, NEW ps, RemoveHandles(ps)
  PROVE  CallsExported'
<1> DEFINE K == HandlesOf(ps)
<1>1. /\ handles' = [k \in cached \ K |-> handles[k]]
      /\ registry' = registry \ UNION {SeriesOf(k, handles[k]) : k \in K}
  BY DEF RemoveHandles
<1>2. cached' = cached \ K
  BY <1>1 DEF cached
<1>3. ASSUME NEW k \in cached \ K, NEW j \in K
      PROVE  CallsOf(k, handles[k]) \notin SeriesOf(j, handles[j])
  <2>1. k.pid # j.pid
    BY <1>3 DEF HandlesOf
  <2> QED BY <2>1, CallsOwn
<1> HIDE DEF K
<1>4. ASSUME NEW k \in cached' PROVE CallsOf(k, handles'[k]) \in registry'
  <2>1. k \in cached \ K /\ handles'[k] = handles[k]
    BY <1>1, <1>2
  <2>2. CallsOf(k, handles[k]) \in registry
    BY <2>1 DEF ExportInv, CallsExported
  <2> QED BY <1>1, <1>3, <2>1, <2>2
<1> QED BY <1>4 DEF CallsExported

(* get_or_create registers the calls of a new handle and removes nothing.  *)
LEMMA ProcessExported ==
  ASSUME ExportInv, NEW event \in MetricKey, NEW drained, Process(event, drained)
  PROVE  CallsExported'
<1> DEFINE k == Collapse(event)
<1>1. PICK u \in Returned(k) :
        LET pod == IF u \in cached THEN handles[u] ELSE podOf[u.pid]
            new == IF u \in cached THEN {} ELSE {CallsOf(u, pod), DurationOf(u, pod)}
        IN  /\ handles' = [j \in cached \cup {u} |-> IF j = u THEN pod ELSE handles[j]]
            /\ registry' = registry \cup new
                                    \cup (IF drained THEN DrainedOf(event.op, u, pod) ELSE {})
  BY DEF Process
<1> DEFINE pod == IF u \in cached THEN handles[u] ELSE podOf[u.pid]
<1>2. /\ handles' = [j \in cached \cup {u} |-> IF j = u THEN pod ELSE handles[j]]
      /\ registry \subseteq registry'
      /\ u \in cached => pod = handles[u]
      /\ u \notin cached => CallsOf(u, pod) \in registry'
  BY <1>1
<1>3. cached' = cached \cup {u}
  BY <1>2 DEF cached
<1> HIDE DEF pod, k
<1>4. ASSUME NEW j \in cached' PROVE CallsOf(j, handles'[j]) \in registry'
  <2>1. CASE j \in cached
    <3>1. handles'[j] = handles[j] /\ CallsOf(j, handles[j]) \in registry
      BY <1>2, <2>1 DEF ExportInv, CallsExported
    <3> QED BY <1>2, <3>1
  <2>2. CASE j \notin cached
    <3>1. j = u /\ handles'[j] = pod
      BY <1>2, <1>3, <1>4, <2>2
    <3> QED BY <1>2, <2>2, <3>1
  <2> QED BY <2>1, <2>2
<1> QED BY <1>4 DEF CallsExported

LEMMA NextExported == ExportInv /\ [Next]_vars => ExportInv'
<1> SUFFICES ASSUME ExportInv, [Next]_vars PROVE CallsExported'
  BY NextInv DEF ExportInv
<1>1. CASE invalidate_pids \/ gc
  BY <1>1, RemoveExported DEF invalidate_pids, gc
<1>2. ASSUME NEW k \in MetricKey, RingEvent(k) \/ DrainKey(k) PROVE CallsExported'
  BY <1>2, ProcessExported DEF RingEvent, DrainKey
<1>3. CASE ClearReady \/ (\E p \in Pids : Age(p) \/ Relabel(p)) \/ UNCHANGED vars
  <2>1. UNCHANGED <<handles, registry>>
    BY <1>3 DEF ClearReady, Age, Relabel, vars, cache
  <2>2. cached' = cached
    BY <2>1 DEF cached
  <2> QED BY <2>1, <2>2 DEF ExportInv, CallsExported
<1> QED BY <1>1, <1>2, <1>3 DEF Next

(* What a cached handle counts is always exported per process: for any     *)
(* sharing of pod labels, remove_handle_metrics of an evicted or a         *)
(* relabelled process never takes the calls series of another.             *)
THEOREM Exported == Spec => []CallsExported
<1>1. Init => ExportInv
  BY InitInv DEF Init, ExportInv, CallsExported, cached
<1>2. ExportInv => CallsExported
  BY DEF ExportInv
<1> QED BY <1>1, <1>2, NextExported, PTL DEF Spec
=============================================================================
