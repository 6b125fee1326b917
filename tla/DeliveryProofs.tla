--------------------------- MODULE DeliveryProofs ---------------------------
(***************************************************************************)
(* Proofs about Delivery, for any workloads, processes, kernels and sizes  *)
(* of the maps and of the ring: where every call is, what the histograms   *)
(* show of it, and that Delivery takes only steps of Ledger.               *)
(***************************************************************************)
EXTENDS Delivery, SumsProofs

(* The provers that try a step which names none, and their time limits.    *)
USE ZenonT(5), SMTT(20), ZenonT(60)

-----------------------------------------------------------------------------
(* A set of natural numbers has a least element, a bounded one a largest. *)
LEMMA Least ==
  ASSUME NEW S \in SUBSET Nat, S # {}
  PROVE  \E m \in S : \A x \in S : m <= x
<1>1. PICK m \in S : \A y \in S : ~ (<<y, m>> \in OpToRel(<, Nat))
  BY NatLessThanWellFounded, WFMin
<1>2. \A y \in S : ~ (y < m)
  BY <1>1 DEF OpToRel
<1> QED BY <1>2

LEMMA Largest ==
  ASSUME NEW n \in Nat, NEW S \in SUBSET (0 .. n), S # {}
  PROVE  \E m \in S : \A x \in S : x <= m
<1> DEFINE T == {n - x : x \in S}
<1>0. \A x \in S : x \in Nat /\ n - x \in Nat
  OBVIOUS
<1>1. T \in SUBSET Nat /\ T # {}
  BY <1>0
<1>2. PICK t \in T : \A y \in T : t <= y
  <2> HIDE DEF T
  <2> QED BY <1>1, Least
<1>3. PICK x \in S : t = n - x
  BY <1>2
<1>4. \A y \in S : y <= x
  BY <1>2, <1>3
<1> QED BY <1>4

(* Recording a batch is recording its durations one after the other. *)
LEMMA RecordAll ==
  ASSUME NEW s, NEW durs, Len(durs) \in Nat
  PROVE  \E after :
           /\ after = [i \in 0 .. Len(durs) |-> IF i = 0 THEN s ELSE record(after[i - 1], durs[i])]
           /\ record_all(s, durs) = after[Len(durs)]
<1> DEFINE Run(n) == \E after :
             after = [i \in 0 .. n |-> IF i = 0 THEN s ELSE record(after[i - 1], durs[i])]
           T == {n \in Nat : ~ Run(n)}
<1>1. T = {}
  <2> SUFFICES ASSUME T # {} PROVE FALSE
    OBVIOUS
  <2>1. PICK m \in T : \A x \in T : m <= x
    <3> HIDE DEF T
    <3>1. T \in SUBSET Nat
      BY DEF T
    <3> QED BY <3>1, Least
  <2>2. m # 0
    <3>1. [i \in 0 .. 0 |-> s] =
            [i \in 0 .. 0 |-> IF i = 0 THEN s ELSE record([j \in 0 .. 0 |-> s][i - 1], durs[i])]
      OBVIOUS
    <3>2. Run(0)
      BY <3>1
    <3> QED BY <3>2
  <2>3. m - 1 \in Nat /\ m - 1 \notin T
    BY <2>1, <2>2
  <2>4. PICK a : a = [i \in 0 .. m - 1 |-> IF i = 0 THEN s ELSE record(a[i - 1], durs[i])]
    BY <2>3
  <2> DEFINE b == [i \in 0 .. m |-> IF i = m THEN record(a[m - 1], durs[m]) ELSE a[i]]
  <2>5. ASSUME NEW i \in 0 .. m
        PROVE  b[i] = IF i = 0 THEN s ELSE record(b[i - 1], durs[i])
    <3>1. CASE i = 0
      BY <2>2, <2>4, <3>1
    <3>2. CASE i = m
      BY <2>2, <3>2
    <3>3. CASE i # 0 /\ i # m
      <4>1. i \in 0 .. m - 1 /\ i - 1 \in 0 .. m /\ i - 1 # m
        BY <3>3
      <4>2. b[i] = a[i] /\ b[i - 1] = a[i - 1]
        BY <3>3, <4>1
      <4>3. a[i] = record(a[i - 1], durs[i])
        BY <2>4, <3>3, <4>1
      <4> QED BY <3>3, <4>2, <4>3
    <3> QED BY <3>1, <3>2, <3>3
  <2>6. b = [i \in 0 .. m |-> IF i = 0 THEN s ELSE record(b[i - 1], durs[i])]
    BY <2>5
  <2>7. Run(m)
    <3> HIDE DEF b
    <3> QED BY <2>6
  <2> QED BY <2>1, <2>7
<1>2. Run(Len(durs))
  BY <1>1
<1> DEFINE after == CHOOSE after :
             after = [i \in 0 .. Len(durs) |-> IF i = 0 THEN s ELSE record(after[i - 1], durs[i])]
<1>3. after = [i \in 0 .. Len(durs) |-> IF i = 0 THEN s ELSE record(after[i - 1], durs[i])]
  BY <1>2
<1>4. record_all(s, durs) = after[Len(durs)]
  BY DEF record_all
<1> HIDE DEF after
<1> QED BY <1>3, <1>4

(* The statistics s are those of the durations D, and of them only. *)
Summary(s, D) ==
  /\ s \in TermStats
  /\ s.count = 0 => s = NoStats /\ D = {}
  /\ s.count > 0 => /\ s.min_ns \in D /\ s.max_ns \in D
                    /\ \A d \in D : s.min_ns <= d /\ d <= s.max_ns

(* Statistics without extremes, as the drain of AGGREGATED leaves them. *)
NoExtremes(s) == s.min_ns = 0 /\ s.max_ns = 0

(* One more duration. *)
LEMMA RecordOne ==
  ASSUME NEW s, NEW D \in SUBSET Nat, NEW d \in Nat
  PROVE  /\ s \in TermStats => record(s, d) \in TermStats /\ record(s, d).count = s.count + 1
         /\ Summary(s, D) => Summary(record(s, d), D \cup {d})
<1>1. ASSUME s \in TermStats PROVE record(s, d) \in TermStats /\ record(s, d).count = s.count + 1
  BY <1>1 DEF TermStats, record
<1>2. ASSUME Summary(s, D) PROVE Summary(record(s, d), D \cup {d})
  <2>1. s \in TermStats /\ s.count \in Nat /\ s.min_ns \in Nat /\ s.max_ns \in Nat
    BY <1>2 DEF Summary, TermStats
  <2>2. record(s, d).count > 0 /\ record(s, d).count # 0 /\ record(s, d) \in TermStats
    BY <1>1, <2>1
  <2>3. CASE s.count = 0
    <3>1. D = {} /\ s.max_ns = 0
      BY <1>2, <2>3 DEF Summary, NoStats
    <3>2. record(s, d).min_ns = d /\ record(s, d).max_ns = d
      BY <2>1, <2>3, <3>1 DEF record
    <3> QED BY <2>2, <3>1, <3>2 DEF Summary
  <2>4. CASE s.count > 0
    <3>1. /\ s.min_ns \in D /\ s.max_ns \in D
          /\ \A e \in D : s.min_ns <= e /\ e <= s.max_ns
      BY <1>2, <2>4 DEF Summary
    <3>2. /\ record(s, d).min_ns = IF d < s.min_ns THEN d ELSE s.min_ns
          /\ record(s, d).max_ns = IF d > s.max_ns THEN d ELSE s.max_ns
      BY <2>1, <2>4 DEF record
    <3>3. \A e \in D \cup {d} : record(s, d).min_ns <= e /\ e <= record(s, d).max_ns
      BY <2>1, <3>1, <3>2
    <3> QED BY <2>2, <3>1, <3>2, <3>3 DEF Summary
  <2> QED BY <2>1, <2>3, <2>4
<1> QED BY <1>1, <1>2

(* A batch adds its length to the count and its durations to the summary. *)
LEMMA RecordBatch ==
  ASSUME NEW s \in TermStats, NEW n \in Nat, NEW durs \in [1 .. n -> Nat], NEW D \in SUBSET Nat
  PROVE  /\ record_all(s, durs) \in TermStats
         /\ record_all(s, durs).count = s.count + n
         /\ n = 0 => record_all(s, durs) = s
         /\ Summary(s, D) => Summary(record_all(s, durs), D \cup {durs[i] : i \in 1 .. n})
<1>0. Len(durs) = n
  OBVIOUS
<1>1. PICK after :
        /\ after = [i \in 0 .. n |-> IF i = 0 THEN s ELSE record(after[i - 1], durs[i])]
        /\ record_all(s, durs) = after[n]
  BY <1>0, RecordAll
<1> DEFINE Good(i) == /\ after[i] \in TermStats /\ after[i].count = s.count + i
                      /\ Summary(s, D) => Summary(after[i], D \cup {durs[j] : j \in 1 .. i})
           T == {i \in 0 .. n : ~ Good(i)}
<1>2. Good(0)
  <2>1. after[0] = s /\ s.count \in Nat
    BY <1>1 DEF TermStats
  <2>2. {durs[j] : j \in 1 .. 0} = {} /\ D \cup {durs[j] : j \in 1 .. 0} = D
    OBVIOUS
  <2>3. after[0] \in TermStats /\ after[0].count = s.count + 0
    BY <2>1
  <2>4. Summary(s, D) => Summary(after[0], D \cup {durs[j] : j \in 1 .. 0})
    BY <2>1, <2>2, Zenon
  <2> QED BY <2>3, <2>4
<1>3. ASSUME NEW m \in 1 .. n, Good(m - 1) PROVE Good(m)
  <2>1. m - 1 \in 0 .. n /\ durs[m] \in Nat
    OBVIOUS
  <2>2. after[m] = record(after[m - 1], durs[m])
    BY <1>1, <2>1
  <2> DEFINE E == D \cup {durs[j] : j \in 1 .. m - 1}
  <2>3. E \in SUBSET Nat
    <3>1. \A j \in 1 .. m - 1 : durs[j] \in Nat
      OBVIOUS
    <3> QED BY <3>1
  <2>4. E \cup {durs[m]} = D \cup {durs[j] : j \in 1 .. m}
    <3>1. 1 .. m = (1 .. m - 1) \cup {m}
      OBVIOUS
    <3> QED BY <3>1
  <2>5. after[m - 1] \in TermStats /\ after[m - 1].count = s.count + (m - 1) /\ s.count \in Nat
    BY <1>3 DEF TermStats
  <2>6. after[m] \in TermStats /\ after[m].count = s.count + m
    <3>1. after[m] \in TermStats /\ after[m].count = after[m - 1].count + 1
      BY <2>1, <2>2, <2>5, RecordOne
    <3> QED BY <2>5, <3>1
  <2>7. ASSUME Summary(s, D) PROVE Summary(after[m], E \cup {durs[m]})
    <3>1. Summary(after[m - 1], E)
      BY <1>3, <2>7
    <3> HIDE DEF E
    <3>2. Summary(record(after[m - 1], durs[m]), E \cup {durs[m]})
      BY ONLY <2>1, <2>3, <3>1, RecordOne, Zenon
    <3> QED BY <2>2, <3>2, Zenon
  <2> QED BY <2>4, <2>6, <2>7
<1>4. T = {}
  <2> SUFFICES ASSUME T # {} PROVE FALSE
    OBVIOUS
  <2> HIDE DEF Good
  <2>1. PICK m \in T : \A x \in T : m <= x
    <3> HIDE DEF T
    <3>1. T \in SUBSET Nat
      BY DEF T
    <3> QED BY <3>1, Least
  <2>2. m \in 1 .. n
    BY <1>2, <2>1
  <2>3. m - 1 \notin T /\ m - 1 \in 0 .. n
    BY <2>1, <2>2
  <2> QED BY <1>3, <2>1, <2>2, <2>3
<1>5. Good(n)
  <2> HIDE DEF Good
  <2> QED BY <1>4
<1>6. n = 0 => after[n] = s
  BY <1>1
<1> QED BY <1>1, <1>5, <1>6

(* merge summarises the durations of both. *)
LEMMA MergeBoth ==
  ASSUME NEW s \in TermStats, NEW t \in TermStats, NEW D \in SUBSET Nat, NEW E \in SUBSET Nat
  PROVE  /\ merge(s, t) \in TermStats
         /\ merge(s, t).count = s.count + t.count
         /\ NoExtremes(s) /\ NoExtremes(t) => NoExtremes(merge(s, t))
         /\ Summary(s, D) /\ Summary(t, E) => Summary(merge(s, t), D \cup E)
<1>0. /\ s.count \in Nat /\ s.min_ns \in Nat /\ s.max_ns \in Nat
      /\ t.count \in Nat /\ t.min_ns \in Nat /\ t.max_ns \in Nat
  BY DEF TermStats
<1>1. merge(s, t) \in TermStats /\ merge(s, t).count = s.count + t.count
  BY <1>0 DEF merge, TermStats
<1>2. NoExtremes(s) /\ NoExtremes(t) => NoExtremes(merge(s, t))
  BY <1>0 DEF merge, NoExtremes
<1>3. ASSUME Summary(s, D), Summary(t, E) PROVE Summary(merge(s, t), D \cup E)
  <2>1. CASE t.count = 0
    <3>1. merge(s, t) = s /\ E = {}
      BY <1>3, <2>1 DEF merge, Summary
    <3> QED BY <1>3, <3>1
  <2>2. CASE t.count > 0
    <3>1. /\ t.min_ns \in E /\ t.max_ns \in E
          /\ \A e \in E : t.min_ns <= e /\ e <= t.max_ns
      BY <1>3, <2>2 DEF Summary
    <3>2. merge(s, t).count > 0 /\ merge(s, t).count # 0
      BY <1>0, <1>1, <2>2
    <3>3. /\ merge(s, t).min_ns = IF s.count = 0 \/ t.min_ns < s.min_ns THEN t.min_ns ELSE s.min_ns
          /\ merge(s, t).max_ns = IF t.max_ns > s.max_ns THEN t.max_ns ELSE s.max_ns
      BY <1>0, <2>2 DEF merge
    <3>4. CASE s.count = 0
      <4>1. D = {} /\ s.max_ns = 0
        BY <1>3, <3>4 DEF Summary, NoStats
      <4>2. merge(s, t).min_ns = t.min_ns /\ merge(s, t).max_ns = t.max_ns
        BY <1>0, <3>3, <3>4, <4>1
      <4> QED BY <1>1, <3>1, <3>2, <4>1, <4>2 DEF Summary
    <3>5. CASE s.count > 0
      <4>1. /\ s.min_ns \in D /\ s.max_ns \in D
            /\ \A e \in D : s.min_ns <= e /\ e <= s.max_ns
        BY <1>3, <3>5 DEF Summary
      <4>2. \A e \in D \cup E : merge(s, t).min_ns <= e /\ e <= merge(s, t).max_ns
        BY <1>0, <3>1, <3>3, <3>5, <4>1
      <4>3. merge(s, t).min_ns \in D \cup E /\ merge(s, t).max_ns \in D \cup E
        BY <3>1, <3>3, <4>1
      <4> QED BY <1>1, <3>2, <4>2, <4>3 DEF Summary
    <3> QED BY <1>0, <3>4, <3>5
  <2> QED BY <1>0, <2>1, <2>2
<1> QED BY <1>1, <1>2, <1>3

-----------------------------------------------------------------------------
(* Bags and buckets.                                                       *)

LEMMA SizeType ==
  ASSUME NEW D, IsFiniteSet(D), NEW bag \in [D -> Nat]
  PROVE  /\ Size(bag) \in Nat
         /\ \A S \in SUBSET D : CountIn(bag, S) \in Nat
         /\ CountIn(bag, D) = Size(bag)
<1>1. Size(bag) \in Nat
  BY SumType DEF Size
<1>2. ASSUME NEW S \in SUBSET D PROVE CountIn(bag, S) \in Nat
  <2>1. IsFiniteSet(S) /\ [d \in S |-> bag[d]] \in [S -> Nat]
    BY FS_Subset
  <2> QED BY <2>1, SumType DEF CountIn
<1>3. CountIn(bag, D) = Size(bag)
  <2>1. [d \in D |-> bag[d]] = bag
    OBVIOUS
  <2> QED BY <2>1 DEF CountIn, Size
<1> QED BY <1>1, <1>2, <1>3

(* The number of bounds of a family. *)
LEMMA Tables ==
  ASSUME NEW family \in {"cuda", "nccl", "launch"}
  PROVE  /\ Len(BoundsOf(family)) \in Nat \ {0}
         /\ BoundsOf(family) \in [1 .. Len(BoundsOf(family)) -> Nat]
<1>1. CUDA_BUCKET_BOUNDS_NS \in Seq(Nat) /\ Len(CUDA_BUCKET_BOUNDS_NS) # 0
  BY SMT DEF CUDA_BUCKET_BOUNDS_NS
<1>2. NCCL_BUCKET_BOUNDS_NS \in Seq(Nat) /\ Len(NCCL_BUCKET_BOUNDS_NS) # 0
  BY SMT DEF NCCL_BUCKET_BOUNDS_NS
<1>3. KERNEL_BUCKET_BOUNDS_NS \in Seq(Nat) /\ Len(KERNEL_BUCKET_BOUNDS_NS) # 0
  BY SMT DEF KERNEL_BUCKET_BOUNDS_NS
<1>4. BoundsOf(family) \in Seq(Nat) /\ Len(BoundsOf(family)) # 0
  BY <1>1, <1>2, <1>3, Zenon DEF BoundsOf
<1> QED BY <1>4, SMT

LEMMA CumulativeType ==
  ASSUME NEW n \in Nat, NEW counts \in [1 .. n -> Nat]
  PROVE  Cumulative(counts) \in [1 .. n -> Nat]
<1> SUFFICES ASSUME NEW i \in 1 .. n PROVE Sum([j \in 1 .. i |-> counts[j]]) \in Nat
  BY DEF Cumulative
<1>1. [j \in 1 .. i |-> counts[j]] \in [1 .. i -> Nat] /\ IsFiniteSet(1 .. i)
  BY FS_Interval
<1> QED BY <1>1, SumType

LEMMA BucketsType ==
  ASSUME NEW family \in {"cuda", "nccl", "launch"},
         NEW D, IsFiniteSet(D), NEW bag \in [D -> Nat]
  PROVE  bucket_counts(family, bag) \in [1 .. Len(BoundsOf(family)) + 1 -> Nat]
<1>1. \A i \in 1 .. Len(BoundsOf(family)) + 1 :
        CountIn(bag, {d \in DOMAIN bag : BucketIdxOf(family, d) = i}) \in Nat
  BY SizeType
<1> QED BY <1>1 DEF bucket_counts

-----------------------------------------------------------------------------
(* Types.                                                                  *)

(* What the workload of a behaviour is made of. *)
LEMMA Workload ==
  ASSUME workload \in Workloads
  PROVE  /\ workload.family \in {"cuda", "nccl", "launch"}
         /\ workload.kernel_mode \in {"off", "anonymous", "full"}
         /\ workload.detailed_launches \in BOOLEAN
         /\ workload.pids \in SUBSET Pids
         /\ workload.max_calls \in Nat
         /\ durations \in SUBSET Nat /\ IsFiniteSet(durations)
BY ConstantsAssumption DEF durations

LEMMA KeysFinite == IsFiniteSet(Keys)
<1>1. IsFiniteSet({0}) /\ IsFiniteSet(Kernels \cup {0})
  BY ConstantsAssumption, FS_Singleton, FS_Union
<1> QED BY <1>1, ConstantsAssumption, FS_Product DEF Keys

(* A hash map that has room for a key stays within its size when the value *)
(* of this key changes.                                                    *)
LEMMA RoomKept ==
  ASSUME NEW K, IsFiniteSet(K), NEW m, NEW n, DOMAIN m = K, DOMAIN n = K, NEW free,
         NEW k \in K, \A j \in K \ {k} : n[j] = m[j], NEW cap \in Nat,
         HasRoom(m, free, cap, k), Cardinality(Present(m, free)) <= cap
  PROVE  Cardinality(Present(n, free)) <= cap
<1>1. IsFiniteSet(Present(m, free)) /\ IsFiniteSet(Present(m, free) \cup {k})
  BY FS_Subset, FS_AddElement DEF Present
<1>2. Present(n, free) \subseteq Present(m, free) \cup {k}
  BY DEF Present
<1>3. /\ Cardinality(Present(n, free)) <= Cardinality(Present(m, free) \cup {k})
      /\ Cardinality(Present(n, free)) \in Nat
      /\ Cardinality(Present(m, free)) \in Nat
  BY <1>1, <1>2, FS_Subset, FS_CardinalityType
<1>4. Cardinality(Present(m, free) \cup {k}) =
        IF k \in Present(m, free) THEN Cardinality(Present(m, free))
        ELSE Cardinality(Present(m, free)) + 1
  BY <1>1, FS_AddElement
<1> QED BY <1>3, <1>4 DEF HasRoom

(* A key counts no more calls than were made, and the key that was read    *)
(* still counts what was read of it.                                       *)
CountsOK ==
  /\ made <= workload.max_calls
  /\ \A k \in Keys, d \in durations : AGG[k][d] <= made
  /\ current # <<>> => \A d \in durations : current[2][d] <= AGG[current[1]][d]

TypeInv == TypeOK /\ CountsOK

(* The type invariant by the groups of variables the actions name. *)
MapType ==
  /\ AGG \in [Keys -> [durations -> 0 .. workload.max_calls]]
  /\ Cardinality(Present(AGG, Empty)) <= AggSize
  /\ keys \subseteq Keys
  /\ current # <<>> => current \in Keys \X [durations -> 0 .. workload.max_calls]
  /\ bucket_total \in [1 .. Len(BoundsOf(workload.family)) + 1 -> Nat]
  /\ exported \in [durations -> Nat]

RingType ==
  /\ EVENTS \in Seq(Event) /\ Len(EVENTS) <= RingSize
  /\ readable \in BOOLEAN
  /\ kernel_histogram \in [durations -> Nat]

CounterType ==
  /\ DROPPED \in Nat /\ LAUNCH_DROPPED \in Nat /\ lost \in Nat /\ calls \in Nat /\ made \in Nat

MetricType ==
  /\ dropped_events \in Nat /\ launch_agg_drops \in Nat
  /\ last_dropped_total \in Nat /\ last_launch_dropped \in Nat

AdaptType ==
  /\ consecutive_overflow_ticks \in Nat /\ consecutive_clear_ticks \in Nat
  /\ agg_interval_fast \in BOOLEAN

NvtxType ==
  /\ NVTX_STACK \in [Pids -> Ranges \cup {None}]
  /\ ranges \in [Pids -> Seq(Ranges \cup {None})]

StatType == local_term_stats \in TermStats /\ term_stats \in TermStats

LEMMA TypeGroups ==
  TypeOK <=> /\ workload \in Workloads /\ UPGRADED_PIDS \subseteq Pids
             /\ MapType /\ RingType /\ CounterType /\ MetricType /\ AdaptType /\ NvtxType /\ StatType
BY DEF TypeOK, MapType, RingType, CounterType, MetricType, AdaptType, NvtxType, StatType

LEMMA TypeGroupsNext ==
  TypeOK' <=> /\ workload' \in Workloads /\ UPGRADED_PIDS' \subseteq Pids
              /\ MapType' /\ RingType' /\ CounterType' /\ MetricType' /\ AdaptType' /\ NvtxType' /\ StatType'
BY DEF TypeOK, MapType, RingType, CounterType, MetricType, AdaptType, NvtxType, StatType

LEMMA InitType == Init => TypeInv
<1> SUFFICES ASSUME Init PROVE TypeInv
  OBVIOUS
<1>0. workload \in Workloads
  BY DEF Init
<1>1. Empty \in [durations -> 0 .. workload.max_calls] /\ Empty \in [durations -> Nat]
  BY <1>0, Workload DEF Empty, NoDurations
<1>2. AGG = [k \in Keys |-> Empty] /\ AGG \in [Keys -> [durations -> 0 .. workload.max_calls]]
  BY <1>1 DEF Init
<1>3. Cardinality(Present(AGG, Empty)) <= AggSize
  <2>1. Present(AGG, Empty) = {}
    BY <1>2 DEF Present
  <2> QED BY <2>1, FS_EmptySet, ConstantsAssumption
<1>4. bucket_total \in [1 .. Len(BoundsOf(workload.family)) + 1 -> Nat]
  BY <1>0, <1>1, Workload, BucketsType DEF Init
<1>5. EVENTS \in Seq(Event) /\ Len(EVENTS) <= RingSize
  BY ConstantsAssumption DEF Init
<1>6. NVTX_STACK \in [Pids -> Ranges \cup {None}] /\ ranges \in [Pids -> Seq(Ranges \cup {None})]
  BY DEF Init
<1>7. {local_term_stats, term_stats} \subseteq TermStats
  BY DEF Init, NoStats, TermStats
<1>8. CountsOK
  <2>1. \A d \in durations : Empty[d] = 0
    BY DEF Empty, NoDurations
  <2> QED BY <1>0, <1>2, <2>1, Workload DEF CountsOK, Init
<1>9. UPGRADED_PIDS \subseteq Pids /\ keys \subseteq Keys /\ current = <<>>
  BY DEF Init
<1>10. {kernel_histogram, exported} \subseteq [durations -> Nat]
  BY <1>1 DEF Init
<1>11. {DROPPED, LAUNCH_DROPPED, dropped_events, launch_agg_drops, last_dropped_total,
        last_launch_dropped, consecutive_overflow_ticks, consecutive_clear_ticks,
        calls, made, lost} \subseteq Nat
  BY DEF Init
<1>12. readable \in BOOLEAN /\ agg_interval_fast \in BOOLEAN
  BY Zenon DEF Init
<1> QED BY <1>0, <1>2, <1>3, <1>4, <1>5, <1>6, <1>7, <1>8, <1>9, <1>10, <1>11, <1>12 DEF TypeInv, TypeOK

(* The innermost named range: it is one of those open, and a push adds its *)
(* name or leaves it.                                                      *)
LEMMA InnermostIs ==
  ASSUME NEW R, NEW rs \in Seq(R), NEW m \in DOMAIN rs, rs[m] # None,
         \A x \in DOMAIN rs : rs[x] # None => x <= m
  PROVE  Innermost(rs) = rs[m]
<1> DEFINE named == {i \in DOMAIN rs : rs[i] # None}
<1>1. m \in named /\ named \subseteq Nat /\ \A y \in named : m >= y
  OBVIOUS
<1>2. Innermost(rs) = rs[Max(named)]
  BY <1>1 DEF Innermost
<1> HIDE DEF named
<1>3. \A x \in named : (\A y \in named : x >= y) => x = m
  BY <1>1
<1>4. Max(named) = m
  BY <1>1, <1>3 DEF Max
<1> QED BY <1>2, <1>4

LEMMA InnermostExists ==
  ASSUME NEW R, NEW rs \in Seq(R)
  PROVE  \/ Innermost(rs) = None /\ \A i \in DOMAIN rs : rs[i] = None
         \/ \E m \in DOMAIN rs : /\ rs[m] # None /\ Innermost(rs) = rs[m]
                               /\ \A x \in DOMAIN rs : rs[x] # None => x <= m
<1> DEFINE named == {i \in DOMAIN rs : rs[i] # None}
<1>1. CASE named = {}
  BY <1>1 DEF Innermost
<1>2. CASE named # {}
  <2>1. named \in SUBSET (0 .. Len(rs)) /\ Len(rs) \in Nat
    OBVIOUS
  <2>2. PICK m \in named : \A x \in named : x <= m
    <3> HIDE DEF named
    <3> QED BY <1>2, <2>1, Largest
  <2>3. m \in DOMAIN rs /\ rs[m] # None /\ \A x \in DOMAIN rs : rs[x] # None => x <= m
    BY <2>2
  <2>4. Innermost(rs) = rs[m]
    BY <2>3, InnermostIs
  <2> QED BY <2>3, <2>4
<1> QED BY <1>1, <1>2

LEMMA InnermostType ==
  ASSUME TypeOK, NEW p \in Pids
  PROVE  Innermost(ranges[p]) \in Ranges \cup {None}
<1>1. ranges[p] \in Seq(Ranges \cup {None})
  BY DEF TypeOK
<1>2. \A i \in DOMAIN ranges[p] : ranges[p][i] \in Ranges \cup {None}
  BY <1>1
<1> QED BY <1>1, <1>2, InnermostExists

LEMMA InnermostPushed ==
  ASSUME NEW R, NEW rs \in Seq(R), NEW name \in R
  PROVE  Innermost(Append(rs, name)) = IF name # None THEN name ELSE Innermost(rs)
<1>1. /\ Append(rs, name) \in Seq(R) /\ Len(rs) \in Nat
      /\ DOMAIN Append(rs, name) = 1 .. Len(rs) + 1 /\ DOMAIN rs = 1 .. Len(rs)
      /\ Append(rs, name)[Len(rs) + 1] = name
      /\ \A i \in DOMAIN rs : Append(rs, name)[i] = rs[i]
  OBVIOUS
<1>2. CASE name # None
  <2>1. Len(rs) + 1 \in DOMAIN Append(rs, name)
    BY <1>1
  <2>2. \A x \in DOMAIN Append(rs, name) : x <= Len(rs) + 1
    BY <1>1
  <2> QED BY <1>1, <1>2, <2>1, <2>2, InnermostIs
<1>3. CASE name = None
  <2>1. CASE Innermost(rs) = None /\ \A i \in DOMAIN rs : rs[i] = None
    <3>1. \A i \in DOMAIN Append(rs, name) : Append(rs, name)[i] = None
      BY <1>1, <1>3, <2>1
    <3>2. Innermost(Append(rs, name)) = None
      BY <1>1, <3>1, InnermostExists
    <3> QED BY <1>3, <2>1, <3>2
  <2>2. ASSUME NEW m \in DOMAIN rs, rs[m] # None, Innermost(rs) = rs[m],
               \A x \in DOMAIN rs : rs[x] # None => x <= m
        PROVE  Innermost(Append(rs, name)) = Innermost(rs)
    <3>1. m \in DOMAIN Append(rs, name) /\ Append(rs, name)[m] = rs[m]
      BY <1>1
    <3>2. \A x \in DOMAIN Append(rs, name) : Append(rs, name)[x] # None => x <= m
      BY <1>1, <1>3, <2>2
    <3>3. Innermost(Append(rs, name)) = Append(rs, name)[m]
      BY <1>1, <2>2, <3>1, <3>2, InnermostIs
    <3> QED BY <2>2, <3>1, <3>3
  <2> QED BY <1>3, <2>1, <2>2, InnermostExists
<1> QED BY <1>2, <1>3

(* What follows from the workload alone does not change. *)
LEMMA Same ==
  ASSUME workload' = workload
  PROVE  /\ durations' = durations /\ Empty' = Empty /\ Event' = Event
         /\ Launches' = Launches /\ DetailedLaunches' = DetailedLaunches
BY DEF durations, Empty, Event, Launches, DetailedLaunches

LEMMA GroupsKept ==
  ASSUME TypeOK, workload' = workload
  PROVE  /\ workload' \in Workloads
         /\ UNCHANGED UPGRADED_PIDS => UPGRADED_PIDS' \subseteq Pids
         /\ UNCHANGED map => MapType'
         /\ UNCHANGED ring => RingType'
         /\ UNCHANGED <<drops, calls, made>> => CounterType'
         /\ UNCHANGED metrics => MetricType'
         /\ UNCHANGED adapt => AdaptType'
         /\ UNCHANGED nvtx => NvtxType'
         /\ UNCHANGED stats => StatType'
<1>1. workload' \in Workloads /\ (UNCHANGED UPGRADED_PIDS => UPGRADED_PIDS' \subseteq Pids)
  BY DEF TypeOK
<1>2. UNCHANGED map => MapType'
  BY TypeGroups, Same DEF map, MapType
<1>3. UNCHANGED ring => RingType'
  BY TypeGroups, Same DEF ring, RingType
<1>4. UNCHANGED <<drops, calls, made>> => CounterType'
  BY TypeGroups DEF drops, CounterType
<1>5. UNCHANGED metrics => MetricType'
  BY TypeGroups DEF metrics, MetricType
<1>6. UNCHANGED adapt => AdaptType'
  BY TypeGroups DEF adapt, AdaptType
<1>7. UNCHANGED nvtx => NvtxType'
  BY TypeGroups DEF nvtx, NvtxType
<1>8. UNCHANGED stats => StatType'
  BY TypeGroups DEF stats, StatType
<1> QED BY <1>1, <1>2, <1>3, <1>4, <1>5, <1>6, <1>7, <1>8

(* The event emit_exit submits. *)
LEMMA SubmitType ==
  ASSUME TypeOK, NEW p \in Pids, NEW d \in durations, Submit(p, d)
  PROVE  /\ EVENTS' \in Seq(Event) /\ Len(EVENTS') <= RingSize /\ readable' \in BOOLEAN
         /\ DROPPED' \in Nat
<1>1. /\ EVENTS \in Seq(Event) /\ Len(EVENTS) <= RingSize /\ readable \in BOOLEAN
      /\ DROPPED \in Nat /\ RingSize \in Nat /\ Len(EVENTS) \in Nat
  BY ConstantsAssumption DEF TypeOK
<1> DEFINE e == [duration_ns |-> d, nvtx_marker |-> NVTX_STACK[p], open |-> Innermost(ranges[p])]
<1>2. e \in Event
  <2>1. NVTX_STACK[p] \in Ranges \cup {None}
    BY DEF TypeOK
  <2> QED BY <2>1, InnermostType DEF Event
<1>3. CASE Len(EVENTS) = RingSize /\ DROPPED' = DROPPED + 1 /\ UNCHANGED <<EVENTS, readable>>
  BY <1>1, <1>3
<1>4. CASE /\ Len(EVENTS) < RingSize /\ EVENTS' = Append(EVENTS, e)
           /\ readable' = (readable \/ EVENTS = <<>>) /\ UNCHANGED DROPPED
  <2>1. EVENTS' \in Seq(Event) /\ Len(EVENTS') = Len(EVENTS) + 1
    <3> HIDE DEF e
    <3> QED BY <1>1, <1>2, <1>4
  <2>2. readable' \in BOOLEAN
    BY <1>4, Zenon
  <2> QED BY <1>1, <1>4, <2>1, <2>2
<1> QED BY <1>3, <1>4 DEF Submit

(* How emit_exit counts a call in the map: in a key that has room, or not  *)
(* at all.                                                                 *)
Counts(k, d) ==
  /\ HasRoom(AGG, Empty, AggSize, k)
  /\ AGG' = [AGG EXCEPT ![k][d] = @ + 1]

(* What emit_exit does, path by path. *)
LEMMA EmitPaths ==
  ASSUME TypeOK, NEW p \in Pids, NEW addr \in Kernels, NEW d \in durations, emit_exit(p, addr, d)
  PROVE  /\ workload' = workload /\ made < workload.max_calls /\ made' = made + 1
         /\ \/ \E k \in Keys : Counts(k, d) /\ UNCHANGED <<LAUNCH_DROPPED, lost>>
            \/ /\ AGG' = AGG
               /\ LAUNCH_DROPPED' = IF Launches THEN LAUNCH_DROPPED + 1 ELSE LAUNCH_DROPPED
               /\ lost' = IF Launches THEN lost ELSE lost + 1
         /\ \/ Submit(p, d) /\ DetailedLaunches
            \/ /\ UNCHANGED <<EVENTS, readable, DROPPED>>
               /\ ~ DetailedLaunches \/ workload.kernel_mode = "anonymous"
         /\ UNCHANGED <<UPGRADED_PIDS, keys, current, bucket_total, exported,
                        kernel_histogram, metrics, adapt, nvtx, stats, calls>>
<1> DEFINE mode == IF workload.kernel_mode = "anonymous" /\ p \notin UPGRADED_PIDS THEN 1 ELSE 0
           key  == <<p, IF Launches /\ mode = 0 THEN addr ELSE 0>>
           fits == HasRoom(AGG, Empty, AggSize, key)
<1>1. key \in Keys
  BY DEF Keys
<1>2. /\ workload' = workload /\ made < workload.max_calls /\ made' = made + 1
      /\ AGG' = IF fits THEN [AGG EXCEPT ![key][d] = @ + 1] ELSE AGG
      /\ LAUNCH_DROPPED' = IF ~fits /\ Launches THEN LAUNCH_DROPPED + 1 ELSE LAUNCH_DROPPED
      /\ lost' = IF ~fits /\ ~Launches THEN lost + 1 ELSE lost
      /\ IF Launches /\ mode = 0 /\ workload.detailed_launches
         THEN Submit(p, d) ELSE UNCHANGED <<EVENTS, readable, DROPPED>>
      /\ UNCHANGED <<UPGRADED_PIDS, keys, current, bucket_total, exported,
                     kernel_histogram, metrics, adapt, nvtx, stats, calls>>
  BY DEF emit_exit
<1>3. \/ \E k \in Keys : Counts(k, d) /\ UNCHANGED <<LAUNCH_DROPPED, lost>>
      \/ /\ AGG' = AGG
         /\ LAUNCH_DROPPED' = IF Launches THEN LAUNCH_DROPPED + 1 ELSE LAUNCH_DROPPED
         /\ lost' = IF Launches THEN lost ELSE lost + 1
  <2>1. CASE fits
    <3> HIDE DEF key
    <3>1. Counts(key, d) /\ UNCHANGED <<LAUNCH_DROPPED, lost>>
      BY <1>2, <2>1 DEF Counts
    <3> QED BY <1>1, <3>1
  <2>2. CASE ~fits
    <3> HIDE DEF key, fits
    <3> QED BY <1>2, <2>2
  <2> QED BY <2>1, <2>2
<1>4. \/ Submit(p, d) /\ DetailedLaunches
      \/ /\ UNCHANGED <<EVENTS, readable, DROPPED>>
         /\ ~ DetailedLaunches \/ workload.kernel_mode = "anonymous"
  <2> HIDE DEF key, fits
  <2>1. mode # 0 => workload.kernel_mode = "anonymous"
    OBVIOUS
  <2> HIDE DEF mode
  <2> QED BY <1>2, <2>1 DEF DetailedLaunches
<1> HIDE DEF key, fits, mode
<1> QED BY <1>2, <1>3, <1>4

(* The map after a count. *)
LEMMA CountsType ==
  ASSUME TypeInv, NEW k \in Keys, NEW d \in durations, made < workload.max_calls, Counts(k, d)
  PROVE  /\ AGG' \in [Keys -> [durations -> 0 .. workload.max_calls]]
         /\ Cardinality(Present(AGG', Empty)) <= AggSize
         /\ \A j \in Keys, c \in durations : AGG[j][c] <= AGG'[j][c] /\ AGG'[j][c] <= made + 1
         /\ AGG'[k] = [AGG[k] EXCEPT ![d] = @ + 1]
         /\ \A j \in Keys \ {k} : AGG'[j] = AGG[j]
<1>0. /\ AGG \in [Keys -> [durations -> 0 .. workload.max_calls]]
      /\ made \in Nat /\ workload.max_calls \in Nat
      /\ \A j \in Keys, c \in durations : AGG[j][c] <= made
  BY Workload DEF TypeInv, TypeOK, CountsOK
<1>1. /\ DOMAIN AGG' = Keys
      /\ AGG'[k] = [AGG[k] EXCEPT ![d] = @ + 1]
      /\ \A j \in Keys \ {k} : AGG'[j] = AGG[j]
  BY <1>0 DEF Counts
<1>2. AGG[k] \in [durations -> 0 .. workload.max_calls] /\ AGG[k][d] \in Nat /\ AGG[k][d] <= made
  BY <1>0
<1>3. AGG'[k] \in [durations -> 0 .. workload.max_calls]
  BY <1>0, <1>1, <1>2
<1>4. AGG' \in [Keys -> [durations -> 0 .. workload.max_calls]]
  <2>1. \A j \in Keys : AGG'[j] \in [durations -> 0 .. workload.max_calls]
    BY <1>0, <1>1, <1>3
  <2>2. AGG' = [j \in Keys |-> AGG'[j]]
    BY <1>0 DEF Counts
  <2> QED BY <2>1, <2>2
<1>5. ASSUME NEW j \in Keys, NEW c \in durations PROVE AGG[j][c] <= AGG'[j][c] /\ AGG'[j][c] <= made + 1
  <2>1. AGG[j][c] \in Nat /\ AGG[j][c] <= made
    BY <1>0
  <2>2. CASE j = k
    <3>1. AGG'[j][c] = IF c = d THEN AGG[k][d] + 1 ELSE AGG[k][c]
      BY <1>1, <1>2, <2>2
    <3> QED BY <1>0, <1>2, <2>1, <2>2, <3>1
  <2>3. CASE j # k
    BY <1>0, <1>1, <2>1, <2>3
  <2> QED BY <2>2, <2>3
<1>6. Cardinality(Present(AGG', Empty)) <= AggSize
  <2>1. AggSize \in Nat /\ DOMAIN AGG = Keys
    BY <1>0, ConstantsAssumption
  <2>2. HasRoom(AGG, Empty, AggSize, k) /\ Cardinality(Present(AGG, Empty)) <= AggSize
    BY DEF Counts, TypeInv, TypeOK
  <2> QED BY <1>1, <2>1, <2>2, KeysFinite, RoomKept
<1> QED BY <1>1, <1>4, <1>5, <1>6

LEMMA EmitType ==
  ASSUME TypeInv, NEW p \in Pids, NEW addr \in Kernels, NEW d \in durations, emit_exit(p, addr, d)
  PROVE  TypeInv'
<1>0. TypeOK
  BY DEF TypeInv
<1>1. /\ workload' = workload /\ made < workload.max_calls /\ made' = made + 1
      /\ UNCHANGED <<UPGRADED_PIDS, keys, current, bucket_total, exported,
                     kernel_histogram, metrics, adapt, nvtx, stats, calls>>
  BY <1>0, EmitPaths
<1>2. /\ made \in Nat /\ workload.max_calls \in Nat
      /\ LAUNCH_DROPPED \in Nat /\ lost \in Nat
  BY <1>0, Workload DEF TypeOK
<1> DEFINE Counted == /\ AGG' \in [Keys -> [durations -> 0 .. workload.max_calls]]
                      /\ Cardinality(Present(AGG', Empty)) <= AggSize
                      /\ \A j \in Keys, c \in durations :
                           AGG[j][c] <= AGG'[j][c] /\ AGG'[j][c] <= made + 1
                      /\ LAUNCH_DROPPED' \in Nat /\ lost' \in Nat
<1>3. Counted
  <2>1. ASSUME NEW k \in Keys, Counts(k, d), UNCHANGED <<LAUNCH_DROPPED, lost>> PROVE Counted
    BY <1>1, <1>2, <2>1, CountsType
  <2>2. ASSUME AGG' = AGG,
               LAUNCH_DROPPED' = IF Launches THEN LAUNCH_DROPPED + 1 ELSE LAUNCH_DROPPED,
               lost' = IF Launches THEN lost ELSE lost + 1
        PROVE  Counted
    <3>1. ASSUME NEW j \in Keys, NEW c \in durations
          PROVE  AGG[j][c] <= AGG[j][c] /\ AGG[j][c] <= made + 1
      <4>1. AGG[j][c] \in Nat /\ AGG[j][c] <= made
        BY <1>0, <1>2 DEF TypeOK, TypeInv, CountsOK
      <4> QED BY <1>2, <4>1
    <3> QED BY <1>0, <1>2, <2>2, <3>1 DEF TypeOK
  <2> HIDE DEF Counted
  <2> QED BY <1>0, <2>1, <2>2, EmitPaths
<1>4. /\ EVENTS' \in Seq(Event) /\ Len(EVENTS') <= RingSize /\ readable' \in BOOLEAN
      /\ DROPPED' \in Nat
  <2>1. CASE Submit(p, d)
    BY <1>0, <2>1, SubmitType
  <2>2. CASE UNCHANGED <<EVENTS, readable, DROPPED>>
    BY <1>0, <2>2 DEF TypeOK
  <2> QED BY <1>0, <2>1, <2>2, EmitPaths
<1>5. CountsOK'
  <2>1. made' <= workload.max_calls /\ \A j \in Keys, c \in durations : AGG'[j][c] <= made'
    BY <1>1, <1>2, <1>3
  <2>2. ASSUME current # <<>>, NEW c \in durations
        PROVE  current[2][c] <= AGG'[current[1]][c]
    <3>1. current[1] \in Keys /\ current[2] \in [durations -> 0 .. workload.max_calls]
      BY <1>0, <2>2 DEF TypeOK
    <3>2. current[2][c] <= AGG[current[1]][c]
      BY <2>2 DEF TypeInv, CountsOK
    <3>3. AGG[current[1]][c] <= AGG'[current[1]][c] /\ AGG'[current[1]][c] \in Nat
      BY <1>2, <1>3, <3>1
    <3>4. AGG[current[1]][c] \in Nat /\ current[2][c] \in Nat
      <4>1. AGG[current[1]] \in [durations -> 0 .. workload.max_calls]
        BY <1>0, <3>1 DEF TypeOK
      <4> HIDE DEF Counted
      <4> QED BY <1>2, <3>1, <4>1
    <3> HIDE DEF Counted
    <3> QED BY <3>2, <3>3, <3>4
  <2> HIDE DEF Counted
  <2> QED BY <1>1, <2>1, <2>2, Same DEF CountsOK
<1>6. MapType'
  BY <1>0, <1>1, <1>3, Same, TypeGroups DEF MapType
<1>7. RingType'
  BY <1>0, <1>1, <1>4, Same, TypeGroups DEF RingType
<1>8. CounterType'
  BY <1>0, <1>1, <1>2, <1>3, <1>4, TypeGroups DEF CounterType
<1> QED BY <1>0, <1>1, <1>5, <1>6, <1>7, <1>8, GroupsKept, TypeGroupsNext DEF TypeInv

(* Where a step leaves the map and the calls, the counts stay in bounds. *)
LEMMA CountsKept ==
  ASSUME CountsOK, UNCHANGED <<workload, AGG, made, current>>
  PROVE  CountsOK'
BY Same DEF CountsOK

LEMMA PushType ==
  ASSUME TypeOK, NEW p \in Pids, NEW name \in Ranges \cup {None}, nvtx_range_push(p, name)
  PROVE  NvtxType'
<1>1. NvtxType
  BY TypeGroups
<1>2. ranges' \in [Pids -> Seq(Ranges \cup {None})]
  <2>1. ranges[p] \in Seq(Ranges \cup {None})
    BY <1>1 DEF NvtxType
  <2>2. Append(ranges[p], name) \in Seq(Ranges \cup {None})
    BY <2>1
  <2> QED BY <1>1, <2>2 DEF NvtxType, nvtx_range_push
<1>3. NVTX_STACK' \in [Pids -> Ranges \cup {None}]
  BY <1>1 DEF NvtxType, nvtx_range_push, LruPut, Present
<1> QED BY <1>2, <1>3 DEF NvtxType

LEMMA PopType ==
  ASSUME TypeOK, NEW p \in Pids, nvtx_range_pop(p)
  PROVE  NvtxType'
<1>1. NvtxType
  BY TypeGroups
<1>2. ranges' \in [Pids -> Seq(Ranges \cup {None})]
  <2>1. ranges[p] \in Seq(Ranges \cup {None}) /\ ranges[p] # <<>>
    BY <1>1 DEF NvtxType, nvtx_range_pop
  <2>2. SubSeq(ranges[p], 1, Len(ranges[p]) - 1) \in Seq(Ranges \cup {None})
    BY <2>1
  <2> QED BY <1>1, <2>2 DEF NvtxType, nvtx_range_pop
<1>3. NVTX_STACK' \in [Pids -> Ranges \cup {None}]
  BY <1>1 DEF NvtxType, nvtx_range_pop
<1> QED BY <1>2, <1>3 DEF NvtxType

(* Min of a counter and its bound. *)
LEMMA MinOfTwo ==
  ASSUME NEW a \in Nat, NEW b \in Nat
  PROVE  Min({a, b}) = IF a <= b THEN a ELSE b
<1>1. CASE a <= b
  <2>1. a \in {a, b} /\ \A y \in {a, b} : a <= y
    BY <1>1
  <2>2. \A x \in {a, b} : (\A y \in {a, b} : x <= y) => x = a
    BY <1>1
  <2> QED BY <1>1, <2>1, <2>2 DEF Min
<1>2. CASE ~ (a <= b)
  <2>1. b \in {a, b} /\ \A y \in {a, b} : b <= y
    BY <1>2
  <2>2. \A x \in {a, b} : (\A y \in {a, b} : x <= y) => x = b
    BY <1>2
  <2> QED BY <1>2, <2>1, <2>2 DEF Min
<1> QED BY <1>1, <1>2

LEMMA TickType ==
  ASSUME TypeOK, AggTick
  PROVE  TypeOK'
<1>1. /\ workload' = workload /\ UPGRADED_PIDS' \subseteq Pids
      /\ UNCHANGED <<ring, drops, nvtx, stats, calls, made>>
      /\ UNCHANGED <<AGG, current, bucket_total, exported>>
  <2>1. workload.pids \in SUBSET Pids
    BY Workload DEF TypeOK
  <2> QED BY <2>1 DEF AggTick
<1>2. MapType'
  <2>1. keys' \subseteq Keys
    BY TypeGroups DEF AggTick, Present, MapType
  <2> QED BY <1>1, <2>1, TypeGroups, Same DEF MapType
<1>3. MetricType'
  <2>1. MetricType /\ CounterType
    BY TypeGroups
  <2> QED BY <2>1 DEF AggTick, ReportDrops, MetricType, CounterType, saturating_sub
<1>4. AdaptType'
  <2>0. AdaptType
    BY TypeGroups
  <2>1. /\ consecutive_overflow_ticks + 1 \in Nat /\ consecutive_clear_ticks + 1 \in Nat
        /\ OverflowTicks \in Nat /\ ClearTicks \in Nat
    BY <2>0, ConstantsAssumption DEF AdaptType
  <2>2. /\ Min({consecutive_overflow_ticks + 1, OverflowTicks}) \in Nat
        /\ Min({consecutive_clear_ticks + 1, ClearTicks}) \in Nat
    BY <2>1, MinOfTwo
  <2>3. consecutive_overflow_ticks' \in Nat /\ consecutive_clear_ticks' \in Nat
    BY <2>2 DEF AggTick, AdaptInterval
  <2>4. agg_interval_fast' \in BOOLEAN
    BY <2>0, Zenon DEF AggTick, AdaptInterval, AdaptType
  <2> QED BY <2>3, <2>4 DEF AdaptType
<1> QED BY <1>1, <1>2, <1>3, <1>4, GroupsKept, TypeGroupsNext

(* What is in the map at key k, as a bag of naturals. *)
LEMMA BagAt ==
  ASSUME TypeOK, NEW k \in Keys
  PROVE  /\ AGG[k] \in [durations -> 0 .. workload.max_calls]
         /\ AGG[k] \in [durations -> Nat] /\ Size(AGG[k]) \in Nat
<1>1. AGG[k] \in [durations -> 0 .. workload.max_calls] /\ AGG[k] \in [durations -> Nat]
  BY TypeGroups DEF MapType
<1>2. IsFiniteSet(durations)
  BY Workload DEF TypeOK
<1> QED BY <1>1, <1>2, SizeType

LEMMA ReadType ==
  ASSUME TypeInv, NEW k \in Keys, ReadKey(k)
  PROVE  TypeInv'
<1>0. TypeOK /\ CountsOK
  BY DEF TypeInv
<1>1. /\ workload' = workload
      /\ UNCHANGED <<UPGRADED_PIDS, AGG, ring, drops, metrics, adapt, nvtx, term_stats, made>>
      /\ current' = <<k, AGG[k]>> /\ keys' = keys \ {k} /\ calls' = calls + Size(AGG[k])
  BY DEF ReadKey
<1>2. AGG[k] \in [durations -> 0 .. workload.max_calls] /\ AGG[k] \in [durations -> Nat]
  BY <1>0, BagAt
<1>3. Size(AGG[k]) \in Nat
  BY <1>0, BagAt
<1>4. MapType /\ CounterType /\ StatType
  BY <1>0, TypeGroups
<1>5. MapType'
  <2>1. exported' \in [durations -> Nat]
    BY <1>2, <1>4 DEF ReadKey, Plus, MapType
  <2>2. bucket_total' \in [1 .. Len(BoundsOf(workload.family)) + 1 -> Nat]
    <3> DEFINE n == Len(BoundsOf(workload.family)) + 1
               b == bucket_counts(workload.family, AGG[k])
    <3>1. workload.family \in {"cuda", "nccl", "launch"} /\ IsFiniteSet(durations)
      BY <1>0, Workload DEF TypeOK
    <3>2. n \in Nat
      BY <3>1, Tables
    <3>3. b \in [1 .. n -> Nat]
      BY <1>2, <3>1, BucketsType
    <3>4. bucket_total \in [1 .. n -> Nat]
      BY <1>4 DEF MapType
    <3> HIDE DEF n, b
    <3>5. Cumulative(b) \in [1 .. n -> Nat]
      BY <3>2, <3>3, CumulativeType
    <3>6. inc_cumulative_bucket_counters(bucket_total, b) \in [1 .. n -> Nat]
      BY <3>2, <3>3, <3>4, <3>5 DEF inc_cumulative_bucket_counters
    <3>7. bucket_total' = bucket_total \/ bucket_total' = inc_cumulative_bucket_counters(bucket_total, b)
      BY DEF ReadKey, b
    <3>8. bucket_total' \in [1 .. n -> Nat]
      BY <3>4, <3>6, <3>7
    <3> QED BY <3>8 DEF n
  <2>3. current' \in Keys \X [durations -> 0 .. workload.max_calls]
    BY <1>1, <1>2
  <2> QED BY <1>1, <1>4, <2>1, <2>2, <2>3, Same DEF MapType
<1>6. CounterType'
  BY <1>1, <1>3, <1>4 DEF CounterType, drops
<1>7. StatType'
  <2>1. local_term_stats' \in TermStats
    BY <1>3, <1>4 DEF StatType, ReadKey, TermStats
  <2> QED BY <1>1, <1>4, <2>1 DEF StatType
<1>8. CountsOK'
  <2>1. \A d \in durations : AGG[k][d] <= AGG[k][d]
    BY <1>2
  <2>2. current'[1] = k /\ current'[2] = AGG[k]
    BY <1>1
  <2> QED BY <1>0, <1>1, <2>1, <2>2, Same DEF CountsOK
<1> QED BY <1>0, <1>1, <1>5, <1>6, <1>7, <1>8, GroupsKept, TypeGroupsNext DEF TypeInv

(* What was added to the key since it was read. *)
LEMMA LateType ==
  ASSUME TypeInv, current # <<>>
  PROVE  /\ current[1] \in Keys /\ current[2] \in [durations -> Nat] /\ Size(current[2]) \in Nat
         /\ Minus(AGG[current[1]], current[2]) \in [durations -> Nat]
         /\ Size(Minus(AGG[current[1]], current[2])) \in Nat
         /\ Size(AGG[current[1]]) = Size(current[2]) + Size(Minus(AGG[current[1]], current[2]))
<1>0. TypeOK /\ CountsOK
  BY DEF TypeInv
<1>1. /\ current[1] \in Keys /\ current[2] \in [durations -> 0 .. workload.max_calls]
      /\ workload.max_calls \in Nat /\ IsFiniteSet(durations)
  BY <1>0, Workload DEF TypeOK
<1>2. PICK a \in [durations -> Nat] : a = AGG[current[1]]
  BY <1>0, <1>1, BagAt
<1>3. PICK b \in [durations -> Nat] : b = current[2]
  BY <1>1
<1>4. \A d \in durations : b[d] <= a[d]
  BY <1>0, <1>2, <1>3 DEF CountsOK
<1>5. Minus(a, b) \in [durations -> Nat]
  BY <1>4 DEF Minus
<1>6. Size(a) = Size(b) + Size(Minus(a, b))
  <2>1. PICK m \in [durations -> Nat] : m = Minus(a, b)
    BY <1>5
  <2>2. \A d \in durations : b[d] + m[d] = a[d]
    BY <2>1 DEF Minus
  <2>3. [d \in durations |-> b[d] + m[d]] = a
    BY <2>2
  <2>4. Sum([d \in durations |-> b[d] + m[d]]) = Sum(b) + Sum(m)
    BY <1>1, SumAdd
  <2> QED BY <2>1, <2>3, <2>4 DEF Size
<1>7. Size(b) \in Nat /\ Size(Minus(a, b)) \in Nat
  BY <1>1, <1>5, SizeType
<1> QED BY <1>1, <1>2, <1>3, <1>5, <1>6, <1>7

LEMMA DeleteType ==
  ASSUME TypeInv, DeleteKey
  PROVE  TypeInv'
<1>0. TypeOK /\ CountsOK /\ current # <<>>
  BY DEF TypeInv, DeleteKey
<1>1. /\ workload' = workload /\ current' = <<>>
      /\ AGG' = [AGG EXCEPT ![current[1]] = Empty]
      /\ lost' = lost + Size(Minus(AGG[current[1]], current[2]))
      /\ UNCHANGED <<UPGRADED_PIDS, keys, bucket_total, exported, ring, DROPPED,
                     LAUNCH_DROPPED, metrics, adapt, nvtx, stats, calls, made>>
  BY DEF DeleteKey
<1>2. PICK k \in Keys : k = current[1]
  BY <1>0, LateType
<1>3. MapType /\ CounterType /\ workload.max_calls \in Nat
  BY <1>0, TypeGroups, Workload
<1>4. Empty \in [durations -> 0 .. workload.max_calls] /\ \A d \in durations : Empty[d] = 0
  BY <1>3 DEF Empty, NoDurations
<1>5. MapType'
  <2>1. AGG' \in [Keys -> [durations -> 0 .. workload.max_calls]]
    BY <1>1, <1>2, <1>3, <1>4 DEF MapType
  <2>2. Present(AGG', Empty) \subseteq Present(AGG, Empty)
    BY <1>1, <1>2, <1>3 DEF Present, MapType
  <2>3. IsFiniteSet(Present(AGG, Empty))
    <3>1. Present(AGG, Empty) \subseteq Keys
      BY <1>3 DEF Present, MapType
    <3> QED BY <3>1, KeysFinite, FS_Subset
  <2>4. Cardinality(Present(AGG', Empty)) <= AggSize
    <3>1. /\ Cardinality(Present(AGG', Empty)) <= Cardinality(Present(AGG, Empty))
          /\ Cardinality(Present(AGG', Empty)) \in Nat /\ Cardinality(Present(AGG, Empty)) \in Nat
      BY <2>2, <2>3, FS_Subset, FS_CardinalityType
    <3>2. Cardinality(Present(AGG, Empty)) <= AggSize /\ AggSize \in Nat
      BY <1>3, ConstantsAssumption DEF MapType
    <3> QED BY <3>1, <3>2
  <2> QED BY <1>1, <1>3, <2>1, <2>4, Same DEF MapType
<1>6. CounterType'
  <2>1. Size(Minus(AGG[current[1]], current[2])) \in Nat
    BY <1>0, LateType
  <2> QED BY <1>1, <1>3, <2>1 DEF CounterType
<1>7. CountsOK'
  <2>1. ASSUME NEW j \in Keys, NEW d \in durations PROVE AGG'[j][d] <= made
    <3>1. AGG'[j] = IF j = k THEN Empty ELSE AGG[j]
      BY <1>1, <1>2, <1>3 DEF MapType
    <3> QED BY <1>0, <1>3, <1>4, <3>1 DEF CountsOK, CounterType
  <2> QED BY <1>0, <1>1, <2>1, Same DEF CountsOK
<1> QED BY <1>0, <1>1, <1>5, <1>6, <1>7, GroupsKept, TypeGroupsNext DEF TypeInv

(* The batch of the ring arm. *)
LEMMA BatchType ==
  ASSUME TypeOK
  PROVE  LET n == Min({Len(EVENTS), ConsumeBudget})
         IN  /\ n \in Nat /\ n <= Len(EVENTS) /\ Len(EVENTS) \in Nat
             /\ SubSeq(EVENTS, 1, n) \in Seq(Event) /\ Len(SubSeq(EVENTS, 1, n)) = n
             /\ [i \in 1 .. n |-> SubSeq(EVENTS, 1, n)[i].duration_ns] \in [1 .. n -> durations]
             /\ SubSeq(EVENTS, n + 1, Len(EVENTS)) \in Seq(Event)
             /\ Len(SubSeq(EVENTS, n + 1, Len(EVENTS))) = Len(EVENTS) - n
<1>1. EVENTS \in Seq(Event) /\ Len(EVENTS) \in Nat /\ ConsumeBudget \in Nat
  BY ConstantsAssumption DEF TypeOK
<1>2. PICK n \in Nat : n = Min({Len(EVENTS), ConsumeBudget})
  BY <1>1, MinOfTwo
<1>3. n <= Len(EVENTS)
  BY <1>1, <1>2, MinOfTwo
<1>4. SubSeq(EVENTS, 1, n) \in Seq(Event) /\ Len(SubSeq(EVENTS, 1, n)) = n
  BY <1>1, <1>3
<1>5. /\ SubSeq(EVENTS, n + 1, Len(EVENTS)) \in Seq(Event)
      /\ Len(SubSeq(EVENTS, n + 1, Len(EVENTS))) = Len(EVENTS) - n
  BY <1>1, <1>3
<1>6. ASSUME NEW i \in 1 .. n PROVE SubSeq(EVENTS, 1, n)[i].duration_ns \in durations
  <2>1. SubSeq(EVENTS, 1, n)[i] \in Event
    BY <1>4
  <2> QED BY <2>1 DEF Event
<1>7. [i \in 1 .. n |-> SubSeq(EVENTS, 1, n)[i].duration_ns] \in [1 .. n -> durations]
  BY <1>6
<1> QED BY <1>1, <1>2, <1>3, <1>4, <1>5, <1>7, Zenon

LEMMA RingArmType ==
  ASSUME TypeOK, RingArm
  PROVE  TypeOK'
<1>1. PICK n \in Nat : n = Min({Len(EVENTS), ConsumeBudget})
  BY BatchType
<1> DEFINE batch == SubSeq(EVENTS, 1, n)
<1>2. /\ workload' = workload
      /\ EVENTS' = SubSeq(EVENTS, n + 1, Len(EVENTS))
      /\ readable' = FALSE
      /\ calls' = calls + n
      /\ kernel_histogram' =
           IF workload.kernel_mode # "full" THEN kernel_histogram
           ELSE [d \in durations |-> kernel_histogram[d] +
                   Cardinality({i \in 1 .. n : batch[i].duration_ns = d})]
      /\ local_term_stats' =
           record_all(local_term_stats, [i \in 1 .. n |-> batch[i].duration_ns])
      /\ UNCHANGED <<UPGRADED_PIDS, map, drops, metrics, adapt, nvtx, term_stats, made>>
  BY <1>1 DEF RingArm
<1>3. /\ n <= Len(EVENTS) /\ Len(EVENTS) \in Nat /\ EVENTS' \in Seq(Event)
      /\ Len(EVENTS') = Len(EVENTS) - n
      /\ [i \in 1 .. n |-> batch[i].duration_ns] \in [1 .. n -> durations]
  BY <1>1, <1>2, BatchType
<1> HIDE DEF batch
<1>4. RingType /\ CounterType /\ StatType
  BY TypeGroups
<1>5. RingType'
  <2>1. \A d \in durations : Cardinality({i \in 1 .. n : batch[i].duration_ns = d}) \in Nat
    <3>1. \A d \in durations : {i \in 1 .. n : batch[i].duration_ns = d} \subseteq 1 .. n
      OBVIOUS
    <3>2. IsFiniteSet(1 .. n)
      BY FS_Interval
    <3> QED BY <3>1, <3>2, FS_Subset, FS_CardinalityType
  <2>2. kernel_histogram' \in [durations -> Nat]
    BY <1>2, <1>4, <2>1 DEF RingType
  <2>3. Len(EVENTS') <= RingSize
    BY <1>3, <1>4, ConstantsAssumption DEF RingType
  <2>4. readable' \in BOOLEAN
    BY <1>2, Zenon
  <2> QED BY <1>2, <1>3, <2>2, <2>3, <2>4, Same DEF RingType
<1>6. CounterType'
  BY <1>2, <1>4 DEF CounterType, drops
<1>7. StatType'
  <2>1. [i \in 1 .. n |-> batch[i].duration_ns] \in [1 .. n -> Nat]
    BY <1>3, Workload DEF TypeOK
  <2>2. local_term_stats' \in TermStats
    BY <1>2, <1>4, <2>1, RecordBatch DEF StatType
  <2> QED BY <1>2, <1>4, <2>2 DEF StatType
<1> QED BY <1>2, <1>5, <1>6, <1>7, GroupsKept, TypeGroupsNext

LEMMA MergeType ==
  ASSUME TypeOK, MergeReport
  PROVE  TypeOK'
<1>1. /\ workload' = workload
      /\ UNCHANGED <<UPGRADED_PIDS, map, ring, drops, metrics, adapt, nvtx, calls, made>>
      /\ term_stats' = merge(term_stats, local_term_stats) /\ local_term_stats' = NoStats
  BY DEF MergeReport
<1>2. StatType
  BY TypeGroups
<1>3. StatType'
  <2>1. merge(term_stats, local_term_stats) \in TermStats
    BY <1>2, MergeBoth DEF StatType
  <2>2. NoStats \in TermStats
    BY DEF NoStats, TermStats
  <2> QED BY <1>1, <2>1, <2>2 DEF StatType
<1> QED BY <1>1, <1>3, GroupsKept, TypeGroupsNext

LEMMA RegisterType ==
  ASSUME TypeOK, RegisterKernel
  PROVE  TypeOK'
<1>1. /\ workload' = workload /\ readable' = TRUE
      /\ UNCHANGED <<UPGRADED_PIDS, map, EVENTS, kernel_histogram, drops, metrics, adapt, nvtx,
                     stats, calls, made>>
  BY DEF RegisterKernel
<1>2. RingType'
  <2>1. readable' \in BOOLEAN
    BY <1>1
  <2> QED BY <1>1, <2>1, TypeGroups, Same DEF RingType
<1> QED BY <1>1, <1>2, GroupsKept, TypeGroupsNext

(* Every step keeps the types. *)
LEMMA NextType == TypeInv /\ [Next]_vars => TypeInv'
<1> SUFFICES ASSUME TypeInv, [Next]_vars PROVE TypeInv'
  OBVIOUS
<1>0. TypeOK /\ CountsOK /\ workload.pids \in SUBSET Pids
  BY Workload DEF TypeInv, TypeOK
<1>1. ASSUME NEW p \in workload.pids, NEW addr \in Kernels, NEW d \in durations, emit_exit(p, addr, d)
      PROVE  TypeInv'
  BY <1>0, <1>1, EmitType
<1>2. ASSUME NEW p \in workload.pids, NEW name \in Ranges \cup {None}, nvtx_range_push(p, name)
      PROVE  TypeInv'
  <2>1. UNCHANGED <<workload, UPGRADED_PIDS, map, ring, drops, metrics, adapt, stats, calls, made>>
    BY <1>2 DEF nvtx_range_push
  <2>2. NvtxType'
    BY <1>0, <1>2, PushType
  <2>3. CountsOK'
    BY <1>0, <2>1, CountsKept DEF map
  <2> QED BY <1>0, <2>1, <2>2, <2>3, GroupsKept, TypeGroupsNext DEF TypeInv
<1>3. ASSUME NEW p \in workload.pids, nvtx_range_pop(p) PROVE TypeInv'
  <2>1. UNCHANGED <<workload, UPGRADED_PIDS, map, ring, drops, metrics, adapt, stats, calls, made>>
    BY <1>3 DEF nvtx_range_pop
  <2>2. NvtxType'
    BY <1>0, <1>3, PopType
  <2>3. CountsOK'
    BY <1>0, <2>1, CountsKept DEF map
  <2> QED BY <1>0, <2>1, <2>2, <2>3, GroupsKept, TypeGroupsNext DEF TypeInv
<1>4. CASE RegisterKernel
  <2>1. CountsOK'
    BY <1>0, <1>4, CountsKept DEF RegisterKernel, map
  <2> QED BY <1>0, <1>4, <2>1, RegisterType DEF TypeInv
<1>5. CASE AggTick
  <2>1. CountsOK'
    BY <1>0, <1>5, CountsKept DEF AggTick
  <2> QED BY <1>0, <1>5, <2>1, TickType DEF TypeInv
<1>6. ASSUME NEW k \in Keys, ReadKey(k) PROVE TypeInv'
  BY <1>6, ReadType
<1>7. CASE DeleteKey
  BY <1>7, DeleteType
<1>8. CASE RingArm
  <2>1. CountsOK'
    BY <1>0, <1>8, CountsKept DEF RingArm, map
  <2> QED BY <1>0, <1>8, <2>1, RingArmType DEF TypeInv
<1>9. CASE MergeReport
  <2>1. CountsOK'
    BY <1>0, <1>9, CountsKept DEF MergeReport, map
  <2> QED BY <1>0, <1>9, <2>1, MergeType DEF TypeInv
<1>10. CASE UNCHANGED vars
  <2>1. CountsOK'
    BY <1>0, <1>10, CountsKept DEF vars, map
  <2> QED BY <1>0, <1>10, <2>1, GroupsKept, TypeGroupsNext DEF TypeInv, vars
<1> QED BY <1>1, <1>2, <1>3, <1>4, <1>5, <1>6, <1>7, <1>8, <1>9, <1>10 DEF Next, Programs

LEMMA TypeInvariance == Spec => []TypeInv
BY InitType, NextType, PTL DEF Spec

(* The maps stay within their sizes, the ring within its own, and every    *)
(* variable of the programs and of the event loop keeps its type.          *)
THEOREM TypeCorrect == Spec => []TypeOK
<1>1. TypeInv => TypeOK
  BY DEF TypeInv
<1> QED BY <1>1, TypeInvariance, PTL

-----------------------------------------------------------------------------
(* Launches and NVTX ranges.                                               *)

(* The entry of a process is the name of its innermost named range, if it  *)
(* has an entry: a push replaces it, an eviction and a pop remove it.      *)
Marked == \A p \in Pids : NVTX_STACK[p] \in {None, Innermost(ranges[p])}

PhaseInv == TypeInv /\ Marked /\ PhaseOpen

LEMMA InitPhase == Init => PhaseInv
<1> SUFFICES ASSUME Init PROVE PhaseInv
  OBVIOUS
<1>1. Marked
  BY DEF Init, Marked
<1>2. PhaseOpen
  BY DEF Init, PhaseOpen
<1> QED BY <1>1, <1>2, InitType DEF PhaseInv

LEMMA PushMarked ==
  ASSUME TypeOK, Marked, NEW p \in Pids, NEW name \in Ranges \cup {None}, nvtx_range_push(p, name)
  PROVE  Marked'
<1> SUFFICES ASSUME NEW q \in Pids PROVE NVTX_STACK'[q] \in {None, Innermost(ranges'[q])}
  BY DEF Marked
<1>0. /\ ranges \in [Pids -> Seq(Ranges \cup {None})] /\ NVTX_STACK \in [Pids -> Ranges \cup {None}]
      /\ NVTX_STACK[q] \in {None, Innermost(ranges[q])}
  BY DEF TypeOK, Marked
<1>1. ranges' = [ranges EXCEPT ![p] = Append(@, name)]
  BY DEF nvtx_range_push
<1>2. Innermost(Append(ranges[p], name)) = IF name # None THEN name ELSE Innermost(ranges[p])
  BY <1>0, InnermostPushed
<1>3. CASE name = None
  <2>1. NVTX_STACK' = NVTX_STACK
    BY <1>3 DEF nvtx_range_push
  <2>2. Innermost(ranges'[q]) = Innermost(ranges[q])
    BY <1>0, <1>1, <1>2, <1>3
  <2> QED BY <1>0, <2>1, <2>2
<1>4. CASE name # None
  <2>1. NVTX_STACK' \in LruPut(NVTX_STACK, None, NvtxSize, p, name)
    BY <1>4 DEF nvtx_range_push
  <2>2. NVTX_STACK'[q] \in {None, IF q = p THEN name ELSE NVTX_STACK[q]}
    BY <1>0, <2>1 DEF LruPut, Present
  <2>3. ranges'[q] = IF q = p THEN Append(ranges[p], name) ELSE ranges[q]
    BY <1>0, <1>1
  <2> QED BY <1>0, <1>2, <1>4, <2>2, <2>3
<1> QED BY <1>3, <1>4

LEMMA PopMarked ==
  ASSUME TypeOK, Marked, NEW p \in Pids, nvtx_range_pop(p)
  PROVE  Marked'
<1> SUFFICES ASSUME NEW q \in Pids PROVE NVTX_STACK'[q] \in {None, Innermost(ranges'[q])}
  BY DEF Marked
<1>1. NVTX_STACK'[q] = (IF q = p THEN None ELSE NVTX_STACK[q]) /\ (q # p => ranges'[q] = ranges[q])
  BY DEF TypeOK, nvtx_range_pop
<1>2. NVTX_STACK[q] \in {None, Innermost(ranges[q])}
  BY DEF Marked
<1> QED BY <1>1, <1>2

(* A new event carries the entry of its process. *)
LEMMA SubmitPhase ==
  ASSUME TypeOK, Marked, PhaseOpen, NEW p \in Pids, NEW d, Submit(p, d)
  PROVE  PhaseOpen'
<1>1. EVENTS \in Seq(Event) /\ Len(EVENTS) \in Nat
  BY DEF TypeOK
<1>2. CASE EVENTS' = EVENTS
  BY <1>2 DEF PhaseOpen
<1>3. CASE EVENTS' = Append(EVENTS, [duration_ns |-> d, nvtx_marker |-> NVTX_STACK[p],
                                     open |-> Innermost(ranges[p])])
  <2> SUFFICES ASSUME NEW i \in DOMAIN EVENTS'
               PROVE  EVENTS'[i].nvtx_marker \in {None, EVENTS'[i].open}
    BY DEF PhaseOpen
  <2>1. PICK e : e = [duration_ns |-> d, nvtx_marker |-> NVTX_STACK[p],
                      open |-> Innermost(ranges[p])]
    OBVIOUS
  <2>2. e.nvtx_marker \in {None, e.open}
    BY <2>1 DEF Marked
  <2>3. EVENTS' = Append(EVENTS, e)
    BY <1>3, <2>1
  <2>4. (i \in DOMAIN EVENTS /\ EVENTS'[i] = EVENTS[i]) \/ EVENTS'[i] = e
    BY <1>1, <2>3
  <2> QED BY <2>2, <2>4 DEF PhaseOpen
<1> QED BY <1>2, <1>3 DEF Submit

LEMMA RingPhase ==
  ASSUME TypeOK, PhaseOpen, RingArm
  PROVE  PhaseOpen'
<1> SUFFICES ASSUME NEW i \in DOMAIN EVENTS'
             PROVE  EVENTS'[i].nvtx_marker \in {None, EVENTS'[i].open}
  BY DEF PhaseOpen
<1>1. EVENTS \in Seq(Event) /\ Len(EVENTS) \in Nat
  BY DEF TypeOK
<1>2. PICK n \in Nat : n <= Len(EVENTS) /\ EVENTS' = SubSeq(EVENTS, n + 1, Len(EVENTS))
  BY BatchType DEF RingArm
<1>3. n + i \in DOMAIN EVENTS /\ EVENTS'[i] = EVENTS[n + i]
  BY <1>1, <1>2
<1> QED BY <1>3 DEF PhaseOpen

LEMMA NextPhase == PhaseInv /\ [Next]_vars => PhaseInv'
<1> SUFFICES ASSUME PhaseInv, [Next]_vars PROVE Marked' /\ PhaseOpen'
  BY NextType DEF PhaseInv
<1>0. TypeOK /\ TypeInv /\ Marked /\ PhaseOpen /\ workload.pids \in SUBSET Pids
  BY Workload DEF PhaseInv, TypeInv, TypeOK
<1>1. ASSUME UNCHANGED <<NVTX_STACK, ranges>> PROVE Marked'
  BY <1>0, <1>1 DEF Marked
<1>2. ASSUME UNCHANGED EVENTS PROVE PhaseOpen'
  BY <1>0, <1>2 DEF PhaseOpen
<1>3. ASSUME NEW p \in workload.pids, NEW addr \in Kernels, NEW d \in durations, emit_exit(p, addr, d)
      PROVE  Marked' /\ PhaseOpen'
  <2>1. UNCHANGED <<NVTX_STACK, ranges>>
    BY <1>3 DEF emit_exit, nvtx
  <2>2. Submit(p, d) \/ UNCHANGED EVENTS
    BY <1>3 DEF emit_exit
  <2> QED BY <1>0, <1>1, <1>2, <2>1, <2>2, SubmitPhase
<1>4. ASSUME NEW p \in workload.pids, NEW name \in Ranges \cup {None}, nvtx_range_push(p, name)
      PROVE  Marked' /\ PhaseOpen'
  <2>1. UNCHANGED EVENTS
    BY <1>4 DEF nvtx_range_push, ring
  <2> QED BY <1>0, <1>2, <1>4, <2>1, PushMarked
<1>5. ASSUME NEW p \in workload.pids, nvtx_range_pop(p)
      PROVE  Marked' /\ PhaseOpen'
  <2>1. UNCHANGED EVENTS
    BY <1>5 DEF nvtx_range_pop, ring
  <2> QED BY <1>0, <1>2, <1>5, <2>1, PopMarked
<1>6. CASE RingArm
  <2>1. UNCHANGED <<NVTX_STACK, ranges>>
    BY <1>6 DEF RingArm, nvtx
  <2> QED BY <1>0, <1>1, <1>6, <2>1, RingPhase
<1>7. ASSUME UNCHANGED <<NVTX_STACK, ranges, EVENTS>> PROVE Marked' /\ PhaseOpen'
  BY <1>1, <1>2, <1>7
<1>8. CASE RegisterKernel
  BY <1>7, <1>8 DEF RegisterKernel, nvtx
<1>9. CASE AggTick
  BY <1>7, <1>9 DEF AggTick, nvtx, ring
<1>10. ASSUME NEW k \in Keys, ReadKey(k) PROVE Marked' /\ PhaseOpen'
  BY <1>7, <1>10 DEF ReadKey, nvtx, ring
<1>11. CASE DeleteKey
  BY <1>7, <1>11 DEF DeleteKey, nvtx, ring
<1>12. CASE MergeReport
  BY <1>7, <1>12 DEF MergeReport, nvtx, ring
<1>13. CASE UNCHANGED vars
  BY <1>7, <1>13 DEF vars, nvtx, ring
<1> QED BY <1>3, <1>4, <1>5, <1>6, <1>8, <1>9, <1>10, <1>11, <1>12, <1>13 DEF Next, Programs

(* No event in the ring is attributed to a range that was not the          *)
(* innermost named one when the launch ended, however pushes without a     *)
(* name, evictions of NVTX_STACK and pops interleave.                      *)
THEOREM RangesOpen == Spec => []PhaseOpen
<1>1. PhaseInv => PhaseOpen
  BY DEF PhaseInv
<1> QED BY <1>1, InitPhase, NextPhase, PTL DEF Spec

-----------------------------------------------------------------------------
(* Where the calls are.                                                    *)

(* A family takes one path: with --detailed-launches nothing is drained,   *)
(* without it the ring stays empty and the ring arm observes nothing.      *)
OnePath ==
  /\ DetailedLaunches => keys = {} /\ current = <<>>
  /\ ~ DetailedLaunches => EVENTS = <<>> /\ DROPPED = 0 /\ kernel_histogram = Empty

(* The counts of the whole map, and what was read of the current key. *)
Sizes == [k \in Keys |-> Size(AGG[k])]

Taken == IF current = <<>> THEN 0 ELSE Size(current[2])

LEMMA HeldIs ==
  Held = IF DetailedLaunches THEN Len(EVENTS) ELSE Sum(Sizes) - Taken
BY DEF Held, Sizes, Taken

LEMMA SizesType ==
  ASSUME TypeOK
  PROVE  Sizes \in [Keys -> Nat] /\ Sum(Sizes) \in Nat
<1>1. Sizes \in [Keys -> Nat]
  BY BagAt DEF Sizes
<1> QED BY <1>1, KeysFinite, SumType

LEMMA HeldType ==
  ASSUME TypeInv
  PROVE  Held \in Nat /\ Taken \in Nat /\ Taken <= Sum(Sizes)
<1>0. TypeOK
  BY DEF TypeInv
<1>1. Taken \in Nat /\ Taken <= Sum(Sizes)
  <2>1. CASE current = <<>>
    BY <1>0, <2>1, SizesType DEF Taken
  <2>2. CASE current # <<>>
    <3>1. PICK k \in Keys : k = current[1]
      BY <2>2, LateType
    <3>2. /\ Taken = Size(current[2]) /\ Size(current[2]) \in Nat
          /\ Size(Minus(AGG[k], current[2])) \in Nat
          /\ Sizes[k] = Size(current[2]) + Size(Minus(AGG[k], current[2]))
      BY <2>2, <3>1, LateType DEF Taken, Sizes
    <3>3. Sum(Sizes) = Sum([j \in Keys \ {k} |-> Sizes[j]]) + Sizes[k]
      BY <1>0, KeysFinite, SizesType, SumSplit
    <3>4. Sum([j \in Keys \ {k} |-> Sizes[j]]) \in Nat
      <4>1. IsFiniteSet(Keys \ {k}) /\ [j \in Keys \ {k} |-> Sizes[j]] \in [Keys \ {k} -> Nat]
        BY <1>0, KeysFinite, SizesType, FS_RemoveElement
      <4> QED BY <4>1, SumType
    <3> QED BY <3>2, <3>3, <3>4
  <2> QED BY <2>1, <2>2
<1>2. Len(EVENTS) \in Nat /\ Sum(Sizes) \in Nat
  BY <1>0, SizesType DEF TypeOK
<1> QED BY <1>1, <1>2, HeldIs

(* The drop counter of the path. *)
Dropped ==
  IF DetailedLaunches THEN DROPPED ELSE IF Launches THEN LAUNCH_DROPPED ELSE 0

(* Every call takes a path that delivers it. *)
Delivered == ~ (DetailedLaunches /\ workload.kernel_mode = "anonymous")

LEMMA AccountedIs == Accounted <=> (Delivered => made = calls + Held + lost + Dropped)
BY DEF Accounted, Delivered, Dropped, DetailedLaunches

(* A call ends: it is held, dropped, or lost. *)
Grows ==
  /\ made' = made + 1 /\ calls' = calls
  /\ Held' = Held \/ Held' = Held + 1
  /\ Delivered => Held' + lost' + Dropped' = Held + lost + Dropped + 1

(* The loop counts calls that were held, or a delete loses some. *)
Moves ==
  /\ made' = made /\ Dropped' = Dropped
  /\ \/ lost' = lost /\ calls' >= calls /\ calls' + Held' = calls + Held
     \/ calls' = calls /\ lost' >= lost /\ lost' + Held' = lost + Held

PathInv == TypeInv /\ OnePath

LEMMA HeldSame ==
  ASSUME UNCHANGED <<workload, AGG, current, EVENTS>>
  PROVE  Held' = Held
<1>1. DetailedLaunches' = DetailedLaunches
  BY Same
<1>2. Sizes' = Sizes /\ Taken' = Taken
  BY DEF Sizes, Taken
<1>3. Held' = IF DetailedLaunches' THEN Len(EVENTS') ELSE Sum(Sizes') - Taken'
  BY DEF Held, Sizes, Taken
<1> QED BY <1>1, <1>2, <1>3, HeldIs

LEMMA HeldIsNext ==
  Held' = IF DetailedLaunches' THEN Len(EVENTS') ELSE Sum(Sizes') - Taken'
BY DEF Held, Sizes, Taken

(* A count in the map adds one to the sum. *)
LEMMA CountsAdd ==
  ASSUME TypeInv, NEW k \in Keys, NEW d \in durations, made < workload.max_calls, Counts(k, d)
  PROVE  Sum(Sizes') = Sum(Sizes) + 1
<1>0. TypeOK /\ IsFiniteSet(durations) /\ workload.max_calls \in Nat
  BY Workload DEF TypeInv, TypeOK
<1>1. PICK a \in [durations -> Nat] : a = AGG[k]
  BY <1>0, BagAt
<1>2. PICK b \in [durations -> Nat] : b = AGG'[k]
  <2>1. AGG'[k] \in [durations -> 0 .. workload.max_calls]
    BY CountsType
  <2>2. AGG'[k] \in [durations -> Nat]
    BY <1>0, <2>1
  <2> QED BY <2>2
<1>3. b = [a EXCEPT ![d] = @ + 1]
  BY <1>1, <1>2, CountsType
<1>4. b[d] = a[d] + 1 /\ \A c \in durations \ {d} : b[c] = a[c]
  BY <1>3
<1>5. Size(b) = Size(a) + 1
  <2>1. Sum(b) = Sum(a) - a[d] + b[d]
    BY <1>0, <1>4, SumUpdate
  <2>2. Sum(a) \in Nat
    BY <1>0, SumType
  <2> QED BY <1>4, <2>1, <2>2 DEF Size
<1>6. PICK f \in [Keys -> Nat] : f = Sizes
  BY <1>0, SizesType
<1>7. PICK g \in [Keys -> Nat] : g = Sizes'
  <2>1. ASSUME NEW j \in Keys PROVE Size(AGG'[j]) \in Nat
    <3>1. AGG'[j] \in [durations -> 0 .. workload.max_calls]
      BY CountsType
    <3>2. AGG'[j] \in [durations -> Nat]
      BY <1>0, <3>1
    <3> QED BY <1>0, <3>2, SizeType
  <2>2. Sizes' \in [Keys -> Nat]
    BY <2>1 DEF Sizes
  <2> QED BY <2>2
<1>8. g[k] = f[k] + 1 /\ \A j \in Keys \ {k} : g[j] = f[j]
  <2>1. f[k] = Size(a) /\ g[k] = Size(b)
    BY <1>1, <1>2, <1>6, <1>7 DEF Sizes
  <2>2. \A j \in Keys \ {k} : AGG'[j] = AGG[j]
    BY CountsType
  <2>3. \A j \in Keys \ {k} : g[j] = f[j]
    BY <1>6, <1>7, <2>2 DEF Sizes
  <2> QED BY <1>5, <2>1, <2>3
<1>9. Sum(g) = Sum(f) - f[k] + g[k]
  BY <1>8, KeysFinite, SumUpdate
<1>10. Sum(f) \in Nat
  BY KeysFinite, SumType
<1> QED BY <1>6, <1>7, <1>8, <1>9, <1>10

LEMMA EmitGrows ==
  ASSUME PathInv, NEW p \in Pids, NEW addr \in Kernels, NEW d \in durations, emit_exit(p, addr, d)
  PROVE  Grows /\ OnePath'
<1>0. TypeInv /\ TypeOK /\ OnePath
  BY DEF PathInv, TypeInv
<1>1. /\ workload' = workload /\ made < workload.max_calls /\ made' = made + 1 /\ calls' = calls
      /\ keys' = keys /\ current' = current /\ kernel_histogram' = kernel_histogram
  BY <1>0, EmitPaths
<1>2. /\ Launches' = Launches /\ DetailedLaunches' = DetailedLaunches /\ Empty' = Empty
      /\ Taken' = Taken
  BY <1>1, Same DEF Taken
<1>3. /\ DROPPED \in Nat /\ LAUNCH_DROPPED \in Nat /\ lost \in Nat /\ Held \in Nat
      /\ Len(EVENTS) \in Nat /\ EVENTS \in Seq(Event)
  BY <1>0, HeldType DEF TypeOK
<1>4. \/ Sum(Sizes') = Sum(Sizes) + 1 /\ UNCHANGED <<LAUNCH_DROPPED, lost>>
      \/ /\ Sum(Sizes') = Sum(Sizes)
         /\ LAUNCH_DROPPED' = IF Launches THEN LAUNCH_DROPPED + 1 ELSE LAUNCH_DROPPED
         /\ lost' = IF Launches THEN lost ELSE lost + 1
  <2>1. ASSUME NEW k \in Keys, Counts(k, d) PROVE Sum(Sizes') = Sum(Sizes) + 1
    BY <1>0, <1>1, <2>1, CountsAdd
  <2>2. ASSUME AGG' = AGG PROVE Sum(Sizes') = Sum(Sizes)
    BY <2>2 DEF Sizes
  <2> QED BY <1>0, <2>1, <2>2, EmitPaths
<1>5. CASE DetailedLaunches
  <2>1. Launches /\ lost' = lost /\ Held = Len(EVENTS) /\ Held' = Len(EVENTS')
    BY <1>2, <1>4, <1>5, HeldIs, HeldIsNext DEF DetailedLaunches
  <2>2. CASE Submit(p, d)
    <3>1. \/ Len(EVENTS') = Len(EVENTS) /\ DROPPED' = DROPPED + 1
          \/ Len(EVENTS') = Len(EVENTS) + 1 /\ DROPPED' = DROPPED
      BY <1>3, <2>2 DEF Submit
    <3> QED BY <1>0, <1>1, <1>2, <1>3, <1>5, <2>1, <3>1 DEF Grows, Dropped, OnePath
  <2>3. CASE /\ UNCHANGED <<EVENTS, readable, DROPPED>>
             /\ ~ DetailedLaunches \/ workload.kernel_mode = "anonymous"
    BY <1>0, <1>1, <1>2, <1>3, <1>5, <2>1, <2>3 DEF Grows, Delivered, OnePath
  <2> QED BY <1>0, <2>2, <2>3, EmitPaths
<1>6. CASE ~ DetailedLaunches
  <2>1. UNCHANGED <<EVENTS, readable, DROPPED>>
    BY <1>0, <1>6, EmitPaths
  <2>2. /\ Held = Sum(Sizes) - Taken /\ Held' = Sum(Sizes') - Taken
        /\ Sum(Sizes) \in Nat /\ Taken \in Nat
    BY <1>0, <1>2, <1>6, HeldIs, HeldIsNext, HeldType, SizesType
  <2>3. OnePath'
    BY <1>0, <1>1, <1>2, <1>6, <2>1 DEF OnePath
  <2>4. Grows
    BY <1>1, <1>2, <1>3, <1>4, <1>6, <2>2 DEF Grows, Dropped
  <2> QED BY <2>3, <2>4
<1> QED BY <1>5, <1>6

LEMMA ReadMoves ==
  ASSUME PathInv, NEW k \in Keys, ReadKey(k)
  PROVE  Moves /\ OnePath'
<1>0. TypeInv /\ TypeOK /\ OnePath /\ ~ DetailedLaunches
  BY DEF PathInv, TypeInv, OnePath, ReadKey
<1>1. /\ UNCHANGED <<workload, AGG, EVENTS, kernel_histogram, DROPPED, LAUNCH_DROPPED, lost, made>>
      /\ current = <<>> /\ current' = <<k, AGG[k]>> /\ calls' = calls + Size(AGG[k])
  BY DEF ReadKey, ring, drops
<1>2. Launches' = Launches /\ DetailedLaunches' = DetailedLaunches /\ Empty' = Empty
  BY <1>1, Same
<1>3. Size(AGG[k]) \in Nat /\ calls \in Nat /\ Sum(Sizes) \in Nat
  BY <1>0, BagAt, SizesType DEF TypeOK
<1>4. Sizes' = Sizes /\ Taken = 0 /\ Taken' = Size(AGG[k])
  BY <1>1 DEF Sizes, Taken
<1>5. Held = Sum(Sizes) /\ Held' = Sum(Sizes) - Size(AGG[k])
  BY <1>0, <1>2, <1>3, <1>4, HeldIs, HeldIsNext
<1>6. OnePath'
  BY <1>0, <1>1, <1>2 DEF OnePath
<1>7. Dropped' = Dropped
  BY <1>1, <1>2 DEF Dropped
<1> QED BY <1>1, <1>3, <1>5, <1>6, <1>7 DEF Moves

LEMMA DeleteMoves ==
  ASSUME PathInv, DeleteKey
  PROVE  Moves /\ OnePath'
<1>0. TypeInv /\ TypeOK /\ OnePath /\ ~ DetailedLaunches /\ current # <<>>
  BY DEF PathInv, TypeInv, OnePath, DeleteKey
<1>1. /\ UNCHANGED <<workload, keys, EVENTS, kernel_histogram, DROPPED, LAUNCH_DROPPED, calls, made>>
      /\ AGG' = [AGG EXCEPT ![current[1]] = Empty] /\ current' = <<>>
      /\ lost' = lost + Size(Minus(AGG[current[1]], current[2]))
  BY DEF DeleteKey, ring
<1>2. Launches' = Launches /\ DetailedLaunches' = DetailedLaunches /\ Empty' = Empty
  BY <1>1, Same
<1>3. PICK k \in Keys : k = current[1]
  BY <1>0, LateType
<1>4. PICK late \in Nat : late = Size(Minus(AGG[k], current[2]))
  BY <1>0, <1>3, LateType
<1>5. Taken = Size(current[2]) /\ Taken \in Nat /\ Size(AGG[k]) = Taken + late
  BY <1>0, <1>3, <1>4, LateType DEF Taken
<1>6. PICK f \in [Keys -> Nat] : f = Sizes
  BY <1>0, SizesType
<1>7. Size(Empty) = 0
  <2>1. DOMAIN Empty = durations /\ \A d \in durations : Empty[d] = 0
    BY DEF Empty, NoDurations
  <2> QED BY <2>1, SumZero DEF Size
<1>8. \A j \in Keys : AGG'[j] = IF j = k THEN Empty ELSE AGG[j]
  BY <1>0, <1>1, <1>3 DEF TypeOK
<1>9. \A j \in Keys : Sizes'[j] = IF j = k THEN 0 ELSE f[j]
  BY <1>6, <1>7, <1>8 DEF Sizes
<1>10. PICK g \in [Keys -> Nat] : g = Sizes'
  <2>1. Sizes' \in [Keys -> Nat]
    <3>1. \A j \in Keys : Sizes'[j] \in Nat
      BY <1>9
    <3>2. Sizes' = [j \in Keys |-> Sizes'[j]]
      BY DEF Sizes
    <3> QED BY <3>1, <3>2
  <2> QED BY <2>1
<1>11. Sum(g) = Sum(f) - f[k] + g[k]
  <2>1. \A j \in Keys \ {k} : g[j] = f[j]
    BY <1>9, <1>10
  <2> QED BY <2>1, KeysFinite, SumUpdate
<1>12. f[k] = Taken + late /\ g[k] = 0 /\ Sum(f) \in Nat
  <2>1. f[k] = Size(AGG[k])
    BY <1>6 DEF Sizes
  <2> QED BY <1>5, <1>9, <1>10, <2>1, KeysFinite, SumType
<1>13. Held = Sum(f) - Taken /\ Held' = Sum(g)
  <2>1. Taken' = 0
    BY <1>1 DEF Taken
  <2>2. Sum(g) \in Nat
    BY KeysFinite, SumType
  <2> QED BY <1>0, <1>2, <1>6, <1>10, <2>1, <2>2, HeldIs, HeldIsNext
<1>14. Held' + late = Held /\ lost' = lost + late /\ lost \in Nat /\ Held \in Nat
  <2>1. lost' = lost + late /\ lost \in Nat /\ Held \in Nat
    BY <1>0, <1>1, <1>3, <1>4, HeldType DEF TypeOK
  <2>2. PICK all \in Nat : all = Sum(f)
    BY <1>12
  <2>3. PICK taken \in Nat : taken = Taken
    BY <1>5
  <2>4. Held = all - taken /\ Held' = all - (taken + late) + 0
    BY <1>11, <1>12, <1>13, <2>2, <2>3
  <2> QED BY <2>1, <2>4
<1>15. OnePath'
  BY <1>0, <1>1, <1>2 DEF OnePath
<1>16. Dropped' = Dropped
  BY <1>1, <1>2 DEF Dropped
<1>17. calls' = calls /\ made' = made /\ lost' >= lost /\ lost' + Held' = lost + Held
  <2>1. Held' = Held - late
    <3>1. Held' \in Nat
      BY <1>10, <1>13, KeysFinite, SumType
    <3> QED BY <1>4, <1>14, <3>1
  <2> QED BY <1>1, <1>4, <1>14, <2>1
<1> QED BY <1>15, <1>16, <1>17 DEF Moves

LEMMA RingMoves ==
  ASSUME PathInv, RingArm
  PROVE  Moves /\ OnePath'
<1>0. TypeInv /\ TypeOK /\ OnePath
  BY DEF PathInv, TypeInv
<1>1. PICK n \in Nat : n = Min({Len(EVENTS), ConsumeBudget})
  BY <1>0, BatchType
<1>2. /\ UNCHANGED <<workload, AGG, keys, current, DROPPED, LAUNCH_DROPPED, lost, made>>
      /\ EVENTS' = SubSeq(EVENTS, n + 1, Len(EVENTS)) /\ calls' = calls + n
  BY <1>1 DEF RingArm, map, drops
<1>3. n <= Len(EVENTS) /\ Len(EVENTS') = Len(EVENTS) - n /\ Len(EVENTS) \in Nat /\ calls \in Nat
  BY <1>0, <1>1, <1>2, BatchType DEF TypeOK
<1>4. Launches' = Launches /\ DetailedLaunches' = DetailedLaunches /\ Empty' = Empty
  BY <1>2, Same
<1>5. Dropped' = Dropped
  BY <1>2, <1>4 DEF Dropped
<1>6. CASE DetailedLaunches
  <2>1. Held = Len(EVENTS) /\ Held' = Len(EVENTS) - n
    BY <1>3, <1>4, <1>6, HeldIs, HeldIsNext
  <2>2. OnePath'
    BY <1>0, <1>2, <1>4, <1>6 DEF OnePath
  <2> QED BY <1>2, <1>3, <1>5, <2>1, <2>2 DEF Moves
<1>7. CASE ~ DetailedLaunches
  <2>1. EVENTS = <<>> /\ kernel_histogram = Empty /\ DROPPED = 0
    BY <1>0, <1>7 DEF OnePath
  <2>2. n = 0 /\ EVENTS' = <<>>
    <3>1. n = 0
      BY <1>3, <2>1
    <3> QED BY <1>2, <2>1, <3>1
  <2>3. kernel_histogram' = Empty
    <3>1. \A d \in durations : {i \in 1 .. n : SubSeq(EVENTS, 1, n)[i].duration_ns = d} = {}
      BY <2>2
    <3>2. \A d \in durations :
            Cardinality({i \in 1 .. n : SubSeq(EVENTS, 1, n)[i].duration_ns = d}) = 0
      BY <3>1, FS_EmptySet
    <3>3. kernel_histogram' = kernel_histogram \/
          kernel_histogram' = [d \in durations |-> kernel_histogram[d] +
                   Cardinality({i \in 1 .. n : SubSeq(EVENTS, 1, n)[i].duration_ns = d})]
      BY <1>1 DEF RingArm
    <3>4. [d \in durations |-> kernel_histogram[d] +
             Cardinality({i \in 1 .. n : SubSeq(EVENTS, 1, n)[i].duration_ns = d})] = Empty
      BY <2>1, <3>2 DEF Empty, NoDurations
    <3> QED BY <2>1, <3>3, <3>4
  <2>4. OnePath'
    BY <1>2, <1>4, <1>7, <2>1, <2>2, <2>3 DEF OnePath
  <2>5. Held' = Held /\ calls' = calls /\ Held \in Nat
    <3>1. EVENTS' = EVENTS
      BY <2>1, <2>2
    <3>2. Held' = Held
      BY <1>2, <3>1, HeldSame
    <3> QED BY <1>0, <1>2, <1>3, <2>2, <3>2, HeldType
  <2>6. lost \in Nat /\ lost' = lost
    BY <1>0, <1>2 DEF TypeOK
  <2> QED BY <1>2, <1>3, <1>5, <2>4, <2>5, <2>6 DEF Moves
<1> QED BY <1>6, <1>7

(* A step that leaves the maps, the ring and their counters alone. *)
LEMMA QuietMoves ==
  ASSUME PathInv, UNCHANGED <<workload, AGG, current, EVENTS, kernel_histogram, drops, calls, made>>,
         DetailedLaunches => keys' = {}
  PROVE  Moves /\ OnePath'
<1>0. TypeInv /\ TypeOK /\ OnePath
  BY DEF PathInv, TypeInv
<1>1. Launches' = Launches /\ DetailedLaunches' = DetailedLaunches /\ Empty' = Empty
  BY Same
<1>2. Dropped' = Dropped
  BY <1>1 DEF Dropped, drops
<1>3. Held' = Held /\ Held \in Nat /\ calls \in Nat /\ lost' = lost /\ calls' = calls /\ made' = made
  BY <1>0, HeldSame, HeldType DEF TypeOK, drops
<1>4. OnePath'
  BY <1>0, <1>1 DEF OnePath, drops
<1> QED BY <1>2, <1>3, <1>4 DEF Moves

(* Every step grows or moves what is accounted for. *)
LEMMA NextPath ==
  ASSUME PathInv, [Next]_vars
  PROVE  (Grows \/ Moves) /\ OnePath'
<1>0. TypeInv /\ OnePath /\ workload.pids \in SUBSET Pids
  BY Workload DEF PathInv, TypeInv, TypeOK
<1>1. ASSUME NEW p \in workload.pids, NEW addr \in Kernels, NEW d \in durations, emit_exit(p, addr, d)
      PROVE  Grows /\ OnePath'
  BY <1>0, <1>1, EmitGrows
<1>2. ASSUME NEW p \in workload.pids, NEW name \in Ranges \cup {None}, nvtx_range_push(p, name)
      PROVE  Moves /\ OnePath'
  BY <1>0, <1>2, QuietMoves DEF nvtx_range_push, map, ring, OnePath
<1>3. ASSUME NEW p \in workload.pids, nvtx_range_pop(p) PROVE Moves /\ OnePath'
  BY <1>0, <1>3, QuietMoves DEF nvtx_range_pop, map, ring, OnePath
<1>4. ASSUME RegisterKernel PROVE Moves /\ OnePath'
  BY <1>0, <1>4, QuietMoves DEF RegisterKernel, map, OnePath
<1>5. ASSUME AggTick PROVE Moves /\ OnePath'
  <2>1. DetailedLaunches => keys' = {}
    BY <1>5 DEF AggTick, DetailedLaunches
  <2> QED BY <1>5, <2>1, QuietMoves DEF AggTick, ring
<1>6. ASSUME NEW k \in Keys, ReadKey(k) PROVE Moves /\ OnePath'
  BY <1>6, ReadMoves
<1>7. ASSUME DeleteKey PROVE Moves /\ OnePath'
  BY <1>7, DeleteMoves
<1>8. ASSUME RingArm PROVE Moves /\ OnePath'
  BY <1>8, RingMoves
<1>9. ASSUME MergeReport PROVE Moves /\ OnePath'
  BY <1>0, <1>9, QuietMoves DEF MergeReport, map, ring, OnePath
<1>10. ASSUME UNCHANGED vars PROVE Moves /\ OnePath'
  BY <1>0, <1>10, QuietMoves DEF vars, map, ring, OnePath
<1> QED BY <1>1, <1>2, <1>3, <1>4, <1>5, <1>6, <1>7, <1>8, <1>9, <1>10 DEF Next, Programs

LEMMA InitPath == Init => PathInv /\ Held = 0 /\ Dropped = 0
<1> SUFFICES ASSUME Init PROVE PathInv /\ Held = 0 /\ Dropped = 0
  OBVIOUS
<1>1. TypeInv
  BY InitType
<1>2. OnePath
  BY DEF Init, OnePath
<1>3. Sum(Sizes) = 0
  <2>1. Size(Empty) = 0
    <3>1. DOMAIN Empty = durations /\ \A d \in durations : Empty[d] = 0
      BY DEF Empty, NoDurations
    <3> QED BY <3>1, SumZero DEF Size
  <2>2. DOMAIN Sizes = Keys /\ \A k \in Keys : Sizes[k] = 0
    BY <2>1 DEF Sizes, Init
  <2> QED BY <2>2, SumZero
<1>4. Taken = 0 /\ Len(EVENTS) = 0
  BY DEF Init, Taken
<1>5. Dropped = 0
  BY DEF Init, Dropped
<1> QED BY <1>1, <1>2, <1>3, <1>4, <1>5, HeldIs DEF PathInv

HeldCounts == Held \in Nat

LEMMA HeldNext == TypeInv' => HeldCounts'
<1>1. TypeInv => HeldCounts
  BY HeldType DEF HeldCounts
<1> QED BY <1>1, PTL

(* Arithmetic of the steps. *)
LEMMA Balance ==
  \A c, h, l, d, c2, h2, l2, d2 \in Nat :
    /\ c2 = c /\ h2 + l2 + d2 = h + l + d + 1 => c2 + h2 + l2 + d2 = c + h + l + d + 1
    /\ d2 = d /\ l2 = l /\ c2 + h2 = c + h => c2 + h2 + l2 + d2 = c + h + l + d
    /\ d2 = d /\ c2 = c /\ l2 + h2 = l + h => c2 + h2 + l2 + d2 = c + h + l + d
OBVIOUS

LEMMA Moved ==
  \A a, h, a2, h2 \in Nat :
    a2 >= a /\ a2 + h2 = a + h => /\ a2 > a \/ (a2 = a /\ h2 = h)
                                  /\ h2 < h \/ h2 = h
OBVIOUS

AccountInv == PathInv /\ Accounted

LEMMA NextAccount == AccountInv /\ [Next]_vars => AccountInv'
<1> SUFFICES ASSUME AccountInv, [Next]_vars PROVE AccountInv'
  OBVIOUS
<1>0. PathInv /\ TypeInv /\ Accounted
  BY DEF AccountInv, PathInv
<1>1. (Grows \/ Moves) /\ OnePath' /\ TypeInv'
  BY <1>0, NextPath, NextType
<1>2. /\ made \in Nat /\ calls \in Nat /\ lost \in Nat /\ DROPPED \in Nat /\ LAUNCH_DROPPED \in Nat
      /\ made' \in Nat /\ calls' \in Nat /\ lost' \in Nat /\ DROPPED' \in Nat /\ LAUNCH_DROPPED' \in Nat
  BY <1>0, <1>1 DEF TypeInv, TypeOK
<1>3. Held \in Nat /\ Held' \in Nat
  BY <1>0, <1>1, HeldType, HeldNext DEF HeldCounts
<1>4. Dropped \in Nat /\ Dropped' \in Nat
  BY <1>2 DEF Dropped
<1>5. Delivered' = Delivered
  <2>1. workload' = workload
    BY DEF Next, Programs, emit_exit, nvtx_range_push, nvtx_range_pop, RegisterKernel, AggTick,
           ReadKey, DeleteKey, RingArm, MergeReport, vars
  <2> QED BY <2>1, Same DEF Delivered
<1>6. Accounted' <=> (Delivered' => made' = calls' + Held' + lost' + Dropped')
  BY DEF Accounted, Delivered, Dropped, DetailedLaunches
<1>7. Delivered => made = calls + Held + lost + Dropped
  BY <1>0, AccountedIs
<1>8. ASSUME Delivered PROVE made' = calls' + Held' + lost' + Dropped'
  <2>1. PICK c \in Nat, h \in Nat, l \in Nat, d \in Nat :
          c = calls /\ h = Held /\ l = lost /\ d = Dropped
    BY <1>2, <1>3, <1>4
  <2>2. PICK c2 \in Nat, h2 \in Nat, l2 \in Nat, d2 \in Nat :
          c2 = calls' /\ h2 = Held' /\ l2 = lost' /\ d2 = Dropped'
    BY <1>2, <1>3, <1>4
  <2>3. made = c + h + l + d
    BY <1>7, <1>8, <2>1
  <2>4. made' = c2 + h2 + l2 + d2
    <3>1. CASE Grows
      <4>1. made' = made + 1 /\ c2 = c /\ h2 + l2 + d2 = h + l + d + 1
        BY <1>8, <2>1, <2>2, <3>1 DEF Grows
      <4> QED BY <2>3, <4>1, Balance
    <3>2. CASE Moves
      <4>1. /\ made' = made /\ d2 = d
            /\ (l2 = l /\ c2 + h2 = c + h) \/ (c2 = c /\ l2 + h2 = l + h)
        BY <2>1, <2>2, <3>2 DEF Moves
      <4> QED BY <2>3, <4>1, Balance
    <3> QED BY <1>1, <3>1, <3>2
  <2> QED BY <2>2, <2>4
<1> QED BY <1>1, <1>5, <1>6, <1>8 DEF AccountInv, PathInv

LEMMA InitAccount == Init => AccountInv
<1> SUFFICES ASSUME Init PROVE AccountInv
  OBVIOUS
<1>1. PathInv /\ Held = 0 /\ Dropped = 0 /\ made = 0 /\ calls = 0 /\ lost = 0
  BY InitPath DEF Init
<1> QED BY <1>1, AccountedIs DEF AccountInv

LEMMA AccountInvariance == Spec => []AccountInv
BY InitAccount, NextAccount, PTL DEF Spec

(* For any family, command line and sizes of the maps and the ring, every  *)
(* call emit_exit saw is exported, on its way, counted as dropped, or lost *)
(* at one of the two places where the code loses calls.                    *)
THEOREM CallsAccounted == Spec => []Accounted
<1>1. AccountInv => Accounted
  BY DEF AccountInv
<1> QED BY <1>1, AccountInvariance, PTL

LEMMA LedgerInit == Init => L!Init
<1>1. Init => Held = 0 /\ made = 0 /\ calls = 0
  BY InitPath DEF Init
<1> QED BY <1>1 DEF L!Init

LEMMA LedgerNext ==
  ASSUME PathInv, [Next]_vars
  PROVE  [L!Next]_(L!vars)
<1>1. (Grows \/ Moves) /\ TypeInv /\ TypeInv'
  BY NextPath, NextType DEF PathInv
<1>2. /\ made \in Nat /\ calls \in Nat /\ lost \in Nat
      /\ made' \in Nat /\ calls' \in Nat /\ lost' \in Nat
  BY <1>1 DEF TypeInv, TypeOK
<1>3. Held \in Nat /\ Held' \in Nat
  BY <1>1, HeldType, HeldNext DEF HeldCounts
<1>4. CASE Grows
  <2>1. Held' \in Held .. Held + 1
    BY <1>3, <1>4 DEF Grows
  <2> QED BY <1>4, <2>1 DEF Grows, L!Next, L!Make
<1>5. CASE Moves
  <2>1. CASE lost' = lost /\ calls' >= calls /\ calls' + Held' = calls + Held
    <3>1. calls' > calls \/ (calls' = calls /\ Held' = Held)
      BY <1>2, <1>3, <2>1, Moved
    <3> QED BY <1>5, <2>1, <3>1 DEF Moves, L!Next, L!Count, L!vars
  <2>2. CASE calls' = calls /\ lost' >= lost /\ lost' + Held' = lost + Held
    <3>1. Held' < Held \/ Held' = Held
      BY <1>2, <1>3, <2>2, Moved
    <3> QED BY <1>5, <2>2, <3>1 DEF Moves, L!Next, L!Lose, L!vars
  <2> QED BY <1>5, <2>1, <2>2 DEF Moves
<1> QED BY <1>1, <1>4, <1>5

(* Delivery takes only steps of Ledger: through the map or through the     *)
(* ring, a call is exported at most once and never before it ended, the    *)
(* exported count never goes back, and what is lost is not made good.      *)
THEOREM ImplementsLedger == Spec => L!Steps
<1>1. AccountInv => PathInv
  BY DEF AccountInv
<1> QED BY <1>1, LedgerInit, LedgerNext, AccountInvariance, PTL DEF Spec, L!Steps

-----------------------------------------------------------------------------
(* The drop metrics.                                                       *)

(* What was reported is what ReportDrops saw last. *)
ReportInv ==
  /\ TypeInv
  /\ dropped_events = last_dropped_total /\ last_dropped_total <= DROPPED
  /\ launch_agg_drops = last_launch_dropped /\ last_launch_dropped <= LAUNCH_DROPPED

LEMMA InitReport == Init => ReportInv
BY InitType DEF Init, ReportInv

LEMMA NextReport == ReportInv /\ [Next]_vars => ReportInv'
<1> SUFFICES ASSUME ReportInv, [Next]_vars PROVE ReportInv'
  OBVIOUS
<1>0. /\ TypeInv' /\ DROPPED \in Nat /\ LAUNCH_DROPPED \in Nat /\ workload.pids \in SUBSET Pids
      /\ last_dropped_total \in Nat /\ last_launch_dropped \in Nat
      /\ dropped_events = last_dropped_total /\ last_dropped_total <= DROPPED
      /\ launch_agg_drops = last_launch_dropped /\ last_launch_dropped <= LAUNCH_DROPPED
  BY NextType, Workload DEF ReportInv, TypeInv, TypeOK
<1>1. ASSUME UNCHANGED metrics,
             DROPPED' = DROPPED \/ DROPPED' = DROPPED + 1,
             LAUNCH_DROPPED' = LAUNCH_DROPPED \/ LAUNCH_DROPPED' = LAUNCH_DROPPED + 1
      PROVE  ReportInv'
  BY <1>0, <1>1 DEF ReportInv, metrics
<1>2. ASSUME NEW p \in workload.pids, NEW addr \in Kernels, NEW d \in durations, emit_exit(p, addr, d)
      PROVE  ReportInv'
  <2>1. DROPPED' = DROPPED \/ DROPPED' = DROPPED + 1
    BY <1>2 DEF emit_exit, Submit
  <2>2. UNCHANGED metrics /\ (LAUNCH_DROPPED' = LAUNCH_DROPPED \/ LAUNCH_DROPPED' = LAUNCH_DROPPED + 1)
    BY <1>2 DEF emit_exit
  <2> QED BY <1>1, <2>1, <2>2
<1>3. CASE AggTick
  <2>1. /\ UNCHANGED <<DROPPED, LAUNCH_DROPPED>>
        /\ last_dropped_total' = DROPPED /\ last_launch_dropped' = LAUNCH_DROPPED
        /\ dropped_events' = dropped_events + saturating_sub(DROPPED, last_dropped_total)
        /\ launch_agg_drops' =
             launch_agg_drops + saturating_sub(LAUNCH_DROPPED, last_launch_dropped)
    BY <1>3 DEF AggTick, ReportDrops, drops
  <2>2. dropped_events' = DROPPED /\ launch_agg_drops' = LAUNCH_DROPPED
    BY <1>0, <2>1 DEF saturating_sub
  <2> QED BY <1>0, <2>1, <2>2 DEF ReportInv
<1>4. ASSUME UNCHANGED <<metrics, DROPPED, LAUNCH_DROPPED>> PROVE ReportInv'
  BY <1>1, <1>4
<1>5. ASSUME NEW p, NEW name, nvtx_range_push(p, name) PROVE ReportInv'
  BY <1>4, <1>5 DEF nvtx_range_push, drops
<1>6. ASSUME NEW p, nvtx_range_pop(p) PROVE ReportInv'
  BY <1>4, <1>6 DEF nvtx_range_pop, drops
<1>7. CASE RegisterKernel
  BY <1>4, <1>7 DEF RegisterKernel, drops
<1>8. ASSUME NEW k \in Keys, ReadKey(k) PROVE ReportInv'
  BY <1>4, <1>8 DEF ReadKey, drops
<1>9. CASE DeleteKey
  BY <1>4, <1>9 DEF DeleteKey
<1>10. CASE RingArm
  BY <1>4, <1>10 DEF RingArm, drops
<1>11. CASE MergeReport
  BY <1>4, <1>11 DEF MergeReport, drops
<1>12. CASE UNCHANGED vars
  BY <1>4, <1>12 DEF vars, drops
<1> QED BY <1>2, <1>3, <1>5, <1>6, <1>7, <1>8, <1>9, <1>10, <1>11, <1>12 DEF Next, Programs

(* No drop is reported twice: whatever the programs drop between and       *)
(* during the ticks, the two drop metrics never exceed the counters of the *)
(* programs.                                                               *)
THEOREM DropsReportedOnce == Spec => []DropsOnce
<1>1. ReportInv => DropsOnce
  BY DEF ReportInv, DropsOnce
<1> QED BY <1>1, InitReport, NextReport, PTL DEF Spec

-----------------------------------------------------------------------------
(* The report.                                                             *)

Seen == {d \in durations : kernel_histogram[d] > 0}

(* The two statistics together count the calls that reach the report and   *)
(* summarise the durations the ring arm took; without detailed launches    *)
(* the ring has no events, and they have no extremes.                      *)
StatsInv ==
  /\ PathInv
  /\ term_stats.count + local_term_stats.count = Reported
  /\ ~ DetailedLaunches => NoExtremes(term_stats) /\ NoExtremes(local_term_stats)
  /\ workload.kernel_mode # "full" => kernel_histogram = Empty
  /\ DetailedLaunches /\ workload.kernel_mode = "full" =>
       \E A, B \in SUBSET Nat :
         Summary(term_stats, A) /\ Summary(local_term_stats, B) /\ A \cup B = Seen

LEMMA NothingSeen ==
  ASSUME kernel_histogram = Empty
  PROVE  Seen = {}
BY DEF Seen, Empty, NoDurations

LEMMA NoSummary ==
  Summary(NoStats, {}) /\ NoStats.count = 0 /\ NoStats \in TermStats /\ NoExtremes(NoStats)
BY DEF Summary, NoStats, TermStats, NoExtremes

LEMMA InitStats == Init => StatsInv
<1> SUFFICES ASSUME Init PROVE StatsInv
  OBVIOUS
<1>1. /\ PathInv /\ term_stats = NoStats /\ local_term_stats = NoStats /\ calls = 0
      /\ kernel_histogram = Empty
  BY InitPath DEF Init
<1>2. {} \in SUBSET Nat /\ {} \cup {} = Seen
  BY <1>1, NothingSeen
<1>3. term_stats.count + local_term_stats.count = Reported
  BY <1>1, NoSummary DEF Reported
<1> QED BY <1>1, <1>2, <1>3, NoSummary DEF StatsInv

(* A histogram that observes a batch has seen what is in the batch. *)
Positive(h) == {d \in DOMAIN h : h[d] > 0}

Observed(n, durs) == {durs[i] : i \in 1 .. n}

Observe(h, n, durs) == [d \in DOMAIN h |-> h[d] + Cardinality({i \in 1 .. n : durs[i] = d})]

LEMMA SeenBatch ==
  ASSUME NEW D, NEW h \in [D -> Nat], NEW n \in Nat, NEW durs \in [1 .. n -> D]
  PROVE  Positive(Observe(h, n, durs)) = Positive(h) \cup Observed(n, durs)
<1> SUFFICES ASSUME NEW d \in D
             PROVE  h[d] + Cardinality({i \in 1 .. n : durs[i] = d}) > 0 <=>
                      h[d] > 0 \/ \E i \in 1 .. n : durs[i] = d
  BY DEF Positive, Observe, Observed
<1>1. PICK I : I = {i \in 1 .. n : durs[i] = d}
  OBVIOUS
<1>2. IsFiniteSet(I) /\ Cardinality(I) \in Nat
  <2>1. IsFiniteSet(1 .. n) /\ I \subseteq 1 .. n
    BY <1>1, FS_Interval
  <2> QED BY <2>1, FS_Subset, FS_CardinalityType
<1>3. Cardinality(I) = 0 <=> I = {}
  BY <1>2, FS_EmptySet
<1>4. I = {} <=> ~ \E i \in 1 .. n : durs[i] = d
  BY <1>1
<1>5. h[d] \in Nat
  OBVIOUS
<1> QED BY <1>1, <1>2, <1>3, <1>4, <1>5

LEMMA RingStats ==
  ASSUME StatsInv, RingArm, TypeInv', OnePath'
  PROVE  StatsInv'
<1>0. TypeInv /\ TypeOK /\ OnePath
  BY DEF StatsInv, PathInv, TypeInv
<1>1. PICK n \in Nat : n = Min({Len(EVENTS), ConsumeBudget})
  BY <1>0, BatchType
<1>2. PICK durs : durs = [i \in 1 .. n |-> SubSeq(EVENTS, 1, n)[i].duration_ns]
  OBVIOUS
<1>3. durs \in [1 .. n -> durations] /\ durs \in [1 .. n -> Nat]
  <2>1. durs \in [1 .. n -> durations]
    BY <1>0, <1>1, <1>2, BatchType
  <2>2. durations \in SUBSET Nat
    BY <1>0, Workload DEF TypeOK
  <2> QED BY <2>1, <2>2
<1>4. /\ workload' = workload /\ calls' = calls + n /\ term_stats' = term_stats
      /\ local_term_stats' = record_all(local_term_stats, durs)
      /\ workload.kernel_mode # "full" => kernel_histogram' = kernel_histogram
  BY <1>1, <1>2 DEF RingArm
<1>5. workload.kernel_mode = "full" =>
        kernel_histogram' = [d \in durations |-> kernel_histogram[d] + Cardinality({i \in 1 .. n : durs[i] = d})]
  <2>1. \A d : {i \in 1 .. n : SubSeq(EVENTS, 1, n)[i].duration_ns = d} = {i \in 1 .. n : durs[i] = d}
    BY <1>2
  <2>2. workload.kernel_mode = "full" =>
          kernel_histogram' = [d \in durations |-> kernel_histogram[d] +
             Cardinality({i \in 1 .. n : SubSeq(EVENTS, 1, n)[i].duration_ns = d})]
    BY <1>1 DEF RingArm
  <2> QED BY <2>1, <2>2
<1>6. /\ term_stats \in TermStats /\ local_term_stats \in TermStats
      /\ term_stats.count \in Nat /\ local_term_stats.count \in Nat /\ calls \in Nat
      /\ kernel_histogram \in [durations -> Nat]
  BY <1>0 DEF TypeOK, TermStats
<1>7. ~ DetailedLaunches => n = 0
  <2>1. ~ DetailedLaunches => Len(EVENTS) = 0
    BY <1>0 DEF OnePath
  <2>2. n <= Len(EVENTS)
    BY <1>0, <1>1, BatchType
  <2> QED BY <2>1, <2>2
<1>8. local_term_stats'.count = local_term_stats.count + n
  <2>1. {} \in SUBSET Nat
    OBVIOUS
  <2> QED BY <1>3, <1>4, <1>6, <2>1, RecordBatch
<1>9. DetailedLaunches' = DetailedLaunches /\ durations' = durations /\ Empty' = Empty
  BY <1>4 DEF DetailedLaunches, Launches, durations, Empty
<1>10. (term_stats.count + local_term_stats.count = Reported)'
  <2>1. term_stats.count + local_term_stats.count = Reported
    BY DEF StatsInv
  <2>2. CASE DetailedLaunches
    BY <1>4, <1>6, <1>8, <1>9, <2>1, <2>2 DEF Reported
  <2>3. CASE ~ DetailedLaunches
    <3>1. n = 0
      BY <1>7, <2>3
    <3>2. Reported' = Reported
      BY <1>4, <1>6, <1>9, <2>3, <3>1 DEF Reported
    <3> QED BY <1>4, <1>6, <1>8, <2>1, <3>1, <3>2
  <2> QED BY <2>2, <2>3
<1>11. ASSUME ~ DetailedLaunches
       PROVE  (NoExtremes(term_stats) /\ NoExtremes(local_term_stats))'
  <2>1. local_term_stats' = local_term_stats
    <3>1. {} \in SUBSET Nat
      OBVIOUS
    <3> QED BY <1>3, <1>4, <1>6, <1>7, <1>11, <3>1, RecordBatch
  <2> QED BY <1>4, <1>11, <2>1 DEF StatsInv, NoExtremes
<1>12. (workload.kernel_mode # "full")' => (kernel_histogram = Empty)'
  BY <1>4, <1>9 DEF StatsInv
<1>13. ASSUME DetailedLaunches, workload.kernel_mode = "full"
       PROVE  \E A, B \in SUBSET Nat :
                (Summary(term_stats, A) /\ Summary(local_term_stats, B) /\ A \cup B = Seen)'
  <2>1. PICK A, B \in SUBSET Nat :
          Summary(term_stats, A) /\ Summary(local_term_stats, B) /\ A \cup B = Seen
    BY <1>13 DEF StatsInv
  <2>2. PICK new : new = {durs[i] : i \in 1 .. n}
    OBVIOUS
  <2>3. new \in SUBSET Nat
    BY <1>3, <2>2
  <2>4. Summary(local_term_stats', B \cup new)
    BY <1>3, <1>4, <1>6, <2>1, <2>2, RecordBatch
  <2>5. Seen' = Seen \cup new
    <3>1. Seen = Positive(kernel_histogram)
      BY <1>6 DEF Seen, Positive
    <3>2. Seen' = Positive(Observe(kernel_histogram, n, durs))
      BY <1>5, <1>6, <1>9, <1>13 DEF Seen, Positive, Observe
    <3>3. kernel_histogram \in [durations -> Nat] /\ durs \in [1 .. n -> durations]
      BY <1>3, <1>6
    <3>4. Positive(Observe(kernel_histogram, n, durs)) = Positive(kernel_histogram) \cup Observed(n, durs)
      BY <3>3, SeenBatch
    <3>5. new = Observed(n, durs)
      BY <2>2 DEF Observed
    <3> QED BY <3>1, <3>2, <3>4, <3>5
  <2>6. A \cup (B \cup new) = Seen' /\ B \cup new \in SUBSET Nat
    BY <2>1, <2>3, <2>5
  <2>7. Summary(term_stats', A)
    BY <1>4, <2>1
  <2>8. (Summary(term_stats, A) /\ Summary(local_term_stats, B \cup new) /\ A \cup (B \cup new) = Seen)'
    BY <2>4, <2>6, <2>7 DEF Summary
  <2> QED BY <2>1, <2>6, <2>8
<1> QED BY <1>4, <1>9, <1>10, <1>12, <1>13, <1>11 DEF StatsInv, PathInv

LEMMA MergeStats ==
  ASSUME StatsInv, MergeReport, TypeInv', OnePath'
  PROVE  StatsInv'
<1>0. TypeInv /\ TypeOK /\ OnePath
  BY DEF StatsInv, PathInv, TypeInv
<1>1. /\ workload' = workload /\ calls' = calls /\ kernel_histogram' = kernel_histogram
      /\ term_stats' = merge(term_stats, local_term_stats) /\ local_term_stats' = NoStats
  BY DEF MergeReport, ring
<1>2. /\ term_stats \in TermStats /\ local_term_stats \in TermStats
      /\ term_stats.count \in Nat /\ local_term_stats.count \in Nat
  BY <1>0 DEF TypeOK, TermStats
<1>3. DetailedLaunches' = DetailedLaunches /\ Empty' = Empty /\ Seen' = Seen
  BY <1>1 DEF DetailedLaunches, Launches, durations, Empty, Seen
<1>4. term_stats'.count + local_term_stats'.count = term_stats.count + local_term_stats.count
  <2>1. {} \in SUBSET Nat
    OBVIOUS
  <2>2. term_stats'.count = term_stats.count + local_term_stats.count
    BY <1>1, <1>2, <2>1, MergeBoth
  <2>3. local_term_stats'.count = 0
    BY <1>1, NoSummary
  <2> QED BY <1>2, <2>2, <2>3
<1>5. ASSUME DetailedLaunches, workload.kernel_mode = "full"
      PROVE  \E A, B \in SUBSET Nat :
               (Summary(term_stats, A) /\ Summary(local_term_stats, B) /\ A \cup B = Seen)'
  <2>1. PICK A, B \in SUBSET Nat :
          Summary(term_stats, A) /\ Summary(local_term_stats, B) /\ A \cup B = Seen
    BY <1>5 DEF StatsInv
  <2>2. Summary(term_stats', A \cup B)
    BY <1>1, <1>2, <2>1, MergeBoth
  <2>3. Summary(local_term_stats', {})
    BY <1>1, NoSummary
  <2>4. (A \cup B) \cup {} = Seen' /\ A \cup B \in SUBSET Nat /\ {} \in SUBSET Nat
    BY <1>3, <2>1
  <2>5. (Summary(term_stats, A \cup B) /\ Summary(local_term_stats, {}) /\ (A \cup B) \cup {} = Seen)'
    BY <2>2, <2>3, <2>4 DEF Summary
  <2> QED BY <2>4, <2>5
<1>6. (term_stats.count + local_term_stats.count = Reported)'
  BY <1>1, <1>3, <1>4 DEF StatsInv, Reported
<1>7. ASSUME ~ DetailedLaunches
      PROVE  (NoExtremes(term_stats) /\ NoExtremes(local_term_stats))'
  <2>1. NoExtremes(term_stats) /\ NoExtremes(local_term_stats) /\ {} \in SUBSET Nat
    BY <1>7 DEF StatsInv
  <2>2. NoExtremes(term_stats') /\ NoExtremes(local_term_stats')
    BY <1>1, <1>2, <2>1, MergeBoth, NoSummary
  <2> QED BY <2>2 DEF NoExtremes
<1> QED BY <1>1, <1>3, <1>5, <1>6, <1>7 DEF StatsInv, PathInv

LEMMA ReadStats ==
  ASSUME StatsInv, NEW k \in Keys, ReadKey(k), TypeInv', OnePath'
  PROVE  StatsInv'
<1>0. TypeInv /\ TypeOK /\ OnePath
  BY DEF StatsInv, PathInv, TypeInv
<1>1. /\ workload' = workload /\ calls' = calls + Size(AGG[k])
      /\ kernel_histogram' = kernel_histogram /\ term_stats' = term_stats
      /\ local_term_stats' = IF workload.family = "cuda"
                             THEN [local_term_stats EXCEPT !.count = @ + Size(AGG[k])]
                             ELSE local_term_stats
  BY DEF ReadKey, ring
<1>2. ~ DetailedLaunches
  BY <1>0 DEF OnePath, ReadKey
<1>3. ~ DetailedLaunches' /\ Empty' = Empty
  BY <1>1, <1>2 DEF DetailedLaunches, Launches, durations, Empty
<1>4. PICK s \in Nat : s = Size(AGG[k])
  BY <1>0, BagAt
<1>5. /\ local_term_stats \in TermStats /\ local_term_stats.count \in Nat
      /\ term_stats.count \in Nat /\ calls \in Nat
  BY <1>0 DEF TypeOK, TermStats
<1>6. (term_stats.count + local_term_stats.count = Reported)'
  <2>1. local_term_stats'.count = IF workload.family = "cuda" THEN local_term_stats.count + s
                                  ELSE local_term_stats.count
    BY <1>1, <1>4, <1>5 DEF TermStats
  <2>2. term_stats.count + local_term_stats.count = Reported
    BY DEF StatsInv
  <2> QED BY <1>1, <1>2, <1>3, <1>4, <1>5, <2>1, <2>2 DEF Reported
<1>7. (NoExtremes(term_stats) /\ NoExtremes(local_term_stats))'
  <2>1. /\ local_term_stats'.min_ns = local_term_stats.min_ns
        /\ local_term_stats'.max_ns = local_term_stats.max_ns
    BY <1>1, <1>5 DEF TermStats
  <2> QED BY <1>1, <1>2, <2>1 DEF StatsInv, NoExtremes
<1> QED BY <1>1, <1>3, <1>6, <1>7 DEF StatsInv, PathInv

LEMMA NextStats == StatsInv /\ [Next]_vars => StatsInv'
<1> SUFFICES ASSUME StatsInv, [Next]_vars PROVE StatsInv'
  OBVIOUS
<1>0. TypeInv' /\ OnePath'
  BY NextType, NextPath DEF StatsInv, PathInv
<1>1. ASSUME UNCHANGED <<workload, calls, kernel_histogram, stats>> PROVE StatsInv'
  <2>1. /\ workload' = workload /\ calls' = calls /\ kernel_histogram' = kernel_histogram
        /\ term_stats' = term_stats /\ local_term_stats' = local_term_stats
    BY <1>1 DEF stats
  <2>2. DetailedLaunches' = DetailedLaunches /\ Empty' = Empty /\ Seen' = Seen
        /\ Reported' = Reported
    BY <2>1 DEF DetailedLaunches, Launches, durations, Empty, Seen, Reported
  <2>3. \A A, B : (Summary(term_stats, A) /\ Summary(local_term_stats, B) /\ A \cup B = Seen) =>
                  (Summary(term_stats, A) /\ Summary(local_term_stats, B) /\ A \cup B = Seen)'
    BY <2>1, <2>2 DEF Summary
  <2>4. ~ DetailedLaunches => (NoExtremes(term_stats) /\ NoExtremes(local_term_stats))'
    BY <2>1 DEF StatsInv, NoExtremes
  <2> QED BY <1>0, <2>1, <2>2, <2>3, <2>4 DEF StatsInv, PathInv
<1>2. ASSUME NEW p, NEW addr, NEW d, emit_exit(p, addr, d) PROVE StatsInv'
  BY <1>1, <1>2 DEF emit_exit
<1>3. CASE AggTick
  BY <1>1, <1>3 DEF AggTick, ring
<1>4. ASSUME NEW p, NEW name, nvtx_range_push(p, name) PROVE StatsInv'
  BY <1>1, <1>4 DEF nvtx_range_push, ring
<1>5. ASSUME NEW p, nvtx_range_pop(p) PROVE StatsInv'
  BY <1>1, <1>5 DEF nvtx_range_pop, ring
<1>6. CASE RegisterKernel
  BY <1>1, <1>6 DEF RegisterKernel
<1>7. ASSUME NEW k \in Keys, ReadKey(k) PROVE StatsInv'
  BY <1>0, <1>7, ReadStats
<1>8. CASE DeleteKey
  BY <1>1, <1>8 DEF DeleteKey, ring
<1>9. CASE RingArm
  BY <1>0, <1>9, RingStats
<1>10. CASE MergeReport
  BY <1>0, <1>10, MergeStats
<1>11. CASE UNCHANGED vars
  BY <1>1, <1>11 DEF vars, ring
<1> QED BY <1>2, <1>3, <1>4, <1>5, <1>6, <1>7, <1>8, <1>9, <1>10, <1>11 DEF Next, Programs

(* A summary names the least and the greatest duration. *)
LEMMA SummaryExtremes ==
  ASSUME NEW s, NEW D \in SUBSET Nat, Summary(s, D), D # {}
  PROVE  s.min_ns = Min(D) /\ s.max_ns = Max(D)
<1>1. s.count \in Nat /\ s.min_ns \in Nat /\ s.max_ns \in Nat
  BY DEF Summary, TermStats
<1>2. s.count > 0
  <2>1. s.count # 0
    BY Zenon DEF Summary
  <2> QED BY <1>1, <2>1
<1>3. PICK least \in Nat, greatest \in Nat : least = s.min_ns /\ greatest = s.max_ns
  BY <1>1
<1>4. /\ least \in D /\ \A d \in D : least <= d
      /\ greatest \in D /\ \A d \in D : greatest >= d
  BY <1>2, <1>3 DEF Summary
<1>5. /\ \A x \in D : (\A y \in D : x <= y) => x = least
      /\ \A x \in D : (\A y \in D : x >= y) => x = greatest
  BY <1>4
<1>6. Min(D) = least
  BY <1>4, <1>5 DEF Min
<1>7. Max(D) = greatest
  BY <1>4, <1>5 DEF Max
<1> QED BY <1>3, <1>6, <1>7

LEMMA StatsReport == StatsInv => ReportExact
<1> SUFFICES ASSUME StatsInv PROVE ReportExact
  OBVIOUS
<1>1. /\ term_stats \in TermStats /\ local_term_stats \in TermStats /\ OnePath
  BY DEF StatsInv, PathInv, TypeInv, TypeOK
<1>2. PICK total : total = merge(term_stats, local_term_stats)
  OBVIOUS
<1>3. total.count = Reported /\ (~ DetailedLaunches => NoExtremes(total))
  <2>1. {} \in SUBSET Nat
    OBVIOUS
  <2>2. /\ total.count = term_stats.count + local_term_stats.count
        /\ NoExtremes(term_stats) /\ NoExtremes(local_term_stats) => NoExtremes(total)
    BY <1>1, <1>2, <2>1, MergeBoth
  <2> QED BY <2>2 DEF StatsInv
<1>4. ASSUME Seen # {} PROVE total.min_ns = Min(Seen) /\ total.max_ns = Max(Seen)
  <2>1. DetailedLaunches /\ workload.kernel_mode = "full"
    BY <1>1, <1>4, NothingSeen DEF StatsInv, OnePath
  <2>2. PICK A, B \in SUBSET Nat :
          Summary(term_stats, A) /\ Summary(local_term_stats, B) /\ A \cup B = Seen
    BY <2>1 DEF StatsInv
  <2>3. Summary(total, A \cup B) /\ A \cup B \in SUBSET Nat
    BY <1>1, <1>2, <2>2, MergeBoth
  <2> QED BY <1>4, <2>2, <2>3, SummaryExtremes
<1> QED BY <1>2, <1>3, <1>4 DEF ReportExact, Seen, NoExtremes

(* However ring batches, reads of the map and gc ticks alternate, the      *)
(* report counts each call drained from AGGREGATED and each event of the   *)
(* ring once, and no launch or NCCL call that is aggregated; record and    *)
(* merge give the extremes of what the kernel histogram observed, and 0    *)
(* for a row of aggregated calls.                                          *)
THEOREM ReportComplete == Spec => []ReportExact
BY InitStats, NextStats, StatsReport, PTL DEF Spec

-----------------------------------------------------------------------------
(* The histograms.                                                         *)

(* Counting over a part of a set and over the rest. *)
LEMMA CountSplit ==
  ASSUME NEW D, IsFiniteSet(D), NEW bag \in [D -> Nat], NEW S \in SUBSET D, NEW B \in SUBSET S
  PROVE  CountIn(bag, S) = CountIn(bag, S \ B) + CountIn(bag, B)
<1> DEFINE f == [d \in S \ B |-> bag[d]]
           g == [d \in B |-> bag[d]]
           h == [d \in S |-> bag[d]]
<1>1. IsFiniteSet(S \ B) /\ IsFiniteSet(B) /\ f \in [S \ B -> Nat] /\ g \in [B -> Nat]
  <2>1. S \ B \in SUBSET D /\ B \in SUBSET D
    OBVIOUS
  <2> QED BY <2>1, FS_Subset
<1>2. IsFiniteSet(Units(f)) /\ IsFiniteSet(Units(g))
  <2> HIDE DEF f, g
  <2> QED BY <1>1, SumType
<1>3. Units(h) = Units(f) \cup Units(g)
  <2>1. \A u : u \in Units(f) <=> \E x \in S \ B : \E i \in 1 .. bag[x] : u = <<x, i>>
    BY UnitsOf
  <2>2. \A u : u \in Units(g) <=> \E x \in B : \E i \in 1 .. bag[x] : u = <<x, i>>
    BY UnitsOf
  <2>3. \A u : u \in Units(h) <=> \E x \in S : \E i \in 1 .. bag[x] : u = <<x, i>>
    BY UnitsOf
  <2> HIDE DEF f, g, h
  <2> QED BY <2>1, <2>2, <2>3
<1>4. Units(f) \cap Units(g) = {}
  <2> SUFFICES ASSUME NEW u \in Units(f), u \in Units(g) PROVE FALSE
    OBVIOUS
  <2>1. PICK x \in S \ B, i \in Nat : u = <<x, i>>
    BY UnitsOf
  <2>2. PICK y \in B, j \in Nat : u = <<y, j>>
    BY UnitsOf
  <2> QED BY <2>1, <2>2
<1>5. Cardinality(Units(f) \cap Units(g)) = 0
  BY <1>4, FS_EmptySet
<1>6. Cardinality(Units(f)) \in Nat /\ Cardinality(Units(g)) \in Nat
  BY <1>2, FS_CardinalityType
<1>7. Cardinality(Units(f) \cup Units(g)) = Cardinality(Units(f)) + Cardinality(Units(g))
  <2> HIDE DEF f, g
  <2>1. Cardinality(Units(f) \cup Units(g)) =
          Cardinality(Units(f)) + Cardinality(Units(g)) - Cardinality(Units(f) \cap Units(g))
    BY <1>2, FS_Union
  <2> QED BY <1>5, <1>6, <2>1
<1> QED BY <1>3, <1>7 DEF CountIn, Sum

(* Counting in the sum of two bags. *)
LEMMA CountPlus ==
  ASSUME NEW D, IsFiniteSet(D), NEW a \in [D -> Nat], NEW b \in [D -> Nat]
  PROVE  /\ Plus(a, b) \in [D -> Nat]
         /\ \A S \in SUBSET D : CountIn(Plus(a, b), S) = CountIn(a, S) + CountIn(b, S)
<1>1. Plus(a, b) = [d \in D |-> a[d] + b[d]]
  BY DEF Plus
<1>2. Plus(a, b) \in [D -> Nat]
  BY <1>1
<1>3. ASSUME NEW S \in SUBSET D PROVE CountIn(Plus(a, b), S) = CountIn(a, S) + CountIn(b, S)
  <2> DEFINE f == [d \in S |-> a[d]]
             g == [d \in S |-> b[d]]
  <2>1. IsFiniteSet(S) /\ f \in [S -> Nat] /\ g \in [S -> Nat]
    BY FS_Subset
  <2>2. [d \in S |-> Plus(a, b)[d]] = [d \in S |-> f[d] + g[d]]
    BY <1>1
  <2>3. Sum([d \in S |-> f[d] + g[d]]) = Sum(f) + Sum(g)
    <3> HIDE DEF f, g
    <3> QED BY <2>1, SumAdd
  <2> QED BY <2>2, <2>3 DEF CountIn
<1> QED BY <1>2, <1>3

(* The bounds of a family increase. *)
LEMMA Increasing ==
  ASSUME NEW family \in {"cuda", "nccl", "launch"},
         NEW i \in 1 .. Len(BoundsOf(family)), NEW j \in 1 .. Len(BoundsOf(family)), i <= j
  PROVE  BoundsOf(family)[i] <= BoundsOf(family)[j]
<1>1. \A k, l \in 1 .. Len(CUDA_BUCKET_BOUNDS_NS) : k <= l => CUDA_BUCKET_BOUNDS_NS[k] <= CUDA_BUCKET_BOUNDS_NS[l]
  BY SMTT(120) DEF CUDA_BUCKET_BOUNDS_NS
<1>2. \A k, l \in 1 .. Len(NCCL_BUCKET_BOUNDS_NS) : k <= l => NCCL_BUCKET_BOUNDS_NS[k] <= NCCL_BUCKET_BOUNDS_NS[l]
  BY SMTT(120) DEF NCCL_BUCKET_BOUNDS_NS
<1>3. \A k, l \in 1 .. Len(KERNEL_BUCKET_BOUNDS_NS) : k <= l => KERNEL_BUCKET_BOUNDS_NS[k] <= KERNEL_BUCKET_BOUNDS_NS[l]
  BY SMTT(120) DEF KERNEL_BUCKET_BOUNDS_NS
<1> QED BY <1>1, <1>2, <1>3, Zenon DEF BoundsOf

(* A duration is in the first bucket whose bound it does not exceed. *)
LEMMA BucketOf ==
  ASSUME NEW family \in {"cuda", "nccl", "launch"}, NEW d \in Nat
  PROVE  /\ BucketIdxOf(family, d) \in 1 .. Len(BoundsOf(family)) + 1
         /\ \A i \in 1 .. Len(BoundsOf(family)) :
              d <= BoundsOf(family)[i] <=> BucketIdxOf(family, d) <= i
<1>1. PICK bounds, n : bounds = BoundsOf(family) /\ n = Len(BoundsOf(family))
  OBVIOUS
<1>2. /\ n \in Nat /\ bounds \in [1 .. n -> Nat] /\ Len(bounds) = n
      /\ \A i, j \in 1 .. n : i <= j => bounds[i] <= bounds[j]
  BY <1>1, Tables, Increasing
<1>3. BucketIdxOf(family, d) = FirstBound(bounds, d)
  BY <1>1 DEF BucketIdxOf, BoundsOf, profi_cuda_bucket_idx, profi_nccl_bucket_idx,
              profi_kernel_bucket_idx
<1> DEFINE First(i) == /\ \A j \in 1 .. i - 1 : d > bounds[j]
                       /\ i <= n => d <= bounds[i]
           T == {i \in 1 .. n + 1 : i <= n => d <= bounds[i]}
<1>4. \E m \in 1 .. n + 1 : First(m)
  <2>1. T \in SUBSET Nat /\ n + 1 \in T
    BY <1>2
  <2>2. PICK m \in T : \A x \in T : m <= x
    <3> HIDE DEF T
    <3> QED BY <2>1, Least
  <2>3. ASSUME NEW j \in 1 .. m - 1 PROVE d > bounds[j]
    <3>1. j \in 1 .. n /\ j \notin T
      BY <1>2, <2>2
    <3> QED BY <1>2, <3>1
  <2> QED BY <2>2, <2>3
<1>5. PICK b \in 1 .. n + 1 : b = FirstBound(bounds, d) /\ First(b)
  BY <1>2, <1>4 DEF FirstBound
<1>6. ASSUME NEW i \in 1 .. n PROVE d <= bounds[i] <=> b <= i
  <2>1. CASE i < b
    BY <1>2, <1>5, <2>1
  <2>2. CASE b <= i
    <3>1. b \in 1 .. n /\ bounds[b] <= bounds[i] /\ d <= bounds[b]
      BY <1>2, <1>5, <2>2
    <3> QED BY <1>2, <2>2, <3>1
  <2> QED BY <1>2, <2>1, <2>2
<1> QED BY <1>1, <1>3, <1>5, <1>6

(* How many durations of a bag are in the first i buckets. *)
UpTo(family, bag, i) == CountIn(bag, {d \in DOMAIN bag : BucketIdxOf(family, d) <= i})

(* The counts of the first i buckets add up to the durations in them. *)
LEMMA CumulativeCounts ==
  ASSUME NEW family \in {"cuda", "nccl", "launch"}, NEW D \in SUBSET Nat, IsFiniteSet(D),
         NEW bag \in [D -> Nat]
  PROVE  /\ UpTo(family, bag, 0) = 0
         /\ \A i \in 1 .. Len(BoundsOf(family)) + 1 :
              /\ Cumulative(bucket_counts(family, bag))[i] = UpTo(family, bag, i)
              /\ UpTo(family, bag, i) = UpTo(family, bag, i - 1) + bucket_counts(family, bag)[i]
              /\ UpTo(family, bag, i - 1) \in Nat /\ bucket_counts(family, bag)[i] \in Nat
<1>1. PICK n \in Nat : n = Len(BoundsOf(family))
  BY Tables
<1> DEFINE c == bucket_counts(family, bag)
           In(i) == {d \in D : BucketIdxOf(family, d) <= i}
           K(i) == CountIn(bag, In(i))
           S(i) == Sum([j \in 1 .. i |-> c[j]])
           T == {i \in 0 .. n + 1 : S(i) # K(i)}
<1>2. \A d \in D : BucketIdxOf(family, d) \in 1 .. n + 1
  BY <1>1, BucketOf
<1>3. /\ c \in [1 .. n + 1 -> Nat]
      /\ \A i \in 1 .. n + 1 : c[i] = CountIn(bag, {d \in D : BucketIdxOf(family, d) = i})
  <2>1. c \in [1 .. n + 1 -> Nat]
    BY <1>1, BucketsType
  <2>2. DOMAIN bag = D
    OBVIOUS
  <2> QED BY <1>1, <2>1, <2>2 DEF bucket_counts
<1> HIDE DEF c
<1>4. K(0) = 0
  <2>1. In(0) = {}
    <3> SUFFICES ASSUME NEW d \in D, BucketIdxOf(family, d) <= 0 PROVE FALSE
      OBVIOUS
    <3> QED BY <1>2
  <2>2. Sum([d \in {} |-> bag[d]]) = 0
    BY SumZero
  <2> QED BY <2>1, <2>2 DEF CountIn
<1>5. S(0) = 0
  <2>1. 1 .. 0 = {}
    OBVIOUS
  <2>2. DOMAIN [j \in {} |-> c[j]] = {}
    OBVIOUS
  <2>3. Sum([j \in {} |-> c[j]]) = 0
    BY SumZero
  <2> QED BY <2>1, <2>3
<1>6. ASSUME NEW i \in 1 .. n + 1 PROVE K(i) = K(i - 1) + c[i] /\ K(i - 1) \in Nat
  <2> DEFINE B == {d \in D : BucketIdxOf(family, d) = i}
  <2>1. In(i - 1) = In(i) \ B
    <3>1. ASSUME NEW b \in 1 .. n + 1 PROVE b <= i - 1 <=> b <= i /\ b # i
      OBVIOUS
    <3>2. \A d \in D : BucketIdxOf(family, d) <= i - 1 <=>
                         BucketIdxOf(family, d) <= i /\ BucketIdxOf(family, d) # i
      BY <1>2, <3>1
    <3> QED BY <3>2
  <2>2. In(i) \in SUBSET D /\ In(i - 1) \in SUBSET D /\ B \in SUBSET In(i)
    OBVIOUS
  <2> HIDE DEF In, B
  <2>3. K(i) = K(i - 1) + CountIn(bag, B)
    <3>1. PICK A : A = In(i)
      OBVIOUS
    <3>2. A \in SUBSET D /\ B \in SUBSET A
      BY <2>2, <3>1
    <3>3. CountIn(bag, A) = CountIn(bag, A \ B) + CountIn(bag, B)
      BY <3>2, CountSplit
    <3> QED BY <2>1, <3>1, <3>3
  <2>4. c[i] = CountIn(bag, B)
    BY <1>3 DEF B
  <2>5. K(i - 1) \in Nat
    BY <2>2, SizeType
  <2> QED BY <2>3, <2>4, <2>5
<1>7. ASSUME NEW i \in 1 .. n + 1 PROVE S(i) = S(i - 1) + c[i]
  <2>1. IsFiniteSet(1 .. i) /\ i \in 1 .. i /\ (1 .. i) \ {i} = 1 .. i - 1
    BY FS_Interval
  <2> DEFINE f == [j \in 1 .. i |-> c[j]]
  <2>2. f \in [1 .. i -> Nat]
    BY <1>3
  <2>3. Sum(f) = Sum([j \in (1 .. i) \ {i} |-> f[j]]) + f[i]
    <3> HIDE DEF f
    <3> QED BY <2>1, <2>2, SumSplit
  <2>4. [j \in (1 .. i) \ {i} |-> f[j]] = [j \in 1 .. i - 1 |-> c[j]]
    BY <2>1
  <2> QED BY <2>1, <2>3, <2>4
<1>8. T = {}
  <2> SUFFICES ASSUME T # {} PROVE FALSE
    OBVIOUS
  <2> HIDE DEF S, K
  <2>1. PICK m \in T : \A x \in T : m <= x
    <3> HIDE DEF T
    <3>1. T \in SUBSET Nat
      BY DEF T
    <3> QED BY <3>1, Least
  <2>2. m \in 1 .. n + 1
    BY <1>4, <1>5, <2>1
  <2>3. m - 1 \notin T /\ m - 1 \in 0 .. n + 1
    BY <2>1, <2>2
  <2>4. S(m) = K(m)
    BY <1>6, <1>7, <2>2, <2>3
  <2> QED BY <2>1, <2>4
<1>9. ASSUME NEW i \in 1 .. n + 1 PROVE Cumulative(c)[i] = K(i)
  <2>1. Cumulative(c)[i] = S(i)
    BY <1>3 DEF Cumulative
  <2>2. S(i) = K(i)
    <3> HIDE DEF S, K
    <3> QED BY <1>8
  <2> QED BY <2>1, <2>2
<1>10. \A i \in 1 .. n + 1 : c[i] \in Nat
  BY <1>3
<1>11. \A i : K(i) = UpTo(family, bag, i)
  BY DEF UpTo
<1> HIDE DEF K
<1> QED BY <1>1, <1>4, <1>6, <1>9, <1>10, <1>11 DEF c

(* What the le counters of a bag are: for a bound the durations up to it,  *)
(* for +Inf all of them.                                                   *)
LEMMA LeTable ==
  ASSUME NEW family \in {"cuda", "nccl", "launch"}, NEW D \in SUBSET Nat, IsFiniteSet(D),
         NEW bag \in [D -> Nat]
  PROVE  LET h == PrometheusHistogram(BoundsOf(family), bag)
             n == Len(BoundsOf(family))
         IN  /\ h.cumulative_count \in [1 .. n -> Nat] /\ h.sample_count \in Nat
             /\ \A i \in 1 .. n :
                  h.cumulative_count[i] = UpTo(family, bag, i)
             /\ h.sample_count = UpTo(family, bag, n + 1)
             /\ Append(h.cumulative_count, h.sample_count) = Cumulative(bucket_counts(family, bag))
<1>1. PICK bounds, n : bounds = BoundsOf(family) /\ n = Len(BoundsOf(family))
  OBVIOUS
<1>2. n \in Nat /\ bounds \in [1 .. n -> Nat] /\ DOMAIN bounds = 1 .. n /\ DOMAIN bag = D
  BY <1>1, Tables
<1>3. PICK h : h = PrometheusHistogram(bounds, bag)
  OBVIOUS
<1>4. /\ h.cumulative_count = [i \in 1 .. n |-> CountIn(bag, {d \in D : d <= bounds[i]})]
      /\ h.sample_count = Size(bag)
  BY <1>2, <1>3 DEF PrometheusHistogram
<1>5. ASSUME NEW i \in 1 .. n PROVE {d \in D : d <= bounds[i]} = {d \in D : BucketIdxOf(family, d) <= i}
  <2>1. \A d \in D : d <= bounds[i] <=> BucketIdxOf(family, d) <= i
    BY <1>1, BucketOf
  <2> QED BY <2>1
<1>6. D = {d \in D : BucketIdxOf(family, d) <= n + 1}
  <2>1. \A d \in D : BucketIdxOf(family, d) \in 1 .. n + 1
    BY <1>1, BucketOf
  <2>2. ASSUME NEW b \in 1 .. n + 1 PROVE b <= n + 1
    OBVIOUS
  <2>3. \A d \in D : BucketIdxOf(family, d) <= n + 1
    BY <2>1, <2>2
  <2> QED BY <2>3
<1>7. h.sample_count = UpTo(family, bag, n + 1) /\ h.sample_count \in Nat
  BY <1>2, <1>4, <1>6, SizeType DEF UpTo
<1>8. \A i \in 1 .. n : h.cumulative_count[i] = UpTo(family, bag, i)
  BY <1>2, <1>4, <1>5 DEF UpTo
<1>9. h.cumulative_count \in [1 .. n -> Nat]
  <2>1. \A i \in 1 .. n : CountIn(bag, {d \in D : d <= bounds[i]}) \in Nat
    BY SizeType
  <2> QED BY <1>4, <2>1
<1>10. Append(h.cumulative_count, h.sample_count) = Cumulative(bucket_counts(family, bag))
  <2>1. PICK c : c = h.cumulative_count
    OBVIOUS
  <2>2. PICK t : t = Cumulative(bucket_counts(family, bag))
    OBVIOUS
  <2>6. t \in [1 .. n + 1 -> Nat]
    <3>1. bucket_counts(family, bag) \in [1 .. n + 1 -> Nat]
      <4>1. bucket_counts(family, bag) \in [1 .. Len(BoundsOf(family)) + 1 -> Nat]
        BY BucketsType
      <4> QED BY <1>1, <4>1
    <3>2. n + 1 \in Nat
      BY <1>2
    <3> QED BY <2>2, <3>1, <3>2, CumulativeType
  <2>3. \A i \in 1 .. n + 1 : t[i] = UpTo(family, bag, i)
    BY <1>1, <2>2, CumulativeCounts
  <2>4. /\ DOMAIN Append(c, h.sample_count) = 1 .. n + 1
        /\ \A i \in 1 .. n : Append(c, h.sample_count)[i] = c[i]
        /\ Append(c, h.sample_count)[n + 1] = h.sample_count
        /\ Append(c, h.sample_count) \in Seq(Nat)
    BY <1>2, <1>7, <1>9, <2>1
  <2>5. \A i \in 1 .. n + 1 : Append(c, h.sample_count)[i] = t[i]
    BY <1>2, <1>7, <1>8, <2>1, <2>3, <2>4
  <2> QED BY <1>2, <2>1, <2>2, <2>4, <2>5, <2>6
<1> QED BY <1>1, <1>3, <1>7, <1>8, <1>9, <1>10

(* The OTLP point has the buckets of the programs. *)
LEMMA OtlpTable ==
  ASSUME NEW family \in {"cuda", "nccl", "launch"}, NEW D \in SUBSET Nat, IsFiniteSet(D),
         NEW bag \in [D -> Nat]
  PROVE  histogram_to_otlp(PrometheusHistogram(BoundsOf(family), bag)) = bucket_counts(family, bag)
<1>1. PICK n \in Nat \ {0} : n = Len(BoundsOf(family))
  BY Tables
<1>2. PICK h : h = PrometheusHistogram(BoundsOf(family), bag)
  OBVIOUS
<1>3. PICK fin : fin = h.cumulative_count
  OBVIOUS
<1>4. PICK size : size = h.sample_count
  OBVIOUS
<1>5. PICK c : c = bucket_counts(family, bag)
  OBVIOUS
<1>6. /\ fin \in [1 .. n -> Nat] /\ DOMAIN fin = 1 .. n /\ Len(fin) = n
      /\ \A i \in 1 .. n : fin[i] = UpTo(family, bag, i)
      /\ size = UpTo(family, bag, n + 1)
  BY <1>1, <1>2, <1>3, <1>4, LeTable
<1>7. \A i \in 1 .. n + 1 : UpTo(family, bag, i) = UpTo(family, bag, i - 1) + c[i] /\ UpTo(family, bag, i - 1) \in Nat /\ c[i] \in Nat
  BY <1>1, <1>5, CumulativeCounts
<1>8. UpTo(family, bag, 0) = 0
  BY <1>1, CumulativeCounts
<1>9. c \in [1 .. n + 1 -> Nat]
  BY <1>1, <1>5, BucketsType
<1> DEFINE prev(i) == IF i = 1 THEN 0 ELSE fin[i - 1]
           g == [i \in 1 .. n |-> saturating_sub(fin[i], prev(i))]
<1>10. histogram_to_otlp(h) = Append(g, saturating_sub(size, prev(n + 1)))
  BY <1>3, <1>4, <1>6 DEF histogram_to_otlp
<1>11. \A i \in 1 .. n + 1 : prev(i) = UpTo(family, bag, i - 1)
  BY <1>6, <1>8
<1>12. \A i \in 1 .. n + 1 : saturating_sub(UpTo(family, bag, i), UpTo(family, bag, i - 1)) = c[i]
  BY <1>7 DEF saturating_sub
<1>13. \A i \in 1 .. n : saturating_sub(fin[i], prev(i)) = c[i]
  BY <1>6, <1>11, <1>12
<1>14. saturating_sub(size, prev(n + 1)) = c[n + 1]
  <2>1. n + 1 \in 1 .. n + 1 /\ (n + 1) - 1 = n
    OBVIOUS
  <2> HIDE DEF prev
  <2> QED BY <1>6, <1>11, <1>12, <2>1
<1>15. g = [i \in 1 .. n |-> c[i]]
  BY <1>13
<1>16. Append([i \in 1 .. n |-> c[i]], c[n + 1]) = c
  <2>0. [i \in 1 .. n |-> c[i]] \in [1 .. n -> Nat]
    BY <1>9
  <2>1. PICK s : s = [i \in 1 .. n |-> c[i]]
    OBVIOUS
  <2>2. /\ DOMAIN Append(s, c[n + 1]) = 1 .. n + 1
        /\ \A i \in 1 .. n : Append(s, c[n + 1])[i] = s[i]
        /\ Append(s, c[n + 1])[n + 1] = c[n + 1]
        /\ Append(s, c[n + 1]) \in Seq(Nat)
    <3>1. s \in [1 .. n -> Nat] /\ c[n + 1] \in Nat
      BY <1>9, <2>0, <2>1
    <3> QED BY <3>1
  <2>3. \A i \in 1 .. n + 1 : Append(s, c[n + 1])[i] = c[i]
    BY <2>1, <2>2
  <2> QED BY <1>9, <2>1, <2>2, <2>3
<1> HIDE DEF g, prev
<1> QED BY <1>2, <1>5, <1>10, <1>14, <1>15, <1>16

(* The le counters of a bag count up to a bucket. *)
Adds(family, bag) ==
  LET n == Len(BoundsOf(family))
  IN  /\ bucket_counts(family, bag) \in [1 .. n + 1 -> Nat]
      /\ Cumulative(bucket_counts(family, bag)) \in [1 .. n + 1 -> Nat]
      /\ \A i \in 1 .. n + 1 : Cumulative(bucket_counts(family, bag))[i] = UpTo(family, bag, i)

LEMMA CountersAdd ==
  ASSUME NEW family \in {"cuda", "nccl", "launch"}, NEW D \in SUBSET Nat, IsFiniteSet(D),
         NEW bag \in [D -> Nat]
  PROVE  Adds(family, bag)
<1>1. PICK n \in Nat : n = Len(BoundsOf(family))
  BY Tables
<1>2. bucket_counts(family, bag) \in [1 .. n + 1 -> Nat]
  <2>1. bucket_counts(family, bag) \in [1 .. Len(BoundsOf(family)) + 1 -> Nat]
    BY BucketsType
  <2> QED BY <1>1, <2>1
<1>3. n + 1 \in Nat
  BY <1>1
<1>4. Cumulative(bucket_counts(family, bag)) \in [1 .. n + 1 -> Nat]
  BY <1>2, <1>3, CumulativeType
<1>5. \A i \in 1 .. n + 1 : Cumulative(bucket_counts(family, bag))[i] = UpTo(family, bag, i)
  BY <1>1, CumulativeCounts
<1> QED BY <1>1, <1>2, <1>4, <1>5 DEF Adds

(* Adding the counters of a bag to those of another one gives those of     *)
(* their sum.                                                              *)
LEMMA LePlus ==
  ASSUME NEW family, NEW D, IsFiniteSet(D), NEW a \in [D -> Nat], NEW b \in [D -> Nat],
         Adds(family, a), Adds(family, b), Adds(family, Plus(a, b))
  PROVE  inc_cumulative_bucket_counters(Cumulative(bucket_counts(family, a)),
                                        bucket_counts(family, b)) =
           Cumulative(bucket_counts(family, Plus(a, b)))
<1>1. PICK s, N : s = Plus(a, b) /\ N = 1 .. Len(BoundsOf(family)) + 1
  OBVIOUS
<1>2. /\ DOMAIN bucket_counts(family, b) = N
      /\ Cumulative(bucket_counts(family, s)) \in [N -> Nat]
      /\ \A i \in N : /\ Cumulative(bucket_counts(family, a))[i] = UpTo(family, a, i)
                       /\ Cumulative(bucket_counts(family, b))[i] = UpTo(family, b, i)
                       /\ Cumulative(bucket_counts(family, s))[i] = UpTo(family, s, i)
  BY <1>1 DEF Adds
<1>3. ASSUME NEW i PROVE UpTo(family, s, i) = UpTo(family, a, i) + UpTo(family, b, i)
  <2>1. PICK S : S = {d \in D : BucketIdxOf(family, d) <= i}
    OBVIOUS
  <2>2. S \in SUBSET D
    BY <2>1
  <2>3. CountIn(Plus(a, b), S) = CountIn(a, S) + CountIn(b, S)
    BY <2>2, CountPlus
  <2>4. DOMAIN a = D /\ DOMAIN b = D /\ DOMAIN Plus(a, b) = D
    BY DEF Plus
  <2> QED BY <1>1, <2>1, <2>3, <2>4 DEF UpTo
<1>4. \A i \in N : Cumulative(bucket_counts(family, a))[i] + Cumulative(bucket_counts(family, b))[i] =
                    Cumulative(bucket_counts(family, s))[i]
  BY <1>2, <1>3
<1>5. inc_cumulative_bucket_counters(Cumulative(bucket_counts(family, a)), bucket_counts(family, b)) =
        [i \in N |-> Cumulative(bucket_counts(family, a))[i] + Cumulative(bucket_counts(family, b))[i]]
  BY <1>2 DEF inc_cumulative_bucket_counters
<1> QED BY <1>1, <1>2, <1>4, <1>5

(* The counters of no duration are zero. *)
LEMMA LeEmpty ==
  ASSUME NEW family \in {"cuda", "nccl", "launch"}, NEW D \in SUBSET Nat, IsFiniteSet(D)
  PROVE  /\ NoDurations(D) \in [D -> Nat]
         /\ bucket_counts(family, NoDurations(D)) = Cumulative(bucket_counts(family, NoDurations(D)))
<1>1. PICK n \in Nat : n = Len(BoundsOf(family))
  BY Tables
<1>2. PICK e : e = NoDurations(D)
  OBVIOUS
<1>3. e \in [D -> Nat] /\ DOMAIN e = D /\ \A d \in D : e[d] = 0
  BY <1>2 DEF NoDurations
<1>4. ASSUME NEW S \in SUBSET D PROVE CountIn(e, S) = 0
  <2>1. Sum([d \in S |-> e[d]]) = 0
    BY <1>3, SumZero
  <2> QED BY <2>1 DEF CountIn
<1>5. PICK c : c = bucket_counts(family, e)
  OBVIOUS
<1>6. c \in [1 .. n + 1 -> Nat] /\ \A i \in 1 .. n + 1 : c[i] = 0
  <2>1. c \in [1 .. n + 1 -> Nat]
    <3>1. bucket_counts(family, e) \in [1 .. Len(BoundsOf(family)) + 1 -> Nat]
      BY <1>3, BucketsType
    <3> QED BY <1>1, <1>5, <3>1
  <2>2. \A i \in 1 .. n + 1 : CountIn(e, {d \in D : BucketIdxOf(family, d) = i}) = 0
    BY <1>4
  <2> QED BY <1>1, <1>3, <1>5, <2>1, <2>2 DEF bucket_counts
<1>7. Cumulative(c) \in [1 .. n + 1 -> Nat]
  <2>1. n + 1 \in Nat
    OBVIOUS
  <2> QED BY <1>6, <2>1, CumulativeType
<1>8. \A i \in 1 .. n + 1 : Cumulative(c)[i] = 0
  <2>1. \A i \in 1 .. n + 1 : Cumulative(c)[i] = UpTo(family, e, i)
    BY <1>1, <1>3, <1>5, CumulativeCounts
  <2>2. \A i \in 1 .. n + 1 : UpTo(family, e, i) = 0
    BY <1>3, <1>4 DEF UpTo
  <2> QED BY <2>1, <2>2
<1> QED BY <1>2, <1>3, <1>5, <1>6, <1>7, <1>8

(* The OTLP point and the programs agree on the bucket of every launch the *)
(* ring arm observed, whatever it observed: histogram_to_otlp takes the    *)
(* cumulative counts apart into the bucket_counts of profi_events.h.       *)
THEOREM OtlpBuckets == Spec => []OtlpExact
<1>1. TypeOK => OtlpExact
  <2> SUFFICES ASSUME TypeOK PROVE OtlpExact
    OBVIOUS
  <2>1. durations \in SUBSET Nat /\ IsFiniteSet(durations) /\ kernel_histogram \in [durations -> Nat]
    BY Workload DEF TypeOK
  <2>2. BoundsOf("launch") = KERNEL_BUCKET_BOUNDS_NS
    BY Zenon DEF BoundsOf
  <2>3. histogram_to_otlp(PrometheusHistogram(BoundsOf("launch"), kernel_histogram)) =
          bucket_counts("launch", kernel_histogram)
    BY <2>1, OtlpTable
  <2> QED BY <2>2, <2>3, Zenon DEF OtlpExact
<1> QED BY <1>1, TypeCorrect, PTL

(* The le counters are the running totals of the buckets of the exported   *)
(* durations; for launches, in full mode.                                  *)
LeInv ==
  /\ TypeInv
  /\ (Launches => workload.kernel_mode = "full") =>
       bucket_total = Cumulative(bucket_counts(workload.family, exported))

LEMMA InitLe == Init => LeInv
<1> SUFFICES ASSUME Init PROVE LeInv
  OBVIOUS
<1>1. /\ TypeInv /\ workload \in Workloads /\ exported = Empty
      /\ bucket_total = bucket_counts(workload.family, Empty)
  BY InitType DEF Init
<1>2. bucket_counts(workload.family, Empty) = Cumulative(bucket_counts(workload.family, Empty))
  BY <1>1, Workload, LeEmpty DEF Empty
<1> QED BY <1>1, <1>2 DEF LeInv

LEMMA ReadLe ==
  ASSUME LeInv, NEW k \in Keys, ReadKey(k), TypeInv'
  PROVE  LeInv'
<1>0. TypeOK
  BY DEF LeInv, TypeInv
<1>1. PICK family \in {"cuda", "nccl", "launch"} : family = workload.family
  BY <1>0, Workload DEF TypeOK
<1>2. PICK D \in SUBSET Nat : D = durations /\ IsFiniteSet(D)
  BY <1>0, Workload DEF TypeOK
<1>3. PICK a : a = exported
  OBVIOUS
<1>4. PICK b : b = AGG[k]
  OBVIOUS
<1>5. PICK s : s = Plus(a, b)
  OBVIOUS
<1>6. a \in [D -> Nat] /\ b \in [D -> Nat]
  BY <1>0, <1>2, <1>3, <1>4, BagAt DEF TypeOK
<1>7. s \in [D -> Nat]
  BY <1>5, <1>6 DEF Plus
<1>8. Adds(family, a) /\ Adds(family, b) /\ Adds(family, s)
  BY <1>2, <1>6, <1>7, CountersAdd
<1>9. inc_cumulative_bucket_counters(Cumulative(bucket_counts(family, a)), bucket_counts(family, b)) =
        Cumulative(bucket_counts(family, s))
  BY <1>2, <1>5, <1>6, <1>8, LePlus, Zenon
<1>10. /\ workload' = workload /\ exported' = s
       /\ bucket_total' = IF Launches /\ workload.kernel_mode # "full" THEN bucket_total
                          ELSE inc_cumulative_bucket_counters(bucket_total, bucket_counts(family, b))
  BY <1>1, <1>3, <1>4, <1>5, Zenon DEF ReadKey
<1>11. Launches' = Launches
  BY <1>10 DEF Launches
<1>12. (Launches => workload.kernel_mode = "full") => bucket_total = Cumulative(bucket_counts(family, a))
  BY <1>1, <1>3, Zenon DEF LeInv
<1>13. (Launches => workload.kernel_mode = "full") => bucket_total' = Cumulative(bucket_counts(family, s))
  BY <1>9, <1>10, <1>12, Zenon
<1>14. ((Launches => workload.kernel_mode = "full") =>
          bucket_total = Cumulative(bucket_counts(workload.family, exported)))'
  BY <1>1, <1>10, <1>11, <1>13, Zenon
<1> QED BY <1>14 DEF LeInv

LEMMA NextLe == LeInv /\ [Next]_vars => LeInv'
<1> SUFFICES ASSUME LeInv, [Next]_vars PROVE LeInv'
  OBVIOUS
<1>0. TypeInv'
  BY NextType DEF LeInv
<1>1. ASSUME UNCHANGED <<workload, bucket_total, exported>> PROVE LeInv'
  <2>1. workload' = workload /\ bucket_total' = bucket_total /\ exported' = exported
    BY <1>1
  <2>2. Launches' = Launches
    BY <2>1 DEF Launches
  <2> QED BY <1>0, <2>1, <2>2, Zenon DEF LeInv
<1>2. ASSUME NEW p, NEW addr, NEW d, emit_exit(p, addr, d) PROVE LeInv'
  BY <1>1, <1>2 DEF emit_exit
<1>3. CASE AggTick
  BY <1>1, <1>3 DEF AggTick
<1>4. ASSUME NEW p, NEW name, nvtx_range_push(p, name) PROVE LeInv'
  BY <1>1, <1>4 DEF nvtx_range_push, map
<1>5. ASSUME NEW p, nvtx_range_pop(p) PROVE LeInv'
  BY <1>1, <1>5 DEF nvtx_range_pop, map
<1>6. CASE RegisterKernel
  BY <1>1, <1>6 DEF RegisterKernel, map
<1>7. ASSUME NEW k \in Keys, ReadKey(k) PROVE LeInv'
  BY <1>0, <1>7, ReadLe
<1>8. CASE DeleteKey
  BY <1>1, <1>8 DEF DeleteKey
<1>9. CASE RingArm
  BY <1>1, <1>9 DEF RingArm, map
<1>10. CASE MergeReport
  BY <1>1, <1>10 DEF MergeReport, map
<1>11. CASE UNCHANGED vars
  BY <1>1, <1>11 DEF vars, map
<1> QED BY <1>2, <1>3, <1>4, <1>5, <1>6, <1>7, <1>8, <1>9, <1>10, <1>11 DEF Next, Programs

LEMMA LeCounted == LeInv => LeExact
<1> SUFFICES ASSUME LeInv PROVE LeExact
  OBVIOUS
<1>1. /\ TypeOK /\ exported \in [durations -> Nat]
      /\ (Launches => workload.kernel_mode = "full") =>
           bucket_total = Cumulative(bucket_counts(workload.family, exported))
  BY DEF LeInv, TypeInv, TypeOK
<1>2. PICK h : h = PrometheusHistogram(BoundsOf(workload.family), exported)
  OBVIOUS
<1>3. Append(h.cumulative_count, h.sample_count) = Cumulative(bucket_counts(workload.family, exported))
  <2>1. workload.family \in {"cuda", "nccl", "launch"} /\ durations \in SUBSET Nat /\ IsFiniteSet(durations)
    BY <1>1, Workload DEF TypeOK
  <2> QED BY <1>1, <1>2, <2>1, LeTable
<1> QED BY <1>1, <1>2, <1>3, Zenon DEF LeExact

(* The counters that inc_cumulative_bucket_counters adds up, key after key *)
(* and tick after tick, are those of one Prometheus histogram that         *)
(* observed every exported duration.                                       *)
THEOREM LeCounters == Spec => []LeExact
BY InitLe, NextLe, LeCounted, PTL DEF Spec
=============================================================================
