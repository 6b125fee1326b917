-------------------------- MODULE KernelNamesProofs -------------------------
(***************************************************************************)
(* Proofs about KernelNames, for any processes, kernels, reuses of process *)
(* numbers and channel length: what the resolver keeps is of processes the *)
(* loop tracks or is about to be evicted, and labels are current outside   *)
(* the windows the code leaves.                                            *)
(***************************************************************************)
EXTENDS KernelNames, SequenceTheorems, WellFoundedInduction, TLAPS

(* The provers that try a step which names none, and their time limits.    *)
USE ZenonT(5), SMTT(20), ZenonT(60)

(* The i-th request is a lookup for process p, or one that evicts it. *)
Asks(p, i) == requests[i].op = "Resolve" /\ requests[i].pid = p

Evicts(p, i) == requests[i].op = "EvictPids" /\ p \in requests[i].pids

-----------------------------------------------------------------------------
(* A set of positions has a last one, so Max picks one of its elements. *)
LEMMA MaxMember ==
  ASSUME NEW n \in Nat, NEW S \in SUBSET (1 .. n), S # {}
  PROVE  Max(S) \in S
<1> DEFINE T == {n - x : x \in S}
<1>0. \A x \in S : x \in Nat /\ n - x \in Nat
  OBVIOUS
<1>1. T \subseteq Nat /\ T # {}
  BY <1>0
<1>2. PICK t \in T : \A y \in T : ~ (<<y, t>> \in OpToRel(<, Nat))
  <2> HIDE DEF T
  <2> QED BY <1>1, NatLessThanWellFounded, WFMin
<1>3. \A y \in T : ~ (y < t)
  BY <1>1, <1>2 DEF OpToRel
<1>4. PICK x \in S : t = n - x
  BY <1>2
<1>5. \A y \in S : x >= y
  BY <1>3, <1>4
<1> QED BY <1>5 DEF Max

(* What the two kinds of requests carry. *)
LEMMA RequestTypes ==
  \A r \in Request :
    /\ r.op = "Resolve" \/ r.op = "EvictPids"
    /\ r.op = "Resolve" => r.pid \in Pids /\ r.addr \in Kernels
    /\ r.op = "EvictPids" => r.pids \in SUBSET Pids
BY DEF Request

LEMMA RequestMade ==
  /\ \A p \in Pids, a \in Kernels : Resolve(p, a) \in Request
  /\ \A pids \in SUBSET Pids : EvictPids(pids) \in Request
BY DEF Resolve, EvictPids, Request

(* An answer the gc arm applies was in the channel. *)
LEMMA AnswerForInChannel ==
  ASSUME TypeOK, NEW x \in Launched, AnswerFor(x) # None
  PROVE  \E i \in DOMAIN results :
           /\ <<results[i][1], results[i][2]>> = x
           /\ results[i][3] # Unknown /\ AnswerFor(x) = results[i][3]
<1> DEFINE known == {i \in DOMAIN results :
                       <<results[i][1], results[i][2]>> = x /\ results[i][3] # Unknown}
<1>1. known # {} /\ AnswerFor(x) = results[Max(known)][3]
  BY DEF AnswerFor
<1>2. Len(results) \in Nat /\ known \subseteq 1 .. Len(results)
  BY DEF TypeOK
<1>3. Max(known) \in known
  <2> HIDE DEF known
  <2> QED BY <1>1, <1>2, MaxMember
<1> QED BY <1>1, <1>3

(* It is a name of some incarnation. *)
LEMMA AnswerForType ==
  ASSUME TypeOK, NEW x \in Launched
  PROVE  AnswerFor(x) \in (1 .. MaxIncarnation) \cup {None}
<1>1. CASE AnswerFor(x) # None
  <2>1. PICK i \in DOMAIN results : results[i][3] # Unknown /\ AnswerFor(x) = results[i][3]
    BY <1>1, AnswerForInChannel
  <2>2. results[i] \in Pids \X Kernels \X (0 .. MaxIncarnation)
    BY <2>1 DEF TypeOK
  <2> QED BY <2>1, <2>2, ConstantsAssumption DEF Unknown
<1> QED BY <1>1

LEMMA InitType == Init => TypeOK
<1> SUFFICES ASSUME Init PROVE TypeOK
  OBVIOUS
<1>1. 1 \in 1 .. MaxIncarnation /\ MaxQueue \in Nat
  BY ConstantsAssumption
<1>2. /\ requests \in Seq(Request) /\ Len(requests) <= MaxQueue
      /\ results \in Seq(Pids \X Kernels \X (0 .. MaxIncarnation))
  BY <1>1 DEF Init
<1>3. /\ kernel_names \in [Launched -> (1 .. MaxIncarnation) \cup {None}]
      /\ {handles, addr_cache} \subseteq [Launched -> (0 .. MaxIncarnation) \cup {None}]
      /\ {maps_cache, lib_cache} \subseteq [Pids -> (0 .. MaxIncarnation) \cup {None}]
  BY DEF Init
<1>4. /\ incarnation \in [Pids -> 1 .. MaxIncarnation]
      /\ life \in [Pids -> {"dead", "started", "loaded"}]
      /\ last_seen \in [Pids -> {"never", "fresh", "stale"}]
  BY <1>1 DEF Init
<1> QED BY <1>2, <1>3, <1>4 DEF Init, TypeOK

(* A lookup adds an answer and fills the caches of its process. *)
LEMMA ResolveType ==
  ASSUME TypeOK, NEW p \in Pids, NEW a \in Kernels, resolve(p, a)
  PROVE  /\ results' \in Seq(Pids \X Kernels \X (0 .. MaxIncarnation))
         /\ addr_cache' \in [Launched -> (0 .. MaxIncarnation) \cup {None}]
         /\ {maps_cache', lib_cache'} \subseteq [Pids -> (0 .. MaxIncarnation) \cup {None}]
         /\ outdated' \in BOOLEAN
<1> DEFINE Names == 0 .. MaxIncarnation
           maps == IF maps_cache[p] = None THEN OnDisk(p) ELSE maps_cache[p]
           libs == IF lib_cache[p] = None THEN {OnDisk(p), Unknown} ELSE {lib_cache[p]}
<1>0. /\ incarnation[p] \in Names /\ <<p, a>> \in Launched /\ None \notin Names /\ 0 \in Names
      /\ addr_cache \in [Launched -> Names \cup {None}]
      /\ maps_cache \in [Pids -> Names \cup {None}] /\ lib_cache \in [Pids -> Names \cup {None}]
      /\ results \in Seq(Pids \X Kernels \X Names) /\ outdated \in BOOLEAN
  BY ConstantsAssumption DEF TypeOK, Launched
<1>1. OnDisk(p) \in Names
  BY <1>0 DEF OnDisk, Unknown
<1>2. maps \in Names /\ libs \subseteq Names
  BY <1>0, <1>1 DEF Unknown
<1>3. CASE /\ addr_cache[p, a] # None
           /\ results' = Append(results, <<p, a, addr_cache[p, a]>>)
           /\ UNCHANGED <<resolver, outdated>>
  <2>1. <<p, a, addr_cache[p, a]>> \in Pids \X Kernels \X Names
    BY <1>0, <1>3
  <2>2. results' \in Seq(Pids \X Kernels \X Names)
    BY <1>0, <1>3, <2>1, AppendProperties
  <2> HIDE DEF Names
  <2>3. UNCHANGED <<addr_cache, maps_cache, lib_cache, outdated>>
    BY <1>3 DEF resolver
  <2> QED BY <1>0, <2>2, <2>3 DEF Names
<1>4. ASSUME NEW name \in (IF maps = Unknown THEN {Unknown} ELSE libs),
             maps_cache' = [maps_cache EXCEPT ![p] = maps],
             results' = Append(results, <<p, a, name>>),
             addr_cache' = [addr_cache EXCEPT ![<<p, a>>] = name],
             lib_cache' = (IF maps = Unknown THEN lib_cache ELSE [lib_cache EXCEPT ![p] = name]),
             outdated' = (outdated \/ name \notin {Unknown, incarnation[p]})
      PROVE  /\ results' \in Seq(Pids \X Kernels \X Names)
             /\ addr_cache' \in [Launched -> Names \cup {None}]
             /\ {maps_cache', lib_cache'} \subseteq [Pids -> Names \cup {None}]
             /\ outdated' \in BOOLEAN
  <2>1. name \in Names
    BY <1>0, <1>2, <1>4 DEF Unknown
  <2> HIDE DEF Names, maps, libs
  <2>2. <<p, a, name>> \in Pids \X Kernels \X Names
    BY <2>1
  <2>3. results' \in Seq(Pids \X Kernels \X Names)
    BY <1>0, <1>4, <2>2, AppendProperties
  <2>4. addr_cache' \in [Launched -> Names \cup {None}]
    BY <1>0, <1>4, <2>1
  <2>5. {maps_cache', lib_cache'} \subseteq [Pids -> Names \cup {None}]
    BY <1>0, <1>2, <1>4, <2>1
  <2>6. outdated' \in BOOLEAN
    BY <1>4
  <2> QED BY <2>3, <2>4, <2>5, <2>6
<1> QED BY <1>3, <1>4 DEF resolve

LEMMA NextType == TypeOK /\ [Next]_vars => TypeOK'
<1> SUFFICES ASSUME TypeOK, [Next]_vars PROVE TypeOK'
  OBVIOUS
<1> USE DEF TypeOK
<1>1. ASSUME NEW p \in Pids, Load(p) PROVE TypeOK'
  <2>1. kregs' \subseteq Pids \X Kernels \X (1 .. MaxIncarnation)
    BY <1>1 DEF Load
  <2>2. life' \in [Pids -> {"dead", "started", "loaded"}]
    BY <1>1 DEF Load
  <2> QED BY <1>1, <2>1, <2>2 DEF Load, loop, resolver
<1>2. ASSUME NEW p \in Pids, NEW a \in Kernels, Launch(p, a) PROVE TypeOK'
  BY <1>2 DEF Launch, world, loop, resolver, Launched
<1>3. ASSUME NEW p \in Pids, Exit(p) PROVE TypeOK'
  <2>1. outdated' \in BOOLEAN /\ life' \in [Pids -> {"dead", "started", "loaded"}]
    BY <1>3 DEF Exit
  <2> QED BY <1>3, <2>1 DEF Exit, programs, loop, resolver
<1>4. ASSUME NEW p \in Pids, Reuse(p) PROVE TypeOK'
  <2>1. outdated' \in BOOLEAN /\ life' \in [Pids -> {"dead", "started", "loaded"}]
    BY <1>4 DEF Reuse
  <2>2. incarnation[p] + 1 \in 1 .. MaxIncarnation
    BY <1>4, ConstantsAssumption DEF Reuse
  <2>3. incarnation' \in [Pids -> 1 .. MaxIncarnation]
    BY <1>4, <2>2 DEF Reuse
  <2> QED BY <1>4, <2>1, <2>3 DEF Reuse, programs, loop, resolver
<1>5. ASSUME NEW p \in Pids, Age(p) PROVE TypeOK'
  <2>1. last_seen' \in [Pids -> {"never", "fresh", "stale"}]
    BY <1>5 DEF Age
  <2> QED BY <1>5, <2>1 DEF Age, world, programs, resolver
<1>6. CASE ResolverStep
  <2>1. /\ Head(requests) \in Request /\ requests' \in Seq(Request)
        /\ Len(requests') = Len(requests) - 1
    BY <1>6, HeadTailProperties DEF ResolverStep
  <2>2. Len(requests') <= MaxQueue
    BY <2>1, ConstantsAssumption
  <2>3. UNCHANGED <<incarnation, life, kregs, LAUNCH_AGG, kernel_names, pending_resolve, handles,
                    last_seen>>
    BY <1>6 DEF ResolverStep, world, programs, loop
  <2>4. CASE Head(requests).op = "Resolve" /\ resolve(Head(requests).pid, Head(requests).addr)
    <3>1. Head(requests).pid \in Pids /\ Head(requests).addr \in Kernels
      BY <2>1, <2>4, RequestTypes
    <3>2. /\ results' \in Seq(Pids \X Kernels \X (0 .. MaxIncarnation))
          /\ addr_cache' \in [Launched -> (0 .. MaxIncarnation) \cup {None}]
          /\ {maps_cache', lib_cache'} \subseteq [Pids -> (0 .. MaxIncarnation) \cup {None}]
          /\ outdated' \in BOOLEAN
      BY <2>4, <3>1, ResolveType
    <3> QED BY <2>1, <2>2, <2>3, <3>2
  <2>5. CASE evict_pids(Head(requests).pids) /\ UNCHANGED <<results, outdated>>
    <3>1. /\ addr_cache' \in [Launched -> (0 .. MaxIncarnation) \cup {None}]
          /\ {maps_cache', lib_cache'} \subseteq [Pids -> (0 .. MaxIncarnation) \cup {None}]
      BY <2>5 DEF evict_pids
    <3> QED BY <2>1, <2>2, <2>3, <2>5, <3>1
  <2> QED BY <1>6, <2>4, <2>5 DEF ResolverStep
<1>7. CASE RegisterKernels
  <2>1. kernel_names' \in [Launched -> (1 .. MaxIncarnation) \cup {None}]
    <3>1. \A x \in Launched : incarnation[x[1]] \in 1 .. MaxIncarnation
      BY DEF Launched
    <3> QED BY <1>7, <3>1 DEF RegisterKernels
  <2> QED BY <1>7, <2>1 DEF RegisterKernels, world, resolver
<1>8. ASSUME NEW p \in Pids, NEW a \in Kernels, DrainLaunch(p, a) PROVE TypeOK'
  <2>1. <<p, a>> \in Launched
    BY DEF Launched
  <2>2. requests' \in Seq(Request) /\ Len(requests') <= MaxQueue
    <3>1. requests' = requests \/ requests' = Append(requests, Resolve(p, a))
      BY <1>8 DEF DrainLaunch
    <3>2. Len(requests) < MaxQueue /\ Len(requests) \in Nat /\ MaxQueue \in Nat
      BY <1>8, ConstantsAssumption DEF DrainLaunch
    <3>3. Resolve(p, a) \in Request
      BY RequestMade
    <3> HIDE DEF TypeOK
    <3>4. requests \in Seq(Request)
      BY DEF TypeOK
    <3> QED BY <3>1, <3>2, <3>3, <3>4, AppendProperties
  <2>3. handles' \in [Launched -> (0 .. MaxIncarnation) \cup {None}]
    <3>1. kernel_names[<<p, a>>] \in (0 .. MaxIncarnation) \cup {None}
          /\ Unknown \in (0 .. MaxIncarnation) \cup {None}
      BY <2>1, ConstantsAssumption DEF Unknown
    <3> QED BY <1>8, <2>1, <3>1 DEF DrainLaunch
  <2>4. pending_resolve' \subseteq Launched /\ LAUNCH_AGG' \subseteq Launched
        /\ last_seen' \in [Pids -> {"never", "fresh", "stale"}]
    BY <1>8, <2>1 DEF DrainLaunch
  <2>5. UNCHANGED <<incarnation, life, kregs, kernel_names, results, addr_cache, maps_cache,
                    lib_cache, outdated>>
    BY <1>8 DEF DrainLaunch, world, resolver
  <2> QED BY <2>2, <2>3, <2>4, <2>5
<1>9. CASE GcArm
  <2> DEFINE stale_pids == {p \in Pids : last_seen[p] = "stale"}
             named == [x \in Launched |-> IF AnswerFor(x) = None THEN kernel_names[x] ELSE AnswerFor(x)]
  <2>1. kernel_names' \in [Launched -> (1 .. MaxIncarnation) \cup {None}]
    <3>1. named \in [Launched -> (1 .. MaxIncarnation) \cup {None}]
      BY AnswerForType
    <3>2. kernel_names' = Retained(named, stale_pids)
      BY <1>9 DEF GcArm
    <3> HIDE DEF named, stale_pids
    <3> QED BY <3>1, <3>2 DEF Retained
  <2>2. requests' \in Seq(Request) /\ Len(requests') <= MaxQueue
    <3>1. \/ requests' = requests
          \/ Len(requests) < MaxQueue /\ requests' = Append(requests, EvictPids(stale_pids))
      BY <1>9 DEF GcArm
    <3>2. EvictPids(stale_pids) \in Request
      BY RequestMade
    <3>3. Len(requests) \in Nat /\ MaxQueue \in Nat /\ requests \in Seq(Request)
          /\ Len(requests) <= MaxQueue
      BY ConstantsAssumption
    <3> HIDE DEF stale_pids, TypeOK
    <3> QED BY <3>1, <3>2, <3>3, AppendProperties
  <2>3. results' = <<>> /\ outdated' \in BOOLEAN
    BY <1>9 DEF GcArm
  <2>4. handles' \in [Launched -> (0 .. MaxIncarnation) \cup {None}]
    BY <1>9 DEF GcArm
  <2>5. last_seen' \in [Pids -> {"never", "fresh", "stale"}] /\ pending_resolve' \subseteq Launched
    BY <1>9 DEF GcArm, StillPending
  <2>6. UNCHANGED <<incarnation, life, kregs, LAUNCH_AGG, addr_cache, maps_cache, lib_cache>>
    BY <1>9 DEF GcArm, world, programs, resolver
  <2> QED BY <2>1, <2>2, <2>3, <2>4, <2>5, <2>6
<1>10. CASE UNCHANGED vars
  BY <1>10 DEF vars, world, programs, loop, resolver
<1> QED
  BY <1>1, <1>2, <1>3, <1>4, <1>5, <1>6, <1>7, <1>8, <1>9, <1>10 DEF Next, Process

(* The tables of the event loop, the two channels and the caches of the    *)
(* resolver thread are well typed, and the channel to the resolver never   *)
(* holds more than it may.                                                 *)
THEOREM TypeCorrect == Spec => []TypeOK
BY InitType, NextType, PTL DEF Spec
-----------------------------------------------------------------------------
(* ResolverForgets.                                                        *)

(* A request that is sent is behind those already in the channel. *)
LEMMA Sent ==
  ASSUME TypeOK, NEW r \in Request, requests' = Append(requests, r)
  PROVE  /\ DOMAIN requests = 1 .. Len(requests) /\ DOMAIN requests' = 1 .. Len(requests) + 1
         /\ Len(requests) \in Nat /\ Len(requests') = Len(requests) + 1
         /\ requests'[Len(requests) + 1] = r
         /\ \A i \in 1 .. Len(requests) : requests'[i] = requests[i]
         /\ \A p \in Pids, i \in Nat : EvictedAfter(p, i) => EvictedAfter(p, i)'
<1>1. requests \in Seq(Request)
  BY DEF TypeOK
<1>2. /\ DOMAIN requests = 1 .. Len(requests) /\ DOMAIN requests' = 1 .. Len(requests) + 1
      /\ Len(requests) \in Nat /\ Len(requests') = Len(requests) + 1
      /\ requests'[Len(requests) + 1] = r
      /\ \A i \in 1 .. Len(requests) : requests'[i] = requests[i]
  BY <1>1, AppendProperties
<1>3. ASSUME NEW p \in Pids, NEW i \in Nat, EvictedAfter(p, i)
      PROVE  EvictedAfter(p, i)'
  <2>1. PICK j \in i + 1 .. Len(requests) : requests[j].op = "EvictPids" /\ p \in requests[j].pids
    BY <1>3 DEF EvictedAfter
  <2>2. j \in i + 1 .. Len(requests') /\ requests'[j] = requests[j]
    BY <1>2, <2>1
  <2> QED BY <2>1, <2>2 DEF EvictedAfter
<1> QED BY <1>2, <1>3

(* A request that is taken moves the others forward. *)
LEMMA Taken ==
  ASSUME TypeOK, requests # <<>>, requests' = Tail(requests)
  PROVE  /\ DOMAIN requests = 1 .. Len(requests) /\ DOMAIN requests' = 1 .. Len(requests) - 1
         /\ Len(requests) \in Nat \ {0} /\ Len(requests') = Len(requests) - 1
         /\ Head(requests) = requests[1] /\ requests[1] \in Request
         /\ \A i \in 1 .. Len(requests) - 1 : requests'[i] = requests[i + 1]
         /\ \A p \in Pids, i \in Nat : EvictedAfter(p, i + 1) => EvictedAfter(p, i)'
<1>1. requests \in Seq(Request)
  BY DEF TypeOK
<1>2. /\ DOMAIN requests = 1 .. Len(requests) /\ DOMAIN requests' = 1 .. Len(requests) - 1
      /\ Len(requests) \in Nat \ {0} /\ Len(requests') = Len(requests) - 1
      /\ Head(requests) = requests[1] /\ requests[1] \in Request
      /\ \A i \in 1 .. Len(requests) - 1 : requests'[i] = requests[i + 1]
  BY <1>1, HeadTailProperties
<1>3. ASSUME NEW p \in Pids, NEW i \in Nat, EvictedAfter(p, i + 1)
      PROVE  EvictedAfter(p, i)'
  <2>1. PICK j \in i + 2 .. Len(requests) : requests[j].op = "EvictPids" /\ p \in requests[j].pids
    BY <1>3 DEF EvictedAfter
  <2>2. j - 1 \in i + 1 .. Len(requests') /\ requests'[j - 1] = requests[j]
    BY <1>2, <2>1
  <2> QED BY <2>1, <2>2 DEF EvictedAfter
<1> QED BY <1>2, <1>3

(* What the resolver has cached of process p. *)
Cached(p) == maps_cache[p] # None \/ \E a \in Kernels : addr_cache[p, a] # None

Forgets(p) ==
  /\ Cached(p) => EvictedAfter(p, 0)
  /\ \A i \in DOMAIN requests : Asks(p, i) => EvictedAfter(p, i)

LEMMA ForgetsDef == ResolverForgets <=> \A p \in Pids : last_seen[p] = "never" => Forgets(p)
BY DEF ResolverForgets, Forgets, Cached, Asks

LEMMA InitForgets == Init => ResolverForgets
<1> SUFFICES ASSUME Init, NEW p \in Pids PROVE Forgets(p)
  BY ForgetsDef
<1>1. DOMAIN requests = {}
  BY DEF Init
<1>2. maps_cache[p] = None /\ \A a \in Kernels : addr_cache[<<p, a>>] = None
  BY DEF Init, Launched
<1> QED BY <1>1, <1>2 DEF Forgets, Cached

(* A lookup touches only the caches of its own process. *)
LEMMA ResolveLocal ==
  ASSUME TypeOK, NEW p \in Pids, NEW a \in Kernels, resolve(p, a), NEW q \in Pids \ {p}
  PROVE  /\ maps_cache'[q] = maps_cache[q]
         /\ \A b \in Kernels : addr_cache'[<<q, b>>] = addr_cache[<<q, b>>]
<1>1. \/ UNCHANGED resolver
      \/ \E m : \E name : /\ maps_cache' = [maps_cache EXCEPT ![p] = m]
                         /\ addr_cache' = [addr_cache EXCEPT ![<<p, a>>] = name]
  BY DEF resolve
<1>2. /\ maps_cache \in [Pids -> (0 .. MaxIncarnation) \cup {None}]
      /\ addr_cache \in [Launched -> (0 .. MaxIncarnation) \cup {None}]
      /\ \A b \in Kernels : <<q, b>> \in Launched /\ <<q, b>> # <<p, a>>
  BY DEF TypeOK, Launched
<1> QED BY <1>1, <1>2 DEF resolver

LEMMA NextForgets == TypeOK /\ ResolverForgets /\ [Next]_vars => ResolverForgets'
<1> SUFFICES ASSUME TypeOK, ResolverForgets, [Next]_vars PROVE ResolverForgets'
  OBVIOUS
<1>0. \A p \in Pids : last_seen[p] = "never" => Forgets(p)
  BY ForgetsDef
<1>1. ASSUME UNCHANGED <<requests, maps_cache, addr_cache>>,
             \A p \in Pids : last_seen'[p] = "never" => last_seen[p] = "never"
      PROVE  ResolverForgets'
  BY <1>1 DEF ResolverForgets, EvictedAfter
<1>2. CASE \E p \in Pids : Process(p)
  <2>1. ASSUME NEW p \in Pids, Age(p) PROVE ResolverForgets'
    BY <1>1, <2>1 DEF Age, resolver, TypeOK
  <2>2. ASSUME NEW p \in Pids, Load(p) \/ Exit(p) \/ Reuse(p) \/ (\E a \in Kernels : Launch(p, a))
        PROVE  ResolverForgets'
    BY <1>1, <2>2 DEF Load, Exit, Reuse, Launch, loop, resolver
  <2> QED BY <1>2, <2>1, <2>2 DEF Process
<1>3. CASE RegisterKernels
  BY <1>1, <1>3 DEF RegisterKernels, resolver
<1>4. CASE ResolverStep
  <2> DEFINE req == Head(requests)
  <2>1. requests # <<>> /\ requests' = Tail(requests) /\ last_seen' = last_seen
    BY <1>4 DEF ResolverStep, loop
  <2>2. /\ DOMAIN requests = 1 .. Len(requests) /\ DOMAIN requests' = 1 .. Len(requests) - 1
        /\ Len(requests) \in Nat \ {0} /\ Len(requests') = Len(requests) - 1
        /\ req = requests[1] /\ req \in Request
        /\ \A i \in 1 .. Len(requests) - 1 : requests'[i] = requests[i + 1]
        /\ \A p \in Pids, i \in Nat : EvictedAfter(p, i + 1) => EvictedAfter(p, i)'
    BY <2>1, Taken
  <2> HIDE DEF req
  <2> SUFFICES ASSUME NEW p \in Pids, last_seen[p] = "never" PROVE Forgets(p)'
    BY <2>1, ForgetsDef DEF ResolverForgets, Forgets, Cached, Asks
  <2>3. Forgets(p)
    BY <1>0
  <2>4. ASSUME NEW i \in DOMAIN requests', Asks(p, i)' PROVE EvictedAfter(p, i)'
    <3>1. i + 1 \in DOMAIN requests /\ Asks(p, i + 1) /\ i \in Nat
      BY <2>2, <2>4 DEF Asks
    <3> QED BY <2>2, <2>3, <3>1 DEF Forgets
  <2>5. EvictedAfter(p, 0) /\ ~Evicts(p, 1) => EvictedAfter(p, 0)'
    <3>1. EvictedAfter(p, 0) /\ ~Evicts(p, 1) => EvictedAfter(p, 0 + 1)
      BY <2>2 DEF EvictedAfter, Evicts
    <3> QED BY <2>2, <3>1
  <2>6. CASE req.op = "Resolve" /\ resolve(req.pid, req.addr)
    <3>1. req.pid \in Pids /\ req.addr \in Kernels
      BY <2>2, <2>6, RequestTypes
    <3>2. CASE p = req.pid
      <4>1. Asks(p, 1) /\ 1 \in DOMAIN requests
        BY <2>2, <2>6, <3>2 DEF Asks
      <4>2. EvictedAfter(p, 0 + 1)
        BY <2>3, <4>1 DEF Forgets
      <4>3. EvictedAfter(p, 0)'
        BY <2>2, <4>2
      <4> QED BY <2>4, <4>3 DEF Forgets
    <3>3. CASE p # req.pid
      <4>1. Cached(p)' => Cached(p)
        BY <2>6, <3>1, <3>3, ResolveLocal DEF Cached
      <4>2. ~Evicts(p, 1)
        BY <2>2, <2>6 DEF Evicts
      <4> QED BY <2>3, <2>4, <2>5, <4>1, <4>2 DEF Forgets
    <3> QED BY <3>2, <3>3
  <2>7. CASE req.op = "EvictPids" /\ evict_pids(req.pids)
    <3>1. CASE p \in req.pids
      <4>1. maps_cache'[p] = None /\ \A a \in Kernels : addr_cache'[<<p, a>>] = None
        BY <2>7, <3>1 DEF evict_pids, Launched
      <4> QED BY <2>4, <4>1 DEF Forgets, Cached
    <3>2. CASE p \notin req.pids
      <4>1. maps_cache'[p] = maps_cache[p]
            /\ \A a \in Kernels : addr_cache'[<<p, a>>] = addr_cache[<<p, a>>]
        BY <2>7, <3>2 DEF evict_pids, Launched
      <4>2. ~Evicts(p, 1)
        BY <2>2, <3>2 DEF Evicts
      <4>3. Cached(p)' => Cached(p)
        BY <4>1 DEF Cached
      <4> QED BY <2>3, <2>4, <2>5, <4>2, <4>3 DEF Forgets
    <3> QED BY <3>1, <3>2
  <2> QED BY <1>4, <2>6, <2>7 DEF ResolverStep, req
<1>5. ASSUME NEW p \in Pids, NEW a \in Kernels, DrainLaunch(p, a) PROVE ResolverForgets'
  <2>1. /\ last_seen' = [last_seen EXCEPT ![p] = "fresh"] /\ last_seen \in [Pids -> {"never", "fresh", "stale"}]
        /\ UNCHANGED <<maps_cache, addr_cache>>
    BY <1>5 DEF DrainLaunch, resolver, TypeOK
  <2>2. CASE requests' = requests
    BY <1>1, <2>1, <2>2
  <2>3. CASE requests' = Append(requests, Resolve(p, a))
    <3> SUFFICES ASSUME NEW q \in Pids, last_seen'[q] = "never" PROVE Forgets(q)'
      BY ForgetsDef DEF ResolverForgets, Forgets, Cached, Asks
    <3>1. q # p /\ Forgets(q)
      BY <1>0, <2>1
    <3>2. /\ DOMAIN requests = 1 .. Len(requests) /\ DOMAIN requests' = 1 .. Len(requests) + 1
          /\ Len(requests) \in Nat
          /\ requests'[Len(requests) + 1] = Resolve(p, a)
          /\ \A i \in 1 .. Len(requests) : requests'[i] = requests[i]
          /\ \A i \in Nat : EvictedAfter(q, i) => EvictedAfter(q, i)'
      BY <2>3, RequestMade, Sent
    <3>3. ASSUME NEW i \in DOMAIN requests', Asks(q, i)' PROVE EvictedAfter(q, i)'
      <4>1. i # Len(requests) + 1
        BY <3>1, <3>2, <3>3 DEF Asks, Resolve
      <4>2. i \in DOMAIN requests /\ Asks(q, i) /\ i \in Nat
        BY <3>2, <3>3, <4>1 DEF Asks
      <4> QED BY <3>1, <3>2, <4>2 DEF Forgets
    <3>4. Cached(q)' => EvictedAfter(q, 0)'
      BY <2>1, <3>1, <3>2 DEF Forgets, Cached
    <3> QED BY <3>3, <3>4 DEF Forgets
  <2> QED BY <1>5, <2>2, <2>3 DEF DrainLaunch
<1>6. CASE GcArm
  <2> DEFINE stale_pids == {p \in Pids : last_seen[p] = "stale"}
  <2>1. /\ last_seen' = [p \in Pids |-> IF p \in stale_pids THEN "never" ELSE last_seen[p]]
        /\ UNCHANGED <<maps_cache, addr_cache>>
    BY <1>6 DEF GcArm, resolver
  <2>2. CASE stale_pids = {} /\ requests' = requests
    BY <1>1, <2>1, <2>2
  <2>3. CASE requests' = Append(requests, EvictPids(stale_pids))
    <3> SUFFICES ASSUME NEW q \in Pids, last_seen'[q] = "never" PROVE Forgets(q)'
      BY ForgetsDef DEF ResolverForgets, Forgets, Cached, Asks
    <3>0. stale_pids \in SUBSET Pids
      OBVIOUS
    <3>1. q \in stale_pids \/ Forgets(q)
      BY <1>0, <2>1
    <3> HIDE DEF stale_pids
    <3>2. /\ DOMAIN requests = 1 .. Len(requests) /\ DOMAIN requests' = 1 .. Len(requests) + 1
          /\ Len(requests) \in Nat /\ Len(requests') = Len(requests) + 1
          /\ requests'[Len(requests) + 1] = EvictPids(stale_pids)
          /\ \A i \in 1 .. Len(requests) : requests'[i] = requests[i]
          /\ \A i \in Nat : EvictedAfter(q, i) => EvictedAfter(q, i)'
      BY <2>3, <3>0, RequestMade, Sent
    <3>3. ASSUME NEW i \in DOMAIN requests', Asks(q, i)'
          PROVE  i \in DOMAIN requests /\ Asks(q, i) /\ i \in Nat
      <4>1. i # Len(requests) + 1
        BY <3>2, <3>3 DEF Asks, EvictPids
      <4> QED BY <3>2, <3>3, <4>1 DEF Asks
    <3>4. CASE q \in stale_pids
      <4>1. \A i \in 0 .. Len(requests) : EvictedAfter(q, i)'
        BY <3>2, <3>4 DEF EvictedAfter, EvictPids
      <4>2. EvictedAfter(q, 0)' /\ \A i \in DOMAIN requests : EvictedAfter(q, i)'
        BY <3>2, <4>1
      <4> QED BY <3>3, <4>2 DEF Forgets
    <3>5. CASE Forgets(q)
      <4>1. Cached(q)' => EvictedAfter(q, 0)'
        BY <2>1, <3>2, <3>5 DEF Forgets, Cached
      <4> QED BY <3>2, <3>3, <3>5, <4>1 DEF Forgets
    <3> QED BY <3>1, <3>4, <3>5
  <2> QED BY <1>6, <2>2, <2>3 DEF GcArm
<1>7. CASE UNCHANGED vars
  BY <1>1, <1>7 DEF vars, loop, resolver
<1> QED BY <1>2, <1>3, <1>4, <1>5, <1>6, <1>7 DEF Next

(* The resolver thread never keeps what it cached of a process the event   *)
(* loop has forgotten: the EvictPids the gc arm sent is behind every       *)
(* lookup of that process in the channel, whatever the order in which      *)
(* launches, lookups and gc ticks interleave.                              *)
THEOREM NothingKept == Spec => []ResolverForgets
<1>1. Init => TypeOK /\ ResolverForgets
  BY InitType, InitForgets
<1>2. TypeOK /\ ResolverForgets /\ [Next]_vars => TypeOK' /\ ResolverForgets'
  BY NextType, NextForgets
<1> QED BY <1>1, <1>2, PTL DEF Spec
-----------------------------------------------------------------------------
(* NamesCurrent.  The labels of handles come from kernel_names, these from *)
(* the answers, and these from addr_cache; each must be current.           *)

(* Handles belong to processes in last_seen. *)
HandlesTracked ==
  \A p \in Pids, a \in Kernels : last_seen[p] = "never" => handles[p, a] = None

(* Names of a process that has ended are forgotten with it. *)
DeadForgotten ==
  \A p \in Pids, a \in Kernels :
    life[p] = "dead" /\ last_seen[p] = "never" => kernel_names[p, a] = None

TableCurrent ==
  \A p \in Pids, a \in Kernels :
    /\ kernel_names[p, a] \in {None, incarnation[p]}
    /\ handles[p, a] \in {None, Unknown, incarnation[p]}

AnswersCurrent ==
  \A i \in DOMAIN results : results[i][3] \in {Unknown, incarnation[results[i][1]]}

(* The resolver may still cache names of an earlier process, but then it   *)
(* evicts them before it looks anything up for the process again.          *)
CacheCurrent ==
  \A p \in Pids :
    \/ \A a \in Kernels : addr_cache[p, a] \in {None, Unknown, incarnation[p]}
    \/ /\ \E j \in DOMAIN requests : Evicts(p, j)
       /\ \A i \in DOMAIN requests : Asks(p, i) => \E j \in 1 .. i - 1 : Evicts(p, j)

Current == DeadForgotten /\ TableCurrent /\ AnswersCurrent /\ CacheCurrent

CurrentInv ==
  /\ TypeOK /\ ResolverForgets /\ HandlesTracked
  /\ ~outdated => Current

LEMMA InitCurrent == Init => CurrentInv
<1> SUFFICES ASSUME Init PROVE CurrentInv
  OBVIOUS
<1>1. TypeOK /\ ResolverForgets
  BY InitType, InitForgets
<1>2. \A p \in Pids, a \in Kernels : <<p, a>> \in Launched
  BY DEF Launched
<1>3. HandlesTracked /\ DeadForgotten /\ TableCurrent /\ CacheCurrent
  BY <1>2 DEF Init, HandlesTracked, DeadForgotten, TableCurrent, CacheCurrent
<1>4. AnswersCurrent
  BY DEF Init, AnswersCurrent
<1> QED BY <1>1, <1>3, <1>4 DEF CurrentInv, Current

(* Exit ends a process; what was registered for it and would never be      *)
(* forgotten is accounted as outdated.                                     *)
LEMMA ExitCurrent ==
  ASSUME TypeOK, NEW p \in Pids, Exit(p), ~outdated', Current
  PROVE  Current'
<1>1. /\ life' = [life EXCEPT ![p] = "dead"]
      /\ ~(last_seen[p] = "never" /\ \E a \in Kernels : kernel_names[<<p, a>>] # None)
      /\ UNCHANGED <<incarnation, kernel_names, handles, last_seen, requests, results, addr_cache>>
  BY DEF Exit, programs, loop, resolver
<1>2. DeadForgotten'
  BY <1>1 DEF Current, DeadForgotten, TypeOK
<1>3. TableCurrent' /\ AnswersCurrent'
  BY <1>1 DEF Current, TableCurrent, AnswersCurrent
<1>4. CacheCurrent'
  BY <1>1 DEF Current, CacheCurrent, Evicts, Asks
<1> QED BY <1>2, <1>3, <1>4 DEF Current

(* A number is reused when nothing of the earlier process is left but what *)
(* the resolver is about to evict.                                         *)
LEMMA ReuseCurrent ==
  ASSUME TypeOK, ResolverForgets, HandlesTracked, NEW p \in Pids, Reuse(p), ~outdated', Current
  PROVE  Current'
<1>1. /\ life[p] = "dead" /\ last_seen[p] = "never" /\ ~Outstanding(p)
      /\ life' = [life EXCEPT ![p] = "started"]
      /\ \A q \in Pids \ {p} : incarnation'[q] = incarnation[q]
      /\ UNCHANGED <<kernel_names, handles, last_seen, requests, results, addr_cache>>
  BY DEF Reuse, programs, loop, resolver, TypeOK
<1>2. DeadForgotten'
  BY <1>1 DEF Current, DeadForgotten, TypeOK
<1>3. TableCurrent'
  <2>1. \A a \in Kernels : kernel_names[<<p, a>>] = None /\ handles[<<p, a>>] = None
    BY <1>1 DEF Current, DeadForgotten, HandlesTracked
  <2> QED BY <1>1, <2>1 DEF Current, TableCurrent
<1>4. AnswersCurrent'
  <2>1. \A i \in DOMAIN results : results[i][1] \in Pids \ {p}
    BY <1>1 DEF Outstanding, TypeOK
  <2> QED BY <1>1, <2>1 DEF Current, AnswersCurrent
<1>5. CacheCurrent'
  <2>1. \A i \in DOMAIN requests : ~Asks(p, i)
    BY <1>1 DEF Outstanding, Asks
  <2>2. \/ \A a \in Kernels : addr_cache[<<p, a>>] = None
        \/ \E j \in DOMAIN requests : Evicts(p, j)
    <3> SUFFICES ASSUME NEW a \in Kernels, addr_cache[<<p, a>>] # None
                 PROVE  \E j \in DOMAIN requests : Evicts(p, j)
      OBVIOUS
    <3>1. EvictedAfter(p, 0)
      BY <1>1 DEF ResolverForgets
    <3>2. DOMAIN requests = 1 .. Len(requests)
      BY DEF TypeOK
    <3> QED BY <3>1, <3>2 DEF EvictedAfter, Evicts
  <2> DEFINE Fresh(q) == \A a \in Kernels : addr_cache[<<q, a>>] \in {None, Unknown, incarnation'[q]}
             Flushed(q) == /\ \E j \in DOMAIN requests : Evicts(q, j)
                           /\ \A i \in DOMAIN requests : Asks(q, i) => \E j \in 1 .. i - 1 : Evicts(q, j)
  <2>3. ASSUME NEW q \in Pids PROVE Fresh(q) \/ Flushed(q)
    <3>1. CASE q = p
      BY <2>1, <2>2, <3>1
    <3>2. CASE q # p
      BY <1>1, <3>2 DEF Current, CacheCurrent
    <3> QED BY <3>1, <3>2
  <2> QED BY <1>1, <2>3 DEF CacheCurrent, Evicts, Asks
<1> QED BY <1>2, <1>3, <1>4, <1>5 DEF Current

(* Registrations name kernels of the process that lives now. *)
LEMMA RegisterCurrent ==
  ASSUME TypeOK, RegisterKernels, Current
  PROVE  Current'
<1>1. PICK read \in read_kernel_name :
        kernel_names' =
          [x \in Launched |-> IF kernel_names[x] = None /\ <<x[1], x[2], incarnation[x[1]]>> \in read
                              THEN incarnation[x[1]] ELSE kernel_names[x]]
  BY DEF RegisterKernels
<1>2. UNCHANGED <<life, incarnation, handles, last_seen, requests, results, addr_cache>>
  BY DEF RegisterKernels, world, resolver
<1>3. ASSUME NEW p \in Pids, NEW a \in Kernels
      PROVE  /\ kernel_names'[<<p, a>>] \in {kernel_names[<<p, a>>], incarnation[p]}
             /\ life[p] = "dead" => kernel_names'[<<p, a>>] = kernel_names[<<p, a>>]
  <2>1. <<p, a>> \in Launched
    BY DEF Launched
  <2>2. life[p] = "dead" => <<p, a, incarnation[p]>> \notin read
    BY <1>1 DEF read_kernel_name
  <2> QED BY <1>1, <2>1, <2>2
<1>4. DeadForgotten'
  BY <1>2, <1>3 DEF Current, DeadForgotten
<1>5. TableCurrent'
  BY <1>2, <1>3 DEF Current, TableCurrent
<1>6. AnswersCurrent' /\ CacheCurrent'
  BY <1>2 DEF Current, AnswersCurrent, CacheCurrent, Evicts, Asks
<1> QED BY <1>4, <1>5, <1>6 DEF Current

(* A handle gets the name in kernel_names; the lookup that is sent comes   *)
(* after whatever evicts its process.                                      *)
LEMMA DrainCurrent ==
  ASSUME TypeOK, NEW p \in Pids, NEW a \in Kernels, DrainLaunch(p, a), Current
  PROVE  Current'
<1>1. /\ handles' = [handles EXCEPT ![<<p, a>>] =
                       IF @ # None THEN @
                       ELSE IF kernel_names[<<p, a>>] = None THEN Unknown ELSE kernel_names[<<p, a>>]]
      /\ last_seen' = [last_seen EXCEPT ![p] = "fresh"]
      /\ requests' = requests \/ requests' = Append(requests, Resolve(p, a))
      /\ UNCHANGED <<life, incarnation, kernel_names, results, addr_cache>>
  BY DEF DrainLaunch, world, resolver
<1>2. DeadForgotten'
  BY <1>1 DEF Current, DeadForgotten, TypeOK
<1>3. TableCurrent'
  <2>1. \A q \in Pids, b \in Kernels :
          handles'[<<q, b>>] \in {handles[<<q, b>>], Unknown, kernel_names[<<q, b>>]}
    BY <1>1 DEF TypeOK, Launched
  <2> QED BY <1>1, <2>1 DEF Current, TableCurrent
<1>4. AnswersCurrent'
  BY <1>1 DEF Current, AnswersCurrent
<1>5. CacheCurrent'
  <2>1. CASE requests' = requests
    BY <1>1, <2>1 DEF Current, CacheCurrent, Evicts, Asks
  <2>2. CASE requests' = Append(requests, Resolve(p, a))
    <3>1. /\ DOMAIN requests = 1 .. Len(requests) /\ DOMAIN requests' = 1 .. Len(requests) + 1
          /\ Len(requests) \in Nat
          /\ \A i \in 1 .. Len(requests) : requests'[i] = requests[i]
      BY <2>2, RequestMade, Sent
    <3>2. ASSUME NEW q \in Pids, \E j \in DOMAIN requests : Evicts(q, j),
                 \A i \in DOMAIN requests : Asks(q, i) => \E j \in 1 .. i - 1 : Evicts(q, j)
          PROVE  /\ \E j \in DOMAIN requests' : Evicts(q, j)'
                 /\ \A i \in DOMAIN requests' : Asks(q, i)' => \E j \in 1 .. i - 1 : Evicts(q, j)'
      <4>1. PICK k \in 1 .. Len(requests) : Evicts(q, k)
        BY <3>1, <3>2
      <4>2. Evicts(q, k)' /\ k \in DOMAIN requests'
        BY <3>1, <4>1 DEF Evicts
      <4>3. ASSUME NEW i \in DOMAIN requests', Asks(q, i)' PROVE \E j \in 1 .. i - 1 : Evicts(q, j)'
        <5>1. CASE i = Len(requests) + 1
          BY <3>1, <4>1, <4>2, <5>1
        <5>2. CASE i # Len(requests) + 1
          <6>1. i \in 1 .. Len(requests) /\ Asks(q, i)
            BY <3>1, <4>3, <5>2 DEF Asks
          <6>2. PICK j \in 1 .. i - 1 : Evicts(q, j)
            BY <3>1, <3>2, <6>1
          <6>3. Evicts(q, j)'
            BY <3>1, <6>1, <6>2 DEF Evicts
          <6> QED BY <6>3
        <5> QED BY <5>1, <5>2
      <4> QED BY <4>2, <4>3
    <3> QED BY <1>1, <3>2 DEF Current, CacheCurrent
  <2> QED BY <1>1, <2>1, <2>2
<1> QED BY <1>2, <1>3, <1>4, <1>5 DEF Current

(* The evictions of p that are still in the channel, once its head, which  *)
(* is none of them, is taken.                                              *)
LEMMA FlushedTaken ==
  ASSUME TypeOK, requests # <<>>, requests' = Tail(requests),
         NEW p \in Pids, ~Evicts(p, 1),
         \E j \in DOMAIN requests : Evicts(p, j),
         \A i \in DOMAIN requests : Asks(p, i) => \E j \in 1 .. i - 1 : Evicts(p, j)
  PROVE  /\ \E j \in DOMAIN requests' : Evicts(p, j)'
         /\ \A i \in DOMAIN requests' : Asks(p, i)' => \E j \in 1 .. i - 1 : Evicts(p, j)'
<1>1. /\ DOMAIN requests = 1 .. Len(requests) /\ DOMAIN requests' = 1 .. Len(requests) - 1
      /\ Len(requests) \in Nat \ {0}
      /\ \A i \in 1 .. Len(requests) - 1 : requests'[i] = requests[i + 1]
  BY Taken
<1>2. ASSUME NEW j \in 1 .. Len(requests), Evicts(p, j)
      PROVE  j - 1 \in DOMAIN requests' /\ Evicts(p, j - 1)'
  <2>1. j # 1
    BY <1>2
  <2>2. j - 1 \in 1 .. Len(requests) - 1 /\ requests'[j - 1] = requests[j]
    BY <1>1, <2>1
  <2> QED BY <1>1, <1>2, <2>2 DEF Evicts
<1>3. \E j \in DOMAIN requests' : Evicts(p, j)'
  BY <1>1, <1>2
<1>4. ASSUME NEW i \in DOMAIN requests', Asks(p, i)' PROVE \E j \in 1 .. i - 1 : Evicts(p, j)'
  <2>1. i + 1 \in DOMAIN requests /\ Asks(p, i + 1) /\ i \in Nat
    BY <1>1, <1>4 DEF Asks
  <2>2. PICK j \in 1 .. i : Evicts(p, j)
    BY <2>1
  <2>3. Evicts(p, j - 1)' /\ j - 1 \in 1 .. i - 1
    BY <1>1, <1>2, <2>1, <2>2
  <2> QED BY <2>3
<1> QED BY <1>3, <1>4

(* A lookup answers from a cache that is current, or from /proc; what it   *)
(* takes from lib_cache instead is accounted as outdated.                  *)
LEMMA ResolveAnswer ==
  ASSUME TypeOK, NEW p \in Pids, NEW a \in Kernels, resolve(p, a), ~outdated',
         \A b \in Kernels : addr_cache[<<p, b>>] \in {None, Unknown, incarnation[p]}
  PROVE  /\ \A b \in Kernels : addr_cache'[<<p, b>>] \in {None, Unknown, incarnation[p]}
         /\ \E name \in {Unknown, incarnation[p]} : results' = Append(results, <<p, a, name>>)
<1>1. CASE /\ addr_cache[p, a] # None
           /\ results' = Append(results, <<p, a, addr_cache[p, a]>>)
           /\ UNCHANGED <<resolver, outdated>>
  BY <1>1 DEF resolver
<1>2. CASE \E name : /\ results' = Append(results, <<p, a, name>>)
                     /\ addr_cache' = [addr_cache EXCEPT ![<<p, a>>] = name]
                     /\ outdated' = (outdated \/ name \notin {Unknown, incarnation[p]})
  <2>1. addr_cache \in [Launched -> (0 .. MaxIncarnation) \cup {None}]
        /\ \A b \in Kernels : <<p, b>> \in Launched
    BY DEF TypeOK, Launched
  <2>2. PICK name : /\ results' = Append(results, <<p, a, name>>)
                    /\ addr_cache' = [addr_cache EXCEPT ![<<p, a>>] = name]
                    /\ name \in {Unknown, incarnation[p]}
    BY <1>2
  <2> QED BY <2>1, <2>2
<1> QED BY <1>1, <1>2 DEF resolve

LEMMA ResolverCurrent ==
  ASSUME TypeOK, ResolverStep, ~outdated', Current
  PROVE  Current'
<1> DEFINE req == Head(requests)
           Fresh(q) == \A b \in Kernels : addr_cache[<<q, b>>] \in {None, Unknown, incarnation[q]}
           Flushed(q) == /\ \E j \in DOMAIN requests : Evicts(q, j)
                         /\ \A i \in DOMAIN requests : Asks(q, i) => \E j \in 1 .. i - 1 : Evicts(q, j)
<1>1. /\ requests # <<>> /\ requests' = Tail(requests)
      /\ UNCHANGED <<life, incarnation, kernel_names, handles, last_seen>>
  BY DEF ResolverStep, world, loop
<1>2. req = requests[1] /\ req \in Request /\ 1 \in DOMAIN requests
  BY <1>1, Taken
<1> HIDE DEF req
<1>3. DeadForgotten' /\ TableCurrent'
  BY <1>1 DEF Current, DeadForgotten, TableCurrent
<1>4. \A q \in Pids : Fresh(q) \/ Flushed(q)
  BY DEF Current, CacheCurrent
<1>5. ASSUME NEW q \in Pids, ~Evicts(q, 1), Flushed(q)
      PROVE  Flushed(q)'
  BY <1>1, <1>5, FlushedTaken
<1>6. CASE req.op = "Resolve" /\ resolve(req.pid, req.addr)
  <2>1. req.pid \in Pids /\ req.addr \in Kernels
    BY <1>2, <1>6, RequestTypes
  <2>2. Fresh(req.pid)
    <3>1. Asks(req.pid, 1)
      BY <1>2, <1>6 DEF Asks
    <3>2. ~Flushed(req.pid)
      BY <1>2, <3>1
    <3> QED BY <1>4, <2>1, <3>2
  <2>3. /\ \A b \in Kernels : addr_cache'[<<req.pid, b>>] \in {None, Unknown, incarnation[req.pid]}
        /\ \E name \in {Unknown, incarnation[req.pid]} :
             results' = Append(results, <<req.pid, req.addr, name>>)
    BY <1>6, <2>1, <2>2, ResolveAnswer
  <2>4. CacheCurrent'
    <3> SUFFICES ASSUME NEW q \in Pids PROVE Fresh(q)' \/ Flushed(q)'
      BY DEF CacheCurrent, Evicts, Asks
    <3>1. CASE q = req.pid
      BY <1>1, <2>3, <3>1
    <3>2. CASE q # req.pid
      <4>1. \A b \in Kernels : addr_cache'[<<q, b>>] = addr_cache[<<q, b>>]
        BY <1>6, <2>1, <3>2, ResolveLocal
      <4>2. ~Evicts(q, 1)
        BY <1>2, <1>6 DEF Evicts
      <4>3. Fresh(q) => Fresh(q)'
        BY <1>1, <4>1
      <4> QED BY <1>4, <1>5, <4>2, <4>3
    <3> QED BY <3>1, <3>2
  <2>5. AnswersCurrent'
    <3>1. PICK name \in {Unknown, incarnation[req.pid]} :
            results' = Append(results, <<req.pid, req.addr, name>>)
      BY <2>3
    <3>2. results \in Seq(Pids \X Kernels \X (0 .. MaxIncarnation))
          /\ <<req.pid, req.addr, name>> \in Pids \X Kernels \X (0 .. MaxIncarnation)
      BY <2>1, ConstantsAssumption DEF TypeOK, Unknown
    <3>3. /\ DOMAIN results = 1 .. Len(results) /\ DOMAIN results' = 1 .. Len(results) + 1
          /\ Len(results) \in Nat
          /\ \A i \in 1 .. Len(results) : results'[i] = results[i]
          /\ results'[Len(results) + 1] = <<req.pid, req.addr, name>>
      BY <3>1, <3>2, AppendProperties
    <3>4. ASSUME NEW i \in DOMAIN results'
          PROVE  results'[i][3] \in {Unknown, incarnation[results'[i][1]]}
      <4>1. CASE i = Len(results) + 1
        BY <3>3, <4>1
      <4>2. CASE i # Len(results) + 1
        <5>1. i \in DOMAIN results /\ results'[i] = results[i]
          BY <3>3, <3>4, <4>2
        <5> QED BY <5>1 DEF Current, AnswersCurrent
      <4> QED BY <4>1, <4>2
    <3> QED BY <1>1, <3>4 DEF AnswersCurrent
  <2> QED BY <1>3, <2>4, <2>5 DEF Current
<1>7. CASE req.op = "EvictPids" /\ evict_pids(req.pids) /\ UNCHANGED results
  <2>1. AnswersCurrent'
    BY <1>1, <1>7 DEF Current, AnswersCurrent
  <2>2. CacheCurrent'
    <3> SUFFICES ASSUME NEW q \in Pids PROVE Fresh(q)' \/ Flushed(q)'
      BY DEF CacheCurrent, Evicts, Asks
    <3>1. CASE q \in req.pids
      <4>1. \A b \in Kernels : addr_cache'[<<q, b>>] = None
        BY <1>7, <3>1 DEF evict_pids, Launched
      <4> QED BY <4>1
    <3>2. CASE q \notin req.pids
      <4>1. \A b \in Kernels : addr_cache'[<<q, b>>] = addr_cache[<<q, b>>]
        BY <1>7, <3>2 DEF evict_pids, Launched
      <4>2. ~Evicts(q, 1)
        BY <1>2, <3>2 DEF Evicts
      <4>3. Fresh(q) => Fresh(q)'
        BY <1>1, <4>1
      <4> QED BY <1>4, <1>5, <4>2, <4>3
    <3> QED BY <3>1, <3>2
  <2> QED BY <1>3, <2>1, <2>2 DEF Current
<1> QED BY <1>6, <1>7 DEF ResolverStep, req

(* The gc arm enters answers for processes in last_seen only, up to those  *)
(* accounted as outdated, and forgets all tables of a process together.    *)
LEMMA GcCurrent ==
  ASSUME TypeOK, GcArm, ~outdated', Current
  PROVE  Current'
<1> DEFINE stale_pids == {p \in Pids : last_seen[p] = "stale"}
           named == [x \in Launched |-> IF AnswerFor(x) = None THEN kernel_names[x] ELSE AnswerFor(x)]
<1>1. /\ kernel_names' = Retained(named, stale_pids)
      /\ handles' = [x \in Launched |-> IF x[1] \in stale_pids THEN None ELSE handles[x]]
      /\ last_seen' = [p \in Pids |-> IF p \in stale_pids THEN "never" ELSE last_seen[p]]
      /\ results' = <<>>
      /\ \A x \in Launched : AnswerFor(x) # None => last_seen[x[1]] # "never"
      /\ UNCHANGED <<life, incarnation, addr_cache>>
  BY DEF GcArm, world, resolver
<1>2. requests' = requests \/ requests' = Append(requests, EvictPids(stale_pids))
  BY DEF GcArm
<1>3. ASSUME NEW p \in Pids, NEW a \in Kernels
      PROVE  /\ kernel_names'[<<p, a>>] =
                  IF p \in stale_pids THEN None
                  ELSE IF AnswerFor(<<p, a>>) = None THEN kernel_names[<<p, a>>] ELSE AnswerFor(<<p, a>>)
             /\ handles'[<<p, a>>] \in {None, handles[<<p, a>>]}
             /\ AnswerFor(<<p, a>>) \in {None, incarnation[p]}
  <2>1. <<p, a>> \in Launched /\ <<p, a>>[1] = p
    BY DEF Launched
  <2>2. AnswerFor(<<p, a>>) \in {None, incarnation[p]}
    <3> SUFFICES ASSUME AnswerFor(<<p, a>>) # None PROVE AnswerFor(<<p, a>>) = incarnation[p]
      OBVIOUS
    <3>1. PICK i \in DOMAIN results :
            /\ <<results[i][1], results[i][2]>> = <<p, a>>
            /\ results[i][3] # Unknown /\ AnswerFor(<<p, a>>) = results[i][3]
      BY <2>1, AnswerForInChannel
    <3> QED BY <3>1 DEF Current, AnswersCurrent
  <2>3. named[<<p, a>>] = IF AnswerFor(<<p, a>>) = None THEN kernel_names[<<p, a>>] ELSE AnswerFor(<<p, a>>)
    BY <2>1
  <2> HIDE DEF named, stale_pids
  <2> QED BY <1>1, <2>1, <2>2, <2>3 DEF Retained
<1> HIDE DEF named
<1>4. DeadForgotten'
  <2> SUFFICES ASSUME NEW p \in Pids, NEW a \in Kernels, life[p] = "dead", last_seen'[p] = "never"
               PROVE  kernel_names'[<<p, a>>] = None
    BY <1>1 DEF DeadForgotten
  <2>1. CASE p \in stale_pids
    BY <1>3, <2>1
  <2>2. CASE p \notin stale_pids
    <3>1. last_seen[p] = "never"
      BY <1>1, <2>2
    <3>2. AnswerFor(<<p, a>>) = None
      BY <1>1, <3>1 DEF Launched
    <3> QED BY <1>3, <2>2, <3>1, <3>2 DEF Current, DeadForgotten
  <2> QED BY <2>1, <2>2
<1>5. TableCurrent'
  <2> SUFFICES ASSUME NEW p \in Pids, NEW a \in Kernels
               PROVE  /\ kernel_names'[<<p, a>>] \in {None, incarnation[p]}
                      /\ handles'[<<p, a>>] \in {None, Unknown, incarnation[p]}
    BY <1>1 DEF TableCurrent
  <2> HIDE DEF stale_pids
  <2> QED BY <1>3 DEF Current, TableCurrent
<1>6. AnswersCurrent'
  BY <1>1 DEF AnswersCurrent
<1>7. CacheCurrent'
  <2>1. CASE requests' = requests
    BY <1>1, <2>1 DEF Current, CacheCurrent, Evicts, Asks
  <2>2. CASE requests' = Append(requests, EvictPids(stale_pids))
    <3>1. /\ DOMAIN requests = 1 .. Len(requests) /\ DOMAIN requests' = 1 .. Len(requests) + 1
          /\ Len(requests) \in Nat
          /\ requests'[Len(requests) + 1] = EvictPids(stale_pids)
          /\ \A i \in 1 .. Len(requests) : requests'[i] = requests[i]
      BY <2>2, RequestMade, Sent
    <3> HIDE DEF stale_pids
    <3>2. ASSUME NEW q \in Pids, NEW j \in DOMAIN requests, Evicts(q, j)
          PROVE  j \in DOMAIN requests' /\ Evicts(q, j)'
      <4>1. j \in 1 .. Len(requests) /\ j \in DOMAIN requests'
        BY <3>1, <3>2
      <4>2. requests'[j] = requests[j]
        BY <3>1, <4>1
      <4> QED BY <3>2, <4>1, <4>2 DEF Evicts
    <3>3. ASSUME NEW q \in Pids, NEW i \in DOMAIN requests', Asks(q, i)'
          PROVE  i \in DOMAIN requests /\ Asks(q, i)
      <4>1. i # Len(requests) + 1
        BY <3>1, <3>3 DEF Asks, EvictPids
      <4> QED BY <3>1, <3>3, <4>1 DEF Asks
    <3>4. ASSUME NEW q \in Pids, \E j \in DOMAIN requests : Evicts(q, j),
                 \A i \in DOMAIN requests : Asks(q, i) => \E j \in 1 .. i - 1 : Evicts(q, j)
          PROVE  /\ \E j \in DOMAIN requests' : Evicts(q, j)'
                 /\ \A i \in DOMAIN requests' : Asks(q, i)' => \E j \in 1 .. i - 1 : Evicts(q, j)'
      <4>1. \E j \in DOMAIN requests' : Evicts(q, j)'
        BY <3>2, <3>4
      <4>2. ASSUME NEW i \in DOMAIN requests', Asks(q, i)' PROVE \E j \in 1 .. i - 1 : Evicts(q, j)'
        <5>1. i \in DOMAIN requests /\ Asks(q, i)
          BY <3>3, <4>2
        <5>2. PICK j \in 1 .. i - 1 : Evicts(q, j)
          BY <3>4, <5>1
        <5>3. j \in DOMAIN requests
          BY <3>1, <5>1, <5>2
        <5> QED BY <3>2, <5>2, <5>3
      <4> QED BY <4>1, <4>2
    <3> QED BY <1>1, <3>4 DEF Current, CacheCurrent
  <2> QED BY <1>2, <2>1, <2>2
<1> QED BY <1>4, <1>5, <1>6, <1>7 DEF Current

(* A handle exists only between the drain that touches its process and the *)
(* gc tick that forgets the process.                                       *)
LEMMA NextTracked == TypeOK /\ HandlesTracked /\ [Next]_vars => HandlesTracked'
<1> SUFFICES ASSUME TypeOK, HandlesTracked, [Next]_vars PROVE HandlesTracked'
  OBVIOUS
<1>1. CASE UNCHANGED <<handles, last_seen>>
  BY <1>1 DEF HandlesTracked
<1>2. ASSUME NEW p \in Pids, Age(p) PROVE HandlesTracked'
  BY <1>2 DEF Age, HandlesTracked, TypeOK
<1>3. ASSUME NEW p \in Pids, NEW a \in Kernels, DrainLaunch(p, a) PROVE HandlesTracked'
  <2>1. /\ last_seen'[p] = "fresh"
        /\ \A q \in Pids \ {p} : last_seen'[q] = last_seen[q]
    BY <1>3 DEF DrainLaunch, TypeOK
  <2>2. \A q \in Pids \ {p}, b \in Kernels : handles'[<<q, b>>] = handles[<<q, b>>]
    BY <1>3 DEF DrainLaunch, TypeOK, Launched
  <2> QED BY <2>1, <2>2 DEF HandlesTracked
<1>4. CASE GcArm
  <2> DEFINE stale_pids == {p \in Pids : last_seen[p] = "stale"}
  <2>1. /\ handles' = [x \in Launched |-> IF x[1] \in stale_pids THEN None ELSE handles[x]]
        /\ last_seen' = [p \in Pids |-> IF p \in stale_pids THEN "never" ELSE last_seen[p]]
    BY <1>4 DEF GcArm
  <2>2. \A p \in Pids, a \in Kernels :
          handles'[<<p, a>>] = IF p \in stale_pids THEN None ELSE handles[<<p, a>>]
    BY <2>1 DEF Launched
  <2> HIDE DEF stale_pids
  <2> QED BY <2>1, <2>2 DEF HandlesTracked
<1>5. UNCHANGED <<handles, last_seen>> \/ GcArm
      \/ (\E p \in Pids : Age(p)) \/ (\E p \in Pids, a \in Kernels : DrainLaunch(p, a))
  BY DEF Next, Process, Load, Exit, Reuse, Launch, ResolverStep, RegisterKernels, loop, vars
<1> QED BY <1>1, <1>2, <1>3, <1>4, <1>5

(* What was outdated once is recorded for good. *)
LEMMA OutdatedStays == TypeOK /\ [Next]_vars /\ outdated => outdated'
<1> SUFFICES ASSUME TypeOK, [Next]_vars, outdated PROVE outdated'
  OBVIOUS
<1>1. CASE ResolverStep
  <2>1. ASSUME NEW p, NEW a, resolve(p, a) PROVE outdated'
    BY <2>1 DEF resolve
  <2> QED BY <1>1, <2>1 DEF ResolverStep
<1>2. CASE \E p \in Pids : Process(p)
  BY <1>2 DEF Process, Load, Exit, Reuse, Launch, Age
<1>3. CASE RegisterKernels \/ (\E p \in Pids, a \in Kernels : DrainLaunch(p, a)) \/ UNCHANGED vars
  BY <1>3 DEF RegisterKernels, DrainLaunch, vars
<1>4. CASE GcArm
  BY <1>4 DEF GcArm
<1> QED BY <1>1, <1>2, <1>3, <1>4 DEF Next

LEMMA NextCurrent == CurrentInv /\ [Next]_vars => CurrentInv'
<1> SUFFICES ASSUME CurrentInv, [Next]_vars PROVE CurrentInv'
  OBVIOUS
<1>0. TypeOK /\ ResolverForgets /\ HandlesTracked
  BY DEF CurrentInv
<1>1. TypeOK' /\ ResolverForgets' /\ HandlesTracked'
  BY <1>0, NextType, NextForgets, NextTracked
<1>2. ASSUME ~outdated' PROVE Current'
  <2>0. Current
    BY <1>0, <1>2, OutdatedStays DEF CurrentInv
  <2>1. ASSUME UNCHANGED <<incarnation, kernel_names, handles, requests, results, addr_cache>>,
               \A p \in Pids : /\ life'[p] = "dead" => life[p] = "dead"
                               /\ last_seen'[p] = "never" => last_seen[p] = "never"
        PROVE  Current'
    <3>1. DeadForgotten'
      BY <2>0, <2>1 DEF Current, DeadForgotten
    <3>2. TableCurrent' /\ AnswersCurrent'
      BY <2>0, <2>1 DEF Current, TableCurrent, AnswersCurrent
    <3>3. CacheCurrent'
      BY <2>0, <2>1 DEF Current, CacheCurrent, Evicts, Asks
    <3> QED BY <3>1, <3>2, <3>3 DEF Current
  <2>2. ASSUME NEW p \in Pids, Load(p) PROVE Current'
    BY <1>0, <2>1, <2>2 DEF Load, loop, resolver, TypeOK
  <2>3. ASSUME NEW p \in Pids, Exit(p) PROVE Current'
    BY <1>0, <1>2, <2>0, <2>3, ExitCurrent
  <2>4. ASSUME NEW p \in Pids, Reuse(p) PROVE Current'
    BY <1>0, <1>2, <2>0, <2>4, ReuseCurrent
  <2>5. ASSUME NEW p \in Pids, Age(p) PROVE Current'
    BY <1>0, <2>1, <2>5 DEF Age, world, resolver, TypeOK
  <2>6. ASSUME NEW p \in Pids, NEW a \in Kernels, Launch(p, a) PROVE Current'
    BY <2>1, <2>6 DEF Launch, world, loop, resolver
  <2>7. CASE ResolverStep
    BY <1>0, <1>2, <2>0, <2>7, ResolverCurrent
  <2>8. CASE RegisterKernels
    BY <1>0, <2>0, <2>8, RegisterCurrent
  <2>9. ASSUME NEW p \in Pids, NEW a \in Kernels, DrainLaunch(p, a) PROVE Current'
    BY <1>0, <2>0, <2>9, DrainCurrent
  <2>10. CASE GcArm
    BY <1>0, <1>2, <2>0, <2>10, GcCurrent
  <2>11. CASE UNCHANGED vars
    BY <2>1, <2>11 DEF vars, world, loop, resolver
  <2> QED BY <2>2, <2>3, <2>4, <2>5, <2>6, <2>7, <2>8, <2>9, <2>10, <2>11 DEF Next, Process
<1> QED BY <1>1, <1>2 DEF CurrentInv

(* A launch is never counted under the kernel name of an earlier process   *)
(* with the same number, unless one of the three windows was used that     *)
(* outdated records: a late answer, lib_cache, or names registered by a    *)
(* process that ended unseen.  No other path carries an old name: neither  *)
(* addr_cache, which get_or_create reaches through an answer, nor          *)
(* kernel_names and the handles the gc arm forgets.                        *)
THEOREM LabelsCurrent == Spec => []NamesCurrent
<1>1. CurrentInv => NamesCurrent
  BY DEF CurrentInv, Current, TableCurrent, NamesCurrent
<1> QED BY <1>1, InitCurrent, NextCurrent, PTL DEF Spec
=============================================================================
