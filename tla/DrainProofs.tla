---------------------------- MODULE DrainProofs ----------------------------
(***************************************************************************)
(* Proofs about Drain, for any keys, CPUs, elements and budget.            *)
(***************************************************************************)
EXTENDS Drain, SumsProofs

(* The provers that try a step which names none, and their time limits.    *)
USE ZenonT(5), SMTT(20), ZenonT(60)

(* A key is held by one element at most. *)
OneElement ==
  \A e, f \in Elems : keyOf[e] # None /\ keyOf[e] = keyOf[f] => e = f

(* A program that found no element for its key has counted nothing into    *)
(* the element another CPU made for the key since: bpf_map_update_elem,    *)
(* which sets the slot of its CPU, overwrites nothing.                     *)
SlotClear ==
  \A c \in Cpus, e \in Elems :
    prog[c].pc = "insert" /\ keyOf[e] = prog[c].key => val[e][c] = 0

(* What was read from an element is still in it until it is deleted. *)
ReadBelow == current # None => got <= Sum(val[current])

Inv == TypeOK /\ OneElement /\ SlotClear /\ ReadBelow
-----------------------------------------------------------------------------
(* The operators.                                                          *)

LEMMA ElemOfKey ==
  ASSUME NEW k \in Keys
  PROVE  \/ ElemOf(k) = None /\ \A e \in Elems : keyOf[e] # k
         \/ ElemOf(k) \in Elems /\ ElemOf(k) # None /\ keyOf[ElemOf(k)] = k
<1>1. CASE \E e \in Elems : keyOf[e] = k
  <2>1. ElemOf(k) = CHOOSE e \in Elems : keyOf[e] = k
    BY <1>1 DEF ElemOf
  <2>2. ElemOf(k) \in Elems /\ keyOf[ElemOf(k)] = k
    BY <1>1, <2>1
  <2> QED BY <2>2, ConstantsAssumption
<1>2. CASE ~ \E e \in Elems : keyOf[e] = k
  BY <1>2 DEF ElemOf
<1> QED BY <1>1, <1>2

(* The same of the state after a step. *)
LEMMA ElemOfKeyNext ==
  ASSUME NEW k \in Keys
  PROVE  \/ ElemOf(k)' = None /\ \A e \in Elems : keyOf'[e] # k
         \/ ElemOf(k)' \in Elems /\ ElemOf(k)' # None /\ keyOf'[ElemOf(k)'] = k
<1>1. CASE \E e \in Elems : keyOf'[e] = k
  <2>1. ElemOf(k)' = CHOOSE e \in Elems : keyOf'[e] = k
    BY <1>1 DEF ElemOf
  <2>2. ElemOf(k)' \in Elems /\ keyOf'[ElemOf(k)'] = k
    BY <1>1, <2>1
  <2> QED BY <2>2, ConstantsAssumption
<1>2. CASE ~ \E e \in Elems : keyOf'[e] = k
  BY <1>2 DEF ElemOf
<1> QED BY <1>1, <1>2

LEMMA ElemOfElement ==
  ASSUME OneElement, NEW e \in Elems, keyOf[e] \in Keys
  PROVE  ElemOf(keyOf[e]) = e
<1>1. ElemOf(keyOf[e]) \in Elems /\ keyOf[ElemOf(keyOf[e])] = keyOf[e]
  BY ElemOfKey
<1>2. keyOf[e] # None
  BY ConstantsAssumption
<1> QED BY <1>1, <1>2 DEF OneElement

LEMMA SlotsType ==
  ASSUME TypeOK, NEW e \in Elems
  PROVE  val[e] \in [Cpus -> Nat] /\ Sum(val[e]) \in Nat
<1>1. val[e] \in [Cpus -> Nat]
  BY DEF TypeOK
<1> QED BY <1>1, SumType, ConstantsAssumption

(* What a program is in the middle of, by its program counter. *)
LEMMA ProgType ==
  ASSUME TypeOK, NEW c \in Cpus
  PROVE  /\ prog[c].pc \in {"idle", "insert", "bump"}
         /\ prog[c].pc = "idle" => prog[c] = Idle
         /\ prog[c].pc # "idle" => prog[c].key \in Keys
         /\ prog[c].pc = "bump" => prog[c].elem \in Elems
<1>1. prog[c] \in Prog
  BY DEF TypeOK
<1>2. CASE prog[c] = Idle
  BY <1>2 DEF Idle
<1>3. CASE prog[c] \in [pc : {"insert"}, key : Keys, elem : {None}]
  BY <1>3
<1>4. CASE prog[c] \in [pc : {"bump"}, key : Keys, elem : Elems]
  BY <1>4
<1> QED BY <1>1, <1>2, <1>3, <1>4 DEF Prog

(* What waits for a key, by the element that holds it. *)
LEMMA WaitingFor ==
  ASSUME Inv, NEW e \in Elems, keyOf[e] \in Keys
  PROVE  Waiting(keyOf[e]) = Sum(val[e]) - (IF e = current THEN got ELSE 0)
<1>1. ElemOf(keyOf[e]) = e
  BY ElemOfElement DEF Inv
<1>2. e # None
  BY ConstantsAssumption
<1> QED BY <1>1, <1>2 DEF Waiting

LEMMA WaitingType ==
  ASSUME Inv, NEW k \in Keys
  PROVE  Waiting(k) \in Nat
<1>1. CASE ElemOf(k) = None
  BY <1>1 DEF Waiting
<1>2. CASE ElemOf(k) # None
  <2>1. ElemOf(k) \in Elems /\ keyOf[ElemOf(k)] = k
    BY <1>2, ElemOfKey
  <2>2. Sum(val[ElemOf(k)]) \in Nat /\ got \in Nat
    BY <2>1, SlotsType DEF Inv, TypeOK
  <2>3. ElemOf(k) = current => got <= Sum(val[ElemOf(k)])
    BY <1>2 DEF Inv, ReadBelow
  <2> QED BY <1>2, <2>2, <2>3 DEF Waiting
<1> QED BY <1>1, <1>2

LEMMA PendingType ==
  ASSUME NEW k
  PROVE  /\ IsFiniteSet({c \in Cpus : prog[c].pc # "idle" /\ prog[c].key = k})
         /\ Pending(k) \in Nat
<1>1. {c \in Cpus : prog[c].pc # "idle" /\ prog[c].key = k} \in SUBSET Cpus
  OBVIOUS
<1>2. IsFiniteSet({c \in Cpus : prog[c].pc # "idle" /\ prog[c].key = k})
  BY <1>1, FS_Subset, ConstantsAssumption
<1> QED BY <1>2, FS_CardinalityType DEF Pending

(* A program ends: one less is pending for its key. *)
LEMMA PendingEnds ==
  ASSUME TypeOK, NEW c \in Cpus, NEW k, prog[c].pc # "idle", prog[c].key = k,
         prog' = [prog EXCEPT ![c] = Idle]
  PROVE  /\ Pending(k)' = Pending(k) - 1
         /\ Pending(k) # 0
         /\ \A j : j # k => Pending(j)' = Pending(j)
<1> DEFINE Set(j) == {d \in Cpus : prog[d].pc # "idle" /\ prog[d].key = j}
           Set1(j) == {d \in Cpus : prog'[d].pc # "idle" /\ prog'[d].key = j}
<1>1. \A d \in Cpus : prog'[d] = IF d = c THEN Idle ELSE prog[d]
  BY DEF TypeOK
<1>2. Idle.pc = "idle"
  BY DEF Idle
<1>3. \A j : Set1(j) = Set(j) \ {c}
  BY <1>1, <1>2
<1>4. c \in Set(k) /\ \A j : j # k => c \notin Set(j)
  OBVIOUS
<1>5. \A j : Pending(j) = Cardinality(Set(j)) /\ Pending(j)' = Cardinality(Set1(j))
  BY DEF Pending
<1>6. \A j : IsFiniteSet(Set(j))
  BY PendingType
<1> HIDE DEF Set, Set1
<1>7. Cardinality(Set1(k)) = Cardinality(Set(k)) - 1
  BY <1>3, <1>4, <1>6, FS_RemoveElement
<1>8. Cardinality(Set(k)) # 0
  BY <1>4, <1>6, FS_EmptySet
<1>9. \A j : j # k => Set1(j) = Set(j)
  BY <1>3, <1>4
<1> QED BY <1>5, <1>7, <1>8, <1>9

(* A program starts: one more is pending for its key. *)
LEMMA PendingStarts ==
  ASSUME TypeOK, NEW c \in Cpus, prog[c].pc = "idle", NEW p, p.pc # "idle",
         prog' = [prog EXCEPT ![c] = p]
  PROVE  /\ Pending(p.key)' = Pending(p.key) + 1
         /\ \A k : k # p.key => Pending(k)' = Pending(k)
<1> DEFINE Set(k) == {d \in Cpus : prog[d].pc # "idle" /\ prog[d].key = k}
           Set1(k) == {d \in Cpus : prog'[d].pc # "idle" /\ prog'[d].key = k}
<1>1. \A d \in Cpus : prog'[d] = IF d = c THEN p ELSE prog[d]
  BY DEF TypeOK
<1>2. Set1(p.key) = Set(p.key) \cup {c} /\ c \notin Set(p.key)
  BY <1>1
<1>3. \A k : k # p.key => Set1(k) = Set(k)
  BY <1>1
<1>4. \A k : Pending(k) = Cardinality(Set(k)) /\ Pending(k)' = Cardinality(Set1(k))
  BY DEF Pending
<1>5. IsFiniteSet(Set(p.key))
  BY PendingType
<1> HIDE DEF Set, Set1
<1>6. Cardinality(Set1(p.key)) = Cardinality(Set(p.key)) + 1
  BY <1>2, <1>5, FS_AddElement
<1> QED BY <1>3, <1>4, <1>6

(* One slot of an element is written. *)
Written(e, c, n) == val' = [val EXCEPT ![e][c] = n]

LEMMA SlotWritten ==
  ASSUME TypeOK, NEW e \in Elems, NEW c \in Cpus, NEW n \in Nat, Written(e, c, n)
  PROVE  /\ val' \in [Elems -> [Cpus -> Nat]]
         /\ Sum(val'[e]) = Sum(val[e]) - val[e][c] + n
         /\ \A f \in Elems \ {e} : val'[f] = val[f]
         /\ \A f \in Elems, d \in Cpus : d # c => val'[f][d] = val[f][d]
         /\ val[e][c] \in Nat
<1>1. val \in [Elems -> [Cpus -> Nat]]
  BY DEF TypeOK
<1>2. /\ val' \in [Elems -> [Cpus -> Nat]]
      /\ \A f \in Elems \ {e} : val'[f] = val[f]
      /\ val'[e] = [val[e] EXCEPT ![c] = n]
  BY <1>1 DEF Written
<1>3. val[e] \in [Cpus -> Nat] /\ val'[e] \in [Cpus -> Nat]
      /\ val'[e][c] = n /\ \A d \in Cpus \ {c} : val'[e][d] = val[e][d]
  BY <1>1, <1>2
<1>4. Sum(val'[e]) = Sum(val[e]) - val[e][c] + val'[e][c]
  BY <1>3, SumUpdate, ConstantsAssumption
<1>5. \A f \in Elems, d \in Cpus : d # c => val'[f][d] = val[f][d]
  BY <1>2, <1>3
<1> QED BY <1>2, <1>3, <1>4, <1>5
-----------------------------------------------------------------------------
(* The invariant, and what each step does to the counts of every key.      *)

LEMMA InitInv == Init => Inv
<1> SUFFICES ASSUME Init PROVE Inv
  OBVIOUS
<1>1. TypeOK
  <2>1. prog \in [Cpus -> Prog]
    BY DEF Init, Prog
  <2>2. val \in [Elems -> [Cpus -> Nat]]
    BY DEF Init
  <2>3. {exported, dropped, recorded} \subseteq [Keys -> Nat]
    BY DEF Init
  <2> QED BY <2>1, <2>2, <2>3 DEF Init, TypeOK
<1>2. OneElement /\ ReadBelow
  BY DEF Init, OneElement, ReadBelow
<1>3. SlotClear
  BY DEF Init, SlotClear, Idle
<1> QED BY <1>1, <1>2, <1>3 DEF Inv

LEMMA LookupStep ==
  ASSUME Inv, NEW c \in Cpus, NEW k \in Keys, Lookup(c, k)
  PROVE  /\ Inv'
         /\ \A j \in Keys : Waiting(j)' = Waiting(j)
         /\ Pending(k)' = Pending(k) + 1
         /\ \A j \in Keys \ {k} : Pending(j)' = Pending(j)
<1> DEFINE r == [pc |-> IF ElemOf(k) = None THEN "insert" ELSE "bump", key |-> k, elem |-> ElemOf(k)]
<1>a. r \in Prog /\ r.pc # "idle" /\ r.key = k /\ (r.pc = "insert" => \A e \in Elems : keyOf[e] # k)
  BY ElemOfKey DEF Prog
<1>b. prog' = [prog EXCEPT ![c] = r]
  BY DEF Lookup
<1> HIDE DEF r
<1>2. PICK p \in Prog :
        /\ p.pc # "idle" /\ p.key = k
        /\ p.pc = "insert" => \A e \in Elems : keyOf[e] # k
        /\ prog' = [prog EXCEPT ![c] = p]
  BY <1>a, <1>b
<1>1. /\ prog[c].pc = "idle" /\ prog' = [prog EXCEPT ![c] = p]
      /\ recorded' = [recorded EXCEPT ![k] = @ + 1]
      /\ UNCHANGED <<keyOf, val, keys, current, got, exported, dropped, raced>>
  BY <1>2 DEF Lookup
<1>3. TypeOK'
  <2>1. prog' \in [Cpus -> Prog]
    BY <1>1, <1>2 DEF Inv, TypeOK
  <2>2. recorded' \in [Keys -> Nat]
    BY <1>1 DEF Inv, TypeOK
  <2> QED BY <1>1, <2>1, <2>2 DEF Inv, TypeOK
<1>4. OneElement' /\ ReadBelow'
  BY <1>1 DEF Inv, OneElement, ReadBelow
<1>5. SlotClear'
  <2> SUFFICES ASSUME NEW d \in Cpus, NEW e \in Elems, prog'[d].pc = "insert", keyOf[e] = prog'[d].key
               PROVE  val[e][d] = 0
    BY <1>1 DEF SlotClear
  <2>1. prog'[d] = IF d = c THEN p ELSE prog[d]
    BY <1>1 DEF Inv, TypeOK
  <2> QED BY <1>2, <2>1 DEF Inv, SlotClear
<1>6. \A j \in Keys : Waiting(j)' = Waiting(j)
  BY <1>1 DEF Waiting, ElemOf
<1>7. Pending(p.key)' = Pending(p.key) + 1 /\ \A j : j # p.key => Pending(j)' = Pending(j)
  BY <1>1, <1>2, PendingStarts DEF Inv
<1>8. Pending(k)' = Pending(k) + 1 /\ \A j \in Keys \ {k} : Pending(j)' = Pending(j)
  BY <1>2, <1>7
<1> QED BY <1>3, <1>4, <1>5, <1>6, <1>8 DEF Inv

(* An element is counted into while it keeps its key. *)
LEMMA WaitingAdded ==
  ASSUME Inv, NEW e \in Elems, UNCHANGED <<keyOf, current, got>>,
         Sum(val'[e]) = Sum(val[e]) + 1,
         \A f \in Elems \ {e} : val'[f] = val[f]
  PROVE  /\ ReadBelow'
         /\ \A j \in Keys : Waiting(j)' = IF j = keyOf[e] THEN Waiting(j) + 1 ELSE Waiting(j)
<1>0. TypeOK /\ OneElement /\ ReadBelow
  BY DEF Inv
<1>1. Sum(val[e]) \in Nat
  BY <1>0, SlotsType
<1>2. ReadBelow'
  <2> SUFFICES ASSUME current # None PROVE got <= Sum(val'[current])
    BY DEF ReadBelow
  <2>1. current \in Elems /\ got \in Nat /\ got <= Sum(val[current]) /\ Sum(val[current]) \in Nat
    BY <1>0, SlotsType DEF TypeOK, ReadBelow
  <2>2. CASE current = e
    BY <1>1, <2>1, <2>2
  <2>3. CASE current # e
    BY <2>1, <2>3
  <2> QED BY <2>2, <2>3
<1>3. ASSUME NEW j \in Keys
      PROVE  Waiting(j)' = IF j = keyOf[e] THEN Waiting(j) + 1 ELSE Waiting(j)
  <2>0. ElemOf(j)' = ElemOf(j)
    BY DEF ElemOf
  <2>1. CASE ElemOf(j) = None
    <3>1. j # keyOf[e]
      BY <2>1, ElemOfKey
    <3> QED BY <2>0, <2>1, <3>1 DEF Waiting
  <2>2. CASE ElemOf(j) # None
    <3>1. ElemOf(j) \in Elems /\ keyOf[ElemOf(j)] = j
      BY <2>2, ElemOfKey
    <3>2. Sum(val[ElemOf(j)]) \in Nat /\ got \in Nat
      BY <1>0, <3>1, SlotsType DEF TypeOK
    <3>3. /\ Waiting(j) = Sum(val[ElemOf(j)]) - (IF ElemOf(j) = current THEN got ELSE 0)
          /\ Waiting(j)' = Sum(val'[ElemOf(j)]) - (IF ElemOf(j) = current THEN got ELSE 0)
      BY <2>0, <2>2 DEF Waiting
    <3>4. CASE ElemOf(j) = e
      BY <3>1, <3>2, <3>3, <3>4
    <3>5. CASE ElemOf(j) # e
      <4>1. j # keyOf[e]
        BY <1>0, <3>5, ElemOfElement
      <4> QED BY <3>1, <3>3, <3>5, <4>1
    <3> QED BY <3>4, <3>5
  <2> QED BY <2>1, <2>2
<1> QED BY <1>2, <1>3

(* What a program adds goes to the key its element holds by then. *)
LEMMA BumpStep ==
  ASSUME Inv, NEW c \in Cpus, Bump(c), NEW k \in Keys, NEW e \in Elems, prog[c].key = k, prog[c].elem = e
  PROVE  /\ Inv'
         /\ \A j \in Keys : Waiting(j)' = IF j = keyOf[e] THEN Waiting(j) + 1 ELSE Waiting(j)
         /\ Pending(k)' = Pending(k) - 1 /\ Pending(k) # 0
         /\ \A j \in Keys \ {k} : Pending(j)' = Pending(j)
<1>0. TypeOK /\ OneElement /\ SlotClear /\ ReadBelow
  BY DEF Inv
<1>1. /\ prog[c].pc = "bump"
      /\ val' = [val EXCEPT ![e][c] = val[e][c] + 1]
      /\ prog' = [prog EXCEPT ![c] = Idle]
      /\ UNCHANGED <<keyOf, keys, current, got, exported, dropped, recorded, raced>>
  BY <1>0 DEF Bump, TypeOK
<1>2. val[e][c] + 1 \in Nat /\ val[e][c] \in Nat /\ Sum(val[e]) \in Nat
  BY <1>0, SlotsType
<1>n. PICK n \in Nat : n = val[e][c] + 1 /\ Written(e, c, n)
  BY <1>1, <1>2 DEF Written
<1>3. /\ val' \in [Elems -> [Cpus -> Nat]]
      /\ Sum(val'[e]) = Sum(val[e]) - val[e][c] + (val[e][c] + 1)
      /\ \A f \in Elems \ {e} : val'[f] = val[f]
      /\ \A f \in Elems, d \in Cpus : d # c => val'[f][d] = val[f][d]
  <2>1. /\ val' \in [Elems -> [Cpus -> Nat]]
        /\ Sum(val'[e]) = Sum(val[e]) - val[e][c] + n
        /\ \A f \in Elems \ {e} : val'[f] = val[f]
        /\ \A f \in Elems, d \in Cpus : d # c => val'[f][d] = val[f][d]
    BY <1>0, <1>n, SlotWritten
  <2> QED BY <1>n, <2>1
<1>4. Sum(val'[e]) = Sum(val[e]) + 1
  BY <1>2, <1>3
<1>5. prog' \in [Cpus -> Prog] /\ \A d \in Cpus : prog'[d] = IF d = c THEN Idle ELSE prog[d]
  BY <1>0, <1>1 DEF TypeOK, Prog
<1>6. TypeOK'
  BY <1>0, <1>1, <1>3, <1>5 DEF TypeOK
<1>7. OneElement'
  BY <1>0, <1>1 DEF OneElement
<1>8. SlotClear'
  <2> SUFFICES ASSUME NEW d \in Cpus, NEW f \in Elems, prog'[d].pc = "insert", keyOf[f] = prog'[d].key
               PROVE  val'[f][d] = 0
    BY <1>1 DEF SlotClear
  <2>1. d # c /\ prog'[d] = prog[d]
    BY <1>5 DEF Idle
  <2> QED BY <1>0, <1>3, <2>1 DEF SlotClear
<1>9. /\ ReadBelow'
      /\ \A j \in Keys : Waiting(j)' = IF j = keyOf[e] THEN Waiting(j) + 1 ELSE Waiting(j)
  BY <1>1, <1>3, <1>4, WaitingAdded
<1>10. Inv'
  BY <1>6, <1>7, <1>8, <1>9 DEF Inv
<1>11. /\ Pending(k)' = Pending(k) - 1 /\ Pending(k) # 0
       /\ \A j \in Keys \ {k} : Pending(j)' = Pending(j)
  BY <1>0, <1>1, PendingEnds
<1> QED BY <1>9, <1>10, <1>11

(* Keys that no element took or gave up keep what waits for them. *)
LEMMA WaitingKept ==
  ASSUME Inv, NEW e \in Elems, NEW j \in Keys,
         \A f \in Elems \ {e} : keyOf'[f] = keyOf[f] /\ val'[f] = val[f],
         keyOf[e] # j, keyOf'[e] # j,
         \A f \in Elems \ {e} : f = current' <=> f = current,
         (\E f \in Elems \ {e} : f = current) => got' = got
  PROVE  Waiting(j)' = Waiting(j)
<1>1. CASE ElemOf(j) = None
  <2>1. ElemOf(j)' = None
    BY <1>1, ElemOfKey, ElemOfKeyNext
  <2> QED BY <1>1, <2>1 DEF Waiting
<1>2. CASE ElemOf(j) # None
  <2>1. ElemOf(j) \in Elems \ {e} /\ keyOf[ElemOf(j)] = j
    BY <1>2, ElemOfKey
  <2>2. ElemOf(j)' \in Elems \ {e} /\ ElemOf(j)' # None /\ keyOf'[ElemOf(j)'] = j
    BY <2>1, ElemOfKey, ElemOfKeyNext
  <2>3. ElemOf(j)' = ElemOf(j)
    <3>1. keyOf[ElemOf(j)'] = j /\ j # None
      BY <2>2, ConstantsAssumption
    <3> QED BY <2>1, <2>2, <3>1 DEF Inv, OneElement
  <2>4. val'[ElemOf(j)] = val[ElemOf(j)]
    BY <2>1
  <2>5. IF ElemOf(j) = current THEN ElemOf(j) = current' /\ got' = got ELSE ElemOf(j) # current'
    BY <2>1
  <2> QED BY <1>2, <2>2, <2>3, <2>4, <2>5 DEF Waiting
<1> QED BY <1>1, <1>2

(* bpf_map_update_elem finds that another CPU made the element meanwhile. *)
LEMMA InsertFound ==
  ASSUME Inv, NEW c \in Cpus, Insert(c), NEW k \in Keys, prog[c].key = k,
         ElemOf(k) # None
  PROVE  /\ Inv'
         /\ Waiting(k)' = Waiting(k) + 1 /\ \A j \in Keys \ {k} : Waiting(j)' = Waiting(j)
         /\ UNCHANGED dropped
<1>0. TypeOK /\ OneElement /\ SlotClear /\ ReadBelow
  BY DEF Inv
<1>1. PICK e \in Elems : e = ElemOf(k) /\ keyOf[e] = k
  BY ElemOfKey
<1>2. /\ prog[c].pc = "insert"
      /\ Written(e, c, 1)
      /\ prog' = [prog EXCEPT ![c] = Idle]
      /\ UNCHANGED <<keyOf, dropped, keys, current, got, exported, recorded, raced>>
  BY <1>1 DEF Insert, Written
<1>3. val[e][c] = 0 /\ Sum(val[e]) \in Nat
  BY <1>0, <1>1, <1>2, SlotsType DEF SlotClear
<1>4. /\ val' \in [Elems -> [Cpus -> Nat]]
      /\ Sum(val'[e]) = Sum(val[e]) - val[e][c] + 1
      /\ \A f \in Elems \ {e} : val'[f] = val[f]
      /\ \A f \in Elems, d \in Cpus : d # c => val'[f][d] = val[f][d]
  BY <1>0, <1>2, SlotWritten
<1>5. Sum(val'[e]) = Sum(val[e]) + 1
  BY <1>3, <1>4
<1>6. prog' \in [Cpus -> Prog] /\ \A d \in Cpus : prog'[d] = IF d = c THEN Idle ELSE prog[d]
  BY <1>0, <1>2 DEF TypeOK, Prog
<1>7. TypeOK'
  BY <1>0, <1>2, <1>4, <1>6 DEF TypeOK
<1>8. OneElement'
  BY <1>0, <1>2 DEF OneElement
<1>9. SlotClear'
  <2> SUFFICES ASSUME NEW d \in Cpus, NEW f \in Elems, prog'[d].pc = "insert", keyOf[f] = prog'[d].key
               PROVE  val'[f][d] = 0
    BY <1>2 DEF SlotClear
  <2>1. d # c /\ prog'[d] = prog[d]
    BY <1>6 DEF Idle
  <2> QED BY <1>0, <1>4, <2>1 DEF SlotClear
<1>10. /\ ReadBelow'
       /\ \A j \in Keys : Waiting(j)' = IF j = keyOf[e] THEN Waiting(j) + 1 ELSE Waiting(j)
  BY <1>2, <1>4, <1>5, WaitingAdded
<1> QED BY <1>1, <1>2, <1>7, <1>8, <1>9, <1>10 DEF Inv

(* bpf_map_update_elem takes a free element. *)
LEMMA InsertTakes ==
  ASSUME Inv, NEW c \in Cpus, NEW k \in Keys, NEW e \in Elems,
         prog[c].pc = "insert", prog[c].key = k,
         ElemOf(k) = None, keyOf[e] = None,
         keyOf' = [keyOf EXCEPT ![e] = k],
         val' = [val EXCEPT ![e] = [d \in Cpus |-> IF d = c THEN 1 ELSE 0]],
         prog' = [prog EXCEPT ![c] = Idle],
         UNCHANGED <<dropped, keys, current, got, exported, recorded, raced>>
  PROVE  /\ Inv'
         /\ Waiting(k)' = Waiting(k) + 1 /\ \A j \in Keys \ {k} : Waiting(j)' = Waiting(j)
<1>0. TypeOK /\ OneElement /\ SlotClear /\ ReadBelow
  BY DEF Inv
<1>1. /\ keyOf' \in [Elems -> Keys \cup {None}] /\ keyOf'[e] = k
      /\ \A f \in Elems \ {e} : keyOf'[f] = keyOf[f] /\ val'[f] = val[f]
  BY <1>0 DEF TypeOK
<1>2. val' \in [Elems -> [Cpus -> Nat]] /\ val'[e] = [d \in Cpus |-> IF d = c THEN 1 ELSE 0]
  <2>1. [d \in Cpus |-> IF d = c THEN 1 ELSE 0] \in [Cpus -> Nat]
    OBVIOUS
  <2> QED BY <1>0, <2>1 DEF TypeOK
<1>3. Sum(val'[e]) = 1
  <2> DEFINE z == [d \in Cpus |-> 0]
             o == [d \in Cpus |-> IF d = c THEN 1 ELSE 0]
  <2>1. z \in [Cpus -> Nat] /\ o \in [Cpus -> Nat] /\ z[c] = 0 /\ o[c] = 1
        /\ \A d \in Cpus \ {c} : o[d] = z[d]
    OBVIOUS
  <2>2. DOMAIN z = Cpus /\ \A d \in Cpus : z[d] = 0
    OBVIOUS
  <2>3. val'[e] = o
    BY <1>2
  <2> HIDE DEF z, o
  <2>4. Sum(z) = 0
    BY <2>2, SumZero
  <2>5. Sum(o) = Sum(z) - z[c] + o[c]
    BY <2>1, SumUpdate, ConstantsAssumption
  <2> QED BY <2>1, <2>3, <2>4, <2>5
<1>4. current # e
  BY <1>0, ConstantsAssumption DEF TypeOK
<1>5. prog' \in [Cpus -> Prog] /\ \A d \in Cpus : prog'[d] = IF d = c THEN Idle ELSE prog[d]
  BY <1>0 DEF TypeOK, Prog
<1>6. TypeOK'
  <2>1. current # None => keyOf'[current] \in keys
    BY <1>0, <1>1, <1>4 DEF TypeOK
  <2> QED BY <1>0, <1>1, <1>2, <1>5, <2>1 DEF TypeOK
<1>7. \A f \in Elems : keyOf[f] # k
  BY ElemOfKey
<1>8. OneElement'
  BY <1>0, <1>1, <1>7 DEF OneElement
<1>9. SlotClear'
  <2> SUFFICES ASSUME NEW d \in Cpus, NEW f \in Elems, prog'[d].pc = "insert", keyOf'[f] = prog'[d].key
               PROVE  val'[f][d] = 0
    BY DEF SlotClear
  <2>1. d # c /\ prog'[d] = prog[d]
    BY <1>5 DEF Idle
  <2>2. CASE f = e
    BY <1>2, <2>1, <2>2
  <2>3. CASE f # e
    BY <1>0, <1>1, <2>1, <2>3 DEF SlotClear
  <2> QED BY <2>2, <2>3
<1>10. ReadBelow'
  <2>1. current # None => current \in Elems \ {e}
    BY <1>0, <1>4 DEF TypeOK
  <2> QED BY <1>0, <1>1, <2>1 DEF ReadBelow
<1>11. Waiting(k) = 0
  BY DEF Waiting
<1>12. Waiting(k)' = 1
  <2>1. ElemOf(k)' = e /\ e # None
    <3>1. ElemOf(k)' \in Elems /\ keyOf'[ElemOf(k)'] = k /\ e # None
      BY <1>1, ElemOfKeyNext, ConstantsAssumption
    <3> QED BY <1>1, <1>7, <3>1
  <2> QED BY <1>3, <1>4, <2>1 DEF Waiting
<1>13. \A j \in Keys \ {k} : Waiting(j)' = Waiting(j)
  BY <1>1, WaitingKept, ConstantsAssumption
<1> QED BY <1>6, <1>8, <1>9, <1>10, <1>11, <1>12, <1>13 DEF Inv

LEMMA InsertStep ==
  ASSUME Inv, NEW c \in Cpus, Insert(c), NEW k \in Keys, prog[c].key = k
  PROVE  /\ Inv'
         /\ \A j \in Keys \ {k} : Waiting(j)' = Waiting(j) /\ dropped'[j] = dropped[j]
         /\ \/ Waiting(k)' = Waiting(k) + 1 /\ dropped'[k] = dropped[k]
            \/ Waiting(k)' = Waiting(k) /\ dropped'[k] = dropped[k] + 1
         /\ Pending(k)' = Pending(k) - 1 /\ Pending(k) # 0
         /\ \A j \in Keys \ {k} : Pending(j)' = Pending(j)
<1>0. TypeOK /\ OneElement /\ SlotClear /\ ReadBelow
  BY DEF Inv
<1>1. /\ prog[c].pc = "insert" /\ prog' = [prog EXCEPT ![c] = Idle]
      /\ UNCHANGED <<keys, current, got, exported, recorded, raced>>
  BY DEF Insert
<1>2. /\ Pending(k)' = Pending(k) - 1 /\ Pending(k) # 0
      /\ \A j \in Keys \ {k} : Pending(j)' = Pending(j)
  BY <1>0, <1>1, PendingEnds
<1>3. CASE ElemOf(k) # None
  BY <1>2, <1>3, InsertFound
<1>4. ASSUME NEW e \in Elems, ElemOf(k) = None, keyOf[e] = None,
             keyOf' = [keyOf EXCEPT ![e] = k],
             val' = [val EXCEPT ![e] = [d \in Cpus |-> IF d = c THEN 1 ELSE 0]],
             UNCHANGED dropped
      PROVE  /\ Inv'
             /\ Waiting(k)' = Waiting(k) + 1 /\ \A j \in Keys \ {k} : Waiting(j)' = Waiting(j)
  BY <1>1, <1>4, InsertTakes
<1>5. ASSUME dropped' = [dropped EXCEPT ![k] = @ + 1], UNCHANGED <<keyOf, val>>
      PROVE  /\ Inv'
             /\ \A j \in Keys : Waiting(j)' = Waiting(j)
             /\ dropped'[k] = dropped[k] + 1 /\ \A j \in Keys \ {k} : dropped'[j] = dropped[j]
  <2>1. dropped' \in [Keys -> Nat]
        /\ dropped'[k] = dropped[k] + 1 /\ \A j \in Keys \ {k} : dropped'[j] = dropped[j]
    BY <1>0, <1>5 DEF TypeOK
  <2>2. prog' \in [Cpus -> Prog] /\ \A d \in Cpus : prog'[d] = IF d = c THEN Idle ELSE prog[d]
    BY <1>0, <1>1 DEF TypeOK, Prog
  <2>3. TypeOK'
    BY <1>0, <1>1, <1>5, <2>1, <2>2 DEF TypeOK
  <2>4. OneElement' /\ ReadBelow'
    BY <1>0, <1>1, <1>5 DEF OneElement, ReadBelow
  <2>5. SlotClear'
    BY <1>0, <1>5, <2>2 DEF SlotClear, Idle
  <2>6. \A j \in Keys : Waiting(j)' = Waiting(j)
    BY <1>1, <1>5 DEF Waiting, ElemOf
  <2> QED BY <2>1, <2>3, <2>4, <2>5, <2>6 DEF Inv
<1>6. CASE ElemOf(k) = None
  <2>1. \/ \E e \in Elems : /\ keyOf[e] = None
                            /\ keyOf' = [keyOf EXCEPT ![e] = k]
                            /\ val' = [val EXCEPT ![e] = [d \in Cpus |-> IF d = c THEN 1 ELSE 0]]
                            /\ UNCHANGED dropped
        \/ dropped' = [dropped EXCEPT ![k] = @ + 1] /\ UNCHANGED <<keyOf, val>>
    BY <1>6 DEF Insert
  <2> QED BY <1>2, <1>4, <1>5, <1>6, <2>1
<1> QED BY <1>3, <1>6

LEMMA TickStep ==
  ASSUME Inv, Tick
  PROVE  Inv' /\ \A j \in Keys : Waiting(j)' = Waiting(j) /\ Pending(j)' = Pending(j)
<1>1. /\ current = None /\ keys' \subseteq Keys
      /\ UNCHANGED <<keyOf, val, prog, current, got, exported, dropped, recorded, raced>>
  BY DEF Tick
<1>2. Inv'
  BY <1>1 DEF Inv, TypeOK, OneElement, SlotClear, ReadBelow
<1>3. \A j \in Keys : Waiting(j)' = Waiting(j)
  BY <1>1 DEF Waiting, ElemOf
<1>4. \A j \in Keys : Pending(j)' = Pending(j)
  BY <1>1 DEF Pending
<1> QED BY <1>2, <1>3, <1>4

(* The read exports what waits for the key, all of it. *)
LEMMA ReadStep ==
  ASSUME Inv, ReadKey
  PROVE  /\ Inv' /\ UNCHANGED <<prog, dropped, recorded, raced, keyOf>>
         /\ \A j \in Keys : Pending(j)' = Pending(j)
         /\ \E k \in Keys : /\ exported' = [exported EXCEPT ![k] = @ + Waiting(k)]
                            /\ Waiting(k)' = 0
                            /\ \A j \in Keys \ {k} : Waiting(j)' = Waiting(j)
<1>0. TypeOK /\ OneElement /\ SlotClear /\ ReadBelow
  BY DEF Inv
<1>1. PICK k \in keys :
        /\ current = None /\ ElemOf(k) # None
        /\ current' = ElemOf(k)
        /\ got' = Sum(val[ElemOf(k)])
        /\ exported' = [exported EXCEPT ![k] = @ + Sum(val[ElemOf(k)])]
        /\ UNCHANGED <<keyOf, val, prog, keys, dropped, recorded, raced>>
  BY DEF ReadKey
<1>2. k \in Keys
  BY <1>0 DEF TypeOK
<1>3. ElemOf(k) \in Elems /\ keyOf[ElemOf(k)] = k /\ Sum(val[ElemOf(k)]) \in Nat
  BY <1>0, <1>1, <1>2, ElemOfKey, SlotsType
<1>4. TypeOK'
  <2>1. exported' \in [Keys -> Nat]
    BY <1>0, <1>1, <1>2, <1>3 DEF TypeOK
  <2>2. keyOf'[current'] \in keys'
    BY <1>1, <1>3
  <2> QED BY <1>0, <1>1, <1>3, <2>1, <2>2 DEF TypeOK
<1>5. OneElement' /\ SlotClear'
  BY <1>0, <1>1 DEF OneElement, SlotClear
<1>6. ReadBelow'
  BY <1>1, <1>3 DEF ReadBelow
<1>7. \A j \in Keys : ElemOf(j)' = ElemOf(j)
  BY <1>1 DEF ElemOf
<1>8. Waiting(k) = Sum(val[ElemOf(k)])
  BY <1>1, <1>3 DEF Waiting
<1>9. Waiting(k)' = 0
  <2>1. ElemOf(k)' = current' /\ ElemOf(k)' # None /\ val'[ElemOf(k)'] = val[ElemOf(k)]
    BY <1>1, <1>2, <1>7
  <2>2. Waiting(k)' = Sum(val[ElemOf(k)]) - got'
    BY <2>1 DEF Waiting
  <2> QED BY <1>1, <1>3, <2>2
<1>10. ASSUME NEW j \in Keys \ {k} PROVE Waiting(j)' = Waiting(j)
  <2>1. CASE ElemOf(j) = None
    BY <1>7, <2>1 DEF Waiting
  <2>2. CASE ElemOf(j) # None
    <3>1. ElemOf(j) # ElemOf(k) /\ Sum(val[ElemOf(j)]) \in Nat
      BY <1>0, <1>3, <2>2, ElemOfKey, SlotsType
    <3>2. Waiting(j) = Sum(val[ElemOf(j)])
      BY <1>1, <2>2, <3>1 DEF Waiting
    <3>3. Waiting(j)' = Sum(val[ElemOf(j)])
      BY <1>1, <1>7, <2>2, <3>1 DEF Waiting
    <3> QED BY <3>2, <3>3
  <2> QED BY <2>1, <2>2
<1>11. \A j \in Keys : Pending(j)' = Pending(j)
  BY <1>1 DEF Pending
<1>12. exported' = [exported EXCEPT ![k] = @ + Waiting(k)]
  BY <1>1, <1>8
<1> QED BY <1>1, <1>2, <1>4, <1>5, <1>6, <1>9, <1>10, <1>11, <1>12 DEF Inv

(* The delete takes with the element what was added since the read. *)
LEMMA DeleteStep ==
  ASSUME Inv, DeleteKey
  PROVE  /\ Inv' /\ UNCHANGED <<val, prog, exported, dropped, recorded>>
         /\ \A j \in Keys : Pending(j)' = Pending(j)
         /\ keyOf[current] \in Keys
         /\ Waiting(keyOf[current]) = Sum(val[current]) - got
         /\ \A j \in Keys : Waiting(j)' = IF j = keyOf[current] THEN 0 ELSE Waiting(j)
<1>0. TypeOK /\ OneElement /\ SlotClear /\ ReadBelow
  BY DEF Inv
<1>1. /\ current # None /\ current' = None /\ got' = 0
      /\ keyOf' = [keyOf EXCEPT ![current] = None]
      /\ keys' = keys \ {keyOf[current]}
      /\ raced' \in BOOLEAN
      /\ UNCHANGED <<val, prog, exported, dropped, recorded>>
  BY <1>0 DEF DeleteKey, TypeOK
<1>2. current \in Elems /\ keyOf[current] \in Keys /\ keyOf[current] # None
  BY <1>0, <1>1, ConstantsAssumption DEF TypeOK
<1>3. /\ keyOf' \in [Elems -> Keys \cup {None}] /\ keyOf'[current] = None
      /\ \A f \in Elems \ {current} : keyOf'[f] = keyOf[f]
  BY <1>0, <1>1, <1>2 DEF TypeOK
<1>4. TypeOK'
  BY <1>0, <1>1, <1>3 DEF TypeOK
<1>5. OneElement'
  BY <1>0, <1>3 DEF OneElement
<1>6. SlotClear'
  <2> SUFFICES ASSUME NEW d \in Cpus, NEW f \in Elems, prog[d].pc = "insert", keyOf'[f] = prog[d].key
               PROVE  val[f][d] = 0
    BY <1>1 DEF SlotClear
  <2>1. prog[d].key # None
    BY <1>0, ProgType, ConstantsAssumption
  <2> QED BY <1>0, <1>3, <2>1 DEF SlotClear
<1>7. ReadBelow'
  BY <1>1 DEF ReadBelow
<1>8. Waiting(keyOf[current]) = Sum(val[current]) - got
  BY <1>2, WaitingFor
<1>9. PICK e \in Elems : e = current
  BY <1>2
<1>10. ASSUME NEW j \in Keys, j # keyOf[e] PROVE Waiting(j)' = Waiting(j)
  <2>1. j # None
    BY ConstantsAssumption
  <2>2. \A f \in Elems \ {e} : keyOf'[f] = keyOf[f] /\ val'[f] = val[f]
    BY <1>1, <1>3, <1>9
  <2>3. keyOf'[e] # j
    BY <1>3, <1>9, <2>1
  <2>4. \A f \in Elems \ {e} : f # current' /\ f # current
    BY <1>1, <1>9, ConstantsAssumption
  <2> QED BY <1>10, <2>2, <2>3, <2>4, WaitingKept
<1>11. ASSUME NEW j \in Keys, j = keyOf[e] PROVE Waiting(j)' = 0
  <2>1. \A f \in Elems : keyOf'[f] # j
    <3>1. j # None
      BY ConstantsAssumption
    <3> QED BY <1>0, <1>3, <1>9, <1>11, <3>1 DEF OneElement
  <2>2. ElemOf(j)' = None
    BY <2>1, ElemOfKeyNext
  <2> QED BY <2>2 DEF Waiting
<1>12. \A j \in Keys : Pending(j)' = Pending(j)
  BY <1>1 DEF Pending
<1>13. \A j \in Keys : Waiting(j)' = IF j = keyOf[current] THEN 0 ELSE Waiting(j)
  BY <1>9, <1>10, <1>11
<1> QED BY <1>1, <1>2, <1>4, <1>5, <1>6, <1>7, <1>8, <1>12, <1>13 DEF Inv

LEMMA NextInv ==
  ASSUME Inv, [Next]_vars
  PROVE  Inv'
<1>1. ASSUME NEW c \in Cpus, Program(c) PROVE Inv'
  <2>1. CASE \E k \in Keys : Lookup(c, k)
    BY <2>1, LookupStep
  <2>2. CASE Bump(c)
    <3>1. prog[c].key \in Keys /\ prog[c].elem \in Elems
      BY <2>2, ProgType DEF Inv, Bump
    <3> QED BY <2>2, <3>1, BumpStep
  <2>3. CASE Insert(c)
    <3>1. prog[c].key \in Keys
      BY <2>3, ProgType DEF Inv, Insert
    <3> QED BY <2>3, <3>1, InsertStep
  <2> QED BY <1>1, <2>1, <2>2, <2>3 DEF Program
<1>2. CASE Tick
  BY <1>2, TickStep
<1>3. CASE ReadKey
  BY <1>3, ReadStep
<1>4. CASE DeleteKey
  BY <1>4, DeleteStep
<1>5. CASE UNCHANGED vars
  BY <1>5 DEF vars, Inv, TypeOK, OneElement, SlotClear, ReadBelow
<1> QED BY <1>1, <1>2, <1>3, <1>4, <1>5 DEF Next

(* The invariant holds in every reachable state. *)
LEMMA Invariance == Spec => []Inv
<1> QED BY InitInv, NextInv, PTL DEF Spec

(* The map, the programs on the CPUs and drain_percpu_hash keep their      *)
(* types, and the element read and not yet deleted still holds a key of    *)
(* the batch.                                                              *)
THEOREM TypeCorrect == Spec => []TypeOK
<1>1. Inv => TypeOK
  BY DEF Inv
<1> QED BY <1>1, Invariance, PTL
-----------------------------------------------------------------------------
(* No loss without a race.                                                 *)

(* As long as no delete raced with a program, the element a program holds  *)
(* a pointer into still holds the program's key.                           *)
PointerCurrent ==
  ~raced => \A c \in Cpus : prog[c].pc = "bump" => keyOf[prog[c].elem] = prog[c].key

ExactInv == Inv /\ PointerCurrent /\ ExactUnlessRaced

LEMMA CountsType ==
  ASSUME Inv, NEW k \in Keys
  PROVE  {recorded[k], exported[k], dropped[k], Waiting(k), Pending(k)} \subseteq Nat
<1>1. {recorded[k], exported[k], dropped[k]} \subseteq Nat
  BY DEF Inv, TypeOK
<1> QED BY <1>1, WaitingType, PendingType

LEMMA InitExact == Init => ExactInv
<1> SUFFICES ASSUME Init PROVE ExactInv
  OBVIOUS
<1>1. Inv
  BY InitInv
<1>2. PointerCurrent
  BY DEF Init, PointerCurrent, Idle
<1>3. ASSUME NEW k \in Keys
      PROVE  recorded[k] = exported[k] + Waiting(k) + Pending(k) + dropped[k]
  <2>1. ElemOf(k) = None
    <3>1. \A e \in Elems : keyOf[e] # k
      BY ConstantsAssumption DEF Init
    <3> QED BY <3>1 DEF ElemOf
  <2>2. {c \in Cpus : prog[c].pc # "idle" /\ prog[c].key = k} = {}
    BY DEF Init, Idle
  <2>3. Pending(k) = 0
    BY <2>2, FS_EmptySet DEF Pending
  <2>4. Waiting(k) = 0
    BY <2>1 DEF Waiting
  <2> QED BY <2>3, <2>4 DEF Init
<1> QED BY <1>1, <1>2, <1>3 DEF ExactInv, ExactUnlessRaced

LEMMA NextExact ==
  ASSUME ExactInv, [Next]_vars
  PROVE  ExactInv'
<1>0. Inv /\ PointerCurrent /\ ExactUnlessRaced /\ Inv'
  BY NextInv DEF ExactInv
<1> SUFFICES ASSUME ~raced' PROVE PointerCurrent' /\ ExactUnlessRaced'
  BY <1>0 DEF ExactInv, PointerCurrent, ExactUnlessRaced
<1>1. ASSUME NEW k \in Keys
      PROVE  {recorded[k], exported[k], dropped[k], Waiting(k), Pending(k)} \subseteq Nat
  BY <1>0, CountsType
<1>2. ASSUME NEW c \in Cpus, NEW k \in Keys, Lookup(c, k)
      PROVE  PointerCurrent' /\ ExactUnlessRaced'
  <2>1. /\ \A j \in Keys : Waiting(j)' = Waiting(j)
        /\ Pending(k)' = Pending(k) + 1
        /\ \A j \in Keys \ {k} : Pending(j)' = Pending(j)
    BY <1>0, <1>2, LookupStep
  <2>2. /\ ~raced /\ UNCHANGED <<keyOf, exported, dropped>>
        /\ recorded' = [recorded EXCEPT ![k] = @ + 1]
        /\ prog' = [prog EXCEPT ![c] =
                      [pc |-> IF ElemOf(k) = None THEN "insert" ELSE "bump", key |-> k, elem |-> ElemOf(k)]]
    BY <1>2 DEF Lookup
  <2>3. recorded'[k] = recorded[k] + 1 /\ \A j \in Keys \ {k} : recorded'[j] = recorded[j]
    BY <1>0, <2>2 DEF Inv, TypeOK
  <2>4. ASSUME NEW j \in Keys
        PROVE  recorded'[j] = exported'[j] + Waiting(j)' + Pending(j)' + dropped'[j]
    <3>1. recorded[j] = exported[j] + Waiting(j) + Pending(j) + dropped[j]
      BY <1>0, <2>2 DEF ExactUnlessRaced
    <3> QED BY <1>1, <2>1, <2>2, <2>3, <3>1
  <2>5. ASSUME NEW d \in Cpus, prog'[d].pc = "bump" PROVE keyOf[prog'[d].elem] = prog'[d].key
    <3>1. CASE d = c
      <4>1. prog'[c] = [pc |-> IF ElemOf(k) = None THEN "insert" ELSE "bump", key |-> k, elem |-> ElemOf(k)]
        BY <1>0, <2>2 DEF Inv, TypeOK
      <4>2. ElemOf(k) # None /\ prog'[c].elem = ElemOf(k) /\ prog'[c].key = k
        BY <2>5, <3>1, <4>1
      <4> QED BY <3>1, <4>2, ElemOfKey
    <3>2. CASE d # c
      BY <1>0, <2>2, <2>5, <3>2 DEF Inv, TypeOK, PointerCurrent
    <3> QED BY <3>1, <3>2
  <2> QED BY <2>2, <2>4, <2>5 DEF PointerCurrent, ExactUnlessRaced
<1>3. ASSUME NEW c \in Cpus, Bump(c)
      PROVE  PointerCurrent' /\ ExactUnlessRaced'
  <2>1. PICK k \in Keys, e \in Elems : prog[c].key = k /\ prog[c].elem = e
    BY <1>0, <1>3, ProgType DEF Inv, Bump
  <2>2. /\ ~raced /\ UNCHANGED <<keyOf, exported, dropped, recorded>>
        /\ prog[c].pc = "bump" /\ prog' = [prog EXCEPT ![c] = Idle]
    BY <1>3 DEF Bump
  <2>3. /\ \A j \in Keys : Waiting(j)' = IF j = keyOf[e] THEN Waiting(j) + 1 ELSE Waiting(j)
        /\ Pending(k)' = Pending(k) - 1
        /\ \A j \in Keys \ {k} : Pending(j)' = Pending(j)
    BY <1>0, <1>3, <2>1, BumpStep
  <2>4. keyOf[e] = k
    BY <1>0, <2>1, <2>2 DEF PointerCurrent
  <2>5. ASSUME NEW j \in Keys
        PROVE  recorded'[j] = exported'[j] + Waiting(j)' + Pending(j)' + dropped'[j]
    <3>1. recorded[j] = exported[j] + Waiting(j) + Pending(j) + dropped[j]
      BY <1>0, <2>2 DEF ExactUnlessRaced
    <3> QED BY <1>1, <2>2, <2>3, <2>4, <3>1
  <2>6. \A d \in Cpus : prog'[d] = IF d = c THEN Idle ELSE prog[d]
    BY <1>0, <2>2 DEF Inv, TypeOK
  <2>7. PointerCurrent'
    BY <1>0, <2>2, <2>6 DEF PointerCurrent, Idle
  <2> QED BY <2>5, <2>7 DEF ExactUnlessRaced
<1>4. ASSUME NEW c \in Cpus, Insert(c)
      PROVE  PointerCurrent' /\ ExactUnlessRaced'
  <2>1. PICK k \in Keys : prog[c].key = k
    BY <1>0, <1>4, ProgType DEF Inv, Insert
  <2>2. /\ ~raced /\ UNCHANGED <<exported, recorded>>
        /\ prog' = [prog EXCEPT ![c] = Idle]
        /\ \/ UNCHANGED keyOf
           \/ \E e \in Elems : keyOf[e] = None /\ keyOf' = [keyOf EXCEPT ![e] = prog[c].key]
    BY <1>4 DEF Insert
  <2>3. /\ \A j \in Keys \ {k} : Waiting(j)' = Waiting(j) /\ dropped'[j] = dropped[j]
        /\ \/ Waiting(k)' = Waiting(k) + 1 /\ dropped'[k] = dropped[k]
           \/ Waiting(k)' = Waiting(k) /\ dropped'[k] = dropped[k] + 1
        /\ Pending(k)' = Pending(k) - 1
        /\ \A j \in Keys \ {k} : Pending(j)' = Pending(j)
    BY <1>0, <1>4, <2>1, InsertStep
  <2>4. ASSUME NEW j \in Keys
        PROVE  recorded'[j] = exported'[j] + Waiting(j)' + Pending(j)' + dropped'[j]
    <3>1. recorded[j] = exported[j] + Waiting(j) + Pending(j) + dropped[j]
      BY <1>0, <2>2 DEF ExactUnlessRaced
    <3> QED BY <1>1, <2>2, <2>3, <3>1
  <2>5. \A d \in Cpus : prog'[d] = IF d = c THEN Idle ELSE prog[d]
    BY <1>0, <2>2 DEF Inv, TypeOK
  <2>6. ASSUME NEW d \in Cpus, prog'[d].pc = "bump" PROVE keyOf'[prog'[d].elem] = prog'[d].key
    <3>1. prog'[d] = prog[d] /\ prog[d].pc = "bump"
      BY <2>5, <2>6 DEF Idle
    <3>2. keyOf[prog[d].elem] = prog[d].key /\ prog[d].key # None /\ prog[d].elem \in Elems
      BY <1>0, <2>2, <3>1, ProgType, ConstantsAssumption DEF PointerCurrent, Inv
    <3>3. keyOf'[prog[d].elem] = keyOf[prog[d].elem]
      BY <1>0, <2>2, <3>2 DEF Inv, TypeOK
    <3> QED BY <3>1, <3>2, <3>3
  <2> QED BY <2>4, <2>6 DEF PointerCurrent, ExactUnlessRaced
<1>5. CASE Tick
  <2>1. UNCHANGED <<keyOf, prog, exported, dropped, recorded, raced>>
    BY <1>5 DEF Tick
  <2>2. \A j \in Keys : Waiting(j)' = Waiting(j) /\ Pending(j)' = Pending(j)
    BY <1>0, <1>5, TickStep
  <2> QED BY <1>0, <2>1, <2>2 DEF PointerCurrent, ExactUnlessRaced
<1>6. CASE ReadKey
  <2>1. /\ UNCHANGED <<prog, dropped, recorded, raced, keyOf>>
        /\ \A j \in Keys : Pending(j)' = Pending(j)
    BY <1>0, <1>6, ReadStep
  <2>2. PICK k \in Keys : /\ exported' = [exported EXCEPT ![k] = @ + Waiting(k)]
                          /\ Waiting(k)' = 0
                          /\ \A j \in Keys \ {k} : Waiting(j)' = Waiting(j)
    BY <1>0, <1>6, ReadStep
  <2>3. exported'[k] = exported[k] + Waiting(k) /\ \A j \in Keys \ {k} : exported'[j] = exported[j]
    BY <1>0, <2>2 DEF Inv, TypeOK
  <2>4. ASSUME NEW j \in Keys
        PROVE  recorded'[j] = exported'[j] + Waiting(j)' + Pending(j)' + dropped'[j]
    <3>1. recorded[j] = exported[j] + Waiting(j) + Pending(j) + dropped[j]
      BY <1>0, <2>1 DEF ExactUnlessRaced
    <3> QED BY <1>1, <2>1, <2>2, <2>3, <3>1
  <2> QED BY <1>0, <2>1, <2>4 DEF PointerCurrent, ExactUnlessRaced
<1>7. CASE DeleteKey
  <2>1. /\ UNCHANGED <<val, prog, exported, dropped, recorded>>
        /\ \A j \in Keys : Pending(j)' = Pending(j)
        /\ keyOf[current] \in Keys
        /\ Waiting(keyOf[current]) = Sum(val[current]) - got
        /\ \A j \in Keys : Waiting(j)' = IF j = keyOf[current] THEN 0 ELSE Waiting(j)
    BY <1>0, <1>7, DeleteStep
  <2>2. /\ ~raced /\ Sum(val[current]) = got /\ keyOf' = [keyOf EXCEPT ![current] = None]
        /\ \A c \in Cpus : prog[c].pc = "bump" => prog[c].elem # current
    BY <1>7 DEF DeleteKey
  <2>3. Waiting(keyOf[current]) = 0
    BY <1>0, <2>1, <2>2 DEF Inv, TypeOK
  <2>4. ASSUME NEW j \in Keys
        PROVE  recorded'[j] = exported'[j] + Waiting(j)' + Pending(j)' + dropped'[j]
    <3>1. recorded[j] = exported[j] + Waiting(j) + Pending(j) + dropped[j]
      BY <1>0, <2>2 DEF ExactUnlessRaced
    <3> QED BY <2>1, <2>3, <3>1
  <2>5. PointerCurrent'
    BY <1>0, <2>1, <2>2, ProgType DEF PointerCurrent, Inv, TypeOK
  <2> QED BY <2>4, <2>5 DEF ExactUnlessRaced
<1>8. CASE UNCHANGED vars
  <2>1. \A j \in Keys : Waiting(j)' = Waiting(j) /\ Pending(j)' = Pending(j)
    BY <1>8 DEF vars, Waiting, ElemOf, Pending
  <2> QED BY <1>0, <1>8, <2>1 DEF vars, PointerCurrent, ExactUnlessRaced
<1> QED BY <1>2, <1>3, <1>4, <1>5, <1>6, <1>7, <1>8 DEF Next, Program

(* However the programs interleave with the drain, and whichever elements  *)
(* are freed and taken again, the events of each key are all accounted for *)
(* under that key, unless a program was between its lookup and its update  *)
(* of an element, or updated it after the read, when drain_percpu_hash     *)
(* deleted it.                                                             *)
THEOREM Exact == Spec => []ExactUnlessRaced
<1>1. ExactInv => ExactUnlessRaced
  BY DEF ExactInv
<1> QED BY InitExact, NextExact, <1>1, PTL DEF Spec
-----------------------------------------------------------------------------
(* The drain implements the steps of Ledger.                               *)

LEMMA KeysFinite == IsFiniteSet(Keys)
BY ConstantsAssumption

(* The events of one key on their way. *)
Way(k) == Waiting(k) + Pending(k)

LEMMA HeldWay ==
  ASSUME Inv
  PROVE  /\ [k \in Keys |-> Way(k)] \in [Keys -> Nat]
         /\ Held = Sum([k \in Keys |-> Way(k)])
         /\ Held \in Nat
         /\ \A k \in Keys : Way(k) \in Nat
<1>1. ASSUME NEW k \in Keys PROVE Way(k) \in Nat
  <2>1. Waiting(k) \in Nat /\ Pending(k) \in Nat
    BY WaitingType, PendingType
  <2> QED BY <2>1 DEF Way
<1>2. [k \in Keys |-> Way(k)] \in [Keys -> Nat]
  BY <1>1
<1>3. [k \in Keys |-> Way(k)] = [k \in Keys |-> Waiting(k) + Pending(k)]
  BY DEF Way
<1>4. Held = Sum([k \in Keys |-> Way(k)])
  BY <1>3 DEF Held
<1>5. Sum([k \in Keys |-> Way(k)]) \in Nat
  BY <1>2, SumType, KeysFinite
<1> QED BY <1>1, <1>2, <1>4, <1>5

(* A step touches the events of one key. *)
LEMMA HeldOne ==
  ASSUME Inv, NEW k \in Keys, NEW n \in Nat, Way(k)' = n,
         \A j \in Keys \ {k} : Way(j)' = Way(j)
  PROVE  Held' = Held - Way(k) + n
<1> DEFINE f == [j \in Keys |-> Way(j)]
           g == [j \in Keys |-> Way(j)']
<1>1. f \in [Keys -> Nat] /\ Held = Sum(f) /\ \A j \in Keys : Way(j) \in Nat
  BY HeldWay
<1>2. g \in [Keys -> Nat]
  <2>1. \A j \in Keys : Way(j)' \in Nat
    BY <1>1
  <2> QED BY <2>1
<1>3. f[k] = Way(k) /\ g[k] = n /\ \A j \in Keys \ {k} : g[j] = f[j]
  OBVIOUS
<1>4. Held' = Sum(g)
  <2>1. g = [j \in Keys |-> Waiting(j)' + Pending(j)']
    BY DEF Way
  <2> QED BY <2>1 DEF Held
<1> HIDE DEF f, g
<1>5. Sum(g) = Sum(f) - f[k] + g[k]
  BY <1>1, <1>2, <1>3, SumUpdate, KeysFinite
<1> QED BY <1>1, <1>3, <1>4, <1>5

(* An event moves from its own key to the key its element holds by now. *)
LEMMA HeldMoves ==
  ASSUME Inv, NEW k \in Keys, NEW i \in Keys, i # k,
         Way(k)' = Way(k) - 1, Way(k) # 0, Way(i)' = Way(i) + 1,
         \A j \in Keys \ {k, i} : Way(j)' = Way(j)
  PROVE  Held' = Held
<1> DEFINE f == [j \in Keys |-> Way(j)]
           h == [j \in Keys |-> IF j = k THEN Way(k) - 1 ELSE Way(j)]
           g == [j \in Keys |-> Way(j)']
<1>1. f \in [Keys -> Nat] /\ Held = Sum(f) /\ \A j \in Keys : Way(j) \in Nat
  BY HeldWay
<1>2. h \in [Keys -> Nat]
  BY <1>1
<1>3. g \in [Keys -> Nat]
  <2>1. \A j \in Keys : Way(j)' \in Nat
    BY <1>1
  <2> QED BY <2>1
<1>4. /\ f[k] = Way(k) /\ h[k] = Way(k) - 1 /\ \A j \in Keys \ {k} : h[j] = f[j]
      /\ h[i] = Way(i) /\ g[i] = Way(i) + 1
  OBVIOUS
<1>5. \A j \in Keys \ {i} : g[j] = h[j]
  OBVIOUS
<1>6. Held' = Sum(g)
  <2>1. g = [j \in Keys |-> Waiting(j)' + Pending(j)']
    BY DEF Way
  <2> QED BY <2>1 DEF Held
<1> HIDE DEF f, g, h
<1>7. Sum(h) = Sum(f) - f[k] + h[k]
  BY <1>1, <1>2, <1>4, SumUpdate, KeysFinite
<1>8. Sum(g) = Sum(h) - h[i] + g[i]
  BY <1>2, <1>3, <1>5, SumUpdate, KeysFinite
<1>9. Sum(f) \in Nat /\ Sum(h) \in Nat
  BY <1>1, <1>2, SumType, KeysFinite
<1> QED BY <1>1, <1>4, <1>6, <1>7, <1>8, <1>9

LEMMA TotalsType ==
  ASSUME TypeOK
  PROVE  Sum(recorded) \in Nat /\ Sum(exported) \in Nat
<1>1. recorded \in [Keys -> Nat] /\ exported \in [Keys -> Nat]
  BY DEF TypeOK
<1> QED BY <1>1, SumType, KeysFinite

LEMMA LedgerInit == Init => L!Init
<1> SUFFICES ASSUME Init PROVE L!Init
  OBVIOUS
<1>1. Sum(recorded) = 0 /\ Sum(exported) = 0
  <2>1. /\ DOMAIN recorded = Keys /\ \A k \in Keys : recorded[k] = 0
        /\ DOMAIN exported = Keys /\ \A k \in Keys : exported[k] = 0
    BY DEF Init
  <2> QED BY <2>1, SumZero
<1>2. Held = 0
  <2> DEFINE f == [k \in Keys |-> Waiting(k) + Pending(k)]
  <2>1. ASSUME NEW k \in Keys PROVE Waiting(k) + Pending(k) = 0
    <3>1. recorded[k] = 0 /\ exported[k] = 0 /\ dropped[k] = 0 /\ ~raced
      BY DEF Init
    <3>2. Inv /\ ExactUnlessRaced
      BY InitExact DEF ExactInv
    <3>3. recorded[k] = exported[k] + Waiting(k) + Pending(k) + dropped[k]
      BY <3>1, <3>2 DEF ExactUnlessRaced
    <3>4. Waiting(k) \in Nat /\ Pending(k) \in Nat
      BY <3>2, CountsType
    <3> QED BY <3>1, <3>3, <3>4
  <2>2. DOMAIN f = Keys /\ \A k \in Keys : f[k] = 0
    BY <2>1
  <2>3. Held = Sum(f)
    BY DEF Held
  <2> HIDE DEF f
  <2> QED BY <2>2, <2>3, SumZero
<1> QED BY <1>1, <1>2 DEF L!Init

LEMMA LedgerNext ==
  ASSUME Inv, [Next]_vars
  PROVE  [L!Next]_(L!vars)
<1>1. TypeOK /\ Sum(recorded) \in Nat /\ Sum(exported) \in Nat /\ Held \in Nat
  BY TotalsType, HeldWay DEF Inv
<1>2. ASSUME NEW k \in Keys
      PROVE  {Waiting(k), Pending(k), Way(k)} \subseteq Nat /\ Way(k) = Waiting(k) + Pending(k)
             /\ Way(k)' = Waiting(k)' + Pending(k)'
  <2>1. Waiting(k) \in Nat /\ Pending(k) \in Nat
    BY WaitingType, PendingType
  <2> QED BY <2>1 DEF Way
<1>3. ASSUME NEW c \in Cpus, NEW k \in Keys, Lookup(c, k)
      PROVE  L!Make
  <2>1. /\ \A j \in Keys : Waiting(j)' = Waiting(j)
        /\ Pending(k)' = Pending(k) + 1
        /\ \A j \in Keys \ {k} : Pending(j)' = Pending(j)
    BY <1>3, LookupStep
  <2>2. recorded' = [recorded EXCEPT ![k] = @ + 1] /\ UNCHANGED exported
    BY <1>3 DEF Lookup
  <2>3. Sum(recorded)' = Sum(recorded) + 1
    <3>1. recorded \in [Keys -> Nat]
      BY <1>1 DEF TypeOK
    <3>2. recorded' \in [Keys -> Nat] /\ recorded'[k] = recorded[k] + 1 /\ recorded[k] \in Nat
          /\ \A j \in Keys \ {k} : recorded'[j] = recorded[j]
      BY <2>2, <3>1
    <3>3. Sum(recorded') = Sum(recorded) - recorded[k] + recorded'[k]
      BY <3>1, <3>2, SumUpdate, KeysFinite
    <3> QED BY <1>1, <3>2, <3>3
  <2>4. PICK n \in Nat : n = Way(k) + 1
    BY <1>2
  <2>5. Way(k)' = n /\ \A j \in Keys \ {k} : Way(j)' = Way(j)
    BY <1>2, <2>1, <2>4
  <2>6. Held' = Held - Way(k) + n
    BY <2>5, HeldOne
  <2>7. Held' = Held + 1
    BY <1>1, <1>2, <2>4, <2>6
  <2> QED BY <1>1, <2>2, <2>3, <2>7 DEF L!Make
<1>4. ASSUME NEW k \in Keys, UNCHANGED <<recorded, exported>>,
             Way(k)' = Way(k) \/ (Way(k) # 0 /\ Way(k)' = Way(k) - 1),
             \A j \in Keys \ {k} : Way(j)' = Way(j)
      PROVE  L!Lose \/ UNCHANGED L!vars
  <2>1. PICK n \in Nat : n = Way(k)' /\ (n = Way(k) \/ n = Way(k) - 1)
    BY <1>2, <1>4
  <2>2. Held' = Held - Way(k) + n
    BY <1>4, <2>1, HeldOne
  <2>3. Held' = Held \/ Held' < Held
    BY <1>1, <1>2, <2>1, <2>2
  <2> QED BY <1>4, <2>3 DEF L!Lose, L!vars
<1>5. ASSUME NEW c \in Cpus, Bump(c)
      PROVE  L!Lose \/ UNCHANGED L!vars
  <2>1. PICK k \in Keys, e \in Elems : prog[c].key = k /\ prog[c].elem = e
    BY <1>1, <1>5, ProgType DEF Bump
  <2>2. UNCHANGED <<exported, recorded>>
    BY <1>5 DEF Bump
  <2>3. /\ \A j \in Keys : Waiting(j)' = IF j = keyOf[e] THEN Waiting(j) + 1 ELSE Waiting(j)
        /\ Pending(k)' = Pending(k) - 1 /\ Pending(k) # 0
        /\ \A j \in Keys \ {k} : Pending(j)' = Pending(j)
    BY <1>5, <2>1, BumpStep
  <2>4. CASE keyOf[e] \in Keys \ {k}
    <3>1. PICK i \in Keys : i = keyOf[e] /\ i # k
      BY <2>4
    <3>2. /\ Way(k)' = Way(k) - 1 /\ Way(k) # 0 /\ Way(i)' = Way(i) + 1
          /\ \A j \in Keys \ {k, i} : Way(j)' = Way(j)
      BY <1>2, <2>3, <3>1
    <3>3. Held' = Held
      BY <3>1, <3>2, HeldMoves
    <3> QED BY <2>2, <3>3 DEF L!vars
  <2>5. CASE keyOf[e] \notin Keys \ {k}
    <3>1. /\ \A j \in Keys \ {k} : Way(j)' = Way(j)
          /\ Way(k)' = Way(k) \/ (Way(k) # 0 /\ Way(k)' = Way(k) - 1)
      BY <1>2, <2>3, <2>5
    <3> QED BY <1>4, <2>2, <3>1
  <2> QED BY <2>4, <2>5
<1>6. ASSUME NEW c \in Cpus, Insert(c)
      PROVE  L!Lose \/ UNCHANGED L!vars
  <2>1. PICK k \in Keys : prog[c].key = k
    BY <1>1, <1>6, ProgType DEF Insert
  <2>2. UNCHANGED <<exported, recorded>>
    BY <1>6 DEF Insert
  <2>3. /\ \A j \in Keys \ {k} : Waiting(j)' = Waiting(j)
        /\ Waiting(k)' = Waiting(k) + 1 \/ Waiting(k)' = Waiting(k)
        /\ Pending(k)' = Pending(k) - 1 /\ Pending(k) # 0
        /\ \A j \in Keys \ {k} : Pending(j)' = Pending(j)
    BY <1>6, <2>1, InsertStep
  <2>4. /\ \A j \in Keys \ {k} : Way(j)' = Way(j)
        /\ Way(k)' = Way(k) \/ (Way(k) # 0 /\ Way(k)' = Way(k) - 1)
    BY <1>2, <2>3
  <2> QED BY <1>4, <2>2, <2>4
<1>7. ASSUME \A j \in Keys : Waiting(j)' = Waiting(j) /\ Pending(j)' = Pending(j),
             UNCHANGED <<recorded, exported>>
      PROVE  UNCHANGED L!vars
  <2>1. [j \in Keys |-> Waiting(j) + Pending(j)]' = [j \in Keys |-> Waiting(j) + Pending(j)]
    BY <1>7
  <2>2. Held' = Held
    BY <2>1 DEF Held
  <2> QED BY <1>7, <2>2 DEF L!vars
<1>8. CASE Tick
  BY <1>7, <1>8, TickStep DEF Tick
<1>9. CASE ReadKey
  <2>1. UNCHANGED recorded /\ \A j \in Keys : Pending(j)' = Pending(j)
    BY <1>9, ReadStep
  <2>2. PICK k \in Keys : /\ exported' = [exported EXCEPT ![k] = @ + Waiting(k)]
                          /\ Waiting(k)' = 0
                          /\ \A j \in Keys \ {k} : Waiting(j)' = Waiting(j)
    BY <1>9, ReadStep
  <2>3. Sum(exported)' = Sum(exported) + Waiting(k)
    <3>1. exported \in [Keys -> Nat] /\ Waiting(k) \in Nat
      BY <1>1, <1>2 DEF TypeOK
    <3>2. exported' \in [Keys -> Nat] /\ exported'[k] = exported[k] + Waiting(k) /\ exported[k] \in Nat
          /\ \A j \in Keys \ {k} : exported'[j] = exported[j]
      BY <2>2, <3>1
    <3>3. Sum(exported') = Sum(exported) - exported[k] + exported'[k]
      BY <3>1, <3>2, SumUpdate, KeysFinite
    <3> QED BY <1>1, <3>1, <3>2, <3>3
  <2>4. PICK n \in Nat : n = Pending(k)
    BY <1>2
  <2>5. Way(k)' = n /\ \A j \in Keys \ {k} : Way(j)' = Way(j)
    BY <1>2, <2>1, <2>2, <2>4
  <2>6. Held' = Held - Way(k) + n
    BY <2>5, HeldOne
  <2>7. Held' = Held - Waiting(k)
    BY <1>1, <1>2, <2>4, <2>6
  <2>8. CASE Waiting(k) = 0
    BY <1>1, <2>1, <2>3, <2>7, <2>8 DEF L!vars
  <2>9. CASE Waiting(k) # 0
    <3>1. Sum(exported)' > Sum(exported) /\ Sum(exported)' + Held' = Sum(exported) + Held
      BY <1>1, <1>2, <2>3, <2>7, <2>9
    <3>2. L!Count
      BY <2>1, <3>1 DEF L!Count
    <3> QED BY <3>2 DEF L!Next
  <2> QED BY <2>8, <2>9
<1>10. CASE DeleteKey
  <2>1. /\ UNCHANGED <<recorded, exported>>
        /\ \A j \in Keys : Pending(j)' = Pending(j)
    BY <1>10, DeleteStep
  <2>2. PICK k \in Keys : Waiting(k)' = 0 /\ \A j \in Keys \ {k} : Waiting(j)' = Waiting(j)
    BY <1>10, DeleteStep
  <2>3. PICK n \in Nat : n = Pending(k)
    BY <1>2
  <2>4. Way(k)' = n /\ \A j \in Keys \ {k} : Way(j)' = Way(j)
    BY <1>2, <2>1, <2>2, <2>3
  <2>5. Held' = Held - Way(k) + n
    BY <2>4, HeldOne
  <2>6. Held' = Held \/ Held' < Held
    BY <1>1, <1>2, <2>3, <2>5
  <2> QED BY <2>1, <2>6 DEF L!Next, L!Lose, L!vars
<1>11. CASE UNCHANGED vars
  <2>1. \A j \in Keys : Waiting(j)' = Waiting(j) /\ Pending(j)' = Pending(j)
    BY <1>11 DEF vars, Waiting, ElemOf, Pending
  <2> QED BY <1>7, <1>11, <2>1 DEF vars
<1> QED BY <1>3, <1>5, <1>6, <1>8, <1>9, <1>10, <1>11 DEF Next, Program, L!Next

(* The programs and drain_percpu_hash implement the steps of Ledger, for   *)
(* any number of keys, CPUs and elements: however reads, deletes and       *)
(* updates through stale pointers interleave, an event is exported at most *)
(* once and never before it was recorded, and what a delete took is not    *)
(* exported later.                                                         *)
THEOREM ImplementsLedger == Spec => L!Steps
<1> QED BY LedgerInit, LedgerNext, Invariance, PTL DEF Spec, L!Steps
=============================================================================
