------------------------------- MODULE Drain -------------------------------
(***************************************************************************)
(* One per-CPU hash map between the BPF programs that count into it        *)
(* (AGGREGATED, NCCL_AGG, LAUNCH_AGG in emit_exit of profi.bpf.c) and the  *)
(* event loop of main.rs that drains it with drain_percpu_hash.            *)
(*                                                                         *)
(* The map is preallocated: a deleted element goes back to the free list   *)
(* at once, while a program may still hold a pointer into it.  A program   *)
(* is two steps, the lookup and the use of what it returned; the drain of  *)
(* a key is two steps, the lookup (with the export of what it read) and    *)
(* the delete.  The map and its elements are the kernel's.                 *)
(***************************************************************************)
EXTENDS Integers, FiniteSets, Sums

CONSTANTS
  Keys,           \* keys, numbers in the order in which the hash table lists them
  Cpus,           \* CPUs; one program runs at a time on each
  Elems,          \* the preallocated elements, max_entries of them
  Budget,         \* PERCPU_HASH_DRAIN_KEY_BUDGET
  MaxRecords,     \* bound: events recorded in a behaviour
  None            \* no key, no element

ASSUME ConstantsAssumption ==
  /\ Keys \subseteq Nat
  /\ IsFiniteSet(Keys) /\ IsFiniteSet(Cpus) /\ IsFiniteSet(Elems)
  /\ Budget \in Nat \ {0} /\ MaxRecords \in Nat
  /\ None \notin Keys \cup Elems

VARIABLES
  keyOf,          \* the key an element holds, or None when it is free
  val,            \* the count in each CPU's slot of an element
  prog,           \* what the program on each CPU is about to do
  keys,           \* the keys drain_percpu_hash has still to visit
  current,        \* the element read but not yet deleted, or None
  got,            \* what was read from it
  exported,       \* per key, the total added to the metrics
  dropped,        \* per key, the events that found the map full
  recorded,       \* history: per key, the events handed to the map
  raced           \* history: an event fell between a read and its delete

vars == <<keyOf, val, prog, keys, current, got, exported, dropped, recorded, raced>>

Idle == [pc |-> "idle", key |-> None, elem |-> None]

(* What a program is about to do to which key, through which pointer. *)
Prog ==
  {Idle} \cup [pc : {"insert"}, key : Keys, elem : {None}]
         \cup [pc : {"bump"}, key : Keys, elem : Elems]

ElemOf(k) == IF \E e \in Elems : keyOf[e] = k THEN CHOOSE e \in Elems : keyOf[e] = k ELSE None

Init ==
  /\ keyOf = [e \in Elems |-> None]
  /\ val = [e \in Elems |-> [c \in Cpus |-> 0]]
  /\ prog = [c \in Cpus |-> Idle]
  /\ keys = {}
  /\ current = None
  /\ got = 0
  /\ exported = [k \in Keys |-> 0]
  /\ dropped = [k \in Keys |-> 0]
  /\ recorded = [k \in Keys |-> 0]
  /\ raced = FALSE
-----------------------------------------------------------------------------
(* The programs.                                                           *)

(* bpf_map_lookup_elem for the key of the event at hand. *)
Lookup(c, k) ==
  /\ Sum(recorded) < MaxRecords
  /\ prog[c].pc = "idle"
  /\ prog' = [prog EXCEPT ![c] =
                [pc |-> IF ElemOf(k) = None THEN "insert" ELSE "bump", key |-> k, elem |-> ElemOf(k)]]
  /\ recorded' = [recorded EXCEPT ![k] = @ + 1]
  /\ UNCHANGED <<keyOf, val, keys, current, got, exported, dropped, raced>>

(* Mutant: val->count is set, not added to. *)
Bump_Set(c) ==
  /\ prog[c].pc = "bump"
  /\ val' = [val EXCEPT ![prog[c].elem][c] = 1]
  /\ prog' = [prog EXCEPT ![c] = Idle]
  /\ UNCHANGED <<keyOf, keys, current, got, exported, dropped, recorded, raced>>

(* val->count += ... through the pointer, whatever the element is by now. *)
Bump(c) ==
  /\ prog[c].pc = "bump"
  /\ val' = [val EXCEPT ![prog[c].elem][c] = @ + 1]
  /\ prog' = [prog EXCEPT ![c] = Idle]
  /\ UNCHANGED <<keyOf, keys, current, got, exported, dropped, recorded, raced>>

(* bpf_map_update_elem: sets this CPU's slot of the key's element, or      *)
(* takes a free element and clears the other slots, or fails.              *)
Insert(c) ==
  LET k == prog[c].key
  IN  /\ prog[c].pc = "insert"
      /\ prog' = [prog EXCEPT ![c] = Idle]
      /\ \/ /\ ElemOf(k) # None
            /\ val' = [val EXCEPT ![ElemOf(k)][c] = 1]
            /\ UNCHANGED <<keyOf, dropped>>
         \/ \E e \in Elems :
              /\ ElemOf(k) = None /\ keyOf[e] = None
              /\ keyOf' = [keyOf EXCEPT ![e] = k]
              /\ val' = [val EXCEPT ![e] = [d \in Cpus |-> IF d = c THEN 1 ELSE 0]]
              /\ UNCHANGED dropped
         \/ /\ ElemOf(k) = None /\ \A e \in Elems : keyOf[e] # None
            /\ dropped' = [dropped EXCEPT ![k] = @ + 1]
            /\ UNCHANGED <<keyOf, val>>
      /\ UNCHANGED <<keys, current, got, exported, recorded, raced>>
-----------------------------------------------------------------------------
(* drain_percpu_hash, called from the aggregation tick.                    *)

(* Mutant: a tick starts over while a key is being drained, behind it. *)
Tick_Overlapping ==
  LET present == {k \in Keys : ElemOf(k) # None /\ (current # None => k > keyOf[current])}
  IN  /\ keys' = {k \in present : Cardinality({j \in present : j < k}) < Budget}
      /\ UNCHANGED <<keyOf, val, prog, current, got, exported, dropped, recorded, raced>>

(* Mutant: the drain waits for a full batch. *)
Tick_FullBatch ==
  LET present == {k \in Keys : ElemOf(k) # None}
  IN  /\ keys = {} /\ current = None
      /\ keys' = IF Cardinality(present) < Budget THEN {}
                 ELSE {k \in present : Cardinality({j \in present : j < k}) < Budget}
      /\ UNCHANGED <<keyOf, val, prog, current, got, exported, dropped, recorded, raced>>

(* map.keys().take(BUDGET): the first keys in table order. *)
Tick ==
  LET present == {k \in Keys : ElemOf(k) # None}
  IN  /\ keys = {} /\ current = None
      /\ keys' = {k \in present : Cardinality({j \in present : j < k}) < Budget}
      /\ UNCHANGED <<keyOf, val, prog, current, got, exported, dropped, recorded, raced>>

(* lookup_percpu and process: the slots are summed and exported. *)
ReadKey ==
  \E k \in keys :
    /\ current = None
    /\ \A j \in keys : k <= j
    /\ ElemOf(k) # None
    /\ current' = ElemOf(k)
    /\ got' = Sum(val[ElemOf(k)])
    /\ exported' = [exported EXCEPT ![k] = @ + Sum(val[ElemOf(k)])]
    /\ UNCHANGED <<keyOf, val, prog, keys, dropped, recorded, raced>>

(* Mutant: the key is not deleted. *)
DeleteKey_Keep ==
  /\ current # None
  /\ keys' = keys \ {keyOf[current]}
  /\ current' = None
  /\ got' = 0
  /\ UNCHANGED <<keyOf, val, prog, exported, dropped, recorded, raced>>

(* map.delete(&key).  Counts added since the read go with the element, and *)
(* so does what a program is about to add through a pointer it holds.      *)
DeleteKey ==
  /\ current # None
  /\ keyOf' = [keyOf EXCEPT ![current] = None]
  /\ raced' = (\/ raced
               \/ Sum(val[current]) # got
               \/ \E c \in Cpus : prog[c].pc = "bump" /\ prog[c].elem = current)
  /\ keys' = keys \ {keyOf[current]}
  /\ current' = None
  /\ got' = 0
  /\ UNCHANGED <<val, prog, exported, dropped, recorded>>

Program(c) == (\E k \in Keys : Lookup(c, k)) \/ Bump(c) \/ Insert(c)

Next == (\E c \in Cpus : Program(c)) \/ Tick \/ ReadKey \/ DeleteKey

(* Programs run to completion, and the event loop keeps ticking. *)
Fairness ==
  /\ \A c \in Cpus : WF_vars(Bump(c) \/ Insert(c))
  /\ WF_vars(Tick) /\ WF_vars(ReadKey) /\ WF_vars(DeleteKey)

Spec == Init /\ [][Next]_vars /\ Fairness
-----------------------------------------------------------------------------
(* The map, the programs and the drain have their types, and the element   *)
(* that is about to be deleted is one of a key of the batch.               *)
TypeOK ==
  /\ keyOf \in [Elems -> Keys \cup {None}]
  /\ val \in [Elems -> [Cpus -> Nat]]
  /\ prog \in [Cpus -> Prog]
  /\ keys \subseteq Keys
  /\ current \in Elems \cup {None}
  /\ current # None => keyOf[current] \in keys
  /\ got \in Nat
  /\ {exported, dropped, recorded} \subseteq [Keys -> Nat]
  /\ raced \in BOOLEAN

Pending(k) == Cardinality({c \in Cpus : prog[c].pc # "idle" /\ prog[c].key = k})

(* What the map holds for k and the drain has not exported yet. *)
Waiting(k) ==
  IF ElemOf(k) = None THEN 0
  ELSE Sum(val[ElemOf(k)]) - (IF ElemOf(k) = current THEN got ELSE 0)

Held == Sum([k \in Keys |-> Waiting(k) + Pending(k)])

L == INSTANCE Ledger WITH made <- Sum(recorded), counted <- Sum(exported), held <- Held

(* drain_percpu_hash and the programs implement Ledger: however reads and  *)
(* deletes interleave with updates and whichever element is reused, an     *)
(* event is exported at most once and never before it was recorded, what a *)
(* delete took is not exported later, and nothing stays in the map.        *)
CountedAtMostOnce == L!Spec

(* As long as no program was between its lookup and its update of the      *)
(* element when drain_percpu_hash deleted it, or updated it between the    *)
(* read and the delete, every event of every key is accounted for under    *)
(* its own key: exported, waiting in the map, about to be added, or        *)
(* refused by a full map.                                                  *)
ExactUnlessRaced ==
  ~raced => \A k \in Keys :
    recorded[k] = exported[k] + Waiting(k) + Pending(k) + dropped[k]

(* A key that is in the map leaves it: with a budget that covers the map,  *)
(* every key is drained, and its element becomes free for other keys.      *)
EveryKeyDrained == \A k \in Keys : ElemOf(k) # None ~> ElemOf(k) = None
=============================================================================
