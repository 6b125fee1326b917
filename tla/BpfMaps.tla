------------------------------ MODULE BpfMaps ------------------------------
(***************************************************************************)
(* What the kernel's map helpers do to a BPF map, as operators on total    *)
(* functions: a key that is not in the map holds the value "free".  The    *)
(* kernel is external code; the operators say what the programs of         *)
(* profi.bpf.c and the libbpf calls of main.rs can observe of it.          *)
(***************************************************************************)
EXTENDS Naturals, FiniteSets

(* The keys present in map m. *)
Present(m, free) == {k \in DOMAIN m : m[k] # free}

(* bpf_map_update_elem(BPF_ANY) on a BPF_MAP_TYPE_LRU_HASH of cap entries: *)
(* the set of maps it may leave.  It never fails; when it needs room it    *)
(* evicts another entry.  The kernel's LRU is approximate (per-CPU lists,  *)
(* reference bits), so any other entry may be the victim.                  *)
LruPut(m, free, cap, k, v) ==
  LET used == Present(m, free)
      put  == [m EXCEPT ![k] = v]
  IN  IF k \in used \/ Cardinality(used) < cap
      THEN {put}
      ELSE {[put EXCEPT ![j] = free] : j \in used}

(* A BPF_MAP_TYPE_(PERCPU_)HASH refuses a new key when it is full.         *)
HasRoom(m, free, cap, k) ==
  k \in Present(m, free) \/ Cardinality(Present(m, free)) < cap
=============================================================================
