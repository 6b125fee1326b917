---------------------------- MODULE KernelNames ----------------------------
(***************************************************************************)
(* How a kernel launch gets its kernel label in full mode: the names the   *)
(* event loop of main.rs reads from registrations, the requests it sends   *)
(* to the resolver thread (SymbolResolver of symbols.rs), the answers the  *)
(* gc arm applies, and what the gc arm forgets of processes not seen for   *)
(* stale_after.                                                            *)
(*                                                                         *)
(* A process number is reused by later processes; the name of a kernel is  *)
(* the incarnation of the process it belongs to, Unknown is a name that    *)
(* starts with "unknown_", None is no entry.  /proc is external.           *)
(***************************************************************************)
EXTENDS Integers, Sequences, FiniteSetsExt

CONSTANTS
  Pids,
  Kernels,            \* host_fun of the kernels; they are in one library
  MaxIncarnation,     \* bound: processes with the same number
  MaxQueue,           \* bound: requests waiting for the resolver
  None

ASSUME ConstantsAssumption ==
  /\ MaxIncarnation \in Nat \ {0} /\ MaxQueue \in Nat \ {0}
  /\ None \notin Nat

Unknown == 0

VARIABLES
  incarnation, life,                  \* of each process: "dead", "started", "loaded" (the library)
  kregs, LAUNCH_AGG,                  \* registrations in the ring; keys in the map
  kernel_names, pending_resolve, handles, last_seen,
  requests, results,                  \* the two channels
  addr_cache, maps_cache, lib_cache,
  outdated                            \* history: something of an earlier process was used

world    == <<incarnation, life>>
programs == <<kregs, LAUNCH_AGG>>
loop     == <<kernel_names, pending_resolve, handles, last_seen>>
resolver == <<addr_cache, maps_cache, lib_cache>>
vars     == <<world, programs, loop, requests, results, resolver, outdated>>

Launched == Pids \X Kernels

Resolve(pid, addr) == [op |-> "Resolve", pid |-> pid, addr |-> addr]

EvictPids(pids) == [op |-> "EvictPids", pids |-> pids]

Request == [op : {"Resolve"}, pid : Pids, addr : Kernels] \cup [op : {"EvictPids"}, pids : SUBSET Pids]

Init ==
  /\ incarnation = [p \in Pids |-> 1] /\ life = [p \in Pids |-> "started"]
  /\ kregs = {} /\ LAUNCH_AGG = {}
  /\ kernel_names = [x \in Launched |-> None]
  /\ pending_resolve = {}
  /\ handles = [x \in Launched |-> None]
  /\ last_seen = [p \in Pids |-> "never"]
  /\ requests = <<>> /\ results = <<>>
  /\ addr_cache = [x \in Launched |-> None]
  /\ maps_cache = [p \in Pids |-> None] /\ lib_cache = [p \in Pids |-> None]
  /\ outdated = FALSE
-----------------------------------------------------------------------------
(* The traced processes.                                                   *)

(* The library is loaded; its kernels are registered, which the profiler   *)
(* misses when its probe is not attached yet.                              *)
Load(p) ==
  /\ life[p] = "started"
  /\ life' = [life EXCEPT ![p] = "loaded"]
  /\ kregs' \in {kregs, kregs \cup {<<p, a, incarnation[p]>> : a \in Kernels}}
  /\ UNCHANGED <<incarnation, LAUNCH_AGG, loop, requests, results, resolver, outdated>>

Launch(p, a) ==
  /\ life[p] = "loaded"
  /\ <<p, a>> \notin LAUNCH_AGG
  /\ LAUNCH_AGG' = LAUNCH_AGG \cup {<<p, a>>}
  /\ UNCHANGED <<world, kregs, loop, requests, results, resolver, outdated>>

(* Registrations do not touch the process: if none of its launches was     *)
(* seen, the gc arm will not forget its names.                             *)
Exit(p) ==
  /\ life[p] # "dead"
  /\ life' = [life EXCEPT ![p] = "dead"]
  /\ outdated' = (\/ outdated
                  \/ last_seen[p] = "never" /\ \E a \in Kernels : kernel_names[p, a] # None)
  /\ UNCHANGED <<incarnation, programs, loop, requests, results, resolver>>

(* A request or an answer for p is in the channels. *)
Outstanding(p) ==
  \/ \E i \in DOMAIN requests : requests[i].op = "Resolve" /\ requests[i].pid = p
  \/ \E i \in DOMAIN results : results[i][1] = p

(* Numbers come around late: the gc arm has forgotten the earlier process. *)
Reuse(p) ==
  /\ life[p] = "dead" /\ incarnation[p] < MaxIncarnation
  /\ last_seen[p] = "never"
  /\ \A a \in Kernels : <<p, a>> \notin LAUNCH_AGG
  /\ \A r \in kregs : r[1] # p
  /\ life' = [life EXCEPT ![p] = "started"]
  /\ incarnation' = [incarnation EXCEPT ![p] = @ + 1]
  /\ outdated' = (outdated \/ Outstanding(p))
  /\ UNCHANGED <<programs, loop, requests, results, resolver>>
-----------------------------------------------------------------------------
(* The resolver thread.                                                    *)

(* What /proc/<pid> shows of the library. *)
OnDisk(p) == IF life[p] = "loaded" THEN incarnation[p] ELSE Unknown

(* Mutant: only the memory maps are forgotten. *)
evict_pids_MapsOnly(pids) ==
  /\ maps_cache' = [p \in Pids |-> IF p \in pids THEN None ELSE maps_cache[p]]
  /\ UNCHANGED <<addr_cache, lib_cache>>

(* lib_cache stays: it is keyed by path, with the process number in it. *)
evict_pids(pids) ==
  /\ maps_cache' = [p \in Pids |-> IF p \in pids THEN None ELSE maps_cache[p]]
  /\ addr_cache' = [x \in Launched |-> IF x[1] \in pids THEN None ELSE addr_cache[x]]
  /\ UNCHANGED lib_cache

(* parse_maps unless cached, and load_symbols unless cached; without the   *)
(* library in the maps the symbols are not asked for, and a library may    *)
(* have none.  Answers and failures are cached alike.                      *)
resolve(p, a) ==
  LET maps == IF maps_cache[p] = None THEN OnDisk(p) ELSE maps_cache[p]
      libs == IF lib_cache[p] = None THEN {OnDisk(p), Unknown} ELSE {lib_cache[p]}
  IN  \/ /\ addr_cache[p, a] # None
         /\ results' = Append(results, <<p, a, addr_cache[p, a]>>)
         /\ UNCHANGED <<resolver, outdated>>
      \/ /\ addr_cache[p, a] = None
         /\ maps_cache' = [maps_cache EXCEPT ![p] = maps]
         /\ \E name \in IF maps = Unknown THEN {Unknown} ELSE libs :
              /\ results' = Append(results, <<p, a, name>>)
              /\ addr_cache' = [addr_cache EXCEPT ![<<p, a>>] = name]
              /\ lib_cache' = IF maps = Unknown THEN lib_cache ELSE [lib_cache EXCEPT ![p] = name]
              /\ outdated' = (outdated \/ name \notin {Unknown, incarnation[p]})

ResolverStep ==
  /\ requests # <<>>
  /\ requests' = Tail(requests)
  /\ LET req == Head(requests)
     IN  \/ /\ req.op = "Resolve"
            /\ resolve(req.pid, req.addr)
         \/ /\ req.op = "EvictPids"
            /\ evict_pids(req.pids)
            /\ UNCHANGED <<results, outdated>>
  /\ UNCHANGED <<world, programs, loop>>
-----------------------------------------------------------------------------
(* The event loop.                                                         *)

(* The registrations whose name can be read from the memory of their       *)
(* process, which must still be there; it may have unloaded the module.    *)
read_kernel_name == SUBSET {r \in kregs : life[r[1]] # "dead" /\ incarnation[r[1]] = r[3]}

(* The registrations of the ring arm. *)
RegisterKernels ==
  /\ kregs # {}
  /\ kregs' = {}
  /\ \E read \in read_kernel_name :
       kernel_names' =
         [x \in Launched |-> IF kernel_names[x] = None /\ <<x[1], x[2], incarnation[x[1]]>> \in read
                             THEN incarnation[x[1]] ELSE kernel_names[x]]
  /\ UNCHANGED <<world, LAUNCH_AGG, pending_resolve, handles, last_seen, requests, results,
                 resolver, outdated>>

(* A key of LAUNCH_AGG, or a launch in the ring: get_or_create picks the   *)
(* label when it creates the handle, and only then is the name asked for.  *)
DrainLaunch(p, a) ==
  LET x   == <<p, a>>
      ask == kernel_names[x] = None /\ x \notin pending_resolve
  IN  /\ x \in LAUNCH_AGG /\ Len(requests) < MaxQueue
      /\ LAUNCH_AGG' = LAUNCH_AGG \ {x}
      /\ handles' = [handles EXCEPT ![x] =
                       IF @ # None THEN @ ELSE IF kernel_names[x] = None THEN Unknown ELSE kernel_names[x]]
      /\ pending_resolve' = pending_resolve \cup (IF ask THEN {x} ELSE {})
      /\ requests' = IF ask THEN Append(requests, Resolve(p, a)) ELSE requests
      /\ last_seen' = [last_seen EXCEPT ![p] = "fresh"]
      /\ UNCHANGED <<world, kregs, kernel_names, results, resolver, outdated>>

(* The process is quiet for stale_after. *)
Age(p) ==
  /\ last_seen[p] = "fresh"
  /\ last_seen' = [last_seen EXCEPT ![p] = "stale"]
  /\ UNCHANGED <<world, programs, kernel_names, pending_resolve, handles, requests, results,
                 resolver, outdated>>

(* Mutant: unknown names are entered too. *)
AnswerFor_Any(x) ==
  LET any == {i \in DOMAIN results : <<results[i][1], results[i][2]>> = x}
  IN  IF any = {} THEN None ELSE results[Max(any)][3]

(* The last answer for x in the channel that is a name, or None. *)
AnswerFor(x) ==
  LET known == {i \in DOMAIN results : <<results[i][1], results[i][2]>> = x /\ results[i][3] # Unknown}
  IN  IF known = {} THEN None ELSE results[Max(known)][3]

Answered == {<<results[i][1], results[i][2]>> : i \in DOMAIN results}

(* Mutant: an unknown name stays pending. *)
StillPending_KeepUnknown == {x \in pending_resolve : AnswerFor(x) = None}

StillPending == pending_resolve \ Answered

(* Mutant: the names of the forgotten processes stay. *)
Retained_All(names, stale_pids) == names

Retained(names, stale_pids) == [x \in Launched |-> IF x[1] \in stale_pids THEN None ELSE names[x]]

(* The gc arm: the answers first, then the stale processes. *)
GcArm ==
  LET stale_pids == {p \in Pids : last_seen[p] = "stale"}
      named == [x \in Launched |-> IF AnswerFor(x) = None THEN kernel_names[x] ELSE AnswerFor(x)]
  IN  /\ results # <<>> \/ stale_pids # {}
      /\ stale_pids # {} => Len(requests) < MaxQueue
      /\ results' = <<>>
      /\ kernel_names' = Retained(named, stale_pids)
      /\ pending_resolve' = {x \in StillPending : x[1] \notin stale_pids}
      /\ handles' = [x \in Launched |-> IF x[1] \in stale_pids THEN None ELSE handles[x]]
      /\ last_seen' = [p \in Pids |-> IF p \in stale_pids THEN "never" ELSE last_seen[p]]
      /\ requests' = IF stale_pids = {} THEN requests ELSE Append(requests, EvictPids(stale_pids))
      /\ outdated' = (outdated \/ \E x \in Launched : AnswerFor(x) # None /\ last_seen[x[1]] = "never")
      /\ UNCHANGED <<world, programs, resolver>>

Process(p) == Load(p) \/ Exit(p) \/ Reuse(p) \/ Age(p) \/ (\E a \in Kernels : Launch(p, a))

Next ==
  \/ \E p \in Pids : Process(p)
  \/ ResolverStep
  \/ RegisterKernels
  \/ \E p \in Pids, a \in Kernels : DrainLaunch(p, a)
  \/ GcArm

(* The resolver thread runs, and select! takes every arm again and again. *)
Fairness ==
  /\ WF_vars(ResolverStep) /\ WF_vars(GcArm) /\ WF_vars(RegisterKernels)
  /\ \A p \in Pids, a \in Kernels : WF_vars(DrainLaunch(p, a))

Spec == Init /\ [][Next]_vars /\ Fairness
-----------------------------------------------------------------------------
(* The tables, the channels and the caches have their types. *)
TypeOK ==
  /\ incarnation \in [Pids -> 1 .. MaxIncarnation]
  /\ life \in [Pids -> {"dead", "started", "loaded"}]
  /\ LAUNCH_AGG \subseteq Launched /\ kregs \subseteq Pids \X Kernels \X (1 .. MaxIncarnation)
  /\ kernel_names \in [Launched -> (1 .. MaxIncarnation) \cup {None}]
  /\ {handles, addr_cache} \subseteq [Launched -> (0 .. MaxIncarnation) \cup {None}]
  /\ {maps_cache, lib_cache} \subseteq [Pids -> (0 .. MaxIncarnation) \cup {None}]
  /\ pending_resolve \subseteq Launched
  /\ last_seen \in [Pids -> {"never", "fresh", "stale"}]
  /\ requests \in Seq(Request) /\ Len(requests) <= MaxQueue
  /\ results \in Seq(Pids \X Kernels \X (0 .. MaxIncarnation))
  /\ outdated \in BOOLEAN

(* The requests after the i-th that evict process p. *)
EvictedAfter(p, i) ==
  \E j \in i + 1 .. Len(requests) : requests[j].op = "EvictPids" /\ p \in requests[j].pids

(* What the resolver caches of a process, or is still going to look up, is *)
(* of a process the loop tracks, or an EvictPids for it is behind it in    *)
(* the channel: addr_cache and maps_cache never keep a forgotten process.  *)
ResolverForgets ==
  \A p \in Pids : last_seen[p] = "never" =>
    /\ maps_cache[p] # None \/ (\E a \in Kernels : addr_cache[p, a] # None) => EvictedAfter(p, 0)
    /\ \A i \in DOMAIN requests :
         requests[i].op = "Resolve" /\ requests[i].pid = p => EvictedAfter(p, i)

(* A kernel is never labelled with the name it had in an earlier process   *)
(* of the same number, except through the three windows of the code: the   *)
(* resolver is so late that its answer comes after the gc arm has          *)
(* forgotten the process, lib_cache still has the library, or names were   *)
(* registered by a process that ended while it was not in last_seen.       *)
NamesCurrent ==
  ~outdated => \A p \in Pids, a \in Kernels :
    handles[p, a] \in {None, Unknown, incarnation[p]}

(* A kernel that waits for its name does not wait for ever: the gc arm     *)
(* applies the answer, or forgets the process, so it can be asked again.   *)
PendingAnswered == \A x \in Launched : x \in pending_resolve ~> x \notin pending_resolve
=============================================================================
