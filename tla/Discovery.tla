----------------------------- MODULE Discovery ------------------------------
(***************************************************************************)
(* How profi finds the CUDA and NCCL libraries and attaches its programs   *)
(* to them: the initial attach to --cudart, the discovery thread that      *)
(* scans /proc/*/maps (src/discovery.rs and src/main.rs), the attach arm   *)
(* of the event loop, and the known_pids set the two share.                *)
(*                                                                         *)
(* A file is a device and inode.  Attaching to it installs the programs of *)
(* its library one after the other, so what an attempt leaves behind is a  *)
(* prefix of them; the model keeps the length of the prefix.  The path of  *)
(* a request goes through /proc/<pid>/root of the process it was found in  *)
(* and is gone when that process is.                                       *)
(***************************************************************************)
EXTENDS Integers, Sequences, FiniteSets

CONSTANTS
  Procs,       \* process ids
  Files,       \* the library files of the node
  Libs,        \* libs_to_scan: the library names looked for
  LibOf,       \* the library a file is a copy of
  MapsOf,      \* the files a process can map, in the order of its maps
  Reachable,   \* pairs <<process, file>> whose host path exists
  Programs,    \* number of programs attached to a library
  Failing,     \* files to which an attach may fail
  MayExit,     \* processes that may exit
  ScanPeriod,  \* every ScanPeriod-th scan is a full one (6 in the code)
  cudart,      \* the file --cudart names, or NoFile
  NoFile

NCCL == "libnccl.so"

ASSUME ConstantsAssumption ==
  /\ LibOf \in [Files -> Libs]
  /\ MapsOf \in [Procs -> Seq(Files)]
  /\ Reachable \subseteq Procs \X Files
  /\ Programs \in [Libs -> Nat \ {0}]
  /\ Failing \subseteq Files
  /\ MayExit \subseteq Procs
  /\ ScanPeriod \in Nat \ {0}
  /\ cudart \in Files \cup {NoFile}
  /\ NoFile \notin Files

VARIABLES
  loaded,          \* the files each process has mapped
  exited,          \* processes that have exited
  attached,        \* attached_cuda, _nccl, _driver and _nvtx of the thread
  iteration,
  scan,            \* the scan under way
  requests,        \* the channel attach_tx -> attach_rx: <<process, file>>
  links,           \* for each attempt on a file, the programs it installed
  new_pids_batch,
  known_pids,
  running          \* the event loop has not ended

processes == <<loaded, exited>>
thread == <<attached, iteration, scan>>
loop == <<links, new_pids_batch, running>>
vars == <<processes, thread, requests, loop, known_pids>>

(* step: "rest" between scans, "reading" while known_pids is read locked,  *)
(* "scanning" then.  seen and found are those of scan_proc_for_libs.       *)
ScanState == [step : {"rest", "reading", "scanning"}, todo : SUBSET Procs,
              seen : SUBSET Files, found : SUBSET (Procs \X Files)]

Rest == [step |-> "rest", todo |-> {}, seen |-> {}, found |-> {}]

(* What an attempt may install: all the programs, or those before the      *)
(* first one that fails.                                                   *)
attach_uprobe(f, reachable) ==
  LET all == Programs[LibOf[f]]
  IN  {n \in 0 .. all : /\ 0 < n => reachable
                        /\ n < all => ~reachable \/ f \in Failing}

(* The initial attach. *)
Init ==
  /\ loaded = [p \in Procs |-> {}]
  /\ exited = {}
  /\ iteration = 0
  /\ scan = Rest
  /\ requests = {}
  /\ new_pids_batch = {}
  /\ known_pids = {}
  /\ running = TRUE
  /\ \/ /\ cudart = NoFile
        /\ links = [f \in Files |-> <<>>]
        /\ attached = {}
     \/ /\ cudart # NoFile
        /\ \E n \in attach_uprobe(cudart, TRUE) :
             /\ links = [f \in Files |-> IF f = cudart THEN <<n>> ELSE <<>>]
             /\ attached = IF n = Programs[LibOf[cudart]] THEN {cudart} ELSE {}
-----------------------------------------------------------------------------
(* The processes of the node.                                              *)

Load(p, f) ==
  /\ p \notin exited
  /\ f \notin loaded[p] /\ \E i \in DOMAIN MapsOf[p] : f = MapsOf[p][i]
  /\ loaded' = [loaded EXCEPT ![p] = @ \cup {f}]
  /\ UNCHANGED <<exited, thread, requests, loop, known_pids>>

Exit(p) ==
  /\ p \in MayExit \ exited
  /\ exited' = exited \cup {p}
  /\ loaded' = [loaded EXCEPT ![p] = {}]
  /\ UNCHANGED <<thread, requests, loop, known_pids>>
-----------------------------------------------------------------------------
(* The discovery thread.  It visits the processes in the order in which    *)
(* /proc lists them, here in any order.                                    *)

ScanOf(pids) == [Rest EXCEPT !.step = "scanning", !.todo = pids]

(* Mutant: only the pids already known are ever scanned. *)
StartScan_KnownOnly ==
  /\ scan.step = "rest"
  /\ iteration' = (iteration + 1) % ScanPeriod
  /\ scan' = [scan EXCEPT !.step = "reading"]
  /\ UNCHANGED <<processes, attached, requests, loop, known_pids>>

(* A full scan needs nothing more; the others take the read lock. *)
StartScan ==
  /\ scan.step = "rest"
  /\ iteration' = (iteration + 1) % ScanPeriod
  /\ scan' = IF iteration = 0 THEN ScanOf(Procs) ELSE [scan EXCEPT !.step = "reading"]
  /\ UNCHANGED <<processes, attached, requests, loop, known_pids>>

ReadKnownPids ==
  /\ scan.step = "reading"
  /\ scan' = ScanOf(known_pids)
  /\ UNCHANGED <<processes, attached, iteration, requests, loop, known_pids>>

(* The files whose lines of /proc/p/maps are read: reading stops at the    *)
(* first line by which every library has been met.                         *)
LinesRead(p) ==
  LET maps   == MapsOf[p]
      lines  == {i \in DOMAIN maps : maps[i] \in loaded[p]}
      met(i) == {LibOf[maps[j]] : j \in {k \in lines : k < i}}
  IN  {maps[i] : i \in {k \in lines : met(k) # Libs}}

(* Mutant: a file found in an earlier process of the scan is found again. *)
ScanProcess_Unseen(p) ==
  LET new == LinesRead(p) \ attached
  IN  /\ scan.step = "scanning"
      /\ scan' = [scan EXCEPT !.todo = @ \ {p},
                              !.found = @ \cup (({p} \X new) \cap Reachable)]
      /\ UNCHANGED <<processes, attached, iteration, requests, loop, known_pids>>

(* A file is marked as seen before its path is found to exist. *)
ScanProcess(p) ==
  LET new == LinesRead(p) \ (attached \cup scan.seen)
  IN  /\ scan.step = "scanning"
      /\ scan' = [scan EXCEPT !.todo = @ \ {p},
                              !.seen = @ \cup new,
                              !.found = @ \cup (({p} \X new) \cap Reachable)]
      /\ UNCHANGED <<processes, attached, iteration, requests, loop, known_pids>>

FilesOf(reqs) == {r[2] : r \in reqs}

(* The files found are gone through in the order of the scan: the first    *)
(* request for a file that is not attached is sent.                        *)
FirstRequests(sent) ==
  /\ FilesOf(sent) = FilesOf(scan.found) \ attached
  /\ \A r, s \in sent : r[2] = s[2] => r = s

(* Mutant: the files are requested but not remembered. *)
SendRequests_Forget ==
  /\ scan.step = "scanning" /\ scan.todo = {}
  /\ \E sent \in SUBSET scan.found :
       /\ FirstRequests(sent)
       /\ requests' = requests \cup sent
  /\ scan' = Rest
  /\ UNCHANGED <<processes, attached, iteration, loop, known_pids>>

(* A file counts as attached from its request on. *)
SendRequests ==
  /\ scan.step = "scanning" /\ scan.todo = {}
  /\ \E sent \in SUBSET scan.found :
       /\ FirstRequests(sent)
       /\ attached' = attached \cup FilesOf(sent)
       /\ requests' = requests \cup sent
  /\ scan' = Rest
  /\ UNCHANGED <<processes, iteration, loop, known_pids>>

-----------------------------------------------------------------------------
(* The event loop.                                                         *)

Complete(f, n) == n = Programs[LibOf[f]]

(* A failure ends the attempt and is not retried; one to attach to NCCL    *)
(* ends the event loop.                                                    *)
AttachArm(r) ==
  LET p == r[1]
      f == r[2]
  IN  /\ running /\ r \in requests
      /\ requests' = requests \ {r}
      /\ \E n \in attach_uprobe(f, p \notin exited) :
           /\ links' = [links EXCEPT ![f] = Append(@, n)]
           /\ running' = (LibOf[f] = NCCL => Complete(f, n))
      /\ UNCHANGED <<processes, thread, new_pids_batch, known_pids>>

(* A process calls a function with a program on it: its pid joins the      *)
(* batch if the event loop does not know it, or has collected it since.    *)
Event(p) ==
  /\ running
  /\ \E f \in loaded[p] : \E i \in DOMAIN links[f] : links[f][i] > 0
  /\ new_pids_batch' = new_pids_batch \cup {p}
  /\ UNCHANGED <<processes, thread, requests, links, known_pids, running>>

(* Mutant: the batch is emptied even when the lock is not available. *)
GcArm_DropBatch ==
  /\ running /\ new_pids_batch # {}
  /\ known_pids' = IF scan.step = "reading" THEN known_pids
                                            ELSE known_pids \cup new_pids_batch
  /\ new_pids_batch' = {}
  /\ UNCHANGED <<processes, thread, requests, links, running>>

(* try_write: while the thread holds the read lock the batch is kept. *)
GcArm ==
  /\ running /\ new_pids_batch # {}
  /\ scan.step # "reading"
  /\ known_pids' = known_pids \cup new_pids_batch
  /\ new_pids_batch' = {}
  /\ UNCHANGED <<processes, thread, requests, links, running>>

(* The thread dies with the event loop. *)
ThreadStep ==
  /\ running
  /\ \/ StartScan
     \/ ReadKnownPids
     \/ \E p \in scan.todo : ScanProcess(p)
     \/ SendRequests

Next ==
  \/ ThreadStep
  \/ GcArm
  \/ \E r \in requests : AttachArm(r)
  \/ \E p \in Procs : Exit(p) \/ Event(p) \/ \E f \in Files : Load(p, f)

(* The thread never stops scanning; the loop serves every request, and     *)
(* collects infinitely often, so not only while the lock is held.          *)
Fairness ==
  /\ WF_vars(ThreadStep)
  /\ \A r \in Procs \X Files : WF_vars(AttachArm(r))
  /\ SF_vars(GcArm)

Spec == Init /\ [][Next]_vars /\ Fairness
-----------------------------------------------------------------------------
(* The state of the processes, the thread and the event loop has the       *)
(* declared types.  A file found by a scan is a new one, and what the      *)
(* channel holds is attached in the eyes of the thread.                    *)
TypeOK ==
  /\ loaded \in [Procs -> SUBSET Files]
  /\ exited \subseteq Procs
  /\ attached \subseteq Files
  /\ iteration \in 0 .. ScanPeriod - 1
  /\ scan \in ScanState
  /\ requests \subseteq Procs \X Files
  /\ links \in [Files -> Seq(Nat)]
  /\ new_pids_batch \subseteq Procs
  /\ known_pids \subseteq Procs
  /\ running \in BOOLEAN
  /\ FilesOf(requests) \subseteq attached
  /\ FilesOf(scan.found) \subseteq scan.seen \ attached

(* No program is installed twice on the same file (it would count every    *)
(* call twice), however many processes map it and however scans and        *)
(* attaches interleave: there is one attempt per file.  The one exception  *)
(* is a --cudart whose initial attach failed: the discovery thread finds   *)
(* it again and the links of the failed attempt are still there.           *)
OneAttempt ==
  \A f \in Files :
    \/ Len(links[f]) <= 1
    \/ Len(links[f]) = 2 /\ f = cudart /\ ~Complete(f, links[f][1])

(* A library a process maps is found by some scan and an attach to it is   *)
(* tried, however late it is loaded and whichever processes the scans look *)
(* at, unless the process exits or the profiler stops first.  Requires     *)
(* that a process has one copy of each library and that it is reachable.   *)
EveryLibraryTried ==
  \A p \in Procs, f \in Files :
    f \in loaded[p] ~> (links[f] # <<>> \/ p \in exited \/ ~running)

(* A process whose calls are traced becomes one of the pids that every     *)
(* scan looks at, although the loop only tries to lock known_pids and goes *)
(* on without it.                                                          *)
EveryPidKnown ==
  \A p \in Procs : p \in new_pids_batch ~> (p \in known_pids \/ ~running)
=============================================================================
