-------------------------- MODULE DiscoveryProofs ---------------------------
(***************************************************************************)
(* Proofs about Discovery: its state is well typed, and no file is         *)
(* attached to twice, for any processes, files, failures and exits.        *)
(***************************************************************************)
EXTENDS Discovery, SequenceTheorems, TLAPS

(* The provers that try a step which names none, and their time limits.    *)
USE ZenonT(5), SMTT(20), ZenonT(60)

(* No request was served for f: at most a failed initial attach was made.  *)
Untried(f) ==
  \/ links[f] = <<>>
  \/ f = cudart /\ Len(links[f]) = 1 /\ ~Complete(f, links[f][1])

(* OneAttempt alone says nothing of the requests still to come.  The       *)
(* strengthening: requests are for different files, and a file that is not *)
(* attached in the eyes of the thread, or whose request is still in the    *)
(* channel, is untried.                                                    *)
OneRequest == \A r, s \in requests : r[2] = s[2] => r = s

NotAttachedUntried == \A f \in Files \ attached : Untried(f)

RequestUntried == \A r \in requests : Untried(r[2])

Inv ==
  /\ TypeOK
  /\ OneRequest
  /\ NotAttachedUntried
  /\ RequestUntried
  /\ OneAttempt

(* What an attempt installs is a number of programs. *)
LEMMA AttachType ==
  ASSUME NEW f \in Files, NEW ok \in BOOLEAN, NEW n \in attach_uprobe(f, ok)
  PROVE  n \in Nat
BY ConstantsAssumption DEF attach_uprobe

(* Lines read from maps are those of files the process has mapped. *)
LEMMA LinesReadType ==
  ASSUME NEW p \in Procs
  PROVE  LinesRead(p) \subseteq Files
<1>1. MapsOf[p] \in Seq(Files)
  BY ConstantsAssumption
<1> QED
  BY <1>1 DEF LinesRead

(* The initial attach leaves a file untried or attached. *)
LEMMA InitInv == Init => Inv
<1> SUFFICES ASSUME Init PROVE Inv
  OBVIOUS
<1> USE ConstantsAssumption
<1>1. links \in [Files -> Seq(Nat)] /\ attached \subseteq Files
  <2>e. <<>> \in Seq(Nat)
    BY EmptySeq
  <2>1. CASE cudart = NoFile
    <3>1. links = [f \in Files |-> <<>>] /\ attached = {}
      BY <2>1 DEF Init
    <3> QED
      BY <2>e, <3>1
  <2>2. CASE cudart # NoFile
    <3>1. PICK n \in attach_uprobe(cudart, TRUE) :
            /\ links = [f \in Files |-> IF f = cudart THEN <<n>> ELSE <<>>]
            /\ attached = IF n = Programs[LibOf[cudart]] THEN {cudart} ELSE {}
      BY <2>2 DEF Init
    <3>2. cudart \in Files
      BY <2>2 DEF Init
    <3>3. n \in Nat
      BY <3>2, AttachType
    <3>4. <<n>> \in Seq(Nat)
      BY <3>3
    <3>5. \A f \in Files : (IF f = cudart THEN <<n>> ELSE <<>>) \in Seq(Nat)
      BY <2>e, <3>4
    <3>6. links \in [Files -> Seq(Nat)]
      BY <3>1, <3>5
    <3> QED
      BY <3>1, <3>2, <3>6
  <2> QED
    BY <2>1, <2>2
<1>2. NotAttachedUntried /\ OneAttempt
  <2>1. CASE cudart = NoFile
    BY <2>1 DEF Init, NotAttachedUntried, OneAttempt, Untried
  <2>2. CASE cudart # NoFile
    <3>1. PICK n \in attach_uprobe(cudart, TRUE) :
            /\ links = [f \in Files |-> IF f = cudart THEN <<n>> ELSE <<>>]
            /\ attached = IF n = Programs[LibOf[cudart]] THEN {cudart} ELSE {}
      BY <2>2 DEF Init
    <3>2. \A f \in Files : Len(links[f]) <= 1
      BY <3>1
    <3>3. OneAttempt
      BY <3>2 DEF OneAttempt
    <3>4. ASSUME NEW f \in Files \ attached PROVE Untried(f)
      BY <3>1 DEF Untried, Complete
    <3> QED
      BY <3>3, <3>4 DEF NotAttachedUntried
  <2> QED
    BY <2>1, <2>2
<1>3. TypeOK
  BY <1>1 DEF Init, TypeOK, Rest, ScanState, FilesOf
<1>4. OneRequest /\ RequestUntried
  BY DEF Init, OneRequest, RequestUntried, Rest
<1> QED
  BY <1>2, <1>3, <1>4 DEF Inv

(* A scan adds a file it has not met, under one process. *)
LEMMA ScanInv ==
  ASSUME Inv, NEW p \in scan.todo, ScanProcess(p)
  PROVE  Inv'
<1> DEFINE new == LinesRead(p) \ (attached \cup scan.seen)
<1> DEFINE more == ({p} \X new) \cap Reachable
<1>1. p \in Procs /\ scan \in ScanState /\ FilesOf(scan.found) \subseteq scan.seen \ attached
  BY DEF Inv, TypeOK, ScanState
<1>2. new \subseteq Files
  BY <1>1, LinesReadType
<1>3. /\ scan' = [scan EXCEPT !.todo = @ \ {p}, !.seen = @ \cup new, !.found = @ \cup more]
      /\ UNCHANGED <<loaded, exited, attached, iteration, requests, links,
                     new_pids_batch, running, known_pids>>
  BY DEF ScanProcess, processes, loop
<1>4. more \subseteq {p} \X new
  OBVIOUS
<1>n. new \cap (attached \cup scan.seen) = {}
  OBVIOUS
<1> HIDE DEF new, more
<1>5. scan' \in ScanState
  BY <1>1, <1>2, <1>3, <1>4 DEF ScanState
<1>6. scan'.found = scan.found \cup more /\ scan'.seen = scan.seen \cup new
  BY <1>1, <1>3 DEF ScanState
<1>7. FilesOf(scan'.found) \subseteq scan'.seen \ attached
  BY <1>1, <1>4, <1>6, <1>n DEF FilesOf
<1>8. TypeOK'
  BY <1>3, <1>5, <1>7 DEF Inv, TypeOK, FilesOf
<1> QED
  BY <1>3, <1>8
  DEF Inv, OneRequest, NotAttachedUntried, RequestUntried, Untried, OneAttempt, Complete

(* What was found joins the channel and the attached files together. *)
LEMMA SendInv ==
  ASSUME Inv, SendRequests
  PROVE  Inv'
<1>0. PICK sent \in SUBSET scan.found :
        /\ FirstRequests(sent)
        /\ attached' = attached \cup FilesOf(sent)
        /\ requests' = requests \cup sent
  BY DEF SendRequests
<1>1. /\ attached' = attached \cup FilesOf(sent)
      /\ requests' = requests \cup sent
      /\ scan' = Rest
      /\ UNCHANGED <<loaded, exited, iteration, links,
                     new_pids_batch, running, known_pids>>
  BY <1>0 DEF SendRequests, processes, loop
<1>2. /\ FilesOf(sent) \cap attached = {}
      /\ FilesOf(requests) \subseteq attached
  BY <1>0 DEF Inv, TypeOK, FirstRequests
<1>3. sent \subseteq Procs \X Files
  BY <1>0 DEF Inv, TypeOK, ScanState
<1>4. FilesOf(requests') \subseteq attached' /\ attached' \subseteq Files
  BY <1>1, <1>2, <1>3 DEF FilesOf, Inv, TypeOK
<1>5. TypeOK'
  BY <1>1, <1>3, <1>4 DEF Inv, TypeOK, Rest, ScanState, FilesOf
<1>6. OneRequest'
  <2> SUFFICES ASSUME NEW r \in requests', NEW s \in requests', r[2] = s[2]
               PROVE  r = s
    BY DEF OneRequest
  <2>1. CASE r \in requests /\ s \in requests
    BY <2>1 DEF Inv, OneRequest
  <2>2. CASE r \in sent /\ s \in sent
    BY <2>2, <1>0 DEF FirstRequests
  <2>3. CASE r \in sent /\ s \in requests
    BY <2>3, <1>2 DEF FilesOf
  <2>4. CASE r \in requests /\ s \in sent
    BY <2>4, <1>2 DEF FilesOf
  <2> QED
    BY <2>1, <2>2, <2>3, <2>4, <1>1
<1>8. \A f \in Files : Untried(f)' <=> Untried(f)
  BY <1>1 DEF Untried, Complete
<1>9. NotAttachedUntried'
  BY <1>1, <1>8 DEF Inv, NotAttachedUntried
<1>10. RequestUntried'
  <2> SUFFICES ASSUME NEW r \in requests' PROVE Untried(r[2])'
    BY DEF RequestUntried
  <2>1. CASE r \in requests
    BY <2>1, <1>8 DEF Inv, RequestUntried, TypeOK
  <2>2. CASE r \in sent
    <3>1. r[2] \in Files \ attached
      BY <2>2, <1>2, <1>3 DEF FilesOf
    <3> QED
      BY <3>1, <1>8 DEF Inv, NotAttachedUntried
  <2> QED
    BY <2>1, <2>2, <1>1
<1>11. OneAttempt'
  BY <1>1 DEF Inv, OneAttempt, Complete
<1> QED
  BY <1>5, <1>6, <1>9, <1>10, <1>11 DEF Inv

(* An attempt is the first on its file, or the second on a --cudart whose  *)
(* initial attach failed.                                                  *)
LEMMA AttachInv ==
  ASSUME Inv, NEW r \in requests, AttachArm(r)
  PROVE  Inv'
<1> DEFINE p == r[1]
<1> DEFINE f == r[2]
<1> USE ConstantsAssumption
<1>1. p \in Procs /\ f \in Files /\ r = <<p, f>> /\ f \in attached /\ Untried(f)
  BY DEF Inv, TypeOK, FilesOf, RequestUntried
<1>2. PICK n \in attach_uprobe(f, p \notin exited) :
        /\ links' = [links EXCEPT ![f] = Append(@, n)]
        /\ running' = (LibOf[f] = NCCL => Complete(f, n))
  BY DEF AttachArm
<1>3. /\ requests' = requests \ {r}
      /\ UNCHANGED <<loaded, exited, attached, iteration, scan, new_pids_batch, known_pids>>
  BY DEF AttachArm, processes, thread
<1>4. n \in Nat
  BY <1>1, <1>2, AttachType
<1>5. \A g \in Files : g # f => g # r[2]
  OBVIOUS
<1> HIDE DEF p, f
<1>6. links \in [Files -> Seq(Nat)]
  BY DEF Inv, TypeOK
<1>7. links' \in [Files -> Seq(Nat)] /\ links'[f] = Append(links[f], n)
  BY <1>1, <1>2, <1>4, <1>6
<1>8. \A g \in Files : g # f => links'[g] = links[g]
  BY <1>1, <1>2, <1>6
<1>9. running' \in BOOLEAN
  BY <1>2 DEF Inv, TypeOK
<1>10. TypeOK'
  BY <1>3, <1>7, <1>9 DEF Inv, TypeOK, FilesOf
<1>11. \A g \in Files : g # f => (Untried(g)' <=> Untried(g))
  BY <1>8 DEF Untried, Complete
<1>12. OneRequest'
  BY <1>3 DEF Inv, OneRequest
<1>13. NotAttachedUntried'
  BY <1>1, <1>3, <1>11 DEF Inv, NotAttachedUntried
<1>14. RequestUntried'
  <2> SUFFICES ASSUME NEW s \in requests' PROVE Untried(s[2])'
    BY DEF RequestUntried
  <2>1. s \in requests /\ s # r
    BY <1>3
  <2>2. s[2] # f /\ s[2] \in Files
    BY <2>1 DEF Inv, OneRequest, TypeOK, f
  <2> QED
    BY <2>1, <2>2, <1>11 DEF Inv, RequestUntried
<1>15. OneAttempt'
  <2> SUFFICES ASSUME NEW g \in Files
               PROVE  \/ Len(links'[g]) <= 1
                      \/ Len(links'[g]) = 2 /\ g = cudart /\ ~Complete(g, links'[g][1])
    BY DEF OneAttempt, Complete
  <2>1. CASE g # f
    BY <2>1, <1>8 DEF Inv, OneAttempt
  <2>2. CASE g = f /\ links[f] = <<>>
    BY <2>2, <1>4, <1>7
  <2>3. CASE g = f /\ f = cudart /\ Len(links[f]) = 1 /\ ~Complete(f, links[f][1])
    <3>1. links[f] \in Seq(Nat)
      BY <1>1, <1>6
    <3>s. /\ Len(Append(links[f], n)) = Len(links[f]) + 1
          /\ \A i \in 1 .. Len(links[f]) : Append(links[f], n)[i] = links[f][i]
      BY <3>1, <1>4, AppendProperties
    <3>l. Len(links[f]) = 1 /\ links'[f] = Append(links[f], n)
      BY <2>3, <1>7
    <3>2. Len(links'[f]) = 2 /\ links'[f][1] = links[f][1]
      BY <3>s, <3>l
    <3> QED
      BY <2>3, <3>2
  <2> QED
    BY <2>1, <2>2, <2>3, <1>1 DEF Untried
<1> QED
  BY <1>10, <1>12, <1>13, <1>14, <1>15 DEF Inv

(* Steps of the traced processes and of the gc arm leave the thread, the   *)
(* channel and the links alone: they need only keep their own types.       *)
LEMMA UntouchedInv ==
  ASSUME Inv, UNCHANGED <<thread, requests, links>>,
         loaded' \in [Procs -> SUBSET Files], exited' \subseteq Procs,
         new_pids_batch' \subseteq Procs, known_pids' \subseteq Procs, running' \in BOOLEAN
  PROVE  Inv'
<1>1. UNCHANGED <<attached, iteration, scan, requests, links>>
  BY DEF thread
<1>2. TypeOK'
  BY <1>1 DEF Inv, TypeOK, FilesOf
<1>3. OneRequest'
  BY <1>1 DEF Inv, OneRequest
<1>4. \A f : Untried(f)' = Untried(f)
  BY <1>1 DEF Untried, Complete
<1>5. NotAttachedUntried' /\ RequestUntried'
  BY <1>1, <1>4 DEF Inv, NotAttachedUntried, RequestUntried
<1>6. OneAttempt'
  BY <1>1 DEF Inv, OneAttempt, Complete
<1> QED
  BY <1>2, <1>3, <1>5, <1>6 DEF Inv

(* Every step preserves the invariant. *)
LEMMA NextInv == Inv /\ [Next]_vars => Inv'
<1> SUFFICES ASSUME Inv, [Next]_vars PROVE Inv'
  OBVIOUS
<1> USE ConstantsAssumption
<1>1. CASE StartScan
  <2>1. scan' \in ScanState /\ scan'.found \subseteq scan.found
          /\ FilesOf(scan'.found) \subseteq scan'.seen \ attached
    <3>1. CASE iteration = 0
      BY <1>1, <3>1 DEF StartScan, ScanOf, Rest, ScanState, FilesOf
    <3>2. CASE iteration # 0
      <4>1. scan \in ScanState /\ FilesOf(scan.found) \subseteq scan.seen \ attached
        BY DEF Inv, TypeOK
      <4> QED
        BY <1>1, <3>2, <4>1 DEF StartScan, ScanState, FilesOf
    <3> QED
      BY <3>1, <3>2
  <2>2. iteration' \in 0 .. ScanPeriod - 1
    BY <1>1 DEF StartScan, Inv, TypeOK
  <2>3. UNCHANGED <<loaded, exited, attached, requests, links,
                    new_pids_batch, running, known_pids>>
    BY <1>1 DEF StartScan, processes, loop
  <2>4. TypeOK'
    BY <2>1, <2>2, <2>3 DEF Inv, TypeOK, FilesOf
  <2>5. OneRequest'
    BY <2>1, <2>3 DEF Inv, OneRequest
  <2>6. NotAttachedUntried' /\ RequestUntried' /\ OneAttempt'
    BY <2>3 DEF Inv, NotAttachedUntried, RequestUntried, OneAttempt, Untried, Complete
  <2> QED
    BY <2>4, <2>5, <2>6 DEF Inv
<1>2. CASE ReadKnownPids
  <2>1. scan' \in ScanState /\ scan'.found = {}
    BY <1>2 DEF ReadKnownPids, ScanOf, Rest, ScanState, Inv, TypeOK
  <2>2. UNCHANGED <<loaded, exited, attached, iteration, requests, links,
                    new_pids_batch, running, known_pids>>
    BY <1>2 DEF ReadKnownPids, processes, loop
  <2>3. TypeOK'
    BY <2>1, <2>2 DEF Inv, TypeOK, FilesOf
  <2>4. OneRequest'
    BY <2>1, <2>2 DEF Inv, OneRequest
  <2>5. NotAttachedUntried' /\ RequestUntried' /\ OneAttempt'
    BY <2>2 DEF Inv, NotAttachedUntried, RequestUntried, OneAttempt, Untried, Complete
  <2> QED
    BY <2>3, <2>4, <2>5 DEF Inv
<1>3. CASE \E p \in scan.todo : ScanProcess(p)
  BY <1>3, ScanInv
<1>4. CASE SendRequests
  BY <1>4, SendInv
<1>5. CASE GcArm
  <2>1. known_pids' \subseteq Procs /\ new_pids_batch' \subseteq Procs
    BY <1>5 DEF GcArm, Inv, TypeOK
  <2>2. UNCHANGED <<loaded, exited, thread, requests, links, running>>
    BY <1>5 DEF GcArm, processes
  <2> QED
    BY <2>1, <2>2, UntouchedInv DEF Inv, TypeOK
<1>6. CASE \E r \in requests : AttachArm(r)
  BY <1>6, AttachInv
<1>7. ASSUME NEW p \in Procs, Exit(p) PROVE Inv'
  <2>1. loaded' \in [Procs -> SUBSET Files] /\ exited' \subseteq Procs
    BY <1>7 DEF Exit, Inv, TypeOK
  <2>2. UNCHANGED <<thread, requests, links, new_pids_batch, known_pids, running>>
    BY <1>7 DEF Exit, loop
  <2> QED
    BY <2>1, <2>2, UntouchedInv DEF Inv, TypeOK
<1>8. ASSUME NEW p \in Procs, Event(p) PROVE Inv'
  <2>1. new_pids_batch' \subseteq Procs
    BY <1>8 DEF Event, Inv, TypeOK
  <2>2. UNCHANGED <<loaded, exited, thread, requests, links, known_pids, running>>
    BY <1>8 DEF Event, processes
  <2> QED
    BY <2>1, <2>2, UntouchedInv DEF Inv, TypeOK
<1>9. ASSUME NEW p \in Procs, NEW f \in Files, Load(p, f) PROVE Inv'
  <2>1. loaded' \in [Procs -> SUBSET Files]
    BY <1>9 DEF Load, Inv, TypeOK
  <2>2. UNCHANGED <<exited, thread, requests, links, new_pids_batch, known_pids, running>>
    BY <1>9 DEF Load, loop
  <2> QED
    BY <2>1, <2>2, UntouchedInv DEF Inv, TypeOK
<1>10. CASE UNCHANGED vars
  <2>1. UNCHANGED <<loaded, exited, thread, requests, links, new_pids_batch, known_pids, running>>
    BY <1>10 DEF vars, processes, loop
  <2> QED
    BY <2>1, UntouchedInv DEF Inv, TypeOK
<1> QED
  BY <1>1, <1>2, <1>3, <1>4, <1>5, <1>6, <1>7, <1>8, <1>9, <1>10 DEF Next, ThreadStep

(* The invariant holds of every behaviour. *)
LEMMA Invariance == Spec => []Inv
BY InitInv, NextInv, PTL DEF Spec

(* The state of discovery and attach is well typed, scans find only files  *)
(* that are not attached, and every request in the channel is for a file   *)
(* the thread takes to be attached.                                        *)
THEOREM TypeCorrect == Spec => []TypeOK
<1>1. Inv => TypeOK
  BY DEF Inv
<1> QED
  BY <1>1, Invariance, PTL

(* The discovery thread and the attach arm together never attach to the    *)
(* same file twice, a --cudart whose initial attach failed excepted.       *)
THEOREM NoDoubleAttach == Spec => []OneAttempt
<1>1. Inv => OneAttempt
  BY DEF Inv
<1> QED
  BY <1>1, Invariance, PTL
=============================================================================
