--------------------------- MODULE MCHandleCache ---------------------------
(***************************************************************************)
(* Instances of HandleCache for TLC.                                       *)
(***************************************************************************)
EXTENDS HandleCache, TLC

CONSTANTS p1, p2, none, podA

(* Two processes of one pod.  Both have the empty label until the watcher  *)
(* knows their pod, and share it with each other then as well.             *)
SharedPods == p1 :> {none, podA} @@ p2 :> {none, podA}

(* The processes have the same pods, and nothing else tells them apart. *)
PidSymmetry == Permutations({p1, p2})
=============================================================================
