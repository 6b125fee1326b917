---------------------------- MODULE MCDiscovery -----------------------------
(***************************************************************************)
(* Instances of Discovery for TLC: two processes that share copies of the  *)
(* runtime, the driver and NCCL.                                           *)
(***************************************************************************)
EXTENDS Discovery, TLC

CONSTANTS rt, drv, coll

ThreeLibs == {"libcudart.so", "libnccl.so", "libcuda.so"}

LibOfFile ==
  [f \in Files |-> IF f = rt THEN "libcudart.so"
                   ELSE IF f = drv THEN "libcuda.so" ELSE NCCL]

TwoPrograms == [lib \in ThreeLibs |-> 2]

(* The runtime in one process, NCCL in the other, the driver in both. *)
SharedMaps == 1 :> <<rt, drv>> @@ 2 :> <<drv, coll>>

AllReachable == Procs \X Files
=============================================================================
