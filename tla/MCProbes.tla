------------------------------ MODULE MCProbes ------------------------------
(***************************************************************************)
(* Instances of Probes for TLC.                                            *)
(***************************************************************************)
EXTENDS Probes, TLC

CONSTANTS t1, t2

OneProcess == t1 :> 1 @@ t2 :> 1

CallFns == {"cudaMallocAsync", "cudaFree", "cudaLaunchKernel", "cuLaunchKernel", "ncclAllReduce"}

EntryFns == {"cudaMalloc", "cuModuleLoadData", "cudaLaunchKernel", GetFunction,
             RegisterFunction}

(* The runtime wraps the driver, and NCCL launches kernels. *)
Wrappers ==
  {<<"cudaLaunchKernel", "cuLaunchKernel">>, <<"cudaLaunchKernel", "cuLaunchCooperativeKernel">>,
   <<"ncclAllReduce", "cuLaunchKernelEx">>, <<"ncclAllReduce", "cudaLaunchKernel">>,
   <<"cudaGraphLaunch", "cuGraphLaunch">>}

(* The first launch or allocation of a process loads its modules. *)
LazyLoading ==
  {<<"cudaLaunchKernel", GetFunction>>, <<"cudaLaunchKernel", "cuModuleLoadData">>,
   <<"cudaMalloc", "cuModuleLoadData">>, <<GetFunction, "cuModuleLoadData">>}
=============================================================================
