------------------------------- MODULE Probes -------------------------------
(***************************************************************************)
(* The eBPF side of profi: the uprobe and uretprobe programs of            *)
(* src/bpf/profi.bpf.c, driven by application threads that call the probed *)
(* CUDA and NCCL functions.                                                *)
(*                                                                         *)
(* An application thread is a stack of open calls.  Entering a call runs   *)
(* its entry program, leaving it runs its return program; each program is  *)
(* one step.  Between the two the call may make the inner calls InnerCalls *)
(* allows (a runtime function calls the driver, NCCL launches kernels),    *)
(* and other threads run.                                                  *)
(*                                                                         *)
(* A per-CPU hash map is modelled by the sum over its CPUs: the programs   *)
(* only ever add to the slot of their own CPU and userspace only ever      *)
(* reads the sum.                                                          *)
(***************************************************************************)
EXTENDS Integers, Sequences, FiniteSets, BpfMaps, Sums

CONSTANTS
  Threads,        \* pid_tgid values of the application threads
  PidOf,          \* the process of each thread
  Cpus,           \* CPUs, each with its own SAMPLE_COUNTER slot
  Fns,            \* the probed functions the applications call
  InnerCalls,     \* pairs <<outer, inner>>: inner may be called inside outer
  Addrs,          \* device addresses, positive
  Sizes,          \* allocation sizes, positive
  MaxDepth,       \* bound: calls open at once in one thread
  MaxCalls,       \* bound: calls made in a behaviour
  Faults,         \* what may go wrong, a subset of FaultKinds
  SampleRate,     \* SAMPLE_RATE[0]
  AggMode,        \* KERNEL_AGG_MODE[0]: 1 in anonymous mode, else 0
  Detailed,       \* DETAILED_LAUNCHES[0] = 1
  InflightSize,   \* max_entries of INFLIGHT
  MallocPtrsSize, \* max_entries of MALLOC_PTRS
  MallocSizesSize,\* max_entries of MALLOC_SIZES
  AggSize,        \* max_entries of AGGREGATED
  LaunchAggSize,  \* max_entries of LAUNCH_AGG
  NcclAggSize,    \* max_entries of NCCL_AGG
  RingSize,       \* records EVENTS and KERNEL_REGS can hold
  NoEntry         \* INFLIGHT holds nothing for a thread

(* A call fails, a read of user memory faults, a thread is killed. *)
FaultKinds == {"call_fails", "read_faults", "kill"}

-----------------------------------------------------------------------------
(* The probed functions, by what their programs do.                        *)

MallocFns == {"cudaMalloc", "cudaMallocAsync"}

FreeFns == {"cudaFree", "cudaFreeAsync"}

MemcpyFns == {"cudaMemcpy", "cudaMemcpyAsync"}

PlainFns == {"cudaStreamSynchronize", "cudaEventSynchronize",
             "cudaMallocHost", "cudaFreeHost", "cudaMemset", "cudaMemsetAsync",
             "cudaGraphLaunch", "cudaGraphInstantiate", "cuModuleLoadData"}

DriverLaunchFns == {"cuLaunchKernel", "cuLaunchKernelEx",
                    "cuLaunchCooperativeKernel", "cuGraphLaunch"}

LaunchFns == {"cudaLaunchKernel"} \cup DriverLaunchFns

NcclFns == {"ncclAllReduce", "ncclAllGather", "ncclReduceScatter",
            "ncclBroadcast", "ncclSend", "ncclRecv"}

GetFunction == "cuModuleGetFunction"

RegisterFunction == "__cudaRegisterFunction"

AllFns == MallocFns \cup FreeFns \cup MemcpyFns \cup PlainFns \cup LaunchFns
            \cup NcclFns \cup {GetFunction, RegisterFunction}

(* Events carry the name of their function, except that every launch is an *)
(* EVENT_CUDA_LAUNCH_KERNEL.                                               *)
LaunchKernel == "cudaLaunchKernel"

EventOf(fn) == IF fn \in LaunchFns THEN LaunchKernel ELSE fn

Events == {EventOf(fn) : fn \in Fns}

profi_is_aggregatable == MallocFns \cup FreeFns \cup MemcpyFns \cup PlainFns

profi_is_nccl_event == NcclFns
-----------------------------------------------------------------------------
Pids == {PidOf[t] : t \in Threads}

(* A call: its argument (a size, a device address or a function handle),   *)
(* the value it leaves behind its pointer argument, its return code, and   *)
(* whether its body has run.                                               *)
Frame == [fn : AllFns, arg : Nat, res : Nat, rc : {0, 1}, done : BOOLEAN]

(* INFLIGHT values.  owner is a history field: the depth of the call whose *)
(* entry program stored the entry.                                         *)
EntryData == [event_type : Events, arg0 : Nat, owner : Nat]

(* AggKey in AGGREGATED and in NCCL_AGG; the last component is error_code. *)
CudaKey == (Events \cap profi_is_aggregatable) \X Pids \X {0, 1}

NcclKey == (Events \cap profi_is_nccl_event) \X Pids \X {0, 1}

AggValue == [count : Nat, size : Nat]

EmptyAgg == [count |-> 0, size |-> 0]

(* Handle 0 stands for every kernel of a process in anonymous mode. *)
LaunchKey == Pids \X (Addrs \cup Sizes \cup {0, 1})

ASSUME ConstantsAssumption ==
  /\ IsFiniteSet(Threads) /\ IsFiniteSet(Cpus) /\ IsFiniteSet(Fns)
  /\ IsFiniteSet(Addrs) /\ IsFiniteSet(Sizes)
  /\ Fns \subseteq AllFns
  /\ Addrs \subseteq Nat \ {0}
  /\ Sizes \subseteq Nat \ {0}
  /\ MaxDepth \in Nat /\ MaxCalls \in Nat /\ SampleRate \in Nat /\ RingSize \in Nat
  /\ {InflightSize, MallocPtrsSize, MallocSizesSize} \subseteq Nat \ {0}
  /\ {AggSize, LaunchAggSize, NcclAggSize} \subseteq Nat
  /\ AggMode \in {0, 1}
  /\ Detailed \in BOOLEAN
  /\ Faults \subseteq FaultKinds
  /\ NoEntry \notin EntryData

VARIABLES
  stack,          \* the open calls of each thread, innermost last
  dead,           \* the threads that were killed
  heap,           \* device memory: size of the allocation at an address, or 0
  calls,          \* number of calls made so far
  INFLIGHT,
  MALLOC_PTRS,    \* depth of the call whose pointer argument is held, or 0
  MALLOC_SIZES,
  SAMPLE_COUNTER,
  AGGREGATED,
  NCCL_AGG,
  LAUNCH_AGG,
  EVENTS,
  KERNEL_REGS,    \* number of records in the ring
  DROPPED,
  LAUNCH_DROPPED,
  UPGRADED_PIDS,
  descents,       \* history: the events of the calls that began the descents of a
                  \* thread, since its last outermost call began
  descending,     \* history: nothing returned to emit_exit since the last call began
  recorded        \* history: the events recorded since that outermost call began

app == <<stack, dead, heap, calls>>
tracking == <<INFLIGHT, MALLOC_PTRS, MALLOC_SIZES, SAMPLE_COUNTER>>
sinks == <<AGGREGATED, NCCL_AGG, LAUNCH_AGG, EVENTS, DROPPED, LAUNCH_DROPPED>>
vars == <<app, tracking, sinks, KERNEL_REGS, UPGRADED_PIDS, descents, descending, recorded>>
-----------------------------------------------------------------------------
Init ==
  /\ stack = [t \in Threads |-> <<>>]
  /\ dead = {}
  /\ heap = [m \in Pids \X Addrs |-> 0]
  /\ calls = 0
  /\ INFLIGHT = [t \in Threads |-> NoEntry]
  /\ MALLOC_PTRS = [t \in Threads |-> 0]
  /\ MALLOC_SIZES = [m \in Pids \X Addrs |-> 0]
  /\ SAMPLE_COUNTER = [c \in Cpus |-> 0]
  /\ AGGREGATED = [k \in CudaKey |-> EmptyAgg]
  /\ NCCL_AGG = [k \in NcclKey |-> 0]
  /\ LAUNCH_AGG = [k \in LaunchKey |-> 0]
  /\ EVENTS = <<>>
  /\ KERNEL_REGS = 0
  /\ DROPPED = 0
  /\ LAUNCH_DROPPED = 0
  /\ UPGRADED_PIDS = {}
  /\ descents = [t \in Threads |-> <<>>]
  /\ descending = [t \in Threads |-> FALSE]
  /\ recorded = [t \in Threads |-> <<>>]

-----------------------------------------------------------------------------
(* Application threads.                                                    *)

Top(t) == stack[t][Len(stack[t])]

(* A call of fn begins; its entry program runs in the same step.  f is the *)
(* new frame.                                                              *)
Call(t, f) ==
  /\ t \notin dead
  /\ f.fn \in Fns
  /\ calls < MaxCalls
  /\ Len(stack[t]) < MaxDepth
  /\ stack[t] # <<>> => <<Top(t).fn, f.fn>> \in InnerCalls
  /\ stack' = [stack EXCEPT ![t] = Append(@, f)]
  /\ calls' = calls + 1
  /\ descents' = [descents EXCEPT ![t] = IF stack[t] = <<>> THEN <<EventOf(f.fn)>>
                                         ELSE IF descending[t] THEN @
                                         ELSE Append(@, EventOf(f.fn))]
  /\ descending' = [descending EXCEPT ![t] = TRUE]
  /\ recorded' = IF stack[t] = <<>> THEN [recorded EXCEPT ![t] = <<>>]
                                    ELSE recorded
  /\ UNCHANGED <<dead, heap, sinks, KERNEL_REGS, UPGRADED_PIDS>>

NewFrame(fn, arg) == [fn |-> fn, arg |-> arg, res |-> 0, rc |-> 0, done |-> FALSE]

(* The innermost call of t returns; its return program runs in the same    *)
(* step.  The memory functions return only after their body has run.       *)
Leave(t) ==
  /\ t \notin dead
  /\ stack[t] # <<>>
  /\ Top(t).fn \in MallocFns \cup FreeFns => Top(t).done
  /\ stack' = [stack EXCEPT ![t] = SubSeq(@, 1, Len(@) - 1)]
  /\ UNCHANGED <<dead, heap, calls, SAMPLE_COUNTER, UPGRADED_PIDS, descents>>

(* The return code of the innermost call. *)
ReturnCodes(t) ==
  IF Top(t).fn \in MallocFns \cup FreeFns THEN {Top(t).rc}
  ELSE IF "call_fails" \in Faults THEN {0, 1} ELSE {0}

Ran(t, res, rc) ==
  stack' = [stack EXCEPT ![t][Len(stack[t])].res = res,
                         ![t][Len(stack[t])].rc = rc,
                         ![t][Len(stack[t])].done = TRUE]

(* The body of cudaMalloc: the driver picks a free address.  When it       *)
(* fails, the caller's pointer keeps whatever it held before.              *)
MallocBody(t) ==
  /\ t \notin dead /\ stack[t] # <<>> /\ Top(t).fn \in MallocFns /\ ~Top(t).done
  /\ \/ \E a \in Addrs :
          /\ heap[<<PidOf[t], a>>] = 0
          /\ heap' = [heap EXCEPT ![<<PidOf[t], a>>] = Top(t).arg]
          /\ Ran(t, a, 0)
     \/ /\ "call_fails" \in Faults
        /\ \E old \in Addrs \cup {0} : Ran(t, old, 1)
        /\ UNCHANGED heap
  /\ UNCHANGED <<dead, calls, tracking, sinks, KERNEL_REGS, UPGRADED_PIDS,
                 descents, descending, recorded>>

FreeBody(t) ==
  /\ t \notin dead /\ stack[t] # <<>> /\ Top(t).fn \in FreeFns /\ ~Top(t).done
  /\ LET m == <<PidOf[t], Top(t).arg>>
     IN  \/ /\ heap' = IF Top(t).arg = 0 THEN heap ELSE [heap EXCEPT ![m] = 0]
            /\ Ran(t, 0, 0)
         \/ /\ "call_fails" \in Faults
            /\ UNCHANGED heap
            /\ Ran(t, 0, 1)
  /\ UNCHANGED <<dead, calls, tracking, sinks, KERNEL_REGS, UPGRADED_PIDS,
                 descents, descending, recorded>>

(* A thread is killed, possibly inside calls that will never return. *)
Kill(t) ==
  /\ "kill" \in Faults
  /\ t \notin dead
  /\ dead' = dead \cup {t}
  /\ stack' = [stack EXCEPT ![t] = <<>>]
  /\ UNCHANGED <<heap, calls, tracking, sinks, KERNEL_REGS, UPGRADED_PIDS,
                 descents, descending, recorded>>
-----------------------------------------------------------------------------
(* Entry programs.                                                         *)

StoreEntry(t, ev, a0) ==
  INFLIGHT' \in LruPut(INFLIGHT, NoEntry, InflightSize, t,
                       [event_type |-> ev, arg0 |-> a0, owner |-> Len(stack[t]) + 1])

(* Mutant: no recursion guard. *)
save_entry_Unguarded(t, cpu, ev, a0) ==
  StoreEntry(t, ev, a0) /\ UNCHANGED SAMPLE_COUNTER

(* Mutant: the counter advances only when a call is skipped. *)
save_entry_StuckCounter(t, cpu, ev, a0) ==
  \/ /\ INFLIGHT[t] # NoEntry
     /\ UNCHANGED <<INFLIGHT, SAMPLE_COUNTER>>
  \/ /\ INFLIGHT[t] = NoEntry
     /\ IF SAMPLE_COUNTER[cpu] % SampleRate = 0
        THEN StoreEntry(t, ev, a0) /\ UNCHANGED SAMPLE_COUNTER
        ELSE /\ SAMPLE_COUNTER' = [SAMPLE_COUNTER EXCEPT ![cpu] = @ + 1]
             /\ UNCHANGED INFLIGHT

save_entry(t, cpu, ev, a0) ==
  LET sampled == ev \in profi_is_aggregatable /\ SampleRate > 1
      c == SAMPLE_COUNTER[cpu]
  IN  \/ /\ INFLIGHT[t] # NoEntry
         /\ UNCHANGED <<INFLIGHT, SAMPLE_COUNTER>>
      \/ /\ INFLIGHT[t] = NoEntry /\ sampled
         /\ SAMPLE_COUNTER' = [SAMPLE_COUNTER EXCEPT ![cpu] = c + 1]
         /\ IF c % SampleRate # 0 THEN UNCHANGED INFLIGHT ELSE StoreEntry(t, ev, a0)
      \/ /\ INFLIGHT[t] = NoEntry /\ ~sampled
         /\ StoreEntry(t, ev, a0)
         /\ UNCHANGED SAMPLE_COUNTER

(* The application passes a null pointer only in a call that then fails. *)
EnterMalloc(t, cpu, fn, size) ==
  /\ \/ /\ Call(t, NewFrame(fn, size))
        /\ MALLOC_PTRS' \in LruPut(MALLOC_PTRS, 0, MallocPtrsSize, t, Len(stack[t]) + 1)
     \/ /\ "call_fails" \in Faults
        /\ Call(t, [NewFrame(fn, size) EXCEPT !.rc = 1, !.done = TRUE])
        /\ UNCHANGED MALLOC_PTRS
  /\ save_entry(t, cpu, EventOf(fn), size)
  /\ UNCHANGED MALLOC_SIZES

(* A correct application frees an allocation once, after the call that     *)
(* returned it, or the null pointer.                                       *)
MayFree(p, a) ==
  a # 0 =>
     /\ heap[<<p, a>>] # 0
     /\ \A u \in Threads : \A i \in DOMAIN stack[u] : LET f == stack[u][i] IN
          PidOf[u] = p => ~ \/ f.fn \in FreeFns /\ ~f.done /\ f.arg = a
                            \/ f.fn \in MallocFns /\ f.rc = 0 /\ f.res = a

(* Mutant: the size of a freed address stays in MALLOC_SIZES. *)
EnterFree_KeepSize(t, cpu, fn, a) ==
  /\ MayFree(PidOf[t], a)
  /\ Call(t, NewFrame(fn, a))
  /\ save_entry(t, cpu, EventOf(fn), IF a = 0 THEN 0 ELSE MALLOC_SIZES[<<PidOf[t], a>>])
  /\ UNCHANGED <<MALLOC_PTRS, MALLOC_SIZES>>

EnterFree(t, cpu, fn, a) ==
  LET m == <<PidOf[t], a>>
      freed_size == IF a = 0 THEN 0 ELSE MALLOC_SIZES[m]
  IN  /\ MayFree(PidOf[t], a)
      /\ Call(t, NewFrame(fn, a))
      /\ MALLOC_SIZES' = IF a = 0 THEN MALLOC_SIZES ELSE [MALLOC_SIZES EXCEPT ![m] = 0]
      /\ save_entry(t, cpu, EventOf(fn), freed_size)
      /\ UNCHANGED MALLOC_PTRS

(* Every other paired function: save_entry with its arguments. *)
EnterOther(t, cpu, fn) ==
  /\ fn \in MemcpyFns \cup PlainFns \cup LaunchFns \cup NcclFns
  /\ Call(t, NewFrame(fn, 1))
  /\ save_entry(t, cpu, EventOf(fn), 1)
  /\ UNCHANGED <<MALLOC_PTRS, MALLOC_SIZES>>

(* cuModuleGetFunction stores its entry without asking whether there is    *)
(* one already; null arguments store nothing.                              *)
EnterGetFunction(t) ==
  /\ Call(t, NewFrame(GetFunction, 1))
  /\ \/ StoreEntry(t, GetFunction, 1)
     \/ UNCHANGED INFLIGHT
  /\ UNCHANGED <<MALLOC_PTRS, MALLOC_SIZES, SAMPLE_COUNTER>>

(* __cudaRegisterFunction: an entry program only; a null argument emits    *)
(* nothing, and a full ring is ignored.                                    *)
cuda_register_function(t) ==
  /\ t \notin dead
  /\ RegisterFunction \in Fns
  /\ calls < MaxCalls
  /\ calls' = calls + 1
  /\ \/ KERNEL_REGS' = IF KERNEL_REGS < RingSize THEN KERNEL_REGS + 1 ELSE KERNEL_REGS
     \/ UNCHANGED KERNEL_REGS
  /\ UNCHANGED <<stack, dead, heap, tracking, sinks, UPGRADED_PIDS, descents, descending,
                 recorded>>
-----------------------------------------------------------------------------
(* Return programs.                                                        *)

(* A reserve that fails bumps DROPPED. *)
SubmitEvent(t, e) ==
  IF Len(EVENTS) < RingSize
  THEN /\ EVENTS' = Append(EVENTS, <<e.event_type, PidOf[t]>>)
       /\ UNCHANGED DROPPED
  ELSE /\ DROPPED' = DROPPED + 1
       /\ UNCHANGED EVENTS

(* Mutant: size_sum is set, not added to. *)
AggregateCuda_SetSize(t, e, rc) ==
  LET k == <<e.event_type, PidOf[t], rc>>
  IN  /\ e.event_type \in profi_is_aggregatable
      /\ AGGREGATED' = [AGGREGATED EXCEPT ![k].count = @ + 1, ![k].size = e.arg0]
      /\ UNCHANGED <<NCCL_AGG, LAUNCH_AGG, EVENTS, DROPPED, LAUNCH_DROPPED>>

(* A new key that finds AGGREGATED full is lost without a trace. *)
AggregateCuda(t, e, rc) ==
  LET k   == <<e.event_type, PidOf[t], rc>>
      mul == IF SampleRate > 1 THEN SampleRate ELSE 1
      new == [count |-> AGGREGATED[k].count + mul,
              size  |-> AGGREGATED[k].size + e.arg0 * mul]
  IN  /\ e.event_type \in profi_is_aggregatable
      /\ AGGREGATED' = IF HasRoom(AGGREGATED, EmptyAgg, AggSize, k)
                       THEN [AGGREGATED EXCEPT ![k] = new] ELSE AGGREGATED
      /\ UNCHANGED <<NCCL_AGG, LAUNCH_AGG, EVENTS, DROPPED, LAUNCH_DROPPED>>

AggregateNccl(t, e, rc) ==
  LET k == <<e.event_type, PidOf[t], rc>>
  IN  /\ e.event_type \in profi_is_nccl_event
      /\ NCCL_AGG' = IF HasRoom(NCCL_AGG, 0, NcclAggSize, k)
                     THEN [NCCL_AGG EXCEPT ![k] = @ + 1] ELSE NCCL_AGG
      /\ UNCHANGED <<AGGREGATED, LAUNCH_AGG, EVENTS, DROPPED, LAUNCH_DROPPED>>

(* Mutant: a launch that finds LAUNCH_AGG full is not counted as dropped. *)
AggregateLaunch_Silent(t, e) ==
  LET mode == IF PidOf[t] \in UPGRADED_PIDS THEN 0 ELSE AggMode
      k    == <<PidOf[t], IF mode = 1 THEN 0 ELSE e.arg0>>
  IN  /\ e.event_type = LaunchKernel
      /\ LAUNCH_AGG' = IF HasRoom(LAUNCH_AGG, 0, LaunchAggSize, k)
                       THEN [LAUNCH_AGG EXCEPT ![k] = @ + 1] ELSE LAUNCH_AGG
      /\ IF mode = 1 \/ ~Detailed THEN UNCHANGED <<EVENTS, DROPPED>>
                                  ELSE SubmitEvent(t, e)
      /\ UNCHANGED <<AGGREGATED, NCCL_AGG, LAUNCH_DROPPED>>

(* Launches always go to LAUNCH_AGG, and to the ring as well when they are *)
(* traced in full and in detail.                                           *)
AggregateLaunch(t, e) ==
  LET mode == IF PidOf[t] \in UPGRADED_PIDS THEN 0 ELSE AggMode
      k    == <<PidOf[t], IF mode = 1 THEN 0 ELSE e.arg0>>
  IN  /\ e.event_type = LaunchKernel
      /\ IF HasRoom(LAUNCH_AGG, 0, LaunchAggSize, k)
         THEN /\ LAUNCH_AGG' = [LAUNCH_AGG EXCEPT ![k] = @ + 1]
              /\ UNCHANGED LAUNCH_DROPPED
         ELSE /\ LAUNCH_DROPPED' = LAUNCH_DROPPED + 1
              /\ UNCHANGED LAUNCH_AGG
      /\ IF mode = 1 \/ ~Detailed THEN UNCHANGED <<EVENTS, DROPPED>>
                                  ELSE SubmitEvent(t, e)
      /\ UNCHANGED <<AGGREGATED, NCCL_AGG>>

(* The entry of a cuModuleGetFunction whose inner call returns first. *)
EmitOther(t, e) ==
  /\ e.event_type \notin profi_is_aggregatable \cup profi_is_nccl_event \cup {LaunchKernel}
  /\ SubmitEvent(t, e)
  /\ UNCHANGED <<AGGREGATED, NCCL_AGG, LAUNCH_AGG, LAUNCH_DROPPED>>

(* emit_exit takes whatever entry the thread has in flight. *)
emit_exit(t, rc) ==
  /\ descending' = [descending EXCEPT ![t] = FALSE]
  /\ \/ /\ INFLIGHT[t] = NoEntry
        /\ UNCHANGED <<INFLIGHT, sinks, recorded>>
     \/ /\ INFLIGHT[t] # NoEntry
        /\ LET e == INFLIGHT[t]
           IN  /\ \/ AggregateCuda(t, e, rc)
                  \/ AggregateNccl(t, e, rc)
                  \/ AggregateLaunch(t, e)
                  \/ EmitOther(t, e)
               /\ recorded' = [recorded EXCEPT ![t] = Append(@, e.event_type)]
        /\ INFLIGHT' = [INFLIGHT EXCEPT ![t] = NoEntry]

(* Mutant: MALLOC_PTRS keeps the pointer of a call that has returned. *)
LeaveMalloc_KeepPtr(t) ==
  /\ Leave(t)
  /\ Top(t).fn \in MallocFns
  /\ \E rc \in ReturnCodes(t) : emit_exit(t, rc)
  /\ UNCHANGED <<MALLOC_PTRS, MALLOC_SIZES, KERNEL_REGS>>

(* The size recorded is arg0 of whatever entry is in flight, and the       *)
(* return code is not looked at.                                           *)
LeaveMalloc(t) ==
  LET slot == MALLOC_PTRS[t]
  IN  /\ Leave(t)
      /\ Top(t).fn \in MallocFns
      /\ MALLOC_PTRS' = [MALLOC_PTRS EXCEPT ![t] = 0]
      /\ IF slot # 0 /\ INFLIGHT[t] # NoEntry
         THEN LET dev_ptr == stack[t][slot].res
              IN  \/ /\ dev_ptr # 0
                     /\ MALLOC_SIZES' \in LruPut(MALLOC_SIZES, 0, MallocSizesSize,
                                                 <<PidOf[t], dev_ptr>>, INFLIGHT[t].arg0)
                  \/ /\ dev_ptr = 0 \/ "read_faults" \in Faults
                     /\ UNCHANGED MALLOC_SIZES
         ELSE UNCHANGED MALLOC_SIZES
      /\ \E rc \in ReturnCodes(t) : emit_exit(t, rc)
      /\ UNCHANGED KERNEL_REGS

LeaveOther(t) ==
  /\ Leave(t)
  /\ Top(t).fn \notin MallocFns \cup {GetFunction}
  /\ \E rc \in ReturnCodes(t) : emit_exit(t, rc)
  /\ UNCHANGED <<MALLOC_PTRS, MALLOC_SIZES, KERNEL_REGS>>

(* Mutant: a failed read returns without removing the entry. *)
LeaveGetFunction_Leak(t) ==
  /\ Leave(t)
  /\ Top(t).fn = GetFunction
  /\ \/ INFLIGHT' = [INFLIGHT EXCEPT ![t] = NoEntry]
     \/ "read_faults" \in Faults /\ UNCHANGED INFLIGHT
  /\ UNCHANGED <<MALLOC_PTRS, MALLOC_SIZES, KERNEL_REGS, sinks, descending, recorded>>

(* Leaves an entry of another type alone; a failed read or a full ring     *)
(* still removes the entry.                                                *)
LeaveGetFunction(t) ==
  LET mine == INFLIGHT[t] # NoEntry /\ INFLIGHT[t].event_type = GetFunction
      room == mine /\ KERNEL_REGS < RingSize
  IN  /\ Leave(t)
      /\ Top(t).fn = GetFunction
      /\ INFLIGHT' = IF mine THEN [INFLIGHT EXCEPT ![t] = NoEntry] ELSE INFLIGHT
      /\ \/ KERNEL_REGS' = IF room THEN KERNEL_REGS + 1 ELSE KERNEL_REGS
         \/ "read_faults" \in Faults /\ UNCHANGED KERNEL_REGS
      /\ UNCHANGED <<MALLOC_PTRS, MALLOC_SIZES, sinks, descending, recorded>>

(* Userspace writes UPGRADED_PIDS (see Enricher). *)
WriteUpgraded(p) ==
  /\ \/ UPGRADED_PIDS' = UPGRADED_PIDS \cup {p}
     \/ UPGRADED_PIDS' = UPGRADED_PIDS \ {p}
  /\ UNCHANGED <<app, tracking, sinks, KERNEL_REGS, descents, descending, recorded>>

ThreadStep(t) ==
  \/ \E cpu \in Cpus :
       \/ \E fn \in MallocFns, size \in Sizes : EnterMalloc(t, cpu, fn, size)
       \/ \E fn \in FreeFns, a \in Addrs \cup {0} : EnterFree(t, cpu, fn, a)
       \/ \E fn \in Fns : EnterOther(t, cpu, fn)
  \/ EnterGetFunction(t)
  \/ cuda_register_function(t)
  \/ MallocBody(t) \/ FreeBody(t)
  \/ LeaveMalloc(t) \/ LeaveOther(t) \/ LeaveGetFunction(t)
  \/ Kill(t)

Next == (\E t \in Threads : ThreadStep(t)) \/ (\E p \in Pids : WriteUpgraded(p))

Spec == Init /\ [][Next]_vars
-----------------------------------------------------------------------------
(* Properties.                                                             *)

AppOK ==
  /\ stack \in [Threads -> Seq(Frame)]
  /\ dead \subseteq Threads
  /\ heap \in [Pids \X Addrs -> Nat]
  /\ calls \in Nat

TrackingOK ==
  /\ INFLIGHT \in [Threads -> EntryData \cup {NoEntry}]
  /\ MALLOC_PTRS \in [Threads -> Nat]
  /\ MALLOC_SIZES \in [Pids \X Addrs -> Nat]
  /\ SAMPLE_COUNTER \in [Cpus -> Nat]

SinksOK ==
  /\ AGGREGATED \in [CudaKey -> AggValue]
  /\ NCCL_AGG \in [NcclKey -> Nat]
  /\ LAUNCH_AGG \in [LaunchKey -> Nat]
  /\ EVENTS \in Seq(Events \X Pids)
  /\ DROPPED \in Nat
  /\ LAUNCH_DROPPED \in Nat
  /\ KERNEL_REGS \in Nat
  /\ UPGRADED_PIDS \subseteq Pids

GhostOK ==
  /\ descents \in [Threads -> Seq(Events)]
  /\ descending \in [Threads -> BOOLEAN]
  /\ recorded \in [Threads -> Seq(Events)]

(* A MALLOC_PTRS slot of a live thread names an allocation call that is    *)
(* still open, so the pointer a return program reads through is never one  *)
(* of a frame that is gone.                                                *)
PtrOwned ==
  \A t \in Threads \ dead : MALLOC_PTRS[t] # 0 =>
    /\ MALLOC_PTRS[t] \in 1 .. Len(stack[t])
    /\ stack[t][MALLOC_PTRS[t]].fn \in MallocFns

(* The state of the application threads, of the maps of profi.bpf.c and of *)
(* the history variables has the declared types, the pointers held in      *)
(* MALLOC_PTRS included.                                                   *)
TypeOK == AppOK /\ TrackingOK /\ SinksOK /\ GhostOK /\ PtrOwned

(* An INFLIGHT entry never outlives the call whose entry program stored    *)
(* it, as long as its thread lives: whatever is in flight belongs to a     *)
(* call still open in that thread, and carries that call's event type.  A  *)
(* leftover entry would make the recursion guard of save_entry swallow     *)
(* every later call of the thread, and give emit_exit a bogus duration.    *)
EntryOwned ==
  \A t \in Threads \ dead : INFLIGHT[t] # NoEntry =>
    LET e == INFLIGHT[t]
    IN  /\ e.owner \in 1 .. Len(stack[t])
        /\ e.event_type = EventOf(stack[t][e.owner].fn)

(* What the recursion guard of save_entry achieves.  A descent is a call   *)
(* that an application makes, or that is made after another returned,      *)
(* together with the calls inside it until something returns.  Of each     *)
(* descent exactly one event is recorded, that of the call that began it,  *)
(* in the order of the descents.  So the inner calls of a descent are      *)
(* skipped, as the comment on the guard says, but the return of the        *)
(* innermost one takes the entry of the wrapper, and the next call inside  *)
(* the wrapper is a descent of its own.  Holds without sampling,           *)
(* cuModuleGetFunction and INFLIGHT evictions.                             *)
OneEventPerDescent ==
  \A t \in Threads \ dead : stack[t] = <<>> => recorded[t] = descents[t]

(* A size cuda_free can find in MALLOC_SIZES is the size of the allocation *)
(* that is live at that address, even though the driver hands addresses    *)
(* out again as soon as they are free and other threads allocate and free  *)
(* in between.                                                             *)
MallocSizesSound ==
  \A m \in Pids \X Addrs : MALLOC_SIZES[m] # 0 => MALLOC_SIZES[m] = heap[m]

Quiescent == \A t \in Threads : stack[t] = <<>>

(* Sums over the keys of AGGREGATED; a key that is not there counts 0. *)
SizeSum(p, fns) == Sum([k \in {k \in CudaKey : k[1] \in fns /\ k[2] = p} |-> AGGREGATED[k].size])

CountSum == Sum([k \in CudaKey |-> AGGREGATED[k].count])

HeapSize(p) == Sum([a \in Addrs |-> heap[<<p, a>>]])

(* profi_cuda_active_memory_bytes, computed by the event loop as bytes     *)
(* allocated less bytes freed, is the device memory the process holds      *)
(* whenever no call is open.                                               *)
NetMemory ==
  Quiescent => \A p \in Pids :
    SizeSum(p, MallocFns) - SizeSum(p, FreeFns) = HeapSize(p)

(* Sampling keeps one call in SampleRate of each CPU, the first included,  *)
(* and emit_exit weighs what it records SampleRate times: with the entries *)
(* in flight, the counts never exceed the calls save_entry considered by   *)
(* SampleRate or more for a CPU, whatever is killed, evicted or lost.      *)
SampleBound ==
  LET kept     == [c \in Cpus |-> (SAMPLE_COUNTER[c] + SampleRate - 1) \div SampleRate]
      inFlight == {t \in Threads : /\ INFLIGHT[t] # NoEntry
                                   /\ INFLIGHT[t].event_type \in profi_is_aggregatable}
  IN  CountSum + SampleRate * Cardinality(inFlight) <= SampleRate * Sum(kept)

(* Launches leave emit_exit on two ways: into LAUNCH_AGG, and into EVENTS   *)
(* when they are traced in full and in detail.  The two agree while pids   *)
(* are promoted and demoted under running calls: every launch that went to *)
(* the ring (or to DROPPED) is counted under its kernel handle, up to the  *)
(* launches LAUNCH_DROPPED reports, and none is only in LAUNCH_AGG.        *)
LaunchesAccounted ==
  LET count  == Sum([k \in {k \in LaunchKey : k[2] # 0} |-> LAUNCH_AGG[k]])
      traced == Len(EVENTS) + DROPPED
  IN  count <= traced /\ traced <= count + LAUNCH_DROPPED
=============================================================================
