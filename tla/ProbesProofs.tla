---------------------------- MODULE ProbesProofs ----------------------------
(***************************************************************************)
(* Proofs about Probes, for any number of threads, processes and CPUs, any *)
(* map sizes, any faults and any nesting of calls.                         *)
(***************************************************************************)
EXTENDS Probes, SumsProofs

(* The provers that try a step which names none, and their time limits.    *)
USE ZenonT(5), SMTT(20), ZenonT(60)

(* EntryOwned is inductive together with the types. *)
Inv == TypeOK /\ EntryOwned

(* What an event is recorded as is one of the events of the functions      *)
(* called.                                                                 *)
LEMMA EventTypes == \A fn \in Fns : EventOf(fn) \in Events
BY DEF Events

(* save_entry changes nothing but the thread's own entry, evictions aside. *)
LEMMA SaveEntryEffect ==
  ASSUME TypeOK, NEW t \in Threads, NEW cpu \in Cpus, NEW ev \in Events, NEW a0 \in Nat,
         save_entry(t, cpu, ev, a0)
  PROVE  /\ INFLIGHT' \in [Threads -> EntryData \cup {NoEntry}]
         /\ SAMPLE_COUNTER' \in [Cpus -> Nat]
         /\ \A u \in Threads :
              \/ INFLIGHT'[u] = INFLIGHT[u]
              \/ INFLIGHT'[u] = NoEntry
              \/ /\ u = t
                 /\ INFLIGHT'[u] = [event_type |-> ev, arg0 |-> a0, owner |-> Len(stack[t]) + 1]
<1> DEFINE e == [event_type |-> ev, arg0 |-> a0, owner |-> Len(stack[t]) + 1]
<1>1. e \in EntryData
  BY SMT DEF TypeOK, AppOK, EntryData
<1>2. CASE StoreEntry(t, ev, a0)
  <2>1. INFLIGHT' \in LruPut(INFLIGHT, NoEntry, InflightSize, t, e)
    BY <1>2 DEF StoreEntry
  <2>2. INFLIGHT \in [Threads -> EntryData \cup {NoEntry}]
    BY DEF TypeOK, TrackingOK
  <2>3. /\ INFLIGHT' \in [Threads -> EntryData \cup {NoEntry}]
        /\ \A u \in Threads : \/ INFLIGHT'[u] = INFLIGHT[u]
                              \/ INFLIGHT'[u] = NoEntry
                              \/ u = t /\ INFLIGHT'[u] = e
    BY <1>1, <2>1, <2>2 DEF LruPut
  <2>4. SAMPLE_COUNTER' \in [Cpus -> Nat]
    BY SMT DEF save_entry, TypeOK, TrackingOK
  <2> QED BY <2>3, <2>4
<1>3. CASE UNCHANGED INFLIGHT
  BY <1>3, SMT DEF save_entry, TypeOK, TrackingOK
<1> QED BY <1>2, <1>3 DEF save_entry

(* A call opens a frame and leaves the others alone. *)
LEMMA CallEffect ==
  ASSUME TypeOK, NEW t \in Threads, NEW f \in Frame, Call(t, f)
  PROVE  /\ AppOK' /\ GhostOK' /\ SinksOK'
         /\ t \notin dead /\ dead' = dead
         /\ f.fn \in Fns
         /\ stack' = [stack EXCEPT ![t] = Append(@, f)]
         /\ Len(stack'[t]) = Len(stack[t]) + 1
         /\ stack'[t][Len(stack[t]) + 1] = f
         /\ \A i \in 1 .. Len(stack[t]) : stack'[t][i] = stack[t][i]
         /\ \A u \in Threads \ {t} : stack'[u] = stack[u]
<1> USE DEF TypeOK, AppOK, GhostOK, SinksOK
<1>1. /\ stack' = [stack EXCEPT ![t] = Append(@, f)]
      /\ stack[t] \in Seq(Frame)
  BY DEF Call
<1>2. /\ stack' \in [Threads -> Seq(Frame)]
      /\ Len(stack'[t]) = Len(stack[t]) + 1
      /\ stack'[t][Len(stack[t]) + 1] = f
      /\ \A i \in 1 .. Len(stack[t]) : stack'[t][i] = stack[t][i]
      /\ \A u \in Threads \ {t} : stack'[u] = stack[u]
  BY <1>1, SMT
<1>3. AppOK' /\ t \notin dead /\ dead' = dead /\ f.fn \in Fns
  BY <1>2, SMT DEF Call
<1>4. GhostOK'
  <2>1. PICK ev \in Events : ev = EventOf(f.fn)
    BY <1>3, EventTypes
  <2>2. descents' \in [Threads -> Seq(Events)]
    <3> DEFINE d == IF stack[t] = <<>> THEN <<ev>>
                    ELSE IF descending[t] THEN descents[t] ELSE Append(descents[t], ev)
    <3>1. d \in Seq(Events)
      BY <2>1, SMT
    <3>2. descents' = [descents EXCEPT ![t] = d]
      BY <2>1 DEF Call
    <3> QED BY <3>1, <3>2
  <2>3. descending' \in [Threads -> BOOLEAN]
    BY Zenon DEF Call
  <2>4. recorded' \in [Threads -> Seq(Events)]
    BY SMT DEF Call
  <2> QED BY <2>2, <2>3, <2>4
<1>5. SinksOK'
  BY DEF Call, sinks
<1> QED BY <1>1, <1>2, <1>3, <1>4, <1>5

(* A return closes the innermost frame and leaves the others alone. *)
LEMMA LeaveEffect ==
  ASSUME TypeOK, NEW t \in Threads, Leave(t)
  PROVE  /\ AppOK'
         /\ t \notin dead /\ dead' = dead
         /\ Top(t) \in Frame
         /\ Len(stack[t]) \in Nat \ {0}
         /\ Len(stack'[t]) = Len(stack[t]) - 1
         /\ \A i \in 1 .. Len(stack[t]) - 1 : stack'[t][i] = stack[t][i]
         /\ \A u \in Threads \ {t} : stack'[u] = stack[u]
         /\ UNCHANGED <<SAMPLE_COUNTER, UPGRADED_PIDS, descents>>
<1> USE DEF TypeOK, AppOK
<1>1. /\ stack' = [stack EXCEPT ![t] = SubSeq(@, 1, Len(@) - 1)]
      /\ stack[t] \in Seq(Frame) /\ stack[t] # <<>>
  BY DEF Leave
<1>2. /\ Len(stack[t]) \in Nat \ {0}
      /\ Top(t) \in Frame
  BY <1>1, SMT DEF Top
<1>3. /\ stack' \in [Threads -> Seq(Frame)]
      /\ Len(stack'[t]) = Len(stack[t]) - 1
      /\ \A i \in 1 .. Len(stack[t]) - 1 : stack'[t][i] = stack[t][i]
      /\ \A u \in Threads \ {t} : stack'[u] = stack[u]
  <2> DEFINE n == Len(stack[t]) - 1
  <2>1. stack'[t] = SubSeq(stack[t], 1, n) /\ n \in Nat
    BY <1>1, <1>2, SMT
  <2>2. /\ SubSeq(stack[t], 1, n) \in Seq(Frame)
        /\ Len(SubSeq(stack[t], 1, n)) = n
        /\ \A i \in 1 .. n : SubSeq(stack[t], 1, n)[i] = stack[t][i]
    <3>1. \A i \in 1 .. n : stack[t][i] \in Frame
      BY <1>1, <1>2, SMT
    <3> HIDE DEF n
    <3> QED BY <1>1, <2>1, <3>1, SMT
  <2> QED BY <1>1, <2>1, <2>2
<1> QED BY <1>2, <1>3 DEF Leave

-----------------------------------------------------------------------------
(* Entry programs.                                                         *)

-----------------------------------------------------------------------------
(* Return programs.                                                        *)

(* The return code of a call is one of those the aggregation keys know. *)
LEMMA ReturnCodeType ==
  ASSUME TypeOK, NEW t \in Threads, Leave(t)
  PROVE  ReturnCodes(t) \subseteq {0, 1}
<1>1. Top(t).rc \in {0, 1}
  BY LeaveEffect DEF Frame
<1> QED BY <1>1 DEF ReturnCodes

-----------------------------------------------------------------------------
(* The bodies of the calls, kills, and the other steps.                    *)

-----------------------------------------------------------------------------
LEMMA InitInv == Init => Inv
<1> SUFFICES ASSUME Init PROVE Inv
  OBVIOUS
<1>1. AppOK /\ TrackingOK
  BY DEF Init, AppOK, TrackingOK
<1>2. SinksOK
  BY DEF Init, SinksOK, EmptyAgg, AggValue
<1>3. GhostOK
  BY DEF Init, GhostOK
<1>4. PtrOwned /\ EntryOwned
  BY DEF Init, PtrOwned, EntryOwned
<1> QED BY <1>1, <1>2, <1>3, <1>4 DEF Inv, TypeOK

LEMMA NextInv == Inv /\ [Next]_vars => Inv'
(* A count that is bumped stays a count. *)
<1>BumpType.
  ASSUME NEW D, NEW f \in [D -> Nat], NEW k
  PROVE  [f EXCEPT ![k] = @ + 1] \in [D -> Nat]
  <2> USE <1>BumpType
  <2>1. CASE k \in D
    BY <2>1, SMT
  <2>2. CASE k \notin D
    BY <2>2
  <2> QED BY <2>1, <2>2
(* emit_exit leaves the thread without an entry whatever branch it takes,  *)
(* and adds to its sinks.                                                  *)
<1>EmitExitEffect.
  ASSUME TypeOK, NEW t \in Threads, NEW rc \in {0, 1}, emit_exit(t, rc),
         UNCHANGED <<KERNEL_REGS, UPGRADED_PIDS, descents>>
  PROVE  /\ SinksOK' /\ GhostOK'
         /\ INFLIGHT' = [INFLIGHT EXCEPT ![t] = NoEntry]
  <2> USE <1>EmitExitEffect
  <2> DEFINE e == INFLIGHT[t]
  <2>1. CASE e = NoEntry
    BY <2>1 DEF emit_exit, sinks, TypeOK, SinksOK, GhostOK, TrackingOK
  <2>2. CASE e # NoEntry
    <3>1. /\ e \in EntryData /\ e.event_type \in Events /\ e.arg0 \in Nat
          /\ PidOf[t] \in Pids
      BY <2>2 DEF TypeOK, TrackingOK, EntryData, Pids
    <3>2. /\ recorded' = [recorded EXCEPT ![t] = Append(@, e.event_type)]
          /\ INFLIGHT' = [INFLIGHT EXCEPT ![t] = NoEntry]
      BY <2>2 DEF emit_exit
    <3>3. GhostOK'
      <4>1. recorded' \in [Threads -> Seq(Events)]
        BY <3>1, <3>2, SMT DEF TypeOK, GhostOK
      <4>2. descending' \in [Threads -> BOOLEAN]
        BY Zenon DEF emit_exit, TypeOK, GhostOK
      <4> QED BY <4>1, <4>2 DEF TypeOK, GhostOK
    <3>4. CASE AggregateCuda(t, e, rc)
      <4> DEFINE k == <<e.event_type, PidOf[t], rc>>
                 mul == IF SampleRate > 1 THEN SampleRate ELSE 1
                 new == [count |-> AGGREGATED[k].count + mul,
                         size  |-> AGGREGATED[k].size + e.arg0 * mul]
      <4>1. k \in CudaKey
        BY <3>1, <3>4 DEF AggregateCuda, CudaKey
      <4>2. AGGREGATED[k] \in AggValue
        BY <4>1 DEF TypeOK, SinksOK
      <4>3. mul \in Nat /\ e.arg0 * mul \in Nat
        BY <3>1, ConstantsAssumption, SMT
      <4>4. new \in AggValue
        BY <4>2, <4>3, SMT DEF AggValue
      <4>5. AGGREGATED' \in [CudaKey -> AggValue]
        BY <4>4, <3>4 DEF AggregateCuda, TypeOK, SinksOK
      <4> QED BY <3>2, <3>3, <3>4, <4>5 DEF AggregateCuda, TypeOK, SinksOK
    <3>5. CASE AggregateNccl(t, e, rc)
      <4>1. NCCL_AGG' \in [NcclKey -> Nat]
        BY <3>5, <1>BumpType DEF AggregateNccl, TypeOK, SinksOK
      <4> QED BY <3>2, <3>3, <3>5, <4>1 DEF AggregateNccl, TypeOK, SinksOK
    <3>6. ASSUME SubmitEvent(t, e)
          PROVE  EVENTS' \in Seq(Events \X Pids) /\ DROPPED' \in Nat
      <4>1. <<e.event_type, PidOf[t]>> \in Events \X Pids
        BY <3>1
      <4>2. EVENTS \in Seq(Events \X Pids) /\ DROPPED \in Nat
        BY DEF TypeOK, SinksOK
      <4>3. Append(EVENTS, <<e.event_type, PidOf[t]>>) \in Seq(Events \X Pids)
        BY <4>1, <4>2
      <4>4. CASE Len(EVENTS) < RingSize
        BY <3>6, <4>2, <4>3, <4>4 DEF SubmitEvent
      <4>5. CASE ~(Len(EVENTS) < RingSize)
        BY <3>6, <4>2, <4>5 DEF SubmitEvent
      <4> QED BY <4>4, <4>5
    <3>7. CASE AggregateLaunch(t, e)
      <4>1. EVENTS' \in Seq(Events \X Pids) /\ DROPPED' \in Nat
        BY <3>6, <3>7 DEF AggregateLaunch, TypeOK, SinksOK
      <4>2. LAUNCH_AGG' \in [LaunchKey -> Nat] /\ LAUNCH_DROPPED' \in Nat
        <5>1. LAUNCH_AGG \in [LaunchKey -> Nat] /\ LAUNCH_DROPPED \in Nat
          BY DEF TypeOK, SinksOK
        <5>2. \/ UNCHANGED LAUNCH_AGG /\ LAUNCH_DROPPED' = LAUNCH_DROPPED + 1
              \/ \E k : LAUNCH_AGG' = [LAUNCH_AGG EXCEPT ![k] = @ + 1] /\ UNCHANGED LAUNCH_DROPPED
          BY <3>7 DEF AggregateLaunch
        <5> QED BY <5>1, <5>2, <1>BumpType, SMT
      <4> QED BY <3>2, <3>3, <3>7, <4>1, <4>2 DEF AggregateLaunch, TypeOK, SinksOK
    <3>8. CASE EmitOther(t, e)
      BY <3>2, <3>3, <3>6, <3>8 DEF EmitOther, TypeOK, SinksOK
    <3> QED BY <2>2, <3>4, <3>5, <3>7, <3>8 DEF emit_exit
  <2> QED BY <2>1, <2>2
(* An entry stored by the entry program of a new call belongs to that call. *)
<1>EntryOwnedCall.
  ASSUME Inv, NEW t \in Threads, NEW f \in Frame, Call(t, f), NEW a0 \in Nat,
         \A u \in Threads :
           \/ INFLIGHT'[u] = INFLIGHT[u]
           \/ INFLIGHT'[u] = NoEntry
           \/ /\ u = t
              /\ INFLIGHT'[u] = [event_type |-> EventOf(f.fn), arg0 |-> a0,
                                 owner |-> Len(stack[t]) + 1]
  PROVE  EntryOwned'
  <2> USE <1>EntryOwnedCall
  <2> SUFFICES ASSUME NEW u \in Threads, u \notin dead', INFLIGHT'[u] # NoEntry
               PROVE  /\ INFLIGHT'[u].owner \in 1 .. Len(stack'[u])
                      /\ INFLIGHT'[u].event_type = EventOf(stack'[u][INFLIGHT'[u].owner].fn)
    BY DEF EntryOwned
  <2>1. /\ Len(stack'[t]) = Len(stack[t]) + 1 /\ Len(stack[t]) \in Nat
        /\ stack'[t][Len(stack[t]) + 1] = f
        /\ \A i \in 1 .. Len(stack[t]) : stack'[t][i] = stack[t][i]
        /\ \A w \in Threads \ {t} : stack'[w] = stack[w]
        /\ dead' = dead
    <3>1. Len(stack[t]) \in Nat
      BY SMT DEF Inv, TypeOK, AppOK
    <3> QED BY <3>1, CallEffect DEF Inv
  <2>2. CASE INFLIGHT'[u] = INFLIGHT[u]
    <3>1. /\ INFLIGHT[u].owner \in 1 .. Len(stack[u])
          /\ INFLIGHT[u].event_type = EventOf(stack[u][INFLIGHT[u].owner].fn)
      BY <2>1, <2>2 DEF Inv, EntryOwned
    <3> DEFINE i == INFLIGHT[u].owner
    <3>2. i \in 1 .. Len(stack'[u]) /\ stack'[u][i] = stack[u][i]
      <4>1. i \in 1 .. Len(stack[u])
        BY <3>1
      <4> HIDE DEF i
      <4>2. CASE u = t
        BY <2>1, <4>1, <4>2, SMT
      <4>3. CASE u # t
        BY <2>1, <4>1, <4>3
      <4> QED BY <4>2, <4>3
    <3> QED BY <2>2, <3>1, <3>2
  <2>3. CASE /\ u = t
             /\ INFLIGHT'[u] = [event_type |-> EventOf(f.fn), arg0 |-> a0,
                                owner |-> Len(stack[t]) + 1]
    BY <2>1, <2>3, SMT
  <2> QED BY <2>2, <2>3
(* A new call does not disturb the pointers held for the calls below it. *)
<1>PtrOwnedCall.
  ASSUME Inv, NEW t \in Threads, NEW f \in Frame, Call(t, f),
         \A u \in Threads :
           \/ MALLOC_PTRS'[u] = MALLOC_PTRS[u]
           \/ MALLOC_PTRS'[u] = 0
           \/ u = t /\ f.fn \in MallocFns /\ MALLOC_PTRS'[u] = Len(stack[t]) + 1
  PROVE  PtrOwned'
  <2> USE <1>PtrOwnedCall
  <2> SUFFICES ASSUME NEW u \in Threads, u \notin dead', MALLOC_PTRS'[u] # 0
               PROVE  /\ MALLOC_PTRS'[u] \in 1 .. Len(stack'[u])
                      /\ stack'[u][MALLOC_PTRS'[u]].fn \in MallocFns
    BY DEF PtrOwned
  <2>1. /\ Len(stack'[t]) = Len(stack[t]) + 1 /\ Len(stack[t]) \in Nat
        /\ stack'[t][Len(stack[t]) + 1] = f
        /\ \A i \in 1 .. Len(stack[t]) : stack'[t][i] = stack[t][i]
        /\ \A w \in Threads \ {t} : stack'[w] = stack[w]
        /\ dead' = dead
    <3>1. Len(stack[t]) \in Nat
      BY SMT DEF Inv, TypeOK, AppOK
    <3> QED BY <3>1, CallEffect DEF Inv
  <2>2. CASE MALLOC_PTRS'[u] = MALLOC_PTRS[u]
    <3>1. /\ MALLOC_PTRS[u] \in 1 .. Len(stack[u])
          /\ stack[u][MALLOC_PTRS[u]].fn \in MallocFns
      BY <2>1, <2>2 DEF Inv, TypeOK, PtrOwned
    <3>2. CASE u = t
      BY <2>1, <2>2, <3>1, <3>2, SMT
    <3>3. CASE u # t
      BY <2>1, <2>2, <3>1, <3>3
    <3> QED BY <3>2, <3>3
  <2>3. CASE u = t /\ f.fn \in MallocFns /\ MALLOC_PTRS'[u] = Len(stack[t]) + 1
    BY <2>1, <2>3
  <2> QED BY <2>2, <2>3
(* What the entry programs built on save_entry have in common. *)
<1>SavedCall.
  ASSUME Inv, NEW t \in Threads, NEW cpu \in Cpus, NEW f \in Frame, NEW a0 \in Nat,
         Call(t, f), save_entry(t, cpu, EventOf(f.fn), a0)
  PROVE  /\ INFLIGHT' \in [Threads -> EntryData \cup {NoEntry}]
         /\ SAMPLE_COUNTER' \in [Cpus -> Nat]
         /\ EntryOwned'
  <2> USE <1>SavedCall
  <2>1. TypeOK
    BY DEF Inv
  <2>2. EventOf(f.fn) \in Events
    BY <2>1, CallEffect, EventTypes
  <2>3. /\ INFLIGHT' \in [Threads -> EntryData \cup {NoEntry}]
        /\ SAMPLE_COUNTER' \in [Cpus -> Nat]
        /\ \A u \in Threads :
             \/ INFLIGHT'[u] = INFLIGHT[u]
             \/ INFLIGHT'[u] = NoEntry
             \/ /\ u = t
                /\ INFLIGHT'[u] = [event_type |-> EventOf(f.fn), arg0 |-> a0,
                                   owner |-> Len(stack[t]) + 1]
    <3> DEFINE ev == EventOf(f.fn)
    <3>1. ev \in Events /\ save_entry(t, cpu, ev, a0)
      BY <2>2
    <3> HIDE DEF ev
    <3>2. /\ INFLIGHT' \in [Threads -> EntryData \cup {NoEntry}]
          /\ SAMPLE_COUNTER' \in [Cpus -> Nat]
          /\ \A u \in Threads :
               \/ INFLIGHT'[u] = INFLIGHT[u]
               \/ INFLIGHT'[u] = NoEntry
               \/ /\ u = t
                  /\ INFLIGHT'[u] = [event_type |-> ev, arg0 |-> a0, owner |-> Len(stack[t]) + 1]
      BY <2>1, <3>1, SaveEntryEffect, SMT
    <3> QED BY <3>2 DEF ev
  <2>4. EntryOwned'
    BY <2>3, <1>EntryOwnedCall
  <2> QED BY <2>3, <2>4
<1>EnterMallocInv.
  ASSUME Inv, NEW t \in Threads, NEW cpu \in Cpus, NEW fn \in MallocFns, NEW size \in Sizes,
         EnterMalloc(t, cpu, fn, size)
  PROVE  Inv'
  <2> USE <1>EnterMallocInv
  <2>1. PICK f : /\ f \in {NewFrame(fn, size), [NewFrame(fn, size) EXCEPT !.rc = 1, !.done = TRUE]}
                 /\ Call(t, f)
                 /\ \/ UNCHANGED MALLOC_PTRS
                    \/ MALLOC_PTRS' \in LruPut(MALLOC_PTRS, 0, MallocPtrsSize, t, Len(stack[t]) + 1)
    BY DEF EnterMalloc
  <2>2. size \in Nat /\ fn \in AllFns
    BY ConstantsAssumption DEF AllFns
  <2>3. f \in Frame /\ f.fn = fn
    <3>1. NewFrame(fn, size) \in Frame /\ NewFrame(fn, size).fn = fn
      BY <2>2 DEF Frame, NewFrame
    <3>2. LET g == [NewFrame(fn, size) EXCEPT !.rc = 1, !.done = TRUE]
          IN  g \in Frame /\ g.fn = fn
      BY <2>2 DEF Frame, NewFrame
    <3> QED BY <2>1, <3>1, <3>2
  <2>4. /\ AppOK' /\ GhostOK' /\ SinksOK' /\ fn \in Fns
    BY <2>1, <2>3, CallEffect DEF Inv
  <2>6. /\ INFLIGHT' \in [Threads -> EntryData \cup {NoEntry}]
        /\ SAMPLE_COUNTER' \in [Cpus -> Nat]
        /\ EntryOwned'
    <3>1. save_entry(t, cpu, EventOf(f.fn), size)
      BY <2>3 DEF EnterMalloc
    <3> QED BY <2>1, <2>2, <2>3, <3>1, <1>SavedCall
  <2>7. /\ MALLOC_PTRS' \in [Threads -> Nat]
        /\ \A u \in Threads :
             \/ MALLOC_PTRS'[u] = MALLOC_PTRS[u]
             \/ MALLOC_PTRS'[u] = 0
             \/ u = t /\ f.fn \in MallocFns /\ MALLOC_PTRS'[u] = Len(stack[t]) + 1
    <3>1. MALLOC_PTRS \in [Threads -> Nat] /\ Len(stack[t]) + 1 \in Nat
      BY SMT DEF Inv, TypeOK, AppOK, TrackingOK
    <3> QED BY <2>1, <2>3, <3>1, SMT DEF LruPut
  <2>8. PtrOwned'
    BY <2>1, <2>3, <2>7, <1>PtrOwnedCall
  <2>9. TrackingOK'
    BY <2>6, <2>7 DEF EnterMalloc, Inv, TypeOK, TrackingOK
  <2> QED BY <2>4, <2>6, <2>8, <2>9 DEF Inv, TypeOK
<1>EnterFreeInv.
  ASSUME Inv, NEW t \in Threads, NEW cpu \in Cpus, NEW fn \in FreeFns, NEW a \in Addrs \cup {0},
         EnterFree(t, cpu, fn, a)
  PROVE  Inv'
  <2> USE <1>EnterFreeInv
  <2> DEFINE f == NewFrame(fn, a)
             m == <<PidOf[t], a>>
             freed_size == IF a = 0 THEN 0 ELSE MALLOC_SIZES[m]
  <2>1. Call(t, f) /\ UNCHANGED MALLOC_PTRS
    BY DEF EnterFree
  <2>2. f \in Frame /\ f.fn = fn
    BY ConstantsAssumption, SMT DEF Frame, NewFrame, AllFns
  <2>3. freed_size \in Nat
    <3>1. a # 0 => m \in Pids \X Addrs
      BY DEF Pids
    <3> QED BY <3>1 DEF Inv, TypeOK, TrackingOK
  <2>4. AppOK' /\ GhostOK' /\ SinksOK' /\ fn \in Fns
    BY <2>1, <2>2, CallEffect, SMT DEF Inv
  <2>5. save_entry(t, cpu, EventOf(f.fn), freed_size)
    BY <2>2 DEF EnterFree
  <2> HIDE DEF f, freed_size
  <2>6. /\ INFLIGHT' \in [Threads -> EntryData \cup {NoEntry}]
        /\ SAMPLE_COUNTER' \in [Cpus -> Nat]
        /\ EntryOwned'
    BY <2>1, <2>2, <2>3, <2>5, <1>SavedCall
  <2>7. PtrOwned'
    BY <2>1, <2>2, <1>PtrOwnedCall
  <2>8. MALLOC_SIZES' \in [Pids \X Addrs -> Nat]
    BY DEF EnterFree, Inv, TypeOK, TrackingOK
  <2>9. TrackingOK'
    BY <2>1, <2>6, <2>8 DEF Inv, TypeOK, TrackingOK
  <2> QED BY <2>4, <2>6, <2>7, <2>9 DEF Inv, TypeOK
<1>EnterOtherInv.
  ASSUME Inv, NEW t \in Threads, NEW cpu \in Cpus, NEW fn \in Fns, EnterOther(t, cpu, fn)
  PROVE  Inv'
  <2> USE <1>EnterOtherInv
  <2> DEFINE f == NewFrame(fn, 1)
  <2>1. Call(t, f) /\ UNCHANGED <<MALLOC_PTRS, MALLOC_SIZES>>
    BY DEF EnterOther
  <2>2. f \in Frame /\ f.fn = fn
    BY DEF EnterOther, Frame, NewFrame, AllFns
  <2>3. AppOK' /\ GhostOK' /\ SinksOK'
    BY <2>1, <2>2, CallEffect DEF Inv
  <2>4. save_entry(t, cpu, EventOf(f.fn), 1)
    BY <2>2 DEF EnterOther
  <2> HIDE DEF f
  <2>5. /\ INFLIGHT' \in [Threads -> EntryData \cup {NoEntry}]
        /\ SAMPLE_COUNTER' \in [Cpus -> Nat]
        /\ EntryOwned'
    BY <2>1, <2>2, <2>4, <1>SavedCall
  <2>6. PtrOwned'
    BY <2>1, <2>2, <1>PtrOwnedCall
  <2>7. TrackingOK'
    BY <2>1, <2>5 DEF Inv, TypeOK, TrackingOK
  <2> QED BY <2>3, <2>5, <2>6, <2>7 DEF Inv, TypeOK
<1>EnterGetFunctionInv.
  ASSUME Inv, NEW t \in Threads, EnterGetFunction(t)
  PROVE  Inv'
  <2> USE <1>EnterGetFunctionInv
  <2> DEFINE f == NewFrame(GetFunction, 1)
             e == [event_type |-> EventOf(f.fn), arg0 |-> 1, owner |-> Len(stack[t]) + 1]
  <2>1. Call(t, f) /\ UNCHANGED <<MALLOC_PTRS, MALLOC_SIZES, SAMPLE_COUNTER>>
    BY DEF EnterGetFunction
  <2>2. f \in Frame /\ f.fn = GetFunction /\ EventOf(f.fn) = GetFunction
    BY DEF Frame, NewFrame, AllFns, EventOf, LaunchFns, DriverLaunchFns, GetFunction
  <2>3. AppOK' /\ GhostOK' /\ SinksOK' /\ f.fn \in Fns
    BY <2>1, <2>2, CallEffect DEF Inv
  <2>4. e \in EntryData
    BY <2>3, EventTypes, SMT DEF EntryData, Inv, TypeOK, AppOK
  <2>5. /\ INFLIGHT' \in [Threads -> EntryData \cup {NoEntry}]
        /\ \A u \in Threads : \/ INFLIGHT'[u] = INFLIGHT[u]
                              \/ INFLIGHT'[u] = NoEntry
                              \/ u = t /\ INFLIGHT'[u] = e
    <3>1. UNCHANGED INFLIGHT \/ INFLIGHT' \in LruPut(INFLIGHT, NoEntry, InflightSize, t, e)
      BY <2>2 DEF EnterGetFunction, StoreEntry
    <3>2. INFLIGHT \in [Threads -> EntryData \cup {NoEntry}]
      BY DEF Inv, TypeOK, TrackingOK
    <3> HIDE DEF e
    <3> QED BY <2>4, <3>1, <3>2 DEF LruPut
  <2> HIDE DEF f
  <2>6. EntryOwned'
    BY <2>1, <2>2, <2>5, <1>EntryOwnedCall
  <2>7. PtrOwned'
    BY <2>1, <2>2, <1>PtrOwnedCall
  <2>8. TrackingOK'
    BY <2>1, <2>5 DEF Inv, TypeOK, TrackingOK
  <2> QED BY <2>3, <2>6, <2>7, <2>8 DEF Inv, TypeOK
(* A return that removes the thread's entry leaves no entry behind.        *)
<1>EntryOwnedLeave.
  ASSUME Inv, NEW t \in Threads, Leave(t), INFLIGHT' = [INFLIGHT EXCEPT ![t] = NoEntry]
  PROVE  EntryOwned' /\ INFLIGHT' \in [Threads -> EntryData \cup {NoEntry}]
  <2> USE <1>EntryOwnedLeave
  <2>1. /\ \A w \in Threads \ {t} : stack'[w] = stack[w]
        /\ dead' = dead
    BY LeaveEffect DEF Inv
  <2>2. INFLIGHT \in [Threads -> EntryData \cup {NoEntry}]
    BY DEF Inv, TypeOK, TrackingOK
  <2>3. INFLIGHT'[t] = NoEntry /\ \A w \in Threads \ {t} : INFLIGHT'[w] = INFLIGHT[w]
    BY <2>2
  <2>4. EntryOwned'
    BY <2>1, <2>3 DEF Inv, EntryOwned
  <2> QED BY <2>2, <2>4
(* The pointer held for a thread survives the return of a call that is not *)
(* an allocation.                                                          *)
<1>PtrOwnedLeave.
  ASSUME Inv, NEW t \in Threads, Leave(t), Top(t).fn \notin MallocFns, UNCHANGED MALLOC_PTRS
  PROVE  PtrOwned'
  <2> USE <1>PtrOwnedLeave
  <2> SUFFICES ASSUME NEW u \in Threads, u \notin dead', MALLOC_PTRS'[u] # 0
               PROVE  /\ MALLOC_PTRS'[u] \in 1 .. Len(stack'[u])
                      /\ stack'[u][MALLOC_PTRS'[u]].fn \in MallocFns
    BY DEF PtrOwned
  <2>1. /\ Len(stack[t]) \in Nat \ {0}
        /\ Len(stack'[t]) = Len(stack[t]) - 1
        /\ \A i \in 1 .. Len(stack[t]) - 1 : stack'[t][i] = stack[t][i]
        /\ \A w \in Threads \ {t} : stack'[w] = stack[w]
        /\ dead' = dead
    BY LeaveEffect DEF Inv
  <2>2. /\ MALLOC_PTRS[u] \in 1 .. Len(stack[u])
        /\ stack[u][MALLOC_PTRS[u]].fn \in MallocFns
    BY <2>1 DEF Inv, TypeOK, PtrOwned
  <2>3. u = t => MALLOC_PTRS[u] # Len(stack[u])
    BY <2>2 DEF Top
  <2> QED BY <2>1, <2>2, <2>3, SMT
<1>LeaveMallocInv.
  ASSUME Inv, NEW t \in Threads, LeaveMalloc(t)
  PROVE  Inv'
  <2> USE <1>LeaveMallocInv
  <2>1. /\ Leave(t) /\ TypeOK
        /\ MALLOC_PTRS' = [MALLOC_PTRS EXCEPT ![t] = 0]
        /\ UNCHANGED KERNEL_REGS
    BY DEF LeaveMalloc, Inv
  <2>2. /\ AppOK' /\ UNCHANGED <<SAMPLE_COUNTER, UPGRADED_PIDS, descents, dead>>
        /\ \A w \in Threads \ {t} : stack'[w] = stack[w]
    BY <2>1, LeaveEffect
  <2>3. PICK rc \in {0, 1} : emit_exit(t, rc)
    BY <2>1, ReturnCodeType DEF LeaveMalloc
  <2>4. SinksOK' /\ GhostOK' /\ INFLIGHT' = [INFLIGHT EXCEPT ![t] = NoEntry]
    BY <2>1, <2>2, <2>3, <1>EmitExitEffect
  <2>5. EntryOwned' /\ INFLIGHT' \in [Threads -> EntryData \cup {NoEntry}]
    BY <2>1, <2>4, <1>EntryOwnedLeave
  <2>6. MALLOC_PTRS' \in [Threads -> Nat] /\ PtrOwned'
    <3>1. MALLOC_PTRS \in [Threads -> Nat]
      BY <2>1 DEF TypeOK, TrackingOK
    <3>2. MALLOC_PTRS'[t] = 0 /\ \A w \in Threads \ {t} : MALLOC_PTRS'[w] = MALLOC_PTRS[w]
      BY <2>1, <3>1
    <3> QED BY <2>1, <2>2, <3>1, <3>2 DEF TypeOK, PtrOwned
  <2>7. MALLOC_SIZES' \in [Pids \X Addrs -> Nat]
    <3> DEFINE slot == MALLOC_PTRS[t]
    <3>1. MALLOC_SIZES \in [Pids \X Addrs -> Nat]
      BY <2>1 DEF TypeOK, TrackingOK
    <3>2. CASE UNCHANGED MALLOC_SIZES
      BY <3>1, <3>2
    <3>3. CASE /\ INFLIGHT[t] # NoEntry
               /\ MALLOC_SIZES' \in LruPut(MALLOC_SIZES, 0, MallocSizesSize,
                                           <<PidOf[t], stack[t][slot].res>>, INFLIGHT[t].arg0)
      <4>1. INFLIGHT[t].arg0 \in Nat
        BY <2>1, <3>3 DEF TypeOK, TrackingOK, EntryData
      <4> DEFINE m == <<PidOf[t], stack[t][slot].res>>
                 a == INFLIGHT[t].arg0
      <4>2. MALLOC_SIZES' \in LruPut(MALLOC_SIZES, 0, MallocSizesSize, m, a) /\ a \in Nat
        BY <3>3, <4>1
      <4> HIDE DEF slot, m, a
      <4> QED BY <3>1, <4>2, SMT DEF LruPut
    <3> QED BY <3>2, <3>3 DEF LeaveMalloc
  <2>8. TrackingOK'
    BY <2>1, <2>2, <2>5, <2>6, <2>7 DEF TypeOK, TrackingOK
  <2> QED BY <2>2, <2>4, <2>5, <2>6, <2>8 DEF Inv, TypeOK
<1>LeaveOtherInv.
  ASSUME Inv, NEW t \in Threads, LeaveOther(t)
  PROVE  Inv'
  <2> USE <1>LeaveOtherInv
  <2>1. /\ Leave(t) /\ TypeOK /\ Top(t).fn \notin MallocFns
        /\ UNCHANGED <<MALLOC_PTRS, MALLOC_SIZES, KERNEL_REGS>>
    BY DEF LeaveOther, Inv
  <2>2. AppOK' /\ UNCHANGED <<SAMPLE_COUNTER, UPGRADED_PIDS, descents>>
    BY <2>1, LeaveEffect
  <2>3. PICK rc \in {0, 1} : emit_exit(t, rc)
    BY <2>1, ReturnCodeType DEF LeaveOther
  <2>4. SinksOK' /\ GhostOK' /\ INFLIGHT' = [INFLIGHT EXCEPT ![t] = NoEntry]
    BY <2>1, <2>2, <2>3, <1>EmitExitEffect
  <2>5. EntryOwned' /\ INFLIGHT' \in [Threads -> EntryData \cup {NoEntry}]
    BY <2>1, <2>4, <1>EntryOwnedLeave
  <2>6. PtrOwned'
    BY <2>1, <1>PtrOwnedLeave
  <2>7. TrackingOK'
    BY <2>1, <2>2, <2>5 DEF TypeOK, TrackingOK
  <2> QED BY <2>2, <2>4, <2>5, <2>6, <2>7 DEF Inv, TypeOK
(* An entry that the return program of cuModuleGetFunction leaves alone    *)
(* has another type, so it belongs to a call further out.                  *)
<1>LeaveGetFunctionInv.
  ASSUME Inv, NEW t \in Threads, LeaveGetFunction(t)
  PROVE  Inv'
  <2> USE <1>LeaveGetFunctionInv
  <2>1. /\ Leave(t) /\ TypeOK /\ EntryOwned /\ Top(t).fn = GetFunction
        /\ UNCHANGED <<MALLOC_PTRS, MALLOC_SIZES, sinks, descending, recorded>>
    BY DEF LeaveGetFunction, Inv
  <2>2. /\ AppOK' /\ UNCHANGED <<SAMPLE_COUNTER, UPGRADED_PIDS, descents, dead>>
        /\ t \notin dead
        /\ Len(stack[t]) \in Nat \ {0}
        /\ Len(stack'[t]) = Len(stack[t]) - 1
        /\ \A i \in 1 .. Len(stack[t]) - 1 : stack'[t][i] = stack[t][i]
        /\ \A w \in Threads \ {t} : stack'[w] = stack[w]
    BY <2>1, LeaveEffect
  <2>3. SinksOK' /\ GhostOK'
    <3>1. SinksOK /\ GhostOK /\ UNCHANGED <<sinks, descending, recorded, UPGRADED_PIDS, descents>>
      BY <2>1, <2>2 DEF TypeOK
    <3>2. KERNEL_REGS' \in Nat
      BY <3>1 DEF LeaveGetFunction, SinksOK
    <3> QED BY <3>1, <3>2 DEF SinksOK, GhostOK, sinks
  <2>4. GetFunction \notin MallocFns /\ EventOf(GetFunction) = GetFunction
    BY DEF GetFunction, MallocFns, EventOf, LaunchFns, DriverLaunchFns
  <2>5. EntryOwned' /\ INFLIGHT' \in [Threads -> EntryData \cup {NoEntry}]
    <3>1. CASE INFLIGHT' = [INFLIGHT EXCEPT ![t] = NoEntry]
      BY <2>1, <3>1, <1>EntryOwnedLeave
    <3>2. CASE UNCHANGED INFLIGHT /\ (INFLIGHT[t] # NoEntry => INFLIGHT[t].event_type # GetFunction)
      <4>1. INFLIGHT[t] # NoEntry => INFLIGHT[t].owner \in 1 .. Len(stack[t]) - 1
        <5> SUFFICES ASSUME INFLIGHT[t] # NoEntry
                     PROVE  INFLIGHT[t].owner \in 1 .. Len(stack[t]) - 1
          OBVIOUS
        <5> DEFINE i == INFLIGHT[t].owner
                   n == Len(stack[t])
        <5>1. i \in 1 .. n /\ INFLIGHT[t].event_type = EventOf(stack[t][i].fn)
          BY <2>1, <2>2 DEF EntryOwned
        <5>2. EventOf(stack[t][i].fn) # GetFunction /\ EventOf(stack[t][n].fn) = GetFunction
          BY <2>1, <2>4, <3>2, <5>1 DEF Top
        <5>3. i # n /\ n \in Nat
          BY <2>2, <5>2
        <5> HIDE DEF i, n
        <5>4. i \in 1 .. n - 1
          BY <5>1, <5>3
        <5> QED BY <5>4 DEF i, n
      <4>2. EntryOwned'
        <5> SUFFICES ASSUME NEW u \in Threads \ dead, INFLIGHT[u] # NoEntry
                     PROVE  /\ INFLIGHT[u].owner \in 1 .. Len(stack'[u])
                            /\ INFLIGHT[u].event_type = EventOf(stack'[u][INFLIGHT[u].owner].fn)
          BY <2>2, <3>2 DEF EntryOwned
        <5>1. /\ INFLIGHT[u].owner \in 1 .. Len(stack[u])
              /\ INFLIGHT[u].event_type = EventOf(stack[u][INFLIGHT[u].owner].fn)
          BY <2>1 DEF EntryOwned
        <5>2. CASE u = t
          BY <2>2, <4>1, <5>1, <5>2
        <5>3. CASE u # t
          BY <2>2, <5>1, <5>3
        <5> QED BY <5>2, <5>3
      <4> QED BY <2>1, <3>2, <4>2 DEF TypeOK, TrackingOK
    <3> QED BY <3>1, <3>2 DEF LeaveGetFunction
  <2>6. PtrOwned'
    BY <2>1, <2>4, <1>PtrOwnedLeave
  <2>7. TrackingOK'
    BY <2>1, <2>2, <2>5 DEF TypeOK, TrackingOK
  <2> QED BY <2>2, <2>3, <2>5, <2>6, <2>7 DEF Inv, TypeOK
(* Running the body of a call leaves every frame the call it was. *)
<1>RanEffect.
  ASSUME Inv, NEW t \in Threads, stack[t] # <<>>, NEW res \in Nat, NEW rc \in {0, 1},
         Ran(t, res, rc), UNCHANGED <<dead, INFLIGHT, MALLOC_PTRS>>
  PROVE  stack' \in [Threads -> Seq(Frame)] /\ PtrOwned' /\ EntryOwned'
  <2> USE <1>RanEffect
  <2> DEFINE n == Len(stack[t])
             s == [stack[t] EXCEPT ![n] = [stack[t][n] EXCEPT !.res = res, !.rc = rc, !.done = TRUE]]
  <2>1. /\ stack \in [Threads -> Seq(Frame)]
        /\ stack[t] \in Seq(Frame) /\ n \in 1 .. Len(stack[t]) /\ stack[t][n] \in Frame
    BY SMT DEF Inv, TypeOK, AppOK
  <2>2. [stack[t][n] EXCEPT !.res = res, !.rc = rc, !.done = TRUE] \in Frame
    BY <2>1 DEF Frame
  <2>3. /\ s \in Seq(Frame) /\ Len(s) = Len(stack[t])
        /\ \A i \in 1 .. Len(stack[t]) : s[i].fn = stack[t][i].fn
    BY <2>1, <2>2, SMT DEF Frame
  <2>4. stack' = [stack EXCEPT ![t] = s]
    BY <2>1 DEF Ran
  <2> HIDE DEF n, s
  <2>5. /\ stack' \in [Threads -> Seq(Frame)]
        /\ \A u \in Threads : /\ Len(stack'[u]) = Len(stack[u])
                              /\ \A i \in 1 .. Len(stack[u]) : stack'[u][i].fn = stack[u][i].fn
    BY <2>1, <2>3, <2>4
  <2>6. PtrOwned'
    BY <2>5 DEF Inv, TypeOK, PtrOwned
  <2>7. EntryOwned'
    BY <2>5 DEF Inv, EntryOwned
  <2> QED BY <2>5, <2>6, <2>7
<1>MallocBodyInv.
  ASSUME Inv, NEW t \in Threads, MallocBody(t)
  PROVE  Inv'
  <2> USE <1>MallocBodyInv
  <2>1. /\ stack[t] # <<>>
        /\ UNCHANGED <<dead, calls, tracking, sinks, KERNEL_REGS, UPGRADED_PIDS, descents, descending, recorded>>
    BY DEF MallocBody
  <2>2. Top(t).arg \in Nat
    <3>1. stack[t] \in Seq(Frame)
      BY DEF Inv, TypeOK, AppOK
    <3>2. Top(t) \in Frame
      BY <2>1, <3>1 DEF Top
    <3> QED BY <3>2 DEF Frame
  <2>3. PICK res \in Nat, rc \in {0, 1} : Ran(t, res, rc)
    BY ConstantsAssumption DEF MallocBody
  <2>4. stack' \in [Threads -> Seq(Frame)] /\ PtrOwned' /\ EntryOwned'
    BY <2>1, <2>3, <1>RanEffect DEF tracking
  <2>5. heap' \in [Pids \X Addrs -> Nat]
    BY <2>2 DEF MallocBody, Inv, TypeOK, AppOK
  <2> QED
    BY <2>1, <2>4, <2>5 DEF Inv, TypeOK, AppOK, TrackingOK, SinksOK, GhostOK, tracking, sinks
<1>FreeBodyInv.
  ASSUME Inv, NEW t \in Threads, FreeBody(t)
  PROVE  Inv'
  <2> USE <1>FreeBodyInv
  <2>1. /\ stack[t] # <<>>
        /\ UNCHANGED <<dead, calls, tracking, sinks, KERNEL_REGS, UPGRADED_PIDS, descents, descending, recorded>>
    BY DEF FreeBody
  <2>2. PICK rc \in {0, 1} : Ran(t, 0, rc)
    BY DEF FreeBody
  <2>3. stack' \in [Threads -> Seq(Frame)] /\ PtrOwned' /\ EntryOwned'
    BY <2>1, <2>2, <1>RanEffect DEF tracking
  <2>4. heap' \in [Pids \X Addrs -> Nat]
    <3>1. heap \in [Pids \X Addrs -> Nat]
      BY DEF Inv, TypeOK, AppOK
    <3>2. UNCHANGED heap \/ heap' = [heap EXCEPT ![<<PidOf[t], Top(t).arg>>] = 0]
      BY DEF FreeBody
    <3> QED BY <3>1, <3>2, SMT
  <2> QED
    BY <2>1, <2>3, <2>4 DEF Inv, TypeOK, AppOK, TrackingOK, SinksOK, GhostOK, tracking, sinks
<1>KillInv.
  ASSUME Inv, NEW t \in Threads, Kill(t)
  PROVE  Inv'
  <2> USE <1>KillInv
  <2> USE DEF Kill, Inv, TypeOK
  <2>1. AppOK'
    BY SMT DEF AppOK
  <2>2. TrackingOK' /\ SinksOK' /\ GhostOK'
    BY DEF TrackingOK, SinksOK, GhostOK, tracking, sinks
  <2>3. \A u \in Threads \ dead' : u \in Threads \ dead /\ stack'[u] = stack[u]
    BY DEF AppOK
  <2>4. PtrOwned'
    BY <2>3 DEF PtrOwned, tracking
  <2>5. EntryOwned'
    BY <2>3 DEF EntryOwned, tracking
  <2> QED BY <2>1, <2>2, <2>4, <2>5
(* The steps that touch neither a stack nor a map of the pairing. *)
<1>RestInv.
  ASSUME Inv,
         \/ \E t \in Threads : cuda_register_function(t)
         \/ \E p \in Pids : WriteUpgraded(p)
         \/ UNCHANGED vars
  PROVE  Inv'
  <2> USE <1>RestInv
  <2>1. /\ UNCHANGED <<stack, dead, heap, tracking, sinks, descents, descending, recorded>>
        /\ calls' \in Nat /\ KERNEL_REGS' \in Nat /\ UPGRADED_PIDS' \subseteq Pids
    BY SMT DEF cuda_register_function, WriteUpgraded, vars, app, Inv, TypeOK, AppOK, SinksOK
  <2>2. AppOK' /\ TrackingOK' /\ SinksOK' /\ GhostOK'
    BY <2>1 DEF Inv, TypeOK, AppOK, TrackingOK, SinksOK, GhostOK, tracking, sinks
  <2>3. PtrOwned' /\ EntryOwned'
    BY <2>1 DEF Inv, TypeOK, PtrOwned, EntryOwned, tracking
  <2> QED BY <2>2, <2>3 DEF Inv, TypeOK
<1> SUFFICES ASSUME Inv, [Next]_vars PROVE Inv'
  OBVIOUS
<1>1. ASSUME NEW t \in Threads, NEW cpu \in Cpus, NEW fn \in MallocFns, NEW size \in Sizes,
             EnterMalloc(t, cpu, fn, size)
      PROVE  Inv'
  BY <1>1, <1>EnterMallocInv
<1>2. ASSUME NEW t \in Threads, NEW cpu \in Cpus, NEW fn \in FreeFns,
             NEW a \in Addrs \cup {0}, EnterFree(t, cpu, fn, a)
      PROVE  Inv'
  BY <1>2, <1>EnterFreeInv
<1>3. ASSUME NEW t \in Threads, NEW cpu \in Cpus, NEW fn \in Fns, EnterOther(t, cpu, fn)
      PROVE  Inv'
  BY <1>3, <1>EnterOtherInv
<1>4. ASSUME NEW t \in Threads,
             \/ EnterGetFunction(t) \/ LeaveGetFunction(t)
             \/ LeaveMalloc(t) \/ LeaveOther(t)
             \/ MallocBody(t) \/ FreeBody(t) \/ Kill(t)
      PROVE  Inv'
  BY <1>4, <1>EnterGetFunctionInv, <1>LeaveGetFunctionInv, <1>LeaveMallocInv, <1>LeaveOtherInv,
     <1>MallocBodyInv, <1>FreeBodyInv, <1>KillInv
<1>5. CASE \/ \E t \in Threads : cuda_register_function(t)
           \/ \E p \in Pids : WriteUpgraded(p)
           \/ UNCHANGED vars
  BY <1>5, <1>RestInv
<1> QED BY <1>1, <1>2, <1>3, <1>4, <1>5 DEF Next, ThreadStep

(* The state keeps its types, and a pointer held in MALLOC_PTRS always     *)
(* belongs to an allocation call that is still open, whatever the calls,   *)
(* their nesting, the map sizes and the faults.                            *)
THEOREM TypeCorrect == Spec => []TypeOK
<1>1. Inv => TypeOK
  BY DEF Inv
<1> QED BY InitInv, NextInv, <1>1, PTL DEF Spec

(* An INFLIGHT entry of a live thread always belongs to a call open in     *)
(* that thread: every path through the return programs removes what the    *)
(* entry program of the returning call stored.                             *)
THEOREM EntriesOwned == Spec => []EntryOwned
<1>1. Inv => EntryOwned
  BY DEF Inv
<1> QED BY InitInv, NextInv, <1>1, PTL DEF Spec
-----------------------------------------------------------------------------
(* The steps by what they do to the maps.                                  *)

(* A call begins whose entry program is save_entry. *)
Enter(t, cpu, f, a0) ==
  /\ Call(t, f)
  /\ save_entry(t, cpu, EventOf(f.fn), a0)
  /\ f.fn \in profi_is_aggregatable \cup profi_is_nccl_event \cup LaunchFns
  /\ f.fn \in LaunchFns => a0 = 1

(* A call returns whose return program is emit_exit. *)
Exit(t, rc) == Leave(t) /\ emit_exit(t, rc)

LEMMA NextKinds ==
  ASSUME TypeOK, [Next]_vars
  PROVE  \/ \E t \in Threads, cpu \in Cpus, f \in Frame, a0 \in Nat : Enter(t, cpu, f, a0)
         \/ \E t \in Threads : EnterGetFunction(t)
         \/ \E t \in Threads, rc \in {0, 1} : Exit(t, rc)
         \/ \E t \in Threads : LeaveGetFunction(t)
         \/ dead \subseteq dead' /\ UNCHANGED <<tracking, sinks, descents, descending, recorded>>
<1>0. \A fn : fn \in MallocFns \cup FreeFns => fn \notin LaunchFns
  BY DEF MallocFns, FreeFns, LaunchFns, DriverLaunchFns
<1>1. ASSUME NEW t \in Threads, NEW cpu \in Cpus, NEW fn \in MallocFns, NEW size \in Sizes,
             EnterMalloc(t, cpu, fn, size)
      PROVE  \E f \in Frame, a0 \in Nat : Enter(t, cpu, f, a0)
  <2>1. size \in Nat /\ fn \in AllFns
    BY ConstantsAssumption DEF AllFns
  <2>2. PICK f \in Frame : f.fn = fn /\ Call(t, f)
    <3>1. NewFrame(fn, size) \in Frame /\ NewFrame(fn, size).fn = fn
      BY <2>1 DEF Frame, NewFrame
    <3>2. LET g == [NewFrame(fn, size) EXCEPT !.rc = 1, !.done = TRUE]
          IN  g \in Frame /\ g.fn = fn
      BY <2>1 DEF Frame, NewFrame
    <3> QED BY <1>1, <3>1, <3>2 DEF EnterMalloc
  <2>3. save_entry(t, cpu, EventOf(f.fn), size)
    BY <1>1, <2>2 DEF EnterMalloc
  <2> QED BY <1>0, <2>1, <2>2, <2>3 DEF Enter, profi_is_aggregatable
<1>2. ASSUME NEW t \in Threads, NEW cpu \in Cpus, NEW fn \in FreeFns,
             NEW a \in Addrs \cup {0}, EnterFree(t, cpu, fn, a)
      PROVE  \E f \in Frame, a0 \in Nat : Enter(t, cpu, f, a0)
  <2>1. PICK f \in Frame : f.fn = fn /\ Call(t, f)
    <3>1. NewFrame(fn, a) \in Frame /\ NewFrame(fn, a).fn = fn
      BY ConstantsAssumption, SMT DEF Frame, NewFrame, AllFns
    <3> QED BY <1>2, <3>1 DEF EnterFree
  <2>2. PICK n \in Nat : save_entry(t, cpu, EventOf(f.fn), n)
    <3>1. (IF a = 0 THEN 0 ELSE MALLOC_SIZES[<<PidOf[t], a>>]) \in Nat
      <4>1. a # 0 => <<PidOf[t], a>> \in Pids \X Addrs
        BY DEF Pids
      <4> QED BY <4>1 DEF TypeOK, TrackingOK
    <3> QED BY <1>2, <2>1, <3>1 DEF EnterFree
  <2> QED BY <1>0, <2>1, <2>2 DEF Enter, profi_is_aggregatable
<1>3. ASSUME NEW t \in Threads, NEW cpu \in Cpus, NEW fn \in Fns, EnterOther(t, cpu, fn)
      PROVE  \E f \in Frame, a0 \in Nat : Enter(t, cpu, f, a0)
  <2>1. fn \in MemcpyFns \cup PlainFns \cup LaunchFns \cup NcclFns
    BY <1>3 DEF EnterOther
  <2>2. PICK f \in Frame : f.fn = fn /\ Call(t, f)
    <3>1. NewFrame(fn, 1) \in Frame /\ NewFrame(fn, 1).fn = fn
      BY <2>1 DEF Frame, NewFrame, AllFns
    <3> QED BY <1>3, <3>1 DEF EnterOther
  <2>3. save_entry(t, cpu, EventOf(f.fn), 1)
    BY <1>3, <2>2 DEF EnterOther
  <2> QED BY <2>1, <2>2, <2>3 DEF Enter, profi_is_aggregatable, profi_is_nccl_event
<1>4. ASSUME NEW t \in Threads, LeaveMalloc(t) \/ LeaveOther(t)
      PROVE  \E rc \in {0, 1} : Exit(t, rc)
  <2>1. Leave(t)
    BY <1>4 DEF LeaveMalloc, LeaveOther
  <2> QED BY <1>4, <2>1, ReturnCodeType DEF LeaveMalloc, LeaveOther, Exit
<1>5. ASSUME NEW t \in Threads,
             cuda_register_function(t) \/ MallocBody(t) \/ FreeBody(t) \/ Kill(t)
      PROVE  dead \subseteq dead' /\ UNCHANGED <<tracking, sinks, descents, descending, recorded>>
  BY <1>5 DEF cuda_register_function, MallocBody, FreeBody, Kill
<1>6. CASE (\E p \in Pids : WriteUpgraded(p)) \/ UNCHANGED vars
  BY <1>6 DEF WriteUpgraded, vars, app
<1> QED BY <1>1, <1>2, <1>3, <1>4, <1>5, <1>6 DEF Next, ThreadStep
-----------------------------------------------------------------------------
(* The recursion guard.                                                    *)

(* INFLIGHT has room for every thread, nothing is sampled, and the one     *)
(* function whose program overwrites the entry is not called.              *)
Guarded ==
  /\ Cardinality(Threads) <= InflightSize
  /\ SampleRate <= 1
  /\ GetFunction \notin Fns

(* While a thread descends, the entry in flight is that of the call that   *)
(* began the descent, and it is the only one not yet recorded; otherwise   *)
(* nothing is in flight and everything is recorded.                        *)
Followed(t) ==
  IF descending[t]
  THEN INFLIGHT[t] # NoEntry /\ descents[t] = Append(recorded[t], INFLIGHT[t].event_type)
  ELSE INFLIGHT[t] = NoEntry /\ descents[t] = recorded[t]

DescentInv == Guarded /\ Inv /\ \A t \in Threads \ dead : Followed(t)

(* While INFLIGHT has room for every thread, nothing is evicted. *)
LEMMA RoomForAll ==
  ASSUME TypeOK, Cardinality(Threads) <= InflightSize, NEW t \in Threads, INFLIGHT[t] = NoEntry
  PROVE  t \notin Present(INFLIGHT, NoEntry) /\ Cardinality(Present(INFLIGHT, NoEntry)) < InflightSize
<1> DEFINE used == Present(INFLIGHT, NoEntry)
<1>1. used \subseteq Threads \ {t} /\ t \notin used
  BY DEF Present, TypeOK, TrackingOK
<1>2. IsFiniteSet(Threads) /\ InflightSize \in Nat
  BY ConstantsAssumption
<1>3. IsFiniteSet(Threads \ {t}) /\ Cardinality(Threads \ {t}) = Cardinality(Threads) - 1
  BY <1>2, FS_RemoveElement
<1> HIDE DEF used
<1>4. Cardinality(used) <= Cardinality(Threads \ {t}) /\ Cardinality(used) \in Nat
  BY <1>1, <1>3, FS_Subset, FS_CardinalityType
<1>5. Cardinality(Threads) \in Nat
  BY <1>2, FS_CardinalityType
<1>6. Cardinality(used) < InflightSize
  BY <1>2, <1>3, <1>4, <1>5
<1> QED BY <1>1, <1>6 DEF used

(* save_entry stores the entry of a call that finds none, and nothing else. *)
LEMMA GuardedSave ==
  ASSUME TypeOK, Cardinality(Threads) <= InflightSize, SampleRate <= 1,
         NEW t \in Threads, NEW cpu \in Cpus, NEW ev \in Events, NEW a0 \in Nat,
         save_entry(t, cpu, ev, a0)
  PROVE  IF INFLIGHT[t] # NoEntry THEN UNCHANGED INFLIGHT
         ELSE /\ INFLIGHT' = [INFLIGHT EXCEPT ![t] = [event_type |-> ev, arg0 |-> a0,
                                                      owner |-> Len(stack[t]) + 1]]
              /\ INFLIGHT'[t] # NoEntry /\ INFLIGHT'[t].event_type = ev
              /\ \A u \in Threads \ {t} : INFLIGHT'[u] = INFLIGHT[u]
<1> DEFINE e == [event_type |-> ev, arg0 |-> a0, owner |-> Len(stack[t]) + 1]
<1>1. CASE INFLIGHT[t] # NoEntry
  BY <1>1 DEF save_entry
<1>2. CASE INFLIGHT[t] = NoEntry
  <2>1. SampleRate \in Nat /\ ~(SampleRate > 1)
    BY ConstantsAssumption
  <2>2. INFLIGHT' \in LruPut(INFLIGHT, NoEntry, InflightSize, t, e)
    BY <1>2, <2>1 DEF save_entry, StoreEntry
  <2>3. Cardinality(Present(INFLIGHT, NoEntry)) < InflightSize
    BY <1>2, RoomForAll
  <2>4. e \in EntryData /\ e.event_type = ev
    BY SMT DEF TypeOK, AppOK, EntryData
  <2>5. e # NoEntry
    BY <2>4, ConstantsAssumption
  <2> HIDE DEF e
  <2>6. INFLIGHT' = [INFLIGHT EXCEPT ![t] = e]
    BY <2>2, <2>3 DEF LruPut
  <2>7. INFLIGHT'[t] = e /\ \A u \in Threads \ {t} : INFLIGHT'[u] = INFLIGHT[u]
    BY <2>6 DEF TypeOK, TrackingOK
  <2>8. INFLIGHT' = [INFLIGHT EXCEPT ![t] = [event_type |-> ev, arg0 |-> a0, owner |-> Len(stack[t]) + 1]]
    BY <2>6 DEF e
  <2> QED BY <1>2, <2>4, <2>5, <2>7, <2>8
<1> QED BY <1>1, <1>2

(* A thread without open calls has nothing in flight. *)
LEMMA NothingOpen ==
  ASSUME Inv, NEW t \in Threads \ dead, stack[t] = <<>>
  PROVE  INFLIGHT[t] = NoEntry
<1>1. Len(stack[t]) = 0
  OBVIOUS
<1>2. INFLIGHT[t] # NoEntry => INFLIGHT[t].owner \in 1 .. Len(stack[t])
  BY DEF Inv, EntryOwned
<1>3. 1 .. 0 = {}
  OBVIOUS
<1> QED BY <1>1, <1>2, <1>3

LEMMA NextDescent == DescentInv /\ [Next]_vars => DescentInv'
<1>DescentCall.
  ASSUME DescentInv, Inv', NEW t \in Threads, NEW cpu \in Cpus, NEW f \in Frame, NEW a0 \in Nat,
         Call(t, f), save_entry(t, cpu, EventOf(f.fn), a0)
  PROVE  DescentInv'
  <2> USE <1>DescentCall
  <2>1. TypeOK /\ Inv /\ Guarded /\ \A u \in Threads \ dead : Followed(u)
    BY DEF DescentInv, Inv
  <2>2. PICK ev \in Events : ev = EventOf(f.fn)
    BY <2>1, CallEffect, EventTypes
  <2>3. /\ t \notin dead /\ dead' = dead
        /\ descents' = [descents EXCEPT ![t] = IF stack[t] = <<>> THEN <<ev>>
                                               ELSE IF descending[t] THEN @ ELSE Append(@, ev)]
        /\ descending' = [descending EXCEPT ![t] = TRUE]
        /\ recorded' = IF stack[t] = <<>> THEN [recorded EXCEPT ![t] = <<>>] ELSE recorded
    BY <2>2 DEF Call
  <2>4. IF INFLIGHT[t] # NoEntry THEN UNCHANGED INFLIGHT
        ELSE /\ INFLIGHT'[t] # NoEntry /\ INFLIGHT'[t].event_type = ev
             /\ \A u \in Threads \ {t} : INFLIGHT'[u] = INFLIGHT[u]
    BY <2>1, <2>2, GuardedSave DEF Guarded
  <2>5. /\ descents \in [Threads -> Seq(Events)] /\ descending \in [Threads -> BOOLEAN]
        /\ recorded \in [Threads -> Seq(Events)]
    BY <2>1 DEF TypeOK, GhostOK
  <2>6. ASSUME NEW u \in Threads \ dead, u # t PROVE Followed(u)'
    <3>1. /\ descents'[u] = descents[u] /\ descending'[u] = descending[u]
          /\ recorded'[u] = recorded[u] /\ INFLIGHT'[u] = INFLIGHT[u]
      BY <2>3, <2>4, <2>5, <2>6
    <3> QED BY <2>1, <3>1 DEF Followed
  <2>7. Followed(t)'
    <3>1. descending'[t] = TRUE
      BY <2>3, <2>5
    <3>2. CASE stack[t] = <<>>
      <4>1. INFLIGHT[t] = NoEntry
        BY <2>1, <2>3, <3>2, NothingOpen
      <4>2. descents'[t] = <<ev>> /\ recorded'[t] = <<>>
        BY <2>3, <2>5, <3>2
      <4>3. <<ev>> = Append(<<>>, ev)
        OBVIOUS
      <4>4. INFLIGHT'[t] # NoEntry /\ INFLIGHT'[t].event_type = ev
        BY <2>4, <4>1
      <4> QED BY <3>1, <4>2, <4>3, <4>4 DEF Followed
    <3>3. CASE stack[t] # <<>> /\ descending[t]
      <4>1. descents'[t] = descents[t] /\ recorded'[t] = recorded[t]
        BY <2>3, <2>5, <3>3
      <4>2. INFLIGHT[t] # NoEntry /\ descents[t] = Append(recorded[t], INFLIGHT[t].event_type)
        BY <2>1, <2>3, <3>3 DEF Followed
      <4>3. INFLIGHT'[t] = INFLIGHT[t]
        BY <2>4, <4>2
      <4> QED BY <3>1, <4>1, <4>2, <4>3 DEF Followed
    <3>4. CASE stack[t] # <<>> /\ ~ descending[t]
      <4>1. descents'[t] = Append(descents[t], ev) /\ recorded'[t] = recorded[t]
        BY <2>3, <2>5, <3>4
      <4>2. INFLIGHT[t] = NoEntry /\ descents[t] = recorded[t]
        BY <2>1, <2>3, <3>4 DEF Followed
      <4>3. INFLIGHT'[t] # NoEntry /\ INFLIGHT'[t].event_type = ev
        BY <2>4, <4>2
      <4> QED BY <3>1, <4>1, <4>2, <4>3 DEF Followed
    <3> QED BY <3>2, <3>3, <3>4
  <2> QED BY <2>1, <2>3, <2>6, <2>7 DEF DescentInv, Guarded
<1>DescentLeave.
  ASSUME DescentInv, Inv', NEW t \in Threads, NEW rc \in {0, 1}, Leave(t), emit_exit(t, rc)
  PROVE  DescentInv'
  <2> USE <1>DescentLeave
  <2>1. TypeOK /\ Guarded /\ \A u \in Threads \ dead : Followed(u)
    BY DEF DescentInv, Inv
  <2>2. /\ t \notin dead /\ UNCHANGED <<dead, descents>>
        /\ descending' = [descending EXCEPT ![t] = FALSE]
    BY DEF Leave, emit_exit
  <2>3. /\ descents \in [Threads -> Seq(Events)] /\ descending \in [Threads -> BOOLEAN]
        /\ recorded \in [Threads -> Seq(Events)]
        /\ INFLIGHT \in [Threads -> EntryData \cup {NoEntry}]
    BY <2>1 DEF TypeOK, GhostOK, TrackingOK
  <2>4. IF INFLIGHT[t] = NoEntry THEN UNCHANGED <<INFLIGHT, recorded>>
        ELSE /\ recorded' = [recorded EXCEPT ![t] = Append(@, INFLIGHT[t].event_type)]
             /\ INFLIGHT' = [INFLIGHT EXCEPT ![t] = NoEntry]
    BY DEF emit_exit
  <2>5. ASSUME NEW u \in Threads \ dead, u # t PROVE Followed(u)'
    <3>1. /\ descents'[u] = descents[u] /\ descending'[u] = descending[u]
          /\ recorded'[u] = recorded[u] /\ INFLIGHT'[u] = INFLIGHT[u]
      BY <2>2, <2>3, <2>4, <2>5
    <3> QED BY <2>1, <3>1 DEF Followed
  <2>6. Followed(t)'
    <3>1. descending'[t] = FALSE /\ descents'[t] = descents[t] /\ INFLIGHT'[t] = NoEntry
      BY <2>2, <2>3, <2>4
    <3>2. recorded'[t] = IF INFLIGHT[t] = NoEntry THEN recorded[t]
                         ELSE Append(recorded[t], INFLIGHT[t].event_type)
      BY <2>3, <2>4
    <3>3. descents[t] = IF INFLIGHT[t] = NoEntry THEN recorded[t]
                        ELSE Append(recorded[t], INFLIGHT[t].event_type)
      BY <2>1, <2>2 DEF Followed
    <3> QED BY <3>1, <3>2, <3>3 DEF Followed
  <2> QED BY <2>1, <2>2, <2>5, <2>6 DEF DescentInv, Guarded
(* The steps that leave the entries and the history alone. *)
<1>DescentKept.
  ASSUME DescentInv, Inv', dead \subseteq dead',
         UNCHANGED <<INFLIGHT, descents, descending, recorded>>
  PROVE  DescentInv'
  BY <1>DescentKept DEF DescentInv, Guarded, Followed
<1> SUFFICES ASSUME DescentInv, [Next]_vars PROVE DescentInv'
  OBVIOUS
<1>0. Inv /\ Inv' /\ TypeOK /\ Guarded
  BY NextInv DEF DescentInv, Inv
<1>1. ASSUME NEW t \in Threads, NEW cpu \in Cpus, NEW f \in Frame, NEW a0 \in Nat,
             Enter(t, cpu, f, a0)
      PROVE  DescentInv'
  BY <1>0, <1>1, <1>DescentCall DEF Enter
<1>2. ASSUME NEW t \in Threads, EnterGetFunction(t) PROVE DescentInv'
  BY <1>0, <1>2 DEF EnterGetFunction, Call, NewFrame, Guarded
<1>3. ASSUME NEW t \in Threads, NEW rc \in {0, 1}, Exit(t, rc) PROVE DescentInv'
  BY <1>0, <1>3, <1>DescentLeave DEF Exit
<1>4. ASSUME NEW t \in Threads, LeaveGetFunction(t) PROVE DescentInv'
  <2>1. UNCHANGED <<dead, descents, descending, recorded>>
    BY <1>4 DEF LeaveGetFunction, Leave
  <2>2. INFLIGHT[t] # NoEntry => INFLIGHT[t].event_type # GetFunction
    <3>1. INFLIGHT[t] # NoEntry => INFLIGHT[t].event_type \in Events
      BY <1>0 DEF TypeOK, TrackingOK, EntryData
    <3>2. GetFunction \notin Events
      BY <1>0 DEF Guarded, Events, EventOf, LaunchKernel, GetFunction
    <3> QED BY <3>1, <3>2
  <2>3. UNCHANGED INFLIGHT
    BY <1>4, <2>2 DEF LeaveGetFunction
  <2> QED BY <1>0, <2>1, <2>3, <1>DescentKept
<1>5. CASE dead \subseteq dead' /\ UNCHANGED <<tracking, sinks, descents, descending, recorded>>
  BY <1>0, <1>5, <1>DescentKept DEF tracking
<1> QED BY <1>0, <1>1, <1>2, <1>3, <1>4, <1>5, NextKinds

(* With room in INFLIGHT for every thread, without sampling and without    *)
(* cuModuleGetFunction, the return programs record exactly one event for   *)
(* each descent, that of the call that began it, however deep the calls    *)
(* nest and whatever fails, faults or is killed.                           *)
THEOREM RecordedPerDescent == Spec /\ Guarded => []OneEventPerDescent
<1>1. Init /\ Guarded => DescentInv
  BY InitInv DEF Init, DescentInv, Followed
<1>2. DescentInv => OneEventPerDescent
  <2> SUFFICES ASSUME DescentInv, NEW t \in Threads \ dead, stack[t] = <<>>
               PROVE  recorded[t] = descents[t]
    BY DEF OneEventPerDescent
  <2>1. INFLIGHT[t] = NoEntry
    BY NothingOpen DEF DescentInv
  <2> QED BY <2>1 DEF DescentInv, Followed
<1> QED BY NextDescent, <1>1, <1>2, PTL DEF Spec
-----------------------------------------------------------------------------
(* The two ways of a launch.                                               *)

(* Launches are traced in detail, and no other event goes to the ring. *)
Traced == Detailed /\ GetFunction \notin Fns

(* What may be in flight then; a launch carries its kernel handle. *)
EntryKinds ==
  \A t \in Threads : INFLIGHT[t] # NoEntry =>
    /\ INFLIGHT[t].event_type \in profi_is_aggregatable \cup profi_is_nccl_event \cup {LaunchKernel}
    /\ INFLIGHT[t].event_type = LaunchKernel => INFLIGHT[t].arg0 = 1

NamedKey == {k \in LaunchKey : k[2] # 0}

Named == [k \in NamedKey |-> LAUNCH_AGG[k]]

LaunchInv == Traced /\ TypeOK /\ EntryKinds /\ LaunchesAccounted

LEMMA PidsFinite == IsFiniteSet(Pids)
<1> DEFINE h == [t \in Threads |-> PidOf[t]]
<1>1. h \in Surjection(Threads, Pids)
  BY DEF Pids, Surjection
<1> HIDE DEF h
<1>2. h \in Surjection(Threads, Pids) /\ IsFiniteSet(Threads)
  BY <1>1, ConstantsAssumption
<1> QED BY <1>2, FS_Surjection

LEMMA BitsFinite == IsFiniteSet({0, 1})
<1>1. IsFiniteSet({0}) /\ IsFiniteSet({1})
  BY FS_Singleton
<1>2. IsFiniteSet({0} \cup {1})
  BY <1>1, FS_Union
<1>3. {0} \cup {1} = {0, 1}
  OBVIOUS
<1> QED BY <1>2, <1>3

LEMMA LaunchKeyFinite == IsFiniteSet(NamedKey)
<1>1. IsFiniteSet(Addrs) /\ IsFiniteSet(Sizes)
  BY ConstantsAssumption
<1>2. IsFiniteSet({0, 1})
  BY BitsFinite
<1>3. IsFiniteSet(Addrs \cup Sizes)
  BY <1>1, FS_Union
<1>4. IsFiniteSet((Addrs \cup Sizes) \cup {0, 1})
  BY <1>2, <1>3, FS_Union
<1>5. IsFiniteSet(Pids \X ((Addrs \cup Sizes) \cup {0, 1}))
  BY <1>4, PidsFinite, FS_Product
<1>6. LaunchKey = Pids \X ((Addrs \cup Sizes) \cup {0, 1})
  BY DEF LaunchKey
<1>7. NamedKey \subseteq LaunchKey
  BY DEF NamedKey
<1> QED BY <1>5, <1>6, <1>7, FS_Subset

(* What is accounted, in terms of the named counters. *)
LEMMA LaunchesNamed ==
  LaunchesAccounted <=>
    /\ Sum(Named) <= Len(EVENTS) + DROPPED
    /\ Len(EVENTS) + DROPPED <= Sum(Named) + LAUNCH_DROPPED
BY DEF LaunchesAccounted, Named, NamedKey

LEMMA NextLaunch == LaunchInv /\ TypeOK' /\ [Next]_vars => LaunchInv'
<1>NamedType.
  ASSUME TypeOK
  PROVE  /\ Named \in [NamedKey -> Nat] /\ Sum(Named) \in Nat
         /\ Len(EVENTS) \in Nat /\ DROPPED \in Nat /\ LAUNCH_DROPPED \in Nat
  <2> USE <1>NamedType
  <2>1. Named \in [NamedKey -> Nat]
    BY DEF Named, NamedKey, TypeOK, SinksOK
  <2>2. Sum(Named) \in Nat
    BY <2>1, LaunchKeyFinite, SumType
  <2> QED BY <2>1, <2>2, SMT DEF TypeOK, SinksOK
(* A record submitted is in the ring or dropped. *)
<1>SubmitCounts.
  ASSUME TypeOK, NEW t \in Threads, NEW e, SubmitEvent(t, e)
  PROVE  Len(EVENTS') + DROPPED' = Len(EVENTS) + DROPPED + 1
  <2> USE <1>SubmitCounts
  <2>1. EVENTS \in Seq(Events \X Pids) /\ DROPPED \in Nat
    BY DEF TypeOK, SinksOK
  <2>2. CASE Len(EVENTS) < RingSize
    <3>1. EVENTS' = Append(EVENTS, <<e.event_type, PidOf[t]>>) /\ DROPPED' = DROPPED
      BY <2>2 DEF SubmitEvent
    <3>2. Len(EVENTS') = Len(EVENTS) + 1
      BY <2>1, <3>1
    <3> QED BY <2>1, <3>1, <3>2
  <2>3. CASE ~(Len(EVENTS) < RingSize)
    <3>1. EVENTS' = EVENTS /\ DROPPED' = DROPPED + 1
      BY <2>3 DEF SubmitEvent
    <3> QED BY <2>1, <3>1
  <2> QED BY <2>2, <2>3
<1>LaunchExit.
  ASSUME LaunchInv, NEW t \in Threads, NEW rc \in {0, 1}, emit_exit(t, rc)
  PROVE  LaunchesAccounted'
  <2> USE <1>LaunchExit
  <2> DEFINE e == INFLIGHT[t]
             count == Sum(Named)
  <2>0. TypeOK /\ Traced /\ EntryKinds /\ LaunchesAccounted
    BY DEF LaunchInv
  <2>1. /\ count \in Nat /\ Len(EVENTS) \in Nat /\ DROPPED \in Nat /\ LAUNCH_DROPPED \in Nat
        /\ count <= Len(EVENTS) + DROPPED
        /\ Len(EVENTS) + DROPPED <= count + LAUNCH_DROPPED
    BY <2>0, <1>NamedType, LaunchesNamed
  <2>2. ASSUME UNCHANGED <<LAUNCH_AGG, EVENTS, DROPPED, LAUNCH_DROPPED>> PROVE LaunchesAccounted'
    BY <2>0, <2>2 DEF LaunchesAccounted
  <2>3. CASE e = NoEntry
    BY <2>2, <2>3 DEF emit_exit, sinks
  <2>4. CASE e # NoEntry /\ (AggregateCuda(t, e, rc) \/ AggregateNccl(t, e, rc))
    BY <2>2, <2>4 DEF AggregateCuda, AggregateNccl
  <2>5. CASE e # NoEntry /\ EmitOther(t, e)
    BY <2>0, <2>5 DEF EmitOther, EntryKinds
  <2>6. CASE e # NoEntry /\ AggregateLaunch(t, e)
    <3> DEFINE mode == IF PidOf[t] \in UPGRADED_PIDS THEN 0 ELSE AggMode
               k == <<PidOf[t], IF mode = 1 THEN 0 ELSE e.arg0>>
    <3>1. e.arg0 = 1
      BY <2>0, <2>6 DEF AggregateLaunch, EntryKinds
    <3>2. /\ \/ LAUNCH_AGG' = [LAUNCH_AGG EXCEPT ![k] = @ + 1] /\ UNCHANGED LAUNCH_DROPPED
             \/ LAUNCH_DROPPED' = LAUNCH_DROPPED + 1 /\ UNCHANGED LAUNCH_AGG
          /\ IF mode = 1 \/ ~Detailed THEN UNCHANGED <<EVENTS, DROPPED>> ELSE SubmitEvent(t, e)
      BY <2>6 DEF AggregateLaunch
    <3>3. k \in LaunchKey /\ (k \in NamedKey <=> mode # 1)
      BY <3>1 DEF LaunchKey, NamedKey, Pids
    <3>4. Named \in [NamedKey -> Nat] /\ LAUNCH_AGG \in [LaunchKey -> Nat] /\ NamedKey \subseteq LaunchKey
      BY <2>0, <1>NamedType DEF TypeOK, SinksOK, NamedKey
    <3>5. Named' = [j \in NamedKey |-> LAUNCH_AGG'[j]]
      BY DEF Named
    <3> HIDE DEF k, mode, e
    <3>6. CASE mode = 1
      <4>1. Named' = Named
        <5>1. \A j \in NamedKey : LAUNCH_AGG'[j] = LAUNCH_AGG[j]
          BY <3>2, <3>3, <3>4, <3>6
        <5> QED BY <3>5, <5>1 DEF Named
      <4>2. UNCHANGED <<EVENTS, DROPPED>> /\ LAUNCH_DROPPED' \in {LAUNCH_DROPPED, LAUNCH_DROPPED + 1}
        BY <3>2, <3>6
      <4>3. /\ Sum(Named') <= Len(EVENTS') + DROPPED'
            /\ Len(EVENTS') + DROPPED' <= Sum(Named') + LAUNCH_DROPPED'
        BY <2>1, <4>1, <4>2, SMT
      <4> QED BY <4>3 DEF LaunchesAccounted, Named, NamedKey
    <3>7. CASE mode # 1
      <4>1. Len(EVENTS') + DROPPED' = Len(EVENTS) + DROPPED + 1
        BY <2>0, <3>2, <3>7, <1>SubmitCounts DEF Traced
      <4>2. CASE LAUNCH_AGG' = [LAUNCH_AGG EXCEPT ![k] = @ + 1] /\ UNCHANGED LAUNCH_DROPPED
        <5>1. k \in NamedKey
          BY <3>3, <3>7
        <5>2. LAUNCH_AGG'[k] = LAUNCH_AGG[k] + 1 /\ \A j \in NamedKey \ {k} : LAUNCH_AGG'[j] = LAUNCH_AGG[j]
          BY <3>3, <3>4, <4>2
        <5>3. /\ Named'[k] = Named[k] + 1 /\ Named[k] \in Nat
              /\ \A j \in NamedKey \ {k} : Named'[j] = Named[j]
          BY <3>4, <3>5, <5>1, <5>2 DEF Named
        <5>4. Named' \in [NamedKey -> Nat]
          <6>1. \A j \in NamedKey : LAUNCH_AGG'[j] \in Nat
            BY <3>4, <5>1, <5>2, SMT
          <6> QED BY <3>5, <6>1
        <5>5. Sum(Named') = Sum(Named) - Named[k] + Named'[k]
          BY <3>4, <5>1, <5>3, <5>4, SumUpdate, LaunchKeyFinite, SMT
        <5>6. Sum(Named') = count + 1
          BY <2>1, <5>3, <5>5
        <5>7. /\ Sum(Named') <= Len(EVENTS') + DROPPED'
              /\ Len(EVENTS') + DROPPED' <= Sum(Named') + LAUNCH_DROPPED'
          BY <2>1, <4>1, <4>2, <5>6
        <5> QED BY <5>7 DEF LaunchesAccounted, Named, NamedKey
      <4>3. CASE LAUNCH_DROPPED' = LAUNCH_DROPPED + 1 /\ UNCHANGED LAUNCH_AGG
        <5>1. Named' = Named
          BY <4>3 DEF Named
        <5>2. /\ Sum(Named') <= Len(EVENTS') + DROPPED'
              /\ Len(EVENTS') + DROPPED' <= Sum(Named') + LAUNCH_DROPPED'
          BY <2>1, <4>1, <4>3, <5>1, SMT
        <5> QED BY <5>2 DEF LaunchesAccounted, Named, NamedKey
      <4> QED BY <3>2, <4>2, <4>3
    <3> QED BY <3>6, <3>7
  <2> QED BY <2>3, <2>4, <2>5, <2>6 DEF emit_exit
<1> SUFFICES ASSUME LaunchInv, TypeOK', [Next]_vars PROVE LaunchInv'
  OBVIOUS
<1>0. TypeOK /\ Traced /\ EntryKinds /\ LaunchesAccounted
  BY DEF LaunchInv
<1> SUFFICES EntryKinds' /\ LaunchesAccounted'
  BY <1>0 DEF LaunchInv, Traced
<1>1. ASSUME UNCHANGED sinks PROVE LaunchesAccounted'
  BY <1>0, <1>1 DEF LaunchesAccounted, sinks
<1>2. ASSUME NEW t \in Threads, NEW cpu \in Cpus, NEW f \in Frame, NEW a0 \in Nat,
             Enter(t, cpu, f, a0)
      PROVE  EntryKinds' /\ UNCHANGED sinks
  <2>1. Call(t, f) /\ f.fn \in Fns /\ UNCHANGED sinks
    BY <1>2 DEF Enter, Call
  <2>2. PICK ev \in Events : ev = EventOf(f.fn)
    BY <2>1, EventTypes
  <2>3. /\ ev \in profi_is_aggregatable \cup profi_is_nccl_event \cup {LaunchKernel}
        /\ ev = LaunchKernel => a0 = 1
    BY <1>2, <2>2 DEF Enter, EventOf, LaunchFns, LaunchKernel
  <2>4. \A u \in Threads : \/ INFLIGHT'[u] = INFLIGHT[u]
                           \/ INFLIGHT'[u] = NoEntry
                           \/ INFLIGHT'[u] = [event_type |-> ev, arg0 |-> a0, owner |-> Len(stack[t]) + 1]
    BY <1>0, <1>2, <2>2, SaveEntryEffect, SMT DEF Enter
  <2>5. EntryKinds'
    BY <1>0, <2>3, <2>4, SMT DEF EntryKinds
  <2> QED BY <2>1, <2>5
<1>3. ASSUME NEW t \in Threads, EnterGetFunction(t) PROVE FALSE
  BY <1>0, <1>3 DEF EnterGetFunction, Call, NewFrame, Traced
<1>4. ASSUME NEW t \in Threads, INFLIGHT' \in {INFLIGHT, [INFLIGHT EXCEPT ![t] = NoEntry]}
      PROVE  EntryKinds'
  BY <1>0, <1>4 DEF EntryKinds, TypeOK, TrackingOK
<1>5. ASSUME NEW t \in Threads, NEW rc \in {0, 1}, Exit(t, rc) PROVE EntryKinds' /\ LaunchesAccounted'
  <2>1. INFLIGHT' \in {INFLIGHT, [INFLIGHT EXCEPT ![t] = NoEntry]}
    BY <1>5 DEF Exit, emit_exit
  <2> QED BY <1>4, <1>5, <2>1, <1>LaunchExit DEF Exit
<1>6. ASSUME NEW t \in Threads, LeaveGetFunction(t) PROVE EntryKinds' /\ UNCHANGED sinks
  BY <1>4, <1>6 DEF LeaveGetFunction
<1>7. CASE dead \subseteq dead' /\ UNCHANGED <<tracking, sinks, descents, descending, recorded>>
  BY <1>0, <1>1, <1>7 DEF tracking, EntryKinds
<1> QED BY <1>0, <1>1, <1>2, <1>3, <1>5, <1>6, <1>7, NextKinds

(* When launches are traced in detail, whatever the sizes of LAUNCH_AGG    *)
(* and of the ring and however pids are promoted and demoted under running *)
(* calls, the launches in the ring and in DROPPED are those LAUNCH_AGG     *)
(* counts under a kernel handle, up to LAUNCH_DROPPED.                     *)
THEOREM LaunchesTraced == Spec /\ Traced => []LaunchesAccounted
<1>1. Init /\ Traced => LaunchInv
  <2> SUFFICES ASSUME Init, Traced PROVE LaunchInv
    OBVIOUS
  <2>1. TypeOK /\ EntryKinds
    BY InitInv DEF Inv, Init, EntryKinds
  <2>2. DOMAIN Named = NamedKey /\ \A k \in NamedKey : Named[k] = 0
    BY DEF Init, Named, NamedKey
  <2>3. Sum(Named) = 0
    BY <2>2, SumZero
  <2>4. Len(EVENTS) = 0 /\ DROPPED = 0 /\ LAUNCH_DROPPED = 0
    BY DEF Init
  <2>5. LaunchesAccounted
    BY <2>3, <2>4, LaunchesNamed
  <2> QED BY <2>1, <2>5 DEF LaunchInv
<1>2. LaunchInv => LaunchesAccounted
  BY DEF LaunchInv
<1> QED BY NextLaunch, TypeCorrect, <1>1, <1>2, PTL DEF Spec
-----------------------------------------------------------------------------
(* Sampling.                                                               *)

Kept == [c \in Cpus |-> (SAMPLE_COUNTER[c] + SampleRate - 1) \div SampleRate]

SampledInFlight == {t \in Threads : /\ INFLIGHT[t] # NoEntry
                                    /\ INFLIGHT[t].event_type \in profi_is_aggregatable}

Counts == [k \in CudaKey |-> AGGREGATED[k].count]

SampleInv == SampleRate > 1 /\ TypeOK /\ SampleBound

(* A quotient is what the remainder leaves. *)
LEMMA DivUnique ==
  ASSUME NEW R \in Nat, R > 0, NEW q \in Nat, NEW r \in Nat, r < R, NEW a \in Nat, a = R * q + r
  PROVE  a \div R = q
<1>1. /\ a \div R \in Int /\ a % R \in Int /\ 0 <= a % R /\ a % R < R
      /\ a = R * (a \div R) + (a % R)
  OBVIOUS
<1> DEFINE p == a \div R
           s == a % R
<1>2. p \in Int /\ s \in Int /\ 0 <= s /\ s < R /\ R * p + s = R * q + r
  BY <1>1
<1> HIDE DEF p, s
<1>3. p = q
  BY <1>2
<1> QED BY <1>3 DEF p

(* One call more is one call kept more exactly when the counter stood at   *)
(* a multiple of the rate.                                                 *)
LEMMA RoundUp ==
  ASSUME NEW c \in Nat, NEW R \in Nat, R > 0
  PROVE  /\ (c + R - 1) \div R \in Nat
         /\ (c + 1 + R - 1) \div R = ((c + R - 1) \div R) + (IF c % R = 0 THEN 1 ELSE 0)
<1>1. PICK q \in Nat, r \in Nat : c = R * q + r /\ r = c % R /\ r < R
  <2>1. c \div R \in Nat /\ c % R \in Nat /\ c % R < R /\ c = R * (c \div R) + (c % R)
    OBVIOUS
  <2>2. c \div R \in Nat /\ c % R \in Nat
    BY <2>1
  <2> WITNESS c \div R \in Nat, c % R \in Nat
  <2> QED BY <2>1
<1>2. R * (q + 1) = R * q + R /\ R * q \in Nat
  OBVIOUS
<1>3. PICK a \in Nat, b \in Nat : a = c + R - 1 /\ b = c + 1 + R - 1
  OBVIOUS
<1>4. CASE r = 0
  <2>1. a = R * q + (R - 1) /\ b = R * (q + 1) + 0 /\ R - 1 \in Nat /\ R - 1 < R /\ q + 1 \in Nat
    BY <1>1, <1>2, <1>3, <1>4, SMT
  <2>2. a \div R = q /\ b \div R = q + 1
    BY <2>1, DivUnique, SMT
  <2> QED BY <1>1, <1>3, <1>4, <2>2
<1>5. CASE r # 0
  <2>0. r - 1 \in Nat /\ r - 1 < R /\ q + 1 \in Nat
    BY <1>1, <1>5
  <2>1. a = R * (q + 1) + (r - 1) /\ b = R * (q + 1) + r
    <3>1. PICK m \in Nat, n \in Nat : m = R * q /\ n = R * (q + 1)
      OBVIOUS
    <3>2. n = m + R /\ c = m + r
      BY <1>1, <1>2, <3>1
    <3>3. a = n + (r - 1) /\ b = n + r
      BY <1>3, <3>2
    <3> QED BY <3>1, <3>3
  <2>2. PICK p \in Nat, s \in Nat : p = q + 1 /\ s = r - 1 /\ s < R
    BY <2>0
  <2>3. a \div R = p
    BY <2>1, <2>2, DivUnique, SMT
  <2>4. b \div R = p
    BY <1>1, <2>1, <2>2, DivUnique, SMT
  <2> QED BY <1>1, <1>3, <1>5, <2>2, <2>3, <2>4
<1> QED BY <1>4, <1>5

(* AGGREGATED has finitely many keys. *)
LEMMA CudaKeyFinite == IsFiniteSet(CudaKey)
<1> DEFINE A == Events \cap profi_is_aggregatable
           P == (A \X Pids) \X {0, 1}
           g == [fn \in Fns |-> EventOf(fn)]
           h == [x \in P |-> <<x[1][1], x[1][2], x[2]>>]
<1>1. IsFiniteSet(Events)
  <2>1. g \in Surjection(Fns, Events)
    BY DEF Events, Surjection
  <2> HIDE DEF g
  <2> QED BY <2>1, ConstantsAssumption, FS_Surjection
<1>2. IsFiniteSet(A)
  BY <1>1, FS_Subset
<1>3. IsFiniteSet({0, 1})
  BY BitsFinite
<1>4. CudaKey = A \X Pids \X {0, 1}
  BY DEF CudaKey
<1> HIDE DEF A
<1>5. IsFiniteSet(P)
  <2>1. IsFiniteSet(A \X Pids)
    BY <1>2, PidsFinite, FS_Product
  <2> QED BY <1>3, <2>1, FS_Product
<1>6. h \in Surjection(P, CudaKey)
  <2>1. h \in [P -> CudaKey]
    BY <1>4
  <2>2. ASSUME NEW k \in CudaKey PROVE \E x \in P : h[x] = k
    <3>1. PICK a \in A, p \in Pids, r \in {0, 1} : k = <<a, p, r>>
      BY <1>4
    <3>2. <<<<a, p>>, r>> \in P /\ h[<<<<a, p>>, r>>] = <<a, p, r>>
      OBVIOUS
    <3> HIDE DEF h, P
    <3> QED BY <3>1, <3>2
  <2> HIDE DEF h, P
  <2> QED BY <2>1, <2>2 DEF Surjection
<1> HIDE DEF h, P
<1> QED BY <1>5, <1>6, FS_Surjection

SampleTyped ==
  /\ Counts \in [CudaKey -> Nat] /\ Sum(Counts) \in Nat
  /\ Kept \in [Cpus -> Nat] /\ Sum(Kept) \in Nat
  /\ IsFiniteSet(SampledInFlight) /\ Cardinality(SampledInFlight) \in Nat

LEMMA SampleType == TypeOK /\ SampleRate > 1 => SampleTyped
<1> SUFFICES ASSUME TypeOK, SampleRate > 1 PROVE SampleTyped
  OBVIOUS
<1>1. Counts \in [CudaKey -> Nat]
  BY DEF Counts, TypeOK, SinksOK, AggValue
<1>2. Kept \in [Cpus -> Nat]
  <2>1. SampleRate \in Nat /\ SAMPLE_COUNTER \in [Cpus -> Nat]
    BY ConstantsAssumption DEF TypeOK, TrackingOK
  <2>2. ASSUME NEW c \in Cpus PROVE (SAMPLE_COUNTER[c] + SampleRate - 1) \div SampleRate \in Nat
    <3>1. PICK n \in Nat : n = SAMPLE_COUNTER[c]
      BY <2>1
    <3>2. (n + SampleRate - 1) \div SampleRate \in Nat
      BY <2>1, RoundUp, SMT
    <3> QED BY <3>1, <3>2
  <2> QED BY <2>2 DEF Kept
<1>3. IsFiniteSet(Cpus) /\ IsFiniteSet(Threads)
  BY ConstantsAssumption
<1>4. Sum(Counts) \in Nat /\ Sum(Kept) \in Nat
  BY <1>1, <1>2, <1>3, CudaKeyFinite, SumType
<1>5. IsFiniteSet(SampledInFlight)
  <2>1. SampledInFlight \subseteq Threads
    BY DEF SampledInFlight
  <2> QED BY <1>3, <2>1, FS_Subset
<1> QED BY <1>1, <1>2, <1>4, <1>5, FS_CardinalityType DEF SampleTyped

LEMMA NextSample == SampleInv /\ TypeOK' /\ [Next]_vars => SampleInv'
(* The same after a step. *)
<1>SampleTypeNext. TypeOK' /\ (SampleRate > 1)' => SampleTyped'
  BY SampleType, PTL
(* The bound survives a step that moves d entries from flight into the     *)
(* counts and keeps k calls more.                                          *)
<1>BoundArithmetic.
  ASSUME NEW R \in Nat, NEW c \in Nat, NEW n \in Nat, NEW s \in Nat,
         NEW c2 \in Nat, NEW n2 \in Nat, NEW s2 \in Nat, NEW d \in Nat, NEW k \in Nat,
         c + R * n <= R * s, c2 <= c + R * d, n2 + d <= n + k, s2 = s + k
  PROVE  c2 + R * n2 <= R * s2
  <2> USE <1>BoundArithmetic
  <2>1. PICK rn \in Nat, rs \in Nat, rd \in Nat, rk \in Nat, rn2 \in Nat :
          rn = R * n /\ rs = R * s /\ rd = R * d /\ rk = R * k /\ rn2 = R * n2
    BY SMT
  <2>2. R * s2 = rs + rk
    BY <2>1
  <2>3. R * (n2 + d) <= R * (n + k)
    <3>1. PICK x \in Nat, y \in Nat : x = n2 + d /\ y = n + k /\ x <= y
      OBVIOUS
    <3>2. R * x <= R * y
      BY <3>1
    <3> QED BY <3>1, <3>2
  <2>4. R * (n2 + d) = rn2 + rd /\ R * (n + k) = rn + rk
    BY <2>1
  <2>5. rn2 + rd <= rn + rk
    BY <2>3, <2>4
  <2>6. c + rn <= rs /\ c2 <= c + rd
    BY <2>1
  <2>7. c2 + rn2 <= rs + rk
    BY <2>5, <2>6
  <2> QED BY <2>1, <2>2, <2>7
<1>SampleStep.
  ASSUME SampleInv, TypeOK', NEW d \in Nat, NEW k \in Nat,
         Sum(Counts') <= Sum(Counts) + SampleRate * d,
         Cardinality(SampledInFlight') + d <= Cardinality(SampledInFlight) + k,
         Sum(Kept') = Sum(Kept) + k
  PROVE  SampleBound'
  <2> USE <1>SampleStep
  <2>1. SampleRate \in Nat /\ SampleRate > 1 /\ TypeOK
    BY ConstantsAssumption DEF SampleInv
  <2>2. SampleTyped /\ SampleTyped'
    BY <2>1, SampleType, <1>SampleTypeNext
  <2>3. PICK c \in Nat, n \in Nat, s \in Nat :
          c = Sum(Counts) /\ n = Cardinality(SampledInFlight) /\ s = Sum(Kept)
    BY <2>2 DEF SampleTyped
  <2>4. PICK c2 \in Nat, n2 \in Nat, s2 \in Nat :
          c2 = Sum(Counts') /\ n2 = Cardinality(SampledInFlight') /\ s2 = Sum(Kept')
    BY <2>2 DEF SampleTyped
  <2>5. c + SampleRate * n <= SampleRate * s
    BY <2>3 DEF SampleInv, SampleBound, CountSum, Counts, Kept, SampledInFlight
  <2>6. c2 + SampleRate * n2 <= SampleRate * s2
    BY <2>1, <2>3, <2>4, <2>5, <1>BoundArithmetic
  <2> QED BY <2>4, <2>6 DEF SampleBound, CountSum, Counts, Kept, SampledInFlight
(* Entries that leave, or are not sampled, only lower what is in flight. *)
<1>SampleQuiet.
  ASSUME SampleInv, TypeOK', UNCHANGED <<AGGREGATED, SAMPLE_COUNTER>>,
         SampledInFlight' \subseteq SampledInFlight
  PROVE  SampleBound'
  <2> USE <1>SampleQuiet
  <2>1. Counts' = Counts /\ Kept' = Kept
    BY DEF Counts, Kept
  <2>2. SampleTyped /\ SampleRate \in Nat
    BY SampleType, ConstantsAssumption DEF SampleInv
  <2>3. /\ Cardinality(SampledInFlight') <= Cardinality(SampledInFlight)
        /\ Cardinality(SampledInFlight') \in Nat
    <3>1. IsFiniteSet(SampledInFlight)
      BY <2>2 DEF SampleTyped
    <3>2. IsFiniteSet(SampledInFlight')
      BY <3>1, FS_Subset
    <3> QED BY <3>1, <3>2, FS_Subset, FS_CardinalityType
  <2>4. /\ Sum(Counts') <= Sum(Counts) + SampleRate * 0
        /\ Cardinality(SampledInFlight') + 0 <= Cardinality(SampledInFlight) + 0
        /\ Sum(Kept') = Sum(Kept) + 0
    BY <2>1, <2>2, <2>3, SMT DEF SampleTyped
  <2>5. PICK z \in Nat : z = 0
    OBVIOUS
  <2> QED BY <2>4, <2>5, <1>SampleStep
(* A call that save_entry counts, and stores when its turn has come. *)
<1>SampleCounted.
  ASSUME SampleInv, TypeOK', NEW t \in Threads, NEW cpu \in Cpus,
         UNCHANGED AGGREGATED,
         SAMPLE_COUNTER' = [SAMPLE_COUNTER EXCEPT ![cpu] = SAMPLE_COUNTER[cpu] + 1],
         SampledInFlight' \subseteq SampledInFlight \cup {t},
         SAMPLE_COUNTER[cpu] % SampleRate # 0 => SampledInFlight' = SampledInFlight
  PROVE  SampleBound'
  <2> USE <1>SampleCounted
  <2>1. Counts' = Counts
    BY DEF Counts
  <2>2. SampleTyped /\ SampleTyped' /\ SampleRate \in Nat /\ SampleRate > 0
    BY SampleType, <1>SampleTypeNext, ConstantsAssumption DEF SampleInv
  <2>3. PICK c \in Nat : c = SAMPLE_COUNTER[cpu]
    BY DEF SampleInv, TypeOK, TrackingOK
  <2>4. PICK k \in Nat : k = IF c % SampleRate = 0 THEN 1 ELSE 0
    OBVIOUS
  <2>5. Sum(Kept') = Sum(Kept) + k
    <3>1. SAMPLE_COUNTER'[cpu] = c + 1 /\ \A d \in Cpus \ {cpu} : SAMPLE_COUNTER'[d] = SAMPLE_COUNTER[d]
      BY <2>3 DEF SampleInv, TypeOK, TrackingOK
    <3>2. /\ Kept'[cpu] = (c + 1 + SampleRate - 1) \div SampleRate
          /\ Kept[cpu] = (c + SampleRate - 1) \div SampleRate
      BY <2>3, <3>1 DEF Kept
    <3>3. Kept'[cpu] = Kept[cpu] + k
      <4>1. (c + 1 + SampleRate - 1) \div SampleRate
              = ((c + SampleRate - 1) \div SampleRate) + (IF c % SampleRate = 0 THEN 1 ELSE 0)
        BY <2>2, RoundUp
      <4> QED BY <2>4, <3>2, <4>1
    <3>4. \A d \in Cpus \ {cpu} : Kept'[d] = Kept[d]
      BY <3>1, SMT DEF Kept
    <3>5. PICK f \in [Cpus -> Nat], g \in [Cpus -> Nat] : f = Kept /\ g = Kept'
      BY <2>2 DEF SampleTyped
    <3>6. Sum(g) = Sum(f) - f[cpu] + g[cpu]
      BY <3>4, <3>5, SumUpdate, ConstantsAssumption, SMT
    <3>7. Sum(f) \in Nat /\ f[cpu] \in Nat /\ g[cpu] = f[cpu] + k
      BY <2>2, <3>3, <3>5 DEF SampleTyped
    <3> QED BY <3>5, <3>6, <3>7
  <2>6. Cardinality(SampledInFlight') <= Cardinality(SampledInFlight) + k
    <3>1. IsFiniteSet(SampledInFlight) /\ Cardinality(SampledInFlight) \in Nat
      BY <2>2 DEF SampleTyped
    <3>2. CASE c % SampleRate = 0
      <4>1. /\ IsFiniteSet(SampledInFlight \cup {t})
            /\ Cardinality(SampledInFlight \cup {t}) <= Cardinality(SampledInFlight) + 1
        <5>1. PICK S : S = SampledInFlight
          OBVIOUS
        <5>2. IsFiniteSet(S \cup {t}) /\ (Cardinality(S \cup {t}) = Cardinality(S)
                                          \/ Cardinality(S \cup {t}) = Cardinality(S) + 1)
          BY <3>1, <5>1, FS_AddElement
        <5> QED BY <3>1, <5>1, <5>2
      <4>2. Cardinality(SampledInFlight') <= Cardinality(SampledInFlight \cup {t})
        BY <4>1, FS_Subset
      <4>3. Cardinality(SampledInFlight') \in Nat /\ Cardinality(SampledInFlight \cup {t}) \in Nat
        BY <2>2, <4>1, FS_CardinalityType DEF SampleTyped
      <4> QED BY <2>4, <3>1, <3>2, <4>1, <4>2, <4>3, SMT
    <3>3. CASE c % SampleRate # 0
      BY <2>3, <2>4, <3>1, <3>3, SMT
    <3> QED BY <3>2, <3>3
  <2>7. /\ Sum(Counts') <= Sum(Counts) + SampleRate * 0
        /\ Cardinality(SampledInFlight') + 0 <= Cardinality(SampledInFlight) + k
    BY <2>1, <2>2, <2>6 DEF SampleTyped
  <2>8. PICK z \in Nat : z = 0
    OBVIOUS
  <2> QED BY <2>5, <2>7, <2>8, <1>SampleStep
(* What an entry program may do to the entries in flight. *)
<1>StoreFlight.
  ASSUME TypeOK, NEW t \in Threads, NEW ev, NEW a0, StoreEntry(t, ev, a0)
  PROVE  /\ SampledInFlight' \subseteq SampledInFlight \cup {t}
         /\ ev \notin profi_is_aggregatable => SampledInFlight' \subseteq SampledInFlight
  <2> USE <1>StoreFlight
  <2> DEFINE e == [event_type |-> ev, arg0 |-> a0, owner |-> Len(stack[t]) + 1]
  <2>1. INFLIGHT' \in LruPut(INFLIGHT, NoEntry, InflightSize, t, e)
    BY DEF StoreEntry
  <2>2. e.event_type = ev
    OBVIOUS
  <2> HIDE DEF e
  <2>3. \A u \in Threads : \/ INFLIGHT'[u] = INFLIGHT[u]
                           \/ INFLIGHT'[u] = NoEntry
                           \/ u = t /\ INFLIGHT'[u] = e
    BY <2>1 DEF LruPut, TypeOK, TrackingOK
  <2> QED BY <2>2, <2>3 DEF SampledInFlight
<1>SampleEnter.
  ASSUME SampleInv, TypeOK', NEW t \in Threads, NEW cpu \in Cpus, NEW f \in Frame, NEW a0 \in Nat,
         Enter(t, cpu, f, a0)
  PROVE  SampleBound'
  <2> USE <1>SampleEnter
  <2>0. TypeOK /\ SampleRate > 1
    BY DEF SampleInv
  <2>1. PICK ev : ev = EventOf(f.fn)
    OBVIOUS
  <2>2. save_entry(t, cpu, ev, a0) /\ UNCHANGED AGGREGATED
    BY <2>1 DEF Enter, Call, sinks
  <2>3. ASSUME UNCHANGED INFLIGHT PROVE SampledInFlight' = SampledInFlight
    BY <2>3 DEF SampledInFlight
  <2>4. CASE UNCHANGED <<INFLIGHT, SAMPLE_COUNTER>>
    BY <2>2, <2>3, <2>4, <1>SampleQuiet
  <2>5. CASE /\ SAMPLE_COUNTER' = [SAMPLE_COUNTER EXCEPT ![cpu] = SAMPLE_COUNTER[cpu] + 1]
             /\ IF SAMPLE_COUNTER[cpu] % SampleRate # 0 THEN UNCHANGED INFLIGHT ELSE StoreEntry(t, ev, a0)
    <3>1. /\ SampledInFlight' \subseteq SampledInFlight \cup {t}
          /\ SAMPLE_COUNTER[cpu] % SampleRate # 0 => SampledInFlight' = SampledInFlight
      BY <2>0, <2>3, <2>5, <1>StoreFlight
    <3> QED BY <2>2, <2>5, <3>1, <1>SampleCounted
  <2>6. CASE ev \notin profi_is_aggregatable /\ StoreEntry(t, ev, a0) /\ UNCHANGED SAMPLE_COUNTER
    <3>1. SampledInFlight' \subseteq SampledInFlight
      BY <2>0, <2>6, <1>StoreFlight
    <3> QED BY <2>2, <2>6, <3>1, <1>SampleQuiet
  <2> QED BY <2>0, <2>2, <2>4, <2>5, <2>6 DEF save_entry
(* emit_exit moves an entry out of flight and counts it SampleRate times.  *)
<1>SampleExit.
  ASSUME SampleInv, TypeOK', NEW t \in Threads, NEW rc \in {0, 1}, Exit(t, rc)
  PROVE  SampleBound'
  <2> USE <1>SampleExit
  <2> DEFINE e == INFLIGHT[t]
  <2>0. TypeOK /\ SampleRate > 1 /\ SampleRate \in Nat /\ SampleTyped /\ SampleTyped'
    BY SampleType, <1>SampleTypeNext, ConstantsAssumption DEF SampleInv
  <2>1. UNCHANGED SAMPLE_COUNTER /\ emit_exit(t, rc)
    BY DEF Exit, Leave
  <2>2. INFLIGHT' = [INFLIGHT EXCEPT ![t] = NoEntry]
    BY <2>0, <2>1 DEF emit_exit, TypeOK, TrackingOK
  <2>3. SampledInFlight' = SampledInFlight \ {t}
    BY <2>0, <2>2 DEF SampledInFlight, TypeOK, TrackingOK
  <2>4. CASE UNCHANGED AGGREGATED
    BY <2>1, <2>3, <2>4, <1>SampleQuiet
  <2>5. CASE e # NoEntry /\ AggregateCuda(t, e, rc)
    <3> DEFINE k == <<e.event_type, PidOf[t], rc>>
    <3>1. e \in EntryData /\ e.event_type \in profi_is_aggregatable
      BY <2>0, <2>5 DEF AggregateCuda, TypeOK, TrackingOK
    <3>2. k \in CudaKey
      BY <3>1 DEF EntryData, CudaKey, Pids
    <3>3. PICK v : /\ v.count = AGGREGATED[k].count + SampleRate
                   /\ AGGREGATED' \in {AGGREGATED, [AGGREGATED EXCEPT ![k] = v]}
      <4>1. PICK v : v = [count |-> AGGREGATED[k].count + SampleRate,
                          size  |-> AGGREGATED[k].size + e.arg0 * SampleRate]
        OBVIOUS
      <4>2. (IF SampleRate > 1 THEN SampleRate ELSE 1) = SampleRate
        BY <2>0
      <4>3. AGGREGATED' \in {AGGREGATED, [AGGREGATED EXCEPT ![k] = v]}
        BY <2>5, <4>1, <4>2, ZenonT(30) DEF AggregateCuda
      <4> QED BY <4>1, <4>3
    <3>4. t \in SampledInFlight
      BY <2>5, <3>1 DEF SampledInFlight
    <3> HIDE DEF k, e
    <3>5. CASE AGGREGATED' = [AGGREGATED EXCEPT ![k] = v]
      <4>1. /\ Counts'[k] = Counts[k] + SampleRate
            /\ \A j \in CudaKey \ {k} : Counts'[j] = Counts[j]
        BY <2>0, <3>2, <3>3, <3>5 DEF Counts, TypeOK, SinksOK
      <4>2. PICK f \in [CudaKey -> Nat], g \in [CudaKey -> Nat] : f = Counts /\ g = Counts'
        BY <2>0 DEF SampleTyped
      <4>3. Sum(g) = Sum(f) - f[k] + g[k]
        BY <3>2, <4>1, <4>2, SumUpdate, CudaKeyFinite, SMT
      <4>4. Sum(f) \in Nat /\ f[k] \in Nat /\ g[k] = f[k] + SampleRate
        BY <2>0, <3>2, <4>1, <4>2 DEF SampleTyped
      <4>5. Sum(Counts') = Sum(Counts) + SampleRate * 1
        BY <2>0, <4>2, <4>3, <4>4
      <4>6. Cardinality(SampledInFlight') + 1 = Cardinality(SampledInFlight)
        <5>1. IsFiniteSet(SampledInFlight) /\ Cardinality(SampledInFlight) \in Nat
          BY <2>0 DEF SampleTyped
        <5>2. Cardinality(SampledInFlight \ {t}) = Cardinality(SampledInFlight) - 1
          BY <3>4, <5>1, FS_RemoveElement
        <5> QED BY <2>3, <5>1, <5>2
      <4>7. Kept' = Kept
        BY <2>1 DEF Kept
      <4>8. /\ Sum(Counts') <= Sum(Counts) + SampleRate * 1
            /\ Cardinality(SampledInFlight') + 1 <= Cardinality(SampledInFlight) + 0
            /\ Sum(Kept') = Sum(Kept) + 0
        BY <2>0, <4>5, <4>6, <4>7, SMT DEF SampleTyped
      <4>9. PICK z \in Nat, o \in Nat : z = 0 /\ o = 1
        OBVIOUS
      <4> QED BY <4>8, <4>9, <1>SampleStep
    <3> QED BY <2>4, <3>3, <3>5
  <2> QED
    BY <2>1, <2>4, <2>5 DEF emit_exit, sinks, AggregateNccl, AggregateLaunch, EmitOther
<1> SUFFICES ASSUME SampleInv, TypeOK', [Next]_vars PROVE SampleBound'
  BY DEF SampleInv
<1>0. TypeOK
  BY DEF SampleInv
<1>1. ASSUME NEW t \in Threads, EnterGetFunction(t) PROVE SampleBound'
  <2>1. UNCHANGED <<AGGREGATED, SAMPLE_COUNTER>>
    BY <1>1 DEF EnterGetFunction, Call, sinks
  <2>2. GetFunction \notin profi_is_aggregatable
    BY DEF GetFunction, profi_is_aggregatable, MallocFns, FreeFns, MemcpyFns, PlainFns
  <2>3. SampledInFlight' \subseteq SampledInFlight
    <3>1. CASE StoreEntry(t, GetFunction, 1)
      BY <1>0, <2>2, <3>1, <1>StoreFlight
    <3>2. CASE UNCHANGED INFLIGHT
      BY <3>2 DEF SampledInFlight
    <3> QED BY <1>1, <3>1, <3>2 DEF EnterGetFunction
  <2> QED BY <2>1, <2>3, <1>SampleQuiet
<1>2. ASSUME NEW t \in Threads, LeaveGetFunction(t) PROVE SampleBound'
  <2>1. UNCHANGED <<AGGREGATED, SAMPLE_COUNTER>>
    BY <1>2 DEF LeaveGetFunction, Leave, sinks
  <2>2. INFLIGHT' \in {INFLIGHT, [INFLIGHT EXCEPT ![t] = NoEntry]}
    BY <1>2 DEF LeaveGetFunction
  <2>3. SampledInFlight' \subseteq SampledInFlight
    BY <1>0, <2>2 DEF SampledInFlight, TypeOK, TrackingOK
  <2> QED BY <2>1, <2>3, <1>SampleQuiet
<1>3. CASE UNCHANGED <<tracking, sinks>>
  <2>1. UNCHANGED <<AGGREGATED, SAMPLE_COUNTER>> /\ SampledInFlight' \subseteq SampledInFlight
    BY <1>3 DEF tracking, sinks, SampledInFlight
  <2> QED BY <2>1, <1>SampleQuiet
<1> QED BY <1>0, <1>1, <1>2, <1>3, <1>SampleEnter, <1>SampleExit, NextKinds

(* With sampling on, for any rate and any number of CPUs and threads, the  *)
(* counts emit_exit weighs with the rate, and the entries that may still   *)
(* be counted, never exceed the calls save_entry considered by a full      *)
(* SampleRate for a CPU: evictions, full maps and killed threads only lose *)
(* counts, they never invent any.                                          *)
THEOREM SampledCounts == Spec /\ SampleRate > 1 => []SampleBound
<1>1. Init /\ SampleRate > 1 => SampleInv
  <2> SUFFICES ASSUME Init, SampleRate > 1 PROVE SampleInv
    OBVIOUS
  <2>1. TypeOK /\ SampleRate \in Nat
    BY InitInv, ConstantsAssumption DEF Inv
  <2>2. SampleTyped
    BY <2>1, SampleType
  <2>3. DOMAIN Counts = CudaKey /\ \A k \in CudaKey : Counts[k] = 0
    BY DEF Init, Counts, EmptyAgg
  <2>4. Sum(Counts) = 0
    BY <2>3, SumZero
  <2>5. SampledInFlight = {}
    BY DEF Init, SampledInFlight
  <2>6. Cardinality(SampledInFlight) = 0
    BY <2>5, FS_EmptySet
  <2>7. Sum(Counts) + SampleRate * Cardinality(SampledInFlight) <= SampleRate * Sum(Kept)
    BY <2>1, <2>2, <2>4, <2>6, SMT DEF SampleTyped
  <2> QED BY <2>1, <2>7 DEF SampleInv, SampleBound, CountSum, Counts, Kept, SampledInFlight
<1>2. SampleInv => SampleBound
  BY DEF SampleInv
<1> QED BY NextSample, TypeCorrect, <1>1, <1>2, PTL DEF Spec
-----------------------------------------------------------------------------
(* The sizes of allocations.                                               *)

(* Allocations succeed, and are neither made inside another probed call    *)
(* nor make one.                                                           *)
Alone ==
  /\ "call_fails" \notin Faults
  /\ \A c \in InnerCalls : c[1] \notin MallocFns /\ c[2] \notin MallocFns

(* Call i of thread u is about to free a; has been given a. *)
Freeing(u, i, a) == stack[u][i].fn \in FreeFns /\ ~stack[u][i].done /\ stack[u][i].arg = a

Given(u, i, a) == stack[u][i].fn \in MallocFns /\ stack[u][i].res = a

(* Between the entry program of a free and the free itself the address is  *)
(* allocated, has no size in the map, and no other call holds it.          *)
FreeOpen ==
  \A u \in Threads : \A i \in 1 .. Len(stack[u]) : \A a \in Addrs : Freeing(u, i, a) =>
    /\ MALLOC_SIZES[<<PidOf[u], a>>] = 0
    /\ heap[<<PidOf[u], a>>] # 0
    /\ \A w \in Threads : \A j \in 1 .. Len(stack[w]) : PidOf[w] = PidOf[u] =>
         ~Given(w, j, a) /\ (Freeing(w, j, a) => w = u /\ j = i)

(* Between an allocation and the return program that records its size, the *)
(* address belongs to it, and the entry in flight is its own.              *)
MallocOpen ==
  \A u \in Threads : \A i \in 1 .. Len(stack[u]) : LET f == stack[u][i] IN
    f.fn \in MallocFns =>
      /\ Len(stack[u]) = 1
      /\ f.arg # 0 /\ f.rc = 0
      /\ f.res # 0 => f.res \in Addrs /\ heap[<<PidOf[u], f.res>>] = f.arg
      /\ INFLIGHT[u] # NoEntry => INFLIGHT[u].arg0 = f.arg

Mem == FreeOpen /\ MallocOpen /\ MallocSizesSound

MemInv == Alone /\ Inv /\ Mem

LEMMA MemFacts ==
  ASSUME MemInv
  PROVE  /\ TypeOK /\ EntryOwned /\ FreeOpen /\ MallocOpen /\ MallocSizesSound
         /\ stack \in [Threads -> Seq(Frame)]
         /\ \A u \in Threads : stack[u] \in Seq(Frame) /\ Len(stack[u]) \in Nat /\ PidOf[u] \in Pids
BY SMT DEF MemInv, Mem, Inv, TypeOK, AppOK, Pids

(* Calls close and entries leave. *)
Closing ==
  \A u \in Threads :
    /\ Len(stack'[u]) \in Nat /\ Len(stack'[u]) <= Len(stack[u])
    /\ \A i \in 1 .. Len(stack'[u]) : stack'[u][i] = stack[u][i]
    /\ INFLIGHT'[u] \in {INFLIGHT[u], NoEntry}

(* Sizes leave the map, or one is recorded of an allocation nobody is      *)
(* freeing.                                                                *)
Recording ==
  \A p \in Pids, a \in Addrs :
    \/ MALLOC_SIZES'[<<p, a>>] \in {MALLOC_SIZES[<<p, a>>], 0}
    \/ /\ MALLOC_SIZES'[<<p, a>>] = heap[<<p, a>>]
       /\ \A u \in Threads : \A i \in 1 .. Len(stack[u]) : PidOf[u] = p => ~Freeing(u, i, a)

(* An address that may be freed is allocated and no open call holds it. *)
LEMMA FreeAlone ==
  ASSUME MemInv, NEW t \in Threads, NEW a, a # 0, MayFree(PidOf[t], a)
  PROVE  /\ heap[<<PidOf[t], a>>] # 0
         /\ \A u \in Threads : \A i \in 1 .. Len(stack[u]) :
              PidOf[u] = PidOf[t] => ~Freeing(u, i, a) /\ ~Given(u, i, a)
<1>1. heap[<<PidOf[t], a>>] # 0
  BY DEF MayFree
<1>2. ASSUME NEW u \in Threads, NEW i \in 1 .. Len(stack[u]), PidOf[u] = PidOf[t]
      PROVE  ~Freeing(u, i, a) /\ ~Given(u, i, a)
  <2>1. i \in DOMAIN stack[u]
    BY MemFacts, SMT
  <2>2. stack[u][i].fn \in MallocFns => stack[u][i].rc = 0
    BY MemFacts DEF MallocOpen
  <2> QED BY <1>2, <2>1, <2>2 DEF MayFree, Freeing, Given
<1> QED BY <1>1, <1>2

(* Running the body of a call changes its frame and no other. *)
LEMMA RanFrames ==
  ASSUME MemInv, NEW t \in Threads, stack[t] # <<>>, NEW res \in Nat, Ran(t, res, 0)
  PROVE  /\ Len(stack[t]) \in 1 .. Len(stack[t])
         /\ \A u \in Threads : Len(stack'[u]) = Len(stack[u])
         /\ \A u \in Threads : \A i \in 1 .. Len(stack[u]) :
              \/ stack'[u][i] = stack[u][i] /\ ~(u = t /\ i = Len(stack[t]))
              \/ /\ u = t /\ i = Len(stack[t])
                 /\ stack'[u][i] = [Top(t) EXCEPT !.res = res, !.rc = 0, !.done = TRUE]
<1> DEFINE n == Len(stack[t])
           g == [stack[t][n] EXCEPT !.res = res, !.rc = 0, !.done = TRUE]
           s == [stack[t] EXCEPT ![n] = g]
<1>1. /\ stack \in [Threads -> Seq(Frame)]
      /\ stack[t] \in Seq(Frame) /\ n \in 1 .. Len(stack[t]) /\ stack[t][n] \in Frame
  BY MemFacts
<1>2. g \in Frame
  BY <1>1 DEF Frame
<1>3. stack' = [stack EXCEPT ![t] = s]
  BY <1>1 DEF Ran
<1>4. Top(t) = stack[t][n]
  BY DEF Top
<1> HIDE DEF g
<1>5. s \in Seq(Frame) /\ Len(s) = Len(stack[t]) /\ s[n] = g /\ \A i \in 1 .. n : i # n => s[i] = stack[t][i]
  BY <1>1, <1>2, SMT
<1> HIDE DEF s, n
<1>6. stack'[t] = s /\ \A u \in Threads \ {t} : stack'[u] = stack[u]
  BY <1>1, <1>3
<1>7. \A u \in Threads : Len(stack'[u]) = Len(stack[u])
  BY <1>5, <1>6
<1>8. ASSUME NEW u \in Threads, NEW i \in 1 .. Len(stack[u])
      PROVE  \/ stack'[u][i] = stack[u][i] /\ ~(u = t /\ i = Len(stack[t]))
             \/ u = t /\ i = Len(stack[t]) /\ stack'[u][i] = g
  <2>1. CASE u # t
    BY <1>6, <2>1
  <2>2. CASE u = t /\ i = n
    BY <1>5, <1>6, <2>2 DEF n
  <2>3. CASE u = t /\ i # n
    BY <1>5, <1>6, <2>3 DEF n
  <2> QED BY <2>1, <2>2, <2>3
<1>9. g = [Top(t) EXCEPT !.res = res, !.rc = 0, !.done = TRUE]
  BY <1>4 DEF g
<1> QED BY <1>1, <1>7, <1>8, <1>9 DEF n

LEMMA NextMem == MemInv /\ [Next]_vars => MemInv'
<1>MemShrink.
  ASSUME MemInv, UNCHANGED heap, Closing, Recording
  PROVE  Mem'
  <2> USE <1>MemShrink
  <2>0. \A u \in Threads : \A i \in 1 .. Len(stack'[u]) : i \in 1 .. Len(stack[u]) /\ stack'[u][i] = stack[u][i]
    BY MemFacts, SMT DEF Closing
  <2>1. FreeOpen'
    <3> SUFFICES ASSUME NEW u \in Threads, NEW i \in 1 .. Len(stack'[u]), NEW a \in Addrs, Freeing(u, i, a)'
                 PROVE  /\ MALLOC_SIZES'[<<PidOf[u], a>>] = 0
                        /\ heap'[<<PidOf[u], a>>] # 0
                        /\ \A w \in Threads : \A j \in 1 .. Len(stack'[w]) : PidOf[w] = PidOf[u] =>
                             ~Given(w, j, a)' /\ (Freeing(w, j, a)' => w = u /\ j = i)
      BY DEF FreeOpen
    <3>1. i \in 1 .. Len(stack[u]) /\ Freeing(u, i, a)
      BY <2>0 DEF Freeing
    <3>2. /\ MALLOC_SIZES[<<PidOf[u], a>>] = 0
          /\ heap[<<PidOf[u], a>>] # 0
          /\ \A w \in Threads : \A j \in 1 .. Len(stack[w]) : PidOf[w] = PidOf[u] =>
               ~Given(w, j, a) /\ (Freeing(w, j, a) => w = u /\ j = i)
      BY <3>1, MemFacts DEF FreeOpen
    <3>3. MALLOC_SIZES'[<<PidOf[u], a>>] = 0
      BY <3>1, <3>2, MemFacts DEF Recording
    <3>4. ASSUME NEW w \in Threads, NEW j \in 1 .. Len(stack'[w]), PidOf[w] = PidOf[u]
          PROVE  ~Given(w, j, a)' /\ (Freeing(w, j, a)' => w = u /\ j = i)
      <4>1. j \in 1 .. Len(stack[w]) /\ stack'[w][j] = stack[w][j]
        BY <2>0
      <4> QED BY <3>2, <3>4, <4>1 DEF Given, Freeing
    <3> QED BY <3>2, <3>3, <3>4
  <2>2. MallocOpen'
    <3> SUFFICES ASSUME NEW u \in Threads, NEW i \in 1 .. Len(stack'[u]), stack'[u][i].fn \in MallocFns
                 PROVE  LET f == stack'[u][i] IN
                        /\ Len(stack'[u]) = 1
                        /\ f.arg # 0 /\ f.rc = 0
                        /\ f.res # 0 => f.res \in Addrs /\ heap'[<<PidOf[u], f.res>>] = f.arg
                        /\ INFLIGHT'[u] # NoEntry => INFLIGHT'[u].arg0 = f.arg
      BY DEF MallocOpen
    <3>1. i \in 1 .. Len(stack[u]) /\ stack'[u][i] = stack[u][i]
      BY <2>0
    <3>2. LET f == stack[u][i] IN
          /\ Len(stack[u]) = 1
          /\ f.arg # 0 /\ f.rc = 0
          /\ f.res # 0 => f.res \in Addrs /\ heap[<<PidOf[u], f.res>>] = f.arg
          /\ INFLIGHT[u] # NoEntry => INFLIGHT[u].arg0 = f.arg
      BY <3>1, MemFacts DEF MallocOpen
    <3>3. Len(stack'[u]) = 1
      <4>1. PICK n \in Nat : n = Len(stack'[u]) /\ n <= 1
        BY <3>2 DEF Closing
      <4>2. ASSUME n = 0 PROVE FALSE
        <5>1. i \in 1 .. 0 /\ 1 .. 0 = {}
          BY <4>1, <4>2
        <5> QED BY <5>1
      <4>3. n <= 1 => n = 0 \/ n = 1
        OBVIOUS
      <4> QED BY <4>1, <4>2, <4>3, ZenonT(30)
    <3> QED BY <3>1, <3>2, <3>3 DEF Closing
  <2>3. MallocSizesSound'
    <3> SUFFICES ASSUME NEW p \in Pids, NEW a \in Addrs, MALLOC_SIZES'[<<p, a>>] # 0
                 PROVE  MALLOC_SIZES'[<<p, a>>] = heap'[<<p, a>>]
      BY SMT DEF MallocSizesSound
    <3>1. MALLOC_SIZES[<<p, a>>] # 0 => MALLOC_SIZES[<<p, a>>] = heap[<<p, a>>]
      BY MemFacts DEF MallocSizesSound
    <3> QED BY <3>1 DEF Recording
  <2> QED BY <2>1, <2>2, <2>3 DEF Mem
(* A call that opens finds no allocation open in its thread. *)
<1>NoMallocBelow.
  ASSUME MemInv, NEW t \in Threads, NEW f \in Frame, Call(t, f)
  PROVE  /\ \A i \in 1 .. Len(stack[t]) : stack[t][i].fn \notin MallocFns
         /\ f.fn \in MallocFns => stack[t] = <<>>
  <2> USE <1>NoMallocBelow
  <2>1. stack[t] # <<>> => Top(t).fn \notin MallocFns /\ f.fn \notin MallocFns
    <3>1. stack[t] # <<>> => <<Top(t).fn, f.fn>> \in InnerCalls
      BY DEF Call
    <3> QED BY <3>1 DEF MemInv, Alone
  <2>2. ASSUME NEW i \in 1 .. Len(stack[t]), stack[t][i].fn \in MallocFns PROVE FALSE
    <3>1. Len(stack[t]) = 1 /\ stack[t] \in Seq(Frame)
      BY <2>2, MemFacts DEF MallocOpen
    <3>2. stack[t] # <<>> /\ i = Len(stack[t])
      <4>1. stack[t] # <<>>
        <5>1. PICK n \in Nat : n = Len(stack[t]) /\ n # 0
          BY <3>1
        <5>2. Len(<<>>) = 0
          OBVIOUS
        <5> QED BY <5>1, <5>2
      <4>2. i = Len(stack[t])
        <5>1. PICK n \in Nat : n = Len(stack[t])
          BY <3>1
        <5> QED BY <3>1, <5>1
      <4> QED BY <4>1, <4>2
    <3> QED BY <2>1, <2>2, <3>2 DEF Top
  <2> QED BY <2>1, <2>2
<1>PushFrames.
  ASSUME MemInv, NEW t \in Threads, NEW f \in Frame, Call(t, f)
  PROVE  /\ UNCHANGED heap
         /\ Len(stack[t]) \in Nat /\ Len(stack'[t]) = Len(stack[t]) + 1
         /\ \A u \in Threads \ {t} : stack'[u] = stack[u]
         /\ \A u \in Threads : \A i \in 1 .. Len(stack'[u]) :
              \/ i \in 1 .. Len(stack[u]) /\ stack'[u][i] = stack[u][i]
              \/ u = t /\ i = Len(stack[t]) + 1 /\ stack'[u][i] = f
  <2> USE <1>PushFrames
  <2>1. /\ Len(stack'[t]) = Len(stack[t]) + 1 /\ Len(stack[t]) \in Nat
        /\ stack'[t][Len(stack[t]) + 1] = f
        /\ \A i \in 1 .. Len(stack[t]) : stack'[t][i] = stack[t][i]
        /\ \A w \in Threads \ {t} : stack'[w] = stack[w]
        /\ UNCHANGED heap
    BY MemFacts, CallEffect DEF Call
  <2> QED BY <2>1, SMT
(* A new call leaves the allocations alone, and is one that has no address *)
(* yet or none.                                                            *)
<1>PushMalloc.
  ASSUME MemInv, NEW t \in Threads, NEW f \in Frame, Call(t, f),
         f.fn \in MallocFns =>
           /\ f.arg # 0 /\ f.rc = 0 /\ f.res = 0
           /\ INFLIGHT'[t] # NoEntry => INFLIGHT'[t].arg0 = f.arg,
         \A u \in Threads \ {t} : INFLIGHT'[u] \in {INFLIGHT[u], NoEntry}
  PROVE  MallocOpen'
  <2> USE <1>PushMalloc
  <2> SUFFICES ASSUME NEW u \in Threads, NEW i \in 1 .. Len(stack'[u]), stack'[u][i].fn \in MallocFns
               PROVE  LET g == stack'[u][i] IN
                      /\ Len(stack'[u]) = 1
                      /\ g.arg # 0 /\ g.rc = 0
                      /\ g.res # 0 => g.res \in Addrs /\ heap'[<<PidOf[u], g.res>>] = g.arg
                      /\ INFLIGHT'[u] # NoEntry => INFLIGHT'[u].arg0 = g.arg
    BY DEF MallocOpen
  <2>1. /\ UNCHANGED heap
        /\ Len(stack[t]) \in Nat /\ Len(stack'[t]) = Len(stack[t]) + 1
        /\ \A w \in Threads \ {t} : stack'[w] = stack[w]
    BY <1>PushFrames
  <2>2. CASE i \in 1 .. Len(stack[u]) /\ stack'[u][i] = stack[u][i]
    <3>1. u # t
      BY <2>2, <1>NoMallocBelow
    <3>2. LET g == stack[u][i] IN
          /\ Len(stack[u]) = 1
          /\ g.arg # 0 /\ g.rc = 0
          /\ g.res # 0 => g.res \in Addrs /\ heap[<<PidOf[u], g.res>>] = g.arg
          /\ INFLIGHT[u] # NoEntry => INFLIGHT[u].arg0 = g.arg
      BY <2>2, MemFacts DEF MallocOpen
    <3> QED BY <2>1, <2>2, <3>1, <3>2
  <2>3. CASE u = t /\ i = Len(stack[t]) + 1 /\ stack'[u][i] = f
    <3>1. f.fn \in MallocFns /\ stack[t] = <<>>
      BY <2>3, <1>NoMallocBelow
    <3>2. Len(stack[t]) = 0
      BY <3>1
    <3> QED BY <2>1, <2>3, <3>1, <3>2, SMT
  <2> QED BY <2>2, <2>3, <1>PushFrames, SMT
(* A call opens that holds no address yet. *)
<1>MemPush.
  ASSUME MemInv, NEW t \in Threads, NEW f \in Frame, Call(t, f), UNCHANGED MALLOC_SIZES,
         f.fn \notin FreeFns,
         f.fn \in MallocFns =>
           /\ f.arg # 0 /\ f.rc = 0 /\ f.res = 0
           /\ INFLIGHT'[t] # NoEntry => INFLIGHT'[t].arg0 = f.arg,
         \A u \in Threads \ {t} : INFLIGHT'[u] \in {INFLIGHT[u], NoEntry}
  PROVE  Mem'
  <2> USE <1>MemPush
  <2>0. 0 \notin Addrs /\ UNCHANGED heap
    BY ConstantsAssumption, <1>PushFrames
  <2>1. \A u \in Threads : \A i \in 1 .. Len(stack'[u]) :
          \/ i \in 1 .. Len(stack[u]) /\ stack'[u][i] = stack[u][i]
          \/ u = t /\ i = Len(stack[t]) + 1 /\ stack'[u][i] = f
    BY <1>PushFrames
  <2>2. FreeOpen'
    <3> SUFFICES ASSUME NEW u \in Threads, NEW i \in 1 .. Len(stack'[u]), NEW a \in Addrs, Freeing(u, i, a)'
                 PROVE  /\ MALLOC_SIZES'[<<PidOf[u], a>>] = 0
                        /\ heap'[<<PidOf[u], a>>] # 0
                        /\ \A w \in Threads : \A j \in 1 .. Len(stack'[w]) : PidOf[w] = PidOf[u] =>
                             ~Given(w, j, a)' /\ (Freeing(w, j, a)' => w = u /\ j = i)
      BY DEF FreeOpen
    <3>1. i \in 1 .. Len(stack[u]) /\ Freeing(u, i, a)
      BY <2>1 DEF Freeing
    <3>2. /\ MALLOC_SIZES[<<PidOf[u], a>>] = 0
          /\ heap[<<PidOf[u], a>>] # 0
          /\ \A w \in Threads : \A j \in 1 .. Len(stack[w]) : PidOf[w] = PidOf[u] =>
               ~Given(w, j, a) /\ (Freeing(w, j, a) => w = u /\ j = i)
      BY <3>1, MemFacts DEF FreeOpen
    <3>3. ASSUME NEW w \in Threads, NEW j \in 1 .. Len(stack'[w]), PidOf[w] = PidOf[u]
          PROVE  ~Given(w, j, a)' /\ (Freeing(w, j, a)' => w = u /\ j = i)
      <4>1. CASE j \in 1 .. Len(stack[w]) /\ stack'[w][j] = stack[w][j]
        BY <3>2, <3>3, <4>1 DEF Given, Freeing
      <4>2. CASE stack'[w][j] = f
        BY <2>0, <4>2 DEF Given, Freeing
      <4> QED BY <2>1, <4>1, <4>2
    <3> QED BY <2>0, <3>2, <3>3
  <2>3. MallocOpen'
    BY <1>PushMalloc
  <2>4. MallocSizesSound'
    BY <2>0, MemFacts DEF MallocSizesSound
  <2> QED BY <2>2, <2>3, <2>4 DEF Mem
(* The entry program of a free takes the size out of the map before the    *)
(* address can be given out again.                                         *)
<1>MemEnterFree.
  ASSUME MemInv, NEW t \in Threads, NEW fn \in FreeFns, NEW a \in Addrs \cup {0},
         MayFree(PidOf[t], a), NEW f \in Frame, f = NewFrame(fn, a), Call(t, f),
         MALLOC_SIZES' = IF a = 0 THEN MALLOC_SIZES ELSE [MALLOC_SIZES EXCEPT ![<<PidOf[t], a>>] = 0],
         \A u \in Threads \ {t} : INFLIGHT'[u] \in {INFLIGHT[u], NoEntry}
  PROVE  Mem'
  <2> USE <1>MemEnterFree
  <2>0. 0 \notin Addrs /\ UNCHANGED heap
    BY ConstantsAssumption, <1>PushFrames
  <2>1. /\ f.fn \in FreeFns /\ f.fn \notin MallocFns /\ f.arg = a
        /\ MALLOC_SIZES \in [Pids \X Addrs -> Nat]
    BY MemFacts DEF NewFrame, FreeFns, MallocFns, TypeOK, TrackingOK
  <2>2. \A u \in Threads : \A i \in 1 .. Len(stack'[u]) :
          \/ i \in 1 .. Len(stack[u]) /\ stack'[u][i] = stack[u][i]
          \/ u = t /\ i = Len(stack[t]) + 1 /\ stack'[u][i] = f
    BY <1>PushFrames, SMT
  <2>3. a # 0 => /\ heap[<<PidOf[t], a>>] # 0
                 /\ \A u \in Threads : \A i \in 1 .. Len(stack[u]) :
                      PidOf[u] = PidOf[t] => ~Freeing(u, i, a) /\ ~Given(u, i, a)
    BY FreeAlone
  <2>4. \A p \in Pids, b \in Addrs : MALLOC_SIZES'[<<p, b>>] \in {MALLOC_SIZES[<<p, b>>], 0}
    BY <2>1
  <2>5. FreeOpen'
    <3> SUFFICES ASSUME NEW u \in Threads, NEW i \in 1 .. Len(stack'[u]), NEW b \in Addrs, Freeing(u, i, b)'
                 PROVE  /\ MALLOC_SIZES'[<<PidOf[u], b>>] = 0
                        /\ heap'[<<PidOf[u], b>>] # 0
                        /\ \A w \in Threads : \A j \in 1 .. Len(stack'[w]) : PidOf[w] = PidOf[u] =>
                             ~Given(w, j, b)' /\ (Freeing(w, j, b)' => w = u /\ j = i)
      BY DEF FreeOpen
    <3>0. PidOf[u] \in Pids /\ PidOf[t] \in Pids
      BY MemFacts
    <3>1. CASE i \in 1 .. Len(stack[u]) /\ stack'[u][i] = stack[u][i]
      <4>1. Freeing(u, i, b)
        BY <3>1 DEF Freeing
      <4>2. /\ MALLOC_SIZES[<<PidOf[u], b>>] = 0
            /\ heap[<<PidOf[u], b>>] # 0
            /\ \A w \in Threads : \A j \in 1 .. Len(stack[w]) : PidOf[w] = PidOf[u] =>
                 ~Given(w, j, b) /\ (Freeing(w, j, b) => w = u /\ j = i)
        BY <3>1, <4>1, MemFacts DEF FreeOpen
      <4>3. ASSUME NEW w \in Threads, NEW j \in 1 .. Len(stack'[w]), PidOf[w] = PidOf[u]
            PROVE  ~Given(w, j, b)' /\ (Freeing(w, j, b)' => w = u /\ j = i)
        <5>1. CASE j \in 1 .. Len(stack[w]) /\ stack'[w][j] = stack[w][j]
          BY <4>2, <4>3, <5>1 DEF Given, Freeing
        <5>2. CASE w = t /\ stack'[w][j] = f
          <6>1. ~Given(w, j, b)' /\ (Freeing(w, j, b)' => b = a)
            BY <2>1, <5>2 DEF Given, Freeing
          <6>2. b # a
            BY <2>0, <2>3, <3>1, <4>1, <4>3, <5>2
          <6> QED BY <6>1, <6>2
        <5> QED BY <2>2, <5>1, <5>2
      <4> QED BY <2>0, <2>4, <3>0, <4>2, <4>3
    <3>2. CASE u = t /\ i = Len(stack[t]) + 1 /\ stack'[u][i] = f
      <4>1. b = a /\ a # 0
        BY <2>0, <2>1, <3>2 DEF Freeing
      <4>2. MALLOC_SIZES'[<<PidOf[u], b>>] = 0
        BY <2>1, <3>0, <3>2, <4>1
      <4>3. ASSUME NEW w \in Threads, NEW j \in 1 .. Len(stack'[w]), PidOf[w] = PidOf[u]
            PROVE  ~Given(w, j, b)' /\ (Freeing(w, j, b)' => w = u /\ j = i)
        <5>1. CASE j \in 1 .. Len(stack[w]) /\ stack'[w][j] = stack[w][j]
          BY <2>3, <3>2, <4>1, <4>3, <5>1 DEF Given, Freeing
        <5>2. CASE w = t /\ j = Len(stack[t]) + 1 /\ stack'[w][j] = f
          BY <2>1, <3>2, <5>2 DEF Given
        <5> QED BY <2>2, <5>1, <5>2
      <4> QED BY <2>0, <2>3, <3>2, <4>1, <4>2, <4>3
    <3> QED BY <2>2, <3>1, <3>2
  <2>6. MallocOpen'
    BY <2>1, <1>PushMalloc
  <2>7. MallocSizesSound'
    <3> SUFFICES ASSUME NEW p \in Pids, NEW b \in Addrs, MALLOC_SIZES'[<<p, b>>] # 0
                 PROVE  MALLOC_SIZES'[<<p, b>>] = heap'[<<p, b>>]
      BY SMT DEF MallocSizesSound
    <3>1. MALLOC_SIZES[<<p, b>>] # 0 => MALLOC_SIZES[<<p, b>>] = heap[<<p, b>>]
      BY MemFacts DEF MallocSizesSound
    <3> QED BY <2>0, <2>4, <3>1
  <2> QED BY <2>5, <2>6, <2>7 DEF Mem
(* The driver gives out an address nobody holds or is freeing. *)
<1>MemMallocBody.
  ASSUME MemInv, NEW t \in Threads, MallocBody(t)
  PROVE  Mem'
  <2> USE <1>MemMallocBody
  <2>1. /\ stack[t] # <<>> /\ Top(t).fn \in MallocFns
        /\ UNCHANGED <<MALLOC_SIZES, INFLIGHT>>
    BY DEF MallocBody, tracking
  <2>2. PICK a \in Addrs : /\ heap[<<PidOf[t], a>>] = 0
                           /\ heap' = [heap EXCEPT ![<<PidOf[t], a>>] = Top(t).arg]
                           /\ Ran(t, a, 0)
    BY DEF MallocBody, MemInv, Alone
  <2>3. a \in Nat /\ a # 0
    BY ConstantsAssumption
  <2>4. PICK n \in Nat : n = Len(stack[t]) /\ n \in 1 .. Len(stack[t])
    BY <2>1, <2>2, <2>3, MemFacts, RanFrames
  <2>5. PICK g : g = [Top(t) EXCEPT !.res = a, !.rc = 0, !.done = TRUE]
    OBVIOUS
  <2>6. /\ \A u \in Threads : Len(stack'[u]) = Len(stack[u])
        /\ \A u \in Threads : \A i \in 1 .. Len(stack[u]) :
             \/ stack'[u][i] = stack[u][i] /\ ~(u = t /\ i = n)
             \/ u = t /\ i = n /\ stack'[u][i] = g
    <3>1. /\ \A u \in Threads : Len(stack'[u]) = Len(stack[u])
          /\ \A u \in Threads : \A i \in 1 .. Len(stack[u]) :
               \/ stack'[u][i] = stack[u][i] /\ ~(u = t /\ i = Len(stack[t]))
               \/ /\ u = t /\ i = Len(stack[t])
                  /\ stack'[u][i] = [Top(t) EXCEPT !.res = a, !.rc = 0, !.done = TRUE]
      BY <2>1, <2>2, <2>3, RanFrames
    <3> QED BY <2>4, <2>5, <3>1
  <2>7. /\ Top(t) \in Frame /\ Top(t) = stack[t][n]
        /\ Len(stack[t]) = 1 /\ Top(t).arg # 0
        /\ INFLIGHT[t] # NoEntry => INFLIGHT[t].arg0 = Top(t).arg
    <3>1. Top(t) = stack[t][n] /\ stack[t][n] \in Frame
      BY <2>4, MemFacts, SMT DEF Top
    <3> QED BY <2>1, <2>4, <3>1, MemFacts DEF MallocOpen
  <2>8. /\ g.fn \in MallocFns /\ g.fn \notin FreeFns /\ g.arg = Top(t).arg
        /\ g.res = a /\ g.rc = 0
    BY <2>1, <2>5, <2>7 DEF Frame, MallocFns, FreeFns
  <2>9. /\ heap \in [Pids \X Addrs -> Nat] /\ PidOf[t] \in Pids
        /\ heap'[<<PidOf[t], a>>] = Top(t).arg
        /\ \A p \in Pids, b \in Addrs : <<p, b>> # <<PidOf[t], a>> => heap'[<<p, b>>] = heap[<<p, b>>]
    BY <2>2, MemFacts DEF TypeOK, AppOK
  <2>10. FreeOpen'
    <3> SUFFICES ASSUME NEW u \in Threads, NEW i \in 1 .. Len(stack'[u]), NEW b \in Addrs, Freeing(u, i, b)'
                 PROVE  /\ MALLOC_SIZES'[<<PidOf[u], b>>] = 0
                        /\ heap'[<<PidOf[u], b>>] # 0
                        /\ \A w \in Threads : \A j \in 1 .. Len(stack'[w]) : PidOf[w] = PidOf[u] =>
                             ~Given(w, j, b)' /\ (Freeing(w, j, b)' => w = u /\ j = i)
      BY DEF FreeOpen
    <3>1. i \in 1 .. Len(stack[u]) /\ Freeing(u, i, b) /\ PidOf[u] \in Pids
      BY <2>6, <2>8, MemFacts DEF Freeing
    <3>2. /\ MALLOC_SIZES[<<PidOf[u], b>>] = 0
          /\ heap[<<PidOf[u], b>>] # 0
          /\ \A w \in Threads : \A j \in 1 .. Len(stack[w]) : PidOf[w] = PidOf[u] =>
               ~Given(w, j, b) /\ (Freeing(w, j, b) => w = u /\ j = i)
      BY <3>1, MemFacts DEF FreeOpen
    <3>3. <<PidOf[u], b>> # <<PidOf[t], a>>
      BY <2>2, <3>2
    <3>4. ASSUME NEW w \in Threads, NEW j \in 1 .. Len(stack'[w]), PidOf[w] = PidOf[u]
          PROVE  ~Given(w, j, b)' /\ (Freeing(w, j, b)' => w = u /\ j = i)
      <4>1. j \in 1 .. Len(stack[w])
        BY <2>6
      <4>2. CASE stack'[w][j] = stack[w][j]
        BY <3>2, <3>4, <4>1, <4>2 DEF Given, Freeing
      <4>3. CASE w = t /\ stack'[w][j] = g
        BY <2>8, <3>3, <3>4, <4>3 DEF Given, Freeing
      <4> QED BY <2>6, <4>1, <4>2, <4>3
    <3> QED BY <2>1, <2>9, <3>1, <3>2, <3>3, <3>4
  <2>11. MallocOpen'
    <3> SUFFICES ASSUME NEW u \in Threads, NEW i \in 1 .. Len(stack'[u]), stack'[u][i].fn \in MallocFns
                 PROVE  LET f == stack'[u][i] IN
                        /\ Len(stack'[u]) = 1
                        /\ f.arg # 0 /\ f.rc = 0
                        /\ f.res # 0 => f.res \in Addrs /\ heap'[<<PidOf[u], f.res>>] = f.arg
                        /\ INFLIGHT'[u] # NoEntry => INFLIGHT'[u].arg0 = f.arg
      BY DEF MallocOpen
    <3>0. i \in 1 .. Len(stack[u]) /\ Len(stack'[u]) = Len(stack[u]) /\ PidOf[u] \in Pids
      BY <2>6, MemFacts
    <3>1. CASE stack'[u][i] = stack[u][i]
      <4>1. LET f == stack[u][i] IN
            /\ Len(stack[u]) = 1
            /\ f.arg # 0 /\ f.rc = 0
            /\ f.res # 0 => f.res \in Addrs /\ heap[<<PidOf[u], f.res>>] = f.arg
            /\ INFLIGHT[u] # NoEntry => INFLIGHT[u].arg0 = f.arg
        BY <3>0, <3>1, MemFacts DEF MallocOpen
      <4>2. stack[u][i].res # 0 => heap'[<<PidOf[u], stack[u][i].res>>] = stack[u][i].arg
        BY <2>2, <2>9, <3>0, <4>1, SMT
      <4> QED BY <2>1, <3>0, <3>1, <4>1, <4>2
    <3>2. CASE u = t /\ stack'[u][i] = g
      BY <2>1, <2>7, <2>8, <2>9, <3>0, <3>2
    <3> QED BY <2>6, <3>0, <3>1, <3>2
  <2>12. MallocSizesSound'
    <3> SUFFICES ASSUME NEW p \in Pids, NEW b \in Addrs, MALLOC_SIZES'[<<p, b>>] # 0
                 PROVE  MALLOC_SIZES'[<<p, b>>] = heap'[<<p, b>>]
      BY SMT DEF MallocSizesSound
    <3>1. MALLOC_SIZES[<<p, b>>] # 0 /\ MALLOC_SIZES[<<p, b>>] = heap[<<p, b>>]
      BY <2>1, MemFacts DEF MallocSizesSound
    <3>2. <<p, b>> # <<PidOf[t], a>>
      BY <2>2, <3>1
    <3> QED BY <2>1, <2>9, <3>1, <3>2
  <2> QED BY <2>10, <2>11, <2>12 DEF Mem
(* The free itself: the address it gives back is held by no other call and *)
(* its size has left the map.                                              *)
<1>MemFreeBody.
  ASSUME MemInv, NEW t \in Threads, FreeBody(t)
  PROVE  Mem'
  <2> USE <1>MemFreeBody
  <2>1. /\ stack[t] # <<>> /\ Top(t).fn \in FreeFns /\ ~Top(t).done
        /\ UNCHANGED <<MALLOC_SIZES, INFLIGHT>>
    BY DEF FreeBody, tracking
  <2>2. /\ Ran(t, 0, 0)
        /\ heap' = IF Top(t).arg = 0 THEN heap ELSE [heap EXCEPT ![<<PidOf[t], Top(t).arg>>] = 0]
    BY DEF FreeBody, MemInv, Alone
  <2>3. PICK n \in Nat : n = Len(stack[t]) /\ n \in 1 .. Len(stack[t])
    BY <2>1, <2>2, MemFacts, RanFrames
  <2>4. PICK g : g = [Top(t) EXCEPT !.res = 0, !.rc = 0, !.done = TRUE]
    OBVIOUS
  <2>5. /\ \A u \in Threads : Len(stack'[u]) = Len(stack[u])
        /\ \A u \in Threads : \A i \in 1 .. Len(stack[u]) :
             \/ stack'[u][i] = stack[u][i] /\ ~(u = t /\ i = n)
             \/ u = t /\ i = n /\ stack'[u][i] = g
    <3>1. /\ \A u \in Threads : Len(stack'[u]) = Len(stack[u])
          /\ \A u \in Threads : \A i \in 1 .. Len(stack[u]) :
               \/ stack'[u][i] = stack[u][i] /\ ~(u = t /\ i = Len(stack[t]))
               \/ /\ u = t /\ i = Len(stack[t])
                  /\ stack'[u][i] = [Top(t) EXCEPT !.res = 0, !.rc = 0, !.done = TRUE]
      BY <2>1, <2>2, RanFrames
    <3> QED BY <2>3, <2>4, <3>1
  <2>6. Top(t) \in Frame /\ Top(t) = stack[t][n]
    BY <2>3, MemFacts, SMT DEF Top
  <2>7. g.fn \notin MallocFns /\ g.done
    BY <2>1, <2>4, <2>6 DEF Frame, MallocFns, FreeFns
  <2>8. ASSUME NEW p \in Pids, NEW b \in Addrs
        PROVE  \/ heap'[<<p, b>>] = heap[<<p, b>>]
               \/ /\ heap'[<<p, b>>] = 0 /\ p = PidOf[t] /\ Freeing(t, n, b)
    <3>1. heap \in [Pids \X Addrs -> Nat]
      BY MemFacts DEF TypeOK, AppOK
    <3>2. CASE p = PidOf[t] /\ b = Top(t).arg
      BY <2>1, <2>2, <2>6, <3>1, <3>2 DEF Freeing
    <3>3. CASE ~(p = PidOf[t] /\ b = Top(t).arg)
      BY <2>2, <3>1, <3>3
    <3> QED BY <3>2, <3>3
  <2>9. \A b \in Addrs : Freeing(t, n, b) =>
          /\ MALLOC_SIZES[<<PidOf[t], b>>] = 0
          /\ \A w \in Threads : \A j \in 1 .. Len(stack[w]) : PidOf[w] = PidOf[t] =>
               ~Given(w, j, b) /\ (Freeing(w, j, b) => w = t /\ j = n)
    BY <2>3, MemFacts DEF FreeOpen
  <2>10. FreeOpen'
    <3> SUFFICES ASSUME NEW u \in Threads, NEW i \in 1 .. Len(stack'[u]), NEW b \in Addrs, Freeing(u, i, b)'
                 PROVE  /\ MALLOC_SIZES'[<<PidOf[u], b>>] = 0
                        /\ heap'[<<PidOf[u], b>>] # 0
                        /\ \A w \in Threads : \A j \in 1 .. Len(stack'[w]) : PidOf[w] = PidOf[u] =>
                             ~Given(w, j, b)' /\ (Freeing(w, j, b)' => w = u /\ j = i)
      BY DEF FreeOpen
    <3>1. i \in 1 .. Len(stack[u]) /\ Freeing(u, i, b) /\ ~(u = t /\ i = n) /\ PidOf[u] \in Pids
      BY <2>5, <2>7, MemFacts DEF Freeing
    <3>2. /\ MALLOC_SIZES[<<PidOf[u], b>>] = 0
          /\ heap[<<PidOf[u], b>>] # 0
          /\ \A w \in Threads : \A j \in 1 .. Len(stack[w]) : PidOf[w] = PidOf[u] =>
               ~Given(w, j, b) /\ (Freeing(w, j, b) => w = u /\ j = i)
      BY <3>1, MemFacts DEF FreeOpen
    <3>3. heap'[<<PidOf[u], b>>] = heap[<<PidOf[u], b>>]
      BY <2>8, <2>9, <3>1
    <3>4. ASSUME NEW w \in Threads, NEW j \in 1 .. Len(stack'[w]), PidOf[w] = PidOf[u]
          PROVE  ~Given(w, j, b)' /\ (Freeing(w, j, b)' => w = u /\ j = i)
      <4>1. j \in 1 .. Len(stack[w])
        BY <2>5
      <4>2. CASE stack'[w][j] = stack[w][j]
        BY <3>2, <3>4, <4>1, <4>2 DEF Given, Freeing
      <4>3. CASE stack'[w][j] = g
        BY <2>7, <4>3 DEF Given, Freeing
      <4> QED BY <2>5, <4>1, <4>2, <4>3
    <3> QED BY <2>1, <3>2, <3>3, <3>4
  <2>11. MallocOpen'
    <3> SUFFICES ASSUME NEW u \in Threads, NEW i \in 1 .. Len(stack'[u]), stack'[u][i].fn \in MallocFns
                 PROVE  LET f == stack'[u][i] IN
                        /\ Len(stack'[u]) = 1
                        /\ f.arg # 0 /\ f.rc = 0
                        /\ f.res # 0 => f.res \in Addrs /\ heap'[<<PidOf[u], f.res>>] = f.arg
                        /\ INFLIGHT'[u] # NoEntry => INFLIGHT'[u].arg0 = f.arg
      BY DEF MallocOpen
    <3>1. i \in 1 .. Len(stack[u]) /\ stack'[u][i] = stack[u][i] /\ PidOf[u] \in Pids
      BY <2>5, <2>7, MemFacts
    <3>2. LET f == stack[u][i] IN
          /\ Len(stack[u]) = 1
          /\ f.arg # 0 /\ f.rc = 0
          /\ f.res # 0 => f.res \in Addrs /\ heap[<<PidOf[u], f.res>>] = f.arg
          /\ INFLIGHT[u] # NoEntry => INFLIGHT[u].arg0 = f.arg
      BY <3>1, MemFacts DEF MallocOpen
    <3>3. stack[u][i].res # 0 => heap'[<<PidOf[u], stack[u][i].res>>] = stack[u][i].arg
      <4> SUFFICES ASSUME stack[u][i].res # 0
                   PROVE  heap'[<<PidOf[u], stack[u][i].res>>] = stack[u][i].arg
        OBVIOUS
      <4>1. PICK b \in Addrs : b = stack[u][i].res /\ heap[<<PidOf[u], b>>] = stack[u][i].arg
        BY <3>2
      <4>2. Given(u, i, b)
        BY <3>1, <4>1 DEF Given
      <4> QED BY <2>8, <2>9, <3>1, <4>1, <4>2
    <3>4. Len(stack'[u]) = 1
      BY <2>5, <3>2
    <3> QED BY <2>1, <3>1, <3>2, <3>3, <3>4
  <2>12. MallocSizesSound'
    <3> SUFFICES ASSUME NEW p \in Pids, NEW b \in Addrs, MALLOC_SIZES'[<<p, b>>] # 0
                 PROVE  MALLOC_SIZES'[<<p, b>>] = heap'[<<p, b>>]
      BY SMT DEF MallocSizesSound
    <3>1. MALLOC_SIZES[<<p, b>>] # 0 /\ MALLOC_SIZES[<<p, b>>] = heap[<<p, b>>]
      BY <2>1, MemFacts DEF MallocSizesSound
    <3> QED BY <2>1, <2>8, <2>9, <3>1
  <2> QED BY <2>10, <2>11, <2>12 DEF Mem
<1>LeaveCloses.
  ASSUME MemInv, NEW t \in Threads, Leave(t),
         INFLIGHT' \in {INFLIGHT, [INFLIGHT EXCEPT ![t] = NoEntry]}
  PROVE  Closing /\ UNCHANGED heap
  <2> USE <1>LeaveCloses
  <2>1. /\ Len(stack[t]) \in Nat \ {0}
        /\ Len(stack'[t]) = Len(stack[t]) - 1
        /\ \A i \in 1 .. Len(stack[t]) - 1 : stack'[t][i] = stack[t][i]
        /\ \A u \in Threads \ {t} : stack'[u] = stack[u]
    BY MemFacts, LeaveEffect
  <2>2. \A u \in Threads : INFLIGHT'[u] \in {INFLIGHT[u], NoEntry}
    BY MemFacts DEF TypeOK, TrackingOK
  <2>3. ASSUME NEW u \in Threads
        PROVE  /\ Len(stack'[u]) \in Nat /\ Len(stack'[u]) <= Len(stack[u])
               /\ \A i \in 1 .. Len(stack'[u]) : stack'[u][i] = stack[u][i]
    <3>1. CASE u = t
      BY <2>1, <3>1, SMT
    <3>2. CASE u # t
      BY <2>1, <3>2, MemFacts, SMT
    <3> QED BY <3>1, <3>2
  <2> QED BY <2>2, <2>3 DEF Closing, Leave
(* The return program of an allocation records the size it was asked for,  *)
(* of an address the caller still holds alone.                             *)
<1>MemLeaveMalloc.
  ASSUME MemInv, NEW t \in Threads, LeaveMalloc(t)
  PROVE  Mem'
  <2> USE <1>MemLeaveMalloc
  <2>1. /\ Leave(t) /\ Top(t).fn \in MallocFns
        /\ INFLIGHT' \in {INFLIGHT, [INFLIGHT EXCEPT ![t] = NoEntry]}
        /\ t \notin dead /\ stack[t] # <<>>
    BY DEF LeaveMalloc, emit_exit, Leave
  <2>2. Closing /\ UNCHANGED heap
    BY <2>1, <1>LeaveCloses
  <2>3. /\ Len(stack[t]) = 1 /\ Top(t) = stack[t][1]
        /\ Top(t).res # 0 => Top(t).res \in Addrs /\ heap[<<PidOf[t], Top(t).res>>] = Top(t).arg
        /\ INFLIGHT[t] # NoEntry => INFLIGHT[t].arg0 = Top(t).arg
    <3>1. PICK n \in Nat \ {0} : n = Len(stack[t])
      BY <2>1, MemFacts, LeaveEffect
    <3>2. n \in 1 .. Len(stack[t]) /\ Top(t) = stack[t][n]
      BY <3>1, SMT DEF Top
    <3>3. /\ Len(stack[t]) = 1
          /\ stack[t][n].res # 0 => /\ stack[t][n].res \in Addrs
                                   /\ heap[<<PidOf[t], stack[t][n].res>>] = stack[t][n].arg
          /\ INFLIGHT[t] # NoEntry => INFLIGHT[t].arg0 = stack[t][n].arg
      BY <2>1, <3>2, MemFacts, ZenonT(30) DEF MallocOpen
    <3>4. n = 1
      BY <3>1, <3>3
    <3> QED BY <3>2, <3>3, <3>4
  <2>4. CASE UNCHANGED MALLOC_SIZES
    BY <2>2, <2>4, <1>MemShrink DEF Recording
  <2>5. CASE /\ MALLOC_PTRS[t] # 0 /\ INFLIGHT[t] # NoEntry
             /\ stack[t][MALLOC_PTRS[t]].res # 0
             /\ MALLOC_SIZES' \in LruPut(MALLOC_SIZES, 0, MallocSizesSize,
                                         <<PidOf[t], stack[t][MALLOC_PTRS[t]].res>>, INFLIGHT[t].arg0)
    <3>1. MALLOC_PTRS[t] = 1
      <4>1. MALLOC_PTRS[t] \in 1 .. Len(stack[t])
        BY <2>1, <2>5, MemFacts DEF TypeOK, PtrOwned
      <4> QED BY <2>3, <4>1, SMT
    <3>2. PICK b \in Addrs : b = Top(t).res /\ heap[<<PidOf[t], b>>] = INFLIGHT[t].arg0 /\ b # 0
      BY <2>3, <2>5, <3>1
    <3>3. MALLOC_SIZES' \in LruPut(MALLOC_SIZES, 0, MallocSizesSize, <<PidOf[t], b>>, heap[<<PidOf[t], b>>])
      BY <2>3, <2>5, <3>1, <3>2
    <3>4. \A u \in Threads : \A i \in 1 .. Len(stack[u]) : PidOf[u] = PidOf[t] => ~Freeing(u, i, b)
      <4>1. 1 \in 1 .. Len(stack[t]) /\ Given(t, 1, b)
        BY <2>1, <2>3, <3>2, SMT DEF Given
      <4> QED BY <4>1, MemFacts DEF FreeOpen
    <3>5. MALLOC_SIZES \in [Pids \X Addrs -> Nat] /\ PidOf[t] \in Pids
      BY MemFacts DEF TypeOK, TrackingOK
    <3>6. \A m \in Pids \X Addrs :
            \/ MALLOC_SIZES'[m] \in {MALLOC_SIZES[m], 0}
            \/ m = <<PidOf[t], b>> /\ MALLOC_SIZES'[m] = heap[m]
      <4>0. PICK k \in Pids \X Addrs : k = <<PidOf[t], b>>
        BY <3>5
      <4>1. PICK v : v = heap[k]
        OBVIOUS
      <4>2. MALLOC_SIZES' \in LruPut(MALLOC_SIZES, 0, MallocSizesSize, k, v)
        BY <3>3, <4>0, <4>1
      <4>3. \A m \in Pids \X Addrs : \/ MALLOC_SIZES'[m] = MALLOC_SIZES[m]
                                     \/ MALLOC_SIZES'[m] = 0
                                     \/ m = k /\ MALLOC_SIZES'[m] = v
        BY <3>5, <4>2 DEF LruPut
      <4> QED BY <4>0, <4>1, <4>3
    <3>7. Recording
      <4> SUFFICES ASSUME NEW p \in Pids, NEW a \in Addrs
                   PROVE  \/ MALLOC_SIZES'[<<p, a>>] \in {MALLOC_SIZES[<<p, a>>], 0}
                          \/ /\ MALLOC_SIZES'[<<p, a>>] = heap[<<p, a>>]
                             /\ \A u \in Threads : \A i \in 1 .. Len(stack[u]) : PidOf[u] = p => ~Freeing(u, i, a)
        BY DEF Recording
      <4>1. CASE <<p, a>> = <<PidOf[t], b>> /\ MALLOC_SIZES'[<<p, a>>] = heap[<<p, a>>]
        <5>1. p = PidOf[t] /\ a = b
          BY <4>1
        <5> QED BY <3>4, <4>1, <5>1
      <4> QED BY <3>6, <4>1
    <3> QED BY <2>2, <3>7, <1>MemShrink
  <2> QED BY <2>4, <2>5 DEF LeaveMalloc
<1> SUFFICES ASSUME MemInv, [Next]_vars PROVE Mem'
  BY NextInv DEF MemInv, Alone
<1>0. TypeOK /\ Inv
  BY DEF MemInv, Inv
<1>1. ASSUME NEW t \in Threads, NEW cpu \in Cpus, NEW f \in Frame, NEW a0 \in Nat,
             Call(t, f), save_entry(t, cpu, EventOf(f.fn), a0)
      PROVE  /\ \A u \in Threads \ {t} : INFLIGHT'[u] \in {INFLIGHT[u], NoEntry}
             /\ stack[t] = <<>> /\ INFLIGHT'[t] # NoEntry => INFLIGHT'[t].arg0 = a0
  <2>1. PICK ev \in Events : ev = EventOf(f.fn)
    BY <1>1, EventTypes DEF Call
  <2>2. \A u \in Threads :
          \/ INFLIGHT'[u] = INFLIGHT[u]
          \/ INFLIGHT'[u] = NoEntry
          \/ u = t /\ INFLIGHT'[u] = [event_type |-> ev, arg0 |-> a0, owner |-> Len(stack[t]) + 1]
    BY <1>0, <1>1, <2>1, SaveEntryEffect, SMT
  <2>3. t \notin dead
    BY <1>1 DEF Call
  <2>4. stack[t] = <<>> => INFLIGHT[t] = NoEntry
    BY <1>0, <2>3, NothingOpen
  <2>5. \A u \in Threads \ {t} : INFLIGHT'[u] \in {INFLIGHT[u], NoEntry}
    BY <2>2, ZenonT(30)
  <2>6. ASSUME stack[t] = <<>>, INFLIGHT'[t] # NoEntry PROVE INFLIGHT'[t].arg0 = a0
    <3>1. INFLIGHT'[t] = [event_type |-> ev, arg0 |-> a0, owner |-> Len(stack[t]) + 1]
      BY <2>2, <2>4, <2>6, ZenonT(30)
    <3> QED BY <3>1, SMT
  <2> QED BY <2>5, <2>6, ZenonT(30)
<1>2. ASSUME NEW t \in Threads, NEW cpu \in Cpus, NEW fn \in MallocFns, NEW size \in Sizes,
             EnterMalloc(t, cpu, fn, size)
      PROVE  Mem'
  <2>1. size \in Nat /\ size # 0 /\ fn \in AllFns /\ fn \notin FreeFns
    BY ConstantsAssumption DEF AllFns, MallocFns, FreeFns
  <2>2. PICK f \in Frame : f = NewFrame(fn, size) /\ Call(t, f)
    BY <1>2, <2>1 DEF EnterMalloc, MemInv, Alone, Frame, NewFrame
  <2>3. f.fn = fn /\ f.arg = size /\ f.rc = 0 /\ f.res = 0
    BY <2>2 DEF NewFrame
  <2>4. save_entry(t, cpu, EventOf(f.fn), size) /\ UNCHANGED MALLOC_SIZES
    BY <1>2, <2>3 DEF EnterMalloc
  <2>5. stack[t] = <<>>
    BY <2>2, <2>3, <1>NoMallocBelow
  <2>6. /\ \A u \in Threads \ {t} : INFLIGHT'[u] \in {INFLIGHT[u], NoEntry}
        /\ INFLIGHT'[t] # NoEntry => INFLIGHT'[t].arg0 = f.arg
    BY <1>1, <2>1, <2>2, <2>3, <2>4, <2>5
  <2> QED BY <2>1, <2>2, <2>3, <2>4, <2>6, <1>MemPush
<1>3. ASSUME NEW t \in Threads, NEW cpu \in Cpus, NEW fn \in FreeFns,
             NEW a \in Addrs \cup {0}, EnterFree(t, cpu, fn, a)
      PROVE  Mem'
  <2>1. PICK f \in Frame : f = NewFrame(fn, a) /\ f.fn = fn
    <3>1. NewFrame(fn, a) \in Frame /\ NewFrame(fn, a).fn = fn
      BY ConstantsAssumption DEF Frame, NewFrame, AllFns
    <3> QED BY <3>1
  <2>2. PICK n \in Nat : save_entry(t, cpu, EventOf(f.fn), n)
    <3>1. (IF a = 0 THEN 0 ELSE MALLOC_SIZES[<<PidOf[t], a>>]) \in Nat
      <4>1. a # 0 => <<PidOf[t], a>> \in Pids \X Addrs
        BY DEF Pids
      <4> QED BY <1>0, <4>1 DEF TypeOK, TrackingOK
    <3> QED BY <1>3, <2>1, <3>1 DEF EnterFree
  <2>3. /\ MayFree(PidOf[t], a) /\ Call(t, f)
        /\ MALLOC_SIZES' = IF a = 0 THEN MALLOC_SIZES ELSE [MALLOC_SIZES EXCEPT ![<<PidOf[t], a>>] = 0]
    BY <1>3, <2>1 DEF EnterFree
  <2>4. \A u \in Threads \ {t} : INFLIGHT'[u] \in {INFLIGHT[u], NoEntry}
    BY <1>1, <2>2, <2>3
  <2> QED BY <2>1, <2>3, <2>4, <1>MemEnterFree
<1>4. ASSUME NEW t \in Threads, NEW cpu \in Cpus, NEW fn \in Fns, EnterOther(t, cpu, fn)
      PROVE  Mem'
  <2>1. fn \in AllFns /\ fn \notin FreeFns /\ fn \notin MallocFns
    BY <1>4 DEF EnterOther, AllFns, FreeFns, MallocFns, MemcpyFns, PlainFns, LaunchFns,
                DriverLaunchFns, NcclFns
  <2>2. PICK f \in Frame : f = NewFrame(fn, 1) /\ f.fn = fn
    <3>1. NewFrame(fn, 1) \in Frame /\ NewFrame(fn, 1).fn = fn
      BY <2>1 DEF Frame, NewFrame
    <3> QED BY <3>1
  <2>3. Call(t, f) /\ save_entry(t, cpu, EventOf(f.fn), 1) /\ UNCHANGED MALLOC_SIZES
    BY <1>4, <2>2 DEF EnterOther
  <2>4. PICK n \in Nat : n = 1
    OBVIOUS
  <2>5. \A u \in Threads \ {t} : INFLIGHT'[u] \in {INFLIGHT[u], NoEntry}
    BY <1>1, <2>3, <2>4
  <2> QED BY <2>1, <2>2, <2>3, <2>5, <1>MemPush
<1>5. ASSUME NEW t \in Threads, EnterGetFunction(t) PROVE Mem'
  <2>1. PICK f \in Frame : f = NewFrame(GetFunction, 1) /\ f.fn \notin FreeFns /\ f.fn \notin MallocFns
    <3>1. /\ NewFrame(GetFunction, 1) \in Frame
          /\ NewFrame(GetFunction, 1).fn \notin FreeFns \cup MallocFns
      BY DEF Frame, NewFrame, AllFns, GetFunction, FreeFns, MallocFns
    <3> QED BY <3>1
  <2>2. Call(t, f) /\ UNCHANGED MALLOC_SIZES
    BY <1>5, <2>1 DEF EnterGetFunction
  <2>3. \A u \in Threads \ {t} : INFLIGHT'[u] \in {INFLIGHT[u], NoEntry}
    <3>1. PICK e : UNCHANGED INFLIGHT \/ INFLIGHT' \in LruPut(INFLIGHT, NoEntry, InflightSize, t, e)
      BY <1>5 DEF EnterGetFunction, StoreEntry
    <3> QED BY <1>0, <3>1 DEF LruPut, TypeOK, TrackingOK
  <2> QED BY <2>1, <2>2, <2>3, <1>MemPush
<1>6. ASSUME NEW t \in Threads, LeaveOther(t) \/ LeaveGetFunction(t) PROVE Mem'
  <2>1. /\ Leave(t) /\ UNCHANGED MALLOC_SIZES
        /\ INFLIGHT' \in {INFLIGHT, [INFLIGHT EXCEPT ![t] = NoEntry]}
    BY <1>6 DEF LeaveOther, LeaveGetFunction, emit_exit
  <2>2. Closing /\ UNCHANGED heap
    BY <2>1, <1>LeaveCloses
  <2> QED BY <2>1, <2>2, <1>MemShrink DEF Recording
<1>7. ASSUME NEW t \in Threads, Kill(t) PROVE Mem'
  <2>1. UNCHANGED <<heap, INFLIGHT, MALLOC_SIZES>>
    BY <1>7 DEF Kill, tracking
  <2>2. /\ stack'[t] = <<>> /\ Len(stack'[t]) = 0
        /\ \A u \in Threads \ {t} : stack'[u] = stack[u]
    BY <1>7, MemFacts DEF Kill
  <2>3. Closing
    <3>1. ASSUME NEW u \in Threads
          PROVE  /\ Len(stack'[u]) \in Nat /\ Len(stack'[u]) <= Len(stack[u])
                 /\ \A i \in 1 .. Len(stack'[u]) : stack'[u][i] = stack[u][i]
      <4>1. CASE u = t
        BY <2>2, <4>1, MemFacts, SMT
      <4>2. CASE u # t
        BY <2>2, <4>2, MemFacts
      <4> QED BY <4>1, <4>2
    <3> QED BY <2>1, <3>1 DEF Closing
  <2> QED BY <2>1, <2>3, <1>MemShrink DEF Recording
<1>8. CASE UNCHANGED <<stack, heap, tracking>>
  <2>1. Closing
    BY <1>8, MemFacts, SMT DEF Closing, tracking
  <2> QED BY <1>8, <2>1, <1>MemShrink DEF Recording, tracking
<1>9. ASSUME NEW t \in Threads, cuda_register_function(t) PROVE Mem'
  BY <1>8, <1>9 DEF cuda_register_function
<1>10. ASSUME NEW p \in Pids, WriteUpgraded(p) PROVE Mem'
  BY <1>8, <1>10 DEF WriteUpgraded, app
<1>11. CASE UNCHANGED vars
  BY <1>8, <1>11 DEF vars, app
<1> QED
  BY <1>2, <1>3, <1>4, <1>5, <1>6, <1>7, <1>9, <1>10, <1>11, <1>MemMallocBody, <1>MemFreeBody,
     <1>MemLeaveMalloc DEF Next, ThreadStep

LEMMA InitMem == Init /\ Alone => MemInv
<1> SUFFICES ASSUME Init, Alone PROVE MemInv
  OBVIOUS
<1>1. \A u \in Threads : Len(stack[u]) = 0 /\ 1 .. 0 = {}
  BY DEF Init
<1>2. FreeOpen /\ MallocOpen
  BY <1>1 DEF FreeOpen, MallocOpen
<1>3. MallocSizesSound
  BY DEF Init, MallocSizesSound
<1> QED BY <1>2, <1>3, InitInv DEF MemInv, Mem

(* When allocations succeed and neither nest nor are nested, a size found  *)
(* in MALLOC_SIZES is that of the allocation live at the address, for any  *)
(* number of threads allocating and freeing at once, any evictions from    *)
(* the LRU maps, failing reads and killed threads.                         *)
THEOREM SizesSound == Spec /\ Alone => []MallocSizesSound
<1>1. MemInv => MallocSizesSound
  BY DEF MemInv, Mem
<1> QED BY InitMem, NextMem, <1>1, PTL DEF Spec
-----------------------------------------------------------------------------
(* Net memory.                                                             *)

MemoryFns == MallocFns \cup FreeFns

(* Nothing fails or is killed, nothing is sampled, the functions of memory *)
(* are neither called inside another probed call nor call one, and every   *)
(* map has room for all of its keys.                                       *)
Metered ==
  /\ Faults = {} /\ SampleRate <= 1
  /\ \A c \in InnerCalls : c[1] \notin MemoryFns /\ c[2] \notin MemoryFns
  /\ Cardinality(Threads) <= InflightSize /\ Cardinality(Threads) <= MallocPtrsSize
  /\ Cardinality(Pids \X Addrs) <= MallocSizesSize
  /\ Cardinality(CudaKey) <= AggSize

(* The bytes of the calls whose body has run and whose return program has  *)
(* not, and those that are counted already.                                *)
Waiting(t, fns) == stack[t] # <<>> /\ stack[t][1].fn \in fns /\ stack[t][1].done

NotCounted(p, fns) ==
  [t \in Threads |-> IF PidOf[t] = p /\ Waiting(t, fns) THEN INFLIGHT[t].arg0 ELSE 0]

KeysOf(p, fns) == {k \in CudaKey : k[1] \in fns /\ k[2] = p}

SizesOf(p, fns) == [k \in KeysOf(p, fns) |-> AGGREGATED[k].size]

Booked(p, fns) == Sum(SizesOf(p, fns)) + Sum(NotCounted(p, fns))

HeapOf(p) == [a \in Addrs |-> heap[<<p, a>>]]

(* At every moment what was allocated is what was freed and what is held.  *)
Balance == \A p \in Pids : Booked(p, MallocFns) = Booked(p, FreeFns) + Sum(HeapOf(p))

(* An open call of memory is alone in its thread and has its entry in      *)
(* flight; that of a free which has not run yet knows the size.            *)
OpenAt(t) ==
  \A i \in 1 .. Len(stack[t]) : LET f == stack[t][i] IN
    f.fn \in MemoryFns =>
      /\ Len(stack[t]) = 1 /\ INFLIGHT[t] # NoEntry
      /\ f.fn \in MallocFns => MALLOC_PTRS[t] = 1 /\ (f.done => f.res # 0) /\ (~f.done => f.res = 0)
      /\ f.fn \in FreeFns /\ ~f.done =>
           /\ f.arg \in Addrs \cup {0}
           /\ INFLIGHT[t].arg0 = IF f.arg = 0 THEN 0 ELSE heap[<<PidOf[t], f.arg>>]

OpenMemory == \A t \in Threads : OpenAt(t)

(* The size of an allocation is in the map, except while the call that     *)
(* made it or one that frees it is open.                                   *)
TrackedBy(t, p, a) == PidOf[t] = p /\ stack[t] # <<>> /\ (Freeing(t, 1, a) \/ Given(t, 1, a))

Tracked ==
  \A p \in Pids, a \in Addrs : heap[<<p, a>>] # 0 =>
    MALLOC_SIZES[<<p, a>>] # 0 \/ \E t \in Threads : TrackedBy(t, p, a)

Net == dead = {} /\ OpenMemory /\ Tracked /\ Balance

NetInv == Metered /\ MemInv /\ Net

LEMMA NetFacts ==
  ASSUME NetInv
  PROVE  /\ Metered /\ MemInv /\ Inv /\ TypeOK /\ dead = {} /\ OpenMemory /\ Tracked /\ Balance
         /\ \A t \in Threads : stack[t] \in Seq(Frame) /\ Len(stack[t]) \in Nat /\ PidOf[t] \in Pids
BY MemFacts DEF NetInv, Net, MemInv, Inv

(* Small arithmetic, and the stack of a single call. *)
LEMMA NotSampled == \A r \in Nat : r <= 1 => (IF r > 1 THEN r ELSE 1) = 1
OBVIOUS

LEMMA OnlyOne == \A i : i \in 1 .. 1 => i = 1
OBVIOUS

LEMMA EmptyLen == \A s : s = <<>> => Len(s) = 0
OBVIOUS

(* The functions of memory and the others. *)
LEMMA MemoryEvents ==
  /\ MemoryFns \subseteq profi_is_aggregatable
  /\ \A fn \in MemoryFns : EventOf(fn) = fn
  /\ \A fn \in AllFns \ MemoryFns : EventOf(fn) \notin MemoryFns
  /\ MallocFns \cap FreeFns = {} /\ GetFunction \notin MemoryFns
<1>1. MemoryFns \cap LaunchFns = {} /\ LaunchKernel \notin MemoryFns
  BY DEF MemoryFns, MallocFns, FreeFns, LaunchFns, DriverLaunchFns, LaunchKernel
<1>2. MemoryFns \subseteq profi_is_aggregatable
  BY DEF MemoryFns, profi_is_aggregatable
<1>3. MallocFns \cap FreeFns = {} /\ GetFunction \notin MemoryFns
  BY DEF MemoryFns, MallocFns, FreeFns, GetFunction
<1> QED BY <1>1, <1>2, <1>3 DEF EventOf

LEMMA FirstFrame ==
  ASSUME NEW s \in Seq(Frame), s # <<>>
  PROVE  1 \in 1 .. Len(s) /\ s[1] \in Frame
OBVIOUS

Family(fns) == fns = MallocFns \/ fns = FreeFns

(* The bytes are numbers. *)
LEMMA BytesType ==
  ASSUME TypeOK, OpenMemory, NEW p, NEW fns, Family(fns)
  PROVE  /\ NotCounted(p, fns) \in [Threads -> Nat] /\ Sum(NotCounted(p, fns)) \in Nat
         /\ IsFiniteSet(KeysOf(p, fns))
         /\ SizesOf(p, fns) \in [KeysOf(p, fns) -> Nat] /\ Sum(SizesOf(p, fns)) \in Nat
<1>1. ASSUME NEW t \in Threads, Waiting(t, fns) PROVE INFLIGHT[t].arg0 \in Nat
  <2>1. stack[t] \in Seq(Frame) /\ stack[t] # <<>> /\ stack[t][1].fn \in MemoryFns
    BY <1>1 DEF Waiting, Family, MemoryFns, TypeOK, AppOK
  <2>2. 1 \in 1 .. Len(stack[t])
    BY <2>1, FirstFrame
  <2>3. INFLIGHT[t] # NoEntry
    BY <2>1, <2>2 DEF OpenMemory, OpenAt
  <2>4. INFLIGHT[t] \in EntryData
    BY <2>3 DEF TypeOK, TrackingOK
  <2> QED BY <2>4 DEF EntryData
<1>2. NotCounted(p, fns) \in [Threads -> Nat]
  BY <1>1 DEF NotCounted
<1>3. IsFiniteSet(KeysOf(p, fns))
  <2>1. KeysOf(p, fns) \subseteq CudaKey
    BY DEF KeysOf
  <2> QED BY <2>1, CudaKeyFinite, FS_Subset
<1>4. SizesOf(p, fns) \in [KeysOf(p, fns) -> Nat]
  BY DEF SizesOf, KeysOf, TypeOK, SinksOK, AggValue
<1> QED BY <1>2, <1>3, <1>4, SumType, ConstantsAssumption

LEMMA HeapType ==
  ASSUME TypeOK, NEW p \in Pids
  PROVE  HeapOf(p) \in [Addrs -> Nat] /\ Sum(HeapOf(p)) \in Nat
<1>1. HeapOf(p) \in [Addrs -> Nat]
  BY DEF HeapOf, TypeOK, AppOK
<1> QED BY <1>1, SumType, ConstantsAssumption

BytesTyped ==
  \A p, fns : Family(fns) =>
    /\ NotCounted(p, fns) \in [Threads -> Nat] /\ Sum(NotCounted(p, fns)) \in Nat
    /\ SizesOf(p, fns) \in [KeysOf(p, fns) -> Nat] /\ Sum(SizesOf(p, fns)) \in Nat

LEMMA BytesNow == TypeOK /\ OpenMemory => BytesTyped
BY BytesType DEF BytesTyped

LEMMA BytesNext == TypeOK' /\ OpenMemory' => BytesTyped'
BY BytesNow, PTL

(* The invariant says NetMemory when no call is open. *)
LEMMA NetQuiescent == NetInv => NetMemory
<1> SUFFICES ASSUME NetInv, Quiescent, NEW p \in Pids
             PROVE  SizeSum(p, MallocFns) - SizeSum(p, FreeFns) = HeapSize(p)
  BY DEF NetMemory
<1>1. TypeOK /\ OpenMemory /\ Balance
  BY NetFacts
<1>2. ASSUME NEW fns, Family(fns)
      PROVE  Sum(NotCounted(p, fns)) = 0 /\ Sum(SizesOf(p, fns)) \in Nat
  <2>1. \A t \in Threads : NotCounted(p, fns)[t] = 0
    BY DEF NotCounted, Waiting, Quiescent
  <2>2. DOMAIN NotCounted(p, fns) = Threads
    BY DEF NotCounted
  <2> QED BY <1>1, <1>2, <2>1, <2>2, SumZero, BytesType
<1>3. PICK m \in Nat, f \in Nat, h \in Nat :
        m = Sum(SizesOf(p, MallocFns)) /\ f = Sum(SizesOf(p, FreeFns)) /\ h = Sum(HeapOf(p))
  BY <1>1, <1>2, HeapType DEF Family
<1>4. m + 0 = f + 0 + h
  BY <1>1, <1>2, <1>3, SMT DEF Balance, Booked, Family
<1>5. SizeSum(p, MallocFns) = m /\ SizeSum(p, FreeFns) = f /\ HeapSize(p) = h
  BY <1>3, ZenonT(30) DEF SizeSum, HeapSize, SizesOf, KeysOf, HeapOf
<1> QED BY <1>3, <1>4, <1>5, SMT

(* A step of one thread leaves the memory calls of the others alone. *)
Others(t) ==
  \A u \in Threads \ {t} :
    stack'[u] = stack[u] /\ INFLIGHT'[u] = INFLIGHT[u] /\ MALLOC_PTRS'[u] = MALLOC_PTRS[u]

(* Nothing of memory is open in a thread. *)
NoMemory(s) == s # <<>> => s[1].fn \notin MemoryFns /\ \A i \in 1 .. Len(s) : s[i].fn \notin MemoryFns

(* The sums over the threads move by what the step does to its own thread. *)
LEMMA NotCountedMove ==
  ASSUME TypeOK, OpenMemory, TypeOK', OpenMemory', NEW t \in Threads, Others(t),
         NEW p, NEW fns, Family(fns)
  PROVE  LET f == NotCounted(p, fns) IN
         /\ f[t] \in Nat /\ f'[t] \in Nat /\ Sum(f) \in Nat /\ Sum(f') \in Nat
         /\ Sum(f') = Sum(f) - f[t] + f'[t]
<1>1. PICK f : f = NotCounted(p, fns)
  OBVIOUS
<1>2. PICK g : g = NotCounted(p, fns)'
  OBVIOUS
<1>3. f \in [Threads -> Nat] /\ Sum(f) \in Nat
  BY <1>1, BytesType
<1>4. g \in [Threads -> Nat] /\ Sum(g) \in Nat
  BY <1>2, BytesNext DEF BytesTyped
<1>5. \A u \in Threads \ {t} : g[u] = f[u]
  BY <1>1, <1>2 DEF NotCounted, Waiting, Others
<1>6. Sum(g) = Sum(f) - f[t] + g[t] /\ f[t] \in Nat /\ g[t] \in Nat
  BY <1>3, <1>4, <1>5, SumUpdate, ConstantsAssumption, SMT
<1> QED BY <1>1, <1>2, <1>3, <1>4, <1>6

LEMMA NotCountedStill ==
  ASSUME TypeOK, OpenMemory, TypeOK', OpenMemory', NEW t \in Threads, Others(t),
         NEW p, NEW fns, Family(fns), NotCounted(p, fns)'[t] = NotCounted(p, fns)[t]
  PROVE  Sum(NotCounted(p, fns))' = Sum(NotCounted(p, fns))
<1>1. PICK f : f = NotCounted(p, fns)
  OBVIOUS
<1>2. PICK g : g = NotCounted(p, fns)'
  OBVIOUS
<1>3. \A u \in Threads : g[u] = f[u]
  BY <1>1, <1>2 DEF NotCounted, Waiting, Others
<1>4. f \in [Threads -> Nat] /\ g \in [Threads -> Nat]
  BY <1>1, <1>2, BytesNow, BytesNext DEF BytesTyped
<1>5. f = g
  BY <1>3, <1>4, SMT
<1> QED BY <1>1, <1>2, <1>5

(* The open calls of memory after a step of t. *)
LEMMA OpenMove ==
  ASSUME OpenMemory, NEW t \in Threads, Others(t), OpenAt(t)',
         \A u \in Threads \ {t} : \A i \in 1 .. Len(stack[u]), a \in Addrs : Freeing(u, i, a) =>
           heap'[<<PidOf[u], a>>] = heap[<<PidOf[u], a>>]
  PROVE  OpenMemory'
<1> SUFFICES ASSUME NEW u \in Threads \ {t} PROVE OpenAt(u)'
  BY DEF OpenMemory
<1>1. stack'[u] = stack[u] /\ INFLIGHT'[u] = INFLIGHT[u] /\ MALLOC_PTRS'[u] = MALLOC_PTRS[u]
  BY DEF Others
<1> SUFFICES ASSUME NEW i \in 1 .. Len(stack[u]), stack[u][i].fn \in MemoryFns
             PROVE  LET f == stack[u][i] IN
                    /\ Len(stack[u]) = 1 /\ INFLIGHT[u] # NoEntry
                    /\ f.fn \in MallocFns => MALLOC_PTRS[u] = 1 /\ (f.done => f.res # 0) /\ (~f.done => f.res = 0)
                    /\ f.fn \in FreeFns /\ ~f.done =>
                         /\ f.arg \in Addrs \cup {0}
                         /\ INFLIGHT[u].arg0 = IF f.arg = 0 THEN 0 ELSE heap'[<<PidOf[u], f.arg>>]
  BY <1>1 DEF OpenAt
<1>2. LET f == stack[u][i] IN
      /\ Len(stack[u]) = 1 /\ INFLIGHT[u] # NoEntry
      /\ f.fn \in MallocFns => MALLOC_PTRS[u] = 1 /\ (f.done => f.res # 0) /\ (~f.done => f.res = 0)
      /\ f.fn \in FreeFns /\ ~f.done =>
           /\ f.arg \in Addrs \cup {0}
           /\ INFLIGHT[u].arg0 = IF f.arg = 0 THEN 0 ELSE heap[<<PidOf[u], f.arg>>]
  BY DEF OpenMemory, OpenAt
<1>3. ASSUME stack[u][i].fn \in FreeFns, ~stack[u][i].done, stack[u][i].arg # 0
      PROVE  heap'[<<PidOf[u], stack[u][i].arg>>] = heap[<<PidOf[u], stack[u][i].arg>>]
  <2>1. stack[u][i].arg \in Addrs
    BY <1>2, <1>3
  <2> QED BY <1>3, <2>1 DEF Freeing
<1> QED BY <1>2, <1>3

(* The sizes in the map after a step of t. *)
LEMMA TrackMove ==
  ASSUME Tracked, NEW t \in Threads, Others(t),
         \A p \in Pids, a \in Addrs : heap'[<<p, a>>] # 0 =>
           \/ MALLOC_SIZES'[<<p, a>>] # 0
           \/ TrackedBy(t, p, a)'
           \/ heap[<<p, a>>] # 0 /\ MALLOC_SIZES[<<p, a>>] = 0 /\ ~TrackedBy(t, p, a)
  PROVE  Tracked'
<1> SUFFICES ASSUME NEW p \in Pids, NEW a \in Addrs, heap'[<<p, a>>] # 0
             PROVE  MALLOC_SIZES'[<<p, a>>] # 0 \/ \E u \in Threads : TrackedBy(u, p, a)'
  BY DEF Tracked
<1>1. CASE heap[<<p, a>>] # 0 /\ MALLOC_SIZES[<<p, a>>] = 0 /\ ~TrackedBy(t, p, a)
  <2>1. PICK u \in Threads : TrackedBy(u, p, a) /\ u # t
    BY <1>1 DEF Tracked
  <2>2. stack'[u] = stack[u]
    BY <2>1 DEF Others
  <2>3. TrackedBy(u, p, a)'
    BY <2>1, <2>2 DEF TrackedBy, Freeing, Given
  <2> QED BY <2>3
<1> QED BY <1>1

(* A map that is as large as its keys are many has room for each. *)
LEMMA RoomEnough ==
  ASSUME NEW D, IsFiniteSet(D), NEW m, DOMAIN m = D, NEW free, NEW cap \in Nat,
         Cardinality(D) <= cap, NEW k \in D
  PROVE  HasRoom(m, free, cap, k)
<1> SUFFICES ASSUME k \notin Present(m, free) PROVE Cardinality(Present(m, free)) < cap
  BY DEF HasRoom
<1>1. PICK used : used = Present(m, free)
  OBVIOUS
<1>2. used \subseteq D \ {k}
  BY <1>1 DEF Present
<1>3. IsFiniteSet(D \ {k}) /\ Cardinality(D \ {k}) = Cardinality(D) - 1
  BY FS_RemoveElement
<1>4. Cardinality(used) <= Cardinality(D \ {k}) /\ Cardinality(used) \in Nat
  BY <1>2, <1>3, FS_Subset, FS_CardinalityType
<1>5. Cardinality(D) \in Nat
  BY FS_CardinalityType
<1>6. Cardinality(used) < cap
  BY <1>3, <1>4, <1>5, SMT
<1> QED BY <1>1, <1>6

LEMMA PutRoom ==
  ASSUME NEW m, NEW free, NEW cap, NEW k, NEW v, HasRoom(m, free, cap, k),
         NEW r \in LruPut(m, free, cap, k, v)
  PROVE  r = [m EXCEPT ![k] = v]
BY DEF HasRoom, LruPut

SizesSame == \A k \in CudaKey : k[1] \in MemoryFns => AGGREGATED'[k].size = AGGREGATED[k].size

LEMMA SizesStill ==
  ASSUME NEW p, NEW fns, Family(fns), \A k \in KeysOf(p, fns) : AGGREGATED'[k].size = AGGREGATED[k].size
  PROVE  Sum(SizesOf(p, fns))' = Sum(SizesOf(p, fns))
<1>1. KeysOf(p, fns)' = KeysOf(p, fns)
  BY DEF KeysOf
<1>2. SizesOf(p, fns)' = SizesOf(p, fns)
  BY <1>1 DEF SizesOf
<1> QED BY <1>2

LEMMA FamilyKeys ==
  ASSUME SizesSame, NEW p, NEW fns, Family(fns)
  PROVE  Sum(SizesOf(p, fns))' = Sum(SizesOf(p, fns))
<1>1. \A k \in KeysOf(p, fns) : AGGREGATED'[k].size = AGGREGATED[k].size
  BY DEF KeysOf, SizesSame, Family, MemoryFns
<1> QED BY <1>1, SizesStill

(* A step that neither touches the heap nor the calls of memory. *)
LEMMA NetQuiet ==
  ASSUME NetInv, MemInv', UNCHANGED <<dead, heap, MALLOC_SIZES>>, NEW t \in Threads, Others(t),
         NoMemory(stack[t]), NoMemory(stack'[t]), SizesSame
  PROVE  Net'
<1>1. OpenMemory'
  <2>1. OpenAt(t)'
    BY DEF OpenAt, NoMemory
  <2> QED BY <2>1, OpenMove, NetFacts
<1>2. Tracked'
  <2>1. \A p \in Pids, a \in Addrs : ~TrackedBy(t, p, a)
    BY DEF TrackedBy, NoMemory, Freeing, Given, MemoryFns
  <2> QED BY <2>1, TrackMove, NetFacts
<1>3. Balance'
  <2> SUFFICES ASSUME NEW p \in Pids
               PROVE  Booked(p, MallocFns)' = Booked(p, FreeFns)' + Sum(HeapOf(p))'
    BY DEF Balance
  <2>1. ASSUME NEW fns, Family(fns) PROVE Booked(p, fns)' = Booked(p, fns)
    <3>1. NotCounted(p, fns)'[t] = NotCounted(p, fns)[t]
      BY <2>1 DEF NotCounted, Waiting, NoMemory, Family, MemoryFns
    <3>2. Sum(NotCounted(p, fns))' = Sum(NotCounted(p, fns))
      BY <1>1, <2>1, <3>1, NotCountedStill, NetFacts, MemFacts DEF MemInv, Inv
    <3> QED BY <2>1, <3>2, FamilyKeys DEF Booked
  <2>2. Sum(HeapOf(p))' = Sum(HeapOf(p))
    BY DEF HeapOf
  <2> QED BY <2>1, <2>2, NetFacts DEF Balance, Family
<1> QED BY <1>1, <1>2, <1>3, NetFacts DEF Net

LEMMA NetStill ==
  ASSUME NetInv, UNCHANGED <<dead, stack, heap, INFLIGHT, MALLOC_PTRS, MALLOC_SIZES, AGGREGATED>>
  PROVE  Net'
<1>1. dead = {} /\ OpenMemory /\ Tracked /\ Balance
  BY NetFacts
<1>2. OpenMemory'
  BY <1>1, SMT DEF OpenMemory, OpenAt
<1>3. Tracked'
  BY <1>1, SMT DEF Tracked, TrackedBy, Freeing, Given
<1>4. Balance'
  <2>1. ASSUME NEW p \in Pids, NEW fns PROVE Booked(p, fns)' = Booked(p, fns)
    BY DEF Booked, SizesOf, KeysOf, NotCounted, Waiting
  <2>2. ASSUME NEW p \in Pids PROVE Sum(HeapOf(p))' = Sum(HeapOf(p))
    BY DEF HeapOf
  <2> QED BY <1>1, <2>1, <2>2 DEF Balance
<1> QED BY <1>1, <1>2, <1>3, <1>4 DEF Net

(* Whatever calls a function is no function of memory, and those are not   *)
(* called inside another.                                                  *)
LEMMA NoMemoryBelow ==
  ASSUME NetInv, NEW t \in Threads, NEW f \in Frame, Call(t, f)
  PROVE  NoMemory(stack[t]) /\ (f.fn \in MemoryFns => stack[t] = <<>>)
<1>1. ASSUME stack[t] # <<>> PROVE Top(t).fn \notin MemoryFns /\ f.fn \notin MemoryFns
  <2>1. PICK c \in InnerCalls : c = <<Top(t).fn, f.fn>>
    BY <1>1 DEF Call
  <2>2. c[1] \notin MemoryFns /\ c[2] \notin MemoryFns
    BY NetFacts DEF Metered
  <2> QED BY <2>1, <2>2
<1>2. ASSUME NEW i \in 1 .. Len(stack[t]), stack[t][i].fn \in MemoryFns PROVE FALSE
  <2>1. Len(stack[t]) = 1
    BY <1>2, NetFacts DEF OpenMemory, OpenAt
  <2>2. i = 1 /\ stack[t] # <<>> /\ Top(t) = stack[t][i]
    <3>1. i = 1
      BY <1>2, <2>1, OnlyOne, ZenonT(30)
    <3>2. 1 # 0
      OBVIOUS
    <3>3. stack[t] # <<>>
      BY <2>1, <3>2, EmptyLen, ZenonT(30)
    <3> QED BY <2>1, <3>1, <3>3, ZenonT(30) DEF Top
  <2> QED BY <1>1, <1>2, <2>2
<1>3. stack[t] # <<>> => 1 \in 1 .. Len(stack[t])
  BY NetFacts, FirstFrame
<1> QED BY <1>1, <1>2, <1>3 DEF NoMemory

(* The entry program of an outermost call stores its entry. *)
LEMMA StoredEntry ==
  ASSUME NetInv, NEW t \in Threads, NEW cpu \in Cpus, NEW f \in Frame, NEW a0 \in Nat,
         Call(t, f), save_entry(t, cpu, EventOf(f.fn), a0)
  PROVE  /\ \A u \in Threads \ {t} : INFLIGHT'[u] = INFLIGHT[u]
         /\ stack[t] = <<>> => INFLIGHT'[t] # NoEntry /\ INFLIGHT'[t].arg0 = a0
<1>1. PICK ev \in Events : ev = EventOf(f.fn)
  BY EventTypes DEF Call
<1>2. IF INFLIGHT[t] # NoEntry THEN UNCHANGED INFLIGHT
      ELSE /\ INFLIGHT' = [INFLIGHT EXCEPT ![t] = [event_type |-> ev, arg0 |-> a0,
                                                   owner |-> Len(stack[t]) + 1]]
           /\ INFLIGHT'[t] # NoEntry /\ INFLIGHT'[t].event_type = ev
           /\ \A u \in Threads \ {t} : INFLIGHT'[u] = INFLIGHT[u]
  BY <1>1, GuardedSave, NetFacts DEF Metered
<1>3. stack[t] = <<>> => INFLIGHT[t] = NoEntry
  BY NothingOpen, NetFacts DEF Call
<1>4. INFLIGHT \in [Threads -> EntryData \cup {NoEntry}]
  BY NetFacts DEF TypeOK, TrackingOK
<1> QED BY <1>2, <1>3, <1>4, SMT

(* A call of memory begins: it is alone in its thread, and a size that     *)
(* leaves the map is that of the address the call frees.                   *)
LEMMA NetEnter ==
  ASSUME NetInv, MemInv', NEW t \in Threads, NEW f \in Frame, Call(t, f),
         f.fn \in MemoryFns, ~f.done,
         \A u \in Threads \ {t} : INFLIGHT'[u] = INFLIGHT[u] /\ MALLOC_PTRS'[u] = MALLOC_PTRS[u],
         INFLIGHT'[t] # NoEntry,
         f.fn \in MallocFns => MALLOC_PTRS'[t] = 1 /\ f.res = 0,
         f.fn \in FreeFns => /\ f.arg \in Addrs \cup {0}
                             /\ INFLIGHT'[t].arg0 = IF f.arg = 0 THEN 0 ELSE heap[<<PidOf[t], f.arg>>],
         \A p \in Pids, a \in Addrs : \/ MALLOC_SIZES'[<<p, a>>] = MALLOC_SIZES[<<p, a>>]
                                      \/ f.fn \in FreeFns /\ p = PidOf[t] /\ a = f.arg
  PROVE  Net'
<1>1. stack[t] = <<>>
  BY NoMemoryBelow
<1>2. /\ Len(stack'[t]) = 1 /\ stack'[t] # <<>> /\ stack'[t][1] = f
      /\ \A u \in Threads \ {t} : stack'[u] = stack[u]
      /\ UNCHANGED <<dead, heap, AGGREGATED>>
  <2>1. /\ Len(stack'[t]) = Len(stack[t]) + 1 /\ stack'[t][Len(stack[t]) + 1] = f
        /\ \A w \in Threads \ {t} : stack'[w] = stack[w]
    BY CallEffect, NetFacts
  <2>2. Len(stack[t]) = 0
    BY <1>1, EmptyLen, ZenonT(30)
  <2>3. 0 + 1 = 1 /\ 1 # 0
    OBVIOUS
  <2>4. Len(stack'[t]) = 1 /\ stack'[t][1] = f
    BY <2>1, <2>2, <2>3, ZenonT(30)
  <2>5. stack'[t] # <<>>
    BY <2>3, <2>4, EmptyLen, ZenonT(30)
  <2>6. UNCHANGED <<dead, heap, AGGREGATED>>
    BY DEF Call, sinks
  <2> QED BY <2>1, <2>4, <2>5, <2>6, ZenonT(30)
<1>3. Others(t)
  BY <1>2 DEF Others
<1>4. OpenMemory'
  <2>1. OpenAt(t)'
    <3>1. \A i \in 1 .. Len(stack'[t]) : stack'[t][i] = f
      BY <1>2, OnlyOne, ZenonT(30)
    <3> QED BY <1>2, <3>1 DEF OpenAt
  <2> QED BY <1>2, <1>3, <2>1, OpenMove, NetFacts
<1>5. Tracked'
  <2>1. ASSUME NEW p \in Pids, NEW a \in Addrs, heap'[<<p, a>>] # 0
        PROVE  \/ MALLOC_SIZES'[<<p, a>>] # 0
               \/ TrackedBy(t, p, a)'
               \/ heap[<<p, a>>] # 0 /\ MALLOC_SIZES[<<p, a>>] = 0 /\ ~TrackedBy(t, p, a)
    <3>1. CASE MALLOC_SIZES'[<<p, a>>] = MALLOC_SIZES[<<p, a>>]
      BY <1>1, <1>2, <2>1, <3>1 DEF TrackedBy
    <3>2. CASE f.fn \in FreeFns /\ p = PidOf[t] /\ a = f.arg
      BY <1>2, <3>2 DEF TrackedBy, Freeing
    <3> QED BY <3>1, <3>2
  <2> QED BY <1>3, <2>1, TrackMove, NetFacts
<1>6. Balance'
  <2> SUFFICES ASSUME NEW p \in Pids
               PROVE  Booked(p, MallocFns)' = Booked(p, FreeFns)' + Sum(HeapOf(p))'
    BY DEF Balance
  <2>1. ASSUME NEW fns, Family(fns) PROVE Booked(p, fns)' = Booked(p, fns)
    <3>1. NotCounted(p, fns)'[t] = NotCounted(p, fns)[t]
      BY <1>1, <1>2 DEF NotCounted, Waiting
    <3>2. Sum(NotCounted(p, fns))' = Sum(NotCounted(p, fns))
      BY <1>3, <1>4, <2>1, <3>1, NotCountedStill, NetFacts, MemFacts DEF MemInv, Inv
    <3>3. Sum(SizesOf(p, fns))' = Sum(SizesOf(p, fns))
      <4>1. \A k \in KeysOf(p, fns) : AGGREGATED'[k].size = AGGREGATED[k].size
        BY <1>2
      <4> QED BY <2>1, <4>1, SizesStill
    <3> QED BY <3>2, <3>3 DEF Booked
  <2>2. Sum(HeapOf(p))' = Sum(HeapOf(p))
    BY <1>2 DEF HeapOf
  <2> QED BY <2>1, <2>2, NetFacts DEF Balance, Family
<1> QED BY <1>2, <1>4, <1>5, <1>6, NetFacts DEF Net

(* The body of a call of memory runs. *)
LEMMA BodyRuns ==
  ASSUME NetInv, NEW t \in Threads, stack[t] # <<>>, Top(t).fn \in MemoryFns,
         NEW res \in Nat, Ran(t, res, 0), UNCHANGED tracking
  PROVE  /\ Len(stack[t]) = 1 /\ Top(t) = stack[t][1] /\ Top(t) \in Frame
         /\ Len(stack'[t]) = 1 /\ stack'[t] # <<>>
         /\ stack'[t][1].fn = Top(t).fn /\ stack'[t][1].arg = Top(t).arg
         /\ stack'[t][1].res = res /\ stack'[t][1].done
         /\ Others(t) /\ INFLIGHT[t] # NoEntry /\ INFLIGHT[t].arg0 \in Nat
<1>1. MemInv /\ stack \in [Threads -> Seq(Frame)] /\ stack[t] \in Seq(Frame)
  BY NetFacts DEF TypeOK, AppOK
<1>2. PICK n \in 1 .. Len(stack[t]) : n = Len(stack[t]) /\ Top(t) = stack[t][n] /\ stack[t][n] \in Frame
  BY <1>1, SMT DEF Top
<1>3. Len(stack[t]) = 1 /\ INFLIGHT[t] # NoEntry
  BY <1>2, NetFacts DEF OpenMemory, OpenAt
<1>4. n = 1
  BY <1>2, <1>3
<1>5. /\ Len(stack'[t]) = Len(stack[t])
      /\ stack'[t][n] = [Top(t) EXCEPT !.res = res, !.rc = 0, !.done = TRUE]
  <2>1. /\ \A u \in Threads : Len(stack'[u]) = Len(stack[u])
        /\ \A u \in Threads : \A i \in 1 .. Len(stack[u]) :
             \/ stack'[u][i] = stack[u][i] /\ ~(u = t /\ i = Len(stack[t]))
             \/ /\ u = t /\ i = Len(stack[t])
                /\ stack'[u][i] = [Top(t) EXCEPT !.res = res, !.rc = 0, !.done = TRUE]
    BY <1>1, RanFrames
  <2> QED BY <1>2, <2>1, ZenonT(30)
<1>6. /\ stack'[t][1].fn = Top(t).fn /\ stack'[t][1].arg = Top(t).arg
      /\ stack'[t][1].res = res /\ stack'[t][1].done
  BY <1>2, <1>4, <1>5 DEF Frame
<1>7. stack'[t] # <<>>
  BY <1>3, <1>5, SMT
<1>8. Others(t)
  <2>1. \A u \in Threads \ {t} : stack'[u] = stack[u]
    BY <1>1 DEF Ran
  <2> QED BY <2>1 DEF Others, tracking
<1>9. INFLIGHT[t] \in EntryData
  BY <1>3, NetFacts DEF TypeOK, TrackingOK
<1>10. INFLIGHT[t].arg0 \in Nat
  BY <1>9 DEF EntryData
<1> QED BY <1>2, <1>3, <1>4, <1>5, <1>6, <1>7, <1>8, <1>10

LEMMA HeapMove ==
  ASSUME TypeOK, TypeOK', NEW p \in Pids, NEW a \in Addrs,
         \A b \in Addrs \ {a} : heap'[<<p, b>>] = heap[<<p, b>>]
  PROVE  /\ Sum(HeapOf(p)) \in Nat /\ Sum(HeapOf(p))' \in Nat
         /\ heap[<<p, a>>] \in Nat /\ heap'[<<p, a>>] \in Nat
         /\ Sum(HeapOf(p))' = Sum(HeapOf(p)) - heap[<<p, a>>] + heap'[<<p, a>>]
<1>1. PICK f : f = HeapOf(p)
  OBVIOUS
<1>2. PICK g : g = HeapOf(p)'
  OBVIOUS
<1>3. f \in [Addrs -> Nat] /\ g \in [Addrs -> Nat]
  BY <1>1, <1>2 DEF HeapOf, TypeOK, AppOK
<1>4. /\ \A b \in Addrs \ {a} : g[b] = f[b]
      /\ f[a] = heap[<<p, a>>] /\ g[a] = heap'[<<p, a>>]
  BY <1>1, <1>2 DEF HeapOf
<1>5. Sum(g) = Sum(f) - f[a] + g[a]
  <2>1. IsFiniteSet(Addrs)
    BY ConstantsAssumption
  <2>2. \A b \in Addrs : b # a => g[b] = f[b]
    BY <1>4
  <2> QED BY <1>3, <2>1, <2>2, SumUpdate, SMT
<1>6. f[a] \in Nat /\ g[a] \in Nat /\ Sum(f) \in Nat /\ Sum(g) \in Nat
  BY <1>3, SumType, ConstantsAssumption
<1> QED BY <1>1, <1>2, <1>4, <1>5, <1>6

LEMMA HeapStill ==
  ASSUME NEW p, \A b \in Addrs : heap'[<<p, b>>] = heap[<<p, b>>]
  PROVE  Sum(HeapOf(p))' = Sum(HeapOf(p))
<1>1. HeapOf(p)' = HeapOf(p)
  BY DEF HeapOf
<1> QED BY <1>1

(* What a step of t adds to the bytes that are booked. *)
LEMMA BookedMove ==
  ASSUME TypeOK, OpenMemory, TypeOK', OpenMemory', NEW t \in Threads, Others(t), UNCHANGED AGGREGATED,
         NEW p, NEW fns, Family(fns), NEW c \in Nat,
         NotCounted(p, fns)[t] = 0, NotCounted(p, fns)'[t] = c
  PROVE  /\ Booked(p, fns) \in Nat /\ Booked(p, fns)' = Booked(p, fns) + c
<1>1. PICK s \in Nat, m \in Nat, k \in Nat :
        s = Sum(SizesOf(p, fns)) /\ m = Sum(NotCounted(p, fns)) /\ k = Sum(NotCounted(p, fns))'
  BY BytesNow, BytesNext DEF BytesTyped
<1>2. k = m - 0 + c
  BY <1>1, NotCountedMove
<1>3. Sum(SizesOf(p, fns))' = s
  BY <1>1, SizesStill
<1>4. Booked(p, fns) = s + m /\ Booked(p, fns)' = s + k
  BY <1>1, <1>3 DEF Booked
<1> QED BY <1>1, <1>2, <1>4, SMT

(* The driver gives out memory: as much is booked as the heap grows by. *)
LEMMA NetMallocBody ==
  ASSUME NetInv, MemInv', NEW t \in Threads, MallocBody(t)
  PROVE  Net'
<1>1. /\ stack[t] # <<>> /\ Top(t).fn \in MallocFns /\ ~Top(t).done
      /\ UNCHANGED <<dead, tracking, MALLOC_SIZES, MALLOC_PTRS, INFLIGHT, AGGREGATED>>
  BY DEF MallocBody, tracking, sinks
<1>2. PICK a \in Addrs : /\ heap[<<PidOf[t], a>>] = 0
                         /\ heap' = [heap EXCEPT ![<<PidOf[t], a>>] = Top(t).arg]
                         /\ Ran(t, a, 0)
  BY NetFacts DEF MallocBody, Metered
<1>3. a \in Nat /\ a # 0
  BY ConstantsAssumption
<1>4. /\ Len(stack[t]) = 1 /\ Top(t) = stack[t][1] /\ Top(t) \in Frame
      /\ Len(stack'[t]) = 1 /\ stack'[t] # <<>>
      /\ stack'[t][1].fn = Top(t).fn /\ stack'[t][1].arg = Top(t).arg
      /\ stack'[t][1].res = a /\ stack'[t][1].done
      /\ Others(t) /\ INFLIGHT[t] # NoEntry /\ INFLIGHT[t].arg0 \in Nat
  BY <1>1, <1>2, <1>3, BodyRuns DEF MemoryFns
<1>5. 1 \in 1 .. Len(stack[t])
  BY ONLY <1>4, SMT
<1>6. /\ Top(t).res = 0 /\ MALLOC_PTRS[t] = 1 /\ INFLIGHT[t].arg0 = Top(t).arg
  <2>1. Top(t).res = 0 /\ MALLOC_PTRS[t] = 1
    BY <1>1, <1>4, <1>5, NetFacts DEF OpenMemory, OpenAt, MemoryFns
  <2>2. INFLIGHT[t].arg0 = Top(t).arg
    BY <1>1, <1>4, <1>5, NetFacts, MemFacts, ZenonT(30) DEF MallocOpen
  <2> QED BY <2>1, <2>2
<1>7. /\ heap'[<<PidOf[t], a>>] = Top(t).arg
      /\ \A p \in Pids, b \in Addrs : p # PidOf[t] \/ b # a => heap'[<<p, b>>] = heap[<<p, b>>]
      /\ PidOf[t] \in Pids
  BY <1>2, NetFacts DEF TypeOK, AppOK
<1>8. Top(t).fn \notin FreeFns
  BY <1>1, MemoryEvents
<1>9. OpenMemory'
  <2>1. OpenAt(t)'
    <3>1. \A i \in 1 .. Len(stack'[t]) : i = 1
      BY <1>4, OnlyOne, ZenonT(30)
    <3> QED BY <1>1, <1>3, <1>4, <1>6, <1>8, <3>1 DEF OpenAt
  <2>2. ASSUME NEW u \in Threads \ {t}, NEW i \in 1 .. Len(stack[u]), NEW b \in Addrs, Freeing(u, i, b)
        PROVE  heap'[<<PidOf[u], b>>] = heap[<<PidOf[u], b>>]
    <3>1. heap[<<PidOf[u], b>>] # 0 /\ PidOf[u] \in Pids
      BY <2>2, NetFacts, MemFacts DEF FreeOpen
    <3> QED BY <1>2, <1>7, <3>1
  <2> QED BY <1>4, <2>1, <2>2, OpenMove, NetFacts
<1>10. Tracked'
  <2>1. ASSUME NEW p \in Pids, NEW b \in Addrs, heap'[<<p, b>>] # 0
        PROVE  \/ MALLOC_SIZES'[<<p, b>>] # 0
               \/ TrackedBy(t, p, b)'
               \/ heap[<<p, b>>] # 0 /\ MALLOC_SIZES[<<p, b>>] = 0 /\ ~TrackedBy(t, p, b)
    <3>1. CASE p = PidOf[t] /\ b = a
      BY <1>1, <1>4, <3>1 DEF TrackedBy, Given
    <3>2. CASE p # PidOf[t] \/ b # a
      <4>1. heap[<<p, b>>] # 0
        BY <1>7, <2>1, <3>2
      <4>2. ~TrackedBy(t, p, b)
        <5>1. b # 0
          BY ConstantsAssumption
        <5> QED BY <1>4, <1>6, <1>8, <5>1 DEF TrackedBy, Freeing, Given
      <4> QED BY <1>1, <4>1, <4>2
    <3> QED BY <3>1, <3>2
  <2> QED BY <1>4, <2>1, TrackMove, NetFacts
<1>11. Balance'
  <2> SUFFICES ASSUME NEW p \in Pids
               PROVE  Booked(p, MallocFns)' = Booked(p, FreeFns)' + Sum(HeapOf(p))'
    BY DEF Balance
  <2>0. TypeOK' /\ TypeOK /\ OpenMemory /\ MallocFns \cap FreeFns = {}
    BY NetFacts, MemoryEvents DEF MemInv, Inv
  <2>1. PICK c \in Nat : c = IF p = PidOf[t] THEN Top(t).arg ELSE 0
    BY <1>4 DEF Frame
  <2>2. /\ NotCounted(p, MallocFns)[t] = 0 /\ NotCounted(p, MallocFns)'[t] = c
        /\ NotCounted(p, FreeFns)[t] = 0 /\ NotCounted(p, FreeFns)'[t] = 0
    BY <1>1, <1>4, <1>6, <1>8, <2>1 DEF NotCounted, Waiting
  <2>3. /\ Booked(p, MallocFns) \in Nat /\ Booked(p, MallocFns)' = Booked(p, MallocFns) + c
        /\ Booked(p, FreeFns) \in Nat /\ Booked(p, FreeFns)' = Booked(p, FreeFns) + 0
    <3>1. Family(MallocFns) /\ Family(FreeFns)
      BY DEF Family
    <3>2. Others(t) /\ UNCHANGED AGGREGATED
      BY <1>1, <1>4, ZenonT(30)
    <3>3. /\ TypeOK /\ OpenMemory /\ TypeOK' /\ OpenMemory' /\ t \in Threads
          /\ c \in Nat /\ 0 \in Nat
      BY <1>9, <2>0, <2>1
    <3>4. Booked(p, MallocFns) \in Nat /\ Booked(p, MallocFns)' = Booked(p, MallocFns) + c
      BY ONLY <2>2, <3>1, <3>2, <3>3, BookedMove, SMT
    <3>5. Booked(p, FreeFns) \in Nat /\ Booked(p, FreeFns)' = Booked(p, FreeFns) + 0
      BY ONLY <2>2, <3>1, <3>2, <3>3, BookedMove, SMT
    <3> QED BY <3>4, <3>5, ZenonT(30)
  <2>4. Sum(HeapOf(p)) \in Nat /\ Sum(HeapOf(p))' = Sum(HeapOf(p)) + c
    <3>1. CASE p = PidOf[t]
      <4>1. /\ Sum(HeapOf(p)) \in Nat
            /\ Sum(HeapOf(p))' = Sum(HeapOf(p)) - heap[<<p, a>>] + heap'[<<p, a>>]
        BY <1>7, <2>0, HeapMove
      <4>2. heap[<<p, a>>] = 0 /\ heap'[<<p, a>>] = c
        BY <1>2, <1>7, <2>1, <3>1
      <4> QED BY ONLY <2>1, <4>1, <4>2, SMT
    <3>2. CASE p # PidOf[t]
      <4>1. Sum(HeapOf(p))' = Sum(HeapOf(p))
        BY <1>7, <3>2, HeapStill
      <4> QED BY ONLY <2>0, <2>1, <3>2, <4>1, HeapType, SMT
    <3> QED BY <3>1, <3>2
  <2>5. Booked(p, MallocFns) = Booked(p, FreeFns) + Sum(HeapOf(p))
    BY NetFacts DEF Balance
  <2> QED BY ONLY <2>1, <2>3, <2>4, <2>5, SMT
<1> QED BY <1>1, <1>9, <1>10, <1>11, NetFacts DEF Net

(* The driver takes memory back: as much is booked as the heap shrinks by. *)
LEMMA NetFreeBody ==
  ASSUME NetInv, MemInv', NEW t \in Threads, FreeBody(t)
  PROVE  Net'
<1>1. /\ stack[t] # <<>> /\ Top(t).fn \in FreeFns /\ ~Top(t).done
      /\ UNCHANGED <<dead, tracking, MALLOC_SIZES, MALLOC_PTRS, INFLIGHT, AGGREGATED>>
  BY DEF FreeBody, tracking, sinks
<1>2. /\ heap' = IF Top(t).arg = 0 THEN heap ELSE [heap EXCEPT ![<<PidOf[t], Top(t).arg>>] = 0]
      /\ Ran(t, 0, 0)
  BY NetFacts DEF FreeBody, Metered
<1>4. /\ Len(stack[t]) = 1 /\ Top(t) = stack[t][1] /\ Top(t) \in Frame
      /\ Len(stack'[t]) = 1 /\ stack'[t] # <<>>
      /\ stack'[t][1].fn = Top(t).fn /\ stack'[t][1].arg = Top(t).arg
      /\ stack'[t][1].res = 0 /\ stack'[t][1].done
      /\ Others(t) /\ INFLIGHT[t] # NoEntry /\ INFLIGHT[t].arg0 \in Nat
  BY <1>1, <1>2, BodyRuns DEF MemoryFns
<1>5. 1 \in 1 .. Len(stack[t])
  BY <1>4
<1>6. /\ Top(t).arg \in Addrs \cup {0}
      /\ INFLIGHT[t].arg0 = IF Top(t).arg = 0 THEN 0 ELSE heap[<<PidOf[t], Top(t).arg>>]
  BY <1>1, <1>4, <1>5, NetFacts DEF OpenMemory, OpenAt, MemoryFns
<1>7. /\ Top(t).arg # 0 => heap'[<<PidOf[t], Top(t).arg>>] = 0
      /\ \A p \in Pids, b \in Addrs : p # PidOf[t] \/ b # Top(t).arg => heap'[<<p, b>>] = heap[<<p, b>>]
      /\ PidOf[t] \in Pids /\ 0 \notin Addrs
  <2>1. 0 \notin Addrs
    BY ConstantsAssumption
  <2>2. heap \in [Pids \X Addrs -> Nat] /\ PidOf[t] \in Pids
    BY NetFacts DEF TypeOK, AppOK
  <2>3. CASE Top(t).arg = 0
    BY <1>2, <2>1, <2>2, <2>3
  <2>4. CASE Top(t).arg # 0
    BY <1>2, <1>6, <2>1, <2>2, <2>4
  <2> QED BY <2>3, <2>4
<1>8. Top(t).fn \notin MallocFns
  BY <1>1, MemoryEvents
<1>9. OpenMemory'
  <2>1. OpenAt(t)'
    <3>1. \A i \in 1 .. Len(stack'[t]) : i = 1
      BY <1>4, OnlyOne, ZenonT(30)
    <3> QED BY <1>1, <1>4, <1>8, <3>1 DEF OpenAt
  <2>2. ASSUME NEW u \in Threads \ {t}, NEW i \in 1 .. Len(stack[u]), NEW b \in Addrs, Freeing(u, i, b)
        PROVE  heap'[<<PidOf[u], b>>] = heap[<<PidOf[u], b>>]
    <3>1. \A w \in Threads : \A j \in 1 .. Len(stack[w]) : PidOf[w] = PidOf[u] =>
            (Freeing(w, j, b) => w = u /\ j = i)
      BY <2>2, NetFacts, MemFacts DEF FreeOpen
    <3>2. PidOf[t] = PidOf[u] => ~Freeing(t, 1, b)
      BY <1>5, <3>1
    <3>3. PidOf[u] # PidOf[t] \/ b # Top(t).arg
      BY <1>1, <1>4, <3>2 DEF Freeing
    <3> QED BY <1>7, <3>3, NetFacts
  <2> QED BY <1>4, <2>1, <2>2, OpenMove, NetFacts
<1>10. Tracked'
  <2>1. ASSUME NEW p \in Pids, NEW b \in Addrs, heap'[<<p, b>>] # 0
        PROVE  \/ MALLOC_SIZES'[<<p, b>>] # 0
               \/ heap[<<p, b>>] # 0 /\ MALLOC_SIZES[<<p, b>>] = 0 /\ ~TrackedBy(t, p, b)
    <3>1. b # 0
      BY ConstantsAssumption
    <3>2. p # PidOf[t] \/ b # Top(t).arg
      BY <1>7, <2>1, <3>1
    <3>3. heap[<<p, b>>] # 0
      BY <1>7, <2>1, <3>2
    <3>4. ~TrackedBy(t, p, b)
      BY <1>4, <1>8, <3>2 DEF TrackedBy, Freeing, Given
    <3> QED BY <1>1, <3>3, <3>4
  <2> QED BY <1>4, <2>1, TrackMove, NetFacts
<1>11. Balance'
  <2> SUFFICES ASSUME NEW p \in Pids
               PROVE  Booked(p, MallocFns)' = Booked(p, FreeFns)' + Sum(HeapOf(p))'
    BY DEF Balance
  <2>0. TypeOK' /\ TypeOK /\ OpenMemory /\ MallocFns \cap FreeFns = {}
    BY NetFacts, MemoryEvents DEF MemInv, Inv
  <2>1. PICK c \in Nat : c = IF p = PidOf[t] THEN INFLIGHT[t].arg0 ELSE 0
    BY <1>4
  <2>2. /\ NotCounted(p, FreeFns)[t] = 0 /\ NotCounted(p, FreeFns)'[t] = c
        /\ NotCounted(p, MallocFns)[t] = 0 /\ NotCounted(p, MallocFns)'[t] = 0
    BY <1>1, <1>4, <1>8, <2>1 DEF NotCounted, Waiting
  <2>3. /\ Booked(p, FreeFns) \in Nat /\ Booked(p, FreeFns)' = Booked(p, FreeFns) + c
        /\ Booked(p, MallocFns) \in Nat /\ Booked(p, MallocFns)' = Booked(p, MallocFns) + 0
    <3>1. Family(MallocFns) /\ Family(FreeFns)
      BY DEF Family
    <3>2. Others(t) /\ UNCHANGED AGGREGATED
      BY <1>1, <1>4, ZenonT(30)
    <3>3. /\ TypeOK /\ OpenMemory /\ TypeOK' /\ OpenMemory' /\ t \in Threads
          /\ c \in Nat /\ 0 \in Nat
      BY <1>9, <2>0, <2>1
    <3>4. Booked(p, FreeFns) \in Nat /\ Booked(p, FreeFns)' = Booked(p, FreeFns) + c
      BY ONLY <2>2, <3>1, <3>2, <3>3, BookedMove, SMT
    <3>5. Booked(p, MallocFns) \in Nat /\ Booked(p, MallocFns)' = Booked(p, MallocFns) + 0
      BY ONLY <2>2, <3>1, <3>2, <3>3, BookedMove, SMT
    <3> QED BY <3>4, <3>5, ZenonT(30)
  <2>4. PICK h \in Nat : h = Sum(HeapOf(p)) /\ Sum(HeapOf(p))' = h - c
    <3>0. PICK h \in Nat : h = Sum(HeapOf(p))
      BY <2>0, HeapType
    <3>1. CASE p = PidOf[t] /\ Top(t).arg # 0
      <4>0. PICK a \in Addrs : a = Top(t).arg
        BY <1>6, <3>1
      <4>1. Sum(HeapOf(p))' = h - heap[<<p, a>>] + heap'[<<p, a>>] /\ heap[<<p, a>>] \in Nat
        BY <1>7, <2>0, <3>0, <4>0, HeapMove
      <4>2. heap[<<p, a>>] = c /\ heap'[<<p, a>>] = 0
        BY <1>6, <1>7, <2>1, <3>1, <4>0
      <4>3. Sum(HeapOf(p))' = h - c
        BY ONLY <2>1, <3>0, <4>1, <4>2, SMT
      <4> QED BY <3>0, <4>3
    <3>2. CASE ~(p = PidOf[t] /\ Top(t).arg # 0)
      <4>1. \A b \in Addrs : heap'[<<p, b>>] = heap[<<p, b>>]
        BY <1>7, <3>2
      <4>2. Sum(HeapOf(p))' = h /\ c = 0
        BY <1>6, <2>1, <3>0, <3>2, <4>1, HeapStill
      <4>3. Sum(HeapOf(p))' = h - c
        BY <3>0, <4>2
      <4> QED BY <3>0, <4>3
    <3> QED BY <3>1, <3>2
  <2>5. Booked(p, MallocFns) = Booked(p, FreeFns) + Sum(HeapOf(p))
    BY NetFacts DEF Balance
  <2> QED BY <2>1, <2>3, <2>4, <2>5
<1> QED BY <1>1, <1>9, <1>10, <1>11, NetFacts DEF Net

(* emit_exit adds the bytes of an entry of memory to the key of its call. *)
LEMMA ExitCounts ==
  ASSUME NetInv, NEW t \in Threads, NEW rc \in {0, 1}, emit_exit(t, rc),
         INFLIGHT[t] # NoEntry, INFLIGHT[t].event_type \in MemoryFns
  PROVE  LET k == <<INFLIGHT[t].event_type, PidOf[t], rc>> IN
         /\ k \in CudaKey
         /\ AGGREGATED'[k].size = AGGREGATED[k].size + INFLIGHT[t].arg0
         /\ \A j \in CudaKey \ {k} : AGGREGATED'[j] = AGGREGATED[j]
<1>1. PICK e \in EntryData : e = INFLIGHT[t]
  BY NetFacts DEF TypeOK, TrackingOK
<1>2. e.event_type \in Events /\ e.arg0 \in Nat /\ e.event_type \in profi_is_aggregatable
  BY <1>1, MemoryEvents DEF EntryData
<1>3. PICK k \in CudaKey : k = <<e.event_type, PidOf[t], rc>>
  BY <1>2 DEF CudaKey, Pids
<1>4. AggregateCuda(t, e, rc)
  <2>1. \/ AggregateCuda(t, e, rc) \/ AggregateNccl(t, e, rc)
        \/ AggregateLaunch(t, e) \/ EmitOther(t, e)
    BY <1>1 DEF emit_exit
  <2>2. e.event_type \notin profi_is_nccl_event /\ e.event_type # LaunchKernel
    BY <1>1 DEF MemoryFns, MallocFns, FreeFns, profi_is_nccl_event, NcclFns, LaunchKernel
  <2> QED BY <1>2, <2>1, <2>2 DEF AggregateNccl, AggregateLaunch, EmitOther
<1>5. AGGREGATED \in [CudaKey -> AggValue]
  BY NetFacts DEF TypeOK, SinksOK
<1>6. HasRoom(AGGREGATED, EmptyAgg, AggSize, k)
  <2>1. DOMAIN AGGREGATED = CudaKey /\ AggSize \in Nat /\ Cardinality(CudaKey) <= AggSize
    BY <1>5, ConstantsAssumption, NetFacts DEF Metered
  <2> QED BY <2>1, CudaKeyFinite, RoomEnough
<1>7. PICK v : /\ v = [count |-> AGGREGATED[k].count + 1, size |-> AGGREGATED[k].size + e.arg0 * 1]
               /\ AGGREGATED' = [AGGREGATED EXCEPT ![k] = v]
  <2>1. (IF SampleRate > 1 THEN SampleRate ELSE 1) = 1
    <3>1. SampleRate \in Nat /\ SampleRate <= 1
      BY NetFacts, ConstantsAssumption, ZenonT(30) DEF Metered
    <3> QED BY <3>1, NotSampled, ZenonT(30)
  <2> QED BY <1>3, <1>4, <1>6, <2>1, ZenonT(30) DEF AggregateCuda
<1>8. AGGREGATED'[k] = v /\ \A j \in CudaKey \ {k} : AGGREGATED'[j] = AGGREGATED[j]
  BY <1>5, <1>7
<1>9. v.size = AGGREGATED[k].size + e.arg0
  BY <1>2, <1>7
<1> QED BY <1>1, <1>3, <1>8, <1>9

(* What emit_exit does with any other entry, or without one. *)
LEMMA ExitQuiet ==
  ASSUME NetInv, NEW t \in Threads, NEW rc \in {0, 1}, emit_exit(t, rc),
         INFLIGHT[t] # NoEntry => INFLIGHT[t].event_type \notin MemoryFns
  PROVE  SizesSame
<1>1. CASE UNCHANGED AGGREGATED
  BY <1>1 DEF SizesSame
<1>2. CASE INFLIGHT[t] # NoEntry /\ AggregateCuda(t, INFLIGHT[t], rc)
  <2>1. PICK k, v : /\ k = <<INFLIGHT[t].event_type, PidOf[t], rc>>
                    /\ AGGREGATED' \in {AGGREGATED, [AGGREGATED EXCEPT ![k] = v]}
    BY <1>2, ZenonT(30) DEF AggregateCuda
  <2>2. k[1] \notin MemoryFns
    BY <1>2, <2>1
  <2>3. AGGREGATED \in [CudaKey -> AggValue]
    BY NetFacts DEF TypeOK, SinksOK
  <2>4. \A j \in CudaKey : j # k => AGGREGATED'[j] = AGGREGATED[j]
    BY <2>1, <2>3
  <2> QED BY <2>2, <2>4 DEF SizesSame
<1> QED BY <1>1, <1>2 DEF emit_exit, sinks, AggregateNccl, AggregateLaunch, EmitOther

(* The bytes of a call of memory move from the open calls to the map. *)
LEMMA SizesMove ==
  ASSUME TypeOK, TypeOK', OpenMemory, OpenMemory', NEW p, NEW fns, Family(fns),
         NEW k \in KeysOf(p, fns), NEW c \in Nat,
         AGGREGATED'[k].size = AGGREGATED[k].size + c,
         \A j \in CudaKey \ {k} : AGGREGATED'[j] = AGGREGATED[j]
  PROVE  Sum(SizesOf(p, fns))' = Sum(SizesOf(p, fns)) + c
<1>1. PICK D : D = KeysOf(p, fns)
  OBVIOUS
<1>2. PICK f : f = SizesOf(p, fns)
  OBVIOUS
<1>3. PICK g : g = SizesOf(p, fns)'
  OBVIOUS
<1>4. KeysOf(p, fns)' = D
  BY <1>1 DEF KeysOf
<1>5. f \in [D -> Nat] /\ g \in [D -> Nat] /\ Sum(f) \in Nat /\ IsFiniteSet(D) /\ k \in D
  BY <1>1, <1>2, <1>3, <1>4, BytesType, BytesNext DEF BytesTyped
<1>6. g[k] = f[k] + c /\ \A j \in D \ {k} : g[j] = f[j]
  BY <1>1, <1>2, <1>3, <1>4 DEF SizesOf, KeysOf
<1>7. Sum(g) = Sum(f) - f[k] + g[k] /\ f[k] \in Nat
  BY <1>5, <1>6, SumUpdate, SMT
<1>8. Sum(g) = Sum(f) + c
  BY <1>5, <1>6, <1>7
<1> QED BY <1>2, <1>3, <1>8

(* A call of memory returns: what it booked is counted. *)
LEMMA NetExit ==
  ASSUME NetInv, MemInv', NEW t \in Threads, NEW rc \in {0, 1}, Leave(t), emit_exit(t, rc),
         Top(t).fn \in MemoryFns,
         \A u \in Threads \ {t} : MALLOC_PTRS'[u] = MALLOC_PTRS[u],
         \A p \in Pids, a \in Addrs : heap[<<p, a>>] # 0 =>
           \/ MALLOC_SIZES'[<<p, a>>] # 0
           \/ MALLOC_SIZES[<<p, a>>] = 0 /\ ~TrackedBy(t, p, a)
  PROVE  Net'
<1>0. TypeOK /\ OpenMemory /\ TypeOK'
  BY NetFacts DEF MemInv, Inv
<1>1. /\ Len(stack[t]) \in Nat \ {0} /\ Top(t) \in Frame
      /\ Len(stack'[t]) = Len(stack[t]) - 1
      /\ \A u \in Threads \ {t} : stack'[u] = stack[u]
      /\ t \notin dead /\ UNCHANGED <<dead, heap>> /\ Top(t).done
  BY <1>0, LeaveEffect DEF Leave, MemoryFns
<1>2. /\ Len(stack[t]) = 1 /\ Top(t) = stack[t][1] /\ stack[t] # <<>>
      /\ INFLIGHT[t] # NoEntry
  <2>1. PICK n \in 1 .. Len(stack[t]) : n = Len(stack[t]) /\ Top(t) = stack[t][n]
    BY ONLY <1>1, SMT DEF Top
  <2>2. Len(stack[t]) = 1 /\ INFLIGHT[t] # NoEntry
    BY <1>0, <2>1 DEF OpenMemory, OpenAt
  <2> QED BY <2>1, <2>2 DEF Leave
<1>3. Len(stack'[t]) = 0 /\ 1 .. Len(stack'[t]) = {}
  BY ONLY <1>1, <1>2, SMT
<1>4. PICK c \in Nat : c = INFLIGHT[t].arg0
  BY <1>0, <1>2 DEF TypeOK, TrackingOK, EntryData
<1>5. INFLIGHT[t].event_type = Top(t).fn
  <2>1. /\ INFLIGHT[t].owner \in 1 .. Len(stack[t])
        /\ INFLIGHT[t].event_type = EventOf(stack[t][INFLIGHT[t].owner].fn)
    BY <1>1, <1>2, NetFacts, MemFacts DEF EntryOwned
  <2>2. INFLIGHT[t].owner = 1
    BY <1>2, <2>1, OnlyOne, ZenonT(30)
  <2> QED BY <1>2, <2>1, <2>2, MemoryEvents
<1>6. Others(t)
  <2>1. \A u \in Threads \ {t} : INFLIGHT'[u] = INFLIGHT[u]
    BY <1>0, <1>2 DEF emit_exit, TypeOK, TrackingOK
  <2> QED BY <1>1, <2>1 DEF Others
<1>7. OpenMemory'
  <2>1. OpenAt(t)'
    BY <1>3 DEF OpenAt
  <2> QED BY <1>0, <1>1, <1>6, <2>1, OpenMove
<1>8. Tracked'
  BY <1>1, <1>6, TrackMove, NetFacts
<1>9. PICK k \in CudaKey :
        /\ k = <<Top(t).fn, PidOf[t], rc>>
        /\ AGGREGATED'[k].size = AGGREGATED[k].size + c
        /\ \A j \in CudaKey \ {k} : AGGREGATED'[j] = AGGREGATED[j]
  BY <1>2, <1>4, <1>5, ExitCounts
<1>10. ASSUME NEW p \in Pids, NEW fns, Family(fns)
       PROVE  Booked(p, fns)' = Booked(p, fns)
  <2>1. PICK s \in Nat, m \in Nat :
          s = Sum(SizesOf(p, fns)) /\ m = Sum(NotCounted(p, fns))
    BY <1>0, <1>10, BytesNow DEF BytesTyped
  <2>2. stack'[t] = <<>>
    <3>1. stack'[t] \in Seq(Frame)
      BY <1>0 DEF TypeOK, AppOK
    <3> QED BY ONLY <1>3, <3>1, SMT
  <2>3. NotCounted(p, fns)'[t] = 0
    BY <2>2 DEF NotCounted, Waiting
  <2>4. CASE p = PidOf[t] /\ Top(t).fn \in fns
    <3>1. NotCounted(p, fns)[t] = c
      BY <1>1, <1>2, <1>4, <2>4 DEF NotCounted, Waiting
    <3>2. k \in KeysOf(p, fns)
      BY <1>9, <2>4 DEF KeysOf
    <3>3. Sum(SizesOf(p, fns))' = s + c
      BY <1>0, <1>7, <1>9, <1>10, <2>1, <3>2, SizesMove
    <3>4. /\ Sum(NotCounted(p, fns))' \in Nat
          /\ Sum(NotCounted(p, fns))' = m - c + 0
      BY <1>0, <1>6, <1>7, <1>10, <2>1, <2>3, <3>1, NotCountedMove
    <3>5. PICK r \in Nat : r = Sum(NotCounted(p, fns))' /\ r = m - c + 0
      BY <3>4
    <3>6. s + c + r = s + m
      BY ONLY <1>4, <2>1, <3>5, SMT
    <3> QED BY <2>1, <3>3, <3>5, <3>6 DEF Booked
  <2>5. CASE ~(p = PidOf[t] /\ Top(t).fn \in fns)
    <3>1. NotCounted(p, fns)[t] = 0
      BY <1>2, <2>5 DEF NotCounted, Waiting
    <3>2. k \notin KeysOf(p, fns)
      BY <1>9, <2>5 DEF KeysOf
    <3>3. \A j \in KeysOf(p, fns) : AGGREGATED'[j].size = AGGREGATED[j].size
      BY <1>9, <3>2 DEF KeysOf
    <3>4. Sum(SizesOf(p, fns))' = Sum(SizesOf(p, fns))
      BY <1>10, <3>3, SizesStill
    <3>5. Sum(NotCounted(p, fns))' = Sum(NotCounted(p, fns))
      BY <1>0, <1>6, <1>7, <1>10, <2>3, <3>1, NotCountedStill
    <3> QED BY <3>4, <3>5 DEF Booked
  <2> QED BY <2>4, <2>5
<1>11. Balance'
  <2>1. \A p \in Pids : Sum(HeapOf(p))' = Sum(HeapOf(p))
    BY <1>1 DEF HeapOf
  <2> QED BY <1>10, <2>1, NetFacts DEF Balance, Family
<1> QED BY <1>1, <1>7, <1>8, <1>11, NetFacts DEF Net

(* The return program of an allocation puts its size into the map. *)
LEMMA NetLeaveMalloc ==
  ASSUME NetInv, MemInv', NEW t \in Threads, LeaveMalloc(t)
  PROVE  Net'
<1>0. TypeOK /\ OpenMemory /\ MemInv
  BY NetFacts
<1>1. Leave(t) /\ Top(t).fn \in MallocFns /\ MALLOC_PTRS' = [MALLOC_PTRS EXCEPT ![t] = 0]
  BY DEF LeaveMalloc
<1>2. PICK rc \in {0, 1} : emit_exit(t, rc)
  BY <1>0, <1>1, ReturnCodeType DEF LeaveMalloc
<1>3. PICK n \in 1 .. Len(stack[t]) : n = Len(stack[t]) /\ Top(t) = stack[t][n] /\ stack[t] # <<>>
  BY <1>0, <1>1, LeaveEffect, SMT DEF Top, Leave
<1>4. /\ Len(stack[t]) = 1 /\ INFLIGHT[t] # NoEntry
      /\ MALLOC_PTRS[t] = 1 /\ Top(t).res # 0
  <2>1. stack[t][n].fn \in MallocFns /\ stack[t][n].fn \in MemoryFns /\ stack[t][n].done
    BY <1>1, <1>3 DEF MemoryFns, Leave
  <2> QED BY <1>0, <1>3, <2>1 DEF OpenMemory, OpenAt
<1>5. n = 1
  BY <1>3, <1>4
<1>6. /\ Top(t).res \in Addrs /\ Top(t).arg # 0 /\ INFLIGHT[t].arg0 = Top(t).arg
  BY <1>1, <1>3, <1>4, NetFacts, MemFacts, ZenonT(30) DEF MallocOpen
<1>7. PICK m \in Pids \X Addrs : m = <<PidOf[t], Top(t).res>>
  BY <1>6 DEF Pids
<1>8. MALLOC_SIZES' \in LruPut(MALLOC_SIZES, 0, MallocSizesSize, m, INFLIGHT[t].arg0)
  <2>1. stack[t][MALLOC_PTRS[t]].res = Top(t).res /\ "read_faults" \notin Faults
    BY <1>3, <1>4, <1>5, NetFacts DEF Metered
  <2> QED BY <1>4, <1>7, <2>1, SMT DEF LeaveMalloc
<1>9. MALLOC_SIZES' = [MALLOC_SIZES EXCEPT ![m] = INFLIGHT[t].arg0]
  <2>1. IsFiniteSet(Pids \X Addrs)
    BY PidsFinite, ConstantsAssumption, FS_Product
  <2>2. PICK D : D = Pids \X Addrs
    OBVIOUS
  <2>3. DOMAIN MALLOC_SIZES = D /\ MallocSizesSize \in Nat /\ Cardinality(D) <= MallocSizesSize
    BY <1>0, <2>2, ConstantsAssumption, NetFacts DEF Metered, TypeOK, TrackingOK
  <2>4. HasRoom(MALLOC_SIZES, 0, MallocSizesSize, m)
    BY <2>1, <2>2, <2>3, RoomEnough
  <2> QED BY <1>8, <2>4, PutRoom
<1>10. ASSUME NEW p \in Pids, NEW a \in Addrs, heap[<<p, a>>] # 0
       PROVE  \/ MALLOC_SIZES'[<<p, a>>] # 0
              \/ MALLOC_SIZES[<<p, a>>] = 0 /\ ~TrackedBy(t, p, a)
  <2>0. MALLOC_SIZES \in [Pids \X Addrs -> Nat]
    BY <1>0 DEF TypeOK, TrackingOK
  <2>1. CASE <<p, a>> = m
    BY <1>6, <1>9, <2>0, <2>1
  <2>2. CASE <<p, a>> # m
    <3>1. MALLOC_SIZES'[<<p, a>>] = MALLOC_SIZES[<<p, a>>]
      BY <1>9, <2>0, <2>2
    <3>2. ~TrackedBy(t, p, a)
      <4>1. stack[t][1].fn \notin FreeFns
        BY <1>1, <1>3, <1>5, MemoryEvents
      <4> QED BY <1>3, <1>5, <1>7, <2>2, <4>1 DEF TrackedBy, Freeing, Given
    <3> QED BY <3>1, <3>2
  <2> QED BY <2>1, <2>2
<1>11. \A u \in Threads \ {t} : MALLOC_PTRS'[u] = MALLOC_PTRS[u]
  BY <1>0, <1>1 DEF TypeOK, TrackingOK
<1> QED BY <1>1, <1>2, <1>10, <1>11, NetExit DEF MemoryFns

(* Every other return. *)
LEMMA NetLeaveOther ==
  ASSUME NetInv, MemInv', NEW t \in Threads, LeaveOther(t) \/ LeaveGetFunction(t)
  PROVE  Net'
<1>0. TypeOK /\ OpenMemory /\ MemInv
  BY NetFacts
<1>1. /\ Leave(t) /\ Top(t).fn \notin MallocFns
      /\ UNCHANGED <<MALLOC_PTRS, MALLOC_SIZES>>
  BY MemoryEvents DEF LeaveOther, LeaveGetFunction, MemoryFns
<1>2. /\ Len(stack[t]) \in Nat \ {0} /\ Top(t) \in Frame
      /\ Len(stack'[t]) = Len(stack[t]) - 1
      /\ \A i \in 1 .. Len(stack[t]) - 1 : stack'[t][i] = stack[t][i]
      /\ \A u \in Threads \ {t} : stack'[u] = stack[u]
      /\ t \notin dead /\ UNCHANGED <<dead, heap>>
  BY <1>0, <1>1, LeaveEffect DEF Leave
<1>3. CASE LeaveOther(t) /\ Top(t).fn \in MemoryFns
  <2>1. PICK rc \in {0, 1} : emit_exit(t, rc)
    BY <1>0, <1>1, <1>3, ReturnCodeType DEF LeaveOther
  <2>2. Top(t).fn \in FreeFns /\ Top(t).done
    BY <1>1, <1>3 DEF MemoryFns, Leave
  <2>3. PICK n \in 1 .. Len(stack[t]) : n = Len(stack[t]) /\ Top(t) = stack[t][n]
    BY ONLY <1>2, SMT DEF Top
  <2>4. Len(stack[t]) = 1
    BY <1>0, <1>3, <2>3 DEF OpenMemory, OpenAt
  <2>5. Top(t) = stack[t][1]
    BY <2>3, <2>4
  <2>6. ASSUME NEW p \in Pids, NEW a \in Addrs PROVE ~TrackedBy(t, p, a)
    BY <1>1, <2>2, <2>5 DEF TrackedBy, Freeing, Given
  <2> QED BY <1>1, <1>3, <2>1, <2>6, NetExit
<1>4. CASE Top(t).fn \notin MemoryFns
  <2>1. \A i \in 1 .. Len(stack[t]) : stack[t][i].fn \notin MemoryFns
    <3> SUFFICES ASSUME NEW i \in 1 .. Len(stack[t]), stack[t][i].fn \in MemoryFns PROVE FALSE
      OBVIOUS
    <3>1. Len(stack[t]) = 1
      BY <1>0 DEF OpenMemory, OpenAt
    <3>2. Top(t) = stack[t][i]
      BY <3>1, SMT DEF Top
    <3> QED BY <1>4, <3>2
  <2>2. NoMemory(stack[t])
    <3>1. 1 \in 1 .. Len(stack[t])
      BY ONLY <1>2, SMT
    <3> QED BY <2>1, <3>1 DEF NoMemory
  <2>3. NoMemory(stack'[t])
    <3>1. \A i \in 1 .. Len(stack'[t]) : stack'[t][i].fn \notin MemoryFns
      BY ONLY <1>2, <2>1, SMT
    <3>2. stack'[t] \in Seq(Frame)
      BY DEF MemInv, Inv, TypeOK, AppOK
    <3>3. stack'[t] # <<>> => 1 \in 1 .. Len(stack'[t])
      BY <3>2, FirstFrame
    <3> QED BY <3>1, <3>3 DEF NoMemory
  <2>4. Others(t)
    <3>1. INFLIGHT' \in {INFLIGHT, [INFLIGHT EXCEPT ![t] = NoEntry]}
      BY DEF LeaveOther, LeaveGetFunction, emit_exit
    <3>2. \A u \in Threads \ {t} : INFLIGHT'[u] = INFLIGHT[u]
      BY <1>0, <3>1 DEF TypeOK, TrackingOK
    <3> QED BY <1>1, <1>2, <3>2 DEF Others
  <2>5. SizesSame
    <3>1. CASE LeaveGetFunction(t)
      BY <3>1 DEF LeaveGetFunction, sinks, SizesSame
    <3>2. CASE LeaveOther(t)
      <4>1. PICK rc \in {0, 1} : emit_exit(t, rc)
        BY <1>0, <1>1, <3>2, ReturnCodeType DEF LeaveOther
      <4>2. ASSUME INFLIGHT[t] # NoEntry PROVE INFLIGHT[t].event_type \notin MemoryFns
        <5>1. PICK i \in 1 .. Len(stack[t]) : INFLIGHT[t].event_type = EventOf(stack[t][i].fn)
          BY <1>2, <4>2, NetFacts, MemFacts DEF EntryOwned
        <5>2. stack[t][i].fn \in AllFns
          <6>1. stack[t] \in Seq(Frame)
            BY NetFacts
          <6>2. stack[t][i] \in Frame
            BY <6>1
          <6> QED BY <6>2 DEF Frame
        <5> QED BY <2>1, <5>1, <5>2, MemoryEvents
      <4> QED BY <4>1, <4>2, ExitQuiet
    <3> QED BY <3>1, <3>2
  <2> QED BY <1>1, <1>2, <2>2, <2>3, <2>4, <2>5, NetQuiet
<1>5. LeaveGetFunction(t) => Top(t).fn \notin MemoryFns
  BY MemoryEvents DEF LeaveGetFunction
<1> QED BY <1>3, <1>4, <1>5

(* The calls of memory begin. *)
LEMMA NetEnterMalloc ==
  ASSUME NetInv, MemInv', NEW t \in Threads, NEW cpu \in Cpus, NEW fn \in MallocFns, NEW size \in Sizes,
         EnterMalloc(t, cpu, fn, size)
  PROVE  Net'
<1>1. size \in Nat /\ fn \in AllFns /\ fn \in MemoryFns /\ fn \notin FreeFns
  BY ConstantsAssumption, MemoryEvents DEF AllFns, MemoryFns
<1>2. PICK f \in Frame : f = NewFrame(fn, size) /\ f.fn = fn /\ f.res = 0
  <2>1. NewFrame(fn, size) \in Frame /\ NewFrame(fn, size).fn = fn /\ NewFrame(fn, size).res = 0
    BY <1>1 DEF Frame, NewFrame
  <2> QED BY <2>1
<1>3. ~f.done
  BY <1>2 DEF NewFrame
<1>4. /\ Call(t, f) /\ MALLOC_PTRS' \in LruPut(MALLOC_PTRS, 0, MallocPtrsSize, t, Len(stack[t]) + 1)
      /\ save_entry(t, cpu, EventOf(f.fn), size) /\ UNCHANGED MALLOC_SIZES
  BY <1>2, NetFacts DEF EnterMalloc, Metered
<1>5. stack[t] = <<>>
  BY <1>1, <1>2, <1>4, NoMemoryBelow
<1>6. MALLOC_PTRS'[t] = 1 /\ \A u \in Threads \ {t} : MALLOC_PTRS'[u] = MALLOC_PTRS[u]
  <2>1. MALLOC_PTRS \in [Threads -> Nat] /\ Cardinality(Threads) <= MallocPtrsSize
    BY NetFacts DEF TypeOK, TrackingOK, Metered
  <2>2. HasRoom(MALLOC_PTRS, 0, MallocPtrsSize, t)
    BY <2>1, ConstantsAssumption, RoomEnough
  <2>3. Len(stack[t]) + 1 = 1
    BY <1>5
  <2>4. MALLOC_PTRS' = [MALLOC_PTRS EXCEPT ![t] = 1]
    BY <1>4, <2>2, <2>3, PutRoom
  <2> QED BY <2>1, <2>4
<1>7. INFLIGHT'[t] # NoEntry /\ \A u \in Threads \ {t} : INFLIGHT'[u] = INFLIGHT[u]
  BY <1>1, <1>4, <1>5, StoredEntry
<1> QED BY <1>1, <1>2, <1>3, <1>4, <1>6, <1>7, NetEnter

LEMMA NetEnterFree ==
  ASSUME NetInv, MemInv', NEW t \in Threads, NEW cpu \in Cpus, NEW fn \in FreeFns,
         NEW a \in Addrs \cup {0}, EnterFree(t, cpu, fn, a)
  PROVE  Net'
<1>0. 0 \notin Addrs /\ a \in Nat
  BY ConstantsAssumption
<1>1. fn \in AllFns /\ fn \in MemoryFns /\ fn \notin MallocFns
  BY MemoryEvents DEF AllFns, MemoryFns
<1>2. PICK f \in Frame : f = NewFrame(fn, a) /\ f.fn = fn /\ f.arg = a
  <2>1. NewFrame(fn, a) \in Frame /\ NewFrame(fn, a).fn = fn /\ NewFrame(fn, a).arg = a
    BY <1>0, <1>1 DEF Frame, NewFrame
  <2> QED BY <2>1
<1>3. ~f.done
  BY <1>2 DEF NewFrame
<1>4. PICK n : n = IF a = 0 THEN 0 ELSE MALLOC_SIZES[<<PidOf[t], a>>]
  OBVIOUS
<1>5. /\ Call(t, f) /\ save_entry(t, cpu, EventOf(f.fn), n) /\ UNCHANGED MALLOC_PTRS
      /\ MALLOC_SIZES' = IF a = 0 THEN MALLOC_SIZES ELSE [MALLOC_SIZES EXCEPT ![<<PidOf[t], a>>] = 0]
      /\ MayFree(PidOf[t], a)
  BY <1>2, <1>4 DEF EnterFree
<1>6. MALLOC_SIZES \in [Pids \X Addrs -> Nat] /\ PidOf[t] \in Pids
  BY NetFacts DEF TypeOK, TrackingOK
<1>7. n = IF a = 0 THEN 0 ELSE heap[<<PidOf[t], a>>]
  <2> SUFFICES ASSUME a # 0 PROVE n = heap[<<PidOf[t], a>>]
    BY <1>4
  <2>1. a \in Addrs
    OBVIOUS
  <2>2. /\ heap[<<PidOf[t], a>>] # 0
        /\ \A u \in Threads : \A i \in 1 .. Len(stack[u]) :
             PidOf[u] = PidOf[t] => ~Freeing(u, i, a) /\ ~Given(u, i, a)
    BY <1>5, FreeAlone, NetFacts
  <2>3. \A u \in Threads : ~TrackedBy(u, PidOf[t], a)
    <3>1. \A u \in Threads : stack[u] # <<>> => 1 \in 1 .. Len(stack[u])
      BY NetFacts, FirstFrame
    <3> QED BY <2>2, <3>1 DEF TrackedBy
  <2>4. MALLOC_SIZES[<<PidOf[t], a>>] # 0
    BY <1>6, <2>1, <2>2, <2>3, NetFacts DEF Tracked
  <2>5. MALLOC_SIZES[<<PidOf[t], a>>] = heap[<<PidOf[t], a>>]
    BY <1>6, <2>1, <2>4, NetFacts, MemFacts DEF MallocSizesSound
  <2> QED BY <1>4, <2>5
<1>8. n \in Nat
  BY <1>4, <1>6
<1>9. stack[t] = <<>>
  BY <1>1, <1>2, <1>5, NoMemoryBelow
<1>10. /\ INFLIGHT'[t] # NoEntry /\ INFLIGHT'[t].arg0 = n
       /\ \A u \in Threads \ {t} : INFLIGHT'[u] = INFLIGHT[u]
  BY <1>5, <1>8, <1>9, StoredEntry
<1>11. \A p \in Pids, b \in Addrs : \/ MALLOC_SIZES'[<<p, b>>] = MALLOC_SIZES[<<p, b>>]
                                    \/ p = PidOf[t] /\ b = a
  BY <1>5, <1>6
<1> QED BY <1>1, <1>2, <1>3, <1>5, <1>7, <1>10, <1>11, NetEnter

(* Any other call begins. *)
LEMMA NetEnterOther ==
  ASSUME NetInv, MemInv', NEW t \in Threads, NEW f \in Frame, Call(t, f), f.fn \notin MemoryFns,
         \A u \in Threads \ {t} : INFLIGHT'[u] = INFLIGHT[u], UNCHANGED <<MALLOC_PTRS, MALLOC_SIZES>>
  PROVE  Net'
<1>1. NoMemory(stack[t])
  BY NoMemoryBelow
<1>2. /\ Len(stack[t]) \in Nat /\ Len(stack'[t]) = Len(stack[t]) + 1
      /\ stack'[t][Len(stack[t]) + 1] = f
      /\ \A i \in 1 .. Len(stack[t]) : stack'[t][i] = stack[t][i]
      /\ \A u \in Threads \ {t} : stack'[u] = stack[u]
      /\ UNCHANGED <<dead, heap, AGGREGATED>>
  BY CallEffect, NetFacts DEF Call, sinks
<1>3. \A i \in 1 .. Len(stack[t]) : stack[t][i].fn \notin MemoryFns
  <2>1. stack[t] = <<>> => 1 .. Len(stack[t]) = {}
    OBVIOUS
  <2> QED BY <1>1, <2>1 DEF NoMemory
<1>4. NoMemory(stack'[t])
  <2>1. \A i \in 1 .. Len(stack'[t]) : i \in 1 .. Len(stack[t]) \/ i = Len(stack[t]) + 1
    BY <1>2
  <2>2. \A i \in 1 .. Len(stack'[t]) : stack'[t][i].fn \notin MemoryFns
    BY <1>2, <1>3, <2>1
  <2>3. 1 \in 1 .. Len(stack'[t])
    BY <1>2
  <2> QED BY <2>2, <2>3 DEF NoMemory
<1>5. Others(t) /\ SizesSame
  BY <1>2 DEF Others, SizesSame
<1> QED BY <1>1, <1>2, <1>4, <1>5, NetQuiet

LEMMA MeteredAlone == Metered => Alone
BY DEF Metered, Alone, MemoryFns

LEMMA NextNet == NetInv /\ [Next]_vars => NetInv'
<1> SUFFICES ASSUME NetInv, [Next]_vars PROVE Net'
  BY NextMem DEF NetInv, Metered
<1>0. MemInv' /\ TypeOK /\ Metered
  BY NextMem, NetFacts
<1>1. ASSUME NEW t \in Threads, NEW cpu \in Cpus, NEW fn \in Fns, EnterOther(t, cpu, fn) PROVE Net'
  <2>1. fn \in AllFns /\ fn \notin MemoryFns
    BY <1>1 DEF EnterOther, AllFns, FreeFns, MallocFns, MemoryFns, MemcpyFns, PlainFns, LaunchFns,
                DriverLaunchFns, NcclFns
  <2>2. PICK f \in Frame : f = NewFrame(fn, 1) /\ f.fn = fn
    <3>1. NewFrame(fn, 1) \in Frame /\ NewFrame(fn, 1).fn = fn
      BY <2>1 DEF Frame, NewFrame
    <3> QED BY <3>1
  <2>3. PICK n \in Nat : n = 1
    OBVIOUS
  <2>4. Call(t, f) /\ save_entry(t, cpu, EventOf(f.fn), n) /\ UNCHANGED <<MALLOC_PTRS, MALLOC_SIZES>>
    BY <1>1, <2>2, <2>3 DEF EnterOther
  <2>5. \A u \in Threads \ {t} : INFLIGHT'[u] = INFLIGHT[u]
    BY <2>4, StoredEntry
  <2> QED BY <1>0, <2>1, <2>2, <2>4, <2>5, NetEnterOther
<1>2. ASSUME NEW t \in Threads, EnterGetFunction(t) PROVE Net'
  <2>1. PICK f \in Frame : f = NewFrame(GetFunction, 1) /\ f.fn = GetFunction
    <3>1. NewFrame(GetFunction, 1) \in Frame /\ NewFrame(GetFunction, 1).fn = GetFunction
      BY DEF Frame, NewFrame, AllFns
    <3> QED BY <3>1
  <2>2. Call(t, f) /\ UNCHANGED <<MALLOC_PTRS, MALLOC_SIZES>>
    BY <1>2, <2>1 DEF EnterGetFunction
  <2>3. \A u \in Threads \ {t} : INFLIGHT'[u] = INFLIGHT[u]
    <3>1. PICK e : UNCHANGED INFLIGHT \/ INFLIGHT' \in LruPut(INFLIGHT, NoEntry, InflightSize, t, e)
      BY <1>2 DEF EnterGetFunction, StoreEntry
    <3>2. INFLIGHT \in [Threads -> EntryData \cup {NoEntry}] /\ Cardinality(Threads) <= InflightSize
      BY <1>0 DEF TypeOK, TrackingOK, Metered
    <3>3. HasRoom(INFLIGHT, NoEntry, InflightSize, t)
      BY <3>2, ConstantsAssumption, RoomEnough
    <3>4. UNCHANGED INFLIGHT \/ INFLIGHT' = [INFLIGHT EXCEPT ![t] = e]
      BY <3>1, <3>3, PutRoom
    <3> QED BY <3>2, <3>4
  <2> QED BY <1>0, <2>1, <2>2, <2>3, MemoryEvents, NetEnterOther
<1>3. ASSUME NEW t \in Threads, Kill(t) PROVE Net'
  BY <1>0, <1>3 DEF Kill, Metered
<1>4. ASSUME NEW t \in Threads, cuda_register_function(t) PROVE Net'
  BY <1>4, NetStill DEF cuda_register_function, tracking, sinks
<1>5. ASSUME NEW p \in Pids, WriteUpgraded(p) PROVE Net'
  BY <1>5, NetStill DEF WriteUpgraded, app, tracking, sinks
<1>6. CASE UNCHANGED vars
  BY <1>6, NetStill DEF vars, app, tracking, sinks
<1> QED
  BY <1>0, <1>1, <1>2, <1>3, <1>4, <1>5, <1>6, NetEnterMalloc, NetEnterFree, NetMallocBody,
     NetFreeBody, NetLeaveMalloc, NetLeaveOther DEF Next, ThreadStep

(* When nothing fails, nothing is sampled and the maps have room, the      *)
(* bytes allocated less the bytes freed, as emit_exit has added them up in *)
(* AGGREGATED, are the device memory a process holds whenever no call is   *)
(* open: profi_cuda_active_memory_bytes neither drifts nor goes negative,  *)
(* whatever threads allocate and free at once and wherever an address is   *)
(* handed out again.                                                       *)
THEOREM NetMemoryExact == Spec /\ Metered => []NetMemory
<1>1. Init /\ Metered => NetInv
  <2> SUFFICES ASSUME Init, Metered PROVE NetInv
    OBVIOUS
  <2>1. MemInv /\ TypeOK
    BY MeteredAlone, InitMem DEF MemInv, Inv
  <2>2. \A u \in Threads : stack[u] = <<>> /\ Len(stack[u]) = 0 /\ 1 .. 0 = {}
    BY DEF Init
  <2>3. dead = {} /\ OpenMemory
    BY <2>2 DEF Init, OpenMemory, OpenAt
  <2>4. Tracked
    BY DEF Init, Tracked
  <2>5. ASSUME NEW p \in Pids, NEW fns, Family(fns) PROVE Booked(p, fns) = 0
    <3>1. \A t \in Threads : NotCounted(p, fns)[t] = 0
      BY <2>2 DEF NotCounted, Waiting
    <3>2. \A k \in KeysOf(p, fns) : SizesOf(p, fns)[k] = 0
      BY DEF SizesOf, KeysOf, Init, EmptyAgg
    <3>3. DOMAIN NotCounted(p, fns) = Threads /\ DOMAIN SizesOf(p, fns) = KeysOf(p, fns)
      BY DEF NotCounted, SizesOf
    <3>4. Sum(NotCounted(p, fns)) = 0
      BY <3>1, <3>3, SumZero
    <3>5. Sum(SizesOf(p, fns)) = 0
      BY <3>2, <3>3, SumZero
    <3> QED BY <3>4, <3>5 DEF Booked
  <2>6. ASSUME NEW p \in Pids PROVE Sum(HeapOf(p)) = 0
    <3>1. DOMAIN HeapOf(p) = Addrs /\ \A a \in Addrs : HeapOf(p)[a] = 0
      BY DEF HeapOf, Init
    <3> QED BY <3>1, SumZero
  <2>7. Balance
    BY <2>5, <2>6 DEF Balance, Family
  <2> QED BY <2>1, <2>3, <2>4, <2>7 DEF NetInv, Net
<1> QED BY NextNet, NetQuiescent, <1>1, PTL DEF Spec
=============================================================================
