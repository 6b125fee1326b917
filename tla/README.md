# TLA+ verification of profi

profi traces CUDA and NCCL calls with eBPF uprobes, aggregates them in kernel
maps, and exports them as Prometheus and OTLP metrics labelled with Kubernetes
pods. This directory models the parts of it in which several actors share
state, checks them with TLC on small instances, and proves their safety
properties with TLAPS for every instance.

## 1. Inventory

| Part | Source | State | What makes it hard |
|---|---|---|---|
| eBPF programs | `bpf/profi.bpf.c`, `bpf/profi_events.h` | `INFLIGHT`, `MALLOC_PTRS`, `MALLOC_SIZES`, `SAMPLE_COUNTER`, the aggregation maps, the rings | nested probed calls share one slot per thread; threads are killed inside calls; every map has a limit; addresses are reused |
| Drain | `drain_percpu_hash` in `main.rs` | one per-CPU map | lookup, export and delete are separate from the programs that count |
| Handle cache | `cache.rs` | handles, per-process caps, `last_seen`, registered series | caps, fallbacks, relabelled processes, series shared within a pod |
| Enrichment | `enrichment.rs`, sync in `main.rs` | `container_map`, `container_to_pids`, `k8s_pid_cache`, `upgraded_pids`, `changed_pids`, two flags | the event loop and the watcher task interleave at every lock |
| Discovery and attach | `discovery.rs`, `main.rs` | the attached sets, the request channel, the links, `known_pids` | processes come and go between a scan and its attach; attaches fail half-way |
| Event loop | `main.rs` | counters and timers of the `select!` arms | its arms use all of the above; two paths of a launch, three kernel modes, a budget on the ring |
| Symbol resolution | `symbols.rs`, `main.rs` | kernel names, pending requests, two channels, three caches | answers arrive after their process is gone; process numbers are reused |
| Histograms and statistics | `bpf/profi_events.h`, `main.rs`, `otlp.rs`, `report.rs` | none | four representations of the same buckets must agree at every bound |
| HTTP, TLS, authentication | `server.rs`, `http_security.rs`, `pem.rs` | token cache | time to live |
| OTLP export | `otlp.rs` | none | I/O beside the conversion of histograms |
| Registry, NVML, kernel checks, event tables | `metrics.rs`, `nvml.rs`, `kernel.rs`, `events.rs`, `bpf/vmlinux.h` | gauges | I/O, tables and a generated header |

How the parts interact: discovery sends attach requests to the event loop,
which installs the programs. The programs count into maps and rings. The event
loop drains them and looks up a metric handle for every event, which asks the
enricher for the pod of the process. The watcher invalidates pods, and the
event loop drops the handles concerned. The enricher promotes the processes of
annotated pods, and the event loop copies that set into `UPGRADED_PIDS`, which
the programs read. Every arm of the loop is modelled in the module of the state
it changes.

## 2. Modules

| Module | Models | Proofs | Instances |
|---|---|---|---|
| `BpfMaps` | what the kernel's map operations do (external) | | |
| `Probes` | the entry and return programs, driven by application threads | `ProbesProofs` | `MCProbes` |
| `Drain` | a per-CPU map between the programs and the drain | `DrainProofs` | `MCDrain` |
| `HandleCache` | `MetricHandleCache` and the series it owns | `HandleCacheProofs` | `MCHandleCache` |
| `Enricher` | `resolve_k8s`, the watcher, the `UPGRADED_PIDS` sync | `EnricherProofs` | `MCEnricher` |
| `Discovery` | the `/proc` scan, the attach arm, `known_pids` | `DiscoveryProofs` | `MCDiscovery` |
| `Histograms` | bucket functions, cumulative counters, OTLP buckets, `TermStats` | in `DeliveryProofs` | |
| `Delivery` | from the end of a call to the metrics: programs, maps, ring, event loop, report | `DeliveryProofs` | `MCDelivery` |
| `KernelNames` | registrations, the resolver thread, late answers, eviction | `KernelNamesProofs` | |
| `Ledger` | abstract: what `Drain` and `Delivery` promise | | |
| `Sums` | the sum of a table of counters | `SumsProofs` | |

Definitions keep the names of the functions, maps and fields they model;
`PROJECT.json` gives the source lines of each. A definition with a suffix after
an underscore (`gc_KeepHandles`) is a deliberately wrong variant of the
definition that follows it; it shows that the properties notice such a bug and
is not part of any specification.

### Probes

An application thread is a stack of open calls; entering and leaving a call
runs its program in one step, since a program runs to its end on its CPU and
touches only the slot of its own thread or CPU. (The one exception, a count
lost to the drain, is what `Drain` is about.) Between the two, inner calls and
other threads run. `InnerCalls` says which probed function may call which: the
runtime calls the driver, NCCL launches kernels, a first call loads modules.
The application is assumed correct with its memory (`MayFree`): it frees an
allocation once, after the call that returned it, or the null pointer. `Faults` adds calls that fail, reads of
user memory that fault, and threads that are killed. A per-CPU hash map is
represented by the sum over its CPUs. An LRU map at its limit evicts any other
entry, because the kernel's LRU is approximate. `descents`, `descending`,
`recorded` and the field `owner` of an entry are history. A descent is a call
the application makes, or one made after another returned, with the calls inside
it until something returns; `descents` lists the events of the calls that begin
them and `recorded` what the return programs recorded.

### Drain

Elements are preallocated, so a deleted one can be handed to another key while a
program still holds a pointer to it. A program is a lookup and then a bump or
an insert; the drain of a key is a read (with the export) and then a delete. The
slots of an element are read in one step. A batch is the set of the first
`Budget` keys in table order, and its keys are visited in that order.

### HandleCache

A key keeps its operation (one of each family), process, stream and kernel; a
label keeps the pod. The kinds of series that matter are those with a pid label,
the histogram a handle holds, and the counters a drain looks up by label. The
choice of a fallback handle is left open, as the order of a hash map is.
`ring_arm` marks the ring arm, at whose head relabelled processes are dropped.
The pod `none` is the empty label that all processes outside Kubernetes share.
Labels are those of the full kernel mode, where a launch keeps its kernel.

### Enricher

A step is what happens under one lock or at one atomic, with two exceptions.
`evict_pid` takes three locks and sets the dirty flag in one step: only the event
loop reads the caches and consumes the flag, it does neither inside `evict_pid`,
and the watcher's steps under the same locks remove too and commute. The dirty flag of
`ResolvePromote` is set after the lock is released in the code and in the same
step here: only the thread that sets it reads it. `UpgradeLocked` is the
interval in which the watcher holds the lock around its own store. A relist is
one step, because the loop sees only the swap at its end. Every process is in
some container; one outside any container is never linked and never cached with
a pod, which the value `"none"` covers. `RingEvents = FALSE` is the default
anonymous mode, in which no program writes to the ring.

### Discovery

A file is a device and inode. An attach installs programs one after the other,
so what it leaves is a prefix of them. `/proc` is visited in any order and the
channel is a set: the code relies on neither order. An attempt is one step, so a
process does not exit in the middle of one. A failed NCCL attach leaves the
event loop, which ends the profiler.

### Ledger, Drain and Delivery

`Ledger` says what any path from the programs to the metrics promises: an event
is counted at most once and not before it happened, counters do not go back, and
what is not counted is held until it is counted or lost. Both `Drain` and
`Delivery` implement it (`CountedAtMostOnce`), with a mapping that sums what
their maps and the ring hold. `Ledger!Steps` is its safety part;
`EventuallySettled` adds that nothing stays held once calls stop.

`Sums` defines a sum as a number of units: a counter of value n stands for n
units, and the sum of a table is the cardinality of the set of its units. TLC
evaluates it, and its laws follow from those of finite sets.

`Delivery` composes what `Probes` and `Drain` look at one by one. A behaviour
follows one family of calls (other CUDA calls, NCCL, launches) under one command
line, both chosen by `Init`, so one run covers them all. A value of a map is the
bag of the durations counted into it, from which `count` and `bucket_counts`
follow; a program updates it in one step. The event loop reports drops, adapts
its period, drains key by key, and takes the ring up to its budget;
`UPGRADED_PIDS` changes on any tick, as `Enricher` allows. Readiness of the ring
follows the kernel and tokio, which are external: a submit wakes a consumer that
has caught up, and `clear_ready` takes the readiness back. `KERNEL_REGS` shares
the descriptor and wakes it too. Each process has one thread; `ranges` is the
stack of its NVTX ranges and `open`, `lost`, `made` and `exported` are history.

`Histograms` has no state; a collection of durations is a function from durations
to counts. Its operators are checked in `Delivery` against a
Prometheus histogram that observed the same durations, taken in pairs on the two
sides of every bound and of zero, so each family is checked at every bound.

### KernelNames

The name of a kernel is the incarnation of its process, so a name that belongs
to an earlier process of the same number can be told apart. The kernels are in
one library: without it in `/proc/<pid>/maps` the resolver answers "unknown_",
and a library may have no symbols. `lib_cache` is keyed by a path with the
process number in it and survives `evict_pids`. The caches are assumed to have
room (10000 names, 256 maps, 64 libraries). A process number is reused only
after gc forgot the earlier process. `outdated` is history: it records that one
of the windows named at `NamesCurrent` was used. The handles dropped by
`invalidate_pids` are left to `HandleCache`.

## 3. Runs

| Run | Instance | Shows |
|---|---|---|
| `probes_calls` | 2 threads, 5 calls, depth 3, 2 addresses, 2 sizes, `LAUNCH_AGG` of 1 | sizes of freed memory, net memory, one event for each descent of nested calls, launch accounting under promotion and demotion |
| `probes_entries` | 2 threads, 2 CPUs, 4 calls, all faults, every map of size 1, sampling 1 in 2 | no entry outlives its call; sampled counts are bounded |
| `drain` | 3 keys, 2 elements, 2 CPUs, 4 events | implements `Ledger`, exact unless raced, every key leaves the map |
| `cache` | 2 processes with the same pod or none, 2 kernels, caps of 1 kernel and 2 handles | caps, ownership of series, the calls of a cached handle stay exported |
| `enricher` | 1 process, 1 pod, relists | flag soundness, nothing escapes invalidation, no invalidation lost, the BPF map follows `upgraded_pids` |
| `discovery` | 2 processes, 3 libraries, 1 exit, failures, full scan every 2nd | one attempt per file, every library tried, every traced pid known |
| `delivery` | 50 workloads: each family at each bound (2 calls), the kernel modes with 1 and 2 processes (3 or 4 calls), a ring that overflows on three ticks (5 calls), NVTX ranges of depth 2 | implements `Ledger`; accounting of every call, exact buckets, OTLP buckets and report, markers of open ranges only, every drop reported, and once, the period is restored |
| `names` | 1 process number used twice, 2 kernels, 2 requests in the channel | the resolver forgets what the loop forgets, labels are of the current process outside the windows named, every request is settled |

The bounds are the smallest in which the hazard happens: an element reused
while a pointer to it is held needs two keys and two CPUs; a fallback and a
handle beyond the cap need two processes and one more kernel than the cap; a
shared library and an exit between scan and attach need two processes.
In `delivery` the map has one entry and the ring two events, so both overflow;
five launches are enough to drop one on each of three ticks in a row. The
thresholds of the adaptive period are 3 and 3 (3 and 30 in the code), and the
counters of ticks stop at them, since the code only compares. There
`RingSize = ConsumeBudget`: a backlog never exceeds the budget. In the code the
ring has room for about 20000 events and the budget is 4096, and
`delivery_stall` shows what happens beyond it. In `drain` the budget
covers the map, as the defaults of the code do (8192 keys; 2048, 8192 and 1024
entries): a larger `--launch-agg-size` under calls that never stop is not
covered. `probes_*` stop after `MaxCalls`
calls, `discovery` when an NCCL attach fails and `names` when all processes have
ended, so there deadlock is not checked; the other runs check it. `cache` uses the symmetry of its
two processes, which are alike in every constant; it checks only invariants.
`enricher` has one process: what the two actors do to different processes
interacts only through the two flags, its invariants are proved for any number of
processes and containers (section 4), and only `EventuallySynced` rests on the
instance.

Four runs end in a violation. Each checks what a comment or a document of the
repository says:

| Run | Claim | What happens |
|---|---|---|
| `delivery_stall` | `docs/METRICS_REFERENCE.md:675`, `--detailed-launches` gives "exact launch histograms" | a backlog above the consume budget stays in the ring with the readiness cleared, and nothing announces it again |
| `enricher_race` | `src/enrichment.rs:190`, re-annotated pods leave no "stale entries" | the pod changes between the load of `container_map` and the link, and the process stays promoted |
| `enricher_default_mode` | `src/enrichment.rs:38`, all processes of an annotated pod "should be promoted" | without ring events the invalidation is never consumed |
| `cache_shared_pod` | `src/otlp.rs:317`, a counter is "process-cumulative monotonic" from a fixed start time | two processes of a pod count into one counter without a pid label; the handles of one are dropped, the counter goes with them, and the other starts it again from zero |

Fairness: `Drain` assumes that programs end and that ticks come. `Enricher`
assumes that the aggregation timer is served again and again (`select!` polls
its branches in random order, so no branch starves), that a handler, which works
on a bounded batch, ends, that a lock which is released repeatedly is obtained,
and that the watcher finishes an event. Nothing is assumed of ring events, gc,
or the cluster. `Discovery` assumes that the thread goes on scanning, that
every request is served, and that the gc arm runs again and again, hence also
while the lock of `known_pids` is free. `Delivery` assumes that the tick comes,
that a drain that started ends and that a readable ring is served; `KernelNames`
that the resolver thread runs and that every arm of the loop is served. Neither
assumes anything of the programs or of the traced processes.

## 4. Proofs

Every invariant of the passing runs is also a theorem, for every value of
the constants. All theorems rest only on the `ConstantsAssumption` of their
module; where a property holds under a condition, the condition is a hypothesis
of the theorem, and the instance of the run meets it. Each proof follows the
same plan: an inductive invariant, one step per action (or group of actions
that leave the same state alone), and a last step in temporal logic. Below,
per module, what is proved and what had to be added to make it inductive.

### ProbesProofs

| Theorem | Property | Condition |
|---|---|---|
| `TypeCorrect` | `TypeOK` | |
| `EntriesOwned` | `EntryOwned` | |
| `RecordedPerDescent` | `OneEventPerDescent` | `Guarded`: room in `INFLIGHT` for every thread, no sampling, no `cuModuleGetFunction` |
| `LaunchesTraced` | `LaunchesAccounted` | `Traced`: detailed launches, no `cuModuleGetFunction` |
| `SampledCounts` | `SampleBound` | sampling is on |
| `SizesSound` | `MallocSizesSound` | `Alone`: calls succeed, allocations neither nest nor are nested |
| `NetMemoryExact` | `NetMemory` | `Metered`: no faults, no sampling, memory functions do not nest, every map has room |

- The first two are inductive together: a return program pops only the innermost
  call, so an entry owned by it must be gone afterwards, which each return
  program ensures in its own way.
- `DescentInv`: while a thread descends, the entry in flight is that of the call
  that began the descent and is all that is not yet recorded; otherwise nothing
  is in flight and everything is recorded. The recursion guard of `save_entry`
  keeps the entry there when a nested call enters.
- `LaunchInv` adds what may be in flight (`EntryKinds`): nothing but a launch goes
  to the ring, and a launch carries the handle of its kernel.
- `SampleInv` has no strengthening; the work is in the arithmetic of the sampling
  counter (`DivUnique` and the lemmas that follow it).
- `MemInv` says what an open free and an open allocation have already done to the
  maps and to the heap (`FreeOpen`, `MallocOpen`).
- `NetInv` makes the balance hold inside calls too: bytes allocated are bytes
  freed and bytes held, if one also counts the calls whose body ran and whose
  return program has not (`Balance`). It needs that an open call of memory still
  has its entry (`OpenMemory`) and that the size of every allocation is in
  `MALLOC_SIZES` or with such a call (`Tracked`).

### HandleCacheProofs

`TypeCorrect`, `CapsHold` (`WithinCaps`), `GlobalCap` (`HandlesBounded`) and
`NoOrphans` (`NoOrphanSeries`) are inductive together with the finiteness of the
cache. The bound on the handles counts processes as well: a new handle at the cap
belongs to a process that had none, and an eviction takes all handles of a
process. `Exported` (`CallsExported`) holds whether or not processes share pods:
a calls series names its process, so the handles of another process cannot take
it (`CallsOwn`), and `gc` and `invalidate_pids` remove all handles of a process
or none. `CountersCumulative` is not a theorem: `cache_shared_pod` refutes it.

### EnricherProofs

`TypeCorrect`, `Invalidatable` (`CanBeInvalidated`), `NoLostInvalidation`
(`InvalidationReported`) and `DirtyFlagSound` (`SyncedUnlessDirty`). The
strengthening says what a lookup in progress has published at each of its steps,
and what the watcher has still to do at each of its own. `DirtyFlagSound`
supposes that `UPGRADED_PIDS` has room for all processes; with fewer entries a
failed update is never retried.

### DiscoveryProofs

`TypeCorrect` and `NoDoubleAttach` (`OneAttempt`). The strengthening follows a
file from unattached to requested and tried: it is requested at most once,
through one process, and untried until the request is served. `SendRequests`
looks again whether a file is attached, so nothing is needed of a scan.

### KernelNamesProofs

`TypeCorrect`, `NothingKept` (`ResolverForgets`) and `LabelsCurrent`
(`NamesCurrent`). The second is inductive with the types. For the third, as long
as none of the windows was used: what the loop forgot left nothing in its tables
(`DeadForgotten`), its tables and the answers on their way name the current
process (`TableCurrent`, `AnswersCurrent`), and the resolver's cache does too, or
an eviction is in the request channel before any request that could read it
(`CacheCurrent`). `HandlesTracked` holds in any case.

### SumsProofs and DrainProofs

`SumsProofs` holds the laws of sums: what one changed counter does to a sum, how
a sum splits, when it is zero, that it adds.

`DrainProofs`: `TypeCorrect`, `Exact` (`ExactUnlessRaced`) and
`ImplementsLedger`, which is `Spec => L!Steps`. The invariant says that a key is
in at most one element, that a program about to insert has a zero slot in an
element another CPU made for its key, so that the insert overwrites nothing
(`SlotClear`), and that what was read from an element is still in it
(`ReadBelow`). `Exact` adds that, without a race, the element a program points
into still holds its key.

### DeliveryProofs

| Theorem | Property | The invariant adds |
|---|---|---|
| `TypeCorrect` | `TypeOK` | finiteness and types of the counts |
| `CallsAccounted` | `Accounted` | calls of a family take one path, map or ring (`OnePath`); each step adds calls or moves them (`Grows`, `Moves`) |
| `ImplementsLedger` | `L!Steps` | the same |
| `RangesOpen` | `PhaseOpen` | an entry of `NVTX_STACK` is the innermost named range (`Marked`) |
| `DropsReportedOnce` | `DropsOnce` | the metrics equal the totals seen last |
| `ReportComplete` | `ReportExact` | the two statistics summarise two sets of durations whose union is what the ring arm saw; aggregated rows have no extremes (`NoExtremes`) |
| `LeCounters` | `LeExact` | the counters are the running totals of the buckets of all exported durations |
| `OtlpBuckets` | `OtlpExact` | nothing: it follows from the types |

The last three rest on lemmas about the operators of `Histograms`: the three
tables of bounds increase, the bucket of a duration is the first whose bound it
does not exceed (`BucketOf`), cumulative counts of buckets count the durations up
to a bound (`CumulativeCounts`), and recording a batch or merging two statistics
keeps counts and extremes (`RecordBatch` and the lemmas around it). Where an
argument goes by induction over a batch, it is made with a least counterexample,
from the well-foundedness of the natural numbers.

### Only model-checked

Liveness, since fairness and `ENABLED` are beyond the prover: `EveryKeyDrained`,
`EventuallySynced`, `EveryLibraryTried`, `EveryPidKnown`, `PendingAnswered`,
`IntervalRestored`, `DropsReported`, and `Ledger!EventuallySettled` in
`CountedAtMostOnce`.

## 5. Not modelled, and known deviations

Not modelled, and why: the sums of durations and bytes, which follow the counts
(only the sizes of allocations are in `Probes`); the weight of sampled calls in
`Delivery` (it is in `Probes`); reuse of a thread id in `NVTX_STACK`; the NCCL
hang scan and the straggler ratio, which read other state and set gauges; GPU
resolution and cgroup and ELF parsing, which are I/O; the HTTP endpoints with
their token cache, TLS, NVML and the OTLP export loop, on which no other state
depends; start-up checks; `bpf/vmlinux.h`, a generated header.

Known deviations, which the instances stay clear of or the properties leave out:

- A failed `cudaMalloc` counts as allocated (`src/main.rs:1404`), although
  `docs/METRICS_REFERENCE.md:176` says "cudaMalloc minus cudaFree". `NetMemory`
  fails in `probes_calls` with `Faults = {"call_fails"}`. It fails too when an
  allocation nests a probed call, as a first `cudaMalloc` nests
  `cuModuleLoadData`: the inner return takes the entry, so the allocation is not
  counted and its size not stored (`src/bpf/profi.bpf.c:379`). And `NetMemory`
  is about the maps: the gc arm drops the balance of a process that was idle
  (`src/main.rs:1648`), and the gauge starts again from zero.
- The recursion guard "Skip inner" (`src/bpf/profi.bpf.c:169`) skips less than it
  says. The return of an inner call takes the entry of the wrapper: the wrapper
  is recorded there, with its duration cut short, and a second call inside the
  same wrapper is recorded as a call of its own. `OneEventPerDescent` says
  exactly that; one event per call of the application is false.
- An NCCL drain at the cap may get a CUDA handle as its fallback
  (`src/cache.rs:138`), and counts into `nccl_*` series under that handle's labels, which
  `remove_handle_metrics` never removes. `Fits` keeps such series out of
  `NoOrphanSeries`.
- `--max-time-series` is documented as a limit: "max cached metric handles"
  (`docs/METRICS_REFERENCE.md:667`), "Cardinality is bounded by" (line 689) and
  "Global cap on distinct Prometheus label tuples" (`README.md:147`). It can be
  exceeded by a handle for each process but one, which a test of the repository
  expects (`tests/integration.rs:325`); `HandlesBounded` is the bound that holds.
- The report (`--report-interval`) has no aggregated launches and no NCCL calls: the
  drains of `LAUNCH_AGG` and `NCCL_AGG` leave its statistics alone
  (`src/main.rs:1431`). A row of aggregated calls shows 0 as its minimum and its
  maximum, since its drain adds to the count and the sums only
  (`src/main.rs:1421`). `ReportExact` says both.
- A library found through a process that exits before the attach is never tried
  again through another process (`src/main.rs:884`): `EveryLibraryTried` counts
  the failed attempt as a try.
- A launch of an anonymous process under `--detailed-launches` is delivered by
  no path (`src/main.rs:1431`); `Accounted` leaves it out. In that
  configuration `LAUNCH_AGG` is never drained, so it fills up and
  `launch_agg_drops` grows.
- The label of a handle is chosen before the name of its kernel is asked for
  (`src/cache.rs:366`), so "unknown_0x.." stays until the process is evicted. In
  the ring arm, events come before the registrations of the same batch.
- The windows of `NamesCurrent`: an answer that comes after the process was
  forgotten (`src/main.rs:1626`), `lib_cache` (`src/symbols.rs:208`), and names
  registered by a process none of whose launches was seen (`src/main.rs:1196`).

Disagreements noticed while reading that no run shows: `libs_attached` starts at
1 when `--cudart` exists even if the attach failed, so the readiness endpoint
reports a library (`src/main.rs:817`); the gauge of attached libraries counts
requested ones (`src/main.rs:898`); a scan stops reading the maps of a process
once it has met every library, so a second copy is missed
(`src/discovery.rs:117`); a relist does not invalidate containers whose
annotation changed (`src/enrichment.rs:241`); the runbook on event loss asks to
multiply sampled rates, which the programs already do
(`src/bpf/profi.bpf.c:219`); the window of NCCL durations takes one sample per
bucket that is not empty, whatever its count, and is never purged of processes
that ended (`src/main.rs:1584`).

What could be added: the hang and straggler checks over `INFLIGHT`, with killed
threads, and a composition of `Discovery` with half-installed programs.
