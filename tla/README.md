# TLA+ specifications of the IT run-time system

highp5 holds the compilers of the IT programming language (whose programs are
mapped to PCubeS descriptions of hierarchical machines) and the run-time libraries that compiled
programs link with. This directory specifies the newest of them, the *new segmented
back end*: `src/compilers/new-segmented-backend/src/runtime/` together with the code
that `.../src/codegen/` generates around calls into it. The paths below are relative
to `src/compilers/new-segmented-backend/src/` (`runtime/...`, `codegen/...`);
`compute-flow/` stands for `codegen/frontend-extension/semantics/compute-flow/`.

Contents: [the system](#the-system) · [the modules](#the-modules) ·
[the runs](#the-runs) · [bounds](#bounds) · [fairness](#fairness) ·
[proofs](#proofs) · [disagreements](#where-the-code-disagrees-with-its-comments) ·
[not modelled](#what-is-not-modelled) · [plan](#plan)

## The system

An IT program is a sequence of *tasks*. A task computes in a tree of *logical spaces*
(LPSes); each LPS partitions the task's arrays into *logical processing units* (LPUs)
and is mapped to a level of the machine, whose *physical processing units* (PPUs) share
the LPUs among them. The compiled program runs as one MPI process per *segment* (the
PPUs that share memory), with a pthread, the *PPU controller*, for each PPU. Within a
segment the controllers share the task globals, the parts of arrays, the semaphore
barriers, the communicators and the reduction primitives; between segments there is
only MPI.

| component | state it keeps | operations | where it is hard |
|---|---|---|---|
| **synchronization primitives** `runtime/common/sync.*` | four semaphores/counters of a barrier | `Barrier::wait`, `RS::signal/wait` | threads come back before the last round has been released |
| **LPU counters** `runtime/common/lpu_management.cc` | range, current id | `setCurrentRange`, `getNextLpuId`, `getCompositeLpuId` | remainders, fewer LPUs than PPUs |
| **thread ids** `codegen/utils/code_generator.cc` | group id, size, PPU count per LPS and thread | `getPPUIdsForThread`, `adjustPpuCountsAndGroupSizes` | machines of which only some segments take part |
| **LPU iteration** `lpu_management.cc`, `compute-flow/lps_tran_block_impl.cc` | counter, bound mark and current LPU of each LPS | `getNextLpu`, `setRootLpu`, iteration bounds | LPSes without a loop of their own, advanced from within the loop of another |
| **parallel communication barrier** `runtime/communication/parallel_comm_barrier.*`, `communicator.*` | signal counts, order of arrival, iteration number | `wait` of `SendBarrier` and `ReceiveBarrier`, buffer processing in parallel | each thread decides for itself whether there is a transfer, while the last one may already be resetting the counts |
| **generated dependency handling** `compute-flow/composite_stage_impl.cc` | a counter per controller | reverse barrier, stage, send, receive | writers and readers of successive iterations; replacement signals |
| **communicators** `array_communicator.*`, `scalar_communicator.*` | receive/send buffers, MPI requests | `sendData`, `receiveData`, `afterSend`, ... | what each kind expects of the other segments |
| **MPI segment groups** `mpi_group.*` | an MPI communicator | `setupCommunicator`, `discoverGroup` | collective calls that only some segments make |
| **communication buffers** `comm_buffer.*`, `data_transfer.*` | contents, tag | `readData`, `writeData`, tags | composed tags, the filter by side, the order in which buffers are processed |
| **part distribution and confinement** `part_distribution.*`, `confinement_mgmt.*`, `part_folding.*` | trees of parts and intervals | who exchanges what with whom | each segment works it out for itself; all must agree |
| **parallel reduction** `runtime/reduction/` | intermediate result, targets, semaphores | `reduce`, `MPI_Allreduce` | fast threads start the next round while the outcome is delivered |
| **program environment** `runtime/environment/` | versions of each object, keys of the fresh ones, references of parts lists | four initialization instructions, change notification, array assignment | which copies are up to date after any sequence of tasks; memory shared between parts lists |
| **memory management** `runtime/memory-management/` | data parts, their identifiers and epoch versions | generation, lookup, allocation, cloning | versions in a circular array |
| **epochs** `compute-flow/epoch_boundary_impl.cc`, `allocation.*` | head of the circular array, copies of scalars | `advanceEpoch`, refresh of the LPU, shifting of scalars | several threads and LPUs share a part |
| **partition library**, **interval algebra** | none | partition functions; intersection and join of strided intervals | arithmetic at the boundaries |
| **file I/O** `runtime/file-io/` | streams | reading and writing parts, one segment after the other | order of the segments |
| **synchronization analysis** `frontend/static-analysis/` | dependency arcs | which dependencies need synchronization, which are redundant | dropping one that is not redundant |
| front end, text emission, older back ends | | | sequential transformations of trees |

How they meet. The generated `main` binds environments and starts tasks; a task start
runs the *initialization instructions* of its environment (program environment), builds
partition configurations and parts (memory management) and starts the controllers
with their *thread ids*. A controller runs the task's code: nested loops over LPUs
(*LPU iteration*, which asks the *LPU counters*), around stages. Where a stage updates
what another one reads, the code calls a barrier (`RS`) if all readers are in the
segment, else a communicator behind a pair of *parallel communication barriers*. A
stage with a reduction hands its partial result to a *reduction barrier*. Entering an
*epoch* block rotates versions. When the task ends, it notifies the program environment
of the arrays it has changed.

What makes each component correct, in a sentence: a barrier separates rounds and lets
everybody through; the LPUs of an LPS are executed exactly once; a dependency is
transferred once per iteration, complete before it is read and not overwritten while
it is read; a reduction gives every PPU the reduction of just the values of its round;
a task finds in its arrays what the last task that changed them has left, in memory
that is still there; a stage that reads `at (current - j)` finds the value of `j`
epochs ago (which holds under conditions only, see below).

## The modules

Dependencies between the modules (E: EXTENDS, R: refines by INSTANCE, I: uses by INSTANCE):

    Rendezvous <-R- Barrier <-E- Barrier_proofs        LpuRanges <-E- LpuCounter <-E- Lpus_proofs
               <-R- Reduction <-E- Reduction_proofs              <-E- PpuIds <-E- LpuIteration <-E- Lpus_proofs
               <-R- ParallelCommBarrier                          <-I- PartTransfer
                      <-E- ParallelCommBarrier_proofs  Epochs <-E- Epochs_proofs
                                                       ProgramEnvironment <-E- ProgramEnvironment_proofs
    Traversal <-R- ExchangeIteration <-E- IndexSpaces_proofs
    Intervals <-E- ExchangeIteration                   DivisionLemmas <-E- Lpus_proofs
              <-E- PartHierarchy <-E- PartTransfer                    <-E- IndexSpaces_proofs
    Partitions <-E- PartHierarchy                                     <-E- ParallelCommBarrier_proofs
               <-E- IndexSpaces_proofs
    DataExchanges <-E- SegmentExchange                                <-E- Epochs_proofs
                  <-E- IndexSpaces_proofs              Mpi <-I- SegmentExchange, PartTransfer

**`Rendezvous`** - the abstract specification three components promise. Threads arrive
and depart; a thread departs only from a round in which everybody has arrived. It says
nothing of how, and three detailed specifications implement it under a refinement
mapping: the semaphore barrier, the receive barrier of a communicator, and the
reduction across segments.

**`Barrier`** - `Barrier::wait` of `sync.cc`, on which `RS` is built. One action for each
stretch of code between two semaphore operations that can block: `Enter` takes the
mutex and counts down, `Unlock`/`WakeUp`/`Answer` are what a thread that is not the last
does, `PostWaitq`/`AwaitAnswer`/`Reset` the loop of the last one, which wakes the others
one by one and waits for each answer on `throttle`. `count`, `mutex`, `throttle`,
`waitq` are the fields, `woken` the loop variable, `pc[t]` the place in the code. A
semaphore is a natural number; which of the sleepers takes a post is any of them.

**`LpuRanges`** - the arithmetic of the LPU counters: `CurrentRange` (a PPU's range with
its share of the remainder), `NextLpuId`, `CompositeLpuId`, `MockNextLpuId` (unpartitioned
LPSes), `IdsOf` (the ids of a range). **`LpuCounter`** - the counters of a group's PPUs at work on the LPUs under one
parent: `Start` sets the range and takes its first id, `Advance` goes on; `visited` is
history.

**`PpuIds`** - the two functions generated for thread ids, as recursive functions over
the LPSes in breadth-first order; `AdjustedIds` carries `groupBegin` and `groupEnd` from one LPS to the
next, as the code does. `WellMapped` is the condition on a mapping under which these functions are right: the
groups divide the threads without a remainder, the LPS visited before is the parent or divides the
threads as the parent does, and only groups of the uppermost level may lack threads. Mappings outside it are
among the disagreements below.

**`LpuIteration`** - `ThreadState::getNextLpu` and the loops generated around it, run by a small program
counter over the generated code. The recursion of `getNextLpu` for the parent LPS is part of the state, in `call`:
the innermost call that is under way, or what it has returned. `LoopHead` calls for the loop's LPS; `FirstCall`
(no current LPU yet: bound the recursion at the container and begin above) and `LaterCall` (the next LPU here, or
ask the parent) are the two halves of the function; `ParentFound` is what comes after the call for the parent has returned an LPU, in
both of its `while` loops; `EnterBody`, `LeaveLoop` and `LoopEnd` are the loop, `ExecuteStage` a stage.
`LpsState` is a record (range, current id, bound mark, current LPU). `IsTask` says what code is generated: loops nest, a loop over an LPS stands
inside that over its container, a stage inside the loop over its LPS. The controllers share nothing here, so they run one after the
other (`NextThread`): every interleaving leads to the same executions.

**`ParallelCommBarrier`** - `ParallelCommBarrier::wait` as specialised by `SendBarrier`
and `ReceiveBarrier`, with the loop generated around one communicated dependency
(`Rearm` is the reverse barrier, `Update` and `Use` the two stages). A thread counts
itself down (`Enter`, `Unlock`), and if it is last tallies the signals (`Tally`); all of
them then pass `pthread_barrier_wait` (`WaitAtGate`) before the decision (`Decide`) and
between the phases `Prepare`, `BeforeTransfer`, `TransferFunction`, `AfterTransfer`; the last thread
resets and releases (`Reset`, `Release`). What the kinds of communicator override is
in three definitions (`AdvancesOnSend`, `FillsOnSend`, `FillsOnReceive`) and in which
buffers a thread processes. The data is reduced to flags: a buffer is prepared, sent,
received, written back. A passive PPU (nothing to send) is a thread whose updating
stage did not run.

**`Reduction`** - `runtime/reduction/` with the generated code around it: `Prepare` (head
of the LPU loop), `Compute` (folds the PPU's values), and `reduce()` step by step:
`Enter` (accumulates, or initializes for the first), `Allreduce`, `Deliver`, and the releasing of threads as in
`Barrier`. `MPI_Allreduce` is external: it combines the segments' values as they call it (`combined`) and
returns to a segment when all have.
The values are constants: numbers, or sets of bits for the bitwise operators. The run has an `int` of two bits, just
enough to tell `INT_MAX` and `INT_MIN` from other values.

**`Epochs`** - an epoch block that several PPU controllers of a segment pass through: `AdvanceEpoch`/`StoreHead` (the
read and the write of the head of a part's circular array, not atomic in the code), `GenerateLpu` (the LPU takes its references to
the versions of its part), `ShiftScalars` (the scalars belong to the whole segment), `Compute`. Any number of threads and
lags; LPUs, also of different threads, may have the same part (`PartOf`); all threads of a group go through the block and
only the PPUs of the LPS (`ValidPpus`) execute the stage. The array is used in the LPS of the block or in one below it
(`nested`), where the order of advance, generation and computation differs. Of the data there is its age: which computation wrote it.

**`ProgramEnvironment`** - the version managers and instructions. Program statements
are actions: `BindInput` (`bind_input`), `Assign` (`envB.b = envA.a`), and the invocation of a task, in
four stages: `StartTask` (preprocessing: the allocations get their partition configurations, the
versions the item is to lose are removed), `SetUpPartsList` (the instruction of one LPS
allocation), `RecordVersions` (postprocessing), `EndTask` (the task has computed; change notification).
The set-up of an allocation is one of `SetUpNew`, `RefreshFromOwn`, `RefreshFromOther` and `TakeOver`, on
one operator per function of the code (`allocatePartsList`, `clone`, `handleTransfer`,
`addNewVersion`, `removeVersions`, ...) from state to state. The code keeps allocations and versions in hash
tables and the fresh keys in a list: the model leaves their order open, so that allocations are set up in any order and
any fresh version may be the first. `heap` separates parts lists from the buffers their parts hold, since
`DataPart::clone` shares buffers and `~DataPart` frees them. A buffer's content is the
invocation that wrote it; `Garbage` is the content of what was freed or only partly
filled. `latest` is history. What a transfer between two parts lists achieves is taken
from `data_transceiver.cc`: it is complete unless it needs data of other segments and
the segment mappings the list has cached make it skip them.

The rest is about the data that segments hold, describe and exchange, from the bottom up.

**`Intervals`** - interval sequences (`common-libs/utils/interval.cc`), the language in which
the segments tell each other which indices they hold: `computeIntersection` with its cases
(periods that divide one another, partial overlaps at either end), membership, counting,
and the iteration over a sequence of one or more dimensions. **`ExchangeIteration`** - one
`DataExchange`: the common region of its two participants and the iterator by which communication buffers walk
through it (`NextInSequence`, `NextSequence`); the two sides walk separately, so the order of the
points is the layout of the message. The list it walks through is what the constructor makes (`exchangeDesc`): the description itself if the two
participants are the same, otherwise their common region, sorted by insertion in the order of `compareTo` (`Inserted`, `orderedSeqList`).
It takes for granted that this list is exact (`DescriptionsAssumption`, which TLC
evaluates for the descriptions of the run): its sequences describe what both have, each index once. **`Traversal`** is what an iterator promises: each point
once, all of them in the end.

**`Partitions`** - the five partition functions for one dimension, each of which the runtime has twice:
as a `DimPartitionConfig` (counts, dimensions, `getOriginalIndex`), by which parts are
allocated, and as a `PartitionInstr` (`transformIndex`), by which elements are found
in parts. **`PartHierarchy`** - hierarchies of them, one for each LPS: the dimension of a part, the places at which an element is kept
(with the copies in paddings), the folding of part ids into strains and
the description of a fold by interval sequences (`IntervalDesc`), and the comparison of two hierarchies
(`isEquivalent`).

**`Mpi`** (external) - MPI as the code uses it. A call is a list of messages to send and one to receive; a
collective operation is the messages its members must have from one another. A call returns
when it has all it receives and, where the library does not buffer, when receives are
posted for what it sent. Messages from one process to another stay in order, those of different
processes do not. Whether the library buffers is chosen at the start.

**`DataExchanges`** - `Confinement::getAllDataExchanges`: participants, candidate exchanges, and
their combination (`Matching`, `SegmentTags`, `Compact`), as each segment works them out. **`SegmentExchange`** - segments that run a task. Every segment has an *agenda*: the
set-up of its communicators (`Split`, `GatherRanks`, `TellMode`, `ShareRoles`, from `setupCommunicator` and
`discoverGroup`), then rounds of `Update`, send and receive. A transfer follows the generated code:
`Announced` for senders nobody knows in advance, `ExpectData`/`HaveData` for the comparison of the iteration number, and
a plan per kind of communicator (`ReplicationPlan`, `GhostRegionPlan`, `UpPlan`, `DownPlan`,
`CrossPlan`, `ScalarPlan`), which says what `sendData` and `receiveData` do: which calls
to MPI, with which tags, into which buffers. The contents of an index is the number of the round that has updated
it. A segment is one process here: that one of its threads transfers at a
time, between two gates, is what `ParallelCommBarrier` shows.

**`PartTransfer`** - arrays between tasks and files. `Read` and `Write` are the part readers and writers, with
the token that orders the writers (`AwaitWriter`, `WriterDone`, `Skip` for a segment without parts);
`Clone` takes parts over where `isEquivalent` allows it, with the memory, the `PartsList` and the mapping known for it;
`CloneStale` is the same for the refresh of a stale item, which goes on to a transfer all the same, and `Allocate` gets memory
for parts that are taken over from nowhere. `made` and `memory` tell the `PartsList` of each list and the memory of its parts by the step that
made them, so that lists which share them have the same ones. The rest is
`DataTransferManager::handleTransfer`: the local transfer (`Transfer`), the agreement on whether segments need each other (`FindNeed`,
`NeedFound`), the sharing of the mappings, which are kept with the lists for the next time (`ShareSource`,
`ShareTarget`, `SourceKnown`, `TargetKnown`), and the exchange (`Exchange`). Parts, places and descriptions come from
`PartHierarchy`, so that an element gets to its place only if what the sender describes, what
the receiver describes and where both keep it agree.

The source lines of every definition are in `PROJECT.json` under `map`; each property
has a mutant of the code it depends on there, which violates it.

## The runs

Run one with `tlc -workers 2 -config <cfg> <module>`. The numbers are distinct states.

| run | module, cfg | states | what it shows |
|---|---|---|---|
| `barrier` | `MCBarrier` | 538 | `NoneAhead`: no call of `wait` returns before all have made theirs; `Inv`, the inductive invariant, which holds that no wake-up reaches a thread of the next round; `ImplementsRendezvous`; `AllRoundsComplete` |
| `lpu_counter` | `MCLpuCounter` | 386 | `SharedOut`: the ranges partition the LPUs; `CounterInv`; `IdsAgree`: the composite id addresses this LPU and no other; `AllVisited` |
| `lpu_iteration` | `MCLpuIteration` | 1,530 | `Inv`, the inductive invariant: what has been executed is told by where the threads stand; `NoLpuTwice`, `NoLpuLeftOut`: every stage executed once on every LPU, in loops inside loops; `BoundsNested`: the bound marks are those of the loops under way; `PpuCountsActual`: the adjusted PPU count is the number of groups that exist; `AllDone` |
| `comm_barrier` | `MCParallelCommBarrier` | 62,206 | `SamePhase`: all threads let through together take the same decision; `TransferAlone`; `UsedWhenComplete`; `WriteAfterRead`; `ResolvedOnce`; `ReceivesTogether`; `AllRoundsComplete` |
| `reduction` | `MCReduction` | 114,478 | `ReturnsOutcome`: every PPU of every segment gets the reduction of just this round's values; `ReducesTogether`; `AllRoundsComplete` |
| `epochs` | `MCEpochs` | 2,876,507 | `VersionsKept`: of a part that no other LPU has, a stage finds the last epochs, as many as there are lags, none lost and none twice, while other threads advance what they share; `ScalarsKept`: a stage that reads a scalar `at (current - j)` finds the value of `j` epochs ago until another controller comes to shift it |
| `environment` | `MCProgramEnvironment` | 946,646 | `ReadsLatest`: a task finds what the last task that changed the array has left; `FreshVersions`: what is recorded as fresh is; `VersionsOfItems`; `ReferenceCounts`: a parts list counts its references, and none refers to freed memory; `NeverAborts` |
| `exchange_iteration` | `MCExchangeIteration` | 4,111 | `DeliversCommonRegion`: the iterator of an exchange delivers what its participants have in common, each index once, and ends (it implements `Traversal`); `IncrementalOrder`: in an order that does not depend on the side |
| `segment_exchange` | `MCSegmentExchange` | 21,540 | `ReceivesLatest`: a segment that has received for a round has the updates of that round; `NothingLeft`: every message is received; `GroupsAgree`: members of a group have the same group, and it is the one the communicator expects; `EveryoneFinishes` |
| `partitions` | `MCPartTransfer` | 14,738 | `HoldsLatest`: parts that have been filled hold the latest contents of every element; `FileComplete`: the file has every element of the array, from one that owned it; `EveryoneFinishes` |

Two more runs exhibit [disagreements](#where-the-code-disagrees-with-its-comments):
`environment_shared` and `transfer_repartitioned`.

Five more configurations belong to no run. Each makes TLC violate one property in a case that
the runs leave out, and so shows that the models do what the code does there:

| cfg, module | violates | where |
|---|---|---|
| `MCEpochsTwoLags`, `MCEpochs` | `ArrayVersions` | one thread, two lags |
| `MCEpochsGroup`, `MCEpochs` | `ArrayVersions` | one lag, two controllers of one group |
| `MCEpochsSharedScalars`, `MCEpochs` | `ScalarVersions` | two controllers of one group |
| `MCPartTransferReorganized`, `MCPartTransfer` | `HoldsLatest` | a list is filled afresh without communication and is the source of a transfer later |
| `MCProgramEnvironmentRebound`, `MCProgramEnvironment` | `NeverAborts` | the item that has made all others stale is given another array |

`CHECK_DEADLOCK FALSE` stands in every configuration because every model stops by
itself (rounds, LPUs, epochs, programs or tasks run out). That nobody is stuck *before* that is
what the liveness properties (`AllRoundsComplete`, `AllDone`, `EveryoneFinishes`) say, which are stronger than the absence
of deadlock. In `ProgramEnvironment` a program only ends, and in `Epochs` nothing blocks.

## Bounds

* `barrier`: `Threads` 4, `MaxRounds` 3. With four threads the releaser wakes three, in any
  order, while those already woken come back for the next round and the one after.
  The proofs remove both bounds.
* `lpu_counter`: 3 PPUs, `MaxLpus` 8: no LPU, fewer than PPUs, as many, a multiple, and every
  remainder. `IdsAgree` also takes all LPU counts of one to three dimensions up to three
  each (`LpuCounts`). The proofs remove all of these bounds.
* `lpu_iteration`: six tasks, one for each shape: LPSes one below the other with an unpartitioned
  one among them, loops that skip an LPS (also an unpartitioned one), parents without LPUs for this PPU, a
  subpartition, siblings, and machines with 4 of 4, 3 of 4, 2 of 4 and 8 of 8 threads.
* `comm_barrier`: two senders, two receivers, one thread that is both (thread 0 of a segment always is),
  all seven kinds of communicators. Three buffers, so that the shares of two threads differ in size;
  two rounds, since everything carried from one round to the next (`commCounter`,
  `iterationNo`, signals, counts) is already carried from the first to the second.
* `reduction`: two segments with two PPUs and one, both kinds of target, and `SUM`, `MIN`,
  `LAND`, `BAND` (what distinguishes operators is the initial value and idempotence: a value counted twice
  shows in a sum, a wrong initial value in the others), two rounds.
* `epochs`: two threads, each with an LPU that has a part of its own and one whose part is also the other's; the block at the
  LPS of the array (each thread then has one LPU) and above it (both). `Lags` 3: the circular array has
  four units; five passes, so that it turns round. `ScalarLags` 2 (the order of shifting two copies matters).
  The proof removes the bounds on arrays; for scalars, the second thread is the one that has not come to the shift yet.
* `environment`: three environments, two LPSes each, four invocations: create, change,
  take over, and come back to a list that has gone stale. Three kinds of programs: on one
  segment, where tasks repartition; on several, where every transfer needs other segments'
  data; and readers that share parts lists with the task that creates the array.
  Larger combinations of these freedoms lead to the disagreements below.
* `exchange_iteration`: two sequences inside an array of eight indices, of up to three intervals each,
  with all begins, lengths and periods up to four for which an intersection is exact (one has one interval, or both
  go on for a common period after both have begun), products of such for two dimensions, and lists of two
  sequences (strided blocks with a remainder).
* `segment_exchange`: three segments, so that somebody can be outside, between or behind the two that exchange;
  two rounds (what is carried over, iteration number and buffers, is carried from the first to the second); twenty-five
  programs: each kind of dependency in each mode (one receiver or several, gather, scatter, broadcast,
  point to point), segments without parts, two confinements, alternating updaters, two dependencies one after the other; with and
  without buffering in MPI.
* `partitions`: three segments, arrays of six to eleven elements, lengths that the part
  counts do and do not divide, minimum 0 and 2; eighteen programs with each function as source
  and target, paddings, two levels, LPUs of the upper and the lower level shared out, three lists of which one has become stale and is
  refreshed, with mappings that are and are not known, a `PartsList` that two lists share and is then the source of a
  transfer, and a stale list that is refreshed from one it is like and then used as a source itself.
  Two segments and one program for the repartitioned task.

## Fairness

`FairSpec` states `WF_vars(Step(t))` for each thread, nothing more: a PPU controller is a pthread of its
own, pinned to a core by the generated code, and the operating system runs a thread
that can run. No fairness among the threads that wait for one semaphore is assumed, and
none is stated for individual actions: which sleeper takes a post is open. In `LpuCounter` it
is `WF` of each counter's steps, for the same reason; in `LpuIteration`, where the
controllers are run one after the other, weak fairness of `Next`. `MPI_Allreduce` returns when all
segments have called it. In `SegmentExchange` and `PartTransfer`, `WF_vars(Next)`: as
long as any process can go on, one does. That is less than fairness of every process, and
enough because nothing in them runs forever: they show that no state is reached
in which somebody is not through and nobody can move. `ExchangeIteration` is sequential (`WF_vars(Next)`).
The specifications without liveness properties (`Epochs`, `ProgramEnvironment`) state no fairness.

## Proofs

`tlapm M.tla` checks each of `Barrier_proofs`, `Reduction_proofs`, `ParallelCommBarrier_proofs`,
`ProgramEnvironment_proofs`, `Lpus_proofs`, `Epochs_proofs`, `IndexSpaces_proofs` and
`DivisionLemmas` from the assumptions on the constants (`BarrierAssumption`: the threads are a finite, nonempty set, the
number of rounds a natural number; `ReductionAssumption`: the same of the PPUs, each of a segment, no segment without
one, and `ValueAssumption`: the values are operands of their operators; `ParallelCommBarrierAssumption`: finite sets of PPUs, of which one both sends and receives;
`NumSegmentsAssumption`: the number of segments is a natural number; `LpuCounterAssumption`: at least one PPU, LPU counts are natural numbers, one for each of at least one dimension; `LpuIterationAssumption`: the tasks have a mapping that is `WellMapped` and code as it is generated (`IsTask`), and an LPS has at most `MostLpus` LPUs under one LPU of its parent, any number; `EpochsAssumption`: the PPUs that execute the stage are among the threads, every thread has an LPU, there is at least one lag;
`ProgramEnvironmentAssumption`: at least one LPS, finitely many environments, programs whose tasks have a type for
the array and a configuration to be invoked with; `DescriptionsAssumption`: what an exchange transfers is exact).

**The semaphore barrier**, for any number of threads and rounds:

* `Invariance`: `Spec => []Inv`. `NoneAhead` is not inductive: it says nothing of the
  semaphores, so that a step from a state with a stray post on `waitq` would break it. `Inv` adds
  an account of every post. `MutexHeld`: the mutex is down exactly while one
  thread is between its wait and its post. `Gathering`: while nobody releases,
  `_count` is `_size` less those inside, no post is under way, and all have completed the same number of rounds.
  `Releases` and `Throttled`: while a round is released, the number of sleepers
  is what the loop of the releaser has still to wake, with one of three places for the
  post in flight (on `waitq`, with the thread it woke, on `throttle`). `NoOverPumping`:
  who is inside belongs to this round, who is outside has finished it. One lemma per action; counting
  is by the cardinality facts of `FiniteSetTheorems`.
* `BarrierCorrect`: `NoneAhead` and `NoOverPumping`. In any state, either nobody
  releases and all have completed the same number of rounds, or somebody does and
  everybody has made that round's call.
* `Refinement`: the barrier implements `Rendezvous`. `Enter` is an arrival, `Answer` and
  `Reset` are departures (`ReturnDeparts`, from `SameCalls`), the rest stutters.

**The LPU counters**, for any number of PPUs, LPUs and dimensions:

* lemmas on `CurrentRange` alone: where a share begins and ends, that the ranges of two
  PPUs do not meet (`SharesDisjoint`) and that every id lies in one of them (`SharesCover`),
  from the division `totalLpus = ppuCount * q + r`;
* `CounterInvariance`: what a counter has visited is its share up to where it stands. `NoIdTwice`
  alone is not inductive: `Advance` takes an id of which only the range says that nobody else has it;
* `LpusSharedOut` (`SharedOut`): `NoIdTwice` and `NoIdLeftOut`;
* `IdsAgreeAlways` (`IdsAgree`): `setCurrentCompositeLpuId` writes a linear id in a number system whose base
  differs from digit to digit. By induction over the dimensions the first of them, together with
  what is left to divide, make up the id (`PlaceIs`, `RemainderBelow`). The library's
  induction theorems take an operator and cannot be cited; `DivisionLemmas` has one that takes the *set* of the numbers
  with the property (`Induction`, from the well-foundedness of `<`) and gets from it that a recursively defined function
  exists (`RecursionExists`) and is determined by its equation (`AgreeUpTo`).

**The iteration over LPUs**, for any set of tasks: any mapping that is `WellMapped`, any number of threads and
LPUs, any nest of loops.

* About the ids alone: `SizesAre`, `ThreadIdsAre`, `RangesAre` and `IdsOfThread` turn the recursive functions of `PpuIds` into formulas
  (thread `t` is in group `t \div size` of those of its size, counted within the parent's group), the adjustment to
  the threads that take part included. From them come `PpuCountsAreActual` (`PpuCountsActual`): the adjusted PPU count is the number of groups there are,
  since `AdjustedPpuCount` rounds up and the groups below the uppermost level are full; and `OneThreadPerLpu`: the
  threads that come to one LPU form one group of its LPS, of which exactly one has a valid id.
* `Invariance` (`Inv`). `NoLpuTwice` does not carry over a step: to know that the next stage has not been executed on the
  current LPU, and in the end that none is missing, one has to know all that has been executed. `Inv` says so: the bag
  `executed` holds each member of `Past` once, and `Past` is a function of the
  current position alone. For every stage it has the LPUs whose chain of ids comes before the current one, compared from the outermost
  LPS in whose loop the thread is (`BeforeIds`), and the current one itself if the thread is past the stage (`IsPast`).
  In the middle of a `getNextLpu` the chain is defined down to the LPS that the recursion has come to (`Current`).
  Every action leaves `Past` as it is, although the position, the
  ids and the LPSes compared change; only `ExecuteStage` adds to it the one execution that it adds to the bag. `LaterCall` is the heart of it:
  giving up the last id of a range and going on in the parent is the carry of a counter whose digits have different ranges, some of them empty.
* `CurrentInv` and `CallInv` say that what the recursion reads (`previous`, the counters of the parents, their ranges) is
  what belongs to the current LPUs, `LocalsInv` that a loop begins anew each time it is
  entered, `BoundsInv` that the container of each loop under way is marked as the bound and no other LPS but the root is
  (`BoundsAreNested`): without it, a recursion would stop below its container and skip LPUs, or run beyond it.
* `EachLpuOnce` (`NoLpuTwice`), from the bag and `OneThreadPerLpu`; `EveryLpu` (`NoLpuLeftOut`): at the end of the last thread, `Past` is everything.

**The reduction across segments**, for any number of segments, PPUs in each and rounds:

* `Invariance`. In each segment the account is that of the barrier (`MutexHeld`, `Gathering`, `Gathered`,
  `Throttled`), where `Complete` says that a segment in `MPI_Allreduce` still has all its PPUs inside.
  Between the segments there is one more fact, `Together`: for some `k`, the PPUs of the segments that are
  through the call have all made `k` calls of `reduce()`, and all others have returned from `k`. It holds because a segment
  passes `MPI_Allreduce` only with all others, and each of them is in there
  through the PPU that arrived last (`InAllreduce`). The values that are reduced play no part here.
* `Refinement`: `Spec => ReducesTogether`, the rendezvous of the PPUs of *all* segments, although no two
  segments share a semaphore. `ReturnDeparts` gets from `Together` that whoever returns
  does so from a round in which everybody has arrived.
* `DataInvariance` and `Outcomes` (`ReturnsOutcome`): the values, for any of the seven operators. The result is a fold over
  the set of PPUs. The library's induction over sets cannot be cited here, so `FoldsTo(o, f, S, v)` says that `v` lies in
  every relation between sets and values that contains the neutral element for the empty set and is closed
  under adding one member; membership of one suitable relation then stands for an induction. From this
  come that the fold is a function (`FoldUnique`) which does not depend on the order (`FoldRemove`) and combines
  over disjoint unions (`FoldUnion`). `DataInv(k)`, for the `k` of `Together`, follows the values of round `k + 1`:
  `RoundGathers` (`expected` is the fold of the values computed so far), `SegmentGathers` (`intermediate` of a segment
  is that of its members inside), `AllreduceGathers` (`combined` that of the segments in the call), `OutcomeKnown` and
  `Delivered` (from then on it is that of all). An `int` starting a `BAND` as `INT_MAX` lacks the sign bit, so the
  fold is over what `Kept` keeps.

**The communication barriers**, for any number of PPUs, buffers and rounds and every kind of communicator.
The first half of `ParallelCommBarrier_proofs` is about the control:

* `Invariance`. Each of the two barriers is in one of five phases (`Gathering`, `Deciding`, `Transferring`, `Finishing`,
  `Leaving`), which say where all its members are; and for some `m` all PPUs are in round `m` or done with it
  (`Round`). The difficulty is that every PPU decides for itself whether there is a transfer, from
  `_activeSignals`, its own iteration number and `iterationNo`, while others are already further on. Their decisions agree because
  their iteration numbers are those of round `m`; because `_activeSignals` is cleared in this phase only by a PPU that has decided against the
  transfer, which is how the others will then decide, too; and because `iterationNo` is
  changed by the other barrier only when all its members are inside, which the PPU that
  belongs to both prevents (`Common`). The mutex plays no part: taking a number is one step of the model. One lemma per
  action; `StepInv` has what they share, that the other barrier keeps its phase (`Frame`).
* `PhasesAgree`, `ReadsBeforeWrites`: `SamePhase` and `WriteAfterRead`, from the phases.
* `Refinement`: the receive barrier implements `Rendezvous`.

The second half adds the data, as further invariants on top of `Inv`:

* `OrderInv` and `PreparedInv` give `TransfersAlone`: those inside have taken the numbers from `_size - 1` downwards, so
  that once all are there each number, hence each buffer (`SharesCover`), has one PPU; a buffer counts as
  filled from when that PPU is ready until the last one has sent it.
* `UnreadInv` gives `UsesComplete`: what has come in and is not written back is in the part of a PPU that is still to write back,
  whether that is its share or, after a down-sync, all of it.
* `SignalInv` and `ResolveInv` give `ResolvesOnce`: before round `m` all rounds are resolved, `iterationNo` says
  whether `m - 1` (rounds count from 0) is, and a receiver that has decided against the transfer knows that it is. `SignalInv` is
  needed for that: a receive barrier always has an active signal, so that only `iterationNo` can decide against.

**The partition functions**, for all dimensions with `min <= max` and all arguments of at least one:

* `BlocksDivide`: the unpadded parts of `block_size` and `block_count` divide the indices: each lies in exactly one part,
  the one that `transformIndex` names;
* `StridesDivide` and `StridesFill`: `transformIndex` (`PartitionInstr`) and
  `getOriginalIndex` (`DimPartitionConfig`) are inverse to one another, from the indices of the dimension to the places of all
  parts as they are allocated: no element is without a place and no place without an element.
  The remainder is the difficulty: the last round of a stride reaches some parts only, of `block_stride` one in part.
* They rest on `DivisionLemmas` (division with remainder is unique and monotonic, a product that spills over, the last share, division in two steps, division that rounds up),
  which the LPU counters and the thread ids use as well.

**The exchanges**, for sequences of any number of dimensions and any length:

* `IntersectionExact`: if one of two sequences has one interval, or both go on for a common period after both have begun
  (`Comparable`), `computeIntersection` gives sequences that describe the indices they have in common, each of them once.
  For one interval (`IntersectionWithInterval`), `IntersectSingle` computes four interval numbers by division: the first
  interval that reaches the other sequence, the first that begins inside it, the last that begins and the last that ends inside it
  (`MeetsIs`); the intersection is what three parts cover (`PartsCover`) without overlapping (`PartsDisjoint`), and each of the optional
  sequences describes its part (`FrontPiece`, `WholePiece`, `RearPiece`).
  In general, `computeIntersection` walks along both sequences and records each overlap. The loop's invariant (`Walked`) says that the
  overlaps recorded are those of the intervals passed, and that it has not passed the place a common period after its start, so
  it ends exactly there (`LoopWalks`); from there on the overlaps repeat themselves (`IsPeriodic`). Every common index is in a
  repetition of a recorded overlap that ends before the sequence that ends first does (`RepeatsCover`), each in one (`RepeatsDisjoint`). The
  hypothesis is needed in one place: the division in `:367` is towards zero, and only the common period makes its dividend nonnegative.
* `CommonRegionExact`: for a sender and a receiver whose sequences are `Comparable` in each dimension, and described
  without repetition, `exchangeDesc` is exact: the common region, or the description both have. `Divides` says that the items of a list describe disjoint parts of a set that make up
  the set; it survives concatenation (`JoinedDivide`, `FlattenDivides`) and the cross product with the next dimension
  (`ListExtended`), so by induction `generateIntervalSeqs` has it (`GenerateDivides`). This is `DescriptionsAssumption` for these descriptions.
  Without the condition it is false (below).
* `NothingMissing`: whatever a sender and a receiver have in common, each segment finds in one exchange of just this content
  that has both among its participants, but for its own transfers between the same parts. No two of its exchanges have the same content.
* `ExchangesAgree`: each segment works the exchanges out for itself, from its own list of participants, and they must be the same
  everywhere, or a message has no receiver and a group no members. They are, and each is from all segments that hold what its sender does
  to all that hold what its receiver does (`Together`), under two conditions: equal contents come from equal
  holdings (`EqualHoldings`; it is enough that two segments hold the same parts or different ones, `EqualHoldingsOf`), and, where the parts
  sent are those received, segments have the same parts just if they have the same paddings (`SameParts`). All segments have the same candidates but for their own
  transfers (`CandidatesAre`); exchanges are combined with the first of their content (`MatchingIs`), which adds their tags (`TagsKept`) and,
  under the conditions, none of a segment with other holdings (`TagsAlike`, by induction over the list). All dependencies of `segment_exchange` meet
  the conditions but those of `GhostTwice` and `GhostThenCross`, whose parts are as small as their paddings: there the other
  segments count the sender among the receivers of its exchange; the sender itself does not, so that the transfer goes where it should.
* `Invariance`: the points of its sequence that come before the one the cursors are on are as many as have been delivered less
  one (`PlacesOK`, `Rank`), and what has been delivered comes before it or belongs to a sequence that is finished (`VisitedOK`).
  That points are not delivered twice is not inductive by itself. A step of one cursor that makes those after it begin
  again adds one to the rank (`RankOfNext`, by induction over the dimensions), so that the count, by which the iterator
  finds the end of a sequence, is used up exactly when the cursors have come to the last point (`RankOfLast`).
* `Ordered` (`IncrementalOrder`), and `Delivers`: every step is one of `Traversal`. That the iteration goes on to the end
  is liveness.

**The epoch versions**, for any number of threads, lags, LPUs in a pass and epochs, an array used in the LPS of the
block or below it, whatever parts the threads share and whichever of them execute the stage:

* `KeepsVersions` (`VersionsKept`). The property speaks of a computation that is about to take place, and not all steps
  before it are those of one thread. `ArrayInv` says of every LPU of a pass what the units of its part hold, counted from the
  head (`KeptAt`): 1, 2, ... epochs back from the last unit to the head. Where the pass stands between the advance of this part and its
  computation (`Advanced`) the count begins at the head, otherwise behind it (`Unit`). So the advance of the head, which
  moves the oldest epoch to the place where the next one is computed, and the computation, which overwrites just that one, leave
  `KeptAt` as it is, for a circular array of any length (with the uniqueness of division from `DivisionLemmas`). A
  thread between the two steps of `advanceEpoch` knows the next head (`HeadKnown`), and an LPU about to compute refers to the
  units as they now stand (`Referred`). Both are lost for a part that several LPUs have, and kept for the others: a thread that
  works on another LPU works on another part (`PartsApart`).
* Which lag finds which of these epochs is left open: the code finds
  them in the reverse order (next section), so that `ArrayVersions`, which asks for the order, is false beyond one lag.

**The program environment**, for any number of environments, LPSes, configurations and invocations. A task finds
its data by way of who refers to which object, which versions that gives, which of them are fresh, and
what their memory holds; there is an invariant for each, on top of those before it:

* `KeyInvariance`, of every program: `KeysExact` (an object has a version for each allocation of exactly the
  items that refer to it, but for those of a running task that are still to be set up) and `FreshKeysOK` (what is fresh exists, and the
  allocations of an item are fresh together or not at all). It gives `ItemsHaveVersions` (`VersionsOfItems`).
* `SteadyNeverAborts` (`NeverAborts`), if no item whose task changes the array is given another array (`IsSteady`).
  `SteadyInv` says why a fresh version can always be found: of each object all versions are up to date,
  or one item has only fresh versions and never loses them (`Supplied`, `Anchor`). Without `IsSteady` the item that has
  made all others stale can be rebound, which removes the only fresh versions before a replacement is looked for: that is
  the assertion of `env_instruction.cc:543` in the next section.
* `DataInvariance`, for `IsDisciplined` programs. `DataInv` says that a version that is up to date holds the last content
  (`VersionOK`), that a list counts its versions (`CountsOK`), who may share whose buffers (`DistinctBuffers`),
  and which lists nobody has touched yet (`UntouchedPristine`, so that the fresh lists of a task may be overwritten). From it come
  `ComputesOnLatest` (`ReadsLatest`), `FreshHoldLatest` (`FreshVersions`) and `CountsAreReferences` (`ReferenceCounts`).

`IsDisciplined` adds two conditions to `IsSteady`. No code enforces them; they are what a program has to respect for
the environment to work, and each fends off one disagreement of the next section that has a run or is listed there. The tasks divide the array
in different ways (`Disjoint`), or it is changed only by tasks that create it anew (`OnlyOut`): otherwise the missing `else` may free
shared buffers, which `environment_shared` shows for a program with neither. And no transfer needs other segments' data, or
every task divides the array in one way (`OneConfig`): otherwise the mapping of the list to be replaced may be that of
another division, or a reorganization may have marked it as needed by nobody. The programs of `environment` are disciplined (`DisciplinedAssumption`, which TLC evaluates), and among them
each of the alternatives occurs.

Only model-checked:

* all liveness (`AllRoundsComplete`, `AllDone`, `AllVisited`, `EveryoneFinishes`), which is out of the prover's reach;
* `ScalarsKept`, since scalars are versions of the segment, not of a part: beyond the moment it speaks of it is false;
* `SegmentExchange` (`ReceivesLatest`, `NothingLeft`, `GroupsAgree`). What a segment sends is a function of its program, which is data
  here: the properties are true of programs without the conflicts listed below and false of others, and no condition short of the properties
  themselves has been found that tells one from the other. That segments work out the same exchanges is proved (`ExchangesAgree`), the transfers are not. The calls of `Mpi` take messages out of lists by folds over lists,
  so that a proof would need induction over data for each of them;
* `PartTransfer` (`HoldsLatest`, `FileComplete`), which rests on hierarchies of partition functions with paddings (`PartHierarchy`) and on
  `transformSubInterval`: its branches describe a part exactly under conditions on all levels together (below).

## Where the code disagrees with its comments

Two have a run that TLC ends with a counterexample.

* `environment_shared` (`runtime/environment/env_instruction.cc:335`): an `else` is missing between two
  ways to refresh a stale item. After taking over the parts of a matching version, its own stale
  ones are cloned on top, which frees the buffers that are now shared.
* `transfer_repartitioned` (`env_instruction.cc:354`): a stale refresh takes the segment mapping of the version to be
  replaced for that of the list to be filled, also if the task has been invoked with other partition arguments since.
  The senders send what the old parts need and the new ones stay empty.

Met while modelling; the programs of the passing runs avoid them.

Threads, iteration and epochs:

* With two partitioned LPSes under one parent, the second one's PPU count is computed from the group the first one
  left in `groupBegin`/`groupEnd` (`codegen/utils/code_generator.cc:529`). It becomes one, and
  each group of threads executes all LPUs.
* A truncated machine with nested groups (14 of 16 threads in groups of 2x2x2): `groupBegin` is relative to
  the parent and is compared with absolute thread numbers (`code_generator.cc:534`).
  A subpartition gives id 0 to all threads of the parent's group (`:396`). The partition configuration uses the PPU
  counts of thread 0 for all threads (`task_generator.cc:505`).
* The product of the LPU counts of the dimensions is an `int` (`lpu_management.cc:57`).
* A reduction that is not task-global accumulates in the variable that keeps its last outcome
  (`runtime/reduction/reduction_barrier.cc:103`): a thread that comes back to the LPU late finds the
  partial result of the next round there.
* A `BAND` reduction starts from `INT_MAX` (`codegen/utils/reduction_primitive_mgmt.cc:138`), so the sign bit of the result is lost;
  `Outcome` leaves that bit out (`Kept`).
* Epochs: the head of the circular array moves in the direction in which lags are counted
  (`runtime/memory-management/allocation.h:102`). With one lag this cannot be seen; with two, lag
  1 finds the value of two epochs ago (`MCEpochsTwoLags`). The references generated are meant as those "for all previous
  epoch versions" (`code_generator.cc:597`).
* All controllers of a group go through the epoch block (`epoch_boundary_impl.cc:158`). Each advances the part they share
  (`MCEpochsGroup`), and each shifts the scalars that all controllers of the segment share (`MCEpochsSharedScalars`), where `codegen/utils/task_global.h:9`
  means such scalars to be stored as individual copies in each processor.
  If two LPUs hold the same part it is advanced for each of them.
* `computation_flow.h:680` says that versions advance at the end of the block, the code advances them at its beginning.
* `communicator.h:128` says that a PPU "only waits if the data has not been received
  yet": `shouldWaitOnReceive` always returns true. `lpu_management.h:101` says that the
  root LPS starts as the iteration bound: the constructor leaves it unmarked.

Communication between segments:

* A ghost-region exchange posts receives only inside its own send (`array_communicator.cc:145`): next to a segment that has nothing to update
  its neighbour waits forever. `array_communicator.h:77` assumes that all update.
* Replication: two segments that both update broadcast with different roots and block each other (`:54`).
* An up-sync receives from any source (`:392`): where replicas of the sender take turns without anything between
  them, the update of the next iteration can overtake that of this one.
* A down-sync in scatter mode whose senders are replicas, and a scalar sent down by another segment than the
  first, leave the roles that the set-up has fixed.
* `compareTo` and its comment in `confinement_mgmt.cc` differ on the order of exchanges. Exchanges of equal contents are combined by tags (`:418`),
  which is wrong for holdings that overlap without being equal; the header asks the caller not to have them. `ExchangesAgree` says where it is right.
* MPI tags are composed in decimal (`comm_buffer.cc:72`) and outgrow what MPI guarantees with a few hundred segments.
* An overlap of two repeated sequences up to one period behind the end of the shorter one is counted once
  (`interval.cc:367`, a truncating division; `interval.h:81`): part 0 of three strides and part 1 of four over seven
  indices seem to share index 9. `IntersectionExact` bounds this to pairs that end within a common period.

Parts and their transfer:

* `isEquivalent` does not ask which segments hold the parts: with equal hierarchies and different mappings, `Clone` copies the n-th
  part of one list over the n-th of the other (`env_instruction.cc:196`).
* It also errs on the unsafe side where an even stride lies above another level, and where the last part of a
  `block_count` is longer (`part_generation.cc:1037-1090`), while `part_generation.h:383` says it only errs towards needless communication.
* A reorganization without communication marks the segment mapping of the new list as known
  (`env_instruction.cc:292`, `environment.cc:59`), which it is not: a later transfer out of this list posts no receives (`MCPartTransferReorganized`).
* An item's versions are removed before the data that is to replace them is looked for (`env_instruction.cc:543`). If they were the only fresh ones,
  the search asserts on an empty list (`MCProgramEnvironmentRebound`).
* `block_count` with a count above the length (`partition.cc:425`); parts shorter than their paddings, and paddings of
  different widths, of which `transformIndex` swaps front and rear (`partition.cc:318`, `:521`).
* A fold whose upper level has parts of different lengths branches; the branches after the first are lost
  (`part_folding.cc:199-209`, whose comment says that branching prevents erroneous descriptions): `block_size` 5 over nine
  elements above a `block_stride`. A padded upper level of which a segment holds some sub-parts only is described wrongly (`partition.cc:262`).
* A transfer reads an element from the last place where it finds it, which may be a padding that is stale; `isSuperFold` counts what overlaps twice.
* A segment without parts has no writer and passes no token on (`data_handler.cc:241`): behind such a gap the next writer waits forever.
* `partition.cc:658` and `:858` delete a list twice; cloning from a part with fewer epoch versions is off by one
  (`allocation.cc:152`); a parts list that `addNewVersion` overwrites is never freed.

## What is not modelled

* Lexer, parser, syntax trees, scopes, type inference, and the emission of text: sequential
  transformations without state at run time. What is emitted *is* modelled where
  it runs (loops over LPUs, dependency handling, epochs, reductions, thread ids, environment).
* Contents of arrays, except for who wrote an element and when. The dimensions of an array are divided independently: `PartHierarchy`
  and `PartTransfer` have one of them, `ExchangeIteration` two.
* The container tree of all segments (`part_distribution.cc`) and exchanges within a segment, index mappings (`index_xform`),
  the joining of intervals, part iterators.
* MPI beyond the calls listed in `Mpi`: an implementation that fails, or whose collectives synchronize more than
  their messages require.
* The synchronization analysis (`sync_stat.cc`), repeat and conditional blocks, replacement communicators.
* `comm_barrier.cc`, which nothing derives from any more, and `executeSend`/`executeReceive`,
  which nothing calls.
* The older back ends (`multicore`, `hybrid`, `segmented-memory`), the GPU offloader (CUDA),
  compiler exercises, tools, samples and scripts. They are most of the repository's lines: each is a complete compiler
  with a runtime of its own, of which the one modelled here is the successor.

Simplifications to remember when reading the results: accesses to shared fields are
sequentially consistent and a stretch of code between two blocking operations is one action where it
runs under a mutex or touches only the thread's own state. In `ProgramEnvironment` a
parts list has one part and a part one version, and every segment takes the same
branches (what a transfer does between segments is in `PartTransfer`, where the program is fixed instead).
A segment of `SegmentExchange` is one process. In `PartTransfer` memory that is freed and still used holds no element's value. In `PartTransfer` the second transfer that follows
when data comes from a stale version (`env_instruction.cc:541`) is left out.

## Plan

What is left, in this order; the first block widens the model, the second proves more.

1. `ParallelCommBarrier` extended by replacement communicators and backward
   dependencies in repeat loops (`composite_stage_impl.cc:94-126`).
2. `ProgramEnvironment` with epoch versions in parts, and with sub-ranges of arrays.
3. `part_distribution.cc`: confinements from the container tree of all segments, now given with the programs of `SegmentExchange`.
4. `SyncRequirements` (`sync_stat.cc`: a deactivated requirement is implied by one that stays).
5. Repeat and conditional blocks in `LpuIteration`.

Theorems, in this order: an account of the messages under way in `Mpi`, like that of the posts of a semaphore, from which
`NothingLeft` and `GroupsAgree` would follow for programs whose segments agree on the set-up; partition functions with
paddings; `transformSubInterval`.
