---------------------------- MODULE LpuIteration -----------------------------
(***************************************************************************)
(* How the PPU controllers of a task get through its LPUs: the nested      *)
(* loops that LpsTransitionBlock and StageInstanciation generate, with     *)
(* ThreadState::getNextLpu of runtime/common/lpu_management.cc at the head *)
(* of each and the PPU ids of module PpuIds.                               *)
(*                                                                         *)
(* A loop over the LPUs of an LPS stands inside the loop over the LPUs of  *)
(* a container LPS.  The LPSes between the two have no loop of their own:  *)
(* getNextLpu calls itself for the LPS above until it comes to the         *)
(* container, which it marks as the bound of its recursion.                *)
(*                                                                         *)
(* The controllers share no part of this state, so that they take turns    *)
(* here, each running to its end.                                          *)
(***************************************************************************)
EXTENDS PpuIds, Bags

CONSTANTS Tasks,      \* the tasks to consider, see IsTask
          MostLpus    \* bound: the LPUs an LPS can have under one of its parent's

(* The generated code of a task, one instruction after the other:            *)
(*   loop    if the LPS has a next LPU go on to it, else leave the loop,     *)
(*   stage   execute a stage on the current LPU, if this PPU is the one,     *)
(*   end     back to the head of the loop.                                   *)
Loop(lps, container, exit) ==
  [op |-> "loop", lps |-> lps, container |-> container, target |-> exit]
Stage(lps)  == [op |-> "stage", lps |-> lps]
EndLoop(head) == [op |-> "end", target |-> head]

\* The loops around an instruction.
LoopsAround(code, i) == {h \in 1..(i - 1) : code[h].op = "loop" /\ i < code[h].target}

\* An instruction for LPUs of l stands in a loop over l, and otherwise only in
\* loops over LPSes above l.
StandsUnder(t, i, l) ==
  /\ \A h \in LoopsAround(t.code, i) : t.code[h].lps \in Path(t, l)
  /\ l # Root => \E h \in LoopsAround(t.code, i) : t.code[h].lps = l

IsLoop(t, i) ==
  LET loop == t.code[i]
  IN /\ loop.lps \in 1..Len(t.lps)
     /\ loop.container \in {Root} \cup Path(t, loop.lps) /\ loop.container < loop.lps
     /\ StandsUnder(t, i, loop.container)
     /\ loop.target \in (i + 2)..(Len(t.code) + 1)
     /\ t.code[loop.target - 1] = EndLoop(i)
     /\ \A h \in LoopsAround(t.code, i) : loop.target < t.code[h].target
IsStage(t, i) == t.code[i].lps \in LpsIds(t) /\ StandsUnder(t, i, t.code[i].lps)
IsEnd(t, i) == LET head == t.code[i].target
               IN head \in 1..(i - 1) /\ t.code[head].op = "loop" /\ t.code[head].target = i + 1

\* A task is a mapping, its code, and what the partition functions find: under
\* the LPU with number n of its parent, an LPS has n's entry of lpuCounts[l], the
\* entries being used in turn, as its LPUs.
IsTask(t) ==
  /\ WellMapped(t)
  /\ Len(t.lpuCounts) = Len(t.lps)
  /\ \A l \in 1..Len(t.lps) : t.lpuCounts[l] \in Seq(0..MostLpus) /\ t.lpuCounts[l] # <<>>
  /\ Len(t.code) \in Nat
  /\ \A i \in 1..Len(t.code) : \/ t.code[i].op = "loop"  /\ IsLoop(t, i)
                               \/ t.code[i].op = "stage" /\ IsStage(t, i)
                               \/ t.code[i].op = "end"   /\ IsEnd(t, i)

ASSUME LpuIterationAssumption == MostLpus \in Nat /\ \A t \in Tasks : IsTask(t)

VARIABLES task,
          threadIds,  \* threadIds[t]: the PPU ids of each thread
          thread,     \* the PPU controller whose turn it is
          pc,         \* where in the code it is
          lpsStates,  \* its LpsState of each LPS
          lpuIds,     \* its local variable space<LPS>LpuId, per instruction
          call,       \* what its innermost call of getNextLpu is about
          executed    \* history: the bag of stages executed, with their LPUs

vars == <<task, threadIds, thread, pc, lpsStates, lpuIds, call, executed>>

-----------------------------------------------------------------------------
(* ThreadState *)

Partitioned(l)  == task.lps[l].partitioned
PpuIds(l)       == threadIds[thread][l]
IsValidPpu(l)   == PpuIds(l).id # INVALID_ID

\* currentRange and currentLinearLpuId of the counter, the bound, the LPU.
InitialState(l) == [range   |-> NoRange, current |-> INVALID_ID, bound |-> FALSE,
                    lpu     |-> IF l = Root THEN 0 ELSE INVALID_ID]

\* computeLpuCounts: the LPUs under the LPU that the parent is at.
LpuCount(l, parentLpu) ==
  LET counts == task.lpuCounts[l] IN counts[1 + (parentLpu % Len(counts))]

\* setLpuCounts, setCurrentRange: they do nothing in a MockLpuCounter.
WithRange(s, l) ==
  IF ~Partitioned(l) THEN s
  ELSE [s EXCEPT ![l].range = CurrentRange(LpuCount(l, s[Parent(task, l)].lpu),
                                           PpuIds(l).ppuCount, PpuIds(l).groupId)]

\* resetCounter, invalidateCurrentLpu
WithoutLpu(s, l) == [s EXCEPT ![l].range = NoRange, ![l].current = INVALID_ID]

NextId(s, l, previous) == IF Partitioned(l) THEN NextLpuId(s[l].range, previous)
                          ELSE MockNextLpuId(PpuIds(l).groupId, previous)

\* Mutant: the id is not set in the LPU, so that the loop begins anew.
WithLpu_NoSetId(s, l, id) == [s EXCEPT ![l].current = id]
\* setCurrentCompositeLpuId, computeNextLpu, setId
WithLpu(s, l, id) == [s EXCEPT ![l].current = id, ![l].lpu = id]

\* The calls of getNextLpu for an LPS and those below it, down to the loop's, are
\* under way.  That for the LPS has just been made, with the id of its current LPU;
\* or it has returned an LPU; or NULL, and then all of them do.
Idle                == [status |-> "idle",   lps |-> Root, previous |-> INVALID_ID]
Called(l, previous) == [status |-> "called", lps |-> l,    previous |-> previous]
Found(l)            == [status |-> "found",  lps |-> l,    previous |-> INVALID_ID]
NotFound            == [status |-> "null",   lps |-> Root, previous |-> INVALID_ID]

-----------------------------------------------------------------------------
(* The generated code. *)

Instruction == task.code[pc]
Container   == Instruction.container
Finished    == pc > Len(task.code)
AtLoop      == ~Finished /\ Instruction.op = "loop"
AllFinished == thread = task.totalThreads - 1 /\ Finished

Init == /\ task \in Tasks
        /\ threadIds = [t \in ThreadsOf(task) |-> ThreadIds(task, t)]
        /\ thread    = 0
        /\ pc        = 1
        /\ lpsStates = [l \in LpsIds(task) |-> InitialState(l)]
        /\ lpuIds    = [i \in 1..Len(task.code) |-> INVALID_ID]
        /\ call      = Idle
        /\ executed  = EmptyBag

\* The head of a loop.
LoopHead == /\ AtLoop /\ call.status = "idle"
            /\ call' = Called(Instruction.lps, lpuIds[pc])
            /\ UNCHANGED <<task, threadIds, thread, pc, lpsStates, lpuIds, executed>>

\* The first call in a loop: bound the recursion and bring the parent to its first
\* LPU, unless the parent is the container.
FirstCall ==
  /\ call.status = "called" /\ call.previous = INVALID_ID
  /\ lpsStates' = [lpsStates EXCEPT ![Container].bound = TRUE]
  /\ LET parent == Parent(task, call.lps)
     IN call' = IF parent = Container THEN Found(parent) ELSE Called(parent, INVALID_ID)
  /\ UNCHANGED <<task, threadIds, thread, pc, lpuIds, executed>>

\* Any other call: on to the next LPU, or to one under the parent's next.
LaterCall ==
  /\ call.status = "called" /\ call.previous # INVALID_ID
  /\ LET l      == call.lps
         parent == Parent(task, l)
         id     == NextId(lpsStates, l, call.previous)
     IN IF id # INVALID_ID
          THEN /\ lpsStates' = WithLpu(lpsStates, l, id)
               /\ call' = Found(l)
          ELSE /\ lpsStates' = WithoutLpu(lpsStates, l)
               /\ call' = IF lpsStates[parent].bound THEN NotFound
                          ELSE Called(parent, lpsStates[parent].current)
  /\ UNCHANGED <<task, threadIds, thread, pc, lpuIds, executed>>

\* Mutant: a PPU with no LPU under the first parent gives up.
ParentFound_GivesUp ==
  /\ call.status = "found"
  /\ \E l \in Path(task, Instruction.lps) :
       /\ Parent(task, l) = call.lps
       /\ LET here == WithRange(lpsStates, l)
              id   == NextId(here, l, INVALID_ID)
          IN IF id # INVALID_ID
               THEN lpsStates' = WithLpu(here, l, id) /\ call' = Found(l)
               ELSE lpsStates' = here /\ call' = NotFound
  /\ UNCHANGED <<task, threadIds, thread, pc, lpuIds, executed>>
\* Mutant: the search goes on from the parent's first LPU each time.
ParentFound_FromFirst ==
  /\ call.status = "found"
  /\ \E l \in Path(task, Instruction.lps) :
       /\ Parent(task, l) = call.lps
       /\ LET here == WithRange(lpsStates, l)
              id   == NextId(here, l, INVALID_ID)
          IN IF id # INVALID_ID
               THEN lpsStates' = WithLpu(here, l, id) /\ call' = Found(l)
               ELSE /\ lpsStates' = here
                    /\ call' = IF call.lps = Container THEN NotFound
                               ELSE Called(call.lps, INVALID_ID)
  /\ UNCHANGED <<task, threadIds, thread, pc, lpuIds, executed>>
\* The call for the parent has returned an LPU: the counter begins anew under it.
\* If it has none for this PPU, the loops of getNextLpu go on to the parent's next,
\* unless the parent is the container.  (The loop of a later call does not ask, but
\* has seen that the parent is no bound.)
ParentFound ==
  /\ call.status = "found"
  /\ \E l \in Path(task, Instruction.lps) :
       /\ Parent(task, l) = call.lps
       /\ LET here == WithRange(lpsStates, l)
              id   == NextId(here, l, INVALID_ID)
          IN IF id # INVALID_ID
               THEN lpsStates' = WithLpu(here, l, id) /\ call' = Found(l)
               ELSE /\ lpsStates' = here
                    /\ call' = IF call.lps = Container THEN NotFound
                               ELSE Called(call.lps, lpsStates[call.lps].current)
  /\ UNCHANGED <<task, threadIds, thread, pc, lpuIds, executed>>

\* Into the loop's body.
EnterBody == /\ AtLoop /\ call = Found(Instruction.lps)
             /\ pc' = pc + 1
             /\ call' = Idle
             /\ UNCHANGED <<task, threadIds, thread, lpsStates, lpuIds, executed>>

\* Mutant: the container stays the bound of all later recursions.
Unbound_Not(s, container) == s
\* removeIterationBound, unless the container is the root.
Unbound(s, container) == IF container = Root THEN s
                         ELSE [s EXCEPT ![container].bound = FALSE]

\* Out of the loop, which ends the scope of space<LPS>LpuId.
LeaveLoop == /\ AtLoop /\ call = NotFound
             /\ lpsStates' = Unbound(lpsStates, Container)
             /\ pc' = Instruction.target
             /\ lpuIds' = [lpuIds EXCEPT ![pc] = INVALID_ID]
             /\ call' = Idle
             /\ UNCHANGED <<task, threadIds, thread, executed>>

\* The end of its body: space<LPS>LpuId = space<LPS>Lpu->id.
LoopEnd == /\ ~Finished /\ Instruction.op = "end"
           /\ LET head == Instruction.target
              IN /\ lpuIds' = [lpuIds EXCEPT ![head] = lpsStates[task.code[head].lps].lpu]
                 /\ pc' = head
           /\ UNCHANGED <<task, threadIds, thread, lpsStates, call, executed>>

\* The ids of the current LPUs of l and of the LPSes above it, the root excepted.
LpuIdChain(l) == [a \in Path(task, l) |-> lpsStates[a].current]

Execution(i, chain) == [stage |-> i, lpu |-> chain]

\* Mutant: every thread of a group executes the group's code.
ExecuteStage_Unchecked ==
  /\ ~Finished /\ Instruction.op = "stage"
  /\ executed' = executed (+) SetToBag({Execution(pc, LpuIdChain(Instruction.lps))})
  /\ pc' = pc + 1
  /\ UNCHANGED <<task, threadIds, thread, lpsStates, lpuIds, call>>
ExecuteStage ==
  /\ ~Finished /\ Instruction.op = "stage"
  /\ executed' = IF IsValidPpu(Instruction.lps)
                   THEN executed (+) SetToBag({Execution(pc, LpuIdChain(Instruction.lps))})
                   ELSE executed
  /\ pc' = pc + 1
  /\ UNCHANGED <<task, threadIds, thread, lpsStates, lpuIds, call>>

\* The next controller runs the same code from an initial ThreadState.
NextThread == /\ Finished
              /\ thread < task.totalThreads - 1
              /\ thread' = thread + 1
              /\ pc' = 1
              /\ lpsStates' = [l \in LpsIds(task) |-> InitialState(l)]
              /\ lpuIds' = [i \in 1..Len(task.code) |-> INVALID_ID]
              /\ UNCHANGED <<task, threadIds, call, executed>>

Next == \/ LoopHead \/ FirstCall \/ LaterCall \/ ParentFound
        \/ EnterBody \/ LeaveLoop \/ LoopEnd \/ ExecuteStage \/ NextThread

Spec == Init /\ [][Next]_vars /\ WF_vars(Next)

-----------------------------------------------------------------------------
\* All the LPUs of an LPS, as chains of ids: those of LPS a under the parent's
\* LPU of the chain are the numbers in Below(a, chain).
ParentLpu(l, chain) == IF Parent(task, l) = Root THEN 0 ELSE chain[Parent(task, l)]
Below(l, chain) == IF Partitioned(l) THEN 0..(LpuCount(l, ParentLpu(l, chain)) - 1) ELSE {0}
AllLpus(l) == {chain \in [Path(task, l) -> 0..MostLpus] :
                 \A a \in Path(task, l) : chain[a] \in Below(a, chain)}

Stages == {i \in 1..Len(task.code) : task.code[i].op = "stage"}
AllExecutions ==
  UNION {{Execution(i, chain) : chain \in AllLpus(task.code[i].lps)} : i \in Stages}

\* No LPU is computed twice, by one PPU or by two, and none that does not exist.
NoLpuTwice == /\ BagToSet(executed) \subseteq AllExecutions
              /\ \A e \in BagToSet(executed) : executed[e] = 1

\* When all controllers are through, every stage has been executed on every LPU
\* of its LPS: those that one thread leaves out another one has had.
NoLpuLeftOut == AllFinished => AllExecutions \subseteq BagToSet(executed)

\* A loop leaves the iteration state as it found it: outside all loops with a
\* container LPS, that LPS bounds no recursion.
Enclosing(i) == LoopsAround(task.code, i)
BoundsNested ==
  \A l \in LpsIds(task) \ {Root} :
    lpsStates[l].bound => \E h \in Enclosing(pc) \cup {pc} :
                             h <= Len(task.code) /\ task.code[h].op = "loop"
                             /\ task.code[h].container = l

\* The controllers come to the end of the task's code.
AllDone == <>AllFinished

\* The PPUs that the counters divide the LPUs among are those that exist: the
\* threads under the same PPUs of the upper LPSes form as many groups as each of
\* them has for its PPU count.  The comment on generateFnForThreadIdsAdjustment
\* in code_generator.h: the procedure is "used to adjust the PPU counts and
\* thread-IDs based on actual number of threads found at runtime".
Siblings(l) == {t \in ThreadsOf(task) : \A a \in Path(task, l) \ {l} :
                                           threadIds[t][a].groupId = PpuIds(a).groupId}
PpuCountsActual ==
  \A l \in LpsIds(task) :
    PpuIds(l).ppuCount = Cardinality({threadIds[t][l].groupId : t \in Siblings(l)})

-----------------------------------------------------------------------------
(* The inductive invariant.                                                  *)
(*                                                                           *)
(* What a thread has done is told by where it stands.  For a stage, it has   *)
(* been through the LPUs before the current ones of the LPSes whose loops it *)
(* is in, and through what is under these if it has come past the stage.     *)

\* The LPUs of l that thread t gets under the LPU with number n of the parent.
OwnLpus(t, l, n) ==
  IF Partitioned(l)
    THEN IdsOf(LpuCount(l, n), threadIds[t][l].ppuCount, threadIds[t][l].groupId)
    ELSE IF threadIds[t][l].groupId = 0 THEN {0} ELSE {}
\* The LPUs that thread t comes to.
LpusOf(t, l) == {chain \in AllLpus(l) :
                   \A a \in Path(task, l) : chain[a] \in OwnLpus(t, a, ParentLpu(a, chain))}

\* At the head of a loop: what getNextLpu is, or is about to be, called for.
Request == IF call.status = "idle" THEN Called(Instruction.lps, lpuIds[pc]) ELSE call
IsFirst == Request.status = "called" /\ Request.previous = INVALID_ID
IsLater == Request.status = "called" /\ Request.previous # INVALID_ID

\* The LPSes in whose current LPU the thread is.
PathsOf(loops) == UNION {Path(task, task.code[h].lps) : h \in loops}
Current == IF ~AtLoop THEN PathsOf(Enclosing(pc))
           ELSE IF IsFirst \/ Request.status = "null" THEN Path(task, Container)
           ELSE Path(task, Request.lps)

\* Among them, those of stage i; and whether what it has under their current LPUs
\* is behind the thread.
Levels(i) == IF AtLoop /\ pc \in Enclosing(i) THEN Current
             ELSE PathsOf(Enclosing(i) \cap Enclosing(pc))
IsPast(i) == IF AtLoop /\ pc \in Enclosing(i) THEN IsLater \/ Request.status = "null"
             ELSE i < pc

SameIds(s, chain, S)   == \A a \in S : chain[a] = s[a].current
BeforeIds(s, chain, S) == \E a \in S : /\ chain[a] < s[a].current
                                       /\ SameIds(s, chain, {b \in S : b < a})
Done(i, chain) == \/ BeforeIds(lpsStates, chain, Levels(i))
                  \/ IsPast(i) /\ SameIds(lpsStates, chain, Levels(i))

IsDone(i, chain) ==
  \E t \in 0..thread : /\ threadIds[t][task.code[i].lps].id # INVALID_ID
                       /\ chain \in LpusOf(t, task.code[i].lps)
                       /\ t = thread => Done(i, chain)
Past == UNION {{Execution(i, chain) : chain \in {c \in AllLpus(task.code[i].lps) : IsDone(i, c)}} :
                 i \in Stages}

CallInv ==
  /\ call.status # "idle" => AtLoop
  /\ AtLoop =>
       /\ Request.status \in {"called", "found"} =>
            \/ Request.lps \in Path(task, Instruction.lps) /\ Container < Request.lps
            \/ Request = Found(Container)
       /\ IsLater => Request.previous = lpsStates[Request.lps].current

\* The counters of these LPSes are where they should be in the shares of the thread.
StandsAt(s, l) ==
  LET parentLpu == s[Parent(task, l)].lpu
  IN /\ s[l].lpu = s[l].current
     /\ s[l].current \in OwnLpus(thread, l, parentLpu)
     /\ Partitioned(l) => s[l].range = CurrentRange(LpuCount(l, parentLpu),
                                                   PpuIds(l).ppuCount, PpuIds(l).groupId)
CurrentInv == /\ lpsStates[Root].lpu = 0
              /\ \A l \in Current : StandsAt(lpsStates, l)

\* A loop's variable is INVALID_ID again when the loop has been left.
LocalsInv == \A h \in 1..Len(task.code) :
               lpuIds[h] # INVALID_ID => h \in Enclosing(pc) \/ (AtLoop /\ h = pc)

\* Each loop under way has its container bounded.
BoundsInv ==
  /\ BoundsNested
  /\ \A h \in Enclosing(pc) : lpsStates[task.code[h].container].bound
  /\ AtLoop /\ ~IsFirst => lpsStates[Container].bound

TypeOK == /\ task \in Tasks
          /\ threadIds = [t \in ThreadsOf(task) |-> ThreadIds(task, t)]
          /\ thread \in ThreadsOf(task)
          /\ pc \in 1..(Len(task.code) + 1)
          /\ lpsStates \in [LpsIds(task) -> [range : [startId : Int, endId : Int],
                                            current : Int, bound : BOOLEAN, lpu : Int]]
          /\ lpuIds \in [1..Len(task.code) -> Int]
          /\ call \in [status : {"idle", "called", "found", "null"}, lps : LpsIds(task),
                        previous : Int]

Inv == /\ TypeOK /\ CallInv /\ CurrentInv /\ LocalsInv /\ BoundsInv
       /\ executed = SetToBag(Past)
=============================================================================
