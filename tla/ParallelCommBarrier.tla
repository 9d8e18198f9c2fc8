------------------------ MODULE ParallelCommBarrier -------------------------
(***************************************************************************)
(* How the PPU controllers of one segment resolve one communicated data    *)
(* dependency: ParallelCommBarrier::wait (communication/                   *)
(* parallel_comm_barrier.cc) as SendBarrier and ReceiveBarrier specialise  *)
(* it (communication/communicator.{h,cc}), called from the loop that       *)
(* CompositeStage::generateInvocationCode generates around it.             *)
(*                                                                         *)
(* A PPU controller repeats: wait on the reverse barrier until all readers *)
(* of the last update are done; run the updating stage; report to the send *)
(* barrier, with something to send or passively; report to the receive     *)
(* barrier; run the stage that uses the data.                              *)
(*                                                                         *)
(* Both barriers pass through the phases of a transfer with the help of a  *)
(* pthread_barrier_t; the last thread to report holds the mutex throughout *)
(* and does the transfer itself.                                           *)
(***************************************************************************)
EXTENDS Integers, FiniteSets

CONSTANTS Senders,          \* PPUs that take part in the send barrier
          Receivers,        \* PPUs that take part in the receive barrier
          Kinds,            \* the kinds of communicator to consider
          NumBuffers,       \* bound: the communication buffers of each direction
          MaxRounds         \* bound: iterations of the loop

Threads == Senders \cup Receivers
Sides   == {"send", "receive"}
Members(s) == IF s = "send" THEN Senders ELSE Receivers
Size(s)    == Cardinality(Members(s))
Buffers == 0..(NumBuffers - 1)
Rounds  == 0..(MaxRounds - 1)

\* The subclasses of Communicator; UpSyncCommunicator by its commMode.
AllKinds == {"Replication", "GhostRegion", "UpGather", "UpSendReceive", "Down",
             "Cross", "Scalar"}

(* Thread 0 of a segment leads its group in every LPS, so a segment that both *)
(* sends and receives has a PPU that does both.                               *)
ASSUME ParallelCommBarrierAssumption ==
  /\ IsFiniteSet(Senders) /\ IsFiniteSet(Receivers)
  /\ Senders \cap Receivers # {}
  /\ Kinds \subseteq AllKinds /\ Kinds # {}
  /\ NumBuffers \in Nat /\ MaxRounds \in Nat

VARIABLES
  kind,           \* the subclass the communicator belongs to
  stage,          \* stage[t]: what PPU t does in its loop
  pc,             \* pc[t]: where t stands in wait(), while stage[t] is a side
  commCounter,    \* commCounter[t]: the iteration number t passes to wait()
  executed,       \* executed[t]: the updating stage ran (its counter is > 0)
  rearmed,        \* the threads waiting on the reverse barrier
  count,          \* count[s]: _count of the barrier of side s
  mutex,          \* mutex[s]
  signals,        \* signals[s]: REQUESTING_COMMUNICATION entries of _signalList
  activeSignals,  \* activeSignals[s]
  order,          \* order[t]: the thread's share of the parallel processing
  gate,           \* gate[s]: the threads blocked in pthread_barrier_wait
  iterationNo,    \* the communicator's
  prepared,       \* prepared[b]: times buffer b was filled since the last send
  unread,         \* unread[b]: buffer b holds received data not yet written back
  sent, received  \* history: the rounds in which data went out, came in

loopVars    == <<stage, commCounter, executed, rearmed>>
barrierVars == <<count, mutex, signals, activeSignals, gate>>
dataVars    == <<iterationNo, prepared, unread, sent, received>>
vars == <<kind, loopVars, pc, barrierVars, order, dataVars>>

Init == /\ kind \in Kinds
        /\ stage         = [t \in Threads |-> "rearm"]
        /\ pc            = [t \in Threads |-> "call"]
        /\ commCounter   = [t \in Threads |-> 0]
        /\ executed      = [t \in Threads |-> FALSE]
        /\ rearmed       = {}
        /\ count         = [s \in Sides |-> Size(s)]
        /\ mutex         = [s \in Sides |-> 1]
        /\ signals       = [s \in Sides |-> 0]
        /\ activeSignals = [s \in Sides |-> 0]
        /\ order         = [t \in Threads |-> 0]
        /\ gate          = [s \in Sides |-> {}]
        /\ iterationNo   = 0
        /\ prepared      = [b \in Buffers |-> 0]
        /\ unread        = [b \in Buffers |-> FALSE]
        /\ sent = {} /\ received = {}

-----------------------------------------------------------------------------
(* What the subclasses of Communicator override. *)

\* afterSend() advances iterationNo: no receive is to follow in the same round.
AdvancesOnSend == kind # "UpGather"

\* sendData() leaves data in the receive buffers, too: what it has exchanged
\* with the other segments, or this segment's own part of the update.
FillsOnSend == kind \in {"GhostRegion", "Cross", "Down"}

\* receiveData() leaves data in the receive buffers.
FillsOnReceive == kind \notin {"GhostRegion", "Scalar"}

Last(t) == order[t] = 0

\* for (int i = currentPpuOrder; i < buffers; i += participantsCount)
Share(t, s) == {b \in Buffers : b % Size(s) = order[t]}

\* performSendPreprocessing, perfromRecvPreprocessing
ToPrepare(t, s) == IF s = "send" /\ kind # "Scalar" THEN Share(t, s) ELSE {}

\* Mutant: the one PPU that writes a down-sync back takes only its share.
ToWriteBack_Share(t, s) ==
  IF s = "send" THEN IF FillsOnSend /\ (kind = "Down" => Last(t)) THEN Share(t, s) ELSE {}
                ELSE IF FillsOnReceive THEN Share(t, s) ELSE {}
\* performSendPostprocessing, perfromRecvPostprocessing
ToWriteBack(t, s) ==
  CASE s = "send" /\ kind = "Down"      -> IF Last(t) THEN Buffers ELSE {}
    [] s = "send" /\ kind # "Down"      -> IF FillsOnSend THEN Share(t, s) ELSE {}
    [] s = "receive"                    -> IF FillsOnReceive THEN Share(t, s) ELSE {}

-----------------------------------------------------------------------------
(* The generated loop. *)

\* The stage after s; a PPU skips what its LPS has no part in.
StageAfter(t, s) ==
  CASE s = "rearm"   -> IF t \in Senders THEN "update" ELSE "receive"
    [] s = "update"  -> "send"
    [] s = "send"    -> IF t \in Receivers THEN "receive" ELSE "rearm"
    [] s = "receive" -> "use"
    [] s = "use"     -> "rearm"

Advance(t) == stage' = [stage EXCEPT ![t] = StageAfter(t, @)]

\* Mutant: the update goes ahead before the readers of the last one are done.
Rearm_Unguarded(t) == /\ stage[t] = "rearm"
                      /\ commCounter[t] < MaxRounds
                      /\ Advance(t)
                      /\ UNCHANGED <<kind, pc, commCounter, executed, rearmed,
                                     barrierVars, order, dataVars>>
\* The reverse barrier: the last thread to reach it lets all of them pass.
Rearm(t) ==
  /\ stage[t] = "rearm"
  /\ t \notin rearmed
  /\ commCounter[t] < MaxRounds
  /\ IF rearmed \cup {t} = Threads
       THEN /\ rearmed' = {}
            /\ stage' = [u \in Threads |-> StageAfter(u, "rearm")]
       ELSE /\ rearmed' = rearmed \cup {t}
            /\ UNCHANGED stage
  /\ UNCHANGED <<kind, pc, commCounter, executed, barrierVars, order, dataVars>>

\* The updating stage, whose activating condition may not hold for this PPU.
Update(t) == /\ stage[t] = "update"
             /\ \E ran \in BOOLEAN : executed' = [executed EXCEPT ![t] = ran]
             /\ Advance(t)
             /\ UNCHANGED <<kind, pc, commCounter, rearmed, barrierVars, order, dataVars>>

\* The stage that reads the data.
Use(t) == /\ stage[t] = "use"
          /\ Advance(t)
          /\ UNCHANGED <<kind, pc, commCounter, executed, rearmed, barrierVars,
                         order, dataVars>>

-----------------------------------------------------------------------------
(* ParallelCommBarrier::wait *)

Goto(t, label) == pc' = [pc EXCEPT ![t] = label]
\* A REQUESTING_COMMUNICATION signal: always for a receive, for a send only if
\* there is an update to send.
Requests(t) == stage[t] = "receive" \/ executed[t]

\* Mutant: shouldWaitOnReceive as the comment above it has it (communicator.h:128):
\* a PPU that finds the data received already does not wait.
Enter_BypassResolved(t, s) ==
  /\ stage[t] = s /\ pc[t] = "call"
  /\ mutex[s] > 0
  /\ IF s = "receive" /\ commCounter[t] < iterationNo
       THEN /\ Goto(t, "return")
            /\ UNCHANGED <<mutex, count, order, signals>>
       ELSE /\ mutex' = [mutex EXCEPT ![s] = @ - 1]
            /\ count' = [count EXCEPT ![s] = @ - 1]
            /\ order' = [order EXCEPT ![t] = count[s] - 1]
            /\ signals' = [signals EXCEPT ![s] = @ + (IF Requests(t) THEN 1 ELSE 0)]
            /\ Goto(t, IF count[s] = 1 THEN "tally" ELSE "unlock")
  /\ UNCHANGED <<kind, loopVars, activeSignals, gate, dataVars>>
\* sem_wait(&_mutex); take a number and register the signal; shouldWait() holds
\* for every communicator.
Enter(t, s) ==
  /\ stage[t] = s /\ pc[t] = "call"
  /\ mutex[s] > 0
  /\ mutex' = [mutex EXCEPT ![s] = @ - 1]
  /\ count' = [count EXCEPT ![s] = @ - 1]
  /\ order' = [order EXCEPT ![t] = count[s] - 1]
  /\ signals' = [signals EXCEPT ![s] = @ + (IF Requests(t) THEN 1 ELSE 0)]
  /\ Goto(t, IF count[s] = 1 THEN "tally" ELSE "unlock")
  /\ UNCHANGED <<kind, loopVars, activeSignals, gate, dataVars>>

\* Not the last one: sem_post(&_mutex) at once.
Unlock(t, s) == /\ stage[t] = s /\ pc[t] = "unlock"
                /\ mutex' = [mutex EXCEPT ![s] = @ + 1]
                /\ Goto(t, "tallied")
                /\ UNCHANGED <<kind, loopVars, count, signals, activeSignals, gate,
                               order, dataVars>>

\* The last one counts the active signals.
Tally(t, s) == /\ stage[t] = s /\ pc[t] = "tally"
               /\ activeSignals' = [activeSignals EXCEPT ![s] = signals[s]]
               /\ Goto(t, "tallied")
               /\ UNCHANGED <<kind, loopVars, count, mutex, signals, gate, order, dataVars>>

\* Where a thread goes on when the pthread barrier lets it pass.
PastGate(t) == CASE pc[t] = "tallied"     -> "decide"
                 [] pc[t] = "ready"       -> IF Last(t) THEN "transfer"
                                                        ELSE "transferred"
                 [] pc[t] = "transferred" -> "after"
                 [] pc[t] = "finished"    -> IF Last(t) THEN "release" ELSE "return"

Gated == {"tallied", "ready", "transferred", "finished"}

\* pthread_barrier_wait(&_barrier): the last of _size callers lets all pass.
WaitAtGate(t, s) ==
  /\ stage[t] = s /\ pc[t] \in Gated
  /\ t \notin gate[s]
  /\ LET waiting == gate[s] \cup {t} IN
       IF Cardinality(waiting) = Size(s)
         THEN /\ gate' = [gate EXCEPT ![s] = {}]
              /\ pc' = [u \in Threads |-> IF u \in waiting THEN PastGate(u) ELSE pc[u]]
         ELSE /\ gate' = [gate EXCEPT ![s] = waiting]
              /\ UNCHANGED pc
  /\ UNCHANGED <<kind, loopVars, count, mutex, signals, activeSignals, order, dataVars>>

\* Mutant: each PPU goes by its own signal.
ShouldPerformTransfer_OwnSignal(t, s) == /\ Requests(t)
                                         /\ s = "receive" => commCounter[t] = iterationNo
\* shouldSend, shouldReceive
ShouldPerformTransfer(t, s) == /\ activeSignals[s] > 0
                               /\ s = "receive" => commCounter[t] = iterationNo

Decide(t, s) ==
  /\ stage[t] = s /\ pc[t] = "decide"
  /\ Goto(t, IF ShouldPerformTransfer(t, s) THEN "before"
             ELSE IF Last(t) THEN "reset" ELSE "finished")
  /\ UNCHANGED <<kind, loopVars, barrierVars, order, dataVars>>

Prepare(t, s) ==
  prepared' = [b \in Buffers |-> prepared[b] + (IF b \in ToPrepare(t, s) THEN 1 ELSE 0)]

\* Mutant: the last thread does not wait for the others to finish theirs.
BeforeTransfer_NoGate(t, s) ==
  /\ stage[t] = s /\ pc[t] = "before"
  /\ Prepare(t, s)
  /\ Goto(t, IF Last(t) THEN "transfer" ELSE "ready")
  /\ UNCHANGED <<kind, loopVars, barrierVars, order, iterationNo, unread, sent, received>>
\* beforeTransfer: fill this thread's share of the buffers to send.
BeforeTransfer(t, s) ==
  /\ stage[t] = s /\ pc[t] = "before"
  /\ Prepare(t, s)
  /\ Goto(t, "ready")
  /\ UNCHANGED <<kind, loopVars, barrierVars, order, iterationNo, unread, sent, received>>

\* sendData()
SendData(t) == /\ sent' = sent \cup {commCounter[t]}
               /\ prepared' = [b \in Buffers |-> 0]
               /\ unread' = [b \in Buffers |-> unread[b] \/ FillsOnSend]
               /\ UNCHANGED received

\* receiveData()
ReceiveData(t) == /\ received' = received \cup {commCounter[t]}
                  /\ unread' = [b \in Buffers |-> unread[b] \/ FillsOnReceive]
                  /\ UNCHANGED <<sent, prepared>>

\* Mutant: afterSend() leaves iterationNo alone.
AfterData_NoAfterSend(s) == iterationNo' = IF s = "receive" THEN iterationNo + 1
                                                            ELSE iterationNo
\* afterSend(), afterReceive()
AfterData(s) == iterationNo' = IF s = "receive" \/ AdvancesOnSend THEN iterationNo + 1
                                                                  ELSE iterationNo

\* transferFunction, by the last thread only.
TransferFunction(t, s) ==
  /\ stage[t] = s /\ pc[t] = "transfer"
  /\ IF s = "send" THEN SendData(t) ELSE ReceiveData(t)
  /\ AfterData(s)
  /\ Goto(t, "transferred")
  /\ UNCHANGED <<kind, loopVars, barrierVars, order>>

WriteBack(t, s) == unread' = [b \in Buffers |-> unread[b] /\ b \notin ToWriteBack(t, s)]

\* Mutant: the others do not wait for the last one to finish.
AfterTransfer_NoGate(t, s) ==
  /\ stage[t] = s /\ pc[t] = "after"
  /\ WriteBack(t, s)
  /\ Goto(t, IF Last(t) THEN "reset" ELSE "return")
  /\ UNCHANGED <<kind, loopVars, barrierVars, order, iterationNo, prepared, sent, received>>
\* afterTransfer: write this thread's share of the received buffers back.
AfterTransfer(t, s) ==
  /\ stage[t] = s /\ pc[t] = "after"
  /\ WriteBack(t, s)
  /\ Goto(t, IF Last(t) THEN "reset" ELSE "finished")
  /\ UNCHANGED <<kind, loopVars, barrierVars, order, iterationNo, prepared, sent, received>>

\* reset(), by the last thread, before it joins the others one last time.
Reset(t, s) ==
  /\ stage[t] = s /\ pc[t] = "reset"
  /\ count' = [count EXCEPT ![s] = Size(s)]
  /\ signals' = [signals EXCEPT ![s] = 0]
  /\ activeSignals' = [activeSignals EXCEPT ![s] = 0]
  /\ Goto(t, "finished")
  /\ UNCHANGED <<kind, loopVars, mutex, gate, order, dataVars>>

\* The last thread's sem_post(&_mutex).
Release(t, s) == /\ stage[t] = s /\ pc[t] = "release"
                 /\ mutex' = [mutex EXCEPT ![s] = @ + 1]
                 /\ Goto(t, "return")
                 /\ UNCHANGED <<kind, loopVars, count, signals, activeSignals, gate,
                                order, dataVars>>

\* Back in the generated code: commCounter++ after the receive, or in its place
\* if the PPU does not receive; the stage's counter is cleared after the send.
Return(t, s) ==
  /\ stage[t] = s /\ pc[t] = "return"
  /\ Goto(t, "call")
  /\ Advance(t)
  /\ executed' = [executed EXCEPT ![t] = FALSE]
  /\ commCounter' = [commCounter EXCEPT
                       ![t] = @ + (IF s = "receive" \/ t \notin Receivers THEN 1 ELSE 0)]
  /\ UNCHANGED <<kind, rearmed, barrierVars, order, dataVars>>

Wait(t, s) == \/ Enter(t, s) \/ Unlock(t, s) \/ Tally(t, s) \/ WaitAtGate(t, s)
              \/ Decide(t, s) \/ BeforeTransfer(t, s) \/ TransferFunction(t, s)
              \/ AfterTransfer(t, s) \/ Reset(t, s) \/ Release(t, s) \/ Return(t, s)

Step(t) == \/ Rearm(t) \/ Update(t) \/ Use(t)
           \/ \E s \in Sides : Wait(t, s)

Next == \E t \in Threads : Step(t)

Spec == Init /\ [][Next]_vars

\* PPU controllers are pthreads; each one that can go on eventually does.
FairSpec == Spec /\ \A t \in Threads : WF_vars(Step(t))

-----------------------------------------------------------------------------
\* The threads that pthread_barrier_wait lets pass have all come to the same phase:
\* they took the same decision about the transfer, though each of them took it for
\* itself and the last one may already be resetting the barrier.
SamePhase ==
  [][\A s \in Sides : gate[s] # {} /\ gate'[s] = {} =>
       \A t, u \in Members(s) : stage[t] = s /\ pc[t] = pc[u]]_vars

\* The data goes out when every buffer has been filled, and filled once; and no
\* thread still fills or empties one while the last thread transfers.
TransferAlone ==
  \A t \in Threads : pc[t] = "transfer" =>
    /\ stage[t] = "send" => \A b \in Buffers : prepared[b] = (IF kind = "Scalar" THEN 0 ELSE 1)
    /\ \A u \in Threads : u # t => ~(stage[u] \in Sides
                                      /\ pc[u] \in {"before", "transfer", "after"})

\* Whoever uses the data finds all of what was received written back.
UsedWhenComplete ==
  \A t \in Threads : stage[t] = "use" => \A b \in Buffers : ~unread[b]

\* No PPU changes the data while another one still reads what it was before.
WriteAfterRead ==
  \A w, r \in Threads : ~(stage[w] = "update" /\ stage[r] = "use")

\* When a receiving PPU is done with round k, the data of round k has come in
\* from another segment or gone out from this one: never neither, and both only
\* where a gathering wants both.
ResolvedOnce ==
  /\ \A t \in Receivers : \A k \in Rounds : k < commCounter[t] =>
       k \in received \/ (AdvancesOnSend /\ k \in sent)
  /\ AdvancesOnSend => sent \cap received = {}

\* The receive barrier implements the rendezvous of the receiving PPUs.
ReceiveCalls(t) == commCounter[t] + (IF stage[t] = "receive" /\ pc[t] # "call" THEN 1 ELSE 0)
Abstract == INSTANCE Rendezvous WITH Threads  <- Receivers,
                                     arrived  <- [t \in Receivers |-> ReceiveCalls(t)],
                                     departed <- [t \in Receivers |-> commCounter[t]]
ReceivesTogether == Abstract!Spec

\* The PPUs get through all their rounds: no one waits forever for another.
AllRoundsComplete ==
  <>[](\A t \in Threads : stage[t] = "rearm" /\ commCounter[t] = MaxRounds)
=============================================================================
