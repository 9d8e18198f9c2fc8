--------------------------- MODULE SegmentExchange ----------------------------
(***************************************************************************)
(* How the segments of a task bring the parts of its arrays in step: each  *)
(* works out its data exchanges, sets up the communicators that            *)
(* generateCommunicators (codegen/utils/communication.cc) creates for      *)
(* them, and runs the stages of the task, sending after the stages that    *)
(* update data and receiving before those that use it, as the communicator *)
(* classes of communication/array_communicator.cc do over MPI.             *)
(*                                                                         *)
(* A segment is one process here: of its PPUs, one does all the transfers  *)
(* (ParallelCommBarrier).  What it does follows from the program: which    *)
(* memory each stage updates and which dependency is sent or received      *)
(* next.  The contents of an index of an array, or of a scalar, which is   *)
(* index 0 of a memory of its own, is the number of the round that updated *)
(* it last.  Scalars have the communicators of scalar_communicator.cc.     *)
(*                                                                         *)
(* A program p has                                                         *)
(*   p.memories[m][s]: the indices that segment s holds in memory m, the   *)
(*       parts of an LPS, and p.interior[m][s] those outside the padding;  *)
(*   p.updaters[m]: the segments that update their interior of m in the    *)
(*       first round, in the second, ...;                                  *)
(*   p.deps[d]: a dependency, of a kind, from one memory to another, with  *)
(*       the segments below and the indices within each confinement, or,   *)
(*       for a scalar, with the segments that have PPUs in the updating    *)
(*       and in the using LPS;                                             *)
(*   p.steps: the stages and the communication between them, in order.     *)
(***************************************************************************)
EXTENDS DataExchanges, Functions

CONSTANTS Programs,      \* the programs to consider, a sequence
          MaxRounds      \* bound: how often a program runs its steps

VARIABLES
  program,       \* which program it is
  agenda,        \* agenda[s]: the communicators of segment s and the tasks it has to do, which stay
  at,            \* at[s]: the position of segment s in its agenda, and in the task there
  memory,        \* memory[s][m][i]: the contents of index i in memory m of s
  buffers,       \* buffers[s][d][k][i]: the contents of the k-th communication buffer
  iterationNo,   \* iterationNo[s][d]: of the communicator of s
  group,         \* group[s][d]: its MPI communicator and the segments in it
  mode,          \* mode[s][d]: the commMode of an up or down communicator
  source,        \* source[s]: the segment that announced itself as the sender
  awaited,       \* awaited[s]: the places of the buffers that s waits for, 0 for none
  buffering, channels, calls

MPI == INSTANCE Mpi WITH Processes <- Segments
mpi == <<buffering, channels, calls>>
vars == <<program, agenda, at, memory, buffers, iterationNo, group, mode, source, awaited, mpi>>

-----------------------------------------------------------------------------
(* What the segments work out before anything is sent.                     *)

\* Confinement: its participants are the segments below a container, with what they hold of it.
Confined(p, d, confinement) ==
  LET dep == p.deps[d]
      Held(parts) == [s \in Segments |-> IF s \in confinement.members
                                         THEN parts[s] \cap confinement.indices ELSE {}]
  IN [sends    |-> Held(p.interior[dep.from]),
      receives |-> Held(p.memories[dep.to]),
      intra    |-> dep.from = dep.to]

\* getDataExchangeListFor_: of all confinements that the segment belongs to.
DataExchangeList(p, d, s) ==
  FlattenSeq([c \in DOMAIN p.deps[d].confinements |->
    LET confinement == p.deps[d].confinements[c]
    IN IF s \in confinement.members THEN getAllDataExchanges(Confined(p, d, confinement), s)
       ELSE <<>>])

ScalarKinds == {"ScalarReplica", "ScalarUp", "ScalarDown"}
isScalar(dep) == dep.kind \in ScalarKinds

Tags(exchanges) == UNION {e.senders \union e.receivers : e \in ToSet(exchanges)}

ScalarCommunicator(dep, s) ==
  [takesPart |-> s \in dep.senders \union dep.receivers,
   list      |-> <<>>,
   participants |-> dep.senders \union dep.receivers]

\* Mutant: setupCommunicator(false) for all dependencies.
Communicator_OwnBuffers(p, d, s) ==
  LET list == SelectSeq(DataExchangeList(p, d, s), LAMBDA e : involvesLocalSegment(e, s))
  IN IF isScalar(p.deps[d]) THEN ScalarCommunicator(p.deps[d], s)
     ELSE [takesPart |-> list # <<>>, list |-> list, participants |-> Tags(list)]

\* getCommunicatorFor_: the buffers, and the segments that setupCommunicator(true) takes, those of
\* all exchanges, or setupCommunicator(false), those of the buffers.
Communicator(p, d, s) ==
  IF isScalar(p.deps[d]) THEN ScalarCommunicator(p.deps[d], s)
  ELSE LET all  == DataExchangeList(p, d, s)
           list == SelectSeq(all, LAMBDA e : involvesLocalSegment(e, s))
       IN [takesPart    |-> list # <<>>,
           list         |-> list,
           participants |-> Tags(IF p.deps[d].kind \in {"Up", "Down"} THEN all ELSE list)]

\* shouldAllocateGroupResources
GroupKinds == {"Replication", "Up", "Down"} \union ScalarKinds

\* The set-up of one communicator, in generateCommunicators.
SetupTasks(p, d, s, communicator) ==
  LET task(do) == [do |-> do, dep |-> d, round |-> 0]
      alone == Cardinality(communicator.participants) = 1
  IN CASE p.deps[d].kind \notin GroupKinds -> <<>>
       [] p.deps[d].kind \in GroupKinds /\ ~communicator.takesPart ->
            IF communicator.participants = Segments THEN <<>> ELSE <<task("exclude")>>
       [] p.deps[d].kind \in ScalarKinds /\ communicator.takesPart ->
            <<task("split"), task("ranks")>> \o (IF alone THEN <<>> ELSE <<task("roles")>>)
       [] p.deps[d].kind \in {"Replication", "Up", "Down"} /\ communicator.takesPart ->
            (IF communicator.participants = Segments THEN <<>> ELSE <<task("split"), task("ranks")>>)
            \o (IF p.deps[d].kind = "Replication" THEN <<>> ELSE <<task("mode")>>)

\* What is left to do for a segment of the steps of the program in round r.
RoundTasks(p, r, s, communicators) ==
  LET Concerns(step) ==
        CASE step.do = "update"  -> s \in p.updaters[step.of][r]
          [] step.do = "send"    -> /\ s \in p.updaters[p.deps[step.of].from][r]
                                    /\ communicators[step.of].takesPart
          [] step.do = "receive" -> /\ communicators[step.of].takesPart
                                    /\ IF isScalar(p.deps[step.of]) THEN s \in p.deps[step.of].receivers
                                       ELSE p.memories[p.deps[step.of].to][s] # {}
      steps == SelectSeq(p.steps, Concerns)
  IN [i \in 1..Len(steps) |-> [do |-> steps[i].do, dep |-> steps[i].of, round |-> r]]

Agenda(p, s) ==
  LET communicators == [d \in DOMAIN p.deps |-> Communicator(p, d, s)]
  IN [communicators |-> communicators,
      tasks |-> FlattenSeq([d \in DOMAIN p.deps |-> SetupTasks(p, d, s, communicators[d])])
                \o FlattenSeq([r \in 1..MaxRounds |-> RoundTasks(p, r, s, communicators)])]

-----------------------------------------------------------------------------
(* The state of the segments.                                              *)

deps == Programs[program].deps
Tasks(s) == agenda[s].tasks
commBufferList(s, d) == agenda[s].communicators[d].list
participantSegments(s, d) == agenda[s].communicators[d].participants

Finished(s) == at[s].task > Len(Tasks(s))
Current(s) == Tasks(s)[at[s].task]
Doing(s, do, phase) == ~Finished(s) /\ Current(s).do = do /\ at[s].phase = phase

NextTask(s) == at' = [at EXCEPT ![s] = [task |-> @.task + 1, phase |-> "begin"]]
Phase(s, phase) == at' = [at EXCEPT ![s].phase = phase]

World == [id |-> <<0, 0>>, members |-> Segments]

Init ==
  /\ program \in DOMAIN Programs
  /\ agenda = [s \in Segments |-> Agenda(Programs[program], s)]
  /\ at = [s \in Segments |-> [task |-> 1, phase |-> "begin"]]
  /\ memory = [s \in Segments |-> [m \in DOMAIN Programs[program].memories |->
                 [i \in Programs[program].memories[m][s] |-> 0]]]
  /\ buffers = [s \in Segments |-> [d \in DOMAIN deps |->
                 [k \in DOMAIN commBufferList(s, d) |->
                    [i \in commBufferList(s, d)[k].content |-> 0]]]]
  /\ iterationNo = [s \in Segments |-> [d \in DOMAIN deps |-> 0]]
  /\ group = [s \in Segments |-> [d \in DOMAIN deps |-> World]]
  /\ mode = [s \in Segments |-> [d \in DOMAIN deps |-> "unknown"]]
  /\ source = [s \in Segments |-> MPI!ANY_SOURCE]
  /\ awaited = [s \in Segments |-> <<>>]
  /\ MPI!Init

-----------------------------------------------------------------------------
(* The set-up: SegmentGroup and the modes of the collective communicators. *)

Excluded == -1
First(set) == Min(set)

\* Mutant: one colour for all groups.
Colour_Common(s, d) == 0

\* The colour of a group, that of discoverGroupAndSetupCommunicator for scalars.
Colour(s, d) == IF isScalar(deps[d]) THEN 0 ELSE First(participantSegments(s, d))

\* SegmentGroup::setupCommunicator and excludeSegmentFromGroupSetup: MPI_Comm_split, of which no
\* segment can tell which dependency the others do it for.
Split(s) ==
  LET colour == IF Current(s).do = "exclude" THEN Excluded ELSE Colour(s, Current(s).dep)
  IN /\ Doing(s, "split", "begin") \/ Doing(s, "exclude", "begin")
     /\ MPI!Issue(s, MPI!Allgather(s, World.id, Segments, <<"split">>, <<colour>>))
     /\ Phase(s, "wait")
     /\ UNCHANGED <<program, agenda, memory, buffers, iterationNo, group, mode, source, awaited>>

\* The new communicators are told apart by how many a segment has made before, too.
Splits(s) == Cardinality({i \in 1..at[s].task : Tasks(s)[i].do \in {"split", "exclude"}})
SplitDone(s, outcome) ==
  LET others == MPI!Others(s, Segments)
      d == Current(s).dep
      colour == Colour(s, d)
      members == {s} \union {q \in ToSet(others) : \E i \in DOMAIN others :
                               others[i] = q /\ outcome.data[i] = <<colour>>}
  IN /\ Doing(s, "split", "wait") \/ Doing(s, "exclude", "wait")
     /\ group' = IF Current(s).do = "exclude" THEN group
                 ELSE [group EXCEPT ![s][d] = [id |-> <<Splits(s), colour>>, members |-> members]]
     /\ NextTask(s)
     /\ UNCHANGED <<program, agenda, memory, buffers, iterationNo, mode, source, awaited>>

\* SegmentGroup::setupCommunicator: the ranks of the members of the group.
GatherRanks(s) ==
  LET g == group[s][Current(s).dep]
  IN /\ Doing(s, "ranks", "begin")
     /\ MPI!Issue(s, MPI!Allgather(s, g.id, g.members, <<"ranks">>, <<s>>))
     /\ Phase(s, "wait")
     /\ UNCHANGED <<program, agenda, memory, buffers, iterationNo, group, mode, source, awaited>>
RanksGathered(s) ==
  /\ Doing(s, "ranks", "wait")
  /\ NextTask(s)
  /\ UNCHANGED <<program, agenda, memory, buffers, iterationNo, group, mode, source, awaited>>

\* UpSyncCommunicator::setupCommunicator has the receiver decide, DownSyncCommunicator's the first
\* sender.
ModeSetter(s, d) ==
  IF deps[d].kind = "Up" THEN First(commBufferList(s, d)[1].receivers)
  ELSE Min({First(b.senders) : b \in ToSet(commBufferList(s, d))})
Collective(s, d) == IF Len(commBufferList(s, d)) > 1 THEN <<1>> ELSE <<0>>
CommMode(kind, collective) ==
  CASE kind = "Up"   -> IF collective = <<1>> THEN "gather" ELSE "send_receive"
    [] kind = "Down" -> IF collective = <<1>> THEN "scatter" ELSE "broadcast"
TellMode(s) ==
  LET d == Current(s).dep
      g == group[s][d]
  IN /\ Doing(s, "mode", "begin")
     /\ MPI!Issue(s, MPI!Bcast(s, g.id, g.members, ModeSetter(s, d), Collective(s, d)))
     /\ Phase(s, "wait")
     /\ UNCHANGED <<program, agenda, memory, buffers, iterationNo, group, mode, source, awaited>>
ModeTold(s, outcome) ==
  LET d == Current(s).dep
      collective == IF s = ModeSetter(s, d) THEN Collective(s, d) ELSE outcome.data[1]
  IN /\ Doing(s, "mode", "wait")
     /\ mode' = [mode EXCEPT ![s][d] = CommMode(deps[d].kind, collective)]
     /\ NextTask(s)
     /\ UNCHANGED <<program, agenda, memory, buffers, iterationNo, group, source, awaited>>

\* ScalarCommunicator::setupCommunicator: who sends and who receives.
YesNo(b) == IF b THEN 1 ELSE 0
ShareRoles(s) ==
  LET d == Current(s).dep
      g == group[s][d]
  IN /\ Doing(s, "roles", "begin")
     /\ MPI!Issue(s, MPI!Allgather(s, g.id, g.members, <<"roles">>,
                       <<YesNo(s \in deps[d].senders), YesNo(s \in deps[d].receivers)>>))
     /\ Phase(s, "wait")
     /\ UNCHANGED <<program, agenda, memory, buffers, iterationNo, group, mode, source, awaited>>
RolesShared(s, outcome) ==
  LET d == Current(s).dep
      others == MPI!Others(s, group[s][d].members)
      Having(role, roles) == {others[i] : i \in {i \in DOMAIN others : outcome.data[i][role] = 1}}
                             \union ({s} \cap roles)
  IN /\ Doing(s, "roles", "wait")
     /\ mode' = [mode EXCEPT ![s][d] = [senders   |-> Having(1, deps[d].senders),
                                       receivers |-> Having(2, deps[d].receivers)]]
     /\ NextTask(s)
     /\ UNCHANGED <<program, agenda, memory, buffers, iterationNo, group, source, awaited>>

-----------------------------------------------------------------------------
(* Communication buffers, by their places in commBufferList.               *)

Buffer(s, d, k) == commBufferList(s, d)[k]
isVirtual(s, d, k) == isIntraSegmentExchange(Buffer(s, d, k), s)
isSendActivated(s, d, k) == s \in Buffer(s, d, k).senders
isReceiveActivated(s, d, k) == s \in Buffer(s, d, k).receivers

\* DataExchange::compareTo
Precedes(a, b, forReceive) ==
  LET Tag(e) == SetToSortSeq(IF forReceive THEN e.senders ELSE e.receivers, <)
      x == Tag(a)
      y == Tag(b)
      differ == {i \in DOMAIN x \cap DOMAIN y : x[i] # y[i]}
  IN IF differ # {} THEN x[Min(differ)] < y[Min(differ)]
     ELSE \/ Len(x) > Len(y)
          \/ Len(x) = Len(y) /\ Cardinality(a.content) < Cardinality(b.content)

\* getSortedList, after seperateLocalAndRemoteBuffers has left out the virtual buffers.
SortedRemote(s, d, forReceive) ==
  LET list == commBufferList(s, d)
      Insert(sorted, k) ==
        LET behind == {j \in DOMAIN sorted : Precedes(list[k], list[sorted[j]], forReceive)}
        IN IF behind = {} THEN Append(sorted, k) ELSE InsertAt(sorted, Min(behind), k)
      Active(k) == /\ ~isVirtual(s, d, k)
                   /\ IF forReceive THEN isReceiveActivated(s, d, k) ELSE isSendActivated(s, d, k)
  IN FoldLeft(Insert, <<>>, SelectSeq([k \in DOMAIN list |-> k], Active))

\* setBufferTag: an identifier of the dependency and of the first segment on either side.
BufferTag(s, d, k) ==
  <<"tag", d, First(Buffer(s, d, k).senders), First(Buffer(s, d, k).receivers)>>

Copied(target, origin, indices) ==
  [i \in DOMAIN target |-> IF i \in indices THEN origin[i] ELSE target[i]]

\* readData of the buffers to send: a virtual buffer goes to the memory of the receiver at once.
readData(s, d) ==
  LET own == memory[s][deps[d].from]
      virtual == UNION {Buffer(s, d, k).content : k \in
                          {k \in DOMAIN commBufferList(s, d) : isVirtual(s, d, k)}}
  IN /\ buffers' = [buffers EXCEPT ![s][d] = [k \in DOMAIN @ |->
                      IF isSendActivated(s, d, k) /\ ~isVirtual(s, d, k)
                      THEN Restrict(own, Buffer(s, d, k).content) ELSE @[k]]]
     /\ memory' = [memory EXCEPT ![s][deps[d].to] = Copied(@, own, virtual)]

\* writeData of the given buffers, one after the other.
Written(target, s, d, contents, places) ==
  FoldLeft(LAMBDA f, k : IF k \notin places \/ isVirtual(s, d, k) THEN f
                         ELSE Copied(f, contents[k], Buffer(s, d, k).content),
           target, [k \in DOMAIN commBufferList(s, d) |-> k])

-----------------------------------------------------------------------------
(* The calls of sendData and receiveData: what is sent, what is received   *)
(* and the places of the buffers that it goes into, 0 for none.            *)

Plan(call, into) == [call |-> call, into |-> into]
NoCall == Plan(MPI!Call(<<>>, <<>>), <<>>)
Sends(list) == MPI!Call(list, <<>>)
Receives(list) == MPI!Call(<<>>, list)
Nothing == <<>>

ReplicationPlan(s, d, do) ==
  LET g == group[s][d]
  IN IF do = "receive" /\ source[s] = MPI!ANY_SOURCE THEN NoCall
     ELSE Plan(MPI!Bcast(s, g.id, g.members, source[s], buffers[s][d][1]),
               IF do = "send" THEN <<>> ELSE <<1>>)

\* performTransfer: the receives are part of the send.
GhostRegionPlan(s, d, do) ==
  LET tag == <<"tag", 0>>
      in  == SortedRemote(s, d, TRUE)
      out == SortedRemote(s, d, FALSE)
      Out(k) == MPI!Message(First(Buffer(s, d, k).receivers), World.id, tag, buffers[s][d][k])
      In(k)  == MPI!Receipt(First(Buffer(s, d, k).senders), World.id, tag)
  IN IF do = "receive" THEN NoCall
     ELSE Plan(MPI!Call([i \in DOMAIN out |-> Out(out[i])], [i \in DOMAIN in |-> In(in[i])]), in)

SendBuffer(s, d) == Min({k \in DOMAIN commBufferList(s, d) : isSendActivated(s, d, k)})
UpPlan(s, d, do) ==
  LET g == group[s][d]
      tag == <<"tag", 0>>
      k == SendBuffer(s, d)
      receiver == First(Buffer(s, d, k).receivers)
      others == MPI!Others(s, g.members)
      From(q) == {j \in DOMAIN commBufferList(s, d) :
                    ~isVirtual(s, d, j) /\ isReceiveActivated(s, d, j) /\ First(Buffer(s, d, j).senders) = q}
  IN CASE do = "send" /\ s \in Buffer(s, d, k).receivers -> NoCall
       [] do = "send" /\ s \notin Buffer(s, d, k).receivers /\ mode[s][d] = "send_receive" ->
            Plan(Sends(<<MPI!Message(receiver, g.id, tag, buffers[s][d][k])>>), <<>>)
       [] do = "send" /\ s \notin Buffer(s, d, k).receivers /\ mode[s][d] = "gather" ->
            Plan(MPI!Gatherv(s, g.id, g.members, receiver, buffers[s][d][k]), <<>>)
       [] do = "receive" /\ mode[s][d] = "send_receive" ->
            Plan(Receives(<<MPI!Receipt(MPI!ANY_SOURCE, g.id, tag)>>), <<1>>)
       [] do = "receive" /\ mode[s][d] = "gather" ->
            Plan(MPI!Gatherv(s, g.id, g.members, s, Nothing),
                 [i \in DOMAIN others |-> Max(From(others[i]) \union {0})])

replicated(s, d) ==
  deps[d].kind = "Down" /\ \E b \in ToSet(commBufferList(s, d)) : Cardinality(b.senders) > 1
DownPlan(s, d, do) ==
  LET g == group[s][d]
      DataFor(q) == LET places == {k \in DOMAIN commBufferList(s, d) :
                                     ~isVirtual(s, d, k) /\ q \in Buffer(s, d, k).receivers}
                    IN IF places = {} THEN Nothing ELSE buffers[s][d][Max(places)]
      root == IF do = "send" THEN s
              ELSE IF replicated(s, d) THEN source[s] ELSE First(Buffer(s, d, 1).senders)
      into == IF do = "send" THEN <<>> ELSE <<1>>
  IN CASE mode[s][d] = "broadcast" /\ do = "send" /\ isVirtual(s, d, 1) -> NoCall
       [] mode[s][d] = "broadcast" /\ ~(do = "send" /\ isVirtual(s, d, 1)) ->
            Plan(MPI!Bcast(s, g.id, g.members, root, buffers[s][d][1]), into)
       [] mode[s][d] = "scatter" ->
            Plan(MPI!Scatterv(s, g.id, g.members, root, [q \in g.members |-> DataFor(q)]), into)

\* A segment that sends does not receive what it could have sent itself.
CrossPlan(s, d, do) ==
  LET In(k) == MPI!Receipt(MPI!ANY_SOURCE, World.id, BufferTag(s, d, k))
      in == SelectSeq(SortedRemote(s, d, TRUE),
                      LAMBDA k : do = "receive" \/ ~isSendActivated(s, d, k))
      Out(k) == MPI!ToEach(MPI!Others(s, Buffer(s, d, k).receivers),
                           World.id, BufferTag(s, d, k), buffers[s][d][k])
      out == IF do = "receive" THEN <<>> ELSE SortedRemote(s, d, FALSE)
  IN Plan(MPI!Call(FlattenSeq([i \in DOMAIN out |-> Out(out[i])]), [i \in DOMAIN in |-> In(in[i])]),
          in)

\* The data is the variable itself; nobody but the segment itself means no transfer.
ScalarPlan(s, d, do) ==
  LET g == group[s][d]
      data == memory[s][deps[d].to]
      receiver == First(mode[s][d].receivers)
      root == IF do = "send" THEN s
              ELSE IF deps[d].kind = "ScalarReplica" THEN source[s] ELSE First(mode[s][d].senders)
      into == IF do = "send" THEN <<>> ELSE <<1>>
  IN CASE Cardinality(g.members) = 1 -> NoCall
       [] Cardinality(g.members) > 1 /\ deps[d].kind # "ScalarUp" ->
            IF root = MPI!ANY_SOURCE THEN NoCall
            ELSE Plan(MPI!Bcast(s, g.id, g.members, root, data), into)
       [] Cardinality(g.members) > 1 /\ deps[d].kind = "ScalarUp" ->
            CASE do = "receive" -> Plan(Receives(<<MPI!Receipt(MPI!ANY_SOURCE, g.id, <<"tag", 0>>)>>), into)
              [] do = "send" /\ receiver = s -> NoCall
              [] do = "send" /\ receiver # s ->
                   Plan(Sends(<<MPI!Message(receiver, g.id, <<"tag", 0>>, data)>>), into)

TransferPlan(s, d, do) ==
  CASE deps[d].kind = "Replication" -> ReplicationPlan(s, d, do)
    [] deps[d].kind = "GhostRegion" -> GhostRegionPlan(s, d, do)
    [] deps[d].kind = "Up"          -> UpPlan(s, d, do)
    [] deps[d].kind = "Down"        -> DownPlan(s, d, do)
    [] deps[d].kind = "Cross"       -> CrossPlan(s, d, do)
    [] deps[d].kind \in ScalarKinds -> ScalarPlan(s, d, do)

-----------------------------------------------------------------------------
(* The stages of the task and the communication between them.              *)

Communicates(s, phase) == Doing(s, "send", phase) \/ Doing(s, "receive", phase)

\* The updating stage.
Update(s) ==
  LET m == Current(s).dep
  IN /\ Doing(s, "update", "begin")
     /\ ~MPI!Busy(s)
     /\ memory' = [memory EXCEPT ![s][m] = [i \in DOMAIN @ |-> IF i \in Programs[program].interior[m][s]
                                                             THEN Current(s).round ELSE @[i]]]
     /\ NextTask(s)
     /\ UNCHANGED <<program, agenda, buffers, iterationNo, group, mode, source, awaited, mpi>>

\* The kinds of which the segments have to find out first who sends.
Announced(s, d) ==
  \/ deps[d].kind = "Replication" \/ replicated(s, d)
  \/ deps[d].kind = "ScalarReplica" /\ Cardinality(group[s][d].members) > 1

\* performSendPreprocessing; shouldReceive, which skips a receive that a send has made up for.
Prepare(s) ==
  /\ Doing(s, "send", "begin")
  /\ readData(s, Current(s).dep)
  /\ Phase(s, IF Announced(s, Current(s).dep) THEN "inform" ELSE "transfer")
  /\ UNCHANGED <<program, agenda, iterationNo, group, mode, source, awaited, mpi>>
shouldReceive(s) == Current(s).round - 1 = iterationNo[s][Current(s).dep]
ExpectData(s) ==
  /\ Doing(s, "receive", "begin")
  /\ shouldReceive(s)
  /\ Phase(s, IF Announced(s, Current(s).dep) THEN "inform" ELSE "transfer")
  /\ UNCHANGED <<program, agenda, memory, buffers, iterationNo, group, mode, source, awaited, mpi>>
HaveData(s) ==
  /\ Doing(s, "receive", "begin")
  /\ ~shouldReceive(s)
  /\ NextTask(s)
  /\ UNCHANGED <<program, agenda, memory, buffers, iterationNo, group, mode, source, awaited, mpi>>

\* The Allgather of the senders and receivers of replicated data, discoverSender.
Inform(s) ==
  LET g == group[s][Current(s).dep]
  IN /\ Communicates(s, "inform")
     /\ MPI!Issue(s, MPI!Allgather(s, g.id, g.members, <<"status">>,
                       IF Current(s).do = "send" THEN <<1>> ELSE <<0>>))
     /\ Phase(s, "informing")
     /\ UNCHANGED <<program, agenda, memory, buffers, iterationNo, group, mode, source, awaited>>
Informed(s, outcome) ==
  LET others == MPI!Others(s, group[s][Current(s).dep].members)
      senders == {others[i] : i \in {i \in DOMAIN others : outcome.data[i] = <<1>>}}
  IN /\ Communicates(s, "informing")
     /\ source' = [source EXCEPT ![s] = CASE Current(s).do = "send" -> s
                                          [] Current(s).do = "receive" /\ senders # {} -> First(senders)
                                          [] OTHER -> MPI!ANY_SOURCE]
     /\ Phase(s, "transfer")
     /\ UNCHANGED <<program, agenda, memory, buffers, iterationNo, group, mode, awaited>>

\* sendData and receiveData
Transfer(s) ==
  /\ Communicates(s, "transfer")
  /\ \E plan \in {TransferPlan(s, Current(s).dep, Current(s).do)} :
       MPI!Issue(s, plan.call) /\ awaited' = [awaited EXCEPT ![s] = plan.into]
  /\ Phase(s, "transferring")
  /\ UNCHANGED <<program, agenda, memory, buffers, iterationNo, group, mode, source>>

\* Mutant: the inherited afterSend of most communicators also for gathering.
CountsSend_Always(s, d) == TRUE

\* afterSend, afterReceive
CountsSend(s, d) == deps[d].kind # "Up" \/ mode[s][d] = "send_receive"

\* The buffers that sendData, performSendPostprocessing or perfromRecvPostprocessing write back.
WrittenBack(s, d, do) ==
  LET places == DOMAIN commBufferList(s, d)
      active == {k \in places : isReceiveActivated(s, d, k)}
  IN CASE do = "receive" \/ deps[d].kind \in {"GhostRegion", "Cross"} -> active
       [] do = "send" /\ deps[d].kind = "Replication" -> {}
       [] do = "send" /\ deps[d].kind = "Up" -> {SendBuffer(s, d)} \cap active
       [] do = "send" /\ deps[d].kind = "Down" /\ mode[s][d] = "broadcast" -> {1}
       [] do = "send" /\ deps[d].kind = "Down" /\ mode[s][d] = "scatter" ->
            IF active = {} THEN {} ELSE {Min(active)}

Transferred(s, outcome) ==
  LET d == Current(s).dep
      do == Current(s).do
      received == [k \in DOMAIN commBufferList(s, d) |->
                     LET i == SelectLastInSeq(awaited[s], LAMBDA x : x = k)
                     IN IF i = 0 THEN buffers[s][d][k] ELSE outcome.data[i]]
  IN /\ Communicates(s, "transferring")
     /\ buffers' = [buffers EXCEPT ![s][d] = received]
     /\ memory' = [memory EXCEPT ![s][deps[d].to] =
                     IF ~isScalar(deps[d]) THEN Written(@, s, d, received, WrittenBack(s, d, do))
                     ELSE IF awaited[s] = <<>> THEN @ ELSE outcome.data[1]]
     /\ awaited' = [awaited EXCEPT ![s] = <<>>]
     /\ iterationNo' = [iterationNo EXCEPT ![s][d] =
                          IF do = "receive" \/ CountsSend(s, d) THEN @ + 1 ELSE @]
     /\ NextTask(s)
     /\ UNCHANGED <<program, agenda, group, mode, source>>

-----------------------------------------------------------------------------
Returned(s) ==
  \E outcome \in MPI!Outcomes(s) :
    /\ MPI!Return(s, outcome)
    /\ \/ SplitDone(s, outcome)
       \/ RanksGathered(s)
       \/ ModeTold(s, outcome)
       \/ RolesShared(s, outcome)
       \/ Informed(s, outcome)
       \/ Transferred(s, outcome)

Step(s) ==
  \/ Split(s) \/ GatherRanks(s) \/ TellMode(s) \/ ShareRoles(s)
  \/ Update(s) \/ Prepare(s) \/ ExpectData(s) \/ HaveData(s)
  \/ Inform(s) \/ Transfer(s)
  \/ MPI!Busy(s) /\ Returned(s)

AllDone == \A s \in Segments : Finished(s)
Next == \E s \in Segments : Step(s)

\* The processes run: as long as one of them can go on, one does.
Spec == Init /\ [][Next]_vars /\ WF_vars(Next)

-----------------------------------------------------------------------------
(* Properties                                                              *)

\* A segment that has received for a round has the update of that round in every index that some
\* segment sends, not an earlier one and not one of a segment that is ahead.
Receivable(s, d) ==
  {i \in Programs[program].memories[deps[d].to][s] :
     \E c \in ToSet(deps[d].confinements), q \in Segments :
       /\ {s, q} \subseteq c.members
       /\ i \in c.indices \cap Programs[program].interior[deps[d].from][q]}
JustReceived(s) ==
  at[s].task > 1 /\ at[s].phase = "begin" /\ Tasks(s)[at[s].task - 1].do = "receive"
ReceivesLatest ==
  \A s \in Segments : JustReceived(s) =>
    LET task == Tasks(s)[at[s].task - 1]
    IN \A i \in Receivable(s, task.dep) : memory[s][deps[task.dep].to][i] = task.round

\* When all segments are done no message is left over that a later call would take for its own.
NothingLeft == AllDone => \A p, q \in Segments : channels[p][q] = <<>>

\* The segments that share an MPI communicator are the ones that each of them computed as its
\* participants.
GroupsAgree ==
  \A s \in Segments : \A d \in DOMAIN deps :
    group[s][d] # World => group[s][d].members = participantSegments(s, d)

\* Every segment gets to the end of the program, whether the library buffers messages or not.
EveryoneFinishes == <>AllDone
===============================================================================
