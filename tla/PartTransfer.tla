---------------------------- MODULE PartTransfer ------------------------------
(***************************************************************************)
(* Arrays that are read from files, moved from the parts of one task to    *)
(* those of the next, and written to files, by segments that hold          *)
(* different parts: the part readers and writers (file-io/data_handler.cc), *)
(* the choice between taking over parts and moving data                    *)
(* (environment/env_instruction.cc), and DataTransferManager               *)
(* (environment/data_transceiver.cc).                                      *)
(*                                                                         *)
(* The list of parts that a segment holds for an LPS of a task is, here,   *)
(* one sequence of elements: part by part, in the order of their ids.      *)
(***************************************************************************)
EXTENDS PartHierarchy

CONSTANTS NumSegments,  \* how many segments take part
          Programs      \* a sequence of programs, which are records of
                        \*   dimension: the dimension of the array
                        \*   lists: the part lists of its tasks by name, each with its partition
                        \*     functions, and the level whose LPUs the segments share out
                        \*   steps: what all segments do, one after the other; a transfer has,
                        \*     besides the two lists, the last version of the target, if there
                        \*     is one, and whether the target is computed afresh

VARIABLES program,
          tables,    \* what each segment computes from the hierarchies of its lists
          regions,   \* what two folds have in common
          alike,     \* the pairs of lists whose partitions are equivalent
          at,        \* at[s]: the step of segment s and the phase of it
          memory,    \* memory[s][l]: the step in which the memory that list l has was allocated
          made,      \* made[s][l]: the step in which the PartsList of list l was made
          content,   \* content[s][k]: the elements in the memory of step k
          mappings,  \* mappings[s][k]: in a sequence, if known, which list of another segment has
                     \*   what that segment has of the PartsList of step k
          targets,   \* targets[s]: the same of the list to be filled
          file,      \* the elements of the file that is written
          buffering, channels, calls

held == <<memory, made>>
mpi  == <<buffering, channels, calls>>
vars == <<program, tables, regions, alike, at, held, content, mappings, targets, file, mpi>>

Segments == 0..(NumSegments - 1)
MPI      == INSTANCE Mpi WITH Processes <- Segments
Ranges   == INSTANCE LpuRanges

Unset  == -1
NoList == 0
NoStep == 0

-----------------------------------------------------------------------------
(* Lists of parts *)

\* The parts of a list whose LPUs segment s executes, in the order of their ids.
Before(a, b) == \E k \in DOMAIN a : a[k] < b[k] /\ \A j \in 1..(k - 1) : a[j] = b[j]
Parts(list, d, s) ==
  LET Count(ids) == getPartsCount(list.functions[list.level],
                                  ParentDimension(list.functions, d, ids, list.level))
      Share(ids) == Ranges!CurrentRange(Count(ids), NumSegments, s)
  IN SetToSortSeq({ids \in PartIds(list.functions, d) :
                     ids[list.level] \in Share(ids).startId..Share(ids).endId}, Before)

\* The elements of the parts: where they are, and which element of the array they are.
Places(list, d, parts) ==
  FlattenSeq([i \in DOMAIN parts |->
    LET own == PartDimension(list.functions, d, parts[i])
    IN [j \in 1..getLength(own) |-> [part |-> parts[i], index |-> own.min + j - 1]]])

\* For each element of the segment's description of its parts, the places found for it; which
\* elements a writer takes for its own (isDataIndexInCorePart); and which ones LPUs compute, those
\* of the lowest level without padding.
Table(list, d, parts) ==
  LET places == Places(list, d, parts)
      fold   == SegmentFold(list.functions, d, ToSet(parts))
      originals == [i \in DOMAIN places |->
                      getOriginalIndex(list.functions, d, places[i].part, places[i].index)]
      PlacesOf(x) == LET locations == Locations(list.functions, d, ToSet(parts), x)
                     IN [i \in DOMAIN locations |-> SelectInSeq(places, LAMBDA p : p = locations[i])]
      InCore(i) == originals[i] \in Described(ContentDescription(list.functions, d, places[i].part))
      IsComputed(i) ==
        LET k == Len(list.functions)
            parent == ParentDimension(list.functions, d, places[i].part, k)
        IN places[i].index \in Indices(getDimension(list.functions[k], parent, places[i].part[k], FALSE))
  IN [fold      |-> fold,
      found     |-> [x \in Described(fold) |-> PlacesOf(x)],
      originals |-> originals,
      core      |-> {i \in DOMAIN places : InCore(i)},
      computed  |-> {i \in DOMAIN places : IsComputed(i)}]

\* How many elements the sequences of a description have together.
NumElements(desc) == FoldLeft(LAMBDA sum, x : sum + getNumOfElements(x), 0, desc)
\* DataExchange::getCommonRegion, of the folds of two lists.
CommonRegion(first, second) ==
  LET common == FlattenSeq([i \in DOMAIN first |->
                  FlattenSeq([j \in DOMAIN second |-> computeIntersection(first[i], second[j])])])
  IN [elements |-> Described(common), count |-> NumElements(common)]

Step(s)  == program.steps[at[s].step]
Doing(s, do, phase) ==
  at[s].step <= Len(program.steps) /\ Step(s).do = do /\ at[s].phase = phase
NextStep(s) == at' = [at EXCEPT ![s] = [step |-> @.step + 1, phase |-> "begin"]]
Phase(s, phase) == at' = [at EXCEPT ![s].phase = phase]

Init ==
  /\ program \in ToSet(Programs)
  /\ \E parts \in {[s \in Segments |-> [l \in DOMAIN program.lists |->
                      Parts(program.lists[l], program.dimension, s)]]} :
       tables = [s \in Segments |-> [l \in DOMAIN program.lists |->
                   Table(program.lists[l], program.dimension, parts[s][l])]]
  /\ regions = LET Held == Segments \X (DOMAIN program.lists)
               IN [a \in Held |-> [b \in Held |->
                     CommonRegion(tables[a[1]][a[2]].fold, tables[b[1]][b[2]].fold)]]
  /\ alike = {pair \in (DOMAIN program.lists) \X (DOMAIN program.lists) :
                isEquivalent(program.lists[pair[2]].functions, program.lists[pair[1]].functions,
                             program.dimension)}
  /\ at = [s \in Segments |-> [step |-> 1, phase |-> "begin"]]
  /\ memory = [s \in Segments |-> [l \in DOMAIN program.lists |-> NoStep]]
  /\ made = [s \in Segments |-> [l \in DOMAIN program.lists |-> NoStep]]
  /\ content = [s \in Segments |-> [k \in DOMAIN program.steps |-> <<>>]]
  /\ mappings = [s \in Segments |-> [k \in DOMAIN program.steps |-> <<>>]]
  /\ targets = [s \in Segments |-> <<>>]
  /\ file = [x \in Indices(program.dimension) |-> Unset]
  /\ MPI!Init

-----------------------------------------------------------------------------
(* ReadFromFileInstruction, PartReader: each segment reads what its parts  *)
(* have, padding included.  An element of the file has its index as value. *)

Read(s) ==
  /\ Doing(s, "read", "begin")
  /\ memory' = [memory EXCEPT ![s][Step(s).list] = at[s].step]
  /\ made' = [made EXCEPT ![s][Step(s).list] = at[s].step]
  /\ content' = [content EXCEPT ![s][at[s].step] = tables[s][Step(s).list].originals]
  /\ NextStep(s)
  /\ UNCHANGED <<program, tables, regions, alike, mappings, targets, file, mpi>>

\* A task gives the elements it computes new values.
Renewed(x) == x + 100
Update(s) ==
  LET l == Step(s).list
  IN /\ Doing(s, "update", "begin")
     /\ content' = [content EXCEPT ![s][memory[s][l]] = [i \in DOMAIN @ |->
                      IF i \in tables[s][l].computed THEN Renewed(tables[s][l].originals[i]) ELSE @[i]]]
     /\ NextStep(s)
     /\ UNCHANGED <<program, tables, regions, alike, held, mappings, targets, file, mpi>>

-----------------------------------------------------------------------------
(* From one list to another *)

IsAlike(s)        == <<Step(s).from, Step(s).to>> \in alike
\* The item has had parts before, which are stale.
IsStaleRefresh(s) == Step(s).last # NoList /\ ~Step(s).afresh
\* ... and they are like the ones it has now, which take over their memory.
KeepsMemory(s)    == IsStaleRefresh(s) /\ <<Step(s).last, Step(s).to>> \in alike

\* cloneDataFromPartsList: the parts have the memory of those they are like, in their order, and
\* so has the PartsList (generatePartsListReferenceForClone).
Clone(s) ==
  LET from == Step(s).from
      to   == Step(s).to
  IN /\ Doing(s, "transfer", "begin")
     /\ IsAlike(s) /\ ~IsStaleRefresh(s)
     /\ memory' = [memory EXCEPT ![s][to] = memory[s][from]]
     /\ made' = [made EXCEPT ![s][to] = made[s][from]]
     /\ NextStep(s)
     /\ UNCHANGED <<program, tables, regions, alike, content, mappings, targets, file, mpi>>

\* A refresh of stale parts goes on to the transfer after that (there is no `else').  Should the
\* parts keep their memory, the second clone frees what the first one has taken over.
CloneStale(s) ==
  LET from == Step(s).from
  IN /\ Doing(s, "transfer", "begin")
     /\ IsAlike(s) /\ IsStaleRefresh(s)
     /\ IF KeepsMemory(s)
          THEN /\ memory' = [memory EXCEPT ![s][Step(s).to] = memory[s][Step(s).last]]
               /\ content' = [content EXCEPT ![s][memory[s][from]] = [i \in DOMAIN @ |-> Unset]]
          ELSE /\ memory' = [memory EXCEPT ![s][Step(s).to] = memory[s][from]]
               /\ UNCHANGED content
     /\ Phase(s, "prepared")
     /\ UNCHANGED <<program, tables, regions, alike, made, mappings, targets, file, mpi>>

\* The parts are allocated, unless they keep their memory.
Allocate(s) ==
  LET to == Step(s).to
  IN /\ Doing(s, "transfer", "begin")
     /\ ~IsAlike(s)
     /\ IF KeepsMemory(s)
          THEN /\ memory' = [memory EXCEPT ![s][to] = memory[s][Step(s).last]]
               /\ UNCHANGED content
          ELSE /\ memory' = [memory EXCEPT ![s][to] = at[s].step]
               /\ content' = [content EXCEPT ![s][at[s].step] =
                                [i \in DOMAIN tables[s][to].originals |-> Unset]]
     /\ Phase(s, "prepared")
     /\ UNCHANGED <<program, tables, regions, alike, made, mappings, targets, file, mpi>>

\* transferData from the parts to a buffer: of several places of an element the last one counts.
ValueAt(s, l, x) ==
  LET found == tables[s][l].found
  IN IF x \notin DOMAIN found \/ found[x] = <<>> THEN Unset
     ELSE content[s][memory[s][l]][Last(found[x])]
Collected(s, l, elements) == [x \in elements |-> ValueAt(s, l, x)]
\* transferData from a buffer to all places of its elements
Stored(s, l, elements, buffer) ==
  LET found == tables[s][l].found
      IndexOf(i) == {x \in DOMAIN buffer \cap DOMAIN found : i \in ToSet(found[x])}
  IN [i \in DOMAIN elements |->
        IF IndexOf(i) = {} THEN elements[i] ELSE buffer[CHOOSE x \in IndexOf(i) : TRUE]]

\* LocalTransferrer::transferData
Transfer(s) ==
  LET from == Step(s).from
      to   == Step(s).to
      both == regions[<<s, from>>][<<s, to>>].elements
  IN /\ Doing(s, "transfer", "prepared")
     /\ content' = [content EXCEPT ![s][memory[s][to]] = Stored(s, to, @, Collected(s, from, both))]
     /\ Phase(s, "moved")
     /\ UNCHANGED <<program, tables, regions, alike, held, mappings, targets, file, mpi>>

World == [id |-> "world", members |-> Segments]
Gather(s, label, data) ==
  MPI!Issue(s, MPI!Allgather(s, World.id, World.members, label, data))

\* CommunicationReqFinder: the segments add up whether they need data of others.
isSuperFold(s, from, to) == regions[<<s, from>>][<<s, to>>].count = NumElements(tables[s][to].fold)
Needed(s) == IF isSuperFold(s, Step(s).from, Step(s).to) THEN 0 ELSE 1
FindNeed(s) ==
  /\ Doing(s, "transfer", "moved")
  /\ Gather(s, <<"reduce">>, Needed(s))
  /\ Phase(s, "reducing")
  /\ UNCHANGED <<program, tables, regions, alike, held, content, mappings, targets, file>>

\* Mutant: each segment goes by its own need.
isCrossSegmentCommRequired_Own(s, needs) == Needed(s) > 0
isCrossSegmentCommRequired(s, needs) == Needed(s) + FoldLeft(LAMBDA a, b : a + b, 0, needs) > 0
\* A transfer ends: the PartsList of the target is new, and what is known of it is what a refresh
\* that computed it afresh has got, which is nothing where the segments did not tell each other.
Finish(s, mapping) ==
  /\ made' = [made EXCEPT ![s][Step(s).to] = at[s].step]
  /\ mappings' = [mappings EXCEPT ![s][at[s].step] = IF Step(s).afresh THEN <<mapping>> ELSE <<>>]
  /\ NextStep(s)
NeedFound(s, outcome) ==
  /\ Doing(s, "transfer", "reducing")
  /\ IF isCrossSegmentCommRequired(s, outcome.data) THEN Phase(s, "mapping") /\ UNCHANGED <<made, mappings>>
     ELSE Finish(s, <<>>)
  /\ UNCHANGED <<program, tables, regions, alike, memory, content, targets, file>>

Mapping(s, l) == mappings[s][made[s][l]]

\* SegmentMappingPreparer: the segments tell each other what they have of the source, unless it
\* is known (isSegmentMappingKnown), ...
ShareSource(s) ==
  /\ Doing(s, "transfer", "mapping")
  /\ Mapping(s, Step(s).from) = <<>>
  /\ Gather(s, <<"fold">>, <<s, Step(s).from>>)
  /\ Phase(s, "sharing source")
  /\ UNCHANGED <<program, tables, regions, alike, held, content, mappings, targets, file>>
Shared(s, outcome) ==
  LET others == MPI!Others(s, Segments)
  IN [q \in ToSet(others) |-> outcome.data[SelectInSeq(others, LAMBDA x : x = q)]]
SourceShared(s, outcome) ==
  /\ Doing(s, "transfer", "sharing source")
  /\ mappings' = [mappings EXCEPT ![s][made[s][Step(s).from]] = <<Shared(s, outcome)>>]
  /\ Phase(s, "source known")
  /\ UNCHANGED <<program, tables, regions, alike, held, content, targets, file>>
SourceKnown(s) ==
  /\ Doing(s, "transfer", "mapping")
  /\ Mapping(s, Step(s).from) # <<>>
  /\ Phase(s, "source known")
  /\ UNCHANGED <<program, tables, regions, alike, held, content, mappings, targets, file, mpi>>

\* ... and of the target: what is known of its last version, if any, is used unless the target
\* is to be computed afresh.
IsTargetKnown(s) == IsStaleRefresh(s) /\ Mapping(s, Step(s).last) # <<>>
TargetKnown(s) ==
  /\ Doing(s, "transfer", "source known")
  /\ IsTargetKnown(s)
  /\ targets' = [targets EXCEPT ![s] = Mapping(s, Step(s).last)[1]]
  /\ Phase(s, "mapped")
  /\ UNCHANGED <<program, tables, regions, alike, held, content, mappings, file, mpi>>
ShareTarget(s) ==
  /\ Doing(s, "transfer", "source known")
  /\ ~IsTargetKnown(s)
  /\ Gather(s, <<"fold">>, <<s, Step(s).to>>)
  /\ Phase(s, "sharing target")
  /\ UNCHANGED <<program, tables, regions, alike, held, content, mappings, targets, file>>
TargetShared(s, outcome) ==
  /\ Doing(s, "transfer", "sharing target")
  /\ targets' = [targets EXCEPT ![s] = Shared(s, outcome)]
  /\ Phase(s, "mapped")
  /\ UNCHANGED <<program, tables, regions, alike, held, content, mappings, file>>

\* createBuffersForOutgoingTransfers, createBuffersForIncomingTransfers: one for each other
\* segment that has elements in common, as far as they are known.
Outgoing(s) ==
  SelectSeq(MPI!Others(s, Segments),
            LAMBDA q : /\ q \in DOMAIN targets[s]
                       /\ regions[<<s, Step(s).from>>][targets[s][q]].count > 0)
Incoming(s) ==
  LET sources == Mapping(s, Step(s).from)[1]
  IN SelectSeq(MPI!Others(s, Segments),
               LAMBDA q : /\ q \in DOMAIN sources
                          /\ regions[sources[q]][<<s, Step(s).to>>].count > 0)

\* handleTransfer: receives and sends are issued, then waited for.
Tag(sender, receiver) == <<"tag", sender, receiver>>
Exchange(s) ==
  LET Region(q) == regions[<<s, Step(s).from>>][targets[s][q]].elements
      Send(q) == MPI!Message(q, World.id, Tag(s, q), Collected(s, Step(s).from, Region(q)))
      Receive(q) == MPI!Receipt(q, World.id, Tag(q, s))
      out == Outgoing(s)
      in  == Incoming(s)
  IN /\ Doing(s, "transfer", "mapped")
     /\ MPI!Issue(s, MPI!Call([i \in DOMAIN out |-> Send(out[i])], [i \in DOMAIN in |-> Receive(in[i])]))
     /\ Phase(s, "exchanging")
     /\ UNCHANGED <<program, tables, regions, alike, held, content, mappings, targets, file>>
Exchanged(s, outcome) ==
  LET to == Step(s).to
  IN /\ Doing(s, "transfer", "exchanging")
     /\ content' = [content EXCEPT ![s][memory[s][to]] =
                      FoldLeft(LAMBDA elements, buffer : Stored(s, to, elements, buffer), @, outcome.data)]
     /\ Finish(s, targets[s])
     /\ UNCHANGED <<program, tables, regions, alike, memory, targets, file>>

-----------------------------------------------------------------------------
(* PartWriter: one segment after the other writes what its parts have      *)
(* without padding.  The first one fills the file with zeros before.       *)

\* A segment without parts has no writer.
HasWriter(s) == tables[s][Step(s).list].originals # <<>>
Skip(s) ==
  /\ Doing(s, "write", "begin")
  /\ ~HasWriter(s)
  /\ NextStep(s)
  /\ UNCHANGED <<program, tables, regions, alike, held, content, mappings, targets, file, mpi>>
AwaitWriter(s) ==
  /\ Doing(s, "write", "begin")
  /\ HasWriter(s)
  /\ s > 0
  /\ MPI!Issue(s, MPI!Call(<<>>, <<MPI!Receipt(s - 1, World.id, <<"writer">>)>>))
  /\ Phase(s, "awaiting writer")
  /\ UNCHANGED <<program, tables, regions, alike, held, content, mappings, targets, file>>
WriterDone(s) ==
  /\ Doing(s, "write", "awaiting writer")
  /\ Phase(s, "writing")
  /\ UNCHANGED <<program, tables, regions, alike, held, content, mappings, targets, file>>
Write(s) ==
  LET l == Step(s).list
      opened == IF s = 0 THEN [x \in DOMAIN file |-> 0] ELSE file
      ElementsAt(x) == {i \in tables[s][l].core : tables[s][l].originals[i] = x}
  IN /\ IF s = 0 THEN Doing(s, "write", "begin") ELSE Doing(s, "write", "writing")
     /\ HasWriter(s)
     /\ file' = [x \in DOMAIN file |->
                   IF ElementsAt(x) = {} THEN opened[x] ELSE content[s][memory[s][l]][Max(ElementsAt(x))]]
     /\ IF s < NumSegments - 1 THEN MPI!Post(s, MPI!Message(s + 1, World.id, <<"writer">>, 1))
        ELSE UNCHANGED mpi
     /\ NextStep(s)
     /\ UNCHANGED <<program, tables, regions, alike, held, content, mappings, targets>>

-----------------------------------------------------------------------------
Returned(s) ==
  \E outcome \in MPI!Outcomes(s) :
    /\ MPI!Return(s, outcome)
    /\ \/ NeedFound(s, outcome)
       \/ SourceShared(s, outcome)
       \/ TargetShared(s, outcome)
       \/ Exchanged(s, outcome)
       \/ WriterDone(s)

Act(s) ==
  \/ Read(s) \/ Update(s) \/ Clone(s) \/ CloneStale(s) \/ Allocate(s) \/ Transfer(s) \/ FindNeed(s)
  \/ ShareSource(s) \/ SourceKnown(s) \/ ShareTarget(s) \/ TargetKnown(s) \/ Exchange(s)
  \/ Skip(s) \/ AwaitWriter(s) \/ Write(s)
  \/ MPI!Busy(s) /\ Returned(s)

Done(s) == at[s].step > Len(program.steps)
AllDone == \A s \in Segments : Done(s)
Next == \E s \in Segments : Act(s)

\* The processes run: as long as one of them can go on, one does.
Spec == Init /\ [][Next]_vars /\ WF_vars(Next)

-----------------------------------------------------------------------------
(* Properties                                                              *)

Past(s) == SubSeq(program.steps, 1, at[s].step - 1)
Filled(s, l) ==
  /\ \E step \in ToSet(Past(s)) : (step.do = "read" /\ step.list = l) \/ (step.do = "transfer" /\ step.to = l)
  /\ ~(Doing(s, "transfer", at[s].phase) /\ Step(s).to = l)
\* The lists that have the same memory as l.
Sharing(s, l) == {k \in DOMAIN program.lists : memory[s][k] = memory[s][l]}
Computed(s, l) == \E step \in ToSet(Past(s)) : step.do = "update" /\ step.list \in Sharing(s, l)
\* The lists whose elements have been computed, or have come from such a list.
RenewedLists(s) ==
  FoldLeft(LAMBDA lists, step :
             CASE step.do = "update" -> lists \union Sharing(s, step.list)
               [] step.do = "transfer" /\ step.from \in lists -> lists \union {step.to}
               [] OTHER -> lists,
           {}, Past(s))
Latest(s, l, x) == IF l \in RenewedLists(s) THEN Renewed(x) ELSE x

\* However an array has come to the parts of a task, through how many lists, each of them has the
\* latest elements of the array that it is responsible for, in their places and all of them; of
\* memory that a task has computed since, the ones that are not padding.
HoldsLatest ==
  \A s \in Segments : \A l \in DOMAIN program.lists : Filled(s, l) =>
    \A i \in IF Computed(s, l) THEN tables[s][l].computed ELSE DOMAIN tables[s][l].originals :
      content[s][memory[s][l]][i] = Latest(s, l, tables[s][l].originals[i])

\* When all segments are done, the file has for every element the value that was computed for it:
\* no writer has left it out, written a copy in a padding over it, or erased it again.
FileComplete ==
  AllDone => \A step \in ToSet(program.steps) : step.do = "write" =>
    \A x \in Indices(program.dimension) : file[x] = Latest(0, step.list, x)

\* Every segment gets to the end of the program: all of them take part in what needs all.
EveryoneFinishes == <>AllDone
===============================================================================
