------------------------- MODULE ProgramEnvironment -------------------------
(***************************************************************************)
(* The program environment (runtime/environment/): how the arrays of an IT *)
(* program survive from one task to the next.  Every task environment has  *)
(* an item for the array (the variable it is linked to); every LPS of the  *)
(* task that allocates the array has a parts list in its own partition     *)
(* configuration.  The program environment keeps, for each object, the     *)
(* versions (references to parts lists, one per item and LPS) and the keys *)
(* of those that are up to date.  An instruction per item says what to do  *)
(* when its task starts: create the array, read it from a file, take over  *)
(* the array of another environment (envB.b = envA.a), or refresh what the *)
(* item already refers to.                                                 *)
(*                                                                         *)
(* A parts list stands for its one part, a part for its one allocation     *)
(* unit, called a buffer; the content of a buffer is the task that wrote   *)
(* it.  Every segment runs the same instructions, so one stands for all;   *)
(* whether a transfer crosses segments depends on the two configurations.  *)
(* The order of a hash table or of the list of fresh versions is left      *)
(* open: where the code takes the first, any of them may be it.            *)
(***************************************************************************)
EXTENDS Integers, FiniteSets

CONSTANTS Envs,         \* the task environments, with one item each
          LpsCount,     \* the LPSes of a task that allocate the array
          Configs,      \* the partition configurations, up to equivalence
          Programs,     \* what the tasks of a program declare: see IsProgram
          None,
          MaxTasks      \* bound: task invocations

Lps     == 1..LpsCount
Objects == 1..MaxTasks      \* an object is named by the task that created it
Keys    == Envs \X Lps      \* ListReferenceKey
KeysOf(e) == {e} \X Lps

\* A parts list is named by the task invocation and the LPS it is made for, a
\* buffer by the list that allocates it.
Lists  == Objects \X Lps
NoList == <<0, 0>>          \* NULL

EnvItemType == {"IN_OUT", "OPTIONAL_IN_OUT", "OUT"}

\* type[e]: the linkage of e's item; updates: the tasks that change the array;
\* configs[e]: the configurations e's task is invoked with; rebound: the items
\* that may be given other data once they have some; crossSegment: the pairs of
\* configurations between which some segment lacks data locally.
IsProgram(p) ==
  /\ p.type \in [Envs -> EnvItemType]
  /\ p.updates \subseteq Envs /\ p.rebound \subseteq Envs
  /\ p.configs \in [Envs -> SUBSET Configs \ {{}}]
  /\ p.crossSegment \subseteq (Configs \X Configs)

ASSUME ProgramEnvironmentAssumption ==
  /\ LpsCount \in Nat \ {0} /\ MaxTasks \in Nat
  /\ IsFiniteSet(Envs) /\ None \notin Envs \cup Configs
  /\ \A p \in Programs : IsProgram(p)

VARIABLES
  program,     \* one of Programs
  taskId,      \* the invocations so far
  stage,       \* "idle" between tasks, "setup" while an instruction is executed,
               \* "compute"; "aborted" if an assertion of the runtime has failed
  running,     \* the environment whose task is invoked, or None
  todo,        \* the LPSes whose allocation the instruction has still to set up
  ownFresh,    \* isFresh: whether the item's versions were fresh when it began
  instrs,      \* the initialization instruction of each item
  sourceKey,   \* the object each item refers to; 0 is NULL
  invocation,  \* the last invocation of each task
  heap,        \* parts lists and buffers
  versions,    \* versions[o][k]: the parts list key k of object o refers to
  freshKeys,   \* the keys of the versions of each object that are up to date
  latest       \* history: the last task that changed each object

vars == <<program, taskId, stage, running, todo, ownFresh, instrs, sourceKey,
          invocation, heap, versions, freshKeys, latest>>

Garbage == -1     \* the content of parts that are freed, partly filled, or other parts

Allocation(e, n) == <<invocation[e], n>>
mine(n)          == <<taskId, n>>

-----------------------------------------------------------------------------
(* Parts lists and buffers.                                                  *)

\* What a list starts with once it has its configuration, and its buffer with it.
EmptyHeap ==
  [config         |-> [l \in Lists |-> None],
   buffer         |-> [l \in Lists |-> NoList],
   referenceCount |-> [l \in Lists |-> 1],
   fresh          |-> Lists,
   segmentMapping |-> [l \in Lists |-> "unknown"],
   deleted        |-> {},
   freed          |-> {},
   value          |-> [b \in Lists |-> 0]]

\* The allocations of task invocation id get lists without memory.
NewLists(h, id, cs) ==
  [h EXCEPT !.config = [l \in Lists |-> IF l[1] = id THEN cs[l[2]] ELSE @[l]]]

Content(h, l) ==
  LET unit == h.buffer[l]
  IN  IF unit = NoList \/ unit \in h.freed \/ h.config[unit] # h.config[l]
      THEN Garbage ELSE h.value[unit]

Fill(h, l, v) == [h EXCEPT !.value[h.buffer[l]] = v]

\* allocate() on parts that have allocation units already adds units nobody reads.
allocatePartsList(h, l) == IF h.buffer[l] # NoList THEN h ELSE [h EXCEPT !.buffer[l] = l]

Units(h, ls) == {h.buffer[l] : l \in ls} \ {NoList}

\* The parts of list dest let go of their own units and share those of src.
clone(h, dest, src) == [h EXCEPT !.buffer[dest] = h.buffer[src],
                                 !.freed = @ \cup Units(h, {dest})]

\* Moves the content of list src into list dest: what a segment has itself, then,
\* if a segment lacks data, what the others send.  The contents of the segments
\* are cached with the source list, and taken from `target', the list that the
\* version to be replaced refers to, if that list has them.
CrossSegment(h, src, dest) == <<h.config[src], h.config[dest]>> \in program.crossSegment

handleTransfer(h, src, dest, target) ==
  LET cross    == CrossSegment(h, src, dest)
      known    == IF cross /\ h.segmentMapping[src] = "unknown"
                  THEN [h EXCEPT !.segmentMapping[src] = "known"] ELSE h
      sendable == \/ target = NoList \/ known.segmentMapping[target] = "unknown"
                  \/ /\ known.segmentMapping[target] = "known"
                     /\ h.config[target] = h.config[dest]
      complete == cross => sendable /\ known.segmentMapping[src] = "known"
  IN  Fill(known, dest, IF complete THEN Content(h, src) ELSE Garbage)

\* Mutant: the list that is shared does not count its new reference.
increaseReferenceCount_Forgotten(h, l) == h

increaseReferenceCount(h, l) == [h EXCEPT !.referenceCount[l] = @ + 1]

share(h, dest, src) == increaseReferenceCount(clone(h, dest, src), src)

-----------------------------------------------------------------------------
(* Version managers.                                                         *)

addNewVersion(vs, o, key, l) == [vs EXCEPT ![o][key] = l]

\* removeVersion for each of keys: a list nobody else refers to is deleted, and
\* with it the allocation units of its parts.
removeVersions(h, o, keys) ==
  LET dropped(l) == Cardinality({k \in keys : versions[o][k] = l})
      gone       == {l \in Lists : 0 < dropped(l) /\ h.referenceCount[l] <= dropped(l)}
  IN  [heap      |-> [h EXCEPT !.referenceCount = [l \in Lists |-> @[l] - dropped(l)],
                               !.deleted = @ \cup gone,
                               !.freed = @ \cup Units(h, gone)],
       versions  |-> [versions EXCEPT
                        ![o] = [k \in Keys |-> IF k \in keys THEN NoList ELSE @[k]]],
       freshKeys |-> [freshKeys EXCEPT ![o] = @ \ keys]]

\* Mutant: every version stays fresh.
markNonMatchingVersionsStale_None(h, o, e) == [heap |-> h, freshKeys |-> freshKeys]

\* Mutant: the versions that match are the ones to go.
markNonMatchingVersionsStale_Inverted(h, o, e) ==
  [heap |-> h, freshKeys |-> [freshKeys EXCEPT ![o] = @ \ KeysOf(e)]]

\* Only the versions of e stay fresh.  A list that versions of e share with others
\* is flagged stale first, then fresh again.
markNonMatchingVersionsStale(h, o, e) ==
  LET kept      == freshKeys[o] \cap KeysOf(e)
      Of(keys)  == {versions[o][k] : k \in keys}
  IN  [heap      |-> [h EXCEPT !.fresh = (@ \ Of(freshKeys[o])) \cup Of(kept)],
       freshKeys |-> [freshKeys EXCEPT ![o] = kept]]

-----------------------------------------------------------------------------
(* Instructions.                                                             *)

StaleRefresh == [kind |-> "StaleRefresh", source |-> None]
CreateFresh  == [kind |-> "CreateFresh", source |-> None]
ReadFromFile == [kind |-> "ReadFromFile", source |-> None]
DataTransfer(src) == [kind |-> "DataTransfer", source |-> src]

IsNew(i) == i.kind \in {"CreateFresh", "ReadFromFile"}

\* setDefaultEnvInitInstrs: an optional item is empty before its first invocation.
DefaultInstr(type, isEmpty) ==
  IF type = "OUT" \/ (type = "OPTIONAL_IN_OUT" /\ isEmpty) THEN CreateFresh ELSE StaleRefresh

Init ==
  /\ program \in Programs
  /\ taskId = 0
  /\ stage = "idle" /\ running = None
  /\ todo = {} /\ ownFresh = FALSE
  /\ instrs = [e \in Envs |-> DefaultInstr(program.type[e], TRUE)]
  /\ sourceKey = [e \in Envs |-> 0]
  /\ invocation = [e \in Envs |-> 0]
  /\ heap = EmptyHeap
  /\ versions = [o \in Objects |-> [k \in Keys |-> NoList]]
  /\ freshKeys = [o \in Objects |-> {}]
  /\ latest = [o \in Objects |-> 0]

Bindable(e) == /\ stage = "idle"
               /\ program.type[e] # "OUT"
               /\ sourceKey[e] = 0 \/ e \in program.rebound

\* bind_input(env, "a", file)
BindInput(e) ==
  /\ Bindable(e)
  /\ instrs' = [instrs EXCEPT ![e] = ReadFromFile]
  /\ UNCHANGED <<program, taskId, stage, running, todo, ownFresh, sourceKey,
                 invocation, heap, versions, freshKeys, latest>>

\* envD.d = envS.s.  If envS.s is itself waiting for an assignment, its source is
\* taken (ArrayTransferConfig::getCollapsed).
Assign(dest, src) ==
  LET primary == IF instrs[src].kind = "DataTransfer" THEN instrs[src].source ELSE src
  IN  /\ Bindable(dest)
      /\ primary # dest /\ sourceKey[primary] # 0
      /\ instrs' = [instrs EXCEPT ![dest] = DataTransfer(primary)]
      /\ UNCHANGED <<program, taskId, stage, running, todo, ownFresh, sourceKey,
                     invocation, heap, versions, freshKeys, latest>>

\* preprocessProgramEnv
removeOldPartsListReferences(h, e) ==
  IF instrs[e].kind = "StaleRefresh" \/ sourceKey[e] = 0
  THEN [heap |-> h, versions |-> versions, freshKeys |-> freshKeys]
  ELSE removeVersions(h, sourceKey[e], KeysOf(e))

\* foundMatchingFreshVersion: some version of the item is fresh.
isFresh(e) == freshKeys[sourceKey[e]] \cap KeysOf(e) # {}

\* The task of e is invoked with a partition configuration per LPS: its allocations
\* get parts lists without memory, the versions that the item is to lose are
\* removed, and setupPartsList begins.
StartTask(e) ==
  LET id == taskId + 1
      i  == instrs[e]
  IN
  /\ stage = "idle" /\ taskId < MaxTasks
  /\ i.kind = "StaleRefresh" => sourceKey[e] # 0
  /\ \E cs \in [Lps -> program.configs[e]] :
       LET s == removeOldPartsListReferences(NewLists(heap, id, cs), e)
       IN  heap' = s.heap /\ versions' = s.versions /\ freshKeys' = s.freshKeys
  /\ taskId' = id
  /\ stage' = "setup" /\ running' = e
  /\ todo' = Lps
  /\ ownFresh' = (i.kind = "StaleRefresh" /\ isFresh(e))
  /\ invocation' = [invocation EXCEPT ![e] = id]
  /\ sourceKey' = [sourceKey EXCEPT ![e] = CASE IsNew(i) -> id
                                             [] i.kind = "StaleRefresh" -> @
                                             [] OTHER -> sourceKey[i.source]]
  /\ latest' = IF i.kind = "ReadFromFile" THEN [latest EXCEPT ![id] = id] ELSE latest
  /\ UNCHANGED <<program, instrs>>

-----------------------------------------------------------------------------
(* setupPartsList of the instructions: the allocation of LPS n.              *)

\* The array is new: the parts get memory, and are read from the file if there is one.
SetUpNew(e, n) ==
  /\ heap' = Fill(allocatePartsList(heap, mine(n)), mine(n),
                  IF instrs[e].kind = "ReadFromFile" THEN taskId ELSE 0)
  /\ UNCHANGED <<versions, freshKeys, stage>>

\* Mutant: the parts are shared although the task partitions the array in another way.
RefreshFromOwn_NoReorganization(e, o, n) ==
  /\ heap' = clone(heap, mine(n), versions[o][<<e, n>>])
  /\ UNCHANGED <<versions, freshKeys, stage>>

\* The item's versions are fresh: share the parts, or reorganize them if the task
\* is now invoked with another partition configuration.
RefreshFromOwn(e, o, n) ==
  LET own    == versions[o][<<e, n>>]
      moved  == handleTransfer(allocatePartsList(heap, mine(n)), own, mine(n), NoList)
      cached == IF CrossSegment(heap, own, mine(n)) THEN "known" ELSE "none"
      s      == removeVersions([moved EXCEPT !.segmentMapping[mine(n)] = cached],
                               o, {<<e, n>>})
  IN  /\ IF heap.config[mine(n)] = heap.config[own]
         THEN /\ heap' = clone(heap, mine(n), own)
              /\ UNCHANGED <<versions, freshKeys>>
         ELSE /\ heap' = s.heap
              /\ versions' = addNewVersion(s.versions, o, <<e, n>>, mine(n))
              /\ freshKeys' = s.freshKeys
      /\ UNCHANGED stage

\* The instruction asks for the first fresh version (getFirstFreshVersion,
\* List::Nth), and there is none.
Abort == stage' = "aborted" /\ UNCHANGED <<heap, versions>>

\* The item's versions are stale: take the content of a fresh version, if possible
\* one of the same configuration.  The second half of the code, meant as the `else'
\* of the first, is executed in either case.
RefreshFromOther(e, o, n) ==
  LET own      == versions[o][<<e, n>>]
      alike(l) == heap.config[l] = heap.config[mine(n)]
  IN  /\ IF freshKeys[o] = {} THEN Abort
         ELSE /\ \E k \in freshKeys[o] :
                   LET source == versions[o][k]
                       shared == IF alike(source) THEN share(heap, mine(n), source) ELSE heap
                       ready  == IF alike(own) THEN clone(shared, mine(n), own)
                                 ELSE allocatePartsList(shared, mine(n))
                   IN  /\ (\E j \in freshKeys[o] : alike(versions[o][j])) => alike(source)
                       /\ heap' = handleTransfer(ready, source, mine(n), own)
              /\ versions' = addNewVersion(versions, o, <<e, n>>, mine(n))
              /\ UNCHANGED stage
      /\ UNCHANGED freshKeys

\* The item takes over the object of environment src: it shares a parts list of
\* src of the same configuration or gets a copy ...
Place(e, o, src, m, n) ==
  LET version == versions[o][<<src, m>>]
  IN  IF heap.config[Allocation(src, m)] = heap.config[mine(n)]
      THEN [heap |-> share(heap, mine(n), version), list |-> version]
      ELSE [heap |-> handleTransfer(allocatePartsList(heap, mine(n)), version, mine(n),
                                    versions[o][<<e, n>>]),
            list |-> mine(n)]

Chosen(src, n, m) ==
  LET alike(j) == heap.config[Allocation(src, j)] = heap.config[mine(n)]
  IN  (\E j \in Lps : alike(j)) => alike(m)

\* Mutant: the new reference is not entered as a version.
TakeOver_NotRegistered(e, o, src, n) ==
  \E m \in Lps : /\ Chosen(src, n, m)
                 /\ heap' = Place(e, o, src, m, n).heap
                 /\ UNCHANGED <<versions, freshKeys, stage>>

\* ... and then, should that list be stale, the content of a fresh one.
TakeOver(e, o, src, n) ==
  \E m \in Lps :
    LET placed  == Place(e, o, src, m, n)
        current == versions[o][<<src, m>>] \in heap.fresh
    IN  /\ Chosen(src, n, m)
        /\ IF ~current /\ freshKeys[o] = {} THEN Abort
           ELSE /\ versions' = addNewVersion(versions, o, <<e, n>>, placed.list)
                /\ \/ current /\ heap' = placed.heap
                   \/ /\ ~current
                      /\ \E k \in freshKeys[o] :
                           heap' = handleTransfer(placed.heap, versions'[o][k], mine(n), placed.list)
                /\ UNCHANGED stage
        /\ UNCHANGED freshKeys

\* One allocation of the loop over the allocations of the item.
SetUpPartsList(n) ==
  LET e == running
      i == instrs[e]
      o == sourceKey[e]
  IN  /\ stage = "setup" /\ n \in todo
      /\ \/ IsNew(i) /\ SetUpNew(e, n)
         \/ i.kind = "StaleRefresh" /\ ownFresh /\ RefreshFromOwn(e, o, n)
         \/ i.kind = "StaleRefresh" /\ ~ownFresh /\ RefreshFromOther(e, o, n)
         \/ i.kind = "DataTransfer" /\ TakeOver(e, o, i.source, n)
      /\ todo' = todo \ {n}
      /\ UNCHANGED <<program, taskId, running, ownFresh, instrs, sourceKey,
                     invocation, latest>>

initiateVersionManagement(e, o) ==
  /\ versions' = [versions EXCEPT ![o] = [k \in Keys |-> IF k[1] = e THEN mine(k[2]) ELSE @[k]]]
  /\ freshKeys' = [freshKeys EXCEPT ![o] = KeysOf(e)]
  /\ UNCHANGED heap

recordFreshPartsListVersions(e, o) ==
  /\ heap' = [heap EXCEPT !.fresh = @ \cup {mine(n) : n \in Lps}]
  /\ freshKeys' = [freshKeys EXCEPT ![o] = @ \cup KeysOf(e)]
  /\ UNCHANGED versions

\* postprocessProgramEnv
RecordVersions ==
  /\ stage = "setup" /\ todo = {}
  /\ IF IsNew(instrs[running])
     THEN initiateVersionManagement(running, sourceKey[running])
     ELSE recordFreshPartsListVersions(running, sourceKey[running])
  /\ stage' = "compute"
  /\ UNCHANGED <<program, taskId, running, todo, ownFresh, instrs, sourceKey,
                 invocation, latest>>

\* The task computes; if it changes the array, ChangeNotifyInstruction flags the
\* versions of the other environments stale.
EndTask ==
  LET e == running
      o == sourceKey[e]
      written == {heap.buffer[mine(n)] : n \in Lps}
      h == [heap EXCEPT !.value = [b \in Lists |-> IF b \in written THEN taskId ELSE @[b]]]
      s == markNonMatchingVersionsStale(h, o, e)
  IN
  /\ stage = "compute"
  /\ IF e \in program.updates
     THEN /\ heap' = s.heap /\ freshKeys' = s.freshKeys
          /\ latest' = [latest EXCEPT ![o] = taskId]
     ELSE UNCHANGED <<heap, freshKeys, latest>>
  /\ stage' = "idle" /\ running' = None
  /\ ownFresh' = FALSE
  /\ instrs' = [instrs EXCEPT ![e] = DefaultInstr(program.type[e], FALSE)]
  /\ UNCHANGED <<program, taskId, todo, sourceKey, invocation, versions>>

Next == \/ \E e \in Envs : BindInput(e) \/ StartTask(e)
        \/ \E dest, src \in Envs : Assign(dest, src)
        \/ \E n \in Lps : SetUpPartsList(n)
        \/ RecordVersions \/ EndTask

Spec == Init /\ [][Next]_vars

-----------------------------------------------------------------------------
(* Properties.                                                               *)

\* No item whose task changes the array is given other data, so that of the versions
\* that a task leaves fresh some are kept until the array is changed again.
IsSteady(p) == p.updates \cap p.rebound = {}

\* No two tasks partition the array alike, so that they share no parts list; the
\* array is only changed by tasks that create it anew; no task changes its mind.
Disjoint(p)  == \A e, f \in Envs : e # f => p.configs[e] \cap p.configs[f] = {}
OnlyOut(p)   == \A e \in p.updates : p.type[e] = "OUT"
OneConfig(p) == \A e \in Envs : \A c, d \in p.configs[e] : c = d

\* The programs whose tasks find the last content of their arrays: others may meet
\* the missing `else' (RefreshFromOther) or the cached `none' (RefreshFromOwn).
IsDisciplined(p) == /\ IsSteady(p)
                    /\ Disjoint(p) \/ OnlyOut(p)
                    /\ p.crossSegment = {} \/ OneConfig(p)

\* A task computes on the last content of its array: memory nobody has freed,
\* with the result of the last task that changed the object
\* (StaleRefreshInstruction and DataTransferInstruction::setupPartsList).
ReadsLatest ==
  stage = "compute" =>
    \A n \in Lps : Content(heap, mine(n)) = latest[sourceKey[running]]

\* Between tasks, every object somebody refers to has a fresh version, and all of
\* its fresh versions hold its last content (ObjectVersionManager).
FreshVersions ==
  stage = "idle" =>
    \A o \in Objects :
      /\ (\E k \in Keys : versions[o][k] # NoList) => freshKeys[o] # {}
      /\ \A k \in freshKeys[o] : /\ versions[o][k] # NoList
                                /\ Content(heap, versions[o][k]) = latest[o]

\* removeOldPartsListReferences finds a version for each allocation of an item
\* that has a source key.
VersionsOfItems ==
  stage = "idle" =>
    \A e \in Envs : sourceKey[e] # 0 =>
      \A k \in KeysOf(e) : versions[sourceKey[e]][k] # NoList

\* The reference count of a parts list is the number of versions that refer to it,
\* and no version refers to parts whose memory is gone
\* (PartsListAttributes::referenceCount).
References(l) == {r \in Objects \X Keys : versions[r[1]][r[2]] = l}
ReferenceCounts ==
  \A o \in Objects : \A k \in Keys :
    LET l == versions[o][k]
    IN  l # NoList => /\ l \notin heap.deleted
                      /\ heap.buffer[l] \notin heap.freed
                      /\ heap.referenceCount[l] = Cardinality(References(l))

\* No instruction asks for the first fresh version of an object that has none
\* (getFirstFreshVersion, List::Nth).
NeverAborts == stage # "aborted"
=============================================================================
