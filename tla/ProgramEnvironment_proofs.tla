---------------------- MODULE ProgramEnvironment_proofs ----------------------
(***************************************************************************)
(* The program environment keeps its promises for any number of            *)
(* environments, LPSes, configurations and task invocations.               *)
(*                                                                         *)
(* KeyInv says which versions exist and which of their keys are fresh, and *)
(* holds of every program.  SteadyInv, for programs that never give other  *)
(* data to an item whose task changes the array, says who supplies each    *)
(* object: all of its versions are up to date, or those of one environment *)
(* that never loses them.  DataInv, for the programs of IsDisciplined,     *)
(* says what is in the memory of the versions.  Each is inductive given    *)
(* those before it.                                                        *)
(***************************************************************************)
EXTENDS ProgramEnvironment, FiniteSetTheorems, TLAPS

\* An allocation of the item of e may still have to be set up.
InSetup(e) == stage = "setup" /\ running = e
Instr      == instrs[running]

\* The types of the variables but heap.
TypeOK ==
  /\ program \in Programs
  /\ taskId \in 0..MaxTasks
  /\ stage \in {"idle", "setup", "compute", "aborted"}
  /\ running \in Envs \cup {None}
  /\ todo \in SUBSET Lps
  /\ ownFresh \in BOOLEAN
  /\ instrs \in [Envs -> [kind : {"StaleRefresh", "CreateFresh", "ReadFromFile", "DataTransfer"},
                          source : Envs \cup {None}]]
  /\ sourceKey \in [Envs -> 0..taskId]
  /\ invocation \in [Envs -> 0..taskId]
  /\ versions \in [Objects -> [Keys -> Lists \cup {NoList}]]
  /\ freshKeys \in [Objects -> SUBSET Keys]
  /\ latest \in [Objects -> Int]
HeapType ==
  [config         : [Lists -> Configs \cup {None}],
   buffer         : [Lists -> Lists \cup {NoList}],
   referenceCount : [Lists -> Int],
   fresh          : SUBSET Lists,
   segmentMapping : [Lists -> {"unknown", "known", "none"}],
   deleted        : SUBSET Lists,
   freed          : SUBSET Lists,
   value          : [Lists -> Int]]
HeapTypeOK == heap \in HeapType

\* A task that runs has an array, and is the last that was invoked.
TaskOK ==
  /\ stage = "idle" <=> running = None
  /\ stage \in {"setup", "compute"} => /\ sourceKey[running] # 0
                                       /\ invocation[running] = taskId
  /\ stage # "setup" /\ stage # "aborted" => todo = {}
  /\ \A e \in Envs : sourceKey[e] # 0 => invocation[e] # 0

\* An item takes over the array of another item that has one; a new array belongs
\* to nobody else.
InstrsOK ==
  /\ \A e \in Envs : instrs[e].kind = "DataTransfer" =>
       instrs[e].source \in Envs \ {e} /\ sourceKey[instrs[e].source] # 0
  /\ stage = "setup" /\ Instr.kind = "DataTransfer" =>
       sourceKey[running] = sourceKey[Instr.source]
  /\ stage = "setup" /\ IsNew(Instr) =>
       sourceKey[running] = taskId /\ \A f \in Envs \ {running} : sourceKey[f] # taskId

\* Allocation n of e has a version, unless it is still to get one.
Registered(e, n) ==
  InSetup(e) => \/ Instr.kind = "StaleRefresh"
                \/ Instr.kind = "DataTransfer" /\ n \notin todo

\* The versions are those of the items, each of the object its item refers to.
KeysExact ==
  stage # "aborted" =>
  \A o \in Objects, e \in Envs, n \in Lps :
    versions[o][<<e, n>>] # NoList <=> sourceKey[e] = o /\ Registered(e, n)

\* What is fresh exists, and the allocations of an item are fresh together.
FreshKeysOK ==
  stage # "aborted" =>
  /\ \A o \in Objects : \A k \in freshKeys[o] : versions[o][k] # NoList
  /\ \A e \in Envs, n \in Lps, m \in Lps :
       sourceKey[e] # 0 /\ ~InSetup(e) /\ <<e, n>> \in freshKeys[sourceKey[e]]
         => <<e, m>> \in freshKeys[sourceKey[e]]
  /\ stage = "setup" =>
       IF Instr.kind = "StaleRefresh" /\ ownFresh
       THEN \A n \in todo : <<running, n>> \in freshKeys[sourceKey[running]]
       ELSE \A n \in Lps : <<running, n>> \notin freshKeys[sourceKey[running]]
  /\ stage = "compute" => \A n \in Lps : <<running, n>> \in freshKeys[sourceKey[running]]

\* The invariant of the keys.
KeyInv == TypeOK /\ HeapTypeOK /\ TaskOK /\ InstrsOK /\ KeysExact /\ FreshKeysOK

---------------------------------------------------------------------
(* Who supplies an object.                                             *)

\* A version that has been set up for the running task is recorded as fresh later.
UpToDate(o, k) == \/ k \in freshKeys[o]
                  \/ InSetup(k[1]) /\ k[2] \notin todo

\* All versions of e are up to date, and e never loses them.
Anchor(o, e) == /\ e \in program.updates /\ program.type[e] # "OUT"
                /\ sourceKey[e] = o
                /\ \A n \in Lps : UpToDate(o, <<e, n>>)
AllUpToDate(o) == \A k \in Keys : versions[o][k] # NoList => UpToDate(o, k)
Supplied(o) == AllUpToDate(o) \/ \E e \in Envs : Anchor(o, e)

\* Only items that may be given other data, or create their array anew, lose theirs.
InstrSteady ==
  /\ \A e \in Envs : instrs[e].kind # "StaleRefresh" /\ sourceKey[e] # 0 /\ running # e
                       => e \in program.rebound \/ program.type[e] = "OUT"
  /\ \A e \in Envs : program.type[e] = "OUT" => instrs[e].kind = "CreateFresh"

\* Nobody has taken over the array that a running task has just created.
OutAlone == stage \in {"setup", "compute"} /\ program.type[running] = "OUT" =>
              \A f \in Envs \ {running} : sourceKey[f] # sourceKey[running]

\* The invariant of steady programs.
SteadyInv == /\ IsSteady(program) /\ stage # "aborted"
             /\ InstrSteady /\ OutAlone
             /\ \A o \in Objects : Supplied(o)

---------------------------------------------------------------------
(* What the memory of the versions holds.                              *)

Refers(l) == \E o \in Objects, k \in Keys : versions[o][k] = l

\* The list of a version has memory, in a partition configuration of its task, and
\* if the version is up to date the last content of the object.
VersionOK(o, k) ==
  LET l == versions[o][k]
      b == heap.buffer[l]
  IN  l # NoList =>
        /\ l \notin heap.deleted
        /\ b # NoList /\ b \notin heap.freed
        /\ heap.config[b] = heap.config[l]
        /\ heap.config[l] \in program.configs[k[1]]
        /\ l \in heap.fresh <=> UpToDate(o, k)
        /\ UpToDate(o, k) => heap.value[b] = latest[o]
VersionsOK == \A o \in Objects, k \in Keys : VersionOK(o, k)

CountsOK == \A l \in Lists : Refers(l) => heap.referenceCount[l] = Cardinality(References(l))

\* Lists do not share memory, objects do not share lists, and if no two tasks
\* partition the array alike no two versions do.
DistinctBuffers ==
  \A o, o2 \in Objects, k, k2 \in Keys :
    LET l  == versions[o][k]
        l2 == versions[o2][k2]
    IN  l # NoList /\ l2 # NoList =>
          /\ heap.buffer[l] = heap.buffer[l2] => l = l2
          /\ l = l2 => o = o2 /\ (Disjoint(program) => k = k2)

\* A list that nothing has been done with.
Pristine(l) ==
  /\ heap.buffer[l] = NoList
  /\ heap.referenceCount[l] = 1
  /\ heap.segmentMapping[l] = "unknown"
  /\ l \in heap.fresh /\ l \notin heap.deleted /\ l \notin heap.freed
  /\ \A l2 \in Lists : heap.buffer[l2] # l
  /\ ~Refers(l)
Untouched(l) == l[1] > taskId \/ (stage = "setup" /\ l[1] = taskId /\ l[2] \in todo)
UntouchedPristine == \A l \in Lists : Untouched(l) => Pristine(l)

\* A list of a new array, before it is recorded as a version.
NewReady(l) ==
  /\ heap.buffer[l] = l
  /\ heap.referenceCount[l] = 1
  /\ l \in heap.fresh /\ l \notin heap.deleted /\ l \notin heap.freed
  /\ \A l2 \in Lists : heap.buffer[l2] = l => l2 = l
  /\ ~Refers(l)
  /\ heap.value[l] = latest[taskId]

\* The task that runs computes in the memory of its versions.
MineOK ==
  /\ stage = "setup" => \A n \in Lps : /\ mine(n) \in heap.fresh
                                       /\ heap.config[mine(n)] \in program.configs[running]
  /\ stage = "setup" /\ IsNew(Instr) => \A n \in Lps \ todo : NewReady(mine(n))
  /\ stage = "compute" \/ (stage = "setup" /\ ~IsNew(Instr)) =>
       \A n \in Lps \ todo :
          heap.buffer[mine(n)] = heap.buffer[versions[sourceKey[running]][<<running, n>>]]

\* The versions of an item are partitioned as in the last invocation of its task.
AllocationsOK ==
  \A e \in Envs, n \in Lps :
    sourceKey[e] # 0 /\ ~(InSetup(e) /\ (n \in todo \/ IsNew(Instr))) =>
      heap.config[Allocation(e, n)] = heap.config[versions[sourceKey[e]][<<e, n>>]]

\* No transfer between segments finds that the source has no segment mapping.
MappingsOK == program.crossSegment = {} \/ \A l \in Lists : heap.segmentMapping[l] # "none"

LatestOK ==
  /\ \A o \in Objects : o > taskId => latest[o] = 0
  /\ stage = "setup" /\ IsNew(Instr) =>
       latest[taskId] = IF Instr.kind = "ReadFromFile" THEN taskId ELSE 0

\* The invariant of disciplined programs.
DataInv == /\ IsDisciplined(program)
           /\ VersionsOK /\ CountsOK /\ DistinctBuffers /\ UntouchedPristine /\ MineOK
           /\ AllocationsOK /\ MappingsOK /\ LatestOK

---------------------------------------------------------------------
(* The helpers of the model.                                           *)

\* What the parts of keys and lists are.
LEMMA Tuples ==
  /\ \A e \in Envs, n \in Lps : <<e, n>> \in Keys
  /\ \A k \in Keys : k[1] \in Envs /\ k[2] \in Lps /\ k = <<k[1], k[2]>>
  /\ \A e, k : k \in KeysOf(e) <=> \E n \in Lps : k = <<e, n>>
  /\ \A o \in Objects, n \in Lps : <<o, n>> \in Lists
  /\ \A l \in Lists : l[1] \in Objects /\ l[2] \in Lps /\ l = <<l[1], l[2]>>
  /\ NoList \notin Lists
BY DEF Keys, KeysOf, Lists, NoList, Objects

\* The keys of an item, and all keys, are finite sets.
LEMMA KeysFinite ==
  /\ \A e \in Envs : KeysOf(e) \in SUBSET Keys /\ IsFiniteSet(KeysOf(e))
  /\ IsFiniteSet(Lps) /\ Lps # {} /\ IsFiniteSet(Keys)
<1>1. IsFiniteSet(Lps) /\ Lps # {}
  <2>1. 1 \in Nat /\ LpsCount \in Nat /\ 1 <= LpsCount
    BY ProgramEnvironmentAssumption
  <2>2. IsFiniteSet(1..LpsCount)
    BY <2>1, FS_Interval
  <2>3. 1 \in Lps
    BY <2>1 DEF Lps
  <2> QED BY <2>2, <2>3 DEF Lps
<1>2. IsFiniteSet(Keys)
  BY <1>1, FS_Product, ProgramEnvironmentAssumption DEF Keys
<1>3. ASSUME NEW e \in Envs PROVE KeysOf(e) \in SUBSET Keys /\ IsFiniteSet(KeysOf(e))
  <2>1. KeysOf(e) \in SUBSET Keys
    BY DEF Keys, KeysOf
  <2> QED BY <1>2, <2>1, FS_Subset
<1> QED BY <1>1, <1>2, <1>3

\* The content of a list is a number.
LEMMA ContentType ==
  ASSUME NEW h \in HeapType, NEW l \in Lists
  PROVE  Content(h, l) \in Int
BY DEF HeapType, Content, Garbage

\* Filling the parts of a list writes to its buffer.
LEMMA Filled ==
  ASSUME NEW h \in HeapType, NEW l \in Lists, NEW v \in Int
  PROVE  /\ Fill(h, l, v) \in HeapType
         /\ Fill(h, l, v) = [h EXCEPT !.value = [h.value EXCEPT ![h.buffer[l]] = v]]
BY DEF HeapType, Fill

\* Allocating, cloning and transferring keep the type of the heap.
LEMMA Allocated ==
  ASSUME NEW h \in HeapType, NEW l \in Lists
  PROVE  allocatePartsList(h, l) \in HeapType
BY DEF HeapType, allocatePartsList

\* ... cloning.
LEMMA Cloned ==
  ASSUME NEW h \in HeapType, NEW l \in Lists, NEW src \in Lists
  PROVE  clone(h, l, src) \in HeapType /\ share(h, l, src) \in HeapType
<1>1. Units(h, {l}) \in SUBSET Lists
  BY DEF HeapType, Units
<1>2. clone(h, l, src) \in HeapType
  BY <1>1 DEF HeapType, clone
<1> QED BY <1>2 DEF HeapType, share, increaseReferenceCount

\* ... transferring.
LEMMA Transferred ==
  ASSUME NEW h \in HeapType, NEW src \in Lists, NEW dest \in Lists, NEW target
  PROVE  handleTransfer(h, src, dest, target) \in HeapType
<1> DEFINE known == IF CrossSegment(h, src, dest) /\ h.segmentMapping[src] = "unknown"
                    THEN [h EXCEPT !.segmentMapping[src] = "known"] ELSE h
<1>1. known \in HeapType
  BY DEF HeapType
<1>2. Content(h, src) \in Int /\ Garbage \in Int
  BY ContentType DEF Garbage
<1>3. \E v \in Int : handleTransfer(h, src, dest, target) = Fill(known, dest, v)
  BY <1>2 DEF handleTransfer
<1> HIDE DEF known
<1> QED BY <1>1, <1>3, Filled

\* The references of versions `keys' of object o to list l.
Dropped(o, keys, l) == Cardinality({k \in keys : versions[o][k] = l})

\* Their number.
LEMMA DroppedType ==
  ASSUME NEW o, NEW keys, IsFiniteSet(keys), NEW l
  PROVE  Dropped(o, keys, l) \in Nat
<1>1. {k \in keys : versions[o][k] = l} \in SUBSET keys
  OBVIOUS
<1>2. IsFiniteSet({k \in keys : versions[o][k] = l})
  BY <1>1, FS_Subset
<1> QED BY <1>2, FS_CardinalityType DEF Dropped

\* What removeVersions(h, o, keys) returns.
RemovedFrom(r, h, o, keys) ==
  LET gone == {l \in Lists : 0 < Dropped(o, keys, l)
                               /\ h.referenceCount[l] <= Dropped(o, keys, l)}
  IN  /\ r.heap \in HeapType
      /\ r.heap = [h EXCEPT !.referenceCount =
                              [l \in Lists |-> h.referenceCount[l] - Dropped(o, keys, l)],
                            !.deleted = h.deleted \cup gone,
                            !.freed = h.freed \cup Units(h, gone)]
      /\ r.versions \in [Objects -> [Keys -> Lists \cup {NoList}]]
      /\ \A o2 \in Objects, k \in Keys :
           r.versions[o2][k] = IF o2 = o /\ k \in keys THEN NoList ELSE versions[o2][k]
      /\ r.freshKeys \in [Objects -> SUBSET Keys]
      /\ \A o2 \in Objects :
           r.freshKeys[o2] = IF o2 = o THEN freshKeys[o] \ keys ELSE freshKeys[o2]

\* removeVersion does what RemovedFrom says.
LEMMA Removed ==
  ASSUME TypeOK, NEW h \in HeapType, NEW o \in Objects,
         NEW keys \in SUBSET Keys, IsFiniteSet(keys)
  PROVE  RemovedFrom(removeVersions(h, o, keys), h, o, keys)
<1> DEFINE r    == removeVersions(h, o, keys)
           gone == {l \in Lists : 0 < Dropped(o, keys, l)
                                    /\ h.referenceCount[l] <= Dropped(o, keys, l)}
<1>1. \A l \in Lists : Dropped(o, keys, l) \in Nat
  BY DroppedType
<1>2. r.heap = [h EXCEPT !.referenceCount =
                           [l \in Lists |-> h.referenceCount[l] - Dropped(o, keys, l)],
                         !.deleted = h.deleted \cup gone,
                         !.freed = h.freed \cup Units(h, gone)]
  BY DEF removeVersions, Dropped, HeapType
<1>3. Units(h, gone) \in SUBSET Lists
  BY DEF Units, HeapType
<1>4. r.heap \in HeapType
  <2>1. [l \in Lists |-> h.referenceCount[l] - Dropped(o, keys, l)] \in [Lists -> Int]
    BY <1>1 DEF HeapType
  <2> QED BY <1>2, <1>3, <2>1 DEF HeapType
<1>5. /\ r.versions \in [Objects -> [Keys -> Lists \cup {NoList}]]
      /\ \A o2 \in Objects, k \in Keys :
           r.versions[o2][k] = IF o2 = o /\ k \in keys THEN NoList ELSE versions[o2][k]
  BY DEF removeVersions, TypeOK
<1>6. /\ r.freshKeys \in [Objects -> SUBSET Keys]
      /\ \A o2 \in Objects :
           r.freshKeys[o2] = IF o2 = o THEN freshKeys[o] \ keys ELSE freshKeys[o2]
  BY DEF removeVersions, TypeOK
<1>7. RemovedFrom(r, h, o, keys)
  <2> HIDE DEF r
  <2> QED BY <1>2, <1>4, <1>5, <1>6 DEF RemovedFrom
<1> QED BY <1>7

\* ws is vs with list l entered as the version of key in object o.
AddedTo(ws, vs, o, key, l) ==
  /\ ws \in [Objects -> [Keys -> Lists \cup {NoList}]]
  /\ \A o2 \in Objects, k \in Keys : ws[o2][k] = IF o2 = o /\ k = key THEN l ELSE vs[o2][k]

\* addNewVersion does what AddedTo says.
LEMMA Added ==
  ASSUME NEW vs \in [Objects -> [Keys -> Lists \cup {NoList}]], NEW o \in Objects,
         NEW key \in Keys, NEW l \in Lists
  PROVE  AddedTo(addNewVersion(vs, o, key, l), vs, o, key, l)
BY DEF addNewVersion, AddedTo

---------------------------------------------------------------------
(* The keys.                                                         *)

\* What is known while allocation n is set up: the lists the instruction reads exist.
LEMMA InSetupFacts ==
  ASSUME KeyInv, stage = "setup", NEW n \in todo
  PROVE  /\ running \in Envs /\ n \in Lps
         /\ sourceKey[running] \in Objects /\ taskId \in Objects
         /\ <<running, n>> \in Keys /\ mine(n) \in Lists
         /\ Instr.kind = "StaleRefresh" =>
              versions[sourceKey[running]][<<running, n>>] \in Lists
         /\ Instr.kind = "DataTransfer" =>
              /\ Instr.source \in Envs \ {running}
              /\ versions[sourceKey[running]][<<running, n>>] = NoList
              /\ \A m \in Lps : versions[sourceKey[running]][<<Instr.source, m>>] \in Lists
         /\ \A k \in freshKeys[sourceKey[running]] :
              k \in Keys /\ versions[sourceKey[running]][k] \in Lists
<1> DEFINE o == sourceKey[running]
<1> USE DEF KeyInv
<1>1. running \in Envs /\ n \in Lps
  BY DEF TypeOK, TaskOK
<1>2. o \in Objects /\ taskId \in Objects
  <2>1. /\ o \in 0..taskId /\ o # 0 /\ taskId \in 0..MaxTasks
        /\ MaxTasks \in Nat
    BY <1>1, ProgramEnvironmentAssumption DEF TypeOK, TaskOK
  <2> QED BY <2>1 DEF Objects
<1>3. <<running, n>> \in Keys /\ mine(n) \in Lists
  BY <1>1, <1>2, Tuples DEF mine
<1>4. \A k \in Keys : versions[o][k] \in Lists \cup {NoList}
  BY <1>2 DEF TypeOK
<1>5. \A e \in Envs, m \in Lps : versions[o][<<e, m>>] # NoList
                                    <=> sourceKey[e] = o /\ Registered(e, m)
  BY <1>2 DEF KeysExact
<1>6. ASSUME Instr.kind = "StaleRefresh"
      PROVE  versions[o][<<running, n>>] \in Lists
  BY <1>1, <1>3, <1>4, <1>5, <1>6 DEF Registered
<1>7. ASSUME Instr.kind = "DataTransfer"
      PROVE  /\ Instr.source \in Envs \ {running}
             /\ versions[o][<<running, n>>] = NoList
             /\ \A m \in Lps : versions[o][<<Instr.source, m>>] \in Lists
  <2>1. /\ Instr.source \in Envs \ {running}
        /\ o = sourceKey[Instr.source]
    BY <1>1, <1>7 DEF InstrsOK, Instr
  <2>2. versions[o][<<running, n>>] = NoList
    BY <1>1, <1>5, <1>7 DEF Registered, InSetup
  <2>3. ASSUME NEW m \in Lps PROVE versions[o][<<Instr.source, m>>] \in Lists
    <3>1. <<Instr.source, m>> \in Keys
      BY <2>1, Tuples
    <3>2. Registered(Instr.source, m)
      BY <2>1 DEF Registered, InSetup
    <3> QED BY <1>4, <1>5, <2>1, <3>1, <3>2
  <2> QED BY <2>1, <2>2, <2>3
<1>8. \A k \in freshKeys[o] : k \in Keys /\ versions[o][k] \in Lists
  BY <1>2, <1>4 DEF TypeOK, FreshKeysOK
<1> QED BY <1>1, <1>2, <1>3, <1>6, <1>7, <1>8

(* What setting up one allocation does to the keys. *)
KeyEffects(n) ==
  LET o == sourceKey[running]
  IN  /\ heap' \in HeapType
      /\ versions' \in [Objects -> [Keys -> Lists \cup {NoList}]]
      /\ freshKeys' \in [Objects -> SUBSET Keys]
      /\ \A o2 \in Objects, k \in Keys :
           versions'[o2][k] # NoList
             <=> \/ versions[o2][k] # NoList
                 \/ o2 = o /\ k = <<running, n>> /\ Instr.kind = "DataTransfer"
      /\ \A o2 \in Objects : /\ freshKeys'[o2] \subseteq freshKeys[o2]
                             /\ freshKeys[o2] \ {<<running, n>>} \subseteq freshKeys'[o2]
      /\ ~(Instr.kind = "StaleRefresh" /\ ownFresh) => freshKeys' = freshKeys

\* Each way to set up an allocation has the effects above.  A new array ...
LEMMA SetUpNewKeys ==
  ASSUME KeyInv, stage = "setup", NEW n \in todo, IsNew(Instr), SetUpNew(running, n)
  PROVE  KeyEffects(n)
<1>1. mine(n) \in Lists /\ heap \in HeapType
  BY InSetupFacts DEF KeyInv, HeapTypeOK
<1>2. taskId \in Int /\ 0 \in Int
  BY DEF KeyInv, TypeOK
<1>3. heap' \in HeapType
  BY <1>1, <1>2, Allocated, Filled DEF SetUpNew
<1> QED BY <1>3 DEF SetUpNew, KeyEffects, KeyInv, TypeOK, IsNew

\* ... fresh versions, shared or reorganized ...
LEMMA RefreshFromOwnKeys ==
  ASSUME KeyInv, stage = "setup", NEW n \in todo, Instr.kind = "StaleRefresh", ownFresh,
         RefreshFromOwn(running, sourceKey[running], n)
  PROVE  KeyEffects(n)
<1> DEFINE e == running
           o == sourceKey[e]
           own == versions[o][<<e, n>>]
           moved  == handleTransfer(allocatePartsList(heap, mine(n)), own, mine(n), NoList)
           cached == IF CrossSegment(heap, own, mine(n)) THEN "known" ELSE "none"
           h == [moved EXCEPT !.segmentMapping[mine(n)] = cached]
           s == removeVersions(h, o, {<<e, n>>})
<1>1. /\ mine(n) \in Lists /\ heap \in HeapType /\ own \in Lists
      /\ o \in Objects /\ <<e, n>> \in Keys
  BY InSetupFacts DEF KeyInv, HeapTypeOK
<1>2. CASE heap.config[mine(n)] = heap.config[own]
  <2>1. heap' = clone(heap, mine(n), own) /\ versions' = versions /\ freshKeys' = freshKeys
    BY <1>2 DEF RefreshFromOwn
  <2>2. heap' \in HeapType
    BY <1>1, <2>1, Cloned
  <2> QED BY <2>1, <2>2 DEF KeyEffects, KeyInv, TypeOK
<1>3. CASE heap.config[mine(n)] # heap.config[own]
  <2>1. /\ heap' = s.heap /\ freshKeys' = s.freshKeys
        /\ versions' = addNewVersion(s.versions, o, <<e, n>>, mine(n))
    BY <1>3 DEF RefreshFromOwn
  <2>2. moved \in HeapType
    BY <1>1, Allocated, Transferred
  <2>3. h \in HeapType
    <3> HIDE DEF moved
    <3> QED BY <2>2 DEF HeapType
  <2>4. {<<e, n>>} \in SUBSET Keys /\ IsFiniteSet({<<e, n>>})
    BY <1>1, FS_Singleton
  <2>t. TypeOK
    BY DEF KeyInv
  <2> HIDE DEF h, o
  <2>5. RemovedFrom(s, h, o, {<<e, n>>})
    BY <1>1, <2>t, <2>3, <2>4, Removed
  <2> HIDE DEF s
  <2>s. s.versions \in [Objects -> [Keys -> Lists \cup {NoList}]]
    BY <2>5 DEF RemovedFrom
  <2>6. AddedTo(versions', s.versions, o, <<e, n>>, mine(n))
    BY <1>1, <2>1, <2>s, Added
  <2>7. \A o2 \in Objects, k \in Keys : versions'[o2][k] # NoList <=> versions[o2][k] # NoList
    <3>1. mine(n) # NoList /\ own # NoList
      BY <1>1, Tuples
    <3>2. ASSUME NEW o2 \in Objects, NEW k \in Keys
          PROVE  versions'[o2][k] # NoList <=> versions[o2][k] # NoList
      <4>1. CASE o2 = o /\ k = <<e, n>>
        BY <1>1, <3>1, <4>1, <2>5, <2>6 DEF RemovedFrom, AddedTo
      <4>2. CASE ~(o2 = o /\ k = <<e, n>>)
        <5> HIDE DEF own, o
        <5> QED BY <4>2, <2>5, <2>6 DEF RemovedFrom, AddedTo
      <4> QED BY <4>1, <4>2
    <3> QED BY <3>2
  <2> QED BY <2>1, <2>5, <2>6, <2>7 DEF KeyEffects, RemovedFrom, AddedTo, o
<1> QED BY <1>2, <1>3

\* ... stale versions ...
LEMMA RefreshFromOtherKeys ==
  ASSUME KeyInv, stage = "setup", NEW n \in todo, Instr.kind = "StaleRefresh", ~ownFresh,
         RefreshFromOther(running, sourceKey[running], n), freshKeys[sourceKey[running]] # {}
  PROVE  KeyEffects(n)
<1> DEFINE e == running
           o == sourceKey[e]
           own == versions[o][<<e, n>>]
           alike(l) == heap.config[l] = heap.config[mine(n)]
<1>1. /\ mine(n) \in Lists /\ heap \in HeapType /\ own \in Lists
      /\ o \in Objects /\ <<e, n>> \in Keys
      /\ \A k \in freshKeys[o] : k \in Keys /\ versions[o][k] \in Lists
  BY InSetupFacts DEF KeyInv, HeapTypeOK
<1>2. /\ versions' = addNewVersion(versions, o, <<e, n>>, mine(n))
      /\ freshKeys' = freshKeys
  BY DEF RefreshFromOther
<1>3. PICK k \in freshKeys[o] :
        LET source == versions[o][k]
            shared == IF alike(source) THEN share(heap, mine(n), source) ELSE heap
            ready  == IF alike(own) THEN clone(shared, mine(n), own)
                      ELSE allocatePartsList(shared, mine(n))
        IN  heap' = handleTransfer(ready, source, mine(n), own)
  BY DEF RefreshFromOther
<1> DEFINE source == versions[o][k]
           shared == IF alike(source) THEN share(heap, mine(n), source) ELSE heap
           ready  == IF alike(own) THEN clone(shared, mine(n), own)
                     ELSE allocatePartsList(shared, mine(n))
<1>4. source \in Lists
  BY <1>1
<1>5. shared \in HeapType
  <2> HIDE DEF source
  <2> QED BY <1>1, <1>4, Cloned
<1>6. ready \in HeapType
  <2> HIDE DEF shared, own
  <2> QED BY <1>1, <1>5, Cloned, Allocated
<1>7. heap' \in HeapType
  <2>1. heap' = handleTransfer(ready, source, mine(n), own)
    BY <1>3
  <2> HIDE DEF ready, source, own
  <2> QED BY <1>1, <1>4, <1>6, <2>1, Transferred
<1>8. AddedTo(versions', versions, o, <<e, n>>, mine(n))
  <2>1. versions \in [Objects -> [Keys -> Lists \cup {NoList}]]
    BY DEF KeyInv, TypeOK
  <2> QED BY <1>1, <1>2, <2>1, Added
<1>9. \A o2 \in Objects, j \in Keys : versions'[o2][j] # NoList <=> versions[o2][j] # NoList
  <2>1. mine(n) # NoList /\ own # NoList
    BY <1>1, Tuples
  <2>2. ASSUME NEW o2 \in Objects, NEW j \in Keys
        PROVE  versions'[o2][j] # NoList <=> versions[o2][j] # NoList
    <3>1. CASE o2 = o /\ j = <<e, n>>
      BY <1>1, <2>1, <3>1, <1>8 DEF AddedTo
    <3>2. CASE ~(o2 = o /\ j = <<e, n>>)
      <4> HIDE DEF own, o
      <4> QED BY <3>2, <1>8 DEF AddedTo
    <3> QED BY <3>1, <3>2
  <2> QED BY <2>2
<1> QED BY <1>2, <1>7, <1>8, <1>9 DEF AddedTo, KeyEffects, KeyInv, TypeOK

\* The list that an item shares or gets is a list.
LEMMA PlacedType ==
  ASSUME KeyInv, stage = "setup", NEW n \in todo, Instr.kind = "DataTransfer", NEW m \in Lps
  PROVE  LET placed == Place(running, sourceKey[running], Instr.source, m, n)
         IN  placed.heap \in HeapType /\ placed.list \in Lists
<1> DEFINE o == sourceKey[running]
           version == versions[o][<<Instr.source, m>>]
<1>1. mine(n) \in Lists /\ heap \in HeapType /\ version \in Lists
  BY InSetupFacts DEF KeyInv, HeapTypeOK
<1>2. share(heap, mine(n), version) \in HeapType
  BY <1>1, Cloned
<1>3. \A target : handleTransfer(allocatePartsList(heap, mine(n)), version, mine(n), target)
                    \in HeapType
  BY <1>1, Allocated, Transferred
<1> QED BY <1>1, <1>2, <1>3 DEF Place

\* ... and the versions of another item.
LEMMA TakeOverKeys ==
  ASSUME KeyInv, stage = "setup", NEW n \in todo, Instr.kind = "DataTransfer",
         TakeOver(running, sourceKey[running], Instr.source, n), stage' # "aborted"
  PROVE  KeyEffects(n)
<1> DEFINE e == running
           o == sourceKey[e]
           placed(m) == Place(e, o, Instr.source, m, n)
<1>1. /\ mine(n) \in Lists /\ o \in Objects /\ <<e, n>> \in Keys
      /\ \A k \in freshKeys[o] : k \in Keys
      /\ versions[o][<<e, n>>] = NoList
      /\ \A k \in freshKeys[o] : k \in Keys /\ versions[o][k] \in Lists
  BY InSetupFacts
<1>2. PICK m \in Lps :
        /\ versions' = addNewVersion(versions, o, <<e, n>>, placed(m).list)
        /\ \/ heap' = placed(m).heap
           \/ \E k \in freshKeys[o] :
                heap' = handleTransfer(placed(m).heap, versions'[o][k], mine(n), placed(m).list)
  BY DEF TakeOver, Abort
<1>3. placed(m).heap \in HeapType /\ placed(m).list \in Lists
  BY PlacedType
<1>4. freshKeys' = freshKeys
  BY DEF TakeOver
<1> DEFINE list == placed(m).list
<1>5. AddedTo(versions', versions, o, <<e, n>>, list)
  <2>1. versions \in [Objects -> [Keys -> Lists \cup {NoList}]]
    BY DEF KeyInv, TypeOK
  <2>2. versions' = addNewVersion(versions, o, <<e, n>>, list)
    BY <1>2
  <2> HIDE DEF list
  <2> QED BY <1>1, <1>3, <2>1, <2>2, Added DEF list
<1>6. \A k \in freshKeys[o] : versions'[o][k] \in Lists
  <2> HIDE DEF list
  <2> QED BY <1>1, <1>3, <1>5 DEF AddedTo, list
<1>7. heap' \in HeapType
  <2> DEFINE hp == placed(m).heap
  <2>1. \/ heap' = hp
        \/ \E k \in freshKeys[o] : heap' = handleTransfer(hp, versions'[o][k], mine(n), list)
    BY <1>2
  <2>2. hp \in HeapType
    BY <1>3
  <2> HIDE DEF hp, list
  <2> QED BY <1>1, <1>6, <2>1, <2>2, Transferred
<1>8. ASSUME NEW o2 \in Objects, NEW k \in Keys
      PROVE  versions'[o2][k] # NoList
               <=> versions[o2][k] # NoList \/ (o2 = o /\ k = <<e, n>>)
  <2>1. list # NoList
    BY <1>3, Tuples
  <2> HIDE DEF list
  <2>2. CASE o2 = o /\ k = <<e, n>>
    BY <1>1, <1>5, <2>1, <2>2 DEF AddedTo
  <2>3. CASE ~(o2 = o /\ k = <<e, n>>)
    <3> HIDE DEF o
    <3> QED BY <1>5, <2>3 DEF AddedTo
  <2> QED BY <2>2, <2>3
<1> HIDE DEF list
<1> QED BY <1>4, <1>5, <1>7, <1>8 DEF AddedTo, KeyEffects, KeyInv, TypeOK

\* setupPartsList fails an assertion, or has the effects above.
LEMMA SetUpKeys ==
  ASSUME KeyInv, NEW n \in Lps, SetUpPartsList(n)
  PROVE  /\ stage = "setup" /\ n \in todo /\ todo' = todo \ {n}
         /\ UNCHANGED <<program, taskId, running, ownFresh, instrs, sourceKey,
                        invocation, latest>>
         /\ \/ stage' = "aborted" /\ UNCHANGED <<heap, versions, freshKeys>>
            \/ stage' = stage /\ KeyEffects(n)
<1>1. /\ stage = "setup" /\ n \in todo /\ todo' = todo \ {n}
      /\ UNCHANGED <<program, taskId, running, ownFresh, instrs, sourceKey,
                     invocation, latest>>
  BY DEF SetUpPartsList
<1>2. CASE IsNew(Instr) /\ SetUpNew(running, n)
  BY <1>1, <1>2, SetUpNewKeys DEF SetUpNew
<1>3. CASE Instr.kind = "StaleRefresh" /\ ownFresh
             /\ RefreshFromOwn(running, sourceKey[running], n)
  <2>1. stage' = stage
    BY <1>3 DEF RefreshFromOwn
  <2> QED BY <1>1, <1>3, <2>1, RefreshFromOwnKeys
<1>4. CASE Instr.kind = "StaleRefresh" /\ ~ownFresh
             /\ RefreshFromOther(running, sourceKey[running], n)
  <2>1. CASE freshKeys[sourceKey[running]] = {}
    BY <1>1, <1>4, <2>1 DEF RefreshFromOther, Abort
  <2>2. CASE freshKeys[sourceKey[running]] # {}
    <3>1. stage' = stage
      BY <1>4, <2>2 DEF RefreshFromOther
    <3> QED BY <1>1, <1>4, <2>2, <3>1, RefreshFromOtherKeys
  <2> QED BY <2>1, <2>2
<1>5. CASE Instr.kind = "DataTransfer"
             /\ TakeOver(running, sourceKey[running], Instr.source, n)
  <2>1. \/ stage' = "aborted" /\ UNCHANGED <<heap, versions, freshKeys>>
        \/ stage' = stage
    BY <1>5 DEF TakeOver, Abort
  <2> QED BY <1>1, <1>5, <2>1, TakeOverKeys
<1> QED BY <1>1, <1>2, <1>3, <1>4, <1>5 DEF SetUpPartsList, Instr

\* The program is one of those assumed.
LEMMA ProgramType ==
  ASSUME TypeOK
  PROVE  /\ IsProgram(program)
         /\ \A e \in Envs : program.configs[e] \in SUBSET Configs
BY ProgramEnvironmentAssumption DEF TypeOK, IsProgram

\* New lists keep the type of the heap.
LEMMA NewListsType ==
  ASSUME TypeOK, NEW h \in HeapType, NEW id, NEW e \in Envs,
         NEW cs \in [Lps -> program.configs[e]]
  PROVE  NewLists(h, id, cs) \in HeapType
<1>1. \A l \in Lists : cs[l[2]] \in Configs
  BY ProgramType, Tuples
<1> DEFINE c == [l \in Lists |-> IF l[1] = id THEN cs[l[2]] ELSE h.config[l]]
<1>2. c \in [Lists -> Configs \cup {None}]
  BY <1>1 DEF HeapType
<1>3. NewLists(h, id, cs) = [h EXCEPT !.config = c]
  BY DEF NewLists, HeapType
<1> HIDE DEF c
<1> QED BY <1>2, <1>3 DEF HeapType

\* Whether the item of e loses its versions when its task is started.
Loses(e) == instrs[e].kind # "StaleRefresh" /\ sourceKey[e] # 0

\* What starting the task of e does to the keys.
StartEffects(e) ==
  /\ heap' \in HeapType
  /\ versions' \in [Objects -> [Keys -> Lists \cup {NoList}]]
  /\ freshKeys' \in [Objects -> SUBSET Keys]
  /\ \A o \in Objects, k \in Keys :
       versions'[o][k] = IF Loses(e) /\ o = sourceKey[e] /\ k \in KeysOf(e)
                         THEN NoList ELSE versions[o][k]
  /\ \A o \in Objects :
       freshKeys'[o] = IF Loses(e) /\ o = sourceKey[e]
                       THEN freshKeys[o] \ KeysOf(e) ELSE freshKeys[o]

\* removeOldPartsListReferences has these effects.
LEMMA StartTaskKeys ==
  ASSUME KeyInv, NEW e \in Envs, StartTask(e)
  PROVE  StartEffects(e)
<1>1. PICK cs \in [Lps -> program.configs[e]] :
        LET s == removeOldPartsListReferences(NewLists(heap, taskId + 1, cs), e)
        IN  heap' = s.heap /\ versions' = s.versions /\ freshKeys' = s.freshKeys
  BY DEF StartTask
<1> DEFINE h == NewLists(heap, taskId + 1, cs)
<1>2. h \in HeapType
  BY NewListsType DEF KeyInv, HeapTypeOK
<1>3. CASE ~Loses(e)
  <2>1. heap' = h /\ versions' = versions /\ freshKeys' = freshKeys
    BY <1>1, <1>3 DEF removeOldPartsListReferences, Loses
  <2> HIDE DEF h
  <2> QED BY <1>2, <1>3, <2>1 DEF StartEffects, KeyInv, TypeOK
<1>4. CASE Loses(e)
  <2> DEFINE r == removeVersions(h, sourceKey[e], KeysOf(e))
  <2>1. heap' = r.heap /\ versions' = r.versions /\ freshKeys' = r.freshKeys
    BY <1>1, <1>4 DEF removeOldPartsListReferences, Loses
  <2>2. sourceKey[e] \in Objects
    <3>1. sourceKey[e] \in 0..taskId /\ sourceKey[e] # 0 /\ taskId \in 0..MaxTasks
            /\ MaxTasks \in Nat
      BY <1>4, ProgramEnvironmentAssumption DEF KeyInv, TypeOK, Loses
    <3> QED BY <3>1 DEF Objects
  <2> HIDE DEF h
  <2>3. RemovedFrom(r, h, sourceKey[e], KeysOf(e))
    BY <1>2, <2>2, KeysFinite, Removed DEF KeyInv
  <2> HIDE DEF r
  <2> QED BY <1>4, <2>1, <2>3 DEF StartEffects, RemovedFrom
<1> QED BY <1>3, <1>4

\* What else the start of a task changes.
LEMMA StartTaskFacts ==
  ASSUME KeyInv, NEW e \in Envs, StartTask(e)
  PROVE  /\ stage = "idle" /\ stage' = "setup" /\ running = None /\ running' = e
         /\ e # None
         /\ taskId \in Nat /\ taskId < MaxTasks /\ taskId' = taskId + 1
         /\ taskId' \in Objects /\ taskId' # 0
         /\ todo' = Lps /\ UNCHANGED <<program, instrs>> /\ Instr' = instrs[e]
         /\ invocation' = [invocation EXCEPT ![e] = taskId']
         /\ sourceKey' \in [Envs -> 0..taskId'] /\ sourceKey'[e] \in Objects
         /\ \A f \in Envs \ {e} : sourceKey'[f] = sourceKey[f]
         /\ IsNew(instrs[e]) => sourceKey'[e] = taskId'
         /\ instrs[e].kind = "StaleRefresh" => sourceKey'[e] = sourceKey[e]
         /\ instrs[e].kind = "DataTransfer" =>
              /\ instrs[e].source \in Envs \ {e}
              /\ sourceKey'[e] = sourceKey[instrs[e].source]
         /\ \A o \in Objects : o \in Nat
         /\ \A f \in Envs : sourceKey[f] # 0 => sourceKey[f] \in Objects
<1> USE DEF KeyInv
<1>1. /\ stage = "idle" /\ stage' = "setup" /\ running = None /\ running' = e
      /\ e # None /\ taskId' = taskId + 1
      /\ todo' = Lps /\ UNCHANGED <<program, instrs>> /\ Instr' = instrs[e]
      /\ invocation' = [invocation EXCEPT ![e] = taskId']
  BY ProgramEnvironmentAssumption DEF StartTask, TaskOK, Instr
<1>2. taskId \in Nat /\ taskId < MaxTasks /\ taskId' \in Objects /\ taskId' # 0
  <2>1. taskId \in 0..MaxTasks /\ MaxTasks \in Nat /\ taskId < MaxTasks
    BY ProgramEnvironmentAssumption DEF StartTask, TypeOK
  <2> QED BY <1>1, <2>1 DEF Objects
<1>3. \A o \in Objects : o \in Nat
  BY DEF Objects
<1>4. ASSUME NEW f \in Envs
      PROVE  sourceKey[f] \in 0..taskId /\ (sourceKey[f] # 0 => sourceKey[f] \in Objects)
  <2>1. sourceKey[f] \in 0..taskId /\ taskId \in 0..MaxTasks /\ MaxTasks \in Nat
    BY ProgramEnvironmentAssumption DEF TypeOK
  <2> QED BY <2>1 DEF Objects
<1> DEFINE i == instrs[e]
           new == CASE IsNew(i) -> taskId + 1
                    [] i.kind = "StaleRefresh" -> sourceKey[e]
                    [] OTHER -> sourceKey[i.source]
<1>5. sourceKey' = [sourceKey EXCEPT ![e] = new]
  BY DEF StartTask
<1>6. i.kind \in {"StaleRefresh", "CreateFresh", "ReadFromFile", "DataTransfer"}
  BY DEF TypeOK
<1>7. i.kind = "DataTransfer" => i.source \in Envs \ {e} /\ sourceKey[i.source] # 0
  BY DEF InstrsOK
<1>8. i.kind = "StaleRefresh" => sourceKey[e] # 0
  BY DEF StartTask
<1>9. /\ IsNew(i) => new = taskId'
      /\ i.kind = "StaleRefresh" => new = sourceKey[e]
      /\ i.kind = "DataTransfer" => new = sourceKey[i.source]
  BY <1>1, <1>6 DEF IsNew
<1>10. new \in Objects
  <2>1. CASE IsNew(i)
    BY <1>2, <1>9, <2>1
  <2>2. CASE i.kind = "StaleRefresh"
    BY <1>4, <1>8, <1>9, <2>2
  <2>3. CASE i.kind = "DataTransfer"
    BY <1>4, <1>7, <1>9, <2>3
  <2> QED BY <1>6, <2>1, <2>2, <2>3 DEF IsNew
<1>11. new \in 0..taskId'
  <2>1. CASE IsNew(i)
    <3>1. new = taskId + 1
      BY <1>1, <1>9, <2>1
    <3> HIDE DEF new
    <3> QED BY <1>1, <1>2, <3>1
  <2>2. CASE ~IsNew(i)
    <3>1. new \in 0..taskId
      BY <1>4, <1>6, <1>7, <1>9, <2>2 DEF IsNew
    <3> HIDE DEF new
    <3> QED BY <1>1, <1>2, <3>1
  <2> QED BY <2>1, <2>2
<1>12. sourceKey' \in [Envs -> 0..taskId']
  <2> HIDE DEF new
  <2>1. \A f \in Envs : sourceKey[f] \in 0..taskId'
    BY <1>1, <1>2, <1>4
  <2>2. sourceKey \in [Envs -> 0..taskId]
    BY DEF TypeOK
  <2> QED BY <1>5, <1>11, <2>1, <2>2
<1>13. sourceKey'[e] = new /\ \A f \in Envs \ {e} : sourceKey'[f] = sourceKey[f]
  <2> HIDE DEF new
  <2> QED BY <1>5 DEF TypeOK
<1> HIDE DEF new
<1> QED BY <1>1, <1>2, <1>3, <1>4, <1>7, <1>9, <1>10, <1>12, <1>13

\* Starting a task keeps the parts of KeyInv: the types ...
LEMMA StartTaskTypes ==
  ASSUME KeyInv, NEW e \in Envs, StartTask(e)
  PROVE  TypeOK' /\ HeapTypeOK'
<1>1. HeapTypeOK'
  BY StartTaskKeys DEF StartEffects, HeapTypeOK
<1>2. versions' \in [Objects -> [Keys -> Lists \cup {NoList}]]
        /\ freshKeys' \in [Objects -> SUBSET Keys]
  BY StartTaskKeys DEF StartEffects
<1>3. invocation' \in [Envs -> 0..taskId']
  <2>1. invocation \in [Envs -> 0..taskId] /\ taskId \in Nat
        /\ taskId' = taskId + 1 /\ invocation' = [invocation EXCEPT ![e] = taskId']
    BY StartTaskFacts DEF KeyInv, TypeOK
  <2>2. taskId' \in 0..taskId' /\ \A x \in 0..taskId : x \in 0..taskId'
    BY <2>1
  <2>3. \A f \in Envs : invocation[f] \in 0..taskId'
    BY <2>1, <2>2
  <2> QED BY <2>1, <2>2, <2>3
<1>4. ownFresh' \in BOOLEAN /\ latest' \in [Objects -> Int]
  <2>1. ownFresh' \in BOOLEAN
    BY DEF StartTask
  <2>2. /\ latest' = IF instrs[e].kind = "ReadFromFile"
                     THEN [latest EXCEPT ![taskId + 1] = taskId + 1] ELSE latest
        /\ taskId \in Nat /\ latest \in [Objects -> Int]
    BY StartTaskFacts DEF StartTask, KeyInv, TypeOK
  <2>3. taskId + 1 \in Int
    BY <2>2
  <2>4. latest' \in [Objects -> Int]
    BY <2>2, <2>3
  <2> QED BY <2>1, <2>4
<1>5. taskId' \in 0..MaxTasks
  BY StartTaskFacts, ProgramEnvironmentAssumption
<1>6. sourceKey' \in [Envs -> 0..taskId']
  BY StartTaskFacts
<1>7. /\ stage' = "setup" /\ running' = e /\ todo' = Lps
      /\ program' = program /\ instrs' = instrs
  BY StartTaskFacts
<1> QED BY <1>1, <1>2, <1>3, <1>4, <1>5, <1>6, <1>7 DEF KeyInv, TypeOK

\* ... what is said of tasks and instructions ...
LEMMA StartTaskTask ==
  ASSUME KeyInv, NEW e \in Envs, StartTask(e)
  PROVE  TaskOK' /\ InstrsOK'
<1>1. TaskOK'
  <2>1. /\ stage' = "setup" /\ running' = e /\ running' # None
        /\ sourceKey'[e] \in Objects /\ 0 \notin Objects /\ taskId' # 0
        /\ invocation' = [invocation EXCEPT ![e] = taskId']
        /\ \A f \in Envs \ {e} : sourceKey'[f] = sourceKey[f]
    BY StartTaskFacts DEF Objects
  <2>2. invocation \in [Envs -> 0..taskId]
        /\ \A f \in Envs : sourceKey[f] # 0 => invocation[f] # 0
    BY DEF KeyInv, TypeOK, TaskOK
  <2>3. invocation'[e] = taskId' /\ \A f \in Envs \ {e} : invocation'[f] = invocation[f]
    BY <2>1, <2>2
  <2> QED BY <2>1, <2>2, <2>3 DEF TaskOK
<1>2. InstrsOK'
  <2>1. ASSUME NEW f \in Envs, instrs[f].kind = "DataTransfer"
        PROVE  instrs[f].source \in Envs \ {f} /\ sourceKey'[instrs[f].source] # 0
    <3>1. instrs[f].source \in Envs \ {f} /\ sourceKey[instrs[f].source] # 0
      BY <2>1 DEF KeyInv, InstrsOK
    <3>2. sourceKey'[e] # 0 /\ \A g \in Envs \ {e} : sourceKey'[g] = sourceKey[g]
      BY StartTaskFacts DEF Objects
    <3> QED BY <3>1, <3>2
  <2>2. \A f \in Envs : sourceKey[f] # taskId'
    <3>1. taskId \in Nat /\ taskId' = taskId + 1 /\ \A f \in Envs : sourceKey[f] \in 0..taskId
      BY StartTaskFacts DEF KeyInv, TypeOK
    <3> QED BY <3>1
  <2> QED BY <2>1, <2>2, StartTaskFacts DEF InstrsOK
<1> QED BY <1>1, <1>2

\* ... which versions there are ...
LEMMA StartTaskKeysExact ==
  ASSUME KeyInv, NEW e \in Envs, StartTask(e)
  PROVE  KeysExact'
<1> DEFINE i == instrs[e]
<1>1. ASSUME NEW o \in Objects, NEW f \in Envs, NEW n \in Lps
      PROVE  versions'[o][<<f, n>>] # NoList
               <=> sourceKey'[f] = o /\ (Registered(f, n))'
  <2>1. versions[o][<<f, n>>] # NoList <=> sourceKey[f] = o
    BY StartTaskFacts DEF KeyInv, KeysExact, Registered, InSetup
  <2>2. <<f, n>> \in Keys /\ (<<f, n>> \in KeysOf(e) <=> f = e)
    BY Tuples DEF KeysOf
  <2>3. versions'[o][<<f, n>>] = IF Loses(e) /\ o = sourceKey[e] /\ f = e
                                 THEN NoList ELSE versions[o][<<f, n>>]
    BY <2>2, StartTaskKeys DEF StartEffects
  <2>4. CASE f # e
    <3>1. (Registered(f, n))'
      BY <2>4, StartTaskFacts DEF Registered, InSetup
    <3> QED BY <2>1, <2>3, <2>4, <3>1, StartTaskFacts
  <2>5. CASE f = e /\ i.kind = "StaleRefresh"
    <3>1. (Registered(f, n))'
      BY <2>5, StartTaskFacts DEF Registered
    <3>2. ~Loses(e) /\ sourceKey'[e] = sourceKey[e]
      BY <2>5, StartTaskFacts DEF Loses
    <3> QED BY <2>1, <2>3, <2>5, <3>1, <3>2
  <2>6. CASE f = e /\ i.kind # "StaleRefresh"
    <3>1. ~(Registered(f, n))'
      BY <2>6, StartTaskFacts DEF Registered, InSetup
    <3>2. o # 0
      BY DEF Objects
    <3>3. versions'[o][<<f, n>>] = NoList
      BY <2>1, <2>3, <2>6, <3>2 DEF Loses
    <3> QED BY <3>1, <3>3
  <2> QED BY <2>4, <2>5, <2>6
<1> QED BY <1>1 DEF KeysExact

\* ... and which are fresh.
LEMMA StartTaskFreshKeys ==
  ASSUME KeyInv, NEW e \in Envs, StartTask(e)
  PROVE  FreshKeysOK'
<1> DEFINE i == instrs[e]
<1>0. /\ stage' = "setup" /\ running' = e /\ todo' = Lps
      /\ Instr' = i /\ sourceKey'[e] \in Objects /\ e # None
      /\ stage = "idle" /\ running = None
  BY StartTaskFacts
<1>f. \A o \in Objects :
        freshKeys'[o] = IF Loses(e) /\ o = sourceKey[e]
                        THEN freshKeys[o] \ KeysOf(e) ELSE freshKeys[o]
  BY StartTaskKeys DEF StartEffects
<1>t. \A o \in Objects : freshKeys[o] \in SUBSET Keys
  BY DEF KeyInv, TypeOK
<1>1. ASSUME NEW o \in Objects, NEW k \in freshKeys'[o]
      PROVE  versions'[o][k] # NoList
  <2>1. k \in freshKeys[o] /\ k \in Keys /\ ~(Loses(e) /\ o = sourceKey[e] /\ k \in KeysOf(e))
    BY <1>1, <1>f, <1>t
  <2>2. versions[o][k] # NoList
    BY <1>0, <2>1 DEF KeyInv, FreshKeysOK
  <2> QED BY <2>1, <2>2, StartTaskKeys DEF StartEffects
<1>2. ASSUME NEW f \in Envs, NEW n \in Lps, NEW m \in Lps, f # e, sourceKey'[f] # 0,
             <<f, n>> \in freshKeys'[sourceKey'[f]]
      PROVE  <<f, m>> \in freshKeys'[sourceKey'[f]]
  <2>1. sourceKey'[f] = sourceKey[f] /\ sourceKey[f] \in Objects
    BY <1>2, StartTaskFacts
  <2>2. <<f, n>> \notin KeysOf(e) /\ <<f, m>> \notin KeysOf(e)
    BY <1>2 DEF KeysOf
  <2>3. <<f, n>> \in freshKeys[sourceKey[f]]
    BY <1>2, <1>f, <2>1
  <2>4. <<f, m>> \in freshKeys[sourceKey[f]]
    BY <1>0, <1>2, <2>1, <2>3 DEF KeyInv, FreshKeysOK, InSetup
  <2> QED BY <1>f, <2>1, <2>2, <2>4
<1>3. ASSUME i.kind = "StaleRefresh", ownFresh', NEW n \in Lps
      PROVE  <<e, n>> \in freshKeys'[sourceKey'[e]]
  <2>1. sourceKey'[e] = sourceKey[e] /\ ~Loses(e) /\ sourceKey[e] # 0
    BY <1>3, StartTaskFacts DEF Loses, StartTask
  <2>2. freshKeys[sourceKey[e]] \cap KeysOf(e) # {}
    BY <1>3 DEF StartTask, isFresh
  <2>3. PICK m \in Lps : <<e, m>> \in freshKeys[sourceKey[e]]
    BY <2>2, Tuples
  <2>4. <<e, n>> \in freshKeys[sourceKey[e]]
    BY <1>0, <2>1, <2>3 DEF KeyInv, FreshKeysOK, InSetup
  <2> QED BY <1>0, <1>f, <2>1, <2>4
<1>4. ASSUME ~(i.kind = "StaleRefresh" /\ ownFresh'), NEW n \in Lps
      PROVE  <<e, n>> \notin freshKeys'[sourceKey'[e]]
  <2>1. <<e, n>> \in KeysOf(e)
    BY DEF KeysOf
  <2>2. CASE i.kind = "StaleRefresh"
    <3>1. sourceKey'[e] = sourceKey[e] /\ ~Loses(e)
      BY <2>2, StartTaskFacts DEF Loses
    <3>2. freshKeys[sourceKey[e]] \cap KeysOf(e) = {}
      BY <1>4, <2>2 DEF StartTask, isFresh
    <3> QED BY <1>0, <1>f, <2>1, <3>1, <3>2
  <2>3. CASE i.kind # "StaleRefresh"
    <3>1. ~(Registered(e, n))'
      BY <1>0, <2>3 DEF Registered, InSetup
    <3>2. versions'[sourceKey'[e]][<<e, n>>] = NoList
      BY <1>0, <3>1, StartTaskKeysExact DEF KeysExact
    <3> QED BY <1>0, <1>1, <3>2
  <2> QED BY <2>2, <2>3
<1> QED BY <1>0, <1>1, <1>2, <1>3, <1>4 DEF FreshKeysOK, InSetup

\* So it keeps KeyInv.
LEMMA StartTaskKeyInv ==
  ASSUME KeyInv, NEW e \in Envs, StartTask(e)
  PROVE  KeyInv'
BY StartTaskTypes, StartTaskTask, StartTaskKeysExact, StartTaskFreshKeys DEF KeyInv

\* Setting up an allocation keeps KeyInv.
LEMMA KeyEffectsKeyInv ==
  ASSUME KeyInv, NEW n \in Lps, SetUpPartsList(n), stage' = stage, KeyEffects(n)
  PROVE  KeyInv'
<1> DEFINE o == sourceKey[running]
           i == Instr
<1>1. /\ stage = "setup" /\ stage' = "setup" /\ n \in todo /\ todo' = todo \ {n}
      /\ UNCHANGED <<program, taskId, running, ownFresh, instrs, sourceKey,
                     invocation, latest>>
      /\ Instr' = Instr
  BY SetUpKeys DEF Instr
<1>2. running \in Envs /\ o \in Objects /\ n \in Lps /\ todo \in SUBSET Lps
  BY <1>1, InSetupFacts DEF KeyInv, TypeOK
<1>3. TypeOK' /\ HeapTypeOK'
  BY <1>1 DEF KeyInv, TypeOK, HeapTypeOK, KeyEffects
<1>4. TaskOK' /\ InstrsOK'
  BY <1>1 DEF KeyInv, TaskOK, InstrsOK, Instr, InSetup
<1>v. \A o2 \in Objects, k \in Keys :
        versions'[o2][k] # NoList
          <=> \/ versions[o2][k] # NoList
              \/ o2 = o /\ k = <<running, n>> /\ i.kind = "DataTransfer"
  BY DEF KeyEffects
<1>5. KeysExact'
  <2>1. ASSUME NEW o2 \in Objects, NEW f \in Envs, NEW m \in Lps
        PROVE  versions'[o2][<<f, m>>] # NoList <=> sourceKey[f] = o2 /\ (Registered(f, m))'
    <3>1. versions[o2][<<f, m>>] # NoList <=> sourceKey[f] = o2 /\ Registered(f, m)
      BY <1>1 DEF KeyInv, KeysExact
    <3>2. versions'[o2][<<f, m>>] # NoList
            <=> \/ versions[o2][<<f, m>>] # NoList
                \/ o2 = o /\ f = running /\ m = n /\ i.kind = "DataTransfer"
      <4>1. <<f, m>> \in Keys
        BY Tuples
      <4>2. <<f, m>> = <<running, n>> <=> f = running /\ m = n
        OBVIOUS
      <4> HIDE DEF o, i
      <4> QED BY <1>v, <4>1, <4>2
    <3>3. (Registered(f, m))' <=> \/ Registered(f, m)
                                  \/ f = running /\ m = n /\ i.kind = "DataTransfer"
      BY <1>1, <1>2 DEF Registered, InSetup
    <3> QED BY <3>1, <3>2, <3>3
  <2> QED BY <1>1, <2>1 DEF KeysExact
<1>f. /\ \A o2 \in Objects : /\ freshKeys'[o2] \subseteq freshKeys[o2]
                             /\ freshKeys[o2] \ {<<running, n>>} \subseteq freshKeys'[o2]
      /\ ~(i.kind = "StaleRefresh" /\ ownFresh) => freshKeys' = freshKeys
      /\ \A o2 \in Objects : freshKeys[o2] \in SUBSET Keys
  BY DEF KeyEffects, KeyInv, TypeOK
<1>6. FreshKeysOK'
  <2>o. /\ \A o2 \in Objects : \A k \in freshKeys[o2] : versions[o2][k] # NoList
        /\ \A e \in Envs, m1 \in Lps, m \in Lps :
             sourceKey[e] # 0 /\ ~InSetup(e) /\ <<e, m1>> \in freshKeys[sourceKey[e]]
               => <<e, m>> \in freshKeys[sourceKey[e]]
        /\ IF i.kind = "StaleRefresh" /\ ownFresh
           THEN \A m \in todo : <<running, m>> \in freshKeys[o]
           ELSE \A m \in Lps : <<running, m>> \notin freshKeys[o]
    BY <1>1 DEF KeyInv, FreshKeysOK
  <2>1. ASSUME NEW o2 \in Objects, NEW k \in freshKeys'[o2]
        PROVE  versions'[o2][k] # NoList
    BY <1>f, <1>v, <2>1, <2>o
  <2>2. ASSUME NEW e \in Envs, NEW m1 \in Lps, NEW m \in Lps,
               sourceKey[e] # 0, ~InSetup(e), <<e, m1>> \in freshKeys'[sourceKey[e]]
        PROVE  <<e, m>> \in freshKeys'[sourceKey[e]]
    <3>1. sourceKey[e] \in Objects /\ e # running
      <4>1. sourceKey[e] \in 0..taskId /\ taskId \in 0..MaxTasks /\ MaxTasks \in Nat
        BY ProgramEnvironmentAssumption DEF KeyInv, TypeOK
      <4> QED BY <1>1, <2>2, <4>1 DEF Objects, InSetup
    <3>2. <<e, m>> \in freshKeys[sourceKey[e]]
      BY <1>f, <2>2, <2>o, <3>1
    <3>3. <<e, m>> # <<running, n>>
      BY <3>1
    <3> QED BY <1>f, <3>1, <3>2, <3>3
  <2>3. ASSUME i.kind = "StaleRefresh", ownFresh, NEW m \in todo \ {n}
        PROVE  <<running, m>> \in freshKeys'[o]
    <3>1. <<running, m>> \in freshKeys[o] /\ <<running, m>> # <<running, n>>
      BY <2>3, <2>o
    <3> HIDE DEF o
    <3> QED BY <1>2, <1>f, <3>1
  <2>4. ASSUME ~(i.kind = "StaleRefresh" /\ ownFresh), NEW m \in Lps
        PROVE  <<running, m>> \notin freshKeys'[o]
    BY <1>f, <2>4, <2>o
  <2> QED BY <1>1, <2>1, <2>2, <2>3, <2>4 DEF FreshKeysOK, InSetup
<1> QED BY <1>3, <1>4, <1>5, <1>6 DEF KeyInv

\* ... whether or not an assertion fails.
LEMMA SetUpKeyInv ==
  ASSUME KeyInv, NEW n \in Lps, SetUpPartsList(n)
  PROVE  KeyInv'
<1>1. CASE stage' = "aborted" /\ UNCHANGED <<heap, versions, freshKeys>>
  <2>1. /\ stage = "setup" /\ todo' = todo \ {n}
        /\ UNCHANGED <<program, taskId, running, ownFresh, instrs, sourceKey,
                       invocation, latest>>
    BY SetUpKeys
  <2>2. TypeOK' /\ HeapTypeOK'
    BY <1>1, <2>1 DEF KeyInv, TypeOK, HeapTypeOK
  <2> QED BY <1>1, <2>1, <2>2 DEF KeyInv, TaskOK, InstrsOK, KeysExact, FreshKeysOK
<1>2. CASE stage' = stage /\ KeyEffects(n)
  BY <1>2, KeyEffectsKeyInv
<1> QED BY <1>1, <1>2, SetUpKeys

\* A new instruction of an item keeps KeyInv ...
LEMMA BindKeyInv ==
  ASSUME KeyInv, NEW e \in Envs, Bindable(e), NEW i,
         i \in [kind : {"ReadFromFile", "DataTransfer"}, source : Envs \cup {None}],
         i.kind = "DataTransfer" => i.source \in Envs \ {e} /\ sourceKey[i.source] # 0,
         instrs' = [instrs EXCEPT ![e] = i],
         UNCHANGED <<program, taskId, stage, running, todo, ownFresh, sourceKey,
                     invocation, heap, versions, freshKeys, latest>>
  PROVE  KeyInv'
<1>1. stage = "idle"
  BY DEF Bindable
<1>2. instrs'[e] = i /\ \A f \in Envs \ {e} : instrs'[f] = instrs[f]
  BY DEF KeyInv, TypeOK
<1>3. TypeOK' /\ HeapTypeOK'
  <2>1. i \in [kind : {"StaleRefresh", "CreateFresh", "ReadFromFile", "DataTransfer"},
               source : Envs \cup {None}]
    OBVIOUS
  <2> QED BY <2>1 DEF KeyInv, TypeOK, HeapTypeOK
<1>4. TaskOK' /\ InstrsOK'
  BY <1>1, <1>2 DEF KeyInv, TaskOK, InstrsOK
<1>5. KeysExact' /\ FreshKeysOK'
  BY <1>1 DEF KeyInv, KeysExact, Registered, InSetup, FreshKeysOK
<1> QED BY <1>3, <1>4, <1>5 DEF KeyInv

\* ... so bind_input and an assignment do.
LEMMA BindingsKeyInv ==
  ASSUME KeyInv, NEW e \in Envs, BindInput(e) \/ \E src \in Envs : Assign(e, src)
  PROVE  KeyInv'
<1>1. CASE BindInput(e)
  BY <1>1, BindKeyInv DEF BindInput, ReadFromFile
<1>2. ASSUME NEW src \in Envs, Assign(e, src)
      PROVE  KeyInv'
  <2> DEFINE primary == IF instrs[src].kind = "DataTransfer" THEN instrs[src].source ELSE src
  <2>1. primary \in Envs \ {e} /\ sourceKey[primary] # 0
    BY <1>2 DEF Assign, KeyInv, InstrsOK
  <2>2. instrs' = [instrs EXCEPT ![e] = DataTransfer(primary)] /\ Bindable(e)
        /\ UNCHANGED <<program, taskId, stage, running, todo, ownFresh, sourceKey,
                       invocation, heap, versions, freshKeys, latest>>
    BY <1>2 DEF Assign
  <2> HIDE DEF primary
  <2> QED BY <2>1, <2>2, BindKeyInv DEF DataTransfer
<1> QED BY <1>1, <1>2

\* What is known while a task runs.
LEMMA ActiveFacts ==
  ASSUME KeyInv, stage \in {"setup", "compute"}
  PROVE  /\ running \in Envs /\ running # None
         /\ sourceKey[running] \in Objects /\ taskId \in Objects
         /\ \A n \in Lps : mine(n) \in Lists /\ mine(n) # NoList
<1>1. running \in Envs /\ running # None
  BY DEF KeyInv, TypeOK, TaskOK
<1>2. sourceKey[running] \in Objects /\ taskId \in Objects
  <2>1. /\ sourceKey[running] \in 0..taskId /\ sourceKey[running] # 0
        /\ taskId \in 0..MaxTasks /\ MaxTasks \in Nat
    BY <1>1, ProgramEnvironmentAssumption DEF KeyInv, TypeOK, TaskOK
  <2> QED BY <2>1 DEF Objects
<1>3. \A n \in Lps : mine(n) \in Lists /\ mine(n) # NoList
  BY <1>2, Tuples DEF mine
<1> QED BY <1>1, <1>2, <1>3

\* What recording the versions of the task that is set up does to the keys.
RecordEffects ==
  LET o == sourceKey[running]
  IN  /\ heap' \in HeapType
      /\ versions' \in [Objects -> [Keys -> Lists \cup {NoList}]]
      /\ freshKeys' \in [Objects -> SUBSET Keys]
      /\ \A o2 \in Objects, k \in Keys :
           versions'[o2][k] = IF IsNew(Instr) /\ o2 = o /\ k[1] = running
                              THEN mine(k[2]) ELSE versions[o2][k]
      /\ \A o2 \in Objects :
           freshKeys'[o2] = IF o2 # o THEN freshKeys[o2]
                            ELSE IF IsNew(Instr) THEN KeysOf(running)
                                 ELSE freshKeys[o] \cup KeysOf(running)

\* postprocessProgramEnv has these effects ...
LEMMA RecordKeys ==
  ASSUME KeyInv, RecordVersions
  PROVE  RecordEffects
<1> DEFINE o == sourceKey[running]
<1>1. /\ running \in Envs /\ o \in Objects
      /\ \A n \in Lps : mine(n) \in Lists
  BY ActiveFacts DEF RecordVersions
<1>2. KeysOf(running) \in SUBSET Keys /\ \A k \in Keys : mine(k[2]) \in Lists
  BY <1>1, KeysFinite, Tuples
<1>3. /\ versions \in [Objects -> [Keys -> Lists \cup {NoList}]]
      /\ freshKeys \in [Objects -> SUBSET Keys] /\ heap \in HeapType
  BY DEF KeyInv, TypeOK, HeapTypeOK
<1>4. CASE IsNew(Instr)
  <2>1. /\ heap' = heap
        /\ versions' = [versions EXCEPT ![o] =
                          [k \in Keys |-> IF k[1] = running THEN mine(k[2]) ELSE @[k]]]
        /\ freshKeys' = [freshKeys EXCEPT ![o] = KeysOf(running)]
    BY <1>4 DEF RecordVersions, initiateVersionManagement, Instr
  <2> DEFINE w == [k \in Keys |-> IF k[1] = running THEN mine(k[2]) ELSE versions[o][k]]
  <2>2. w \in [Keys -> Lists \cup {NoList}]
    BY <1>1, <1>2, <1>3
  <2>3. versions' = [versions EXCEPT ![o] = w]
    BY <1>1, <1>3, <2>1
  <2>4. versions' \in [Objects -> [Keys -> Lists \cup {NoList}]]
    <3> HIDE DEF w
    <3> QED BY <1>3, <2>2, <2>3
  <2>5. freshKeys' \in [Objects -> SUBSET Keys]
    BY <1>2, <1>3, <2>1
  <2> HIDE DEF o
  <2> QED BY <1>1, <1>3, <1>4, <2>1, <2>3, <2>4, <2>5 DEF RecordEffects, o
<1>5. CASE ~IsNew(Instr)
  <2>1. /\ heap' = [heap EXCEPT !.fresh = heap.fresh \cup {mine(n) : n \in Lps}]
        /\ versions' = versions
        /\ freshKeys' = [freshKeys EXCEPT ![o] = freshKeys[o] \cup KeysOf(running)]
    BY <1>3, <1>5 DEF RecordVersions, recordFreshPartsListVersions, Instr, HeapType
  <2>2. {mine(n) : n \in Lps} \in SUBSET Lists
    BY <1>1
  <2>3. heap' \in HeapType
    BY <1>3, <2>1, <2>2 DEF HeapType
  <2> QED BY <1>1, <1>2, <1>3, <1>5, <2>1, <2>3 DEF RecordEffects
<1> QED BY <1>4, <1>5

\* ... and keeps KeyInv.
LEMMA RecordKeyInv ==
  ASSUME KeyInv, RecordVersions
  PROVE  KeyInv'
<1> DEFINE o == sourceKey[running]
<1>1. /\ stage = "setup" /\ stage' = "compute" /\ todo = {}
      /\ UNCHANGED <<program, taskId, running, todo, ownFresh, instrs, sourceKey,
                     invocation, latest>>
      /\ running \in Envs /\ o \in Objects
      /\ \A n \in Lps : mine(n) # NoList
  BY ActiveFacts DEF RecordVersions
<1>2. RecordEffects
  BY RecordKeys
<1>3. TypeOK' /\ HeapTypeOK'
  BY <1>1, <1>2 DEF KeyInv, TypeOK, HeapTypeOK, RecordEffects
<1>4. TaskOK' /\ InstrsOK'
  BY <1>1 DEF KeyInv, TaskOK, InstrsOK
<1>k. \A o2 \in Objects, f \in Envs, m \in Lps :
        versions[o2][<<f, m>>] # NoList <=> sourceKey[f] = o2 /\ Registered(f, m)
  BY <1>1 DEF KeyInv, KeysExact
<1>i. /\ IsNew(Instr) => o = taskId /\ \A f \in Envs \ {running} : sourceKey[f] # taskId
      /\ ~IsNew(Instr) => Instr.kind \in {"StaleRefresh", "DataTransfer"}
  BY <1>1 DEF KeyInv, InstrsOK, Instr, IsNew, TypeOK
<1>5. ASSUME NEW o2 \in Objects, NEW f \in Envs, NEW m \in Lps
      PROVE  versions'[o2][<<f, m>>] # NoList <=> sourceKey[f] = o2
  <2>1. /\ <<f, m>> \in Keys
        /\ versions'[o2][<<f, m>>] = IF IsNew(Instr) /\ o2 = o /\ f = running
                                     THEN mine(m) ELSE versions[o2][<<f, m>>]
    BY <1>2, Tuples DEF RecordEffects
  <2>2. Registered(f, m) <=> ~(f = running /\ IsNew(Instr))
    BY <1>1, <1>i DEF Registered, InSetup, IsNew
  <2> QED BY <1>1, <1>k, <1>i, <2>1, <2>2
<1>6. KeysExact'
  <2>1. \A f \in Envs, m \in Lps : (Registered(f, m))'
    BY <1>1 DEF Registered, InSetup
  <2> QED BY <1>1, <1>5, <2>1 DEF KeysExact
<1>7. FreshKeysOK'
  <2>f. \A o2 \in Objects :
          freshKeys'[o2] = IF o2 # o THEN freshKeys[o2]
                            ELSE IF IsNew(Instr) THEN KeysOf(running)
                                 ELSE freshKeys[o] \cup KeysOf(running)
    BY <1>2 DEF RecordEffects
  <2>o. /\ \A o2 \in Objects : \A k \in freshKeys[o2] : k \in Keys /\ versions[o2][k] # NoList
        /\ \A e \in Envs, m1 \in Lps, m \in Lps :
             sourceKey[e] # 0 /\ ~InSetup(e) /\ <<e, m1>> \in freshKeys[sourceKey[e]]
               => <<e, m>> \in freshKeys[sourceKey[e]]
    BY <1>1 DEF KeyInv, FreshKeysOK, TypeOK
  <2>s. \A e \in Envs : sourceKey[e] # 0 => sourceKey[e] \in Objects
    <3>1. \A e \in Envs : sourceKey[e] \in 0..taskId /\ taskId \in 0..MaxTasks
                             /\ MaxTasks \in Nat
      BY ProgramEnvironmentAssumption DEF KeyInv, TypeOK
    <3> QED BY <3>1 DEF Objects
  <2>m. \A m \in Lps : <<running, m>> \in KeysOf(running)
    BY DEF KeysOf
  <2>1. ASSUME NEW o2 \in Objects, NEW k \in freshKeys'[o2]
        PROVE  versions'[o2][k] # NoList
    <3>1. CASE k \in KeysOf(running) /\ o2 = o
      <4>1. PICK m \in Lps : k = <<running, m>>
        BY <3>1, Tuples
      <4> QED BY <1>1, <1>5, <3>1, <4>1
    <3>2. CASE ~(k \in KeysOf(running) /\ o2 = o)
      <4>1. k \in freshKeys[o2] /\ k \in Keys /\ versions[o2][k] # NoList
        BY <2>1, <2>f, <2>o, <3>2
      <4>2. ~(o2 = o /\ k[1] = running)
        BY <3>2, <4>1, Tuples DEF KeysOf
      <4> QED BY <1>2, <4>1, <4>2 DEF RecordEffects
    <3> QED BY <3>1, <3>2
  <2>2. ASSUME NEW e \in Envs, NEW m1 \in Lps, NEW m \in Lps,
               sourceKey[e] # 0, <<e, m1>> \in freshKeys'[sourceKey[e]]
        PROVE  <<e, m>> \in freshKeys'[sourceKey[e]]
    <3>1. CASE e = running
      BY <1>1, <2>f, <2>m, <3>1
    <3>2. CASE e # running
      <4>1. <<e, m1>> \notin KeysOf(running) /\ ~InSetup(e)
        BY <3>2 DEF KeysOf, InSetup
      <4>2. <<e, m1>> \in freshKeys[sourceKey[e]] /\ (IsNew(Instr) => sourceKey[e] # o)
        BY <2>2, <2>f, <2>s, <1>i, <4>1, <3>2
      <4>3. <<e, m>> \in freshKeys[sourceKey[e]]
        BY <2>2, <2>o, <4>1, <4>2
      <4> QED BY <2>2, <2>f, <2>s, <4>2, <4>3
    <3> QED BY <3>1, <3>2
  <2>3. ASSUME NEW m \in Lps PROVE <<running, m>> \in freshKeys'[o]
    BY <1>1, <2>f, <2>m
  <2> QED BY <1>1, <2>1, <2>2, <2>3 DEF FreshKeysOK, InSetup
<1> QED BY <1>3, <1>4, <1>6, <1>7 DEF KeyInv

\* What markNonMatchingVersionsStale(h, o, e) returns.
MarkedFrom(r, h, o, e) ==
  LET Of(keys) == {versions[o][k] : k \in keys}
      kept     == freshKeys[o] \cap KeysOf(e)
  IN  /\ r.heap = [h EXCEPT !.fresh = (h.fresh \ Of(freshKeys[o])) \cup Of(kept)]
      /\ r.heap \in HeapType
      /\ r.freshKeys = [freshKeys EXCEPT ![o] = kept]

\* markNonMatchingVersionsStale does what MarkedFrom says.
LEMMA Marked ==
  ASSUME TypeOK, NEW h \in HeapType, NEW o \in Objects, NEW e \in Envs,
         \A k \in freshKeys[o] : versions[o][k] # NoList
  PROVE  MarkedFrom(markNonMatchingVersionsStale(h, o, e), h, o, e)
<1> DEFINE r == markNonMatchingVersionsStale(h, o, e)
           Of(keys) == {versions[o][k] : k \in keys}
           kept == freshKeys[o] \cap KeysOf(e)
<1>1. r.heap = [h EXCEPT !.fresh = (h.fresh \ Of(freshKeys[o])) \cup Of(kept)]
  BY DEF markNonMatchingVersionsStale, HeapType
<1>2. r.heap \in HeapType
  <2>1. \A k \in Keys : versions[o][k] \in Lists \cup {NoList}
    BY DEF TypeOK
  <2>2. freshKeys[o] \in SUBSET Keys
    BY DEF TypeOK
  <2>3. Of(kept) \in SUBSET Lists
    BY <2>1, <2>2
  <2> HIDE DEF Of, r
  <2> QED BY <1>1, <2>3 DEF HeapType
<1>3. r.freshKeys = [freshKeys EXCEPT ![o] = kept]
  BY DEF markNonMatchingVersionsStale
<1>4. MarkedFrom(r, h, o, e)
  <2> HIDE DEF r
  <2> QED BY <1>1, <1>2, <1>3 DEF MarkedFrom
<1> QED BY <1>4

\* The default instructions are instructions.
LEMMA DefaultsType ==
  /\ {CreateFresh, StaleRefresh} \subseteq
       [kind : {"StaleRefresh", "CreateFresh", "ReadFromFile", "DataTransfer"},
        source : Envs \cup {None}]
  /\ \A i \in {CreateFresh, StaleRefresh} : i.kind # "DataTransfer"
<1>1. None \in Envs \cup {None}
  OBVIOUS
<1>2. CreateFresh.kind = "CreateFresh" /\ StaleRefresh.kind = "StaleRefresh"
  BY DEF CreateFresh, StaleRefresh
<1> QED BY <1>1, <1>2 DEF CreateFresh, StaleRefresh

\* What the end of the task does to the keys.
EndEffects ==
  LET e == running
      o == sourceKey[e]
  IN  /\ heap' \in HeapType
      /\ freshKeys' \in [Objects -> SUBSET Keys]
      /\ latest' \in [Objects -> Int]
      /\ \A o2 \in Objects :
           /\ freshKeys'[o2] = IF e \in program.updates /\ o2 = o
                               THEN freshKeys[o] \cap KeysOf(e) ELSE freshKeys[o2]
           /\ latest'[o2] = IF e \in program.updates /\ o2 = o THEN taskId ELSE latest[o2]

\* The end of a task has these effects ...
LEMMA EndKeys ==
  ASSUME KeyInv, EndTask
  PROVE  EndEffects
<1> DEFINE e == running
           o == sourceKey[e]
           written == {heap.buffer[mine(n)] : n \in Lps}
           h == [heap EXCEPT !.value = [b \in Lists |-> IF b \in written THEN taskId ELSE @[b]]]
           s == markNonMatchingVersionsStale(h, o, e)
<1>1. e \in Envs /\ o \in Objects /\ taskId \in Int /\ stage = "compute"
  BY ActiveFacts DEF EndTask, KeyInv, TypeOK
<1>2. CASE e \in program.updates
  <2>1. heap' = s.heap /\ freshKeys' = s.freshKeys /\ latest' = [latest EXCEPT ![o] = taskId]
    BY <1>2 DEF EndTask
  <2>2. h \in HeapType
    <3>1. heap \in HeapType
      BY DEF KeyInv, HeapTypeOK
    <3>2. [b \in Lists |-> IF b \in written THEN taskId ELSE heap.value[b]] \in [Lists -> Int]
      <4> HIDE DEF written
      <4> QED BY <1>1, <3>1 DEF HeapType
    <3> HIDE DEF written
    <3> QED BY <3>1, <3>2 DEF HeapType
  <2>3. \A k \in freshKeys[o] : versions[o][k] # NoList
    BY <1>1 DEF KeyInv, FreshKeysOK
  <2> HIDE DEF h
  <2>m. MarkedFrom(s, h, o, e)
    <3>1. TypeOK
      BY DEF KeyInv
    <3> QED BY <1>1, <2>2, <2>3, <3>1, Marked
  <2>4. s.heap \in HeapType /\ s.freshKeys = [freshKeys EXCEPT ![o] = freshKeys[o] \cap KeysOf(e)]
    BY <2>m DEF MarkedFrom
  <2>5. latest \in [Objects -> Int] /\ freshKeys \in [Objects -> SUBSET Keys]
    BY DEF KeyInv, TypeOK
  <2> HIDE DEF s
  <2> QED BY <1>1, <1>2, <2>1, <2>4, <2>5 DEF EndEffects
<1>3. CASE e \notin program.updates
  <2>1. UNCHANGED <<heap, freshKeys, latest>>
    BY <1>3 DEF EndTask
  <2> QED BY <1>3, <2>1 DEF EndEffects, KeyInv, TypeOK, HeapTypeOK
<1> QED BY <1>2, <1>3

\* ... and keeps KeyInv.
LEMMA EndKeyInv ==
  ASSUME KeyInv, EndTask
  PROVE  KeyInv'
<1> DEFINE e == running
           o == sourceKey[e]
<1>1. /\ e \in Envs /\ o \in Objects /\ stage = "compute" /\ stage' = "idle"
      /\ running' = None /\ todo = {}
      /\ UNCHANGED <<program, taskId, todo, sourceKey, invocation, versions>>
  BY ActiveFacts DEF EndTask, KeyInv, TaskOK
<1>2. EndEffects
  BY EndKeys
<1>i. /\ instrs' \in [Envs -> [kind : {"StaleRefresh", "CreateFresh", "ReadFromFile",
                                        "DataTransfer"}, source : Envs \cup {None}]]
      /\ instrs'[e].kind # "DataTransfer"
      /\ \A f \in Envs \ {e} : instrs'[f] = instrs[f]
  <2>1. instrs' = [instrs EXCEPT ![e] = DefaultInstr(program.type[e], FALSE)]
    BY DEF EndTask
  <2>2. DefaultInstr(program.type[e], FALSE) \in {CreateFresh, StaleRefresh}
    BY DEF DefaultInstr
  <2> QED BY <1>1, <2>1, <2>2, DefaultsType DEF KeyInv, TypeOK
<1>3. TypeOK' /\ HeapTypeOK'
  <2>1. ownFresh' = FALSE
    BY DEF EndTask
  <2> QED BY <1>1, <1>2, <1>i, <2>1 DEF KeyInv, TypeOK, HeapTypeOK, EndEffects
<1>4. TaskOK' /\ InstrsOK'
  BY <1>1, <1>i DEF KeyInv, TaskOK, InstrsOK
<1>5. KeysExact'
  <2>1. \A f \in Envs, m \in Lps : Registered(f, m) /\ (Registered(f, m))'
    BY <1>1 DEF Registered, InSetup
  <2>2. \A o2 \in Objects, f \in Envs, m \in Lps :
          versions[o2][<<f, m>>] # NoList <=> sourceKey[f] = o2
    BY <1>1, <2>1 DEF KeyInv, KeysExact
  <2> QED BY <1>1, <2>1, <2>2 DEF KeysExact
<1>6. FreshKeysOK'
  <2>f. \A o2 \in Objects : freshKeys'[o2] = IF e \in program.updates /\ o2 = o
                               THEN freshKeys[o] \cap KeysOf(e) ELSE freshKeys[o2]
    BY <1>2 DEF EndEffects
  <2>1. ASSUME NEW o2 \in Objects, NEW k \in freshKeys'[o2]
        PROVE  versions'[o2][k] # NoList
    BY <1>1, <2>f, <2>1 DEF KeyInv, FreshKeysOK
  <2>2. ASSUME NEW f \in Envs, NEW m1 \in Lps, NEW m \in Lps,
               sourceKey[f] # 0, <<f, m1>> \in freshKeys'[sourceKey[f]]
        PROVE  <<f, m>> \in freshKeys'[sourceKey[f]]
    <3>1. sourceKey[f] \in Objects
      <4>1. sourceKey[f] \in 0..taskId /\ taskId \in 0..MaxTasks /\ MaxTasks \in Nat
        BY ProgramEnvironmentAssumption DEF KeyInv, TypeOK
      <4> QED BY <2>2, <4>1 DEF Objects
    <3>2. <<f, m1>> \in freshKeys[sourceKey[f]] /\ ~InSetup(f)
      BY <1>1, <2>2, <2>f, <3>1 DEF InSetup
    <3>3. <<f, m>> \in freshKeys[sourceKey[f]]
      BY <1>1, <2>2, <3>2 DEF KeyInv, FreshKeysOK
    <3>4. <<f, m1>> \in KeysOf(e) <=> <<f, m>> \in KeysOf(e)
      BY DEF KeysOf
    <3> QED BY <2>2, <2>f, <3>1, <3>3, <3>4
  <2> QED BY <1>1, <2>1, <2>2 DEF FreshKeysOK, InSetup
<1> QED BY <1>3, <1>4, <1>5, <1>6 DEF KeyInv

\* KeyInv holds at first.
LEMMA InitKeyInv ==
  ASSUME Init
  PROVE  KeyInv
<1>1. TypeOK
  <2>1. instrs \in [Envs -> {CreateFresh, StaleRefresh}]
    BY DEF Init, DefaultInstr
  <2>2. 0 \in 0..MaxTasks /\ 0 \in 0..0
    BY ProgramEnvironmentAssumption
  <2>3. instrs \in [Envs -> [kind : {"StaleRefresh", "CreateFresh", "ReadFromFile",
                                     "DataTransfer"}, source : Envs \cup {None}]]
    BY <2>1, DefaultsType
  <2>4. versions \in [Objects -> [Keys -> Lists \cup {NoList}]]
    BY DEF Init
  <2>5. /\ sourceKey \in [Envs -> 0..taskId] /\ invocation \in [Envs -> 0..taskId]
        /\ taskId \in 0..MaxTasks
    BY <2>2 DEF Init
  <2>6. freshKeys \in [Objects -> SUBSET Keys] /\ latest \in [Objects -> Int]
    BY DEF Init
  <2> QED BY <2>3, <2>4, <2>5, <2>6 DEF Init, TypeOK
<1>2. HeapTypeOK
  BY DEF Init, HeapTypeOK, HeapType, EmptyHeap
<1>3. TaskOK /\ InstrsOK
  <2>1. \A e \in Envs : instrs[e] \in {CreateFresh, StaleRefresh}
    BY DEF Init, DefaultInstr
  <2>2. \A e \in Envs : instrs[e].kind # "DataTransfer"
    BY <2>1, DefaultsType
  <2> QED BY <2>2 DEF Init, TaskOK, InstrsOK
<1>4. KeysExact
  <2>1. \A o \in Objects : o # 0
    BY DEF Objects
  <2>2. \A o \in Objects, e \in Envs, n \in Lps : versions[o][<<e, n>>] = NoList
    BY Tuples DEF Init
  <2> QED BY <2>1, <2>2 DEF Init, KeysExact
<1>5. FreshKeysOK
  BY DEF Init, FreshKeysOK
<1> QED BY <1>1, <1>2, <1>3, <1>4, <1>5 DEF KeyInv

\* Every step keeps KeyInv.
LEMMA KeyInvStep ==
  ASSUME KeyInv, [Next]_vars
  PROVE  KeyInv'
<1>1. ASSUME NEW e \in Envs, BindInput(e) PROVE KeyInv'
  BY <1>1, BindingsKeyInv
<1>2. ASSUME NEW e \in Envs, StartTask(e) PROVE KeyInv'
  BY <1>2, StartTaskKeyInv
<1>3. ASSUME NEW dest \in Envs, NEW src \in Envs, Assign(dest, src) PROVE KeyInv'
  BY <1>3, BindingsKeyInv
<1>4. ASSUME NEW n \in Lps, SetUpPartsList(n) PROVE KeyInv'
  BY <1>4, SetUpKeyInv
<1>5. CASE RecordVersions
  BY <1>5, RecordKeyInv
<1>6. CASE EndTask
  BY <1>6, EndKeyInv
<1>7. CASE UNCHANGED vars
  <2> USE <1>7 DEF vars, KeyInv
  <2>1. TypeOK' /\ HeapTypeOK'
    BY DEF TypeOK, HeapTypeOK
  <2>2. TaskOK' /\ InstrsOK'
    BY DEF TaskOK, InstrsOK, Instr
  <2>3. KeysExact' /\ FreshKeysOK'
    BY DEF KeysExact, Registered, FreshKeysOK, InSetup, Instr
  <2> QED BY <2>1, <2>2, <2>3
<1> QED BY <1>1, <1>2, <1>3, <1>4, <1>5, <1>6, <1>7 DEF Next

\* Of every program: the versions are those of the items that have an array, and what
\* is recorded as fresh is one of them (ObjectVersionManager).
THEOREM KeyInvariance == Spec => []KeyInv
<1>1. Init => KeyInv
  BY InitKeyInv
<1>2. KeyInv /\ [Next]_vars => KeyInv'
  BY KeyInvStep
<1> QED BY <1>1, <1>2, PTL DEF Spec

\* removeOldPartsListReferences finds a version for each allocation of an item that has
\* a source key, whatever the program.
THEOREM ItemsHaveVersions == Spec => []VersionsOfItems
<1>1. KeyInv => VersionsOfItems
  <2> SUFFICES ASSUME KeyInv, stage = "idle", NEW e \in Envs, sourceKey[e] # 0,
                      NEW k \in KeysOf(e)
               PROVE  versions[sourceKey[e]][k] # NoList
    BY DEF VersionsOfItems
  <2>1. PICK n \in Lps : k = <<e, n>>
    BY Tuples
  <2>2. sourceKey[e] \in Objects
    <3>1. sourceKey[e] \in 0..taskId /\ taskId \in 0..MaxTasks /\ MaxTasks \in Nat
      BY ProgramEnvironmentAssumption DEF KeyInv, TypeOK
    <3> QED BY <3>1 DEF Objects
  <2>3. Registered(e, n)
    BY DEF Registered, InSetup
  <2> QED BY <2>1, <2>2, <2>3 DEF KeyInv, KeysExact
<1> QED BY <1>1, KeyInvariance, PTL

---------------------------------------------------------------------
(* A fresh version is found.                                         *)

\* A source key that is not NULL names an object.
LEMMA SourceType ==
  ASSUME TypeOK, NEW e \in Envs, sourceKey[e] # 0
  PROVE  sourceKey[e] \in Objects
<1>1. sourceKey[e] \in 0..taskId /\ taskId \in 0..MaxTasks /\ MaxTasks \in Nat
  BY ProgramEnvironmentAssumption DEF TypeOK
<1> QED BY <1>1 DEF Objects

\* An instruction that looks for a fresh version finds one.
LEMMA FreshExists ==
  ASSUME KeyInv, SteadyInv, stage = "setup", NEW n \in todo,
         \/ Instr.kind = "StaleRefresh" /\ ~ownFresh
         \/ Instr.kind = "DataTransfer"
  PROVE  freshKeys[sourceKey[running]] # {}
<1> DEFINE o == sourceKey[running]
<1>1. /\ running \in Envs /\ n \in Lps /\ o \in Objects /\ <<running, n>> \in Keys
  BY InSetupFacts
<1>2. ~UpToDate(o, <<running, n>>)
  <2>1. <<running, n>> \notin freshKeys[o]
    BY <1>1 DEF KeyInv, FreshKeysOK
  <2> QED BY <2>1 DEF UpToDate
<1>3. CASE \E e \in Envs : Anchor(o, e)
  <2>1. PICK e \in Envs : Anchor(o, e)
    BY <1>3
  <2>2. UpToDate(o, <<e, n>>) /\ e # running
    BY <1>1, <1>2, <2>1 DEF Anchor
  <2>3. <<e, n>> \in freshKeys[o]
    BY <2>2 DEF UpToDate, InSetup
  <2> QED BY <2>3
<1>4. CASE AllUpToDate(o)
  <2>1. Instr.kind = "DataTransfer"
    <3>1. versions[o][<<running, n>>] = NoList
      BY <1>1, <1>2, <1>4 DEF AllUpToDate
    <3>2. NoList \notin Lists
      BY Tuples
    <3> QED BY <3>1, <3>2, InSetupFacts
  <2>2. /\ Instr.source \in Envs \ {running}
        /\ versions[o][<<Instr.source, n>>] # NoList
    BY <1>1, <2>1, InSetupFacts, Tuples
  <2>3. UpToDate(o, <<Instr.source, n>>)
    BY <1>1, <1>4, <2>2, Tuples DEF AllUpToDate
  <2>4. <<Instr.source, n>> \in freshKeys[o]
    BY <2>2, <2>3 DEF UpToDate, InSetup
  <2> QED BY <2>4
<1> QED BY <1>1, <1>3, <1>4 DEF SteadyInv, Supplied

\* So setupPartsList of a steady program fails no assertion.
LEMMA SetUpCompletes ==
  ASSUME KeyInv, SteadyInv, NEW n \in Lps, SetUpPartsList(n)
  PROVE  stage' = "setup"
<1>1. stage = "setup" /\ n \in todo
  BY DEF SetUpPartsList
<1>2. CASE IsNew(Instr) /\ SetUpNew(running, n)
  BY <1>1, <1>2 DEF SetUpNew
<1>3. CASE Instr.kind = "StaleRefresh" /\ ownFresh
             /\ RefreshFromOwn(running, sourceKey[running], n)
  BY <1>1, <1>3 DEF RefreshFromOwn
<1>4. CASE Instr.kind = "StaleRefresh" /\ ~ownFresh
             /\ RefreshFromOther(running, sourceKey[running], n)
  BY <1>1, <1>4, FreshExists DEF RefreshFromOther
<1>5. CASE Instr.kind = "DataTransfer"
             /\ TakeOver(running, sourceKey[running], Instr.source, n)
  BY <1>1, <1>5, FreshExists DEF TakeOver
<1> QED BY <1>1, <1>2, <1>3, <1>4, <1>5 DEF SetUpPartsList, Instr

\* Each step keeps SteadyInv: binding ...
LEMMA BindSteady ==
  ASSUME KeyInv, SteadyInv, NEW e \in Envs, BindInput(e) \/ \E src \in Envs : Assign(e, src)
  PROVE  SteadyInv'
<1>1. /\ Bindable(e)
      /\ \A f \in Envs \ {e} : instrs'[f] = instrs[f]
      /\ UNCHANGED <<program, taskId, stage, running, todo, ownFresh, sourceKey,
                     invocation, heap, versions, freshKeys, latest>>
  BY DEF BindInput, Assign, KeyInv, TypeOK
<1>2. InstrSteady'
  BY <1>1 DEF SteadyInv, InstrSteady, Bindable
<1>3. OutAlone'
  BY <1>1 DEF SteadyInv, OutAlone
<1>4. ASSUME NEW o \in Objects PROVE Supplied(o)'
  BY <1>1 DEF SteadyInv, Supplied, AllUpToDate, Anchor, UpToDate, InSetup
<1> QED BY <1>1, <1>2, <1>3, <1>4 DEF SteadyInv

\* ... the start of a task: who loses versions is no anchor ...
LEMMA StartSteady ==
  ASSUME KeyInv, SteadyInv, NEW e \in Envs, StartTask(e)
  PROVE  SteadyInv'
<1>0. /\ stage = "idle" /\ stage' = "setup" /\ running = None /\ running' = e
      /\ todo' = Lps /\ UNCHANGED <<program, instrs>> /\ e # None
      /\ \A f \in Envs \ {e} : sourceKey'[f] = sourceKey[f]
  BY StartTaskFacts
<1>1. InstrSteady'
  <2>1. \A f \in Envs : running # f
    BY <1>0, ProgramEnvironmentAssumption
  <2> QED BY <1>0, <2>1 DEF SteadyInv, InstrSteady
<1>2. OutAlone'
  <2>1. ASSUME program.type[e] = "OUT", NEW f \in Envs \ {e}
        PROVE  sourceKey'[f] # sourceKey'[e]
    <3>1. IsNew(instrs[e])
      BY <2>1 DEF SteadyInv, InstrSteady, IsNew
    <3>2. sourceKey'[e] = taskId' /\ sourceKey[f] \in 0..taskId /\ taskId' = taskId + 1
            /\ taskId \in Nat
      BY <3>1, StartTaskFacts DEF KeyInv, TypeOK
    <3> QED BY <1>0, <3>2
  <2> QED BY <1>0, <2>1 DEF OutAlone
<1>3. ASSUME NEW o \in Objects PROVE Supplied(o)'
  <2>k. /\ \A k \in Keys : versions'[o][k] # NoList <=>
             versions[o][k] # NoList /\ ~(Loses(e) /\ o = sourceKey[e] /\ k \in KeysOf(e))
        /\ \A k : k \in freshKeys'[o] <=>
             k \in freshKeys[o] /\ ~(Loses(e) /\ o = sourceKey[e] /\ k \in KeysOf(e))
    <3>1. /\ \A k \in Keys :
               versions'[o][k] = IF Loses(e) /\ o = sourceKey[e] /\ k \in KeysOf(e)
                                 THEN NoList ELSE versions[o][k]
          /\ freshKeys'[o] = IF Loses(e) /\ o = sourceKey[e]
                             THEN freshKeys[o] \ KeysOf(e) ELSE freshKeys[o]
      BY StartTaskKeys DEF StartEffects
    <3> QED BY <3>1
  <2>u. \A k : /\ UpToDate(o, k) <=> k \in freshKeys[o]
               /\ UpToDate(o, k)' <=> k \in freshKeys'[o] \/ (k[1] = e /\ k[2] \notin Lps)
    BY <1>0 DEF UpToDate, InSetup
  <2>1. CASE AllUpToDate(o)
    <3>1. AllUpToDate(o)'
      BY <2>1, <2>k, <2>u DEF AllUpToDate
    <3> QED BY <3>1 DEF Supplied
  <2>2. ASSUME NEW f \in Envs, Anchor(o, f) PROVE Anchor(o, f)'
    <3>1. sourceKey[f] = o /\ f \in program.updates /\ program.type[f] # "OUT" /\ o # 0
      BY <2>2 DEF Anchor, Objects
    <3>2. ~(Loses(e) /\ f = e)
      <4>1. f \notin program.rebound
        BY <3>1 DEF SteadyInv, IsSteady
      <4>2. f = e => instrs[f].kind = "StaleRefresh"
        BY <1>0, <3>1, <4>1, ProgramEnvironmentAssumption DEF SteadyInv, InstrSteady
      <4> QED BY <4>2 DEF Loses
    <3>3. sourceKey'[f] = o
      <4>1. CASE f = e
        <5>1. instrs[e].kind = "StaleRefresh"
          BY <3>1, <3>2, <4>1 DEF Loses
        <5> QED BY <3>1, <4>1, <5>1, StartTaskFacts
      <4> QED BY <1>0, <3>1, <4>1
    <3>4. \A n \in Lps : <<f, n>> \in freshKeys'[o]
      <4>1. ASSUME NEW n \in Lps PROVE <<f, n>> \in freshKeys'[o]
        <5>1. <<f, n>> \in freshKeys[o]
          BY <2>2, <2>u DEF Anchor
        <5>2. <<f, n>> \in KeysOf(e) => f = e
          BY DEF KeysOf
        <5> QED BY <2>k, <3>2, <5>1, <5>2
      <4> QED BY <4>1
    <3>5. \A n \in Lps : UpToDate(o, <<f, n>>)'
      BY <3>4 DEF UpToDate
    <3> QED BY <1>0, <3>1, <3>3, <3>5 DEF Anchor
  <2> QED BY <2>1, <2>2 DEF SteadyInv, Supplied
<1> QED BY <1>0, <1>1, <1>2, <1>3 DEF SteadyInv

\* ... setting up an allocation ...
LEMMA SetUpSteady ==
  ASSUME KeyInv, SteadyInv, NEW n \in Lps, SetUpPartsList(n)
  PROVE  SteadyInv'
<1> DEFINE r == running
<1>0. /\ stage = "setup" /\ n \in todo /\ todo' = todo \ {n} /\ stage' = "setup"
      /\ UNCHANGED <<program, taskId, running, ownFresh, instrs, sourceKey,
                     invocation, latest>>
      /\ KeyEffects(n)
  BY SetUpKeys, SetUpCompletes
<1>1. InstrSteady' /\ OutAlone'
  BY <1>0 DEF SteadyInv, InstrSteady, OutAlone
<1>2. ASSUME NEW o \in Objects PROVE Supplied(o)'
  <2>u. ASSUME NEW k, UpToDate(o, k) \/ k = <<r, n>> PROVE UpToDate(o, k)'
    <3>1. CASE k = <<r, n>>
      BY <1>0, <3>1 DEF UpToDate, InSetup
    <3>2. CASE k # <<r, n>> /\ k \in freshKeys[o]
      BY <1>0, <3>2 DEF UpToDate, KeyEffects
    <3>3. CASE InSetup(k[1]) /\ k[2] \notin todo
      BY <1>0, <3>3 DEF UpToDate, InSetup
    <3> QED BY <2>u, <3>1, <3>2, <3>3 DEF UpToDate
  <2>1. CASE AllUpToDate(o)
    <3>1. AllUpToDate(o)'
      <4> SUFFICES ASSUME NEW k \in Keys, versions'[o][k] # NoList PROVE UpToDate(o, k)'
        BY DEF AllUpToDate
      <4>1. versions[o][k] # NoList \/ k = <<r, n>>
        BY <1>0 DEF KeyEffects
      <4> QED BY <2>1, <2>u, <4>1 DEF AllUpToDate
    <3> QED BY <3>1 DEF Supplied
  <2>2. ASSUME NEW f \in Envs, Anchor(o, f) PROVE Anchor(o, f)'
    BY <1>0, <2>2, <2>u DEF Anchor
  <2> QED BY <2>1, <2>2 DEF SteadyInv, Supplied
<1> QED BY <1>0, <1>1, <1>2 DEF SteadyInv

\* ... recording the versions ...
LEMMA RecordSteady ==
  ASSUME KeyInv, SteadyInv, RecordVersions
  PROVE  SteadyInv'
<1> DEFINE r == running
           s == sourceKey[r]
<1>0. /\ stage = "setup" /\ stage' = "compute" /\ todo = {}
      /\ UNCHANGED <<program, taskId, running, todo, ownFresh, instrs, sourceKey,
                     invocation, latest>>
      /\ r \in Envs /\ s \in Objects /\ RecordEffects
  BY ActiveFacts, RecordKeys DEF RecordVersions
<1>1. InstrSteady' /\ OutAlone'
  BY <1>0 DEF SteadyInv, InstrSteady, OutAlone
<1>2. ASSUME NEW o \in Objects PROVE Supplied(o)'
  <2>f. freshKeys'[o] = IF o # s THEN freshKeys[o]
                        ELSE IF IsNew(Instr) THEN KeysOf(r) ELSE freshKeys[o] \cup KeysOf(r)
    BY <1>0 DEF RecordEffects
  <2>u. \A k : UpToDate(o, k)' <=> k \in freshKeys'[o]
    BY <1>0 DEF UpToDate, InSetup
  <2>m. \A n \in Lps : <<r, n>> \in KeysOf(r)
    BY DEF KeysOf
  <2>i. IsNew(Instr) => \A f \in Envs \ {r} : sourceKey[f] # s
    BY <1>0 DEF KeyInv, InstrsOK, Instr
  \* What was up to date before and belongs to o is fresh now.
  <2>1. ASSUME NEW f \in Envs, NEW n \in Lps, sourceKey[f] = o, UpToDate(o, <<f, n>>)
        PROVE  <<f, n>> \in freshKeys'[o]
    <3>1. CASE f = r
      BY <2>1, <2>f, <2>m, <3>1
    <3>2. CASE f # r
      <4>1. <<f, n>> \in freshKeys[o] /\ ~(o = s /\ IsNew(Instr))
        BY <2>1, <2>i, <3>2 DEF UpToDate, InSetup
      <4> QED BY <2>f, <4>1
    <3> QED BY <3>1, <3>2
  <2>2. CASE AllUpToDate(o)
    <3>1. ASSUME NEW f \in Envs, NEW n \in Lps, versions'[o][<<f, n>>] # NoList
          PROVE  <<f, n>> \in freshKeys'[o]
      <4>1. sourceKey[f] = o
        <5>1. KeysExact'
          BY RecordKeyInv DEF KeyInv
        <5> QED BY <1>0, <3>1, <5>1 DEF KeysExact
      <4>2. CASE f = r
        BY <2>f, <2>m, <4>1, <4>2
      <4>3. CASE f # r
        <5>1. Registered(f, n) /\ <<f, n>> \in Keys
          BY <4>3, Tuples DEF Registered, InSetup
        <5>2. versions[o][<<f, n>>] # NoList
          BY <1>0, <4>1, <5>1 DEF KeyInv, KeysExact
        <5>3. UpToDate(o, <<f, n>>)
          BY <2>2, <5>1, <5>2 DEF AllUpToDate
        <5> QED BY <2>1, <4>1, <5>3
      <4> QED BY <4>2, <4>3
    <3>2. AllUpToDate(o)'
      <4> SUFFICES ASSUME NEW k \in Keys, versions'[o][k] # NoList PROVE UpToDate(o, k)'
        BY DEF AllUpToDate
      <4>1. k[1] \in Envs /\ k[2] \in Lps /\ k = <<k[1], k[2]>>
        BY Tuples
      <4> QED BY <2>u, <3>1, <4>1
    <3> QED BY <3>2 DEF Supplied
  <2>3. ASSUME NEW f \in Envs, Anchor(o, f) PROVE Anchor(o, f)'
    <3>1. \A n \in Lps : UpToDate(o, <<f, n>>)'
      BY <2>1, <2>3, <2>u DEF Anchor
    <3> QED BY <1>0, <2>3, <3>1 DEF Anchor
  <2> QED BY <2>2, <2>3 DEF SteadyInv, Supplied
<1> QED BY <1>0, <1>1, <1>2 DEF SteadyInv

\* ... and the end of a task, which makes it the anchor if it changes the array.
LEMMA EndSteady ==
  ASSUME KeyInv, SteadyInv, EndTask
  PROVE  SteadyInv'
<1> DEFINE e == running
           s == sourceKey[e]
<1>0. /\ stage = "compute" /\ stage' = "idle" /\ running' = None
      /\ UNCHANGED <<program, taskId, todo, sourceKey, invocation, versions>>
      /\ e \in Envs /\ s \in Objects /\ EndEffects
  BY ActiveFacts, EndKeys DEF EndTask
<1>1. InstrSteady'
  <2>1. instrs' = [instrs EXCEPT ![e] = DefaultInstr(program.type[e], FALSE)]
    BY DEF EndTask
  <2>2. /\ instrs'[e] = DefaultInstr(program.type[e], FALSE)
        /\ \A f \in Envs \ {e} : instrs'[f] = instrs[f]
    BY <1>0, <2>1 DEF KeyInv, TypeOK
  <2>3. IF program.type[e] = "OUT" THEN instrs'[e].kind = "CreateFresh"
        ELSE instrs'[e].kind = "StaleRefresh"
    BY <2>2 DEF DefaultInstr, CreateFresh, StaleRefresh
  <2> QED BY <1>0, <2>2, <2>3 DEF SteadyInv, InstrSteady
<1>2. OutAlone'
  BY <1>0 DEF OutAlone
<1>3. ASSUME NEW o \in Objects PROVE Supplied(o)'
  <2>u. \A k : (UpToDate(o, k)' <=> k \in freshKeys'[o]) /\ (UpToDate(o, k) <=> k \in freshKeys[o])
    BY <1>0 DEF UpToDate, InSetup
  <2>1. CASE e \in program.updates /\ o = s
    <3>f. freshKeys'[o] = freshKeys[o] \cap KeysOf(e)
      BY <1>0, <2>1 DEF EndEffects
    <3>m. \A n \in Lps : <<e, n>> \in freshKeys'[o]
      BY <1>0, <2>1, <3>f DEF KeyInv, FreshKeysOK, KeysOf
    <3>1. CASE program.type[e] = "OUT"
      <4>1. ASSUME NEW k \in Keys, versions'[o][k] # NoList PROVE k \in freshKeys'[o]
        <5>1. k[1] \in Envs /\ k[2] \in Lps /\ k = <<k[1], k[2]>>
          BY Tuples
        <5>2. sourceKey[k[1]] = o
          BY <1>0, <4>1, <5>1 DEF KeyInv, KeysExact
        <5>3. k[1] = e
          BY <1>0, <2>1, <3>1, <5>1, <5>2 DEF SteadyInv, OutAlone
        <5> QED BY <3>m, <5>1, <5>3
      <4> QED BY <2>u, <4>1 DEF Supplied, AllUpToDate
    <3>2. CASE program.type[e] # "OUT"
      <4>1. PICK f \in Envs : f = e
        BY <1>0
      <4>2. \A n \in Lps : UpToDate(o, <<f, n>>)'
        BY <2>u, <3>m, <4>1
      <4>3. Anchor(o, f)'
        BY <1>0, <2>1, <3>2, <4>1, <4>2 DEF Anchor
      <4> QED BY <4>3 DEF Supplied
    <3> QED BY <3>1, <3>2
  <2>2. CASE ~(e \in program.updates /\ o = s)
    <3>1. freshKeys'[o] = freshKeys[o]
      BY <1>0, <2>2 DEF EndEffects
    <3>2. \A k : UpToDate(o, k)' <=> UpToDate(o, k)
      BY <2>u, <3>1
    <3>3. AllUpToDate(o) => AllUpToDate(o)'
      BY <1>0, <3>2 DEF AllUpToDate
    <3>4. \A f \in Envs : Anchor(o, f) => Anchor(o, f)'
      BY <1>0, <3>2 DEF Anchor
    <3> QED BY <3>3, <3>4 DEF SteadyInv, Supplied
  <2> QED BY <2>1, <2>2
<1> QED BY <1>0, <1>1, <1>2, <1>3 DEF SteadyInv

\* SteadyInv holds at first.
LEMMA InitSteady ==
  ASSUME Init, IsSteady(program)
  PROVE  SteadyInv
<1>1. InstrSteady
  BY DEF Init, InstrSteady, DefaultInstr, CreateFresh
<1>2. \A o \in Objects : Supplied(o)
  BY DEF Init, Supplied, AllUpToDate
<1> QED BY <1>1, <1>2 DEF Init, SteadyInv, OutAlone

\* Every step keeps SteadyInv.
LEMMA SteadyStep ==
  ASSUME KeyInv, SteadyInv, [Next]_vars
  PROVE  SteadyInv'
<1>1. ASSUME NEW e \in Envs, BindInput(e) PROVE SteadyInv'
  BY <1>1, BindSteady
<1>2. ASSUME NEW e \in Envs, StartTask(e) PROVE SteadyInv'
  BY <1>2, StartSteady
<1>3. ASSUME NEW dest \in Envs, NEW src \in Envs, Assign(dest, src) PROVE SteadyInv'
  BY <1>3, BindSteady
<1>4. ASSUME NEW n \in Lps, SetUpPartsList(n) PROVE SteadyInv'
  BY <1>4, SetUpSteady
<1>5. CASE RecordVersions
  BY <1>5, RecordSteady
<1>6. CASE EndTask
  BY <1>6, EndSteady
<1>7. CASE UNCHANGED vars
  <2> USE <1>7 DEF vars
  <2>1. InstrSteady' /\ OutAlone'
    BY DEF SteadyInv, InstrSteady, OutAlone
  <2>2. \A o \in Objects : Supplied(o)'
    BY DEF SteadyInv, Supplied, AllUpToDate, Anchor, UpToDate, InSetup
  <2> QED BY <2>1, <2>2 DEF SteadyInv
<1> QED BY <1>1, <1>2, <1>3, <1>4, <1>5, <1>6, <1>7 DEF Next

\* If no item whose task changes the array is ever given other data, every instruction
\* that looks for a fresh version finds one (getFirstFreshVersion, List::Nth).
THEOREM SteadyNeverAborts == Spec /\ IsSteady(program) => []NeverAborts
<1>1. Init /\ IsSteady(program) => SteadyInv
  BY InitSteady
<1>2. KeyInv /\ SteadyInv /\ [Next]_vars => SteadyInv'
  BY SteadyStep
<1>3. SteadyInv => NeverAborts
  BY DEF SteadyInv, NeverAborts
<1> QED BY <1>1, <1>2, <1>3, KeyInvariance, PTL DEF Spec

---------------------------------------------------------------------
(* The memory of the versions.                                       *)

\* The references to a list can be counted.
LEMMA ReferencesFinite ==
  ASSUME NEW l
  PROVE  IsFiniteSet(References(l))
<1>1. IsFiniteSet(Objects)
  <2>1. 1 \in Int /\ MaxTasks \in Int
    BY ProgramEnvironmentAssumption
  <2> QED BY <2>1, FS_Interval DEF Objects
<1>2. IsFiniteSet(Objects \X Keys)
  BY <1>1, KeysFinite, FS_Product
<1> QED BY <1>2, FS_Subset DEF References

\* How many references a list keeps when the versions of keys in o are removed.
LEMMA RemainingReferences ==
  ASSUME TypeOK, NEW o \in Objects, NEW keys \in SUBSET Keys, IsFiniteSet(keys), NEW l
  PROVE  /\ Cardinality(References(l) \ ({o} \X keys))
              = Cardinality(References(l)) - Dropped(o, keys, l)
         /\ Cardinality(References(l)) \in Nat /\ Dropped(o, keys, l) \in Nat
         /\ References(l) \ ({o} \X keys) # {} =>
              Dropped(o, keys, l) < Cardinality(References(l))
         /\ Dropped(o, keys, l) # 0 => Refers(l)
<1> DEFINE K    == {k \in keys : versions[o][k] = l}
           both == References(l) \cap ({o} \X keys)
           f    == [k \in K |-> <<o, k>>]
<1>1. IsFiniteSet(K)
  BY FS_Subset
<1>2. ExistsBijection(K, both)
  <2>1. both = {o} \X K
    BY DEF References
  <2>2. f \in Bijection(K, {o} \X K)
    <3> HIDE DEF K
    <3>1. f \in [K -> {o} \X K] /\ \A j, k \in K : f[j] = f[k] => j = k
      OBVIOUS
    <3>2. ASSUME NEW t \in {o} \X K PROVE \E k \in K : f[k] = t
      <4>1. t[2] \in K /\ t = <<o, t[2]>>
        OBVIOUS
      <4> QED BY <4>1
    <3> HIDE DEF f
    <3> QED BY <3>1, <3>2 DEF Bijection, Injection, IsInjective, Surjection
  <2> QED BY <2>1, <2>2 DEF ExistsBijection
<1>3. Cardinality(both) = Cardinality(K)
  BY <1>1, <1>2, FS_Bijection
<1>4. IsFiniteSet(References(l))
  BY ReferencesFinite
<1>5. /\ IsFiniteSet(References(l) \ ({o} \X keys))
      /\ Cardinality(References(l) \ ({o} \X keys))
           = Cardinality(References(l)) - Cardinality(both)
  BY <1>4, FS_Difference
<1>6. Cardinality(K) = Dropped(o, keys, l)
  BY DEF Dropped
<1>7. /\ Cardinality(References(l)) \in Nat /\ Dropped(o, keys, l) \in Nat
      /\ Cardinality(References(l) \ ({o} \X keys)) \in Nat
  BY <1>1, <1>4, <1>5, <1>6, FS_CardinalityType
<1>8. References(l) \ ({o} \X keys) # {} =>
        Cardinality(References(l) \ ({o} \X keys)) # 0
  BY <1>5, FS_EmptySet
<1>9. Dropped(o, keys, l) # 0 => K # {}
  BY <1>6, FS_EmptySet
<1>10. K # {} => Refers(l)
  BY DEF Refers
<1> HIDE DEF K, both, f
<1>11. Cardinality(References(l) \ ({o} \X keys))
         = Cardinality(References(l)) - Dropped(o, keys, l)
  BY <1>3, <1>5, <1>6
<1> QED BY <1>7, <1>8, <1>9, <1>10, <1>11

\* Nothing has been done with the list of an allocation that is still to be set up.
LEMMA MinePristine ==
  ASSUME KeyInv, UntouchedPristine, stage = "setup", NEW n \in todo
  PROVE  mine(n) \in Lists /\ Pristine(mine(n)) /\ Untouched(mine(n))
<1>1. mine(n) \in Lists
  BY InSetupFacts
<1>2. Untouched(mine(n))
  BY DEF Untouched, mine
<1> QED BY <1>1, <1>2 DEF UntouchedPristine

\* r is h with content v moved from list src into list dest.
TransferredFrom(r, h, src, dest, v) ==
  /\ r \in HeapType
  /\ r.config = h.config /\ r.buffer = h.buffer /\ r.referenceCount = h.referenceCount
  /\ r.fresh = h.fresh /\ r.deleted = h.deleted /\ r.freed = h.freed
  /\ r.value = [h.value EXCEPT ![h.buffer[dest]] = v]
  /\ \A l \in Lists : \/ r.segmentMapping[l] = h.segmentMapping[l]
                      \/ l = src /\ r.segmentMapping[l] = "known"

\* A transfer from a list whose memory is there is complete: no segment of the target
\* is left without data (isSegmentMappingKnown).
LEMMA TransferComplete ==
  ASSUME NEW h \in HeapType, NEW src \in Lists, NEW dest \in Lists, NEW target,
         target \in Lists \cup {NoList},
         h.buffer[src] \in Lists, h.buffer[src] \notin h.freed,
         h.config[h.buffer[src]] = h.config[src],
         \/ program.crossSegment = {}
         \/ /\ \A l \in Lists : h.segmentMapping[l] # "none"
            /\ target # NoList => h.config[target] = h.config[dest]
  PROVE  TransferredFrom(handleTransfer(h, src, dest, target), h, src, dest,
                         h.value[h.buffer[src]])
<1> DEFINE cross == CrossSegment(h, src, dest)
           known == IF cross /\ h.segmentMapping[src] = "unknown"
                    THEN [h EXCEPT !.segmentMapping[src] = "known"] ELSE h
           sendable == \/ target = NoList \/ known.segmentMapping[target] = "unknown"
                       \/ /\ known.segmentMapping[target] = "known"
                          /\ h.config[target] = h.config[dest]
           complete == cross => sendable /\ known.segmentMapping[src] = "known"
           v == h.value[h.buffer[src]]
<1>0. NoList \notin Lists
  BY Tuples
<1>1. known \in HeapType
  BY DEF HeapType
<1>2. complete
  <2>1. CASE program.crossSegment = {}
    BY <2>1 DEF CrossSegment
  <2>2. CASE /\ \A l \in Lists : h.segmentMapping[l] # "none"
             /\ target # NoList => h.config[target] = h.config[dest]
    <3>1. \A l \in Lists : h.segmentMapping[l] \in {"unknown", "known"}
      BY <2>2 DEF HeapType
    <3>2. \A l \in Lists : known.segmentMapping[l] \in {"unknown", "known"}
      BY <3>1 DEF HeapType
    <3>3. cross => known.segmentMapping[src] = "known"
      BY <3>1 DEF HeapType
    <3>4. sendable
      BY <2>2, <3>2
    <3> QED BY <3>3, <3>4
  <2> QED BY <2>1, <2>2
<1>3. Content(h, src) = v
  BY <1>0 DEF Content
<1>4. handleTransfer(h, src, dest, target) = Fill(known, dest, v)
  BY <1>2, <1>3 DEF handleTransfer
<1>5. v \in Int
  BY DEF HeapType
<1>6. /\ known.config = h.config /\ known.buffer = h.buffer
      /\ known.referenceCount = h.referenceCount
      /\ known.fresh = h.fresh /\ known.deleted = h.deleted /\ known.freed = h.freed
      /\ known.value = h.value
      /\ \A l \in Lists : \/ known.segmentMapping[l] = h.segmentMapping[l]
                          \/ l = src /\ known.segmentMapping[l] = "known"
  BY DEF HeapType
<1> DEFINE r == handleTransfer(h, src, dest, target)
<1>7. TransferredFrom(r, h, src, dest, v)
  <2>1. r = Fill(known, dest, v)
    BY <1>4
  <2> HIDE DEF r, known, v
  <2>2. r \in HeapType /\ r = [known EXCEPT !.value = [known.value EXCEPT ![known.buffer[dest]] = v]]
    BY <1>1, <1>5, <2>1, Filled
  <2>3. /\ r.config = known.config /\ r.buffer = known.buffer
        /\ r.referenceCount = known.referenceCount
        /\ r.fresh = known.fresh /\ r.deleted = known.deleted /\ r.freed = known.freed
        /\ r.segmentMapping = known.segmentMapping
        /\ r.value = [known.value EXCEPT ![known.buffer[dest]] = v]
    BY <1>1, <2>2 DEF HeapType
  <2> QED BY <1>6, <2>2, <2>3 DEF TransferredFrom
<1> QED BY <1>7

\* Allocation n of the item of e, which refers to object o, is being set up; its
\* own parts list is l.
Setting(n, e, o, l) ==
  /\ stage = "setup" /\ n \in todo /\ n \in Lps
  /\ e = running /\ e \in Envs /\ <<e, n>> \in Keys
  /\ o = sourceKey[e] /\ o \in Objects
  /\ l = mine(n) /\ l \in Lists /\ Untouched(l) /\ Pristine(l)

\* setupPartsList is about such an allocation.
LEMMA SettingExists ==
  ASSUME KeyInv, DataInv, NEW n \in Lps, SetUpPartsList(n)
  PROVE  \E e \in Envs, o \in Objects, l \in Lists : Setting(n, e, o, l)
<1>1. stage = "setup" /\ n \in todo
  BY DEF SetUpPartsList
<1>2. /\ running \in Envs /\ sourceKey[running] \in Objects /\ <<running, n>> \in Keys
  BY <1>1, InSetupFacts
<1>3. mine(n) \in Lists /\ Pristine(mine(n)) /\ Untouched(mine(n))
  BY <1>1, MinePristine DEF DataInv
<1>4. Setting(n, running, sourceKey[running], mine(n))
  BY <1>1, <1>2, <1>3 DEF Setting
<1> QED BY <1>2, <1>3, <1>4

\* The parts of list l get buffer b with the last content of object o, and list v
\* becomes the version of key.
Placed(l, o, key, v, b) ==
  /\ heap'.config = heap.config /\ heap'.fresh = heap.fresh
  /\ \A j \in Lists : heap'.buffer[j] = IF j = l THEN b ELSE heap.buffer[j]
  /\ \A x \in Lists : heap'.value[x] = IF x = b THEN latest[o] ELSE heap.value[x]
  /\ \A o2 \in Objects, k \in Keys :
       versions'[o2][k] = IF o2 = o /\ k = key THEN v ELSE versions[o2][k]

\* Where buffer b and version v come from.
Origin(l, o, key, v, b) ==
  \/ /\ IsNew(Instr) /\ v = NoList /\ b = l
     /\ heap'.referenceCount = heap.referenceCount
     /\ heap'.deleted = heap.deleted /\ heap'.freed = heap.freed
  \/ /\ ~IsNew(Instr) /\ v = l /\ b = l
  \/ /\ ~IsNew(Instr) /\ v = l /\ Disjoint(program)
     /\ versions[o][key] \in Lists /\ b = heap.buffer[versions[o][key]]
     /\ heap.config[versions[o][key]] = heap.config[l]
  \/ /\ ~IsNew(Instr) /\ v \in Lists /\ b = heap.buffer[v]
     /\ heap.config[v] = heap.config[l]
     /\ \E k \in Keys : /\ v = versions[o][k] /\ UpToDate(o, k)
                        /\ k = key \/ ~Disjoint(program)

\* The memory of every version is there, and its references are counted.
Kept(l) ==
  /\ CountsOK'
  /\ \A o2 \in Objects, k \in Keys :
       LET j == versions'[o2][k]
       IN  j # NoList => j \notin heap'.deleted /\ heap'.buffer[j] \notin heap'.freed
  /\ \A j \in Lists : Untouched(j) /\ j # l =>
       /\ heap'.referenceCount[j] = 1 /\ heap'.segmentMapping[j] = "unknown"
       /\ j \notin heap'.deleted /\ j \notin heap'.freed
  /\ MappingsOK'

\* Setting up one allocation: what changes for whom.
LEMMA SettingFrame ==
  ASSUME KeyInv, SteadyInv, DataInv, NEW n \in Lps, SetUpPartsList(n),
         NEW e \in Envs, NEW o \in Objects, NEW l \in Lists, Setting(n, e, o, l)
  PROVE  /\ stage' = "setup" /\ todo' = todo \ {n}
         /\ UNCHANGED <<program, taskId, running, ownFresh, instrs, sourceKey,
                        invocation, latest>>
         /\ UpToDate(o, <<e, n>>)'
         /\ \A o2 \in Objects, k \in Keys :
              k # <<e, n>> => (UpToDate(o2, k)' <=> UpToDate(o2, k))
         /\ \A o2 \in Objects : versions[o2][<<e, n>>] # NoList => o2 = o
         /\ IsNew(Instr) => versions[o][<<e, n>>] = NoList
         /\ \A j \in Lists : Untouched(j)' => Untouched(j) /\ j # l
         /\ \A j \in Lists : Refers(j) => j # l /\ heap.buffer[j] # l
         /\ \A m \in Lps \ {n} : mine(m) # l
<1>1. /\ stage' = "setup" /\ todo' = todo \ {n} /\ KeyEffects(n)
      /\ UNCHANGED <<program, taskId, running, ownFresh, instrs, sourceKey,
                     invocation, latest>>
  BY SetUpKeys, SetUpCompletes DEF Setting
<1>2. e = running /\ o = sourceKey[e] /\ l = <<taskId, n>> /\ stage = "setup" /\ n \in todo
  BY DEF Setting, mine
<1>3. UpToDate(o, <<e, n>>)'
  BY <1>1, <1>2 DEF UpToDate, InSetup
<1>4. ASSUME NEW o2 \in Objects, NEW k \in Keys, k # <<e, n>>
      PROVE  UpToDate(o2, k)' <=> UpToDate(o2, k)
  <2>1. k \in freshKeys'[o2] <=> k \in freshKeys[o2]
    BY <1>1, <1>2, <1>4 DEF KeyEffects
  <2>2. k[1] = e /\ k[2] \in todo' => k[2] \in todo
    BY <1>1
  <2>3. k[1] = e => k[2] # n
    BY <1>4, Tuples
  <2> QED BY <1>1, <1>2, <2>1, <2>3 DEF UpToDate, InSetup
<1>5. /\ \A o2 \in Objects : versions[o2][<<e, n>>] # NoList => o2 = o
      /\ IsNew(Instr) => versions[o][<<e, n>>] = NoList
  BY <1>1, <1>2 DEF KeyInv, KeysExact, Registered, InSetup, IsNew
<1>6. ASSUME NEW j \in Lists, Untouched(j)' PROVE Untouched(j) /\ j # l
  <2>1. taskId \in Int
    BY DEF KeyInv, TypeOK
  <2>2. j[1] > taskId \/ (j[1] = taskId /\ j[2] \in todo \ {n})
    BY <1>1, <1>6 DEF Untouched
  <2>3. l[1] = taskId /\ l[2] = n
    BY <1>2
  <2> QED BY <1>2, <2>1, <2>2, <2>3 DEF Untouched
<1>7. ASSUME NEW j \in Lists, Refers(j) PROVE j # l /\ heap.buffer[j] # l
  BY <1>7 DEF Setting, Pristine
<1>8. \A m \in Lps \ {n} : mine(m) # l
  BY <1>2 DEF mine
<1> QED BY <1>1, <1>3, <1>4, <1>5, <1>6, <1>7, <1>8

\* If memory with the last content becomes that of the allocation, the versions keep
\* what is said of them ...
LEMMA PlacedVersions ==
  ASSUME KeyInv, SteadyInv, DataInv, NEW n \in Lps, SetUpPartsList(n),
         NEW e \in Envs, NEW o \in Objects, NEW l \in Lists, Setting(n, e, o, l),
         NEW v \in Lists \cup {NoList}, NEW b \in Lists,
         Placed(l, o, <<e, n>>, v, b), Origin(l, o, <<e, n>>, v, b), Kept(l)
  PROVE  VersionsOK' /\ DistinctBuffers'
<1> DEFINE key == <<e, n>>
<1>1. key \in Keys /\ NoList \notin Lists
  BY Tuples
<1>2. /\ heap'.config = heap.config /\ heap'.fresh = heap.fresh
      /\ \A j \in Lists : heap'.buffer[j] = IF j = l THEN b ELSE heap.buffer[j]
      /\ \A x \in Lists : heap'.value[x] = IF x = b THEN latest[o] ELSE heap.value[x]
      /\ \A o2 \in Objects, k \in Keys :
           versions'[o2][k] = IF o2 = o /\ k = key THEN v ELSE versions[o2][k]
  BY DEF Placed
<1>3. \A o2 \in Objects, k \in Keys : VersionOK(o2, k)
  BY DEF DataInv, VersionsOK
<1>4. ASSUME NEW o2 \in Objects, NEW k \in Keys, versions[o2][k] # NoList
      PROVE  /\ versions[o2][k] \in Lists /\ versions[o2][k] # l
             /\ heap.buffer[versions[o2][k]] \in Lists
             /\ heap.buffer[versions[o2][k]] # l
             /\ heap'.buffer[versions[o2][k]] = heap.buffer[versions[o2][k]]
  <2>1. versions[o2][k] \in Lists /\ Refers(versions[o2][k])
    BY <1>4 DEF KeyInv, TypeOK, Refers
  <2>2. heap.buffer[versions[o2][k]] \in Lists
    BY <1>3, <1>4, <2>1 DEF VersionOK, KeyInv, HeapTypeOK, HeapType
  <2> QED BY <1>2, <2>1, <2>2, SettingFrame
<1>5. \A o1, o2 \in Objects, k1, k2 \in Keys :
        versions[o1][k1] # NoList /\ versions[o2][k2] # NoList =>
          /\ heap.buffer[versions[o1][k1]] = heap.buffer[versions[o2][k2]]
               => versions[o1][k1] = versions[o2][k2]
          /\ versions[o1][k1] = versions[o2][k2]
               => o1 = o2 /\ (Disjoint(program) => k1 = k2)
  BY DEF DataInv, DistinctBuffers
<1>6. program' = program /\ latest' = latest
  BY SettingFrame
\* The buffer of another version is not b, unless the two are one list of o.
<1>7. ASSUME NEW o2 \in Objects, NEW k \in Keys, versions[o2][k] # NoList,
             ~(o2 = o /\ k = key)
      PROVE  /\ heap.buffer[versions[o2][k]] = b => v = versions[o2][k]
             /\ v = versions[o2][k] => o2 = o /\ ~Disjoint(program)
             /\ heap.buffer[versions[o2][k]] = b => o2 = o
  <2> DEFINE j == versions[o2][k]
  <2>1. CASE b = l /\ v \in {l, NoList}
    BY <1>4, <1>7, <2>1
  <2>2. CASE /\ v = l /\ Disjoint(program) /\ versions[o][key] \in Lists
             /\ b = heap.buffer[versions[o][key]]
    <3>1. heap.buffer[j] # b
      BY <1>1, <1>5, <1>7, <2>2
    <3> QED BY <1>4, <1>7, <2>2, <3>1
  <2>3. CASE /\ v \in Lists /\ b = heap.buffer[v]
             /\ \E k1 \in Keys : /\ v = versions[o][k1] /\ UpToDate(o, k1)
                                 /\ k1 = key \/ ~Disjoint(program)
    <3>1. PICK k1 \in Keys : v = versions[o][k1] /\ (k1 = key \/ ~Disjoint(program))
      BY <2>3
    <3> QED BY <1>1, <1>5, <1>7, <2>3, <3>1
  <2> QED BY <2>1, <2>2, <2>3 DEF Origin
<1>8. ASSUME NEW o2 \in Objects, NEW k \in Keys
      PROVE  VersionOK(o2, k)'
  <2> DEFINE j == versions'[o2][k]
  <2>k. j # NoList => j \notin heap'.deleted /\ heap'.buffer[j] \notin heap'.freed
    BY DEF Kept
  <2>1. CASE o2 = o /\ k = key
    <3>1. SUFFICES ASSUME v # NoList PROVE VersionOK(o2, k)'
      BY <1>2, <2>1 DEF VersionOK
    <3>2. /\ heap'.buffer[v] = b /\ heap.config[b] = heap.config[v]
          /\ heap.config[v] = heap.config[l] /\ v \in heap.fresh
      <4>l. l \in heap.fresh
        BY DEF Setting, Pristine
      <4>1. CASE b = l /\ v = l
        BY <1>2, <4>1, <4>l
      <4>2. CASE /\ v = l /\ versions[o][key] \in Lists
                 /\ b = heap.buffer[versions[o][key]]
                 /\ heap.config[versions[o][key]] = heap.config[l]
        BY <1>1, <1>2, <1>3, <4>2, <4>l DEF VersionOK
      <4>3. CASE /\ v \in Lists /\ b = heap.buffer[v]
                 /\ heap.config[v] = heap.config[l]
                 /\ \E k1 \in Keys : v = versions[o][k1] /\ UpToDate(o, k1)
        <5>1. PICK k1 \in Keys : v = versions[o][k1] /\ UpToDate(o, k1)
          BY <4>3
        <5>2. VersionOK(o, k1)
          BY <1>3
        <5>3. v # l
          BY <1>4, <3>1, <5>1
        <5> QED BY <1>2, <3>1, <4>3, <5>1, <5>2, <5>3 DEF VersionOK
      <4> QED BY <3>1, <4>1, <4>2, <4>3 DEF Origin
    <3>3. heap.config[l] \in program.configs[e]
      BY DEF Setting, DataInv, MineOK
    <3>4. UpToDate(o2, k)'
      BY <2>1, SettingFrame
    <3>5. j = v /\ k[1] = e /\ b # NoList
      BY <1>1, <1>2, <2>1
    <3> QED BY <1>2, <1>6, <2>1, <2>k, <3>1, <3>2, <3>3, <3>4, <3>5 DEF VersionOK
  <2>2. CASE ~(o2 = o /\ k = key)
    <3>1. SUFFICES ASSUME versions[o2][k] # NoList PROVE VersionOK(o2, k)'
      BY <1>2, <2>2 DEF VersionOK
    <3>2. j = versions[o2][k] /\ VersionOK(o2, k)
      BY <1>2, <1>3, <2>2
    <3>3. k # key
      BY <2>2, <3>1, SettingFrame
    <3>4. UpToDate(o2, k)' <=> UpToDate(o2, k)
      BY <3>3, SettingFrame
    <3>5. heap'.buffer[j] = heap.buffer[j] /\ heap.buffer[j] \in Lists
      BY <1>4, <3>1, <3>2
    <3>6. heap.buffer[j] = b => o2 = o
      BY <1>7, <2>2, <3>1, <3>2
    <3>7. UpToDate(o2, k)' => heap'.value[heap'.buffer[j]] = latest'[o2]
      BY <1>2, <1>6, <3>1, <3>2, <3>4, <3>5, <3>6 DEF VersionOK
    <3>8. j \in heap'.fresh <=> UpToDate(o2, k)'
      BY <1>2, <3>1, <3>2, <3>4 DEF VersionOK
    <3> HIDE DEF j
    <3>9. /\ heap'.buffer[j] # NoList
          /\ heap'.config[heap'.buffer[j]] = heap'.config[j]
          /\ heap'.config[j] \in program'.configs[k[1]]
      BY <1>1, <1>2, <1>6, <3>1, <3>2, <3>5 DEF VersionOK
    <3> QED BY <2>k, <3>1, <3>2, <3>7, <3>8, <3>9 DEF VersionOK, j
  <2> QED BY <2>1, <2>2
<1>b. ~IsNew(Instr) => heap'.buffer[v] = b
  BY <1>2 DEF Origin
<1>9. DistinctBuffers'
  <2> SUFFICES ASSUME NEW o1 \in Objects, NEW o2 \in Objects, NEW k1 \in Keys, NEW k2 \in Keys,
                      versions'[o1][k1] # NoList, versions'[o2][k2] # NoList
               PROVE  /\ heap'.buffer[versions'[o1][k1]] = heap'.buffer[versions'[o2][k2]]
                           => versions'[o1][k1] = versions'[o2][k2]
                      /\ versions'[o1][k1] = versions'[o2][k2]
                           => o1 = o2 /\ (Disjoint(program) => k1 = k2)
    BY <1>6 DEF DistinctBuffers, Disjoint
  <2>n. v # NoList => ~IsNew(Instr)
    BY DEF Origin
  <2>1. CASE o1 = o /\ k1 = key /\ o2 = o /\ k2 = key
    BY <2>1
  <2>2. CASE o1 = o /\ k1 = key /\ ~(o2 = o /\ k2 = key)
    <3>1. /\ versions'[o1][k1] = v /\ versions'[o2][k2] = versions[o2][k2]
      BY <1>2, <2>2
    <3> HIDE DEF key
    <3>2. heap'.buffer[v] = b /\ heap'.buffer[versions[o2][k2]] = heap.buffer[versions[o2][k2]]
      BY <1>4, <1>b, <2>n, <3>1
    <3> QED BY <1>7, <2>2, <3>1, <3>2
  <2>3. CASE ~(o1 = o /\ k1 = key) /\ o2 = o /\ k2 = key
    <3>1. /\ versions'[o2][k2] = v /\ versions'[o1][k1] = versions[o1][k1]
      BY <1>2, <2>3
    <3> HIDE DEF key
    <3>2. heap'.buffer[v] = b /\ heap'.buffer[versions[o1][k1]] = heap.buffer[versions[o1][k1]]
      BY <1>4, <1>b, <2>n, <3>1
    <3> QED BY <1>7, <2>3, <3>1, <3>2
  <2>4. CASE ~(o1 = o /\ k1 = key) /\ ~(o2 = o /\ k2 = key)
    <3>1. versions'[o2][k2] = versions[o2][k2] /\ versions'[o1][k1] = versions[o1][k1]
      BY <1>2, <2>4
    <3> QED BY <1>4, <1>5, <3>1
  <2> QED BY <2>1, <2>2, <2>3, <2>4
<1> QED BY <1>8, <1>9 DEF VersionsOK

\* ... and everything else holds too.
LEMMA PlacedRest ==
  ASSUME KeyInv, SteadyInv, DataInv, NEW n \in Lps, SetUpPartsList(n),
         NEW e \in Envs, NEW o \in Objects, NEW l \in Lists, Setting(n, e, o, l),
         NEW v \in Lists \cup {NoList}, NEW b \in Lists,
         Placed(l, o, <<e, n>>, v, b), Origin(l, o, <<e, n>>, v, b), Kept(l)
  PROVE  DataInv'
<1> DEFINE key == <<e, n>>
<1>1. key \in Keys /\ NoList \notin Lists /\ \A f \in Envs, m \in Lps : <<f, m>> \in Keys
  BY Tuples
<1>2. /\ heap'.config = heap.config /\ heap'.fresh = heap.fresh
      /\ \A j \in Lists : heap'.buffer[j] = IF j = l THEN b ELSE heap.buffer[j]
      /\ \A x \in Lists : heap'.value[x] = IF x = b THEN latest[o] ELSE heap.value[x]
      /\ \A o2 \in Objects, k \in Keys :
           versions'[o2][k] = IF o2 = o /\ k = key THEN v ELSE versions[o2][k]
  BY DEF Placed
<1>3. /\ stage' = "setup" /\ todo' = todo \ {n}
      /\ UNCHANGED <<program, taskId, running, ownFresh, instrs, sourceKey,
                     invocation, latest>>
      /\ \A j \in Lists : Untouched(j)' => Untouched(j) /\ j # l
      /\ \A j \in Lists : Refers(j) => j # l /\ heap.buffer[j] # l
      /\ \A m \in Lps \ {n} : mine(m) # l
  BY SettingFrame
<1>4. /\ stage = "setup" /\ n \in todo /\ e = running /\ o = sourceKey[e] /\ l = mine(n)
      /\ Pristine(l)
  BY DEF Setting
<1>5. \A m : mine(m)' = mine(m)
  BY <1>3 DEF mine
<1>6. Instr' = Instr
  BY <1>3 DEF Instr
\* v and b belong to what is referred to already, or to l.
<1>7. /\ b = l \/ \E j \in Lists : Refers(j) /\ b = heap.buffer[j]
      /\ v \in {l, NoList} \/ Refers(v)
  <2>1. \A k \in Keys : Refers(versions[o][k])
    BY DEF Refers
  <2>2. CASE b = l /\ v \in {l, NoList}
    BY <2>2
  <2>3. CASE v = l /\ versions[o][key] \in Lists /\ b = heap.buffer[versions[o][key]]
    BY <1>1, <2>1, <2>3
  <2>4. CASE v \in Lists /\ b = heap.buffer[v] /\ \E k \in Keys : v = versions[o][k]
    BY <2>1, <2>4
  <2> QED BY <2>2, <2>3, <2>4 DEF Origin
<1>8. ASSUME NEW j \in Lists, Refers(j)' PROVE j = l \/ Refers(j)
  <2>1. PICK o2 \in Objects, k \in Keys : versions'[o2][k] = j
    BY <1>8 DEF Refers
  <2>2. j = v \/ j = versions[o2][k]
    BY <1>2, <2>1
  <2> QED BY <1>1, <1>7, <2>1, <2>2 DEF Refers
<1>9. UntouchedPristine'
  <2> SUFFICES ASSUME NEW j \in Lists, Untouched(j)' PROVE Pristine(j)'
    BY DEF UntouchedPristine
  <2>1. Untouched(j) /\ j # l /\ Pristine(j)
    BY <1>3 DEF DataInv, UntouchedPristine
  <2>2. /\ heap'.referenceCount[j] = 1 /\ heap'.segmentMapping[j] = "unknown"
        /\ j \notin heap'.deleted /\ j \notin heap'.freed
    BY <2>1 DEF Kept
  <2>3. heap'.buffer[j] = NoList /\ j \in heap'.fresh
    BY <1>2, <2>1 DEF Pristine
  <2>4. b # j
    BY <1>7, <2>1 DEF Pristine
  <2>5. \A l2 \in Lists : heap'.buffer[l2] # j
    BY <1>2, <2>1, <2>4 DEF Pristine
  <2>6. ~Refers(j)'
    BY <1>8, <2>1 DEF Pristine
  <2> QED BY <2>2, <2>3, <2>5, <2>6 DEF Pristine
<1>10. MineOK'
  <2>1. \A m \in Lps : mine(m) \in heap.fresh /\ heap.config[mine(m)] \in program.configs[running]
    BY <1>4 DEF DataInv, MineOK
  <2>2. ASSUME IsNew(Instr), NEW m \in Lps \ todo' PROVE NewReady(mine(m))'
    <3>0. /\ v = NoList /\ b = l
          /\ heap'.referenceCount = heap.referenceCount
          /\ heap'.deleted = heap.deleted /\ heap'.freed = heap.freed
      BY <2>2 DEF Origin
    <3>l. o = taskId
      BY <1>4, <2>2 DEF KeyInv, InstrsOK, Instr
    <3>1. CASE m = n
      <4>1. heap'.buffer[l] = l /\ heap'.value[l] = latest[taskId]
        BY <1>2, <3>0, <3>l
      <4>2. \A l2 \in Lists : heap'.buffer[l2] = l => l2 = l
        BY <1>2, <1>4 DEF Pristine
      <4>3. ~Refers(l)'
        <5>1. \A o2 \in Objects, k \in Keys : versions'[o2][k] # l
          BY <1>1, <1>2, <1>4, <3>0 DEF Pristine, Refers
        <5> QED BY <5>1 DEF Refers
      <4>4. /\ heap'.referenceCount[l] = 1 /\ l \in heap'.fresh
            /\ l \notin heap'.deleted /\ l \notin heap'.freed
        BY <1>2, <1>4, <3>0 DEF Pristine
      <4> HIDE DEF NewReady
      <4>5. NewReady(l)'
        BY <1>3, <4>1, <4>2, <4>3, <4>4 DEF NewReady
      <4> QED BY <1>4, <1>3, <3>1, <4>5 DEF mine
    <3>2. CASE m # n
      <4>1. m \in Lps \ todo
        BY <1>3, <2>2, <3>2
      <4>2. PICK x \in Lists : x = mine(m)
        BY <1>4, ActiveFacts
      <4>3. NewReady(x) /\ x # l
        BY <1>3, <1>4, <2>2, <3>2, <4>1, <4>2 DEF DataInv, MineOK
      <4>4. heap'.buffer[x] = x /\ heap'.value[x] = latest[taskId]
        BY <1>2, <3>0, <4>3 DEF NewReady
      <4>5. \A l2 \in Lists : heap'.buffer[l2] = x => l2 = x
        BY <1>2, <3>0, <4>3 DEF NewReady
      <4>6. ~Refers(x)'
        BY <1>8, <4>3 DEF NewReady
      <4>7. NewReady(x)'
        BY <1>2, <1>3, <3>0, <4>3, <4>4, <4>5, <4>6 DEF NewReady
      <4> QED BY <1>3, <4>2, <4>7 DEF mine
    <3> QED BY <3>1, <3>2
  <2>3. ASSUME ~IsNew(Instr), NEW m \in Lps \ todo'
        PROVE  heap'.buffer[mine(m)] = heap'.buffer[versions'[o][<<e, m>>]]
    <3>1. CASE m = n
      <4>1. versions'[o][key] = v /\ heap'.buffer[l] = b
        BY <1>1, <1>2
      <4>2. heap'.buffer[v] = b
        BY <1>2, <2>3 DEF Origin
      <4> QED BY <1>4, <3>1, <4>1, <4>2
    <3>2. CASE m # n
      <4>1. m \in Lps \ todo /\ <<e, m>> # key
        BY <1>3, <2>3, <3>2
      <4>2. PICK x \in Lists : x = mine(m)
        BY <1>4, ActiveFacts
      <4>3. heap.buffer[x] = heap.buffer[versions[o][<<e, m>>]]
        BY <1>4, <2>3, <4>1, <4>2 DEF DataInv, MineOK
      <4>4. versions'[o][<<e, m>>] = versions[o][<<e, m>>] /\ x # l
        BY <1>1, <1>2, <1>3, <3>2, <4>1, <4>2
      <4>5. versions[o][<<e, m>>] \in Lists /\ Refers(versions[o][<<e, m>>])
        <5>1. versions[o][<<e, m>>] # NoList
          <6>1. Registered(e, m)
            BY <1>3, <1>4, <2>3, <4>1 DEF Registered, IsNew, KeyInv, TypeOK, Instr
          <6> QED BY <1>4, <6>1 DEF KeyInv, KeysExact
        <5> QED BY <1>1, <5>1 DEF KeyInv, TypeOK, Refers
      <4>6. heap'.buffer[versions[o][<<e, m>>]] = heap.buffer[versions[o][<<e, m>>]]
        BY <1>2, <1>3, <4>5
      <4> QED BY <1>2, <4>2, <4>3, <4>4, <4>6
    <3> QED BY <3>1, <3>2
  <2> QED BY <1>2, <1>3, <1>4, <1>5, <1>6, <2>1, <2>2, <2>3 DEF MineOK
<1>11. AllocationsOK'
  <2> SUFFICES ASSUME NEW f \in Envs, NEW m \in Lps, sourceKey[f] # 0,
                      ~(f = e /\ (m \in todo' \/ IsNew(Instr)))
               PROVE  heap.config[Allocation(f, m)]
                        = heap.config[versions'[sourceKey[f]][<<f, m>>]]
    BY <1>2, <1>3, <1>4, <1>6 DEF AllocationsOK, Allocation, InSetup
  <2>s. sourceKey[f] \in Objects
    BY SourceType DEF KeyInv
  <2>1. CASE f = e /\ m = n
    <3>1. Allocation(f, m) = l
      BY <1>4, <2>1 DEF Allocation, mine, KeyInv, TaskOK
    <3>2. versions'[o][key] = v
      BY <1>1, <1>2
    <3>3. heap.config[v] = heap.config[l]
      BY <2>1 DEF Origin
    <3> QED BY <1>4, <2>1, <3>1, <3>2, <3>3
  <2>2. CASE ~(f = e /\ m = n)
    <3>1. ~(InSetup(f) /\ (m \in todo \/ IsNew(Instr)))
      BY <1>3, <1>4, <2>2 DEF InSetup
    <3>2. versions'[sourceKey[f]][<<f, m>>] = versions[sourceKey[f]][<<f, m>>]
      <4>1. <<f, m>> # key
        BY <2>2
      <4> QED BY <1>1, <1>2, <2>s, <4>1
    <3> QED BY <3>1, <3>2 DEF DataInv, AllocationsOK
  <2> QED BY <2>1, <2>2
<1>12. LatestOK'
  BY <1>3, <1>4, <1>6 DEF DataInv, LatestOK
<1>13. CountsOK' /\ MappingsOK'
  BY DEF Kept
<1>14. IsDisciplined(program)'
  BY <1>3 DEF DataInv
<1>15. VersionsOK' /\ DistinctBuffers'
  BY PlacedVersions
<1> QED BY <1>9, <1>10, <1>11, <1>12, <1>13, <1>14, <1>15 DEF DataInv

\* How the references to j change when v replaces the version of key in o.
ReferencesChange(o, key, v, j) ==
  LET c == Cardinality(References(j))
      d == Cardinality(References(j)')
  IN  /\ c \in Nat
      /\ versions[o][key] = v => d = c
      /\ versions[o][key] # v => d = IF j = v THEN c + 1
                                     ELSE IF j = versions[o][key] THEN c - 1 ELSE c
      /\ (Refers(j)' <=> d # 0) /\ (Refers(j) <=> c # 0)

\* Replacing a version changes the references like that.
LEMMA ReferenceStep ==
  ASSUME TypeOK, NEW o \in Objects, NEW key \in Keys, NEW v,
         \A o2 \in Objects, k \in Keys :
           versions'[o2][k] = IF o2 = o /\ k = key THEN v ELSE versions[o2][k],
         NEW j
  PROVE  ReferencesChange(o, key, v, j)
<1> DEFINE r == <<o, key>>
           R == References(j)
           S == References(j)'
<1>1. IsFiniteSet(R) /\ Cardinality(R) \in Nat
  BY ReferencesFinite, FS_CardinalityType
<1>2. r \in R <=> versions[o][key] = j
  BY DEF References
<1>3. \A p \in Objects \X Keys : p = r <=> p[1] = o /\ p[2] = key
  OBVIOUS
<1>4. S = IF j = v THEN R \cup {r} ELSE R \ {r}
  <2>1. \A p \in Objects \X Keys : versions'[p[1]][p[2]] = IF p = r THEN v
                                                         ELSE versions[p[1]][p[2]]
    BY <1>3
  <2>2. r \in Objects \X Keys
    OBVIOUS
  <2>3. /\ S = {p \in Objects \X Keys : versions'[p[1]][p[2]] = j}
        /\ R = {p \in Objects \X Keys : versions[p[1]][p[2]] = j}
    BY DEF References
  <2> HIDE DEF r, S, R
  <2> QED BY <2>1, <2>2, <2>3
<1>5. /\ IsFiniteSet(R \cup {r}) /\ IsFiniteSet(R \ {r})
      /\ Cardinality(R \cup {r}) = IF r \in R THEN Cardinality(R) ELSE Cardinality(R) + 1
      /\ Cardinality(R \ {r}) = IF r \in R THEN Cardinality(R) - 1 ELSE Cardinality(R)
  BY <1>1, FS_AddElement, FS_RemoveElement
<1>6. IsFiniteSet(S)
  BY <1>4, <1>5
<1>7. (Refers(j)' <=> S # {}) /\ (Refers(j) <=> R # {})
  <2>1. ASSUME NEW o2 \in Objects, NEW k \in Keys
        PROVE  /\ versions'[o2][k] = j => <<o2, k>> \in S
               /\ versions[o2][k] = j => <<o2, k>> \in R
    BY DEF References
  <2>2. ASSUME NEW p \in Objects \X Keys
        PROVE  /\ p \in S => versions'[p[1]][p[2]] = j
               /\ p \in R => versions[p[1]][p[2]] = j
    BY DEF References
  <2>3. S \subseteq Objects \X Keys /\ R \subseteq Objects \X Keys
    BY DEF References
  <2>4. \A p \in Objects \X Keys : p[1] \in Objects /\ p[2] \in Keys
    OBVIOUS
  <2> HIDE DEF S, R
  <2> QED BY <2>1, <2>2, <2>3, <2>4 DEF Refers
<1>8. (S # {} <=> Cardinality(S) # 0) /\ (R # {} <=> Cardinality(R) # 0)
  BY <1>1, <1>6, FS_EmptySet
<1> HIDE DEF R, S, r
<1>9. versions[o][key] = v => Cardinality(S) = Cardinality(R)
  BY <1>2, <1>4, <1>5
<1>10. versions[o][key] # v =>
         Cardinality(S) = IF j = v THEN Cardinality(R) + 1
                          ELSE IF j = versions[o][key] THEN Cardinality(R) - 1
                          ELSE Cardinality(R)
  BY <1>2, <1>4, <1>5
<1> QED BY <1>1, <1>7, <1>8, <1>9, <1>10 DEF R, S, ReferencesChange

\* Contents of segments are only cached with lists that versions refer to.
LEMMA MappingsKept ==
  ASSUME KeyInv, DataInv, NEW l \in Lists, Pristine(l), program' = program,
         \A j \in Lists :
           \/ heap'.segmentMapping[j] = heap.segmentMapping[j]
           \/ Refers(j) /\ heap'.segmentMapping[j] = "known"
           \/ j = l /\ (program.crossSegment = {} \/ heap'.segmentMapping[j] # "none")
  PROVE  /\ MappingsOK'
         /\ \A j \in Lists : Untouched(j) /\ j # l => heap'.segmentMapping[j] = "unknown"
<1>1. MappingsOK'
  BY DEF DataInv, MappingsOK
<1>2. ASSUME NEW j \in Lists, Untouched(j), j # l PROVE heap'.segmentMapping[j] = "unknown"
  BY <1>2 DEF DataInv, UntouchedPristine, Pristine
<1> QED BY <1>1, <1>2

\* Kept holds if no list is deleted and a list that is shared counts the new reference.
LEMMA KeptWithoutRemoval ==
  ASSUME KeyInv, SteadyInv, DataInv, NEW n \in Lps, SetUpPartsList(n),
         NEW e \in Envs, NEW o \in Objects, NEW l \in Lists, Setting(n, e, o, l),
         NEW v \in Lists \cup {NoList}, NEW b \in Lists,
         Placed(l, o, <<e, n>>, v, b), Origin(l, o, <<e, n>>, v, b),
         heap'.deleted = heap.deleted, heap'.freed = heap.freed,
         \A j \in Lists :
           heap'.referenceCount[j] =
             IF j = v /\ v # l /\ versions[o][<<e, n>>] # v
             THEN heap.referenceCount[j] + 1 ELSE heap.referenceCount[j],
         \A u \in Lists : u = versions[o][<<e, n>>] /\ u # v => ~Refers(u)',
         \A j \in Lists :
           \/ heap'.segmentMapping[j] = heap.segmentMapping[j]
           \/ Refers(j) /\ heap'.segmentMapping[j] = "known"
           \/ j = l /\ (program.crossSegment = {} \/ heap'.segmentMapping[j] # "none")
  PROVE  Kept(l)
<1> DEFINE key == <<e, n>>
<1>u. PICK u \in Lists \cup {NoList} : u = versions[o][key]
  <2>1. key \in Keys
    BY DEF Setting
  <2> QED BY <2>1 DEF KeyInv, TypeOK
<1>1. key \in Keys /\ NoList \notin Lists /\ Pristine(l)
  BY Tuples DEF Setting
<1>2. /\ \A j \in Lists : heap'.buffer[j] = IF j = l THEN b ELSE heap.buffer[j]
      /\ \A o2 \in Objects, k \in Keys :
           versions'[o2][k] = IF o2 = o /\ k = key THEN v ELSE versions[o2][k]
  BY DEF Placed
<1>3. \A o2 \in Objects, k \in Keys : VersionOK(o2, k)
  BY DEF DataInv, VersionsOK
<1>4. ASSUME NEW o2 \in Objects, NEW k \in Keys, versions[o2][k] # NoList
      PROVE  /\ versions[o2][k] \in Lists /\ versions[o2][k] # l
             /\ versions[o2][k] \notin heap.deleted
             /\ heap'.buffer[versions[o2][k]] = heap.buffer[versions[o2][k]]
             /\ heap.buffer[versions[o2][k]] \notin heap.freed
  <2>1. versions[o2][k] \in Lists /\ Refers(versions[o2][k])
    BY <1>4 DEF KeyInv, TypeOK, Refers
  <2> QED BY <1>2, <1>3, <1>4, <2>1, SettingFrame DEF VersionOK
<1>5. ASSUME NEW o2 \in Objects, NEW k \in Keys, versions'[o2][k] # NoList
      PROVE  /\ versions'[o2][k] \notin heap'.deleted
             /\ heap'.buffer[versions'[o2][k]] \notin heap'.freed
  <2>1. CASE o2 = o /\ k = key
    <3>v. versions'[o2][k] = v /\ v # NoList
      BY <1>2, <1>5, <2>1
    <3>1. CASE v = l /\ b = l
      BY <1>1, <1>2, <3>v, <3>1 DEF Pristine
    <3>2. CASE v = l /\ u \in Lists /\ b = heap.buffer[u]
      BY <1>u, <1>1, <1>2, <1>4, <3>v, <3>2 DEF Pristine
    <3>3. CASE v \in Lists /\ \E k1 \in Keys : v = versions[o][k1]
      BY <1>1, <1>4, <3>v, <3>3
    <3> QED BY <1>u, <3>v, <3>1, <3>2, <3>3 DEF Origin
  <2>2. CASE ~(o2 = o /\ k = key)
    <3>1. versions'[o2][k] = versions[o2][k]
      BY <1>2, <2>2
    <3> QED BY <1>4, <1>5, <3>1
  <2> QED BY <2>1, <2>2
<1>6. CountsOK'
  <2> SUFFICES ASSUME NEW j \in Lists, Refers(j)'
               PROVE  heap'.referenceCount[j] = Cardinality(References(j)')
    BY DEF CountsOK
  <2> DEFINE R == Cardinality(References(j))
             S == Cardinality(References(j)')
  <2>1. /\ R \in Nat
        /\ u = v => S = R
        /\ u # v => S = IF j = v THEN R + 1 ELSE IF j = u THEN R - 1 ELSE R
        /\ (Refers(j)' <=> S # 0) /\ (Refers(j) <=> R # 0)
    <3>1. TypeOK
      BY DEF KeyInv
    <3> HIDE DEF key
    <3>2. ReferencesChange(o, key, v, j)
      BY <1>1, <1>2, <3>1, ReferenceStep
    <3> QED BY <1>u, <3>2 DEF ReferencesChange
  <2>2. Refers(j) => heap.referenceCount[j] = Cardinality(References(j))
    BY DEF DataInv, CountsOK
  <2>3. heap'.referenceCount[j] = IF j = v /\ v # l /\ u # v
                                  THEN heap.referenceCount[j] + 1 ELSE heap.referenceCount[j]
    BY <1>u
  <2>4. j = l => heap.referenceCount[j] = 1 /\ ~Refers(j)
    BY <1>1 DEF Pristine
  <2>5. u # v /\ j = u => ~Refers(j)'
    BY <1>u
  <2>6. v # l /\ v \in Lists => Refers(v)
    BY <1>1 DEF Origin, Refers
  <2> HIDE DEF R, S
  <2>7. CASE u = v
    <3>1. S # 0 /\ S = R
      BY <2>1, <2>7 DEF R, S
    <3>2. Refers(j)
      BY <2>1, <3>1 DEF R
    <3> QED BY <2>2, <2>3, <2>7, <3>1, <3>2 DEF R, S
  <2>8. CASE u # v /\ j = v
    <3>1. S = R + 1 /\ R \in Nat
      BY <2>1, <2>8 DEF R, S
    <3>2. CASE v = l
      <4>1. R = 0
        BY <2>1, <2>4, <2>8, <3>2 DEF R
      <4> QED BY <2>3, <2>4, <2>8, <3>1, <3>2, <4>1 DEF S
    <3>3. CASE v # l
      <4>1. heap.referenceCount[j] = R
        BY <2>2, <2>6, <2>8, <3>3 DEF R
      <4> QED BY <2>3, <2>8, <3>1, <3>3, <4>1 DEF S
    <3> QED BY <3>2, <3>3
  <2>9. CASE u # v /\ j # v
    <3>1. j # u
      BY <2>5, <2>9
    <3>2. S = R /\ S # 0
      BY <2>1, <2>9, <3>1 DEF R, S
    <3>3. Refers(j)
      BY <2>1, <3>2 DEF R
    <3> QED BY <2>2, <2>3, <2>9, <3>2, <3>3 DEF R, S
  <2> QED BY <2>7, <2>8, <2>9
<1>7. ASSUME NEW j \in Lists, Untouched(j), j # l
      PROVE  /\ heap'.referenceCount[j] = 1 /\ heap'.segmentMapping[j] = "unknown"
             /\ j \notin heap'.deleted /\ j \notin heap'.freed
  <2>1. Pristine(j)
    BY <1>7 DEF DataInv, UntouchedPristine
  <2>2. v # j
    BY <1>1, <1>7, <2>1 DEF Origin, Refers, Pristine
  <2>3. heap'.segmentMapping[j] = "unknown"
    BY <1>1, <1>7, SettingFrame, MappingsKept
  <2> QED BY <2>1, <2>2, <2>3 DEF Pristine
<1>8. MappingsOK'
  BY <1>1, SettingFrame, MappingsKept
<1> QED BY <1>5, <1>6, <1>7, <1>8 DEF Kept

\* The parts of an untouched list have no units to let go of.
LEMMA UnitsOfPristine ==
  ASSUME HeapTypeOK, NEW l \in Lists, Pristine(l)
  PROVE  /\ allocatePartsList(heap, l) = [heap EXCEPT !.buffer = [heap.buffer EXCEPT ![l] = l]]
         /\ \A src \in Lists :
              clone(heap, l, src)
                = [heap EXCEPT !.buffer = [heap.buffer EXCEPT ![l] = heap.buffer[src]]]
<1>1. heap.buffer[l] = NoList /\ Units(heap, {l}) = {}
  BY DEF Pristine, Units
<1>2. allocatePartsList(heap, l) = [heap EXCEPT !.buffer = [heap.buffer EXCEPT ![l] = l]]
  BY <1>1 DEF allocatePartsList, HeapTypeOK, HeapType
<1>3. ASSUME NEW src \in Lists
      PROVE  clone(heap, l, src)
                = [heap EXCEPT !.buffer = [heap.buffer EXCEPT ![l] = heap.buffer[src]]]
  BY <1>1 DEF clone, HeapTypeOK, HeapType
<1> QED BY <1>2, <1>3

\* Each way to set up an allocation keeps DataInv: a new array ...
LEMMA NewData ==
  ASSUME KeyInv, SteadyInv, DataInv, NEW n \in Lps, SetUpPartsList(n),
         NEW e \in Envs, NEW o \in Objects, NEW l \in Lists, Setting(n, e, o, l),
         IsNew(Instr), SetUpNew(e, n)
  PROVE  DataInv'
<1> DEFINE key == <<e, n>>
           h  == allocatePartsList(heap, l)
           v0 == IF Instr.kind = "ReadFromFile" THEN taskId ELSE 0
<1>1. /\ Pristine(l) /\ e = running /\ l = mine(n) /\ stage = "setup" /\ key \in Keys
      /\ o = sourceKey[e] /\ NoList \notin Lists /\ heap \in HeapType
  BY Tuples DEF Setting, KeyInv, HeapTypeOK
<1>2. h = [heap EXCEPT !.buffer = [heap.buffer EXCEPT ![l] = l]]
  BY <1>1, UnitsOfPristine DEF KeyInv
<1>3. v0 = latest[o]
  BY <1>1 DEF DataInv, LatestOK, KeyInv, InstrsOK, Instr
<1>4. heap' = Fill(h, l, latest[o]) /\ versions' = versions
  BY <1>1, <1>3 DEF SetUpNew, Instr
<1>5. latest[o] \in Int
  BY DEF KeyInv, TypeOK
<1>6. h \in HeapType /\ h.buffer[l] = l
  BY <1>1, <1>2 DEF HeapType
<1>7. heap' = [h EXCEPT !.value = [h.value EXCEPT ![l] = latest[o]]]
  <2> HIDE DEF h
  <2> QED BY <1>4, <1>5, <1>6, Filled
<1>8. /\ heap'.config = heap.config /\ heap'.fresh = heap.fresh
      /\ heap'.deleted = heap.deleted /\ heap'.freed = heap.freed
      /\ heap'.referenceCount = heap.referenceCount
      /\ heap'.segmentMapping = heap.segmentMapping
      /\ heap'.buffer = [heap.buffer EXCEPT ![l] = l]
      /\ heap'.value = [heap.value EXCEPT ![l] = latest[o]]
  <2> HIDE DEF h
  <2> QED BY <1>1, <1>2, <1>6, <1>7 DEF HeapType
<1>9. versions[o][key] = NoList
  BY SettingFrame
<1>10. Placed(l, o, key, NoList, l)
  BY <1>1, <1>4, <1>8, <1>9 DEF Placed, HeapType
<1>11. Origin(l, o, key, NoList, l)
  BY <1>8 DEF Origin
<1>12. Kept(l)
  BY <1>1, <1>8, <1>9, <1>10, <1>11, KeptWithoutRemoval
<1> QED BY <1>10, <1>11, <1>12, PlacedRest

\* ... fresh versions, partitioned as before ...
LEMMA OwnAlikeData ==
  ASSUME KeyInv, SteadyInv, DataInv, NEW n \in Lps, SetUpPartsList(n),
         NEW e \in Envs, NEW o \in Objects, NEW l \in Lists, Setting(n, e, o, l),
         Instr.kind = "StaleRefresh", ownFresh, RefreshFromOwn(e, o, n),
         heap.config[l] = heap.config[versions[o][<<e, n>>]]
  PROVE  DataInv'
<1> DEFINE key == <<e, n>>
<1>1. /\ Pristine(l) /\ e = running /\ l = mine(n) /\ stage = "setup" /\ key \in Keys
      /\ n \in todo
      /\ o = sourceKey[e] /\ NoList \notin Lists /\ heap \in HeapType /\ ~IsNew(Instr)
  BY Tuples DEF Setting, KeyInv, HeapTypeOK, IsNew
<1>2. PICK own \in Lists : own = versions[o][key]
  BY <1>1, InSetupFacts
<1> DEFINE b == heap.buffer[own]
<1>3. heap' = clone(heap, l, own) /\ versions' = versions
  BY <1>1, <1>2 DEF RefreshFromOwn
<1>4. heap' = [heap EXCEPT !.buffer = [heap.buffer EXCEPT ![l] = b]]
  BY <1>1, <1>3, UnitsOfPristine DEF KeyInv
<1>5. UpToDate(o, key)
  BY <1>1 DEF UpToDate, KeyInv, FreshKeysOK
<1>6. VersionOK(o, key)
  BY <1>1 DEF DataInv, VersionsOK
<1>7. b \in Lists /\ heap.value[b] = latest[o]
  BY <1>1, <1>2, <1>5, <1>6 DEF VersionOK, HeapType
<1>8. /\ heap'.config = heap.config /\ heap'.fresh = heap.fresh
      /\ heap'.deleted = heap.deleted /\ heap'.freed = heap.freed
      /\ heap'.referenceCount = heap.referenceCount
      /\ heap'.segmentMapping = heap.segmentMapping
      /\ heap'.buffer = [heap.buffer EXCEPT ![l] = b]
      /\ heap'.value = heap.value
  BY <1>1, <1>4, <1>7 DEF HeapType
<1> HIDE DEF b
<1>10. Placed(l, o, key, own, b)
  BY <1>1, <1>2, <1>3, <1>7, <1>8 DEF Placed, HeapType
<1>11. Origin(l, o, key, own, b)
  BY <1>1, <1>2, <1>5 DEF Origin, b
<1>12. Kept(l)
  BY <1>1, <1>2, <1>7, <1>8, <1>10, <1>11, KeptWithoutRemoval
<1> QED BY <1>7, <1>10, <1>11, <1>12, PlacedRest

\* Nobody else changes the array, or the versions of two items never share a list.
LEMMA NoAnchorAlone ==
  ASSUME SteadyInv, DataInv, NEW o \in Objects, ~Disjoint(program)
  PROVE  AllUpToDate(o)
BY DEF SteadyInv, Supplied, Anchor, DataInv, IsDisciplined, OnlyOut

\* ... stale versions: sharing and copying, which are both done ...
LEMMA OtherData ==
  ASSUME KeyInv, SteadyInv, DataInv, NEW n \in Lps, SetUpPartsList(n),
         NEW e \in Envs, NEW o \in Objects, NEW l \in Lists, Setting(n, e, o, l),
         Instr.kind = "StaleRefresh", ~ownFresh, RefreshFromOther(e, o, n)
  PROVE  DataInv'
<1> DEFINE key == <<e, n>>
           alike(j) == heap.config[j] = heap.config[l]
<1>1. /\ Pristine(l) /\ e = running /\ l = mine(n) /\ stage = "setup" /\ key \in Keys
      /\ n \in todo /\ l = mine(n)
      /\ o = sourceKey[e] /\ NoList \notin Lists /\ heap \in HeapType /\ ~IsNew(Instr)
  BY Tuples DEF Setting, KeyInv, HeapTypeOK, IsNew
<1>2. PICK own \in Lists : own = versions[o][key]
  BY <1>1, InSetupFacts
<1>3. freshKeys[o] # {}
  BY <1>1, FreshExists
<1>4. PICK k \in freshKeys[o] :
        LET source == versions[o][k]
            shared == IF alike(source) THEN share(heap, l, source) ELSE heap
            ready  == IF alike(own) THEN clone(shared, l, own)
                      ELSE allocatePartsList(shared, l)
        IN  heap' = handleTransfer(ready, source, l, own)
  BY <1>1, <1>2, <1>3 DEF RefreshFromOther
<1>5. versions' = addNewVersion(versions, o, key, l)
  BY <1>1, <1>3 DEF RefreshFromOther
<1>6. \A m \in Lps : <<e, m>> \notin freshKeys[o]
  BY <1>1 DEF KeyInv, FreshKeysOK
<1>7. Disjoint(program)
  <2>1. ~UpToDate(o, key)
    BY <1>1, <1>6 DEF UpToDate
  <2> QED BY <1>1, <1>2, <2>1, NoAnchorAlone DEF AllUpToDate
<1>8. PICK source \in Lists : source = versions[o][k]
  BY <1>1, InSetupFacts
<1>9. k \in Keys /\ k[1] \in Envs /\ k[1] # e /\ UpToDate(o, k)
  <2>1. k \in Keys
    BY <1>1, InSetupFacts
  <2> QED BY <1>6, <2>1, Tuples DEF UpToDate
<1>10. VersionOK(o, k) /\ VersionOK(o, key)
  BY <1>1, <1>9 DEF DataInv, VersionsOK
<1>11. heap.config[l] \in program.configs[e]
  BY <1>1 DEF DataInv, MineOK
<1>12. ~alike(source)
  BY <1>1, <1>7, <1>8, <1>9, <1>10, <1>11 DEF VersionOK, Disjoint
<1>13. program.crossSegment = {} \/ alike(own)
  BY <1>1, <1>2, <1>10, <1>11 DEF VersionOK, DataInv, IsDisciplined, OneConfig
<1> DEFINE ready == IF alike(own) THEN clone(heap, l, own) ELSE allocatePartsList(heap, l)
           b     == IF alike(own) THEN heap.buffer[own] ELSE l
<1>14. ready = [heap EXCEPT !.buffer = [heap.buffer EXCEPT ![l] = b]]
  <2>1. /\ allocatePartsList(heap, l) = [heap EXCEPT !.buffer = [heap.buffer EXCEPT ![l] = l]]
        /\ clone(heap, l, own)
             = [heap EXCEPT !.buffer = [heap.buffer EXCEPT ![l] = heap.buffer[own]]]
    BY <1>1, UnitsOfPristine DEF KeyInv
  <2> QED BY <2>1
<1>15. b \in Lists /\ heap.buffer[own] \in Lists /\ heap.buffer[source] \in Lists
  BY <1>1, <1>2, <1>8, <1>10 DEF VersionOK, HeapType
<1>16. heap' = handleTransfer(ready, source, l, own)
  BY <1>4, <1>8, <1>12
<1>17. source # l /\ own # l
  BY <1>1, <1>2, <1>8, <1>9 DEF Pristine, Refers
<1> HIDE DEF b
<1>18. /\ ready \in HeapType
       /\ ready.config = heap.config /\ ready.fresh = heap.fresh
       /\ ready.deleted = heap.deleted /\ ready.freed = heap.freed
       /\ ready.referenceCount = heap.referenceCount
       /\ ready.segmentMapping = heap.segmentMapping
       /\ ready.buffer = [heap.buffer EXCEPT ![l] = b]
       /\ ready.value = heap.value
  <2> HIDE DEF ready
  <2> QED BY <1>1, <1>14, <1>15 DEF HeapType
<1>19. ready.buffer[l] = b /\ ready.buffer[source] = heap.buffer[source]
  BY <1>1, <1>15, <1>17, <1>18 DEF HeapType
<1> HIDE DEF ready
<1>20. TransferredFrom(heap', ready, source, l, ready.value[ready.buffer[source]])
  <2>1. /\ ready.buffer[source] \in Lists /\ ready.buffer[source] \notin ready.freed
        /\ ready.config[ready.buffer[source]] = ready.config[source]
    BY <1>1, <1>8, <1>10, <1>15, <1>18, <1>19 DEF VersionOK
  <2>2. \/ program.crossSegment = {}
        \/ /\ \A j \in Lists : ready.segmentMapping[j] # "none"
           /\ own # NoList => ready.config[own] = ready.config[l]
    BY <1>13, <1>18 DEF DataInv, MappingsOK
  <2> QED BY <1>16, <1>18, <2>1, <2>2, TransferComplete
<1>21. ready.value[ready.buffer[source]] = latest[o]
  BY <1>1, <1>8, <1>9, <1>10, <1>18, <1>19 DEF VersionOK
<1>22. /\ heap'.config = heap.config /\ heap'.fresh = heap.fresh
       /\ heap'.deleted = heap.deleted /\ heap'.freed = heap.freed
       /\ heap'.referenceCount = heap.referenceCount
       /\ heap'.buffer = [heap.buffer EXCEPT ![l] = b]
       /\ heap'.value = [heap.value EXCEPT ![b] = latest[o]]
       /\ \A j \in Lists : \/ heap'.segmentMapping[j] = heap.segmentMapping[j]
                           \/ j = source /\ heap'.segmentMapping[j] = "known"
  BY <1>18, <1>19, <1>20, <1>21 DEF TransferredFrom
<1>23. \A o2 \in Objects, k2 \in Keys :
          versions'[o2][k2] = IF o2 = o /\ k2 = key THEN l ELSE versions[o2][k2]
  <2>1. versions \in [Objects -> [Keys -> Lists \cup {NoList}]]
    BY DEF KeyInv, TypeOK
  <2>2. AddedTo(versions', versions, o, key, l)
    BY <1>1, <1>5, <2>1, Added
  <2> QED BY <2>2 DEF AddedTo
<1>24. Placed(l, o, key, l, b)
  <2>1. \A j \in Lists : heap'.buffer[j] = IF j = l THEN b ELSE heap.buffer[j]
    BY <1>1, <1>22 DEF HeapType
  <2>2. \A x \in Lists : heap'.value[x] = IF x = b THEN latest[o] ELSE heap.value[x]
    BY <1>1, <1>22 DEF HeapType
  <2> QED BY <1>22, <1>23, <2>1, <2>2 DEF Placed
<1>25. Origin(l, o, key, l, b)
  BY <1>1, <1>2, <1>7 DEF Origin, b
<1>26. ~Refers(own)'
  <2> SUFFICES ASSUME NEW o2 \in Objects, NEW k2 \in Keys, versions'[o2][k2] = own
               PROVE  FALSE
    BY DEF Refers
  <2>1. ~(o2 = o /\ k2 = key) /\ versions[o2][k2] = own
    BY <1>17, <1>23
  <2>2. o2 = o /\ k2 = key
    BY <1>1, <1>2, <1>7, <2>1 DEF DataInv, DistinctBuffers
  <2> QED BY <2>1, <2>2
<1>27. Kept(l)
  <2>1. Refers(source)
    BY <1>8, <1>9 DEF Refers
  <2>2. \A j \in Lists :
           \/ heap'.segmentMapping[j] = heap.segmentMapping[j]
           \/ Refers(j) /\ heap'.segmentMapping[j] = "known"
           \/ j = l /\ (program.crossSegment = {} \/ heap'.segmentMapping[j] # "none")
    BY <1>22, <2>1
  <2>3. \A u \in Lists : u = versions[o][key] /\ u # l => ~Refers(u)'
    BY <1>2, <1>26
  <2> HIDE DEF key
  <2> QED BY <1>15, <1>22, <1>24, <1>25, <2>2, <2>3, KeptWithoutRemoval DEF key
<1> QED BY <1>15, <1>24, <1>25, <1>27, PlacedRest

\* ... versions of another item that can be shared ...
LEMMA TakeSharedData ==
  ASSUME KeyInv, SteadyInv, DataInv, NEW n \in Lps, SetUpPartsList(n),
         NEW e \in Envs, NEW o \in Objects, NEW l \in Lists, Setting(n, e, o, l),
         Instr.kind = "DataTransfer", NEW m \in Lps,
         NEW version \in Lists, version = versions[o][<<Instr.source, m>>],
         heap.config[version] = heap.config[l], UpToDate(o, <<Instr.source, m>>),
         ~Disjoint(program),
         heap' = share(heap, l, version),
         versions' = addNewVersion(versions, o, <<e, n>>, version)
  PROVE  DataInv'
<1> DEFINE key == <<e, n>>
           b   == heap.buffer[version]
           k   == <<Instr.source, m>>
           h   == clone(heap, l, version)
<1>1. /\ Pristine(l) /\ e = running /\ l = mine(n) /\ stage = "setup" /\ key \in Keys
      /\ n \in todo /\ o = sourceKey[e] /\ NoList \notin Lists /\ heap \in HeapType
      /\ ~IsNew(Instr)
  BY Tuples DEF Setting, KeyInv, HeapTypeOK, IsNew
<1>2. k \in Keys
  BY <1>1, InSetupFacts, Tuples
<1>3. VersionOK(o, k) /\ Refers(version)
  BY <1>2 DEF DataInv, VersionsOK, Refers
<1>4. b \in Lists /\ heap.value[b] = latest[o] /\ version # l
  BY <1>1, <1>2, <1>3 DEF VersionOK, HeapType, Pristine
<1>5. versions[o][key] = NoList
  BY <1>1, InSetupFacts
<1>6. h = [heap EXCEPT !.buffer = [heap.buffer EXCEPT ![l] = b]]
  BY <1>1, UnitsOfPristine DEF KeyInv
<1>7. heap' = [h EXCEPT !.referenceCount =
                   [h.referenceCount EXCEPT ![version] = h.referenceCount[version] + 1]]
  BY DEF share, increaseReferenceCount
<1> HIDE DEF b
<1>8. h \in HeapType
  <2> HIDE DEF h
  <2> QED BY <1>1, <1>4, <1>6 DEF HeapType
<1>9. /\ heap'.config = heap.config /\ heap'.fresh = heap.fresh
      /\ heap'.deleted = heap.deleted /\ heap'.freed = heap.freed
      /\ heap'.referenceCount = [heap.referenceCount EXCEPT ![version] =
                                   heap.referenceCount[version] + 1]
      /\ heap'.segmentMapping = heap.segmentMapping
      /\ heap'.buffer = [heap.buffer EXCEPT ![l] = b]
      /\ heap'.value = heap.value
  <2> HIDE DEF h
  <2>1. /\ h.config = heap.config /\ h.fresh = heap.fresh
        /\ h.deleted = heap.deleted /\ h.freed = heap.freed
        /\ h.referenceCount = heap.referenceCount
        /\ h.segmentMapping = heap.segmentMapping
        /\ h.buffer = [heap.buffer EXCEPT ![l] = b]
        /\ h.value = heap.value
    BY <1>1, <1>6 DEF HeapType
  <2> QED BY <1>7, <1>8, <2>1 DEF HeapType
<1>10. \A o2 \in Objects, k2 \in Keys :
          versions'[o2][k2] = IF o2 = o /\ k2 = key THEN version ELSE versions[o2][k2]
  <2>1. versions \in [Objects -> [Keys -> Lists \cup {NoList}]]
    BY DEF KeyInv, TypeOK
  <2>2. AddedTo(versions', versions, o, key, version)
    BY <1>1, <2>1, Added
  <2> QED BY <2>2 DEF AddedTo
<1>11. Placed(l, o, key, version, b)
  BY <1>1, <1>4, <1>9, <1>10 DEF Placed, HeapType
<1>12. Origin(l, o, key, version, b)
  BY <1>1, <1>2 DEF Origin, b
<1>13. Kept(l)
  <2>1. \A j \in Lists :
          heap'.referenceCount[j] =
            IF j = version /\ version # l /\ versions[o][key] # version
            THEN heap.referenceCount[j] + 1 ELSE heap.referenceCount[j]
    BY <1>1, <1>4, <1>5, <1>9 DEF HeapType
  <2>2. \A u \in Lists : u # versions[o][key]
    BY <1>1, <1>5
  <2> HIDE DEF key
  <2> QED BY <1>4, <1>9, <1>11, <1>12, <2>1, <2>2, KeptWithoutRemoval DEF key
<1> QED BY <1>4, <1>11, <1>12, <1>13, PlacedRest

\* The item gets a list of its own, filled from list source, of which the last
\* content of the object is known to be there.
LEMMA TakeCopiedData ==
  ASSUME KeyInv, SteadyInv, DataInv, NEW n \in Lps, SetUpPartsList(n),
         NEW e \in Envs, NEW o \in Objects, NEW l \in Lists, Setting(n, e, o, l),
         Instr.kind = "DataTransfer",
         NEW h \in HeapType,
         h.config = heap.config, h.fresh = heap.fresh,
         h.deleted = heap.deleted, h.freed = heap.freed,
         h.referenceCount = heap.referenceCount,
         h.buffer = [heap.buffer EXCEPT ![l] = l],
         \A x \in Lists : x # l => h.value[x] = heap.value[x],
         \A j \in Lists : \/ h.segmentMapping[j] = heap.segmentMapping[j]
                          \/ Refers(j) /\ h.segmentMapping[j] = "known",
         NEW k \in Keys, NEW source \in Lists, source = versions[o][k], UpToDate(o, k),
         NEW target, target \in {l, NoList},
         heap' = handleTransfer(h, source, l, target),
         versions' = addNewVersion(versions, o, <<e, n>>, l)
  PROVE  DataInv'
<1> DEFINE key == <<e, n>>
<1>1. /\ Pristine(l) /\ e = running /\ l = mine(n) /\ stage = "setup" /\ key \in Keys
      /\ n \in todo /\ o = sourceKey[e] /\ NoList \notin Lists /\ heap \in HeapType
      /\ ~IsNew(Instr)
  BY Tuples DEF Setting, KeyInv, HeapTypeOK, IsNew
<1>2. VersionOK(o, k) /\ Refers(source)
  BY DEF DataInv, VersionsOK, Refers
<1>3. /\ heap.buffer[source] \in Lists /\ source # l /\ heap.buffer[source] # l
      /\ heap.value[heap.buffer[source]] = latest[o]
      /\ heap.buffer[source] \notin heap.freed
      /\ heap.config[heap.buffer[source]] = heap.config[source]
  BY <1>1, <1>2 DEF VersionOK, HeapType, Pristine
<1>4. versions[o][key] = NoList
  BY <1>1, InSetupFacts
<1>5. h.buffer[l] = l /\ h.buffer[source] = heap.buffer[source]
        /\ h.value[h.buffer[source]] = latest[o]
  BY <1>1, <1>3 DEF HeapType
<1>6. TransferredFrom(heap', h, source, l, h.value[h.buffer[source]])
  <2>1. /\ h.buffer[source] \in Lists /\ h.buffer[source] \notin h.freed
        /\ h.config[h.buffer[source]] = h.config[source]
    BY <1>3, <1>5
  <2>2. \/ program.crossSegment = {}
        \/ /\ \A j \in Lists : h.segmentMapping[j] # "none"
           /\ target # NoList => h.config[target] = h.config[l]
    BY DEF DataInv, MappingsOK
  <2>3. target \in Lists \cup {NoList}
    OBVIOUS
  <2> QED BY <2>1, <2>2, <2>3, TransferComplete
<1>7. /\ heap'.config = heap.config /\ heap'.fresh = heap.fresh
      /\ heap'.deleted = heap.deleted /\ heap'.freed = heap.freed
      /\ heap'.referenceCount = heap.referenceCount
      /\ heap'.buffer = [heap.buffer EXCEPT ![l] = l]
      /\ heap'.value = [h.value EXCEPT ![l] = latest[o]]
      /\ \A j \in Lists : \/ heap'.segmentMapping[j] = h.segmentMapping[j]
                          \/ j = source /\ heap'.segmentMapping[j] = "known"
  BY <1>5, <1>6 DEF TransferredFrom
<1>8. \A o2 \in Objects, k2 \in Keys :
          versions'[o2][k2] = IF o2 = o /\ k2 = key THEN l ELSE versions[o2][k2]
  <2>1. versions \in [Objects -> [Keys -> Lists \cup {NoList}]]
    BY DEF KeyInv, TypeOK
  <2>2. AddedTo(versions', versions, o, key, l)
    BY <1>1, <2>1, Added
  <2> QED BY <2>2 DEF AddedTo
<1>9. Placed(l, o, key, l, l)
  <2>1. \A j \in Lists : heap'.buffer[j] = IF j = l THEN l ELSE heap.buffer[j]
    BY <1>1, <1>7 DEF HeapType
  <2>2. \A x \in Lists : heap'.value[x] = IF x = l THEN latest[o] ELSE heap.value[x]
    BY <1>1, <1>7 DEF HeapType
  <2> QED BY <1>7, <1>8, <2>1, <2>2 DEF Placed
<1>10. Origin(l, o, key, l, l)
  BY <1>1 DEF Origin
<1>11. Kept(l)
  <2>1. \A j \in Lists :
           \/ heap'.segmentMapping[j] = heap.segmentMapping[j]
           \/ Refers(j) /\ heap'.segmentMapping[j] = "known"
           \/ j = l /\ (program.crossSegment = {} \/ heap'.segmentMapping[j] # "none")
    BY <1>2, <1>7
  <2>2. \A u \in Lists : u # versions[o][key]
    BY <1>1, <1>4
  <2> HIDE DEF key
  <2> QED BY <1>7, <1>9, <1>10, <2>1, <2>2, KeptWithoutRemoval DEF key
<1> QED BY <1>9, <1>10, <1>11, PlacedRest

\* ... so the versions of another item, fresh or stale ...
LEMMA TakeOverData ==
  ASSUME KeyInv, SteadyInv, DataInv, NEW n \in Lps, SetUpPartsList(n),
         NEW e \in Envs, NEW o \in Objects, NEW l \in Lists, Setting(n, e, o, l),
         Instr.kind = "DataTransfer", TakeOver(e, o, Instr.source, n)
  PROVE  DataInv'
<1> DEFINE key == <<e, n>>
           src == Instr.source
<1>1. /\ Pristine(l) /\ e = running /\ l = mine(n) /\ stage = "setup" /\ key \in Keys
      /\ n \in todo /\ o = sourceKey[e] /\ NoList \notin Lists /\ heap \in HeapType
  BY Tuples DEF Setting, KeyInv, HeapTypeOK
<1>2. /\ src \in Envs /\ src # e /\ \A m \in Lps : versions[o][<<src, m>>] \in Lists
      /\ versions[o][key] = NoList
      /\ \A k \in freshKeys[o] : k \in Keys /\ versions[o][k] \in Lists
      /\ freshKeys[o] # {}
  BY <1>1, InSetupFacts, FreshExists
<1>3. PICK m \in Lps :
        /\ versions' = addNewVersion(versions, o, key, Place(e, o, src, m, n).list)
        /\ \/ /\ versions[o][<<src, m>>] \in heap.fresh
              /\ heap' = Place(e, o, src, m, n).heap
           \/ /\ versions[o][<<src, m>>] \notin heap.fresh
              /\ \E k \in freshKeys[o] :
                   heap' = handleTransfer(Place(e, o, src, m, n).heap, versions'[o][k], mine(n),
                                          Place(e, o, src, m, n).list)
  BY <1>2 DEF TakeOver
<1>4. PICK version \in Lists : version = versions[o][<<src, m>>]
  BY <1>2
<1> DEFINE k0 == <<src, m>>
<1>5. k0 \in Keys /\ VersionOK(o, k0) /\ k0[1] = src /\ Refers(version)
  <2>1. k0 \in Keys
    BY <1>2, Tuples
  <2> QED BY <1>4, <2>1 DEF DataInv, VersionsOK, Refers
<1>6. version \in heap.fresh <=> UpToDate(o, k0)
  BY <1>1, <1>4, <1>5 DEF VersionOK
<1>7. heap.config[Allocation(src, m)] = heap.config[version]
  <2>1. sourceKey[src] = o /\ o # 0
    BY <1>1 DEF KeyInv, InstrsOK, Instr, Objects
  <2> QED BY <1>1, <1>2, <1>4, <2>1 DEF DataInv, AllocationsOK, InSetup
<1>8. CASE heap.config[version] = heap.config[l]
  <2>1. Place(e, o, src, m, n) = [heap |-> share(heap, l, version), list |-> version]
    BY <1>1, <1>4, <1>7, <1>8 DEF Place
  <2>2. ~Disjoint(program)
    <3>1. heap.config[l] \in program.configs[e] /\ heap.config[version] \in program.configs[src]
      BY <1>1, <1>4, <1>5 DEF DataInv, MineOK, VersionOK
    <3> QED BY <1>2, <1>8, <3>1 DEF Disjoint
  <2>3. UpToDate(o, k0)
    BY <1>1, <1>4, <1>5, <2>2, NoAnchorAlone DEF AllUpToDate
  <2>4. /\ heap' = share(heap, l, version)
        /\ versions' = addNewVersion(versions, o, key, version)
    BY <1>3, <1>4, <1>6, <2>1, <2>3
  <2> QED BY <1>4, <1>8, <2>2, <2>3, <2>4, TakeSharedData
<1>9. CASE heap.config[version] # heap.config[l]
  <2> DEFINE h0 == allocatePartsList(heap, l)
             h1 == handleTransfer(h0, version, l, NoList)
  <2>1. Place(e, o, src, m, n) = [heap |-> h1, list |-> l]
    BY <1>1, <1>2, <1>4, <1>7, <1>9 DEF Place
  <2>2. h0 = [heap EXCEPT !.buffer = [heap.buffer EXCEPT ![l] = l]]
    BY <1>1, UnitsOfPristine DEF KeyInv
  <2>3. versions' = addNewVersion(versions, o, key, l)
    BY <1>3, <2>1
  <2>4. /\ h0 \in HeapType
        /\ h0.config = heap.config /\ h0.fresh = heap.fresh
        /\ h0.deleted = heap.deleted /\ h0.freed = heap.freed
        /\ h0.referenceCount = heap.referenceCount
        /\ h0.buffer = [heap.buffer EXCEPT ![l] = l]
        /\ h0.value = heap.value /\ h0.segmentMapping = heap.segmentMapping
    <3> HIDE DEF h0
    <3> QED BY <1>1, <2>2 DEF HeapType
  <2>5. CASE version \in heap.fresh
    <3>1. heap' = h1
      BY <1>3, <1>4, <2>1, <2>5
    <3>2. UpToDate(o, k0)
      BY <1>6, <2>5
    <3> HIDE DEF h0, k0
    <3> QED BY <1>4, <1>5, <2>3, <2>4, <3>1, <3>2, TakeCopiedData DEF k0
  <2>6. CASE version \notin heap.fresh
    <3>1. PICK k \in freshKeys[o] : heap' = handleTransfer(h1, versions'[o][k], l, l)
      BY <1>1, <1>3, <1>4, <2>1, <2>6
    <3>2. PICK source \in Lists : source = versions[o][k]
      BY <1>2
    <3>3. k \in Keys /\ k # key /\ UpToDate(o, k)
      BY <1>1, <1>2 DEF UpToDate
    <3>4. versions'[o][k] = source
      <4>1. versions \in [Objects -> [Keys -> Lists \cup {NoList}]]
        BY DEF KeyInv, TypeOK
      <4>2. AddedTo(versions', versions, o, key, l)
        BY <1>1, <2>3, <4>1, Added
      <4> QED BY <3>2, <3>3, <4>2 DEF AddedTo
    <3>5. TransferredFrom(h1, h0, version, l, h0.value[h0.buffer[version]])
      <4>1. /\ h0.buffer[version] = heap.buffer[version] /\ heap.buffer[version] \in Lists
            /\ heap.buffer[version] \notin heap.freed
            /\ heap.config[heap.buffer[version]] = heap.config[version]
        BY <1>1, <1>4, <1>5, <2>4 DEF VersionOK, HeapType, Pristine
      <4>2. \/ program.crossSegment = {}
            \/ /\ \A j \in Lists : h0.segmentMapping[j] # "none"
               /\ NoList # NoList => h0.config[NoList] = h0.config[l]
        BY <2>4 DEF DataInv, MappingsOK
      <4> HIDE DEF h0
      <4> QED BY <2>4, <4>1, <4>2, TransferComplete
    <3> DEFINE w == h0.value[h0.buffer[version]]
    <3> HIDE DEF h0, h1, w
    <3>6. /\ h1 \in HeapType
          /\ h1.config = heap.config /\ h1.fresh = heap.fresh
          /\ h1.deleted = heap.deleted /\ h1.freed = heap.freed
          /\ h1.referenceCount = heap.referenceCount
          /\ h1.buffer = [heap.buffer EXCEPT ![l] = l]
          /\ h1.value = [heap.value EXCEPT ![l] = w]
          /\ \A j \in Lists : \/ h1.segmentMapping[j] = heap.segmentMapping[j]
                              \/ Refers(j) /\ h1.segmentMapping[j] = "known"
      <4>1. TransferredFrom(h1, h0, version, l, w)
        BY <3>5 DEF w
      <4>2. h0.buffer[l] = l
        BY <1>1, <2>4 DEF HeapType
      <4> QED BY <1>5, <2>4, <4>1, <4>2 DEF TransferredFrom
    <3>7. \A x \in Lists : x # l => h1.value[x] = heap.value[x]
      BY <1>1, <3>6 DEF HeapType
    <3> QED BY <2>3, <3>1, <3>2, <3>3, <3>4, <3>6, <3>7, TakeCopiedData
  <2> QED BY <2>5, <2>6
<1> QED BY <1>8, <1>9

\* ... and fresh versions that are to be reorganized, where the old list is deleted if
\* nobody else refers to it.
LEMMA OwnReorganizedData ==
  ASSUME KeyInv, SteadyInv, DataInv, NEW n \in Lps, SetUpPartsList(n),
         NEW e \in Envs, NEW o \in Objects, NEW l \in Lists, Setting(n, e, o, l),
         Instr.kind = "StaleRefresh", ownFresh, RefreshFromOwn(e, o, n),
         heap.config[l] # heap.config[versions[o][<<e, n>>]]
  PROVE  DataInv'
<1> DEFINE key == <<e, n>>
<1>1. /\ Pristine(l) /\ e = running /\ l = mine(n) /\ stage = "setup" /\ key \in Keys
      /\ n \in todo
      /\ o = sourceKey[e] /\ NoList \notin Lists /\ heap \in HeapType /\ ~IsNew(Instr)
  BY Tuples DEF Setting, KeyInv, HeapTypeOK, IsNew
<1>2. PICK own \in Lists : own = versions[o][key]
  BY <1>1, InSetupFacts
<1> DEFINE ready  == allocatePartsList(heap, l)
           moved  == handleTransfer(ready, own, l, NoList)
           cached == IF CrossSegment(heap, own, l) THEN "known" ELSE "none"
           h      == [moved EXCEPT !.segmentMapping[l] = cached]
           s      == removeVersions(h, o, {key})
<1>3. /\ heap' = s.heap /\ versions' = addNewVersion(s.versions, o, key, l)
  BY <1>1, <1>2 DEF RefreshFromOwn
<1>4. VersionOK(o, key) /\ UpToDate(o, key) /\ Refers(own)
  BY <1>1, <1>2 DEF DataInv, VersionsOK, UpToDate, KeyInv, FreshKeysOK, Refers
<1>5. /\ heap.buffer[own] \in Lists /\ heap.buffer[own] # l /\ own # l
      /\ heap.value[heap.buffer[own]] = latest[o]
      /\ heap.buffer[own] \notin heap.freed
      /\ heap.config[heap.buffer[own]] = heap.config[own]
  BY <1>1, <1>2, <1>4 DEF VersionOK, HeapType, Pristine
<1>6. program.crossSegment = {}
  <2>1. heap.config[l] \in program.configs[e]
    BY <1>1 DEF DataInv, MineOK
  <2>2. heap.config[own] \in program.configs[e]
    BY <1>1, <1>2, <1>4 DEF VersionOK
  <2> QED BY <1>2, <2>1, <2>2 DEF DataInv, IsDisciplined, OneConfig
<1>7. /\ ready \in HeapType
      /\ ready.config = heap.config /\ ready.fresh = heap.fresh
      /\ ready.deleted = heap.deleted /\ ready.freed = heap.freed
      /\ ready.referenceCount = heap.referenceCount
      /\ ready.buffer = [heap.buffer EXCEPT ![l] = l]
      /\ ready.value = heap.value /\ ready.segmentMapping = heap.segmentMapping
  <2>1. ready = [heap EXCEPT !.buffer = [heap.buffer EXCEPT ![l] = l]]
    BY <1>1, UnitsOfPristine DEF KeyInv
  <2> HIDE DEF ready
  <2> QED BY <1>1, <2>1 DEF HeapType
<1> HIDE DEF ready
<1>8. ready.buffer[l] = l /\ ready.buffer[own] = heap.buffer[own]
        /\ ready.value[ready.buffer[own]] = latest[o]
  BY <1>1, <1>5, <1>7 DEF HeapType
<1>9. TransferredFrom(moved, ready, own, l, ready.value[ready.buffer[own]])
  BY <1>5, <1>6, <1>7, <1>8, TransferComplete
<1> HIDE DEF moved
<1>10. /\ h \in HeapType
       /\ h.config = heap.config /\ h.fresh = heap.fresh
       /\ h.deleted = heap.deleted /\ h.freed = heap.freed
       /\ h.referenceCount = heap.referenceCount
       /\ h.buffer = [heap.buffer EXCEPT ![l] = l]
       /\ h.value = [heap.value EXCEPT ![l] = latest[o]]
       /\ \A j \in Lists : j \notin {l, own} => h.segmentMapping[j] = heap.segmentMapping[j]
  <2>1. /\ moved \in HeapType
        /\ moved.config = heap.config /\ moved.fresh = heap.fresh
        /\ moved.deleted = heap.deleted /\ moved.freed = heap.freed
        /\ moved.referenceCount = heap.referenceCount
        /\ moved.buffer = [heap.buffer EXCEPT ![l] = l]
        /\ moved.value = [heap.value EXCEPT ![l] = latest[o]]
        /\ \A j \in Lists : j # own => moved.segmentMapping[j] = heap.segmentMapping[j]
    BY <1>7, <1>8, <1>9 DEF TransferredFrom
  <2>2. cached \in {"unknown", "known", "none"}
    OBVIOUS
  <2> HIDE DEF cached
  <2> QED BY <2>1, <2>2 DEF HeapType
<1> HIDE DEF h
<1>11. RemovedFrom(s, h, o, {key})
  <2>1. {key} \in SUBSET Keys /\ IsFiniteSet({key})
    BY <1>1, FS_Singleton
  <2> QED BY <1>10, <2>1, Removed DEF KeyInv
<1> HIDE DEF s
<1>12. \A j : Dropped(o, {key}, j) = IF j = own THEN 1 ELSE 0
  <2>1. \A j : {k \in {key} : versions[o][k] = j} = IF j = own THEN {key} ELSE {}
    BY <1>2
  <2>2. Cardinality({key}) = 1 /\ Cardinality({}) = 0
    BY FS_Singleton, FS_EmptySet
  <2> HIDE DEF key
  <2> QED BY <2>1, <2>2 DEF Dropped
<1> DEFINE gone == {j \in Lists : j = own /\ heap.referenceCount[own] <= 1}
<1>13. /\ heap'.config = heap.config /\ heap'.fresh = heap.fresh
       /\ heap'.deleted = heap.deleted \cup gone
       /\ heap'.freed = heap.freed \cup Units(h, gone)
       /\ \A j \in Lists : heap'.referenceCount[j] =
            IF j = own THEN heap.referenceCount[own] - 1 ELSE heap.referenceCount[j]
       /\ heap'.buffer = [heap.buffer EXCEPT ![l] = l]
       /\ heap'.value = [heap.value EXCEPT ![l] = latest[o]]
       /\ \A j \in Lists : j \notin {l, own} =>
            heap'.segmentMapping[j] = heap.segmentMapping[j]
  <2> DEFINE gone2 == {j \in Lists : 0 < Dropped(o, {key}, j)
                                      /\ h.referenceCount[j] <= Dropped(o, {key}, j)}
             count == [j \in Lists |-> h.referenceCount[j] - Dropped(o, {key}, j)]
  <2>1. gone2 = gone
    <3>1. ASSUME NEW j \in Lists
          PROVE  0 < Dropped(o, {key}, j) /\ h.referenceCount[j] <= Dropped(o, {key}, j)
                   <=> j = own /\ heap.referenceCount[own] <= 1
      <4>1. Dropped(o, {key}, j) = IF j = own THEN 1 ELSE 0
        BY <1>12
      <4> QED BY <1>10, <4>1
    <3> QED BY <3>1
  <2>2. heap' = [h EXCEPT !.referenceCount = count, !.deleted = h.deleted \cup gone2,
                          !.freed = h.freed \cup Units(h, gone2)]
    BY <1>3, <1>11 DEF RemovedFrom
  <2>3. \A j \in Lists : count[j] =
            IF j = own THEN heap.referenceCount[own] - 1 ELSE heap.referenceCount[j]
    <3>1. \A j \in Lists : heap.referenceCount[j] \in Int
      BY <1>1 DEF HeapType
    <3> QED BY <1>10, <1>12, <3>1
  <2> HIDE DEF gone, gone2, count
  <2>4. /\ heap'.config = h.config /\ heap'.fresh = h.fresh
        /\ heap'.deleted = h.deleted \cup gone2
        /\ heap'.freed = h.freed \cup Units(h, gone2)
        /\ heap'.referenceCount = count /\ heap'.buffer = h.buffer
        /\ heap'.value = h.value /\ heap'.segmentMapping = h.segmentMapping
    BY <1>10, <2>2 DEF HeapType
  <2> QED BY <1>10, <2>1, <2>3, <2>4
<1>14. \A o2 \in Objects, k \in Keys :
          versions'[o2][k] = IF o2 = o /\ k = key THEN l ELSE versions[o2][k]
  <2>1. /\ s.versions \in [Objects -> [Keys -> Lists \cup {NoList}]]
        /\ \A o2 \in Objects, k \in Keys :
             s.versions[o2][k] = IF o2 = o /\ k = key THEN NoList ELSE versions[o2][k]
    BY <1>11 DEF RemovedFrom
  <2>2. AddedTo(versions', s.versions, o, key, l)
    BY <1>1, <1>3, <2>1, Added
  <2> HIDE DEF key
  <2> QED BY <2>1, <2>2 DEF AddedTo
<1>15. Placed(l, o, key, l, l)
  <2>1. \A j \in Lists : heap'.buffer[j] = IF j = l THEN l ELSE heap.buffer[j]
    BY <1>1, <1>13 DEF HeapType
  <2>2. \A x \in Lists : heap'.value[x] = IF x = l THEN latest[o] ELSE heap.value[x]
    BY <1>1, <1>13 DEF HeapType
  <2> QED BY <1>13, <1>14, <2>1, <2>2 DEF Placed
<1>16. Origin(l, o, key, l, l)
  BY <1>1 DEF Origin
<1>u. Units(h, gone) \subseteq {heap.buffer[own]} /\ (gone = {} => Units(h, gone) = {})
  <2>1. h.buffer[own] = heap.buffer[own]
    BY <1>1, <1>5, <1>10 DEF HeapType
  <2> QED BY <2>1 DEF Units
\* A list to which a version still refers is not deleted.
<1>17. ASSUME NEW j \in Lists, Refers(j)'
       PROVE  /\ heap'.referenceCount[j] = Cardinality(References(j)')
              /\ j = own => gone = {}
  <2> DEFINE c == Cardinality(References(j))
             d == Cardinality(References(j)')
  <2>1. /\ c \in Nat /\ d # 0
        /\ d = IF j = l THEN c + 1 ELSE IF j = own THEN c - 1 ELSE c
        /\ Refers(j) <=> c # 0
    <3>1. TypeOK
      BY DEF KeyInv
    <3> HIDE DEF key
    <3>2. ReferencesChange(o, key, l, j)
      BY <1>1, <1>14, <3>1, ReferenceStep
    <3> QED BY <1>2, <1>5, <1>17, <3>2 DEF ReferencesChange
  <2>2. Refers(j) => heap.referenceCount[j] = c
    BY DEF DataInv, CountsOK
  <2>3. j = l => heap.referenceCount[j] = 1 /\ c = 0
    BY <1>1, <2>1 DEF Pristine
  <2> HIDE DEF c, d, gone
  <2>4. CASE j = l
    <3>1. d = 1 /\ heap'.referenceCount[j] = 1
      BY <1>5, <1>13, <2>1, <2>3, <2>4
    <3> QED BY <1>5, <2>4, <3>1 DEF d
  <2>5. CASE j = own
    <3>1. heap.referenceCount[j] = c /\ d = c - 1 /\ c \in Nat /\ d # 0
      BY <1>4, <1>5, <2>1, <2>2, <2>5
    <3>2. heap'.referenceCount[j] = c - 1
      BY <1>13, <2>5, <3>1
    <3>3. d \in Nat
      BY FS_CardinalityType, ReferencesFinite, <1>4, <2>1, <2>5, <3>1
    <3>4. ~(heap.referenceCount[own] <= 1)
      BY <2>5, <3>1, <3>3
    <3> QED BY <2>5, <3>1, <3>2, <3>4 DEF d, gone
  <2>6. CASE j # l /\ j # own
    BY <1>13, <2>1, <2>2, <2>6 DEF c, d
  <2> QED BY <2>4, <2>5, <2>6
<1>18. Kept(l)
  <2>1. CountsOK'
    BY <1>17 DEF CountsOK
  <2>2. ASSUME NEW o2 \in Objects, NEW k \in Keys, versions'[o2][k] # NoList
        PROVE  /\ versions'[o2][k] \notin heap'.deleted
               /\ heap'.buffer[versions'[o2][k]] \notin heap'.freed
    <3>1. CASE o2 = o /\ k = key
      <4>1. versions'[o2][k] = l /\ heap'.buffer[l] = l
        BY <1>14, <1>15, <3>1 DEF Placed
      <4>2. l \notin heap'.deleted /\ l \notin heap'.freed
        BY <1>1, <1>5, <1>13, <1>u DEF Pristine
      <4> QED BY <4>1, <4>2
    <3>2. CASE ~(o2 = o /\ k = key)
      <4>1. PICK j \in Lists : j = versions[o2][k] /\ j = versions'[o2][k]
        BY <1>14, <2>2, <3>2 DEF KeyInv, TypeOK
      <4>2. /\ VersionOK(o2, k) /\ j # l /\ Refers(j)
        BY <1>1, <4>1 DEF DataInv, VersionsOK, Pristine, Refers
      <4>3. j # NoList /\ heap'.buffer[j] = heap.buffer[j]
        BY <1>1, <1>15, <4>2 DEF Placed
      <4>4. Refers(j)'
        BY <4>1 DEF Refers
      <4>5. heap.buffer[j] = heap.buffer[own] => j = own
        <5>1. DistinctBuffers /\ own # NoList
          BY <1>1 DEF DataInv
        <5>2. key \in Keys /\ own = versions[o][key] /\ j = versions[o2][k] /\ j # NoList
          BY <1>1, <1>2, <4>1, <4>3
        <5> HIDE DEF key
        <5>3. heap.buffer[versions[o2][k]] = heap.buffer[versions[o][key]]
                => versions[o2][k] = versions[o][key]
          BY <5>1, <5>2 DEF DistinctBuffers
        <5> QED BY <5>2, <5>3
      <4>6. j \notin heap.deleted /\ heap.buffer[j] \notin heap.freed
        BY <4>1, <4>2, <4>3 DEF VersionOK
      <4>7. j \notin gone /\ heap.buffer[j] \notin Units(h, gone)
        BY <1>17, <1>u, <4>4, <4>5
      <4> HIDE DEF gone
      <4> QED BY <1>13, <4>1, <4>3, <4>6, <4>7
    <3> QED BY <3>1, <3>2
  <2>3. ASSUME NEW j \in Lists, Untouched(j), j # l
        PROVE  /\ heap'.referenceCount[j] = 1 /\ heap'.segmentMapping[j] = "unknown"
               /\ j \notin heap'.deleted /\ j \notin heap'.freed
    <3>1. Pristine(j)
      BY <2>3 DEF DataInv, UntouchedPristine
    <3>2. j # own /\ j # heap.buffer[own]
      BY <1>4, <3>1 DEF Pristine
    <3>3. j \notin gone /\ j \notin Units(h, gone)
      BY <1>u, <3>2
    <3> HIDE DEF gone
    <3> QED BY <1>13, <2>3, <3>1, <3>2, <3>3 DEF Pristine
  <2>4. MappingsOK'
    BY <1>6, SettingFrame DEF MappingsOK
  <2> QED BY <2>1, <2>2, <2>3, <2>4 DEF Kept
<1> QED BY <1>15, <1>16, <1>18, PlacedRest

\* setupPartsList keeps DataInv.
LEMMA SetUpData ==
  ASSUME KeyInv, SteadyInv, DataInv, NEW n \in Lps, SetUpPartsList(n)
  PROVE  DataInv'
<1>1. PICK e \in Envs, o \in Objects, l \in Lists : Setting(n, e, o, l)
  BY SettingExists
<1>2. e = running /\ o = sourceKey[e]
  BY <1>1 DEF Setting
<1>3. CASE IsNew(Instr) /\ SetUpNew(e, n)
  BY <1>1, <1>3, NewData
<1>4. CASE Instr.kind = "StaleRefresh" /\ ownFresh /\ RefreshFromOwn(e, o, n)
  BY <1>1, <1>4, OwnAlikeData, OwnReorganizedData
<1>5. CASE Instr.kind = "StaleRefresh" /\ ~ownFresh /\ RefreshFromOther(e, o, n)
  BY <1>1, <1>5, OtherData
<1>6. CASE Instr.kind = "DataTransfer" /\ TakeOver(e, o, Instr.source, n)
  BY <1>1, <1>6, TakeOverData
<1> QED BY <1>2, <1>3, <1>4, <1>5, <1>6 DEF SetUpPartsList, Instr

\* The references that list j loses when the task of e is started.
Lost(e, j) == IF Loses(e) THEN Dropped(sourceKey[e], KeysOf(e), j) ELSE 0
\* The lists that are deleted then.
Gone(e)    == {j \in Lists : 0 < Lost(e, j) /\ heap.referenceCount[j] <= Lost(e, j)}

\* What starting the task of e with configurations cs does to the heap.
StartHeap(e, cs) ==
  /\ \A j \in Lists : heap'.config[j] = IF j[1] = taskId' THEN cs[j[2]] ELSE heap.config[j]
  /\ heap'.buffer = heap.buffer /\ heap'.fresh = heap.fresh
  /\ heap'.segmentMapping = heap.segmentMapping /\ heap'.value = heap.value
  /\ \A j \in Lists : heap'.referenceCount[j] = heap.referenceCount[j] - Lost(e, j)
  /\ heap'.deleted = heap.deleted \cup Gone(e)
  /\ heap'.freed = heap.freed \cup Units(heap, Gone(e))

\* removeOldPartsListReferences has these effects.
LEMMA StartHeapEffects ==
  ASSUME KeyInv, NEW e \in Envs, StartTask(e)
  PROVE  \E cs \in [Lps -> program.configs[e]] : StartHeap(e, cs)
<1>1. PICK cs \in [Lps -> program.configs[e]] :
        LET s == removeOldPartsListReferences(NewLists(heap, taskId + 1, cs), e)
        IN  heap' = s.heap /\ versions' = s.versions /\ freshKeys' = s.freshKeys
  BY DEF StartTask
<1> DEFINE h == NewLists(heap, taskId + 1, cs)
<1>2. h \in HeapType /\ heap \in HeapType /\ taskId' = taskId + 1
  BY NewListsType, StartTaskFacts DEF KeyInv, HeapTypeOK
<1>3. /\ \A j \in Lists : h.config[j] = IF j[1] = taskId' THEN cs[j[2]] ELSE heap.config[j]
      /\ h.buffer = heap.buffer /\ h.fresh = heap.fresh
      /\ h.segmentMapping = heap.segmentMapping /\ h.value = heap.value
      /\ h.referenceCount = heap.referenceCount
      /\ h.deleted = heap.deleted /\ h.freed = heap.freed
  <2> DEFINE c == [j \in Lists |-> IF j[1] = taskId + 1 THEN cs[j[2]] ELSE heap.config[j]]
  <2>1. h = [heap EXCEPT !.config = c]
    BY <1>2 DEF NewLists, HeapType
  <2>2. \A j \in Lists : c[j] = IF j[1] = taskId' THEN cs[j[2]] ELSE heap.config[j]
    BY <1>2
  <2> HIDE DEF c
  <2>3. h.config = c
    BY <1>2, <2>1 DEF HeapType
  <2>4. /\ h.buffer = heap.buffer /\ h.fresh = heap.fresh
        /\ h.segmentMapping = heap.segmentMapping /\ h.value = heap.value
        /\ h.referenceCount = heap.referenceCount
        /\ h.deleted = heap.deleted /\ h.freed = heap.freed
    BY <1>2, <2>1 DEF HeapType
  <2> QED BY <2>2, <2>3, <2>4
<1> HIDE DEF h
<1>4. CASE ~Loses(e)
  <2>1. heap' = h
    BY <1>1, <1>4 DEF removeOldPartsListReferences, Loses, h
  <2>2. (\A j : Lost(e, j) = 0) /\ Gone(e) = {}
    BY <1>4 DEF Lost, Gone
  <2>3. Units(heap, Gone(e)) = {}
    BY <2>2 DEF Units
  <2>4. \A j \in Lists : heap.referenceCount[j] \in Int
    BY <1>2 DEF HeapType
  <2> QED BY <1>3, <2>1, <2>2, <2>3, <2>4 DEF StartHeap
<1>5. CASE Loses(e)
  <2> DEFINE r == removeVersions(h, sourceKey[e], KeysOf(e))
  <2>1. heap' = r.heap
    BY <1>1, <1>5 DEF removeOldPartsListReferences, Loses, h
  <2>2. sourceKey[e] \in Objects
    BY <1>5, SourceType DEF KeyInv, Loses
  <2>3. RemovedFrom(r, h, sourceKey[e], KeysOf(e))
    BY <1>2, <2>2, KeysFinite, Removed DEF KeyInv
  <2> HIDE DEF r
  <2> DEFINE count == [j \in Lists |-> h.referenceCount[j] - Lost(e, j)]
  <2>4. heap' = [h EXCEPT !.referenceCount = count,
                          !.deleted = h.deleted \cup Gone(e),
                          !.freed = h.freed \cup Units(h, Gone(e))]
    BY <1>3, <1>5, <2>1, <2>3 DEF RemovedFrom, Lost, Gone
  <2>5. Units(h, Gone(e)) = Units(heap, Gone(e))
    BY <1>3 DEF Units
  <2>6. \A j \in Lists : count[j] = heap.referenceCount[j] - Lost(e, j)
    BY <1>3
  <2> HIDE DEF count
  <2>7. /\ heap'.config = h.config /\ heap'.buffer = h.buffer /\ heap'.fresh = h.fresh
        /\ heap'.segmentMapping = h.segmentMapping /\ heap'.value = h.value
        /\ heap'.referenceCount = count
        /\ heap'.deleted = h.deleted \cup Gone(e)
        /\ heap'.freed = h.freed \cup Units(h, Gone(e))
    BY <1>2, <2>4 DEF HeapType
  <2> QED BY <1>3, <2>5, <2>6, <2>7 DEF StartHeap
<1> QED BY <1>4, <1>5

\* A list that keeps a reference is not deleted, and its count is right.
LEMMA StartReferences ==
  ASSUME KeyInv, DataInv, NEW e \in Envs, StartTask(e), NEW cs, StartHeap(e, cs),
         NEW j \in Lists
  PROVE  /\ Refers(j)' => /\ Refers(j) /\ j \notin Gone(e)
                          /\ heap'.referenceCount[j] = Cardinality(References(j)')
         /\ ~Refers(j) => Lost(e, j) = 0 /\ j \notin Gone(e)
<1>1. /\ \A o \in Objects, k \in Keys :
           versions'[o][k] = IF Loses(e) /\ o = sourceKey[e] /\ k \in KeysOf(e)
                             THEN NoList ELSE versions[o][k]
  BY StartTaskKeys DEF StartEffects
<1>2. NoList # j
  BY Tuples
<1>3. Refers(j) => heap.referenceCount[j] = Cardinality(References(j))
  BY DEF DataInv, CountsOK
<1>4. heap'.referenceCount[j] = heap.referenceCount[j] - Lost(e, j)
  BY DEF StartHeap
<1>5. Refers(j)' => Refers(j)
  BY <1>1, <1>2 DEF Refers
<1>6. CASE ~Loses(e)
  <2>1. References(j)' = References(j)
    BY <1>1, <1>6 DEF References
  <2>2. Lost(e, j) = 0 /\ j \notin Gone(e)
    BY <1>6 DEF Lost, Gone
  <2>3. heap.referenceCount[j] \in Int
    BY DEF KeyInv, HeapTypeOK, HeapType
  <2> QED BY <1>3, <1>4, <1>5, <2>1, <2>2, <2>3
<1>7. CASE Loses(e)
  <2> DEFINE u == sourceKey[e]
             R == References(j)
             S == R \ ({u} \X KeysOf(e))
  <2>1. u \in Objects
    BY <1>7, SourceType DEF KeyInv, Loses
  <2>2. References(j)' = S
    <3>1. ASSUME NEW p \in Objects \X Keys
          PROVE  versions'[p[1]][p[2]] = j
                   <=> versions[p[1]][p[2]] = j /\ p \notin {u} \X KeysOf(e)
      <4>1. p[1] \in Objects /\ p[2] \in Keys /\ p = <<p[1], p[2]>>
        OBVIOUS
      <4> QED BY <1>1, <1>2, <1>7, <4>1
    <3> QED BY <3>1 DEF References
  <2>3. /\ Cardinality(S) = Cardinality(R) - Dropped(u, KeysOf(e), j)
        /\ Cardinality(R) \in Nat /\ Dropped(u, KeysOf(e), j) \in Nat
        /\ S # {} => Dropped(u, KeysOf(e), j) < Cardinality(R)
        /\ Dropped(u, KeysOf(e), j) # 0 => Refers(j)
    BY <2>1, KeysFinite, RemainingReferences DEF KeyInv
  <2>4. Lost(e, j) = Dropped(u, KeysOf(e), j)
    BY <1>7 DEF Lost
  <2>5. Refers(j)' => S # {}
    <3>1. ASSUME NEW o \in Objects, NEW k \in Keys, versions'[o][k] = j
          PROVE  <<o, k>> \in References(j)'
      BY <3>1 DEF References
    <3> HIDE DEF S
    <3> QED BY <2>2, <3>1 DEF Refers
  <2> HIDE DEF S, R
  <2>6. Refers(j)' => j \notin Gone(e)
    <3>1. Refers(j)' => Lost(e, j) < heap.referenceCount[j]
      BY <1>3, <1>5, <2>3, <2>4, <2>5 DEF R
    <3>2. heap.referenceCount[j] \in Int
      BY DEF KeyInv, HeapTypeOK, HeapType
    <3> QED BY <2>3, <2>4, <3>1, <3>2 DEF Gone
  <2>7. ~Refers(j) => Lost(e, j) = 0 /\ j \notin Gone(e)
    BY <2>3, <2>4 DEF Gone
  <2> QED BY <1>3, <1>4, <1>5, <2>2, <2>3, <2>4, <2>6, <2>7 DEF R
<1> QED BY <1>6, <1>7

\* The start of a task keeps DataInv.
LEMMA StartData ==
  ASSUME KeyInv, SteadyInv, DataInv, NEW e \in Envs, StartTask(e)
  PROVE  DataInv'
<1>1. PICK cs \in [Lps -> program.configs[e]] : StartHeap(e, cs)
  BY StartHeapEffects
<1>2. /\ stage = "idle" /\ stage' = "setup" /\ running = None /\ running' = e /\ e # None
      /\ taskId \in Nat /\ taskId' = taskId + 1 /\ taskId' \in Objects
      /\ todo' = Lps /\ UNCHANGED <<program, instrs>> /\ Instr' = instrs[e]
      /\ \A f \in Envs \ {e} : sourceKey'[f] = sourceKey[f]
      /\ \A o \in Objects : o \in Nat
  BY StartTaskFacts
<1>3. /\ \A o \in Objects, k \in Keys :
           versions'[o][k] = IF Loses(e) /\ o = sourceKey[e] /\ k \in KeysOf(e)
                             THEN NoList ELSE versions[o][k]
      /\ \A o \in Objects :
           freshKeys'[o] = IF Loses(e) /\ o = sourceKey[e]
                           THEN freshKeys[o] \ KeysOf(e) ELSE freshKeys[o]
  BY StartTaskKeys DEF StartEffects
<1>4. /\ \A j \in Lists : heap'.config[j] = IF j[1] = taskId' THEN cs[j[2]] ELSE heap.config[j]
      /\ heap'.buffer = heap.buffer /\ heap'.fresh = heap.fresh
      /\ heap'.segmentMapping = heap.segmentMapping /\ heap'.value = heap.value
      /\ \A j \in Lists : heap'.referenceCount[j] = heap.referenceCount[j] - Lost(e, j)
      /\ heap'.deleted = heap.deleted \cup Gone(e)
      /\ heap'.freed = heap.freed \cup Units(heap, Gone(e))
  BY <1>1 DEF StartHeap
<1>5. NoList \notin Lists
  BY Tuples
\* The new lists are untouched, so nothing refers to them.
<1>6. ASSUME NEW j \in Lists, j[1] > taskId PROVE Pristine(j)
  BY <1>6 DEF DataInv, UntouchedPristine, Untouched
<1>7. ASSUME NEW o \in Objects, NEW k \in Keys, versions[o][k] # NoList
      PROVE  LET j == versions[o][k]
             IN  /\ j \in Lists /\ Refers(j) /\ VersionOK(o, k) /\ heap.buffer[j] \in Lists
                 /\ heap'.config[j] = heap.config[j]
                 /\ heap'.config[heap.buffer[j]] = heap.config[heap.buffer[j]]
                 /\ o = sourceKey[k[1]] /\ o <= taskId
  <2>1. PICK j \in Lists : j = versions[o][k]
    BY <1>7 DEF KeyInv, TypeOK
  <2>2. Refers(j) /\ VersionOK(o, k)
    BY <2>1 DEF Refers, DataInv, VersionsOK
  <2>3. heap.buffer[j] \in Lists
    BY <1>5, <2>1, <2>2 DEF VersionOK, KeyInv, HeapTypeOK, HeapType
  <2>4. \A x \in Lists : x[1] \in Nat
    BY <1>2, Tuples
  <2>5. j[1] # taskId' /\ heap.buffer[j][1] # taskId'
    <3>1. ~(j[1] > taskId)
      BY <1>6, <2>2 DEF Pristine
    <3>2. ~(heap.buffer[j][1] > taskId)
      BY <1>6, <2>3 DEF Pristine
    <3> QED BY <1>2, <2>3, <2>4, <3>1, <3>2
  <2>6. o = sourceKey[k[1]] /\ o <= taskId
    <3>1. k[1] \in Envs /\ k[2] \in Lps /\ k = <<k[1], k[2]>>
      BY Tuples
    <3>2. o = sourceKey[k[1]]
      BY <1>2, <1>7, <3>1 DEF KeyInv, KeysExact
    <3> QED BY <1>2, <3>1, <3>2 DEF KeyInv, TypeOK
  <2> QED BY <1>4, <2>1, <2>2, <2>3, <2>5, <2>6
<1>8. ASSUME NEW o \in Objects, NEW k \in Keys, versions'[o][k] # NoList
      PROVE  /\ versions'[o][k] = versions[o][k]
             /\ UpToDate(o, k)' <=> UpToDate(o, k)
             /\ latest'[o] = latest[o]
  <2>1. versions'[o][k] = versions[o][k] /\ ~(Loses(e) /\ o = sourceKey[e] /\ k \in KeysOf(e))
    BY <1>3, <1>8
  <2>2. k \in freshKeys'[o] <=> k \in freshKeys[o]
    BY <1>3, <2>1
  <2>3. UpToDate(o, k)' <=> UpToDate(o, k)
    <3>1. k[2] \in Lps
      BY Tuples
    <3> QED BY <1>2, <2>2, <3>1 DEF UpToDate, InSetup
  <2>4. o # taskId + 1
    BY <1>2, <1>7, <1>8, <2>1
  <2>5. latest'[o] = latest[o]
    BY <2>4 DEF StartTask, KeyInv, TypeOK
  <2> QED BY <2>1, <2>3, <2>5
<1>9. VersionsOK'
  <2> SUFFICES ASSUME NEW o \in Objects, NEW k \in Keys, versions'[o][k] # NoList
               PROVE  VersionOK(o, k)'
    BY DEF VersionsOK, VersionOK
  <2>1. PICK j \in Lists : j = versions[o][k] /\ j = versions'[o][k]
    BY <1>7, <1>8
  <2>2. /\ Refers(j) /\ VersionOK(o, k) /\ heap.buffer[j] \in Lists
        /\ heap'.config[j] = heap.config[j]
        /\ heap'.config[heap.buffer[j]] = heap.config[heap.buffer[j]]
    BY <1>5, <1>7, <2>1
  <2>3. Refers(j)'
    BY <2>1 DEF Refers
  <2>4. j \notin Gone(e)
    BY <1>1, <2>3, StartReferences
  <2>5. heap.buffer[j] \notin Units(heap, Gone(e))
    <3> SUFFICES ASSUME NEW g \in Gone(e), heap.buffer[g] = heap.buffer[j]
                 PROVE  FALSE
      BY DEF Units
    <3>1. g \in Lists /\ Refers(g)
      BY <1>1, StartReferences DEF Gone
    <3>2. g = j
      <4>1. PICK o2 \in Objects, k2 \in Keys : versions[o2][k2] = g
        BY <3>1 DEF Refers
      <4>2. g # NoList /\ j # NoList
        BY <1>5, <2>1, <3>1
      <4>3. heap.buffer[versions[o2][k2]] = heap.buffer[versions[o][k]]
              => versions[o2][k2] = versions[o][k]
        <5>1. DistinctBuffers
          BY DEF DataInv
        <5>2. versions[o2][k2] # NoList /\ versions[o][k] # NoList
          BY <2>1, <4>1, <4>2
        <5> HIDE DEF Gone
        <5> QED BY ONLY <5>1, <5>2 DEF DistinctBuffers
      <4> QED BY <2>1, <4>1, <4>3
    <3> QED BY <2>4, <3>2
  <2>6. /\ j \notin heap.deleted /\ heap.buffer[j] # NoList /\ heap.buffer[j] \notin heap.freed
        /\ heap.config[heap.buffer[j]] = heap.config[j]
        /\ heap.config[j] \in program.configs[k[1]]
        /\ j \in heap.fresh <=> UpToDate(o, k)
        /\ UpToDate(o, k) => heap.value[heap.buffer[j]] = latest[o]
    BY <1>5, <2>1, <2>2 DEF VersionOK
  <2>7. (UpToDate(o, k)' <=> UpToDate(o, k)) /\ latest'[o] = latest[o] /\ program' = program
    BY <1>2, <1>8
  <2> QED BY <1>4, <2>1, <2>2, <2>4, <2>5, <2>6, <2>7 DEF VersionOK
<1>10. CountsOK'
  BY <1>1, StartReferences DEF CountsOK
<1>11. DistinctBuffers'
  <2> SUFFICES ASSUME NEW o1 \in Objects, NEW o2 \in Objects, NEW k1 \in Keys, NEW k2 \in Keys,
                      versions'[o1][k1] # NoList, versions'[o2][k2] # NoList
               PROVE  /\ heap'.buffer[versions'[o1][k1]] = heap'.buffer[versions'[o2][k2]]
                           => versions'[o1][k1] = versions'[o2][k2]
                      /\ versions'[o1][k1] = versions'[o2][k2]
                           => o1 = o2 /\ (Disjoint(program) => k1 = k2)
    BY <1>2 DEF DistinctBuffers, Disjoint
  <2>1. versions'[o1][k1] = versions[o1][k1] /\ versions'[o2][k2] = versions[o2][k2]
    BY <1>8
  <2> QED BY <1>4, <2>1 DEF DataInv, DistinctBuffers
<1>12. ASSUME NEW j \in Lists, Untouched(j)' PROVE j[1] > taskId /\ Pristine(j)
  <2>1. j[1] > taskId' \/ j[1] = taskId'
    BY <1>12 DEF Untouched
  <2>2. j[1] \in Nat
    BY <1>2, Tuples
  <2>3. j[1] > taskId
    BY <1>2, <2>1, <2>2
  <2> QED BY <1>6, <2>3
<1>13. UntouchedPristine'
  <2> SUFFICES ASSUME NEW j \in Lists, Untouched(j)' PROVE Pristine(j)'
    BY DEF UntouchedPristine
  <2>1. Pristine(j)
    BY <1>12
  <2>2. Lost(e, j) = 0 /\ j \notin Gone(e) /\ ~Refers(j)'
    BY <1>1, <2>1, StartReferences DEF Pristine
  <2>3. j \notin Units(heap, Gone(e))
    BY <2>1 DEF Units, Pristine, Gone
  <2> QED BY <1>4, <2>1, <2>2, <2>3 DEF Pristine
<1>14. MineOK'
  <2>1. ASSUME NEW n \in Lps
        PROVE  mine(n)' \in heap'.fresh /\ heap'.config[mine(n)'] \in program.configs[e]
    <3>1. PICK j \in Lists : j = <<taskId', n>>
      BY <1>2, Tuples
    <3>2. j[1] = taskId' /\ j[2] = n /\ j[1] > taskId
      BY <1>2, <3>1
    <3>3. j \in heap.fresh
      BY <1>6, <3>2 DEF Pristine
    <3>4. heap'.config[j] = cs[n] /\ cs[n] \in program.configs[e]
      BY <1>4, <3>2
    <3> QED BY <1>4, <3>1, <3>3, <3>4 DEF mine
  <2>2. Lps \ todo' = {}
    BY <1>2
  <2> QED BY <1>2, <2>1, <2>2 DEF MineOK
<1>15. AllocationsOK'
  <2> SUFFICES ASSUME NEW f \in Envs \ {e}, NEW n \in Lps, sourceKey[f] # 0
               PROVE  heap'.config[Allocation(f, n)']
                        = heap'.config[versions'[sourceKey[f]][<<f, n>>]]
    BY <1>2 DEF AllocationsOK, InSetup
  <2>1. sourceKey[f] \in Objects /\ <<f, n>> \in Keys /\ <<f, n>> \notin KeysOf(e)
    BY SourceType, Tuples DEF KeyInv, KeysOf
  <2>2. versions'[sourceKey[f]][<<f, n>>] = versions[sourceKey[f]][<<f, n>>]
    BY <1>3, <2>1
  <2>3. versions[sourceKey[f]][<<f, n>>] # NoList
    <3>1. Registered(f, n)
      BY <1>2 DEF Registered, InSetup
    <3>2. \A o \in Objects : versions[o][<<f, n>>] # NoList
                              <=> sourceKey[f] = o /\ Registered(f, n)
      BY <1>2 DEF KeyInv, KeysExact
    <3> QED BY <2>1, <3>1, <3>2
  <2>4. heap'.config[versions[sourceKey[f]][<<f, n>>]]
          = heap.config[versions[sourceKey[f]][<<f, n>>]]
    BY <1>7, <2>1, <2>3
  <2>5. PICK a \in Lists : a = Allocation(f, n) /\ a = Allocation(f, n)' /\ a[1] # taskId'
    <3>1. invocation[f] \in 0..taskId /\ invocation[f] # 0
      BY DEF KeyInv, TypeOK, TaskOK
    <3>2. invocation[f] \in Objects /\ invocation[f] # taskId'
      <4>1. taskId \in 0..MaxTasks /\ MaxTasks \in Nat
        BY ProgramEnvironmentAssumption DEF KeyInv, TypeOK
      <4> QED BY <1>2, <3>1, <4>1 DEF Objects
    <3>3. invocation'[f] = invocation[f]
      BY StartTaskFacts DEF KeyInv, TypeOK
    <3>4. <<invocation[f], n>> \in Lists
      BY <3>2, Tuples
    <3> QED BY <3>2, <3>3, <3>4 DEF Allocation
  <2>6. heap'.config[a] = heap.config[a]
    BY <1>4, <2>5
  <2>7. heap.config[a] = heap.config[versions[sourceKey[f]][<<f, n>>]]
    <3>1. ~InSetup(f)
      BY <1>2 DEF InSetup
    <3> QED BY <2>5, <3>1 DEF DataInv, AllocationsOK
  <2> QED BY <2>2, <2>4, <2>5, <2>6, <2>7
<1>16. MappingsOK'
  BY <1>2, <1>4 DEF DataInv, MappingsOK
<1>17. LatestOK'
  <2>1. /\ latest' = IF instrs[e].kind = "ReadFromFile"
                     THEN [latest EXCEPT ![taskId + 1] = taskId + 1] ELSE latest
        /\ latest \in [Objects -> Int]
    BY DEF StartTask, KeyInv, TypeOK
  <2>2. \A o \in Objects : o > taskId => latest[o] = 0
    BY DEF DataInv, LatestOK
  <2>3. \A o \in Objects : o > taskId' => latest'[o] = 0
    <3>1. \A o \in Objects : o > taskId' => o > taskId /\ o # taskId + 1
      BY <1>2
    <3> QED BY <2>1, <2>2, <3>1
  <2>4. latest'[taskId'] = IF instrs[e].kind = "ReadFromFile" THEN taskId' ELSE 0
    <3>1. taskId' > taskId
      BY <1>2
    <3> QED BY <1>2, <2>1, <2>2, <3>1
  <2> QED BY <1>2, <2>3, <2>4 DEF LatestOK
<1>18. IsDisciplined(program)'
  BY <1>2 DEF DataInv
<1> QED BY <1>9, <1>10, <1>11, <1>13, <1>14, <1>15, <1>16, <1>17, <1>18 DEF DataInv

\* Binding inputs changes the instructions only, and none is being executed.
LEMMA UnchangedData ==
  ASSUME DataInv, stage = "idle" \/ instrs' = instrs,
         UNCHANGED <<program, taskId, stage, running, todo, ownFresh, sourceKey,
                     invocation, heap, versions, freshKeys, latest>>
  PROVE  DataInv'
<1>1. stage = "setup" => Instr' = Instr
  BY DEF Instr
<1>2. VersionsOK' /\ CountsOK' /\ DistinctBuffers'
  BY DEF DataInv, VersionsOK, VersionOK, UpToDate, InSetup, CountsOK, Refers, References,
         DistinctBuffers
<1>3. UntouchedPristine'
  BY DEF DataInv, UntouchedPristine, Untouched, Pristine, Refers
<1>4. MineOK'
  BY <1>1 DEF DataInv, MineOK, NewReady, Refers, mine
<1>5. AllocationsOK'
  BY <1>1 DEF DataInv, AllocationsOK, InSetup, Allocation
<1>6. MappingsOK' /\ LatestOK' /\ IsDisciplined(program)'
  BY <1>1 DEF DataInv, MappingsOK, LatestOK
<1> QED BY <1>2, <1>3, <1>4, <1>5, <1>6 DEF DataInv

\* ... so they keep DataInv.
LEMMA BindData ==
  ASSUME DataInv, NEW e \in Envs, NEW d \in Envs, BindInput(e) \/ Assign(e, d)
  PROVE  DataInv'
<1>1. CASE BindInput(e)
  BY <1>1, UnchangedData DEF BindInput, Bindable
<1>2. CASE Assign(e, d)
  <2>1. /\ stage = "idle"
        /\ UNCHANGED <<program, taskId, stage, running, todo, ownFresh, sourceKey,
                       invocation, heap, versions, freshKeys, latest>>
    BY <1>2 DEF Assign, Bindable
  <2> QED BY <2>1, UnchangedData
<1> QED BY <1>1, <1>2

\* Recording makes fresh what is up to date.
LEMMA RecordUpToDate ==
  ASSUME KeyInv, RecordVersions, NEW o \in Objects, NEW k \in Keys, versions[o][k] # NoList
  PROVE  UpToDate(o, k)' <=> UpToDate(o, k)
<1> DEFINE r == running
           s == sourceKey[r]
<1>0. /\ stage = "setup" /\ stage' = "compute" /\ todo = {}
      /\ UNCHANGED <<program, taskId, running, todo, ownFresh, instrs, sourceKey,
                     invocation, latest>>
      /\ r \in Envs /\ s \in Objects /\ RecordEffects
  BY ActiveFacts, RecordKeys DEF RecordVersions
<1>1. k[1] \in Envs /\ k[2] \in Lps /\ k = <<k[1], k[2]>>
  BY Tuples
<1>2. sourceKey[k[1]] = o /\ Registered(k[1], k[2])
  <2>1. \A f \in Envs, m \in Lps :
          versions[o][<<f, m>>] # NoList => sourceKey[f] = o /\ Registered(f, m)
    BY <1>0 DEF KeyInv, KeysExact
  <2> QED BY <1>1, <2>1
<1>3. freshKeys'[o] = IF o # s THEN freshKeys[o]
                      ELSE IF IsNew(Instr) THEN KeysOf(r) ELSE freshKeys[o] \cup KeysOf(r)
  BY <1>0 DEF RecordEffects
<1>4. UpToDate(o, k)' <=> k \in freshKeys'[o]
  BY <1>0 DEF UpToDate, InSetup
<1>5. CASE k[1] = r
  <2>1. k \in KeysOf(r) /\ o = s
    BY <1>1, <1>2, <1>5 DEF KeysOf
  <2>2. UpToDate(o, k)
    BY <1>0, <1>5 DEF UpToDate, InSetup
  <2> QED BY <1>3, <1>4, <2>1, <2>2
<1>6. CASE k[1] # r
  <2>1. k \notin KeysOf(r) /\ (UpToDate(o, k) <=> k \in freshKeys[o])
    BY <1>1, <1>6 DEF KeysOf, UpToDate, InSetup
  <2>2. ~(o = s /\ IsNew(Instr))
    BY <1>0, <1>1, <1>2, <1>6 DEF KeyInv, InstrsOK
  <2> QED BY <1>3, <1>4, <2>1, <2>2
<1> QED BY <1>5, <1>6

\* Recording versions that are there already keeps DataInv ...
LEMMA RecordKeptData ==
  ASSUME KeyInv, DataInv, RecordVersions, ~IsNew(Instr)
  PROVE  DataInv'
<1>0. /\ stage = "setup" /\ stage' = "compute" /\ todo = {}
      /\ UNCHANGED <<program, taskId, running, todo, ownFresh, instrs, sourceKey,
                     invocation, latest>>
  BY DEF RecordVersions
<1>1. versions' = versions
  BY DEF RecordVersions, recordFreshPartsListVersions, Instr
<1>2. heap' = heap
  <2>1. heap' = [heap EXCEPT !.fresh = heap.fresh \cup {mine(n) : n \in Lps}]
    BY DEF RecordVersions, recordFreshPartsListVersions, Instr, KeyInv, HeapTypeOK, HeapType
  <2>2. heap.fresh \cup {mine(n) : n \in Lps} = heap.fresh
    BY <1>0 DEF DataInv, MineOK
  <2> QED BY <2>1, <2>2 DEF KeyInv, HeapTypeOK, HeapType
<1>3. VersionsOK'
  <2> SUFFICES ASSUME NEW o \in Objects, NEW k \in Keys PROVE VersionOK(o, k)'
    BY DEF VersionsOK
  <2>1. VersionOK(o, k)
    BY DEF DataInv, VersionsOK
  <2>2. versions[o][k] # NoList => (UpToDate(o, k)' <=> UpToDate(o, k))
    BY RecordUpToDate
  <2> QED BY <1>0, <1>1, <1>2, <2>1, <2>2 DEF VersionOK
<1>4. CountsOK' /\ DistinctBuffers'
  BY <1>0, <1>1, <1>2 DEF DataInv, CountsOK, Refers, References, DistinctBuffers
<1>5. UntouchedPristine'
  BY <1>0, <1>1, <1>2 DEF DataInv, UntouchedPristine, Untouched, Pristine, Refers
<1>6. MineOK'
  BY <1>0, <1>1, <1>2 DEF DataInv, MineOK, mine
<1>7. AllocationsOK'
  BY <1>0, <1>1, <1>2 DEF DataInv, AllocationsOK, InSetup, Allocation, Instr
<1>8. MappingsOK' /\ LatestOK' /\ IsDisciplined(program)'
  BY <1>0, <1>2 DEF DataInv, MappingsOK, LatestOK
<1> QED BY <1>3, <1>4, <1>5, <1>6, <1>7, <1>8 DEF DataInv

\* ... and so does recording those of a new array.
LEMMA RecordNewData ==
  ASSUME KeyInv, DataInv, RecordVersions, IsNew(Instr)
  PROVE  DataInv'
<1>0. /\ stage = "setup" /\ stage' = "compute" /\ todo = {}
      /\ UNCHANGED <<program, taskId, running, todo, ownFresh, instrs, sourceKey,
                     invocation, latest>>
      /\ running \in Envs /\ sourceKey[running] = taskId /\ taskId \in Objects
      /\ \A f \in Envs \ {running} : sourceKey[f] # taskId
      /\ RecordEffects
  BY ActiveFacts, RecordKeys DEF RecordVersions, KeyInv, InstrsOK
<1>1. heap' = heap
  BY DEF RecordVersions, initiateVersionManagement, Instr
<1> DEFINE New(o, k) == o = taskId /\ k[1] = running
<1>2. ASSUME NEW o \in Objects, NEW k \in Keys, New(o, k)
      PROVE  /\ versions[o][k] = NoList /\ versions'[o][k] = mine(k[2])
             /\ k[2] \in Lps /\ mine(k[2]) \in Lists
             /\ k \in freshKeys'[o]
  <2>1. k[1] \in Envs /\ k[2] \in Lps /\ k = <<k[1], k[2]>>
    BY Tuples
  <2>2. ~Registered(running, k[2])
    BY <1>0 DEF Registered, InSetup, IsNew
  <2>3. versions[o][<<running, k[2]>>] = NoList
    BY <1>0, <2>1, <2>2 DEF KeyInv, KeysExact
  <2>4. versions'[o][k] = mine(k[2])
    BY <1>0, <1>2 DEF RecordEffects
  <2>5. k \in freshKeys'[o]
    BY <1>0, <1>2, <2>1 DEF RecordEffects, KeysOf
  <2> QED BY <1>0, <1>2, <2>1, <2>3, <2>4, <2>5, ActiveFacts
<1>3. ASSUME NEW o \in Objects, NEW k \in Keys, ~New(o, k)
      PROVE  versions'[o][k] = versions[o][k]
  BY <1>0, <1>3 DEF RecordEffects
<1>4. ASSUME NEW n \in Lps
      PROVE  NewReady(mine(n)) /\ heap.config[mine(n)] \in program.configs[running]
  BY <1>0 DEF DataInv, MineOK
<1>5. \A o \in Objects, k \in Keys : versions[o][k] # NoList => ~New(o, k)
  BY <1>2
<1> HIDE DEF New
<1>6. ASSUME NEW o \in Objects, NEW k \in Keys, versions'[o][k] # NoList
      PROVE  New(o, k) \/ versions[o][k] # NoList
  BY <1>3, <1>6
<1>7. VersionsOK'
  <2> SUFFICES ASSUME NEW o \in Objects, NEW k \in Keys, versions'[o][k] # NoList
               PROVE  VersionOK(o, k)'
    BY DEF VersionsOK, VersionOK
  <2>1. CASE New(o, k)
    <3>1. PICK j \in Lists : j = mine(k[2]) /\ j = versions'[o][k]
      BY <1>2, <2>1
    <3>2. NewReady(j) /\ heap.config[j] \in program.configs[k[1]] /\ o = taskId
      BY <1>2, <1>4, <2>1, <3>1 DEF New
    <3>3. UpToDate(o, k)'
      BY <1>2, <2>1 DEF UpToDate
    <3>4. j # NoList
      BY Tuples
    <3> QED BY <1>0, <1>1, <3>1, <3>2, <3>3, <3>4 DEF VersionOK, NewReady
  <2>2. CASE ~New(o, k)
    <3>1. versions'[o][k] = versions[o][k]
      BY <1>3, <2>2
    <3>2. VersionOK(o, k)
      BY DEF DataInv, VersionsOK
    <3>3. UpToDate(o, k)' <=> UpToDate(o, k)
      BY <3>1, RecordUpToDate
    <3> QED BY <1>0, <1>1, <3>1, <3>2, <3>3 DEF VersionOK
  <2> QED BY <2>1, <2>2
<1>8. ASSUME NEW n \in Lps, NEW j \in Lists, j = mine(n)
      PROVE  heap.referenceCount[j] = Cardinality(References(j)')
  <2>1. j = mine(n)
    BY <1>8
  <2>2. ~Refers(j) /\ heap.referenceCount[j] = 1
    BY <1>4, <2>1 DEF NewReady
  <2>3. <<running, n>> \in Keys
    BY <1>0, Tuples
  <2>4. \A o \in Objects, k \in Keys :
          versions'[o][k] = j <=> o = taskId /\ k = <<running, n>>
    <3> SUFFICES ASSUME NEW o \in Objects, NEW k \in Keys
                 PROVE  versions'[o][k] = j <=> o = taskId /\ k = <<running, n>>
      OBVIOUS
    <3>1. k = <<k[1], k[2]>>
      BY Tuples
    <3>2. CASE New(o, k)
      <4>1. versions'[o][k] = mine(k[2])
        BY <1>2, <3>2
      <4>2. mine(k[2]) = mine(n) <=> k[2] = n
        BY DEF mine
      <4> QED BY <2>1, <3>1, <3>2, <4>1, <4>2 DEF New
    <3>3. CASE ~New(o, k)
      <4>1. versions'[o][k] # j
        BY <1>3, <2>2, <3>3 DEF Refers
      <4> QED BY <3>3, <4>1 DEF New
    <3> QED BY <3>2, <3>3
  <2>5. References(j)' = {<<taskId, <<running, n>>>>}
    <3>1. ASSUME NEW p \in Objects \X Keys
          PROVE  versions'[p[1]][p[2]] = j <=> p = <<taskId, <<running, n>>>>
      <4>1. p[1] \in Objects /\ p[2] \in Keys /\ p = <<p[1], p[2]>>
        OBVIOUS
      <4> QED BY <2>4, <4>1
    <3>2. <<taskId, <<running, n>>>> \in Objects \X Keys
      BY <1>0, <2>3
    <3> QED BY <3>1, <3>2 DEF References
  <2> QED BY <2>2, <2>5, FS_Singleton
<1>9. CountsOK'
  <2> SUFFICES ASSUME NEW j \in Lists, Refers(j)'
               PROVE  heap'.referenceCount[j] = Cardinality(References(j)')
    BY DEF CountsOK
  <2>1. CASE \E n \in Lps : j = mine(n)
    BY <1>1, <1>8, <2>1
  <2>2. CASE \A n \in Lps : j # mine(n)
    <3>0. j # NoList
      BY Tuples
    <3>1. \A o \in Objects, k \in Keys : versions'[o][k] = j <=> versions[o][k] = j
      BY <1>2, <1>3, <2>2, <3>0
    <3>2. References(j)' = References(j)
      <4>1. ASSUME NEW p \in Objects \X Keys
            PROVE  versions'[p[1]][p[2]] = j <=> versions[p[1]][p[2]] = j
        BY <3>1
      <4> QED BY <4>1 DEF References
    <3>3. Refers(j)
      BY <3>1 DEF Refers
    <3> QED BY <1>1, <3>2, <3>3 DEF DataInv, CountsOK
  <2> QED BY <2>1, <2>2
<1>10. ASSUME NEW o1 \in Objects, NEW k1 \in Keys, New(o1, k1),
              NEW o2 \in Objects, NEW k2 \in Keys, ~New(o2, k2), versions'[o2][k2] # NoList
       PROVE  /\ heap.buffer[versions'[o1][k1]] # heap.buffer[versions'[o2][k2]]
              /\ versions'[o1][k1] # versions'[o2][k2]
  <2>1. PICK j \in Lists : j = mine(k1[2]) /\ versions'[o1][k1] = j /\ NewReady(j)
    BY <1>2, <1>4, <1>10
  <2>2. PICK g \in Lists : g = versions[o2][k2] /\ versions'[o2][k2] = g
    BY <1>3, <1>10 DEF KeyInv, TypeOK
  <2>3. Refers(g)
    BY <2>2 DEF Refers
  <2> QED BY <2>1, <2>2, <2>3 DEF NewReady
<1>11. DistinctBuffers'
  <2> SUFFICES ASSUME NEW o1 \in Objects, NEW o2 \in Objects, NEW k1 \in Keys, NEW k2 \in Keys,
                      versions'[o1][k1] # NoList, versions'[o2][k2] # NoList
               PROVE  /\ heap.buffer[versions'[o1][k1]] = heap.buffer[versions'[o2][k2]]
                           => versions'[o1][k1] = versions'[o2][k2]
                      /\ versions'[o1][k1] = versions'[o2][k2]
                           => o1 = o2 /\ (Disjoint(program) => k1 = k2)
    BY <1>0, <1>1 DEF DistinctBuffers, Disjoint
  <2>1. CASE New(o1, k1) /\ New(o2, k2)
    <3>1. /\ versions'[o1][k1] = mine(k1[2]) /\ versions'[o2][k2] = mine(k2[2])
          /\ k1[2] \in Lps /\ k2[2] \in Lps
      BY <1>2, <2>1
    <3>2. heap.buffer[mine(k1[2])] = mine(k1[2]) /\ heap.buffer[mine(k2[2])] = mine(k2[2])
      BY <1>4, <3>1 DEF NewReady
    <3>3. mine(k1[2]) = mine(k2[2]) => k1[2] = k2[2]
      BY DEF mine
    <3>4. k1 = <<k1[1], k1[2]>> /\ k2 = <<k2[1], k2[2]>>
      BY Tuples
    <3>5. o1 = o2 /\ k1[1] = k2[1]
      BY <2>1 DEF New
    <3> QED BY <3>1, <3>2, <3>3, <3>4, <3>5
  <2>2. CASE New(o1, k1) /\ ~New(o2, k2)
    BY <1>10, <2>2
  <2>3. CASE ~New(o1, k1) /\ New(o2, k2)
    BY <1>10, <2>3
  <2>4. CASE ~New(o1, k1) /\ ~New(o2, k2)
    <3>1. versions'[o1][k1] = versions[o1][k1] /\ versions'[o2][k2] = versions[o2][k2]
      BY <1>3, <2>4
    <3>2. DistinctBuffers
      BY DEF DataInv
    <3>3. versions[o1][k1] # NoList /\ versions[o2][k2] # NoList
      BY <3>1
    <3>4. /\ heap.buffer[versions[o1][k1]] = heap.buffer[versions[o2][k2]]
               => versions[o1][k1] = versions[o2][k2]
          /\ versions[o1][k1] = versions[o2][k2]
               => o1 = o2 /\ (Disjoint(program) => k1 = k2)
      BY ONLY <3>2, <3>3 DEF DistinctBuffers
    <3> QED BY <3>1, <3>4
  <2> QED BY <2>1, <2>2, <2>3, <2>4
<1>12. UntouchedPristine'
  <2> SUFFICES ASSUME NEW j \in Lists, Untouched(j)' PROVE Pristine(j)'
    BY DEF UntouchedPristine
  <2>1. j[1] > taskId
    BY <1>0 DEF Untouched
  <2>2. Pristine(j)
    BY <2>1 DEF DataInv, UntouchedPristine, Untouched
  <2>3. \A n \in Lps : j # mine(n)
    <3>1. \A n \in Lps : mine(n)[1] = taskId
      BY DEF mine
    <3>2. j[1] # taskId
      BY <1>0, <2>1 DEF Objects
    <3> QED BY <3>1, <3>2
  <2>4. ~Refers(j)'
    <3>1. ASSUME NEW o \in Objects, NEW k \in Keys PROVE versions'[o][k] # j
      <4>1. versions[o][k] # j
        BY <2>2 DEF Pristine, Refers
      <4> QED BY <1>2, <1>3, <2>3, <4>1
    <3> QED BY <3>1 DEF Refers
  <2> QED BY <1>1, <2>2, <2>4 DEF Pristine
<1>13. ASSUME NEW n \in Lps PROVE versions'[taskId][<<running, n>>] = mine(n)
  <2>1. <<running, n>> \in Keys /\ New(taskId, <<running, n>>)
    BY <1>0, Tuples DEF New
  <2> QED BY <1>0, <1>2, <2>1
<1>14. MineOK'
  BY <1>0, <1>1, <1>13 DEF MineOK, mine
<1>15. AllocationsOK'
  <2> SUFFICES ASSUME NEW f \in Envs, NEW n \in Lps, sourceKey[f] # 0
               PROVE  heap.config[Allocation(f, n)]
                        = heap.config[versions'[sourceKey[f]][<<f, n>>]]
    BY <1>0, <1>1 DEF AllocationsOK, Allocation
  <2>1. CASE f = running
    <3>1. Allocation(f, n) = mine(n)
      BY <1>0, <2>1 DEF KeyInv, TaskOK, Allocation, mine
    <3> QED BY <1>0, <1>13, <2>1, <3>1
  <2>2. CASE f # running
    <3>1. sourceKey[f] \in Objects /\ sourceKey[f] # taskId /\ <<f, n>> \in Keys
      BY <1>0, <2>2, SourceType, Tuples DEF KeyInv
    <3>2. versions'[sourceKey[f]][<<f, n>>] = versions[sourceKey[f]][<<f, n>>]
      BY <1>3, <3>1 DEF New
    <3>3. ~InSetup(f)
      BY <2>2 DEF InSetup
    <3> QED BY <3>2, <3>3 DEF DataInv, AllocationsOK
  <2> QED BY <2>1, <2>2
<1>16. MappingsOK' /\ LatestOK' /\ IsDisciplined(program)'
  BY <1>0, <1>1 DEF DataInv, MappingsOK, LatestOK
<1> QED BY <1>7, <1>9, <1>11, <1>12, <1>14, <1>15, <1>16 DEF DataInv

\* postprocessProgramEnv keeps DataInv.
LEMMA RecordData ==
  ASSUME KeyInv, DataInv, RecordVersions
  PROVE  DataInv'
BY RecordKeptData, RecordNewData

\* What the end of a task that changes its array does to the heap.
EndHeap ==
  LET s == sourceKey[running]
  IN  /\ heap'.config = heap.config /\ heap'.buffer = heap.buffer
      /\ heap'.referenceCount = heap.referenceCount
      /\ heap'.segmentMapping = heap.segmentMapping
      /\ heap'.deleted = heap.deleted /\ heap'.freed = heap.freed
      /\ \A b \in Lists :
           heap'.value[b] = IF \E n \in Lps : b = heap.buffer[versions[s][<<running, n>>]]
                            THEN taskId ELSE heap.value[b]
      /\ \A l \in Lists :
           l \in heap'.fresh <=> \/ l \in heap.fresh /\ \A k \in freshKeys[s] : versions[s][k] # l
                                 \/ \E n \in Lps : versions[s][<<running, n>>] = l

\* markNonMatchingVersionsStale after the computation has these effects.
LEMMA EndHeapEffects ==
  ASSUME KeyInv, DataInv, EndTask, running \in program.updates
  PROVE  EndHeap /\ freshKeys'[sourceKey[running]] = KeysOf(running)
<1> DEFINE e == running
           o == sourceKey[e]
           written == {heap.buffer[mine(n)] : n \in Lps}
           value == [b \in Lists |-> IF b \in written THEN taskId ELSE heap.value[b]]
           h == [heap EXCEPT !.value = value]
           s == markNonMatchingVersionsStale(h, o, e)
           Of(keys) == {versions[o][k] : k \in keys}
           fresh == (h.fresh \ Of(freshKeys[o])) \cup Of(freshKeys[o] \cap KeysOf(e))
<1>1. e \in Envs /\ o \in Objects /\ taskId \in Int /\ stage = "compute" /\ todo = {}
  BY ActiveFacts DEF EndTask, KeyInv, TypeOK, TaskOK
<1>2. heap \in HeapType
  BY DEF KeyInv, HeapTypeOK
<1>3. heap' = s.heap
  BY <1>2 DEF EndTask, HeapType
<1>4. h \in HeapType
  <2>1. value \in [Lists -> Int]
    <3> HIDE DEF written
    <3> QED BY <1>1, <1>2 DEF HeapType
  <2> HIDE DEF value
  <2> QED BY <1>2, <2>1 DEF HeapType
<1>5. /\ h.config = heap.config /\ h.buffer = heap.buffer /\ h.fresh = heap.fresh
      /\ h.referenceCount = heap.referenceCount
      /\ h.segmentMapping = heap.segmentMapping
      /\ h.deleted = heap.deleted /\ h.freed = heap.freed /\ h.value = value
  <2> HIDE DEF value
  <2> QED BY <1>2 DEF HeapType
<1>6. \A k \in freshKeys[o] : versions[o][k] # NoList
  BY <1>1 DEF KeyInv, FreshKeysOK
<1> HIDE DEF h, value
<1>7. MarkedFrom(s, h, o, e)
  <2>1. TypeOK
    BY DEF KeyInv
  <2> QED BY <1>1, <1>4, <1>6, <2>1, Marked
<1>8. heap' = [h EXCEPT !.fresh = fresh]
  BY <1>3, <1>7 DEF MarkedFrom
<1>9. \A n \in Lps : <<e, n>> \in freshKeys[o]
  BY <1>1 DEF KeyInv, FreshKeysOK
<1>10. freshKeys[o] \cap KeysOf(e) = KeysOf(e)
  BY <1>9 DEF KeysOf
<1>11. freshKeys'[o] = KeysOf(e)
  BY <1>1, <1>10, EndKeys DEF EndEffects
<1>12. \A n \in Lps : heap.buffer[mine(n)] = heap.buffer[versions[o][<<e, n>>]]
  BY <1>1 DEF DataInv, MineOK
<1>13. \A b \in Lists :
         value[b] = IF \E n \in Lps : b = heap.buffer[versions[o][<<e, n>>]]
                    THEN taskId ELSE heap.value[b]
  BY <1>12 DEF value
<1>14. \A l \in Lists :
         l \in fresh <=> \/ l \in heap.fresh /\ \A k \in freshKeys[o] : versions[o][k] # l
                         \/ \E n \in Lps : versions[o][<<e, n>>] = l
  <2>1. \A l : l \in Of(freshKeys[o]) <=> \E k \in freshKeys[o] : versions[o][k] = l
    OBVIOUS
  <2>2. \A l : l \in Of(KeysOf(e)) <=> \E n \in Lps : versions[o][<<e, n>>] = l
    <3>1. Of(KeysOf(e)) = {versions[o][<<e, n>>] : n \in Lps}
      <4>1. \A k \in KeysOf(e) : \E n \in Lps : k = <<e, n>>
        BY <1>1, Tuples
      <4>2. \A n \in Lps : <<e, n>> \in KeysOf(e)
        BY DEF KeysOf
      <4> QED BY <4>1, <4>2
    <3> QED BY <3>1
  <2>3. fresh = (heap.fresh \ Of(freshKeys[o])) \cup Of(KeysOf(e))
    BY <1>5, <1>10
  <2> HIDE DEF fresh, Of
  <2> QED BY <2>1, <2>2, <2>3
<1> HIDE DEF fresh, s
<1>15. /\ heap'.config = h.config /\ heap'.buffer = h.buffer /\ heap'.fresh = fresh
       /\ heap'.referenceCount = h.referenceCount
       /\ heap'.segmentMapping = h.segmentMapping
       /\ heap'.deleted = h.deleted /\ heap'.freed = h.freed /\ heap'.value = h.value
  BY <1>4, <1>8 DEF HeapType
<1> QED BY <1>5, <1>11, <1>13, <1>14, <1>15 DEF EndHeap

\* The end of a task that has changed the array keeps DataInv: no version it flags
\* stale shares a list with one it keeps fresh ...
LEMMA EndUpdatedData ==
  ASSUME KeyInv, SteadyInv, DataInv, EndTask, running \in program.updates
  PROVE  DataInv'
<1> DEFINE e == running
           s == sourceKey[e]
<1>0. /\ stage = "compute" /\ stage' = "idle" /\ running' = None
      /\ UNCHANGED <<program, taskId, todo, sourceKey, invocation, versions>>
      /\ e \in Envs /\ s \in Objects /\ EndEffects /\ taskId \in Objects
  BY ActiveFacts, EndKeys DEF EndTask
<1>1. /\ heap'.config = heap.config /\ heap'.buffer = heap.buffer
      /\ heap'.referenceCount = heap.referenceCount
      /\ heap'.segmentMapping = heap.segmentMapping
      /\ heap'.deleted = heap.deleted /\ heap'.freed = heap.freed
      /\ \A b \in Lists :
           heap'.value[b] = IF \E n \in Lps : b = heap.buffer[versions[s][<<e, n>>]]
                            THEN taskId ELSE heap.value[b]
      /\ \A l \in Lists :
           l \in heap'.fresh <=> \/ l \in heap.fresh /\ \A k \in freshKeys[s] : versions[s][k] # l
                                 \/ \E n \in Lps : versions[s][<<e, n>>] = l
  BY EndHeapEffects DEF EndHeap
<1>2. /\ freshKeys'[s] = KeysOf(e)
      /\ \A o \in Objects : o # s => freshKeys'[o] = freshKeys[o]
      /\ latest'[s] = taskId
      /\ \A o \in Objects : o # s => latest'[o] = latest[o]
  BY <1>0, EndHeapEffects DEF EndEffects
<1>3. \A o, k : /\ UpToDate(o, k)' <=> k \in freshKeys'[o]
                /\ UpToDate(o, k) <=> k \in freshKeys[o]
  BY <1>0 DEF UpToDate, InSetup
<1>4. ASSUME NEW o1 \in Objects, NEW o2 \in Objects, NEW k1 \in Keys, NEW k2 \in Keys,
             versions[o1][k1] # NoList, versions[o2][k2] # NoList
      PROVE  /\ heap.buffer[versions[o1][k1]] = heap.buffer[versions[o2][k2]]
                  => versions[o1][k1] = versions[o2][k2]
             /\ versions[o1][k1] = versions[o2][k2]
                  => o1 = o2 /\ (Disjoint(program) => k1 = k2)
  <2>1. DistinctBuffers
    BY DEF DataInv
  <2> QED BY ONLY <1>4, <2>1 DEF DistinctBuffers
<1>5. ASSUME NEW n \in Lps
      PROVE  <<e, n>> \in Keys /\ <<e, n>> \in KeysOf(e) /\ versions[s][<<e, n>>] # NoList
  <2>1. <<e, n>> \in freshKeys[s]
    BY <1>0 DEF KeyInv, FreshKeysOK
  <2> QED BY <1>0, <2>1, Tuples DEF KeyInv, FreshKeysOK
<1>6. VersionsOK'
  <2> SUFFICES ASSUME NEW o \in Objects, NEW k \in Keys, versions[o][k] # NoList
               PROVE  VersionOK(o, k)'
    BY <1>0 DEF VersionsOK, VersionOK
  <2>1. PICK j \in Lists : j = versions[o][k]
    BY DEF KeyInv, TypeOK
  <2>2. VersionOK(o, k)
    BY DEF DataInv, VersionsOK
  <2>3. PICK b \in Lists : b = heap.buffer[j]
    BY <2>1, <2>2 DEF VersionOK, KeyInv, HeapTypeOK, HeapType
  <2>4. k[1] \in Envs /\ k[2] \in Lps /\ k = <<k[1], k[2]>>
    BY Tuples
  <2>5. /\ j \in heap'.fresh <=> k \in freshKeys'[o]
        /\ k \in freshKeys'[o] => heap'.value[b] = latest'[o]
    <3>1. CASE o = s /\ k[1] = e
      <4>1. k \in freshKeys'[o]
        BY <1>2, <1>5, <2>4, <3>1
      <4>2. j \in heap'.fresh /\ heap'.value[b] = taskId
        BY <1>1, <2>1, <2>3, <2>4, <3>1
      <4> QED BY <1>2, <3>1, <4>1, <4>2
    <3>2. CASE o = s /\ k[1] # e
      <4>1. k \notin freshKeys'[o]
        BY <1>2, <3>2 DEF KeysOf
      <4>2. sourceKey[k[1]] = s
        <5>1. \A f \in Envs, m \in Lps : versions[o][<<f, m>>] # NoList => sourceKey[f] = o
          BY <1>0 DEF KeyInv, KeysExact
        <5> QED BY <2>4, <3>2, <5>1
      <4>3. program.type[e] # "OUT"
        BY <1>0, <2>4, <3>2, <4>2 DEF SteadyInv, OutAlone
      <4>4. Disjoint(program)
        BY <4>3 DEF DataInv, IsDisciplined, OnlyOut
      <4>5. \A n \in Lps : versions[s][<<e, n>>] # j
        <5> SUFFICES ASSUME NEW n \in Lps, versions[s][<<e, n>>] = j PROVE FALSE
          OBVIOUS
        <5>1. k = <<e, n>>
          BY <1>0, <1>4, <1>5, <2>1, <3>2, <4>4
        <5> QED BY <3>2, <5>1
      <4>6. j \in heap.fresh => k \in freshKeys[s]
        BY <1>3, <2>1, <2>2, <3>2 DEF VersionOK
      <4>7. j \notin heap'.fresh
        BY <1>1, <2>1, <3>2, <4>5, <4>6
      <4> QED BY <4>1, <4>7
    <3>3. CASE o # s
      <4>1. \A k2 \in Keys : versions[s][k2] # j
        BY <1>0, <1>4, <2>1, <3>3
      <4>2. \A n \in Lps : b # heap.buffer[versions[s][<<e, n>>]]
        <5> SUFFICES ASSUME NEW n \in Lps, b = heap.buffer[versions[s][<<e, n>>]] PROVE FALSE
          OBVIOUS
        <5>1. PICK k2 \in Keys : k2 = <<e, n>> /\ versions[s][k2] # NoList
          BY <1>5
        <5>2. /\ heap.buffer[versions[s][k2]] = heap.buffer[versions[o][k]]
              /\ versions[o][k] # NoList
          BY <2>1, <2>3, <5>1
        <5>3. versions[s][k2] = versions[o][k]
          BY ONLY <1>0, <1>4, <5>1, <5>2, k \in Keys, o \in Objects
        <5> QED BY <2>1, <4>1, <5>3
      <4>3. freshKeys[s] \in SUBSET Keys
        BY <1>0 DEF KeyInv, TypeOK
      <4>4. (j \in heap'.fresh <=> j \in heap.fresh) /\ heap'.value[b] = heap.value[b]
        BY <1>1, <1>5, <4>1, <4>2, <4>3
      <4>5. /\ j \in heap.fresh <=> k \in freshKeys[o]
            /\ k \in freshKeys[o] => heap.value[b] = latest[o]
        BY <1>3, <2>1, <2>2, <2>3 DEF VersionOK
      <4> QED BY <1>2, <3>3, <4>4, <4>5
    <3> QED BY <3>1, <3>2, <3>3
  <2>6. /\ j # NoList /\ j \notin heap.deleted /\ b # NoList /\ b \notin heap.freed
        /\ heap.config[b] = heap.config[j]
        /\ heap.config[j] \in program.configs[k[1]]
    BY <2>1, <2>2, <2>3 DEF VersionOK
  <2> QED BY <1>0, <1>1, <1>3, <2>1, <2>3, <2>5, <2>6 DEF VersionOK
<1>7. CountsOK'
  BY <1>0, <1>1 DEF DataInv, CountsOK, Refers, References
<1>8. DistinctBuffers'
  BY <1>0, <1>1 DEF DataInv, DistinctBuffers, Disjoint
<1>9. UntouchedPristine'
  <2> SUFFICES ASSUME NEW j \in Lists, Untouched(j)' PROVE Pristine(j)'
    BY DEF UntouchedPristine
  <2>1. Pristine(j)
    BY <1>0 DEF DataInv, UntouchedPristine, Untouched
  <2>2. j \in heap'.fresh
    <3>1. freshKeys[s] \in SUBSET Keys
      BY <1>0 DEF KeyInv, TypeOK
    <3>2. \A k \in freshKeys[s] : versions[s][k] # j
      BY <1>0, <2>1, <3>1 DEF Pristine, Refers
    <3> QED BY <1>1, <2>1, <3>2 DEF Pristine
  <2> QED BY <1>0, <1>1, <2>1, <2>2 DEF Pristine, Refers
<1>10. MineOK'
  BY <1>0 DEF MineOK
<1>11. AllocationsOK'
  BY <1>0, <1>1 DEF DataInv, AllocationsOK, InSetup, Allocation
<1>12. MappingsOK' /\ IsDisciplined(program)'
  BY <1>0, <1>1 DEF DataInv, MappingsOK
<1>13. LatestOK'
  <2>1. ~(s > taskId)
    BY <1>0 DEF KeyInv, TypeOK
  <2> QED BY <1>0, <1>2, <2>1 DEF DataInv, LatestOK
<1> QED BY <1>6, <1>7, <1>8, <1>9, <1>10, <1>11, <1>12, <1>13 DEF DataInv

\* ... and so does the end of any other task.
LEMMA EndData ==
  ASSUME KeyInv, SteadyInv, DataInv, EndTask
  PROVE  DataInv'
<1>1. CASE running \in program.updates
  BY <1>1, EndUpdatedData
<1>2. CASE running \notin program.updates
  <2>1. /\ stage = "compute" /\ stage' = "idle"
        /\ UNCHANGED <<program, taskId, todo, sourceKey, invocation, versions, heap,
                       freshKeys, latest>>
    BY <1>2 DEF EndTask
  <2>2. \A o, k : UpToDate(o, k)' <=> UpToDate(o, k)
    BY <2>1 DEF UpToDate, InSetup
  <2>3. VersionsOK'
    <3>1. ASSUME NEW o \in Objects, NEW k \in Keys PROVE VersionOK(o, k)'
      <4>1. VersionOK(o, k)
        BY DEF DataInv, VersionsOK
      <4> QED BY <2>1, <2>2, <4>1 DEF VersionOK
    <3> QED BY <3>1 DEF VersionsOK
  <2>4. CountsOK' /\ DistinctBuffers'
    BY <2>1 DEF DataInv, CountsOK, Refers, References, DistinctBuffers
  <2>5. UntouchedPristine'
    BY <2>1 DEF DataInv, UntouchedPristine, Untouched, Pristine, Refers
  <2>6. MineOK'
    BY <2>1 DEF MineOK
  <2>7. AllocationsOK'
    BY <2>1 DEF DataInv, AllocationsOK, InSetup, Allocation
  <2>8. MappingsOK' /\ LatestOK' /\ IsDisciplined(program)'
    BY <2>1 DEF DataInv, MappingsOK, LatestOK
  <2> QED BY <2>3, <2>4, <2>5, <2>6, <2>7, <2>8 DEF DataInv
<1> QED BY <1>1, <1>2

\* DataInv holds at first.
LEMMA InitData ==
  ASSUME Init, IsDisciplined(program)
  PROVE  DataInv
<1>1. /\ taskId = 0 /\ stage = "idle" /\ heap = EmptyHeap
      /\ versions = [o \in Objects |-> [k \in Keys |-> NoList]]
      /\ latest = [o \in Objects |-> 0]
      /\ sourceKey = [e \in Envs |-> 0]
  BY DEF Init
<1>2. \A o \in Objects, k \in Keys : versions[o][k] = NoList
  BY <1>1
<1>3. \A l \in Lists : ~Refers(l)
  BY <1>2, Tuples DEF Refers
<1>4. VersionsOK /\ CountsOK /\ DistinctBuffers
  BY <1>2, <1>3 DEF VersionsOK, VersionOK, CountsOK, DistinctBuffers
<1>5. \A l \in Lists : Pristine(l)
  BY <1>1, <1>3, Tuples DEF EmptyHeap, Pristine
<1>6. MappingsOK
  BY <1>1 DEF EmptyHeap, MappingsOK
<1> QED BY <1>1, <1>4, <1>5, <1>6 DEF DataInv, UntouchedPristine, MineOK, AllocationsOK, LatestOK

\* Every step keeps DataInv.
LEMMA DataStep ==
  ASSUME KeyInv, SteadyInv, DataInv, [Next]_vars
  PROVE  DataInv'
<1>1. ASSUME NEW e \in Envs, BindInput(e) PROVE DataInv'
  BY <1>1, BindData
<1>2. ASSUME NEW e \in Envs, StartTask(e) PROVE DataInv'
  BY <1>2, StartData
<1>3. ASSUME NEW dest \in Envs, NEW src \in Envs, Assign(dest, src) PROVE DataInv'
  BY <1>3, BindData
<1>4. ASSUME NEW n \in Lps, SetUpPartsList(n) PROVE DataInv'
  BY <1>4, SetUpData
<1>5. CASE RecordVersions
  BY <1>5, RecordData
<1>6. CASE EndTask
  BY <1>6, EndData
<1>7. CASE UNCHANGED vars
  BY <1>7, UnchangedData DEF vars
<1> QED BY <1>1, <1>2, <1>3, <1>4, <1>5, <1>6, <1>7 DEF Next

\* Of every disciplined program: each version has memory of its own, and if it is up to
\* date the last content of its object.
THEOREM DataInvariance == Spec /\ IsDisciplined(program) => [](SteadyInv /\ DataInv)
<1>1. Init /\ IsDisciplined(program) => SteadyInv /\ DataInv
  BY InitSteady, InitData DEF IsDisciplined
<1>2. KeyInv /\ SteadyInv /\ DataInv /\ [Next]_vars => SteadyInv' /\ DataInv'
  BY SteadyStep, DataStep
<1> QED BY <1>1, <1>2, KeyInvariance, PTL DEF Spec

\* What can be read from a version that is up to date.
LEMMA UpToDateContent ==
  ASSUME KeyInv, DataInv, NEW o \in Objects, NEW k \in Keys, versions[o][k] # NoList,
         UpToDate(o, k)
  PROVE  Content(heap, versions[o][k]) = latest[o]
<1>1. VersionOK(o, k)
  BY DEF DataInv, VersionsOK
<1> QED BY <1>1 DEF VersionOK, Content

\* A task computes on memory nobody has freed, with the result of the last task that
\* changed its array (StaleRefreshInstruction and DataTransferInstruction::setupPartsList).
THEOREM ComputesOnLatest == Spec /\ IsDisciplined(program) => []ReadsLatest
<1>1. KeyInv /\ DataInv => ReadsLatest
  <2> SUFFICES ASSUME KeyInv, DataInv, stage = "compute", NEW n \in Lps
               PROVE  Content(heap, mine(n)) = latest[sourceKey[running]]
    BY DEF ReadsLatest
  <2> DEFINE o == sourceKey[running]
             k == <<running, n>>
  <2>1. running \in Envs /\ o \in Objects /\ k \in Keys /\ todo = {}
    BY ActiveFacts, Tuples DEF KeyInv, TaskOK
  <2>2. k \in freshKeys[o] /\ versions[o][k] # NoList
    BY <2>1 DEF KeyInv, FreshKeysOK
  <2>3. Content(heap, versions[o][k]) = latest[o]
    BY <2>1, <2>2, UpToDateContent DEF UpToDate
  <2>4. heap.buffer[mine(n)] = heap.buffer[versions[o][k]]
    BY <2>1 DEF DataInv, MineOK
  <2>5. heap.config[mine(n)] = heap.config[versions[o][k]]
    <3>1. Allocation(running, n) = mine(n) /\ o # 0
      BY DEF KeyInv, TaskOK, Allocation, mine
    <3> QED BY <2>1, <3>1 DEF DataInv, AllocationsOK, InSetup
  <2>6. Content(heap, mine(n)) = Content(heap, versions[o][k])
    BY <2>4, <2>5 DEF Content
  <2> QED BY <2>3, <2>6
<1> QED BY <1>1, KeyInvariance, DataInvariance, PTL

\* Between tasks every object somebody refers to has a fresh version, and all of its fresh
\* versions hold its last content (ObjectVersionManager).
THEOREM FreshHoldLatest == Spec /\ IsDisciplined(program) => []FreshVersions
<1>1. KeyInv /\ SteadyInv /\ DataInv => FreshVersions
  <2> SUFFICES ASSUME KeyInv, SteadyInv, DataInv, stage = "idle", NEW o \in Objects
               PROVE  /\ (\E k \in Keys : versions[o][k] # NoList) => freshKeys[o] # {}
                      /\ \A k \in freshKeys[o] : /\ versions[o][k] # NoList
                                                /\ Content(heap, versions[o][k]) = latest[o]
    BY DEF FreshVersions
  <2>1. \A k : UpToDate(o, k) <=> k \in freshKeys[o]
    BY DEF UpToDate, InSetup
  <2>2. ASSUME NEW k \in Keys, versions[o][k] # NoList PROVE freshKeys[o] # {}
    <3>1. CASE AllUpToDate(o)
      BY <2>1, <2>2, <3>1 DEF AllUpToDate
    <3>2. CASE \E e \in Envs : Anchor(o, e)
      BY <2>1, <3>2, KeysFinite DEF Anchor
    <3> QED BY <3>1, <3>2 DEF SteadyInv, Supplied
  <2>3. ASSUME NEW k \in freshKeys[o]
        PROVE  versions[o][k] # NoList /\ Content(heap, versions[o][k]) = latest[o]
    <3>1. k \in Keys /\ versions[o][k] # NoList
      BY DEF KeyInv, TypeOK, FreshKeysOK
    <3> QED BY <2>1, <3>1, UpToDateContent
  <2> QED BY <2>2, <2>3
<1> QED BY <1>1, KeyInvariance, DataInvariance, PTL

\* The reference count of a parts list is the number of versions that refer to it, and no
\* version refers to memory that is gone (PartsListAttributes::referenceCount).
THEOREM CountsAreReferences == Spec /\ IsDisciplined(program) => []ReferenceCounts
<1>1. KeyInv /\ DataInv => ReferenceCounts
  <2> SUFFICES ASSUME KeyInv, DataInv, NEW o \in Objects, NEW k \in Keys,
                      versions[o][k] # NoList
               PROVE  LET l == versions[o][k]
                      IN  /\ l \notin heap.deleted
                          /\ heap.buffer[l] \notin heap.freed
                          /\ heap.referenceCount[l] = Cardinality(References(l))
    BY DEF ReferenceCounts
  <2>1. versions[o][k] \in Lists /\ Refers(versions[o][k])
    BY DEF KeyInv, TypeOK, Refers
  <2>2. VersionOK(o, k) /\ CountsOK
    BY DEF DataInv, VersionsOK
  <2> QED BY <2>1, <2>2 DEF VersionOK, CountsOK
<1> QED BY <1>1, KeyInvariance, DataInvariance, PTL
=============================================================================
