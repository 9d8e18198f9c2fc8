------------------------ MODULE MCProgramEnvironment ------------------------
(* Programs of two or three tasks, and the configurations they partition the   *)
(* array with.                                                                 *)
EXTENDS ProgramEnvironment, TLC

CONSTANTS a, b, c, c1, c2, c3, c4

All == Configs \X Configs

\* One segment; no two tasks partition the array alike, and each may change its mind.
Repartition ==
  [type         |-> a :> "OPTIONAL_IN_OUT" @@ b :> "IN_OUT" @@ c :> "IN_OUT",
   updates      |-> {a, b}, rebound |-> {c},
   configs      |-> a :> {c1, c2} @@ b :> {c3} @@ c :> {c4},
   crossSegment |-> {}]

\* Several segments; each task has its own way to partition the array.
Segments ==
  [type         |-> a :> "OPTIONAL_IN_OUT" @@ b :> "IN_OUT" @@ c :> "IN_OUT",
   updates      |-> {a, b, c}, rebound |-> {},
   configs      |-> a :> {c1} @@ b :> {c2} @@ c :> {c3},
   crossSegment |-> All]

\* A task creates the array anew each time; two others only read it, one of them
\* partitioned as the creator does.
Readers ==
  [type         |-> a :> "OUT" @@ b :> "IN_OUT" @@ c :> "IN_OUT",
   updates      |-> {a}, rebound |-> {b, c},
   configs      |-> a :> {c1} @@ b :> {c1, c2} @@ c :> {c1},
   crossSegment |-> {}]

\* Two tasks that partition the array alike and both change it.
Shared ==
  [Readers EXCEPT !.type[a] = "OPTIONAL_IN_OUT", !.updates = {a, b}, !.rebound = {},
                  !.configs = a :> {c1} @@ b :> {c1} @@ c :> {c2}]

\* A task that changes the array is given that of another task, of which it has changed the only
\* other copy.
Rebound == [Repartition EXCEPT !.rebound = {b}]

Disciplined == {Repartition, Segments, Readers}
OnlyShared  == {Shared}
OnlyRebound == {Rebound}

\* The first three are programs the theorems of ProgramEnvironment_proofs are about.
ASSUME DisciplinedAssumption == \A p \in Disciplined : IsDisciplined(p)
=============================================================================
