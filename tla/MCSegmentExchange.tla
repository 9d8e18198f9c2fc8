-------------------------- MODULE MCSegmentExchange ---------------------------
(* Programs with each kind of dependency over three segments, in each mode, *)
(* with the shapes of parts that lead to it; and with two dependencies that *)
(* could get into each other's way.                                         *)
EXTENDS SegmentExchange

Holds(a, b, c) == [s \in Segments |-> CASE s = 0 -> a [] s = 1 -> b [] OTHER -> c]
All == Segments
Anything == 0..5
One(members) == <<[members |-> members, indices |-> Anything]>>
Dep(kind, from, to, members) ==
  [kind |-> kind, from |-> from, to |-> to, confinements |-> One(members)]
Does(do, of) == [do |-> do, of |-> of]
UpdateSendReceive(m, d) == <<Does("update", m), Does("send", d), Does("receive", d)>>

\* A program of one dependency, from memory "a" to memory "b".
Simple(kind, a, b, members, by1, by2) ==
  [memories |-> [a |-> a, b |-> b], interior |-> [a |-> a, b |-> b],
   updaters |-> [a |-> <<by1, by2>>],
   deps |-> <<Dep(kind, "a", "b", members)>>,
   steps |-> UpdateSendReceive("a", 1)]

Whole == {0, 1, 2}
Blocks == Holds({0}, {1}, {2})

Ghost ==
  [memories |-> [a |-> Holds({0, 1, 2}, {1, 2, 3, 4}, {3, 4, 5})],
   interior |-> [a |-> Holds({0, 1}, {2, 3}, {4, 5})],
   updaters |-> [a |-> <<All, All>>],
   deps |-> <<Dep("GhostRegion", "a", "a", All)>>,
   steps |-> UpdateSendReceive("a", 1)]
\* Two LPUs of the upper LPS on each of two segments: a pair of segments shares two confinements.
GhostTwice ==
  [memories |-> [a |-> Holds({0, 1, 2, 3}, {0, 1, 2, 3}, {})],
   interior |-> [a |-> Holds({0, 2}, {1, 3}, {})],
   updaters |-> [a |-> <<All, All>>],
   deps |-> <<[kind |-> "GhostRegion", from |-> "a", to |-> "a",
               confinements |-> <<[members |-> {0, 1}, indices |-> {0, 1}],
                                  [members |-> {0, 1}, indices |-> {2, 3}]>>]>>,
   steps |-> UpdateSendReceive("a", 1)]

Replicated(members, by1, by2) ==
  LET a == [s \in Segments |-> IF s \in members THEN {0} ELSE {}]
  IN [memories |-> [a |-> a], interior |-> [a |-> a], updaters |-> [a |-> <<by1, by2>>],
      deps |-> <<Dep("Replication", "a", "a", All)>>,
      steps |-> UpdateSendReceive("a", 1)]

\* The confinements {0, 1} and {2}.
Twofold(kind, a, b, by) ==
  [Simple(kind, a, b, All, by, by) EXCEPT !.deps[1].confinements =
     <<[members |-> {0, 1}, indices |-> {0, 1}], [members |-> {2}, indices |-> {2}]>>]

\* Replicated data that is brought in step before a segment of another LPS has it.
ReplicationThenUp(by1, by2) ==
  LET a == Holds({}, {0}, {0})
      b == Holds({0}, {}, {})
  IN [memories |-> [a |-> a, b |-> b], interior |-> [a |-> a, b |-> b],
      updaters |-> [a |-> <<by1, by2>>],
      deps |-> <<Dep("Replication", "a", "a", All), Dep("Up", "a", "b", All)>>,
      steps |-> <<Does("update", "a"), Does("send", 1), Does("receive", 1),
                  Does("send", 2), Does("receive", 2)>>]

\* A scalar of which every segment has its own.
Scalar(kind, senders, receivers, by1, by2) ==
  LET x == Holds({0}, {0}, {0})
  IN [memories |-> [x |-> x], interior |-> [x |-> x], updaters |-> [x |-> <<by1, by2>>],
      deps |-> <<[kind |-> kind, from |-> "x", to |-> "x", confinements |-> One(All),
                  senders |-> senders, receivers |-> receivers]>>,
      steps |-> UpdateSendReceive("x", 1)]

GhostThenCross ==
  LET a == Holds({0, 1}, {1, 2}, {2, 0})
  IN [memories |-> [a |-> a, b |-> Holds({1}, {2}, {0})],
      interior |-> [a |-> Blocks, b |-> Holds({1}, {2}, {0})],
      updaters |-> [a |-> <<All, All>>],
      deps |-> <<Dep("GhostRegion", "a", "a", All), Dep("Cross", "a", "b", All)>>,
      steps |-> <<Does("update", "a"), Does("send", 1), Does("send", 2),
                  Does("receive", 1), Does("receive", 2)>>]

MCPrograms ==
  <<Ghost, GhostTwice,
    Replicated({0, 1}, {0}, {1}), Replicated(All, {2}, {1}),
    Simple("Up", Blocks, Holds(Whole, {}, {}), All, All, All),
    Simple("Up", Holds({0}, {1}, {}), Holds({}, {0, 1}, {}), All, {0, 1}, {0, 1}),
    Simple("Up", Holds({}, {0}, {}), Holds({0}, {}, {}), All, {1}, {1}),
    Simple("Up", Holds({0}, {0}, {}), Holds({0}, {}, {}), All, {0}, {1}),
    Twofold("Up", Blocks, Holds({0, 1}, {}, {2}), All),
    Simple("Down", Holds(Whole, {}, {}), Blocks, All, {0}, {0}),
    Simple("Down", Holds({}, Whole, {}), Holds({0, 1}, {2}, {0, 1}), All, {1}, {1}),
    Simple("Down", Holds({0}, {}, {}), Holds({0}, {0}, {0}), All, {0}, {0}),
    Simple("Down", Holds({0}, {0}, {}), Holds({0}, {0}, {0}), All, {1}, {0}),
    Twofold("Down", Holds({0, 1}, {}, {2}), Blocks, {0, 2}),
    Simple("Cross", Holds({0, 1}, {2, 3}, {}), Holds({0, 2}, {1, 3}, {}), All, {0, 1}, {0, 1}),
    Simple("Cross", Blocks, Holds({1}, {2}, {0}), All, All, All),
    Simple("Cross", Holds({0}, {0}, {}), Holds({0}, {0}, {0}), All, {0}, {0}),
    Scalar("ScalarReplica", All, All, {0}, {2}),
    Scalar("ScalarReplica", {0, 1}, {0, 1}, {1}, {0}),
    Scalar("ScalarReplica", {1}, {1}, {1}, {1}),
    Scalar("ScalarUp", All, {0}, {2}, {2}),
    Scalar("ScalarUp", {0, 1}, {0}, {0}, {1}),
    Scalar("ScalarDown", {0}, All, {0}, {0}),
    ReplicationThenUp({1}, {1}),
    GhostThenCross>>
===============================================================================
