---------------------------- MODULE MCBehaviorTree ----------------------------
(* Instances of BehaviorTree: small shapes, with every type at every place. *)
EXTENDS BehaviorTree

\* A root over a control node with two leaves and over a leaf.
ShapeNode     == {"r", "a", "a1", "a2", "b"}
ShapeChildren == [r |-> <<"a", "b">>, a |-> <<"a1", "a2">>,
                  a1 |-> <<>>, a2 |-> <<>>, b |-> <<>>]
ShapeParent   == [r |-> "none", a |-> "r", b |-> "r", a1 |-> "a", a2 |-> "a"]

\* A control node, at the root and below it, and its parameter.
Threshold(k, t) == IF k = "Parallel" THEN t ELSE IF k = "Switch" THEN 1 ELSE 0

ControlTrees(roots, inner, leaves) ==
  { [kind  |-> [r |-> k, a |-> l, a1 |-> x, a2 |-> y, b |-> z],
     param |-> [r |-> Threshold(k, t), a |-> Threshold(l, u),
                a1 |-> 0, a2 |-> 0, b |-> 0]] :
    k \in roots, l \in inner, x \in leaves, y \in leaves, z \in leaves,
    t \in {1, 2}, u \in {1, 2} }

LeafControl  == ControlTrees(ControlKinds, ControlKinds, {"Sync", "Stateful"})
AsyncLeaves  == ControlTrees(ControlKinds, ControlKinds, {"Async"})

\* Exceptions, below nodes that are RUNNING by the time they call a child.
Faulty ==
  ControlTrees(MemoryKinds, MemoryKinds, {"Stateful", "FaultySync"}) \cup
  { [kind  |-> [r |-> "Sequence", a |-> k, a1 |-> "Stateful", a2 |-> "Sync",
                b |-> "FaultySync"],
     param |-> [r |-> 0, a |-> 3, a1 |-> 0, a2 |-> 0, b |-> 0]] :
    k \in {"Parallel", "Switch"} } \cup
  ControlTrees(MemoryKinds, {"Sequence"}, {"FaultyAsync"})
AllControl     == LeafControl \cup AsyncLeaves \cup Faulty

\* A root over a chain of two decorators and over a leaf.
ChainNode     == {"r", "d", "e", "l", "b"}
ChainChildren == [r |-> <<"d", "b">>, d |-> <<"e">>, e |-> <<"l">>,
                  l |-> <<>>, b |-> <<>>]
ChainParent   == [r |-> "none", d |-> "r", b |-> "r", e |-> "d", l |-> "e"]

Tries(k, t) == IF k \in LoopKinds THEN 2 ELSE t

DecoratorTrees(roots, outer, inner, leaves, mismatch) ==
  { [kind  |-> [r |-> k, d |-> x, e |-> y, l |-> z, b |-> "Sync"],
     param |-> [r |-> Threshold(k, 1), d |-> Tries(x, t), e |-> Tries(y, t),
                l |-> 0, b |-> 0]] :
    k \in roots, x \in outer, y \in inner, z \in leaves, t \in mismatch }

Pausing       == DecoratorTrees({"Sequence", "Parallel", "ReactiveFallback"},
                   DecoratorKinds, DecoratorKinds, {"Async"}, {0, 1, 2})
\* A faulty leaf; no loop above a SubTree, which would be ticked while it
\* still holds a result, and so would not be RUNNING when the leaf throws.
Breaking      == DecoratorTrees({"Sequence"}, DecoratorKinds \ LoopKinds,
                   LoopKinds \cup {"Inverter"}, {"FaultySync"}, {0})
Translators   == DecoratorKinds \ (LoopKinds \cup {"BlackboardCheck"})
Decorated     == DecoratorTrees({"Sequence", "Fallback"}, Translators, Translators,
                   {"Sync", "Stateful"}, {0})
AllDecorators == Pausing \cup Breaking \cup Decorated
AsyncInverted == DecoratorTrees({"Sequence"}, {"Inverter"}, {"Inverter"}, {"Async"}, {0})
=============================================================================
