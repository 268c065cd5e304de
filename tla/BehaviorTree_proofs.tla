------------------------- MODULE BehaviorTree_proofs -------------------------
(***************************************************************************)
(* What holds of the engine for every tree: any number of nodes, any       *)
(* shape, any type at any place.  First the types of the variables, then   *)
(* the call stack.                                                         *)
(***************************************************************************)
EXTENDS BehaviorTree, FiniteSetTheorems, WellFoundedInduction, TLAPS

(* TypeOK says that every index into children_nodes_ is an index of a      *)
(* child.  To be inductive it needs the kinds of the nodes to fit the tree *)
(* (a decorator has a child), and the index of the child a frame awaits or *)
(* is about to tick to be in range.                                        *)
Fits == [kind |-> kind, param |-> param] \in Trees

FrameOK ==
  \A n \in Node :
    /\ at[n] = "await" /\ kind[n] \in MemoryKinds => idx[n] < Count(n)
    /\ at[n] = "await" /\ kind[n] \in ReactiveKinds \cup {"Parallel"} => loc[n] < Count(n)
    /\ at[n] \in {"await", "switch"} /\ kind[n] = "Switch" => loc[n] < Count(n)
    /\ at[n] = "reset" => kind[n] \in DecoratorKinds

Inv == TypeOK /\ Fits /\ FrameOK

\* The i-th child of a node is a node.
LEMMA ChildIsNode ==
  ASSUME NEW n \in Node, NEW i \in Indices(n)
  PROVE  Child(n, i) \in Node \ {n}
BY TreeAssumption DEF Indices, Child, Count

\* A decorator has a child 0, and a node has a natural number of children.
LEMMA Sizes ==
  ASSUME Fits, NEW n \in Node
  PROVE  /\ Count(n) \in Nat /\ Indices(n) \subseteq Int
         /\ kind[n] \in DecoratorKinds => Count(n) = 1 /\ 0 \in Indices(n)
<1>1. Count(n) \in Nat
  BY TreeAssumption DEF Count
<1>2. kind[n] \in DecoratorKinds => Count(n) = 1
  BY TreesAssumption DEF Fits
<1> QED
  BY <1>1, <1>2 DEF Indices

\* The classes of node types are disjoint.
LEMMA KindsDiffer ==
  /\ \A k \in MemoryKinds : k \notin ReactiveKinds \cup {"Parallel", "Switch"} \cup DecoratorKinds \cup LeafKinds
  /\ \A k \in ReactiveKinds : k \notin {"Parallel", "Switch"} \cup DecoratorKinds \cup LeafKinds
  /\ \A k \in DecoratorKinds : k \notin ControlKinds \cup LeafKinds
BY DEF MemoryKinds, ReactiveKinds, ControlKinds, DecoratorKinds, LoopKinds, LeafKinds, AsyncKinds

\* A constructed tree is well-formed.
LEMMA InitInv == ASSUME Init PROVE Inv
<1>1. PICK t \in Trees : kind = t.kind /\ param = t.param
  BY DEF Init
<1>2. kind \in [Node -> Kinds] /\ param \in [Node -> Int] /\ Fits
  BY <1>1, TreesAssumption DEF Fits
<1>3. \A n \in Node : FirstIdx(kind[n]) \in IndexRange(n) /\ FirstIdx(kind[n]) \in Int
  BY <1>2, Sizes, KindsDiffer DEF FirstIdx, IndexRange, MemoryKinds, LoopKinds
<1>4. TypeOK
  BY <1>2, <1>3, Sizes DEF Init, TypeOK, Status, Done, FramePoints
<1> QED
  BY <1>2, <1>4 DEF Inv, FrameOK, Init

-----------------------------------------------------------------------------
(* The steps.  IndexRange of a node depends on its kind only, and no step  *)
(* changes a kind.                                                         *)

\* FirstIdx is an index in range for every kind of node.
LEMMA FirstIdxInRange ==
  ASSUME TypeOK, Fits, NEW n \in Node
  PROVE  FirstIdx(kind[n]) \in IndexRange(n) /\ FirstIdx(kind[n]) \in Int
BY Sizes, KindsDiffer DEF FirstIdx, IndexRange, MemoryKinds, LoopKinds

\* The methods of the Tree keep the invariant.
LEMMA OwnerKeeps == ASSUME Inv, Owner PROVE Inv'
<1> USE DEF Inv, FrameOK, TypeOK, Fits, tree, memory, async, frame, caller, FramePoints
<1>1. CASE TickRoot
  BY <1>1, TreeAssumption DEF TickRoot, IndexRange, Count, Indices
<1>2. CASE TickRootReturn
  BY <1>2 DEF TickRootReturn, IndexRange, Count, Indices, Status
<1>3. ASSUME NEW n \in Node, CallHalt(n), UNCHANGED <<tree, status, thread, loc, out, got>>,
             op' \in {"halt", "visit"}, visit' \in Seq(Node)
      PROVE Inv'
  <2>1. /\ idx' = [idx EXCEPT ![n] = FirstIdx(kind[n])]
        /\ skip' = [skip EXCEPT ![n] = {}]
        /\ haltRequested' = [haltRequested EXCEPT ![n] = (kind[n] \in AsyncKinds)]
        /\ at' = [at EXCEPT ![n] = "stop"]
        /\ cur' = n
        /\ todo' = [todo EXCEPT ![n] = Indices(n)]
    BY <1>3 DEF CallHalt, ResetMembers
  <2>2. \A m \in Node : idx'[m] \in IndexRange(m)' /\ skip'[m] \subseteq Indices(m)
    BY <1>3, <2>1, FirstIdxInRange DEF IndexRange
  <2>a. idx' \in [Node -> Int] /\ todo' \in [Node -> SUBSET Int]
    BY <2>1, FirstIdxInRange, Sizes
  <2>3. haltRequested' \in [Node -> BOOLEAN]
    BY <2>1
  <2>4. FrameOK'
    BY <1>3, <2>1
  <2> QED
    BY <1>3, <2>1, <2>2, <2>a, <2>3, <2>4
<1>4. CASE HaltTree
  BY <1>3, <1>4, TreeAssumption DEF HaltTree
<1>5. CASE HaltTreeVisit
  BY <1>5, TreeAssumption DEF HaltTreeVisit, IndexRange, Count, Indices
<1>6. CASE VisitNode
  <2>1. Head(visit) \in Node /\ Tail(visit) \in Seq(Node)
    BY <1>6 DEF VisitNode
  <2>2. visit' \in Seq(Node)
    BY <1>6, <2>1, TreeAssumption DEF VisitNode
  <2>3. op' = "visit"
    BY <1>6 DEF VisitNode
  <2> QED
    BY <1>3, <1>6, <2>1, <2>2, <2>3 DEF VisitNode
<1>7. CASE HaltTreeReturn
  BY <1>7 DEF HaltTreeReturn, IndexRange, Count, Indices
<1> QED
  BY <1>1, <1>2, <1>4, <1>5, <1>6, <1>7 DEF Owner

\* The return of a frame keeps the invariant, whatever it returns.
LEMMA PopKeeps ==
  ASSUME Inv, NEW n \in Node, Pop(n), UNCHANGED <<tree, memory, async, todo, caller>>,
         status' \in [Node -> Status], got' \in [Node -> Status]
  PROVE  Inv'
<1> USE DEF Inv, FrameOK, TypeOK, Fits, tree, memory, async, caller, FramePoints
<1>1. at' = [at EXCEPT ![n] = "off"] /\ loc' = [loc EXCEPT ![n] = 0]
  BY DEF Pop
<1>2. cur' \in Node \cup {NoNode}
  BY TreeAssumption DEF Pop
<1>3. out' \in [Node -> Status]
  BY DEF Pop, Status
<1>4. \A m \in Node : idx'[m] \in IndexRange(m)' /\ loc'[m] \in 0 .. Count(m)
  BY <1>1, Sizes DEF IndexRange
<1>a. loc' \in [Node -> Int]
  BY <1>1
<1>5. FrameOK'
  BY <1>1
<1> QED
  BY <1>1, <1>2, <1>3, <1>4, <1>a, <1>5

\* What every node type shares keeps the invariant.
LEMMA SharedKeeps ==
  ASSUME Inv, NEW n \in Node, HaltChild(n) \/ Halted(n) \/ Ticked(n) \/ ResetChild(n)
  PROVE  Inv'
<1> USE DEF Inv, FrameOK, TypeOK, Fits, tree, memory, async, frame, caller, FramePoints
<1>1. CASE HaltChild(n)
  <2>1. PICK i \in todo[n] : LET c == Child(n, i) IN
          /\ got' = [got EXCEPT ![c] = "IDLE"]
          /\ \/ /\ status[c] = "RUNNING"
                /\ at' = [at EXCEPT ![c] = "stop"]
                /\ cur' = c
                /\ todo' = [todo EXCEPT ![n] = @ \ {i}, ![c] = Indices(c)]
                /\ ResetMembers(c)
                /\ UNCHANGED status
             \/ /\ status[c] # "RUNNING"
                /\ status' = [status EXCEPT ![c] = "IDLE"]
                /\ todo' = [todo EXCEPT ![n] = @ \ {i}]
                /\ UNCHANGED <<at, cur, memory, haltRequested>>
    BY <1>1 DEF HaltChild
  <2> DEFINE c == Child(n, i)
  <2>2. c \in Node
    BY ChildIsNode
  <2>3. UNCHANGED <<tree, thread, loc, out, caller>>
    BY <1>1 DEF HaltChild
  <2>4. got' \in [Node -> Status]
    BY <2>1, <2>2 DEF Status
  <2> HIDE DEF c
  <2>5. CASE status[c] = "RUNNING"
    <3>1. /\ idx' = [idx EXCEPT ![c] = FirstIdx(kind[c])]
          /\ skip' = [skip EXCEPT ![c] = {}]
          /\ haltRequested' = [haltRequested EXCEPT ![c] = (kind[c] \in AsyncKinds)]
          /\ at' = [at EXCEPT ![c] = "stop"]
          /\ cur' = c
          /\ todo' = [todo EXCEPT ![n] = @ \ {i}, ![c] = Indices(c)]
          /\ UNCHANGED status
      BY <2>1, <2>5 DEF c, ResetMembers
    <3>2. \A m \in Node : idx'[m] \in IndexRange(m)' /\ skip'[m] \subseteq Indices(m)
      BY <2>2, <2>3, <3>1, FirstIdxInRange DEF IndexRange
    <3> DEFINE flag == kind[c] \in AsyncKinds
    <3>a. flag \in BOOLEAN
      OBVIOUS
    <3>b. haltRequested' = [haltRequested EXCEPT ![c] = flag]
      BY <3>1
    <3> HIDE DEF flag
    <3>3. haltRequested' \in [Node -> BOOLEAN]
      BY <3>a, <3>b
    <3>4. FrameOK'
      BY <2>2, <2>3, <3>1
    <3>5. \A m \in Node : todo'[m] \subseteq Indices(m)
      BY <3>1
    <3>6. todo' \in [Node -> SUBSET Int]
      BY <3>1, <2>2, Sizes
    <3>7. idx' \in [Node -> Int]
      BY <3>1, <2>2, FirstIdxInRange
    <3> QED
      BY <2>2, <2>3, <2>4, <3>1, <3>2, <3>3, <3>4, <3>5, <3>6, <3>7
  <2>6. CASE status[c] # "RUNNING"
    <3>1. /\ status' = [status EXCEPT ![c] = "IDLE"]
          /\ todo' = [todo EXCEPT ![n] = @ \ {i}]
          /\ UNCHANGED <<at, cur, memory, haltRequested>>
      BY <2>1, <2>6 DEF c
    <3>2. (\A m \in Node : todo'[m] \subseteq Indices(m)) /\ todo' \in [Node -> SUBSET Int]
      BY <3>1
    <3>3. status' \in [Node -> Status]
      BY <2>2, <3>1 DEF Status
    <3> QED
      BY <2>3, <2>4, <3>1, <3>2, <3>3 DEF IndexRange
  <2> QED
    BY <2>5, <2>6
<1>2. CASE Halted(n)
  BY <1>2, PopKeeps DEF Halted, Status
<1>3. CASE Ticked(n)
  <2>1. CASE kind[n] \in DecoratorKinds
    BY <1>3, <2>1 DEF Ticked, IndexRange
  <2>2. CASE kind[n] \notin DecoratorKinds
    <3>1. status' \in [Node -> Status] /\ got' \in [Node -> Status]
      BY <1>3, <2>2 DEF Ticked
    <3> QED
      BY <1>3, <2>2, <3>1, PopKeeps DEF Ticked
  <2> QED
    BY <2>1, <2>2
<1>4. CASE ResetChild(n)
  <2>1. Child(n, 0) \in Node
    BY <1>4, Sizes, ChildIsNode DEF ResetChild
  <2>2. status' \in [Node -> Status] /\ got' \in [Node -> Status]
    BY <1>4, <2>1 DEF ResetChild, Status, Done
  <2> QED
    BY <1>4, <2>2, PopKeeps DEF ResetChild
<1> QED
  BY <1>1, <1>2, <1>3, <1>4

\* An exception keeps the invariant.
LEMMA UnwindKeeps ==
  ASSUME Inv, Unwind, status' \in [Node -> Status]
  PROVE  Inv'
BY Sizes DEF Unwind, Inv, FrameOK, TypeOK, Fits, tree, memory, async, FramePoints,
             IndexRange, Status

\* A leaf and the thread of an asynchronous action keep the invariant.
LEMMA LeafKeeps ==
  ASSUME Inv, NEW n \in Node, LeafTick(n) \/ AsyncThread(n) \/ AsyncThreadThrow(n)
  PROVE  Inv'
<1> USE DEF Inv, FrameOK, TypeOK, Fits, tree, memory, async, frame, caller, FramePoints
<1>1. ASSUME NEW s \in Status, Return(n, s) PROVE Inv'
  <2>1. status' \in [Node -> Status] /\ got' \in [Node -> Status]
    BY <1>1 DEF Return
  <2> QED
    BY <1>1, <2>1, PopKeeps DEF Return
<1>2. CASE SyncTick(n)
  BY <1>1, <1>2 DEF SyncTick, Status
<1>3. CASE SyncThrow(n)
  <2>1. status' \in [Node -> Status]
    BY <1>3 DEF SyncThrow, Status
  <2> QED
    BY <1>3, <2>1, UnwindKeeps DEF SyncThrow
<1>4. CASE StatefulTick(n)
  BY <1>1, <1>4 DEF StatefulTick, Status
<1>5. CASE AsyncStart(n)
  BY <1>5, KindsDiffer DEF AsyncStart, Status, IndexRange
<1>6. CASE AsyncRead(n)
  BY <1>1, <1>6 DEF AsyncRead
<1>7. CASE AsyncThread(n)
  <2>1. status' \in [Node -> Status]
    BY <1>7 DEF AsyncThread, Status, Done
  <2>2. thread' \in [Node -> BOOLEAN]
    BY <1>7 DEF AsyncThread
  <2> QED
    BY <1>7, <2>1, <2>2 DEF AsyncThread, IndexRange
<1>8. CASE AsyncThreadThrow(n)
  BY <1>8 DEF AsyncThreadThrow, IndexRange
<1> QED
  BY <1>2, <1>3, <1>4, <1>5, <1>6, <1>7, <1>8 DEF LeafTick

-----------------------------------------------------------------------------
(* tick() of a control node or a decorator changes the frame of n, its     *)
(* members and its status, and at most enters a child.                     *)
Within(n) ==
  /\ UNCHANGED <<tree, async, got, caller>>
  /\ status' \in [Node -> Status] /\ at' \in [Node -> FramePoints]
  /\ cur' \in Node \cup {NoNode} /\ out' \in [Node -> Status]
  /\ idx' \in [Node -> Int] /\ loc' \in [Node -> Int]
  /\ skip' \in [Node -> SUBSET Int] /\ todo' \in [Node -> SUBSET Int]
  /\ \A m \in Node \ {n} :
       /\ at'[m] = at[m] \/ at'[m] = "enter"
       /\ idx'[m] = idx[m] /\ skip'[m] = skip[m] /\ todo'[m] = todo[m] /\ loc'[m] = loc[m]

InRange(n) ==
  /\ idx[n] \in IndexRange(n) /\ skip[n] \subseteq Indices(n)
  /\ loc[n] \in 0 .. Count(n) /\ todo[n] \subseteq Indices(n)
  /\ at[n] = "await" /\ kind[n] \in MemoryKinds => idx[n] < Count(n)
  /\ at[n] = "await" /\ kind[n] \in ReactiveKinds \cup {"Parallel"} => loc[n] < Count(n)
  /\ at[n] \in {"await", "switch"} /\ kind[n] = "Switch" => loc[n] < Count(n)
  /\ at[n] = "reset" => kind[n] \in DecoratorKinds

\* A step of tick() that leaves the node itself in range keeps the invariant.
LEMMA TickKeeps ==
  ASSUME Inv, NEW n \in Node, Within(n), InRange(n)'
  PROVE  Inv'
<1> USE DEF Inv, FrameOK, TypeOK, Fits, tree, async, caller, Within, InRange
<1>1. \A m \in Node : idx'[m] \in IndexRange(m)' /\ skip'[m] \subseteq Indices(m)
  BY DEF IndexRange
<1>2. FrameOK'
  OBVIOUS
<1> QED
  BY <1>1, <1>2

\* Sequence, Fallback and SequenceStar: their index stays in 0 .. Count(n), and
\* below Count(n) while a child is awaited.
LEMMA MemoryTickKeeps ==
  ASSUME Inv, NEW n \in Node, kind[n] \in MemoryKinds,
         NEW go \in Done, NEW stop \in Done, NEW Rest \in SUBSET Indices(n),
         NEW left \in 0 .. Count(n),
         MemoryTick(n, go, stop, Rest, left), UNCHANGED <<skip, loc>>,
         UNCHANGED <<tree, async, got, caller>>
  PROVE  Inv'
<1> USE DEF Inv, TypeOK, FrameOK
<1>1. Count(n) \in Nat /\ Indices(n) \subseteq Int
  BY Sizes
<1>2. kind[n] \notin ReactiveKinds \cup {"Parallel", "Switch"} \cup DecoratorKinds
  BY KindsDiffer
<1>3. IndexRange(n) = 0 .. Count(n)
  BY <1>2 DEF IndexRange, DecoratorKinds
<1>4. kind' = kind /\ IndexRange(n)' = IndexRange(n)
  BY DEF tree, IndexRange
<1>5. /\ idx[n] \in 0 .. Count(n) /\ loc[n] \in 0 .. Count(n)
      /\ skip[n] \subseteq Indices(n) /\ todo[n] \subseteq Indices(n)
      /\ at[n] = "await" => idx[n] < Count(n)
  BY <1>3
<1>6. CASE /\ at[n] = "loop" /\ idx[n] < Count(n)
           /\ TickChild(n, idx[n])
           /\ UNCHANGED <<status, idx, todo, out>>
  <2>1. Child(n, idx[n]) \in Node \ {n}
    BY <1>1, <1>5, <1>6, ChildIsNode DEF Indices
  <2>2. Within(n)
    BY <1>6, <2>1 DEF TickChild, Within, FramePoints
  <2>3. InRange(n)'
    BY <1>1, <1>2, <1>3, <1>4, <1>5, <1>6, <2>1 DEF TickChild, InRange
  <2> QED
    BY <2>2, <2>3, TickKeeps
<1>7. ASSUME MemoryTick(n, go, stop, Rest, left), at'[n] # "await" PROVE Inv'
  <2>1. Within(n)
    <3>1. CASE MemoryEnter(n)
      BY <3>1 DEF MemoryEnter, Within, FramePoints, Status
    <3>2. CASE MemoryRunning(n)
      BY <3>2 DEF MemoryRunning, Leave, Within, FramePoints, Status
    <3>3. CASE MemoryGo(n, go)
      BY <3>3, <1>5 DEF MemoryGo, Within, FramePoints
    <3>4. CASE MemoryStop(n, stop, Rest, left)
      BY <3>4, <1>1 DEF MemoryStop, Leave, Within, FramePoints, Status
    <3>5. CASE MemoryDone(n, go)
      BY <3>5, <1>1 DEF MemoryDone, Leave, Within, FramePoints, Status
    <3> QED
      BY <1>7, <3>1, <3>2, <3>3, <3>4, <3>5 DEF MemoryTick, TickChild
  <2>2. idx'[n] \in 0 .. Count(n) /\ todo'[n] \subseteq Indices(n) /\ at'[n] \in {"loop", "leave"}
    BY <1>1, <1>5, <1>7
    DEF MemoryTick, MemoryEnter, MemoryRunning, MemoryGo, MemoryStop, MemoryDone, Leave, TickChild
  <2>3. InRange(n)'
    BY <1>2, <1>3, <1>4, <1>5, <2>2 DEF InRange
  <2> QED
    BY <2>1, <2>3, TickKeeps
<1> QED
  BY <1>6, <1>7
  DEF MemoryTick, MemoryEnter, MemoryRunning, MemoryGo, MemoryStop, MemoryDone, Leave

\* ReactiveSequence and ReactiveFallback: the loop index of the frame stays in
\* range, and no member changes.
LEMMA ReactiveTickKeeps ==
  ASSUME Inv, NEW n \in Node, kind[n] \in ReactiveKinds, NEW go \in Done, NEW stop \in Done,
         ReactiveTick(n, go, stop), UNCHANGED <<status, memory>>,
         UNCHANGED <<tree, async, got, caller>>
  PROVE  Inv'
<1> USE DEF Inv, TypeOK, FrameOK, memory
<1>1. Count(n) \in Nat /\ Indices(n) \subseteq Int
  BY Sizes
<1>2. kind[n] \notin MemoryKinds \cup {"Parallel", "Switch"} \cup DecoratorKinds
  BY KindsDiffer
<1>4. kind' = kind /\ IndexRange(n)' = IndexRange(n)
  BY DEF tree, IndexRange
<1>5. loc[n] \in 0 .. Count(n) /\ (at[n] = "await" => loc[n] < Count(n))
  OBVIOUS
<1>6. CASE /\ at[n] = "loop" /\ loc[n] < Count(n)
           /\ TickChild(n, loc[n])
           /\ UNCHANGED <<loc, todo, out>>
  <2>1. Child(n, loc[n]) \in Node \ {n}
    BY <1>1, <1>5, <1>6, ChildIsNode DEF Indices
  <2>2. Within(n)
    BY <1>6, <2>1 DEF TickChild, Within, FramePoints
  <2>3. InRange(n)'
    BY <1>1, <1>2, <1>4, <1>5, <1>6, <2>1 DEF TickChild, InRange
  <2> QED
    BY <2>2, <2>3, TickKeeps
<1>7. ASSUME at'[n] # "await" PROVE Inv'
  <2>1. /\ loc'[n] \in 0 .. Count(n) /\ todo'[n] \subseteq Indices(n)
        /\ at'[n] \in {"loop", "leave"} /\ loc' \in [Node -> Int]
    BY <1>1, <1>5, <1>7 DEF ReactiveTick, ReactiveStop, Leave, TickChild, Indices
  <2>2. Within(n)
    <3>1. CASE /\ at[n] \in {"enter", "await"} /\ at' = [at EXCEPT ![n] = "loop"]
               /\ \E l \in {0, loc[n] + 1} : loc' = [loc EXCEPT ![n] = l]
               /\ UNCHANGED <<cur, todo, out>>
      BY <2>1, <3>1 DEF Within, FramePoints
    <3>2. ASSUME NEW r \in Status, NEW H \in SUBSET Int, Leave(n, r, H), UNCHANGED loc
          PROVE Within(n)
      BY <3>2 DEF Leave, Within, FramePoints
    <3>3. loc[n] + 1 .. Count(n) - 1 \in SUBSET Int /\ go \in Status /\ stop \in Status /\ "RUNNING" \in Status
      BY <1>1, <1>5 DEF Status
    <3> QED
      BY <1>1, <1>7, <3>1, <3>2, <3>3 DEF ReactiveTick, ReactiveStop, TickChild
  <2>3. InRange(n)'
    BY <1>2, <1>4, <2>1 DEF InRange
  <2> QED
    BY <2>2, <2>3, TickKeeps
<1> QED
  BY <1>6, <1>7 DEF ReactiveTick, ReactiveStop, Leave

\* Parallel: the loop index stays in range, and only indices of children are
\* put in the skip list.
LEMMA ParallelTickKeeps ==
  ASSUME Inv, NEW n \in Node, ParallelTick(n), UNCHANGED <<tree, async, got, caller>>
  PROVE  Inv'
<1> USE DEF Inv, TypeOK, FrameOK
<1>1. Count(n) \in Nat /\ Indices(n) \subseteq Int /\ kind[n] = "Parallel"
  BY Sizes DEF ParallelTick
<1>2. kind[n] \notin MemoryKinds \cup {"Switch"} \cup DecoratorKinds
  BY <1>1 DEF MemoryKinds, DecoratorKinds, LoopKinds
<1>4. kind' = kind /\ IndexRange(n)' = IndexRange(n) /\ UNCHANGED <<status, idx>>
  BY DEF tree, IndexRange, ParallelTick
<1>5. loc[n] \in 0 .. Count(n) /\ (at[n] = "await" => loc[n] < Count(n))
  BY <1>1
<1>6. CASE /\ at[n] = "loop" /\ loc[n] < Count(n) /\ loc[n] \notin skip[n]
           /\ TickChild(n, loc[n])
           /\ UNCHANGED <<skip, loc, todo, out>>
  <2>1. Child(n, loc[n]) \in Node \ {n}
    BY <1>1, <1>5, <1>6, ChildIsNode DEF Indices
  <2>2. Within(n)
    BY <1>4, <1>6, <2>1 DEF TickChild, Within, FramePoints
  <2>3. InRange(n)'
    BY <1>1, <1>2, <1>4, <1>5, <1>6, <2>1 DEF TickChild, InRange
  <2> QED
    BY <2>2, <2>3, TickKeeps
<1>7. ASSUME NEW s, loc[n] < Count(n), ParallelCount(n, s) PROVE Inv'
  <2>1. CASE ParallelDecide(n, s)
    <3>1. s \in Status
      BY <2>1 DEF ParallelDecide, Decisive, Status, Done
    <3>2. Within(n)
      BY <1>1, <1>4, <2>1, <3>1 DEF ParallelDecide, Leave, Within, FramePoints
    <3>3. InRange(n)'
      BY <1>1, <1>2, <1>4, <1>5, <2>1 DEF ParallelDecide, Leave, InRange
    <3> QED
      BY <3>2, <3>3, TickKeeps
  <2>2. CASE /\ \/ skip' = [skip EXCEPT ![n] = @ \cup {loc[n]}]
                \/ UNCHANGED skip
             /\ loc' = [loc EXCEPT ![n] = @ + 1]
             /\ at' = [at EXCEPT ![n] = "loop"]
             /\ UNCHANGED <<cur, todo, out>>
    <3>1. skip'[n] \subseteq Indices(n) /\ skip' \in [Node -> SUBSET Int]
      <4>1. loc[n] \in Indices(n)
        BY <1>1, <1>5, <1>7 DEF Indices
      <4>2. CASE skip' = [skip EXCEPT ![n] = @ \cup {loc[n]}]
        BY <1>1, <4>1, <4>2
      <4>3. CASE UNCHANGED skip
        BY <4>3
      <4> QED
        BY <2>2, <4>2, <4>3
    <3>2. loc'[n] \in 0 .. Count(n) /\ loc' \in [Node -> Int]
      BY <1>1, <1>5, <1>7, <2>2
    <3>3. Within(n)
      BY <1>4, <2>2, <3>1, <3>2 DEF Within, FramePoints
    <3>4. InRange(n)'
      BY <1>2, <1>4, <2>2, <3>1, <3>2 DEF InRange
    <3> QED
      BY <3>3, <3>4, TickKeeps
  <2> QED
    BY <1>7, <2>1, <2>2 DEF ParallelCount
<1>8. CASE /\ at[n] = "enter" /\ Count(n) >= param[n]
           /\ loc' = [loc EXCEPT ![n] = 0]
           /\ at' = [at EXCEPT ![n] = "loop"]
           /\ UNCHANGED <<skip, cur, todo, out>>
  <2>1. Within(n)
    BY <1>4, <1>8 DEF Within, FramePoints
  <2>2. InRange(n)'
    BY <1>1, <1>2, <1>4, <1>8 DEF InRange
  <2> QED
    BY <2>1, <2>2, TickKeeps
<1>9. CASE /\ at[n] = "loop" /\ loc[n] = Count(n)
           /\ Leave(n, "RUNNING", {})
           /\ UNCHANGED <<skip, loc>>
  <2>1. Within(n)
    BY <1>4, <1>9 DEF Leave, Within, FramePoints, Status
  <2>2. InRange(n)'
    BY <1>1, <1>2, <1>4, <1>5, <1>9 DEF Leave, InRange
  <2> QED
    BY <2>1, <2>2, TickKeeps
<1> QED
  BY <1>5, <1>6, <1>7, <1>8, <1>9 DEF ParallelTick

\* Switch: running_child_ is -1 or the index of the child that was selected.
LEMMA SwitchTickKeeps ==
  ASSUME Inv, NEW n \in Node, SwitchTick(n), UNCHANGED <<tree, async, got, caller>>
  PROVE  Inv'
<1> USE DEF Inv, TypeOK, FrameOK
<1>1. Count(n) \in Nat /\ Indices(n) \subseteq Int /\ kind[n] = "Switch"
  BY Sizes DEF SwitchTick
<1>2. kind[n] \notin MemoryKinds \cup ReactiveKinds \cup {"Parallel"} \cup DecoratorKinds
  BY <1>1 DEF MemoryKinds, ReactiveKinds, DecoratorKinds, LoopKinds
<1>3. IndexRange(n) = -1 .. Count(n) - 1
  BY <1>1, <1>2 DEF IndexRange, DecoratorKinds
<1>4. kind' = kind /\ IndexRange(n)' = IndexRange(n) /\ UNCHANGED <<status, skip>>
  BY DEF tree, IndexRange, SwitchTick
<1>5. /\ idx[n] \in -1 .. Count(n) - 1 /\ loc[n] \in 0 .. Count(n)
      /\ at[n] \in {"await", "switch"} => loc[n] < Count(n)
  BY <1>1, <1>3
<1>6. CASE SwitchEnter(n)
  <2>1. /\ loc' \in [Node -> Int] /\ loc'[n] \in 0 .. Count(n) /\ loc'[n] < Count(n)
        /\ todo'[n] \subseteq Indices(n) /\ todo' \in [Node -> SUBSET Int]
    BY <1>1, <1>5, <1>6 DEF SwitchEnter, Indices
  <2>2. Within(n)
    BY <1>4, <1>6, <2>1 DEF SwitchEnter, Within, FramePoints
  <2>3. InRange(n)'
    BY <1>2, <1>4, <1>6, <2>1 DEF SwitchEnter, InRange
  <2> QED
    BY <2>2, <2>3, TickKeeps
<1>7. CASE /\ at[n] = "switch" /\ todo[n] = {}
           /\ TickChild(n, loc[n])
           /\ UNCHANGED <<idx, loc, todo, out>>
  <2>1. Child(n, loc[n]) \in Node \ {n}
    BY <1>1, <1>5, <1>7, ChildIsNode DEF Indices
  <2>2. Within(n)
    BY <1>4, <1>7, <2>1 DEF TickChild, Within, FramePoints
  <2>3. InRange(n)'
    BY <1>1, <1>2, <1>4, <1>5, <1>7, <2>1 DEF TickChild, InRange
  <2> QED
    BY <2>2, <2>3, TickKeeps
<1>8. ASSUME NEW r \in Status, NEW H \in SUBSET Indices(n), NEW x \in -1 .. Count(n) - 1,
             Leave(n, r, H), idx' = [idx EXCEPT ![n] = x], UNCHANGED loc
      PROVE  Inv'
  <2>1. Within(n)
    <3>1. H \subseteq Int /\ x \in Int
      BY <1>1
    <3> QED
      BY <1>4, <1>8, <3>1 DEF Leave, Within, FramePoints
  <2>2. InRange(n)'
    BY <1>2, <1>3, <1>4, <1>5, <1>8 DEF Leave, InRange
  <2> QED
    BY <2>1, <2>2, TickKeeps
<1>9. CASE /\ at[n] = "await" /\ got[Child(n, loc[n])] = "RUNNING"
           /\ Leave(n, "RUNNING", {})
           /\ idx' = [idx EXCEPT ![n] = loc[n]]
           /\ UNCHANGED loc
  <2>1. loc[n] \in -1 .. Count(n) - 1
    BY <1>1, <1>5, <1>9
  <2>2. "RUNNING" \in Status /\ {} \in SUBSET Indices(n)
    BY DEF Status
  <2>3. Leave(n, "RUNNING", {}) /\ idx' = [idx EXCEPT ![n] = loc[n]] /\ UNCHANGED loc
    BY <1>9
  <2> QED
    BY <1>8, <2>1, <2>2, <2>3
<1>10. CASE /\ at[n] = "await" /\ got[Child(n, loc[n])] # "RUNNING"
            /\ Leave(n, got[Child(n, loc[n])], Indices(n))
            /\ idx' = [idx EXCEPT ![n] = -1]
            /\ UNCHANGED loc
  <2>1. Child(n, loc[n]) \in Node
    BY <1>1, <1>5, <1>10, ChildIsNode DEF Indices
  <2>2. got[Child(n, loc[n])] \in Status /\ -1 \in -1 .. Count(n) - 1
    BY <1>1, <2>1
  <2> QED
    BY <1>8, <1>10, <2>2
<1> QED
  BY <1>6, <1>7, <1>9, <1>10 DEF SwitchTick

\* tick() of every control node keeps the invariant.
LEMMA ControlKeeps ==
  ASSUME Inv, NEW n \in Node, ControlTick(n)
  PROVE  Inv'
<1>1. UNCHANGED <<tree, async, got, caller>>
  BY DEF ControlTick
<1>2. Indices(n) \subseteq Indices(n) /\ 0 \in 0 .. Count(n)
  BY Sizes DEF Inv
<1>3. CASE SequenceTick(n)
  BY <1>1, <1>2, <1>3, MemoryTickKeeps DEF SequenceTick, MemoryKinds, Done
<1>4. CASE FallbackTick(n)
  BY <1>1, <1>2, <1>4, MemoryTickKeeps DEF FallbackTick, MemoryKinds, Done
<1>5. CASE SequenceStarTick(n)
  <2>1. kind[n] \in MemoryKinds /\ kind[n] \notin {"Switch"} \cup LoopKinds
    BY <1>5, KindsDiffer DEF SequenceStarTick, MemoryKinds, DecoratorKinds
  <2>2. idx[n] \in 0 .. Count(n)
    BY <2>1 DEF Inv, TypeOK, IndexRange
  <2>3. (idx[n] .. Count(n) - 1) \in SUBSET Indices(n)
    BY <2>2, Sizes DEF Indices, Inv
  <2> QED
    BY <1>1, <1>5, <2>1, <2>2, <2>3, MemoryTickKeeps DEF SequenceStarTick, Done
<1>6. CASE ReactiveSequenceTick(n) \/ ReactiveFallbackTick(n)
  BY <1>1, <1>6, ReactiveTickKeeps
  DEF ReactiveSequenceTick, ReactiveFallbackTick, ReactiveKinds, Done
<1>7. CASE ParallelTick(n)
  BY <1>1, <1>7, ParallelTickKeeps
<1>8. CASE SwitchTick(n)
  BY <1>1, <1>8, SwitchTickKeeps
<1> QED
  BY <1>3, <1>4, <1>5, <1>6, <1>7, <1>8 DEF ControlTick

-----------------------------------------------------------------------------
\* tick() of the decorators keeps the invariant.
LEMMA DecoratorKeeps ==
  ASSUME Inv, NEW n \in Node, DecoratorTick(n)
  PROVE  Inv'
<1> USE DEF Inv, TypeOK, FrameOK
<1>1. UNCHANGED <<tree, skip, async, loc, got, caller>> /\ kind[n] \in DecoratorKinds
  BY DEF DecoratorTick, InverterTick, ForceSuccessTick, ForceFailureTick, SubTreeTick,
         BlackboardCheckTick, RepeatTick, RetryTick, DecoratorKinds, LoopKinds
<1>2. kind[n] \notin MemoryKinds \cup ReactiveKinds \cup {"Parallel", "Switch"}
  BY <1>1, KindsDiffer DEF ControlKinds
<1>3. Count(n) \in Nat /\ Indices(n) \subseteq Int /\ 0 \in Indices(n)
  BY <1>1, Sizes
<1>4. Child(n, 0) \in Node \ {n} /\ got[Child(n, 0)] \in Status
  BY <1>3, ChildIsNode
<1>5. kind' = kind /\ IndexRange(n)' = IndexRange(n)
  BY <1>1 DEF tree, IndexRange
\* The child is ticked.
<1>6. ASSUME status' \in [Node -> Status], TickChild(n, 0), UNCHANGED <<idx, todo, out>>
      PROVE  Inv'
  <2>1. Within(n)
    BY <1>1, <1>4, <1>6 DEF TickChild, Within, FramePoints
  <2>2. InRange(n)'
    BY <1>1, <1>2, <1>4, <1>5, <1>6 DEF TickChild, InRange
  <2> QED
    BY <2>1, <2>2, TickKeeps
\* The node decides.
<1>7. ASSUME NEW r \in Status, NEW H \in SUBSET Indices(n), status' \in [Node -> Status],
             Leave(n, r, H), idx' \in [Node -> Int], idx'[n] \in IndexRange(n),
             \A m \in Node \ {n} : idx'[m] = idx[m]
      PROVE  Inv'
  <2>1. Within(n)
    BY <1>1, <1>3, <1>7 DEF Leave, Within, FramePoints
  <2>2. InRange(n)'
    BY <1>1, <1>2, <1>5, <1>7 DEF Leave, InRange
  <2> QED
    BY <2>1, <2>2, TickKeeps
\* The node decides and keeps its members.
<1>a. ASSUME NEW r \in Status, NEW H \in SUBSET Indices(n), status' \in [Node -> Status],
             Leave(n, r, H), UNCHANGED idx
      PROVE  Inv'
  BY <1>7, <1>a
<1>b. {} \in SUBSET Indices(n)
  OBVIOUS
<1>8. ASSUME NEW result \in [Status -> Status], Translate(n, result), UNCHANGED idx
      PROVE  Inv'
  <2>1. status' \in [Node -> Status]
    BY <1>8 DEF Translate, Status
  <2>2. result[got[Child(n, 0)]] \in Status
    BY <1>4
  <2> QED
    BY <1>6, <1>8, <1>a, <1>b, <2>1, <2>2 DEF Translate
<1>9. CASE InverterTick(n)
  <2>1. InverterResult \in [Status -> Status]
    BY DEF InverterResult, Status, Done
  <2> QED
    BY <1>8, <1>9, <2>1 DEF InverterTick
<1>10. CASE ForceSuccessTick(n)
  <2>1. ForceSuccessResult \in [Status -> Status]
    BY DEF ForceSuccessResult, Status, Done
  <2> QED
    BY <1>8, <1>10, <2>1 DEF ForceSuccessTick
<1>11. CASE ForceFailureTick(n)
  <2>1. ForceFailureResult \in [Status -> Status]
    BY DEF ForceFailureResult, Status, Done
  <2> QED
    BY <1>8, <1>11, <2>1 DEF ForceFailureTick
<1>12. CASE SubTreeTick(n)
  <2>1. status' \in [Node -> Status]
    BY <1>12 DEF SubTreeTick, Status
  <2> QED
    BY <1>4, <1>6, <1>12, <1>a, <1>b, <2>1 DEF SubTreeTick
<1>13. CASE BlackboardCheckTick(n)
  <2>1. status' \in [Node -> Status]
    BY <1>13 DEF BlackboardCheckTick, Status
  <2>2. Mismatch(n) \in Status
    BY DEF Mismatch, Status, Done
  <2>3. (IF status[Child(n, 0)] = "RUNNING" THEN {0} ELSE {}) \in SUBSET Indices(n)
    BY <1>3
  <2> QED
    BY <1>4, <1>6, <1>13, <1>a, <1>b, <2>1, <2>2, <2>3 DEF BlackboardCheckTick, BlackboardRefuse
<1>14. ASSUME NEW go \in Done, NEW stop \in Done, LoopTick(n, go, stop), kind[n] \in LoopKinds
       PROVE  Inv'
  <2>1. status' \in [Node -> Status]
    BY <1>14 DEF LoopTick, LoopAgain, Status
  <2>2. IndexRange(n) = Nat
    BY <1>2, <1>14 DEF IndexRange
  <2>3. idx' \in [Node -> Int] /\ idx'[n] \in Nat /\ \A m \in Node \ {n} : idx'[m] = idx[m]
    BY <1>14, <2>2 DEF LoopTick, LoopAgain
  <2>4. CASE at' = [at EXCEPT ![n] = "loop"] /\ UNCHANGED <<cur, todo, out>>
    <3>1. Within(n)
      BY <1>1, <2>1, <2>3, <2>4 DEF Within, FramePoints
    <3>2. InRange(n)'
      BY <1>1, <1>2, <1>5, <2>2, <2>3, <2>4 DEF InRange
    <3> QED
      BY <3>1, <3>2, TickKeeps
  <2>5. go \in Status /\ stop \in Status /\ "RUNNING" \in Status
    BY DEF Status
  <2> QED
    BY <1>6, <1>7, <1>14, <2>1, <2>2, <2>3, <2>4, <2>5 DEF LoopTick, LoopAgain
<1>15. CASE RepeatTick(n) \/ RetryTick(n)
  BY <1>14, <1>15 DEF RepeatTick, RetryTick, LoopKinds, Done
<1> QED
  BY <1>9, <1>10, <1>11, <1>12, <1>13, <1>15 DEF DecoratorTick

-----------------------------------------------------------------------------
\* Every step keeps the invariant.
LEMMA NextKeeps == ASSUME Inv, [Next]_vars PROVE Inv'
<1>1. CASE Owner
  BY <1>1, OwnerKeeps
<1>2. ASSUME NEW n \in Node, Run(n) PROVE Inv'
  <2>1. CASE ControlThrow(n) \/ DecoratorThrow(n)
    BY <2>1, UnwindKeeps DEF ControlThrow, DecoratorThrow, Throw, Inv, TypeOK
  <2> QED
    BY <1>2, <2>1, ControlKeeps, DecoratorKeeps, LeafKeeps, SharedKeeps DEF Run
<1>3. ASSUME NEW n \in Node, AsyncThread(n) \/ AsyncThreadThrow(n) PROVE Inv'
  BY <1>3, LeafKeeps
<1>4. CASE UNCHANGED vars
  BY <1>4 DEF vars, Inv, TypeOK, FrameOK, Fits, tree, memory, async, frame, caller, IndexRange
<1> QED
  BY <1>1, <1>2, <1>3, <1>4 DEF Next

\* In every tree the engine's variables hold values of their types, and every
\* index into children_nodes_ is the index of a child: no loop of a tick(),
\* and no index kept from an earlier tick, reaches beyond the children.
THEOREM TypeCorrect == Spec => []TypeOK
<1>1. Init => Inv
  BY InitInv
<1>2. Inv /\ [Next]_vars => Inv'
  BY NextKeeps
<1>3. Inv => TypeOK
  BY DEF Inv
<1> QED
  BY <1>1, <1>2, <1>3, PTL DEF Spec
-----------------------------------------------------------------------------
(* The frames of the call stack form one path of the tree, and what        *)
(* follows: which node a frame waits for, whose status a thread or a skip  *)
(* list depends on, and what the visitor of haltTree() leaves behind.      *)
(* Exceptions are included.                                                *)

On(n) == at[n] # "off"

\* The distance of a node from the root.
Depth ==
  CHOOSE d \in [Node -> 0 .. Cardinality(Node)] :
    d[Root] = 0 /\ \A c \in Node \ {Root} : d[c] = d[Parent[c]] + 1

\* Every node has a depth.
LEMMA DepthFact ==
  /\ Depth \in [Node -> Nat] /\ Depth[Root] = 0
  /\ \A c \in Node \ {Root} : Depth[c] = Depth[Parent[c]] + 1
<1>a. IsFiniteSet(Node)
  BY TreeAssumption
<1>1. Cardinality(Node) \in Nat
  BY <1>a, FS_CardinalityType
<1>2. \E d \in [Node -> 0 .. Cardinality(Node)] :
         d[Root] = 0 /\ \A c \in Node \ {Root} : d[c] = d[Parent[c]] + 1
  BY TreeAssumption
<1>3. /\ Depth \in [Node -> 0 .. Cardinality(Node)] /\ Depth[Root] = 0
      /\ \A c \in Node \ {Root} : Depth[c] = Depth[Parent[c]] + 1
  BY <1>2 DEF Depth
<1> QED
  BY <1>1, <1>3

\* A child is one deeper than its parent, and is not the root.
LEMMA ChildFact ==
  ASSUME NEW n \in Node, NEW i \in Indices(n)
  PROVE  /\ Child(n, i) \in Node \ {n, Root} /\ Parent[Child(n, i)] = n
         /\ Depth[Child(n, i)] = Depth[n] + 1
         /\ \A j \in Indices(n) : Child(n, i) = Child(n, j) => i = j
<1>1. Child(n, i) \in Node \ {n}
  BY ChildIsNode
<1>2. Parent[Child(n, i)] = n
  BY TreeAssumption
<1>3. Child(n, i) # Root
  BY <1>2, TreeAssumption
<1> QED
  BY <1>1, <1>2, <1>3, DepthFact, TreeAssumption

\* A non-empty set of natural numbers has a least element.
LEMMA LeastNat ==
  ASSUME NEW T \in SUBSET Nat, T # {}
  PROVE  \E m \in T : \A k \in T : m <= k
<1> DEFINE R == OpToRel(<, Nat)
<1>1. IsWellFoundedOn(R, Nat)
  BY NatLessThanWellFounded
<1>2. \A x, y \in Nat : x < y => <<x, y>> \in R
  BY DEF OpToRel
<1> HIDE DEF R
<1>3. PICK m \in T : \A k \in T : ~ (<<k, m>> \in R)
  BY <1>1, WFMin
<1>4. \A k \in T : ~ (k < m)
  BY <1>2, <1>3
<1> QED
  BY <1>4

\* Induction from the root down: a set of nodes that holds the root, and with
\* a node its children, holds them all.
LEMMA DownFromRoot ==
  ASSUME NEW S \in SUBSET Node, Root \in S,
         \A c \in Node \ {Root} : Parent[c] \in S => c \in S
  PROVE  S = Node
<1> SUFFICES ASSUME NEW x \in Node, x \notin S PROVE FALSE
  OBVIOUS
<1> DEFINE T == {Depth[n] : n \in Node \ S}
<1>1. T \in SUBSET Nat /\ T # {}
  BY DepthFact
<1>2. PICK m \in T : \A k \in T : m <= k
  <2> HIDE DEF T
  <2> QED
    BY <1>1, LeastNat
<1>3. PICK n \in Node \ S : m = Depth[n]
  BY <1>2
<1>4. n # Root /\ Parent[n] \in Node \ S
  BY <1>3, TreeAssumption
<1>5. Depth[Parent[n]] \in T /\ Depth[n] \in Nat /\ Depth[Parent[n]] \in Nat
  BY <1>4, DepthFact
<1>6. m <= Depth[Parent[n]]
  <2> HIDE DEF T
  <2> QED
    BY <1>2, <1>5
<1> QED
  BY <1>3, <1>4, <1>5, <1>6, DepthFact

-----------------------------------------------------------------------------
(* The invariant of the call stack.                                        *)

\* cur is the deepest frame; below it every frame waits; no two frames are
\* equally deep, and above a frame that is not the first one stands its parent.
Waits == {"await"} \cup HaltPoints

Stack ==
  /\ cur = NoNode => \A n \in Node : ~ On(n)
  /\ cur # NoNode => On(cur)
  /\ \A n \in Node : On(n) => Depth[n] <= Depth[cur]
  /\ \A n \in Node : On(n) /\ n # cur => at[n] \in Waits
  /\ \A m, n \in Node : On(m) /\ On(n) /\ Depth[m] = Depth[n] => m = n
  /\ \A m, n \in Node : On(m) /\ On(n) /\ Depth[m] < Depth[n] => On(Parent[n])

\* What the owner's method allows on the stack: a tick and the first half of
\* haltTree() start at the root, and haltTree() only halts.
Modes ==
  /\ AtRest => cur = NoNode
  /\ op \in {"halt", "visit"} => \A n \in Node : On(n) => at[n] = "stop"
  /\ op \in {"tick", "halt"} => \A n \in Node \ {Root} : On(n) => On(Parent[n])
  /\ op = "tick" => at[Root] # "stop"

\* Where a frame of each kind of node can stand.
Points ==
  \A n \in Node :
    /\ kind[n] \in LeafKinds => at[n] \in {"off", "enter", "read", "stop"}
    /\ at[n] = "read" => kind[n] \in AsyncKinds
    /\ at[n] = "switch" => kind[n] = "Switch"

\* A frame that awaits a child awaits the one its index names; the child is
\* being ticked.  A frame that halts children has taken the child from todo,
\* and the child is being halted.
Callees ==
  \A n \in Node : \A i \in Indices(n) :
    On(n) /\ On(Child(n, i)) =>
      /\ at[n] \in Waits
      /\ at[n] = "await" =>
           at[Child(n, i)] # "stop" /\ (kind[n] \in ControlKinds => i = AwaitedBy(n))
      /\ at[n] # "await" => at[Child(n, i)] = "stop" /\ i \notin todo[n]

Calls == Inv /\ Stack /\ Modes /\ Points /\ Callees

-----------------------------------------------------------------------------
(* The steps, as far as the stack can tell them apart.                     *)

\* The frame of n, on top, goes on to point p of its own tick().
Moves(n, p) ==
  /\ p \in {"loop", "leave", "switch"} /\ (p = "switch" => kind[n] = "Switch")
  /\ at' = [at EXCEPT ![n] = p] /\ UNCHANGED cur

\* ... or calls executeTick() of its child i, the one its index names.
TicksChild(n, i) ==
  /\ TickChild(n, i) /\ UNCHANGED <<loc, todo, out>>
  /\ kind[n] \in ControlKinds => i = AwaitedBy(n)'
  /\ at[n] = "switch" => todo[n] = {}

\* What every piece of a tick() of a node with children leaves alone.
OnlyOwn(n) ==
  /\ UNCHANGED <<tree, async, got, caller>>
  /\ UNCHANGED status \/ status' = [status EXCEPT ![n] = "RUNNING"]
  /\ \A m \in Node \ {n} : /\ idx'[m] = idx[m] /\ skip'[m] = skip[m] /\ loc'[m] = loc[m]
                           /\ todo'[m] = todo[m] /\ out'[m] = out[m]

TickShape(n) ==
  /\ kind[n] \notin LeafKinds /\ at[n] \in {"enter", "loop", "await", "switch"}
  /\ OnlyOwn(n)
  /\ \/ \E p \in FramePoints : Moves(n, p)
     \/ \E i \in Indices(n) : TicksChild(n, i)

\* tick() of a control node has that shape.
LEMMA ControlShape ==
  ASSUME Inv, NEW n \in Node, ControlTick(n)
  PROVE  TickShape(n)
<1> USE DEF Inv, TypeOK, FramePoints
<1>1. UNCHANGED <<tree, async, got, caller>>
  BY DEF ControlTick
<1>2. Count(n) \in Nat /\ Indices(n) = 0 .. Count(n) - 1
  BY Sizes DEF Indices
<1>3. ASSUME kind[n] \in MemoryKinds, NEW go, NEW stop, NEW Rest, NEW left,
             MemoryTick(n, go, stop, Rest, left), UNCHANGED <<skip, loc>>
      PROVE  TickShape(n)
  <2>a. kind[n] \notin LeafKinds \cup ReactiveKinds \cup {"Parallel", "Switch"} \cup DecoratorKinds
    BY <1>3, KindsDiffer
  <2>b. AwaitedBy(n)' = idx'[n]
    BY <1>1, <1>3 DEF AwaitedBy, tree
  <2>c. IndexRange(n) = 0 .. Count(n)
    BY <1>3, <2>a DEF IndexRange, DecoratorKinds
  <2>1. /\ kind[n] \notin LeafKinds \cup ReactiveKinds \cup {"Parallel", "Switch"}
        /\ AwaitedBy(n)' = idx'[n] /\ idx[n] \in 0 .. Count(n)
    BY <2>a, <2>b, <2>c
  <2>2. OnlyOwn(n) /\ at[n] \in {"enter", "loop", "await"}
    BY <1>1, <1>3 DEF OnlyOwn, MemoryTick, MemoryEnter, MemoryRunning, MemoryGo,
                      MemoryStop, MemoryDone, TickChild, Leave
  <2>3. CASE /\ at[n] = "loop" /\ idx[n] < Count(n)
             /\ TickChild(n, idx[n]) /\ UNCHANGED <<status, idx, todo, out>>
    <3>1. idx[n] \in Indices(n) /\ TicksChild(n, idx[n])
      BY <1>2, <1>3, <2>1, <2>3 DEF TicksChild
    <3> QED
      BY <2>1, <2>2, <3>1 DEF TickShape
  <2>4. CASE \E p \in {"loop", "leave"} : at' = [at EXCEPT ![n] = p] /\ UNCHANGED cur
    BY <2>1, <2>2, <2>4 DEF TickShape, Moves
  <2> QED
    BY <1>3, <2>3, <2>4 DEF MemoryTick, MemoryEnter, MemoryRunning, MemoryGo,
                            MemoryStop, MemoryDone, Leave
<1>4. ASSUME kind[n] \in ReactiveKinds, NEW go, NEW stop, ReactiveTick(n, go, stop),
             UNCHANGED <<status, memory>>
      PROVE  TickShape(n)
  <2>1. /\ kind[n] \notin LeafKinds \cup MemoryKinds \cup {"Parallel", "Switch"}
        /\ AwaitedBy(n)' = loc'[n] /\ loc[n] \in 0 .. Count(n)
    BY <1>1, <1>4, KindsDiffer DEF AwaitedBy, tree
  <2>2. OnlyOwn(n) /\ at[n] \in {"enter", "loop", "await"}
    BY <1>1, <1>4 DEF OnlyOwn, ReactiveTick, ReactiveStop, TickChild, Leave, memory
  <2>3. CASE at[n] = "loop" /\ loc[n] < Count(n) /\ TickChild(n, loc[n]) /\ UNCHANGED <<loc, todo, out>>
    <3>1. loc[n] \in Indices(n) /\ TicksChild(n, loc[n])
      BY <1>2, <2>1, <2>3 DEF TicksChild
    <3> QED
      BY <2>1, <2>2, <3>1 DEF TickShape
  <2>4. CASE \E p \in {"loop", "leave"} : at' = [at EXCEPT ![n] = p] /\ UNCHANGED cur
    BY <2>1, <2>2, <2>4 DEF TickShape, Moves
  <2> QED
    BY <1>4, <2>3, <2>4 DEF ReactiveTick, ReactiveStop, Leave
<1>5. CASE ParallelTick(n)
  <2>1. /\ kind[n] \notin LeafKinds \cup MemoryKinds /\ AwaitedBy(n)' = loc'[n]
        /\ loc[n] \in 0 .. Count(n)
    BY <1>1, <1>5 DEF ParallelTick, AwaitedBy, tree, MemoryKinds, LeafKinds, AsyncKinds
  <2>2. OnlyOwn(n) /\ at[n] \in {"enter", "loop", "await"}
    BY <1>1, <1>5 DEF OnlyOwn, ParallelTick, ParallelCount, ParallelDecide, TickChild, Leave
  <2>3. CASE /\ at[n] = "loop" /\ loc[n] < Count(n)
             /\ TickChild(n, loc[n]) /\ UNCHANGED <<skip, loc, todo, out>>
    <3>1. loc[n] \in Indices(n) /\ TicksChild(n, loc[n])
      BY <1>2, <2>1, <2>3 DEF TicksChild
    <3> QED
      BY <2>1, <2>2, <3>1 DEF TickShape
  <2>4. CASE \E p \in {"loop", "leave"} : at' = [at EXCEPT ![n] = p] /\ UNCHANGED cur
    BY <2>1, <2>2, <2>4 DEF TickShape, Moves
  <2> QED
    BY <1>5, <2>3, <2>4 DEF ParallelTick, ParallelCount, ParallelDecide, Leave
<1>6. CASE SwitchTick(n)
  <2>1. /\ kind[n] = "Switch" /\ kind[n] \notin LeafKinds \cup MemoryKinds
        /\ AwaitedBy(n)' = loc'[n] /\ loc[n] \in 0 .. Count(n)
        /\ at[n] = "switch" => loc[n] < Count(n)
    BY <1>1, <1>6 DEF SwitchTick, AwaitedBy, tree, MemoryKinds, LeafKinds, AsyncKinds, FrameOK
  <2>2. OnlyOwn(n) /\ at[n] \in {"enter", "switch", "await"}
    BY <1>1, <1>6 DEF OnlyOwn, SwitchTick, SwitchEnter, TickChild, Leave
  <2>3. CASE at[n] = "switch" /\ todo[n] = {} /\ TickChild(n, loc[n]) /\ UNCHANGED <<idx, loc, todo, out>>
    <3>1. loc[n] \in Indices(n) /\ TicksChild(n, loc[n])
      BY <1>2, <2>1, <2>3 DEF TicksChild
    <3> QED
      BY <2>1, <2>2, <3>1 DEF TickShape
  <2>4. CASE \E p \in {"switch", "leave"} : at' = [at EXCEPT ![n] = p] /\ UNCHANGED cur
    BY <2>1, <2>2, <2>4 DEF TickShape, Moves
  <2> QED
    BY <1>6, <2>3, <2>4 DEF SwitchTick, SwitchEnter, Leave
<1> QED
  BY <1>3, <1>4, <1>5, <1>6
  DEF ControlTick, SequenceTick, FallbackTick, SequenceStarTick, ReactiveSequenceTick,
      ReactiveFallbackTick, MemoryKinds, ReactiveKinds

\* tick() of a decorator has that shape.
LEMMA DecoratorShape ==
  ASSUME Inv, NEW n \in Node, DecoratorTick(n)
  PROVE  TickShape(n) /\ kind[n] \in DecoratorKinds
<1> USE DEF Inv, TypeOK, FramePoints
<1>1. UNCHANGED <<tree, skip, async, loc, got, caller>> /\ kind[n] \in DecoratorKinds
  BY DEF DecoratorTick, InverterTick, ForceSuccessTick, ForceFailureTick, SubTreeTick,
         BlackboardCheckTick, RepeatTick, RetryTick, DecoratorKinds, LoopKinds
<1> SUFFICES TickShape(n)
  BY <1>1
<1>2. kind[n] \notin ControlKinds \cup LeafKinds /\ 0 \in Indices(n)
  BY <1>1, KindsDiffer, Sizes
<1>3. ASSUME UNCHANGED status \/ status' = [status EXCEPT ![n] = "RUNNING"],
             \A m \in Node \ {n} : idx'[m] = idx[m] /\ todo'[m] = todo[m] /\ out'[m] = out[m]
      PROVE  OnlyOwn(n)
  BY <1>1, <1>3 DEF OnlyOwn
<1>4. ASSUME OnlyOwn(n), at[n] \in {"enter", "loop"}, TickChild(n, 0), UNCHANGED <<todo, out>>
      PROVE  TickShape(n)
  <2>1. TicksChild(n, 0)
    BY <1>1, <1>2, <1>4 DEF TicksChild
  <2> QED
    BY <1>2, <1>4, <2>1 DEF TickShape
<1>5. ASSUME OnlyOwn(n), at[n] \in {"enter", "loop", "await"},
             NEW p \in {"loop", "leave"}, at' = [at EXCEPT ![n] = p], UNCHANGED cur
      PROVE  TickShape(n)
  <2>1. Moves(n, p) /\ p \in FramePoints
    BY <1>5 DEF Moves
  <2> QED
    BY <1>2, <1>5, <2>1 DEF TickShape
<1>6. ASSUME NEW result, Translate(n, result), UNCHANGED idx PROVE TickShape(n)
  <2>1. OnlyOwn(n)
    BY <1>3, <1>6 DEF Translate, TickChild, Leave
  <2> QED
    BY <1>4, <1>5, <1>6, <2>1 DEF Translate, Leave
<1>7. CASE InverterTick(n) \/ ForceSuccessTick(n) \/ ForceFailureTick(n)
  <2>1. CASE InverterTick(n)
    BY <1>6, <2>1 DEF InverterTick
  <2>2. CASE ForceSuccessTick(n)
    BY <1>6, <2>2 DEF ForceSuccessTick
  <2>3. CASE ForceFailureTick(n)
    BY <1>6, <2>3 DEF ForceFailureTick
  <2> QED
    BY <1>7, <2>1, <2>2, <2>3
<1>8. CASE SubTreeTick(n)
  <2>1. UNCHANGED status \/ status' = [status EXCEPT ![n] = "RUNNING"]
    BY <1>8 DEF SubTreeTick
  <2>2. OnlyOwn(n)
    BY <1>3, <1>8, <2>1 DEF SubTreeTick, TickChild, Leave
  <2> QED
    BY <1>4, <1>5, <1>8, <2>2 DEF SubTreeTick, Leave
<1>9. CASE BlackboardCheckTick(n)
  <2>1. OnlyOwn(n)
    BY <1>3, <1>9 DEF BlackboardCheckTick, BlackboardRefuse, TickChild, Leave
  <2> QED
    BY <1>4, <1>5, <1>9, <2>1 DEF BlackboardCheckTick, BlackboardRefuse, Leave
<1>10. ASSUME NEW go, NEW stop, LoopTick(n, go, stop) PROVE TickShape(n)
  <2>1. OnlyOwn(n)
    BY <1>3, <1>10 DEF LoopTick, LoopAgain, TickChild, Leave
  <2> QED
    BY <1>4, <1>5, <1>10, <2>1 DEF LoopTick, LoopAgain, Leave
<1>11. CASE RepeatTick(n) \/ RetryTick(n)
  <2>1. CASE RepeatTick(n)
    BY <1>10, <2>1 DEF RepeatTick
  <2>2. CASE RetryTick(n)
    BY <1>10, <2>2 DEF RetryTick
  <2> QED
    BY <1>11, <2>1, <2>2
<1> QED
  BY <1>1, <1>7, <1>8, <1>9, <1>11 DEF DecoratorTick

-----------------------------------------------------------------------------
(* Every step keeps the invariant of the call stack.                       *)

\* Between calls there is no frame.
LEMMA InitCalls == ASSUME Init PROVE Calls
<1>1. Inv
  BY InitInv
<1>2. \A n \in Node : at[n] = "off"
  BY DEF Init
<1>3. cur = NoNode /\ op = "rest"
  BY DEF Init
<1> QED
  BY <1>1, <1>2, <1>3 DEF Calls, Stack, Modes, Points, Callees, On, AtRest

\* The frame on top has no frame below it: none of its children has one.
LEMMA TopHasNoCallee ==
  ASSUME Calls, cur \in Node, NEW i \in Indices(cur)
  PROVE  ~ On(Child(cur, i))
<1>1. Depth[Child(cur, i)] = Depth[cur] + 1 /\ Child(cur, i) \in Node
  BY ChildFact
<1> QED
  BY <1>1, DepthFact DEF Calls, Stack

\* A call keeps the stack a path.
LEMMA PushStack ==
  ASSUME Calls, NEW k \in Node, cur = k, NEW i \in Indices(k),
         cur' = Child(k, i), at'[k] \in Waits, at'[Child(k, i)] # "off",
         \A m \in Node \ {k, Child(k, i)} : at'[m] = at[m]
  PROVE  Stack'
<1> DEFINE c == Child(k, i)
<1>1. c \in Node \ {k} /\ Parent[c] = k /\ Depth[c] = Depth[k] + 1
  BY ChildFact
<1>2. \A m \in Node : On(m)' => m = c \/ On(m)
  BY TreeAssumption DEF On, Calls, Stack
<1>3. On(k) /\ On(k)' /\ On(c)' /\ cur' = c
  BY TreeAssumption DEF On, Calls, Stack, Waits, HaltPoints
<1> HIDE DEF c
<1>4. \A m \in Node : On(m) => Depth[m] <= Depth[k] /\ Depth[m] < Depth[c]
  BY <1>1, DepthFact DEF Calls, Stack
<1>5. \A m \in Node : On(m)' /\ m # c => at'[m] \in Waits
  BY <1>1, <1>2 DEF Calls, Stack, On, c
<1>6. \A m \in Node : On(m)' => Depth[m] <= Depth[c]
  BY <1>1, <1>2, <1>4, DepthFact
<1>7. \A m, n \in Node : On(m)' /\ On(n)' /\ Depth[m] = Depth[n] => m = n
  BY <1>1, <1>2, <1>4, DepthFact DEF Calls, Stack
<1>8. \A m, n \in Node : On(m)' /\ On(n)' /\ Depth[m] < Depth[n] => On(Parent[n])'
  <2> SUFFICES ASSUME NEW m \in Node, NEW n \in Node, On(m)', On(n)', Depth[m] < Depth[n]
               PROVE  On(Parent[n])'
    OBVIOUS
  <2>1. CASE n = c
    BY <1>1, <1>3, <2>1
  <2>2. CASE n # c
    <3>1. On(n) /\ On(m)
      BY <1>1, <1>2, <1>4, <2>2, DepthFact
    <3>2. On(Parent[n])
      BY <3>1 DEF Calls, Stack
    <3>3. n # Root /\ Parent[n] \in Node
      BY DepthFact, TreeAssumption
    <3> QED
      BY <1>1, <1>3, <3>2, <3>3 DEF On, c
  <2> QED
    BY <2>1, <2>2
<1> QED
  BY <1>1, <1>3, <1>5, <1>6, <1>7, <1>8, TreeAssumption DEF Stack

\* A return keeps the stack a path, and goes back to the parent.
LEMMA PopStack ==
  ASSUME Calls, NEW n \in Node, cur = n, Pop(n)
  PROVE  /\ Stack'
         /\ ~ On(n)' /\ \A m \in Node \ {n} : at'[m] = at[m]
         /\ cur' = NoNode \/ (n # Root /\ cur' = Parent[n] /\ On(Parent[n]))
         /\ cur' = NoNode /\ op \in {"tick", "halt"} => n = Root
<1>1. at \in [Node -> FramePoints]
  BY DEF Calls, Inv, TypeOK
<1>2. ~ On(n)' /\ \A m \in Node \ {n} : at'[m] = at[m]
  BY <1>1 DEF Pop, On
<1>3. \A m \in Node : On(m)' => On(m) /\ m # n /\ Depth[m] < Depth[n]
  BY <1>2, DepthFact DEF On, Calls, Stack
<1>4. CASE n # Root /\ at[Parent[n]] # "off"
  <2>1. cur' = Parent[n] /\ Parent[n] \in Node /\ Depth[n] = Depth[Parent[n]] + 1
    BY <1>4, DepthFact, TreeAssumption DEF Pop
  <2>2. Parent[n] # n /\ On(Parent[n])'
    BY <1>2, <1>4, <2>1, DepthFact DEF On
  <2>3. \A m \in Node : On(m)' => Depth[m] <= Depth[Parent[n]]
    BY <1>3, <2>1, DepthFact
  <2>4. \A m, k \in Node : On(m)' /\ On(k)' /\ Depth[m] < Depth[k] => On(Parent[k])'
    <3> SUFFICES ASSUME NEW m \in Node, NEW k \in Node, On(m)', On(k)', Depth[m] < Depth[k]
                 PROVE  On(Parent[k])'
      OBVIOUS
    <3>1. On(Parent[k]) /\ Depth[k] < Depth[n]
      BY <1>3 DEF Calls, Stack
    <3>2. k # Root /\ Parent[k] \in Node /\ Depth[k] = Depth[Parent[k]] + 1
      BY DepthFact, TreeAssumption
    <3> QED
      BY <1>2, <3>1, <3>2, DepthFact DEF On
  <2>5. Stack'
    <3>1. \A m \in Node : On(m)' /\ m # cur' => at'[m] \in Waits
      BY <1>2, <1>3 DEF Calls, Stack
    <3>2. \A m, k \in Node : On(m)' /\ On(k)' /\ Depth[m] = Depth[k] => m = k
      BY <1>3 DEF Calls, Stack
    <3> QED
      BY <2>1, <2>2, <2>3, <2>4, <3>1, <3>2, TreeAssumption DEF Stack
  <2> QED
    BY <1>2, <1>4, <2>1, <2>5, TreeAssumption DEF On
<1>5. CASE ~ (n # Root /\ at[Parent[n]] # "off")
  <2>1. cur' = NoNode
    BY <1>5 DEF Pop
  <2>2. n # Root => ~ On(Parent[n])
    BY <1>5 DEF On
  <2>3. \A m \in Node : ~ On(m)'
    <3> SUFFICES ASSUME NEW m \in Node, On(m)' PROVE FALSE
      OBVIOUS
    <3>1. On(m) /\ Depth[m] < Depth[n] /\ On(n)
      BY <1>3, TreeAssumption DEF Calls, Stack
    <3>2. On(Parent[n]) /\ n # Root
      BY <3>1, DepthFact DEF Calls, Stack
    <3> QED
      BY <2>2, <3>2
  <2>4. Stack'
    BY <2>1, <2>3 DEF Stack
  <2>5. op \in {"tick", "halt"} => n = Root
    BY <2>2, TreeAssumption DEF Calls, Stack, Modes
  <2> QED
    BY <1>2, <2>1, <2>4, <2>5
<1> QED
  BY <1>4, <1>5

\* The frame on top stands somewhere else: the path is the same.
LEMMA StayStack ==
  ASSUME Calls, NEW n \in Node, cur = n, cur' = n, NEW p, p # "off", at' = [at EXCEPT ![n] = p]
  PROVE  Stack' /\ \A m \in Node : On(m)' <=> On(m)
<1>1. at \in [Node -> FramePoints]
  BY DEF Calls, Inv, TypeOK
<1>2. On(n)
  BY TreeAssumption DEF Calls, Stack
<1>3. \A m \in Node : On(m)' <=> On(m)
  BY <1>1, <1>2 DEF On
<1>4. \A m \in Node : On(m) /\ m # Root => Parent[m] \in Node
  BY TreeAssumption
<1>5. \A m, k \in Node : On(m)' /\ On(k)' /\ Depth[m] < Depth[k] => On(Parent[k])'
  <2> SUFFICES ASSUME NEW m \in Node, NEW k \in Node, On(m)', On(k)', Depth[m] < Depth[k]
               PROVE  On(Parent[k])'
    OBVIOUS
  <2>1. k # Root
    BY DepthFact
  <2> QED
    BY <1>3, <1>4, <2>1 DEF Calls, Stack
<1> QED
  BY <1>1, <1>3, <1>5, TreeAssumption DEF Calls, Stack

\* A piece of a tick() keeps the invariant: only the tick of a tree runs one.
LEMMA TickCalls ==
  ASSUME Calls, Inv', NEW n \in Node, cur = n, TickShape(n)
  PROVE  Calls'
<1> USE DEF Calls
<1>1. /\ at \in [Node -> FramePoints] /\ op \in {"rest", "tick", "halt", "visit", "thrown"}
      /\ kind' = kind /\ op' = op
  BY DEF Inv, TypeOK, TickShape, OnlyOwn, tree, caller
<1>2. On(n) /\ op = "tick" /\ op' = "tick"
  BY <1>1, TreeAssumption DEF TickShape, Modes, On, AtRest
<1>3. \A i \in Indices(n) : ~ On(Child(n, i))
  BY TopHasNoCallee
<1>4. ASSUME NEW p, Moves(n, p) PROVE Calls'
  <2>1. Stack' /\ \A m \in Node : On(m)' <=> On(m)
    BY <1>4, StayStack DEF Moves
  <2>2. Modes'
    BY <1>1, <1>2, <1>4, <2>1, TreeAssumption DEF Modes, Moves, AtRest
  <2>3. Points'
    BY <1>1, <1>4 DEF Points, Moves, TickShape
  <2>4. \A m \in Node \ {n} : at'[m] = at[m] /\ AwaitedBy(m)' = AwaitedBy(m) /\ todo'[m] = todo[m]
    BY <1>1, <1>4 DEF Moves, TickShape, OnlyOwn, AwaitedBy
  <2>5. Callees'
    <3> SUFFICES ASSUME NEW m \in Node, NEW i \in Indices(m), On(m)', On(Child(m, i))'
                 PROVE  /\ at'[m] \in Waits
                        /\ at'[m] = "await" => /\ at'[Child(m, i)] # "stop"
                                               /\ kind[m] \in ControlKinds => i = AwaitedBy(m)'
                        /\ at'[m] # "await" => at'[Child(m, i)] = "stop" /\ i \notin todo'[m]
      BY <1>1 DEF Callees
    <3>1. Child(m, i) \in Node \ {m}
      BY ChildIsNode
    <3>2. m # n /\ On(m) /\ On(Child(m, i))
      BY <1>3, <2>1, <3>1
    <3>3. CASE Child(m, i) # n
      BY <2>4, <3>1, <3>2, <3>3 DEF Callees
    <3>4. CASE Child(m, i) = n
      <4>1. at'[n] # "stop" /\ at[n] # "stop"
        BY <1>1, <1>4 DEF Moves, TickShape
      <4> QED
        BY <2>4, <3>2, <3>4, <4>1 DEF Callees
    <3> QED
      BY <3>3, <3>4
  <2> QED
    BY <2>1, <2>2, <2>3, <2>5
<1>5. ASSUME NEW i \in Indices(n), TicksChild(n, i) PROVE Calls'
  <2> DEFINE c == Child(n, i)
  <2>1. /\ c \in Node \ {n, Root} /\ Parent[c] = n
        /\ at'[n] = "await" /\ at'[c] = "enter" /\ cur' = c
        /\ \A m \in Node \ {n, c} : at'[m] = at[m]
    BY <1>1, <1>5, ChildFact DEF TicksChild, TickChild
  <2>2. Stack'
    BY <1>5, <2>1, PushStack DEF Waits
  <2>3. Modes'
    <3>1. \A m \in Node \ {Root} : On(m)' => On(Parent[m])'
      <4> SUFFICES ASSUME NEW m \in Node \ {Root}, On(m)' PROVE On(Parent[m])'
        OBVIOUS
      <4>1. Parent[m] \in Node
        BY TreeAssumption
      <4>2. CASE m = c
        BY <2>1, <4>2 DEF On
      <4>3. CASE m # c
        <5>1. On(m)
          BY <1>2, <2>1, <4>3 DEF On
        <5>2. On(Parent[m])
          BY <1>2, <5>1 DEF Modes
        <5> QED
          BY <2>1, <4>1, <5>2 DEF On
      <4> QED
        BY <4>2, <4>3
    <3>2. at'[Root] # "stop"
      BY <1>2, <2>1, TreeAssumption DEF Modes
    <3> QED
      BY <1>2, <3>1, <3>2 DEF Modes, AtRest
  <2>4. Points'
    BY <1>1, <2>1 DEF Points, TickShape
  <2>5. \A m \in Node \ {n} : AwaitedBy(m)' = AwaitedBy(m) /\ todo'[m] = todo[m]
    BY <1>1 DEF TickShape, OnlyOwn, AwaitedBy
  <2>6. Callees'
    <3> SUFFICES ASSUME NEW m \in Node, NEW j \in Indices(m), On(m)', On(Child(m, j))'
                 PROVE  /\ at'[m] \in Waits
                        /\ at'[m] = "await" => /\ at'[Child(m, j)] # "stop"
                                               /\ kind[m] \in ControlKinds => j = AwaitedBy(m)'
                        /\ at'[m] # "await" => at'[Child(m, j)] = "stop" /\ j \notin todo'[m]
      BY <1>1 DEF Callees
    <3>1. /\ Child(m, j) \in Node \ {m} /\ Parent[Child(m, j)] = m
          /\ Depth[Child(m, j)] = Depth[m] + 1
          /\ \A k \in Indices(m) : Child(m, j) = Child(m, k) => j = k
      BY ChildFact
    <3>2. CASE m = n
      <4>1. Child(m, j) = c
        BY <1>3, <2>1, <3>1, <3>2 DEF On
      <4>2. j = i
        BY <3>1, <3>2, <4>1
      <4> QED
        BY <1>5, <2>1, <3>2, <4>1, <4>2 DEF TicksChild, Waits
    <3>3. CASE m = c
      <4>1. Depth[Child(m, j)] = Depth[n] + 2 /\ Child(m, j) # n
        BY <2>1, <3>1, <3>3, ChildFact, DepthFact
      <4>2. On(Child(m, j))
        BY <2>1, <3>1, <3>3, <4>1 DEF On
      <4>3. Depth[Child(m, j)] <= Depth[n]
        BY <3>1, <4>2 DEF Stack
      <4> QED
        BY <4>1, <4>3, DepthFact
    <3>4. CASE m \notin {n, c}
      <4>1. Child(m, j) # c /\ On(m)
        BY <2>1, <3>1, <3>4 DEF On
      <4>2. On(Child(m, j)) /\ at[n] # "stop"
        BY <1>2, <2>1, <3>1, <4>1 DEF On, TickShape
      <4>3. at'[Child(m, j)] = "stop" <=> at[Child(m, j)] = "stop"
        BY <2>1, <3>1, <4>1, <4>2
      <4> QED
        BY <2>1, <2>5, <3>4, <4>1, <4>2, <4>3 DEF Callees
    <3> QED
      BY <3>2, <3>3, <3>4
  <2> QED
    BY <2>2, <2>3, <2>4, <2>6
<1> QED
  BY <1>4, <1>5 DEF TickShape

\* A halt of the lowest child left is the call of its halt(), when it is
\* RUNNING, or just sets it IDLE.
HaltsRunning(n, i) ==
  LET c == Child(n, i) IN
  /\ status[c] = "RUNNING" /\ UNCHANGED status
  /\ at' = [at EXCEPT ![c] = "stop"] /\ cur' = c
  /\ todo' = [todo EXCEPT ![n] = @ \ {i}, ![c] = Indices(c)]
  /\ idx' = [idx EXCEPT ![c] = FirstIdx(kind[c])] /\ skip' = [skip EXCEPT ![c] = {}]
  /\ haltRequested' = [haltRequested EXCEPT ![c] = (kind[c] \in AsyncKinds)]

SetsIdle(n, i) ==
  LET c == Child(n, i) IN
  /\ status[c] # "RUNNING" /\ status' = [status EXCEPT ![c] = "IDLE"]
  /\ todo' = [todo EXCEPT ![n] = @ \ {i}]
  /\ UNCHANGED <<at, cur, memory, haltRequested>>

\* HaltChild does one of the two.
LEMMA HaltShape ==
  ASSUME Inv, NEW n \in Node, HaltChild(n)
  PROVE  /\ at[n] \in HaltPoints /\ UNCHANGED <<tree, thread, loc, out, caller>>
         /\ \E i \in Indices(n) :
              /\ i \in todo[n] /\ got' = [got EXCEPT ![Child(n, i)] = "IDLE"]
              /\ HaltsRunning(n, i) \/ SetsIdle(n, i)
<1>1. todo[n] \subseteq Indices(n)
  BY DEF Inv, TypeOK
<1>2. at[n] \in HaltPoints /\ UNCHANGED <<tree, thread, loc, out, caller>>
  BY DEF HaltChild
<1>3. PICK i \in todo[n] : LET c == Child(n, i) IN
        /\ got' = [got EXCEPT ![c] = "IDLE"]
        /\ \/ /\ status[c] = "RUNNING"
              /\ at' = [at EXCEPT ![c] = "stop"]
              /\ cur' = c
              /\ todo' = [todo EXCEPT ![n] = @ \ {i}, ![c] = Indices(c)]
              /\ ResetMembers(c)
              /\ UNCHANGED status
           \/ /\ status[c] # "RUNNING"
              /\ status' = [status EXCEPT ![c] = "IDLE"]
              /\ todo' = [todo EXCEPT ![n] = @ \ {i}]
              /\ UNCHANGED <<at, cur, memory, haltRequested>>
  BY DEF HaltChild
<1>4. HaltsRunning(n, i) \/ SetsIdle(n, i)
  BY <1>3 DEF HaltsRunning, SetsIdle, ResetMembers
<1> QED
  BY <1>1, <1>2, <1>3, <1>4

\* haltChild() keeps the invariant of the call stack.
LEMMA HaltChildCalls ==
  ASSUME Calls, Inv', NEW n \in Node, cur = n, HaltChild(n)
  PROVE  Calls'
<1> USE DEF Calls
<1>1. PICK i \in Indices(n) : i \in todo[n] /\ (HaltsRunning(n, i) \/ SetsIdle(n, i))
  BY HaltShape
<1>2. /\ at \in [Node -> FramePoints] /\ todo \in [Node -> SUBSET Int]
      /\ at[n] \in HaltPoints /\ kind' = kind /\ op' = op /\ loc' = loc
  BY HaltShape DEF Inv, TypeOK, tree, caller
<1> DEFINE c == Child(n, i)
<1>3. /\ c \in Node \ {n, Root} /\ Parent[c] = n /\ Depth[c] = Depth[n] + 1
  BY ChildFact
<1>4. On(n) /\ \A j \in Indices(n) : ~ On(Child(n, j))
  BY TopHasNoCallee, TreeAssumption DEF Stack
<1>5. CASE SetsIdle(n, i)
  <2>1. UNCHANGED <<at, cur, idx>> /\ \A m \in Node : todo'[m] \subseteq todo[m]
    BY <1>2, <1>5 DEF SetsIdle, memory
  <2>2. Stack' /\ Modes' /\ Points'
    BY <1>2, <2>1 DEF Stack, Modes, Points, On, AtRest
  <2>3. Callees'
    <3>1. \A m \in Node : On(m)' = On(m) /\ AwaitedBy(m)' = AwaitedBy(m)
      BY <1>2, <2>1 DEF On, AwaitedBy
    <3> SUFFICES ASSUME NEW m \in Node, NEW j \in Indices(m), On(m), On(Child(m, j))
                 PROVE  /\ at[m] \in Waits
                        /\ at[m] = "await" => /\ at[Child(m, j)] # "stop"
                                              /\ kind[m] \in ControlKinds => j = AwaitedBy(m)
                        /\ at[m] # "await" => at[Child(m, j)] = "stop" /\ j \notin todo'[m]
      BY <1>2, <2>1, <3>1, ChildIsNode DEF Callees
    <3> QED
      BY <2>1 DEF Callees
  <2> QED
    BY <2>2, <2>3
<1>6. CASE HaltsRunning(n, i)
  <2>1. /\ at'[n] \in HaltPoints /\ at'[c] = "stop" /\ cur' = c
        /\ \A m \in Node \ {c} : at'[m] = at[m]
        /\ \A m \in Node \ {c} : idx'[m] = idx[m]
        /\ todo'[n] = todo[n] \ {i} /\ \A m \in Node \ {n, c} : todo'[m] = todo[m]
    <3>1. idx \in [Node -> Int]
      BY DEF Inv, TypeOK
    <3> QED
      BY <1>2, <1>3, <1>6, <3>1 DEF HaltsRunning
  <2>2. Stack'
    <3>1. cur' = Child(n, i) /\ at'[n] \in Waits /\ at'[Child(n, i)] # "off"
          /\ \A m \in Node \ {n, Child(n, i)} : at'[m] = at[m]
      BY <2>1 DEF Waits
    <3> QED
      BY <3>1, PushStack
  <2>3. Modes'
    <3>1. op # "rest" /\ op # "thrown"
      BY TreeAssumption DEF Modes, AtRest
    <3>2. op \in {"halt", "visit"} => \A m \in Node : On(m)' => at'[m] = "stop"
      BY <2>1 DEF Modes, On
    <3>3. op \in {"tick", "halt"} => \A m \in Node \ {Root} : On(m)' => On(Parent[m])'
      <4> SUFFICES ASSUME op \in {"tick", "halt"}, NEW m \in Node \ {Root}, On(m)'
                   PROVE  On(Parent[m])'
        OBVIOUS
      <4>1. Parent[m] \in Node
        BY TreeAssumption
      <4>2. CASE m = c
        BY <1>3, <2>1, <4>2 DEF On, HaltPoints
      <4>3. CASE m # c
        <5>1. On(m)
          BY <2>1, <4>3 DEF On
        <5>2. On(Parent[m])
          BY <5>1 DEF Modes
        <5> QED
          BY <2>1, <4>1, <5>2 DEF On
      <4> QED
        BY <4>2, <4>3
    <3>4. op = "tick" => at'[Root] # "stop"
      BY <1>3, <2>1, TreeAssumption DEF Modes
    <3> QED
      BY <1>2, <3>1, <3>2, <3>3, <3>4 DEF Modes, AtRest
  <2>4. Points'
    BY <1>2, <1>3, <2>1 DEF Points
  <2>5. Callees'
    <3>1. \A m \in Node \ {c} : AwaitedBy(m)' = AwaitedBy(m)
      BY <1>2, <2>1 DEF AwaitedBy
    <3> SUFFICES ASSUME NEW m \in Node, NEW j \in Indices(m), On(m)', On(Child(m, j))'
                 PROVE  /\ at'[m] \in Waits
                        /\ at'[m] = "await" => /\ at'[Child(m, j)] # "stop"
                                               /\ kind[m] \in ControlKinds => j = AwaitedBy(m)'
                        /\ at'[m] # "await" => at'[Child(m, j)] = "stop" /\ j \notin todo'[m]
      BY <1>2 DEF Callees
    <3>2. /\ Child(m, j) \in Node \ {m} /\ Parent[Child(m, j)] = m
          /\ Depth[Child(m, j)] = Depth[m] + 1
          /\ \A k \in Indices(m) : Child(m, j) = Child(m, k) => j = k
      BY ChildFact
    <3>3. CASE m = n
      <4>1. Child(m, j) = c
        BY <1>4, <2>1, <3>2, <3>3 DEF On
      <4>2. j = i
        BY <3>2, <3>3, <4>1
      <4> QED
        BY <2>1, <3>3, <4>1, <4>2 DEF Waits, HaltPoints
    <3>4. CASE m = c
      <4>1. Depth[Child(m, j)] = Depth[n] + 2 /\ Child(m, j) # n
        BY <1>3, <3>2, <3>4, DepthFact
      <4>2. On(Child(m, j))
        BY <2>1, <3>2, <3>4, <4>1 DEF On
      <4>3. Depth[Child(m, j)] <= Depth[n]
        BY <3>2, <4>2 DEF Stack
      <4> QED
        BY <4>1, <4>3, DepthFact
    <3>5. CASE m \notin {n, c}
      <4>1. Child(m, j) # c /\ On(m)
        BY <1>3, <2>1, <3>2, <3>5 DEF On
      <4>2. On(Child(m, j)) /\ at'[Child(m, j)] = at[Child(m, j)]
        BY <2>1, <3>2, <4>1 DEF On
      <4> QED
        BY <2>1, <3>1, <3>5, <4>1, <4>2 DEF Callees
    <3> QED
      BY <3>3, <3>4, <3>5
  <2> QED
    BY <2>2, <2>3, <2>4, <2>5
<1> QED
  BY <1>1, <1>5, <1>6

\* The return of a frame keeps the invariant.
LEMMA PopCalls ==
  ASSUME Calls, Inv', NEW n \in Node, cur = n, Pop(n),
         UNCHANGED <<tree, memory, async, todo, caller>>
  PROVE  Calls'
<1> USE DEF Calls
<1>1. /\ at \in [Node -> FramePoints] /\ loc \in [Node -> Int]
      /\ kind' = kind /\ op' = op /\ idx' = idx /\ todo' = todo
  BY DEF Inv, TypeOK, tree, caller, memory
<1>2. /\ Stack' /\ ~ On(n)' /\ \A m \in Node \ {n} : at'[m] = at[m]
  BY PopStack
<1>3. op \notin {"rest", "thrown"}
  BY TreeAssumption DEF Modes, AtRest
<1>4. \A i \in Indices(n) : ~ On(Child(n, i))
  BY TopHasNoCallee
<1>5. Modes'
  <2>1. op \in {"halt", "visit"} => \A m \in Node : On(m)' => at'[m] = "stop"
    BY <1>2 DEF Modes, On
  <2>2. op \in {"tick", "halt"} => \A m \in Node \ {Root} : On(m)' => On(Parent[m])'
    <3> SUFFICES ASSUME op \in {"tick", "halt"}, NEW m \in Node \ {Root}, On(m)'
                 PROVE  On(Parent[m])'
      OBVIOUS
    <3>1. On(m) /\ m # n /\ Parent[m] \in Node /\ m \in Kids(Parent[m])
      BY <1>2, TreeAssumption DEF On
    <3>2. On(Parent[m]) /\ Parent[m] # n
      BY <1>4, <3>1 DEF Modes, Kids
    <3> QED
      BY <1>2, <3>1, <3>2 DEF On
  <2>3. op = "tick" => at'[Root] # "stop"
    BY <1>2, TreeAssumption DEF Modes, On
  <2> QED
    BY <1>1, <1>3, <2>1, <2>2, <2>3 DEF Modes, AtRest
<1>6. Points'
  BY <1>1, <1>2 DEF Points, On
<1>7. Callees'
  <2>1. \A m \in Node \ {n} : AwaitedBy(m)' = AwaitedBy(m)
    BY <1>1 DEF AwaitedBy, Pop
  <2> SUFFICES ASSUME NEW m \in Node, NEW j \in Indices(m), On(m)', On(Child(m, j))'
               PROVE  /\ at'[m] \in Waits
                      /\ at'[m] = "await" => /\ at'[Child(m, j)] # "stop"
                                             /\ kind[m] \in ControlKinds => j = AwaitedBy(m)'
                      /\ at'[m] # "await" => at'[Child(m, j)] = "stop" /\ j \notin todo'[m]
    BY <1>1 DEF Callees
  <2>2. m # n /\ Child(m, j) # n /\ Child(m, j) \in Node
    BY <1>2, ChildIsNode
  <2>3. On(m) /\ On(Child(m, j)) /\ at'[Child(m, j)] = at[Child(m, j)] /\ at'[m] = at[m]
    BY <1>2, <2>2 DEF On
  <2> QED
    BY <1>1, <2>1, <2>2, <2>3 DEF Callees
<1> QED
  BY <1>2, <1>5, <1>6, <1>7

\* A frame that stays on top, at a point from which it calls nobody, keeps the
\* invariant.
LEMMA StayCalls ==
  ASSUME Calls, Inv', NEW n \in Node, cur = n, cur' = n, NEW p \in {"reset", "read"},
         at' = [at EXCEPT ![n] = p], at[n] # "stop", p = "read" => kind[n] \in AsyncKinds,
         p = "reset" => kind[n] \notin LeafKinds,
         UNCHANGED <<tree, memory, loc, todo, caller>>
  PROVE  Calls'
<1> USE DEF Calls
<1>1. /\ at \in [Node -> FramePoints] /\ kind' = kind /\ op' = op /\ UNCHANGED <<idx, loc, todo>>
  BY DEF Inv, TypeOK, tree, caller, memory
<1>2. Stack' /\ \A m \in Node : On(m)' <=> On(m)
  BY StayStack
<1>3. /\ \A i \in Indices(n) : ~ On(Child(n, i))
      /\ \A m \in Node \ {n} : at'[m] = at[m]
      /\ at'[n] = p /\ On(n)
  BY <1>1, TopHasNoCallee, TreeAssumption DEF Stack
<1>4. op = "tick"
  BY <1>3, TreeAssumption DEF Modes, Inv, TypeOK, AtRest
<1>5. Modes'
  BY <1>1, <1>2, <1>3, <1>4, TreeAssumption DEF Modes, AtRest
<1>6. Points'
  BY <1>1, <1>3 DEF Points
<1>7. \A m \in Node : AwaitedBy(m)' = AwaitedBy(m)
  BY <1>1 DEF AwaitedBy
<1>8. Callees'
  <2> SUFFICES ASSUME NEW m \in Node, NEW j \in Indices(m), On(m)', On(Child(m, j))'
               PROVE  /\ at'[m] \in Waits
                      /\ at'[m] = "await" => /\ at'[Child(m, j)] # "stop"
                                             /\ kind[m] \in ControlKinds => j = AwaitedBy(m)'
                      /\ at'[m] # "await" => at'[Child(m, j)] = "stop" /\ j \notin todo'[m]
    BY <1>1 DEF Callees
  <2>1. Child(m, j) \in Node \ {m}
    BY ChildIsNode
  <2>2. m # n /\ On(m) /\ On(Child(m, j))
    BY <1>2, <1>3, <2>1
  <2>3. at'[Child(m, j)] = "stop" <=> at[Child(m, j)] = "stop"
    BY <1>3, <2>1
  <2> QED
    BY <1>1, <1>3, <1>7, <2>2, <2>3 DEF Callees
<1> QED
  BY <1>2, <1>5, <1>6, <1>8

\* The first frame of a call the owner makes keeps the invariant.
LEMMA BaseCalls ==
  ASSUME Calls, Inv', NEW n \in Node, cur = NoNode, cur' = n, NEW p \in {"enter", "stop"},
         at' = [at EXCEPT ![n] = p], UNCHANGED kind,
         \/ p = "enter" /\ op' = "tick" /\ n = Root
         \/ p = "stop" /\ op' = "halt" /\ n = Root
         \/ p = "stop" /\ op' = "visit"
  PROVE  Calls'
<1> USE DEF Calls
<1>1. at \in [Node -> FramePoints]
  BY DEF Inv, TypeOK
<1>2. \A m \in Node : ~ On(m)
  BY DEF Stack
<1>3. On(n)' /\ at'[n] = p /\ \A m \in Node : On(m)' => m = n
  BY <1>1, <1>2 DEF On
<1>4. Stack'
  BY <1>3, TreeAssumption, DepthFact DEF Stack
<1>5. Modes'
  BY <1>3 DEF Modes, AtRest, On
<1>6. Points'
  BY <1>1 DEF Points
<1>7. Callees'
  <2>1. \A m \in Node : \A i \in Indices(m) : Child(m, i) \in Node \ {m}
    BY ChildIsNode
  <2> QED
    BY <1>3, <2>1 DEF Callees
<1> QED
  BY <1>4, <1>5, <1>6, <1>7

\* An empty stack keeps the invariant in every mode.
LEMMA EmptyCalls ==
  ASSUME Inv', UNCHANGED kind, cur' = NoNode, \A n \in Node : at'[n] = "off"
  PROVE  Calls'
BY TreeAssumption DEF Calls, Stack, Modes, Points, Callees, On, AtRest

\* Every step keeps the invariant of the call stack.
LEMMA NextCalls == ASSUME Calls, [Next]_vars PROVE Calls'
<1>1. Inv'
  BY NextKeeps DEF Calls
<1>2. at \in [Node -> FramePoints]
  BY DEF Calls, Inv, TypeOK
<1>3. CASE Owner
  <2>1. CASE TickRoot
    BY <1>1, <2>1, BaseCalls, TreeAssumption DEF TickRoot, Calls, Modes, AtRest, tree
  <2>2. CASE TickRootReturn \/ HaltTreeVisit \/ HaltTreeReturn
    <3>1. cur = NoNode /\ UNCHANGED <<at, cur, kind>>
      BY <2>2 DEF TickRootReturn, HaltTreeVisit, HaltTreeReturn, tree
    <3> QED
      BY <1>1, <3>1, EmptyCalls DEF Calls, Stack, On
  <2>3. CASE HaltTree
    BY <1>1, <2>3, BaseCalls, TreeAssumption DEF HaltTree, CallHalt, Calls, Modes, AtRest, tree
  <2>4. CASE VisitNode
    <3>1. Head(visit) \in Node
      BY <2>4 DEF VisitNode, Calls, Inv, TypeOK
    <3> QED
      BY <1>1, <2>4, <3>1, BaseCalls DEF VisitNode, CallHalt, tree
  <2> QED
    BY <1>3, <2>1, <2>2, <2>3, <2>4 DEF Owner
<1>4. ASSUME NEW n \in Node, Run(n) PROVE Calls'
  <2>1. cur = n
    BY <1>4 DEF Run
  <2>2. CASE ControlTick(n) \/ DecoratorTick(n)
    BY <1>1, <2>1, <2>2, ControlShape, DecoratorShape, TickCalls DEF Calls
  <2>3. CASE ControlThrow(n) \/ DecoratorThrow(n) \/ SyncThrow(n)
    <3>1. Unwind
      BY <2>3 DEF ControlThrow, DecoratorThrow, SyncThrow, Throw
    <3> QED
      BY <1>1, <3>1, EmptyCalls DEF Unwind, tree
  <2>4. CASE HaltChild(n)
    BY <1>1, <2>1, <2>4, HaltChildCalls
  <2>5. CASE Halted(n) \/ ResetChild(n)
    BY <1>1, <2>1, <2>5, PopCalls DEF Halted, ResetChild
  <2>6. CASE Ticked(n)
    <3>1. CASE kind[n] \in DecoratorKinds
      <4>1. kind[n] \notin LeafKinds
        BY <3>1, KindsDiffer
      <4> QED
        BY <1>1, <2>1, <2>6, <3>1, <4>1, StayCalls DEF Ticked
    <3>2. CASE kind[n] \notin DecoratorKinds
      BY <1>1, <2>1, <2>6, <3>2, PopCalls DEF Ticked
    <3> QED
      BY <3>1, <3>2
  <2>7. ASSUME NEW s, Return(n, s) PROVE Calls'
    BY <1>1, <2>1, <2>7, PopCalls DEF Return
  <2>8. CASE SyncTick(n) \/ StatefulTick(n) \/ AsyncRead(n)
    BY <2>7, <2>8 DEF SyncTick, StatefulTick, AsyncRead
  <2>9. CASE AsyncStart(n)
    <3>1. kind[n] \in AsyncKinds /\ at[n] = "enter" /\ at' = [at EXCEPT ![n] = "read"] /\ cur' = n
          /\ UNCHANGED <<tree, memory, loc, todo, caller>>
      BY <2>1, <2>9 DEF AsyncStart, frame
    <3> QED
      BY <1>1, <2>1, <3>1, StayCalls
  <2> QED
    BY <1>4, <2>2, <2>3, <2>4, <2>5, <2>6, <2>8, <2>9 DEF Run, LeafTick
<1>5. ASSUME UNCHANGED <<tree, memory, at, cur, frame, caller>> PROVE Calls'
  BY <1>1, <1>5 DEF Calls, Stack, Modes, Points, Callees, On, AwaitedBy, AtRest,
                    tree, memory, frame, caller
<1>6. ASSUME NEW n \in Node, AsyncThread(n) \/ AsyncThreadThrow(n) PROVE Calls'
  BY <1>5, <1>6 DEF AsyncThread, AsyncThreadThrow
<1>7. CASE UNCHANGED vars
  BY <1>5, <1>7 DEF vars
<1> QED
  BY <1>3, <1>4, <1>6, <1>7 DEF Next

-----------------------------------------------------------------------------
(* Threads.  ThreadIsRunning needs to know that only asynchronous actions  *)
(* have one, and that a root that has just returned a result has none: it  *)
(* is the owner who resets the root.                                       *)
Threads ==
  /\ \A n \in Node : thread[n] => kind[n] \in AsyncKinds
  /\ op = "tick" /\ cur = NoNode /\ got[Root] \in Done => ~ thread[Root]

ThreadInv == Calls /\ Threads /\ ThreadIsRunning

\* The return of a frame that leaves the status of every running node alone,
\* or sets its own to what it returns, keeps the threads of running nodes.
LEMMA PopThreads ==
  ASSUME ThreadInv, NEW n \in Node, cur = n, Pop(n), UNCHANGED <<thread, kind, op>>,
         \A m \in Node \ {n} : status[m] = "RUNNING" => status'[m] = "RUNNING",
         thread[n] => op = "tick" /\ at[n] # "stop" /\ status'[n] = status[n] /\ got'[n] = status[n]
  PROVE  Threads' /\ ThreadIsRunning'
<1> USE DEF ThreadInv, Threads, ThreadIsRunning
<1>1. ThreadIsRunning'
  OBVIOUS
<1>2. cur' = NoNode /\ op = "tick" => n = Root
  BY PopStack
<1>3. thread[n] => got'[n] \notin Done
  BY DEF Done
<1> QED
  BY <1>1, <1>2, <1>3

\* Every step keeps the threads to running nodes.
LEMMA NextThreads == ASSUME ThreadInv, [Next]_vars PROVE ThreadInv'
<1> USE DEF ThreadInv, Threads, ThreadIsRunning
<1>1. Calls'
  BY NextCalls
<1>2. /\ status \in [Node -> Status] /\ got \in [Node -> Status] /\ thread \in [Node -> BOOLEAN]
      /\ at \in [Node -> FramePoints]
  BY DEF Calls, Inv, TypeOK
<1>3. CASE Owner
  <2>1. CASE TickRootReturn
    BY <1>1, <1>2, <2>1, TreeAssumption DEF TickRootReturn, tree, async
  <2>2. CASE TickRoot \/ HaltTree \/ HaltTreeVisit \/ VisitNode \/ HaltTreeReturn
    <3>1. UNCHANGED <<kind, status, thread>>
      BY <2>2 DEF TickRoot, HaltTree, HaltTreeVisit, VisitNode, HaltTreeReturn, tree, async
    <3>2. op' # "tick" \/ cur' # NoNode
      <4>1. CASE TickRoot
        BY <4>1, TreeAssumption DEF TickRoot
      <4>2. CASE VisitNode
        BY <4>2 DEF VisitNode
      <4>3. CASE HaltTree \/ HaltTreeVisit \/ HaltTreeReturn
        BY <4>3 DEF HaltTree, HaltTreeVisit, HaltTreeReturn
      <4> QED
        BY <2>2, <4>1, <4>2, <4>3
    <3> QED
      BY <1>1, <3>1, <3>2
  <2> QED
    BY <1>3, <2>1, <2>2 DEF Owner
<1>4. ASSUME NEW n \in Node, Run(n) PROVE ThreadInv'
  <2>1. cur = n /\ cur # NoNode
    BY <1>4, TreeAssumption DEF Run
  <2>2. CASE ControlTick(n) \/ DecoratorTick(n)
    <3>1. TickShape(n)
      BY <2>2, ControlShape, DecoratorShape DEF Calls
    <3>2. UNCHANGED <<kind, thread, got, op>> /\ \A m \in Node : status'[m] = status[m] \/ status'[m] = "RUNNING"
      BY <1>2, <3>1 DEF TickShape, OnlyOwn, tree, async, caller
    <3>3. cur' # NoNode
      BY <2>1, <3>1, ChildIsNode, TreeAssumption DEF TickShape, Moves, TicksChild, TickChild
    <3> QED
      BY <1>1, <3>2, <3>3
  <2>3. CASE ControlThrow(n) \/ DecoratorThrow(n)
    <3>1. Unwind /\ UNCHANGED status
      BY <2>3 DEF ControlThrow, DecoratorThrow, Throw
    <3> QED
      BY <1>1, <3>1 DEF Unwind, tree, async
  <2>4. CASE SyncThrow(n)
    BY <1>1, <1>2, <2>4 DEF SyncThrow, Unwind, tree, async
  <2>5. CASE HaltChild(n)
    <3>1. PICK i \in Indices(n) : HaltsRunning(n, i) \/ SetsIdle(n, i)
      BY <2>5, HaltShape DEF Calls
    <3>2. Child(n, i) \in Node /\ UNCHANGED <<kind, thread, op>>
      BY <2>5, ChildIsNode, HaltShape DEF Calls, tree, caller
    <3>3. cur' # NoNode
      BY <2>1, <3>1, <3>2, TreeAssumption DEF HaltsRunning, SetsIdle
    <3>4. \A m \in Node : status[m] = "RUNNING" => status'[m] = "RUNNING"
      BY <1>2, <3>1, <3>2 DEF HaltsRunning, SetsIdle
    <3> QED
      BY <1>1, <3>2, <3>3, <3>4
  <2>6. CASE Halted(n)
    <3>1. /\ ~ thread[n] /\ UNCHANGED <<kind, thread, op>> /\ Pop(n)
          /\ \A m \in Node \ {n} : status'[m] = status[m]
      BY <1>2, <2>6 DEF Halted, tree, async, caller
    <3> QED
      BY <1>1, <2>1, <3>1, PopThreads
  <2>7. CASE Ticked(n)
    <3>1. kind[n] \notin AsyncKinds
      BY <2>7 DEF Ticked, Calls, Points, LeafKinds
    <3>2. ~ thread[n] /\ UNCHANGED <<kind, thread, op>> /\ \A m \in Node \ {n} : status'[m] = status[m]
      BY <1>2, <2>7, <3>1 DEF Ticked, tree, async, caller
    <3>3. CASE Pop(n)
      BY <1>1, <2>1, <3>2, <3>3, PopThreads
    <3>4. CASE cur' = cur
      BY <1>1, <2>1, <3>2, <3>4
    <3> QED
      BY <2>7, <3>3, <3>4 DEF Ticked
  <2>8. CASE ResetChild(n)
    <3>1. kind[n] \in DecoratorKinds /\ kind[n] \notin AsyncKinds
      BY <2>8, KindsDiffer DEF ResetChild, Calls, Inv, FrameOK, LeafKinds
    <3>2. Child(n, 0) \in Node \ {n}
      BY <3>1, Sizes, ChildIsNode DEF Calls, Inv
    <3>3. /\ ~ thread[n] /\ UNCHANGED <<kind, thread, op>> /\ Pop(n)
          /\ \A m \in Node : status[m] = "RUNNING" => status'[m] = "RUNNING"
      BY <1>2, <2>8, <3>1, <3>2 DEF ResetChild, tree, async, caller, Done
    <3> QED
      BY <1>1, <2>1, <3>3, PopThreads
  <2>9. ASSUME NEW s \in Status, Return(n, s), at[n] # "stop", kind[n] \in AsyncKinds => s = status[n]
        PROVE ThreadInv'
    <3>1. /\ UNCHANGED <<kind, thread, op>> /\ Pop(n) /\ status'[n] = s /\ got'[n] = s
          /\ \A m \in Node \ {n} : status'[m] = status[m]
      BY <1>2, <2>9 DEF Return, tree, async, caller
    <3>2. op = "tick"
      BY <2>1, <2>9 DEF Calls, Stack, Modes, Inv, TypeOK, AtRest
    <3> QED
      BY <1>1, <2>1, <2>9, <3>1, <3>2, PopThreads
  <2>10. CASE SyncTick(n) \/ StatefulTick(n)
    BY <1>2, <2>9, <2>10 DEF SyncTick, StatefulTick, AsyncKinds, Status
  <2>11. CASE AsyncRead(n)
    BY <1>2, <2>9, <2>11 DEF AsyncRead
  <2>12. CASE AsyncStart(n)
    BY <1>1, <1>2, <2>1, <2>12 DEF AsyncStart, tree, caller
  <2> QED
    BY <1>4, <2>2, <2>3, <2>4, <2>5, <2>6, <2>7, <2>8, <2>10, <2>11, <2>12 DEF Run, LeafTick
<1>5. ASSUME NEW n \in Node, AsyncThread(n) \/ AsyncThreadThrow(n) PROVE ThreadInv'
  <2>1. \A m \in Node : thread'[m] => thread[m] /\ m # n
    BY <1>2, <1>5 DEF AsyncThread, AsyncThreadThrow
  <2>2. \A m \in Node \ {n} : status'[m] = status[m]
    BY <1>2, <1>5 DEF AsyncThread, AsyncThreadThrow
  <2>3. UNCHANGED <<kind, op, cur, got>>
    BY <1>5 DEF AsyncThread, AsyncThreadThrow, tree, caller
  <2> QED
    BY <1>1, <2>1, <2>2, <2>3, TreeAssumption
<1>6. CASE UNCHANGED vars
  BY <1>1, <1>6 DEF vars, tree, async, caller
<1> QED
  BY <1>3, <1>4, <1>5, <1>6 DEF Next

\* In every tree, exceptions included, the thread of an asynchronous action
\* runs only while the node is RUNNING: executeTick() of a node whose thread is
\* alive never starts a second one.
THEOREM ThreadsBelongToRunningNodes == Spec => []ThreadIsRunning
<1>1. Init => ThreadInv
  BY InitCalls DEF ThreadInv, Threads, ThreadIsRunning, Init, Done
<1>2. ThreadInv /\ [Next]_vars => ThreadInv'
  BY NextThreads
<1>3. ThreadInv => ThreadIsRunning
  BY DEF ThreadInv
<1> QED
  BY <1>1, <1>2, <1>3, PTL DEF Spec

-----------------------------------------------------------------------------
(* The visitor of haltTree().  HaltForgets speaks of the end of the visit; *)
(* on the way the nodes the visitor has been at (V) are as constructed or  *)
(* still being halted, and the children of those it descended into are     *)
(* among them or wait for their visit.                                     *)
Pending == {visit[k] : k \in 1 .. Len(visit)}

Resetting == \A n \in Node : at[n] = "stop" => idx[n] = FirstIdx(kind[n]) /\ skip[n] = {}

VisitedSoFar(V) ==
  /\ Root \in V \cup Pending
  /\ \A n \in V : AsConstructed(n) \/ On(n)
  /\ \A n \in V : Descends(n) => Kids(n) \subseteq V \cup Pending

VisitInv ==
  /\ ThreadInv /\ Resetting
  /\ op = "visit" => \E V \in SUBSET Node : VisitedSoFar(V)

\* A halted node has forgotten its index and its skip list while its children
\* are still being halted.
LEMMA NextResetting == ASSUME ThreadInv, Resetting, [Next]_vars PROVE Resetting'
<1> USE DEF Resetting
<1>1. /\ at \in [Node -> FramePoints] /\ idx \in [Node -> Int] /\ skip \in [Node -> SUBSET Int]
  BY DEF ThreadInv, Calls, Inv, TypeOK
<1>2. ASSUME UNCHANGED <<memory, at, kind>> PROVE Resetting'
  BY <1>2 DEF memory
<1>3. ASSUME NEW n \in Node, CallHalt(n), UNCHANGED kind PROVE Resetting'
  BY <1>1, <1>3 DEF CallHalt, ResetMembers
<1>4. ASSUME NEW n \in Node, NEW p \in FramePoints \ {"stop"}, at' = [at EXCEPT ![n] = p],
             UNCHANGED kind, \A m \in Node \ {n} : idx'[m] = idx[m] /\ skip'[m] = skip[m]
      PROVE  Resetting'
  BY <1>1, <1>4
<1>5. CASE Owner
  <2>1. CASE TickRoot
    BY <1>4, <2>1, TreeAssumption DEF TickRoot, tree, memory, FramePoints
  <2>2. CASE HaltTree
    BY <1>3, <2>2, TreeAssumption DEF HaltTree, tree
  <2>3. CASE VisitNode
    <3>1. Head(visit) \in Node
      BY <2>3 DEF VisitNode, ThreadInv, Calls, Inv, TypeOK
    <3> QED
      BY <1>3, <2>3, <3>1 DEF VisitNode, tree
  <2>4. CASE TickRootReturn \/ HaltTreeVisit \/ HaltTreeReturn
    BY <1>2, <2>4 DEF TickRootReturn, HaltTreeVisit, HaltTreeReturn, tree
  <2> QED
    BY <1>5, <2>1, <2>2, <2>3, <2>4 DEF Owner
<1>6. ASSUME NEW n \in Node, Run(n) PROVE Resetting'
  <2>1. CASE ControlTick(n) \/ DecoratorTick(n)
    <3>1. TickShape(n)
      BY <2>1, ControlShape, DecoratorShape DEF ThreadInv, Calls
    <3>2. UNCHANGED kind /\ \A m \in Node \ {n} : idx'[m] = idx[m] /\ skip'[m] = skip[m]
      BY <3>1 DEF TickShape, OnlyOwn, tree
    <3>3. \A m \in Node : at'[m] = "stop" => at[m] = "stop" /\ m # n
      <4>1. \A i \in Indices(n) : Child(n, i) \in Node
        BY ChildIsNode
      <4> QED
        BY <1>1, <3>1, <4>1 DEF TickShape, Moves, TicksChild, TickChild
    <3> QED
      BY <3>2, <3>3
  <2>2. CASE ControlThrow(n) \/ DecoratorThrow(n) \/ SyncThrow(n)
    BY <2>2 DEF ControlThrow, DecoratorThrow, SyncThrow, Throw, Unwind
  <2>3. CASE HaltChild(n)
    <3>1. PICK i \in Indices(n) : HaltsRunning(n, i) \/ SetsIdle(n, i)
      BY <2>3, HaltShape DEF ThreadInv, Calls
    <3>2. Child(n, i) \in Node /\ UNCHANGED kind
      BY <2>3, ChildIsNode, HaltShape DEF ThreadInv, Calls, tree
    <3>3. CASE HaltsRunning(n, i)
      BY <1>1, <3>2, <3>3 DEF HaltsRunning
    <3>4. CASE SetsIdle(n, i)
      BY <1>2, <3>2, <3>4 DEF SetsIdle
    <3> QED
      BY <3>1, <3>3, <3>4
  <2>4. ASSUME Pop(n), UNCHANGED <<tree, memory>> PROVE Resetting'
    BY <1>1, <1>4, <2>4 DEF Pop, tree, memory, FramePoints
  <2>5. CASE Halted(n) \/ ResetChild(n)
    BY <2>4, <2>5 DEF Halted, ResetChild
  <2>6. CASE Ticked(n)
    <3>1. CASE kind[n] \in DecoratorKinds
      BY <1>4, <2>6, <3>1 DEF Ticked, tree, memory, FramePoints
    <3>2. CASE kind[n] \notin DecoratorKinds
      BY <2>4, <2>6, <3>2 DEF Ticked
    <3> QED
      BY <3>1, <3>2
  <2>7. CASE SyncTick(n) \/ StatefulTick(n) \/ AsyncRead(n)
    BY <2>4, <2>7 DEF SyncTick, StatefulTick, AsyncRead, Return
  <2>8. CASE AsyncStart(n)
    BY <1>4, <2>8 DEF AsyncStart, tree, memory, FramePoints
  <2> QED
    BY <1>6, <2>1, <2>2, <2>3, <2>5, <2>6, <2>7, <2>8 DEF Run, LeafTick
<1>7. ASSUME NEW n \in Node, AsyncThread(n) \/ AsyncThreadThrow(n) PROVE Resetting'
  BY <1>2, <1>7 DEF AsyncThread, AsyncThreadThrow, tree
<1>8. CASE UNCHANGED vars
  BY <1>2, <1>8 DEF vars, tree
<1> QED
  BY <1>5, <1>6, <1>7, <1>8 DEF Next

\* During the visit a node is as constructed once it has been halted.
LEMMA NextVisit == ASSUME VisitInv, [Next]_vars PROVE VisitInv'
<1>1. ThreadInv' /\ Resetting'
  BY NextThreads, NextResetting DEF VisitInv
<1>2. /\ at \in [Node -> FramePoints] /\ idx \in [Node -> Int] /\ skip \in [Node -> SUBSET Int]
      /\ status \in [Node -> Status] /\ visit \in Seq(Node) /\ visit' \in Seq(Node)
      /\ thread \in [Node -> BOOLEAN]
  BY <1>1 DEF VisitInv, ThreadInv, Calls, Inv, TypeOK
<1>3. SUFFICES ASSUME op' = "visit" PROVE \E V \in SUBSET Node : VisitedSoFar(V)'
  BY <1>1 DEF VisitInv
\* A step that lets a node which is as constructed be so, or starts to halt it.
<1>4. ASSUME op = "visit", UNCHANGED <<kind, visit>>,
             \A n \in Node : (AsConstructed(n) \/ On(n)) => (AsConstructed(n) \/ On(n))'
      PROVE  \E V \in SUBSET Node : VisitedSoFar(V)'
  <2>1. PICK V \in SUBSET Node : VisitedSoFar(V)
    BY <1>4 DEF VisitInv
  <2>2. VisitedSoFar(V)'
    BY <1>4, <2>1 DEF VisitedSoFar, Pending, Descends
  <2> QED
    BY <2>2
<1>5. CASE HaltTreeVisit
  <2>1. visit' = <<Root>> /\ {} \in SUBSET Node
    BY <1>5 DEF HaltTreeVisit
  <2>2. Root \in Pending'
    BY <2>1 DEF Pending
  <2>3. VisitedSoFar({})'
    BY <2>2 DEF VisitedSoFar
  <2> QED
    BY <2>1, <2>3
<1>6. CASE VisitNode
  <2>1. PICK V \in SUBSET Node : VisitedSoFar(V)
    BY <1>6 DEF VisitNode, VisitInv
  <2>a. Head(visit) \in Node /\ Tail(visit) \in Seq(Node) /\ visit # <<>> /\ kind' = kind
    BY <1>2, <1>6 DEF VisitNode, tree
  <2>b. PICK h \in Node, rest \in Seq(Node) : h = Head(visit) /\ rest = Tail(visit)
    BY <2>a
  <2> DEFINE W == V \cup {h}
  <2>2. h \in Node /\ rest \in Seq(Node) /\ visit # <<>> /\ kind' = kind
    BY <2>a
  <2>3. visit' = (IF Descends(h) THEN Children[h] ELSE <<>>) \o rest
    BY <1>6, <2>b DEF VisitNode
  <2>4. Pending \subseteq {h} \cup Pending'
    <3>1. \A k \in 2 .. Len(visit) : visit[k] = rest[k - 1] /\ k - 1 \in 1 .. Len(rest)
      BY <1>2, <2>2, <2>b
    <3>2. visit[1] = h
      BY <1>2, <2>2, <2>b
    <3>3. \A x \in Seq(Node), k \in 1 .. Len(rest) :
             visit' = x \o rest => visit'[Len(x) + k] = rest[k] /\ Len(x) + k \in 1 .. Len(visit')
      BY <2>2
    <3>4. Children[h] \in Seq(Node) /\ <<>> \in Seq(Node)
      BY <2>2, TreeAssumption
    <3>5. PICK x \in Seq(Node) : visit' = x \o rest
      <4>1. CASE Descends(h)
        <5>1. visit' = Children[h] \o rest
          BY <2>3, <4>1
        <5> QED
          BY <3>4, <5>1
      <4>2. CASE ~ Descends(h)
        <5>1. visit' = <<>> \o rest
          BY <2>3, <4>2
        <5> QED
          BY <3>4, <5>1
      <4> QED
        BY <4>1, <4>2
    <3>6. \A k \in 2 .. Len(visit) : visit[k] \in Pending'
      <4> SUFFICES ASSUME NEW k \in 2 .. Len(visit) PROVE visit[k] \in Pending'
        OBVIOUS
      <4>1. visit[k] = rest[k - 1] /\ k - 1 \in 1 .. Len(rest)
        BY <3>1
      <4>2. visit'[Len(x) + (k - 1)] = rest[k - 1] /\ Len(x) + (k - 1) \in 1 .. Len(visit')
        BY <3>3, <3>5, <4>1
      <4> QED
        BY <4>1, <4>2 DEF Pending
    <3>7. \A k \in 1 .. Len(visit) : k = 1 \/ k \in 2 .. Len(visit)
      BY <1>2
    <3>8. \A k \in 1 .. Len(visit) : visit[k] \in {h} \cup Pending'
      BY <3>2, <3>6, <3>7
    <3> QED
      BY <3>8 DEF Pending
  <2>5. Descends(h) => Kids(h) \subseteq Pending'
    <3> SUFFICES ASSUME Descends(h), NEW i \in Indices(h) PROVE Child(h, i) \in Pending'
      BY DEF Kids
    <3>1. Children[h] \in Seq(Node) /\ i + 1 \in 1 .. Len(Children[h])
      BY <2>2, TreeAssumption DEF Indices, Count
    <3>2. visit' = Children[h] \o rest
      BY <2>3
    <3>3. visit'[i + 1] = Children[h][i + 1] /\ i + 1 \in 1 .. Len(visit')
      BY <2>2, <3>1, <3>2
    <3> QED
      BY <3>3 DEF Pending, Child
  <2>6. /\ at' = [at EXCEPT ![h] = "stop"] /\ UNCHANGED status
        /\ idx' = [idx EXCEPT ![h] = FirstIdx(kind[h])] /\ skip' = [skip EXCEPT ![h] = {}]
    BY <1>6, <2>b DEF VisitNode, CallHalt, ResetMembers
  <2>7. \A n \in W : (AsConstructed(n) \/ On(n))'
    BY <1>2, <2>1, <2>2, <2>6 DEF VisitedSoFar, AsConstructed, On
  <2>8. VisitedSoFar(W)'
    <3>1. Root \in W \cup Pending'
      BY <2>1, <2>4 DEF VisitedSoFar
    <3>2. \A n \in W : Descends(n) => Kids(n) \subseteq W \cup Pending'
      BY <2>1, <2>4, <2>5 DEF VisitedSoFar
    <3> HIDE DEF W
    <3> QED
      BY <2>2, <2>7, <3>1, <3>2 DEF VisitedSoFar, Descends
  <2>9. W \in SUBSET Node
    BY <2>2
  <2> HIDE DEF W
  <2> QED
    BY <2>8, <2>9
<1>7. CASE TickRoot \/ TickRootReturn \/ HaltTree \/ HaltTreeReturn
  BY <1>3, <1>7 DEF TickRoot, TickRootReturn, HaltTree, HaltTreeReturn
\* In the visit every frame is a halt.
<1>8. ASSUME NEW n \in Node, Run(n) PROVE \E V \in SUBSET Node : VisitedSoFar(V)'
  <2>1. op = "visit" /\ UNCHANGED <<op, visit, kind>>
    BY <1>3, <1>8
    DEF Run, ControlTick, DecoratorTick, LeafTick, ControlThrow, DecoratorThrow, Throw, SyncTick,
        SyncThrow, StatefulTick, AsyncStart, AsyncRead, Return, Unwind, HaltChild, Halted, Ticked,
        ResetChild, caller, tree
  <2>2. at[n] = "stop"
    BY <1>8, <2>1, TreeAssumption DEF Run, VisitInv, ThreadInv, Calls, Stack, Modes
  <2>3. HaltChild(n) \/ Halted(n)
    <3>1. ~ ControlTick(n) /\ ~ DecoratorTick(n)
      BY <2>2, ControlShape, DecoratorShape DEF TickShape, VisitInv, ThreadInv, Calls
    <3> QED
      BY <1>8, <2>2, <3>1 DEF Run, LeafTick, ControlThrow, DecoratorThrow, SyncTick, SyncThrow,
                              StatefulTick, AsyncStart, AsyncRead, Ticked, ResetChild
  <2>4. CASE Halted(n)
    <3>1. /\ status' = [status EXCEPT ![n] = "IDLE"] /\ at' = [at EXCEPT ![n] = "off"]
          /\ UNCHANGED <<idx, skip>>
      BY <2>4 DEF Halted, Pop, memory
    <3>2. AsConstructed(n)'
      BY <1>2, <2>1, <2>2, <3>1 DEF VisitInv, Resetting, AsConstructed
    <3>3. \A m \in Node \ {n} : (AsConstructed(m) \/ On(m)) => (AsConstructed(m) \/ On(m))'
      BY <1>2, <2>1, <3>1 DEF AsConstructed, On
    <3> QED
      BY <1>4, <2>1, <3>2, <3>3
  <2>5. CASE HaltChild(n)
    <3>1. PICK i \in Indices(n) : HaltsRunning(n, i) \/ SetsIdle(n, i)
      BY <2>5, HaltShape DEF VisitInv, ThreadInv, Calls
    <3>2. Child(n, i) \in Node
      BY ChildIsNode
    <3>3. \A m \in Node : (AsConstructed(m) \/ On(m)) => (AsConstructed(m) \/ On(m))'
      <4>1. CASE HaltsRunning(n, i)
        BY <1>2, <2>1, <3>2, <4>1 DEF HaltsRunning, AsConstructed, On
      <4>2. CASE SetsIdle(n, i)
        BY <1>2, <2>1, <3>2, <4>2 DEF SetsIdle, AsConstructed, On, memory
      <4> QED
        BY <3>1, <4>1, <4>2
    <3> QED
      BY <1>4, <2>1, <3>3
  <2> QED
    BY <2>3, <2>4, <2>5
<1>9. ASSUME NEW n \in Node, AsyncThread(n) \/ AsyncThreadThrow(n)
      PROVE  \E V \in SUBSET Node : VisitedSoFar(V)'
  <2>1. /\ UNCHANGED <<kind, op, visit, at, idx, skip>> /\ status[n] = "RUNNING"
        /\ \A m \in Node \ {n} : status'[m] = status[m]
    BY <1>2, <1>9 DEF AsyncThread, AsyncThreadThrow, tree, caller, memory, VisitInv, ThreadInv,
                      ThreadIsRunning
  <2>2. \A m \in Node : (AsConstructed(m) \/ On(m)) => (AsConstructed(m) \/ On(m))'
    BY <2>1 DEF AsConstructed, On
  <2> QED
    BY <1>3, <1>4, <2>1, <2>2
<1>10. CASE UNCHANGED vars
  <2>1. UNCHANGED <<kind, op, visit, at, idx, skip, status>>
    BY <1>10 DEF vars, tree, caller, memory
  <2> QED
    BY <1>3, <1>4, <2>1 DEF AsConstructed, On
<1> QED
  BY <1>5, <1>6, <1>7, <1>8, <1>9, <1>10 DEF Next, Owner

\* In every tree, and also when haltTree() cleans up after an exception, every
\* node the visitor can come to by name is as constructed when it returns.
THEOREM HaltTreeForgets == Spec => []HaltForgets
<1>1. Init => VisitInv
  BY InitCalls DEF VisitInv, ThreadInv, Threads, ThreadIsRunning, Resetting, Init, Done
<1>2. VisitInv /\ [Next]_vars => VisitInv'
  BY NextVisit
<1>3. VisitInv => HaltForgets
  <2> SUFFICES ASSUME VisitInv, op = "visit", visit = <<>>, cur = NoNode, NEW n \in Node, Visited(n)
               PROVE  AsConstructed(n)
    BY DEF HaltForgets
  <2>1. PICK V \in SUBSET Node : VisitedSoFar(V)
    BY DEF VisitInv
  <2>2. Pending = {}
    BY DEF Pending
  <2>3. n \in V
    BY <2>1, <2>2 DEF Visited, VisitedSoFar
  <2> QED
    BY <2>1, <2>3 DEF VisitedSoFar, VisitInv, ThreadInv, Calls, Stack
<1> QED
  BY <1>1, <1>2, <1>3, PTL DEF Spec
=============================================================================
