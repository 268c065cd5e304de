---------------------------- MODULE Results_proofs ----------------------------
(***************************************************************************)
(* Which results the nodes of a tree still hold when they are ticked, that *)
(* a control node returns what those of its children call for, and that a  *)
(* decorator throws none away.                                             *)
(***************************************************************************)
EXTENDS RunningNodes_proofs, FunctionTheorems

(* A child keeps the result of an earlier tick() only where its parent     *)
(* knows not to tick it again: before current_child_idx_ or in the skip    *)
(* list.  Everywhere else it has been reset or halted, or will be before   *)
(* its parent returns, exceptions included.  Reactive nodes and loops tick *)
(* again what has decided; an asynchronous action may decide after its     *)
(* parent has returned.                                                    *)
Finished(n, i) == kind[Child(n, i)] \notin AsyncKinds /\ status[Child(n, i)] \in Done

Kept(n, i) == \/ kind[n] \in MemoryKinds /\ i < idx[n]
              \/ kind[n] = "Parallel" /\ i \in skip[n]

Accounted(n, i) ==
  \/ Kept(n, i) /\ ~ Awaits(n, i)
  \/ Awaits(n, i) /\ (~ On(Child(n, i)) \/ at[Child(n, i)] = "reset")
  \/ at[n] \in {"leave", "stop"} /\ i \in todo[n]
  \/ at[n] \in {"leave", "reset"} /\ kind[n] \in DecoratorKinds

KidsFresh(n) ==
  kind[n] \notin ReactiveKinds \cup LoopKinds =>
    \A i \in Indices(n) : Finished(n, i) => Accounted(n, i)

RootFresh ==
  kind[Root] \notin AsyncKinds =>
    /\ op \in {"rest", "visit"} \/ (op = "halt" /\ ~ On(Root)) => status[Root] \notin Done
    /\ at[Root] = "enter" => status[Root] \notin Done

FreshInv == TickInv /\ RootFresh /\ \A n \in Node : KidsFresh(n)

\* What tick() of a node knows of the results of its children: those it does
\* not await are kept, and the one it awaits has just returned its own.
LEMMA OwnResults ==
  ASSUME TickInv, NEW n \in Node, cur = n, TickShape(n), KidsFresh(n),
         kind[n] \notin ReactiveKinds \cup LoopKinds, NEW i \in Indices(n), Finished(n, i)'
  PROVE  /\ Finished(n, i)
         /\ Awaits(n, i) => got[Child(n, i)] \in Done
         /\ ~ Awaits(n, i) => Kept(n, i)
<1> USE DEF TickInv, ThreadInv, Calls
<1>1. ~ On(Child(n, i)) /\ Child(n, i) \in Node \ {n}
  BY TopHasNoCallee, ChildIsNode
<1>2. Finished(n, i)
  BY <1>1 DEF TickShape, OnlyOwn, tree, Finished, Inv, TypeOK
<1>3. Awaits(n, i) => AsReturned(Child(n, i))
  BY <1>1 DEF Returned
<1>4. Accounted(n, i) /\ at[n] \notin {"leave", "stop", "reset"}
  BY <1>2 DEF KidsFresh, TickShape
<1> QED
  BY <1>2, <1>3, <1>4 DEF AsReturned, Accounted, Finished

\* A Sequence, Fallback or SequenceStar moves its index past a child that has
\* decided, or halts the child.
LEMMA MemoryFresh ==
  ASSUME TickInv, NEW n \in Node, cur = n, TickShape(n), KidsFresh(n), kind[n] \in MemoryKinds,
         NEW go \in Done, NEW stop \in Done, NEW Rest, NEW left, MemoryTick(n, go, stop, Rest, left),
         (Rest = Indices(n) /\ left = 0) \/ (Rest = idx[n] .. Count(n) - 1 /\ left = idx[n])
  PROVE  KidsFresh(n)'
<1> USE DEF TickInv, ThreadInv, Calls, Inv, TypeOK
<1>1. /\ kind' = kind /\ kind[n] \notin LoopKinds \cup ReactiveKinds /\ kind[n] \in ControlKinds
      /\ Count(n) \in Nat /\ Indices(n) = 0 .. Count(n) - 1 /\ idx[n] \in 0 .. Count(n)
  BY OwnKids, MemoryIndex, KindsDiffer DEF DecoratorKinds, ControlKinds
<1>2. SUFFICES ASSUME NEW i \in Indices(n), Finished(n, i)' PROVE Accounted(n, i)'
  BY DEF KidsFresh
<1>3. /\ Awaits(n, i) <=> at[n] = "await" /\ i = idx[n]
      /\ Awaits(n, i)' <=> at'[n] = "await" /\ i = idx'[n]
      /\ Kept(n, i)' <=> i < idx'[n]
  BY <1>1 DEF Awaits, AwaitedBy, Kept, MemoryKinds
<1>4. i < idx[n] \/ (at[n] = "await" /\ i = idx[n] /\ got[Child(n, idx[n])] \in Done)
  BY <1>1, <1>2, <1>3, OwnResults DEF Kept, MemoryKinds
<1>5. CASE MemoryEnter(n)
  BY <1>3, <1>4, <1>5 DEF MemoryEnter, Accounted
<1>6. CASE MemoryRunning(n)
  BY <1>3, <1>4, <1>6 DEF MemoryRunning, Leave, Accounted, Done
<1>7. CASE MemoryGo(n, go)
  BY <1>1, <1>3, <1>4, <1>7 DEF MemoryGo, Accounted
<1>8. CASE MemoryStop(n, stop, Rest, left)
  <2>1. at'[n] = "leave" /\ todo'[n] = Rest /\ idx'[n] = left
    BY <1>8 DEF MemoryStop, Leave
  <2> QED
    BY <1>1, <1>3, <1>4, <2>1 DEF Accounted
<1>9. CASE MemoryDone(n, go)
  <2>1. at'[n] = "leave" /\ todo'[n] = Indices(n)
    BY <1>9 DEF MemoryDone, Leave
  <2> QED
    BY <2>1 DEF Accounted
<1>10. CASE at[n] = "loop" /\ TickChild(n, idx[n]) /\ idx[n] < Count(n) /\ UNCHANGED idx
  <2>1. at'[n] = "await"
    BY <1>1, <1>10, ChildIsNode DEF TickChild
  <2> QED
    BY <1>1, <1>3, <1>4, <1>10, <2>1 DEF Accounted
<1> QED
  BY <1>5, <1>6, <1>7, <1>8, <1>9, <1>10 DEF MemoryTick

\* A Parallel puts a child that has decided in its skip list, or halts it.
LEMMA ParallelFresh ==
  ASSUME TickInv, NEW n \in Node, cur = n, TickShape(n), KidsFresh(n), ParallelTick(n)
  PROVE  KidsFresh(n)'
<1> USE DEF TickInv, ThreadInv, Calls, Inv, TypeOK
<1>1. /\ kind' = kind /\ kind[n] = "Parallel"
      /\ kind[n] \notin MemoryKinds \cup LoopKinds \cup ReactiveKinds /\ kind[n] \in ControlKinds
  BY OwnKids DEF ParallelTick, MemoryKinds, LoopKinds, ReactiveKinds, ControlKinds
<1>2. SUFFICES ASSUME NEW i \in Indices(n), Finished(n, i)' PROVE Accounted(n, i)'
  BY DEF KidsFresh
<1>3. /\ Awaits(n, i) <=> at[n] = "await" /\ i = loc[n]
      /\ Awaits(n, i)' <=> at'[n] = "await" /\ i = loc'[n]
      /\ Kept(n, i)' <=> i \in skip'[n]
  BY <1>1 DEF Awaits, AwaitedBy, Kept
<1>4. i \in skip[n] \/ (at[n] = "await" /\ i = loc[n] /\ got[Child(n, loc[n])] \in Done)
  BY <1>1, <1>2, <1>3, OwnResults DEF Kept
<1>5. ASSUME at'[n] \in {"loop", "leave"}, i \in skip'[n] PROVE Accounted(n, i)'
  BY <1>3, <1>5 DEF Accounted
<1>6. ASSUME NEW s, ParallelCount(n, s), at[n] = "await" => s = got[Child(n, loc[n])] PROVE Accounted(n, i)'
  <2>1. CASE ParallelDecide(n, s)
    <3>1. at'[n] = "leave" /\ todo'[n] = Indices(n)
      BY <2>1 DEF ParallelDecide, Leave
    <3> QED
      BY <3>1 DEF Accounted
  <2>2. CASE skip' = [skip EXCEPT ![n] = @ \cup {loc[n]}] /\ at' = [at EXCEPT ![n] = "loop"]
    BY <1>4, <1>5, <2>2
  <2>3. CASE s = "RUNNING" /\ at' = [at EXCEPT ![n] = "loop"] /\ UNCHANGED skip
    BY <1>4, <1>5, <1>6, <2>3 DEF Done
  <2> QED
    BY <1>6, <2>1, <2>2, <2>3 DEF ParallelCount
<1>7. CASE at[n] \in {"enter", "loop"} /\ UNCHANGED skip /\ at' \in {[at EXCEPT ![n] = "loop"], [at EXCEPT ![n] = "leave"]}
  BY <1>4, <1>5, <1>7
<1>8. CASE at[n] = "loop" /\ loc[n] < Count(n) /\ loc[n] \notin skip[n] /\ TickChild(n, loc[n])
           /\ UNCHANGED <<skip, loc>>
  <2>1. loc[n] \in Indices(n)
    BY <1>8, OwnKids
  <2>2. at'[n] = "await"
    BY <1>8, <2>1, ChildIsNode DEF TickChild
  <2> QED
    BY <1>3, <1>4, <1>8, <2>2 DEF Accounted
<1> QED
  BY <1>6, <1>7, <1>8 DEF ParallelTick, Leave

\* A Switch halts a child that has decided.
LEMMA SwitchFresh ==
  ASSUME TickInv, NEW n \in Node, cur = n, TickShape(n), KidsFresh(n), SwitchTick(n)
  PROVE  KidsFresh(n)'
<1> USE DEF TickInv, ThreadInv, Calls, Inv, TypeOK
<1>1. /\ kind' = kind /\ kind[n] = "Switch"
      /\ kind[n] \notin MemoryKinds \cup LoopKinds \cup ReactiveKinds /\ kind[n] \in ControlKinds
  BY OwnKids DEF SwitchTick, MemoryKinds, LoopKinds, ReactiveKinds, ControlKinds
<1>2. SUFFICES ASSUME NEW i \in Indices(n), Finished(n, i)' PROVE Accounted(n, i)'
  BY DEF KidsFresh
<1>3. at[n] = "await" /\ got[Child(n, loc[n])] \in Done
  BY <1>1, <1>2, OwnResults DEF Awaits, AwaitedBy, Kept
<1>4. at'[n] = "leave" /\ todo'[n] = Indices(n)
  BY <1>3 DEF SwitchTick, SwitchEnter, Leave, Done
<1> QED
  BY <1>4 DEF Accounted

\* A decorator has its reset to come.
LEMMA DecoratorFresh ==
  ASSUME TickInv, NEW n \in Node, cur = n, TickShape(n), KidsFresh(n), DecoratorTick(n),
         kind[n] \notin LoopKinds
  PROVE  KidsFresh(n)'
<1> USE DEF TickInv, ThreadInv, Calls, Inv, TypeOK
<1>1. /\ kind' = kind /\ kind[n] \in DecoratorKinds
  BY OwnKids, DecoratorShape
<1>2. kind[n] \notin ReactiveKinds \cup MemoryKinds \cup {"Parallel"}
  BY <1>1, KindsDiffer DEF ControlKinds
<1>3. SUFFICES ASSUME NEW i \in Indices(n), Finished(n, i)' PROVE Accounted(n, i)'
  BY DEF KidsFresh
<1>4. at[n] = "await"
  BY <1>2, <1>3, OwnResults DEF Awaits, Kept
<1>5. at'[n] = "leave"
  BY <1>2, <1>4 DEF DecoratorTick, InverterTick, ForceSuccessTick, ForceFailureTick, Translate, SubTreeTick,
                BlackboardCheckTick, RepeatTick, RetryTick, LoopKinds, Leave
<1> QED
  BY <1>1, <1>5 DEF Accounted

\* A frame that is not the one on top has called a child.
LEMMA CalleeOn ==
  ASSUME Calls, NEW n \in Node, On(n), n # cur
  PROVE  \E i \in Indices(n) : On(Child(n, i))
<1>1. cur \in Node /\ On(cur) /\ Depth[n] < Depth[cur]
  BY DepthFact DEF Calls, Stack, Inv, TypeOK
<1> DEFINE T == {Depth[k] : k \in {m \in Node : On(m) /\ Depth[n] < Depth[m]}}
<1>2. T \in SUBSET Nat /\ T # {}
  BY <1>1, DepthFact
<1>3. PICK d \in T : \A e \in T : d <= e
  <2> HIDE DEF T
  <2> QED
    BY <1>2, LeastNat
<1>4. PICK k \in Node : On(k) /\ Depth[n] < Depth[k] /\ d = Depth[k]
  BY <1>3
<1>5. /\ k # Root /\ Parent[k] \in Node /\ Depth[k] = Depth[Parent[k]] + 1 /\ On(Parent[k])
      /\ k \in Kids(Parent[k])
  BY <1>4, DepthFact, TreeAssumption DEF Calls, Stack
<1>6. ~ (Depth[n] < Depth[Parent[k]])
  <2>1. Depth[n] < Depth[Parent[k]] => Depth[Parent[k]] \in T
    BY <1>5
  <2> HIDE DEF T
  <2> QED
    BY <1>3, <1>4, <1>5, <2>1, DepthFact
<1>7. Parent[k] = n
  BY <1>4, <1>5, <1>6, DepthFact DEF Calls, Stack
<1> QED
  BY <1>4, <1>5, <1>7 DEF Kids

\* A step of the frame on top keeps what is known of the root and of the
\* children of every other node: its own result goes to the frame that awaits
\* it.
LEMMA StepFresh ==
  ASSUME FreshInv, NEW n \in Node, cur = n, UNCHANGED <<kind, op>>, at'[n] # "enter",
         \A m \in Node \ {n} :
           /\ \/ /\ idx'[m] = idx[m] /\ skip'[m] = skip[m] /\ todo'[m] = todo[m]
                 /\ AwaitedBy(m)' = AwaitedBy(m)
                 /\ at'[m] = at[m] \/ (at[m] = "off" /\ at'[m] = "enter" /\ Parent[m] = n)
              \/ Parent[m] = n /\ at'[m] = "stop" /\ todo'[m] = Indices(m)
           /\ status'[m] = status[m] \/ (status'[m] = "IDLE" /\ Parent[m] = n),
         at'[n] \notin {"off", "reset"} \/ at[n] = "stop" => (status'[n] = status[n] \/ status'[n] \notin Done),
         at[n] = "stop" => at'[n] = "stop" \/ (at'[n] = "off" /\ status'[n] = "IDLE"),
         at[n] = "reset" => at'[n] = "off",
         KidsFresh(n)'
  PROVE  RootFresh' /\ \A m \in Node : KidsFresh(m)'
<1> USE DEF FreshInv, TickInv, ThreadInv, Calls
<1>0. RootFresh'
  <2>1. /\ On(n) /\ (op \in {"halt", "visit"} => at[n] = "stop") /\ Root \in Node /\ Parent[Root] # n
        /\ op \notin {"rest", "thrown"}
    BY TreeAssumption DEF Stack, Modes, AtRest
  <2>2. CASE n = Root
    <3>1. CASE at[n] = "stop"
      BY <2>1, <2>2, <3>1 DEF RootFresh, On, Done
    <3>2. CASE at[n] # "stop"
      BY <2>1, <2>2, <3>2 DEF RootFresh
    <3> QED
      BY <3>1, <3>2
  <2>3. CASE n # Root
    <3>1. at[Root] # "enter"
      BY <2>1, <2>3 DEF Stack, On, Waits, HaltPoints
    <3>2. /\ status'[Root] \in Done => status[Root] \in Done
          /\ at'[Root] # "enter" /\ (at'[Root] = "off" => at[Root] = "off")
      BY <2>1, <2>3, <3>1 DEF Done
    <3> QED
      BY <3>2 DEF RootFresh, On
  <2> QED
    BY <2>2, <2>3
<1> SUFFICES \A m \in Node : KidsFresh(m)'
  BY <1>0
<1>1. SUFFICES ASSUME NEW m \in Node \ {n}, kind[m] \notin ReactiveKinds \cup LoopKinds,
                      NEW i \in Indices(m), Finished(m, i)'
               PROVE  Accounted(m, i)'
  BY DEF KidsFresh
<1>2. Child(m, i) \in Node \ {m} /\ Parent[Child(m, i)] = m
  BY ChildFact
<1>3. CASE at'[m] = "stop" /\ todo'[m] = Indices(m)
  BY <1>3 DEF Accounted
<1>4. CASE ~ (at'[m] = "stop" /\ todo'[m] = Indices(m))
  <2>1. /\ idx'[m] = idx[m] /\ skip'[m] = skip[m] /\ todo'[m] = todo[m] /\ AwaitedBy(m)' = AwaitedBy(m)
        /\ at'[m] = at[m] \/ (at[m] = "off" /\ at'[m] = "enter")
    BY <1>1, <1>4
  <2>2. (Kept(m, i)' <=> Kept(m, i)) /\ (Awaits(m, i)' <=> Awaits(m, i))
    BY <2>1 DEF Kept, Awaits
  <2>3. CASE Child(m, i) # n
    <3>1. status'[Child(m, i)] = status[Child(m, i)] \/ status'[Child(m, i)] = "IDLE"
      BY <1>2, <2>3
    <3>2. Finished(m, i)
      BY <1>1, <3>1 DEF Finished, Done
    <3>3. Accounted(m, i)
      BY <1>1, <3>2 DEF KidsFresh
    <3>4. Parent[Child(m, i)] # n
      BY <1>1, <1>2
    <3>5. at'[Child(m, i)] = at[Child(m, i)]
      BY <1>2, <2>3, <3>4
    <3> QED
      BY <2>1, <2>2, <3>3, <3>5 DEF Accounted, On
  <2>4. CASE Child(m, i) = n
    <3>1. On(n)
      BY TreeAssumption DEF Stack
    <3>2. CASE at[n] = "stop"
      <4>1. at'[n] = "stop" /\ Finished(m, i)
        BY <1>1, <2>4, <3>2 DEF Finished, Done
      <4>2. Accounted(m, i) /\ ~ Awaits(m, i)
        BY <1>1, <2>4, <3>1, <3>2, <4>1 DEF KidsFresh, Callees, Awaits, On
      <4> QED
        BY <2>1, <2>2, <4>2 DEF Accounted
    <3>3. CASE at[n] # "stop"
      <4>1. at[m] = "await" /\ Awaits(m, i)
        BY <2>4, <3>1, <3>3, CallerAwaits DEF Awaits
      <4>2. CASE at'[n] \in {"off", "reset"}
        BY <2>2, <2>4, <4>1, <4>2 DEF Accounted, On
      <4>3. CASE at'[n] \notin {"off", "reset"}
        <5>1. Finished(m, i)
          BY <1>1, <2>4, <4>3 DEF Finished
        <5>2. Accounted(m, i) /\ On(Child(m, i))
          BY <1>1, <2>4, <3>1, <5>1 DEF KidsFresh
        <5>3. at[n] = "reset"
          BY <2>4, <4>1, <5>2 DEF Accounted
        <5> QED
          BY <4>3, <5>3
      <4> QED
        BY <4>2, <4>3
    <3> QED
      BY <3>2, <3>3
  <2> QED
    BY <2>3, <2>4
<1> QED
  BY <1>3, <1>4

\* The owner's methods start from an empty stack.
LEMMA OwnerFresh == ASSUME FreshInv, Owner PROVE RootFresh' /\ \A m \in Node : KidsFresh(m)'
<1> USE DEF FreshInv, TickInv, ThreadInv, Calls
<1>1. \A m \in Node : at[m] = "off"
  BY DEF Owner, TickRoot, TickRootReturn, HaltTree, HaltTreeVisit, VisitNode, HaltTreeReturn, Stack,
         Modes, AtRest, On
<1>2. /\ at \in [Node -> FramePoints] /\ idx \in [Node -> Int] /\ skip \in [Node -> SUBSET Int]
      /\ todo \in [Node -> SUBSET Int] /\ status \in [Node -> Status] /\ got \in [Node -> Status]
  BY DEF Inv, TypeOK
<1>3. ASSUME NEW m \in Node, kind[m] \notin ReactiveKinds \cup LoopKinds, NEW i \in Indices(m),
             Finished(m, i)
      PROVE  Kept(m, i) /\ ~ Awaits(m, i)
  BY <1>1, <1>3 DEF KidsFresh, Accounted, Awaits
<1>4. ASSUME UNCHANGED <<kind, idx, skip>>, \A m \in Node : at'[m] \in {"off", "enter"},
             \A m \in Node \ {Root} : status'[m] = status[m]
      PROVE  \A m \in Node : KidsFresh(m)'
  <2> SUFFICES ASSUME NEW m \in Node, kind[m] \notin ReactiveKinds \cup LoopKinds,
                      NEW i \in Indices(m), Finished(m, i)'
               PROVE  Accounted(m, i)'
    BY <1>4 DEF KidsFresh
  <2>1. Finished(m, i)
    BY <1>4, ChildFact DEF Finished
  <2> QED
    BY <1>3, <1>4, <2>1 DEF Accounted, Kept, Awaits
<1>5. ASSUME NEW h \in Node, CallHalt(h), UNCHANGED <<kind, status>>
      PROVE  \A m \in Node : KidsFresh(m)'
  <2> SUFFICES ASSUME NEW m \in Node, kind[m] \notin ReactiveKinds \cup LoopKinds,
                      NEW i \in Indices(m), Finished(m, i)'
               PROVE  Accounted(m, i)'
    BY <1>5 DEF KidsFresh
  <2>1. Kept(m, i)
    BY <1>3, <1>5 DEF Finished
  <2>2. CASE m = h
    BY <1>2, <1>5, <2>2 DEF CallHalt, Accounted
  <2>3. CASE m # h
    BY <1>1, <1>2, <1>5, <2>1, <2>3 DEF CallHalt, ResetMembers, Accounted, Kept, Awaits
  <2> QED
    BY <2>2, <2>3
<1>6. CASE TickRoot
  <2>1. UNCHANGED <<kind, idx, skip, status>> /\ op = "rest" /\ op' = "tick" /\ at' = [at EXCEPT ![Root] = "enter"]
    BY <1>6 DEF TickRoot, tree, memory
  <2>2. RootFresh'
    BY <2>1 DEF RootFresh
  <2> QED
    BY <1>1, <1>2, <1>4, <2>1, <2>2
<1>7. CASE TickRootReturn
  <2>1. /\ UNCHANGED <<kind, idx, skip, at>> /\ \A m \in Node \ {Root} : status'[m] = status[m]
        /\ status'[Root] = IF got[Root] \in Done THEN "IDLE" ELSE status[Root]
    BY <1>2, <1>7, TreeAssumption DEF TickRootReturn, tree, memory
  <2>2. AsReturned(Root)
    BY <1>7 DEF TickRootReturn, Returned
  <2>3. RootFresh'
    BY <1>1, <2>1, <2>2, TreeAssumption DEF RootFresh, AsReturned, Done
  <2> QED
    BY <1>1, <1>4, <2>1, <2>3
<1>8. CASE HaltTree
  <2>1. UNCHANGED <<kind, status>> /\ CallHalt(Root) /\ op' = "halt"
    BY <1>8 DEF HaltTree, tree
  <2>2. On(Root)' /\ at'[Root] = "stop"
    BY <1>2, <2>1, TreeAssumption DEF CallHalt, On
  <2> QED
    BY <1>5, <2>1, <2>2, TreeAssumption DEF RootFresh
<1>9. CASE HaltTreeVisit
  <2>1. UNCHANGED <<kind, idx, skip, status, at>> /\ op = "halt" /\ op' = "visit"
    BY <1>9 DEF HaltTreeVisit, tree, memory
  <2>2. RootFresh'
    BY <1>1, <2>1, TreeAssumption DEF RootFresh, On
  <2> QED
    BY <1>1, <1>4, <2>1, <2>2
<1>10. CASE VisitNode
  <2>1. PICK h \in Node : CallHalt(h)
    BY <1>10 DEF VisitNode, Inv, TypeOK
  <2>2. UNCHANGED <<kind, status, op>> /\ op = "visit"
    BY <1>10 DEF VisitNode, tree
  <2>3. at'[Root] # "enter"
    BY <1>1, <1>2, <2>1, TreeAssumption DEF CallHalt
  <2> QED
    BY <1>5, <2>1, <2>2, <2>3 DEF RootFresh
<1>11. CASE HaltTreeReturn
  <2>1. UNCHANGED <<kind, idx, skip, status, at>> /\ op = "visit" /\ op' = "rest"
    BY <1>11 DEF HaltTreeReturn, tree, memory
  <2>2. RootFresh'
    BY <1>1, <2>1, TreeAssumption DEF RootFresh
  <2> QED
    BY <1>1, <1>4, <2>1, <2>2
<1> QED
  BY <1>6, <1>7, <1>8, <1>9, <1>10, <1>11 DEF Owner

\* An exception leaves no result behind: the child whose IDLE it is about has
\* none, and every frame it passes awaits a child that is being ticked.
LEMMA ThrowFresh ==
  ASSUME FreshInv, NEW n \in Node, cur = n, ControlThrow(n) \/ DecoratorThrow(n) \/ SyncThrow(n)
  PROVE  RootFresh' /\ \A m \in Node : KidsFresh(m)'
<1> USE DEF FreshInv, TickInv, ThreadInv, Calls, Inv, TypeOK
<1>1. /\ Unwind /\ at[n] \in {"enter", "await"}
      /\ UNCHANGED status \/ status' = [status EXCEPT ![n] = "RUNNING"]
  BY DEF ControlThrow, DecoratorThrow, SyncThrow, Throw
<1>2. UNCHANGED <<kind, idx, skip>> /\ op' = "thrown" /\ \A m \in Node : at'[m] = "off"
  BY <1>1 DEF Unwind, tree, memory
<1>3. RootFresh'
  BY <1>2, TreeAssumption DEF RootFresh
<1>4. ASSUME NEW m \in Node, NEW i \in Indices(m), Awaits(m, i), m # n
      PROVE  On(Child(m, i)) /\ at[Child(m, i)] # "reset"
  <2>1. On(m) /\ at[m] = "await"
    BY <1>4 DEF Awaits, On
  <2>2. PICK j \in Indices(m) : On(Child(m, j))
    BY <1>4, <2>1, CalleeOn
  <2>3. i = j
    <3>1. CASE kind[m] \in ControlKinds
      BY <1>4, <2>1, <2>2, <3>1 DEF Callees, Awaits
    <3>2. CASE kind[m] \in DecoratorKinds
      <4>1. Count(m) = 1
        BY <3>2, Sizes
      <4> QED
        BY <4>1 DEF Indices
    <3>3. CASE kind[m] \in LeafKinds
      BY <2>1, <3>3 DEF Points
    <3> QED
      BY <3>1, <3>2, <3>3 DEF Kinds
  <2>4. Child(m, j) \in Node /\ (Child(m, j) # n => at[Child(m, j)] \in Waits)
    BY <2>2, ChildIsNode DEF Stack
  <2> QED
    BY <1>1, <2>2, <2>3, <2>4 DEF Waits, HaltPoints
<1>5. ASSUME NEW m \in Node, m # n PROVE at[m] \in {"off", "await"}
  <2>1. On(m) => Depth[m] < Depth[n] /\ On(n)
    BY <1>5, TreeAssumption, DepthFact DEF Stack
  <2> QED
    BY <1>1, <1>5, <2>1 DEF Ticking, On
<1>6. ASSUME NEW i \in Indices(n), Awaits(n, i) PROVE ~ Finished(n, i)
  <2>1. ~ On(Child(n, i))
    BY TopHasNoCallee
  <2>2. AsReturned(Child(n, i))
    BY <1>6, <2>1 DEF Returned
  <2>3. got[Child(n, i)] = "IDLE"
    <3>1. CASE kind[n] \in ControlKinds
      <4>1. i = AwaitedBy(n) /\ at[n] = "await" /\ kind[n] \notin DecoratorKinds
        BY <1>6, <3>1, KindsDiffer DEF Awaits
      <4> QED
        BY <4>1 DEF ControlThrow, DecoratorThrow, SyncThrow, DecoratorKinds
    <3>2. CASE kind[n] \in DecoratorKinds
      <4>1. Count(n) = 1 /\ at[n] = "await" /\ kind[n] \notin ControlKinds
        BY <1>6, <3>2, Sizes, KindsDiffer DEF Awaits
      <4>2. i = 0
        BY <4>1 DEF Indices
      <4> QED
        BY <4>1, <4>2 DEF ControlThrow, DecoratorThrow, SyncThrow
    <3>3. CASE kind[n] \in LeafKinds
      BY <1>6, <3>3 DEF Points, Awaits
    <3> QED
      BY <3>1, <3>2, <3>3 DEF Kinds
  <2> QED
    BY <2>2, <2>3 DEF AsReturned, Finished, Done
<1>7. ASSUME NEW m \in Node, kind[m] \notin ReactiveKinds \cup LoopKinds, NEW i \in Indices(m), Finished(m, i)'
      PROVE  Accounted(m, i)'
  <2>1. Finished(m, i)
    BY <1>1, <1>2, <1>7, ChildIsNode DEF Finished, Done
  <2>2. Accounted(m, i) /\ at[m] \notin {"leave", "stop", "reset"}
    BY <1>1, <1>5, <1>7, <2>1 DEF KidsFresh
  <2>3. Kept(m, i)
    BY <1>4, <1>6, <2>1, <2>2 DEF Accounted
  <2> QED
    BY <1>2, <2>3 DEF Kept, Accounted, Awaits
<1> QED
  BY <1>2, <1>3, <1>7 DEF KidsFresh

\* Every step keeps it.
LEMMA NextFresh == ASSUME FreshInv, [Next]_vars PROVE FreshInv'
<1>1. /\ Inv /\ Calls /\ ThreadInv /\ TickInv /\ at \in [Node -> FramePoints] /\ idx \in [Node -> Int]
      /\ skip \in [Node -> SUBSET Int] /\ todo \in [Node -> SUBSET Int] /\ status \in [Node -> Status]
      /\ loc \in [Node -> Int] /\ TickInv'
  BY NextTick DEF FreshInv, TickInv, ThreadInv, Calls, Inv, TypeOK
<1>2. SUFFICES RootFresh' /\ \A m \in Node : KidsFresh(m)'
  BY <1>1 DEF FreshInv
<1>3. CASE Owner
  BY <1>3, OwnerFresh
<1>4. ASSUME NEW n \in Node, Run(n) PROVE RootFresh' /\ \A m \in Node : KidsFresh(m)'
  <2>1. cur = n /\ cur # NoNode /\ KidsFresh(n) /\ On(n)
    BY <1>1, <1>4, TreeAssumption DEF Run, FreshInv, Calls, Stack
  <2>2. CASE ControlTick(n) \/ DecoratorTick(n)
    <3>1. TickShape(n)
      BY <1>1, <2>2, ControlShape, DecoratorShape
    <3>2. KidsFresh(n)'
      <4>1. CASE SequenceTick(n) \/ FallbackTick(n) \/ SequenceStarTick(n)
        <5>1. kind[n] \in MemoryKinds /\ {"SUCCESS", "FAILURE"} = Done
          BY <4>1 DEF SequenceTick, FallbackTick, SequenceStarTick, MemoryKinds, Done
        <5>2. CASE SequenceTick(n)
          <6>1. MemoryTick(n, "SUCCESS", "FAILURE", Indices(n), 0)
            BY <5>2 DEF SequenceTick
          <6> QED
            BY <1>1, <2>1, <3>1, <5>1, <6>1, MemoryFresh
        <5>3. CASE FallbackTick(n)
          <6>1. MemoryTick(n, "FAILURE", "SUCCESS", Indices(n), 0)
            BY <5>3 DEF FallbackTick
          <6> QED
            BY <1>1, <2>1, <3>1, <5>1, <6>1, MemoryFresh
        <5>4. CASE SequenceStarTick(n)
          <6>1. MemoryTick(n, "SUCCESS", "FAILURE", idx[n] .. Count(n) - 1, idx[n])
            BY <5>4 DEF SequenceStarTick
          <6> QED
            BY <1>1, <2>1, <3>1, <5>1, <6>1, MemoryFresh
        <5> QED
          BY <4>1, <5>2, <5>3, <5>4
      <4>2. CASE ReactiveSequenceTick(n) \/ ReactiveFallbackTick(n)
        BY <3>1, <4>2 DEF ReactiveSequenceTick, ReactiveFallbackTick, ReactiveKinds, KidsFresh,
                          TickShape, OnlyOwn, tree
      <4>3. CASE ParallelTick(n)
        BY <1>1, <2>1, <3>1, <4>3, ParallelFresh
      <4>4. CASE SwitchTick(n)
        BY <1>1, <2>1, <3>1, <4>4, SwitchFresh
      <4>5. CASE DecoratorTick(n)
        <5>1. CASE kind[n] \in LoopKinds
          BY <4>5, <5>1 DEF DecoratorTick, KidsFresh, tree
        <5>2. CASE kind[n] \notin LoopKinds
          BY <1>1, <2>1, <3>1, <4>5, <5>2, DecoratorFresh
        <5> QED
          BY <5>1, <5>2
      <4> QED
        BY <2>2, <4>1, <4>2, <4>3, <4>4, <4>5 DEF ControlTick
    <3>3. /\ UNCHANGED <<kind, op>>
          /\ \A m \in Node \ {n} : /\ idx'[m] = idx[m] /\ skip'[m] = skip[m] /\ todo'[m] = todo[m]
                                   /\ AwaitedBy(m)' = AwaitedBy(m) /\ status'[m] = status[m]
          /\ status'[n] = status[n] \/ status'[n] \notin Done
      BY <1>1, <3>1 DEF TickShape, OnlyOwn, tree, caller, AwaitedBy, Done
    <3>4. /\ at[n] \notin {"stop", "reset"} /\ at'[n] \notin {"enter", "stop", "off", "reset"}
          /\ \A m \in Node \ {n} : at'[m] = at[m] \/ (at[m] = "off" /\ at'[m] = "enter" /\ Parent[m] = n)
      <4>1. at[n] \notin {"stop", "reset"}
        BY <3>1 DEF TickShape
      <4>2. CASE \E p \in FramePoints : Moves(n, p)
        BY <1>1, <4>1, <4>2 DEF Moves
      <4>3. CASE \E i \in Indices(n) : TicksChild(n, i)
        <5>1. PICK i \in Indices(n) : TickChild(n, i)
          BY <4>3 DEF TicksChild
        <5>2. Child(n, i) \in Node \ {n} /\ Parent[Child(n, i)] = n /\ at[Child(n, i)] = "off"
          BY <1>1, <2>1, ChildFact, TopHasNoCallee DEF On
        <5> QED
          BY <1>1, <4>1, <5>1, <5>2 DEF TickChild
      <4> QED
        BY <3>1, <4>2, <4>3 DEF TickShape
    <3> QED
      BY <2>1, <3>2, <3>3, <3>4, StepFresh
  <2>3. CASE ControlThrow(n) \/ DecoratorThrow(n) \/ SyncThrow(n)
    BY <2>1, <2>3, ThrowFresh
  <2>4. CASE HaltChild(n)
    <3>1. /\ at[n] \in HaltPoints /\ UNCHANGED <<kind, loc, op>>
          /\ \E i \in Indices(n) : HaltsRunning(n, i) \/ SetsIdle(n, i)
      BY <1>1, <2>4, HaltShape DEF tree, caller
    <3>2. PICK i \in Indices(n) : HaltsRunning(n, i) \/ SetsIdle(n, i)
      BY <3>1
    <3>3. /\ Child(n, i) \in Node \ {n} /\ Parent[Child(n, i)] = n
          /\ \A j \in Indices(n) : Child(n, i) = Child(n, j) => i = j
      BY ChildFact
    <3>4. /\ at'[n] = at[n] /\ idx'[n] = idx[n] /\ skip'[n] = skip[n] /\ todo'[n] = todo[n] \ {i}
          /\ status'[n] = status[n] /\ status'[Child(n, i)] \notin Done
      <4>1. CASE HaltsRunning(n, i)
        BY <1>1, <3>3, <4>1 DEF HaltsRunning, Done
      <4>2. CASE SetsIdle(n, i)
        BY <1>1, <3>3, <4>2 DEF SetsIdle, memory, Done
      <4> QED
        BY <3>2, <4>1, <4>2
    <3>5. \A m \in Node \ {n} :
            /\ \/ /\ idx'[m] = idx[m] /\ skip'[m] = skip[m] /\ todo'[m] = todo[m]
                  /\ AwaitedBy(m)' = AwaitedBy(m)
                  /\ at'[m] = at[m] \/ (at[m] = "off" /\ at'[m] = "enter" /\ Parent[m] = n)
               \/ Parent[m] = n /\ at'[m] = "stop" /\ todo'[m] = Indices(m)
            /\ status'[m] = status[m] \/ (status'[m] = "IDLE" /\ Parent[m] = n)
      <4>1. CASE HaltsRunning(n, i)
        BY <1>1, <3>1, <3>3, <4>1 DEF HaltsRunning, AwaitedBy
      <4>2. CASE SetsIdle(n, i)
        BY <1>1, <3>1, <3>3, <4>2 DEF SetsIdle, memory, AwaitedBy
      <4> QED
        BY <3>2, <4>1, <4>2
    <3>6. KidsFresh(n)'
      <4> SUFFICES ASSUME kind[n] \notin ReactiveKinds \cup LoopKinds, NEW j \in Indices(n), Finished(n, j)'
                   PROVE  Accounted(n, j)'
        BY <3>1 DEF KidsFresh
      <4>1. j # i
        BY <3>4 DEF Finished
      <4>2. Child(n, j) \in Node \ {n, Child(n, i)}
        BY <3>3, <4>1, ChildIsNode
      <4>3. Finished(n, j)
        BY <3>1, <3>5, <4>2 DEF Finished, Done
      <4>4. Accounted(n, j) /\ ~ Awaits(n, j)
        BY <2>1, <3>1, <4>3 DEF KidsFresh, Awaits, HaltPoints
      <4>5. ~ Awaits(n, j)'
        BY <3>1, <3>4 DEF Awaits, HaltPoints
      <4> QED
        BY <3>1, <3>4, <4>1, <4>4, <4>5 DEF Accounted, Kept
    <3>7. at'[n] \notin {"enter", "off", "reset"} /\ (at[n] = "stop" => at'[n] = "stop") /\ at[n] # "reset"
      BY <3>1, <3>4 DEF HaltPoints
    <3> QED
      BY <2>1, <3>1, <3>4, <3>5, <3>6, <3>7, StepFresh
  <2>5. ASSUME Pop(n), UNCHANGED <<tree, memory, todo, op>>, KidsFresh(n)',
               at[n] = "stop" => status'[n] = "IDLE",
               \A m \in Node \ {n} : status'[m] = status[m] \/ (status'[m] = "IDLE" /\ Parent[m] = n)
        PROVE  RootFresh' /\ \A m \in Node : KidsFresh(m)'
    <3>1. /\ UNCHANGED <<kind, idx, skip, todo>> /\ at'[n] = "off"
          /\ \A m \in Node \ {n} : at'[m] = at[m] /\ AwaitedBy(m)' = AwaitedBy(m)
      BY <1>1, <2>5 DEF Pop, tree, memory, AwaitedBy
    <3>2. at[n] = "stop" => status'[n] \notin Done
      BY <2>5 DEF Done
    <3> QED
      BY <2>1, <2>5, <3>1, <3>2, StepFresh
  \* At its return a frame has nothing left to halt.
  <2>6. ASSUME at[n] \in {"leave", "stop"}, todo[n] = {}, kind[n] \notin DecoratorKinds \/ at[n] = "stop",
               UNCHANGED <<kind, idx, skip>>, at'[n] = "off", \A m \in Node \ {n} : status'[m] = status[m]
        PROVE  KidsFresh(n)'
    <3> SUFFICES ASSUME kind[n] \notin ReactiveKinds \cup LoopKinds, NEW i \in Indices(n), Finished(n, i)'
                 PROVE  Accounted(n, i)'
      BY <2>6 DEF KidsFresh
    <3>1. Accounted(n, i)
      BY <2>1, <2>6, ChildIsNode DEF KidsFresh, Finished
    <3>2. Kept(n, i)
      BY <2>6, <3>1 DEF Accounted, Awaits
    <3> QED
      BY <2>6, <3>2 DEF Accounted, Kept, Awaits
  <2>7. CASE Halted(n)
    <3>1. /\ at[n] = "stop" /\ todo[n] = {} /\ Pop(n) /\ UNCHANGED <<tree, memory, todo, op>>
          /\ status'[n] = "IDLE" /\ \A m \in Node \ {n} : status'[m] = status[m]
      BY <1>1, <2>7 DEF Halted, caller
    <3>2. KidsFresh(n)'
      BY <1>1, <2>6, <3>1 DEF Pop, tree, memory
    <3> QED
      BY <2>5, <3>1, <3>2
  <2>8. CASE Ticked(n)
    <3>1. /\ at[n] = "leave" /\ todo[n] = {} /\ UNCHANGED <<tree, memory, todo, op>>
          /\ \A m \in Node \ {n} : status'[m] = status[m]
      BY <1>1, <2>8 DEF Ticked, caller
    <3>2. CASE kind[n] \in DecoratorKinds
      <4>1. at' = [at EXCEPT ![n] = "reset"] /\ UNCHANGED <<kind, idx, skip, loc>>
        BY <2>8, <3>1, <3>2 DEF Ticked, tree, memory
      <4>2. at'[n] = "reset" /\ \A m \in Node \ {n} : at'[m] = at[m] /\ AwaitedBy(m)' = AwaitedBy(m)
        BY <1>1, <4>1 DEF AwaitedBy
      <4>3. KidsFresh(n)'
        BY <3>2, <4>1, <4>2 DEF KidsFresh, Accounted
      <4> QED
        BY <2>1, <3>1, <4>1, <4>2, <4>3, StepFresh
    <3>3. CASE kind[n] \notin DecoratorKinds
      <4>1. Pop(n)
        BY <2>8, <3>3 DEF Ticked
      <4>2. KidsFresh(n)'
        BY <1>1, <2>6, <3>1, <3>3, <4>1 DEF Pop, tree, memory
      <4> QED
        BY <2>5, <3>1, <4>1, <4>2
    <3> QED
      BY <3>2, <3>3
  <2>9. CASE ResetChild(n)
    <3>1. /\ at[n] = "reset" /\ Pop(n) /\ UNCHANGED <<tree, memory, todo, op>> /\ kind[n] \in DecoratorKinds
          /\ status' = [status EXCEPT ![Child(n, 0)] = IF @ \in Done THEN "IDLE" ELSE @]
      BY <1>1, <2>9 DEF ResetChild, Inv, FrameOK, caller
    <3>2. Child(n, 0) \in Node \ {n} /\ Parent[Child(n, 0)] = n /\ Indices(n) = {0}
      <4>1. Count(n) = 1 /\ 0 \in Indices(n)
        BY <1>1, <3>1, Sizes DEF Inv
      <4> QED
        BY <4>1, ChildFact DEF Indices
    <3>3. /\ status'[Child(n, 0)] \notin Done
          /\ \A m \in Node \ {n} : status'[m] = status[m] \/ (status'[m] = "IDLE" /\ Parent[m] = n)
      BY <1>1, <3>1, <3>2 DEF Done
    <3>4. KidsFresh(n)'
      BY <3>2, <3>3 DEF KidsFresh, Finished
    <3> QED
      BY <2>5, <3>1, <3>3, <3>4
  <2>10. CASE kind[n] \in LeafKinds /\ (SyncTick(n) \/ StatefulTick(n) \/ AsyncRead(n) \/ AsyncStart(n))
    <3>1. Count(n) = 0
      BY <1>1, <2>10, TreesAssumption DEF Inv, Fits
    <3>2. KidsFresh(n)'
      BY <3>1 DEF KidsFresh, Indices
    <3>3. at[n] \in {"enter", "read"}
      BY <2>10 DEF SyncTick, StatefulTick, AsyncRead, AsyncStart
    <3>4. CASE SyncTick(n) \/ StatefulTick(n) \/ AsyncRead(n)
      <4>1. Pop(n) /\ UNCHANGED <<tree, memory, todo, op>> /\ \A m \in Node \ {n} : status'[m] = status[m]
        BY <1>1, <3>4 DEF SyncTick, StatefulTick, AsyncRead, Return, caller
      <4> QED
        BY <2>5, <3>2, <3>3, <4>1
    <3>5. CASE AsyncStart(n)
      <4>1. /\ UNCHANGED <<kind, op, idx, skip, loc, todo>> /\ at' = [at EXCEPT ![n] = "read"]
            /\ status' = [status EXCEPT ![n] = "RUNNING"]
        BY <3>5 DEF AsyncStart, tree, memory, frame, caller
      <4>2. /\ at'[n] = "read" /\ status'[n] \notin Done
            /\ \A m \in Node \ {n} : at'[m] = at[m] /\ AwaitedBy(m)' = AwaitedBy(m) /\ status'[m] = status[m]
        BY <1>1, <4>1 DEF AwaitedBy, Done
      <4> QED
        BY <2>1, <3>2, <3>3, <4>1, <4>2, StepFresh
    <3> QED
      BY <2>10, <3>4, <3>5
  <2>11. ASSUME LeafTick(n) PROVE kind[n] \in LeafKinds
    BY <2>11 DEF LeafTick, SyncTick, SyncThrow, StatefulTick, AsyncRead, AsyncStart, LeafKinds
  <2> QED
    BY <1>4, <2>2, <2>3, <2>4, <2>7, <2>8, <2>9, <2>10, <2>11 DEF Run, LeafTick
<1>5. ASSUME UNCHANGED <<kind, at, idx, skip, loc, todo, op>>,
             \A m \in Node : kind[m] \notin AsyncKinds => status'[m] = status[m]
      PROVE  RootFresh' /\ \A m \in Node : KidsFresh(m)'
  <2>1. RootFresh'
    BY <1>5, TreeAssumption DEF FreshInv, RootFresh, On
  <2>2. \A m \in Node : \A i \in Indices(m) : Finished(m, i)' => Finished(m, i)
    BY <1>5, ChildIsNode DEF Finished
  <2>3. \A m \in Node : \A i \in Indices(m) : Accounted(m, i) => Accounted(m, i)'
    BY <1>5 DEF Accounted, Kept, Awaits, AwaitedBy, On
  <2> QED
    BY <1>5, <2>1, <2>2, <2>3 DEF FreshInv, KidsFresh
<1>6. ASSUME NEW n \in Node, AsyncThread(n) \/ AsyncThreadThrow(n)
      PROVE  RootFresh' /\ \A m \in Node : KidsFresh(m)'
  <2>1. kind[n] \in AsyncKinds
    BY <1>1, <1>6 DEF AsyncThread, AsyncThreadThrow, ThreadInv, Threads
  <2>2. UNCHANGED <<kind, at, idx, skip, loc, todo, op>> /\ \A m \in Node \ {n} : status'[m] = status[m]
    BY <1>1, <1>6 DEF AsyncThread, AsyncThreadThrow, tree, memory, frame, caller
  <2> QED
    BY <1>5, <2>1, <2>2
<1>7. CASE UNCHANGED vars
  BY <1>5, <1>7 DEF vars, tree, memory, frame, caller
<1> QED
  BY <1>3, <1>4, <1>6, <1>7 DEF Next

\* No node has a result at the start.
LEMMA InitFresh == ASSUME Init PROVE FreshInv
<1>1. TickInv
  BY InitTick
<1>2. \A m \in Node : at[m] = "off" /\ status[m] \notin Done
  BY DEF Init, Done
<1>3. RootFresh
  BY <1>2, TreeAssumption DEF RootFresh
<1>4. \A m \in Node : KidsFresh(m)
  BY <1>2, ChildIsNode DEF KidsFresh, Finished
<1> QED
  BY <1>1, <1>3, <1>4 DEF FreshInv

\* Below no reactive node and no loop a leaf without a thread is ticked only
\* when it is IDLE or RUNNING, in every tree and whatever was thrown before.
THEOREM NoStaleTick == Spec => []FreshLeaf
<1>1. Init => FreshInv
  BY InitFresh
<1>2. FreshInv /\ [Next]_vars => FreshInv'
  BY NextFresh
<1>3. FreshInv => FreshLeaf
  <2> SUFFICES ASSUME FreshInv, \A m \in Node : On(m) => kind[m] \notin ReactiveKinds \cup LoopKinds,
                      NEW n \in Node, at[n] = "enter", kind[n] \notin AsyncKinds
               PROVE  status[n] \notin Done
    BY DEF FreshLeaf, On
  <2>1. Calls /\ On(n) /\ at[n] # "stop"
    BY DEF FreshInv, TickInv, ThreadInv, On
  <2>2. CASE n = Root
    BY <2>2 DEF FreshInv, RootFresh
  <2>3. CASE n # Root
    <3>1. Parent[n] \in Node /\ n \in Kids(Parent[n])
      BY <2>3, TreeAssumption
    <3>2. PICK i \in Indices(Parent[n]) : n = Child(Parent[n], i)
      BY <3>1 DEF Kids
    <3>3. On(Parent[n]) /\ Awaits(Parent[n], i)
      BY <2>1, <3>1, <3>2, CallerAwaits
    <3>4. Finished(Parent[n], i) => Accounted(Parent[n], i)
      BY <3>1, <3>3 DEF FreshInv, KidsFresh
    <3>5. at[Parent[n]] = "await"
      BY <3>3 DEF Awaits
    <3>6. ~ Accounted(Parent[n], i)
      BY <2>1, <3>2, <3>3, <3>5 DEF Accounted
    <3> QED
      BY <3>2, <3>4, <3>6 DEF Finished
  <2> QED
    BY <2>2, <2>3
<1> QED
  BY <1>1, <1>2, <1>3, PTL DEF Spec

\* What a tree may leave behind, all of it, when exceptions pass only nodes
\* that are RUNNING.
THEOREM NothingIsLeft == Spec /\ [][UnwindsRunning(FALSE)]_vars => []NothingLeft
<1>1. Spec => []ThreadIsRunning
  BY ThreadsBelongToRunningNodes
<1>2. Spec /\ [][UnwindsRunning(FALSE)]_vars => []NoOrphans
  BY NoNodeIsOrphaned
<1>3. Spec /\ [][UnwindsRunning(FALSE)]_vars => []HaltStops
  BY HaltTreeStops
<1>4. Spec => []FreshLeaf
  BY NoStaleTick
<1>5. ThreadIsRunning /\ NoOrphans /\ HaltStops /\ FreshLeaf => NothingLeft
  BY DEF NothingLeft
<1> QED
  BY <1>1, <1>2, <1>3, <1>4, <1>5, PTL

-----------------------------------------------------------------------------
(* What the results of its children tell a control node.                   *)

\* The result on which a node goes on to its next child.
GoOf(n) == IF kind[n] \in {"Fallback", "ReactiveFallback"} THEN "FAILURE" ELSE "SUCCESS"

\* What the members and the loop index of a control node say of the results its
\* children gave it last.  A Parallel has not come to its threshold while its
\* loop goes on, and a SequenceStar halts only children that it ticks again.
KidsTell(n) ==
  /\ kind[n] \in MemoryKinds =>
       /\ \A i \in Indices(n) : i < idx[n] => got[Child(n, i)] = GoOf(n)
       /\ at[n] \in HaltPoints => \A i \in todo[n] : i >= idx[n]
  /\ kind[n] \in ReactiveKinds /\ at[n] \in {"loop", "await"} =>
       \A i \in Indices(n) : i < loc[n] => got[Child(n, i)] = GoOf(n)
  /\ kind[n] = "Parallel" =>
       /\ \A i \in skip[n] : got[Child(n, i)] = status[Child(n, i)]
       /\ at[n] \in {"loop", "await"} =>
            /\ \A i \in Indices(n) :
                 i < loc[n] => i \in skip[n] \/ got[Child(n, i)] = "RUNNING"
            /\ Counted(n, "SUCCESS") < param[n]
            /\ Counted(n, "FAILURE") <= Count(n) - param[n]

\* No Parallel is asked for less than one success.
Thresholds == \A n \in Node : kind[n] = "Parallel" => param[n] >= 1

VerdictInv == SkipInv /\ Thresholds /\ \A n \in Node : KidsTell(n)

\* The children with a result are as many as their indices, and two results
\* share the children between them.
LEMMA Tally ==
  ASSUME Fits, NEW n \in Node
  PROVE  /\ IsFiniteSet(Indices(n)) /\ Cardinality(Indices(n)) = Count(n)
         /\ \A s : /\ HowMany(n, s) = Cardinality({i \in Indices(n) : got[Child(n, i)] = s})
                   /\ HowMany(n, s) \in Nat
         /\ \A s, t : s # t => HowMany(n, s) + HowMany(n, t) <= Count(n)
<1>1. Count(n) \in Nat /\ Indices(n) = 0 .. Count(n) - 1
  BY Sizes DEF Indices
<1>2. IsFiniteSet(Indices(n)) /\ Cardinality(Indices(n)) = Count(n)
  BY <1>1, FS_Interval
<1> DEFINE Giving(s) == {i \in Indices(n) : got[Child(n, i)] = s}
<1>3. ASSUME NEW s
      PROVE  /\ IsFiniteSet(Giving(s)) /\ Cardinality(Giving(s)) \in Nat
             /\ HowMany(n, s) = Cardinality(Giving(s))
  <2>1. Giving(s) \in SUBSET Indices(n)
    OBVIOUS
  <2>2. IsFiniteSet(Giving(s))
    BY <1>2, <2>1, FS_Subset
  <2> DEFINE T == {c \in Kids(n) : got[c] = s}
             f == [i \in Giving(s) |-> Child(n, i)]
  <2>3. f \in [Giving(s) -> T]
    BY DEF Kids
  <2>4. \A i, j \in Giving(s) : f[i] = f[j] => i = j
    BY ChildFact
  <2>5. \A c \in T : \E i \in Giving(s) : f[i] = c
    BY DEF Kids
  <2>6. f \in Bijection(Giving(s), T)
    <3> HIDE DEF T, f, Giving
    <3> QED
      BY <2>3, <2>4, <2>5, Fun_IsBij
  <2>7. ExistsBijection(Giving(s), T)
    BY <2>6 DEF ExistsBijection
  <2>8. Cardinality(T) = Cardinality(Giving(s))
    <3> HIDE DEF T, f, Giving
    <3> QED
      BY <2>2, <2>7, FS_Bijection
  <2> QED
    BY <2>2, <2>8, FS_CardinalityType DEF HowMany
<1>4. ASSUME NEW s, NEW t, s # t
      PROVE  HowMany(n, s) + HowMany(n, t) <= Count(n)
  <2>1. Giving(s) \cap Giving(t) = {} /\ Giving(s) \cup Giving(t) \in SUBSET Indices(n)
    BY <1>4
  <2>2. /\ IsFiniteSet(Giving(s)) /\ Cardinality(Giving(s)) \in Nat
        /\ IsFiniteSet(Giving(t)) /\ Cardinality(Giving(t)) \in Nat
        /\ HowMany(n, s) = Cardinality(Giving(s)) /\ HowMany(n, t) = Cardinality(Giving(t))
    BY <1>3
  <2> HIDE DEF Giving
  <2>3. Cardinality(Giving(s) \cup Giving(t))
          = Cardinality(Giving(s)) + Cardinality(Giving(t)) - Cardinality({})
    BY <2>1, <2>2, FS_Union
  <2>4. Cardinality({}) = 0
    BY FS_EmptySet
  <2>5. Cardinality(Giving(s) \cup Giving(t)) <= Cardinality(Indices(n))
    BY <1>2, <2>1, FS_Subset
  <2> QED
    BY <1>2, <2>2, <2>3, <2>4, <2>5
<1> QED
  BY <1>2, <1>3, <1>4

\* What a Parallel counts is a number, and grows by one with the child it counts.
LEMMA CountsUp ==
  ASSUME Fits, NEW n \in Node, NEW S \in SUBSET Indices(n), NEW i \in Indices(n), i \notin S
  PROVE  /\ IsFiniteSet(S) /\ Cardinality(S) \in Nat
         /\ Cardinality(S \cup {i}) = Cardinality(S) + 1
<1>1. IsFiniteSet(S)
  BY Tally, FS_Subset
<1> QED
  BY <1>1, FS_AddElement, FS_CardinalityType

\* Who can change what n knows of its child i: the child itself, which n then
\* awaits unless it only halts, its thread, and n when it halts the child.
Moved(n, i) ==
  \/ On(Child(n, i)) /\ at[Child(n, i)] # "stop"
  \/ (On(Child(n, i)) \/ thread[Child(n, i)]) /\ got'[Child(n, i)] = got[Child(n, i)]
  \/ at[n] \in HaltPoints /\ i \in todo[n]

Unmoved(n, i) ==
  status'[Child(n, i)] = status[Child(n, i)] /\ got'[Child(n, i)] = got[Child(n, i)]

\* A step in which n does not run its tick(): n goes on as it was, returns,
\* or is ticked or halted by its caller.
Steady(n) ==
  /\ UNCHANGED <<kind, param>>
  /\ idx'[n] = idx[n] \/ idx'[n] = FirstIdx(kind[n])
  /\ skip'[n] = skip[n] \/ skip'[n] = {}
  /\ at'[n] \in {"loop", "await"} => at'[n] = at[n] /\ loc'[n] = loc[n] /\ skip'[n] = skip[n]
  /\ at'[n] \in HaltPoints \ {"stop"} =>
       at'[n] = at[n] /\ idx'[n] = idx[n] /\ todo'[n] \subseteq todo[n]
  /\ \A i \in Indices(n) : Unmoved(n, i) \/ Moved(n, i)

\* A node that does not tick keeps what it knows.
LEMMA StayTells ==
  ASSUME SkipInv, TickInv', NEW n \in Node, kind[n] \in ControlKinds, KidsTell(n), Steady(n)
  PROVE  KidsTell(n)'
<1> USE DEF SkipInv, TickInv, ThreadInv, Calls, Inv, Steady
<1>1. /\ Count(n) \in Nat /\ Indices(n) = 0 .. Count(n) - 1
      /\ idx[n] \in Int /\ loc[n] \in Int /\ skip[n] \subseteq Indices(n)
      /\ todo'[n] \subseteq Indices(n)
  BY Sizes DEF Indices, TypeOK
<1>2. ASSUME NEW i \in Indices(n), got'[Child(n, i)] # got[Child(n, i)]
      PROVE  \/ at[n] = "await" /\ i = AwaitedBy(n)
             \/ at[n] \in HaltPoints /\ i \in todo[n]
  <2>1. CASE On(Child(n, i)) /\ at[Child(n, i)] # "stop"
    <3>1. Child(n, i) \in Node
      BY ChildIsNode
    <3>2. Awaits(n, i)
      BY <2>1, <3>1, CallerAwaits
    <3> QED
      BY <3>2 DEF Awaits
  <2> QED
    BY <1>2, <2>1 DEF Unmoved, Moved
<1>3. CASE kind[n] \in MemoryKinds
  <2>1. /\ kind[n] \notin ReactiveKinds \cup {"Parallel", "Switch"}
        /\ FirstIdx(kind[n]) = 0 /\ AwaitedBy(n) = idx[n] /\ GoOf(n)' = GoOf(n)
    BY <1>3, KindsDiffer DEF FirstIdx, AwaitedBy, GoOf
  <2>2. idx'[n] = idx[n] \/ idx'[n] = 0
    BY <2>1
  <2>3. ASSUME NEW i \in Indices(n), i < idx'[n] PROVE got'[Child(n, i)] = GoOf(n)
    <3>1. i \in Int /\ i < idx[n]
      BY <1>1, <2>2, <2>3
    <3>2. got[Child(n, i)] = GoOf(n)
      BY <1>3, <3>1 DEF KidsTell
    <3>3. ~ (at[n] \in HaltPoints /\ i \in todo[n])
      BY <1>1, <1>3, <3>1 DEF KidsTell
    <3> QED
      BY <1>1, <1>2, <2>1, <3>1, <3>2, <3>3
  <2>4. ASSUME at'[n] \in HaltPoints, NEW i \in todo'[n] PROVE i >= idx'[n]
    <3>1. CASE at'[n] = "stop"
      <4>1. idx'[n] = 0
        BY <2>1, <3>1 DEF Resetting
      <4> QED
        BY <1>1, <4>1
    <3>2. CASE at'[n] # "stop"
      BY <1>3, <2>4, <3>2 DEF KidsTell
    <3> QED
      BY <3>1, <3>2
  <2> QED
    BY <1>3, <2>1, <2>3, <2>4 DEF KidsTell
<1>4. CASE kind[n] \in ReactiveKinds
  <2>1. /\ kind[n] \notin MemoryKinds \cup {"Parallel", "Switch"}
        /\ AwaitedBy(n) = loc[n] /\ GoOf(n)' = GoOf(n)
    BY <1>4, KindsDiffer DEF AwaitedBy, GoOf
  <2>2. ASSUME at'[n] \in {"loop", "await"}, NEW i \in Indices(n), i < loc'[n]
        PROVE  got'[Child(n, i)] = GoOf(n)
    <3>1. i \in Int /\ i < loc[n] /\ at[n] \notin HaltPoints
      BY <1>1, <2>2 DEF HaltPoints
    <3>2. got[Child(n, i)] = GoOf(n)
      BY <1>4, <2>2, <3>1 DEF KidsTell
    <3> QED
      BY <1>1, <1>2, <2>1, <3>1, <3>2
  <2> QED
    BY <1>4, <2>1, <2>2 DEF KidsTell
<1>5. CASE kind[n] = "Parallel"
  <2>1. kind[n] \notin MemoryKinds \cup ReactiveKinds /\ AwaitedBy(n) = loc[n]
    BY <1>5 DEF AwaitedBy, MemoryKinds, ReactiveKinds
  <2>2. ASSUME NEW i \in skip[n] PROVE Unmoved(n, i)
    <3>1. i \in Indices(n) /\ Child(n, i) \in Node
      BY <1>1, ChildIsNode
    <3>2. status[Child(n, i)] \in Done /\ ~ On(Child(n, i))
      BY DEF Skips
    <3>3. ~ thread[Child(n, i)]
      BY <3>1, <3>2 DEF ThreadIsRunning, Done
    <3>4. ~ (at[n] \in HaltPoints /\ i \in todo[n])
      BY DEF Skips
    <3> QED
      BY <3>1, <3>2, <3>3, <3>4 DEF Moved
  <2>3. \A i \in skip'[n] : got'[Child(n, i)] = status'[Child(n, i)]
    BY <1>5, <2>2 DEF KidsTell, Unmoved
  <2>4. ASSUME at'[n] \in {"loop", "await"}
        PROVE  /\ \A i \in Indices(n) :
                    i < loc'[n] => i \in skip'[n] \/ got'[Child(n, i)] = "RUNNING"
               /\ \A s : Counted(n, s)' = Counted(n, s)
    <3>1. at[n] \in {"loop", "await"} /\ at[n] \notin HaltPoints /\ loc'[n] = loc[n] /\ skip'[n] = skip[n]
      BY <2>4 DEF HaltPoints
    <3>2. ASSUME NEW i \in Indices(n), i < loc[n]
          PROVE  i \in skip[n] \/ got'[Child(n, i)] = "RUNNING"
      BY <1>1, <1>2, <1>5, <2>1, <3>1, <3>2 DEF KidsTell
    <3>3. ASSUME NEW s
          PROVE  {i \in skip'[n] : i < loc'[n] /\ status'[Child(n, i)] = s}
                   = {i \in skip[n] : i < loc[n] /\ status[Child(n, i)] = s}
      BY <2>2, <3>1 DEF Unmoved
    <3> QED
      BY <3>1, <3>2, <3>3 DEF Counted
  <2> QED
    BY <1>5, <2>1, <2>3, <2>4 DEF KidsTell
<1>6. CASE kind[n] = "Switch"
  BY <1>6 DEF KidsTell, MemoryKinds, ReactiveKinds
<1> QED
  BY <1>3, <1>4, <1>5, <1>6 DEF ControlKinds

\* What a Sequence and what a Fallback have to know to return s.
LEMMA JustifiedBy ==
  ASSUME NEW n \in Node, UNCHANGED <<kind, got>>, kind[n] \in MemoryKinds \cup ReactiveKinds,
         NEW s, s = out'[n],
         \/ s = GoOf(n) /\ \A i \in Indices(n) : got[Child(n, i)] = s
         \/ s # GoOf(n) /\ FirstNot(n, GoOf(n), s)
  PROVE  Justified(n)'
<1>1. /\ s = GoOf(n) => AllGot(n, s)'
      /\ s # GoOf(n) => FirstNot(n, GoOf(n), s)'
  BY DEF AllGot, FirstNot, Kids, GoOf
<1>2. CASE kind[n] \in {"Sequence", "SequenceStar", "ReactiveSequence"}
  <2>1. GoOf(n) = "SUCCESS"
    BY <1>2 DEF GoOf
  <2> QED
    BY <1>1, <1>2, <2>1 DEF Justified, AllGot, FirstNot
<1>3. CASE kind[n] \in {"Fallback", "ReactiveFallback"}
  <2>1. GoOf(n) = "FAILURE" /\ kind[n] \notin {"Sequence", "SequenceStar", "ReactiveSequence"}
    BY <1>3 DEF GoOf
  <2> QED
    BY <1>1, <1>3, <2>1 DEF Justified, AllGot, FirstNot
<1> QED
  BY <1>2, <1>3 DEF MemoryKinds, ReactiveKinds

\* A Sequence, Fallback or SequenceStar returns what its children call for.
LEMMA MemoryTells ==
  ASSUME SkipInv, NEW n \in Node, cur = n, TickShape(n), KidsTell(n), kind[n] \in MemoryKinds,
         NEW go, go = GoOf(n), NEW stop \in Done, stop # go, NEW Rest, NEW left,
         MemoryTick(n, go, stop, Rest, left),
         (Rest = Indices(n) /\ left = 0) \/ (Rest = idx[n] .. Count(n) - 1 /\ left = idx[n])
  PROVE  KidsTell(n)' /\ (at'[n] = "leave" => Justified(n)')
<1> USE DEF SkipInv, TickInv, ThreadInv, Calls, Inv
<1>1. /\ Count(n) \in Nat /\ Indices(n) = 0 .. Count(n) - 1
      /\ idx[n] \in 0 .. Count(n)
      /\ kind[n] \notin ReactiveKinds \cup {"Parallel", "Switch"}
  BY MemoryIndex, Sizes, KindsDiffer DEF Indices
<1>2. /\ UNCHANGED <<kind, param, got>> /\ GoOf(n)' = go
      /\ at \in [Node -> FramePoints] /\ idx \in [Node -> Int] /\ todo \in [Node -> SUBSET Int]
      /\ out \in [Node -> Status]
  BY DEF TickShape, OnlyOwn, tree, GoOf, TypeOK
<1>3. /\ \A i \in Indices(n) : i < idx[n] => got[Child(n, i)] = go
      /\ at[n] \notin HaltPoints \/ at[n] = "switch"
  BY DEF KidsTell, TickShape, HaltPoints
<1>4. at[n] # "switch"
  BY <1>1 DEF Points
<1>5. SUFFICES /\ \A i \in Indices(n) : i < idx'[n] => got[Child(n, i)] = go
               /\ at'[n] \in HaltPoints => \A i \in todo'[n] : i >= idx'[n]
               /\ at'[n] = "leave" => \/ out'[n] = go /\ \A i \in Indices(n) : got[Child(n, i)] = go
                                      \/ out'[n] # go /\ FirstNot(n, go, out'[n])
  <2>1. KidsTell(n)'
    BY <1>1, <1>2, <1>5 DEF KidsTell
  <2>2. ASSUME at'[n] = "leave" PROVE Justified(n)'
    <3>1. \/ out'[n] = GoOf(n) /\ \A i \in Indices(n) : got[Child(n, i)] = out'[n]
          \/ out'[n] # GoOf(n) /\ FirstNot(n, GoOf(n), out'[n])
      BY <1>2, <1>5, <2>2
    <3> QED
      BY <1>2, <3>1, JustifiedBy
  <2> QED
    BY <2>1, <2>2
<1>6. CASE MemoryEnter(n)
  BY <1>2, <1>3, <1>6 DEF MemoryEnter, HaltPoints
<1>7. CASE MemoryRunning(n)
  <2>1. at'[n] = "leave" /\ todo'[n] = {} /\ out'[n] = "RUNNING" /\ idx' = idx
    BY <1>2, <1>7 DEF MemoryRunning, Leave
  <2>2. at[n] = "await" /\ idx[n] \in Indices(n) /\ got[Child(n, idx[n])] = "RUNNING"
    BY <1>1, <1>7 DEF MemoryRunning, FrameOK
  <2>3. FirstNot(n, go, "RUNNING")
    BY <1>1, <1>3, <2>2 DEF FirstNot
  <2>4. "RUNNING" # go
    BY DEF GoOf
  <2> QED
    BY <1>3, <2>1, <2>3, <2>4
<1>8. CASE MemoryGo(n, go)
  <2>1. at'[n] = "loop" /\ idx'[n] = idx[n] + 1 /\ got[Child(n, idx[n])] = go
    BY <1>2, <1>8 DEF MemoryGo
  <2> QED
    BY <1>1, <1>3, <2>1 DEF HaltPoints
<1>9. CASE MemoryStop(n, stop, Rest, left)
  <2>1. at'[n] = "leave" /\ todo'[n] = Rest /\ out'[n] = stop /\ idx'[n] = left
    BY <1>2, <1>9 DEF MemoryStop, Leave
  <2>2. at[n] = "await" /\ idx[n] \in Indices(n) /\ got[Child(n, idx[n])] = stop
    BY <1>1, <1>9 DEF MemoryStop, FrameOK
  <2>3. FirstNot(n, go, stop)
    BY <1>1, <1>3, <2>2 DEF FirstNot
  <2> QED
    BY <1>1, <1>3, <2>1, <2>3
<1>10. CASE MemoryDone(n, go)
  <2>1. /\ at'[n] = "leave" /\ todo'[n] = Indices(n) /\ out'[n] = go /\ idx'[n] = 0
        /\ idx[n] = Count(n)
    BY <1>2, <1>10 DEF MemoryDone, Leave
  <2> QED
    BY <1>1, <1>3, <2>1
<1>11. CASE at[n] = "loop" /\ idx[n] < Count(n) /\ TickChild(n, idx[n]) /\ UNCHANGED <<idx, todo>>
  <2>1. idx[n] \in Indices(n)
    BY <1>1, <1>11
  <2>2. Child(n, idx[n]) # n
    BY <2>1, ChildIsNode
  <2>3. at'[n] = "await"
    BY <1>2, <1>11, <2>2 DEF TickChild
  <2> QED
    BY <1>3, <1>11, <2>3 DEF HaltPoints
<1> QED
  BY <1>6, <1>7, <1>8, <1>9, <1>10, <1>11 DEF MemoryTick

\* A reactive node returns what its children call for.
LEMMA ReactiveTells ==
  ASSUME SkipInv, NEW n \in Node, cur = n, TickShape(n), KidsTell(n), kind[n] \in ReactiveKinds,
         NEW go, go = GoOf(n), NEW stop \in Done, stop # go, ReactiveTick(n, go, stop)
  PROVE  KidsTell(n)' /\ (at'[n] = "leave" => Justified(n)')
<1> USE DEF SkipInv, TickInv, ThreadInv, Calls, Inv
<1>1. /\ Count(n) \in Nat /\ Indices(n) = 0 .. Count(n) - 1
      /\ loc[n] \in 0 .. Count(n)
      /\ kind[n] \notin MemoryKinds \cup {"Parallel", "Switch"}
  BY Sizes, KindsDiffer DEF Indices, TypeOK
<1>2. /\ UNCHANGED <<kind, param, got>> /\ GoOf(n)' = go
      /\ at \in [Node -> FramePoints] /\ loc \in [Node -> Int] /\ todo \in [Node -> SUBSET Int]
      /\ out \in [Node -> Status]
  BY DEF TickShape, OnlyOwn, tree, GoOf, TypeOK
<1>3. at[n] \in {"loop", "await"} => \A i \in Indices(n) : i < loc[n] => got[Child(n, i)] = go
  BY DEF KidsTell
<1>4. at[n] = "await" => loc[n] \in Indices(n)
  BY <1>1 DEF FrameOK
<1>5. SUFFICES /\ at'[n] \in {"loop", "await"} => \A i \in Indices(n) : i < loc'[n] => got[Child(n, i)] = go
               /\ at'[n] = "leave" => \/ out'[n] = go /\ \A i \in Indices(n) : got[Child(n, i)] = go
                                      \/ out'[n] # go /\ FirstNot(n, go, out'[n])
  <2>1. KidsTell(n)'
    BY <1>1, <1>2, <1>5 DEF KidsTell
  <2>2. ASSUME at'[n] = "leave" PROVE Justified(n)'
    <3>1. \/ out'[n] = GoOf(n) /\ \A i \in Indices(n) : got[Child(n, i)] = out'[n]
          \/ out'[n] # GoOf(n) /\ FirstNot(n, GoOf(n), out'[n])
      BY <1>2, <1>5, <2>2
    <3> QED
      BY <1>2, <3>1, JustifiedBy
  <2> QED
    BY <2>1, <2>2
<1>6. CASE at[n] = "enter" /\ loc' = [loc EXCEPT ![n] = 0] /\ at' = [at EXCEPT ![n] = "loop"]
  BY <1>1, <1>2, <1>6
<1>7. CASE at[n] = "loop" /\ loc[n] < Count(n) /\ TickChild(n, loc[n]) /\ UNCHANGED <<loc, todo, out>>
  <2>1. Child(n, loc[n]) # n
    BY <1>1, <1>7, ChildIsNode
  <2>2. at'[n] = "await"
    BY <1>2, <1>7, <2>1 DEF TickChild
  <2> QED
    BY <1>3, <1>7, <2>2
<1>8. CASE at[n] = "loop" /\ loc[n] = Count(n) /\ Leave(n, go, Indices(n))
  <2>1. at'[n] = "leave" /\ out'[n] = go
    BY <1>2, <1>8 DEF Leave
  <2> QED
    BY <1>1, <1>3, <1>8, <2>1
<1>9. ASSUME at[n] = "await", NEW s, s # go, got[Child(n, loc[n])] = s,
             at'[n] = "leave" /\ out'[n] = s
      PROVE  FirstNot(n, go, out'[n])
  BY <1>1, <1>3, <1>4, <1>9 DEF FirstNot
<1>10. CASE /\ at[n] = "await" /\ got[Child(n, loc[n])] = "RUNNING"
            /\ Leave(n, "RUNNING", loc[n] + 1 .. Count(n) - 1)
  <2>1. at'[n] = "leave" /\ out'[n] = "RUNNING" /\ "RUNNING" # go
    BY <1>2, <1>10 DEF Leave, GoOf
  <2> QED
    BY <1>9, <1>10, <2>1
<1>11. CASE ReactiveStop(n, stop)
  <2>1. at'[n] = "leave" /\ out'[n] = stop /\ at[n] = "await" /\ got[Child(n, loc[n])] = stop
    BY <1>2, <1>11 DEF ReactiveStop, Leave
  <2> QED
    BY <1>9, <2>1
<1>12. CASE /\ at[n] = "await" /\ got[Child(n, loc[n])] = go
            /\ loc' = [loc EXCEPT ![n] = @ + 1] /\ at' = [at EXCEPT ![n] = "loop"]
  BY <1>1, <1>2, <1>3, <1>12
<1> QED
  BY <1>6, <1>7, <1>8, <1>10, <1>11, <1>12 DEF ReactiveTick

\* A Parallel counts each child once, with the result it returned, and returns
\* when the count, or the end of the list, decides.
LEMMA ParallelTells ==
  ASSUME SkipInv, NEW n \in Node, cur = n, TickShape(n), KidsTell(n), ParallelTick(n),
         param[n] >= 1
  PROVE  KidsTell(n)' /\ (at'[n] = "leave" => Justified(n)')
<1> USE DEF SkipInv, TickInv, ThreadInv, Calls, Inv
<1>1. /\ Count(n) \in Nat /\ Indices(n) = 0 .. Count(n) - 1
      /\ loc[n] \in 0 .. Count(n) /\ skip[n] \subseteq Indices(n) /\ param[n] \in Int
      /\ kind[n] = "Parallel" /\ kind[n] \notin MemoryKinds \cup ReactiveKinds
      /\ AwaitedBy(n) = loc[n]
  BY Sizes DEF Indices, TypeOK, ParallelTick, MemoryKinds, ReactiveKinds, AwaitedBy
<1>2. /\ UNCHANGED <<kind, param, got, status>>
      /\ at \in [Node -> FramePoints] /\ loc \in [Node -> Int] /\ todo \in [Node -> SUBSET Int]
      /\ out \in [Node -> Status] /\ skip \in [Node -> SUBSET Int]
  BY DEF TickShape, OnlyOwn, tree, TypeOK, ParallelTick
<1>3. /\ \A i \in skip[n] : got[Child(n, i)] = status[Child(n, i)]
      /\ at[n] \in {"loop", "await"} =>
           /\ \A i \in Indices(n) : i < loc[n] => i \in skip[n] \/ got[Child(n, i)] = "RUNNING"
           /\ Counted(n, "SUCCESS") < param[n]
           /\ Counted(n, "FAILURE") <= Count(n) - param[n]
  BY <1>1 DEF KidsTell
<1>4. PICK C : C = [s \in Status |-> {i \in skip[n] : i < loc[n] /\ status[Child(n, i)] = s}]
  OBVIOUS
<1>5. \A s \in Status : Counted(n, s) = Cardinality(C[s]) /\ C[s] \in SUBSET Indices(n)
  BY <1>1, <1>4 DEF Counted
<1>6. ASSUME at'[n] = "leave",
             /\ out'[n] = "SUCCESS" <=> HowMany(n, "SUCCESS") >= param[n]
             /\ out'[n] = "FAILURE" <=> HowMany(n, "FAILURE") > Count(n) - param[n],
             skip'[n] = {} \/ skip'[n] = skip[n]
      PROVE  KidsTell(n)' /\ Justified(n)'
  <2>1. HowMany(n, "SUCCESS")' = HowMany(n, "SUCCESS") /\ HowMany(n, "FAILURE")' = HowMany(n, "FAILURE")
    BY <1>2 DEF HowMany
  <2>2. Justified(n)'
    BY <1>1, <1>2, <1>6, <2>1 DEF Justified
  <2>3. \A i \in skip'[n] : got'[Child(n, i)] = status'[Child(n, i)]
    BY <1>2, <1>3, <1>6
  <2> QED
    BY <1>1, <1>2, <1>6, <2>2, <2>3 DEF KidsTell
<1>7. ASSUME at'[n] \in {"loop", "await"},
             \A i \in skip'[n] : got[Child(n, i)] = status[Child(n, i)],
             \A i \in Indices(n) : i < loc'[n] => i \in skip'[n] \/ got[Child(n, i)] = "RUNNING",
             NEW D, D = [s \in Status |-> {i \in skip'[n] : i < loc'[n] /\ status[Child(n, i)] = s}],
             Cardinality(D["SUCCESS"]) < param[n],
             Cardinality(D["FAILURE"]) <= Count(n) - param[n]
      PROVE  KidsTell(n)'
  <2>1. Counted(n, "SUCCESS")' = Cardinality(D["SUCCESS"]) /\ Counted(n, "FAILURE")' = Cardinality(D["FAILURE"])
    BY <1>2, <1>7 DEF Counted, Status, Done
  <2> QED
    BY <1>1, <1>2, <1>7, <2>1 DEF KidsTell
<1>8. CASE /\ at[n] = "enter" /\ Count(n) >= param[n] /\ loc' = [loc EXCEPT ![n] = 0]
           /\ at' = [at EXCEPT ![n] = "loop"] /\ UNCHANGED skip
  <2>1. PICK D : D = [s \in Status |-> {i \in skip'[n] : i < loc'[n] /\ status[Child(n, i)] = s}]
    OBVIOUS
  <2>2. loc'[n] = 0 /\ at'[n] = "loop" /\ skip'[n] = skip[n]
    BY <1>2, <1>8
  <2>3. \A i \in Indices(n) : ~ (i < 0)
    BY <1>1
  <2>4. D["SUCCESS"] = {} /\ D["FAILURE"] = {}
    BY <1>1, <2>1, <2>2, <2>3 DEF Status, Done
  <2>5. Cardinality(D["SUCCESS"]) = 0 /\ Cardinality(D["FAILURE"]) = 0
    BY <2>4, FS_EmptySet
  <2>6. Cardinality(D["SUCCESS"]) < param[n] /\ Cardinality(D["FAILURE"]) <= Count(n) - param[n]
    BY <1>1, <1>8, <2>5
  <2>7. \A i \in skip'[n] : got[Child(n, i)] = status[Child(n, i)]
    BY <1>3, <2>2
  <2>8. \A i \in Indices(n) : ~ (i < loc'[n])
    BY <2>2, <2>3
  <2> QED
    BY <1>7, <2>1, <2>2, <2>6, <2>7, <2>8
<1>9. CASE at[n] = "loop" /\ loc[n] = Count(n) /\ Leave(n, "RUNNING", {}) /\ UNCHANGED <<skip, loc>>
  <2>1. at'[n] = "leave" /\ out'[n] = "RUNNING" /\ skip'[n] = skip[n]
    BY <1>2, <1>9 DEF Leave
  <2>2. ASSUME NEW s \in Done PROVE {i \in Indices(n) : got[Child(n, i)] = s} = C[s]
    <3>1. \A i \in Indices(n) : i < loc[n]
      BY <1>1, <1>9
    <3>2. s # "RUNNING" /\ s \in Status
      BY DEF Done, Status
    <3>3. \A i \in Indices(n) : got[Child(n, i)] = s <=> i \in skip[n] /\ status[Child(n, i)] = s
      BY <1>3, <1>9, <3>1, <3>2, <1>1
    <3> QED
      BY <1>1, <1>4, <3>1, <3>2, <3>3
  <2>3. \A s \in Done : HowMany(n, s) = Counted(n, s)
    BY <1>5, <2>2, Tally DEF Status
  <2>4. HowMany(n, "SUCCESS") < param[n] /\ HowMany(n, "FAILURE") <= Count(n) - param[n]
    BY <1>3, <1>9, <2>3 DEF Done
  <2>5. HowMany(n, "SUCCESS") \in Nat /\ HowMany(n, "FAILURE") \in Nat
    BY Tally
  <2>6. ~ (HowMany(n, "SUCCESS") >= param[n]) /\ ~ (HowMany(n, "FAILURE") > Count(n) - param[n])
    BY <1>1, <2>4, <2>5
  <2> QED
    BY <1>6, <2>1, <2>6
<1>10. CASE /\ at[n] = "loop" /\ loc[n] < Count(n) /\ TickChild(n, loc[n])
            /\ UNCHANGED <<skip, loc, todo, out>>
  <2>1. Child(n, loc[n]) # n
    BY <1>1, <1>10, ChildIsNode
  <2>2. at'[n] = "await"
    BY <1>2, <1>10, <2>1 DEF TickChild
  <2>3. Cardinality(C["SUCCESS"]) < param[n] /\ Cardinality(C["FAILURE"]) <= Count(n) - param[n]
    BY <1>3, <1>5, <1>10 DEF Status, Done
  <2> QED
    BY <1>3, <1>4, <1>7, <1>10, <2>2, <2>3
<1>11. ASSUME at[n] \in {"loop", "await"}, loc[n] \in Indices(n), NEW s, ParallelCount(n, s),
              got[Child(n, loc[n])] = s, s \in Done => status[Child(n, loc[n])] = s,
              loc[n] \in skip[n] => s \in Done
       PROVE  KidsTell(n)' /\ (at'[n] = "leave" => Justified(n)')
  <2>1. s \in Done => /\ s \in Status /\ loc[n] \notin C[s] /\ Cardinality(C[s]) \in Nat
                      /\ Cardinality(C[s] \cup {loc[n]}) = Counted(n, s) + 1
    <3>1. s \in Done => s \in Status /\ loc[n] \notin C[s]
      BY <1>1, <1>4 DEF Status
    <3> QED
      BY <1>5, <1>11, <3>1, CountsUp
  <2>2. CASE ParallelDecide(n, s)
    <3>1. at'[n] = "leave" /\ out'[n] = s /\ skip'[n] = {} /\ Decisive(n, s) /\ s \in Done
      BY <1>2, <2>2 DEF ParallelDecide, Leave, Decisive, Done
    <3>2. PICK G : G = {i \in Indices(n) : got[Child(n, i)] = s}
      OBVIOUS
    <3>3. C[s] \cup {loc[n]} \in SUBSET G
      BY <1>1, <1>3, <1>4, <1>11, <2>1, <3>1, <3>2
    <3>4. IsFiniteSet(G) /\ HowMany(n, s) = Cardinality(G)
      BY <3>2, Tally, FS_Subset
    <3>5. Cardinality(C[s] \cup {loc[n]}) <= Cardinality(G)
      BY <3>3, <3>4, FS_Subset
    <3>6. HowMany(n, s) >= Counted(n, s) + 1 /\ Counted(n, s) \in Nat /\ HowMany(n, s) \in Nat
      BY <1>5, <2>1, <3>1, <3>4, <3>5, Tally
    <3>7. /\ HowMany(n, "SUCCESS") \in Nat /\ HowMany(n, "FAILURE") \in Nat
          /\ HowMany(n, "SUCCESS") + HowMany(n, "FAILURE") <= Count(n)
      BY Tally
    <3>8. /\ s = "SUCCESS" <=> HowMany(n, "SUCCESS") >= param[n]
          /\ s = "FAILURE" <=> HowMany(n, "FAILURE") > Count(n) - param[n]
      BY <1>1, <3>1, <3>6, <3>7 DEF Decisive
    <3> QED
      BY <1>6, <3>1, <3>8
  <2>3. CASE /\ s \in Done /\ ~ Decisive(n, s)
             /\ skip' = [skip EXCEPT ![n] = @ \cup {loc[n]}]
             /\ loc' = [loc EXCEPT ![n] = @ + 1] /\ at' = [at EXCEPT ![n] = "loop"]
    <3>1. at'[n] = "loop" /\ loc'[n] = loc[n] + 1 /\ skip'[n] = skip[n] \cup {loc[n]}
      BY <1>2, <2>3
    <3>2. PICK D : D = [t \in Status |-> {i \in skip'[n] : i < loc'[n] /\ status[Child(n, i)] = t}]
      OBVIOUS
    <3>3. D[s] = C[s] \cup {loc[n]} /\ \A t \in Status : t # s => D[t] = C[t]
      BY <1>1, <1>4, <1>11, <2>1, <2>3, <3>1, <3>2
    <3>4. /\ Counted(n, "SUCCESS") < param[n] /\ Counted(n, "FAILURE") <= Count(n) - param[n]
          /\ s = "SUCCESS" => Counted(n, s) + 1 # param[n]
          /\ s = "FAILURE" => ~ (Counted(n, s) + 1 > Count(n) - param[n])
      BY <1>3, <1>11, <2>3 DEF Decisive
    <3>5. Cardinality(D["SUCCESS"]) < param[n] /\ Cardinality(D["FAILURE"]) <= Count(n) - param[n]
      <4>1. CASE s = "SUCCESS"
        <5>1. /\ Cardinality(D["SUCCESS"]) = Counted(n, "SUCCESS") + 1 /\ Counted(n, "SUCCESS") \in Nat
              /\ Cardinality(D["FAILURE"]) = Counted(n, "FAILURE")
          BY <1>5, <2>1, <2>3, <3>3, <4>1 DEF Status, Done
        <5> QED
          BY <1>1, <3>4, <4>1, <5>1
      <4>2. CASE s = "FAILURE"
        <5>1. /\ Cardinality(D["FAILURE"]) = Counted(n, "FAILURE") + 1 /\ Counted(n, "FAILURE") \in Nat
              /\ Cardinality(D["SUCCESS"]) = Counted(n, "SUCCESS")
          BY <1>5, <2>1, <2>3, <3>3, <4>2 DEF Status, Done
        <5> QED
          BY <1>1, <3>4, <4>2, <5>1
      <4> QED
        BY <2>3, <4>1, <4>2 DEF Done
    <3>6. \A i \in skip'[n] : got[Child(n, i)] = status[Child(n, i)]
      BY <1>3, <1>11, <2>3, <3>1
    <3>7. \A i \in Indices(n) : i < loc'[n] => i \in skip'[n] \/ got[Child(n, i)] = "RUNNING"
      BY <1>1, <1>3, <1>11, <3>1
    <3> QED
      BY <1>7, <3>1, <3>2, <3>5, <3>6, <3>7
  <2>4. CASE /\ s = "RUNNING" /\ UNCHANGED skip
             /\ loc' = [loc EXCEPT ![n] = @ + 1] /\ at' = [at EXCEPT ![n] = "loop"]
    <3>1. at'[n] = "loop" /\ loc'[n] = loc[n] + 1 /\ skip'[n] = skip[n] /\ loc[n] \notin skip[n]
      BY <1>2, <1>11, <2>4 DEF Done
    <3>2. C = [t \in Status |-> {i \in skip'[n] : i < loc'[n] /\ status[Child(n, i)] = t}]
      <4>1. \A i \in skip[n] : i < loc[n] <=> i < loc'[n]
        BY <1>1, <3>1
      <4> QED
        BY <1>4, <3>1, <4>1
    <3>3. Cardinality(C["SUCCESS"]) < param[n] /\ Cardinality(C["FAILURE"]) <= Count(n) - param[n]
      BY <1>3, <1>5, <1>11 DEF Status, Done
    <3>4. \A i \in Indices(n) : i < loc'[n] => i \in skip'[n] \/ got[Child(n, i)] = "RUNNING"
      BY <1>1, <1>3, <1>11, <2>4, <3>1
    <3>5. \A i \in skip'[n] : got[Child(n, i)] = status[Child(n, i)]
      BY <1>3, <3>1
    <3> QED
      BY <1>7, <3>1, <3>2, <3>3, <3>4, <3>5
  <2> QED
    BY <1>11, <2>2, <2>3, <2>4 DEF ParallelCount
<1>12. CASE /\ at[n] = "loop" /\ loc[n] < Count(n) /\ loc[n] \in skip[n]
            /\ ParallelCount(n, status[Child(n, loc[n])])
  <2>1. loc[n] \in Indices(n) /\ status[Child(n, loc[n])] \in Done
    BY <1>1, <1>12 DEF Skips
  <2>2. got[Child(n, loc[n])] = status[Child(n, loc[n])]
    BY <1>3, <1>12
  <2> QED
    BY <1>11, <1>12, <2>1, <2>2
<1>13. CASE at[n] = "await" /\ ParallelCount(n, got[Child(n, loc[n])])
  <2>1. loc[n] \in Indices(n)
    BY <1>1, <1>13 DEF FrameOK
  <2>2. ~ On(Child(n, loc[n])) /\ Awaits(n, loc[n])
    BY <1>1, <1>13, <2>1, TopHasNoCallee DEF Awaits
  <2>3. AsReturned(Child(n, loc[n]))
    BY <2>1, <2>2 DEF Returned
  <2>4. /\ got[Child(n, loc[n])] \in Done => status[Child(n, loc[n])] = got[Child(n, loc[n])]
        /\ loc[n] \in skip[n] => got[Child(n, loc[n])] \in Done
    BY <1>3, <2>3 DEF AsReturned, Done, Skips
  <2> QED
    BY <1>11, <1>13, <2>1, <2>4
<1> QED
  BY <1>8, <1>9, <1>10, <1>12, <1>13 DEF ParallelTick

\* Every tick() of a control node knows of its children what it has to know,
\* and returns what they call for.
LEMMA OwnTells ==
  ASSUME SkipInv, Thresholds, NEW n \in Node, cur = n, KidsTell(n), ControlTick(n)
  PROVE  KidsTell(n)' /\ (at'[n] = "leave" => Justified(n)')
<1>1. TickShape(n)
  BY ControlShape DEF SkipInv, TickInv, ThreadInv, Calls
<1>2. CASE SequenceTick(n)
  <2>1. kind[n] \in MemoryKinds /\ GoOf(n) = "SUCCESS"
    BY <1>2 DEF SequenceTick, MemoryKinds, GoOf
  <2> QED
    BY <1>1, <1>2, <2>1, MemoryTells DEF SequenceTick, Done
<1>3. CASE FallbackTick(n)
  <2>1. kind[n] \in MemoryKinds /\ GoOf(n) = "FAILURE"
    BY <1>3 DEF FallbackTick, MemoryKinds, GoOf
  <2> QED
    BY <1>1, <1>3, <2>1, MemoryTells DEF FallbackTick, Done
<1>4. CASE SequenceStarTick(n)
  <2>1. kind[n] \in MemoryKinds /\ GoOf(n) = "SUCCESS"
    BY <1>4 DEF SequenceStarTick, MemoryKinds, GoOf
  <2> QED
    BY <1>1, <1>4, <2>1, MemoryTells DEF SequenceStarTick, Done
<1>5. CASE ReactiveSequenceTick(n)
  <2>1. kind[n] \in ReactiveKinds /\ GoOf(n) = "SUCCESS"
    BY <1>5 DEF ReactiveSequenceTick, ReactiveKinds, GoOf
  <2> QED
    BY <1>1, <1>5, <2>1, ReactiveTells DEF ReactiveSequenceTick, Done
<1>6. CASE ReactiveFallbackTick(n)
  <2>1. kind[n] \in ReactiveKinds /\ GoOf(n) = "FAILURE"
    BY <1>6 DEF ReactiveFallbackTick, ReactiveKinds, GoOf
  <2> QED
    BY <1>1, <1>6, <2>1, ReactiveTells DEF ReactiveFallbackTick, Done
<1>7. CASE ParallelTick(n)
  <2>1. param[n] >= 1
    BY <1>7 DEF ParallelTick, Thresholds
  <2> QED
    BY <1>1, <1>7, <2>1, ParallelTells
<1>8. CASE SwitchTick(n)
  <2>1. kind[n] = "Switch" /\ kind' = kind
    BY <1>1, <1>8 DEF SwitchTick, TickShape, OnlyOwn, tree
  <2> QED
    BY <2>1 DEF KidsTell, Justified, MemoryKinds, ReactiveKinds
<1> QED
  BY <1>2, <1>3, <1>4, <1>5, <1>6, <1>7, <1>8 DEF ControlTick

\* Nobody else touches what a control node knows of its children.
LEMMA StepSteady ==
  ASSUME SkipInv, [Next]_vars, NEW n \in Node, kind[n] \in ControlKinds
  PROVE  Steady(n) \/ (cur = n /\ ControlTick(n))
<1> USE DEF SkipInv, TickInv, ThreadInv, Calls
<1>1. /\ at \in [Node -> FramePoints] /\ idx \in [Node -> Int] /\ skip \in [Node -> SUBSET Int]
      /\ todo \in [Node -> SUBSET Int] /\ status \in [Node -> Status] /\ got \in [Node -> Status]
      /\ loc \in [Node -> Int] /\ todo[n] \subseteq Indices(n)
      /\ kind[n] \notin DecoratorKinds \cup LeafKinds
  BY KindsDiffer DEF Inv, TypeOK, ControlKinds, LeafKinds, AsyncKinds
<1>2. ASSUME NEW i \in Indices(n)
      PROVE  Child(n, i) \in Node \ {n, Root} /\ Parent[Child(n, i)] = n
  BY ChildFact
<1>3. CASE UNCHANGED vars
  BY <1>3 DEF vars, tree, memory, async, frame, caller, Steady, Unmoved
<1>4. CASE Owner
  <2>1. \A m \in Node : at[m] = "off"
    BY <1>4 DEF Owner, TickRoot, TickRootReturn, HaltTree, HaltTreeVisit, VisitNode, HaltTreeReturn,
                Stack, Modes, AtRest, On
  <2>2. /\ UNCHANGED <<kind, param, got>> /\ \A m \in Node \ {Root} : status'[m] = status[m]
        /\ \/ UNCHANGED <<idx, skip>> /\ (at' = at \/ at' = [at EXCEPT ![Root] = "enter"])
           \/ \E h \in Node : CallHalt(h)
    <3>1. CASE VisitNode
      <4>1. PICK h \in Node : CallHalt(h)
        BY <3>1 DEF VisitNode, Inv, TypeOK
      <4> QED
        BY <3>1, <4>1 DEF VisitNode, tree
    <3>2. CASE HaltTree
      BY <3>2, TreeAssumption DEF HaltTree, tree
    <3>3. CASE TickRoot \/ TickRootReturn \/ HaltTreeVisit \/ HaltTreeReturn
      BY <1>1, <3>3 DEF TickRoot, TickRootReturn, HaltTreeVisit, HaltTreeReturn, tree, memory
    <3> QED
      BY <1>4, <3>1, <3>2, <3>3 DEF Owner
  <2>3. \A i \in Indices(n) : Unmoved(n, i)
    BY <1>2, <2>2 DEF Unmoved
  <2>4. /\ idx'[n] = idx[n] \/ idx'[n] = FirstIdx(kind[n])
        /\ skip'[n] = skip[n] \/ skip'[n] = {}
        /\ at'[n] \in {"off", "enter", "stop"}
    BY <1>1, <2>1, <2>2 DEF CallHalt, ResetMembers
  <2> QED
    BY <2>2, <2>3, <2>4 DEF Steady, HaltPoints
<1>5. ASSUME NEW r \in Node, Run(r), ~ (r = n /\ ControlTick(n))
      PROVE  Steady(n)
  <2>1. cur = r /\ On(r)
    BY <1>5, TreeAssumption DEF Run, Stack
  \* a step that changes the status and the result of r alone, and leaves n alone
  <2>2. ASSUME UNCHANGED <<kind, param>>,
               \A m \in Node \ {r} : status'[m] = status[m] /\ got'[m] = got[m],
               at[r] # "stop" \/ got' = got,
               \/ at'[n] \in {"off", "enter"} /\ idx'[n] = idx[n] /\ skip'[n] = skip[n]
               \/ /\ at'[n] = at[n] /\ idx'[n] = idx[n] /\ skip'[n] = skip[n]
                  /\ loc'[n] = loc[n] /\ todo'[n] = todo[n]
        PROVE  Steady(n)
    <3>1. \A i \in Indices(n) : Unmoved(n, i) \/ Moved(n, i)
      BY <1>2, <2>1, <2>2 DEF Unmoved, Moved
    <3> QED
      BY <2>2, <3>1 DEF Steady, HaltPoints
  <2>3. CASE ControlTick(r) \/ DecoratorTick(r)
    <3>1. TickShape(r) /\ r # n
      BY <1>1, <1>5, <2>3, ControlShape, DecoratorShape
    <3>2. /\ UNCHANGED <<kind, param, got>> /\ \A m \in Node \ {r} : status'[m] = status[m]
          /\ idx'[n] = idx[n] /\ skip'[n] = skip[n] /\ loc'[n] = loc[n] /\ todo'[n] = todo[n]
      BY <1>1, <3>1 DEF TickShape, OnlyOwn, tree
    <3>3. at'[n] = at[n] \/ at'[n] = "enter"
      BY <1>1, <3>1 DEF TickShape, Moves, TicksChild, TickChild
    <3> QED
      BY <2>2, <3>2, <3>3
  <2>4. CASE ControlThrow(r) \/ DecoratorThrow(r) \/ SyncThrow(r)
    <3>1. /\ Unwind /\ \A m \in Node \ {r} : status'[m] = status[m]
      BY <1>1, <2>4 DEF ControlThrow, DecoratorThrow, SyncThrow, Throw
    <3>2. UNCHANGED <<kind, param, got, idx, skip>> /\ at'[n] = "off"
      BY <3>1 DEF Unwind, tree, memory
    <3> QED
      BY <2>2, <3>1, <3>2
  <2>5. CASE HaltChild(r)
    <3>1. /\ at[r] \in HaltPoints /\ UNCHANGED <<tree, loc>>
      BY <2>5, HaltShape
    <3>2. PICK i \in Indices(r) : /\ i \in todo[r] /\ got' = [got EXCEPT ![Child(r, i)] = "IDLE"]
                                  /\ HaltsRunning(r, i) \/ SetsIdle(r, i)
      BY <2>5, HaltShape
    <3>3. PICK c \in Node \ {r} : c = Child(r, i)
      BY ChildIsNode
    <3>4. \A m \in Node \ {c} : status'[m] = status[m] /\ got'[m] = got[m]
      BY <1>1, <3>2, <3>3 DEF HaltsRunning, SetsIdle
    <3>5. /\ idx'[n] = idx[n] \/ idx'[n] = FirstIdx(kind[n])
          /\ skip'[n] = skip[n] \/ skip'[n] = {}
          /\ \/ at'[n] = "stop"
             \/ at'[n] = at[n] /\ idx'[n] = idx[n] /\ skip'[n] = skip[n] /\ todo'[n] \subseteq todo[n]
      BY <1>1, <3>2, <3>3 DEF HaltsRunning, SetsIdle, memory
    <3>6. ASSUME NEW j \in Indices(n) PROVE Unmoved(n, j) \/ Moved(n, j)
      <4>1. CASE r = n
        <5>1. Child(n, j) = c => i = j
          BY <3>3, <4>1, ChildFact
        <5> QED
          BY <1>2, <3>1, <3>2, <3>4, <4>1, <5>1 DEF Unmoved, Moved
      <4>2. CASE r # n
        <5>1. Child(n, j) # c
          BY <1>2, <3>3, <4>2, ChildFact
        <5> QED
          BY <1>2, <3>4, <5>1 DEF Unmoved
      <4> QED
        BY <4>1, <4>2
    <3> QED
      BY <3>1, <3>5, <3>6 DEF Steady, HaltPoints, tree
  <2>6. ASSUME Pop(r) PROVE at'[n] = "off" \/ (at'[n] = at[n] /\ loc'[n] = loc[n])
    BY <1>1, <2>6 DEF Pop
  <2>7. CASE Halted(r)
    <3>1. Pop(r) /\ UNCHANGED <<tree, memory, todo, got>> /\ \A m \in Node \ {r} : status'[m] = status[m]
      BY <1>1, <2>7 DEF Halted
    <3> QED
      BY <2>2, <2>6, <3>1 DEF tree, memory
  <2>8. CASE Ticked(r)
    <3>1. /\ UNCHANGED <<tree, memory, todo>> /\ \A m \in Node \ {r} : status'[m] = status[m] /\ got'[m] = got[m]
          /\ at[r] # "stop"
      BY <1>1, <2>8 DEF Ticked
    <3>2. at'[n] = "off" \/ (at'[n] = at[n] /\ loc'[n] = loc[n])
      <4>1. CASE kind[r] \in DecoratorKinds
        BY <1>1, <2>8, <4>1 DEF Ticked
      <4>2. CASE kind[r] \notin DecoratorKinds
        BY <2>6, <2>8, <4>2 DEF Ticked
      <4> QED
        BY <4>1, <4>2
    <3> QED
      BY <2>2, <3>1, <3>2 DEF tree, memory
  <2>9. CASE ResetChild(r)
    <3>1. kind[r] \in DecoratorKinds /\ r # n
      BY <1>1, <2>9 DEF ResetChild, Inv, FrameOK
    <3>2. 0 \in Indices(r)
      BY <3>1, Sizes DEF Inv
    <3>3. Child(r, 0) \in Node /\ Parent[Child(r, 0)] = r
      BY <3>2, ChildFact
    <3>4. /\ UNCHANGED <<kind, param, idx, skip, todo>> /\ Pop(r) /\ at[r] = "reset"
          /\ \A m \in Node \ {r, Child(r, 0)} : status'[m] = status[m] /\ got'[m] = got[m]
      BY <1>1, <2>9 DEF ResetChild, tree, memory
    <3>5. \A i \in Indices(n) : Child(n, i) # Child(r, 0)
      BY <1>2, <3>1, <3>3
    <3>6. \A i \in Indices(n) : Unmoved(n, i) \/ Moved(n, i)
      BY <1>2, <2>1, <3>4, <3>5 DEF Unmoved, Moved
    <3> QED
      BY <2>6, <3>4, <3>6 DEF Steady, HaltPoints
  <2>10. CASE LeafTick(r) /\ ~ SyncThrow(r)
    <3>1. r # n /\ at[r] # "stop"
      BY <1>1, <2>10 DEF LeafTick, SyncTick, StatefulTick, AsyncStart, AsyncRead, LeafKinds, AsyncKinds
    <3>2. /\ UNCHANGED <<tree, memory, todo>>
          /\ \A m \in Node \ {r} : status'[m] = status[m] /\ got'[m] = got[m]
          /\ Pop(r) \/ (at' = [at EXCEPT ![r] = "read"] /\ UNCHANGED loc)
      BY <1>1, <2>10 DEF LeafTick, SyncTick, StatefulTick, AsyncStart, AsyncRead, Return, frame
    <3>3. at'[n] = "off" \/ (at'[n] = at[n] /\ loc'[n] = loc[n])
      BY <1>1, <2>6, <3>1, <3>2
    <3> QED
      BY <2>2, <3>1, <3>2, <3>3 DEF tree, memory
  <2> QED
    BY <1>5, <2>3, <2>4, <2>5, <2>7, <2>8, <2>9, <2>10 DEF Run
<1>6. ASSUME NEW r \in Node, AsyncThread(r) \/ AsyncThreadThrow(r) PROVE Steady(n)
  <2>1. /\ UNCHANGED <<kind, param, idx, skip, at, loc, todo, got>> /\ thread[r]
        /\ \A m \in Node \ {r} : status'[m] = status[m]
    BY <1>1, <1>6 DEF AsyncThread, AsyncThreadThrow, tree, memory, frame
  <2>2. \A i \in Indices(n) : Unmoved(n, i) \/ Moved(n, i)
    BY <1>2, <2>1 DEF Unmoved, Moved
  <2> QED
    BY <2>1, <2>2 DEF Steady
<1> QED
  BY <1>3, <1>4, <1>5, <1>6 DEF Next, Run

\* No step changes the tree.
LEMMA TreeStays == ASSUME [Next]_vars PROVE UNCHANGED <<kind, param>>
BY DEF Next, vars, tree, Owner, TickRoot, TickRootReturn, HaltTree, HaltTreeVisit, VisitNode,
       HaltTreeReturn, Run, ControlTick, DecoratorTick, LeafTick, SyncTick, SyncThrow,
       StatefulTick, AsyncStart, AsyncRead, Return, ControlThrow, DecoratorThrow, Throw, Unwind,
       HaltChild, Halted, Ticked, ResetChild, AsyncThread, AsyncThreadThrow

\* Every step keeps what the nodes know, and no control node returns anything
\* else than its children call for.
LEMMA NextTells ==
  ASSUME VerdictInv, [Next]_vars
  PROVE  VerdictInv' /\ \A n \in Node : at[n] # "leave" /\ at'[n] = "leave" => Justified(n)'
<1>1. SkipInv' /\ TickInv'
  BY NextSkips DEF VerdictInv, SkipInv
<1>2. UNCHANGED <<kind, param>>
  BY TreeStays
<1>3. Thresholds'
  BY <1>2 DEF VerdictInv, Thresholds
<1>4. ASSUME NEW n \in Node
      PROVE  KidsTell(n)' /\ (at[n] # "leave" /\ at'[n] = "leave" => Justified(n)')
  <2>1. CASE kind[n] \notin ControlKinds
    BY <1>2, <2>1 DEF KidsTell, Justified, ControlKinds, MemoryKinds, ReactiveKinds
  <2>2. CASE kind[n] \in ControlKinds /\ Steady(n)
    <3>1. KidsTell(n)'
      BY <1>1, <2>2, StayTells DEF VerdictInv
    <3> QED
      BY <2>2, <3>1 DEF Steady, HaltPoints
  <2>3. CASE cur = n /\ ControlTick(n)
    BY <2>3, OwnTells DEF VerdictInv
  <2> QED
    BY <2>1, <2>2, <2>3, StepSteady DEF VerdictInv
<1> QED
  BY <1>1, <1>3, <1>4 DEF VerdictInv

\* There is nothing to know at the start.
LEMMA InitTells == ASSUME Init, Thresholds PROVE VerdictInv
<1>1. SkipInv
  BY InitTick, TreeAssumption DEF Init, SkipInv, Skips
<1>2. ASSUME NEW n \in Node PROVE KidsTell(n)
  <2>1. at[n] = "off" /\ skip[n] = {} /\ idx[n] = FirstIdx(kind[n])
    BY DEF Init
  <2>2. kind[n] \in MemoryKinds => idx[n] = 0
    BY <2>1, KindsDiffer DEF FirstIdx
  <2>3. \A i \in Indices(n) : ~ (i < 0)
    BY <1>1, Sizes DEF Indices, SkipInv, TickInv, ThreadInv, Calls, Inv
  <2> QED
    BY <2>1, <2>2, <2>3 DEF KidsTell, HaltPoints
<1> QED
  BY <1>1, <1>2 DEF VerdictInv

\* A control node returns SUCCESS, FAILURE or RUNNING exactly when the results
\* its children gave it call for it, however its ticks are interrupted by
\* halts, exceptions and the threads of asynchronous actions.  A Parallel must
\* not be asked for zero successes: it tests its threshold only when a child
\* has just succeeded (parallel_node.cpp:85-108), and would never succeed.
THEOREM VerdictsAreJustified == Spec /\ Thresholds => Verdicts
<1>1. Init /\ Thresholds => VerdictInv
  BY InitTells
<1>2. VerdictInv /\ [Next]_vars => VerdictInv'
  BY NextTells
<1>3. VerdictInv /\ [Next]_vars =>
        [\A n \in Node : at[n] # "leave" /\ at'[n] = "leave" => Justified(n)']_vars
  BY NextTells
<1> QED
  BY <1>1, <1>2, <1>3, PTL DEF Spec, Verdicts

-----------------------------------------------------------------------------
(* What a decorator's reset throws away.                                   *)

\* A node without a thread has decided what it returned, but for the moment
\* between the end of a decorator's tick() and the reset of its child.
Delivered ==
  \A c \in Node \ {Root} :
    kind[c] \notin AsyncKinds /\ status[c] \in Done /\ at[c] # "reset" => got[c] = status[c]

DeliverInv == TickInv /\ Delivered

\* Every step keeps it: exceptions pass no decorator that has just decided.
LEMMA NextDelivered == ASSUME DeliverInv, [Next]_vars PROVE DeliverInv'
<1> USE DEF DeliverInv, TickInv, ThreadInv, Calls
<1>1. TickInv'
  BY NextTick
<1>2. /\ at \in [Node -> FramePoints] /\ status \in [Node -> Status] /\ got \in [Node -> Status]
      /\ out \in [Node -> Status]
  BY DEF Inv, TypeOK
<1> SUFFICES ASSUME NEW c \in Node \ {Root}, kind'[c] \notin AsyncKinds, status'[c] \in Done,
                    at'[c] # "reset"
             PROVE  got'[c] = status'[c]
  BY <1>1 DEF Delivered
<1>3. ASSUME kind'[c] = kind[c], status'[c] = status[c], got'[c] = got[c], at[c] # "reset"
      PROVE  got'[c] = status'[c]
  BY <1>3 DEF Delivered
<1>4. CASE UNCHANGED vars
  BY <1>3, <1>4 DEF vars, tree
<1>5. CASE Owner
  <2>1. \A m \in Node : at[m] = "off"
    BY <1>5 DEF Owner, TickRoot, TickRootReturn, HaltTree, HaltTreeVisit, VisitNode, HaltTreeReturn,
                Stack, Modes, AtRest, On
  <2>2. UNCHANGED <<kind, got>> /\ status'[c] = status[c]
    BY <1>2, <1>5 DEF Owner, TickRoot, TickRootReturn, HaltTree, HaltTreeVisit, VisitNode,
                      HaltTreeReturn, tree
  <2> QED
    BY <1>3, <2>1, <2>2
<1>6. ASSUME NEW r \in Node, Run(r) PROVE got'[c] = status'[c]
  <2>1. cur = r /\ On(r) /\ (c # r => at[c] # "reset")
    BY <1>6, TreeAssumption DEF Run, Stack, On, Waits, HaltPoints
  <2>2. CASE ControlTick(r) \/ DecoratorTick(r)
    <3>1. TickShape(r)
      BY <2>2, ControlShape, DecoratorShape
    <3>2. /\ UNCHANGED <<kind, got>> /\ at[r] # "reset"
          /\ status'[c] = status[c] \/ status'[c] = "RUNNING"
      BY <1>2, <3>1 DEF TickShape, OnlyOwn, tree
    <3> QED
      BY <1>3, <2>1, <3>2 DEF Done
  <2>3. CASE ControlThrow(r) \/ DecoratorThrow(r) \/ SyncThrow(r)
    <3>1. /\ Unwind /\ at[r] # "reset"
          /\ status'[c] = status[c] \/ status'[c] = "RUNNING"
      BY <1>2, <2>3 DEF ControlThrow, DecoratorThrow, SyncThrow, Throw
    <3> QED
      BY <1>3, <2>1, <3>1 DEF Unwind, tree, Done
  <2>4. CASE HaltChild(r)
    <3>1. at[r] \in HaltPoints /\ kind' = kind
      BY <2>4, HaltShape DEF tree
    <3>2. PICK i \in Indices(r) : /\ got' = [got EXCEPT ![Child(r, i)] = "IDLE"]
                                  /\ HaltsRunning(r, i) \/ SetsIdle(r, i)
      BY <2>4, HaltShape
    <3>3. CASE c = Child(r, i)
      BY <1>2, <3>2, <3>3 DEF HaltsRunning, SetsIdle, Done
    <3>4. CASE c # Child(r, i)
      BY <1>2, <1>3, <2>1, <3>1, <3>2, <3>4 DEF HaltsRunning, SetsIdle, HaltPoints
    <3> QED
      BY <3>3, <3>4
  <2>5. CASE Halted(r)
    BY <1>2, <1>3, <2>1, <2>5 DEF Halted, tree, Done
  <2>6. CASE Ticked(r)
    <3>1. CASE c = r
      BY <1>2, <2>6, <3>1 DEF Ticked, Pop
    <3>2. CASE c # r
      BY <1>2, <1>3, <2>1, <2>6, <3>2 DEF Ticked, tree
    <3> QED
      BY <3>1, <3>2
  <2>7. CASE ResetChild(r)
    <3>1. kind[r] \in DecoratorKinds /\ status[r] = out[r] /\ kind' = kind
      BY <2>7 DEF ResetChild, Inv, FrameOK, Returned, tree
    <3>2. Child(r, 0) \in Node \ {r}
      BY <3>1, Sizes, ChildIsNode DEF Inv
    <3>3. CASE c \notin {r, Child(r, 0)}
      BY <1>2, <1>3, <2>1, <2>7, <3>1, <3>3 DEF ResetChild
    <3>4. CASE c = r
      BY <1>2, <2>7, <3>1, <3>2, <3>4 DEF ResetChild
    <3>5. CASE c = Child(r, 0)
      BY <1>2, <1>3, <2>1, <2>7, <3>1, <3>2, <3>5 DEF ResetChild, Done
    <3> QED
      BY <3>3, <3>4, <3>5
  <2>8. CASE LeafTick(r) /\ ~ SyncThrow(r)
    <3>1. CASE c = r
      BY <1>2, <2>8, <3>1
      DEF LeafTick, SyncTick, StatefulTick, AsyncStart, AsyncRead, Return, tree
    <3>2. CASE c # r
      BY <1>2, <1>3, <2>1, <2>8, <3>2
      DEF LeafTick, SyncTick, StatefulTick, AsyncStart, AsyncRead, Return, tree
    <3> QED
      BY <3>1, <3>2
  <2> QED
    BY <1>6, <2>2, <2>3, <2>4, <2>5, <2>6, <2>7, <2>8 DEF Run
<1>7. ASSUME NEW r \in Node, AsyncThread(r) \/ AsyncThreadThrow(r) PROVE got'[c] = status'[c]
  <2>1. UNCHANGED <<kind, got, at>> /\ kind[r] \in AsyncKinds /\ (c # r => status'[c] = status[c])
    BY <1>2, <1>7 DEF AsyncThread, AsyncThreadThrow, tree, Threads
  <2> QED
    BY <1>3, <2>1
<1> QED
  BY <1>4, <1>5, <1>6, <1>7 DEF Next

\* No decorator but a BlackboardCheck has an asynchronous action right below.
NoThreadBelow ==
  \A n \in Node : kind[n] \in DecoratorKinds \ {"BlackboardCheck"} =>
    kind[Child(n, 0)] \notin AsyncKinds

\* The reset of a decorator throws away only a result that came back to it, in
\* every tree whose decorators have no asynchronous action right below: run
\* async_result_lost needs one, and nothing else can lose a result.
THEOREM ResultsAreDelivered == Spec /\ NoThreadBelow => ResultDelivered
<1>1. Init => DeliverInv
  BY InitTick DEF DeliverInv, Delivered, Init, Done
<1>2. DeliverInv /\ [Next]_vars => DeliverInv'
  BY NextDelivered
<1>3. NoThreadBelow /\ [Next]_vars => NoThreadBelow'
  BY TreeStays DEF NoThreadBelow
<1>4. DeliverInv /\ NoThreadBelow /\ [Next]_vars =>
        [\A n \in Node :
           at[n] = "reset" /\ at'[n] = "off" /\ kind[n] # "BlackboardCheck" =>
             LET c == Child(n, 0) IN
             status[c] \in Done /\ status'[c] = "IDLE" => got[c] = status[c]]_vars
  <2> SUFFICES ASSUME DeliverInv, NoThreadBelow, NEW n \in Node, at[n] = "reset",
                      kind[n] # "BlackboardCheck", status[Child(n, 0)] \in Done
               PROVE  got[Child(n, 0)] = status[Child(n, 0)]
    OBVIOUS
  <2> USE DEF DeliverInv, TickInv, ThreadInv, Calls
  <2>1. kind[n] \in DecoratorKinds /\ 0 \in Indices(n)
    BY Sizes DEF Inv, FrameOK
  <2>2. n = cur
    BY DEF Stack, On, Waits, HaltPoints
  <2>3. Child(n, 0) \in Node \ {Root} /\ ~ On(Child(n, 0))
    BY <2>1, <2>2, ChildFact, TopHasNoCallee
  <2>4. kind[Child(n, 0)] \notin AsyncKinds
    BY <2>1 DEF NoThreadBelow
  <2> QED
    BY <2>3, <2>4 DEF Delivered, On
<1> QED
  BY <1>1, <1>2, <1>3, <1>4, PTL DEF Spec, ResultDelivered
=============================================================================
