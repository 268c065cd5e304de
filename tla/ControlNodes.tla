----------------------------- MODULE ControlNodes -----------------------------
(***************************************************************************)
(* tick() of the nodes in controls/: one operator per class, its disjuncts *)
(* the pieces of tick() between two calls.  A frame stands at "enter" when *)
(* tick() starts, at "loop" at the head of its loop, at "await" while a    *)
(* child's executeTick() runs; got[c] is what that call returned.          *)
(***************************************************************************)
EXTENDS TreeNode

\* SequenceNode, FallbackNode and SequenceStarNode differ in the status that
\* moves on to the next child (go), and in what is halted and where the index
\* is left when a child returns the other one (stop).
MemoryEnter(n) ==
  /\ at[n] = "enter"
  /\ status' = [status EXCEPT ![n] = "RUNNING"]
  /\ at' = [at EXCEPT ![n] = "loop"]
  /\ UNCHANGED <<idx, cur, todo, out>>

MemoryRunning(n) ==
  /\ at[n] = "await" /\ got[Child(n, idx[n])] = "RUNNING"
  /\ Leave(n, "RUNNING", {})
  /\ UNCHANGED <<status, idx>>

MemoryGoStuck(n, go) ==
  /\ at[n] = "await" /\ got[Child(n, idx[n])] = go
  /\ at' = [at EXCEPT ![n] = "loop"]
  /\ UNCHANGED <<status, idx, cur, todo, out>>

MemoryGo(n, go) ==
  /\ at[n] = "await" /\ got[Child(n, idx[n])] = go
  /\ at' = [at EXCEPT ![n] = "loop"]
  /\ idx' = [idx EXCEPT ![n] = @ + 1]
  /\ UNCHANGED <<status, cur, todo, out>>

MemoryStop(n, stop, Rest, left) ==
  /\ at[n] = "await" /\ got[Child(n, idx[n])] = stop
  /\ Leave(n, stop, Rest)
  /\ idx' = [idx EXCEPT ![n] = left]
  /\ UNCHANGED status

MemoryDoneForgetful(n, go) ==
  /\ at[n] = "loop" /\ idx[n] = Count(n)
  /\ Leave(n, go, Indices(n))
  /\ UNCHANGED <<status, idx>>

MemoryDone(n, go) ==
  /\ at[n] = "loop" /\ idx[n] = Count(n)
  /\ Leave(n, go, Indices(n))
  /\ idx' = [idx EXCEPT ![n] = 0]
  /\ UNCHANGED status

MemoryTick(n, go, stop, Rest, left) ==
  \/ MemoryEnter(n) \/ MemoryRunning(n) \/ MemoryGo(n, go)
  \/ MemoryStop(n, stop, Rest, left) \/ MemoryDone(n, go)
  \/ /\ at[n] = "loop" /\ idx[n] < Count(n)
     /\ TickChild(n, idx[n])
     /\ UNCHANGED <<status, idx, todo, out>>

SequenceTick(n) ==
  /\ kind[n] = "Sequence"
  /\ MemoryTick(n, "SUCCESS", "FAILURE", Indices(n), 0)
  /\ UNCHANGED <<skip, loc>>

FallbackTick(n) ==
  /\ kind[n] = "Fallback"
  /\ MemoryTick(n, "FAILURE", "SUCCESS", Indices(n), 0)
  /\ UNCHANGED <<skip, loc>>

\* On failure the index stays, and only the children from it on are halted.
SequenceStarTick(n) ==
  /\ kind[n] = "SequenceStar"
  /\ MemoryTick(n, "SUCCESS", "FAILURE", idx[n] .. Count(n) - 1, idx[n])
  /\ UNCHANGED <<skip, loc>>

-----------------------------------------------------------------------------
\* ReactiveSequence and ReactiveFallback start from child 0 in every tick,
\* and do not set themselves RUNNING first.
ReactiveStopForgetful(n, stop) ==
  /\ at[n] = "await" /\ got[Child(n, loc[n])] = stop
  /\ Leave(n, stop, {})

ReactiveStop(n, stop) ==
  /\ at[n] = "await" /\ got[Child(n, loc[n])] = stop
  /\ Leave(n, stop, Indices(n))

ReactiveTick(n, go, stop) ==
  \/ /\ at[n] = "enter"
     /\ loc' = [loc EXCEPT ![n] = 0]
     /\ at' = [at EXCEPT ![n] = "loop"]
     /\ UNCHANGED <<cur, todo, out>>
  \/ /\ at[n] = "loop" /\ loc[n] < Count(n)
     /\ TickChild(n, loc[n])
     /\ UNCHANGED <<loc, todo, out>>
  \/ /\ at[n] = "loop" /\ loc[n] = Count(n)
     /\ Leave(n, go, Indices(n))
     /\ UNCHANGED loc
  \/ /\ at[n] = "await" /\ got[Child(n, loc[n])] = "RUNNING"
     /\ Leave(n, "RUNNING", loc[n] + 1 .. Count(n) - 1)
     /\ UNCHANGED loc
  \/ ReactiveStop(n, stop) /\ UNCHANGED loc
  \/ /\ at[n] = "await" /\ got[Child(n, loc[n])] = go
     /\ loc' = [loc EXCEPT ![n] = @ + 1]
     /\ at' = [at EXCEPT ![n] = "loop"]
     /\ UNCHANGED <<cur, todo, out>>

ReactiveSequenceTick(n) ==
  /\ kind[n] = "ReactiveSequence"
  /\ ReactiveTick(n, "SUCCESS", "FAILURE")
  /\ UNCHANGED <<status, memory>>

ReactiveFallbackTick(n) ==
  /\ kind[n] = "ReactiveFallback"
  /\ ReactiveTick(n, "FAILURE", "SUCCESS")
  /\ UNCHANGED <<status, memory>>

-----------------------------------------------------------------------------
\* The children with result s that this tick() has counted so far: they are
\* the skipped ones below the loop index, whose status no longer changes.
Counted(n, s) ==
  Cardinality({i \in skip[n] : i < loc[n] /\ status[Child(n, i)] = s})

\* The switch of ParallelNode::tick() on the status s of child loc[n]: this
\* child brings a count to its threshold, or it is skipped from now on, or it
\* is RUNNING.
DecisiveLate(n, s) ==
  \/ s = "SUCCESS" /\ Counted(n, s) = param[n]
  \/ s = "FAILURE" /\ Counted(n, s) > Count(n) - param[n]

Decisive(n, s) ==
  \/ s = "SUCCESS" /\ Counted(n, s) + 1 = param[n]
  \/ s = "FAILURE" /\ Counted(n, s) + 1 > Count(n) - param[n]

ParallelDecideForgetful(n, s) ==
  /\ Decisive(n, s)
  /\ Leave(n, s, Indices(n))
  /\ UNCHANGED <<skip, loc>>

ParallelDecide(n, s) ==
  /\ Decisive(n, s)
  /\ Leave(n, s, Indices(n))
  /\ skip' = [skip EXCEPT ![n] = {}]
  /\ UNCHANGED loc

ParallelCount(n, s) ==
  \/ ParallelDecide(n, s)
  \/ /\ s \in Done /\ ~ Decisive(n, s)
     /\ skip' = [skip EXCEPT ![n] = @ \cup {loc[n]}]
     /\ loc' = [loc EXCEPT ![n] = @ + 1]
     /\ at' = [at EXCEPT ![n] = "loop"]
     /\ UNCHANGED <<cur, todo, out>>
  \/ /\ s = "RUNNING"
     /\ loc' = [loc EXCEPT ![n] = @ + 1]
     /\ at' = [at EXCEPT ![n] = "loop"]
     /\ UNCHANGED <<skip, cur, todo, out>>

ParallelTick(n) ==
  /\ kind[n] = "Parallel"
  /\ \/ /\ at[n] = "enter" /\ Count(n) >= param[n]
        /\ loc' = [loc EXCEPT ![n] = 0]
        /\ at' = [at EXCEPT ![n] = "loop"]
        /\ UNCHANGED <<skip, cur, todo, out>>
     \/ /\ at[n] = "loop" /\ loc[n] = Count(n)
        /\ Leave(n, "RUNNING", {})
        /\ UNCHANGED <<skip, loc>>
     \/ /\ at[n] = "loop" /\ loc[n] < Count(n) /\ loc[n] \notin skip[n]
        /\ TickChild(n, loc[n])
        /\ UNCHANGED <<skip, loc, todo, out>>
     \/ /\ at[n] = "loop" /\ loc[n] < Count(n) /\ loc[n] \in skip[n]
        /\ ParallelCount(n, status[Child(n, loc[n])])
     \/ /\ at[n] = "await"
        /\ ParallelCount(n, got[Child(n, loc[n])])
  /\ UNCHANGED <<status, idx>>

-----------------------------------------------------------------------------
\* SwitchNode: the ports select a child anew in every tick, and a different
\* one that is still running is halted first.
SwitchEnterForgetful(n) ==
  /\ at[n] = "enter" /\ Count(n) = param[n] + 1
  /\ \E selected \in Indices(n) : loc' = [loc EXCEPT ![n] = selected]
  /\ at' = [at EXCEPT ![n] = "switch"]
  /\ UNCHANGED <<idx, cur, todo, out>>

SwitchEnter(n) ==
  /\ at[n] = "enter" /\ Count(n) = param[n] + 1
  /\ \E selected \in Indices(n) :
       /\ loc' = [loc EXCEPT ![n] = selected]
       /\ todo' = [todo EXCEPT ![n] = {idx[n]} \ {-1, selected}]
  /\ at' = [at EXCEPT ![n] = "switch"]
  /\ UNCHANGED <<idx, cur, out>>

SwitchTick(n) ==
  /\ kind[n] = "Switch"
  /\ \/ SwitchEnter(n)
     \/ /\ at[n] = "switch" /\ todo[n] = {}
        /\ TickChild(n, loc[n])
        /\ UNCHANGED <<idx, loc, todo, out>>
     \/ /\ at[n] = "await" /\ got[Child(n, loc[n])] = "RUNNING"
        /\ Leave(n, "RUNNING", {})
        /\ idx' = [idx EXCEPT ![n] = loc[n]]
        /\ UNCHANGED loc
     \/ /\ at[n] = "await" /\ got[Child(n, loc[n])] # "RUNNING"
        /\ Leave(n, got[Child(n, loc[n])], Indices(n))
        /\ idx' = [idx EXCEPT ![n] = -1]
        /\ UNCHANGED loc
  /\ UNCHANGED <<status, skip>>

ControlTick(n) ==
  /\ \/ SequenceTick(n) \/ FallbackTick(n) \/ SequenceStarTick(n)
     \/ ReactiveSequenceTick(n) \/ ReactiveFallbackTick(n)
     \/ ParallelTick(n) \/ SwitchTick(n)
  /\ UNCHANGED <<tree, async, got, caller>>

\* The LogicErrors of controls/: a child that returned IDLE, a Parallel or
\* a Switch with the wrong number of children.
AwaitedBy(n) == IF kind[n] \in MemoryKinds THEN idx[n] ELSE loc[n]

ControlThrow(n) ==
  \/ /\ at[n] = "await" /\ kind[n] \in ControlKinds \ {"Switch"}
     /\ got[Child(n, AwaitedBy(n))] = "IDLE"
     /\ Throw
  \/ /\ at[n] = "enter" /\ kind[n] = "Parallel" /\ Count(n) < param[n]
     /\ Throw
  \/ /\ at[n] = "enter" /\ kind[n] = "Switch" /\ Count(n) # param[n] + 1
     /\ Throw
=============================================================================
