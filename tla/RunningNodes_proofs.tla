-------------------------- MODULE RunningNodes_proofs --------------------------
(***************************************************************************)
(* Which nodes of a tree may be RUNNING, or hold a result, at which point  *)
(* of a tick or a halt: what haltChild(), which looks no deeper than the   *)
(* first child that is not RUNNING, relies on.                             *)
(***************************************************************************)
EXTENDS BehaviorTree_proofs

(* What executeTick() returned is the status the node is left with, unless *)
(* the thread of an asynchronous action has set another one since.         *)
AsReturned(c) == got[c] = status[c] \/ (got[c] = "RUNNING" /\ kind[c] \in AsyncKinds)

\* n awaits its child i.
Awaits(n, i) == at[n] = "await" /\ (kind[n] \in ControlKinds => i = AwaitedBy(n))

Returned ==
  /\ \A n \in Node : \A i \in Indices(n) :
        Awaits(n, i) /\ ~ On(Child(n, i)) => AsReturned(Child(n, i))
  /\ op = "tick" /\ cur = NoNode => AsReturned(Root)
  /\ \A n \in Node : at[n] = "reset" => status[n] = out[n]

\* Only the frame on top, and those it halts, are not part of a tick: above a
\* frame that is not being halted every frame awaits a child.
Ticking ==
  \A m, n \in Node : On(m) /\ On(n) /\ Depth[m] < Depth[n] /\ at[n] # "stop" => at[m] = "await"

TickInv == ThreadInv /\ Resetting /\ Returned /\ Ticking

\* A node that is on the stack is below no node that is not, while the owner
\* ticks or halts from the root, and a frame that is not being halted runs in
\* a tick, its parent awaiting it.
LEMMA CallerAwaits ==
  ASSUME Calls, NEW n \in Node, On(n), at[n] # "stop"
  PROVE  /\ op = "tick"
         /\ \A m \in Node : \A i \in Indices(m) : Child(m, i) = n => On(m) /\ Awaits(m, i)
<1> USE DEF Calls
<1>1. op = "tick"
  BY DEF Stack, Modes, Inv, TypeOK, AtRest
<1>2. ASSUME NEW m \in Node, NEW i \in Indices(m), Child(m, i) = n
      PROVE  On(m) /\ Awaits(m, i)
  <2>1. n # Root /\ Parent[n] = m
    BY <1>2, ChildFact
  <2>2. On(m)
    BY <1>1, <2>1 DEF Modes
  <2> QED
    BY <1>2, <2>2 DEF Callees, Awaits
<1> QED
  BY <1>1, <1>2

\* A pop keeps what is known of the results the awaiting frames will read.
LEMMA PopReturned ==
  ASSUME Calls, Returned, NEW n \in Node, cur = n, at[n] # "stop", Pop(n),
         UNCHANGED <<tree, memory, op>>, AsReturned(n)',
         \A m \in Node \ {n} : Parent[m] # n => status'[m] = status[m] /\ got'[m] = got[m]
  PROVE  Returned'
<1> USE DEF Calls
<1>1. /\ at \in [Node -> FramePoints] /\ loc \in [Node -> Int]
      /\ kind' = kind /\ idx' = idx
  BY DEF Inv, TypeOK, tree, memory
<1>2. /\ ~ On(n)' /\ \A m \in Node \ {n} : at'[m] = at[m]
      /\ cur' = NoNode /\ op = "tick" => n = Root
  BY PopStack
<1>3. \A m \in Node \ {n} : AwaitedBy(m)' = AwaitedBy(m) /\ out'[m] = out[m]
  BY <1>1 DEF AwaitedBy, Pop, Inv, TypeOK
<1>4. ASSUME NEW m \in Node, NEW i \in Indices(m), Awaits(m, i)', ~ On(Child(m, i))'
      PROVE  AsReturned(Child(m, i))'
  <2>1. m # n /\ at'[m] = at[m] /\ Awaits(m, i) /\ On(m)
    BY <1>1, <1>2, <1>3, <1>4 DEF Awaits, On
  <2>2. Child(m, i) \in Node /\ Parent[Child(m, i)] = m
    BY ChildFact
  <2>3. CASE Child(m, i) = n
    BY <2>3
  <2>4. CASE Child(m, i) # n
    <3>1. ~ On(Child(m, i))
      BY <1>2, <1>4, <2>2, <2>4 DEF On
    <3>2. AsReturned(Child(m, i))
      BY <2>1, <3>1 DEF Returned
    <3> QED
      BY <1>1, <2>1, <2>2, <2>4, <3>2 DEF AsReturned
  <2> QED
    BY <2>3, <2>4
<1>5. \A m \in Node : at'[m] # "reset"
  <2>1. \A m \in Node \ {n} : On(m) => at[m] \in Waits
    BY DEF Stack
  <2> QED
    BY <1>2, <2>1 DEF On, Waits, HaltPoints
<1>6. op' = "tick" /\ cur' = NoNode => AsReturned(Root)'
  BY <1>2
<1> QED
  BY <1>4, <1>5, <1>6 DEF Returned

\* Every step keeps them.
LEMMA NextReturned ==
  ASSUME ThreadInv, Returned, [Next]_vars
  PROVE  Returned'
<1>1. /\ Calls /\ at \in [Node -> FramePoints] /\ status \in [Node -> Status]
      /\ got \in [Node -> Status] /\ out \in [Node -> Status] /\ Calls'
      /\ idx \in [Node -> Int] /\ loc \in [Node -> Int]
  BY NextCalls DEF ThreadInv, Calls, Inv, TypeOK
<1>2. ASSUME UNCHANGED <<kind, at, idx, loc, out, got, status, op, cur>> PROVE Returned'
  BY <1>2 DEF Returned, AsReturned, Awaits, AwaitedBy, On
<1>3. CASE Owner
  <2>1. \A n \in Node : at'[n] \in {"off", "enter", "stop"}
    <3>1. \A n \in Node : ~ On(n)
      BY <1>1, <1>3 DEF Owner, TickRoot, TickRootReturn, HaltTree, HaltTreeVisit, VisitNode,
                        HaltTreeReturn, Calls, Stack, Modes, AtRest
    <3>2. at' = at \/ at' = [at EXCEPT ![Root] = "enter"]
          \/ \E n \in Node : at' = [at EXCEPT ![n] = "stop"]
      <4>1. VisitNode => Head(visit) \in Node
        BY <1>1 DEF VisitNode, Calls, Inv, TypeOK
      <4> QED
        BY <1>3, <4>1, TreeAssumption DEF Owner, TickRoot, TickRootReturn, HaltTree, HaltTreeVisit,
                                          VisitNode, HaltTreeReturn, CallHalt
    <3> QED
      BY <1>1, <3>1, <3>2 DEF On
  <2>2. op' = "tick" => cur' # NoNode
    BY <1>3, TreeAssumption DEF Owner, TickRoot, TickRootReturn, HaltTree, HaltTreeVisit, VisitNode,
                                HaltTreeReturn
  <2> QED
    BY <2>1, <2>2 DEF Returned, Awaits
<1>4. ASSUME NEW n \in Node, Run(n) PROVE Returned'
  <2>1. cur = n /\ cur # NoNode
    BY <1>4, TreeAssumption DEF Run
  <2>a. \A m \in Node : at[m] = "reset" => m = n
    BY <1>1, <2>1 DEF Calls, Stack, On, Waits, HaltPoints
  <2>2. CASE ControlTick(n) \/ DecoratorTick(n)
    <3>1. TickShape(n)
      BY <1>1, <2>2, ControlShape, DecoratorShape DEF Calls
    <3>2. /\ kind' = kind /\ got' = got
          /\ \A m \in Node \ {n} : /\ status'[m] = status[m] /\ AwaitedBy(m)' = AwaitedBy(m)
      BY <1>1, <3>1 DEF TickShape, OnlyOwn, tree, caller, AwaitedBy
    <3>3. cur' # NoNode /\ \A m \in Node \ {n} : at'[m] = at[m] \/ at'[m] = "enter"
      BY <1>1, <2>1, <3>1, ChildIsNode, TreeAssumption DEF TickShape, Moves, TicksChild, TickChild
    <3>4. \A m \in Node : at'[m] # "reset"
      BY <1>1, <2>a, <3>1, ChildIsNode DEF TickShape, Moves, TicksChild, TickChild
    <3>5. ASSUME NEW m \in Node, NEW i \in Indices(m), Awaits(m, i)', ~ On(Child(m, i))'
          PROVE  AsReturned(Child(m, i))'
      <4>1. Child(m, i) \in Node \ {m} /\ Parent[Child(m, i)] = m
        BY ChildFact
      <4>2. CASE m = n
        <5>1. PICK j \in Indices(n) : TicksChild(n, j)
          BY <1>1, <3>1, <3>5, <4>2 DEF TickShape, Moves, Awaits
        <5>2. i = j
          <6>1. CASE kind[n] \in ControlKinds
            BY <3>2, <3>5, <4>2, <5>1, <6>1 DEF TicksChild, Awaits
          <6>2. CASE kind[n] \notin ControlKinds
            <7>1. kind[n] \in DecoratorKinds
              BY <1>1, <3>1, <6>2 DEF TickShape, Calls, Inv, TypeOK, Kinds
            <7>2. Count(n) = 1
              BY <1>1, <7>1, Sizes DEF Calls, Inv
            <7> QED
              BY <4>2, <7>2 DEF Indices
          <6> QED
            BY <6>1, <6>2
        <5>3. On(Child(m, i))'
          BY <1>1, <4>1, <4>2, <5>1, <5>2 DEF TicksChild, TickChild, On
        <5> QED
          BY <3>5, <5>3
      <4>3. CASE m # n
        <5>1. Awaits(m, i)
          BY <3>2, <3>3, <3>5, <4>3 DEF Awaits
        <5>2. at'[n] # "off" /\ Child(m, i) # n
          <6>1. at'[n] # "off"
            BY <1>1, <3>1, ChildFact DEF TickShape, Moves, TicksChild, TickChild
          <6> QED
            BY <3>5, <6>1 DEF On
        <5>3. ~ On(Child(m, i))
          BY <3>3, <3>5, <4>1, <5>2 DEF On
        <5> QED
          BY <3>2, <4>1, <5>1, <5>2, <5>3 DEF Returned, AsReturned
      <4> QED
        BY <4>2, <4>3
    <3> QED
      BY <3>3, <3>4, <3>5 DEF Returned
  <2>3. CASE ControlThrow(n) \/ DecoratorThrow(n) \/ SyncThrow(n)
    BY <2>3 DEF ControlThrow, DecoratorThrow, SyncThrow, Throw, Unwind, Returned, Awaits
  <2>4. CASE HaltChild(n)
    <3>1. PICK i \in Indices(n) : /\ got' = [got EXCEPT ![Child(n, i)] = "IDLE"]
                                  /\ HaltsRunning(n, i) \/ SetsIdle(n, i)
      BY <1>1, <2>4, HaltShape DEF Calls
    <3>2. /\ at[n] \in HaltPoints /\ UNCHANGED <<kind, loc, op, out>>
          /\ Child(n, i) \in Node \ {n} /\ Parent[Child(n, i)] = n
      BY <1>1, <2>4, ChildFact, HaltShape DEF Calls, tree, caller
    <3> DEFINE c == Child(n, i)
    <3>3. /\ \A m \in Node \ {c} : /\ at'[m] = at[m] /\ status'[m] = status[m] /\ got'[m] = got[m]
                                   /\ AwaitedBy(m)' = AwaitedBy(m)
          /\ at'[c] = at[c] \/ at'[c] = "stop"
          /\ cur' # NoNode
      BY <1>1, <2>1, <3>1, <3>2, TreeAssumption DEF HaltsRunning, SetsIdle, AwaitedBy, memory
    <3> HIDE DEF c
    <3>4. at[c] = "off" /\ c \in Node \ {n} /\ Parent[c] = n
      BY <1>1, <2>1, <3>2, TopHasNoCallee DEF c, On
    <3>5. ASSUME NEW m \in Node, NEW j \in Indices(m), Awaits(m, j)', ~ On(Child(m, j))'
          PROVE  AsReturned(Child(m, j))'
      <4>1. m # n /\ m # c
        BY <3>2, <3>3, <3>4, <3>5 DEF Awaits, HaltPoints
      <4>2. Child(m, j) \in Node /\ Parent[Child(m, j)] = m
        BY ChildFact
      <4>3. Child(m, j) # c
        BY <3>4, <4>1, <4>2
      <4>4. Awaits(m, j) /\ ~ On(Child(m, j))
        BY <3>2, <3>3, <3>5, <4>1, <4>2, <4>3 DEF Awaits, On
      <4> QED
        BY <3>2, <3>3, <4>2, <4>3, <4>4 DEF Returned, AsReturned
    <3>6. \A m \in Node : at'[m] # "reset"
      BY <2>a, <3>2, <3>3, <3>4 DEF HaltPoints
    <3> QED
      BY <3>3, <3>5, <3>6 DEF Returned
  <2>5. CASE Halted(n)
    <3>1. /\ at[n] = "stop" /\ Pop(n) /\ UNCHANGED <<kind, idx, got, op>>
          /\ \A m \in Node \ {n} : status'[m] = status[m]
      BY <1>1, <2>5 DEF Halted, tree, memory, caller
    <3>2. /\ ~ On(n)' /\ \A m \in Node \ {n} : at'[m] = at[m]
          /\ cur' = NoNode /\ op = "tick" => n = Root
      BY <1>1, <2>1, <3>1, PopStack
    <3>3. ASSUME NEW m \in Node, NEW j \in Indices(m), Awaits(m, j)', ~ On(Child(m, j))'
          PROVE  AsReturned(Child(m, j))'
      <4>1. Child(m, j) \in Node
        BY ChildFact
      <4>2. m # n /\ at[m] = "await" /\ On(m)
        BY <3>2, <3>3 DEF Awaits, On
      <4>3. Child(m, j) # n
        <5>1. On(m) /\ On(Child(m, j)) => (at[m] = "await" => at[Child(m, j)] # "stop")
          BY <1>1 DEF Calls, Callees
        <5>2. On(n)
          BY <3>1 DEF On
        <5> QED
          BY <3>1, <4>2, <5>1, <5>2
      <4>4. Awaits(m, j) /\ ~ On(Child(m, j))
        BY <1>1, <3>1, <3>2, <3>3, <4>1, <4>2, <4>3 DEF Awaits, On, AwaitedBy, Pop
      <4> QED
        BY <3>1, <4>1, <4>3, <4>4 DEF Returned, AsReturned
    <3>4. \A m \in Node : at'[m] # "reset"
      BY <2>a, <3>1, <3>2 DEF On
    <3>5. ~ (op' = "tick" /\ cur' = NoNode)
      BY <1>1, <3>1, <3>2 DEF Calls, Modes
    <3> QED
      BY <3>3, <3>4, <3>5 DEF Returned
  <2>6. CASE Ticked(n)
    <3>1. CASE kind[n] \in DecoratorKinds
      <4>1. /\ at' = [at EXCEPT ![n] = "reset"] /\ status' = [status EXCEPT ![n] = out[n]]
            /\ UNCHANGED <<kind, idx, loc, out, got, op, cur>>
        BY <2>6, <3>1 DEF Ticked, tree, memory, caller
      <4>2. ASSUME NEW m \in Node, NEW j \in Indices(m), Awaits(m, j)', ~ On(Child(m, j))'
            PROVE  AsReturned(Child(m, j))'
        <5>1. m # n /\ Child(m, j) # n /\ Child(m, j) \in Node
          BY <1>1, <4>1, <4>2, ChildFact DEF Awaits, On
        <5>2. Awaits(m, j) /\ ~ On(Child(m, j))
          BY <1>1, <4>1, <4>2, <5>1 DEF Awaits, On, AwaitedBy
        <5> QED
          BY <1>1, <4>1, <5>1, <5>2 DEF Returned, AsReturned
      <4>3. \A m \in Node : at'[m] = "reset" => status'[m] = out'[m]
        BY <1>1, <2>a, <4>1
      <4> QED
        BY <2>1, <4>1, <4>2, <4>3 DEF Returned
    <3>2. CASE kind[n] \notin DecoratorKinds
      <4>1. /\ Pop(n) /\ at[n] # "stop" /\ status' = [status EXCEPT ![n] = out[n]]
            /\ got' = [got EXCEPT ![n] = out[n]] /\ UNCHANGED <<tree, memory, op>>
        BY <2>6, <3>2 DEF Ticked, caller
      <4>2. AsReturned(n)' /\ \A m \in Node \ {n} : status'[m] = status[m] /\ got'[m] = got[m]
        BY <1>1, <4>1 DEF AsReturned
      <4> QED
        BY <1>1, <2>1, <4>1, <4>2, PopReturned
    <3> QED
      BY <3>1, <3>2
  <2>7. CASE ResetChild(n)
    <3>1. kind[n] \in DecoratorKinds /\ at[n] = "reset" /\ Pop(n) /\ UNCHANGED <<tree, memory, op>>
      BY <1>1, <2>7 DEF ResetChild, Calls, Inv, FrameOK, caller
    <3>2. Child(n, 0) \in Node \ {n} /\ Parent[Child(n, 0)] = n
      BY <1>1, <3>1, Sizes, ChildFact DEF Calls, Inv
    <3>3. /\ status'[n] = out[n] /\ got'[n] = out[n]
          /\ \A m \in Node \ {n} : Parent[m] # n => status'[m] = status[m] /\ got'[m] = got[m]
      BY <1>1, <2>7, <3>1, <3>2 DEF ResetChild, Returned
    <3> QED
      BY <1>1, <2>1, <3>1, <3>3, PopReturned DEF AsReturned
  <2>8. CASE SyncTick(n) \/ StatefulTick(n) \/ AsyncRead(n)
    <3>1. PICK s \in Status : Return(n, s)
      BY <1>1, <2>8 DEF SyncTick, StatefulTick, AsyncRead, Status
    <3>2. at[n] # "stop"
      BY <2>8 DEF SyncTick, StatefulTick, AsyncRead
    <3>3. /\ Pop(n) /\ UNCHANGED <<tree, memory, op>> /\ status'[n] = s /\ got'[n] = s
          /\ \A m \in Node \ {n} : status'[m] = status[m] /\ got'[m] = got[m]
      BY <1>1, <3>1 DEF Return, caller
    <3> QED
      BY <1>1, <2>1, <3>2, <3>3, PopReturned DEF AsReturned
  <2>9. CASE AsyncStart(n)
    <3>1. /\ at' = [at EXCEPT ![n] = "read"] /\ status' = [status EXCEPT ![n] = "RUNNING"]
          /\ UNCHANGED <<kind, idx, loc, out, got, op, cur>>
      BY <2>9 DEF AsyncStart, tree, memory, frame, caller
    <3>2. ASSUME NEW m \in Node, NEW j \in Indices(m), Awaits(m, j)', ~ On(Child(m, j))'
          PROVE  AsReturned(Child(m, j))'
      <4>1. m # n /\ Child(m, j) # n /\ Child(m, j) \in Node
        BY <1>1, <3>1, <3>2, ChildFact DEF Awaits, On
      <4>2. Awaits(m, j) /\ ~ On(Child(m, j))
        BY <1>1, <3>1, <3>2, <4>1 DEF Awaits, On, AwaitedBy
      <4> QED
        BY <1>1, <3>1, <4>1, <4>2 DEF Returned, AsReturned
    <3>3. \A m \in Node : at'[m] # "reset"
      BY <1>1, <2>a, <3>1
    <3> QED
      BY <2>1, <3>1, <3>2, <3>3 DEF Returned
  <2> QED
    BY <1>4, <2>2, <2>3, <2>4, <2>5, <2>6, <2>7, <2>8, <2>9 DEF Run, LeafTick
<1>5. ASSUME NEW n \in Node, AsyncThread(n) \/ AsyncThreadThrow(n) PROVE Returned'
  <2>1. /\ UNCHANGED <<kind, at, idx, loc, out, got, op, cur>>
        /\ \A m \in Node \ {n} : status'[m] = status[m]
    BY <1>1, <1>5 DEF AsyncThread, AsyncThreadThrow, tree, memory, frame, caller
  <2>2. kind[n] \in AsyncKinds /\ status[n] = "RUNNING"
    BY <1>5 DEF AsyncThread, AsyncThreadThrow, ThreadInv, Threads, ThreadIsRunning
  <2>3. \A m \in Node : AsReturned(m) => AsReturned(m)'
    BY <2>1, <2>2 DEF AsReturned
  <2>4. at[n] # "reset"
    BY <1>1, <2>2, KindsDiffer DEF Calls, Inv, FrameOK, LeafKinds
  <2>5. \A m \in Node : (On(m)' <=> On(m)) /\ \A i \in Indices(m) : Awaits(m, i)' <=> Awaits(m, i)
    BY <2>1 DEF On, Awaits, AwaitedBy
  <2>6. ASSUME NEW m \in Node, NEW i \in Indices(m), Awaits(m, i)', ~ On(Child(m, i))'
        PROVE  AsReturned(Child(m, i))'
    BY <2>3, <2>5, <2>6, ChildIsNode DEF Returned
  <2>7. op' = "tick" /\ cur' = NoNode => AsReturned(Root)'
    BY <2>1, <2>3, TreeAssumption DEF Returned
  <2> QED
    BY <2>1, <2>4, <2>6, <2>7 DEF Returned
<1>6. CASE UNCHANGED vars
  BY <1>2, <1>6 DEF vars, tree, memory, frame, caller
<1> QED
  BY <1>3, <1>4, <1>5, <1>6 DEF Next

\* Every step keeps the frames above the one on top waiting for a result.
LEMMA NextTicking ==
  ASSUME Calls, Ticking, [Next]_vars
  PROVE  Ticking'
<1>1. /\ at \in [Node -> FramePoints] /\ Calls'
  BY NextCalls DEF Calls, Inv, TypeOK
<1>2. ASSUME \A n \in Node : at'[n] = at[n] \/ at'[n] = "off" PROVE Ticking'
  BY <1>2 DEF Ticking, On
\* The frame of n goes on to another point; it had no callee.
<1>3. ASSUME NEW n \in Node, cur = n, at[n] # "stop", \A m \in Node \ {n} : at'[m] = at[m]
      PROVE  Ticking'
  <2>1. \A m \in Node : On(m) => Depth[m] <= Depth[n] /\ On(n)
    BY <1>3, TreeAssumption DEF Calls, Stack
  <2> SUFFICES ASSUME NEW m \in Node, NEW k \in Node, On(m)', On(k)', Depth[m] < Depth[k], at'[k] # "stop"
               PROVE  at'[m] = "await"
    BY DEF Ticking
  <2>2. m # n
    <3>1. k # n => On(k)
      BY <1>3 DEF On
    <3>2. m = n => Depth[k] <= Depth[m]
      BY <2>1, <3>1, DepthFact
    <3> QED
      BY <3>2, DepthFact
  <2>3. On(m) /\ at'[m] = at[m]
    BY <1>3, <2>2 DEF On
  <2>4. CASE k = n
    BY <1>3, <2>1, <2>3, <2>4 DEF Ticking
  <2>5. CASE k # n
    BY <1>3, <2>3, <2>5 DEF Ticking, On
  <2> QED
    BY <2>4, <2>5
<1>4. ASSUME NEW n \in Node, cur = n, at[n] # "stop", NEW i \in Indices(n), TickChild(n, i) PROVE Ticking'
  <2> DEFINE c == Child(n, i)
  <2>1. c \in Node \ {n} /\ Depth[c] = Depth[n] + 1
    BY ChildFact
  <2>2. at' = [at EXCEPT ![n] = "await", ![c] = "enter"]
    BY <1>4 DEF TickChild
  <2> HIDE DEF c
  <2>3. \A m \in Node : On(m) => Depth[m] <= Depth[n] /\ On(n)
    BY <1>4, TreeAssumption DEF Calls, Stack
  <2> SUFFICES ASSUME NEW m \in Node, NEW k \in Node, On(m)', On(k)', Depth[m] < Depth[k], at'[k] # "stop"
               PROVE  at'[m] = "await"
    BY DEF Ticking
  <2>4. CASE m = n
    BY <1>1, <2>1, <2>2, <2>4
  <2>5. CASE m # n
    <3>1. m # c
      <4>1. k # c => On(k) \/ k = n
        BY <1>1, <2>2 DEF On
      <4> QED
        BY <2>1, <2>3, <4>1, DepthFact
    <3>2. On(m) /\ at'[m] = at[m]
      BY <1>1, <2>2, <2>5, <3>1 DEF On
    <3>3. Depth[m] < Depth[n]
      BY <2>3, <2>5, <3>2, DepthFact DEF Calls, Stack
    <3> QED
      BY <1>4, <2>3, <3>2, <3>3 DEF Ticking
  <2> QED
    BY <2>4, <2>5
<1>5. ASSUME NEW c \in Node, at' = [at EXCEPT ![c] = "stop"],
             \A m \in Node : On(m) => Depth[m] < Depth[c]
      PROVE  Ticking'
  <2> SUFFICES ASSUME NEW m \in Node, NEW k \in Node, On(m)', On(k)', Depth[m] < Depth[k], at'[k] # "stop"
               PROVE  at'[m] = "await"
    BY DEF Ticking
  <2>1. k # c /\ On(k) /\ at'[k] = at[k]
    BY <1>1, <1>5 DEF On
  <2>2. m # c
    BY <1>5, <2>1, DepthFact
  <2> QED
    BY <1>1, <1>5, <2>1, <2>2 DEF Ticking, On
<1>6. CASE Owner
  <2>1. \A n \in Node : ~ On(n)
    BY <1>6 DEF Owner, TickRoot, TickRootReturn, HaltTree, HaltTreeVisit, VisitNode,
                HaltTreeReturn, Calls, Stack, Modes, AtRest
  <2>2. VisitNode => Head(visit) \in Node
    BY DEF VisitNode, Calls, Inv, TypeOK
  <2>3. CASE HaltTree \/ VisitNode
    BY <1>5, <2>1, <2>2, <2>3, TreeAssumption DEF HaltTree, VisitNode, CallHalt
  <2>4. CASE TickRoot
    BY <1>1, <2>1, <2>4, DepthFact DEF TickRoot, Ticking, On
  <2>5. CASE TickRootReturn \/ HaltTreeVisit \/ HaltTreeReturn
    BY <1>2, <2>5 DEF TickRootReturn, HaltTreeVisit, HaltTreeReturn
  <2> QED
    BY <1>6, <2>3, <2>4, <2>5 DEF Owner
<1>7. ASSUME NEW n \in Node, Run(n) PROVE Ticking'
  <2>1. cur = n
    BY <1>7 DEF Run
  <2>2. CASE ControlTick(n) \/ DecoratorTick(n)
    <3>1. TickShape(n)
      BY <2>2, ControlShape, DecoratorShape DEF Calls
    <3>2. at[n] # "stop"
      BY <3>1 DEF TickShape
    <3>3. CASE \E p \in FramePoints : Moves(n, p)
      BY <1>1, <1>3, <2>1, <3>2, <3>3 DEF Moves
    <3>4. CASE \E i \in Indices(n) : TicksChild(n, i)
      BY <1>4, <2>1, <3>2, <3>4 DEF TicksChild
    <3> QED
      BY <3>1, <3>3, <3>4 DEF TickShape
  <2>3. CASE ControlThrow(n) \/ DecoratorThrow(n) \/ SyncThrow(n)
    BY <1>2, <2>3 DEF ControlThrow, DecoratorThrow, SyncThrow, Throw, Unwind
  <2>4. CASE HaltChild(n)
    <3>1. PICK i \in Indices(n) : HaltsRunning(n, i) \/ SetsIdle(n, i)
      BY <2>4, HaltShape DEF Calls
    <3>2. CASE SetsIdle(n, i)
      BY <1>2, <3>2 DEF SetsIdle
    <3>3. CASE HaltsRunning(n, i)
      <4>1. Child(n, i) \in Node /\ Depth[Child(n, i)] = Depth[n] + 1
        BY ChildFact
      <4>2. \A m \in Node : On(m) => Depth[m] < Depth[Child(n, i)]
        BY <2>1, <4>1, DepthFact DEF Calls, Stack
      <4> QED
        BY <1>5, <3>3, <4>1, <4>2 DEF HaltsRunning
    <3> QED
      BY <3>1, <3>2, <3>3
  <2>5. ASSUME Pop(n) PROVE Ticking'
    BY <1>1, <1>2, <2>5 DEF Pop
  <2>6. CASE Halted(n) \/ ResetChild(n)
    BY <2>5, <2>6 DEF Halted, ResetChild
  <2>7. CASE Ticked(n)
    <3>1. CASE kind[n] \in DecoratorKinds
      BY <1>1, <1>3, <2>1, <2>7, <3>1 DEF Ticked
    <3>2. CASE kind[n] \notin DecoratorKinds
      BY <2>5, <2>7, <3>2 DEF Ticked
    <3> QED
      BY <3>1, <3>2
  <2>8. CASE SyncTick(n) \/ StatefulTick(n) \/ AsyncRead(n)
    BY <2>5, <2>8 DEF SyncTick, StatefulTick, AsyncRead, Return
  <2>9. CASE AsyncStart(n)
    BY <1>1, <1>3, <2>1, <2>9 DEF AsyncStart
  <2> QED
    BY <1>7, <2>2, <2>3, <2>4, <2>6, <2>7, <2>8, <2>9 DEF Run, LeafTick
<1>8. ASSUME NEW n \in Node, AsyncThread(n) \/ AsyncThreadThrow(n) PROVE Ticking'
  BY <1>2, <1>8 DEF AsyncThread, AsyncThreadThrow
<1>9. CASE UNCHANGED vars
  BY <1>2, <1>9 DEF vars
<1> QED
  BY <1>6, <1>7, <1>8, <1>9 DEF Next

\* No step disturbs what is known of the frames of a tick.
LEMMA NextTick == ASSUME TickInv, [Next]_vars PROVE TickInv'
BY NextThreads, NextResetting, NextReturned, NextTicking DEF TickInv, ThreadInv

\* Nor is there anything to know at the start.
LEMMA InitTick == ASSUME Init PROVE TickInv
<1>1. Calls
  BY InitCalls
<1>2. ThreadInv
  BY <1>1 DEF ThreadInv, Threads, ThreadIsRunning, Init, Done
<1>3. \A n \in Node : at[n] = "off"
  BY DEF Init
<1>4. op = "rest"
  BY DEF Init
<1> QED
  BY <1>2, <1>3, <1>4 DEF TickInv, Resetting, Returned, Ticking, Awaits, On

-----------------------------------------------------------------------------
(* Skip lists.                                                             *)
Skips ==
  \A n \in Node :
    /\ skip[n] # {} => kind[n] = "Parallel"
    /\ at[n] \in HaltPoints /\ todo[n] # {} => skip[n] = {}
    /\ \A i \in skip[n] : status[Child(n, i)] \in Done /\ ~ On(Child(n, i))

SkipInv ==
  /\ TickInv /\ Skips
  /\ op = "visit" => \A n \in Pending : n # Root => skip[Parent[n]] = {}

\* What a piece of tick() does to skip lists: only a Parallel has one; it
\* enters the child it awaited with a result, does not tick one it has
\* entered, and halts children only when it has forgotten them all.
LEMMA TickSkips ==
  ASSUME TickInv, NEW n \in Node, cur = n, ControlTick(n) \/ DecoratorTick(n),
         skip[n] # {} => kind[n] = "Parallel"
  PROVE  /\ skip'[n] # {} => kind[n] = "Parallel"
         /\ at'[n] \in HaltPoints /\ todo'[n] # {} => skip'[n] = {}
         /\ \A i \in skip'[n] : i \in skip[n] \/ status[Child(n, i)] \in Done
         /\ \A i \in Indices(n) : TickChild(n, i) => i \notin skip'[n]
<1> DEFINE Goal == /\ skip'[n] # {} => kind[n] = "Parallel"
                   /\ at'[n] \in HaltPoints /\ todo'[n] # {} => skip'[n] = {}
                   /\ \A i \in skip'[n] : i \in skip[n] \/ status[Child(n, i)] \in Done
                   /\ \A i \in Indices(n) : TickChild(n, i) => i \notin skip'[n]
<1> SUFFICES Goal
  OBVIOUS
<1> USE DEF TickInv, ThreadInv, Calls, Inv, TypeOK
<1>1. CASE kind[n] # "Parallel"
  <2>1. skip'[n] = skip[n]
    BY <1>1 DEF ControlTick, DecoratorTick, SequenceTick, FallbackTick, SequenceStarTick,
                ReactiveSequenceTick, ReactiveFallbackTick, ParallelTick, SwitchTick, memory
  <2> QED
    BY <1>1, <2>1
<1>2. CASE kind[n] = "Parallel"
  <2>1. ParallelTick(n)
    BY <1>2 DEF ControlTick, DecoratorTick, SequenceTick, FallbackTick, SequenceStarTick,
                ReactiveSequenceTick, ReactiveFallbackTick, SwitchTick, InverterTick,
                ForceSuccessTick, ForceFailureTick, SubTreeTick, BlackboardCheckTick,
                RepeatTick, RetryTick
  <2>2. Count(n) \in Nat /\ loc[n] \in 0 .. Count(n) /\ Indices(n) = 0 .. Count(n) - 1
    BY Sizes DEF Indices
  <2>3. ASSUME at[n] = "enter", at' = [at EXCEPT ![n] = "loop"], UNCHANGED <<skip, cur>>
        PROVE  Goal
    BY <1>2, <2>3, ChildFact, TreeAssumption DEF TickChild, HaltPoints
  <2>4. CASE /\ at[n] = "loop" /\ loc[n] = Count(n)
             /\ Leave(n, "RUNNING", {}) /\ UNCHANGED <<skip, loc>>
    BY <1>2, <2>4, ChildFact, TreeAssumption DEF Leave, TickChild
  <2>5. CASE /\ at[n] = "loop" /\ loc[n] < Count(n) /\ loc[n] \notin skip[n]
             /\ TickChild(n, loc[n]) /\ UNCHANGED <<skip, loc, todo, out>>
    <3>1. loc[n] \in Indices(n)
      BY <2>2, <2>5
    <3>2. at'[n] = "await"
      BY <2>5, <3>1, ChildFact DEF TickChild
    <3>3. \A i \in Indices(n) : TickChild(n, i) => i = loc[n]
      BY <2>5, <3>1, ChildFact DEF TickChild
    <3> QED
      BY <1>2, <2>5, <3>2, <3>3 DEF HaltPoints
  <2>6. ASSUME NEW s, ParallelCount(n, s), UNCHANGED status,
               s \in Done => status[Child(n, loc[n])] \in Done
        PROVE  Goal
    <3>1. \A i \in Indices(n) : ~ TickChild(n, i)
      BY <2>6, ChildFact, TreeAssumption DEF ParallelCount, ParallelDecide, Leave, TickChild
    <3>2. CASE ParallelDecide(n, s)
      BY <3>1, <3>2 DEF ParallelDecide
    <3>3. CASE s \in Done /\ skip' = [skip EXCEPT ![n] = @ \cup {loc[n]}] /\ at' = [at EXCEPT ![n] = "loop"]
      BY <1>2, <2>6, <3>1, <3>3 DEF HaltPoints
    <3>4. CASE UNCHANGED skip /\ at' = [at EXCEPT ![n] = "loop"]
      BY <1>2, <3>1, <3>4 DEF HaltPoints
    <3> QED
      BY <2>6, <3>2, <3>3, <3>4 DEF ParallelCount
  <2>7. CASE /\ at[n] = "loop" /\ loc[n] < Count(n) /\ loc[n] \in skip[n]
             /\ ParallelCount(n, status[Child(n, loc[n])]) /\ UNCHANGED status
    BY <2>6, <2>7
  <2>8. CASE at[n] = "await" /\ ParallelCount(n, got[Child(n, loc[n])]) /\ UNCHANGED status
    <3>1. loc[n] \in Indices(n) /\ AwaitedBy(n) = loc[n]
      BY <1>2, <2>2, <2>8 DEF FrameOK, AwaitedBy, MemoryKinds
    <3>2. ~ On(Child(n, loc[n])) /\ Awaits(n, loc[n])
      BY <2>8, <3>1, TopHasNoCallee DEF Awaits
    <3>3. AsReturned(Child(n, loc[n]))
      BY <3>1, <3>2 DEF Returned
    <3> QED
      BY <2>6, <2>8, <3>3 DEF AsReturned, Done
  <2> HIDE DEF Goal
  <2> QED
    BY <2>1, <2>3, <2>4, <2>5, <2>7, <2>8 DEF ParallelTick
<1> QED
  BY <1>1, <1>2

\* A step that changes the status, or the frame, only of nodes (X) no list
\* holds, and that enters no child in a list, keeps the lists.
LEMMA SkipFrame ==
  ASSUME Inv, Skips, NEW X \in SUBSET Node, kind' = kind,
         \A m \in Node : \A i \in skip'[m] : Child(m, i) \notin X,
         \A y \in Node \ X : status'[y] = status[y] /\ (On(y)' => On(y)),
         \A m \in Node : skip'[m] \subseteq skip[m],
         \A m \in Node : at'[m] \in HaltPoints /\ todo'[m] # {} =>
                           skip'[m] = {} \/ (at[m] \in HaltPoints /\ todo[m] # {})
  PROVE  Skips'
<1> SUFFICES ASSUME NEW m \in Node
             PROVE  /\ skip'[m] # {} => kind[m] = "Parallel"
                    /\ at'[m] \in HaltPoints /\ todo'[m] # {} => skip'[m] = {}
                    /\ \A i \in skip'[m] : status'[Child(m, i)] \in Done /\ ~ On(Child(m, i))'
  BY DEF Skips
<1>1. skip'[m] # {} => kind[m] = "Parallel"
  BY DEF Skips
<1>2. at'[m] \in HaltPoints /\ todo'[m] # {} => skip'[m] = {}
  BY DEF Skips
<1>3. ASSUME NEW i \in skip'[m] PROVE status'[Child(m, i)] \in Done /\ ~ On(Child(m, i))'
  <2>1. i \in skip[m] /\ i \in Indices(m)
    BY DEF Inv, TypeOK
  <2>2. Child(m, i) \in Node \ X
    BY <2>1, ChildIsNode
  <2> QED
    BY <2>1, <2>2 DEF Skips
<1> QED
  BY <1>1, <1>2, <1>3

\* Every step keeps the skip lists.
LEMMA NextSkips == ASSUME SkipInv, [Next]_vars PROVE SkipInv'
<1>1. TickInv' /\ TickInv /\ Calls /\ Inv /\ ThreadInv
  BY NextTick DEF SkipInv, TickInv, ThreadInv, Calls
<1>2. /\ at \in [Node -> FramePoints] /\ status \in [Node -> Status] /\ todo \in [Node -> SUBSET Int]
      /\ skip \in [Node -> SUBSET Int] /\ visit \in Seq(Node)
      /\ \A m \in Node : skip[m] \subseteq Indices(m)
  BY <1>1 DEF Inv, TypeOK
<1>3. Skips
  BY DEF SkipInv
<1> DEFINE Ahead == op = "visit" => \A n \in Pending : n # Root => skip[Parent[n]] = {}
<1>4. Ahead
  BY DEF SkipInv
<1> SUFFICES Skips' /\ Ahead'
  BY <1>1 DEF SkipInv
<1>5. ASSUME op' = op, visit' = visit, \A m \in Node : skip'[m] \subseteq skip[m] PROVE Ahead'
  <2> SUFFICES ASSUME op = "visit", NEW n \in Pending, n # Root PROVE skip'[Parent[n]] = {}
    BY <1>5 DEF Pending
  <2>1. n \in Node /\ Parent[n] \in Node
    BY <1>2, TreeAssumption DEF Pending
  <2> QED
    BY <1>4, <1>5, <2>1
<1>6. \A n \in Node : On(n) \/ status[n] \notin Done => \A m \in Node : \A i \in skip[m] : Child(m, i) # n
  BY <1>3 DEF Skips
\* A step that changes the status or the frame of one node only.
<1>7. ASSUME NEW n \in Node, On(n) \/ status[n] \notin Done, UNCHANGED <<kind, skip>>,
             \A m \in Node \ {n} : status'[m] = status[m] /\ at'[m] = at[m] /\ todo'[m] = todo[m],
             at'[n] \in HaltPoints => at'[n] = at[n], todo'[n] \subseteq todo[n]
      PROVE  Skips'
  <2>1. \A m \in Node \ {n} : On(m)' => On(m)
    BY <1>7 DEF On
  <2>2. {n} \in SUBSET Node
    OBVIOUS
  <2>3. \A m \in Node : \A i \in skip'[m] : Child(m, i) \notin {n}
    BY <1>6, <1>7
  <2>4. \A m \in Node : skip'[m] \subseteq skip[m]
    BY <1>7
  <2>5. \A m \in Node : at'[m] \in HaltPoints /\ todo'[m] # {} => at[m] \in HaltPoints /\ todo[m] # {}
    BY <1>7
  <2>6. \A y \in Node \ {n} : status'[y] = status[y] /\ (On(y)' => On(y))
    BY <1>7, <2>1
  <2> QED
    BY <1>1, <1>3, <1>7, <2>2, <2>3, <2>4, <2>5, <2>6, SkipFrame
<1>8. CASE Owner
  <2>1. \A n \in Node : at[n] = "off"
    BY <1>1, <1>8 DEF Owner, TickRoot, TickRootReturn, HaltTree, HaltTreeVisit, VisitNode,
                      HaltTreeReturn, Calls, Stack, Modes, AtRest, On
  <2>2. ASSUME NEW n \in Node, n = Root \/ skip[Parent[n]] = {}, CallHalt(n), UNCHANGED <<kind, status>>
        PROVE  Skips' /\ skip' = [skip EXCEPT ![n] = {}]
    <3>1. \A m \in Node : \A i \in skip[m] : Child(m, i) # n
      BY <1>2, <2>2, ChildFact
    <3>2. skip' = [skip EXCEPT ![n] = {}] /\ at' = [at EXCEPT ![n] = "stop"]
      BY <2>2 DEF CallHalt, ResetMembers
    <3>3. \A m \in Node \ {n} : at'[m] = "off"
      BY <1>2, <2>1, <3>2
    <3>4. \A m \in Node : skip'[m] \subseteq skip[m]
      BY <1>2, <3>2
    <3>5. \A m \in Node : at'[m] \in HaltPoints => skip'[m] = {}
      BY <1>2, <3>2, <3>3 DEF HaltPoints
    <3>6. \A m \in Node : \A i \in skip'[m] : Child(m, i) \notin {n}
      BY <3>1, <3>4
    <3>7. \A y \in Node \ {n} : status'[y] = status[y] /\ (On(y)' => On(y))
      BY <2>2, <3>3 DEF On
    <3>8. {n} \in SUBSET Node
      OBVIOUS
    <3>9. Skips'
      BY <1>1, <1>3, <2>2, <3>4, <3>5, <3>6, <3>7, <3>8, SkipFrame
    <3> QED
      BY <3>2, <3>9
  <2>3. CASE TickRoot
    <3>1. /\ at' = [at EXCEPT ![Root] = "enter"] /\ UNCHANGED <<kind, skip, status, todo, visit>>
      BY <2>3 DEF TickRoot, tree, memory, frame
    <3>2. \A m \in Node : \A i \in skip'[m] : Child(m, i) \notin {Root}
      BY <1>2, <3>1, ChildFact
    <3>3. \A m \in Node : at'[m] \notin HaltPoints
      BY <1>2, <2>1, <3>1 DEF HaltPoints
    <3>4. \A y \in Node \ {Root} : status'[y] = status[y] /\ (On(y)' => On(y))
      BY <1>2, <3>1 DEF On
    <3>5. \A m \in Node : skip'[m] \subseteq skip[m]
      BY <3>1
    <3>6. {Root} \in SUBSET Node
      BY TreeAssumption
    <3> QED
      BY <1>1, <1>3, <2>3, <3>1, <3>2, <3>3, <3>4, <3>5, <3>6, SkipFrame DEF TickRoot
  <2>4. CASE TickRootReturn
    <3>1. UNCHANGED <<kind, skip, at, todo>> /\ \A y \in Node \ {Root} : status'[y] = status[y]
      BY <1>2, <2>4 DEF TickRootReturn, tree, memory, frame
    <3>2. \A m \in Node : \A i \in skip'[m] : Child(m, i) \notin {Root}
      BY <1>2, <3>1, ChildFact
    <3>3. \A y \in Node : On(y)' => On(y)
      BY <3>1 DEF On
    <3>4. {Root} \in SUBSET Node
      BY TreeAssumption
    <3> QED
      BY <1>1, <1>3, <2>4, <3>1, <3>2, <3>3, <3>4, SkipFrame DEF TickRootReturn
  <2>5. CASE HaltTree
    BY <2>2, <2>5, TreeAssumption DEF HaltTree, tree
  <2>6. CASE HaltTreeVisit
    <3>1. UNCHANGED <<kind, skip, at, todo, status>> /\ visit' = <<Root>>
      BY <2>6 DEF HaltTreeVisit, tree, memory, frame
    <3>2. Skips'
      BY <1>3, <3>1 DEF Skips, On
    <3>3. Pending' = {Root}
      BY <3>1 DEF Pending
    <3> QED
      BY <3>2, <3>3
  <2>7. CASE VisitNode
    <3>a. Head(visit) \in Node /\ Tail(visit) \in Seq(Node)
      BY <1>2, <2>7 DEF VisitNode
    <3>1. PICK h \in Node, rest \in Seq(Node) : h = Head(visit) /\ rest = Tail(visit)
      BY <3>a
    <3>2. /\ CallHalt(h) /\ UNCHANGED <<kind, status>> /\ op = "visit" /\ op' = op
          /\ visit' = (IF Descends(h) THEN Children[h] ELSE <<>>) \o rest
          /\ visit # <<>>
      BY <2>7, <3>1 DEF VisitNode, tree
    <3>3. h \in Pending /\ \A k \in 1 .. Len(rest) : rest[k] \in Pending
      <4>1. visit[1] = h /\ 1 \in 1 .. Len(visit)
        BY <1>2, <3>1, <3>2
      <4>2. \A k \in 1 .. Len(rest) : rest[k] = visit[k + 1] /\ k + 1 \in 1 .. Len(visit)
        BY <1>2, <3>1, <3>2
      <4> QED
        BY <4>1, <4>2 DEF Pending
    <3>4. h = Root \/ skip[Parent[h]] = {}
      BY <1>4, <3>2, <3>3
    <3>5. Skips' /\ skip' = [skip EXCEPT ![h] = {}]
      BY <2>2, <3>2, <3>4
    <3>6. \A v \in Pending' : v \in Pending \/ v \in Kids(h)
      <4>1. CASE Descends(h)
        <5>1. Children[h] \in Seq(Node) /\ visit' = Children[h] \o rest
          BY <3>2, <4>1, TreeAssumption
        <5>2. \A k \in 1 .. Len(visit') :
                 \/ k \in 1 .. Len(Children[h]) /\ visit'[k] = Children[h][k]
                 \/ k - Len(Children[h]) \in 1 .. Len(rest) /\ visit'[k] = rest[k - Len(Children[h])]
          BY <5>1
        <5>3. \A k \in 1 .. Len(Children[h]) : k - 1 \in Indices(h) /\ Children[h][k] = Child(h, k - 1)
          BY <5>1 DEF Indices, Count, Child
        <5>4. \A k \in 1 .. Len(visit') : visit'[k] \in Pending \/ visit'[k] \in Kids(h)
          BY <3>3, <5>2, <5>3 DEF Kids
        <5> QED
          BY <5>4 DEF Pending
      <4>2. CASE ~ Descends(h)
        <5>1. visit' = <<>> \o rest
          BY <3>2, <4>2
        <5>2. visit' = rest
          BY <5>1
        <5> QED
          BY <3>3, <5>2 DEF Pending
      <4> QED
        BY <4>1, <4>2
    <3>7. ASSUME NEW v \in Pending', v # Root PROVE skip'[Parent[v]] = {}
      <4>1. CASE v \in Kids(h)
        <5>1. Parent[v] = h
          BY <4>1, ChildFact DEF Kids
        <5> QED
          BY <1>2, <3>5, <5>1
      <4>2. CASE v \in Pending
        <5>2. v \in Node
          BY <1>2, <4>2 DEF Pending
        <5>1. v \in Node /\ Parent[v] \in Node /\ skip[Parent[v]] = {}
          BY <1>4, <3>2, <3>7, <4>2, <5>2, TreeAssumption
        <5> QED
          BY <1>2, <3>5, <5>1
      <4> QED
        BY <3>6, <4>1, <4>2
    <3> QED
      BY <3>5, <3>7
  <2>8. CASE HaltTreeReturn
    <3>1. UNCHANGED <<kind, skip, at, todo, status>> /\ op' = "rest"
      BY <2>8 DEF HaltTreeReturn, tree, memory, frame
    <3> QED
      BY <1>3, <3>1 DEF Skips, On
  <2> QED
    BY <1>8, <2>3, <2>4, <2>5, <2>6, <2>7, <2>8 DEF Owner
<1>9. ASSUME NEW n \in Node, Run(n) PROVE Skips' /\ Ahead'
  <2>1. cur = n /\ On(n)
    BY <1>1, <1>9, TreeAssumption DEF Run, Calls, Stack
  <2>2. CASE ControlTick(n) \/ DecoratorTick(n)
    <3>1. TickShape(n)
      BY <1>1, <2>2, ControlShape, DecoratorShape
    <3>2. op' = "tick"
      BY <1>1, <2>1, <3>1, CallerAwaits DEF TickShape, OnlyOwn, caller
    <3>3. /\ kind' = kind
          /\ \A m \in Node \ {n} : /\ status'[m] = status[m] /\ skip'[m] = skip[m] /\ todo'[m] = todo[m]
      BY <1>2, <3>1 DEF TickShape, OnlyOwn, tree
    <3>4. /\ skip'[n] # {} => kind[n] = "Parallel"
          /\ at'[n] \in HaltPoints /\ todo'[n] # {} => skip'[n] = {}
          /\ \A i \in skip'[n] : i \in skip[n] \/ status[Child(n, i)] \in Done
          /\ \A i \in Indices(n) : TickChild(n, i) => i \notin skip'[n]
      BY <1>1, <1>3, <2>1, <2>2, TickSkips DEF Skips
    <3>5. ASSUME NEW c \in Node \ {n}, On(c)', ~ On(c)
          PROVE  \E i \in Indices(n) : TickChild(n, i) /\ c = Child(n, i)
      BY <1>2, <3>1, <3>5, ChildIsNode DEF TickShape, Moves, TicksChild, TickChild, On
    <3>6. \A m \in Node \ {n} : On(m) => at'[m] = at[m]
      <4>1. \A i \in Indices(n) : ~ On(Child(n, i)) /\ Child(n, i) \in Node
        BY <1>1, <2>1, TopHasNoCallee, ChildIsNode
      <4> QED
        BY <1>2, <3>1, <4>1 DEF TickShape, Moves, TicksChild, TickChild, On
    <3>7. ASSUME NEW m \in Node \ {n} PROVE
             /\ skip'[m] # {} => kind[m] = "Parallel"
             /\ at'[m] \in HaltPoints /\ todo'[m] # {} => skip'[m] = {}
             /\ \A i \in skip'[m] : status'[Child(m, i)] \in Done /\ ~ On(Child(m, i))'
      <4>1. at'[m] \in HaltPoints => at'[m] = at[m]
        BY <1>2, <3>1, ChildIsNode DEF TickShape, Moves, TicksChild, TickChild, HaltPoints
      <4>2. ASSUME NEW i \in skip[m] PROVE status'[Child(m, i)] \in Done /\ ~ On(Child(m, i))'
        <5>1. i \in Indices(m) /\ Child(m, i) \in Node \ {n} /\ Parent[Child(m, i)] = m
          BY <1>2, <1>6, <2>1, ChildFact
        <5>2. ~ On(Child(m, i)) /\ status[Child(m, i)] \in Done
          BY <1>3 DEF Skips
        <5>3. ~ On(Child(m, i))'
          BY <3>5, <5>1, <5>2, ChildFact
        <5> QED
          BY <3>3, <5>1, <5>2, <5>3
      <4> QED
        BY <1>3, <3>3, <4>1, <4>2 DEF Skips
    <3>8. ASSUME NEW i \in skip'[n] PROVE status'[Child(n, i)] \in Done /\ ~ On(Child(n, i))'
      <4>1. i \in Indices(n)
        BY <1>1 DEF TickInv, ThreadInv, Calls, Inv, TypeOK
      <4>2. Child(n, i) \in Node \ {n} /\ ~ On(Child(n, i))
        BY <1>1, <2>1, <4>1, TopHasNoCallee, ChildIsNode
      <4>3. status[Child(n, i)] \in Done
        BY <1>3, <3>4 DEF Skips
      <4>4. ~ On(Child(n, i))'
        BY <3>4, <3>5, <4>1, <4>2, ChildFact
      <4> QED
        BY <3>3, <4>2, <4>3, <4>4
    <3> QED
      BY <3>2, <3>3, <3>4, <3>7, <3>8 DEF Skips
  <2>3. CASE ControlThrow(n) \/ DecoratorThrow(n) \/ SyncThrow(n)
    <3>1. /\ \A m \in Node : at'[m] = "off" /\ todo'[m] = {}
          /\ UNCHANGED <<kind, skip>> /\ op' = "thrown"
          /\ \A m \in Node \ {n} : status'[m] = status[m]
      BY <1>2, <2>3 DEF ControlThrow, DecoratorThrow, SyncThrow, Throw, Unwind, tree, memory
    <3>2. {n} \in SUBSET Node /\ \A m \in Node : \A i \in skip'[m] : Child(m, i) \notin {n}
      BY <1>6, <2>1, <3>1
    <3>3. \A y \in Node \ {n} : status'[y] = status[y] /\ (On(y)' => On(y))
      BY <3>1 DEF On
    <3>4. Skips'
      BY <1>1, <1>3, <3>1, <3>2, <3>3, SkipFrame
    <3> QED
      BY <3>1, <3>4
  <2>4. CASE HaltChild(n)
    <3>1. PICK i \in Indices(n) : i \in todo[n] /\ (HaltsRunning(n, i) \/ SetsIdle(n, i))
      BY <1>1, <2>4, HaltShape
    <3>2. /\ at[n] \in HaltPoints /\ UNCHANGED <<kind, op, visit>>
          /\ Child(n, i) \in Node \ {n} /\ Parent[Child(n, i)] = n
      BY <1>1, <2>4, ChildFact, HaltShape DEF tree, caller
    <3>3. skip[n] = {}
      BY <1>3, <3>1, <3>2 DEF Skips
    <3> DEFINE c == Child(n, i)
    <3>4. /\ c \in Node \ {n} /\ \A m \in Node \ {c} : /\ at'[m] = at[m] /\ status'[m] = status[m]
                                                      /\ skip'[m] = skip[m] /\ todo'[m] \subseteq todo[m]
          /\ skip'[c] \subseteq skip[c]
          /\ at'[c] \in HaltPoints => skip'[c] = {} \/ (at'[c] = at[c] /\ todo'[c] = todo[c])
      <4>1. c \in Node \ {n}
        BY <3>2
      <4> HIDE DEF c
      <4>2. CASE HaltsRunning(n, i)
        BY <1>2, <4>1, <4>2 DEF HaltsRunning, c
      <4>3. CASE SetsIdle(n, i)
        BY <1>2, <4>1, <4>3 DEF SetsIdle, c, memory
      <4> QED
        BY <3>1, <4>1, <4>2, <4>3
    <3> HIDE DEF c
    <3>5. \A m \in Node : skip'[m] \subseteq skip[m]
      BY <3>4
    <3>6. \A m \in Node : \A j \in skip'[m] : Child(m, j) \notin {c}
      <4> SUFFICES ASSUME NEW m \in Node, NEW j \in skip'[m], Child(m, j) = c PROVE FALSE
        OBVIOUS
      <4>1. j \in skip[m] /\ j \in Indices(m)
        BY <1>2, <3>5
      <4>2. m = n
        BY <3>2, <4>1, ChildFact DEF c
      <4> QED
        BY <3>3, <4>1, <4>2
    <3>7. \A y \in Node \ {c} : status'[y] = status[y] /\ (On(y)' => On(y))
      BY <3>4 DEF On
    <3>8. \A m \in Node : at'[m] \in HaltPoints /\ todo'[m] # {} =>
                            skip'[m] = {} \/ (at[m] \in HaltPoints /\ todo[m] # {})
      BY <3>4
    <3>9. {c} \in SUBSET Node
      BY <3>4
    <3> QED
      BY <1>1, <1>3, <1>5, <3>2, <3>5, <3>6, <3>7, <3>8, <3>9, SkipFrame
  <2>5. ASSUME Pop(n), UNCHANGED <<tree, memory, todo, caller>>,
               \A m \in Node \ {n} : (Parent[m] = n /\ kind[n] # "Parallel") \/ status'[m] = status[m]
        PROVE  Skips' /\ Ahead'
    <3> DEFINE X == {n} \cup {m \in Node \ {n} : Parent[m] = n /\ kind[n] # "Parallel"}
    <3>1. /\ kind' = kind /\ skip' = skip /\ todo' = todo /\ op' = op /\ visit' = visit
          /\ \A m \in Node : at'[m] = at[m] \/ at'[m] = "off"
      BY <1>2, <2>5 DEF Pop, tree, memory, caller
    <3>2. \A m \in Node : \A i \in skip'[m] : Child(m, i) \notin X
      <4> SUFFICES ASSUME NEW m \in Node, NEW i \in skip[m], Child(m, i) \in X PROVE FALSE
        BY <3>1
      <4>1. Parent[Child(m, i)] = m /\ Child(m, i) # n
        BY <1>2, <1>6, <2>1, ChildFact
      <4> QED
        BY <1>3, <4>1 DEF Skips
    <3>3. \A y \in Node \ X : status'[y] = status[y] /\ (On(y)' => On(y))
      BY <2>5, <3>1 DEF On
    <3>4. \A m \in Node : at'[m] \in HaltPoints /\ todo'[m] # {} => at[m] \in HaltPoints /\ todo[m] # {}
      BY <3>1 DEF HaltPoints
    <3>5. X \in SUBSET Node
      OBVIOUS
    <3> HIDE DEF X
    <3> QED
      BY <1>1, <1>3, <1>5, <3>1, <3>2, <3>3, <3>4, <3>5, SkipFrame
  <2>6. CASE Halted(n)
    BY <1>2, <2>5, <2>6 DEF Halted
  <2>7. CASE Ticked(n)
    <3>1. CASE kind[n] \in DecoratorKinds
      <4>1. /\ UNCHANGED <<kind, skip, todo, op, visit>> /\ at' = [at EXCEPT ![n] = "reset"]
            /\ \A m \in Node \ {n} : status'[m] = status[m]
        BY <1>2, <2>7, <3>1 DEF Ticked, tree, memory, caller
      <4> QED
        BY <1>2, <1>5, <1>7, <2>1, <4>1 DEF HaltPoints
    <3>2. CASE kind[n] \notin DecoratorKinds
      BY <1>2, <2>5, <2>7, <3>2 DEF Ticked
    <3> QED
      BY <3>1, <3>2
  <2>8. CASE ResetChild(n)
    <3>1. kind[n] \in DecoratorKinds /\ kind[n] # "Parallel"
      BY <1>1, <2>8 DEF ResetChild, Inv, FrameOK, DecoratorKinds, LoopKinds
    <3>2. Child(n, 0) \in Node \ {n} /\ Parent[Child(n, 0)] = n
      BY <1>1, <3>1, Sizes, ChildFact DEF Inv
    <3> QED
      BY <1>2, <2>5, <2>8, <3>1, <3>2 DEF ResetChild
  <2>9. CASE SyncTick(n) \/ StatefulTick(n) \/ AsyncRead(n)
    <3>1. PICK s : Return(n, s)
      BY <2>9 DEF SyncTick, StatefulTick, AsyncRead
    <3> QED
      BY <1>2, <2>5, <3>1 DEF Return
  <2>10. CASE AsyncStart(n)
    <3>1. /\ UNCHANGED <<kind, skip, todo, op, visit>> /\ at' = [at EXCEPT ![n] = "read"]
          /\ \A m \in Node \ {n} : status'[m] = status[m]
      BY <1>2, <2>10 DEF AsyncStart, tree, memory, frame, caller
    <3> QED
      BY <1>2, <1>5, <1>7, <2>1, <3>1 DEF HaltPoints
  <2> QED
    BY <1>9, <2>2, <2>3, <2>4, <2>6, <2>7, <2>8, <2>9, <2>10 DEF Run, LeafTick
<1>10. ASSUME NEW n \in Node, AsyncThread(n) \/ AsyncThreadThrow(n) PROVE Skips' /\ Ahead'
  <2>1. status[n] \notin Done
    BY <1>1, <1>10 DEF AsyncThread, AsyncThreadThrow, ThreadInv, ThreadIsRunning, Done
  <2>2. UNCHANGED <<kind, skip, at, todo, op, visit>> /\ \A m \in Node \ {n} : status'[m] = status[m]
    BY <1>2, <1>10 DEF AsyncThread, AsyncThreadThrow, tree, memory, frame, caller
  <2> QED
    BY <1>5, <1>7, <2>1, <2>2
<1>11. CASE UNCHANGED vars
  <2>1. UNCHANGED <<kind, skip, at, todo, status, op, visit>>
    BY <1>11 DEF vars, tree, memory, frame, caller
  <2> QED
    BY <1>3, <1>5, <2>1 DEF Skips, On
<1> HIDE DEF Ahead
<1> QED
  BY <1>8, <1>9, <1>10, <1>11 DEF Next

\* In every tree, exceptions included, a child in the skip list of a Parallel
\* still has the result it was put there for.
THEOREM SkippedChildrenAreDone == Spec => []SkippedAreDone
<1>1. Init => SkipInv
  <2> SUFFICES ASSUME Init PROVE SkipInv
    OBVIOUS
  <2>1. TickInv
    BY InitTick
  <2>2. \A n \in Node : skip[n] = {}
    BY DEF Init
  <2>3. op = "rest"
    BY DEF Init
  <2> QED
    BY <2>1, <2>2, <2>3 DEF SkipInv, Skips
<1>2. SkipInv /\ [Next]_vars => SkipInv'
  BY NextSkips
<1>3. SkipInv => SkippedAreDone
  BY DEF SkipInv, Skips, SkippedAreDone
<1> QED
  BY <1>1, <1>2, <1>3, PTL DEF Spec

-----------------------------------------------------------------------------
(* RUNNING children.                                                       *)
Runs(n, i) == status[Child(n, i)] = "RUNNING"

\* The members of n will lead its next tick() back to its child i.  With
\* strict, also those of a Switch.
Leads(n, i, strict) ==
  /\ kind[n] \in MemoryKinds => i = idx[n]
  /\ kind[n] \in LoopKinds => idx[n] < param[n] \/ param[n] = -1
  /\ strict /\ kind[n] = "Switch" => i = idx[n]

\* The frame of n has still to halt its child i, or is halting it.
ToHalt(n, i) == i \in todo[n] \/ On(Child(n, i))

\* A RUNNING child i of n is one that n, RUNNING itself, will come back to, or
\* that the frame of n is about to tick, to halt or to report.
Held(n, i, strict) ==
  /\ at[n] \in {"off", "enter", "reset"} => status[n] = "RUNNING"
  /\ at[n] \in {"off", "enter", "reset", "loop"} => Leads(n, i, strict)
  /\ at[n] = "await" => /\ kind[n] \in MemoryKinds => i = idx[n]
                        /\ strict /\ kind[n] = "Switch" => i = loc[n]
  /\ strict /\ at[n] = "switch" => i = loc[n] \/ ToHalt(n, i)
  /\ at[n] = "leave" =>
       \/ /\ out[n] = "RUNNING" /\ Leads(n, i, strict)
          /\ strict /\ kind[n] \in ReactiveKinds => i = loc[n]
       \/ ToHalt(n, i)
  /\ at[n] = "stop" => ToHalt(n, i)

\* A reactive node has one RUNNING child at most, while it has not ticked
\* another one; those it has ticked before the one it awaits have decided.
Alone(n) ==
  /\ at[n] \in {"loop", "await"} => \A i \in Indices(n) : Runs(n, i) => i >= loc[n]
  /\ at[n] \in {"off", "enter", "loop", "await"} =>
       \A i, j \in Indices(n) :
         Runs(n, i) /\ Runs(n, j) => i = j \/ (at[n] = "await" /\ loc[n] \in {i, j})

KidsHeld(n, strict) ==
  /\ \A i \in Indices(n) : Runs(n, i) => Held(n, i, strict)
  /\ kind[n] \in LoopKinds /\ at[n] = "await" => idx[n] < param[n] \/ param[n] = -1
  /\ strict /\ kind[n] \in ReactiveKinds => Alone(n)

\* haltTree() has halted the root when its halt() is over, and then nothing
\* in the tree is RUNNING.
Stopped ==
  /\ op = "halt" => On(Root) \/ status[Root] # "RUNNING"
  /\ op = "visit" => \A n \in Node : status[n] # "RUNNING"

HeldInv(strict) ==
  /\ TickInv /\ Stopped
  /\ \A n \in Node : KidsHeld(n, strict)


\* What holds of the children of a node goes on to hold when its frame stays
\* where it is, or starts a tick, and no child becomes RUNNING, or is left by
\* the one who halts it, other than one the node awaits.
LEMMA StayHeld ==
  ASSUME NEW m \in Node, NEW strict \in BOOLEAN, KidsHeld(m, strict), Inv,
         UNCHANGED <<kind, param>>, idx'[m] = idx[m], loc'[m] = loc[m], out'[m] = out[m],
         todo'[m] = todo[m], at'[m] = at[m] \/ (at[m] = "off" /\ at'[m] = "enter"),
         status[m] = "RUNNING" => status'[m] = "RUNNING",
         \A i \in Indices(m) :
           Runs(m, i)' => \/ Runs(m, i) /\ (On(Child(m, i)) => On(Child(m, i))')
                          \/ Awaits(m, i)
  PROVE  KidsHeld(m, strict)'
<1>1. ASSUME NEW i \in Indices(m), Runs(m, i)' PROVE Held(m, i, strict)'
  <2>1. CASE Runs(m, i) /\ (On(Child(m, i)) => On(Child(m, i))')
    <3>1. Held(m, i, strict)
      BY <2>1 DEF KidsHeld
    <3>2. (ToHalt(m, i) => ToHalt(m, i)') /\ (Leads(m, i, strict)' <=> Leads(m, i, strict))
      BY <2>1 DEF ToHalt, Leads
    <3> QED
      BY <3>1, <3>2 DEF Held
  <2>2. CASE Awaits(m, i)
    <3>1. at[m] = "await" /\ at'[m] = "await"
      BY <2>2 DEF Awaits
    <3>2. kind[m] \in MemoryKinds => i = idx[m]
      BY <2>2 DEF Awaits, AwaitedBy, ControlKinds
    <3>3. kind[m] = "Switch" => i = loc[m]
      BY <2>2 DEF Awaits, AwaitedBy, ControlKinds, MemoryKinds
    <3> QED
      BY <3>1, <3>2, <3>3 DEF Held
  <2> QED
    BY <1>1, <2>1, <2>2
<1>2. kind'[m] \in LoopKinds /\ at'[m] = "await" => idx'[m] < param'[m] \/ param'[m] = -1
  BY DEF KidsHeld
<1>3. ASSUME strict, kind[m] \in ReactiveKinds PROVE Alone(m)'
  <2>1. Alone(m) /\ loc[m] \in Int
    BY <1>3 DEF KidsHeld, Inv, TypeOK
  <2>2. \A i \in Indices(m) : Awaits(m, i) => at[m] = "await" /\ i = loc[m]
    BY <1>3, KindsDiffer DEF Awaits, AwaitedBy, ControlKinds
  <2>3. \A i \in Indices(m) : Runs(m, i)' => Runs(m, i) \/ (at[m] = "await" /\ i = loc[m])
    BY <2>2
  <2>4. at'[m] \in {"loop", "await"} => \A i \in Indices(m) : Runs(m, i)' => i >= loc'[m]
    BY <2>1, <2>3 DEF Alone
  <2>5. at'[m] \in {"off", "enter", "loop", "await"} =>
          \A i, j \in Indices(m) :
            Runs(m, i)' /\ Runs(m, j)' => i = j \/ (at'[m] = "await" /\ loc'[m] \in {i, j})
    BY <2>1, <2>3 DEF Alone
  <2> QED
    BY <2>4, <2>5 DEF Alone
<1> QED
  BY <1>1, <1>2, <1>3 DEF KidsHeld

\* Of a leaf there is nothing to say.
LEMMA LeafHeld ==
  ASSUME Inv, NEW m \in Node, kind[m] \in LeafKinds, NEW strict
  PROVE  KidsHeld(m, strict)
<1>1. Count(m) = 0 /\ kind[m] \notin LoopKinds /\ kind[m] \notin ReactiveKinds
  BY TreesAssumption, KindsDiffer DEF Inv, Fits, DecoratorKinds
<1> QED
  BY <1>1 DEF KidsHeld, Indices

\* A frame that returns leaves no child it should have halted, and is RUNNING
\* itself when a child is.
LEMMA PopHeld ==
  ASSUME TickInv, NEW n \in Node, cur = n, NEW strict \in BOOLEAN, KidsHeld(n, strict),
         UNCHANGED <<kind, param>>, idx'[n] = idx[n], at'[n] \in {"off", "reset"},
         at'[n] = "reset" => kind[n] \in DecoratorKinds,
         \A i \in Indices(n) : Runs(n, i)' => Runs(n, i),
         \/ at[n] \in {"leave", "stop"} /\ todo[n] = {} /\ (at[n] = "leave" => status'[n] = out[n])
         \/ at[n] = "reset" /\ status'[n] = status[n]
  PROVE  KidsHeld(n, strict)'
<1> USE DEF TickInv, ThreadInv, Calls
<1>1. \A i \in Indices(n) : ~ On(Child(n, i))
  BY TopHasNoCallee
<1>2. ASSUME NEW i \in Indices(n), Runs(n, i)'
      PROVE  /\ status'[n] = "RUNNING" /\ Leads(n, i, strict)
             /\ strict /\ kind[n] \in ReactiveKinds => i = loc[n]
  <2>1. Held(n, i, strict) /\ (todo[n] = {} => ~ ToHalt(n, i))
    BY <1>1, <1>2 DEF KidsHeld, ToHalt
  <2>2. at[n] = "reset" => kind[n] \notin ReactiveKinds
    BY KindsDiffer DEF Inv, FrameOK
  <2> QED
    BY <2>1, <2>2 DEF Held
<1>3. ASSUME NEW i \in Indices(n), Runs(n, i)' PROVE Held(n, i, strict)'
  BY <1>2, <1>3 DEF Held, Leads
<1>4. strict /\ kind[n] \in ReactiveKinds => Alone(n)'
  BY <1>2, KindsDiffer DEF Alone
<1> QED
  BY <1>3, <1>4 DEF KidsHeld

\* haltChild() accounts for the child it halts.
LEMMA HaltChildHeld ==
  ASSUME TickInv, NEW n \in Node, NEW strict \in BOOLEAN, KidsHeld(n, strict),
         NEW i \in Indices(n), HaltsRunning(n, i) \/ SetsIdle(n, i), i \in todo[n],
         at[n] \in HaltPoints, UNCHANGED <<kind, param, loc, out>>
  PROVE  KidsHeld(n, strict)' /\ (HaltsRunning(n, i) => KidsHeld(Child(n, i), strict)')
<1> USE DEF TickInv, ThreadInv, Calls, Inv, TypeOK
<1> DEFINE c == Child(n, i)
<1>1. c \in Node \ {n} /\ \A j \in Indices(n) : j # i => Child(n, j) \in Node /\ Child(n, j) # c
  BY ChildFact
<1>2. at'[n] = at[n] /\ idx'[n] = idx[n] /\ todo'[n] = todo[n] \ {i} /\ status'[n] = status[n]
  BY <1>1 DEF HaltsRunning, SetsIdle, memory
<1>3. \A j \in Indices(n) : j # i => (Runs(n, j)' <=> Runs(n, j)) /\ (On(Child(n, j))' <=> On(Child(n, j)))
  BY <1>1 DEF HaltsRunning, SetsIdle, Runs, On
<1>4. Runs(n, i)' => Runs(n, i) /\ On(c)'
  BY <1>1 DEF HaltsRunning, SetsIdle, Runs, On
<1> HIDE DEF c
<1>5. ASSUME NEW j \in Indices(n), Runs(n, j)' PROVE Held(n, j, strict)'
  <2>1. Held(n, j, strict)
    BY <1>3, <1>4, <1>5 DEF KidsHeld
  <2>2. ToHalt(n, j) => ToHalt(n, j)'
    BY <1>2, <1>3, <1>4, <1>5 DEF ToHalt, c
  <2>3. Leads(n, j, strict) => Leads(n, j, strict)'
    BY <1>2 DEF Leads
  <2> QED
    BY <1>2, <2>1, <2>2, <2>3 DEF Held, HaltPoints
<1>6. Alone(n)' /\ at'[n] # "await"
  BY <1>2 DEF Alone, HaltPoints
<1>7. HaltsRunning(n, i) => KidsHeld(c, strict)'
  <2>1. HaltsRunning(n, i) => at'[c] = "stop" /\ todo'[c] = Indices(c)
    BY <1>1 DEF HaltsRunning, c
  <2> QED
    BY <2>1 DEF KidsHeld, Held, ToHalt, Alone
<1> QED
  BY <1>5, <1>6, <1>7 DEF KidsHeld, c

\* What tick() of a node knows of its children: none has a frame, their
\* statuses do not change, and the one it awaits is RUNNING only when it has
\* returned RUNNING.
LEMMA OwnKids ==
  ASSUME TickInv, NEW n \in Node, cur = n, TickShape(n)
  PROVE  /\ kind' = kind /\ param' = param
         /\ Count(n) \in Nat /\ Indices(n) = 0 .. Count(n) - 1
         /\ \A i \in Indices(n) :
              /\ Runs(n, i)' <=> Runs(n, i)
              /\ ToHalt(n, i) <=> i \in todo[n]
              /\ Awaits(n, i) /\ Runs(n, i) => got[Child(n, i)] = "RUNNING"
<1> USE DEF TickInv, ThreadInv, Calls
<1>1. kind' = kind /\ param' = param
  BY DEF TickShape, OnlyOwn, tree
<1>2. Count(n) \in Nat /\ Indices(n) = 0 .. Count(n) - 1
  BY Sizes DEF Inv, Indices
<1>3. ASSUME NEW i \in Indices(n)
      PROVE  /\ Runs(n, i)' <=> Runs(n, i)
             /\ ToHalt(n, i) <=> i \in todo[n]
             /\ Awaits(n, i) /\ Runs(n, i) => got[Child(n, i)] = "RUNNING"
  <2>1. ~ On(Child(n, i)) /\ Child(n, i) \in Node \ {n}
    BY TopHasNoCallee, ChildIsNode
  <2>2. Runs(n, i)' <=> Runs(n, i)
    BY <2>1 DEF TickShape, OnlyOwn, Runs, Inv, TypeOK
  <2>3. Awaits(n, i) => AsReturned(Child(n, i))
    BY <2>1 DEF Returned
  <2> QED
    BY <2>1, <2>2, <2>3 DEF ToHalt, AsReturned, Runs
<1> QED
  BY <1>1, <1>2, <1>3

\* A Sequence, Fallback or SequenceStar: the RUNNING child is the one the
\* index names.
LEMMA MemoryHeld ==
  ASSUME TickInv, NEW n \in Node, cur = n, TickShape(n), NEW strict \in BOOLEAN,
         KidsHeld(n, strict), kind[n] \in MemoryKinds, NEW go \in Done, NEW stop \in Done,
         NEW Rest, NEW left, MemoryTick(n, go, stop, Rest, left)
  PROVE  KidsHeld(n, strict)'
<1> USE DEF TickInv, ThreadInv, Calls, Inv, TypeOK
<1>1. kind' = kind /\ kind[n] \notin LoopKinds \cup ReactiveKinds \cup {"Switch"}
  BY OwnKids, KindsDiffer DEF DecoratorKinds
<1>2. ASSUME NEW i \in Indices(n), Runs(n, i)'
      PROVE  /\ Runs(n, i) /\ at[n] \in {"enter", "loop", "await"} /\ i = idx[n] /\ i < Count(n)
             /\ at[n] = "await" => got[Child(n, idx[n])] = "RUNNING"
  <2>1. Runs(n, i) /\ Held(n, i, strict) /\ i < Count(n) /\ at[n] \in {"enter", "loop", "await"}
    BY <1>2, OwnKids
    DEF KidsHeld, MemoryTick, MemoryEnter, MemoryRunning, MemoryGo, MemoryStop, MemoryDone
  <2>2. i = idx[n]
    BY <2>1 DEF Held, Leads
  <2>3. at[n] = "await" => Awaits(n, i)
    BY <2>2 DEF Awaits, AwaitedBy
  <2> QED
    BY <2>1, <2>2, <2>3, OwnKids
<1>3. ASSUME NEW i \in Indices(n), Runs(n, i)' PROVE Held(n, i, strict)'
  <2>1. CASE MemoryEnter(n)
    BY <1>1, <1>2, <1>3, <2>1 DEF MemoryEnter, Held, Leads
  <2>2. CASE MemoryRunning(n)
    BY <1>1, <1>2, <1>3, <2>2 DEF MemoryRunning, Leave, Held, Leads
  <2>3. CASE MemoryGo(n, go) \/ MemoryStop(n, stop, Rest, left)
    BY <1>2, <1>3, <2>3 DEF MemoryGo, MemoryStop, Done
  <2>4. CASE MemoryDone(n, go)
    BY <1>2, <1>3, <2>4 DEF MemoryDone
  <2>5. CASE at[n] = "loop" /\ TickChild(n, idx[n]) /\ idx[n] < Count(n) /\ UNCHANGED idx
    <3>1. Child(n, idx[n]) # n
      BY <1>2, <1>3, ChildIsNode
    <3>2. at'[n] = "await"
      BY <2>5, <3>1 DEF TickChild
    <3> QED
      BY <1>1, <1>2, <1>3, <2>5, <3>2 DEF Held
  <2> QED
    BY <2>1, <2>2, <2>3, <2>4, <2>5 DEF MemoryTick
<1> QED
  BY <1>1, <1>3 DEF KidsHeld

\* A ReactiveSequence or ReactiveFallback: the children before the loop index
\* have decided, and the others are halted when one is RUNNING.
LEMMA ReactiveHeld ==
  ASSUME TickInv, NEW n \in Node, cur = n, TickShape(n), NEW strict \in BOOLEAN,
         KidsHeld(n, strict), kind[n] \in ReactiveKinds, NEW go \in Done, NEW stop \in Done,
         ReactiveTick(n, go, stop)
  PROVE  KidsHeld(n, strict)'
<1> USE DEF TickInv, ThreadInv, Calls, Inv, TypeOK
<1>1. kind' = kind /\ kind[n] \notin MemoryKinds \cup LoopKinds \cup {"Switch"}
  BY OwnKids, KindsDiffer DEF DecoratorKinds
<1>2. loc[n] \in 0 .. Count(n) /\ \A i \in Indices(n) : i \in 0 .. Count(n) - 1
  BY OwnKids
<1>3. \A i \in Indices(n) : (Runs(n, i)' <=> Runs(n, i)) /\ (i \in todo'[n] => ToHalt(n, i)')
  BY OwnKids DEF ToHalt
<1>4. strict => Alone(n)
  BY DEF KidsHeld
<1>5. at[n] = "await" => loc[n] < Count(n) /\ (Runs(n, loc[n]) => got[Child(n, loc[n])] = "RUNNING")
  <2>1. at[n] = "await" => loc[n] \in Indices(n)
    BY OwnKids DEF FrameOK
  <2>2. at[n] = "await" => Awaits(n, loc[n])
    BY <1>1 DEF Awaits, AwaitedBy
  <2> QED
    BY <2>1, <2>2, OwnKids
\* A RUNNING child has not been passed, and is alone with the awaited one.
<1>6. ASSUME strict, NEW i \in Indices(n), Runs(n, i), at[n] \in {"loop", "await"}
      PROVE  i >= loc[n]
  BY <1>4, <1>6 DEF Alone
<1>7. CASE at[n] = "enter" /\ loc' = [loc EXCEPT ![n] = 0] /\ at' = [at EXCEPT ![n] = "loop"]
  <2>1. \A i \in Indices(n) : Runs(n, i)' => Held(n, i, strict)'
    BY <1>1, <1>7 DEF Held, Leads
  <2>2. strict => Alone(n)'
    BY <1>2, <1>3, <1>4, <1>7 DEF Alone
  <2> QED
    BY <1>1, <1>7, <2>1, <2>2 DEF KidsHeld
<1>8. CASE at[n] = "loop" /\ loc[n] < Count(n) /\ TickChild(n, loc[n]) /\ UNCHANGED <<loc, todo, out>>
  <2>1. at'[n] = "await"
    <3>1. Child(n, loc[n]) # n
      BY <1>2, <1>8, OwnKids, ChildIsNode
    <3> QED
      BY <1>8, <3>1 DEF TickChild
  <2>2. \A i \in Indices(n) : Runs(n, i)' => Held(n, i, strict)'
    BY <1>1, <2>1 DEF Held
  <2>3. strict => Alone(n)'
    BY <1>3, <1>4, <1>8, <2>1 DEF Alone
  <2> QED
    BY <1>1, <2>1, <2>2, <2>3 DEF KidsHeld
<1>9. ASSUME NEW s, Leave(n, s, Indices(n)) PROVE KidsHeld(n, strict)'
  <2>1. at'[n] = "leave" /\ todo'[n] = Indices(n)
    BY <1>9 DEF Leave
  <2> QED
    BY <1>3, <2>1 DEF KidsHeld, Held, Alone
<1>10. CASE /\ at[n] = "await" /\ got[Child(n, loc[n])] = "RUNNING"
            /\ Leave(n, "RUNNING", loc[n] + 1 .. Count(n) - 1) /\ UNCHANGED loc
  <2>1. at'[n] = "leave" /\ todo'[n] = loc[n] + 1 .. Count(n) - 1 /\ out'[n] = "RUNNING" /\ loc' = loc
    BY <1>10 DEF Leave
  <2>2. ASSUME NEW i \in Indices(n), Runs(n, i)' PROVE Held(n, i, strict)'
    <3>1. Leads(n, i, strict)'
      BY <1>1 DEF Leads
    <3>2. strict => i = loc[n] \/ i \in todo'[n]
      BY <1>2, <1>3, <1>6, <1>10, <2>1, <2>2
    <3> QED
      BY <1>3, <2>1, <3>1, <3>2 DEF Held
  <2> QED
    BY <1>1, <2>1, <2>2 DEF KidsHeld, Alone
<1>11. CASE /\ at[n] = "await" /\ got[Child(n, loc[n])] = go
            /\ loc' = [loc EXCEPT ![n] = @ + 1] /\ at' = [at EXCEPT ![n] = "loop"]
  <2>1. at'[n] = "loop" /\ loc'[n] = loc[n] + 1 /\ ~ Runs(n, loc[n])
    BY <1>5, <1>11 DEF Done
  <2>2. \A i \in Indices(n) : Runs(n, i)' => Held(n, i, strict)'
    BY <1>1, <2>1 DEF Held, Leads
  <2>3. strict => Alone(n)'
    <3> SUFFICES ASSUME strict PROVE Alone(n)'
      OBVIOUS
    <3>1. \A i \in Indices(n) : Runs(n, i)' => i >= loc[n] + 1
      BY <1>2, <1>3, <1>6, <1>11, <2>1
    <3>2. \A i, j \in Indices(n) : Runs(n, i)' /\ Runs(n, j)' => i = j
      BY <1>2, <1>3, <1>4, <1>11, <2>1 DEF Alone
    <3> QED
      BY <2>1, <3>1, <3>2 DEF Alone
  <2> QED
    BY <1>1, <2>1, <2>2, <2>3 DEF KidsHeld
<1> QED
  BY <1>7, <1>8, <1>9, <1>10, <1>11 DEF ReactiveTick, ReactiveStop

\* A Parallel returns RUNNING, or halts all its children.
LEMMA ParallelHeld ==
  ASSUME TickInv, NEW n \in Node, cur = n, TickShape(n), NEW strict \in BOOLEAN,
         KidsHeld(n, strict), ParallelTick(n)
  PROVE  KidsHeld(n, strict)'
<1> USE DEF TickInv, ThreadInv, Calls, Inv, TypeOK
<1>1. /\ kind' = kind /\ kind[n] = "Parallel"
      /\ kind[n] \notin MemoryKinds \cup LoopKinds \cup ReactiveKinds \cup {"Switch"}
  BY OwnKids DEF ParallelTick, MemoryKinds, LoopKinds, ReactiveKinds
<1>2. \A i \in Indices(n) : (Runs(n, i)' <=> Runs(n, i)) /\ (i \in todo'[n] => ToHalt(n, i)')
  BY OwnKids DEF ToHalt
<1>3. \A i \in Indices(n) : Leads(n, i, strict)'
  BY <1>1 DEF Leads
<1>4. ASSUME at'[n] \in {"loop", "await"} PROVE KidsHeld(n, strict)'
  BY <1>1, <1>3, <1>4 DEF KidsHeld, Held
<1>5. ASSUME NEW s, NEW H, Leave(n, s, H), s = "RUNNING" \/ H = Indices(n)
      PROVE  KidsHeld(n, strict)'
  <2>1. at'[n] = "leave" /\ todo'[n] = H /\ out'[n] = s
    BY <1>5 DEF Leave
  <2> QED
    BY <1>1, <1>2, <1>3, <1>5, <2>1 DEF KidsHeld, Held
<1>6. ASSUME NEW s, ParallelCount(n, s) PROVE KidsHeld(n, strict)'
  BY <1>4, <1>5, <1>6 DEF ParallelCount, ParallelDecide
<1>7. CASE at[n] = "loop" /\ loc[n] < Count(n) /\ TickChild(n, loc[n])
  <2>1. loc[n] \in Indices(n)
    BY <1>7, OwnKids
  <2> QED
    BY <1>4, <1>7, <2>1, ChildIsNode DEF TickChild
<1> QED
  BY <1>4, <1>5, <1>6, <1>7 DEF ParallelTick

\* A Switch halts the child it ran last when it selects another one.
LEMMA SwitchHeld ==
  ASSUME TickInv, NEW n \in Node, cur = n, TickShape(n), NEW strict \in BOOLEAN,
         KidsHeld(n, strict), SwitchTick(n)
  PROVE  KidsHeld(n, strict)'
<1> USE DEF TickInv, ThreadInv, Calls, Inv, TypeOK
<1>1. /\ kind' = kind /\ kind[n] = "Switch"
      /\ kind[n] \notin MemoryKinds \cup LoopKinds \cup ReactiveKinds
  BY OwnKids DEF SwitchTick, MemoryKinds, LoopKinds, ReactiveKinds
<1>2. \A i \in Indices(n) : /\ (Runs(n, i)' <=> Runs(n, i)) /\ (i \in todo'[n] => ToHalt(n, i)')
                            /\ ToHalt(n, i) => i \in todo[n]
                            /\ i \in 0 .. Count(n) - 1
  BY OwnKids DEF ToHalt
<1>3. ASSUME NEW i \in Indices(n), Runs(n, i)' PROVE Held(n, i, strict)
  BY <1>2, <1>3 DEF KidsHeld
<1>4. SUFFICES ASSUME NEW i \in Indices(n), Runs(n, i)' PROVE Held(n, i, strict)'
  BY <1>1 DEF KidsHeld
<1>5. CASE SwitchEnter(n)
  <2>1. PICK selected \in Indices(n) :
          /\ loc' = [loc EXCEPT ![n] = selected]
          /\ todo' = [todo EXCEPT ![n] = {idx[n]} \ {-1, selected}]
    BY <1>5 DEF SwitchEnter
  <2>2. at[n] = "enter" /\ at'[n] = "switch" /\ loc'[n] = selected /\ todo'[n] = {idx[n]} \ {-1, selected}
    BY <1>5, <2>1 DEF SwitchEnter
  <2>3. strict => i = idx[n] /\ i # -1
    BY <1>1, <1>2, <1>3, <1>4, <2>2 DEF Held, Leads
  <2>4. strict => i = loc'[n] \/ ToHalt(n, i)'
    BY <1>2, <2>2, <2>3
  <2> QED
    BY <2>2, <2>4 DEF Held
<1>6. CASE at[n] = "switch" /\ todo[n] = {} /\ TickChild(n, loc[n]) /\ UNCHANGED <<idx, loc, todo, out>>
  <2>1. loc[n] \in Indices(n)
    BY <1>1, <1>6, OwnKids DEF FrameOK
  <2>2. at'[n] = "await" /\ loc' = loc
    BY <1>6, <2>1, ChildIsNode DEF TickChild
  <2>3. strict => i = loc[n]
    BY <1>2, <1>3, <1>4, <1>6 DEF Held
  <2> QED
    BY <1>1, <2>2, <2>3 DEF Held
<1>7. CASE /\ at[n] = "await" /\ Leave(n, "RUNNING", {}) /\ idx' = [idx EXCEPT ![n] = loc[n]]
  <2>1. at'[n] = "leave" /\ out'[n] = "RUNNING" /\ idx'[n] = loc[n]
    BY <1>7 DEF Leave
  <2>2. strict => i = loc[n]
    BY <1>1, <1>3, <1>4, <1>7 DEF Held
  <2> QED
    BY <1>1, <2>1, <2>2 DEF Held, Leads
<1>8. ASSUME NEW s, Leave(n, s, Indices(n)) PROVE Held(n, i, strict)'
  <2>1. at'[n] = "leave" /\ todo'[n] = Indices(n)
    BY <1>8 DEF Leave
  <2> QED
    BY <1>2, <2>1 DEF Held
<1> QED
  BY <1>5, <1>6, <1>7, <1>8 DEF SwitchTick

\* A decorator reports RUNNING of a child that is.
LEMMA DecoratorHeld ==
  ASSUME TickInv, NEW n \in Node, cur = n, TickShape(n), NEW strict \in BOOLEAN,
         KidsHeld(n, strict), DecoratorTick(n)
  PROVE  KidsHeld(n, strict)'
<1> USE DEF TickInv, ThreadInv, Calls, Inv, TypeOK
<1>0. kind' = kind /\ param' = param /\ kind[n] \in DecoratorKinds
  BY OwnKids, DecoratorShape
<1>1. kind[n] \notin ControlKinds \cup MemoryKinds \cup ReactiveKinds \cup {"Switch"}
  BY <1>0, KindsDiffer DEF ControlKinds
<1>2. Indices(n) = {0} /\ Child(n, 0) \in Node \ {n}
  <2>1. Count(n) = 1 /\ 0 \in Indices(n)
    BY <1>0, Sizes
  <2> QED
    BY <2>1, ChildIsNode DEF Indices
<1>3. (Runs(n, 0)' <=> Runs(n, 0)) /\ (0 \in todo'[n] => ToHalt(n, 0)')
  BY <1>2, OwnKids DEF ToHalt
<1>4. at[n] = "await" /\ Runs(n, 0) => got[Child(n, 0)] = "RUNNING"
  BY <1>1, <1>2, OwnKids DEF Awaits
<1> DEFINE Again == idx'[n] < param[n] \/ param[n] = -1
<1>5. SUFFICES /\ Runs(n, 0) => Held(n, 0, strict)'
               /\ kind[n] \in LoopKinds /\ at'[n] = "await" => Again
  BY <1>0, <1>1, <1>2, <1>3 DEF KidsHeld
<1>6. kind[n] \notin LoopKinds \/ Again => Leads(n, 0, strict)'
  BY <1>0, <1>1 DEF Leads
\* A frame that goes on to its child, or reports its result.
<1>7. ASSUME TickChild(n, 0), kind[n] \in LoopKinds => Again
      PROVE  /\ Runs(n, 0) => Held(n, 0, strict)'
             /\ kind[n] \in LoopKinds /\ at'[n] = "await" => Again
  <2>1. at'[n] = "await"
    BY <1>2, <1>7 DEF TickChild
  <2> QED
    BY <1>0, <1>1, <1>7, <2>1 DEF Held
<1>8. ASSUME NEW s, NEW H, Leave(n, s, H),
             Runs(n, 0) => 0 \in H \/ (s = "RUNNING" /\ (kind[n] \in LoopKinds => Again))
      PROVE  /\ Runs(n, 0) => Held(n, 0, strict)'
             /\ kind[n] \in LoopKinds /\ at'[n] = "await" => Again
  <2>1. at'[n] = "leave" /\ todo'[n] = H /\ out'[n] = s
    BY <1>8 DEF Leave
  <2> QED
    BY <1>0, <1>1, <1>3, <1>6, <1>8, <2>1 DEF Held
<1>9. ASSUME NEW result, Translate(n, result), result["RUNNING"] = "RUNNING", kind[n] \notin LoopKinds
      PROVE  /\ Runs(n, 0) => Held(n, 0, strict)'
             /\ kind[n] \in LoopKinds /\ at'[n] = "await" => Again
  <2> HIDE DEF Again
  <2>1. CASE TickChild(n, 0)
    BY <1>7, <1>9, <2>1
  <2>2. CASE at[n] = "await" /\ Leave(n, result[got[Child(n, 0)]], {})
    BY <1>4, <1>8, <1>9, <2>2
  <2> QED
    BY <1>9, <2>1, <2>2 DEF Translate
<1>10. CASE InverterTick(n) \/ ForceSuccessTick(n) \/ ForceFailureTick(n)
  <2>1. /\ InverterResult["RUNNING"] = "RUNNING" /\ ForceSuccessResult["RUNNING"] = "RUNNING"
        /\ ForceFailureResult["RUNNING"] = "RUNNING"
    BY DEF InverterResult, ForceSuccessResult, ForceFailureResult, Status, Done
  <2>2. kind[n] \notin LoopKinds
    BY <1>10 DEF InverterTick, ForceSuccessTick, ForceFailureTick, LoopKinds
  <2> HIDE DEF Again
  <2> QED
    BY <1>9, <1>10, <2>1, <2>2 DEF InverterTick, ForceSuccessTick, ForceFailureTick
<1>11. CASE SubTreeTick(n) \/ BlackboardCheckTick(n)
  <2>1. kind[n] \notin LoopKinds
    BY <1>11 DEF SubTreeTick, BlackboardCheckTick, LoopKinds
  <2> HIDE DEF Again
  <2>2. CASE TickChild(n, 0)
    BY <1>7, <2>1, <2>2
  <2>3. CASE at[n] = "await" /\ Leave(n, got[Child(n, 0)], {})
    BY <1>4, <1>8, <2>1, <2>3
  <2>4. CASE BlackboardRefuse(n)
    BY <1>8, <2>1, <2>4 DEF BlackboardRefuse, Runs
  <2> QED
    BY <1>11, <2>2, <2>3, <2>4 DEF SubTreeTick, BlackboardCheckTick
\* Repeat and Retry tick a child that is RUNNING once more at least.
<1>12. ASSUME NEW go \in Done, NEW stop \in Done, LoopTick(n, go, stop), kind[n] \in LoopKinds
       PROVE  /\ Runs(n, 0) => Held(n, 0, strict)'
              /\ kind[n] \in LoopKinds /\ at'[n] = "await" => Again
  <2>1. Runs(n, 0) /\ at[n] \in {"enter", "loop", "await"} => idx[n] < param[n] \/ param[n] = -1
    BY <1>2, <1>12 DEF KidsHeld, Held, Leads
  <2>2. CASE at[n] = "enter" /\ at' = [at EXCEPT ![n] = "loop"] /\ UNCHANGED idx
    BY <1>6, <2>1, <2>2 DEF Held
  <2>3. CASE /\ at[n] = "loop" /\ (idx[n] < param[n] \/ param[n] = -1)
             /\ TickChild(n, 0) /\ UNCHANGED idx
    BY <1>7, <2>3
  <2>4. CASE at[n] = "loop" /\ idx[n] >= param[n] /\ param[n] # -1 /\ Leave(n, go, {})
    <3>1. ~ Runs(n, 0)
      BY <2>1, <2>4
    <3> QED
      BY <1>8, <2>4, <3>1
  <2>5. CASE LoopAgain(n, go)
    <3>1. ~ Runs(n, 0) /\ at'[n] = "loop"
      BY <1>4, <2>5 DEF LoopAgain, Done
    <3> QED
      BY <3>1
  <2>6. CASE at[n] = "await" /\ got[Child(n, 0)] = stop /\ Leave(n, stop, {})
    <3>1. ~ Runs(n, 0)
      BY <1>4, <2>6 DEF Done
    <3> QED
      BY <1>8, <2>6, <3>1
  <2>7. CASE at[n] = "await" /\ Leave(n, "RUNNING", {}) /\ UNCHANGED idx
    BY <1>8, <2>1, <2>7
  <2> QED
    BY <1>12, <2>2, <2>3, <2>4, <2>5, <2>6, <2>7 DEF LoopTick
<1>13. CASE RepeatTick(n) \/ RetryTick(n)
  BY <1>12, <1>13 DEF RepeatTick, RetryTick, LoopKinds, Done
<1> QED
  BY <1>10, <1>11, <1>13 DEF DecoratorTick

\* Every piece of a tick() keeps what holds of the node's children.
LEMMA TickHeld ==
  ASSUME TickInv, NEW n \in Node, cur = n, ControlTick(n) \/ DecoratorTick(n),
         NEW strict \in BOOLEAN, KidsHeld(n, strict)
  PROVE  KidsHeld(n, strict)'
<1>1. TickShape(n)
  BY ControlShape, DecoratorShape DEF TickInv, ThreadInv, Calls
<1>2. ASSUME kind[n] \in MemoryKinds, NEW go \in Done, NEW stop \in Done, NEW Rest, NEW left,
             MemoryTick(n, go, stop, Rest, left)
      PROVE  KidsHeld(n, strict)'
  BY <1>1, <1>2, MemoryHeld
<1>3. CASE SequenceTick(n) \/ FallbackTick(n) \/ SequenceStarTick(n)
  <2>1. kind[n] \in MemoryKinds
    BY <1>3 DEF SequenceTick, FallbackTick, SequenceStarTick, MemoryKinds
  <2> QED
    BY <1>2, <1>3, <2>1 DEF SequenceTick, FallbackTick, SequenceStarTick, Done
<1>4. CASE ReactiveSequenceTick(n) \/ ReactiveFallbackTick(n)
  <2>1. kind[n] \in ReactiveKinds
    BY <1>4 DEF ReactiveSequenceTick, ReactiveFallbackTick, ReactiveKinds
  <2>2. \E go, stop \in Done : ReactiveTick(n, go, stop)
    BY <1>4 DEF ReactiveSequenceTick, ReactiveFallbackTick, Done
  <2> QED
    BY <1>1, <2>1, <2>2, ReactiveHeld
<1>5. CASE ParallelTick(n)
  BY <1>1, <1>5, ParallelHeld
<1>6. CASE SwitchTick(n)
  BY <1>1, <1>6, SwitchHeld
<1>7. CASE DecoratorTick(n)
  BY <1>1, <1>7, DecoratorHeld
<1> QED
  BY <1>3, <1>4, <1>5, <1>6, <1>7 DEF ControlTick

\* While the owner halts the tree no node becomes RUNNING, and when halt() of
\* the root has returned none is.
LEMMA NextStopped ==
  ASSUME NEW strict \in BOOLEAN, HeldInv(strict), [Next]_vars
  PROVE  Stopped'
<1> USE DEF HeldInv, TickInv, ThreadInv
<1>1. Calls /\ at \in [Node -> FramePoints] /\ status \in [Node -> Status]
  BY DEF Calls, Inv, TypeOK
<1>2. ASSUME op' = op, \A m \in Node : status'[m] = "RUNNING" => status[m] = "RUNNING",
             On(Root) => On(Root)' \/ status'[Root] # "RUNNING"
      PROVE  Stopped'
  BY <1>2, TreeAssumption DEF Stopped
<1>3. CASE Owner
  <2>1. CASE HaltTree
    BY <1>1, <2>1, TreeAssumption DEF HaltTree, CallHalt, Stopped, On
  <2>2. CASE HaltTreeVisit
    <3>1. \A n \in Node : ~ On(n)
      BY <1>1, <2>2 DEF HaltTreeVisit, Calls, Stack
    <3>2. status[Root] # "RUNNING"
      BY <2>2, <3>1, TreeAssumption DEF HaltTreeVisit, Stopped
    <3> DEFINE S == {n \in Node : status[n] # "RUNNING"}
    <3>3. ASSUME NEW c \in Node \ {Root}, Parent[c] \in S PROVE c \in S
      <4>1. PICK i \in Indices(Parent[c]) : c = Child(Parent[c], i)
        BY TreeAssumption DEF Kids
      <4>2. Parent[c] \in Node /\ at[Parent[c]] = "off"
        BY <3>1, TreeAssumption DEF On
      <4>3. KidsHeld(Parent[c], strict)
        BY <4>2
      <4> QED
        BY <3>3, <4>1, <4>2, <4>3 DEF KidsHeld, Runs, Held
    <3>4. S = Node
      <4>1. Root \in S /\ S \in SUBSET Node
        BY <3>2, TreeAssumption
      <4> HIDE DEF S
      <4> QED
        BY <3>3, <4>1, DownFromRoot
    <3>5. \A n \in Node : status[n] # "RUNNING"
      BY <3>4
    <3> QED
      BY <2>2, <3>5 DEF HaltTreeVisit, Stopped
  <2>3. CASE VisitNode
    BY <1>2, <2>3, <1>1 DEF VisitNode, Stopped, Calls, Stack
  <2>4. CASE TickRoot \/ TickRootReturn \/ HaltTreeReturn
    BY <2>4 DEF TickRoot, TickRootReturn, HaltTreeReturn, Stopped
  <2> QED
    BY <1>3, <2>1, <2>2, <2>3, <2>4 DEF Owner
<1>4. ASSUME NEW n \in Node, Run(n) PROVE Stopped'
  <2>1. cur = n /\ On(n)
    BY <1>1, <1>4, TreeAssumption DEF Run, Calls, Stack
  <2>2. CASE at[n] # "stop" /\ op' \in {"tick", "thrown"}
    BY <2>2 DEF Stopped
  <2>3. CASE at[n] # "stop" /\ op' \notin {"tick", "thrown"}
    <3>1. op = "tick"
      BY <1>1, <2>1, <2>3, CallerAwaits
    <3>2. op' = op \/ op' = "thrown"
      BY <1>4 DEF Run, ControlTick, DecoratorTick, LeafTick, ControlThrow, DecoratorThrow, Throw, Unwind,
                  SyncTick, SyncThrow, StatefulTick, AsyncStart, AsyncRead, Return, HaltChild, Halted,
                  Ticked, ResetChild, caller
    <3> QED
      BY <2>3, <3>1, <3>2
  <2>4. CASE at[n] = "stop"
    <3>1. CASE Halted(n)
      <4>1. /\ op' = op /\ Pop(n) /\ status' = [status EXCEPT ![n] = "IDLE"]
        BY <3>1 DEF Halted, caller
      <4>2. \A m \in Node \ {n} : On(m)' <=> On(m)
        BY <1>1, <4>1 DEF Pop, On
      <4> QED
        BY <1>1, <1>2, <4>1, <4>2, TreeAssumption
    <3>2. CASE HaltChild(n)
      <4>1. PICK i \in Indices(n) : HaltsRunning(n, i) \/ SetsIdle(n, i)
        BY <1>1, <3>2, HaltShape DEF Calls
      <4>2. Child(n, i) \in Node /\ op' = op
        BY <1>1, <3>2, ChildIsNode, HaltShape DEF Calls, caller
      <4>3. \A m \in Node : status'[m] = "RUNNING" => status[m] = "RUNNING"
        BY <1>1, <4>1, <4>2 DEF HaltsRunning, SetsIdle
      <4>4. \A m \in Node : On(m) => On(m)'
        BY <1>1, <4>1, <4>2 DEF HaltsRunning, SetsIdle, On
      <4> QED
        BY <1>2, <4>2, <4>3, <4>4, TreeAssumption
    <3>3. Halted(n) \/ HaltChild(n)
      <4>1. ~ (ControlTick(n) \/ DecoratorTick(n))
        BY <1>1, <2>4, ControlShape, DecoratorShape DEF TickShape, Calls
      <4> QED
        BY <1>4, <2>4, <4>1 DEF Run, LeafTick, ControlThrow, DecoratorThrow, SyncTick, SyncThrow,
                          StatefulTick, AsyncStart, AsyncRead, Ticked, ResetChild
    <3> QED
      BY <3>1, <3>2, <3>3
  <2> QED
    BY <2>2, <2>3, <2>4
<1>5. ASSUME NEW n \in Node, AsyncThread(n) \/ AsyncThreadThrow(n) PROVE Stopped'
  BY <1>1, <1>2, <1>5 DEF AsyncThread, AsyncThreadThrow, Done, On, caller
<1>6. CASE UNCHANGED vars
  BY <1>2, <1>6 DEF vars, caller, On
<1> QED
  BY <1>3, <1>4, <1>5, <1>6 DEF Next

\* The exceptions this holds for pass only nodes that are RUNNING by then.  A
\* Parallel, a reactive node, a Switch or a SubTree ticked while it holds a
\* result need not be: it never sets itself RUNNING before it ticks a child.
\* With strict, they pass no reactive node and no Switch.
UnwindsRunning(strict) ==
  op # "thrown" /\ op' = "thrown" =>
    \A n \in Node : at[n] = "await" =>
      status[n] = "RUNNING" /\ (strict => kind[n] \notin ReactiveKinds \cup {"Switch"})

\* An exception leaves every RUNNING child below a RUNNING parent.
LEMMA ThrowHeld ==
  ASSUME TickInv, NEW n \in Node, cur = n, NEW strict \in BOOLEAN,
         \A m \in Node : KidsHeld(m, strict),
         ControlThrow(n) \/ DecoratorThrow(n) \/ SyncThrow(n), UnwindsRunning(strict)
  PROVE  \A m \in Node : KidsHeld(m, strict)'
<1> USE DEF TickInv, ThreadInv
<1>1. Calls /\ Inv /\ at \in [Node -> FramePoints] /\ status \in [Node -> Status]
  BY DEF Calls, Inv, TypeOK
<1>2. Unwind /\ at[n] \in {"enter", "await"} /\ (UNCHANGED status \/ SyncThrow(n))
  BY DEF ControlThrow, DecoratorThrow, SyncThrow, Throw
<1>3. /\ kind' = kind /\ param' = param /\ idx' = idx /\ op' = "thrown"
      /\ \A m \in Node : at'[m] = "off"
  BY <1>2 DEF Unwind, tree, memory
<1>4. On(n) /\ op = "tick"
  BY <1>1, <1>2, CallerAwaits DEF On
<1>5. ASSUME NEW m \in Node
      PROVE  at[m] \in {"off", "enter"} \/
             (at[m] = "await" /\ status[m] = "RUNNING"
              /\ (strict => kind[m] \notin ReactiveKinds \cup {"Switch"}))
  <2>1. On(m) /\ m # n => at[m] = "await"
    <3> SUFFICES ASSUME On(m), m # n PROVE at[m] = "await"
      OBVIOUS
    <3>1. Depth[m] < Depth[n]
      BY <1>1, <1>4, DepthFact DEF Calls, Stack
    <3> QED
      BY <1>2, <1>4, <3>1 DEF Ticking
  <2> QED
    BY <1>2, <1>3, <1>4, <2>1 DEF On, UnwindsRunning
\* A leaf that returned RUNNING when it must not is a child its parent awaits.
<1>6. ASSUME NEW m \in Node, NEW i \in Indices(m), Runs(m, i)'
      PROVE  Runs(m, i) \/ Awaits(m, i)
  <2>1. Child(m, i) \in Node
    BY ChildIsNode
  <2>2. CASE status' = status
    BY <1>6, <2>2 DEF Runs
  <2>3. CASE SyncThrow(n) /\ Child(m, i) = n
    BY <1>1, <1>2, <1>4, <2>3, CallerAwaits
  <2>4. CASE SyncThrow(n) /\ Child(m, i) # n
    BY <1>1, <1>6, <2>1, <2>4 DEF SyncThrow, Runs
  <2> QED
    BY <1>2, <2>2, <2>3, <2>4
<1>7. ASSUME NEW m \in Node, kind[m] \notin LeafKinds PROVE KidsHeld(m, strict)'
  <2>1. status'[m] = status[m]
    <3>1. SyncThrow(n) => n # m
      BY <1>7 DEF SyncThrow, LeafKinds
    <3> QED
      BY <1>1, <1>2, <3>1 DEF SyncThrow
  <2>2. ASSUME NEW i \in Indices(m), Runs(m, i)' PROVE status[m] = "RUNNING" /\ Leads(m, i, strict)
    <3>1. CASE at[m] = "await"
      <4>1. status[m] = "RUNNING" /\ (strict => kind[m] # "Switch")
        BY <1>5, <3>1
      <4>2. kind[m] \in LoopKinds => idx[m] < param[m] \/ param[m] = -1
        BY <3>1 DEF KidsHeld
      <4>3. kind[m] \in MemoryKinds => i = idx[m]
        <5>1. CASE Runs(m, i)
          BY <3>1, <5>1 DEF KidsHeld, Held
        <5>2. CASE Awaits(m, i)
          BY <5>2 DEF Awaits, AwaitedBy, ControlKinds
        <5> QED
          BY <1>6, <2>2, <5>1, <5>2
      <4> QED
        BY <4>1, <4>2, <4>3 DEF Leads
    <3>2. CASE at[m] \in {"off", "enter"}
      <4>1. Runs(m, i)
        BY <1>6, <2>2, <3>2 DEF Awaits
      <4> QED
        BY <3>2, <4>1 DEF KidsHeld, Held
    <3> QED
      BY <1>5, <3>1, <3>2
  <2>3. \A i \in Indices(m) : Runs(m, i)' => Held(m, i, strict)'
    BY <1>3, <2>1, <2>2 DEF Held, Leads
  <2>4. ASSUME strict, kind[m] \in ReactiveKinds PROVE Alone(m)'
    <3>1. at[m] \in {"off", "enter"} /\ Alone(m)
      BY <1>5, <2>4 DEF KidsHeld
    <3>2. \A i \in Indices(m) : Runs(m, i)' => Runs(m, i)
      BY <1>6, <3>1 DEF Awaits
    <3> QED
      BY <1>3, <3>1, <3>2 DEF Alone
  <2> QED
    BY <1>3, <2>3, <2>4 DEF KidsHeld
<1>8. ASSUME NEW m \in Node, kind[m] \in LeafKinds PROVE KidsHeld(m, strict)'
  <2>1. Count(m) = 0 /\ kind[m] \notin LoopKinds /\ kind[m] \notin ReactiveKinds
    BY <1>1, <1>8, TreesAssumption, KindsDiffer DEF Inv, Fits, DecoratorKinds
  <2> QED
    BY <1>3, <2>1 DEF KidsHeld, Indices
<1> QED
  BY <1>7, <1>8

\* Every step keeps RUNNING children below RUNNING parents.
LEMMA NextHeld ==
  ASSUME NEW strict \in BOOLEAN, HeldInv(strict), [Next]_vars, UnwindsRunning(strict)
  PROVE  HeldInv(strict)'
<1>1. TickInv /\ TickInv' /\ Stopped' /\ ThreadInv /\ Calls /\ Inv /\ Inv'
      /\ \A m \in Node : KidsHeld(m, strict)
  BY NextTick, NextStopped DEF HeldInv, TickInv, ThreadInv, Calls
<1>2. /\ at \in [Node -> FramePoints] /\ status \in [Node -> Status] /\ todo \in [Node -> SUBSET Int]
      /\ loc \in [Node -> Int] /\ out \in [Node -> Status] /\ idx \in [Node -> Int]
  BY <1>1 DEF Inv, TypeOK
<1> SUFFICES \A m \in Node : KidsHeld(m, strict)'
  BY <1>1 DEF HeldInv
\* The nodes a step leaves alone.
<1>3. ASSUME NEW m \in Node, UNCHANGED <<kind, param>>, idx'[m] = idx[m], loc'[m] = loc[m],
             out'[m] = out[m], todo'[m] = todo[m],
             at'[m] = at[m] \/ (at[m] = "off" /\ at'[m] = "enter"),
             status[m] = "RUNNING" => status'[m] = "RUNNING",
             \A i \in Indices(m) :
               Runs(m, i)' => \/ Runs(m, i) /\ (On(Child(m, i)) => On(Child(m, i))')
                              \/ Awaits(m, i)
      PROVE  KidsHeld(m, strict)'
  BY <1>1, <1>3, StayHeld
<1>4. ASSUME NEW n \in Node, CallHalt(n), \A m \in Node : ~ On(m), UNCHANGED <<tree, status, loc, out>>
      PROVE  \A m \in Node : KidsHeld(m, strict)'
  <2>1. /\ at' = [at EXCEPT ![n] = "stop"] /\ todo' = [todo EXCEPT ![n] = Indices(n)]
        /\ idx' = [idx EXCEPT ![n] = FirstIdx(kind[n])]
    BY <1>4 DEF CallHalt, ResetMembers
  <2>2. KidsHeld(n, strict)'
    BY <1>2, <2>1 DEF KidsHeld, Held, ToHalt, Alone
  <2>3. ASSUME NEW m \in Node \ {n} PROVE KidsHeld(m, strict)'
    <3>1. /\ UNCHANGED <<kind, param>> /\ idx'[m] = idx[m] /\ loc'[m] = loc[m] /\ out'[m] = out[m]
          /\ todo'[m] = todo[m] /\ at'[m] = at[m] /\ status'[m] = status[m]
      BY <1>2, <1>4, <2>1 DEF tree
    <3>2. \A i \in Indices(m) : Runs(m, i)' => Runs(m, i) /\ ~ On(Child(m, i))
      BY <1>4, ChildIsNode DEF Runs
    <3> QED
      BY <1>3, <3>1, <3>2
  <2> QED
    BY <2>2, <2>3
<1>5. CASE Owner
  <2>1. \A n \in Node : ~ On(n)
    BY <1>1, <1>5 DEF Owner, TickRoot, TickRootReturn, HaltTree, HaltTreeVisit, VisitNode,
                      HaltTreeReturn, Calls, Stack, Modes, AtRest
  <2>2. CASE HaltTree
    BY <1>4, <2>1, <2>2, TreeAssumption DEF HaltTree
  <2>3. CASE VisitNode
    <3>1. Head(visit) \in Node
      BY <1>1, <2>3 DEF VisitNode, Inv, TypeOK
    <3> QED
      BY <1>4, <2>1, <2>3, <3>1 DEF VisitNode
  <2>4. CASE TickRoot
    <3>1. /\ UNCHANGED <<kind, param, idx, loc, out, todo, status>>
          /\ at' = [at EXCEPT ![Root] = "enter"]
      BY <2>4 DEF TickRoot, tree, memory, frame
    <3>2. \A m \in Node : at'[m] = at[m] \/ (at[m] = "off" /\ at'[m] = "enter")
      BY <1>2, <2>1, <3>1, TreeAssumption DEF On
    <3>3. \A m \in Node : \A i \in Indices(m) : Runs(m, i)' => Runs(m, i) /\ ~ On(Child(m, i))
      BY <2>1, <3>1, ChildIsNode DEF Runs
    <3> QED
      BY <1>3, <3>1, <3>2, <3>3
  <2>5. CASE TickRootReturn
    <3>1. /\ UNCHANGED <<kind, param, idx, loc, out, todo, at>>
          /\ status' = IF got[Root] \in Done THEN [status EXCEPT ![Root] = "IDLE"] ELSE status
          /\ op = "tick" /\ cur = NoNode
      BY <2>5 DEF TickRootReturn, tree, memory, frame
    <3>2. AsReturned(Root)
      BY <1>1, <3>1 DEF TickInv, Returned
    <3>3. \A m \in Node : /\ status[m] = "RUNNING" => status'[m] = "RUNNING"
                          /\ status'[m] = "RUNNING" => status[m] = "RUNNING"
      BY <1>2, <3>1, <3>2, TreeAssumption DEF AsReturned, Done
    <3>4. \A m \in Node : \A i \in Indices(m) : Runs(m, i)' => Runs(m, i) /\ ~ On(Child(m, i))
      BY <2>1, <3>3, ChildIsNode DEF Runs
    <3> QED
      BY <1>3, <3>1, <3>3, <3>4
  <2>6. CASE HaltTreeVisit \/ HaltTreeReturn
    <3>1. UNCHANGED <<kind, param, idx, loc, out, todo, at, status>>
      BY <2>6 DEF HaltTreeVisit, HaltTreeReturn, tree, memory, frame
    <3>2. \A m \in Node : \A i \in Indices(m) : Runs(m, i)' => Runs(m, i) /\ ~ On(Child(m, i))
      BY <2>1, <3>1, ChildIsNode DEF Runs
    <3> QED
      BY <1>3, <3>1, <3>2
  <2> QED
    BY <1>5, <2>2, <2>3, <2>4, <2>5, <2>6 DEF Owner
<1>6. ASSUME NEW n \in Node, Run(n) PROVE \A m \in Node : KidsHeld(m, strict)'
  <2>1. cur = n /\ On(n)
    BY <1>1, <1>6, TreeAssumption DEF Run, Calls, Stack
  <2>2. \A i \in Indices(n) : ~ On(Child(n, i))
    BY <1>1, <2>1, TopHasNoCallee
  \* n is the only child of another node whose status or frame has changed.
  <2>3. ASSUME NEW m \in Node \ {n}, UNCHANGED <<kind, param>>, idx'[m] = idx[m], loc'[m] = loc[m],
               out'[m] = out[m], todo'[m] = todo[m],
               at'[m] = at[m] \/ (at[m] = "off" /\ at'[m] = "enter"),
               status[m] = "RUNNING" => status'[m] = "RUNNING",
               at[n] # "stop" \/ status'[n] # "RUNNING" \/ (status' = status /\ On(n)'),
               \A i \in Indices(m) : Child(m, i) # n =>
                 /\ Runs(m, i)' => Runs(m, i)
                 /\ On(Child(m, i)) => On(Child(m, i))'
        PROVE  KidsHeld(m, strict)'
    <3>1. ASSUME NEW i \in Indices(m), Runs(m, i)'
          PROVE  (Runs(m, i) /\ (On(Child(m, i)) => On(Child(m, i))')) \/ Awaits(m, i)
      <4>1. CASE Child(m, i) # n
        BY <2>3, <3>1, <4>1
      <4>2. CASE Child(m, i) = n /\ at[n] # "stop"
        BY <1>1, <2>1, <4>2, CallerAwaits
      <4>3. CASE Child(m, i) = n /\ at[n] = "stop"
        BY <2>3, <3>1, <4>3 DEF Runs
      <4> QED
        BY <4>1, <4>2, <4>3
    <3> QED
      BY <1>3, <2>3, <3>1
  <2>4. CASE ControlTick(n) \/ DecoratorTick(n)
    <3>1. KidsHeld(n, strict)'
      BY <1>1, <2>1, <2>4, TickHeld
    <3>2. TickShape(n)
      BY <1>1, <2>4, ControlShape, DecoratorShape
    <3>3. ASSUME NEW m \in Node \ {n} PROVE KidsHeld(m, strict)'
      <4>1. /\ UNCHANGED <<kind, param>> /\ idx'[m] = idx[m] /\ loc'[m] = loc[m] /\ out'[m] = out[m]
            /\ todo'[m] = todo[m] /\ status'[m] = status[m] /\ at[n] # "stop"
        BY <1>2, <3>2 DEF TickShape, OnlyOwn, tree
      <4>2. \A k \in Node \ {n} : at'[k] = at[k] \/ (at[k] = "off" /\ at'[k] = "enter")
        BY <1>2, <2>2, <3>2, ChildIsNode DEF TickShape, Moves, TicksChild, TickChild, On
      <4>3. \A i \in Indices(m) : Child(m, i) # n =>
                 /\ Runs(m, i)' => Runs(m, i)
                 /\ On(Child(m, i)) => On(Child(m, i))'
        <5> SUFFICES ASSUME NEW i \in Indices(m), Child(m, i) # n
                     PROVE  (Runs(m, i)' => Runs(m, i)) /\ (On(Child(m, i)) => On(Child(m, i))')
          OBVIOUS
        <5>1. Child(m, i) \in Node \ {n}
          BY ChildIsNode
        <5> QED
          BY <1>2, <3>2, <4>2, <5>1 DEF TickShape, OnlyOwn, Runs, On
      <4> QED
        BY <2>3, <4>1, <4>2, <4>3
    <3> QED
      BY <3>1, <3>3
  <2>5. CASE ControlThrow(n) \/ DecoratorThrow(n) \/ SyncThrow(n)
    BY <1>1, <2>1, <2>5, ThrowHeld
  <2>6. CASE HaltChild(n)
    <3>1. PICK i \in Indices(n) : i \in todo[n] /\ (HaltsRunning(n, i) \/ SetsIdle(n, i))
      BY <1>1, <2>6, HaltShape
    <3>2. at[n] \in HaltPoints /\ UNCHANGED <<kind, param, loc, out>>
      BY <1>1, <2>6, HaltShape DEF tree
    <3> DEFINE c == Child(n, i)
    <3>3. KidsHeld(n, strict)' /\ (HaltsRunning(n, i) => KidsHeld(c, strict)')
      BY <1>1, <3>1, <3>2, HaltChildHeld
    <3>4. c \in Node \ {n} /\ Parent[c] = n
      BY ChildFact
    <3>5. /\ \A m \in Node \ {n, c} : /\ at'[m] = at[m] /\ todo'[m] = todo[m] /\ idx'[m] = idx[m]
          /\ \A m \in Node \ {c} : status'[m] = status[m] /\ at'[m] = at[m]
          /\ status[c] = "RUNNING" => status'[c] = "RUNNING"
          /\ SetsIdle(n, i) => at'[c] = at[c] /\ todo'[c] = todo[c] /\ idx'[c] = idx[c]
      <4> HIDE DEF c
      <4>1. CASE HaltsRunning(n, i)
        BY <1>2, <3>4, <4>1 DEF HaltsRunning, SetsIdle, c
      <4>2. CASE SetsIdle(n, i)
        BY <1>2, <3>4, <4>2 DEF SetsIdle, c, memory
      <4> QED
        BY <3>1, <4>1, <4>2
    <3>6. \A m \in Node \ {n} : \A j \in Indices(m) : Child(m, j) \in Node \ {c}
      BY <3>4, ChildFact
    <3> HIDE DEF c
    <3>7. ASSUME NEW m \in Node \ {n}, m # c \/ SetsIdle(n, i) PROVE KidsHeld(m, strict)'
      <4>1. \A j \in Indices(m) : /\ Runs(m, j)' => Runs(m, j)
                                  /\ On(Child(m, j)) => On(Child(m, j))'
        BY <3>5, <3>6 DEF Runs, On
      <4> QED
        BY <1>3, <3>2, <3>5, <3>7, <4>1
    <3>8. KidsHeld(c, strict)'
      BY <3>1, <3>3, <3>4, <3>7
    <3> QED
      BY <3>3, <3>7, <3>8
  <2>7. ASSUME at'[n] \in {"off", "reset"}, at'[n] = "reset" => kind[n] \in DecoratorKinds,
               \A m \in Node \ {n} : /\ at'[m] = at[m] /\ loc'[m] = loc[m] /\ out'[m] = out[m]
                                     /\ status'[m] = status[m] \/ (Parent[m] = n /\ status[m] \in Done
                                                                   /\ status'[m] = "IDLE"),
               UNCHANGED <<tree, memory, todo>>,
               at[n] = "stop" => status'[n] # "RUNNING",
               \/ at[n] \in {"leave", "stop"} /\ todo[n] = {} /\ (at[n] = "leave" => status'[n] = out[n])
               \/ at[n] = "reset" /\ status'[n] = status[n]
               \/ kind[n] \in LeafKinds
        PROVE  \A m \in Node : KidsHeld(m, strict)'
    <3>1. UNCHANGED <<kind, param, idx, todo>>
      BY <2>7 DEF tree, memory
    <3>2. \A m \in Node \ {n} : /\ status'[m] = "RUNNING" => status[m] = "RUNNING"
                                /\ status[m] = "RUNNING" => status'[m] = "RUNNING"
      BY <2>7 DEF Done
    <3>3. \A i \in Indices(n) : Runs(n, i)' => Runs(n, i)
      BY <3>2, ChildIsNode DEF Runs
    <3>4. KidsHeld(n, strict)'
      <4>1. CASE kind[n] \in LeafKinds
        <5>1. Count(n) = 0 /\ kind[n] \notin LoopKinds /\ kind[n] \notin ReactiveKinds
          BY <1>1, <4>1, TreesAssumption, KindsDiffer DEF Inv, Fits, DecoratorKinds
        <5> QED
          BY <3>1, <5>1 DEF KidsHeld, Indices
      <4>2. CASE kind[n] \notin LeafKinds
        BY <1>1, <2>1, <2>7, <3>1, <3>3, <4>2, PopHeld
      <4> QED
        BY <4>1, <4>2
    <3>5. ASSUME NEW m \in Node \ {n} PROVE KidsHeld(m, strict)'
      <4>1. \A i \in Indices(m) : Child(m, i) # n =>
                 /\ Runs(m, i)' => Runs(m, i)
                 /\ On(Child(m, i)) => On(Child(m, i))'
        BY <2>7, <3>2, ChildIsNode DEF Runs, On
      <4> QED
        BY <2>3, <2>7, <3>1, <3>2, <4>1
    <3> QED
      BY <3>4, <3>5
  <2>8. CASE Halted(n)
    <3>1. at'[n] = "off" /\ \A m \in Node \ {n} : at'[m] = at[m] /\ loc'[m] = loc[m] /\ out'[m] = out[m]
      BY <1>2, <2>8 DEF Halted, Pop
    <3> QED
      BY <1>2, <2>7, <2>8, <3>1 DEF Halted
  <2>9. CASE Ticked(n)
    <3>1. /\ at'[n] \in {"off", "reset"} /\ (at'[n] = "reset" => kind[n] \in DecoratorKinds)
          /\ \A m \in Node \ {n} : at'[m] = at[m] /\ loc'[m] = loc[m] /\ out'[m] = out[m]
      BY <1>2, <2>9 DEF Ticked, Pop
    <3> QED
      BY <1>2, <2>7, <2>9, <3>1 DEF Ticked
  <2>10. CASE ResetChild(n)
    <3>1. at'[n] = "off" /\ \A m \in Node \ {n} : at'[m] = at[m] /\ loc'[m] = loc[m] /\ out'[m] = out[m]
      BY <1>2, <2>10 DEF ResetChild, Pop
    <3>2. Child(n, 0) \in Node \ {n} /\ Parent[Child(n, 0)] = n
      BY <1>1, <2>10, Sizes, ChildFact DEF ResetChild, Inv, FrameOK
    <3>3. \A m \in Node \ {n} : status'[m] = status[m] \/ (Parent[m] = n /\ status[m] \in Done
                                                          /\ status'[m] = "IDLE")
      BY <1>2, <2>10, <3>2 DEF ResetChild
    <3>4. at[n] = "reset" /\ status'[n] = status[n] /\ UNCHANGED <<tree, memory, todo>>
      BY <1>2, <2>10, <3>2 DEF ResetChild
    <3> QED
      BY <2>7, <3>1, <3>3, <3>4
  <2>11. CASE SyncTick(n) \/ StatefulTick(n) \/ AsyncRead(n)
    <3>1. PICK s : Return(n, s)
      BY <2>11 DEF SyncTick, StatefulTick, AsyncRead
    <3>2. at'[n] = "off" /\ \A m \in Node \ {n} : at'[m] = at[m] /\ loc'[m] = loc[m] /\ out'[m] = out[m]
      BY <1>2, <3>1 DEF Return, Pop
    <3>3. kind[n] \in LeafKinds /\ at[n] # "stop"
      BY <2>11 DEF SyncTick, StatefulTick, AsyncRead, LeafKinds
    <3>4. UNCHANGED <<tree, memory, todo>> /\ \A m \in Node \ {n} : status'[m] = status[m]
      BY <1>2, <3>1 DEF Return
    <3> QED
      BY <2>7, <3>2, <3>3, <3>4
  <2>12. CASE AsyncStart(n)
    <3>1. /\ UNCHANGED <<kind, param, idx, loc, out, todo>> /\ at[n] # "stop"
          /\ \A m \in Node \ {n} : at'[m] = at[m] /\ status'[m] = status[m]
          /\ kind[n] \in LeafKinds
      BY <1>2, <2>12 DEF AsyncStart, tree, memory, frame, LeafKinds
    <3>2. KidsHeld(n, strict)'
      <4>1. kind'[n] \in LeafKinds
        BY <3>1
      <4>2. Count(n) = 0 /\ kind[n] \notin LoopKinds /\ kind[n] \notin ReactiveKinds
        BY <1>1, <3>1, TreesAssumption, KindsDiffer DEF Inv, Fits, DecoratorKinds
      <4> QED
        BY <3>1, <4>2 DEF KidsHeld, Indices
    <3>3. ASSUME NEW m \in Node \ {n} PROVE KidsHeld(m, strict)'
      <4>1. \A i \in Indices(m) : Child(m, i) # n =>
                 /\ Runs(m, i)' => Runs(m, i)
                 /\ On(Child(m, i)) => On(Child(m, i))'
        BY <3>1, ChildIsNode DEF Runs, On
      <4> QED
        BY <2>3, <3>1, <4>1
    <3> QED
      BY <3>2, <3>3
  <2> QED
    BY <1>6, <2>4, <2>5, <2>6, <2>8, <2>9, <2>10, <2>11, <2>12 DEF Run, LeafTick
<1>7. ASSUME NEW n \in Node, AsyncThread(n) \/ AsyncThreadThrow(n)
      PROVE  \A m \in Node : KidsHeld(m, strict)'
  <2>1. /\ UNCHANGED <<kind, param, idx, loc, out, todo, at>>
        /\ \A m \in Node \ {n} : status'[m] = status[m]
        /\ status'[n] # "RUNNING" \/ status' = status
    BY <1>2, <1>7 DEF AsyncThread, AsyncThreadThrow, tree, memory, frame, Done
  <2>2. kind[n] \in LeafKinds
    BY <1>1, <1>7 DEF AsyncThread, AsyncThreadThrow, ThreadInv, Threads, LeafKinds
  <2>3. KidsHeld(n, strict)'
    <3>1. Count(n) = 0 /\ kind[n] \notin LoopKinds /\ kind[n] \notin ReactiveKinds
      BY <1>1, <2>2, TreesAssumption, KindsDiffer DEF Inv, Fits, DecoratorKinds
    <3> QED
      BY <2>1, <3>1 DEF KidsHeld, Indices
  <2>4. \A m \in Node : \A i \in Indices(m) : /\ Runs(m, i)' => Runs(m, i)
                                              /\ On(Child(m, i)) => On(Child(m, i))'
    BY <2>1, ChildIsNode DEF Runs, On
  <2> QED
    BY <1>3, <2>1, <2>3, <2>4
<1>8. CASE UNCHANGED vars
  <2>1. UNCHANGED <<kind, param, idx, loc, out, todo, at, status>>
    BY <1>8 DEF vars, tree, memory, frame
  <2> QED
    BY <1>1, <2>1 DEF KidsHeld, Held, Leads, ToHalt, Alone, Runs, On
<1> QED
  BY <1>5, <1>6, <1>7, <1>8 DEF Next

\* Nothing is RUNNING at the start.
LEMMA InitHeld == ASSUME Init, NEW strict \in BOOLEAN PROVE HeldInv(strict)
<1>1. TickInv
  BY InitTick
<1>2. \A m \in Node : at[m] = "off" /\ \A i \in Indices(m) : ~ Runs(m, i)
  BY ChildIsNode DEF Init, Runs
<1>3. \A m \in Node : KidsHeld(m, strict)
  BY <1>2 DEF KidsHeld, Alone
<1>4. op = "rest"
  BY DEF Init
<1> QED
  BY <1>1, <1>3, <1>4 DEF HeldInv, Stopped

\* In every tree whose exceptions pass only RUNNING nodes, a RUNNING node hangs
\* under a RUNNING parent between two calls of the owner.
THEOREM NoNodeIsOrphaned == Spec /\ [][UnwindsRunning(FALSE)]_vars => []NoOrphans
<1>1. Init => HeldInv(FALSE)
  BY InitHeld
<1>2. HeldInv(FALSE) /\ [Next]_vars /\ [UnwindsRunning(FALSE)]_vars => HeldInv(FALSE)'
  BY NextHeld DEF UnwindsRunning, vars, caller
<1>3. HeldInv(FALSE) => NoOrphans
  <2> SUFFICES ASSUME HeldInv(FALSE), op = "rest", NEW c \in Node \ {Root}, status[c] = "RUNNING"
               PROVE  status[Parent[c]] = "RUNNING"
    BY DEF NoOrphans
  <2>1. Parent[c] \in Node /\ at[Parent[c]] = "off"
    BY TreeAssumption DEF HeldInv, TickInv, ThreadInv, Calls, Stack, Modes, AtRest, On
  <2>2. PICK i \in Indices(Parent[c]) : c = Child(Parent[c], i)
    BY TreeAssumption DEF Kids
  <2> QED
    BY <2>1, <2>2 DEF HeldInv, KidsHeld, Held, Runs
<1> QED
  BY <1>1, <1>2, <1>3, PTL DEF Spec

\* In every such tree nothing runs, no thread either, once haltTree() has
\* halted the root, whatever was caught before.
THEOREM HaltTreeStops == Spec /\ [][UnwindsRunning(FALSE)]_vars => []HaltStops
<1>1. Init => HeldInv(FALSE)
  BY InitHeld
<1>2. HeldInv(FALSE) /\ [Next]_vars /\ [UnwindsRunning(FALSE)]_vars => HeldInv(FALSE)'
  BY NextHeld DEF UnwindsRunning, vars, caller
<1>3. HeldInv(FALSE) => HaltStops
  BY DEF HeldInv, Stopped, TickInv, ThreadInv, ThreadIsRunning, HaltStops
<1> QED
  BY <1>1, <1>2, <1>3, PTL DEF Spec

\* When exceptions also pass no reactive node and no Switch, at most one child
\* of a node that is not a Parallel is RUNNING between two calls of the owner.
THEOREM OneChildRuns == Spec /\ [][UnwindsRunning(TRUE)]_vars => []OneRunningChild
<1>1. Init => HeldInv(TRUE)
  BY InitHeld
<1>2. HeldInv(TRUE) /\ [Next]_vars /\ [UnwindsRunning(TRUE)]_vars => HeldInv(TRUE)'
  BY NextHeld DEF UnwindsRunning, vars, caller
<1>3. HeldInv(TRUE) => OneRunningChild
  <2> SUFFICES ASSUME HeldInv(TRUE), op = "rest", NEW n \in Node, kind[n] # "Parallel",
                      NEW i \in Indices(n), NEW j \in Indices(n), Runs(n, i), Runs(n, j)
               PROVE  i = j
    BY DEF OneRunningChild, Kids, Runs
  <2>1. at[n] = "off" /\ Inv
    BY DEF HeldInv, TickInv, ThreadInv, Calls, Stack, Modes, AtRest, On
  <2>2. KidsHeld(n, TRUE) /\ Leads(n, i, TRUE) /\ Leads(n, j, TRUE)
    BY <2>1 DEF HeldInv, KidsHeld, Held
  <2>3. CASE kind[n] \in MemoryKinds \cup {"Switch"}
    BY <2>2, <2>3 DEF Leads
  <2>4. CASE kind[n] \in ReactiveKinds
    BY <2>1, <2>2, <2>4 DEF KidsHeld, Alone
  <2>5. CASE kind[n] \in DecoratorKinds
    <3>1. Count(n) = 1
      BY <2>1, <2>5, Sizes DEF Inv
    <3> QED
      BY <3>1 DEF Indices
  <2>6. CASE kind[n] \in LeafKinds
    <3>1. Count(n) = 0
      BY <2>1, <2>6, TreesAssumption DEF Inv, Fits
    <3> QED
      BY <3>1 DEF Indices
  <2> QED
    BY <2>1, <2>3, <2>4, <2>5, <2>6 DEF Inv, TypeOK, Kinds, ControlKinds
<1> QED
  BY <1>1, <1>2, <1>3, PTL DEF Spec

-----------------------------------------------------------------------------
(* Trees that do not throw.  A child returns IDLE only when user code does *)
(* what it must not, or when a thread is told to halt while its node is    *)
(* being ticked, which never happens: so the engine's own LogicErrors are  *)
(* unreachable.                                                            *)
WellFormed ==
  \A n \in Node :
    /\ kind[n] # "FaultySync"
    /\ kind[n] = "Parallel" => Count(n) >= param[n]
    /\ kind[n] = "Switch" => Count(n) = param[n] + 1

\* A thread is asked to stop only while its node's halt() waits for it, no
\* tick() has come to IDLE, and no child has returned it.
Quiet ==
  \A n \in Node :
    /\ thread[n] /\ haltRequested[n] => at[n] = "stop"
    /\ at[n] = "read" => status[n] # "IDLE"
    /\ at[n] \in {"leave", "reset"} => out[n] # "IDLE"
    /\ \A i \in Indices(n) : Awaits(n, i) /\ ~ On(Child(n, i)) => got[Child(n, i)] # "IDLE"

QuietInv == TickInv /\ WellFormed /\ Quiet /\ op # "thrown"

\* current_child_idx_ of a memory node.
LEMMA MemoryIndex ==
  ASSUME Inv, NEW n \in Node, kind[n] \in MemoryKinds
  PROVE  idx[n] \in 0 .. Count(n)
<1>1. IndexRange(n) = 0 .. Count(n)
  BY KindsDiffer DEF IndexRange, DecoratorKinds
<1> QED
  BY <1>1 DEF Inv, TypeOK

\* A step of the frame on top that returns no IDLE keeps it.
LEMMA StepQuiet ==
  ASSUME QuietInv, NEW n \in Node, cur = n, UNCHANGED kind,
         \A m \in Node \ {n} :
           /\ at'[m] = at[m] \/ (at[m] = "off" /\ at'[m] \in {"enter", "stop"})
           /\ Parent[m] # n => at'[m] = at[m] /\ got'[m] = got[m]
           /\ out'[m] = out[m] /\ thread'[m] = thread[m]
           /\ at'[m] = "await" => AwaitedBy(m)' = AwaitedBy(m)
           /\ haltRequested'[m] = haltRequested[m] \/ at'[m] = "stop",
         at'[n] = "read" => status'[n] # "IDLE",
         at'[n] \in {"leave", "reset"} => out'[n] # "IDLE",
         thread'[n] /\ haltRequested'[n] => at'[n] = "stop",
         \A i \in Indices(n) : Awaits(n, i)' => On(Child(n, i))',
         at'[n] = "off" => at[n] = "stop" \/ got'[n] # "IDLE"
  PROVE  Quiet'
<1>1. Calls /\ cur # NoNode
  BY TreeAssumption DEF QuietInv, TickInv, ThreadInv
<1>2. \A m \in Node \ {n} : at[m] \in Waits \cup {"off"}
  BY <1>1 DEF Calls, Stack, On
<1>3. ASSUME NEW m \in Node \ {n}
      PROVE  /\ thread'[m] /\ haltRequested'[m] => at'[m] = "stop"
             /\ at'[m] # "read"
             /\ at'[m] \in {"leave", "reset"} => out'[m] # "IDLE"
  BY <1>2 DEF QuietInv, Quiet, Waits, HaltPoints
<1>4. ASSUME NEW m \in Node, NEW i \in Indices(m), Awaits(m, i)', ~ On(Child(m, i))'
      PROVE  got'[Child(m, i)] # "IDLE"
  <2>1. m # n /\ Child(m, i) \in Node /\ Parent[Child(m, i)] = m
    BY <1>4, ChildFact
  <2>2. Awaits(m, i) /\ On(m)
    BY <1>4, <2>1 DEF Awaits, On
  <2>3. CASE Child(m, i) # n
    BY <1>4, <2>1, <2>2, <2>3 DEF QuietInv, Quiet, On
  <2>4. CASE Child(m, i) = n
    <3>1. at[n] # "stop"
      BY <1>1, <2>2, <2>4 DEF Calls, Stack, Callees, Awaits
    <3> QED
      BY <1>4, <2>4, <3>1 DEF On
  <2> QED
    BY <2>3, <2>4
<1> QED
  BY <1>3, <1>4 DEF Quiet

\* No tick() of a node with children comes to IDLE when no child has.
LEMMA TickDecides ==
  ASSUME Inv, NEW n \in Node, ControlTick(n) \/ DecoratorTick(n), at'[n] = "leave",
         \A i \in Indices(n) : Awaits(n, i) => got[Child(n, i)] # "IDLE",
         at[n] # "leave"
  PROVE  out'[n] # "IDLE"
<1>1. at \in [Node -> FramePoints] /\ out \in [Node -> Status] /\ status \in [Node -> Status]
      /\ got \in [Node -> Status]
  BY DEF Inv, TypeOK
<1>2. ASSUME NEW s, s # "IDLE", NEW H, Leave(n, s, H) PROVE out'[n] # "IDLE"
  BY <1>1, <1>2 DEF Leave
<1>3. \A i \in Indices(n) : TickChild(n, i) => at'[n] # "leave"
  BY <1>1, ChildIsNode DEF TickChild
<1>4. ASSUME NEW go \in Done, NEW stop \in Done, NEW Rest, NEW left, MemoryTick(n, go, stop, Rest, left),
             kind[n] \in MemoryKinds
      PROVE  out'[n] # "IDLE"
  <2>1. idx[n] \in Nat
    BY <1>4, MemoryIndex, Sizes DEF Inv
  <2>2. at[n] = "loop" /\ idx[n] < Count(n) => idx[n] \in Indices(n)
    BY <2>1, Sizes DEF Inv, Indices
  <2> QED
    BY <1>1, <1>2, <1>3, <1>4, <2>2 DEF MemoryTick, MemoryEnter, MemoryRunning, MemoryGo, MemoryStop,
                                        MemoryDone, Done
<1>5. ASSUME NEW go \in Done, NEW stop \in Done, ReactiveTick(n, go, stop) PROVE out'[n] # "IDLE"
  <2>1. loc[n] \in Nat
    BY Sizes DEF Inv, TypeOK
  <2>2. loc[n] < Count(n) => loc[n] \in Indices(n)
    BY <2>1, Sizes DEF Inv, Indices
  <2> QED
    BY <1>1, <1>2, <1>3, <1>5, <2>2 DEF ReactiveTick, ReactiveStop, Done
<1>6. CASE ParallelTick(n)
  <2>1. loc[n] \in Nat
    BY Sizes DEF Inv, TypeOK
  <2>2. loc[n] < Count(n) => loc[n] \in Indices(n)
    BY <2>1, Sizes DEF Inv, Indices
  <2>3. ASSUME NEW s, ParallelCount(n, s) PROVE out'[n] # "IDLE"
    <3>1. CASE ParallelDecide(n, s)
      BY <1>2, <3>1 DEF ParallelDecide, Decisive
    <3>2. CASE ~ ParallelDecide(n, s)
      BY <1>1, <2>3, <3>2 DEF ParallelCount
    <3> QED
      BY <3>1, <3>2
  <2> QED
    BY <1>1, <1>2, <1>3, <1>6, <2>2, <2>3 DEF ParallelTick
<1>7. CASE SwitchTick(n)
  <2>1. at[n] \in {"await", "switch"} => loc[n] \in Indices(n)
    BY <1>7, Sizes DEF SwitchTick, Inv, TypeOK, FrameOK, Indices
  <2>2. at[n] = "await" => got[Child(n, loc[n])] # "IDLE"
    BY <1>7, <2>1 DEF SwitchTick, Awaits, AwaitedBy, MemoryKinds
  <2> QED
    BY <1>1, <1>2, <1>3, <1>7, <2>1, <2>2 DEF SwitchTick, SwitchEnter
<1>8. CASE DecoratorTick(n)
  <2>1. kind[n] \in DecoratorKinds
    BY <1>8 DEF DecoratorTick, DecoratorKinds, LoopKinds, InverterTick, ForceSuccessTick,
                ForceFailureTick, SubTreeTick, BlackboardCheckTick, RepeatTick, RetryTick
  <2>2. 0 \in Indices(n)
    BY <2>1, Sizes DEF Inv
  <2>3. at[n] = "await" => got[Child(n, 0)] \in Status \ {"IDLE"}
    BY <1>1, <2>1, <2>2, KindsDiffer, ChildIsNode DEF Awaits
  <2>4. ASSUME NEW result, Translate(n, result), at[n] = "await" => result[got[Child(n, 0)]] # "IDLE"
        PROVE  out'[n] # "IDLE"
    BY <1>1, <1>2, <1>3, <2>2, <2>4 DEF Translate
  <2>5. CASE InverterTick(n) \/ ForceSuccessTick(n) \/ ForceFailureTick(n)
    BY <2>3, <2>4, <2>5 DEF InverterTick, ForceSuccessTick, ForceFailureTick, InverterResult,
                            ForceSuccessResult, ForceFailureResult, Status, Done
  <2>6. CASE SubTreeTick(n)
    BY <1>1, <1>2, <1>3, <2>2, <2>3, <2>6 DEF SubTreeTick
  <2>7. CASE BlackboardCheckTick(n)
    BY <1>1, <1>2, <1>3, <2>2, <2>3, <2>7 DEF BlackboardCheckTick, BlackboardRefuse, Mismatch
  <2>8. CASE RepeatTick(n) \/ RetryTick(n)
    BY <1>1, <1>2, <1>3, <2>2, <2>8 DEF RepeatTick, RetryTick, LoopTick, LoopAgain
  <2> QED
    BY <1>8, <2>5, <2>6, <2>7, <2>8 DEF DecoratorTick
<1>9. CASE ControlTick(n)
  <2>1. CASE SequenceTick(n) \/ FallbackTick(n) \/ SequenceStarTick(n)
    BY <1>4, <2>1 DEF SequenceTick, FallbackTick, SequenceStarTick, MemoryKinds, Done
  <2>2. CASE ReactiveSequenceTick(n) \/ ReactiveFallbackTick(n)
    BY <1>5, <2>2 DEF ReactiveSequenceTick, ReactiveFallbackTick, Done
  <2> QED
    BY <1>6, <1>7, <1>9, <2>1, <2>2 DEF ControlTick
<1> QED
  BY <1>8, <1>9

\* Every step of a well-formed tree keeps it, and none throws.
LEMMA NextQuiet == ASSUME QuietInv, [Next]_vars PROVE QuietInv'
<1>1. /\ ThreadInv /\ Calls /\ Inv /\ at \in [Node -> FramePoints] /\ status \in [Node -> Status]
      /\ got \in [Node -> Status] /\ out \in [Node -> Status] /\ haltRequested \in [Node -> BOOLEAN]
      /\ thread \in [Node -> BOOLEAN] /\ TickInv'
  BY NextTick DEF QuietInv, TickInv, ThreadInv, Calls, Inv, TypeOK
<1>a. \A m \in Node : thread[m] => kind[m] \in LeafKinds
  BY <1>1 DEF ThreadInv, Threads, LeafKinds
<1>b. ASSUME UNCHANGED <<kind, param, op>>, Quiet' PROVE QuietInv'
  BY <1>1, <1>b DEF QuietInv, WellFormed
<1>2. CASE Owner
  <2>1. \A n \in Node : ~ On(n)
    BY <1>1, <1>2 DEF Owner, TickRoot, TickRootReturn, HaltTree, HaltTreeVisit, VisitNode,
                      HaltTreeReturn, Calls, Stack, Modes, AtRest
  <2>2. UNCHANGED <<kind, param, thread>> /\ op' # "thrown"
    BY <1>2 DEF Owner, TickRoot, TickRootReturn, HaltTree, HaltTreeVisit, VisitNode, HaltTreeReturn,
                tree, async
  <2>3. ASSUME NEW h \in Node, CallHalt(h) PROVE Quiet'
    BY <1>1, <2>1, <2>2, <2>3 DEF CallHalt, ResetMembers, QuietInv, Quiet, On, Awaits
  <2>4. Quiet'
    <3>1. CASE TickRoot
      BY <1>1, <2>1, <3>1, TreeAssumption DEF TickRoot, QuietInv, Quiet, On, Awaits, async
    <3>2. CASE TickRootReturn \/ HaltTreeVisit \/ HaltTreeReturn
      BY <2>1, <3>2 DEF TickRootReturn, HaltTreeVisit, HaltTreeReturn, QuietInv, Quiet, On, Awaits, async
    <3>3. CASE HaltTree
      BY <2>3, <3>3, TreeAssumption DEF HaltTree
    <3>4. CASE VisitNode
      <4>1. Head(visit) \in Node
        BY <1>1, <3>4 DEF VisitNode, Inv, TypeOK
      <4> QED
        BY <2>3, <3>4, <4>1 DEF VisitNode
    <3> QED
      BY <1>2, <3>1, <3>2, <3>3, <3>4 DEF Owner
  <2> QED
    BY <1>1, <2>2, <2>4 DEF QuietInv, WellFormed
<1>3. ASSUME NEW n \in Node, Run(n) PROVE QuietInv'
  <2>1. cur = n /\ cur # NoNode
    BY <1>3, TreeAssumption DEF Run
  <2>2. /\ \A i \in Indices(n) : ~ On(Child(n, i))
        /\ \A i \in Indices(n) : Awaits(n, i) => got[Child(n, i)] # "IDLE"
    BY <1>1, <2>1, TopHasNoCallee DEF QuietInv, Quiet
  <2>3. thread[n] /\ haltRequested[n] => at[n] = "stop"
    BY DEF QuietInv, Quiet
  <2>4. CASE ControlTick(n) \/ DecoratorTick(n)
    <3>1. TickShape(n)
      BY <1>1, <2>4, ControlShape, DecoratorShape
    <3>2. /\ UNCHANGED <<kind, param, thread, haltRequested, got, op>> /\ ~ thread[n] /\ at[n] # "leave"
          /\ \A m \in Node \ {n} : out'[m] = out[m] /\ AwaitedBy(m)' = AwaitedBy(m)
      BY <1>1, <1>a, <3>1 DEF TickShape, OnlyOwn, tree, async, caller, AwaitedBy
    <3>3. at'[n] = "leave" => out'[n] # "IDLE"
      BY <1>1, <2>2, <2>4, <3>2, TickDecides
    <3>4. CASE \E p \in FramePoints : Moves(n, p)
      <4>1. /\ at'[n] \in {"loop", "leave", "switch"} /\ \A m \in Node \ {n} : at'[m] = at[m]
        BY <1>1, <3>4 DEF Moves
      <4>2. \A i \in Indices(n) : ~ Awaits(n, i)'
        BY <4>1 DEF Awaits
      <4>3. Quiet'
        BY <2>1, <3>2, <3>3, <4>1, <4>2, StepQuiet
      <4> QED
        BY <1>b, <3>2, <4>3
    <3>5. CASE \E i \in Indices(n) : TicksChild(n, i)
      <4>1. PICK i \in Indices(n) : TicksChild(n, i)
        BY <3>5
      <4>2. Child(n, i) \in Node \ {n} /\ Parent[Child(n, i)] = n /\ at[Child(n, i)] = "off"
        BY <2>2, ChildFact DEF On
      <4>3. /\ at'[n] = "await" /\ at'[Child(n, i)] = "enter"
            /\ \A m \in Node \ {n, Child(n, i)} : at'[m] = at[m]
        BY <1>1, <4>1, <4>2 DEF TicksChild, TickChild
      <4>4. ASSUME NEW j \in Indices(n), Awaits(n, j)' PROVE On(Child(n, j))'
        <5>1. CASE kind[n] \in ControlKinds
          BY <3>2, <4>1, <4>3, <4>4, <5>1 DEF TicksChild, Awaits, On
        <5>2. CASE kind[n] \notin ControlKinds
          <6>1. kind[n] \in DecoratorKinds
            BY <1>1, <3>1, <5>2 DEF TickShape, Inv, TypeOK, Kinds
          <6>2. Count(n) = 1
            BY <1>1, <6>1, Sizes DEF Inv
          <6>3. i = j
            BY <6>2 DEF Indices
          <6> QED
            BY <4>3, <6>3 DEF On
        <5> QED
          BY <5>1, <5>2
      <4>5. Quiet'
        <5>1. \A m \in Node \ {n} :
                /\ at'[m] = at[m] \/ (at[m] = "off" /\ at'[m] \in {"enter", "stop"})
                /\ Parent[m] # n => at'[m] = at[m] /\ got'[m] = got[m]
                /\ out'[m] = out[m] /\ thread'[m] = thread[m]
                /\ at'[m] = "await" => AwaitedBy(m)' = AwaitedBy(m)
                /\ haltRequested'[m] = haltRequested[m] \/ at'[m] = "stop"
          BY <3>2, <4>2, <4>3
        <5> QED
          BY <2>1, <3>2, <4>3, <4>4, <5>1, StepQuiet
      <4> QED
        BY <1>b, <3>2, <4>5
    <3> QED
      BY <3>1, <3>4, <3>5 DEF TickShape
  <2>5. CASE ControlThrow(n) \/ DecoratorThrow(n) \/ SyncThrow(n)
    <3>1. CASE at[n] = "await" /\ kind[n] \in ControlKinds \ {"Switch"} /\ got[Child(n, AwaitedBy(n))] = "IDLE"
      <4>1. AwaitedBy(n) \in Indices(n)
        <5>1. CASE kind[n] \in MemoryKinds
          <6>1. idx[n] < Count(n)
            BY <1>1, <3>1, <5>1 DEF Inv, FrameOK
          <6>2. idx[n] \in 0 .. Count(n)
            BY <1>1, <5>1, MemoryIndex
          <6> QED
            BY <1>1, <5>1, <6>1, <6>2, Sizes DEF Inv, AwaitedBy, Indices
        <5>2. CASE kind[n] \notin MemoryKinds
          <6>1. loc[n] \in 0 .. Count(n) /\ loc[n] < Count(n)
            BY <1>1, <3>1, <5>2 DEF Inv, TypeOK, FrameOK, ControlKinds
          <6> QED
            BY <1>1, <5>2, <6>1, Sizes DEF Inv, AwaitedBy, Indices
        <5> QED
          BY <5>1, <5>2
      <4> QED
        BY <2>2, <3>1, <4>1 DEF Awaits
    <3>2. CASE DecoratorThrow(n)
      <4>1. kind[n] \in DecoratorKinds /\ kind[n] \notin ControlKinds
        BY <3>2, KindsDiffer DEF DecoratorThrow, DecoratorKinds
      <4>2. 0 \in Indices(n)
        BY <1>1, <4>1, Sizes DEF Inv
      <4> QED
        BY <2>2, <3>2, <4>1, <4>2 DEF DecoratorThrow, Awaits
    <3>3. kind[n] # "FaultySync" /\ (kind[n] = "Parallel" => Count(n) >= param[n])
          /\ (kind[n] = "Switch" => Count(n) = param[n] + 1)
      BY DEF QuietInv, WellFormed
    <3>4. Count(n) \in Nat /\ param[n] \in Int
      BY <1>1, Sizes DEF Inv, TypeOK
    <3> QED
      BY <2>5, <3>1, <3>2, <3>3, <3>4 DEF ControlThrow, SyncThrow
  <2>6. CASE HaltChild(n)
    <3>1. PICK i \in Indices(n) : /\ got' = [got EXCEPT ![Child(n, i)] = "IDLE"]
                                  /\ HaltsRunning(n, i) \/ SetsIdle(n, i)
      BY <1>1, <2>6, HaltShape
    <3>2. /\ at[n] \in HaltPoints /\ UNCHANGED <<kind, param, loc, op, out, thread>>
          /\ Child(n, i) \in Node \ {n} /\ Parent[Child(n, i)] = n /\ at[Child(n, i)] = "off"
      BY <1>1, <2>2, <2>6, ChildFact, HaltShape DEF tree, caller, On
    <3>3. /\ at'[n] = at[n] /\ out' = out /\ haltRequested'[n] = haltRequested[n]
          /\ at'[Child(n, i)] \in {"off", "stop"}
          /\ \A m \in Node \ {n, Child(n, i)} :
               /\ at'[m] = at[m] /\ got'[m] = got[m] /\ AwaitedBy(m)' = AwaitedBy(m)
               /\ haltRequested'[m] = haltRequested[m]
          /\ haltRequested'[Child(n, i)] = haltRequested[Child(n, i)] \/ at'[Child(n, i)] = "stop"
      <4>1. CASE HaltsRunning(n, i)
        BY <1>1, <3>1, <3>2, <4>1 DEF HaltsRunning, AwaitedBy
      <4>2. CASE SetsIdle(n, i)
        BY <1>1, <3>1, <3>2, <4>2 DEF SetsIdle, AwaitedBy, memory
      <4> QED
        BY <3>1, <4>1, <4>2
    <3>4. at'[n] \in {"leave", "reset"} => out'[n] # "IDLE"
      BY <3>2, <3>3 DEF QuietInv, Quiet
    <3>5. Quiet'
      <4>1. \A m \in Node \ {n} :
              /\ at'[m] = at[m] \/ (at[m] = "off" /\ at'[m] \in {"enter", "stop"})
              /\ Parent[m] # n => at'[m] = at[m] /\ got'[m] = got[m]
              /\ out'[m] = out[m] /\ thread'[m] = thread[m]
              /\ at'[m] = "await" => AwaitedBy(m)' = AwaitedBy(m)
              /\ haltRequested'[m] = haltRequested[m] \/ at'[m] = "stop"
        BY <3>2, <3>3
      <4>2. \A j \in Indices(n) : ~ Awaits(n, j)'
        BY <3>2, <3>3 DEF Awaits, HaltPoints
      <4>3. at'[n] \notin {"read", "off"} /\ (thread'[n] /\ haltRequested'[n] => at'[n] = "stop")
        BY <2>3, <3>2, <3>3 DEF HaltPoints
      <4>4. UNCHANGED kind
        BY <3>2
      <4> QED
        BY <2>1, <3>4, <4>1, <4>2, <4>3, <4>4, StepQuiet
    <3> QED
      BY <1>b, <3>2, <3>5
  <2>7. ASSUME Pop(n), UNCHANGED <<tree, memory, async, op>>, at[n] # "stop" => got'[n] # "IDLE",
               thread[n] => ~ haltRequested[n],
               \A m \in Node \ {n} : Parent[m] # n => got'[m] = got[m]
        PROVE  QuietInv'
    <3>1. /\ UNCHANGED <<kind, param, idx, thread, haltRequested>> /\ at'[n] = "off"
          /\ \A m \in Node \ {n} : at'[m] = at[m] /\ out'[m] = out[m] /\ AwaitedBy(m)' = AwaitedBy(m)
      BY <1>1, <2>7 DEF Pop, tree, memory, async, AwaitedBy, Inv, TypeOK
    <3>2. \A j \in Indices(n) : ~ Awaits(n, j)'
      BY <3>1 DEF Awaits
    <3>3. Quiet'
      BY <2>1, <2>7, <3>1, <3>2, StepQuiet
    <3> QED
      BY <1>b, <2>7, <3>1, <3>3
  <2>8. CASE Halted(n)
    BY <2>7, <2>8 DEF Halted, caller
  <2>9. CASE Ticked(n)
    <3>1. out[n] # "IDLE" /\ at[n] = "leave" /\ ~ (thread[n] /\ haltRequested[n])
      BY <2>3, <2>9 DEF Ticked, QuietInv, Quiet
    <3>2. CASE kind[n] \in DecoratorKinds
      <4>1. /\ at' = [at EXCEPT ![n] = "reset"]
            /\ UNCHANGED <<kind, param, idx, loc, out, got, op, thread, haltRequested>>
        BY <2>9, <3>2 DEF Ticked, tree, memory, caller, async
      <4>2. \A j \in Indices(n) : ~ Awaits(n, j)'
        BY <1>1, <4>1 DEF Awaits
      <4>3. \A m \in Node \ {n} : at'[m] = at[m] /\ AwaitedBy(m)' = AwaitedBy(m)
        BY <1>1, <4>1 DEF AwaitedBy
      <4>4. Quiet'
        BY <1>1, <2>1, <3>1, <4>1, <4>2, <4>3, StepQuiet
      <4> QED
        BY <1>b, <4>1, <4>4
    <3>3. CASE kind[n] \notin DecoratorKinds
      BY <1>1, <2>7, <2>9, <3>1, <3>3 DEF Ticked, caller
    <3> QED
      BY <3>2, <3>3
  <2>10. CASE ResetChild(n)
    <3>1. /\ at[n] = "reset" /\ Pop(n) /\ UNCHANGED <<tree, memory, async, op>>
          /\ kind[n] \in DecoratorKinds
      BY <1>1, <2>10 DEF ResetChild, Inv, FrameOK, caller
    <3>2. Child(n, 0) \in Node \ {n} /\ Parent[Child(n, 0)] = n
      BY <1>1, <3>1, Sizes, ChildFact DEF Inv
    <3>3. /\ got'[n] = out[n] /\ out[n] # "IDLE" /\ ~ (thread[n] /\ haltRequested[n])
          /\ \A m \in Node \ {n} : Parent[m] # n => got'[m] = got[m]
      BY <1>1, <2>3, <2>10, <3>1, <3>2 DEF ResetChild, QuietInv, Quiet
    <3> QED
      BY <2>7, <3>1, <3>3
  <2>11. CASE SyncTick(n) \/ StatefulTick(n) \/ AsyncRead(n)
    <3>1. PICK s \in Status : Return(n, s) /\ s # "IDLE"
      <4>1. kind[n] # "FaultySync" /\ status[n] \in Status /\ (at[n] = "read" => status[n] # "IDLE")
        BY <1>1 DEF QuietInv, Quiet, WellFormed
      <4> QED
        BY <2>11, <4>1 DEF SyncTick, StatefulTick, AsyncRead, Status, Done
    <3>2. at[n] # "stop"
      BY <2>11 DEF SyncTick, StatefulTick, AsyncRead
    <3>3. /\ Pop(n) /\ UNCHANGED <<tree, memory, async, op>> /\ got'[n] = s
          /\ \A m \in Node \ {n} : got'[m] = got[m]
      BY <1>1, <3>1 DEF Return, caller
    <3> QED
      BY <2>3, <2>7, <3>1, <3>2, <3>3
  <2>12. CASE AsyncStart(n)
    <3>1. /\ at' = [at EXCEPT ![n] = "read"] /\ status' = [status EXCEPT ![n] = "RUNNING"]
          /\ thread' = [thread EXCEPT ![n] = TRUE] /\ haltRequested' = [haltRequested EXCEPT ![n] = FALSE]
          /\ UNCHANGED <<kind, param, idx, loc, out, got, op>>
      BY <2>12 DEF AsyncStart, tree, memory, frame, caller
    <3>2. \A j \in Indices(n) : ~ Awaits(n, j)'
      BY <1>1, <3>1 DEF Awaits
    <3>3. \A m \in Node \ {n} : at'[m] = at[m] /\ AwaitedBy(m)' = AwaitedBy(m) /\ thread'[m] = thread[m]
                                /\ haltRequested'[m] = haltRequested[m]
      BY <1>1, <3>1 DEF AwaitedBy
    <3>4. at'[n] = "read" /\ status'[n] # "IDLE" /\ ~ haltRequested'[n]
      BY <1>1, <3>1
    <3>5. Quiet'
      BY <2>1, <3>1, <3>2, <3>3, <3>4, StepQuiet
    <3> QED
      BY <1>b, <3>1, <3>5
  <2> QED
    BY <1>3, <2>4, <2>5, <2>6, <2>8, <2>9, <2>10, <2>11, <2>12 DEF Run, LeafTick
<1>4. ASSUME NEW n \in Node, AsyncThread(n) \/ AsyncThreadThrow(n) PROVE QuietInv'
  <2>1. /\ UNCHANGED <<kind, param, at, idx, loc, out, got, op, haltRequested>>
        /\ \A m \in Node \ {n} : status'[m] = status[m]
        /\ \A m \in Node : thread'[m] => thread[m]
    BY <1>1, <1>4 DEF AsyncThread, AsyncThreadThrow, tree, memory, frame, caller
  <2>2. at[n] = "read" => status'[n] # "IDLE"
    <3>1. CASE AsyncThread(n)
      BY <1>1, <3>1 DEF AsyncThread, QuietInv, Quiet, Done
    <3>2. CASE AsyncThreadThrow(n)
      BY <3>2 DEF AsyncThreadThrow, QuietInv, Quiet
    <3> QED
      BY <1>4, <3>1, <3>2
  <2>3. \A m \in Node : (On(m)' <=> On(m)) /\ \A i \in Indices(m) : Awaits(m, i)' <=> Awaits(m, i)
    BY <2>1 DEF On, Awaits, AwaitedBy
  <2>4. Quiet'
    BY <2>1, <2>2, <2>3, ChildIsNode DEF QuietInv, Quiet
  <2> QED
    BY <1>b, <2>1, <2>4
<1>5. CASE UNCHANGED vars
  <2>1. UNCHANGED <<kind, param, at, idx, loc, out, got, op, haltRequested, thread, status>>
    BY <1>5 DEF vars, tree, memory, frame, async, caller
  <2> QED
    BY <1>b, <2>1 DEF QuietInv, Quiet, Awaits, AwaitedBy, On
<1> QED
  BY <1>2, <1>3, <1>4, <1>5 DEF Next

\* Nothing is known to be IDLE at the start.
LEMMA InitQuiet == ASSUME Init, WellFormed PROVE QuietInv
<1>1. TickInv
  BY InitTick
<1>2. op = "rest" /\ \A n \in Node : at[n] = "off" /\ ~ thread[n]
  BY DEF Init
<1> QED
  BY <1>1, <1>2 DEF QuietInv, Quiet, Awaits

\* No call of the owner throws in a tree whose synchronous actions keep to
\* SUCCESS and FAILURE and whose Parallels and Switches have the children
\* they need, even when the tick() of an asynchronous action does: no child
\* ever returns IDLE to its parent.
THEOREM WellFormedTreesNeverThrow == Spec /\ WellFormed => [](op # "thrown")
<1>1. QuietInv /\ [Next]_vars => QuietInv'
  BY NextQuiet
<1>2. Init /\ WellFormed => QuietInv
  BY InitQuiet
<1>3. QuietInv => op # "thrown"
  BY DEF QuietInv
<1> QED
  BY <1>1, <1>2, <1>3, PTL DEF Spec

\* In such a tree, between two calls, every RUNNING node hangs under a
\* RUNNING parent and alone, except below a Parallel, and haltTree() stops
\* everything: nothing is left to assume of the exceptions.
THEOREM WellFormedTreesLeaveNothingRunning ==
  Spec /\ WellFormed => [](NoOrphans /\ OneRunningChild /\ HaltStops)
<1>1. (op # "thrown")' => [UnwindsRunning(FALSE)]_vars /\ [UnwindsRunning(TRUE)]_vars
  BY DEF UnwindsRunning
<1>2. Spec /\ WellFormed => [](op # "thrown")
  BY WellFormedTreesNeverThrow
<1>3. Spec /\ [][UnwindsRunning(FALSE)]_vars => []NoOrphans
  BY NoNodeIsOrphaned
<1>4. Spec /\ [][UnwindsRunning(FALSE)]_vars => []HaltStops
  BY HaltTreeStops
<1>5. Spec /\ [][UnwindsRunning(TRUE)]_vars => []OneRunningChild
  BY OneChildRuns
<1> QED
  BY <1>1, <1>2, <1>3, <1>4, <1>5, PTL
=============================================================================
