----------------------------- MODULE BehaviorTree -----------------------------
(***************************************************************************)
(* A tree and its owner: Tree::tickRoot() and Tree::haltTree() of          *)
(* bt_factory.h drive the nodes; the threads of the asynchronous actions   *)
(* run beside them.                                                        *)
(***************************************************************************)
EXTENDS ControlNodes, DecoratorNodes, ActionNodes

AtRest == op \in {"rest", "thrown"}

\* tickRoot() calls executeTick() of the root.
TickRoot ==
  /\ op = "rest"
  /\ op' = "tick"
  /\ at' = [at EXCEPT ![Root] = "enter"]
  /\ cur' = Root
  /\ UNCHANGED <<tree, status, memory, async, frame, got, visit>>

\* ... and sets a root that has decided IDLE.
TickRootReturn ==
  /\ op = "tick" /\ cur = NoNode
  /\ op' = "rest"
  /\ status' = IF got[Root] \in Done THEN [status EXCEPT ![Root] = "IDLE"] ELSE status
  /\ UNCHANGED <<tree, memory, async, at, cur, frame, got, visit>>

\* haltTree() halts the root, also after an exception its caller caught.
HaltTree ==
  /\ AtRest
  /\ op' = "halt"
  /\ CallHalt(Root)
  /\ UNCHANGED <<tree, status, thread, loc, out, got, visit>>

HaltTreeVisit ==
  /\ op = "halt" /\ cur = NoNode
  /\ op' = "visit"
  /\ visit' = <<Root>>
  /\ UNCHANGED <<tree, status, memory, async, at, cur, frame, got>>

\* applyRecursiveVisitor() descends by the name of a node, in preorder.
VisitedInside == {"Sequence", "Fallback", "SequenceStar", "Inverter", "Repeat",
                  "RetryUntilSuccesful", "SubTree"}

Descends(n) == n \in DefaultNamed /\ kind[n] \in VisitedInside

VisitNode ==
  /\ op = "visit" /\ cur = NoNode /\ visit # <<>>
  /\ LET n == Head(visit) IN
       /\ CallHalt(n)
       /\ visit' = (IF Descends(n) THEN Children[n] ELSE <<>>) \o Tail(visit)
  /\ UNCHANGED <<tree, status, thread, loc, out, got, op>>

HaltTreeReturn ==
  /\ op = "visit" /\ cur = NoNode /\ visit = <<>>
  /\ op' = "rest"
  /\ UNCHANGED <<tree, status, memory, async, at, cur, frame, got, visit>>

Owner == TickRoot \/ TickRootReturn
         \/ HaltTree \/ HaltTreeVisit \/ VisitNode \/ HaltTreeReturn

\* The thread that called the owner's method runs the frame on top.
Run(n) ==
  /\ cur = n
  /\ \/ ControlTick(n) \/ DecoratorTick(n) \/ LeafTick(n)
     \/ ControlThrow(n) \/ DecoratorThrow(n)
     \/ HaltChild(n) \/ Halted(n) \/ Ticked(n) \/ ResetChild(n)

Next == Owner \/ (\E n \in Node : Run(n)) \/ (\E n \in Node : AsyncThread(n) \/ AsyncThreadThrow(n))

Spec == Init /\ [][Next]_vars

-----------------------------------------------------------------------------
FramePoints == {"off", "enter", "loop", "await", "read", "leave", "switch",
                "stop", "reset"}

\* The values of current_child_idx_ (one past the last child when the loop
\* of a tick() ends), running_child_ and try_index_.
IndexRange(n) ==
  CASE kind[n] \in MemoryKinds -> 0 .. Count(n)
    [] kind[n] = "Switch" -> -1 .. Count(n) - 1
    [] kind[n] \in LoopKinds -> Nat
    [] OTHER -> {0}

\* Every variable holds a value of the type its member has in the source, and
\* every index into children_nodes_ is an index of a child.
TypeOK ==
  /\ kind \in [Node -> Kinds] /\ param \in [Node -> Int]
  /\ status \in [Node -> Status]
  /\ \A n \in Node : idx[n] \in IndexRange(n) /\ skip[n] \subseteq Indices(n)
  /\ idx \in [Node -> Int] /\ skip \in [Node -> SUBSET Int]
  /\ thread \in [Node -> BOOLEAN] /\ haltRequested \in [Node -> BOOLEAN]
  /\ at \in [Node -> FramePoints] /\ cur \in Node \cup {NoNode}
  /\ \A n \in Node : loc[n] \in 0 .. Count(n) /\ todo[n] \subseteq Indices(n)
  /\ loc \in [Node -> Int] /\ todo \in [Node -> SUBSET Int]
  /\ out \in [Node -> Status] /\ got \in [Node -> Status]
  /\ op \in {"rest", "tick", "halt", "visit", "thrown"}
  /\ visit \in Seq(Node)

-----------------------------------------------------------------------------
(* Between two calls of the owner.                                         *)

\* Between two calls of the owner a RUNNING node hangs under a RUNNING
\* parent: no node that decided, was reset or was halted leaves a node below
\* it running.  haltChild() relies on it when it looks no deeper than the
\* first child that is not RUNNING (control_node.cpp:44-52).
NoOrphans ==
  op = "rest" =>
    \A n \in Node \ {Root} : status[n] = "RUNNING" => status[Parent[n]] = "RUNNING"

\* Between two calls of the owner at most one child of a node that is not a
\* Parallel is RUNNING: what a Sequence left behind on a failure, what a
\* reactive node or a Switch abandoned for another child, has been halted.
OneRunningChild ==
  op = "rest" =>
    \A n \in Node : kind[n] # "Parallel" =>
      \A c, d \in Kids(n) :
        status[c] = "RUNNING" /\ status[d] = "RUNNING" => c = d

\* Once haltTree() has halted the root nothing in the tree runs any more, no
\* thread of an asynchronous action included, even before the visitor starts
\* (bt_factory.h:163-168 calls the visitor a no-op).
HaltStops ==
  op = "visit" => \A n \in Node : status[n] # "RUNNING" /\ ~ thread[n]

\* The nodes the visitor of haltTree() comes to: the root and, from a node it
\* descends into, the children.
Visited(n) ==
  \A S \in SUBSET Node :
    Root \in S /\ (\A m \in S : Descends(m) => Kids(m) \subseteq S) => n \in S

AsConstructed(n) == status[n] = "IDLE" /\ idx[n] = FirstIdx(kind[n]) /\ skip[n] = {}

\* When haltTree() returns every node it could come to by name is as it was
\* constructed: IDLE, and without an index or a skip list from before the halt.
HaltForgets ==
  (op = "visit" /\ visit = <<>> /\ cur = NoNode) =>
    \A n \in Node : Visited(n) => AsConstructed(n)

-----------------------------------------------------------------------------
(* During a tick.                                                          *)

\* The thread of an asynchronous action runs only while the status of the
\* node is RUNNING: nobody resets a node whose thread is still alive, so that
\* executeTick() cannot start a second one.
ThreadIsRunning == \A n \in Node : thread[n] => status[n] = "RUNNING"

\* A child in the skip list of a Parallel has the result it was put there
\* for; the counters of a later tick() are rebuilt from it.
SkippedAreDone ==
  \A n \in Node : \A i \in skip[n] : status[Child(n, i)] \in Done

\* A leaf without a thread of its own is ticked only when it is IDLE or
\* RUNNING, unless a node above it ticks again what has decided, as the
\* reactive nodes do for every child and Retry and Repeat for theirs.  A
\* StatefulActionNode that still holds a result would return that result
\* without doing anything (action_node.h:25-27).
FreshLeaf ==
  (\A m \in Node : at[m] # "off" => kind[m] \notin ReactiveKinds \cup LoopKinds) =>
    \A n \in Node : at[n] = "enter" /\ kind[n] \in LeafKinds \ AsyncKinds =>
      status[n] \notin Done

\* What a chain of decorators may leave behind by its resets and its halts:
\* no running node below one that is not, no thread that nobody waits for,
\* nothing running after haltTree(), and no old result in a leaf it ticks.
NothingLeft == ThreadIsRunning /\ NoOrphans /\ HaltStops /\ FreshLeaf

\* The results the children returned last justify what their parent is about
\* to return.
AllGot(n, s)     == \A c \in Kids(n) : got[c] = s
FirstNot(n, s, t) ==
  \E i \in Indices(n) : /\ got[Child(n, i)] = t
                        /\ \A j \in 0 .. i - 1 : got[Child(n, j)] = s
HowMany(n, s)    == Cardinality({c \in Kids(n) : got[c] = s})

Justified(n) ==
  LET s == out[n] IN
  CASE kind[n] \in {"Sequence", "SequenceStar", "ReactiveSequence"} ->
         IF s = "SUCCESS" THEN AllGot(n, s) ELSE FirstNot(n, "SUCCESS", s)
    [] kind[n] \in {"Fallback", "ReactiveFallback"} ->
         IF s = "FAILURE" THEN AllGot(n, s) ELSE FirstNot(n, "FAILURE", s)
    [] kind[n] = "Parallel" ->
         /\ s = "SUCCESS" <=> HowMany(n, "SUCCESS") >= param[n]
         /\ s = "FAILURE" <=> HowMany(n, "FAILURE") > Count(n) - param[n]
    [] OTHER -> TRUE

\* A control node returns SUCCESS, FAILURE or RUNNING exactly when the
\* results its children gave it since it last decided call for it, however
\* many ticks, halts and resets of siblings lie in between.
Verdicts ==
  [][\A n \in Node : at[n] # "leave" /\ at'[n] = "leave" => Justified(n)']_vars

\* What a child has come to is never thrown away by a decorator that reports
\* the child as still RUNNING: a decorator resets its child only after a tick
\* in which the child's own result came back.
ResultDelivered ==
  [][\A n \in Node :
       at[n] = "reset" /\ at'[n] = "off" /\ kind[n] # "BlackboardCheck" =>
         LET c == Child(n, 0) IN
         status[c] \in Done /\ status'[c] = "IDLE" => got[c] = status[c]]_vars

-----------------------------------------------------------------------------
(* Liveness.  The owner's thread goes on running what it has called, the   *)
(* owner goes on ticking its tree, and the tick() of an asynchronous       *)
(* action ends, sooner or later.                                           *)
FairSpec ==
  /\ Spec
  /\ \A n \in Node : WF_vars(Run(n)) /\ WF_vars(AsyncThread(n))
  /\ WF_vars(TickRoot) /\ WF_vars(TickRootReturn)
  /\ WF_vars(HaltTreeVisit \/ VisitNode \/ HaltTreeReturn)

\* Every tickRoot() and every haltTree() returns: the wait for a thread in
\* AsyncActionNode::halt() ends, and no loop of a tick() goes on for ever.
CallsReturn == ~ AtRest ~> AtRest

\* A root that is RUNNING does not stay RUNNING: in a tree whose actions end
\* and whose nodes resume the child they left RUNNING, some tick decides.  A
\* reactive node or a Switch may abandon one running child for another in
\* turn, and a StatefulActionNode may stay RUNNING.
ActionsEnd == \A n \in Node : kind[n] \in LeafKinds => kind[n] \in {"Sync", "Async"}
Resuming   == \A n \in Node : kind[n] \notin ReactiveKinds \cup {"Switch"}

RootDecides ==
  (ActionsEnd /\ Resuming /\ op = "rest" /\ status[Root] = "RUNNING") ~> (status[Root] = "IDLE")
=============================================================================
