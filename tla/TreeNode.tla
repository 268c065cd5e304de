------------------------------- MODULE TreeNode -------------------------------
(***************************************************************************)
(* The part of the engine every node type shares: the status of a node,    *)
(* executeTick() and halt() as the C++ call stack runs them, and           *)
(* haltChild()/haltChildren() of control_node.cpp and decorator_node.cpp.  *)
(*                                                                         *)
(* The stack is not a sequence.  A node calls only its own children and is *)
(* called only by its parent, so at any time the stack is a path of the    *)
(* tree: at[n] is where n's frame stands ("off" when it has none) and cur  *)
(* is the node whose frame is on top.  One step of the model runs the top  *)
(* frame from one point at which another thread can be heard to the next.  *)
(*                                                                         *)
(* An operator named ...Silent, ...Stuck, ...Forgetful, ...Shallow,        *)
(* ...Eager or ...Late is a faulty variant of the definition it stands     *)
(* before.  No action uses it: it is there to show which property notices  *)
(* the fault.                                                              *)
(***************************************************************************)
EXTENDS Integers, Sequences, FiniteSets

CONSTANTS
  Node,         \* the node objects of one tree
  NoNode,       \* no node: an empty call stack, the parent of the root
  Root,         \* Tree::rootNode()
  Children,     \* [Node -> Seq(Node)]: children_nodes_, or <<child_node_>>
  Parent,       \* [Node -> Node \cup {NoNode}]: the inverse of Children
  Trees,        \* the assignments of a type and a parameter to the nodes
  DefaultNamed  \* the nodes whose name() is the ID of their type

MemoryKinds    == {"Sequence", "Fallback", "SequenceStar"}
ReactiveKinds  == {"ReactiveSequence", "ReactiveFallback"}
ControlKinds   == MemoryKinds \cup ReactiveKinds \cup {"Parallel", "Switch"}
LoopKinds      == {"Repeat", "RetryUntilSuccesful"}
DecoratorKinds == LoopKinds \cup {"Inverter", "ForceSuccess", "ForceFailure",
                                  "SubTree", "BlackboardCheck"}
AsyncKinds     == {"Async", "FaultyAsync"}
LeafKinds      == AsyncKinds \cup {"Sync", "FaultySync", "Stateful"}
Kinds          == ControlKinds \cup DecoratorKinds \cup LeafKinds

Done   == {"SUCCESS", "FAILURE"}
Status == Done \cup {"IDLE", "RUNNING"}

Count(n)    == Len(Children[n])
Indices(n)  == 0 .. Count(n) - 1
Child(n, i) == Children[n][i + 1]
Kids(n)     == {Child(n, i) : i \in Indices(n)}

\* The factory builds a tree from the root down, one node below the other.
ASSUME TreeAssumption ==
  /\ NoNode \notin Node /\ Root \in Node /\ DefaultNamed \subseteq Node
  /\ IsFiniteSet(Node)
  /\ Children \in [Node -> Seq(Node)]
  /\ Parent \in [Node -> Node \cup {NoNode}] /\ Parent[Root] = NoNode
  /\ \A n \in Node : \A i \in Indices(n) :
        /\ Parent[Child(n, i)] = n /\ Child(n, i) # n
        /\ \A j \in Indices(n) : Child(n, i) = Child(n, j) => i = j
  /\ \A c \in Node \ {Root} : Parent[c] \in Node /\ c \in Kids(Parent[c])
  /\ \E depth \in [Node -> 0 .. Cardinality(Node)] :
        depth[Root] = 0 /\ \A c \in Node \ {Root} : depth[c] = depth[Parent[c]] + 1

\* A decorator has exactly one child, a leaf none.
ASSUME TreesAssumption ==
  /\ Trees \subseteq [kind : [Node -> Kinds], param : [Node -> Int]]
  /\ \A t \in Trees, n \in Node :
        /\ t.kind[n] \in DecoratorKinds => Count(n) = 1
        /\ t.kind[n] \in LeafKinds => Count(n) = 0

VARIABLES
  kind, param,    \* the tree: the type of each node and its threshold_,
                  \* max_attempts_, num_cycles_, NUM_CASES or mismatch result
  status,         \* TreeNode::status_
  idx,            \* current_child_idx_, try_index_ or running_child_
  skip,           \* ParallelNode::skip_list_
  thread,         \* is the std::async thread of an AsyncActionNode running?
  haltRequested,  \* AsyncActionNode::halt_requested_
  at, cur,        \* the call stack
  loc,            \* the loop index of the frame's for statement
  todo,           \* the children the frame has still to halt
  out,            \* what the frame's executeTick() will return
  got,            \* what executeTick() of a node returned to its caller
  op, visit       \* the Tree method in progress, and its visitor's stack

tree   == <<kind, param>>
memory == <<idx, skip>>
async  == <<thread, haltRequested>>
frame  == <<loc, todo, out>>
caller == <<op, visit>>
vars   == <<tree, status, memory, async, at, cur, frame, got, caller>>

\* The value of a node's members when it is constructed and after its halt().
FirstIdx(k) == IF k = "Switch" THEN -1 ELSE 0

Init ==
  /\ \E t \in Trees : kind = t.kind /\ param = t.param
  /\ status = [n \in Node |-> "IDLE"]
  /\ idx = [n \in Node |-> FirstIdx(kind[n])]
  /\ skip = [n \in Node |-> {}]
  /\ thread = [n \in Node |-> FALSE]
  /\ haltRequested = [n \in Node |-> FALSE]
  /\ at = [n \in Node |-> "off"]
  /\ cur = NoNode
  /\ loc = [n \in Node |-> 0]
  /\ todo = [n \in Node |-> {}]
  /\ out = [n \in Node |-> "IDLE"]
  /\ got = [n \in Node |-> "IDLE"]
  /\ op = "rest"
  /\ visit = <<>>

-----------------------------------------------------------------------------
(* Pieces the tick() of every node type is written with.                   *)

\* n, on top of the stack, calls executeTick() of its child i.
TickChild(n, i) ==
  /\ at' = [at EXCEPT ![n] = "await", ![Child(n, i)] = "enter"]
  /\ cur' = Child(n, i)

\* n's tick() halts the children in H, then returns s.
Leave(n, s, H) ==
  /\ at' = [at EXCEPT ![n] = "leave"]
  /\ todo' = [todo EXCEPT ![n] = H]
  /\ out' = [out EXCEPT ![n] = s]
  /\ UNCHANGED cur

\* The frame of n returns and its locals are gone.  The Tree methods call the
\* root, and haltTree()'s visitor any node; every other call comes from the
\* parent.
Pop(n) ==
  /\ at' = [at EXCEPT ![n] = "off"]
  /\ cur' = IF n # Root /\ at[Parent[n]] # "off" THEN Parent[n] ELSE NoNode
  /\ loc' = [loc EXCEPT ![n] = 0]
  /\ out' = [out EXCEPT ![n] = "IDLE"]

\* The virtual call n->halt(): the override resets the members of its class
\* first, and AsyncActionNode::halt() raises its flag.
ResetMembersForgetful(n) ==
  /\ skip' = [skip EXCEPT ![n] = {}]
  /\ haltRequested' = [haltRequested EXCEPT ![n] = (kind[n] \in AsyncKinds)]
  /\ UNCHANGED idx

ResetMembers(n) ==
  /\ idx' = [idx EXCEPT ![n] = FirstIdx(kind[n])]
  /\ skip' = [skip EXCEPT ![n] = {}]
  /\ haltRequested' = [haltRequested EXCEPT ![n] = (kind[n] \in AsyncKinds)]

CallHalt(n) ==
  /\ ResetMembers(n)
  /\ at' = [at EXCEPT ![n] = "stop"]
  /\ cur' = n
  /\ todo' = [todo EXCEPT ![n] = Indices(n)]

-----------------------------------------------------------------------------
(* haltChild(i), for the lowest i that is left: only a RUNNING child is    *)
(* halted, any other is set IDLE and keeps its members and its subtree.    *)
(* Every call of halt() is followed by setStatus(IDLE) in its caller, so   *)
(* Halted does both.                                                       *)
HaltPoints == {"leave", "switch", "stop"}

HaltChildShallow(n) ==
  /\ at[n] \in HaltPoints
  /\ \E i \in todo[n] :
       /\ got' = [got EXCEPT ![Child(n, i)] = "IDLE"]
       /\ status' = [status EXCEPT ![Child(n, i)] = "IDLE"]
       /\ todo' = [todo EXCEPT ![n] = @ \ {i}]
  /\ UNCHANGED <<tree, memory, async, at, cur, loc, out, caller>>

HaltChild(n) ==
  /\ at[n] \in HaltPoints
  /\ \E i \in todo[n] :
       LET c == Child(n, i) IN
       /\ \A j \in todo[n] : i <= j
       /\ got' = [got EXCEPT ![c] = "IDLE"]
       /\ \/ /\ status[c] = "RUNNING"
             /\ at' = [at EXCEPT ![c] = "stop"]
             /\ cur' = c
             /\ todo' = [todo EXCEPT ![n] = @ \ {i}, ![c] = Indices(c)]
             /\ ResetMembers(c)
             /\ UNCHANGED status
          \/ /\ status[c] # "RUNNING"
             /\ status' = [status EXCEPT ![c] = "IDLE"]
             /\ todo' = [todo EXCEPT ![n] = @ \ {i}]
             /\ UNCHANGED <<at, cur, memory, haltRequested>>
  /\ UNCHANGED <<tree, thread, loc, out, caller>>

\* halt() returns: its children are halted and, for an AsyncActionNode, the
\* wait for the thread is over.
HaltedEager(n) ==
  /\ at[n] = "stop" /\ todo[n] = {}
  /\ status' = [status EXCEPT ![n] = "IDLE"]
  /\ Pop(n)
  /\ UNCHANGED <<tree, memory, async, todo, got, caller>>

Halted(n) ==
  /\ at[n] = "stop" /\ todo[n] = {} /\ ~ thread[n]
  /\ status' = [status EXCEPT ![n] = "IDLE"]
  /\ Pop(n)
  /\ UNCHANGED <<tree, memory, async, todo, got, caller>>

\* TreeNode::executeTick(): setStatus() of what tick() returned.
Ticked(n) ==
  /\ at[n] = "leave" /\ todo[n] = {}
  /\ status' = [status EXCEPT ![n] = out[n]]
  /\ IF kind[n] \in DecoratorKinds
     THEN /\ at' = [at EXCEPT ![n] = "reset"]
          /\ UNCHANGED <<cur, loc, out, got>>
     ELSE /\ Pop(n)
          /\ got' = [got EXCEPT ![n] = out[n]]
  /\ UNCHANGED <<tree, memory, async, todo, caller>>

\* DecoratorNode::executeTick(): what the child's status is by now decides
\* whether it is reset.
ResetChildForgetful(n) ==
  /\ at[n] = "reset"
  /\ got' = [got EXCEPT ![n] = out[n]]
  /\ Pop(n)
  /\ UNCHANGED <<tree, status, memory, async, todo, caller>>

ResetChild(n) ==
  /\ at[n] = "reset"
  /\ LET c == Child(n, 0)
         After(s) == IF status[c] \in Done THEN "IDLE" ELSE s IN
     /\ status' = [status EXCEPT ![c] = After(@)]
     /\ got' = [got EXCEPT ![n] = out[n], ![c] = After(@)]
  /\ Pop(n)
  /\ UNCHANGED <<tree, memory, async, todo, caller>>

\* An exception leaves every frame: no destructor on the way restores a
\* status or a member.
Unwind ==
  /\ at' = [n \in Node |-> "off"]
  /\ cur' = NoNode
  /\ todo' = [n \in Node |-> {}]
  /\ loc' = [n \in Node |-> 0]
  /\ out' = [n \in Node |-> "IDLE"]
  /\ op' = "thrown"
  /\ UNCHANGED <<tree, memory, async, got, visit>>

Throw == Unwind /\ UNCHANGED status
=============================================================================
