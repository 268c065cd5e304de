----------------------------- MODULE TimeoutNode -----------------------------
(***************************************************************************)
(* decorators/timeout_node.cpp at the root of a tree with one leaf: the    *)
(* owner of the tree ticks, halts and destroys it, and the worker of the   *)
(* node's timer calls the handler, which may halt the leaf on its own      *)
(* thread.  The timer is TimerService, which TimerQueue implements.        *)
(*                                                                         *)
(* An operator named ...Eager, ...Stuck, ...Forgetful or ...Swapped is a   *)
(* faulty variant of the definition it stands before.  No action uses it.  *)
(***************************************************************************)
EXTENDS Naturals, FiniteSets

CONSTANTS
  Durations,  \* the values of msec_
  MaxTimers,  \* bound: no more timers than this are added
  MaxTime     \* bound: the clock stops here

ASSUME TimeoutAssumption ==
  Durations \subseteq Nat /\ MaxTimers \in Nat /\ MaxTime \in Nat

VARIABLES
  now, added, due, cancelled, expired, aborted,  \* timer_, see TimerService
  msec,             \* msec_
  status,           \* status_ of the TimeoutNode
  timeout_started, child_halted, timer_id,
  mutex,            \* who holds timeout_mutex_
  kind, child,      \* the leaf: its type and its status_
  thread, haltRequested,  \* ... and of an AsyncActionNode, see TreeNode
  at, out,          \* where the owner stands, and what tick() will return
  hat, handler,     \* where the worker stands in the handler of which timer
  since             \* history: when the tick() began that the leaf became RUNNING in

timer == <<now, added, due, cancelled, expired, aborted>>
node  == <<msec, status, timeout_started, child_halted, timer_id>>
leaf  == <<kind, child, thread, haltRequested, since>>
owner == <<at, out>>
work  == <<hat, handler>>
vars  == <<timer, node, mutex, leaf, owner, work>>

Timer == INSTANCE TimerService

Done   == {"SUCCESS", "FAILURE"}
Status == Done \cup {"IDLE", "RUNNING"}

Init ==
  /\ now = 0 /\ added = 0 /\ due = [id \in {} |-> 0]
  /\ cancelled = {} /\ expired = {} /\ aborted = {}
  /\ msec \in Durations
  /\ status = "IDLE" /\ timeout_started = FALSE /\ child_halted = FALSE /\ timer_id = 0
  /\ mutex = "free"
  /\ kind \in {"Stateful", "Async"} /\ child = "IDLE" /\ thread = FALSE /\ haltRequested = FALSE
  /\ at = "rest" /\ out = "IDLE"
  /\ hat = "idle" /\ handler = 0
  /\ since = 0

-----------------------------------------------------------------------------
(* The owner: tickRoot().                                                  *)

\* tick() starts a timeout unless one is under way.
TickStart ==
  /\ at = "rest"
  /\ IF timeout_started
     THEN at' = "lock" /\ UNCHANGED node
     ELSE /\ msec > 0 => added < MaxTimers /\ now + msec <= MaxTime
          /\ at' = IF msec > 0 THEN "add" ELSE "lock"
          /\ timeout_started' = TRUE
          /\ status' = "RUNNING"
          /\ child_halted' = FALSE
          /\ UNCHANGED <<msec, timer_id>>
  /\ since' = IF child = "RUNNING" THEN since ELSE now
  /\ UNCHANGED <<timer, mutex, kind, child, thread, haltRequested, out, work>>

AddTimer ==
  /\ at = "add"
  /\ added' = added + 1
  /\ due' = [id \in 1 .. added + 1 |-> IF id = added + 1 THEN now + msec ELSE due[id]]
  /\ timer_id' = added + 1
  /\ at' = "lock"
  /\ UNCHANGED <<now, cancelled, expired, aborted, msec, status, timeout_started,
                 child_halted, mutex, leaf, out, work>>

Lock ==
  /\ at = "lock" /\ mutex = "free"
  /\ mutex' = "owner"
  /\ at' = "locked"
  /\ UNCHANGED <<timer, node, leaf, out, work>>

\* The handler has halted the child: tick() returns FAILURE and unlocks.
ReportTimeoutSwapped ==
  /\ at = "locked" /\ child_halted
  /\ timeout_started' = FALSE
  /\ out' = "RUNNING"
  /\ mutex' = "free"
  /\ at' = "leave"
  /\ UNCHANGED <<timer, msec, status, child_halted, timer_id, leaf, work>>

ReportTimeout ==
  /\ at = "locked" /\ child_halted
  /\ timeout_started' = FALSE
  /\ out' = "FAILURE"
  /\ mutex' = "free"
  /\ at' = "leave"
  /\ UNCHANGED <<timer, msec, status, child_halted, timer_id, leaf, work>>

\* The child returned s.  The lock is given up for the call of cancel().
ChildReturned(s) ==
  /\ out' = s
  /\ mutex' = "free"
  /\ timeout_started' = (s = "RUNNING")
  /\ at' = IF s = "RUNNING" THEN "leave" ELSE "cancel"
  /\ UNCHANGED <<timer, msec, status, child_halted, timer_id, work>>

\* executeTick() of the child, see ActionNodes.
TickStateful ==
  /\ kind = "Stateful" /\ at = "locked" /\ ~ child_halted
  /\ \E s \in IF child \in Done THEN {child} ELSE Done \cup {"RUNNING"} :
       /\ child' = s
       /\ ChildReturned(s)
  /\ UNCHANGED <<kind, thread, haltRequested, since>>

StartAsync ==
  /\ kind = "Async" /\ at = "locked" /\ ~ child_halted /\ child = "IDLE"
  /\ child' = "RUNNING"
  /\ thread' = TRUE
  /\ haltRequested' = FALSE
  /\ at' = "read"
  /\ UNCHANGED <<timer, node, mutex, kind, since, out, work>>

ReadAsync ==
  /\ kind = "Async"
  /\ at = "read" \/ (at = "locked" /\ ~ child_halted /\ child # "IDLE")
  /\ ChildReturned(child)
  /\ UNCHANGED leaf

\* timer_.cancel(timer_id_): it finds the timer unless its handler was called
\* or it was cancelled before, or the worker has just taken it.
CancelTimer ==
  /\ at = "cancel"
  /\ \/ timer_id \in Timer!Pending \ cancelled /\ Timer!Cancel({timer_id})
     \/ /\ timer_id \in Timer!Pending \ cancelled => hat = "idle" /\ due[timer_id] <= now
        /\ UNCHANGED timer
  /\ at' = "relock"
  /\ UNCHANGED <<node, mutex, leaf, out, work>>

\* ... which tick() locks once more before it returns.
Relock ==
  /\ at = "relock" /\ mutex = "free"
  /\ at' = "leave"
  /\ UNCHANGED <<timer, node, mutex, leaf, out, work>>

Ticked ==
  /\ at = "leave"
  /\ status' = out
  /\ at' = "reset"
  /\ UNCHANGED <<timer, msec, timeout_started, child_halted, timer_id, mutex, leaf, out, work>>

\* DecoratorNode::executeTick() resets a child that is done, tickRoot() the root.
ResetChild ==
  /\ at = "reset"
  /\ child' = IF child \in Done THEN "IDLE" ELSE child
  /\ status' = IF out \in Done THEN "IDLE" ELSE status
  /\ at' = "rest"
  /\ out' = "IDLE"
  /\ UNCHANGED <<timer, msec, timeout_started, child_halted, timer_id, mutex,
                 kind, thread, haltRequested, since, work>>

-----------------------------------------------------------------------------
(* The owner: haltTree() and ~Tree().                                      *)

\* TimeoutNode does not override DecoratorNode::halt(): a running child is
\* halted without timeout_mutex_, and the timer is left as it is.
HaltStart ==
  /\ at = "rest"
  /\ at' = "halting"
  /\ haltRequested' = (haltRequested \/ (kind = "Async" /\ child = "RUNNING"))
  /\ UNCHANGED <<timer, node, mutex, kind, child, thread, since, out, work>>

HaltEndEager ==
  /\ at = "halting"
  /\ child' = "IDLE"
  /\ status' = "IDLE"
  /\ at' = "rest"
  /\ UNCHANGED <<timer, msec, timeout_started, child_halted, timer_id, mutex,
                 kind, thread, haltRequested, since, out, work>>

HaltEnd ==
  /\ at = "halting" /\ ~ thread
  /\ child' = "IDLE"
  /\ status' = "IDLE"
  /\ at' = "rest"
  /\ UNCHANGED <<timer, msec, timeout_started, child_halted, timer_id, mutex,
                 kind, thread, haltRequested, since, out, work>>

\* ~TimeoutNode(), of a tree that was halted: cancelAll(), which misses a timer
\* the worker has just taken; then timeout_mutex_, declared last, is gone.
Destroy ==
  /\ at = "rest" /\ status = "IDLE" /\ child = "IDLE"
  /\ \E taken \in SUBSET Timer!Pending :
       /\ Cardinality(taken) <= IF hat = "idle" THEN 1 ELSE 0
       /\ \A id \in taken : id \in cancelled \/ due[id] <= now
       /\ Timer!Cancel(Timer!Pending \ taken)
  /\ at' = "join"
  /\ UNCHANGED <<node, mutex, leaf, out, work>>

\* ~TimerQueue() of timer_, declared first, returns.
Joined ==
  /\ at = "join" /\ Timer!Pending = {} /\ hat = "idle"
  /\ at' = "gone"
  /\ UNCHANGED <<timer, node, mutex, leaf, out, work>>

-----------------------------------------------------------------------------
(* The worker of the timer calls one handler after the other.              *)
HandlerCall(id) ==
  /\ hat = "idle" /\ at # "gone"
  /\ Timer!Expire(id) \/ Timer!Abort(id)
  /\ hat' = "lock"
  /\ handler' = id
  /\ UNCHANGED <<node, mutex, leaf, owner>>

HandlerLockEager ==
  /\ hat = "lock"
  /\ mutex' = "worker"
  /\ hat' = "check"
  /\ UNCHANGED <<timer, node, leaf, owner, handler>>

HandlerLock ==
  /\ hat = "lock" /\ mutex = "free"
  /\ mutex' = "worker"
  /\ hat' = "check"
  /\ UNCHANGED <<timer, node, leaf, owner, handler>>

\* The handler has nothing to do and unlocks, ...
HandlerPassSwapped ==
  /\ hat = "check" /\ (handler \in expired \/ child # "RUNNING")
  /\ mutex' = "free"
  /\ hat' = "idle"
  /\ handler' = 0
  /\ UNCHANGED <<timer, node, leaf, owner>>

HandlerPass ==
  /\ hat = "check" /\ (handler \in aborted \/ child # "RUNNING")
  /\ mutex' = "free"
  /\ hat' = "idle"
  /\ handler' = 0
  /\ UNCHANGED <<timer, node, leaf, owner>>

\* ... or it sets child_halted_ and calls haltChild(), ...
HandlerHalt ==
  /\ hat = "check" /\ handler \notin aborted /\ child = "RUNNING"
  /\ child_halted' = TRUE
  /\ haltRequested' = (kind = "Async")
  /\ hat' = "halting"
  /\ UNCHANGED <<timer, msec, status, timeout_started, timer_id, mutex, kind, child,
                 thread, since, owner, handler>>

\* ... which waits for the thread of the child.
HandlerHaltedStuck ==
  /\ hat = "halting" /\ ~ thread
  /\ child' = "IDLE"
  /\ hat' = "idle"
  /\ handler' = 0
  /\ UNCHANGED <<timer, node, mutex, kind, thread, haltRequested, since, owner>>

HandlerHalted ==
  /\ hat = "halting" /\ ~ thread
  /\ child' = "IDLE"
  /\ mutex' = "free"
  /\ hat' = "idle"
  /\ handler' = 0
  /\ UNCHANGED <<timer, node, kind, thread, haltRequested, since, owner>>

\* The thread of an AsyncActionNode, see ActionNodes.
ChildThread ==
  /\ thread
  /\ \E s \in IF haltRequested THEN Done \cup {"IDLE"} ELSE Done : child' = s
  /\ thread' = FALSE
  /\ UNCHANGED <<timer, node, mutex, kind, haltRequested, since, owner, work>>

Tick ==
  /\ now < MaxTime
  /\ Timer!Tick
  /\ UNCHANGED <<node, mutex, leaf, owner, work>>

Going ==
  \/ AddTimer \/ Lock \/ ReportTimeout \/ TickStateful \/ StartAsync \/ ReadAsync
  \/ CancelTimer \/ Relock \/ Ticked \/ ResetChild \/ HaltEnd \/ Joined

Handler == HandlerLock \/ HandlerPass \/ HandlerHalt \/ HandlerHalted

Next ==
  \/ TickStart \/ HaltStart \/ Destroy \/ Going
  \/ (\E id \in 1 .. added : HandlerCall(id)) \/ Handler
  \/ ChildThread \/ Tick

Spec == Init /\ [][Next]_vars

-----------------------------------------------------------------------------
TimerTypes ==
  /\ now \in Nat /\ added \in Nat /\ due \in [1 .. added -> Nat]
  /\ cancelled \subseteq 1 .. added /\ expired \subseteq 1 .. added /\ aborted \subseteq 1 .. added

NodeTypes ==
  /\ msec \in Nat /\ status \in Status /\ timer_id \in 0 .. added
  /\ timeout_started \in BOOLEAN /\ child_halted \in BOOLEAN
  /\ mutex \in {"free", "owner", "worker"}
  /\ kind \in {"Stateful", "Async"} /\ child \in Status
  /\ thread \in BOOLEAN /\ haltRequested \in BOOLEAN
  /\ at \in {"rest", "add", "lock", "locked", "read", "cancel", "relock", "leave",
              "reset", "halting", "join", "gone"}
  /\ out \in Status
  /\ hat \in {"idle", "lock", "check", "halting"}
  /\ handler \in 0 .. added /\ (hat # "idle" => handler # 0)
  /\ since \in Nat

\* Every variable holds a value of the type its member has in the source, and
\* timer_id_ is an id that add() has returned.
TypeOK == TimerTypes /\ NodeTypes

\* The handler never halts the child while the owner is inside executeTick()
\* of the child: timeout_mutex_ keeps them apart.
NotHaltedInTick ==
  at \in {"locked", "read"} => hat \notin {"check", "halting"}

\* A child is RUNNING only while its timeout has been started: whatever ends
\* the timeout, a result, the handler or a halt, has ended the child.
RunsUnderTimeout == child = "RUNNING" => timeout_started

\* tick() never returns IDLE, which its parent would throw for: a child that
\* the handler has halted, or is halting, is not ticked.
NeverIdle == at = "leave" => out # "IDLE"

\* The thread of the child runs only while the child is RUNNING, although two
\* threads may halt it at the same time.
ThreadIsRunning == thread => child = "RUNNING"

\* The timer halts only a child that has been RUNNING longer than msec_
\* (timeout_node.h, "자식 노드가 지정된 시간보다 오래 RUNNING 상태로 있으면").
NotCutShort ==
  [][~ child_halted /\ child_halted' => now >= since + msec]_vars

-----------------------------------------------------------------------------
(* Liveness.  The owner's thread and the worker go on, the owner goes on   *)
(* ticking, and the tick() of an asynchronous child ends.  The owner gives *)
(* timeout_mutex_ up between two ticks; the worker, when it waits for it,  *)
(* gets it in the end.                                                     *)
FairSpec ==
  /\ Spec
  /\ WF_vars(Going) /\ WF_vars(ChildThread) /\ WF_vars(TickStart)
  /\ WF_vars(Handler) /\ SF_vars(HandlerLock)

\* Every tickRoot() and haltTree() returns, in spite of the locks and of the
\* waits for the thread of the child on two threads.
CallsReturn == at \notin {"rest", "join", "gone"} ~> at = "rest"

\* A child that is RUNNING when the handler of an expired timer starts does not
\* go on running: it ends, or the handler halts it.
ExpiryStops ==
  (hat = "lock" /\ handler \in expired /\ child = "RUNNING") ~> child # "RUNNING"

\* A timeout surfaces: a node whose child the handler has halted does not stay
\* RUNNING.
TimeoutSurfaces == (child_halted /\ status = "RUNNING") ~> status # "RUNNING"
=============================================================================
