------------------------------ MODULE TimerQueue ------------------------------
(***************************************************************************)
(* behaviortree_cpp_v3/decorators/timer_queue.h: a priority queue of       *)
(* handlers behind a mutex, a semaphore, and one thread that sleeps until  *)
(* the earliest of them is due.  A critical section of m_mtx is one step,  *)
(* and so is a call of the semaphore; what happens between two of them is  *)
(* open to the other threads.                                              *)
(*                                                                         *)
(* An operator named ...Silent, ...Forgetful, ...Eager or ...Spurious is *)
(* a faulty variant of the definition it stands before.                    *)
(* No action uses it: it is there to show which property notices the fault.*)
(***************************************************************************)
EXTENDS Naturals, FiniteSets

CONSTANTS
  Client,       \* the threads that share the queue
  Owner,        \* the thread that destroys it
  Worker,       \* m_th
  Delays,       \* the durations add() is called with
  MaxTimers,    \* bound: no more timers than this are added
  MaxTime,      \* bound: the clock stops here
  MaxSignals,   \* bound: no call starts while so many signals are untaken
  HandlersCall  \* do handlers call the queue they run on?

ASSUME TimerAssumption ==
  /\ Owner # Worker /\ {Owner, Worker} \cap Client = {}
  /\ Delays \subseteq Nat
  /\ MaxTimers \in Nat /\ MaxTime \in Nat /\ MaxSignals \in Nat
  /\ HandlersCall \in BOOLEAN

Thread == Client \cup {Owner, Worker}

VARIABLES
  now,         \* Clock::now()
  m_items,     \* the work items, see Item
  m_count,     \* of the semaphore m_checkWork
  m_finish, m_idcounter,
  pc,          \* where each thread stands in add(), cancel() or cancelAll()
  newEnd,      \* the local item.end of add()
  dtor,        \* how far ~TimerQueue() has come
  finisher,    \* the id of the timer ~TimerQueue() adds, 0 before
  run,         \* where the worker stands in run()
  waitEnd,     \* the end.second waitUntil() was called with
  item,        \* the work item checkWork() took from the queue
  due, cancelled, expired, aborted  \* history, as in TimerService

queue   == <<m_items, m_count, m_idcounter>>
callers == <<pc, newEnd, dtor, finisher>>
worker  == <<run, waitEnd, item, m_finish>>
history == <<due, cancelled, expired, aborted>>
vars    == <<now, queue, callers, worker, history>>

\* A WorkItem.  A timer's handler is known by the id add() returned for it;
\* handler 0 is nullptr, id 0 marks a cancelled item.  m_items is the set of
\* the values of the items: equal items without a handler count once.
Epoch == 0
Ids   == 1 .. m_idcounter
Item  == [end : Nat, id : Ids \cup {0}, handler : Ids \cup {0}]
NoItem == [end |-> Epoch, id |-> 0, handler |-> 0]

Live == {i \in m_items : i.handler # 0}
Ran  == expired \cup aborted

\* top() of the heap: any of the earliest items.
Tops(items) == {i \in items : \A j \in items : i.end <= j.end}

Init ==
  /\ now = 1
  /\ m_items = {} /\ m_count = 0 /\ m_idcounter = 0 /\ m_finish = FALSE
  /\ pc = [t \in Thread |-> "idle"]
  /\ newEnd = [t \in Thread |-> Epoch]
  /\ dtor = "alive" /\ finisher = 0
  /\ run = "calcWaitTime" /\ waitEnd = Epoch /\ item = NoItem
  /\ due = [id \in {} |-> 0]
  /\ cancelled = {} /\ expired = {} /\ aborted = {}

-----------------------------------------------------------------------------
(* The calls.  Clients call while the queue is alive; a handler may call   *)
(* the queue it runs on, which is not locked while it runs.                *)
MayCall(t) ==
  /\ pc[t] = "idle" /\ m_count < MaxSignals
  /\ \/ t \in Client /\ dtor = "alive"
     \/ t = Worker /\ HandlersCall /\ run = "handler" /\ item.handler # finisher

\* add() up to the lock, with room left for the timer of the destructor.
AddCall(t) ==
  /\ MayCall(t)
  /\ m_idcounter + Cardinality({u \in Thread : pc[u] = "push"}) < MaxTimers - 1
  /\ \E d \in Delays : now + d <= MaxTime /\ newEnd' = [newEnd EXCEPT ![t] = now + d]
  /\ pc' = [pc EXCEPT ![t] = "push"]
  /\ UNCHANGED <<now, queue, dtor, finisher, worker, history>>

\* The critical section of add().
AddPushSilent(t) ==
  /\ pc[t] = "push"
  /\ LET id == m_idcounter + 1 IN
     /\ m_idcounter' = id
     /\ m_items' = m_items \cup {[end |-> newEnd[t], id |-> id, handler |-> id]}
     /\ due' = [h \in 1 .. id |-> IF h = id THEN newEnd[t] ELSE due[h]]
     /\ finisher' = IF t = Owner THEN id ELSE finisher
  /\ pc' = [pc EXCEPT ![t] = "idle"]
  /\ newEnd' = [newEnd EXCEPT ![t] = Epoch]
  /\ UNCHANGED <<now, m_count, dtor, worker, cancelled, expired, aborted>>

AddPush(t) ==
  /\ pc[t] = "push"
  /\ LET id == m_idcounter + 1 IN
     /\ m_idcounter' = id
     /\ m_items' = m_items \cup {[end |-> newEnd[t], id |-> id, handler |-> id]}
     /\ due' = [h \in 1 .. id |-> IF h = id THEN newEnd[t] ELSE due[h]]
     /\ finisher' = IF t = Owner THEN id ELSE finisher
  /\ pc' = [pc EXCEPT ![t] = "notify"]
  /\ newEnd' = [newEnd EXCEPT ![t] = Epoch]
  /\ UNCHANGED <<now, m_count, dtor, worker, cancelled, expired, aborted>>

\* cancel(): the handler moves to a new item that is due at once.  A cancel()
\* that finds no item with a handler changes nothing.
CancelForgetful(t) ==
  /\ MayCall(t)
  /\ \E i \in Live :
       /\ m_items' = m_items \cup {[end |-> Epoch, id |-> 0, handler |-> i.handler]}
       /\ cancelled' = cancelled \cup {i.handler}
  /\ pc' = [pc EXCEPT ![t] = "notify"]
  /\ UNCHANGED <<now, m_count, m_idcounter, newEnd, dtor, finisher, worker,
                 due, expired, aborted>>

Cancel(t) ==
  /\ MayCall(t)
  /\ \E i \in Live :
       /\ m_items' = (m_items \ {i}) \cup
            {[i EXCEPT !.handler = 0], [end |-> Epoch, id |-> 0, handler |-> i.handler]}
       /\ cancelled' = cancelled \cup {i.handler}
  /\ pc' = [pc EXCEPT ![t] = "notify"]
  /\ UNCHANGED <<now, m_count, m_idcounter, newEnd, dtor, finisher, worker,
                 due, expired, aborted>>

\* The critical section of cancelAll(): every item is due at once, in place.
CancelItemsForgetful ==
  /\ m_items' = {[i EXCEPT !.end = Epoch] : i \in m_items}
  /\ cancelled' = cancelled \cup {i.handler : i \in Live}

CancelItems ==
  /\ m_items' = {[end |-> Epoch, id |-> 0, handler |-> i.handler] : i \in m_items}
  /\ cancelled' = cancelled \cup {i.handler : i \in Live}

CancelAll(t) ==
  /\ MayCall(t)
  /\ CancelItems
  /\ pc' = [pc EXCEPT ![t] = "notify"]
  /\ UNCHANGED <<now, m_count, m_idcounter, newEnd, dtor, finisher, worker,
                 due, expired, aborted>>

\* Semaphore::notify(), the last step of every call.
Notify(t) ==
  /\ pc[t] = "notify"
  /\ m_count' = m_count + 1
  /\ pc' = [pc EXCEPT ![t] = "idle"]
  /\ UNCHANGED <<now, m_items, m_idcounter, newEnd, dtor, finisher, worker, history>>

\* ~TimerQueue(), when no client is in a call any more: cancelAll(), ...
DestroyForgetful ==
  /\ dtor = "alive" /\ \A t \in Client \cup {Owner} : pc[t] = "idle"
  /\ dtor' = "cancelAll"
  /\ UNCHANGED <<now, queue, pc, newEnd, finisher, worker, history>>

Destroy ==
  /\ dtor = "alive" /\ \A t \in Client \cup {Owner} : pc[t] = "idle"
  /\ dtor' = "cancelAll"
  /\ CancelItems
  /\ pc' = [pc EXCEPT ![Owner] = "notify"]
  /\ UNCHANGED <<now, m_count, m_idcounter, newEnd, finisher, worker,
                 due, expired, aborted>>

\* ... add(0 ms, [this](bool) { m_finish = true; }), ...
DestroyAdd ==
  /\ dtor = "cancelAll" /\ pc[Owner] = "idle"
  /\ dtor' = "add"
  /\ pc' = [pc EXCEPT ![Owner] = "push"]
  /\ newEnd' = [newEnd EXCEPT ![Owner] = now]
  /\ UNCHANGED <<now, queue, finisher, worker, history>>

\* ... m_th.join().
Join ==
  /\ dtor = "add" /\ pc[Owner] = "idle" /\ run = "exit"
  /\ dtor' = "joined"
  /\ UNCHANGED <<now, queue, pc, newEnd, finisher, worker, history>>

-----------------------------------------------------------------------------
(* The worker: run().                                                      *)

\* calcWaitTime(): items without a handler are dropped from the top until one
\* with a handler is there, ...
CalcWaitTime ==
  /\ run = "calcWaitTime"
  /\ \E top \in Tops(Live) :
       /\ \E dropped \in SUBSET (m_items \ Live) :
            /\ \A i \in m_items \ Live :
                 (i.end < top.end => i \in dropped) /\ (i \in dropped => i.end <= top.end)
            /\ m_items' = m_items \ dropped
       /\ waitEnd' = top.end
  /\ run' = "waitUntil"
  /\ UNCHANGED <<now, m_count, m_idcounter, callers, item, m_finish, history>>

\* ... or all are dropped, and there is nothing to wait for.
CalcNoWaitTimeEager ==
  /\ run = "calcWaitTime" /\ Tops(m_items) \cap Live = {}
  /\ run' = "wait"
  /\ UNCHANGED <<now, queue, callers, waitEnd, item, m_finish, history>>

CalcNoWaitTime ==
  /\ run = "calcWaitTime" /\ Live = {}
  /\ m_items' = {}
  /\ run' = "wait"
  /\ UNCHANGED <<now, m_count, m_idcounter, callers, waitEnd, item, m_finish, history>>

\* Semaphore::wait() and waitUntil() take a signal, ...
Awake ==
  /\ run \in {"wait", "waitUntil"} /\ m_count > 0
  /\ m_count' = m_count - 1
  /\ run' = "checkWork"
  /\ waitEnd' = Epoch
  /\ UNCHANGED <<now, m_items, m_idcounter, callers, item, m_finish, history>>

\* ... or waitUntil() times out.
Timeout ==
  /\ run = "waitUntil" /\ m_count = 0 /\ waitEnd <= now
  /\ run' = "checkWork"
  /\ waitEnd' = Epoch
  /\ UNCHANGED <<now, queue, callers, item, m_finish, history>>

\* checkWork() takes an item that is due from the queue, and unlocks it.
TakeEager ==
  /\ run = "checkWork"
  /\ \E i \in Tops(m_items) :
       /\ m_items' = m_items \ {i}
       /\ IF i.handler # 0 THEN run' = "taken" /\ item' = i
                           ELSE UNCHANGED <<run, item>>
  /\ UNCHANGED <<now, m_count, m_idcounter, callers, waitEnd, m_finish, history>>

Take ==
  /\ run = "checkWork"
  /\ \E i \in Tops(m_items) :
       /\ i.end <= now
       /\ m_items' = m_items \ {i}
       /\ IF i.handler # 0 THEN run' = "taken" /\ item' = i
                           ELSE UNCHANGED <<run, item>>
  /\ UNCHANGED <<now, m_count, m_idcounter, callers, waitEnd, m_finish, history>>

\* item.handler(item.id == 0)
CallHandler ==
  /\ run = "taken"
  /\ run' = "handler"
  /\ IF item.id = 0
     THEN aborted' = aborted \cup {item.handler} /\ UNCHANGED expired
     ELSE expired' = expired \cup {item.handler} /\ UNCHANGED aborted
  /\ m_finish' = IF item.handler = finisher THEN TRUE ELSE m_finish
  /\ UNCHANGED <<now, queue, callers, waitEnd, item, due, cancelled>>

HandlerReturns ==
  /\ run = "handler" /\ pc[Worker] = "idle"
  /\ run' = "checkWork"
  /\ item' = NoItem
  /\ UNCHANGED <<now, queue, callers, waitEnd, m_finish, history>>

\* No item is due: the end of the loop of run().
NothingDue ==
  /\ run = "checkWork" /\ \A i \in m_items : i.end > now
  /\ run' = IF m_finish THEN "exit" ELSE "calcWaitTime"
  /\ UNCHANGED <<now, queue, callers, waitEnd, item, m_finish, history>>

Tick ==
  /\ now < MaxTime
  /\ now' = now + 1
  /\ UNCHANGED <<queue, callers, worker, history>>

Call(t)  == AddCall(t) \/ Cancel(t) \/ CancelAll(t)
Going(t) == AddPush(t) \/ Notify(t)
Destructor == Destroy \/ DestroyAdd \/ Join
Work == CalcWaitTime \/ CalcNoWaitTime \/ Awake \/ Timeout
        \/ Take \/ CallHandler \/ HandlerReturns \/ NothingDue

Next == (\E t \in Thread : Call(t) \/ Going(t)) \/ Destructor \/ Work \/ Tick

Spec == Init /\ [][Next]_vars

-----------------------------------------------------------------------------
Points == {"calcWaitTime", "wait", "waitUntil", "checkWork", "taken", "handler", "exit"}

\* Every variable holds a value of the type its member has in the source.
TypeOK ==
  /\ now \in Nat /\ m_count \in Nat /\ m_idcounter \in Nat /\ m_finish \in BOOLEAN
  /\ m_items \subseteq Item
  /\ pc \in [Thread -> {"idle", "push", "notify"}]
  /\ newEnd \in [Thread -> Nat]
  /\ dtor \in {"alive", "cancelAll", "add", "joined"} /\ finisher \in Nat
  /\ run \in Points /\ waitEnd \in Nat /\ item \in Item
  /\ run \in {"taken", "handler"} => item.handler \in Ids
  /\ due \in [Ids -> Nat]
  /\ cancelled \subseteq Ids /\ expired \subseteq Ids
  /\ aborted \subseteq Ids

\* No handler is lost and none is there twice: a timer that was added has its
\* handler in exactly one item of the queue, or in the hands of checkWork(),
\* or its handler was called, and it was called with one of the two arguments.
Queued(h) == \E i \in Live : i.handler = h
Taken(h)  == run = "taken" /\ item.handler = h

OncePerItem ==
  /\ \A i, j \in Live : i.handler = j.handler => i = j
  /\ \A h \in Ids : ~ (Queued(h) /\ Taken(h))
  /\ \A h \in Ran : ~ Queued(h) /\ ~ Taken(h)
  /\ expired \cap aborted = {}

NoneLost == \A h \in Ids : Queued(h) \/ Taken(h) \/ h \in Ran

RunsOnce == OncePerItem /\ NoneLost

\* A promise to abort is kept: once cancel() has returned 1 for a timer, or
\* cancelAll() has come across it, its handler is only called with aborted =
\* true, and no handler is called so without one of these.
AbortsKept == cancelled \cap expired = {} /\ aborted \subseteq cancelled

\* No wakeup is lost: while the worker sleeps, no signal is untaken and nobody
\* is about to give one, it sleeps no longer than the earliest handler in the
\* queue may wait.
NoOversleep ==
  run \in {"wait", "waitUntil"} /\ m_count = 0 /\ (\A t \in Thread : pc[t] # "notify") =>
    \A i \in Live : run = "waitUntil" /\ waitEnd <= i.end

\* assert(m_items.size() == 0) at the end of run() (timer_queue.h:361-362).
QueueEmptyAtExit == run = "exit" => m_items = {}

Service == INSTANCE TimerService WITH added <- m_idcounter

\* The queue keeps what it promises: a handler runs once, not before its time
\* unless it was cancelled, and is told which it was.
KeepsPromises == Service!Spec

-----------------------------------------------------------------------------
(* Liveness.  The threads run on, and time passes; nothing makes a client  *)
(* call, or the owner destroy the queue.                                   *)
FairSpec ==
  /\ Spec
  /\ WF_vars(Work) /\ WF_vars(DestroyAdd \/ Join) /\ WF_vars(Tick)
  /\ \A t \in Thread : WF_vars(Going(t))

\* A handler that was added runs.
EveryHandlerRuns == \A id \in 1 .. MaxTimers : id <= m_idcounter ~> id \in Ran

\* ~TimerQueue() returns: the join() of the worker is not for ever.
DestructorReturns == dtor # "alive" ~> dtor = "joined"
=============================================================================
