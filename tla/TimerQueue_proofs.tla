-------------------------- MODULE TimerQueue_proofs --------------------------
(***************************************************************************)
(* What TimerQueue guarantees for any number of clients, timers and times. *)
(***************************************************************************)
EXTENDS TimerQueue, TLAPS

\* cancelAll() leaves items and ids of the right type in the queue.
LEMMA CancelItemsType ==
  ASSUME TypeOK, CancelItems
  PROVE  m_items' \subseteq Item /\ cancelled' \subseteq Ids
<1>1. ASSUME NEW j \in m_items' PROVE j \in Item
  <2>1. PICK i \in m_items : j = [end |-> Epoch, id |-> 0, handler |-> i.handler]
    BY <1>1 DEF CancelItems
  <2> QED
    BY <2>1 DEF TypeOK, Item, Epoch
<1>2. ASSUME NEW i \in Live PROVE i.handler \in Ids
  BY <1>2 DEF TypeOK, Item, Live
<1> QED
  BY <1>1, <1>2 DEF CancelItems, TypeOK

\* The queue's variables hold values of their types, and every id in an item
\* is one that add() has given out.
THEOREM TypeCorrect == Spec => []TypeOK
<1>1. Init => TypeOK
  <2> SUFFICES ASSUME Init PROVE TypeOK
    OBVIOUS
  <2>1. Ids = {}
    BY DEF Init, Ids
  <2>2. due \in [Ids -> Nat]
    BY <2>1 DEF Init
  <2>3. item \in Item
    BY DEF Init, NoItem, Item, Epoch
  <2> QED
    BY <2>1, <2>2, <2>3 DEF Init, TypeOK, Epoch, Points
<1>2. TypeOK /\ [Next]_vars => TypeOK'
  <2> SUFFICES ASSUME TypeOK, [Next]_vars PROVE TypeOK'
    OBVIOUS
  <2> USE DEF TypeOK, Item, Ids, Epoch, Points
  <2>1. ASSUME NEW t \in Thread, AddCall(t) PROVE TypeOK'
    BY <2>1, TimerAssumption DEF AddCall, queue, worker, history
  <2>2. ASSUME NEW t \in Thread, Cancel(t) PROVE TypeOK'
    <3>1. PICK i \in Live :
            /\ m_items' = (m_items \ {i}) \cup
                 {[i EXCEPT !.handler = 0], [end |-> Epoch, id |-> 0, handler |-> i.handler]}
            /\ cancelled' = cancelled \cup {i.handler}
      BY <2>2 DEF Cancel
    <3>2. i \in Item /\ i.handler \in Ids
      BY DEF Live
    <3>3. [i EXCEPT !.handler = 0] \in Item
      BY <3>2
    <3>4. [end |-> Epoch, id |-> 0, handler |-> i.handler] \in Item
      BY <3>2
    <3>5. m_items' \subseteq Item /\ cancelled' \subseteq Ids
      BY <3>1, <3>2, <3>3, <3>4
    <3> QED
      BY <2>2, <3>5 DEF Cancel, worker
  <2>3. ASSUME NEW t \in Thread, CancelAll(t) PROVE TypeOK'
    BY <2>3, CancelItemsType DEF CancelAll, worker
  <2>4. ASSUME NEW t \in Thread, AddPush(t) PROVE TypeOK'
    <3>1. Ids' = Ids \cup {m_idcounter + 1} /\ m_idcounter' \in Nat
      BY <2>4 DEF AddPush
    <3>2. [end |-> newEnd[t], id |-> m_idcounter + 1, handler |-> m_idcounter + 1] \in Item'
      BY <3>1
    <3>3. m_items' \subseteq Item'
      BY <2>4, <3>1, <3>2 DEF AddPush
    <3>4. due' \in [Ids' -> Nat] /\ finisher' \in Nat
      BY <2>4 DEF AddPush
    <3>5. pc' \in [Thread -> {"idle", "push", "notify"}] /\ newEnd' \in [Thread -> Nat]
      BY <2>4 DEF AddPush
    <3>6. item \in Item' /\ (run \in {"taken", "handler"} => item.handler \in Ids')
      BY <3>1
    <3> QED
      BY <2>4, <3>1, <3>3, <3>4, <3>5, <3>6 DEF AddPush, worker
  <2>5. ASSUME NEW t \in Thread, Notify(t) PROVE TypeOK'
    BY <2>5 DEF Notify, worker, history
  <2>6. CASE Destroy
    BY <2>6, CancelItemsType DEF Destroy, worker, Thread
  <2>7. CASE DestroyAdd
    BY <2>7 DEF DestroyAdd, queue, worker, history, Thread
  <2>8. CASE Join
    BY <2>8 DEF Join, queue, worker, history
  <2>9. CASE CalcWaitTime
    BY <2>9 DEF CalcWaitTime, Tops, Live, callers, history
  <2>10. CASE CalcNoWaitTime
    BY <2>10 DEF CalcNoWaitTime, callers, history
  <2>11. CASE Awake
    BY <2>11 DEF Awake, callers, history
  <2>12. CASE Timeout
    BY <2>12 DEF Timeout, queue, callers, history
  <2>13. CASE Take
    <3>1. PICK i \in m_items :
            /\ m_items' = m_items \ {i}
            /\ IF i.handler # 0 THEN run' = "taken" /\ item' = i
                                ELSE UNCHANGED <<run, item>>
      BY <2>13 DEF Take, Tops
    <3>2. i \in Item /\ (i.handler # 0 => i.handler \in Ids)
      BY <3>1
    <3>3. UNCHANGED <<now, m_count, m_idcounter, callers, waitEnd, m_finish, history>>
      BY <2>13 DEF Take
    <3> QED
      BY <2>13, <3>1, <3>2, <3>3 DEF Take, callers, history
  <2>14. CASE CallHandler
    <3>1. m_finish' \in BOOLEAN
      BY <2>14 DEF CallHandler
    <3>2. expired' \subseteq Ids /\ aborted' \subseteq Ids
      <4>1. item.handler \in Ids
        BY <2>14 DEF CallHandler
      <4>2. expired' \subseteq expired \cup {item.handler}
        BY <2>14 DEF CallHandler
      <4>3. aborted' \subseteq aborted \cup {item.handler}
        BY <2>14 DEF CallHandler
      <4> QED
        BY <4>1, <4>2, <4>3
    <3> QED
      BY <2>14, <3>1, <3>2 DEF CallHandler, queue, callers
  <2>15. CASE HandlerReturns
    BY <2>15 DEF HandlerReturns, queue, callers, history, NoItem
  <2>16. CASE NothingDue
    BY <2>16 DEF NothingDue, queue, callers, history
  <2>17. CASE Tick
    BY <2>17 DEF Tick, queue, callers, worker, history
  <2>18. CASE UNCHANGED vars
    BY <2>18 DEF vars, queue, callers, worker, history
  <2> QED
    BY <2>1, <2>2, <2>3, <2>4, <2>5, <2>6, <2>7, <2>8, <2>9, <2>10,
       <2>11, <2>12, <2>13, <2>14, <2>15, <2>16, <2>17, <2>18
    DEF Next, Call, Going, Destructor, Work
<1> QED
  BY <1>1, <1>2, PTL DEF Spec

-----------------------------------------------------------------------------
(* RunsOnce and AbortsKept are not inductive: that the handler is called   *)
(* with the right argument depends on what the item says of its timer.     *)
(* Truthful adds it.  An item without a handler says nothing; one with id  *)
(* 0 is of a cancelled timer, any other of one that is not cancelled, and  *)
(* it has the time the timer was added for.                                *)
Says(i) ==
  \/ i.handler = 0
  \/ i.id = 0 /\ i.handler \in cancelled
  \/ i.id = i.handler /\ i.end = due[i.handler] /\ i.handler \notin cancelled

Truthful ==
  /\ \A i \in m_items : Says(i)
  /\ run = "taken" => Says(item) /\ item.end <= now

IInv == TypeOK /\ Truthful /\ RunsOnce /\ AbortsKept

Promise == Truthful /\ RunsOnce /\ AbortsKept

\* A step that leaves the items, the timers and the hands of checkWork() alone
\* keeps the invariant.
LEMMA FrameKeeps ==
  ASSUME IInv, TypeOK',
         UNCHANGED <<m_items, m_idcounter, due, cancelled, expired, aborted>>,
         now <= now', run' = "taken" <=> run = "taken",
         run = "taken" => item' = item
  PROVE  Promise'
<1> USE DEF IInv, Promise, Truthful, Says, RunsOnce, OncePerItem, NoneLost, AbortsKept,
            Queued, Taken, Live, Ran, Ids
<1>1. Truthful'
  BY DEF TypeOK, Item
<1>2. (RunsOnce /\ AbortsKept)'
  OBVIOUS
<1> QED
  BY <1>1, <1>2

\* A queue without timers keeps every promise.
LEMMA InitPromise == ASSUME Init PROVE Promise
BY DEF Init, Promise, Truthful, Says, RunsOnce, OncePerItem, NoneLost, AbortsKept,
       Queued, Taken, Live, Ran, Ids

\* The critical section of cancelAll() keeps the invariant.
LEMMA CancelItemsKeeps ==
  ASSUME IInv, TypeOK', CancelItems,
         UNCHANGED <<now, m_idcounter, run, item, due, expired, aborted>>
  PROVE  Promise'
<1> DEFINE Moved(i) == [end |-> Epoch, id |-> 0, handler |-> i.handler]
<1>1. m_items' = {Moved(i) : i \in m_items}
  BY DEF CancelItems
<1>2. cancelled' = cancelled \cup {i.handler : i \in Live}
  BY DEF CancelItems
<1>3. \A h : Queued(h)' <=> Queued(h)
  <2>1. ASSUME NEW h, Queued(h) PROVE Queued(h)'
    <3>1. PICK i \in Live : i.handler = h
      BY <2>1 DEF Queued
    <3>2. Moved(i) \in Live' /\ Moved(i).handler = h
      BY <1>1, <3>1 DEF Live
    <3> QED
      BY <3>2 DEF Queued
  <2>2. ASSUME NEW h, Queued(h)' PROVE Queued(h)
    <3>1. PICK j \in Live' : j.handler = h
      BY <2>2 DEF Queued
    <3>2. PICK i \in m_items : j = Moved(i)
      BY <1>1, <3>1 DEF Live
    <3>3. i \in Live /\ i.handler = h
      BY <3>1, <3>2 DEF Live
    <3> QED
      BY <3>3 DEF Queued
  <2> QED
    BY <2>1, <2>2
<1>4. \A h : Taken(h)' <=> Taken(h)
  BY DEF Taken
<1>5. \A h : Queued(h) => h \in cancelled'
  BY <1>2 DEF Queued
<1>6. \A j \in m_items' : j.id = 0 /\ (j.handler # 0 => Queued(j.handler)')
  BY <1>1 DEF Queued, Live
<1>7. Truthful'
  <2>1. \A j \in m_items' : Says(j)'
    BY <1>3, <1>5, <1>6 DEF Says
  <2>2. ASSUME run = "taken" PROVE Says(item)' /\ item'.end <= now'
    <3>1. ~ Queued(item.handler)
      BY <2>2 DEF IInv, TypeOK, RunsOnce, OncePerItem, Taken
    <3>2. item.handler \in cancelled' <=> item.handler \in cancelled
      BY <1>2, <3>1 DEF Queued
    <3> QED
      BY <2>2, <3>2 DEF IInv, Truthful, Says
  <2> QED
    BY <2>1, <2>2 DEF Truthful
<1>8. \A i, j \in Live' : i.handler = j.handler => i = j
  BY <1>1 DEF Live
<1>9. RunsOnce'
  BY <1>3, <1>4, <1>8 DEF IInv, RunsOnce, OncePerItem, NoneLost, Ran, Ids
<1>10. AbortsKept'
  BY <1>2 DEF IInv, AbortsKept, RunsOnce, OncePerItem, Queued, Ran
<1> QED
  BY <1>7, <1>9, <1>10 DEF Promise

\* A step of add(), cancel(), cancelAll() or notify() keeps the invariant.
LEMMA CallKeeps ==
  ASSUME IInv, TypeOK', NEW t \in Thread, Call(t) \/ Going(t)
  PROVE  Promise'
<1>1. CASE AddCall(t)
  BY <1>1, FrameKeeps DEF AddCall, queue, worker, history, IInv, TypeOK
<1>2. CASE Cancel(t)
  <2>1. PICK i \in Live :
          /\ m_items' = (m_items \ {i}) \cup
               {[i EXCEPT !.handler = 0], [end |-> Epoch, id |-> 0, handler |-> i.handler]}
          /\ cancelled' = cancelled \cup {i.handler}
    BY <1>2 DEF Cancel
  <2> DEFINE new == [end |-> Epoch, id |-> 0, handler |-> i.handler]
  <2>2. /\ UNCHANGED <<now, m_idcounter, run, item, due, expired, aborted>>
        /\ i \in Item /\ i.handler \in Ids
    BY <1>2 DEF Cancel, worker, IInv, TypeOK, Live, Item
  <2>3. Live' = (Live \ {i}) \cup {new}
    BY <2>1, <2>2 DEF Live, Item
  <2>4. i.handler \notin Ran /\ ~ Taken(i.handler)
    BY <2>2 DEF IInv, RunsOnce, OncePerItem, Queued
  <2>5. \A j \in Live : j # i => j.handler # i.handler
    BY DEF IInv, RunsOnce, OncePerItem
  <2>6. Truthful'
    BY <2>1, <2>2, <2>4, <2>5 DEF Truthful, Says, IInv, Live, Taken, Item
  <2>7. \A h : Queued(h)' <=> Queued(h)
    <3>1. ASSUME NEW h, Queued(h) PROVE Queued(h)'
      <4>1. PICK j \in Live : j.handler = h
        BY <3>1 DEF Queued
      <4>2. CASE j = i
        <5>1. new \in Live' /\ new.handler = h
          BY <2>3, <4>1, <4>2
        <5> QED
          BY <5>1 DEF Queued
      <4>3. CASE j # i
        BY <2>3, <4>1, <4>3 DEF Queued
      <4> QED
        BY <4>2, <4>3
    <3>2. ASSUME NEW h, Queued(h)' PROVE Queued(h)
      <4>1. PICK j \in Live' : j.handler = h
        BY <3>2 DEF Queued
      <4> QED
        BY <2>3, <4>1 DEF Queued
    <3> QED
      BY <3>1, <3>2
  <2>8. \A h : Taken(h)' <=> Taken(h)
    BY <2>2 DEF Taken
  <2>9. RunsOnce'
    BY <2>2, <2>3, <2>5, <2>7, <2>8
    DEF IInv, RunsOnce, OncePerItem, NoneLost, Ran, Ids
  <2>10. AbortsKept'
    BY <2>1, <2>2, <2>4 DEF IInv, AbortsKept, Ran
  <2> QED
    BY <2>6, <2>9, <2>10 DEF Promise
<1>3. CASE CancelAll(t)
  BY <1>3, CancelItemsKeeps DEF CancelAll, worker
<1>4. CASE AddPush(t)
  <2>1. PICK id, e : id = m_idcounter + 1 /\ e = newEnd[t]
    OBVIOUS
  <2> DEFINE new == [end |-> e, id |-> id, handler |-> id]
  <2>2. /\ m_items' = m_items \cup {new}
        /\ UNCHANGED <<now, run, item, cancelled, expired, aborted>>
        /\ m_idcounter' = id
        /\ due' = [h \in 1 .. id |-> IF h = id THEN e ELSE due[h]]
    BY <1>4, <2>1 DEF AddPush, worker
  <2>3. id \in Nat \ {0} /\ id \notin Ids /\ Ids' = Ids \cup {id}
    BY <2>1, <2>2 DEF IInv, TypeOK, Ids
  <2>4. (\A h \in Ids : due'[h] = due[h]) /\ due'[id] = e
    BY <2>2, <2>3 DEF Ids
  <2>5. Live' = Live \cup {new}
    BY <2>2, <2>3 DEF Live
  <2>6. \A j \in Live : j.handler \in Ids
    BY DEF Live, IInv, TypeOK, Item
  <2>7. Truthful'
    <3>1. ASSUME NEW j \in m_items PROVE Says(j)'
      BY <2>2, <2>4 DEF IInv, Truthful, Says, TypeOK, Item
    <3>2. Says(new)'
      <4>1. id \notin cancelled'
        BY <2>2, <2>3 DEF IInv, TypeOK
      <4> QED
        BY <2>2, <2>4, <4>1 DEF Says
    <3>3. ASSUME run = "taken" PROVE Says(item)' /\ item'.end <= now'
      BY <2>2, <2>4, <3>3 DEF IInv, Truthful, Says, TypeOK, Item
    <3> QED
      BY <2>2, <3>1, <3>2, <3>3 DEF Truthful
  <2>8. \A h : Queued(h)' <=> Queued(h) \/ h = id
    <3>1. ASSUME NEW h, Queued(h) \/ h = id PROVE Queued(h)'
      <4>1. new \in Live' /\ new.handler = id /\ Live \subseteq Live'
        BY <2>5
      <4> QED
        BY <3>1, <4>1 DEF Queued
    <3>2. ASSUME NEW h, Queued(h)' PROVE Queued(h) \/ h = id
      <4>1. PICK j \in Live' : j.handler = h
        BY <3>2 DEF Queued
      <4> QED
        BY <2>5, <4>1 DEF Queued
    <3> QED
      BY <3>1, <3>2
  <2>9. \A h : Taken(h)' <=> Taken(h)
    BY <2>2 DEF Taken
  <2>10. ~ Taken(id) /\ id \notin Ran /\ Ran' = Ran
    BY <2>2, <2>3 DEF Taken, Ran, IInv, TypeOK
  <2>11. OncePerItem'
    <3>1. \A i, j \in Live' : i.handler = j.handler => i = j
      BY <2>3, <2>5, <2>6 DEF IInv, RunsOnce, OncePerItem
    <3>2. \A h \in Ids' : ~ (Queued(h)' /\ Taken(h)')
      BY <2>3, <2>8, <2>9, <2>10 DEF IInv, RunsOnce, OncePerItem
    <3>3. \A h \in Ran' : ~ Queued(h)' /\ ~ Taken(h)'
      BY <2>8, <2>9, <2>10 DEF IInv, RunsOnce, OncePerItem
    <3> QED
      BY <2>2, <3>1, <3>2, <3>3 DEF IInv, RunsOnce, OncePerItem
  <2>12. NoneLost'
    BY <2>3, <2>8, <2>9, <2>10 DEF IInv, RunsOnce, NoneLost
  <2> QED
    BY <2>2, <2>7, <2>11, <2>12 DEF Promise, RunsOnce, IInv, AbortsKept
<1>5. CASE Notify(t)
  BY <1>5, FrameKeeps DEF Notify, worker, history, IInv, TypeOK
<1> QED
  BY <1>1, <1>2, <1>3, <1>4, <1>5 DEF Call, Going

\* A step of the worker keeps the invariant.
LEMMA WorkKeeps ==
  ASSUME IInv, TypeOK', Work
  PROVE  Promise'
<1> USE DEF IInv
<1>1. ASSUME CalcWaitTime \/ CalcNoWaitTime PROVE Promise'
  <2>1. m_items' \subseteq m_items /\ Live' = Live /\ run # "taken" /\ run' # "taken"
    BY <1>1 DEF CalcWaitTime, CalcNoWaitTime, Live
  <2>2. UNCHANGED <<now, m_idcounter, history>>
    BY <1>1 DEF CalcWaitTime, CalcNoWaitTime
  <2>3. \A h : (Queued(h)' <=> Queued(h)) /\ ~ Taken(h) /\ ~ Taken(h)'
    BY <2>1 DEF Queued, Taken
  <2>4. Truthful'
    BY <2>1, <2>2 DEF Truthful, Says, history
  <2> QED
    BY <2>1, <2>2, <2>3, <2>4
    DEF Promise, RunsOnce, OncePerItem, NoneLost, AbortsKept, Ran, Ids, history
<1>2. CASE Awake
  BY <1>2, FrameKeeps DEF Awake, callers, history, TypeOK
<1>3. CASE Timeout
  BY <1>3, FrameKeeps DEF Timeout, queue, callers, history, TypeOK
<1>4. CASE Take
  <2>1. PICK i \in m_items :
          /\ i.end <= now
          /\ m_items' = m_items \ {i}
          /\ IF i.handler # 0 THEN run' = "taken" /\ item' = i
                              ELSE UNCHANGED <<run, item>>
    BY <1>4 DEF Take, Tops
  <2>2. UNCHANGED <<now, m_idcounter, history>> /\ run = "checkWork"
    BY <1>4 DEF Take
  <2>3. Live' = Live \ {i}
    BY <2>1 DEF Live
  <2>4. Truthful'
    BY <2>1, <2>2 DEF Truthful, Says, history
  <2>5. \A h : ~ Taken(h)
    BY <2>2 DEF Taken
  <2>6. \A h : Taken(h)' <=> i \in Live /\ h = i.handler
    BY <2>1, <2>2 DEF Taken, Live
  <2>7. \A h : Queued(h)' <=> Queued(h) /\ ~ (i \in Live /\ h = i.handler)
    BY <2>3 DEF Queued, RunsOnce, OncePerItem
  <2>8. i \in Live => Queued(i.handler)
    BY DEF Queued
  <2>9. OncePerItem'
    BY <2>2, <2>3, <2>5, <2>6, <2>7, <2>8 DEF RunsOnce, OncePerItem, Ran, Ids, history
  <2>10. NoneLost'
    BY <2>2, <2>5, <2>6, <2>7 DEF RunsOnce, NoneLost, Ran, Ids, history
  <2> QED
    BY <2>2, <2>4, <2>9, <2>10 DEF Promise, RunsOnce, AbortsKept, history
<1>5. CASE CallHandler
  <2>1. /\ UNCHANGED <<now, m_items, m_idcounter, item, due, cancelled>>
        /\ run = "taken" /\ run' # "taken"
    BY <1>5 DEF CallHandler, queue
  <2>2. item.handler \in Ids /\ item.handler # 0
    BY <2>1 DEF TypeOK, Ids
  <2>3. Ran' = Ran \cup {item.handler}
    BY <1>5 DEF CallHandler, Ran
  <2>4. \A h : (Queued(h)' <=> Queued(h)) /\ ~ Taken(h)'
    BY <2>1 DEF Queued, Taken, Live
  <2>5. \A h : Taken(h) <=> h = item.handler
    BY <2>1 DEF Taken
  <2>6. item.handler \notin Ran
    BY <2>5 DEF RunsOnce, OncePerItem
  <2>7. Truthful'
    BY <2>1 DEF Truthful, Says
  <2>8. (expired \cap aborted)' = {} /\ AbortsKept'
    <3>1. CASE item.id = 0
      BY <1>5, <2>1, <2>2, <2>6, <3>1
      DEF CallHandler, Truthful, Says, Ran, AbortsKept, RunsOnce, OncePerItem
    <3>2. CASE item.id # 0
      BY <1>5, <2>1, <2>2, <2>6, <3>2
      DEF CallHandler, Truthful, Says, Ran, AbortsKept, RunsOnce, OncePerItem
    <3> QED
      BY <3>1, <3>2
  <2>9. OncePerItem'
    BY <2>1, <2>2, <2>3, <2>4, <2>5, <2>8 DEF RunsOnce, OncePerItem, Live, Ids
  <2>10. NoneLost'
    BY <2>1, <2>3, <2>4, <2>5 DEF RunsOnce, NoneLost, Ids
  <2> QED
    BY <2>7, <2>8, <2>9, <2>10 DEF Promise, RunsOnce
<1>6. CASE HandlerReturns
  BY <1>6, FrameKeeps DEF HandlerReturns, queue, callers, history, TypeOK
<1>7. CASE NothingDue
  BY <1>7, FrameKeeps DEF NothingDue, queue, callers, history, TypeOK
<1> QED
  BY <1>1, <1>2, <1>3, <1>4, <1>5, <1>6, <1>7 DEF Work

\* Every handler runs exactly once unless it still waits, and what cancel()
\* and cancelAll() promised is kept, whatever the threads do.
THEOREM PromiseKept == Spec => []IInv
<1>1. Init => Promise
  BY InitPromise
<1>2. IInv /\ TypeOK' /\ [Next]_vars => Promise'
  <2> SUFFICES ASSUME IInv, TypeOK', [Next]_vars PROVE Promise'
    OBVIOUS
  <2>1. ASSUME NEW t \in Thread, Call(t) \/ Going(t) PROVE Promise'
    BY <2>1, CallKeeps
  <2>2. CASE Destroy
    BY <2>2, CancelItemsKeeps DEF Destroy, worker
  <2>3. CASE DestroyAdd
    BY <2>3, FrameKeeps DEF DestroyAdd, queue, worker, history, IInv, TypeOK
  <2>4. CASE Join
    BY <2>4, FrameKeeps DEF Join, queue, worker, history, IInv, TypeOK
  <2>5. CASE Work
    BY <2>5, WorkKeeps
  <2>6. CASE Tick
    BY <2>6, FrameKeeps DEF Tick, queue, callers, worker, history, IInv, TypeOK
  <2>7. CASE UNCHANGED vars
    BY <2>7, FrameKeeps DEF vars, queue, callers, worker, history, IInv, TypeOK
  <2> QED
    BY <2>1, <2>2, <2>3, <2>4, <2>5, <2>6, <2>7 DEF Next, Destructor
<1>3. IInv <=> TypeOK /\ Promise
  BY DEF IInv, Promise
<1> QED
  BY <1>1, <1>2, <1>3, TypeCorrect, PTL DEF Spec

\* No handler is lost and none is there twice.
THEOREM HandlersRunOnce == Spec => []RunsOnce
BY PromiseKept, PTL DEF IInv

\* A handler learns the truth about its cancellation.
THEOREM AbortsAreKept == Spec => []AbortsKept
BY PromiseKept, PTL DEF IInv

-----------------------------------------------------------------------------
\* No wakeup is lost: a sleeping worker without a signal on its way sleeps no
\* longer than the earliest handler may wait.  The property is inductive as
\* it stands: a call that changes the queue is followed by its notify().
THEOREM NoLostWakeup == Spec => []NoOversleep
<1>1. Init => NoOversleep
  BY DEF Init, NoOversleep
<1>2. TypeOK /\ NoOversleep /\ [Next]_vars => NoOversleep'
  <2> SUFFICES ASSUME TypeOK, NoOversleep, [Next]_vars PROVE NoOversleep'
    OBVIOUS
  <2> USE DEF NoOversleep, Live
  <2>1. ASSUME NEW t \in Thread, AddCall(t) PROVE NoOversleep'
    BY <2>1 DEF AddCall, MayCall, queue, callers, worker, history, TypeOK
  <2>2. ASSUME NEW t \in Thread, Cancel(t) \/ CancelAll(t) \/ AddPush(t)
        PROVE NoOversleep'
    <3>1. pc'[t] = "notify"
      BY <2>2 DEF Cancel, CancelAll, AddPush, TypeOK
    <3> QED
      BY <3>1
  <2>3. ASSUME NEW t \in Thread, Notify(t) PROVE NoOversleep'
    <3>1. m_count' # 0
      BY <2>3 DEF Notify, TypeOK
    <3> QED
      BY <3>1
  <2>4. CASE Destroy
    <3>1. pc'[Owner] = "notify" /\ Owner \in Thread
      BY <2>4 DEF Destroy, TypeOK, Thread
    <3> QED
      BY <3>1
  <2>5. CASE DestroyAdd \/ Join
    BY <2>5 DEF DestroyAdd, Join, queue, worker, history, TypeOK, Thread
  <2>6. CASE CalcWaitTime
    <3>1. PICK top \in Live : /\ \A j \in Live : top.end <= j.end
                              /\ waitEnd' = top.end
      BY <2>6 DEF CalcWaitTime, Tops
    <3>2. Live' = Live /\ run' = "waitUntil"
      BY <2>6 DEF CalcWaitTime
    <3> QED
      BY <3>1, <3>2
  <2>7. CASE CalcNoWaitTime
    BY <2>7 DEF CalcNoWaitTime
  <2>8. CASE Awake \/ Timeout \/ Take \/ CallHandler \/ HandlerReturns \/ NothingDue
    <3>1. run' \notin {"wait", "waitUntil"}
      BY <2>8 DEF Awake, Timeout, Take, CallHandler, HandlerReturns, NothingDue
    <3> QED
      BY <3>1
  <2>9. CASE Tick \/ UNCHANGED vars
    BY <2>9 DEF Tick, vars, queue, callers, worker, history
  <2> QED
    BY <2>1, <2>2, <2>3, <2>4, <2>5, <2>6, <2>7, <2>8, <2>9
    DEF Next, Call, Going, Destructor, Work
<1> QED
  BY <1>1, <1>2, TypeCorrect, PTL DEF Spec

-----------------------------------------------------------------------------
(* The destructor.  From cancelAll() on no client is in a call, everything *)
(* in the queue is due, and the timer that ends the worker is added once.  *)
Ending ==
  /\ pc[Worker] = "idle"
  /\ dtor # "alive" =>
       /\ \A c \in Client : pc[c] = "idle"
       /\ \A i \in m_items : i.end <= now
  /\ newEnd[Owner] <= now
  /\ pc[Owner] = "push" => finisher = 0 /\ dtor \notin {"alive", "cancelAll"}
  /\ dtor \in {"alive", "cancelAll"} => finisher = 0
  /\ finisher # 0 => dtor # "alive"
  /\ m_finish => finisher # 0
  /\ run = "exit" => m_finish /\ m_items = {}

\* The assertion at the end of run() holds as long as no handler calls the
\* queue it runs on.
THEOREM NothingLeftAtExit ==
  ASSUME HandlersCall = FALSE
  PROVE  Spec => []QueueEmptyAtExit
<1>1. Init => Ending
  BY TimerAssumption DEF Init, Ending, Thread, Epoch
<1>2. TypeOK /\ Ending /\ [Next]_vars => Ending'
  <2> SUFFICES ASSUME TypeOK, Ending, [Next]_vars PROVE Ending'
    OBVIOUS
  <2> USE DEF Ending
  <2>a. Owner \in Thread /\ Worker \in Thread /\ Client \subseteq Thread
    BY DEF Thread
  <2>b. Owner # Worker /\ Owner \notin Client /\ Worker \notin Client
    BY TimerAssumption
  <2>1. ASSUME NEW t \in Thread, Call(t) PROVE Ending'
    <3>1. t \in Client /\ dtor = "alive" /\ pc[t] = "idle"
      BY <2>1, <2>b, HandlersCall = FALSE
      DEF Call, AddCall, Cancel, CancelAll, MayCall
    <3>2. UNCHANGED <<now, dtor, finisher, worker>>
      BY <2>1 DEF Call, AddCall, Cancel, CancelAll, callers
    <3>3. pc' = pc \/ \E x : pc' = [pc EXCEPT ![t] = x]
      BY <2>1 DEF Call, AddCall, Cancel, CancelAll, callers
    <3>4. pc'[Owner] = pc[Owner] /\ pc'[Worker] = pc[Worker]
      BY <2>a, <2>b, <3>1, <3>3 DEF TypeOK
    <3>5. newEnd'[Owner] = newEnd[Owner]
      BY <2>1, <2>a, <2>b, <3>1
      DEF Call, AddCall, Cancel, CancelAll, callers, TypeOK
    <3> QED
      BY <3>1, <3>2, <3>4, <3>5 DEF worker
  <2>2. ASSUME NEW t \in Thread, AddPush(t) PROVE Ending'
    <3>1. t # Worker /\ UNCHANGED <<now, dtor, worker>> /\ pc[t] = "push"
      BY <2>2 DEF AddPush
    <3>2. pc' = [pc EXCEPT ![t] = "notify"] /\ newEnd' = [newEnd EXCEPT ![t] = Epoch]
      BY <2>2 DEF AddPush
    <3>3. CASE t = Owner
      <4>1. finisher' = m_idcounter + 1 /\ finisher' # 0 /\ finisher = 0 /\ ~ m_finish
        BY <2>2, <3>1, <3>3 DEF AddPush, TypeOK
      <4>2. \A i \in m_items' : i.end <= now
        BY <2>2, <3>1, <3>3 DEF AddPush
      <4>3. newEnd'[Owner] <= now
        BY <2>a, <3>2, <3>3 DEF TypeOK, Epoch
      <4>4. /\ pc'[Owner] = "notify" /\ pc'[Worker] = pc[Worker]
            /\ \A c \in Client : pc'[c] = pc[c]
        BY <2>a, <2>b, <3>2, <3>3 DEF TypeOK
      <4>5. dtor \notin {"alive", "cancelAll"}
        BY <3>1, <3>3
      <4> QED
        BY <3>1, <3>3, <4>1, <4>2, <4>3, <4>4, <4>5 DEF worker
    <3>4. CASE t \in Client
      <4>1. dtor = "alive" /\ finisher' = finisher
        BY <2>2, <2>b, <3>1, <3>4 DEF AddPush
      <4>2. /\ pc'[Owner] = pc[Owner] /\ pc'[Worker] = pc[Worker]
            /\ newEnd'[Owner] = newEnd[Owner]
        BY <2>a, <2>b, <3>2, <3>4 DEF TypeOK
      <4> QED
        BY <3>1, <4>1, <4>2 DEF worker
    <3> QED
      BY <3>1, <3>3, <3>4 DEF Thread
  <2>3. ASSUME NEW t \in Thread, Notify(t) PROVE Ending'
    <3>1. \A u \in Thread : pc'[u] = pc[u] \/ pc'[u] = "idle"
      BY <2>3 DEF Notify, TypeOK
    <3> QED
      BY <2>3, <2>a, <3>1 DEF Notify, worker
  <2>4. CASE Destroy
    <3>1. \A i \in m_items' : i.end = 0
      BY <2>4 DEF Destroy, CancelItems, Epoch
    <3>2. newEnd'[Owner] <= now'
      BY <2>4 DEF Destroy
    <3> QED
      BY <2>4, <2>a, <2>b, <3>1, <3>2 DEF Destroy, worker, TypeOK
  <2>5. CASE DestroyAdd
    BY <2>5, <2>a, <2>b DEF DestroyAdd, queue, worker, history, TypeOK
  <2>6. CASE Join
    BY <2>6 DEF Join, queue, worker, history
  <2>7. CASE CalcWaitTime \/ CalcNoWaitTime \/ Take
    <3>1. m_items' \subseteq m_items /\ run' # "exit"
      BY <2>7 DEF CalcWaitTime, CalcNoWaitTime, Take
    <3>2. UNCHANGED <<now, callers, m_finish>>
      BY <2>7 DEF CalcWaitTime, CalcNoWaitTime, Take
    <3> QED
      BY <3>1, <3>2 DEF callers
  <2>8. CASE Awake \/ Timeout \/ HandlerReturns
    BY <2>8 DEF Awake, Timeout, HandlerReturns, queue, callers
  <2>9. CASE CallHandler
    <3>1. UNCHANGED <<now, m_items, callers>> /\ run' # "exit"
      BY <2>9 DEF CallHandler, queue
    <3>2. m_finish' => m_finish \/ (item.handler = finisher /\ item.handler \in Ids)
      BY <2>9 DEF CallHandler, TypeOK
    <3>3. m_finish' => finisher # 0
      BY <3>2 DEF Ids
    <3> QED
      BY <3>1, <3>3 DEF callers
  <2>10. CASE NothingDue
    <3>1. UNCHANGED <<now, m_items, callers, m_finish>>
      BY <2>10 DEF NothingDue, queue
    <3>2. run' = "exit" => m_finish
      BY <2>10 DEF NothingDue
    <3>3. m_finish => m_items = {}
      BY <2>10 DEF NothingDue, TypeOK, Item
    <3> QED
      BY <3>1, <3>2, <3>3 DEF callers
  <2>11. CASE Tick
    BY <2>11 DEF Tick, queue, callers, worker, TypeOK, Item, Thread
  <2>12. CASE UNCHANGED vars
    BY <2>12 DEF vars, queue, callers, worker
  <2> QED
    BY <2>1, <2>2, <2>3, <2>4, <2>5, <2>6, <2>7, <2>8, <2>9, <2>10, <2>11, <2>12
    DEF Next, Going, Destructor, Work
<1>3. Ending => QueueEmptyAtExit
  BY DEF Ending, QueueEmptyAtExit
<1> QED
  BY <1>1, <1>2, <1>3, TypeCorrect, PTL DEF Spec

-----------------------------------------------------------------------------
(* The queue implements TimerService: the history variables are the        *)
(* abstract state, and IInv makes every step one of its steps.             *)

\* cancelAll() promises to abort what still waits in the queue.
LEMMA CancelItemsImplements ==
  ASSUME IInv, CancelItems,
         UNCHANGED <<now, m_idcounter, due, expired, aborted>>
  PROVE  [Service!Next]_(Service!svars)
<1> DEFINE ids == {i.handler : i \in Live}
<1>1. \A i \in Live : i.handler \in Ids /\ i.handler \notin Ran
  BY DEF IInv, TypeOK, Item, Live, RunsOnce, OncePerItem, Queued
<1>2. ids \in SUBSET (1 .. m_idcounter)
  BY <1>1 DEF Ids
<1>3. Service!Cancel(ids)
  BY <1>1 DEF CancelItems, Service!Cancel, Service!Pending, Service!Ran, Ids, Ran
<1> QED
  BY <1>2, <1>3 DEF Service!Next

\* A critical section of a caller adds one timer, or promises to abort some
\* that are pending, or does nothing that counts.
LEMMA CallImplements ==
  ASSUME IInv, NEW t \in Thread, Call(t) \/ Going(t)
  PROVE  [Service!Next]_(Service!svars)
<1> USE DEF IInv
<1>1. CASE AddCall(t) \/ Notify(t)
  BY <1>1 DEF AddCall, Notify, queue, callers, worker, history, Service!svars
<1>2. CASE Cancel(t)
  <2>1. PICK i \in Live : cancelled' = cancelled \cup {i.handler}
    BY <1>2 DEF Cancel
  <2>2. i.handler \in Ids /\ i.handler \notin Ran
    BY DEF TypeOK, Item, Live, RunsOnce, OncePerItem, Queued
  <2>3. Service!Cancel({i.handler})
    BY <1>2, <2>1, <2>2
    DEF Cancel, worker, Service!Cancel, Service!Pending, Service!Ran, Ids, Ran
  <2>4. {i.handler} \in SUBSET (1 .. m_idcounter)
    BY <2>2 DEF Ids
  <2> QED
    BY <2>3, <2>4 DEF Service!Next
<1>3. CASE CancelAll(t)
  BY <1>3, CancelItemsImplements DEF CancelAll, worker
<1>4. CASE AddPush(t)
  <2>1. newEnd[t] \in Nat
    BY DEF TypeOK
  <2>2. /\ m_idcounter' = m_idcounter + 1
        /\ due' = [h \in 1 .. m_idcounter + 1 |->
                     IF h = m_idcounter + 1 THEN newEnd[t] ELSE due[h]]
    BY <1>4 DEF AddPush
  <2>3. due' \in [1 .. m_idcounter + 1 -> Nat]
    BY <2>1, <2>2 DEF TypeOK, Ids
  <2>4. \A id \in 1 .. m_idcounter : due'[id] = due[id]
    BY <2>2 DEF TypeOK
  <2>5. Service!Add
    BY <1>4, <2>2, <2>3, <2>4 DEF AddPush, worker, Service!Add
  <2> QED
    BY <2>5 DEF Service!Next
<1> QED
  BY <1>1, <1>2, <1>3, <1>4 DEF Call, Going

\* The worker counts only when it calls a handler.
LEMMA WorkImplements ==
  ASSUME IInv, Work
  PROVE  [Service!Next]_(Service!svars)
<1> USE DEF IInv
<1>1. CASE CallHandler
  <2>1. run = "taken" /\ item.handler \in Ids /\ item.handler # 0
    BY <1>1 DEF CallHandler, TypeOK, Ids
  <2>2. item.handler \in Service!Pending
    BY <2>1 DEF Service!Pending, Service!Ran, Ran, Ids, RunsOnce, OncePerItem, Taken
  <2>3. UNCHANGED <<now, m_idcounter, due, cancelled>>
    BY <1>1 DEF CallHandler, queue
  <2>4. Says(item) /\ item.end <= now
    BY <2>1 DEF Truthful
  <2>5. CASE item.id = 0
    <3>1. Service!Abort(item.handler)
      BY <1>1, <2>1, <2>2, <2>3, <2>4, <2>5 DEF CallHandler, Service!Abort, Says, Ids
    <3> QED
      BY <2>1, <3>1 DEF Service!Next, Ids
  <2>6. CASE item.id # 0
    <3>1. Service!Expire(item.handler)
      BY <1>1, <2>1, <2>2, <2>3, <2>4, <2>6 DEF CallHandler, Service!Expire, Says
    <3> QED
      BY <2>1, <3>1 DEF Service!Next, Ids
  <2> QED
    BY <2>5, <2>6
<1>2. CASE CalcWaitTime \/ CalcNoWaitTime \/ Awake \/ Timeout \/ Take
           \/ HandlerReturns \/ NothingDue
  BY <1>2 DEF CalcWaitTime, CalcNoWaitTime, Awake, Timeout, Take, HandlerReturns,
              NothingDue, queue, history, Service!svars
<1> QED
  BY <1>1, <1>2 DEF Work

\* The queue keeps what timer_queue.h promises.
THEOREM Implements == Spec => KeepsPromises
<1>1. Init => Service!Init
  BY DEF Init, Service!Init
<1>2. IInv /\ [Next]_vars => [Service!Next]_(Service!svars)
  <2> SUFFICES ASSUME IInv, [Next]_vars PROVE [Service!Next]_(Service!svars)
    OBVIOUS
  <2>1. ASSUME NEW t \in Thread, Call(t) \/ Going(t)
        PROVE [Service!Next]_(Service!svars)
    BY <2>1, CallImplements
  <2>2. CASE Destroy
    BY <2>2, CancelItemsImplements DEF Destroy, worker
  <2>3. CASE DestroyAdd \/ Join
    BY <2>3 DEF DestroyAdd, Join, queue, worker, history, Service!svars
  <2>4. CASE Work
    BY <2>4, WorkImplements
  <2>5. CASE Tick
    BY <2>5 DEF Tick, queue, history, Service!Tick, Service!Next
  <2>6. CASE UNCHANGED vars
    BY <2>6 DEF vars, queue, history, Service!svars
  <2> QED
    BY <2>1, <2>2, <2>3, <2>4, <2>5, <2>6 DEF Next, Destructor
<1> QED
  BY <1>1, <1>2, PromiseKept, PTL DEF Spec, KeepsPromises, Service!Spec
=============================================================================
