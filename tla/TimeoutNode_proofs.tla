-------------------------- MODULE TimeoutNode_proofs --------------------------
(***************************************************************************)
(* What TimeoutNode guarantees for every duration, however often it is     *)
(* ticked and halted and whenever its timer expires.                       *)
(***************************************************************************)
EXTENDS TimeoutNode, TLAPS

\* timeout_mutex_ is held where tick() and the handler say so.
Locks ==
  /\ mutex = "owner" <=> at \in {"locked", "read"}
  /\ mutex = "worker" <=> hat \in {"check", "halting"}

\* A handler halts the child of a timeout that is under way, and when it is
\* done the child is not RUNNING.
Halts ==
  /\ at \in {"add", "lock", "locked", "read"} => timeout_started
  /\ hat = "halting" => child_halted /\ timeout_started
  /\ child_halted /\ hat # "halting" => child # "RUNNING"

\* Only an AsyncActionNode has a thread.  Between its start and the read of the
\* child's status nobody asks it to stop.
Reads ==
  /\ thread => kind = "Async"
  /\ at = "read" => kind = "Async" /\ child # "IDLE" /\ ~ haltRequested
  /\ at \in {"cancel", "relock", "leave"} => out # "IDLE"

IInv == TypeOK /\ Locks /\ Halts /\ Reads /\ RunsUnderTimeout /\ ThreadIsRunning

-----------------------------------------------------------------------------
\* The node uses its timer as TimerService lets a caller: it adds timers,
\* cancels pending ones, and leaves the rest to the service.
LEMMA TimerSteps ==
  ASSUME TypeOK, [Next]_vars
  PROVE  [Timer!Next]_(Timer!svars)
<1> USE DEF Timer!svars, timer
<1>1. CASE AddTimer
  <2>1. Timer!Add
    BY <1>1 DEF AddTimer, Timer!Add, TypeOK, TimerTypes, NodeTypes
  <2> QED
    BY <2>1 DEF Timer!Next
<1>2. CASE CancelTimer
  <2>1. CASE Timer!Cancel({timer_id})
    BY <2>1 DEF Timer!Next, Timer!Cancel, Timer!Pending
  <2> QED
    BY <1>2, <2>1 DEF CancelTimer
<1>3. CASE Destroy
  <2>1. PICK ids \in SUBSET Timer!Pending : Timer!Cancel(ids)
    BY <1>3 DEF Destroy
  <2> QED
    BY <2>1 DEF Timer!Next, Timer!Pending
<1>4. ASSUME NEW id \in 1 .. added, HandlerCall(id) PROVE Timer!Next
  BY <1>4 DEF HandlerCall, Timer!Next
<1>5. CASE Tick
  BY <1>5 DEF Tick, Timer!Next
<1>6. CASE TickStart \/ HaltStart \/ Lock \/ ReportTimeout \/ TickStateful \/ StartAsync
           \/ ReadAsync \/ Relock \/ Ticked \/ ResetChild \/ HaltEnd \/ Joined
  BY <1>6 DEF TickStart, HaltStart, Lock, ReportTimeout, TickStateful, StartAsync, ReadAsync,
              ChildReturned, Relock, Ticked, ResetChild, HaltEnd, Joined
<1>7. CASE Handler \/ ChildThread \/ UNCHANGED vars
  BY <1>7 DEF Handler, HandlerLock, HandlerPass, HandlerHalt, HandlerHalted, ChildThread, vars
<1> QED
  BY <1>1, <1>2, <1>3, <1>4, <1>5, <1>6, <1>7 DEF Next, Going

\* A step of the service keeps the types of its variables, and the ids it has
\* given out stay ids.
LEMMA TimerKeepsTypes ==
  ASSUME TimerTypes, [Timer!Next]_(Timer!svars)
  PROVE  TimerTypes' /\ added <= added'
<1> USE DEF TimerTypes
<1>1. CASE Timer!Add
  BY <1>1 DEF Timer!Add
<1>2. ASSUME NEW ids \in SUBSET (1 .. added), Timer!Cancel(ids)
      PROVE  TimerTypes' /\ added <= added'
  BY <1>2 DEF Timer!Cancel
<1>3. ASSUME NEW id \in 1 .. added, Timer!Expire(id)
      PROVE  TimerTypes' /\ added <= added'
  <2>1. expired' = expired \cup {id} /\ UNCHANGED <<now, added, due, cancelled, aborted>>
    BY <1>3 DEF Timer!Expire
  <2> QED
    BY <2>1
<1>4. ASSUME NEW id \in 1 .. added, Timer!Abort(id)
      PROVE  TimerTypes' /\ added <= added'
  <2>1. aborted' = aborted \cup {id} /\ UNCHANGED <<now, added, due, cancelled, expired>>
    BY <1>4 DEF Timer!Abort
  <2> QED
    BY <2>1
<1>5. CASE Timer!Tick
  BY <1>5 DEF Timer!Tick
<1>6. CASE UNCHANGED Timer!svars
  BY <1>6 DEF Timer!svars
<1> QED
  BY <1>1, <1>2, <1>3, <1>4, <1>5, <1>6 DEF Timer!Next

\* A constructed node holds no lock and has no timer.
LEMMA InitIInv == ASSUME Init PROVE IInv
<1>1. 1 .. added = {}
  BY DEF Init
<1>2. due \in [1 .. added -> Nat]
  BY <1>1 DEF Init
<1>3. TimerTypes
  BY <1>2 DEF Init, TimerTypes
<1>4. msec \in Nat
  BY TimeoutAssumption DEF Init
<1>5. /\ timeout_started \in BOOLEAN /\ child_halted \in BOOLEAN /\ thread \in BOOLEAN
      /\ haltRequested \in BOOLEAN
  BY DEF Init
<1>6. NodeTypes
  BY <1>4, <1>5 DEF Init, NodeTypes, Status, Done
<1>7. Locks /\ Halts /\ Reads /\ RunsUnderTimeout /\ ThreadIsRunning
  BY DEF Init, Locks, Halts, Reads, RunsUnderTimeout, ThreadIsRunning
<1> QED
  BY <1>3, <1>6, <1>7 DEF IInv, TypeOK

\* The types of everything but the timer.
LEMMA NextKeepsTypes ==
  ASSUME IInv, [Next]_vars
  PROVE  TypeOK'
<1>1. TimerTypes' /\ added \in Nat /\ added' \in Nat /\ added <= added' /\ now \in Nat
  BY TimerSteps, TimerKeepsTypes DEF IInv, TypeOK, TimerTypes
<1>2. NodeTypes
  BY DEF IInv, TypeOK
<1> SUFFICES NodeTypes'
  BY <1>1 DEF TypeOK
<1> USE <1>1, <1>2 DEF NodeTypes, Status, Done, node, leaf, owner, work
<1>3. CASE TickStart
  <2>1. UNCHANGED <<mutex, kind, child, thread, haltRequested, out, hat, handler>>
    BY <1>3 DEF TickStart
  <2>2. since' \in Nat /\ at' \in {"add", "lock"}
    BY <1>3 DEF TickStart
  <2>3. /\ status' \in Status /\ timeout_started' \in BOOLEAN /\ child_halted' \in BOOLEAN
        /\ UNCHANGED <<msec, timer_id>>
    BY <1>3 DEF TickStart
  <2> QED
    BY <2>1, <2>2, <2>3
<1>4. CASE HaltStart
  BY <1>4 DEF HaltStart
<1>5. CASE Destroy
  BY <1>5 DEF Destroy
<1>6. CASE AddTimer
  BY <1>6 DEF AddTimer
<1>7. CASE Lock \/ Relock
  BY <1>7 DEF Lock, Relock
<1>8. CASE CancelTimer
  BY <1>8 DEF CancelTimer
<1>9. CASE ReportTimeout
  <2>1. UNCHANGED <<msec, status, child_halted, timer_id, kind, child, thread, haltRequested,
                    since, hat, handler>>
    BY <1>9 DEF ReportTimeout
  <2>2. timeout_started' \in BOOLEAN /\ out' = "FAILURE" /\ mutex' = "free" /\ at' = "leave"
    BY <1>9 DEF ReportTimeout
  <2> QED
    BY <2>1, <2>2
<1>10. CASE TickStateful
  BY <1>10 DEF TickStateful, ChildReturned
<1>11. CASE StartAsync
  <2>1. UNCHANGED <<msec, status, timeout_started, child_halted, timer_id, mutex, kind, since,
                    out, hat, handler>>
    BY <1>11 DEF StartAsync
  <2>2. /\ child' = "RUNNING" /\ at' = "read"
        /\ thread' \in BOOLEAN /\ haltRequested' \in BOOLEAN
    BY <1>11 DEF StartAsync
  <2> QED
    BY <2>1, <2>2
<1>12. CASE ReadAsync
  BY <1>12 DEF ReadAsync, ChildReturned
<1>13. CASE Ticked
  BY <1>13 DEF Ticked
<1>14. CASE ResetChild
  BY <1>14 DEF ResetChild
<1>15. CASE HaltEnd
  BY <1>15 DEF HaltEnd
<1>16. CASE Joined
  BY <1>16 DEF Joined
<1>17. ASSUME NEW id \in 1 .. added, HandlerCall(id) PROVE NodeTypes'
  BY <1>17 DEF HandlerCall
<1>18. CASE HandlerLock
  BY <1>18 DEF HandlerLock
<1>19. CASE HandlerPass
  BY <1>19 DEF HandlerPass
<1>20. CASE HandlerHalt
  BY <1>20 DEF HandlerHalt
<1>21. CASE HandlerHalted
  BY <1>21 DEF HandlerHalted
<1>22. CASE ChildThread
  <2>1. child' \in Status /\ thread' \in BOOLEAN
    BY <1>22 DEF ChildThread
  <2>2. UNCHANGED <<msec, status, timeout_started, child_halted, timer_id, mutex, kind,
                    haltRequested, since, at, out, hat, handler>>
    BY <1>22 DEF ChildThread
  <2> QED
    BY <2>1, <2>2
<1>23. CASE Tick \/ UNCHANGED vars
  BY <1>23 DEF Tick, vars
<1> QED
  BY <1>3, <1>4, <1>5, <1>6, <1>7, <1>8, <1>9, <1>10, <1>11, <1>12, <1>13, <1>14, <1>15,
     <1>16, <1>17, <1>18, <1>19, <1>20, <1>21, <1>22, <1>23 DEF Next, Going, Handler

-----------------------------------------------------------------------------
\* Every step of the owner, of the handler and of the child's thread keeps the
\* invariant.
LEMMA NextKeeps == ASSUME IInv, [Next]_vars PROVE IInv'
<1> DEFINE Rest == Locks /\ Halts /\ Reads /\ RunsUnderTimeout /\ ThreadIsRunning
<1>1. TypeOK'
  BY NextKeepsTypes
<1>2. NodeTypes /\ Rest
  BY DEF IInv, TypeOK
<1> SUFFICES Rest'
  BY <1>1 DEF IInv
<1> USE <1>2 DEF NodeTypes, Locks, Halts, Reads, RunsUnderTimeout, ThreadIsRunning,
                 Status, Done, node, leaf, owner, work
<1>3. CASE TickStart
  BY <1>3 DEF TickStart
<1>4. CASE AddTimer
  BY <1>4 DEF AddTimer
<1>5. CASE Lock
  BY <1>5 DEF Lock
<1>6. CASE CancelTimer
  BY <1>6 DEF CancelTimer
<1>7. CASE Relock
  BY <1>7 DEF Relock
<1>8. CASE ReportTimeout
  BY <1>8 DEF ReportTimeout
<1>9. CASE TickStateful
  <2>1. PICK t \in Done \cup {"RUNNING"} :
          /\ child' = t /\ out' = t
          /\ timeout_started' = (t = "RUNNING")
          /\ at' = IF t = "RUNNING" THEN "leave" ELSE "cancel"
    BY <1>9 DEF TickStateful, ChildReturned
  <2>2. at = "locked" /\ ~ child_halted /\ mutex' = "free" /\ UNCHANGED <<child_halted, hat, thread>>
    BY <1>9 DEF TickStateful, ChildReturned
  <2>3. hat # "halting" /\ hat # "check" /\ kind = "Stateful"
    BY <1>9, <2>2 DEF TickStateful
  <2>4. ~ thread
    BY <2>3
  <2>5. CASE t = "RUNNING"
    BY <2>1, <2>2, <2>3, <2>4, <2>5
  <2>6. CASE t # "RUNNING"
    BY <2>1, <2>2, <2>3, <2>4, <2>6
  <2> QED
    BY <2>5, <2>6
<1>10. CASE StartAsync
  BY <1>10 DEF StartAsync
<1>11. CASE ReadAsync
  BY <1>11 DEF ReadAsync, ChildReturned
<1>12. CASE Ticked
  BY <1>12 DEF Ticked
<1>13. CASE ResetChild
  BY <1>13 DEF ResetChild
<1>14. CASE HaltStart
  BY <1>14 DEF HaltStart
<1>15. CASE HaltEnd
  BY <1>15 DEF HaltEnd
<1>16. CASE Destroy \/ Joined
  BY <1>16 DEF Destroy, Joined
<1>17. ASSUME NEW id \in 1 .. added, HandlerCall(id) PROVE Rest'
  BY <1>17 DEF HandlerCall
<1>18. CASE HandlerLock
  BY <1>18 DEF HandlerLock
<1>19. CASE HandlerPass
  BY <1>19 DEF HandlerPass
<1>20. CASE HandlerHalt
  BY <1>20 DEF HandlerHalt
<1>21. CASE HandlerHalted
  BY <1>21 DEF HandlerHalted
<1>22. CASE ChildThread
  BY <1>22 DEF ChildThread
<1>23. CASE Tick \/ UNCHANGED vars
  BY <1>23 DEF Tick, vars
<1> QED
  BY <1>3, <1>4, <1>5, <1>6, <1>7, <1>8, <1>9, <1>10, <1>11, <1>12, <1>13, <1>14, <1>15,
     <1>16, <1>17, <1>18, <1>19, <1>20, <1>21, <1>22, <1>23 DEF Next, Going, Handler

\* What tick(), halt() and the handler rely on, for every run of the threads.
THEOREM Invariant == Spec => []IInv
BY InitIInv, NextKeeps, PTL DEF Spec

\* Every variable keeps its type.
THEOREM TypeCorrect == Spec => []TypeOK
BY Invariant, PTL DEF IInv

\* The handler and executeTick() of the child exclude each other.
THEOREM HandlerWaits == Spec => []NotHaltedInTick
<1>1. IInv => NotHaltedInTick
  BY DEF IInv, Locks, NotHaltedInTick
<1> QED
  BY <1>1, Invariant, PTL

\* A child is RUNNING only under a timeout that was started.
THEOREM ChildIsTimed == Spec => []RunsUnderTimeout
BY Invariant, PTL DEF IInv

\* tick() never returns IDLE.
THEOREM ResultIsNeverIdle == Spec => []NeverIdle
<1>1. IInv => NeverIdle
  BY DEF IInv, Reads, NeverIdle
<1> QED
  BY <1>1, Invariant, PTL

\* Two threads that halt the child leave no thread of it behind.
THEOREM ThreadEndsWithHalt == Spec => []ThreadIsRunning
BY Invariant, PTL DEF IInv

\* The node and its timer together are a behaviour of TimerService: with
\* TimerQueue_proofs!Implements the service may be replaced by the queue.
THEOREM UsesService == Spec => Timer!Spec
<1>1. Init => Timer!Init
  BY DEF Init, Timer!Init
<1>2. IInv /\ [Next]_vars => [Timer!Next]_(Timer!svars)
  BY TimerSteps DEF IInv
<1> QED
  BY <1>1, <1>2, Invariant, PTL DEF Spec, Timer!Spec
=============================================================================
