----------------------------- MODULE ActionNodes -----------------------------
(***************************************************************************)
(* executeTick() of the leaves (action_node.cpp), and the thread an        *)
(* AsyncActionNode starts.  What a leaf returns is the choice of user code.*)
(***************************************************************************)
EXTENDS TreeNode

\* executeTick() of a leaf ends: setStatus(s), return s.
Return(n, s) ==
  /\ status' = [status EXCEPT ![n] = s]
  /\ got' = [got EXCEPT ![n] = s]
  /\ Pop(n)
  /\ UNCHANGED <<tree, memory, async, todo, caller>>

\* SyncActionNode, ConditionNode and SimpleActionNode.  A faulty one returns
\* a status it must not.
SyncTick(n) ==
  /\ at[n] = "enter"
  /\ \/ kind[n] = "Sync" /\ \E s \in Done : Return(n, s)
     \/ kind[n] = "FaultySync" /\ \E s \in Done \cup {"IDLE"} : Return(n, s)

\* A SyncActionNode whose tick() returns RUNNING: executeTick() of the base
\* class has stored the status by the time the exception is thrown.
SyncThrow(n) ==
  /\ kind[n] = "FaultySync" /\ at[n] = "enter"
  /\ status' = [status EXCEPT ![n] = "RUNNING"]
  /\ Unwind

\* StatefulActionNode: onStart() from IDLE, onRunning() while RUNNING, and
\* the old result again once there is one.
StatefulTick(n) ==
  /\ kind[n] = "Stateful" /\ at[n] = "enter"
  /\ \E s \in IF status[n] \in Done THEN {status[n]} ELSE Done \cup {"RUNNING"} :
       Return(n, s)

\* AsyncActionNode: start the thread from IDLE, then return whatever the
\* status is when it is read.
AsyncStart(n) ==
  /\ kind[n] \in AsyncKinds /\ at[n] = "enter" /\ status[n] = "IDLE"
  /\ status' = [status EXCEPT ![n] = "RUNNING"]
  /\ haltRequested' = [haltRequested EXCEPT ![n] = FALSE]
  /\ thread' = [thread EXCEPT ![n] = TRUE]
  /\ at' = [at EXCEPT ![n] = "read"]
  /\ UNCHANGED <<tree, memory, cur, frame, got, caller>>

AsyncRead(n) ==
  /\ kind[n] \in AsyncKinds
  /\ at[n] = "read" \/ (at[n] = "enter" /\ status[n] # "IDLE")
  /\ Return(n, status[n])

\* The thread: setStatus(tick()).  A tick() that saw isHaltRequested()
\* returns IDLE; it may also have finished without looking.
AsyncThread(n) ==
  /\ thread[n]
  /\ \E s \in IF haltRequested[n] THEN Done \cup {"IDLE"} ELSE Done :
       status' = [status EXCEPT ![n] = s]
  /\ thread' = [thread EXCEPT ![n] = FALSE]
  /\ UNCHANGED <<tree, memory, haltRequested, at, cur, frame, got, caller>>

\* A tick() that throws ends the thread, and the exception stays in the
\* future: nothing sets a status or exptr_.
AsyncThreadThrow(n) ==
  /\ thread[n] /\ kind[n] = "FaultyAsync"
  /\ thread' = [thread EXCEPT ![n] = FALSE]
  /\ UNCHANGED <<tree, status, memory, haltRequested, at, cur, frame, got, caller>>

LeafTick(n) ==
  \/ SyncTick(n) \/ SyncThrow(n) \/ StatefulTick(n)
  \/ AsyncStart(n) \/ AsyncRead(n)
=============================================================================
