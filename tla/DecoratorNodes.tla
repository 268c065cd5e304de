---------------------------- MODULE DecoratorNodes ----------------------------
(***************************************************************************)
(* tick() of the nodes in decorators/ that need neither a timer nor a      *)
(* thread of their own.  The reset of the child that follows tick() is     *)
(* TreeNode!ResetChild.                                                    *)
(***************************************************************************)
EXTENDS TreeNode

\* setStatus(RUNNING), tick the child, return the image of what it returned.
Translate(n, result) ==
  \/ /\ at[n] = "enter"
     /\ status' = [status EXCEPT ![n] = "RUNNING"]
     /\ TickChild(n, 0)
     /\ UNCHANGED <<todo, out>>
  \/ /\ at[n] = "await"
     /\ Leave(n, result[got[Child(n, 0)]], {})
     /\ UNCHANGED status

InverterResult ==
  [s \in Status |-> IF s = "SUCCESS" THEN "FAILURE"
                    ELSE IF s = "FAILURE" THEN "SUCCESS" ELSE s]

InverterTick(n) ==
  /\ kind[n] = "Inverter" /\ (at[n] = "await" => got[Child(n, 0)] # "IDLE")
  /\ Translate(n, InverterResult)
  /\ UNCHANGED idx

\* A child that returns IDLE leaves the node at its own status, RUNNING.
ForceSuccessResult ==
  [s \in Status |-> IF s \in Done THEN "SUCCESS" ELSE "RUNNING"]
ForceFailureResult ==
  [s \in Status |-> IF s \in Done THEN "FAILURE" ELSE "RUNNING"]

ForceSuccessTick(n) ==
  kind[n] = "ForceSuccess" /\ Translate(n, ForceSuccessResult) /\ UNCHANGED idx

ForceFailureTick(n) ==
  kind[n] = "ForceFailure" /\ Translate(n, ForceFailureResult) /\ UNCHANGED idx

\* SubtreeNode becomes RUNNING only from IDLE.
SubTreeTick(n) ==
  /\ kind[n] = "SubTree"
  /\ \/ /\ at[n] = "enter"
        /\ status' = [status EXCEPT ![n] = IF @ = "IDLE" THEN "RUNNING" ELSE @]
        /\ TickChild(n, 0)
        /\ UNCHANGED <<todo, out>>
     \/ /\ at[n] = "await"
        /\ Leave(n, got[Child(n, 0)], {})
        /\ UNCHANGED status
  /\ UNCHANGED idx

\* BlackboardPreconditionNode: the two values are read anew in every tick.
Mismatch(n) == IF param[n] = 0 THEN "FAILURE"
               ELSE IF param[n] = 1 THEN "SUCCESS" ELSE "RUNNING"

BlackboardRefuse(n) ==
  Leave(n, Mismatch(n), IF status[Child(n, 0)] = "RUNNING" THEN {0} ELSE {})

BlackboardCheckTick(n) ==
  /\ kind[n] = "BlackboardCheck"
  /\ \/ /\ at[n] = "enter"
        /\ status' = [status EXCEPT ![n] = "RUNNING"]
        /\ \/ TickChild(n, 0) /\ UNCHANGED <<todo, out>>
           \/ BlackboardRefuse(n)
     \/ /\ at[n] = "await"
        /\ Leave(n, got[Child(n, 0)], {})
        /\ UNCHANGED status
  /\ UNCHANGED idx

-----------------------------------------------------------------------------
\* RepeatNode and RetryNode: while another try is allowed, tick the child
\* again; only the result go counts a try.  The child is not reset between
\* two tries.  With -1 the count is never read, so it is not kept.
LoopAgainStuck(n, go) ==
  /\ at[n] = "await" /\ got[Child(n, 0)] = go
  /\ at' = [at EXCEPT ![n] = "loop"]
  /\ UNCHANGED <<status, idx, cur, todo, out>>

LoopAgain(n, go) ==
  /\ at[n] = "await" /\ got[Child(n, 0)] = go
  /\ at' = [at EXCEPT ![n] = "loop"]
  /\ idx' = [idx EXCEPT ![n] = IF param[n] = -1 THEN @ ELSE @ + 1]
  /\ UNCHANGED <<status, cur, todo, out>>

LoopTick(n, go, stop) ==
  \/ /\ at[n] = "enter"
     /\ status' = [status EXCEPT ![n] = "RUNNING"]
     /\ at' = [at EXCEPT ![n] = "loop"]
     /\ UNCHANGED <<idx, cur, todo, out>>
  \/ /\ at[n] = "loop" /\ (idx[n] < param[n] \/ param[n] = -1)
     /\ TickChild(n, 0)
     /\ UNCHANGED <<status, idx, todo, out>>
  \/ /\ at[n] = "loop" /\ idx[n] >= param[n] /\ param[n] # -1
     /\ Leave(n, go, {})
     /\ idx' = [idx EXCEPT ![n] = 0]
     /\ UNCHANGED status
  \/ LoopAgain(n, go)
  \/ /\ at[n] = "await" /\ got[Child(n, 0)] = stop
     /\ Leave(n, stop, {})
     /\ idx' = [idx EXCEPT ![n] = 0]
     /\ UNCHANGED status
  \/ /\ at[n] = "await" /\ got[Child(n, 0)] = "RUNNING"
     /\ Leave(n, "RUNNING", {})
     /\ UNCHANGED <<status, idx>>

RepeatTick(n) == kind[n] = "Repeat" /\ LoopTick(n, "SUCCESS", "FAILURE")

RetryTick(n) == kind[n] = "RetryUntilSuccesful" /\ LoopTick(n, "FAILURE", "SUCCESS")

DecoratorTick(n) ==
  /\ \/ InverterTick(n) \/ ForceSuccessTick(n) \/ ForceFailureTick(n)
     \/ SubTreeTick(n) \/ BlackboardCheckTick(n)
     \/ RepeatTick(n) \/ RetryTick(n)
  /\ UNCHANGED <<tree, skip, async, loc, got, caller>>

\* The LogicErrors of decorators/: a child that returned IDLE.
DecoratorThrow(n) ==
  /\ at[n] = "await" /\ kind[n] \in LoopKinds \cup {"Inverter"}
  /\ got[Child(n, 0)] = "IDLE"
  /\ Throw
=============================================================================
