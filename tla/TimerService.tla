----------------------------- MODULE TimerService -----------------------------
(***************************************************************************)
(* What TimerQueue promises its callers (timer_queue.h:144-151): a handler *)
(* that was added runs once, with aborted = false when its time has come,  *)
(* with aborted = true when it was cancelled before.  Nothing is said of   *)
(* the order in which the handlers run.                                    *)
(***************************************************************************)
EXTENDS Naturals

VARIABLES
  now,        \* Clock::now()
  added,      \* how many timers were added; their ids are 1 .. added
  due,        \* [1 .. added -> Nat]: the time each was added for
  cancelled,  \* the timers a call promised to abort
  expired,    \* the timers whose handler was called with aborted = false
  aborted     \* the timers whose handler was called with aborted = true

svars == <<now, added, due, cancelled, expired, aborted>>

Ran     == expired \cup aborted
Pending == (1 .. added) \ Ran

Init ==
  /\ now \in Nat
  /\ added = 0
  /\ due = [id \in {} |-> 0]
  /\ cancelled = {} /\ expired = {} /\ aborted = {}

\* A timer is added.  Its time may have passed by then.
Add ==
  /\ added' = added + 1
  /\ due' \in [1 .. added + 1 -> Nat]
  /\ \A id \in 1 .. added : due'[id] = due[id]
  /\ UNCHANGED <<now, cancelled, expired, aborted>>

Cancel(ids) ==
  /\ ids \subseteq Pending
  /\ cancelled' = cancelled \cup ids
  /\ UNCHANGED <<now, added, due, expired, aborted>>

Expire(id) ==
  /\ id \in Pending \ cancelled /\ due[id] <= now
  /\ expired' = expired \cup {id}
  /\ UNCHANGED <<now, added, due, cancelled, aborted>>

Abort(id) ==
  /\ id \in Pending \cap cancelled
  /\ aborted' = aborted \cup {id}
  /\ UNCHANGED <<now, added, due, cancelled, expired>>

Tick ==
  /\ now' = now + 1
  /\ UNCHANGED <<added, due, cancelled, expired, aborted>>

Next ==
  \/ Add
  \/ \E ids \in SUBSET (1 .. added) : Cancel(ids)
  \/ \E id \in 1 .. added : Expire(id) \/ Abort(id)
  \/ Tick

Spec == Init /\ [][Next]_svars
=============================================================================
