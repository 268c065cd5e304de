---------------------------- MODULE MCTimerQueue ----------------------------
(* Instances of TimerQueue: model values for the threads, few timers.      *)
EXTENDS TimerQueue, TLC

\* The clients are interchangeable: no action and no invariant names one.
\* (The runs that check liveness do not use it.)
ClientSymmetry == Permutations(Client)
=============================================================================
