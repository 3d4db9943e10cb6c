---------------------------- MODULE Coroutines ----------------------------
(***************************************************************************)
(* What context switching promises, with no stacks, frames or interrupts:  *)
(* a fixed set of threads of control share one CPU; one of them runs, and  *)
(* every other one waits at the point where it was left.  In one step the  *)
(* running thread may move to another point, and the CPU may pass to any   *)
(* thread, which continues at its own point.                               *)
(***************************************************************************)
CONSTANTS Threads, Points

VARIABLES running, point

cvars == <<running, point>>

CInit == /\ running \in Threads
         /\ point \in [Threads -> Points]

Move(t, p) == /\ running' = t
              /\ point' = [point EXCEPT ![running] = p]

CNext == \E t \in Threads, p \in Points : Move(t, p)

CSpec == CInit /\ [][CNext]_cvars
=============================================================================
