---------------------------- MODULE MCScheduler ----------------------------
EXTENDS SchedulerProperties

(* In the regimes where the round-trip counters drift apart they drift     *)
(* without bound; this bounds how far the run follows them.                *)
TripsBound == round_trips \in -1..1
=============================================================================
