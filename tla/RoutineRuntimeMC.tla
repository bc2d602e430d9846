-------------------------- MODULE RoutineRuntimeMC --------------------------
(***************************************************************************)
(* TLC instance of RoutineRuntime: two keys, one swept, contending for one *)
(* permit, so that runs queue, timers go stale and the drain waits its     *)
(* turn behind queued runs.                                                *)
(***************************************************************************)
EXTENDS RoutineRuntime

CONSTANTS k1, k2

MCKeys == {k1, k2}
MCSweepKeys == {k1}

\* Three triggers of k1 let a stale timer meet a later window; one of k2 is
\* enough to contend for the permit.
MCMaxTriggers == [k \in MCKeys |-> IF k = k1 THEN 3 ELSE 1]
=============================================================================
