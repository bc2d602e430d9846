----------------------------- MODULE RoutineSpec -----------------------------
(***************************************************************************)
(* What the routine framework promises the rest of the backend (the header *)
(* of common/src/routine.rs), with nothing of how it keeps the promise:    *)
(* a trigger names a key; equal keys never run concurrently; at most       *)
(* Concurrency keys run at once; a run takes an input that some trigger    *)
(* carried, never one older than the key has already run with; and a burst *)
(* of triggers costs at most one run each.                                 *)
(***************************************************************************)
EXTENDS Naturals

CONSTANTS
  Keys,         \* the dedup keys of one routine
  Concurrency   \* most keys in flight at once

VARIABLES
  latest,  \* latest[k]: triggers accepted for k; the n-th trigger carries input n
  begun,   \* begun[k]: the input of the latest run of k to begin, 0 before the first
  runs,    \* runs[k]: how many runs of k have begun
  active,  \* the keys whose run() is executing
  room     \* how many more keys may be

vars == <<latest, begun, runs, active, room>>

Init ==
  /\ latest = [k \in Keys |-> 0]
  /\ begun = [k \in Keys |-> 0]
  /\ runs = [k \in Keys |-> 0]
  /\ active = {}
  /\ room = Concurrency

Trigger(k) ==
  /\ latest' = [latest EXCEPT ![k] = @ + 1]
  /\ UNCHANGED <<begun, runs, active, room>>

\* A run of k begins with an input at least as new as any earlier run's, and
\* never more runs than there were triggers.
Begin(k) ==
  /\ k \notin active
  /\ room > 0
  /\ room' = room - 1
  /\ runs[k] < latest[k]
  /\ runs' = [runs EXCEPT ![k] = @ + 1]
  /\ \E n \in begun[k] .. latest[k] : n > 0 /\ begun' = [begun EXCEPT ![k] = n]
  /\ active' = active \cup {k}
  /\ UNCHANGED latest

End(k) ==
  /\ k \in active
  /\ active' = active \ {k}
  /\ room' = room + 1
  /\ UNCHANGED <<latest, begun, runs>>

Next == \E k \in Keys : Trigger(k) \/ Begin(k) \/ End(k)

Spec == Init /\ [][Next]_vars
=============================================================================
