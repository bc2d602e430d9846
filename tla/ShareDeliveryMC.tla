-------------------------- MODULE ShareDeliveryMC --------------------------
(***************************************************************************)
(* TLC instances of ShareDelivery: a picture of the sender's own and one   *)
(* it relays, a few changes, and a fault at any step.                      *)
(***************************************************************************)
EXTENDS ShareDelivery

CONSTANTS own, relayed

\* Two changes while requests get lost and runs die, and one while either
\* side ends the share.
MCMixes ==
  {[ops |-> {"lost", "answer", "twice", "late", "death"}, changes |-> 2, faults |-> 1],
   [ops |-> {"revoke", "reject", "call"}, changes |-> 1, faults |-> 1]}

MCDeaths == {[ops |-> {"death"}, changes |-> 1, faults |-> 1]}
MCRevokes == {[ops |-> {"revoke"}, changes |-> 1, faults |-> 0]}
=============================================================================
