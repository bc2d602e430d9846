----------------------------- MODULE JobQueueMC -----------------------------
(***************************************************************************)
(* TLC instance of JobQueue: two jobs on two pictures, two attempts per  *)
(* job, so a job is taken back while its first worker is still at work.    *)
(***************************************************************************)
EXTENDS JobQueue

CONSTANTS p1, p2, key1

MCJobs == 1 .. 2
MCPictures == {p1, p2}
MCKinds == {"edit", "extract"}
MCIdemKeys == {key1}
=============================================================================
