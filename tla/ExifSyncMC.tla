----------------------------- MODULE ExifSyncMC -----------------------------
(***************************************************************************)
(* TLC instances of ExifSync: one picture, whose jobs, calls, workers and  *)
(* routines interleave in every order.                                     *)
(***************************************************************************)
EXTENDS ExifSync

CONSTANTS p1, f1, f2

MCPictures == {p1}
MCKinds == {"edit", "extract"}

\* Nothing is claimed of a picture once it is stale, and it stays so.
NoneStale == stale = {}
=============================================================================
