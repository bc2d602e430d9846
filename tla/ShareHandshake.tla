--------------------------- MODULE ShareHandshake ---------------------------
(***************************************************************************)
(* The statuses of one share between two instances: the sender's outgoing  *)
(* row, the recipient's incoming row, and the API calls that move them     *)
(* (services/shares/lifecycle.rs, services/federation.rs).  Each action is *)
(* one statement or one transaction; a call is over several of them, and   *)
(* reaches the other instance in the middle of its own.                    *)
(*                                                                         *)
(* ShareDelivery runs the same actions joined to their effects on the      *)
(* pictures and their tokens.                                              *)
(***************************************************************************)
EXTENDS Naturals

VARIABLES
  out,   \* outgoing_shares.status
  inc,   \* incoming_shares.status
  call   \* call[op]: how far the API call op has got, or "idle"

shareVars == <<out, inc, call>>

-----------------------------------------------------------------------------
Statuses == {"pending", "pending_first_announcement", "active", "errored",
             "revoked", "tombstoned"}

Dead == {"revoked", "tombstoned"}

\* needs_activation: a full pass is due.
Awaiting == {"pending_first_announcement", "errored"}

Steps ==
  [accept : {"idle", "opening", "sent", "admitted", "answered"},
   revoke : {"idle", "marked", "dropped"},
   reject : {"idle", "declining", "declined", "leaving", "left"},
   rejection : {"idle", "received", "answered"}]

AllIdle == [accept |-> "idle", revoke |-> "idle", reject |-> "idle", rejection |-> "idle"]

At(op, step) == call[op] = step
Step(op, step) == call' = [call EXCEPT ![op] = step]

\* create_outgoing_share has committed both rows; the recipient's instance
\* accepts a ShareBack it allowed at once.
ShareInit ==
  /\ \/ out = "pending" /\ inc = "pending"
     \/ out = "pending_first_announcement" /\ inc = "active"
  /\ call = AllIdle

\* No open transaction of the recipient's has written the incoming row.
Unlocked == call.accept \in {"idle", "opening"} /\ ~At("reject", "declined")

-----------------------------------------------------------------------------
(* accept_incoming_share: deliver, then commit *)

AcceptBegins ==
  /\ At("accept", "idle")
  /\ inc = "pending"
  /\ Step("accept", "opening")
  /\ UNCHANGED <<out, inc>>

\* The transaction opens by writing the incoming row.
AcceptSends ==
  /\ At("accept", "opening")
  /\ Unlocked
  /\ Step("accept", "sent")
  /\ UNCHANGED <<out, inc>>

\* receive_share_accept reads the outgoing share; the share is dead, active
\* already, or ...
AcceptReceived ==
  /\ At("accept", "sent")
  /\ Step("accept", CASE out \in Dead -> "idle"
                      [] out = "active" -> "answered"
                      [] OTHER -> "admitted")
  /\ UNCHANGED <<out, inc>>

\* ... handed to the pipeline for its first announcement.
AcceptMoves ==
  /\ At("accept", "admitted")
  /\ out' = "pending_first_announcement"
  /\ Step("accept", "answered")
  /\ UNCHANGED inc

AcceptCommitsUnanswered ==
  /\ call.accept \in {"sent", "admitted", "answered"}
  /\ inc' = "active"
  /\ Step("accept", "idle")
  /\ UNCHANGED out

AcceptCommits ==
  /\ At("accept", "answered")
  /\ inc' = "active"
  /\ Step("accept", "idle")
  /\ UNCHANGED out

-----------------------------------------------------------------------------
(* revoke_outgoing_share: status, tokens, then the recipient *)

RevokeMarks ==
  /\ At("revoke", "idle")
  /\ out # "revoked"
  /\ out' = "revoked"
  /\ Step("revoke", "marked")
  /\ UNCHANGED inc

RevokeDrops ==
  /\ At("revoke", "marked")
  /\ Step("revoke", "dropped")
  /\ UNCHANGED <<out, inc>>

\* receive_share_revoke: cleanup_incoming_share, in one transaction.
RevokeReceived ==
  /\ At("revoke", "dropped")
  /\ Unlocked
  /\ inc' = "revoked"
  /\ Step("revoke", "idle")
  /\ UNCHANGED out

-----------------------------------------------------------------------------
(* reject_incoming_share: declines a pending share, leaves an active one *)

RejectBegins ==
  /\ At("reject", "idle")
  /\ inc \in {"pending", "active"}
  /\ Step("reject", IF inc = "pending" THEN "declining" ELSE "leaving")
  /\ UNCHANGED <<out, inc>>

\* Declining writes the row and tells the sender in one transaction.
RejectDeclines ==
  /\ At("reject", "declining")
  /\ Unlocked
  /\ Step("reject", "declined")
  /\ UNCHANGED <<out, inc>>

\* Leaving commits cleanup_incoming_share, then tells the sender.
RejectLeaves ==
  /\ At("reject", "leaving")
  /\ Unlocked
  /\ inc' = "tombstoned"
  /\ Step("reject", "left")
  /\ UNCHANGED out

\* receive_share_reject: status, then tokens.
RejectReceived ==
  /\ call.reject \in {"declined", "left"}
  /\ At("rejection", "idle")
  /\ out \notin Dead
  /\ out' = "tombstoned"
  /\ Step("rejection", "received")
  /\ UNCHANGED inc

RejectDrops ==
  /\ At("rejection", "received")
  /\ Step("rejection", "answered")
  /\ UNCHANGED <<out, inc>>

\* The sender's answer: done, already tombstoned, or 404 once it revoked.
RejectEnds ==
  /\ call.reject \in {"declined", "left"}
  /\ At("rejection", "answered") \/ (At("rejection", "idle") /\ out \in Dead)
  /\ inc' = IF At("reject", "declined") /\ (At("rejection", "answered") \/ out = "tombstoned")
            THEN "tombstoned" ELSE inc
  /\ call' = [call EXCEPT !.reject = "idle", !.rejection = "idle"]
  /\ UNCHANGED out

-----------------------------------------------------------------------------
\* A crash, a lost message or a database error ends a call where it stands;
\* what it has committed stays, what it has not is rolled back.
CallDies(op) ==
  /\ ~At(op, "idle")
  /\ Step(op, "idle")
  /\ UNCHANGED <<out, inc>>

\* A reconcile pass that saw the share as seen ends (mark_announce_success,
\* mark_announce_failure): both write whatever the status is by now.
FirstPassSucceeds(seen) == out' = IF seen = "pending_first_announcement" THEN "active" ELSE out
PassSucceeds(seen) == out' = IF seen \in Awaiting THEN "active" ELSE out
PassFails(seen) == out' = IF seen = "active" THEN "errored" ELSE out

-----------------------------------------------------------------------------
\* The statuses by themselves: what the calls, and passes that saw the share at
\* any time, make of them.
AcceptStep == AcceptBegins \/ AcceptSends \/ AcceptReceived \/ AcceptMoves \/ AcceptCommits
RevokeStep == RevokeMarks \/ RevokeDrops \/ RevokeReceived
RejectStep ==
  \/ RejectBegins \/ RejectDeclines \/ RejectLeaves \/ RejectEnds
  \/ RejectReceived \/ RejectDrops

PassEnds ==
  /\ \E seen \in Statuses : PassSucceeds(seen) \/ PassFails(seen)
  /\ UNCHANGED <<inc, call>>

ShareNext ==
  \/ AcceptStep \/ RevokeStep \/ RejectStep
  \/ \E op \in DOMAIN AllIdle : CallDies(op)
  \/ PassEnds

ShareSpec == ShareInit /\ [][ShareNext]_shareVars

ShareTypeOK ==
  /\ out \in Statuses
  /\ inc \in Statuses \ Awaiting
  /\ call \in Steps
=============================================================================
