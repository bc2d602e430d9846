---------------------------- MODULE ShareDelivery ----------------------------
(***************************************************************************)
(* The delivery of one share to a recipient on another instance (features  *)
(* 02, 28): the sender's pipeline diffs what the share covers against what *)
(* it has told (share_announcements), posts the difference and records it  *)
(* once answered.  A picture's token lets the recipient fetch it.          *)
(*                                                                         *)
(* The pipeline of one user never runs twice at once (RoutineRuntime); the *)
(* user, the API calls of ShareHandshake, the sweep and the recipient's    *)
(* handlers all move between its steps.  Requests may be lost before or    *)
(* after they are handled, posted twice, or handled after their sender     *)
(* gave up; a run may die anywhere.                                        *)
(***************************************************************************)
EXTENDS ShareHandshake, FiniteSets

CONSTANTS
  Pictures,
  Relayed,     \* pictures the sender itself received from someone else
  Tokens,      \* naturals: enough for a fresh one to be always left
  Mixes,       \* bounds: which API calls and faults are in play together, with how
               \* many changes to the sender's pictures (sweeps included) and faults
  None         \* no row

VARIABLES
  mix,       \* the mix in play
  future,    \* outgoing_shares.future: pictures covered later are shared too
  covered,   \* pictures tagged under the share's path
  dirty,     \* last_pipeline_run_at IS NULL
  updated,   \* pictures.updated_at, moved by every UPDATE of the row
  origin,    \* origin[p]: the updated_at a relayed picture came with
  upstream,  \* upstream[p]: the token a relayed picture came with
  track,     \* track[p]: the share_announcements row of p
  run,       \* the sender's pipeline run
  req,       \* the run's request on the wire
  late,      \* requests still handled though their sender gave up
  theirs,    \* theirs[p]: the recipient's copy of p
  changes,   \* changes so far
  faults,    \* faults so far
  ghosts,    \* history: pictures told in a request whose answer was lost
  crossed,   \* history: pictures of requests handled late
  forgotten, \* history: pictures marked as run by a run that died before the diff
  torn       \* history: a status was acted on once dead, a call died half way

pictureVars == <<covered, dirty, updated, origin, upstream>>
budgets == <<changes, faults>>
history == <<ghosts, crossed, forgotten, torn>>

vars == <<shareVars, mix, future, pictureVars, track, run, req, late, theirs, budgets, history>>

-----------------------------------------------------------------------------
\* What is announced of a picture: its token, the updated_at to record, and
\* the owner's updated_at the recipient goes by.
Item == [token : Tokens, at : Nat, owner : Nat]
Row == [token : Tokens, at : Nat]
Copy == [token : Tokens, owner : Nat]

NoItems == [p \in {} |-> None]

\* Of p's tokens, the row, the copy, the run and each late request hold one.
ASSUME DeliveryAssumption ==
  /\ Relayed \subseteq Pictures
  /\ Tokens \subseteq Nat
  /\ IsFiniteSet(Tokens)
  /\ \A m \in Mixes : m.changes \in Nat /\ m.faults \in Nat /\ Cardinality(Tokens) > m.faults + 3
  /\ None \notin Row \cup Copy

\* The pass under way: what it saw of the share, its scope, what it will say.
IdleRun == [step |-> "idle", seen |-> "pending", todo |-> {}, scope |-> {},
            look |-> {}, say |-> NoItems, unsay |-> {}, ok |-> TRUE]

NoReq == [kind |-> "none", stage |-> "none", say |-> NoItems, unsay |-> {}]

Init ==
  /\ ShareInit
  /\ mix \in Mixes
  /\ future \in BOOLEAN
  /\ covered = {}
  /\ dirty = Pictures
  /\ updated = [p \in Pictures |-> 1]
  /\ origin = [p \in Relayed |-> 1]
  /\ upstream \in [Relayed -> Tokens]
  /\ \A p \in Relayed, t \in Tokens : upstream[p] <= t
  /\ track = [p \in Pictures |-> None]
  /\ run = IdleRun
  /\ req = NoReq
  /\ late = {}
  /\ theirs = [p \in Pictures |-> None]
  /\ changes = 0
  /\ faults = 0
  /\ ghosts = {}
  /\ crossed = {}
  /\ forgotten = {}
  /\ torn = FALSE

-----------------------------------------------------------------------------
(* Shared steps *)

Tracked == {p \in Pictures : track[p] # None}
Told == {p \in Pictures : theirs[p] # None}

\* A random token: one of p's that is not held anywhere.
InUse(p) ==
  {x.token : x \in {track[p], theirs[p]} \ {None}}
    \cup {r.say[p].token : r \in {r \in late \cup {run} : p \in DOMAIN r.say}}
FreshToken(p) ==
  CHOOSE t \in Tokens \ InUse(p) : \A u \in Tokens \ InUse(p) : t <= u

Touch(S) == updated' = [p \in Pictures |-> IF p \in S THEN updated[p] + 1 ELSE updated[p]]

\* invalidate
Invalidate(S) ==
  /\ changes < mix.changes
  /\ changes' = changes + 1
  /\ dirty' = dirty \cup S
  /\ Touch(S)

Fault(kind) ==
  /\ kind \in mix.ops
  /\ faults < mix.faults
  /\ faults' = faults + 1

RunAt(step) == run.step = step
Goto(step) == run' = [run EXCEPT !.step = step]

-----------------------------------------------------------------------------
(* The sender's pictures *)

\* batch_edit_tags, or any route into the coverage of the share.
Retag(p) ==
  /\ covered' = IF p \in covered THEN covered \ {p} ELSE covered \cup {p}
  /\ Invalidate({p})
  /\ UNCHANGED <<shareVars, mix, future, origin, upstream, track, run, req, late, theirs,
                 faults, history>>

\* The row changes and stays covered: trashed, restored, its metadata edited.
Edit(p) ==
  /\ Invalidate({p})
  /\ UNCHANGED <<shareVars, mix, future, covered, origin, upstream, track, run, req, late,
                 theirs, faults, history>>

\* The owner of a relayed picture re-announces it: edited, or with a new token.
ArrivesAgain(p) ==
  /\ p \in Relayed
  /\ \/ origin' = [origin EXCEPT ![p] = @ + 1] /\ UNCHANGED upstream
     \/ upstream' = [upstream EXCEPT ![p] = FreshToken(p)] /\ UNCHANGED origin
  /\ Invalidate({p})
  /\ UNCHANGED <<shareVars, mix, future, covered, track, run, req, late, theirs, faults, history>>

\* find_stale_announcement_pictures: rows that lag their pictures.
Lagging == {p \in Tracked : track[p].at < updated[p] /\ out \notin Dead}

Sweep ==
  /\ Lagging # {}
  /\ Invalidate(Lagging)
  /\ UNCHANGED <<shareVars, mix, future, covered, origin, upstream, track, run, req, late, theirs,
                 faults, history>>

-----------------------------------------------------------------------------
(* run_for_user *)

\* A full pass, if the share is due one and its backoff has elapsed.
RunStarts ==
  /\ RunAt("idle")
  /\ \/ /\ out \in Awaiting
        /\ run' = [run EXCEPT !.step = "look", !.seen = out, !.scope = Pictures]
     \/ dirty # {} /\ Goto("find")
  /\ UNCHANGED <<shareVars, mix, future, pictureVars, track, req, late, theirs, budgets, history>>

FindDirty ==
  /\ RunAt("find")
  /\ run' = IF dirty = {} THEN IdleRun
            ELSE [IdleRun EXCEPT !.step = "mark", !.todo = dirty]
  /\ UNCHANGED <<shareVars, mix, future, pictureVars, track, req, late, theirs, budgets, history>>

\* The batch has been evaluated: mark_run.
MarkRun ==
  /\ RunAt("mark")
  /\ dirty' = dirty \ run.todo
  /\ Touch(run.todo)
  /\ Goto("batch")
  /\ forgotten' = forgotten \ run.todo
  /\ UNCHANGED <<shareVars, mix, future, covered, origin, upstream, track, req, late, theirs,
                 budgets, ghosts, crossed, torn>>

\* reconcile_active_batch
StartBatch ==
  /\ RunAt("batch")
  /\ run' = IF out = "active"
            THEN [run EXCEPT !.step = "look", !.seen = out, !.scope = run.todo]
            ELSE IdleRun
  /\ UNCHANGED <<shareVars, mix, future, pictureVars, track, req, late, theirs, budgets, history>>

-----------------------------------------------------------------------------
(* reconcile_share *)

Look ==
  /\ RunAt("look")
  /\ run' = [run EXCEPT !.step = "plan", !.look = covered \cap run.scope]
  /\ UNCHANGED <<shareVars, mix, future, pictureVars, track, req, late, theirs, budgets, history>>

AnnounceNewAlways == TRUE

\* future = false freezes the set at the first announcement.
AnnounceNew == future \/ run.seen = "pending_first_announcement"

TokenMoved(p) == p \in Relayed /\ upstream[p] # track[p].token

\* Pictures covered and not told, or told with what has changed since.
Untold ==
  {p \in run.look :
     IF track[p] = None THEN AnnounceNew ELSE TokenMoved(p) \/ updated[p] > track[p].at}

TokenFor(p) ==
  IF p \in Relayed THEN upstream[p]
  ELSE IF track[p] = None THEN FreshToken(p)
  ELSE track[p].token

VersionOfOwnOnly(p) == IF p \in Relayed THEN None ELSE updated[p]

\* owner_updated_at
OwnerVersion(p) == IF p \in Relayed THEN origin[p] ELSE updated[p]

Plan ==
  /\ RunAt("plan")
  /\ run' = [run EXCEPT !.step = "announce",
                        !.say = [p \in Untold |->
                                   [token |-> TokenFor(p), at |-> updated[p],
                                    owner |-> OwnerVersion(p)]],
                        !.unsay = (Tracked \cap run.scope) \ run.look]
  /\ UNCHANGED <<shareVars, mix, future, pictureVars, track, req, late, theirs, budgets, history>>

Post(kind, say, unsay) ==
  req' = [kind |-> kind, stage |-> "sent", say |-> say, unsay |-> unsay]

Announce ==
  /\ RunAt("announce")
  /\ IF DOMAIN run.say = {}
     THEN Goto("unannounce") /\ UNCHANGED req
     ELSE Goto("announcing") /\ Post("announce", run.say, {})
  /\ UNCHANGED <<shareVars, mix, future, pictureVars, track, late, theirs, budgets, history>>

DeliveredOrRefused == req.stage \in {"done", "refused"}
Delivered == req.stage = "done"

\* Deliver, then record: insert_with_token, whatever became of the share.
AnnounceAnswered ==
  /\ RunAt("announcing")
  /\ req.stage \in {"done", "refused"}
  /\ track' = IF Delivered
              THEN [p \in Pictures |->
                      IF p \in DOMAIN run.say
                      THEN [token |-> run.say[p].token, at |-> run.say[p].at]
                      ELSE track[p]]
              ELSE track
  /\ torn' = (torn \/ (Delivered /\ out \in Dead))
  /\ ghosts' = IF Delivered THEN ghosts \ DOMAIN run.say ELSE ghosts
  /\ run' = [run EXCEPT !.step = "unannounce", !.ok = Delivered]
  /\ req' = NoReq
  /\ UNCHANGED <<shareVars, mix, future, pictureVars, late, theirs, budgets,
                 crossed, forgotten>>

Unannounce ==
  /\ RunAt("unannounce")
  /\ IF run.unsay = {}
     THEN Goto("settle") /\ UNCHANGED req
     ELSE Goto("unannouncing") /\ Post("unannounce", NoItems, run.unsay)
  /\ UNCHANGED <<shareVars, mix, future, pictureVars, track, late, theirs, budgets, history>>

UnannounceAnswered ==
  /\ RunAt("unannouncing")
  /\ req.stage \in {"done", "refused"}
  /\ track' = IF Delivered
              THEN [p \in Pictures |-> IF p \in run.unsay THEN None ELSE track[p]]
              ELSE track
  /\ run' = [run EXCEPT !.step = "settle", !.ok = @ /\ Delivered]
  /\ req' = NoReq
  /\ UNCHANGED <<shareVars, mix, future, pictureVars, late, theirs, budgets, history>>

\* A full pass is followed by the dirty pictures, a batch by nothing.
Settle ==
  /\ RunAt("settle")
  /\ IF run.ok THEN PassSucceeds(run.seen) ELSE PassFails(run.seen)
  /\ torn' = (torn \/ (out \in Dead /\ out' # out))
  /\ run' = [IdleRun EXCEPT !.step = IF run.seen \in Awaiting THEN "find" ELSE "idle"]
  /\ UNCHANGED <<inc, call, mix, future, pictureVars, track, req, late, theirs, budgets,
                 ghosts, crossed, forgotten>>
-----------------------------------------------------------------------------
(* The recipient's handlers *)

Arrived == {r \in {req} \cup late : r.stage \in {"sent", "checked"}}

\* r is at its next stage; nobody waits for the end of a late one.
Advance(r, stage) ==
  IF r = req
  THEN req' = [req EXCEPT !.stage = stage] /\ UNCHANGED late
  ELSE /\ late' = (late \ {r}) \cup {q \in {[r EXCEPT !.stage = stage]} : stage = "checked"}
       /\ UNCHANGED req

\* receive_pictures_announcement reads the share ...
CheckShare(r) ==
  /\ r \in Arrived
  /\ r.kind = "announce"
  /\ r.stage = "sent"
  /\ Advance(r, IF inc = "active" THEN "checked" ELSE "refused")
  /\ UNCHANGED <<shareVars, mix, future, pictureVars, track, run, theirs, budgets, history>>

\* ... and register_received_pictures writes the copies in one transaction; one
\* strictly older than what is there is dropped.
NeverOutdated(p, item) == FALSE
OutdatedOrEqual(p, item) == theirs[p] # None /\ item.owner <= theirs[p].owner
Outdated(p, item) == theirs[p] # None /\ item.owner < theirs[p].owner

Register(r) ==
  /\ r \in Arrived
  /\ r.stage = "checked"
  /\ theirs' = [p \in Pictures |->
                  IF p \notin DOMAIN r.say \/ Outdated(p, r.say[p]) THEN theirs[p]
                  ELSE [token |-> r.say[p].token, owner |-> r.say[p].owner]]
  /\ Advance(r, "done")
  /\ torn' = (torn \/ inc # "active")
  /\ UNCHANGED <<shareVars, mix, future, pictureVars, track, run, budgets,
                 ghosts, crossed, forgotten>>

\* receive_pictures_unannouncement, whatever the status of the share.
Unregister(r) ==
  /\ r \in Arrived
  /\ r.kind = "unannounce"
  /\ theirs' = [p \in Pictures |-> IF p \in r.unsay THEN None ELSE theirs[p]]
  /\ Advance(r, "done")
  /\ UNCHANGED <<shareVars, mix, future, pictureVars, track, run, budgets, history>>

-----------------------------------------------------------------------------
(* Faults *)

Subjects(r) == DOMAIN r.say \cup r.unsay

\* The request never gets there.
Lose ==
  /\ req.stage = "sent"
  /\ Fault("lost")
  /\ req' = [req EXCEPT !.stage = "refused"]
  /\ UNCHANGED <<shareVars, mix, future, pictureVars, track, run, late, theirs, changes, history>>

\* It is handled, and the answer never gets back.
LoseAnswer ==
  /\ req.stage = "done"
  /\ Fault("answer")
  /\ req' = [req EXCEPT !.stage = "refused"]
  /\ ghosts' = ghosts \cup DOMAIN req.say
  /\ UNCHANGED <<shareVars, mix, future, pictureVars, track, run, late, theirs, changes,
                 crossed, forgotten, torn>>

\* FederationClient::send posts a second time after a transport error.
Repost ==
  /\ req.stage \in {"sent", "checked", "done"}
  /\ Fault("twice")
  /\ req' = [req EXCEPT !.stage = "sent"]
  /\ IF req.stage = "done"
     THEN ghosts' = ghosts \cup DOMAIN req.say /\ UNCHANGED <<late, crossed>>
     ELSE /\ late' = late \cup {req}
          /\ crossed' = crossed \cup Subjects(req)
          /\ UNCHANGED ghosts
  /\ UNCHANGED <<shareVars, mix, future, pictureVars, track, run, theirs, changes,
                 forgotten, torn>>

\* The timeout is over before the handler is.
GiveUp ==
  /\ req.stage \in {"sent", "checked"}
  /\ Fault("late")
  /\ late' = late \cup {req}
  /\ crossed' = crossed \cup Subjects(req)
  /\ req' = [req EXCEPT !.stage = "refused"]
  /\ UNCHANGED <<shareVars, mix, future, pictureVars, track, run, theirs, changes,
                 ghosts, forgotten, torn>>

\* The sender's process or its database fails in the middle of a run; its
\* request may be handled all the same.
RunDies ==
  /\ ~RunAt("idle")
  /\ Fault("death")
  /\ run' = IdleRun
  /\ req' = NoReq
  /\ \/ UNCHANGED <<late, crossed>>
     \/ /\ req.stage \in {"sent", "checked"}
        /\ late' = late \cup {req}
        /\ crossed' = crossed \cup Subjects(req)
  /\ ghosts' = IF req.stage = "done" THEN ghosts \cup DOMAIN req.say ELSE ghosts
  /\ forgotten' = IF RunAt("mark") THEN forgotten ELSE forgotten \cup (run.todo \ Tracked)
  /\ UNCHANGED <<shareVars, mix, future, pictureVars, track, theirs, changes, torn>>

CallFails(op) ==
  /\ Fault("call")
  /\ CallDies(op)
  /\ torn' = (torn \/ call[op] \in {"marked", "received"})
  /\ UNCHANGED <<mix, future, pictureVars, track, run, req, late, theirs, changes,
                 ghosts, crossed, forgotten>>

-----------------------------------------------------------------------------
(* The calls of ShareHandshake, with what they do to tokens and copies *)

NoRows == [p \in Pictures |-> None]

StatusCalls ==
  \/ AcceptBegins \/ AcceptSends \/ AcceptReceived \/ AcceptCommits
  \/ "revoke" \in mix.ops /\ RevokeMarks
  \/ "reject" \in mix.ops /\ RejectBegins
  \/ RejectDeclines \/ RejectReceived

StatusCall ==
  /\ StatusCalls
  /\ UNCHANGED <<mix, future, pictureVars, track, run, req, late, theirs, budgets, history>>

\* Acting on a status read before.
StaleCall ==
  /\ \/ AcceptMoves /\ torn' = (torn \/ out \in Dead)
     \/ RejectEnds /\ torn' = (torn \/ (inc' # inc /\ inc = "active"))
  /\ UNCHANGED <<mix, future, pictureVars, track, run, req, late, theirs, budgets,
                 ghosts, crossed, forgotten>>

DropRevokedTokens ==
  /\ \/ RevokeDrops /\ track' = NoRows
     \/ RejectDrops /\ UNCHANGED track
  /\ UNCHANGED <<mix, future, pictureVars, run, req, late, theirs, budgets, history>>

\* delete_all_for_share
DropTokens ==
  /\ RevokeDrops \/ RejectDrops
  /\ track' = NoRows
  /\ UNCHANGED <<mix, future, pictureVars, run, req, late, theirs, budgets, history>>

\* cleanup_incoming_share
CleanUp ==
  /\ RevokeReceived \/ RejectLeaves
  /\ theirs' = NoRows
  /\ UNCHANGED <<mix, future, pictureVars, track, run, req, late, budgets, history>>

-----------------------------------------------------------------------------
RunStep ==
  \/ RunStarts \/ FindDirty \/ MarkRun \/ StartBatch
  \/ Look \/ Plan \/ Announce \/ AnnounceAnswered
  \/ Unannounce \/ UnannounceAnswered \/ Settle

Handle(r) == CheckShare(r) \/ Register(r) \/ Unregister(r)

CallStep == StatusCall \/ StaleCall \/ DropTokens \/ CleanUp

Next ==
  \/ \E p \in Pictures : Retag(p) \/ Edit(p) \/ ArrivesAgain(p)
  \/ Sweep
  \/ RunStep
  \/ \E r \in Arrived : Handle(r)
  \/ CallStep
  \/ Lose \/ LoseAnswer \/ Repost \/ GiveUp \/ RunDies
  \/ \E op \in DOMAIN AllIdle : CallFails(op)

Spec == Init /\ [][Next]_vars

\* The runtime keeps triggering the pipeline, and servers serve.
FairSpec == Spec /\ WF_vars(RunStep) /\ WF_vars(\E r \in {req} : Handle(r))

-----------------------------------------------------------------------------
(* Properties *)

TypeOK ==
  /\ ShareTypeOK
  /\ covered \subseteq Pictures
  /\ dirty \subseteq Pictures
  /\ updated \in [Pictures -> Nat]
  /\ origin \in [Relayed -> Nat]
  /\ upstream \in [Relayed -> Tokens]
  /\ \A p \in Pictures : track[p] \in Row \cup {None} /\ theirs[p] \in Copy \cup {None}
  /\ \A r \in {req, run} \cup late : \A p \in DOMAIN r.say : r.say[p] \in Item

\* Nothing is left for the routines, the handlers or the sweep to do.
Quiescent ==
  /\ RunAt("idle")
  /\ call = AllIdle
  /\ late = {}
  /\ dirty = {}
  /\ Lagging = {}
  /\ out = "active"
  /\ inc = "active"
  /\ ~torn

\* Every tracked picture is covered, and the recipient holds its newest copy
\* under the very token the sender will honour, lost answers and deaths of a run
\* notwithstanding.
Mirrored ==
  Quiescent => \A p \in Tracked \ crossed :
    /\ p \in covered
    /\ theirs[p] = [token |-> track[p].token, owner |-> OwnerVersion(p)]

\* The recipient keeps nothing the share no longer covers, except what it was
\* told in a request whose answer was lost; and a share that takes new pictures
\* has told every covered one, except those a run had marked as run when it died.
ToldIsCovered ==
  Quiescent =>
    /\ Told \ (ghosts \cup crossed) \subseteq covered
    /\ future => covered \ (crossed \cup forgotten) \subseteq Tracked

\* The second half without its exception: the sweep re-derives all outstanding work.
SweepRecovers == Quiescent /\ future => covered \ crossed \subseteq Tracked

\* Once it is active, a share with future = false tells no new picture.
FrozenSet ==
  [][~future /\ ~torn' /\ out \in {"active", "errored"}
       => Told' \ Told \subseteq Tracked \cup crossed]_vars

\* The copies of a picture never go back in time, in whatever order its
\* announcements are handled.
NeverBackInTime ==
  [][\A p \in Told : theirs'[p] # None => theirs'[p].owner >= theirs[p].owner]_vars

DropDone == out \in Dead /\ ~At("revoke", "marked") /\ ~At("rejection", "received")

\* A dead share has no token left to fetch by, and its recipient no copy,
\* unless a status was acted on after it had died.
DeadShareIsBare ==
  ~torn => /\ DropDone => Tracked = {}
           /\ inc \in Dead => Told = {}

\* The two ends agree once every call is through: none is dead alone, and the
\* recipient's is active only if the sender has handed it to its pipeline.
EndsAgree ==
  /\ inc = "active" => out # "pending"
  /\ call = AllIdle /\ faults = 0 /\ ~torn => (out \in Dead <=> inc \in Dead)

\* Revoking ends the announcements: the tokens it dropped never come back.
TokensStayDropped == [][(DropDone /\ Tracked = {}) => (Tracked' = {})]_vars

\* A share due a full pass gets through one, however many fail on the way.
DeliveryRecovers ==
  (out \in Awaiting /\ inc = "active") ~> (out \notin Awaiting \/ inc # "active")
=============================================================================
