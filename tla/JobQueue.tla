------------------------------ MODULE JobQueue ------------------------------
(***************************************************************************)
(* The jobs table (back/src/repository/job.rs) and the workers that lease  *)
(* jobs from it.  A worker holds a job through the token its claim minted; *)
(* it answers at most once, and may instead vanish: a crash, a claim       *)
(* response that never reached it, an answer that never arrived.  The      *)
(* watchdog takes back jobs held too long, whose holders may still be at   *)
(* work, so an answer may come late, after the job went to someone else.   *)
(*                                                                         *)
(* Each action is one transaction or one statement.  ExifSync runs the     *)
(* same actions joined to their effects on the pictures.                   *)
(***************************************************************************)
EXTENDS Naturals, FiniteSets

CONSTANTS
  Jobs,        \* job ids, naturals in created_at order
  Pictures,
  Kinds,       \* job types; "edit" is edit_picture, "extract" gen_thumbnail
  IdemKeys,    \* idempotency keys
  NoKey,       \* the key of a job created without one
  MaxRetries,  \* jobs.max_retries
  MaxClaims    \* bound: claims ever made

ASSUME QueueAssumption ==
  /\ Jobs \subseteq Nat
  /\ IsFiniteSet(Jobs)
  /\ "edit" \in Kinds
  /\ NoKey \notin IdemKeys
  /\ MaxRetries \in Nat \ {0}
  /\ MaxClaims \in Nat

VARIABLES
  jobs,    \* jobs[j]: the row of job j
  held,    \* leases in workers' hands: [job, token]
  minted,  \* tokens minted so far; a row's 0 is NULL
  handed   \* history: handed[j] counts the claims of j

queueVars == <<jobs, held, minted, handed>>

-----------------------------------------------------------------------------
Live == {"pending", "processing"}
Terminal == {"completed", "failed"}

Row == [status : Live \cup Terminal, kind : Kinds, pic : Pictures,
        key : IdemKeys \cup {NoKey}, retries : 0 .. MaxRetries,
        token : 0 .. MaxClaims]

Unborn == [status |-> "unborn"]
Deleted == [status |-> "deleted"]

Lease == [job : Jobs, token : 1 .. MaxClaims]

Having(statuses) == {j \in Jobs : jobs[j].status \in statuses}

LiveEdits(p) ==
  {j \in Having(Live) : jobs[j].kind = "edit" /\ jobs[j].pic = p}

QueueInit ==
  /\ jobs = [j \in Jobs |-> Unborn]
  /\ held = {}
  /\ minted = 0
  /\ handed = [j \in Jobs |-> 0]

-----------------------------------------------------------------------------
(* The backend's side *)

\* The two partial unique indexes: one live edit_picture per picture, one live
\* job per idempotency key.
InsertableUnlessPending(kind, p, key) ==
  /\ kind = "edit" => \A j \in LiveEdits(p) : jobs[j].status # "pending"
  /\ key # NoKey => \A j \in Having(Live) : jobs[j].key # key
InsertableIgnoringKey(kind, p, key) == kind = "edit" => LiveEdits(p) = {}
Insertable(kind, p, key) ==
  /\ kind = "edit" => LiveEdits(p) = {}
  /\ key # NoKey => \A j \in Having(Live) : jobs[j].key # key

\* create, create_idempotent.  An insert the indexes refuse fails, or returns
\* the job in flight; either way the table stays as it was.
Create(j, kind, p, key) ==
  /\ jobs[j] = Unborn
  /\ Insertable(kind, p, key)
  /\ jobs' = [jobs EXCEPT ![j] =
                [status |-> "pending", kind |-> kind, pic |-> p, key |-> key,
                 retries |-> 0, token |-> 0]]
  /\ UNCHANGED <<held, minted, handed>>

\* The token of a claim: fresh, so that no earlier lease can answer it.
TokenOfJob(j) == j
FreshToken(j) == minted + 1

\* claim_next: the oldest pending job of the kinds the worker takes.
Claim(j, kinds) ==
  /\ minted < MaxClaims
  /\ jobs[j].status = "pending"
  /\ jobs[j].kind \in kinds
  /\ \A i \in Having({"pending"}) : jobs[i].kind \in kinds => j <= i
  /\ minted' = minted + 1
  /\ jobs' = [jobs EXCEPT ![j].status = "processing", ![j].token = FreshToken(j)]
  /\ held' = held \cup {[job |-> j, token |-> FreshToken(j)]}
  /\ handed' = [handed EXCEPT ![j] = @ + 1]

\* The claim-token guard of complete and fail.
AnswerableAnyToken(l) == jobs[l.job].status = "processing"
Answerable(l) ==
  /\ jobs[l.job].status = "processing"
  /\ jobs[l.job].token = l.token

Complete(l) ==
  /\ l \in held
  /\ Answerable(l)
  /\ jobs' = [jobs EXCEPT ![l.job].status = "completed"]
  /\ held' = held \ {l}
  /\ UNCHANGED <<minted, handed>>

\* Whether one more failed attempt leaves the job a retry.
RetriesLeftOffByOne(j) == jobs[j].retries < MaxRetries
RetriesLeft(j) == jobs[j].retries + 1 < MaxRetries

\* A row after a failed attempt.
TakenBack(j, permanent) ==
  [jobs[j] EXCEPT !.retries = @ + 1,
                  !.token = 0,
                  !.status = IF ~permanent /\ RetriesLeft(j)
                             THEN "pending" ELSE "failed"]

Fail(l, permanent) ==
  /\ l \in held
  /\ Answerable(l)
  /\ jobs' = [jobs EXCEPT ![l.job] = TakenBack(l.job, permanent)]
  /\ held' = held \ {l}
  /\ UNCHANGED <<minted, handed>>

\* An answer that fails the guard: 409, or 404 once the row is deleted.
Refuse(l) ==
  /\ l \in held
  /\ ~Answerable(l)
  /\ held' = held \ {l}
  /\ UNCHANGED <<jobs, minted, handed>>

\* The jobs the watchdog may find held past the timeout: time is abstract.
StillHeld == {j \in Having({"processing"}) : \E l \in held : l.job = j}
Overdue == Having({"processing"})

\* reset_stale, in one statement: the jobs of S have been held too long.
ResetStale(S) ==
  /\ S # {}
  /\ S \subseteq Overdue
  /\ jobs' = [j \in Jobs |-> IF j \in S THEN TakenBack(j, FALSE) ELSE jobs[j]]
  /\ UNCHANGED <<held, minted, handed>>

\* delete_terminal_older_than: the jobs of S are past their retention.
Prune(S) ==
  /\ S # {}
  /\ S \subseteq Having(Terminal)
  /\ jobs' = [j \in Jobs |-> IF j \in S THEN Deleted ELSE jobs[j]]
  /\ UNCHANGED <<held, minted, handed>>

(* The workers' side *)

Vanish(l) ==
  /\ l \in held
  /\ held' = held \ {l}
  /\ UNCHANGED <<jobs, minted, handed>>

-----------------------------------------------------------------------------
QueueNext ==
  \/ \E j \in Jobs, kind \in Kinds, p \in Pictures, key \in IdemKeys \cup {NoKey} :
       Create(j, kind, p, key)
  \/ \E j \in Jobs, kinds \in SUBSET Kinds : Claim(j, kinds)
  \/ \E l \in held :
       \/ Complete(l)
       \/ \E permanent \in BOOLEAN : Fail(l, permanent)
       \/ Refuse(l)
       \/ Vanish(l)
  \/ \E S \in SUBSET Jobs : ResetStale(S) \/ Prune(S)

QueueSpec == QueueInit /\ [][QueueNext]_queueVars

\* Some worker that takes every kind keeps polling, and the watchdog keeps
\* finding every job held past the timeout.
QueueFairness ==
  /\ WF_queueVars(\E j \in Jobs : Claim(j, Kinds))
  /\ WF_queueVars(ResetStale(Overdue))

FairQueueSpec == QueueSpec /\ QueueFairness

-----------------------------------------------------------------------------
(* Properties *)

QueueTypeOK ==
  /\ jobs \in [Jobs -> Row \cup {Unborn, Deleted}]
  /\ held \subseteq Lease
  /\ minted \in 0 .. MaxClaims
  /\ handed \in [Jobs -> Nat]

\* At most one reconcile of a picture is in flight, and one job per key, also
\* while jobs return to pending from the watchdog and from failed attempts.
LiveOnce ==
  \A i, j \in Having(Live) : i # j =>
    /\ ~(jobs[i].kind = "edit" /\ jobs[j].kind = "edit" /\ jobs[i].pic = jobs[j].pic)
    /\ jobs[i].key = jobs[j].key => jobs[i].key = NoKey

\* A job is never handed out more often than its retry budget, whichever way
\* its attempts fail.
WithinBudget == \A j \in Jobs : handed[j] <= MaxRetries

\* Work is repeated neither by two jobs in flight nor by one beyond its budget.
NoDuplicateWork == LiveOnce /\ WithinBudget

\* Two leases can never both answer, even with the job taken back and handed
\* out again while the first worker is still at work.
OneAnswerer == \A l, m \in held : Answerable(l) /\ Answerable(m) /\ l.job = m.job => l = m

\* A lease that lost its job can never answer again.
StaleForGood == [][\A l \in held : ~Answerable(l) => ~Answerable(l)']_queueVars

\* A job that was answered or given up on stays so.
TerminalForGood ==
  [][\A j \in Having(Terminal) : jobs'[j].status \in {jobs[j].status, "deleted"}]_queueVars

\* What ended has ended: neither a lease that lost its job nor a job that was
\* answered or given up on comes back, whatever the watchdog, late answers and
\* new claims do.
EndsForGood == StaleForGood /\ TerminalForGood

\* No job waits for ever: not behind older jobs, not with a worker that
\* vanished, not through retries.
EveryJobEnds == \A j \in Jobs : (jobs[j].status \in Live) ~> (jobs[j].status \notin Live)
=============================================================================
