------------------------------ MODULE ExifSync ------------------------------
(***************************************************************************)
(* EXIF write-through (features 31, 33): a picture's editable metadata     *)
(* lives in its row and in its file.  Edits change the row and owe the     *)
(* file an edit_picture job; new bytes change the file and owe the row a   *)
(* gen_thumbnail extraction.  Row, job table, object store, API handlers,  *)
(* drain, watchdog and workers all move on their own.                      *)
(*                                                                         *)
(* A transaction is one step: its first write locks the picture row        *)
(* (write_exif_snapshot, update_after_processing), so two of them on one   *)
(* picture never overlap.  What a handler reads before its transaction     *)
(* stays in its call record, and may be stale by the time it is used.      *)
(***************************************************************************)
EXTENDS JobQueue

CONSTANTS
  Fields,     \* the editable metadata fields
  Writable,   \* pictures whose format takes EXIF writes
  Readable,   \* pictures whose metadata the worker can read
  Corrupt,    \* image data no metadata engine can open
  Ops,        \* the API operations in play
  MaxWrites,  \* bound: edits and uploads
  MaxCalls,   \* bound: API calls under way at once
  None        \* NULL: no row, no snapshot, nothing read

VARIABLES
  row,     \* row[p]: the picture's exif columns, file_exif, exif_sync_status
  file,    \* file[p]: the stored object: its image data and its metadata
  config,  \* config[j]: the EXIF target bound to job j
  work,    \* work[t]: what the worker holding token t has done so far
  calls,   \* API calls between two steps
  drain,   \* pictures the drain's current pass has listed and not reached
  stamps,  \* failed jobs the watchdog has not yet stamped
  writes,  \* edits and uploads so far
  stale    \* history: pictures changed on the strength of what no longer held

vars == <<jobs, held, minted, handed,
          row, file, config, work, calls, drain, stamps, writes, stale>>

-----------------------------------------------------------------------------
SyncStatuses == {"extracting", "extract_failed", "unsupported_mime",
                 "unsupported_file", "pending", "pending_job_creation",
                 "write_failed", "synced"}

SuppressesJobs == {"unsupported_mime", "unsupported_file"}

\* Rows whose edits the file does not have yet.
Unsynced == {"pending", "pending_job_creation", "write_failed"}

Exif == [Fields -> 0 .. MaxWrites]

PictureRow == [db : Exif, fileExif : Exif \cup {None}, status : SyncStatuses]

ASSUME SyncAssumption ==
  /\ Kinds = {"edit", "extract"}
  /\ Writable \subseteq Readable
  /\ Readable \subseteq Pictures
  /\ 1 .. MaxWrites \subseteq IdemKeys
  /\ MaxWrites \in Nat
  /\ MaxCalls \in Nat
  /\ Fields # {}
  /\ None \notin PictureRow

\* A worker's progress: just claimed, target bound, object downloaded, object
\* uploaded; the image data and metadata it has in hand.
Work == [stage : {"claimed", "bound", "fetched", "put"},
         image : 0 .. MaxWrites, exif : Exif \cup {None}]

Uniform(n) == [f \in Fields |-> n]
Idle == [stage |-> "claimed", image |-> 0, exif |-> None]

Init ==
  /\ QueueInit
  /\ row = [p \in Pictures |-> None]
  /\ file = [p \in Pictures |-> [image |-> 0, exif |-> Uniform(0)]]
  /\ config = [j \in Jobs |-> None]
  /\ work = [t \in 1 .. MaxClaims |-> Idle]
  /\ calls = {}
  /\ drain = {}
  /\ stamps = {}
  /\ writes = 0
  /\ stale = {}

-----------------------------------------------------------------------------
(* Shared steps *)

Has(p) == row[p] # None

SetStatus(p, status) == row' = [row EXCEPT ![p].status = status]

\* A step that acts on p, outdated when what it acts on has changed.
Acts(p, outdated) == stale' = IF outdated THEN stale \cup {p} ELSE stale

\* The stored object is no longer the one worker w downloaded or uploaded.
Replaced(p, w) == file[p] # [image |-> w.image, exif |-> w.exif]

\* INSERT INTO jobs: ids in the order the transactions commit.
Enqueue(kind, p, key) ==
  \E j \in Jobs :
    /\ \A i \in Having({"unborn"}) : j <= i
    /\ Create(j, kind, p, key)

LiveExtractions(p) ==
  {j \in Having(Live) : jobs[j].kind = "extract" /\ jobs[j].pic = p}

\* enqueue_if_absent_edit
EnsureEditJob(p) ==
  IF LiveEdits(p) = {} THEN Enqueue("edit", p, NoKey) ELSE UNCHANGED queueVars

Call(op, p, step, n, f) ==
  [op |-> op, pic |-> p, seen |-> row[p], step |-> step, n |-> n, field |-> f]

\* A handler starts with a read of the row and has more to do.
Begin(c) ==
  /\ c.op \in Ops
  /\ Cardinality(calls) < MaxCalls
  /\ calls' = calls \cup {c}

OtherField == CHOOSE f \in Fields : TRUE

\* confirm_upload's transaction: the row and its extraction.
\* ingest_exif_status pre-stamps a format that carries no metadata.
Upload(p) ==
  /\ ~Has(p)
  /\ row' = [row EXCEPT ![p] =
               [db |-> Uniform(0), fileExif |-> None,
                status |-> IF p \in Readable THEN "extracting" ELSE "unsupported_mime"]]
  /\ Enqueue("extract", p, NoKey)
  /\ UNCHANGED <<file, config, work, calls, drain, stamps, writes, stale>>

-----------------------------------------------------------------------------
(* API calls *)

\* edit_pictures_exif validates the rows it read ...
BeginEdit(p, f) ==
  /\ Has(p)
  /\ row[p].status # "extracting"
  /\ writes < MaxWrites
  /\ writes' = writes + 1
  /\ Begin(Call("edit", p, "read", writes + 1, f))
  /\ UNCHANGED <<queueVars, row, file, config, work, drain, stamps, stale>>

\* ... and writes the full snapshot derived from them in one transaction.
CommitEdit(c) ==
  /\ c.op = "edit"
  /\ LET p == c.pic
         supported == p \in Writable /\ c.seen.status \notin SuppressesJobs
         status == CASE supported -> "pending"
                     [] c.seen.status = "unsupported_file" -> "unsupported_file"
                     [] OTHER -> "unsupported_mime"
     IN  /\ row' = [row EXCEPT ![p].db = [c.seen.db EXCEPT ![c.field] = c.n],
                               ![p].status = status]
         /\ IF supported THEN EnsureEditJob(p) ELSE UNCHANGED queueVars
  /\ calls' = calls \ {c}
  /\ UNCHANGED <<file, config, work, drain, stamps, writes, stale>>

\* batch_apply_exif_owned_selection: one UPDATE that skips extracting rows.
BatchEdit(p, f) ==
  /\ "batch" \in Ops
  /\ Has(p)
  /\ row[p].status # "extracting"
  /\ writes < MaxWrites
  /\ writes' = writes + 1
  /\ row' = [row EXCEPT ![p].db[f] = writes + 1,
                        ![p].status = IF @ \in SuppressesJobs THEN @
                                      ELSE "pending_job_creation"]
  /\ UNCHANGED <<queueVars, file, config, work, calls, drain, stamps, stale>>

\* resync, reextract and revert read the row, then look for a job in flight
\* that would undo them, then act: a read, a read and a transaction.
BeginResync(p) ==
  /\ Has(p)
  /\ row[p].status \in {"pending", "write_failed"}
  /\ Begin(Call("resync", p, "read", 0, OtherField))
  /\ UNCHANGED <<queueVars, row, file, config, work, drain, stamps, writes, stale>>

\* An edit that has not reached the file keeps a re-extract from the row (the
\* fault: it has to have failed).
HoldsFailure(p) == row[p].status = "write_failed"
HoldsEdit(p) == row[p].status \in Unsynced

BeginReextract(p) ==
  /\ Has(p)
  /\ ~HoldsEdit(p)
  /\ Begin(Call("reextract", p, "read", 0, OtherField))
  /\ UNCHANGED <<queueVars, row, file, config, work, drain, stamps, writes, stale>>

BeginRevert(p) ==
  /\ Has(p)
  /\ row[p].fileExif # None
  /\ Begin(Call("revert", p, "read", 0, OtherField))
  /\ UNCHANGED <<queueVars, row, file, config, work, drain, stamps, writes, stale>>

Conflicting(c) ==
  IF c.op = "reextract" THEN LiveExtractions(c.pic) ELSE LiveEdits(c.pic)

CheckInFlight(c) ==
  /\ c.op \in {"resync", "reextract", "revert"}
  /\ c.step = "read"
  /\ calls' = (calls \ {c}) \cup
                {d \in {[c EXCEPT !.step = "checked"]} : Conflicting(c) = {}}
  /\ UNCHANGED <<queueVars, row, file, config, work, drain, stamps, writes, stale>>

\* resync_picture_exif stamps the row and creates the job in two statements.
StampResync(c) ==
  /\ c.op = "resync"
  /\ c.step = "checked"
  /\ SetStatus(c.pic, "pending")
  /\ calls' = (calls \ {c}) \cup {[c EXCEPT !.step = "stamped"]}
  /\ UNCHANGED <<queueVars, file, config, work, drain, stamps, writes, stale>>

EndResync(c) ==
  /\ c.op = "resync"
  /\ c.step = "stamped"
  /\ EnsureEditJob(c.pic)
  /\ calls' = calls \ {c}
  /\ UNCHANGED <<row, file, config, work, drain, stamps, writes, stale>>

\* reextract_picture_exif creates the job and stamps the row in one.
CommitReextract(c) ==
  /\ c.op = "reextract"
  /\ c.step = "checked"
  /\ SetStatus(c.pic, "extracting")
  /\ Enqueue("extract", c.pic, NoKey)
  /\ calls' = calls \ {c}
  /\ UNCHANGED <<file, config, work, drain, stamps, writes, stale>>

\* revert_picture_exif_to_file writes the file_exif it read first.
CommitRevert(c) ==
  /\ c.op = "revert"
  /\ c.step = "checked"
  /\ row' = [row EXCEPT ![c.pic].db = c.seen.fileExif, ![c.pic].status = "synced"]
  /\ Acts(c.pic, c.seen.fileExif # file[c.pic].exif)
  /\ calls' = calls \ {c}
  /\ UNCHANGED <<queueVars, file, config, work, drain, stamps, writes>>

\* An overwrite of the file (vfs put): the object, the job, the status, each
\* on its own; the job is keyed on the hash of the new bytes.
BeginOverwrite(p) ==
  /\ Has(p)
  /\ writes < MaxWrites
  /\ writes' = writes + 1
  /\ file' = [file EXCEPT ![p] = [image |-> writes + 1, exif |-> Uniform(writes + 1)]]
  /\ Begin(Call("overwrite", p, "read", writes + 1, OtherField))
  /\ UNCHANGED <<queueVars, row, config, work, drain, stamps, stale>>

\* recheck_exif_batch and regenerate_thumbnails(reextract_exif): list the rows
\* with no extraction in flight, create the jobs, stamp the rows.
InScope(op, p) ==
  \/ op = "regenerate"
  \/ op = "recheck" /\ row[p].status \in SuppressesJobs \cup {"extract_failed"}
  \/ op = "recheck" /\ row[p].status = "synced" /\ row[p].fileExif # None

BeginSweep(op, p) ==
  /\ op \in {"regenerate", "recheck"}
  /\ Has(p)
  /\ LiveExtractions(p) = {}
  /\ InScope(op, p)
  /\ Begin(Call(op, p, "read", 0, OtherField))
  /\ UNCHANGED <<queueVars, row, file, config, work, drain, stamps, writes, stale>>

Reextracting == {"overwrite", "regenerate", "recheck"}

EnqueueExtraction(c) ==
  /\ c.op \in Reextracting
  /\ c.step = "read"
  /\ Enqueue("extract", c.pic, IF c.op = "overwrite" THEN c.n ELSE NoKey)
  /\ calls' = (calls \ {c}) \cup {[c EXCEPT !.step = "enqueued"]}
  /\ UNCHANGED <<row, file, config, work, drain, stamps, writes, stale>>

StampExtracting(c) ==
  /\ c.op \in Reextracting
  /\ c.step = "enqueued"
  /\ SetStatus(c.pic, "extracting")
  /\ Acts(c.pic, LiveExtractions(c.pic) = {})
  /\ calls' = calls \ {c}
  /\ UNCHANGED <<queueVars, file, config, work, drain, stamps, writes>>

-----------------------------------------------------------------------------
(* Workers *)

Pic(l) == jobs[l.job].pic
Kind(l) == jobs[l.job].kind

WorkerClaims ==
  /\ \E j \in Jobs : Claim(j, Kinds)
  /\ UNCHANGED <<row, file, config, work, calls, drain, stamps, writes, stale>>

\* The rest of claim_next_job: an edit's target is bound to the row as it is
\* now, and kept in the job's config.  The handler is over, or dead, long
\* before the watchdog would take the job back.
Bind(l) ==
  /\ l \in held
  /\ Answerable(l)
  /\ work[l.token].stage = "claimed"
  /\ LET target == IF Kind(l) = "edit" THEN row[Pic(l)].db ELSE None
     IN  /\ config' = [config EXCEPT ![l.job] = target]
         /\ work' = [work EXCEPT ![l.token].stage = "bound", ![l.token].exif = target]
  /\ UNCHANGED <<queueVars, row, file, calls, drain, stamps, writes, stale>>

\* The download.  An extraction reads the metadata there and then; an edit of
\* a format that takes no writes fails before it.
Fetch(l) ==
  /\ l \in held
  /\ work[l.token].stage = "bound"
  /\ Kind(l) = "edit" => Pic(l) \in Writable
  /\ work' = [work EXCEPT ![l.token].stage = "fetched",
                          ![l.token].image = file[Pic(l)].image,
                          ![l.token].exif = IF Kind(l) = "edit" THEN @
                                            ELSE file[Pic(l)].exif]
  /\ UNCHANGED <<queueVars, row, file, config, calls, drain, stamps, writes, stale>>

\* The last fallible step of an edit: the whole object, with the target
\* written into it, replaces what is stored.  The URL outlives the lease.
Put(l) ==
  /\ l \in held
  /\ Kind(l) = "edit"
  /\ work[l.token].stage = "fetched"
  /\ work[l.token].image \notin Corrupt
  /\ file' = [file EXCEPT ![Pic(l)] =
                [image |-> work[l.token].image, exif |-> work[l.token].exif]]
  /\ work' = [work EXCEPT ![l.token].stage = "put"]
  /\ Acts(Pic(l), ~Answerable(l) \/ file[Pic(l)].image # work[l.token].image)
  /\ UNCHANGED <<queueVars, row, config, calls, drain, stamps, writes>>

\* The worker is through with its lease, and forgets what it had in hand.
Drop(l) == work' = [work EXCEPT ![l.token] = Idle]

WorkerVanishes(l) ==
  /\ Vanish(l)
  /\ Drop(l)
  /\ UNCHANGED <<row, file, config, calls, drain, stamps, writes, stale>>

-----------------------------------------------------------------------------
(* respond_job *)

\* The row still is what the job was bound to write.
ConvergedAlways(p, j) == TRUE
Converged(p, j) == row[p].db = config[j]

\* record_edit, done.  An extraction under way owns the row, and is left alone.
RecordEdit(l) ==
  LET p == Pic(l)
  IN  /\ row' = IF row[p].status = "extracting" THEN row
                ELSE [row EXCEPT ![p].fileExif = work[l.token].exif,
                                 ![p].status = IF Converged(p, l.job) THEN "synced"
                                               ELSE "pending_job_creation"]
      /\ Acts(p, Replaced(p, work[l.token]))

\* update_from_worker: the file is authoritative.
Extracted(p, exif) ==
  [row EXCEPT ![p] = [db |-> exif, fileExif |-> exif, status |-> "synced"]]

\* What the worker's read of a picture comes to.
RecordRead(l) ==
  LET p == Pic(l)
      w == work[l.token]
  IN  /\ row' = CASE p \notin Readable -> [row EXCEPT ![p].status = "unsupported_mime"]
                  [] p \in Readable /\ w.image \in Corrupt -> [row EXCEPT ![p].status = "unsupported_file"]
                  [] OTHER -> Extracted(p, w.exif)
      /\ Acts(p, Replaced(p, w))

AnswerEdit(l) ==
  /\ Complete(l)
  /\ Kind(l) = "edit"
  /\ work[l.token].stage = "put"
  /\ RecordEdit(l)
  /\ Drop(l)
  /\ UNCHANGED <<file, config, calls, drain, stamps, writes>>

AnswerExtraction(l) ==
  /\ Complete(l)
  /\ Kind(l) = "extract"
  /\ work[l.token].stage = "fetched"
  /\ RecordRead(l)
  /\ Drop(l)
  /\ UNCHANGED <<file, config, calls, drain, stamps, writes>>

\* A failed extraction may still have read the metadata.
HasReadAlways(w) == TRUE
HasRead(w) == w.stage = "fetched"

\* What a job that will not run again leaves on its row.
RecordDeath(l, permanent) ==
  LET p == Pic(l)
      w == work[l.token]
      verdict == CASE permanent /\ p \notin Writable -> "unsupported_mime"
                   [] permanent /\ p \in Writable /\ w.stage = "fetched" /\ w.image \in Corrupt
                        -> "unsupported_file"
                   [] OTHER -> "write_failed"
  IN  \/ Kind(l) = "edit" /\ SetStatus(p, verdict) /\ UNCHANGED stale
      \/ /\ Kind(l) = "extract"
         /\ CASE row[p].status # "extracting" -> UNCHANGED <<row, stale>>
              [] row[p].status = "extracting" /\ HasRead(w) -> RecordRead(l)
              [] OTHER -> SetStatus(p, "extract_failed") /\ UNCHANGED stale

\* A failed attempt.  An upload that timed out may have been stored; every
\* other failure of an edit comes before it.
AnswerFailure(l, permanent) ==
  /\ Fail(l, permanent)
  /\ work[l.token].stage # "claimed"
  /\ permanent => work[l.token].stage # "put"
  /\ IF TakenBack(l.job, permanent).status = "failed"
     THEN RecordDeath(l, permanent)
     ELSE UNCHANGED <<row, stale>>
  /\ Drop(l)
  /\ UNCHANGED <<file, config, calls, drain, stamps, writes>>

AnswerRefused(l) ==
  /\ Refuse(l)
  /\ Drop(l)
  /\ UNCHANGED <<row, file, config, calls, drain, stamps, writes, stale>>

-----------------------------------------------------------------------------
(* Routines *)

\* The jobs of S that were just taken back for the last time.
EditsGivenUp(S) == {j \in S : jobs'[j].status = "failed" /\ jobs[j].kind = "edit"}
GivenUp(S) == {j \in S : jobs'[j].status = "failed"}

\* JobWatchdogRoutine: one statement takes the jobs back ...
WatchdogReset(S) ==
  /\ stamps = {}
  /\ ResetStale(S)
  /\ \A l \in held : l.job \in S /\ Answerable(l) => work[l.token].stage # "claimed"
  /\ stamps' = GivenUp(S)
  /\ UNCHANGED <<row, file, config, work, calls, drain, writes, stale>>

\* ... and others stamp the pictures of those that are out of retries.
WatchdogStamp(j) ==
  /\ j \in stamps
  /\ stamps' = stamps \ {j}
  /\ LET p == jobs[j].pic
     IN  row' = CASE jobs[j].kind = "edit" -> [row EXCEPT ![p].status = "write_failed"]
                  [] jobs[j].kind = "extract" /\ row[p].status = "extracting"
                       -> [row EXCEPT ![p].status = "extract_failed"]
                  [] OTHER -> row
  /\ UNCHANGED <<queueVars, file, config, work, calls, drain, writes, stale>>

\* find_pending_job_creation
Deferred ==
  {p \in Pictures :
     Has(p) /\ row[p].status = "pending_job_creation" /\ LiveEdits(p) = {}}

\* ExifDrainRoutine: list the deferred rows ...
DrainLists ==
  /\ drain = {}
  /\ drain' = Deferred
  /\ drain' # {}
  /\ UNCHANGED <<queueVars, row, file, config, work, calls, stamps, writes, stale>>

\* ... then one transaction each; an insert the index refuses ends the pass.
DrainCreates(p) ==
  /\ p \in drain
  /\ IF LiveEdits(p) = {}
     THEN /\ Enqueue("edit", p, NoKey)
          /\ SetStatus(p, "pending")
          /\ drain' = drain \ {p}
     ELSE /\ drain' = {}
          /\ UNCHANGED <<queueVars, row>>
  /\ UNCHANGED <<file, config, work, calls, stamps, writes, stale>>

\* The backend restarts between two steps of whatever it was doing.
Restart ==
  /\ "restart" \in Ops
  /\ calls' = {}
  /\ drain' = {}
  /\ stamps' = {}
  /\ stale' = stale \cup {c.pic : c \in calls} \cup {jobs[j].pic : j \in stamps}
  /\ UNCHANGED <<queueVars, row, file, config, work, writes>>

-----------------------------------------------------------------------------
CallStep(c) ==
  \/ CommitEdit(c)
  \/ CheckInFlight(c)
  \/ StampResync(c)
  \/ EndResync(c)
  \/ CommitReextract(c)
  \/ CommitRevert(c)
  \/ EnqueueExtraction(c)
  \/ StampExtracting(c)

Next ==
  \/ \E p \in Pictures :
       \/ Upload(p)
       \/ \E f \in Fields : BeginEdit(p, f) \/ BatchEdit(p, f)
       \/ BeginResync(p)
       \/ BeginReextract(p)
       \/ BeginRevert(p)
       \/ BeginOverwrite(p)
       \/ \E op \in Reextracting : BeginSweep(op, p)
       \/ DrainCreates(p)
  \/ \E c \in calls : CallStep(c)
  \/ WorkerClaims
  \/ \E l \in held :
       \/ Bind(l)
       \/ Fetch(l)
       \/ Put(l)
       \/ WorkerVanishes(l)
       \/ AnswerEdit(l)
       \/ AnswerExtraction(l)
       \/ \E permanent \in BOOLEAN : AnswerFailure(l, permanent)
       \/ AnswerRefused(l)
  \/ \E S \in SUBSET Jobs : WatchdogReset(S)
  \/ \E j \in Jobs : WatchdogStamp(j)
  \/ DrainLists
  \/ Restart

Spec == Init /\ [][Next]_vars

Fairness ==
  /\ WF_vars(WorkerClaims)
  /\ \A t \in 1 .. MaxClaims : WF_vars(\E l \in held : l.token = t /\ Bind(l))
  /\ WF_vars(WatchdogReset(Overdue))
  /\ \A j \in Jobs : WF_vars(WatchdogStamp(j))
  /\ WF_vars(DrainLists)
  /\ \A p \in Pictures : WF_vars(DrainCreates(p))
  /\ WF_vars(\E c \in calls : CallStep(c))

FairSpec == Spec /\ Fairness

-----------------------------------------------------------------------------
(* Properties *)

TypeOK ==
  /\ QueueTypeOK
  /\ row \in [Pictures -> PictureRow \cup {None}]
  /\ file \in [Pictures -> [image : 0 .. MaxWrites, exif : Exif]]
  /\ config \in [Jobs -> Exif \cup {None}]
  /\ work \in [1 .. MaxClaims -> Work]
  /\ drain \subseteq Pictures
  /\ stamps \subseteq Jobs
  /\ writes \in 0 .. MaxWrites
  /\ stale \subseteq Pictures

Quiet(p) ==
  /\ \A c \in calls : c.pic # p
  /\ \A l \in held : Pic(l) # p
  /\ \A j \in Having(Live) \cup stamps : jobs[j].pic # p

\* A synced row says what the file says, once nothing is under way for it and
\* unless someone acted on what no longer held: an upload by a worker that had
\* lost its job or its object, a read landing after newer bytes, a revert to a
\* superseded snapshot.
SyncedTruth ==
  \A p \in Pictures \ stale :
    Has(p) /\ row[p].status = "synced" /\ Quiet(p) => row[p].db = file[p].exif

Pending(p) ==
  Has(p) /\ row[p].status = "pending" =>
    \/ LiveEdits(p) # {}
    \/ \E c \in calls : c.op = "resync" /\ c.pic = p /\ c.step = "stamped"
    \/ \E j \in stamps : jobs[j].kind = "edit" /\ jobs[j].pic = p

Extracting(p) ==
  Has(p) /\ row[p].status = "extracting" =>
    \/ LiveExtractions(p) # {}
    \/ \E j \in stamps : jobs[j].kind = "extract" /\ jobs[j].pic = p

\* A row in a transient status is somebody's to move on, a late stamp aside. A
\* pending one has an edit job in flight, a resync about to create one, or the
\* watchdog about to give it up. An extracting one refuses every edit, so however
\* its extraction goes, one is coming or the watchdog is about to give up.
TransientHasJob == \A p \in Pictures \ stale : Pending(p) /\ Extracting(p)

\* The rows a sweep stamps refuse edits until the extraction lands, not for ever.
NeverStranded == \A p \in Pictures : Extracting(p)

\* Bytes uploaded by an overwrite are never replaced by older ones.
UploadSurvives == [][\A p \in Pictures : file'[p].image >= file[p].image]_vars

\* An edit the row has accepted, as the value n of the field f, and not yet
\* handed to the file.
AwaitingWrite(p) == Has(p) /\ row[p].status \in {"pending", "pending_job_creation"}
Owed(p, f, n) == AwaitingWrite(p) /\ row[p].db[f] = n
AwaitingRead(p) == Has(p) /\ row[p].status = "extracting"

\* The row shows the edit as synced (SyncedTruth is about the file then), refused by
\* the format or failed; or a later edit of the field has come.
Settled(p, f, n) ==
  \/ Has(p) /\ row[p].db[f] = n /\ row[p].status \in SuppressesJobs \cup {"synced", "write_failed"}
  \/ AwaitingWrite(p) /\ row[p].db[f] > n
  \/ \E c \in calls : c.op = "edit" /\ c.pic = p /\ c.field = f

\* A re-extract that refuses rows with edits (services/jobs.rs 342-370), but read
\* this one before it had any: it will stamp the row extracting, and the file
\* takes the edit back.
Overruled(p) ==
  /\ Has(p) /\ HoldsEdit(p)
  /\ \E c \in calls : c.op = "reextract" /\ c.pic = p /\ c.step = "checked" /\ c.seen.status \notin Unsynced

\* An extracting row is about to take edits under its extraction: an edit or the
\* drain has read it before, or a re-extraction came between the two statements of
\* the watchdog, the second of which (job_watchdog.rs 59-83) spares one that has
\* succeeded only.
Stomped(p) ==
  /\ AwaitingRead(p) /\ LiveExtractions(p) # {}
  /\ \/ \E c \in calls : c.op = "edit" /\ c.pic = p /\ c.seen.status # "extracting"
     \/ p \in drain
     \/ \E j \in stamps : jobs[j].kind = "extract" /\ jobs[j].pic = p

\* Every single edit the row accepted is settled, whichever of the extractions and
\* reconciles under way answer last, and none is undone behind a row that looks
\* synced; unless a re-extract overrules it on a row it read before, or something
\* has stomped on one (or no job id is left for it, which the bound causes).  And an
\* extracting row accepts edits again: no lost worker, failed attempt or superseded
\* claim leaves it waiting for ever.
EveryRequestSettles ==
  \A p \in Pictures :
    /\ []~Stomped(p) =>
         \A f \in Fields, n \in 1 .. MaxWrites :
           Owed(p, f, n) ~>
             \/ Settled(p, f, n)
             \/ Overruled(p)
             \/ Owed(p, f, n) /\ LiveEdits(p) = {} /\ Having({"unborn"}) = {}
    /\ AwaitingRead(p) ~> ~AwaitingRead(p)
=============================================================================
