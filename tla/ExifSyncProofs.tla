--------------------------- MODULE ExifSyncProofs ---------------------------
(***************************************************************************)
(* Proofs about ExifSync for any pictures, fields, jobs, workers and calls *)
(* under way: that it runs the job queue, its types, that a row in a       *)
(* transient status is somebody's to move on, and that a synced row says   *)
(* what the file says.                                                     *)
(***************************************************************************)
EXTENDS ExifSync, JobQueueProofs

-----------------------------------------------------------------------------
(* The inductive invariant, in named parts *)

CallRecord ==
  [op : {"edit", "resync", "reextract", "revert"} \cup Reextracting,
   pic : Pictures, seen : PictureRow,
   step : {"read", "checked", "stamped", "enqueued"}, n : 0 .. MaxWrites, field : Fields]

\* What a call read holds types, and a revert has a snapshot to go back to.
CallsTyped ==
  \A c \in calls :
    /\ c \in CallRecord
    /\ Has(c.pic)
    /\ c.op = "overwrite" => c.n # 0
    /\ c.op = "revert" => c.seen.fileExif # None

\* Jobs, passes and stamps are about pictures that have a row.
RowsThere ==
  /\ \A j \in Having(Live \cup Terminal) : Has(jobs[j].pic)
  /\ \A p \in drain : Has(p)
  /\ \A j \in stamps : jobs[j].status = "failed"

\* What a worker has in hand is right for its job, and as long as it may still
\* answer, what it writes is the target bound to the job.
InHand(l) ==
  LET w == work[l.token]
  IN  /\ w.stage = "put" => Kind(l) = "edit"
      /\ w.stage # "claimed" /\ Kind(l) = "edit" => w.exif \in Exif
      /\ w.stage = "fetched" => w.exif \in Exif
      /\ w.stage # "claimed" /\ Kind(l) = "edit" /\ Answerable(l) => w.exif = config[l.job]

\* A lease is for a job there is; each has its own token.
LeasesApart ==
  /\ \A l \in held : jobs[l.job].status \in Live \cup Terminal /\ InHand(l)
  /\ \A l, m \in held : l.token = m.token => l = m
  /\ \A t \in 1 .. MaxClaims : t > minted => work[t] = Idle

SyncInv == QueueInv /\ TypeOK /\ CallsTyped /\ RowsThere /\ LeasesApart

\* A synced row that does not say what the file says has an overwrite, an edit
\* or the report of a failed one under way.
Settling(p) ==
  \/ \E c \in calls : c.op = "overwrite" /\ c.pic = p
  \/ LiveEdits(p) # {}
  \/ \E j \in stamps : jobs[j].kind = "edit" /\ jobs[j].pic = p

Truth(p) == Has(p) /\ row[p].status = "synced" => row[p].db = file[p].exif \/ Settling(p)

-----------------------------------------------------------------------------
(* The queue under the pictures *)

\* What a step does to the job table: everything the queue does but to prune.
QueueStep ==
  \/ UNCHANGED queueVars
  \/ \E j \in Jobs, kind \in Kinds, p \in Pictures, key \in IdemKeys \cup {NoKey} :
       Create(j, kind, p, key)
  \/ \E j \in Jobs : Claim(j, Kinds)
  \/ \E l \in held : Complete(l) \/ (\E permanent \in BOOLEAN : Fail(l, permanent)) \/ Refuse(l) \/ Vanish(l)
  \/ \E S \in SUBSET Jobs : ResetStale(S)

LEMMA EnqueueCreates ==
  ASSUME NEW kind \in Kinds, NEW p \in Pictures, NEW key \in IdemKeys \cup {NoKey}, Enqueue(kind, p, key)
  PROVE  \E j \in Jobs : Create(j, kind, p, key)
BY DEF Enqueue

LEMMA StepOfQueue ==
  ASSUME CallsTyped, [Next]_vars
  PROVE  QueueStep
<1>. USE DEF QueueStep, CallsTyped, CallRecord
<1>k. "edit" \in Kinds /\ "extract" \in Kinds BY SyncAssumption
<1>1. ASSUME NEW p \in Pictures, Upload(p) PROVE QueueStep
  <2>. QED BY <1>1, <1>k, EnqueueCreates DEF Upload
<1>2. ASSUME NEW p \in Pictures, NEW f \in Fields, BeginEdit(p, f) \/ BatchEdit(p, f) PROVE QueueStep
  BY <1>2 DEF BeginEdit, BatchEdit
<1>3. ASSUME NEW p \in Pictures,
             BeginResync(p) \/ BeginReextract(p) \/ BeginRevert(p) \/ BeginOverwrite(p)
               \/ \E op \in Reextracting : BeginSweep(op, p)
      PROVE  QueueStep
  BY <1>3 DEF BeginResync, BeginReextract, BeginRevert, BeginOverwrite, BeginSweep
<1>4. ASSUME NEW p \in Pictures, DrainCreates(p) PROVE QueueStep
  BY <1>4, <1>k, EnqueueCreates DEF DrainCreates
<1>5. ASSUME NEW c \in calls, CommitEdit(c) \/ EndResync(c) PROVE QueueStep
  <2>1. UNCHANGED queueVars \/ Enqueue("edit", c.pic, NoKey)
    BY <1>5 DEF CommitEdit, EndResync, EnsureEditJob
  <2>. QED BY <2>1, <1>k, EnqueueCreates
<1>6. ASSUME NEW c \in calls, CheckInFlight(c) \/ StampResync(c) \/ CommitRevert(c) \/ StampExtracting(c)
      PROVE  QueueStep
  BY <1>6 DEF CheckInFlight, StampResync, CommitRevert, StampExtracting
<1>7. ASSUME NEW c \in calls, CommitReextract(c) PROVE QueueStep
  BY <1>7, <1>k, EnqueueCreates DEF CommitReextract
<1>8. ASSUME NEW c \in calls, EnqueueExtraction(c) PROVE QueueStep
  <2>1. c.op = "overwrite" => c.n \in IdemKeys BY SyncAssumption
  <2>2. (IF c.op = "overwrite" THEN c.n ELSE NoKey) \in IdemKeys \cup {NoKey} BY <2>1
  <2>. QED BY <1>8, <2>2, <1>k, EnqueueCreates DEF EnqueueExtraction
<1>9. ASSUME WorkerClaims PROVE QueueStep BY <1>9 DEF WorkerClaims
<1>10. ASSUME NEW l \in held, Bind(l) \/ Fetch(l) \/ Put(l) PROVE QueueStep BY <1>10 DEF Bind, Fetch, Put
<1>11. ASSUME NEW l \in held, WorkerVanishes(l) \/ AnswerRefused(l) \/ AnswerEdit(l) \/ AnswerExtraction(l)
                                \/ \E permanent \in BOOLEAN : AnswerFailure(l, permanent)
       PROVE  QueueStep
  BY <1>11 DEF WorkerVanishes, AnswerRefused, AnswerEdit, AnswerExtraction, AnswerFailure
<1>12. ASSUME NEW S \in SUBSET Jobs, WatchdogReset(S) PROVE QueueStep BY <1>12 DEF WatchdogReset
<1>13. ASSUME (\E j \in Jobs : WatchdogStamp(j)) \/ DrainLists \/ Restart \/ UNCHANGED vars PROVE QueueStep
  BY <1>13 DEF WatchdogStamp, DrainLists, Restart, vars, queueVars
<1>. QED
  BY <1>1, <1>2, <1>3, <1>4, <1>5, <1>6, <1>7, <1>8, <1>9, <1>10, <1>11, <1>12, <1>13 DEF Next, CallStep

LEMMA QueueStepIsStep ==
  ASSUME QueueStep
  PROVE  [QueueNext]_queueVars
BY DEF QueueStep, QueueNext

\* A job there is stays, for the same picture, and no lease gets its job back.
JobsStay ==
  /\ \A j \in Having(Live \cup Terminal) :
       /\ jobs'[j].status \in Live \cup Terminal
       /\ jobs'[j].kind = jobs[j].kind /\ jobs'[j].pic = jobs[j].pic
       /\ jobs[j].status \in Terminal => jobs'[j].status = jobs[j].status
  /\ \A l \in held : Answerable(l)' => Answerable(l)

LEMMA NothingPruned ==
  ASSUME QueueInv, QueueStep, NEW j \in Jobs, jobs'[j].status = "deleted"
  PROVE  jobs[j].status = "deleted"
<1>t. QueueTypeOK /\ \A i \in Jobs : Accounted(i) BY DEF QueueInv
<1>1. ASSUME NEW i \in Jobs, NEW kind \in Kinds, NEW p \in Pictures,
             NEW key \in IdemKeys \cup {NoKey}, Create(i, kind, p, key)
      PROVE  jobs[j].status = "deleted"
  BY <1>t, <1>1 DEF Create, QueueTypeOK
<1>2. ASSUME NEW i \in Jobs, Claim(i, Kinds) PROVE jobs[j].status = "deleted"
  <2>1. jobs[i] \in Row BY <1>t, <1>2, RowOfStatus DEF Claim, Live
  <2>. QED BY <1>t, <1>2, <2>1 DEF Claim, QueueTypeOK, Row
<1>3. ASSUME NEW l \in held, Complete(l) PROVE jobs[j].status = "deleted"
  <2>1. l.job \in Jobs /\ jobs[l.job] \in Row
    BY <1>t, <1>3, RowOfStatus DEF Complete, Answerable, Live, QueueTypeOK, Lease
  <2>. QED BY <1>t, <1>3, <2>1 DEF Complete, QueueTypeOK, Row
<1>4. ASSUME NEW l \in held, NEW permanent \in BOOLEAN, Fail(l, permanent) PROVE jobs[j].status = "deleted"
  <2>1. l.job \in Jobs /\ jobs[l.job].status = "processing"
    BY <1>t, <1>4 DEF Fail, Answerable, QueueTypeOK, Lease
  <2>2. TakenBack(l.job, permanent).status # "deleted" BY <1>t, <2>1, AttemptFailed
  <2>. QED BY <1>t, <1>4, <2>1, <2>2 DEF Fail, QueueTypeOK
<1>5. ASSUME NEW S \in SUBSET Jobs, ResetStale(S) PROVE jobs[j].status = "deleted"
  <2>1. j \in S => jobs[j].status = "processing" BY <1>5 DEF ResetStale, Overdue, Having
  <2>2. j \in S => TakenBack(j, FALSE).status # "deleted" BY <1>t, <2>1, AttemptFailed
  <2>. QED BY <1>5, <2>2 DEF ResetStale
<1>6. ASSUME (\E l \in held : Refuse(l) \/ Vanish(l)) \/ UNCHANGED queueVars PROVE jobs[j].status = "deleted"
  BY <1>6 DEF Refuse, Vanish, queueVars
<1>. QED BY <1>1, <1>2, <1>3, <1>4, <1>5, <1>6 DEF QueueStep

LEMMA JobsStayed ==
  ASSUME QueueInv, QueueStep
  PROVE  JobsStay
<1>1. [QueueNext]_queueVars BY QueueStepIsStep
<1>2. ASSUME NEW j \in Having(Live \cup Terminal)
      PROVE  /\ jobs'[j].status \in Live \cup Terminal
             /\ jobs'[j].kind = jobs[j].kind /\ jobs'[j].pic = jobs[j].pic
             /\ jobs[j].status \in Terminal => jobs'[j].status = jobs[j].status
  <2>1. j \in Jobs /\ jobs[j].status \in Live \cup Terminal BY DEF Having
  <2>2. ~Pruned(j) BY <2>1, NothingPruned DEF Pruned, Live, Terminal
  <2>3. jobs'[j] = jobs[j] \/ Claimed(j) \/ Ended(j)
    BY <1>1, <2>1, <2>2, RowStep DEF Created, Live, Terminal
  <2>. QED BY <2>1, <2>3 DEF Claimed, Ended, Identity, Live, Terminal
<1>3. ASSUME NEW l \in held, Answerable(l)' PROVE Answerable(l)
  <2>1. l.job \in Jobs /\ l.token \in Nat /\ l.token <= minted /\ minted \in Nat
    BY DEF QueueInv, QueueTypeOK, TokensMinted, Lease
  <2>2. jobs'[l.job].status = "processing" /\ jobs'[l.job].token = l.token BY <1>3 DEF Answerable
  <2>3. jobs'[l.job] = jobs[l.job] \/ Claimed(l.job)
    BY <1>1, <2>1, <2>2, RowStep DEF Created, Ended, Pruned
  <2>4. ~Claimed(l.job) BY <2>1, <2>2 DEF Claimed
  <2>. QED BY <2>2, <2>3, <2>4 DEF Answerable
<1>. QED BY <1>2, <1>3 DEF JobsStay

-----------------------------------------------------------------------------
(* Types *)

HasKept == \A p \in Pictures : Has(p) => Has(p)'
RowTyped == row \in [Pictures -> PictureRow \cup {None}]

LEMMA SetRow ==
  ASSUME RowTyped, NEW p \in Pictures, NEW r \in PictureRow, row' = [row EXCEPT ![p] = r]
  PROVE  RowTyped' /\ HasKept
BY SyncAssumption DEF RowTyped, HasKept, Has

LEMMA SetStatusRow ==
  ASSUME RowTyped, NEW p \in Pictures, Has(p), NEW status \in SyncStatuses, SetStatus(p, status)
  PROVE  /\ RowTyped' /\ HasKept
         /\ row'[p].status = status
         /\ row'[p].db = row[p].db /\ row'[p].fileExif = row[p].fileExif
         /\ \A q \in Pictures \ {p} : row'[q] = row[q]
<1>1. row[p] \in PictureRow BY DEF RowTyped, Has
<1>2. row' = [row EXCEPT ![p] = [row[p] EXCEPT !.status = status]] BY DEF SetStatus
<1>3. [row[p] EXCEPT !.status = status] \in PictureRow BY <1>1 DEF PictureRow
<1>4. /\ row'[p].status = status
      /\ row'[p].db = row[p].db /\ row'[p].fileExif = row[p].fileExif
      /\ \A q \in Pictures \ {p} : row'[q] = row[q]
  BY <1>1, <1>2 DEF RowTyped, PictureRow
<1>. QED BY <1>2, <1>3, <1>4, SetRow

\* A lease is about a job there is, of a picture there is.
LEMMA LeaseOf ==
  ASSUME SyncInv, NEW l \in held
  PROVE  /\ l.job \in Jobs /\ l.token \in 1 .. MaxClaims /\ l.token <= minted
         /\ jobs[l.job] \in Row /\ l.job \in Having(Live \cup Terminal)
         /\ Pic(l) \in Pictures /\ Kind(l) \in {"edit", "extract"} /\ Has(Pic(l))
         /\ work[l.token] \in Work /\ InHand(l)
<1>1. l.job \in Jobs /\ l.token \in 1 .. MaxClaims BY DEF SyncInv, QueueInv, QueueTypeOK, Lease
<1>2. jobs[l.job].status \in Live \cup Terminal /\ InHand(l) BY DEF SyncInv, LeasesApart
<1>3. jobs[l.job] \in Row BY <1>1, <1>2, RowOfStatus DEF SyncInv, QueueInv
<1>4. Pic(l) \in Pictures /\ Kind(l) \in {"edit", "extract"} BY <1>3, SyncAssumption DEF Row, Pic, Kind
<1>5. l.job \in Having(Live \cup Terminal) BY <1>1, <1>2 DEF Having
<1>6. Has(Pic(l)) BY <1>5 DEF SyncInv, RowsThere, Pic
<1>7. l.token <= minted BY DEF SyncInv, QueueInv, TokensMinted
<1>8. work[l.token] \in Work BY <1>1 DEF SyncInv, TypeOK
<1>. QED BY <1>1, <1>2, <1>3, <1>4, <1>5, <1>6, <1>7, <1>8

LEMMA CallOf ==
  ASSUME SyncInv, NEW c \in calls
  PROVE  c \in CallRecord /\ c.pic \in Pictures /\ Has(c.pic)
BY DEF SyncInv, CallsTyped, CallRecord

LEMMA UniformTyped == ASSUME NEW n \in 0 .. MaxWrites PROVE Uniform(n) \in Exif
BY DEF Uniform, Exif

\* What the read of a picture leaves is a row.
LEMMA ReadLeavesRow ==
  ASSUME SyncInv, NEW l \in held, work[l.token].stage = "fetched", RecordRead(l)
  PROVE  /\ RowTyped' /\ HasKept /\ row'[Pic(l)].status # "extracting"
         /\ row'[Pic(l)].status # "pending"
         /\ row'[Pic(l)].status = "synced" => row'[Pic(l)].db = work[l.token].exif
         /\ \A q \in Pictures \ {Pic(l)} : row'[q] = row[q]
<1>. DEFINE p == Pic(l)
            w == work[l.token]
<1>1. p \in Pictures /\ Has(p) /\ w.exif \in Exif BY LeaseOf DEF InHand
<1>2. RowTyped BY DEF SyncInv, TypeOK, RowTyped
<1>3. CASE SetStatus(p, "unsupported_mime") \/ SetStatus(p, "unsupported_file")
  BY <1>1, <1>2, <1>3, SetStatusRow DEF SyncStatuses
<1>4. CASE row' = Extracted(p, w.exif)
  <2>. DEFINE r == [db |-> w.exif, fileExif |-> w.exif, status |-> "synced"]
  <2>1. r \in PictureRow /\ row' = [row EXCEPT ![p] = r]
    BY <1>1, <1>4 DEF PictureRow, Extracted, SyncStatuses
  <2>2. row'[p] = r /\ \A q \in Pictures \ {p} : row'[q] = row[q] BY <1>1, <1>2, <2>1 DEF RowTyped
  <2>3. r.status = "synced" /\ r.db = w.exif OBVIOUS
  <2>4. RowTyped' /\ HasKept
    <3>. HIDE DEF r
    <3>. QED BY <1>1, <1>2, <2>1, SetRow
  <2>. HIDE DEF r
  <2>. QED BY <2>2, <2>3, <2>4
<1>5. SetStatus(p, "unsupported_mime") \/ SetStatus(p, "unsupported_file") \/ row' = Extracted(p, w.exif)
  BY DEF RecordRead, SetStatus
<1>. QED BY <1>3, <1>4, <1>5

LEMMA RowsKept ==
  ASSUME SyncInv, [Next]_vars
  PROVE  RowTyped' /\ HasKept
<1>t. RowTyped BY DEF SyncInv, TypeOK, RowTyped
<1>n. writes \in 0 .. MaxWrites /\ MaxWrites \in Nat BY SyncAssumption DEF SyncInv, TypeOK
<1>. DEFINE Fine == RowTyped' /\ HasKept
<1>1. ASSUME NEW p \in Pictures, Upload(p) PROVE Fine
  <2>. DEFINE r == [db |-> Uniform(0), fileExif |-> None,
                    status |-> IF p \in Readable THEN "extracting" ELSE "unsupported_mime"]
  <2>1. r \in PictureRow BY <1>n, UniformTyped DEF PictureRow, SyncStatuses
  <2>2. row' = [row EXCEPT ![p] = r] BY <1>1 DEF Upload
  <2>. QED BY <1>t, <2>1, <2>2, SetRow
<1>2. ASSUME NEW p \in Pictures, NEW f \in Fields, BatchEdit(p, f) PROVE Fine
  <2>1. Has(p) /\ row[p] \in PictureRow BY <1>2, <1>t DEF BatchEdit, Has, RowTyped
  <2>. DEFINE status == IF row[p].status \in SuppressesJobs THEN row[p].status ELSE "pending_job_creation"
              r == [row[p] EXCEPT !.db = [row[p].db EXCEPT ![f] = writes + 1], !.status = status]
  <2>2. [row[p].db EXCEPT ![f] = writes + 1] \in Exif
    BY <2>1, <1>2, <1>n DEF PictureRow, Exif, BatchEdit
  <2>3. status \in SyncStatuses BY <2>1 DEF PictureRow, SyncStatuses
  <2>4. r \in PictureRow
    <3>. HIDE DEF status
    <3>. QED BY <2>1, <2>2, <2>3 DEF PictureRow
  <2>5. row' = [row EXCEPT ![p] = r]
    BY <1>2, <1>t, <2>1 DEF BatchEdit, RowTyped, PictureRow
  <2>. QED BY <1>t, <2>4, <2>5, SetRow
<1>3. ASSUME NEW p \in Pictures, DrainCreates(p) PROVE Fine
  <2>1. Has(p) BY <1>3 DEF DrainCreates, SyncInv, RowsThere
  <2>2. CASE SetStatus(p, "pending") BY <1>t, <2>1, <2>2, SetStatusRow DEF SyncStatuses
  <2>3. CASE UNCHANGED row BY <1>t, <2>3 DEF RowTyped, HasKept, Has
  <2>. QED BY <1>3, <2>2, <2>3 DEF DrainCreates
<1>4. ASSUME NEW c \in calls, CommitEdit(c) PROVE Fine
  <2>1. c \in CallRecord /\ c.pic \in Pictures /\ Has(c.pic) BY CallOf
  <2>2. row[c.pic] \in PictureRow /\ c.seen \in PictureRow BY <1>t, <2>1 DEF RowTyped, Has, CallRecord
  <2>3. PICK status \in SyncStatuses :
          row' = [row EXCEPT ![c.pic].db = [c.seen.db EXCEPT ![c.field] = c.n], ![c.pic].status = status]
    <3>. DEFINE supported == c.pic \in Writable /\ c.seen.status \notin SuppressesJobs
                status == CASE supported -> "pending"
                            [] c.seen.status = "unsupported_file" -> "unsupported_file"
                            [] OTHER -> "unsupported_mime"
    <3>1. row' = [row EXCEPT ![c.pic].db = [c.seen.db EXCEPT ![c.field] = c.n], ![c.pic].status = status]
      BY <1>4 DEF CommitEdit
    <3>2. status \in SyncStatuses BY DEF SyncStatuses, SuppressesJobs
    <3>. HIDE DEF status
    <3>. QED BY <3>1, <3>2
  <2>. DEFINE r == [row[c.pic] EXCEPT !.db = [c.seen.db EXCEPT ![c.field] = c.n], !.status = status]
  <2>4. [c.seen.db EXCEPT ![c.field] = c.n] \in Exif BY <2>1, <2>2 DEF PictureRow, Exif, CallRecord
  <2>5. r \in PictureRow BY <2>2, <2>4 DEF PictureRow
  <2>6. row' = [row EXCEPT ![c.pic] = r] BY <1>t, <2>1, <2>2, <2>3 DEF RowTyped, PictureRow
  <2>. QED BY <1>t, <2>1, <2>5, <2>6, SetRow
<1>5. ASSUME NEW c \in calls, StampResync(c) \/ CommitReextract(c) \/ StampExtracting(c) PROVE Fine
  <2>1. c.pic \in Pictures /\ Has(c.pic) BY CallOf
  <2>2. SetStatus(c.pic, "pending") \/ SetStatus(c.pic, "extracting")
    BY <1>5 DEF StampResync, CommitReextract, StampExtracting
  <2>. QED BY <1>t, <2>1, <2>2, SetStatusRow DEF SyncStatuses
<1>6. ASSUME NEW c \in calls, CommitRevert(c) PROVE Fine
  <2>1. c \in CallRecord /\ c.pic \in Pictures /\ Has(c.pic) BY CallOf
  <2>2. row[c.pic] \in PictureRow /\ c.seen \in PictureRow BY <1>t, <2>1 DEF RowTyped, Has, CallRecord
  <2>3. c.seen.fileExif \in Exif
    BY <1>6, <2>2 DEF CommitRevert, SyncInv, CallsTyped, PictureRow
  <2>. DEFINE r == [row[c.pic] EXCEPT !.db = c.seen.fileExif, !.status = "synced"]
  <2>4. r \in PictureRow BY <2>2, <2>3 DEF PictureRow, SyncStatuses
  <2>5. row' = [row EXCEPT ![c.pic] = r] BY <1>6, <1>t, <2>1, <2>2 DEF CommitRevert, RowTyped, PictureRow
  <2>. QED BY <1>t, <2>1, <2>4, <2>5, SetRow
<1>7. ASSUME NEW l \in held, AnswerEdit(l) PROVE Fine
  <2>1. Pic(l) \in Pictures /\ Has(Pic(l)) /\ work[l.token].exif \in Exif
    BY <1>7, LeaseOf DEF AnswerEdit, InHand
  <2>2. row[Pic(l)] \in PictureRow BY <1>t, <2>1 DEF RowTyped, Has
  <2>3. CASE row' = row BY <1>t, <2>3 DEF RowTyped, HasKept, Has
  <2>4. CASE row' # row
    <3>1. PICK status \in SyncStatuses :
            row' = [row EXCEPT ![Pic(l)].fileExif = work[l.token].exif, ![Pic(l)].status = status]
      BY <1>7, <2>4 DEF AnswerEdit, RecordEdit, SyncStatuses
    <3>. DEFINE r == [row[Pic(l)] EXCEPT !.fileExif = work[l.token].exif, !.status = status]
    <3>2. r \in PictureRow BY <2>1, <2>2 DEF PictureRow
    <3>3. row' = [row EXCEPT ![Pic(l)] = r] BY <1>t, <2>1, <2>2, <3>1 DEF RowTyped, PictureRow
    <3>. QED BY <1>t, <2>1, <3>2, <3>3, SetRow
  <2>. QED BY <2>3, <2>4
<1>8. ASSUME NEW l \in held, AnswerExtraction(l) PROVE Fine BY <1>8, ReadLeavesRow DEF AnswerExtraction
<1>9. ASSUME NEW l \in held, NEW permanent \in BOOLEAN, AnswerFailure(l, permanent) PROVE Fine
  <2>1. Pic(l) \in Pictures /\ Has(Pic(l)) BY LeaseOf
  <2>2. CASE UNCHANGED row BY <1>t, <2>2 DEF RowTyped, HasKept, Has
  <2>3. CASE HasRead(work[l.token]) /\ RecordRead(l) BY <2>3, ReadLeavesRow DEF HasRead
  <2>4. ASSUME NEW status \in SyncStatuses, SetStatus(Pic(l), status) PROVE Fine
    BY <1>t, <2>1, <2>4, SetStatusRow
  <2>5. \/ UNCHANGED row
        \/ HasRead(work[l.token]) /\ RecordRead(l)
        \/ \E status \in SyncStatuses : SetStatus(Pic(l), status)
    BY <1>9 DEF AnswerFailure, RecordDeath, SyncStatuses
  <2>. QED BY <2>2, <2>3, <2>4, <2>5
<1>10. ASSUME NEW j \in Jobs, WatchdogStamp(j) PROVE Fine
  <2>1. jobs[j].status = "failed" BY <1>10 DEF WatchdogStamp, SyncInv, RowsThere
  <2>2. jobs[j] \in Row /\ j \in Having(Live \cup Terminal)
    BY <2>1, RowOfStatus DEF SyncInv, QueueInv, Terminal, Having
  <2>3. jobs[j].pic \in Pictures /\ Has(jobs[j].pic) BY <2>2 DEF Row, SyncInv, RowsThere
  <2>4. CASE UNCHANGED row BY <1>t, <2>4 DEF RowTyped, HasKept, Has
  <2>5. CASE SetStatus(jobs[j].pic, "write_failed") \/ SetStatus(jobs[j].pic, "extract_failed")
    BY <1>t, <2>3, <2>5, SetStatusRow DEF SyncStatuses
  <2>. QED BY <1>10, <2>4, <2>5 DEF WatchdogStamp, SetStatus
<1>11. ASSUME UNCHANGED row PROVE Fine BY <1>t, <1>11 DEF RowTyped, HasKept, Has
<1>12. ASSUME NEW p \in Pictures,
              \/ \E f \in Fields : BeginEdit(p, f)
              \/ BeginResync(p) \/ BeginReextract(p) \/ BeginRevert(p) \/ BeginOverwrite(p)
              \/ \E op \in Reextracting : BeginSweep(op, p)
       PROVE  UNCHANGED row
  BY <1>12 DEF BeginEdit, BeginResync, BeginReextract, BeginRevert, BeginOverwrite, BeginSweep
<1>13. ASSUME NEW c \in calls, CheckInFlight(c) \/ EndResync(c) \/ EnqueueExtraction(c) PROVE UNCHANGED row
  BY <1>13 DEF CheckInFlight, EndResync, EnqueueExtraction
<1>14. ASSUME NEW l \in held, Bind(l) \/ Fetch(l) \/ Put(l) \/ WorkerVanishes(l) \/ AnswerRefused(l) PROVE UNCHANGED row
  BY <1>14 DEF Bind, Fetch, Put, WorkerVanishes, AnswerRefused
<1>15. ASSUME WorkerClaims \/ (\E S \in SUBSET Jobs : WatchdogReset(S)) \/ DrainLists \/ Restart \/ UNCHANGED vars
       PROVE  UNCHANGED row
  BY <1>15 DEF WorkerClaims, WatchdogReset, DrainLists, Restart, vars
<1>. HIDE DEF Fine
<1>16. Fine
  BY <1>1, <1>2, <1>3, <1>4, <1>5, <1>6, <1>7, <1>8, <1>9, <1>10, <1>11, <1>12, <1>13, <1>14, <1>15 DEF Next, CallStep
<1>. QED BY <1>16 DEF Fine

LEMMA CallMade ==
  ASSUME SyncInv, NEW p \in Pictures, Has(p), NEW n \in 0 .. MaxWrites, NEW f \in Fields,
         NEW op \in {"edit", "resync", "reextract", "revert"} \cup Reextracting
  PROVE  /\ Call(op, p, "read", n, f) \in CallRecord
         /\ Call(op, p, "read", n, f).pic = p /\ Call(op, p, "read", n, f).op = op
         /\ Call(op, p, "read", n, f).n = n /\ Call(op, p, "read", n, f).seen = row[p]
<1>1. row[p] \in PictureRow BY DEF SyncInv, TypeOK, Has
<1>. QED BY <1>1 DEF Call, CallRecord

\* One call more, or one a step further.
LEMMA CallsGrow ==
  ASSUME SyncInv, HasKept, NEW c, calls' \subseteq calls \cup {c},
         c \in CallRecord, Has(c.pic), c.op = "overwrite" => c.n # 0, c.op = "revert" => c.seen.fileExif # None
  PROVE  CallsTyped'
BY DEF SyncInv, CallsTyped, CallRecord, HasKept, Has

LEMMA CallsShrink ==
  ASSUME SyncInv, HasKept, calls' \subseteq calls
  PROVE  CallsTyped'
BY DEF SyncInv, CallsTyped, CallRecord, HasKept, Has

LEMMA CallFurther ==
  ASSUME SyncInv, HasKept, NEW c \in calls, NEW step \in {"read", "checked", "stamped", "enqueued"},
         calls' \subseteq (calls \ {c}) \cup {[c EXCEPT !.step = step]}
  PROVE  CallsTyped'
<1>. DEFINE d == [c EXCEPT !.step = step]
<1>1. c \in CallRecord BY CallOf
<1>2. d \in CallRecord /\ d.op = c.op /\ d.pic = c.pic /\ d.n = c.n /\ d.seen = c.seen BY <1>1 DEF CallRecord
<1>. HIDE DEF d
<1>3. Has(d.pic) /\ (d.op = "overwrite" => d.n # 0) /\ (d.op = "revert" => d.seen.fileExif # None)
  BY <1>2 DEF SyncInv, CallsTyped
<1>4. calls' \subseteq calls \cup {d} BY DEF d
<1>. QED BY <1>2, <1>3, <1>4, CallsGrow

LEMMA OtherFieldIn == OtherField \in Fields
BY SyncAssumption DEF OtherField

LEMMA CallsKept ==
  ASSUME SyncInv, HasKept, [Next]_vars
  PROVE  CallsTyped'
<1>n. writes \in Nat /\ MaxWrites \in Nat /\ (writes < MaxWrites => writes + 1 \in 1 .. MaxWrites)
  BY SyncAssumption DEF SyncInv, TypeOK
<1>z. 0 \in 0 .. MaxWrites BY <1>n
<1>1. ASSUME NEW p \in Pictures, NEW f \in Fields, BeginEdit(p, f) PROVE CallsTyped'
  <2>1. Has(p) /\ writes + 1 \in 0 .. MaxWrites /\ calls' = calls \cup {Call("edit", p, "read", writes + 1, f)}
    BY <1>1, <1>n DEF BeginEdit, Begin
  <2>. QED BY <2>1, CallMade, CallsGrow
<1>2. ASSUME NEW p \in Pictures, NEW op \in {"resync", "reextract", "regenerate", "recheck"}, Has(p),
             calls' = calls \cup {Call(op, p, "read", 0, OtherField)}
      PROVE  CallsTyped'
  <2>1. op \in {"edit", "resync", "reextract", "revert"} \cup Reextracting BY DEF Reextracting
  <2>. QED BY <1>2, <1>z, <2>1, CallMade, CallsGrow, OtherFieldIn
<1>3. ASSUME NEW p \in Pictures, BeginResync(p) \/ BeginReextract(p) \/ \E op \in Reextracting : BeginSweep(op, p)
      PROVE  CallsTyped'
  BY <1>2, <1>3 DEF BeginResync, BeginReextract, BeginSweep, Begin
<1>4. ASSUME NEW p \in Pictures, BeginRevert(p) PROVE CallsTyped'
  <2>1. Has(p) /\ row[p].fileExif # None /\ calls' = calls \cup {Call("revert", p, "read", 0, OtherField)}
    BY <1>4 DEF BeginRevert, Begin
  <2>. QED BY <2>1, <1>z, CallMade, CallsGrow, OtherFieldIn
<1>5. ASSUME NEW p \in Pictures, BeginOverwrite(p) PROVE CallsTyped'
  <2>1. Has(p) /\ writes + 1 \in 1 .. MaxWrites /\ calls' = calls \cup {Call("overwrite", p, "read", writes + 1, OtherField)}
    BY <1>5, <1>n DEF BeginOverwrite, Begin
  <2>2. writes + 1 \in 0 .. MaxWrites /\ writes + 1 # 0 BY <2>1
  <2>. QED BY <2>1, <2>2, CallMade, CallsGrow, OtherFieldIn DEF Reextracting
<1>6. ASSUME NEW c \in calls, CheckInFlight(c) \/ StampResync(c) \/ EnqueueExtraction(c) PROVE CallsTyped'
  BY <1>6, CallFurther DEF CheckInFlight, StampResync, EnqueueExtraction
<1>7. ASSUME NEW c \in calls, CommitEdit(c) \/ EndResync(c) \/ CommitReextract(c) \/ CommitRevert(c) \/ StampExtracting(c)
      PROVE  CallsTyped'
  BY <1>7, CallsShrink DEF CommitEdit, EndResync, CommitReextract, CommitRevert, StampExtracting
<1>8. ASSUME NEW p \in Pictures, Upload(p) \/ DrainCreates(p) \/ \E f \in Fields : BatchEdit(p, f) PROVE CallsTyped'
  BY <1>8, CallsShrink DEF Upload, BatchEdit, DrainCreates
<1>9. ASSUME NEW l \in held,
             \/ Bind(l) \/ Fetch(l) \/ Put(l) \/ WorkerVanishes(l) \/ AnswerRefused(l)
             \/ AnswerEdit(l) \/ AnswerExtraction(l) \/ \E permanent \in BOOLEAN : AnswerFailure(l, permanent)
      PROVE  CallsTyped'
  BY <1>9, CallsShrink DEF Bind, Fetch, Put, WorkerVanishes, AnswerRefused, AnswerEdit, AnswerExtraction, AnswerFailure
<1>10. ASSUME WorkerClaims \/ (\E S \in SUBSET Jobs : WatchdogReset(S)) \/ (\E j \in Jobs : WatchdogStamp(j))
                \/ DrainLists \/ Restart \/ UNCHANGED vars
       PROVE  CallsTyped'
  BY <1>10, CallsShrink DEF WorkerClaims, WatchdogReset, WatchdogStamp, DrainLists, Restart, vars
<1>. QED BY <1>1, <1>3, <1>4, <1>5, <1>6, <1>7, <1>8, <1>9, <1>10 DEF Next, CallStep

\* The one job a step creates is for the picture it acts on.
LEMMA CreatedHere ==
  ASSUME QueueInv, NEW kind \in Kinds, NEW p \in Pictures, NEW key \in IdemKeys \cup {NoKey},
         Enqueue(kind, p, key), NEW j \in Jobs, Created(j)
  PROVE  jobs'[j].kind = kind /\ jobs'[j].pic = p
<1>1. PICK i \in Jobs : Create(i, kind, p, key) BY EnqueueCreates
<1>2. j = i BY <1>1 DEF Create, Created, QueueInv, QueueTypeOK
<1>. QED BY <1>1, <1>2 DEF Create, QueueInv, QueueTypeOK

LEMMA NoneCreated ==
  ASSUME QueueInv, NEW j \in Jobs,
         \/ UNCHANGED jobs
         \/ \E i \in Jobs : Claim(i, Kinds)
         \/ \E l \in held : Complete(l) \/ \E permanent \in BOOLEAN : Fail(l, permanent)
         \/ \E S \in SUBSET Jobs : ResetStale(S)
  PROVE  ~Created(j)
<1>. SUFFICES ASSUME Created(j) PROVE FALSE
  OBVIOUS
<1>t. QueueTypeOK /\ jobs[j].status = "unborn" /\ jobs'[j].status = "pending" BY DEF QueueInv, Created
<1>1. ASSUME NEW i \in Jobs, Claim(i, Kinds) PROVE FALSE BY <1>t, <1>1 DEF Claim, QueueTypeOK
<1>2. ASSUME NEW l \in held, Complete(l) \/ \E permanent \in BOOLEAN : Fail(l, permanent) PROVE FALSE
  BY <1>t, <1>2 DEF Complete, Fail, Answerable, QueueTypeOK
<1>3. ASSUME NEW S \in SUBSET Jobs, ResetStale(S) PROVE FALSE
  BY <1>t, <1>3 DEF ResetStale, Overdue, Having
<1>4. CASE UNCHANGED jobs BY <1>t, <1>4
<1>. QED BY <1>1, <1>2, <1>3, <1>4

LEMMA CreatedHasRow ==
  ASSUME SyncInv, HasKept, [Next]_vars, NEW j \in Jobs, Created(j)
  PROVE  row'[jobs'[j].pic] # None
<1>. DEFINE Fine == row'[jobs'[j].pic] # None
<1>q. QueueInv BY DEF SyncInv
<1>k. "edit" \in Kinds /\ "extract" \in Kinds BY SyncAssumption
<1>0. ASSUME NEW kind \in Kinds, NEW p \in Pictures, NEW key \in IdemKeys \cup {NoKey},
             Enqueue(kind, p, key), Has(p) \/ Has(p)'
      PROVE  Fine
  BY <1>0, <1>q, CreatedHere DEF HasKept, Has
<1>1. ASSUME NEW p \in Pictures, Upload(p) PROVE Fine
  <2>. DEFINE r == [db |-> Uniform(0), fileExif |-> None,
                    status |-> IF p \in Readable THEN "extracting" ELSE "unsupported_mime"]
  <2>1. r \in PictureRow BY UniformTyped, SyncAssumption DEF PictureRow, SyncStatuses
  <2>2. row' = [row EXCEPT ![p] = r] BY <1>1 DEF Upload
  <2>3. row'[p] # None
    <3>. HIDE DEF r
    <3>. QED BY <2>1, <2>2, SyncAssumption DEF SyncInv, TypeOK
  <2>. QED BY <1>0, <1>1, <1>k, <2>3 DEF Upload, Has
<1>2. ASSUME NEW p \in Pictures, DrainCreates(p) PROVE Fine
  <2>1. Has(p) BY <1>2 DEF DrainCreates, SyncInv, RowsThere
  <2>2. CASE LiveEdits(p) = {} BY <1>0, <1>2, <1>k, <2>1, <2>2 DEF DrainCreates
  <2>3. CASE LiveEdits(p) # {} BY <1>2, <1>q, <2>3, NoneCreated DEF DrainCreates, queueVars
  <2>. QED BY <2>2, <2>3
<1>3. ASSUME NEW c \in calls, CommitEdit(c) \/ EndResync(c) PROVE Fine
  <2>1. UNCHANGED queueVars \/ Enqueue("edit", c.pic, NoKey)
    BY <1>3 DEF CommitEdit, EndResync, EnsureEditJob
  <2>2. CASE UNCHANGED queueVars BY <1>q, <2>2, NoneCreated DEF queueVars
  <2>3. CASE Enqueue("edit", c.pic, NoKey) BY <1>0, <1>k, <2>3, CallOf
  <2>. QED BY <2>1, <2>2, <2>3
<1>4. ASSUME NEW c \in calls, CommitReextract(c) PROVE Fine
  BY <1>0, <1>4, <1>k, CallOf DEF CommitReextract
<1>5. ASSUME NEW c \in calls, EnqueueExtraction(c) PROVE Fine
  <2>1. c \in CallRecord /\ (c.op = "overwrite" => c.n # 0) BY DEF SyncInv, CallsTyped
  <2>2. (IF c.op = "overwrite" THEN c.n ELSE NoKey) \in IdemKeys \cup {NoKey} BY <2>1, SyncAssumption DEF CallRecord
  <2>. QED BY <1>0, <1>5, <1>k, <2>2, CallOf DEF EnqueueExtraction
<1>6. ASSUME UNCHANGED jobs PROVE Fine BY <1>6, <1>q, NoneCreated
<1>7. ASSUME NEW p \in Pictures,
             \/ \E f \in Fields : BeginEdit(p, f) \/ BatchEdit(p, f)
             \/ BeginResync(p) \/ BeginReextract(p) \/ BeginRevert(p) \/ BeginOverwrite(p)
             \/ \E op \in Reextracting : BeginSweep(op, p)
      PROVE  UNCHANGED jobs
  BY <1>7 DEF BeginEdit, BatchEdit, BeginResync, BeginReextract, BeginRevert, BeginOverwrite, BeginSweep, queueVars
<1>8. ASSUME NEW c \in calls, CheckInFlight(c) \/ StampResync(c) \/ CommitRevert(c) \/ StampExtracting(c)
      PROVE  UNCHANGED jobs
  BY <1>8 DEF CheckInFlight, StampResync, CommitRevert, StampExtracting, queueVars
<1>9. ASSUME NEW l \in held, Bind(l) \/ Fetch(l) \/ Put(l) \/ WorkerVanishes(l) \/ AnswerRefused(l)
      PROVE  UNCHANGED jobs
  BY <1>9 DEF Bind, Fetch, Put, WorkerVanishes, AnswerRefused, Vanish, Refuse, queueVars
<1>10. ASSUME NEW l \in held, AnswerEdit(l) \/ AnswerExtraction(l) \/ \E permanent \in BOOLEAN : AnswerFailure(l, permanent)
       PROVE  Fine
  <2>1. Complete(l) \/ \E permanent \in BOOLEAN : Fail(l, permanent)
    BY <1>10 DEF AnswerEdit, AnswerExtraction, AnswerFailure
  <2>. QED BY <1>q, <2>1, NoneCreated
<1>11. ASSUME WorkerClaims \/ \E S \in SUBSET Jobs : WatchdogReset(S) PROVE Fine
  BY <1>11, <1>q, NoneCreated DEF WorkerClaims, WatchdogReset
<1>12. ASSUME (\E i \in Jobs : WatchdogStamp(i)) \/ DrainLists \/ Restart \/ UNCHANGED vars PROVE UNCHANGED jobs
  BY <1>12 DEF WatchdogStamp, DrainLists, Restart, vars, queueVars
<1>. HIDE DEF Fine
<1>13. Fine
  BY <1>1, <1>2, <1>3, <1>4, <1>5, <1>6, <1>7, <1>8, <1>9, <1>10, <1>11, <1>12 DEF Next, CallStep
<1>. QED BY <1>13 DEF Fine

\* A step that takes leases away, empties the work of some, and binds nothing.
LEMMA LeasesFewer ==
  ASSUME SyncInv, JobsStay, held' \subseteq held, UNCHANGED <<minted, config>>,
         \A l \in held' : work'[l.token] = work[l.token],
         \A t \in 1 .. MaxClaims : work'[t] \in {work[t], Idle}
  PROVE  LeasesApart'
<1>1. ASSUME NEW l \in held'
      PROVE  jobs'[l.job].status \in Live \cup Terminal /\ InHand(l)'
  <2>1. l \in held /\ InHand(l) /\ l.job \in Having(Live \cup Terminal) BY LeaseOf
  <2>2. /\ jobs'[l.job].status \in Live \cup Terminal /\ Kind(l)' = Kind(l)
        /\ Answerable(l)' => Answerable(l)
    BY <2>1 DEF JobsStay, Kind
  <2>3. work'[l.token] = work[l.token] /\ config'[l.job] = config[l.job] OBVIOUS
  <2>. QED BY <2>1, <2>2, <2>3 DEF InHand
<1>2. \A l, m \in held' : l.token = m.token => l = m BY DEF SyncInv, LeasesApart
<1>3. \A t \in 1 .. MaxClaims : t > minted' => work'[t] = Idle BY DEF SyncInv, LeasesApart
<1>. QED BY <1>1, <1>2, <1>3 DEF LeasesApart

LEMMA LeaseDropped ==
  ASSUME SyncInv, JobsStay, NEW l \in held, held' = held \ {l}, UNCHANGED <<minted, config>>, Drop(l)
  PROVE  LeasesApart' /\ work' \in [1 .. MaxClaims -> Work]
<1>1. l.token \in 1 .. MaxClaims /\ work \in [1 .. MaxClaims -> Work] BY LeaseOf DEF SyncInv, TypeOK
<1>2. \A m \in held' : m.token # l.token BY DEF SyncInv, LeasesApart
<1>3. \A m \in held' : m.token \in 1 .. MaxClaims BY LeaseOf
<1>4. \A m \in held' : work'[m.token] = work[m.token] BY <1>1, <1>2, <1>3 DEF Drop
<1>5. \A t \in 1 .. MaxClaims : work'[t] \in {work[t], Idle} BY <1>1 DEF Drop
<1>6. Idle \in Work BY SyncAssumption DEF Idle, Work
<1>. QED BY <1>1, <1>4, <1>5, <1>6, LeasesFewer DEF Drop

\* A step that leaves the leases and what they have in hand alone.
LEMMA LeasesSame ==
  ASSUME SyncInv, JobsStay, UNCHANGED <<held, minted, config, work>>
  PROVE  LeasesApart' /\ work' \in [1 .. MaxClaims -> Work]
BY LeasesFewer DEF SyncInv, TypeOK

\* A step of one worker on what it has in hand.
LEMMA LeaseWorks ==
  ASSUME SyncInv, NEW l \in held, UNCHANGED queueVars, NEW w \in Work,
         work' = [work EXCEPT ![l.token] = w], InHand(l)',
         \A m \in held : Answerable(m) /\ m # l => config'[m.job] = config[m.job]
  PROVE  LeasesApart' /\ work' \in [1 .. MaxClaims -> Work]
<1>1. l.token \in 1 .. MaxClaims /\ work \in [1 .. MaxClaims -> Work] /\ l.token <= minted
  BY LeaseOf DEF SyncInv, TypeOK
<1>2. UNCHANGED <<jobs, held, minted>> BY DEF queueVars
<1>3. ASSUME NEW m \in held', m # l PROVE InHand(m)'
  <2>1. m \in held /\ InHand(m) /\ m.token \in 1 .. MaxClaims BY <1>2, LeaseOf
  <2>2. m.token # l.token BY <1>2, <1>3 DEF SyncInv, LeasesApart
  <2>3. work'[m.token] = work[m.token] BY <1>1, <2>1, <2>2
  <2>4. (Answerable(m)' <=> Answerable(m)) /\ Kind(m)' = Kind(m) BY <1>2 DEF Answerable, Kind
  <2>. QED BY <1>3, <2>1, <2>3, <2>4 DEF InHand
<1>4. \A m \in held' : jobs'[m.job].status \in Live \cup Terminal BY <1>2 DEF SyncInv, LeasesApart
<1>5. \A t \in 1 .. MaxClaims : t > minted' => work'[t] = Idle
  <2>1. minted \in Nat BY DEF SyncInv, QueueInv, QueueTypeOK
  <2>2. \A t \in 1 .. MaxClaims : t > minted => t # l.token BY <1>1, <2>1
  <2>. QED BY <1>1, <1>2, <2>2 DEF SyncInv, LeasesApart
<1>6. \A m, n \in held' : m.token = n.token => m = n BY <1>2 DEF SyncInv, LeasesApart
<1>. QED BY <1>1, <1>3, <1>4, <1>5, <1>6 DEF LeasesApart

LEMMA LeasesKept ==
  ASSUME SyncInv, [Next]_vars
  PROVE  LeasesApart' /\ work' \in [1 .. MaxClaims -> Work]
<1>. DEFINE Fine == LeasesApart' /\ work' \in [1 .. MaxClaims -> Work]
<1>q. QueueInv /\ QueueStep BY StepOfQueue DEF SyncInv
<1>j. JobsStay BY <1>q, JobsStayed
<1>1. ASSUME WorkerClaims PROVE Fine
  <2>1. PICK j \in Jobs : Claim(j, Kinds) BY <1>1 DEF WorkerClaims
  <2>t. PICK t : t = minted + 1 OBVIOUS
  <2>l. PICK l : l = [job |-> j, token |-> t] OBVIOUS
  <2>2. held' = held \cup {l} /\ minted' = t /\ UNCHANGED <<config, work>> /\ jobs[j].status = "pending" /\ minted < MaxClaims
    BY <1>1, <2>1, <2>t, <2>l DEF Claim, FreshToken, WorkerClaims
  <2>3. minted \in Nat /\ t \in 1 .. MaxClaims /\ work \in [1 .. MaxClaims -> Work]
    BY <2>2, <2>t, QueueAssumption DEF SyncInv, QueueInv, QueueTypeOK, TypeOK
  <2>4. work[t] = Idle BY <2>3, <2>t DEF SyncInv, LeasesApart
  <2>5. l.job = j /\ l.token = t BY <2>l
  <2>6. \A m \in held : m.token <= minted /\ m.token \in Nat BY LeaseOf
  <2>7. jobs'[j].status \in Live \cup Terminal BY <2>2, <1>j DEF JobsStay, Having, Live
  <2>8. InHand(l)' BY <2>2, <2>4, <2>5 DEF InHand, Idle
  <2>9. ASSUME NEW m \in held PROVE jobs'[m.job].status \in Live \cup Terminal /\ InHand(m)'
    <3>1. InHand(m) /\ m.job \in Having(Live \cup Terminal) BY LeaseOf
    <3>2. /\ jobs'[m.job].status \in Live \cup Terminal /\ Kind(m)' = Kind(m)
          /\ Answerable(m)' => Answerable(m)
      BY <1>j, <3>1 DEF JobsStay, Kind
    <3>. QED BY <2>2, <3>1, <3>2 DEF InHand
  <2>10. \A m, n \in held' : m.token = n.token => m = n
    <3>1. \A m \in held : m.token # t BY <2>3, <2>6, <2>t
    <3>. QED BY <2>2, <2>5, <3>1 DEF SyncInv, LeasesApart
  <2>11. \A u \in 1 .. MaxClaims : u > minted' => work'[u] = Idle
    <3>1. \A u \in 1 .. MaxClaims : u > minted' => u > minted BY <2>2, <2>3, <2>t
    <3>. QED BY <2>2, <3>1 DEF SyncInv, LeasesApart
  <2>. QED BY <2>2, <2>3, <2>5, <2>7, <2>8, <2>9, <2>10, <2>11 DEF LeasesApart
<1>2. ASSUME NEW l \in held, Bind(l) PROVE Fine
  <2>1. /\ Answerable(l) /\ UNCHANGED <<queueVars, row>>
        /\ work[l.token] \in Work /\ l.job \in Jobs /\ l.token \in 1 .. MaxClaims /\ Has(Pic(l)) /\ Pic(l) \in Pictures
    BY <1>2, LeaseOf DEF Bind
  <2>. DEFINE target == IF Kind(l) = "edit" THEN row[Pic(l)].db ELSE None
              w == [work[l.token] EXCEPT !.stage = "bound", !.exif = target]
  <2>2. row[Pic(l)].db \in Exif BY <2>1 DEF SyncInv, TypeOK, Has, PictureRow
  <2>3. target \in Exif \cup {None} /\ (Kind(l) = "edit" => target \in Exif) BY <2>2
  <2>4. config' = [config EXCEPT ![l.job] = target] /\ config \in [Jobs -> Exif \cup {None}]
    BY <1>2 DEF Bind, SyncInv, TypeOK
  <2>5. work' = [work EXCEPT ![l.token] = w] BY <1>2 DEF Bind
  <2>. HIDE DEF target
  <2>6. w \in Work /\ w.stage = "bound" /\ w.exif = target BY <2>1, <2>3 DEF Work
  <2>. HIDE DEF w
  <2>7. InHand(l)'
    <3>1. work'[l.token] = w BY <2>1, <2>5 DEF SyncInv, TypeOK
    <3>2. config'[l.job] = target BY <2>1, <2>4
    <3>3. Kind(l)' = Kind(l) BY <2>1 DEF Kind, queueVars
    <3>. QED BY <2>3, <2>6, <3>1, <3>2, <3>3 DEF InHand
  <2>8. ASSUME NEW m \in held, Answerable(m), m # l PROVE config'[m.job] = config[m.job]
    <3>1. m.token # l.token BY <2>8 DEF SyncInv, LeasesApart
    <3>2. m.job # l.job BY <2>1, <2>8, <3>1 DEF Answerable
    <3>3. m.job \in Jobs BY LeaseOf
    <3>. QED BY <2>1, <2>4, <3>2, <3>3
  <2>. QED BY <2>1, <2>5, <2>6, <2>7, <2>8, LeaseWorks
<1>3. ASSUME NEW l \in held, Fetch(l) PROVE Fine
  <2>1. /\ UNCHANGED <<queueVars, config>> /\ work[l.token].stage = "bound" /\ InHand(l)
        /\ work[l.token] \in Work /\ l.job \in Jobs /\ l.token \in 1 .. MaxClaims /\ Pic(l) \in Pictures
    BY <1>3, LeaseOf DEF Fetch
  <2>. DEFINE exif == IF Kind(l) = "edit" THEN work[l.token].exif ELSE file[Pic(l)].exif
              w == [work[l.token] EXCEPT !.stage = "fetched", !.image = file[Pic(l)].image, !.exif = exif]
  <2>2. file[Pic(l)] \in [image : 0 .. MaxWrites, exif : Exif] BY <2>1 DEF SyncInv, TypeOK
  <2>3. exif \in Exif BY <2>1, <2>2 DEF InHand
  <2>4. work' = [work EXCEPT ![l.token] = w] BY <1>3, <2>1 DEF Fetch, SyncInv, TypeOK
  <2>5. Kind(l) = "edit" => exif = work[l.token].exif OBVIOUS
  <2>. HIDE DEF exif
  <2>6. w \in Work /\ w.stage = "fetched" /\ w.exif = exif BY <2>1, <2>2, <2>3 DEF Work
  <2>. HIDE DEF w
  <2>7. InHand(l)'
    <3>1. work'[l.token] = w BY <2>1, <2>4 DEF SyncInv, TypeOK
    <3>2. Kind(l)' = Kind(l) /\ (Answerable(l)' <=> Answerable(l)) BY <2>1 DEF Kind, Answerable, queueVars
    <3>. QED BY <2>1, <2>3, <2>5, <2>6, <3>1, <3>2 DEF InHand
  <2>. QED BY <2>1, <2>4, <2>6, <2>7, LeaseWorks
<1>4. ASSUME NEW l \in held, Put(l) PROVE Fine
  <2>1. /\ UNCHANGED <<queueVars, config>> /\ work[l.token].stage = "fetched" /\ InHand(l) /\ Kind(l) = "edit"
        /\ work[l.token] \in Work /\ l.job \in Jobs /\ l.token \in 1 .. MaxClaims
    BY <1>4, LeaseOf DEF Put
  <2>. DEFINE w == [work[l.token] EXCEPT !.stage = "put"]
  <2>2. work' = [work EXCEPT ![l.token] = w] BY <1>4 DEF Put
  <2>3. w \in Work /\ w.stage = "put" /\ w.exif = work[l.token].exif BY <2>1 DEF Work
  <2>. HIDE DEF w
  <2>4. InHand(l)'
    <3>1. work'[l.token] = w BY <2>1, <2>2 DEF SyncInv, TypeOK
    <3>2. Kind(l)' = Kind(l) /\ (Answerable(l)' <=> Answerable(l)) BY <2>1 DEF Kind, Answerable, queueVars
    <3>. QED BY <2>1, <2>3, <3>1, <3>2 DEF InHand
  <2>. QED BY <2>1, <2>2, <2>3, <2>4, LeaseWorks
<1>5. ASSUME NEW l \in held,
             WorkerVanishes(l) \/ AnswerRefused(l) \/ AnswerEdit(l) \/ AnswerExtraction(l)
               \/ \E permanent \in BOOLEAN : AnswerFailure(l, permanent)
      PROVE  Fine
  <2>1. held' = held \ {l} /\ UNCHANGED <<minted, config>> /\ Drop(l)
    BY <1>5 DEF WorkerVanishes, AnswerRefused, AnswerEdit, AnswerExtraction, AnswerFailure,
                Vanish, Refuse, Complete, Fail
  <2>. QED BY <1>j, <2>1, LeaseDropped
<1>6. ASSUME UNCHANGED <<held, minted, config, work>> PROVE Fine BY <1>j, <1>6, LeasesSame
<1>7. ASSUME NEW p \in Pictures,
             \/ \E f \in Fields : BeginEdit(p, f) \/ BatchEdit(p, f)
             \/ BeginResync(p) \/ BeginReextract(p) \/ BeginRevert(p) \/ BeginOverwrite(p)
             \/ \E op \in Reextracting : BeginSweep(op, p)
      PROVE  UNCHANGED <<held, minted, config, work>>
  BY <1>7 DEF BeginEdit, BatchEdit, BeginResync, BeginReextract, BeginRevert, BeginOverwrite, BeginSweep, queueVars
<1>8. ASSUME NEW p \in Pictures, Upload(p) \/ DrainCreates(p)
      PROVE  UNCHANGED <<held, minted, config, work>>
  BY <1>8 DEF Upload, DrainCreates, Enqueue, Create, queueVars
<1>9. ASSUME NEW c \in calls, CallStep(c)
      PROVE  UNCHANGED <<held, minted, config, work>>
  <2>1. CASE CommitEdit(c) BY <2>1 DEF CommitEdit, EnsureEditJob, Enqueue, Create, queueVars
  <2>2. CASE CheckInFlight(c) \/ StampResync(c) \/ CommitRevert(c) \/ StampExtracting(c)
    BY <2>2 DEF CheckInFlight, StampResync, CommitRevert, StampExtracting, queueVars
  <2>3. CASE EndResync(c) \/ CommitReextract(c) \/ EnqueueExtraction(c)
    BY <2>3 DEF EndResync, CommitReextract, EnqueueExtraction, EnsureEditJob, Enqueue, Create, queueVars
  <2>. QED BY <1>9, <2>1, <2>2, <2>3 DEF CallStep
<1>10. ASSUME (\E S \in SUBSET Jobs : WatchdogReset(S)) \/ (\E j \in Jobs : WatchdogStamp(j)) \/ DrainLists \/ Restart
                \/ UNCHANGED vars
       PROVE  UNCHANGED <<held, minted, config, work>>
  BY <1>10 DEF WatchdogReset, ResetStale, WatchdogStamp, DrainLists, Restart, vars, queueVars
<1>. HIDE DEF Fine
<1>11. Fine
  BY <1>1, <1>2, <1>3, <1>4, <1>5, <1>6, <1>7, <1>8, <1>9, <1>10 DEF Next
<1>. QED BY <1>11 DEF Fine

\* The passes of the routines: only the drain's listing and the watchdog's
\* statement add to them.
LEMMA PassesOnly ==
  ASSUME [Next]_vars
  PROVE  /\ drain' \subseteq drain \cup Deferred
         /\ stamps' \subseteq stamps \/ \E S \in SUBSET Jobs : WatchdogReset(S)
<1>1. ASSUME NEW p \in Pictures,
             \/ Upload(p) \/ DrainCreates(p)
             \/ \E f \in Fields : BeginEdit(p, f) \/ BatchEdit(p, f)
             \/ BeginResync(p) \/ BeginReextract(p) \/ BeginRevert(p) \/ BeginOverwrite(p)
             \/ \E op \in Reextracting : BeginSweep(op, p)
      PROVE  drain' \subseteq drain /\ stamps' = stamps
  BY <1>1 DEF Upload, DrainCreates, BeginEdit, BatchEdit, BeginResync, BeginReextract, BeginRevert,
              BeginOverwrite, BeginSweep
<1>2. ASSUME NEW c \in calls, CallStep(c) PROVE drain' = drain /\ stamps' = stamps
  BY <1>2 DEF CallStep, CommitEdit, CheckInFlight, StampResync, EndResync, CommitReextract, CommitRevert,
              EnqueueExtraction, StampExtracting
<1>3. ASSUME NEW l \in held,
             \/ Bind(l) \/ Fetch(l) \/ Put(l) \/ WorkerVanishes(l) \/ AnswerRefused(l)
             \/ AnswerEdit(l) \/ AnswerExtraction(l) \/ \E permanent \in BOOLEAN : AnswerFailure(l, permanent)
      PROVE  drain' = drain /\ stamps' = stamps
  BY <1>3 DEF Bind, Fetch, Put, WorkerVanishes, AnswerRefused, AnswerEdit, AnswerExtraction, AnswerFailure
<1>4. ASSUME WorkerClaims \/ (\E j \in Jobs : WatchdogStamp(j)) \/ DrainLists \/ Restart \/ UNCHANGED vars
      PROVE  drain' \subseteq drain \cup Deferred /\ stamps' \subseteq stamps
  BY <1>4 DEF WorkerClaims, WatchdogStamp, DrainLists, Restart, vars
<1>5. ASSUME NEW S \in SUBSET Jobs, WatchdogReset(S) PROVE drain' = drain BY <1>5 DEF WatchdogReset
<1>. QED BY <1>1, <1>2, <1>3, <1>4, <1>5 DEF Next

\* What the watchdog still has to stamp, it has given up on.
LEMMA RowsThereKept ==
  ASSUME SyncInv, HasKept, [Next]_vars
  PROVE  RowsThere'
<1>q. QueueInv /\ QueueStep BY StepOfQueue DEF SyncInv
<1>t. QueueInv' BY <1>q, QueueStepIsStep, QueueInvStep
<1>j. JobsStay BY <1>q, JobsStayed
<1>s. [QueueNext]_queueVars BY <1>q, QueueStepIsStep
<1>1. ASSUME NEW j \in Having(Live \cup Terminal)' PROVE Has(jobs[j].pic)'
  <2>1. j \in Jobs /\ jobs'[j].status \in Live \cup Terminal BY DEF Having
  <2>2. CASE j \in Having(Live \cup Terminal)
    <3>1. jobs'[j].pic = jobs[j].pic /\ Has(jobs[j].pic) BY <1>j, <2>2 DEF JobsStay, SyncInv, RowsThere
    <3>2. jobs[j].pic \in Pictures BY <1>q, <2>1, <2>2, RowOfStatus DEF Having, QueueInv, Row
    <3>. QED BY <3>1, <3>2 DEF HasKept, Has
  <2>3. CASE j \notin Having(Live \cup Terminal)
    <3>1. jobs'[j] # jobs[j] BY <2>1, <2>3 DEF Having
    <3>2. Created(j)
      <4>1. jobs[j].status \notin Live \cup Terminal BY <2>1, <2>3 DEF Having
      <4>. QED BY <1>q, <1>s, <2>1, <3>1, <4>1, RowStep DEF Claimed, Ended, Pruned, Live, Terminal
    <3>. QED BY <2>1, <3>2, CreatedHasRow DEF Has
  <2>. QED BY <2>2, <2>3
<1>2. \A p \in drain' : Has(p)'
  <2>1. \A p \in drain \cup Deferred : p \in Pictures /\ Has(p) BY DEF SyncInv, RowsThere, TypeOK, Deferred
  <2>. QED BY <2>1, PassesOnly DEF HasKept
<1>3. \A j \in stamps' : jobs'[j].status = "failed"
  <2>1. ASSUME NEW S \in SUBSET Jobs, WatchdogReset(S) PROVE \A j \in stamps' : jobs'[j].status = "failed"
    BY <2>1 DEF WatchdogReset, GivenUp
  <2>2. CASE stamps' \subseteq stamps
    <3>1. \A j \in stamps : j \in Having(Live \cup Terminal) /\ jobs[j].status \in Terminal /\ jobs[j].status = "failed"
      BY DEF SyncInv, TypeOK, RowsThere, Having, Terminal
    <3>. QED BY <1>j, <2>2, <3>1 DEF JobsStay
  <2>. QED BY <2>1, <2>2, PassesOnly
<1>. QED BY <1>1, <1>2, <1>3 DEF RowsThere

LEMMA FileAndTargetsTyped ==
  ASSUME SyncInv, [Next]_vars
  PROVE  /\ file' \in [Pictures -> [image : 0 .. MaxWrites, exif : Exif]]
         /\ config' \in [Jobs -> Exif \cup {None}]
         /\ writes' \in 0 .. MaxWrites
<1>. DEFINE Fine == /\ file' \in [Pictures -> [image : 0 .. MaxWrites, exif : Exif]]
                    /\ config' \in [Jobs -> Exif \cup {None}]
                    /\ writes' \in 0 .. MaxWrites
<1>t. /\ file \in [Pictures -> [image : 0 .. MaxWrites, exif : Exif]]
      /\ config \in [Jobs -> Exif \cup {None}]
      /\ writes \in 0 .. MaxWrites /\ MaxWrites \in Nat
  BY SyncAssumption DEF SyncInv, TypeOK
<1>1. ASSUME NEW p \in Pictures, BeginOverwrite(p) PROVE Fine
  <2>1. /\ writes' = writes + 1 /\ UNCHANGED config
        /\ file' = [file EXCEPT ![p] = [image |-> writes + 1, exif |-> Uniform(writes + 1)]]
    BY <1>1 DEF BeginOverwrite
  <2>2. writes + 1 \in 0 .. MaxWrites BY <1>1, <1>t DEF BeginOverwrite
  <2>. QED BY <1>t, <2>1, <2>2, UniformTyped
<1>2. ASSUME NEW p \in Pictures, \E f \in Fields : BeginEdit(p, f) \/ BatchEdit(p, f) PROVE Fine
  BY <1>2, <1>t DEF BeginEdit, BatchEdit
<1>3. ASSUME NEW l \in held, Bind(l) PROVE Fine
  <2>1. l.job \in Jobs /\ Has(Pic(l)) /\ Pic(l) \in Pictures BY LeaseOf
  <2>2. row[Pic(l)].db \in Exif BY <2>1 DEF SyncInv, TypeOK, Has, PictureRow
  <2>3. (IF Kind(l) = "edit" THEN row[Pic(l)].db ELSE None) \in Exif \cup {None} BY <2>2
  <2>. QED BY <1>3, <1>t, <2>1, <2>3 DEF Bind
<1>4. ASSUME NEW l \in held, Put(l) PROVE Fine
  <2>1. work[l.token] \in Work /\ work[l.token].exif \in Exif /\ Pic(l) \in Pictures
    BY <1>4, LeaseOf DEF Put, InHand
  <2>. QED BY <1>4, <1>t, <2>1 DEF Put, Work
<1>5. ASSUME NEW l \in held,
             \/ Fetch(l) \/ WorkerVanishes(l) \/ AnswerRefused(l)
             \/ AnswerEdit(l) \/ AnswerExtraction(l) \/ \E permanent \in BOOLEAN : AnswerFailure(l, permanent)
      PROVE  UNCHANGED <<file, config, writes>>
  BY <1>5 DEF Fetch, WorkerVanishes, AnswerRefused, AnswerEdit, AnswerExtraction, AnswerFailure
<1>6. ASSUME NEW p \in Pictures,
             \/ Upload(p) \/ DrainCreates(p) \/ BeginResync(p) \/ BeginReextract(p) \/ BeginRevert(p)
             \/ \E op \in Reextracting : BeginSweep(op, p)
      PROVE  UNCHANGED <<file, config, writes>>
  BY <1>6 DEF Upload, DrainCreates, BeginResync, BeginReextract, BeginRevert, BeginSweep
<1>7. ASSUME NEW c \in calls, CallStep(c) PROVE UNCHANGED <<file, config, writes>>
  BY <1>7 DEF CallStep, CommitEdit, CheckInFlight, StampResync, EndResync, CommitReextract, CommitRevert,
              EnqueueExtraction, StampExtracting
<1>8. ASSUME WorkerClaims \/ (\E S \in SUBSET Jobs : WatchdogReset(S)) \/ (\E j \in Jobs : WatchdogStamp(j))
               \/ DrainLists \/ Restart \/ UNCHANGED vars
      PROVE  UNCHANGED <<file, config, writes>>
  BY <1>8 DEF WorkerClaims, WatchdogReset, WatchdogStamp, DrainLists, Restart, vars
<1>9. ASSUME UNCHANGED <<file, config, writes>> PROVE Fine BY <1>9, <1>t
<1>. HIDE DEF Fine
<1>10. Fine BY <1>1, <1>2, <1>3, <1>4, <1>5, <1>6, <1>7, <1>8, <1>9 DEF Next
<1>. QED BY <1>10 DEF Fine

\* Who acts on what no longer holds, acts on a picture.
LEMMA StaleTyped ==
  ASSUME SyncInv, [Next]_vars
  PROVE  stale' \subseteq Pictures
<1>t. stale \subseteq Pictures BY DEF SyncInv, TypeOK
<1>a. ASSUME NEW p \in Pictures, NEW outdated, Acts(p, outdated) PROVE stale' \subseteq Pictures
  BY <1>a, <1>t DEF Acts
<1>1. ASSUME NEW c \in calls, CommitRevert(c) \/ StampExtracting(c) PROVE stale' \subseteq Pictures
  <2>1. c.pic \in Pictures BY CallOf
  <2>. QED BY <1>1, <1>a, <2>1 DEF CommitRevert, StampExtracting
<1>2. ASSUME NEW l \in held,
             Put(l) \/ AnswerEdit(l) \/ AnswerExtraction(l) \/ \E permanent \in BOOLEAN : AnswerFailure(l, permanent)
      PROVE  stale' \subseteq Pictures
  <2>1. Pic(l) \in Pictures BY LeaseOf
  <2>2. (\E b : Acts(Pic(l), b)) \/ UNCHANGED stale
    BY <1>2 DEF Put, AnswerEdit, AnswerExtraction, AnswerFailure, RecordEdit, RecordRead, RecordDeath
  <2>. QED BY <1>a, <1>t, <2>1, <2>2
<1>3. ASSUME Restart PROVE stale' \subseteq Pictures
  <2>1. \A c \in calls : c.pic \in Pictures BY CallOf
  <2>2. \A j \in stamps : jobs[j].pic \in Pictures
    BY RowOfStatus DEF SyncInv, QueueInv, TypeOK, RowsThere, Terminal, Row
  <2>. QED BY <1>3, <1>t, <2>1, <2>2 DEF Restart
<1>4. ASSUME NEW p \in Pictures,
             \/ Upload(p) \/ DrainCreates(p)
             \/ \E f \in Fields : BeginEdit(p, f) \/ BatchEdit(p, f)
             \/ BeginResync(p) \/ BeginReextract(p) \/ BeginRevert(p) \/ BeginOverwrite(p)
             \/ \E op \in Reextracting : BeginSweep(op, p)
      PROVE  UNCHANGED stale
  BY <1>4 DEF Upload, DrainCreates, BeginEdit, BatchEdit, BeginResync, BeginReextract, BeginRevert,
              BeginOverwrite, BeginSweep
<1>5. ASSUME NEW c \in calls, \/ CommitEdit(c) \/ CheckInFlight(c) \/ StampResync(c) \/ EndResync(c)
                              \/ CommitReextract(c) \/ EnqueueExtraction(c)
      PROVE  UNCHANGED stale
  BY <1>5 DEF CommitEdit, CheckInFlight, StampResync, EndResync, CommitReextract, EnqueueExtraction
<1>6. ASSUME NEW l \in held, Bind(l) \/ Fetch(l) \/ WorkerVanishes(l) \/ AnswerRefused(l) PROVE UNCHANGED stale
  BY <1>6 DEF Bind, Fetch, WorkerVanishes, AnswerRefused
<1>7. ASSUME WorkerClaims \/ (\E S \in SUBSET Jobs : WatchdogReset(S)) \/ (\E j \in Jobs : WatchdogStamp(j))
               \/ DrainLists \/ UNCHANGED vars
      PROVE  UNCHANGED stale
  BY <1>7 DEF WorkerClaims, WatchdogReset, WatchdogStamp, DrainLists, vars
<1>. QED BY <1>t, <1>1, <1>2, <1>3, <1>4, <1>5, <1>6, <1>7 DEF Next, CallStep

-----------------------------------------------------------------------------
LEMMA SyncInvInit == Init => SyncInv
<1>. SUFFICES ASSUME Init PROVE SyncInv
  OBVIOUS
<1>1. QueueInv BY QueueInvInit DEF Init
<1>2. Idle \in Work /\ 0 \in 0 .. MaxWrites BY SyncAssumption DEF Idle, Work
<1>3. TypeOK BY <1>1, <1>2, SyncAssumption, UniformTyped DEF Init, TypeOK, QueueInv
<1>4. CallsTyped /\ LeasesApart BY DEF Init, QueueInit, CallsTyped, LeasesApart
<1>5. RowsThere BY DEF Init, QueueInit, RowsThere, Having, Unborn, Live, Terminal
<1>. QED BY <1>1, <1>3, <1>4, <1>5 DEF SyncInv

LEMMA SyncInvStep == SyncInv /\ [Next]_vars => SyncInv'
<1>. SUFFICES ASSUME SyncInv, [Next]_vars PROVE SyncInv'
  OBVIOUS
<1>1. QueueStep BY StepOfQueue DEF SyncInv
<1>2. QueueInv' BY <1>1, QueueStepIsStep, QueueInvStep DEF SyncInv
<1>3. RowTyped' /\ HasKept BY RowsKept
<1>4. CallsTyped' /\ RowsThere' /\ LeasesApart' /\ work' \in [1 .. MaxClaims -> Work]
  BY <1>3, CallsKept, RowsThereKept, LeasesKept
<1>5. drain' \subseteq Pictures BY PassesOnly DEF SyncInv, TypeOK, Deferred
<1>6. stamps' \subseteq Jobs
  <2>1. ASSUME NEW S \in SUBSET Jobs, WatchdogReset(S) PROVE stamps' \subseteq Jobs
    BY <2>1 DEF WatchdogReset, GivenUp
  <2>. QED BY <2>1, PassesOnly DEF SyncInv, TypeOK
<1>7. TypeOK'
  BY <1>2, <1>3, <1>4, <1>5, <1>6, FileAndTargetsTyped, StaleTyped DEF TypeOK, QueueInv, RowTyped
<1>. QED BY <1>2, <1>4, <1>7 DEF SyncInv

\* The rows, files, bound targets, workers, calls and passes keep their types,
\* for any number of pictures, fields, jobs and calls.
THEOREM SyncTypes == Spec => []TypeOK
<1>1. SyncInv => TypeOK BY DEF SyncInv
<1>. QED BY SyncInvInit, SyncInvStep, <1>1, PTL DEF Spec

\* Write-through and extraction run the job queue: every step of theirs is a
\* step of the queue or leaves it alone.
THEOREM RunsTheQueue == Spec => QueueSpec
<1>1. Init => QueueInit BY DEF Init
<1>2. SyncInv /\ [Next]_vars => [QueueNext]_queueVars BY StepOfQueue, QueueStepIsStep DEF SyncInv
<1>. QED BY SyncInvInit, SyncInvStep, <1>1, <1>2, PTL DEF Spec, QueueSpec

\* So the edits and extractions of pictures are never queued twice, a job runs
\* within its retry budget, one worker answers it, and what ended has ended.
THEOREM QueuePromises == Spec => [](NoDuplicateWork /\ OneAnswerer) /\ EndsForGood
BY RunsTheQueue, NoDuplicates, OneAnswers, EndedForGood, PTL

-----------------------------------------------------------------------------
(* Transient rows and synced rows *)

Sound(p) == Pending(p) /\ Extracting(p) /\ Truth(p)

SoundRows == \A p \in Pictures \ stale : Sound(p)

\* The jobs of a kind in flight for p, or waiting for the watchdog's stamp,
\* stay one or the other.
Carried(kind, p) ==
  \A j \in Having(Live) \cup stamps :
    jobs[j].kind = kind /\ jobs[j].pic = p => j \in Having(Live)' \cup stamps'

CallsStay(p) ==
  \A c \in calls :
    c.pic = p /\ (c.op = "overwrite" \/ c.step = "stamped") =>
      \E d \in calls' : d.op = c.op /\ d.pic = p /\ (c.step = "stamped" => d.step = "stamped")

LEMMA LiveStay ==
  ASSUME QueueInv, NEW j \in Having(Live),
         \/ UNCHANGED jobs
         \/ \E i \in Jobs : Claim(i, Kinds)
         \/ \E i \in Jobs, kind \in Kinds, p \in Pictures, key \in IdemKeys \cup {NoKey} : Create(i, kind, p, key)
         \/ \E l \in held : l.job # j /\ (Complete(l) \/ \E permanent \in BOOLEAN : Fail(l, permanent))
  PROVE  j \in Having(Live)'
<1>t. QueueTypeOK /\ j \in Jobs /\ jobs[j].status \in Live /\ jobs[j] \in Row
  BY RowOfStatus DEF QueueInv, Having
<1>1. ASSUME NEW i \in Jobs, Claim(i, Kinds) PROVE jobs'[j].status \in Live
  BY <1>t, <1>1 DEF Claim, QueueTypeOK, Live, Row
<1>2. ASSUME NEW i \in Jobs, NEW kind \in Kinds, NEW p \in Pictures, NEW key \in IdemKeys \cup {NoKey},
             Create(i, kind, p, key)
      PROVE  jobs'[j].status \in Live
  BY <1>t, <1>2 DEF Create, QueueTypeOK, Live
<1>3. ASSUME NEW l \in held, l.job # j, Complete(l) \/ \E permanent \in BOOLEAN : Fail(l, permanent)
      PROVE  jobs'[j].status \in Live
  BY <1>t, <1>3 DEF Complete, Fail, QueueTypeOK
<1>. QED BY <1>t, <1>1, <1>2, <1>3 DEF Having

LEMMA EnqueuedLives ==
  ASSUME QueueInv, NEW kind \in Kinds, NEW p \in Pictures, NEW key \in IdemKeys \cup {NoKey}, Enqueue(kind, p, key)
  PROVE  \E j \in Having(Live)' : jobs'[j].kind = kind /\ jobs'[j].pic = p
<1>1. PICK j \in Jobs : Create(j, kind, p, key) BY EnqueueCreates
<1>. QED BY <1>1 DEF Create, QueueInv, QueueTypeOK, Having, Live

\* A row that no longer changes hands, with what it waits for.
LEMMA Untouched ==
  ASSUME SyncInv, JobsStay, NEW q \in Pictures, Sound(q), row'[q] = row[q],
         row[q].status = "synced" => file'[q].exif = file[q].exif,
         row[q].status # "extracting" => Carried("edit", q) /\ CallsStay(q),
         row[q].status = "extracting" => Carried("extract", q)
  PROVE  Sound(q)'
<1>1. \A j \in stamps : j \in Having(Live \cup Terminal)
  BY DEF SyncInv, RowsThere, TypeOK, Having, Terminal
<1>2. \A j \in Having(Live) \cup stamps : jobs'[j].kind = jobs[j].kind /\ jobs'[j].pic = jobs[j].pic
  BY <1>1 DEF JobsStay, Having
<1>3. Has(q)' <=> Has(q) BY DEF Has
<1>4. Pending(q)'
  <2>. SUFFICES ASSUME Has(q), row[q].status = "pending" PROVE Pending(q)'
    BY <1>3 DEF Pending
  <2>1. CASE \E j \in Having(Live) \cup stamps : jobs[j].kind = "edit" /\ jobs[j].pic = q
    BY <1>2, <2>1 DEF Carried, Pending, LiveEdits
  <2>2. CASE \E c \in calls : c.op = "resync" /\ c.pic = q /\ c.step = "stamped"
    BY <2>2 DEF CallsStay, Pending
  <2>. QED BY <2>1, <2>2 DEF Sound, Pending, LiveEdits
<1>5. Extracting(q)'
  <2>. SUFFICES ASSUME Has(q), row[q].status = "extracting" PROVE Extracting(q)'
    BY <1>3 DEF Extracting
  <2>1. \E j \in Having(Live) \cup stamps : jobs[j].kind = "extract" /\ jobs[j].pic = q
    BY DEF Sound, Extracting, LiveExtractions
  <2>. QED BY <1>2, <2>1 DEF Carried, Extracting, LiveExtractions
<1>6. Truth(q)'
  <2>. SUFFICES ASSUME Has(q), row[q].status = "synced", row[q].db # file[q].exif PROVE Settling(q)'
    BY <1>3 DEF Truth
  <2>1. CASE \E j \in Having(Live) \cup stamps : jobs[j].kind = "edit" /\ jobs[j].pic = q
    BY <1>2, <2>1 DEF Carried, Settling, LiveEdits
  <2>2. CASE \E c \in calls : c.op = "overwrite" /\ c.pic = q
    BY <2>2 DEF CallsStay, Settling
  <2>. QED BY <2>1, <2>2 DEF Sound, Truth, Settling, LiveEdits
<1>. QED BY <1>4, <1>5, <1>6 DEF Sound

\* A row nothing is owed to.
LEMMA AtRest ==
  ASSUME NEW q \in Pictures, row'[q].status \notin {"pending", "extracting", "synced"}
  PROVE  Sound(q)'
BY DEF Sound, Pending, Extracting, Truth

LEMMA InSync ==
  ASSUME NEW q \in Pictures, row'[q].status = "synced", row'[q].db = file'[q].exif
  PROVE  Sound(q)'
BY DEF Sound, Pending, Extracting, Truth

LEMMA ExtractionDue ==
  ASSUME NEW q \in Pictures, row'[q].status = "extracting", LiveExtractions(q)' # {}
  PROVE  Sound(q)'
BY DEF Sound, Pending, Extracting, Truth

LEMMA EditDue ==
  ASSUME NEW q \in Pictures, row'[q].status = "pending", LiveEdits(q)' # {}
  PROVE  Sound(q)'
BY DEF Sound, Pending, Extracting, Truth

\* No job ends in a step that creates, claims or leaves the jobs alone.
LEMMA NoneEnds ==
  ASSUME QueueInv, UNCHANGED stamps,
         \/ UNCHANGED jobs
         \/ \E i \in Jobs : Claim(i, Kinds)
         \/ \E i \in Jobs, kind \in Kinds, p \in Pictures, key \in IdemKeys \cup {NoKey} : Create(i, kind, p, key),
         NEW q, NEW kind
  PROVE  Carried(kind, q)
BY LiveStay DEF Carried

LEMMA CallsMore == ASSUME calls \subseteq calls', NEW q PROVE CallsStay(q)
BY DEF CallsStay

LEMMA CallsOfOthers ==
  ASSUME NEW c \in calls, calls \ {c} \subseteq calls', NEW q,
         c.pic # q \/ (c.op # "overwrite" /\ c.step # "stamped")
  PROVE  CallsStay(q)
BY DEF CallsStay

\* The steps of uploads, batch edits, the drain and the beginnings of calls.
LEMMA SoundOnPictures ==
  ASSUME SyncInv, JobsStay, NEW q \in Pictures, Sound(q), NEW p \in Pictures,
         \/ Upload(p) \/ DrainCreates(p)
         \/ \E f \in Fields : BeginEdit(p, f) \/ BatchEdit(p, f)
         \/ BeginResync(p) \/ BeginReextract(p) \/ BeginRevert(p) \/ BeginOverwrite(p)
         \/ \E op \in Reextracting : BeginSweep(op, p)
  PROVE  Sound(q)'
<1>q. QueueInv /\ RowTyped /\ file \in [Pictures -> [image : 0 .. MaxWrites, exif : Exif]]
  BY DEF SyncInv, TypeOK, RowTyped
<1>k. "edit" \in Kinds /\ "extract" \in Kinds BY SyncAssumption
<1>1. CASE Upload(p)
  <2>. DEFINE r == [db |-> Uniform(0), fileExif |-> None,
                    status |-> IF p \in Readable THEN "extracting" ELSE "unsupported_mime"]
  <2>1. row' = [row EXCEPT ![p] = r] /\ r.status \in {"extracting", "unsupported_mime"} BY <1>1 DEF Upload
  <2>. HIDE DEF r
  <2>2. Enqueue("extract", p, NoKey) /\ UNCHANGED <<file, stamps, calls>> BY <1>1 DEF Upload
  <2>3. CASE q = p
    <3>1. row'[q] = r BY <1>q, <2>1, <2>3 DEF RowTyped
    <3>2. LiveExtractions(q)' # {} BY <1>q, <1>k, <2>2, <2>3, EnqueuedLives DEF LiveExtractions
    <3>. QED BY <2>1, <3>1, <3>2, ExtractionDue, AtRest
  <2>4. CASE q # p
    <3>1. row'[q] = row[q] BY <1>q, <2>1, <2>4 DEF RowTyped
    <3>. QED BY <1>q, <1>k, <2>2, <3>1, EnqueueCreates, NoneEnds, CallsMore, Untouched
  <2>. QED BY <2>3, <2>4
<1>2. ASSUME NEW f \in Fields, BatchEdit(p, f) PROVE Sound(q)'
  <2>1. UNCHANGED <<jobs, file, stamps, calls>> BY <1>2 DEF BatchEdit, queueVars
  <2>2. CASE q = p
    <3>1. row[q] \in PictureRow BY <1>2, <1>q, <2>2 DEF BatchEdit, Has, RowTyped
    <3>2. row'[q].status \in SuppressesJobs \cup {"pending_job_creation"}
      BY <1>2, <1>q, <2>2, <3>1 DEF BatchEdit, RowTyped, PictureRow
    <3>. QED BY <3>2, AtRest DEF SuppressesJobs
  <2>3. CASE q # p
    <3>1. row'[q] = row[q] BY <1>2, <1>q, <2>3 DEF BatchEdit, RowTyped
    <3>. QED BY <1>q, <2>1, <3>1, NoneEnds, CallsMore, Untouched
  <2>. QED BY <2>2, <2>3
<1>3. CASE DrainCreates(p)
  <2>1. UNCHANGED <<file, stamps, calls>> BY <1>3 DEF DrainCreates
  <2>2. CASE LiveEdits(p) = {}
    <3>1. Enqueue("edit", p, NoKey) /\ SetStatus(p, "pending") BY <1>3, <2>2 DEF DrainCreates
    <3>2. Has(p) BY <1>3 DEF DrainCreates, SyncInv, RowsThere
    <3>3. row'[p].status = "pending" /\ \A r \in Pictures \ {p} : row'[r] = row[r]
      BY <1>q, <3>1, <3>2, SetStatusRow DEF SyncStatuses
    <3>4. CASE q = p
      <4>1. LiveEdits(q)' # {} BY <1>q, <1>k, <3>1, <3>4, EnqueuedLives DEF LiveEdits
      <4>. QED BY <3>3, <3>4, <4>1, EditDue
    <3>5. CASE q # p
      BY <1>q, <1>k, <2>1, <3>1, <3>3, <3>5, EnqueueCreates, NoneEnds, CallsMore, Untouched
    <3>. QED BY <3>4, <3>5
  <2>3. CASE LiveEdits(p) # {}
    <3>1. UNCHANGED <<jobs, row>> BY <1>3, <2>3 DEF DrainCreates, queueVars
    <3>. QED BY <1>q, <2>1, <3>1, NoneEnds, CallsMore, Untouched
  <2>. QED BY <2>2, <2>3
<1>4. CASE \/ \E f \in Fields : BeginEdit(p, f)
           \/ BeginResync(p) \/ BeginReextract(p) \/ BeginRevert(p)
           \/ \E op \in Reextracting : BeginSweep(op, p)
  <2>1. UNCHANGED <<jobs, row, file, stamps>> /\ calls \subseteq calls'
    BY <1>4 DEF BeginEdit, BeginResync, BeginReextract, BeginRevert, BeginSweep, Begin, queueVars
  <2>. QED BY <1>q, <2>1, NoneEnds, CallsMore, Untouched
<1>5. CASE BeginOverwrite(p)
  <2>1. UNCHANGED <<jobs, row, stamps>> /\ calls \subseteq calls'
    BY <1>5 DEF BeginOverwrite, Begin, queueVars
  <2>2. CASE q # p
    <3>1. file'[q] = file[q] BY <1>5, <1>q, <2>2 DEF BeginOverwrite
    <3>. QED BY <1>q, <2>1, <3>1, NoneEnds, CallsMore, Untouched
  <2>3. CASE q = p /\ row[q].status # "synced"
    BY <1>q, <2>1, <2>3, NoneEnds, CallsMore, Untouched
  <2>4. CASE q = p /\ row[q].status = "synced"
    <3>. DEFINE c == Call("overwrite", p, "read", writes + 1, OtherField)
    <3>1. c \in calls' /\ c.op = "overwrite" /\ c.pic = q BY <1>5, <2>4 DEF BeginOverwrite, Begin, Call
    <3>. HIDE DEF c
    <3>. QED BY <2>1, <2>4, <3>1 DEF Sound, Pending, Extracting, Truth, Settling
  <2>. QED BY <2>2, <2>3, <2>4
<1>. QED BY <1>1, <1>2, <1>3, <1>4, <1>5

\* The steps of calls under way.
LEMMA SoundOnCalls ==
  ASSUME SyncInv, JobsStay, NEW q \in Pictures, q \notin stale', Sound(q), NEW c \in calls, CallStep(c)
  PROVE  Sound(q)'
<1>q. QueueInv /\ RowTyped BY DEF SyncInv, TypeOK, RowTyped
<1>k. "edit" \in Kinds /\ "extract" \in Kinds BY SyncAssumption
<1>c. c \in CallRecord /\ c.pic \in Pictures /\ Has(c.pic) /\ row[c.pic] \in PictureRow /\ c.seen \in PictureRow
  BY CallOf DEF CallRecord, SyncInv, TypeOK, Has
<1>f. UNCHANGED <<file, stamps>>
  BY DEF CallStep, CommitEdit, CheckInFlight, StampResync, EndResync, CommitReextract, CommitRevert,
         EnqueueExtraction, StampExtracting
<1>s. ASSUME NEW status \in {"pending", "extracting"}, SetStatus(c.pic, status)
      PROVE  row'[c.pic].status = status /\ \A r \in Pictures \ {c.pic} : row'[r] = row[r]
  BY <1>q, <1>c, <1>s, SetStatusRow DEF SyncStatuses
<1>e. ASSUME EnsureEditJob(c.pic)
      PROVE  /\ LiveEdits(c.pic)' # {}
             /\ \A kind, p : Carried(kind, p)
  <2>1. CASE LiveEdits(c.pic) = {}
    <3>1. Enqueue("edit", c.pic, NoKey) BY <1>e, <2>1 DEF EnsureEditJob
    <3>2. LiveEdits(c.pic)' # {} BY <1>c, <1>q, <1>k, <3>1, EnqueuedLives DEF LiveEdits
    <3>. QED BY <1>c, <1>f, <1>q, <1>k, <3>1, <3>2, EnqueueCreates, NoneEnds
  <2>2. CASE LiveEdits(c.pic) # {}
    <3>1. UNCHANGED jobs BY <1>e, <2>2 DEF EnsureEditJob, queueVars
    <3>2. LiveEdits(c.pic)' # {} BY <2>2, <3>1 DEF LiveEdits, Having
    <3>. QED BY <1>q, <1>f, <3>1, <3>2, NoneEnds
  <2>. QED BY <2>1, <2>2
<1>1. CASE CommitEdit(c)
  <2>. DEFINE supported == c.pic \in Writable /\ c.seen.status \notin SuppressesJobs
              status == CASE supported -> "pending"
                          [] c.seen.status = "unsupported_file" -> "unsupported_file"
                          [] OTHER -> "unsupported_mime"
  <2>1. /\ row' = [row EXCEPT ![c.pic].db = [c.seen.db EXCEPT ![c.field] = c.n], ![c.pic].status = status]
        /\ IF supported THEN EnsureEditJob(c.pic) ELSE UNCHANGED queueVars
        /\ calls' = calls \ {c}
    BY <1>1 DEF CommitEdit
  <2>2. supported \/ status \in SuppressesJobs BY DEF SuppressesJobs
  <2>3. supported => status = "pending" BY DEF SuppressesJobs
  <2>. HIDE DEF status
  <2>4. \A kind, p : Carried(kind, p)
    <3>1. CASE UNCHANGED queueVars BY <3>1, <1>q, <1>f, NoneEnds DEF queueVars
    <3>. QED BY <1>e, <2>1, <3>1
  <2>5. CASE q = c.pic
    <3>1. row'[q].status = status BY <1>q, <1>c, <2>1, <2>5 DEF RowTyped, PictureRow
    <3>2. CASE supported
      <4>1. LiveEdits(c.pic)' # {} BY <1>e, <2>1, <3>2
      <4>. QED BY <2>3, <2>5, <3>1, <3>2, <4>1, EditDue
    <3>3. CASE ~supported BY <2>2, <3>1, <3>3, AtRest DEF SuppressesJobs
    <3>. QED BY <3>2, <3>3
  <2>6. CASE q # c.pic
    <3>1. row'[q] = row[q] BY <1>q, <2>1, <2>6 DEF RowTyped
    <3>2. CallsStay(q) BY <2>1, <2>6, CallsOfOthers
    <3>. QED BY <1>f, <2>4, <3>1, <3>2, Untouched
  <2>. QED BY <2>5, <2>6
<1>2. CASE CheckInFlight(c)
  <2>1. /\ UNCHANGED <<jobs, row>> /\ c.op # "overwrite" /\ c.step # "stamped"
        /\ calls \ {c} \subseteq calls'
    BY <1>2 DEF CheckInFlight, queueVars
  <2>2. CallsStay(q) BY <2>1, CallsOfOthers
  <2>. QED BY <1>q, <1>f, <2>1, <2>2, NoneEnds, Untouched
<1>3. CASE StampResync(c)
  <2>1. /\ UNCHANGED jobs /\ SetStatus(c.pic, "pending") /\ c.op = "resync"
        /\ calls' = (calls \ {c}) \cup {[c EXCEPT !.step = "stamped"]}
    BY <1>3 DEF StampResync, queueVars
  <2>2. row'[c.pic].status = "pending" /\ \A r \in Pictures \ {c.pic} : row'[r] = row[r] BY <1>s, <2>1
  <2>3. CASE q = c.pic
    <3>. DEFINE d == [c EXCEPT !.step = "stamped"]
    <3>1. d.op = "resync" /\ d.pic = q /\ d.step = "stamped" /\ d \in calls'
      BY <1>c, <2>1, <2>3 DEF CallRecord
    <3>. QED BY <2>2, <2>3, <3>1 DEF Sound, Pending, Extracting, Truth
  <2>4. CASE q # c.pic
    <3>2. CallsStay(q) BY <2>1, <2>4, CallsOfOthers
    <3>. QED BY <1>q, <1>f, <2>1, <2>2, <2>4, <3>2, NoneEnds, Untouched
  <2>. QED BY <2>3, <2>4
<1>4. CASE EndResync(c)
  <2>1. UNCHANGED row /\ EnsureEditJob(c.pic) /\ c.op = "resync" /\ calls' = calls \ {c}
    BY <1>4 DEF EndResync
  <2>2. LiveEdits(c.pic)' # {} /\ \A kind, p : Carried(kind, p) BY <1>e, <2>1
  <2>3. CASE q # c.pic
    <3>2. CallsStay(q) BY <2>1, <2>3, CallsOfOthers
    <3>. QED BY <1>f, <2>1, <2>2, <3>2, Untouched
  <2>4. CASE q = c.pic /\ row[q].status = "pending" BY <2>1, <2>2, <2>4, EditDue
  <2>5. CASE q = c.pic /\ row[q].status = "extracting" BY <1>f, <2>1, <2>2, <2>5, Untouched
  <2>6. CASE q = c.pic /\ row[q].status \notin {"pending", "extracting"}
    <3>1. Truth(q)' BY <2>2, <2>6 DEF Truth, Settling
    <3>. QED BY <2>1, <2>6, <3>1 DEF Sound, Pending, Extracting
  <2>. QED BY <2>3, <2>4, <2>5, <2>6
<1>5. CASE CommitReextract(c)
  <2>1. /\ SetStatus(c.pic, "extracting") /\ Enqueue("extract", c.pic, NoKey) /\ calls' = calls \ {c}
    BY <1>5 DEF CommitReextract
  <2>2. row'[c.pic].status = "extracting" /\ \A r \in Pictures \ {c.pic} : row'[r] = row[r] BY <1>s, <2>1
  <2>3. CASE q = c.pic
    <3>1. LiveExtractions(c.pic)' # {} BY <1>q, <1>k, <1>c, <2>1, EnqueuedLives DEF LiveExtractions
    <3>. QED BY <2>2, <2>3, <3>1, ExtractionDue
  <2>4. CASE q # c.pic
    <3>2. CallsStay(q) BY <2>1, <2>4, CallsOfOthers
    <3>. QED BY <1>q, <1>k, <1>c, <1>f, <2>1, <2>2, <2>4, <3>2, EnqueueCreates, NoneEnds, Untouched
  <2>. QED BY <2>3, <2>4
<1>6. CASE CommitRevert(c)
  <2>1. /\ row' = [row EXCEPT ![c.pic].db = c.seen.fileExif, ![c.pic].status = "synced"]
        /\ Acts(c.pic, c.seen.fileExif # file[c.pic].exif) /\ calls' = calls \ {c} /\ UNCHANGED jobs
    BY <1>6 DEF CommitRevert, queueVars
  <2>2. CASE q = c.pic
    <3>1. c.seen.fileExif = file[c.pic].exif BY <2>1, <2>2 DEF Acts
    <3>2. row'[q].status = "synced" /\ row'[q].db = c.seen.fileExif
      BY <1>q, <1>c, <2>1, <2>2 DEF RowTyped, PictureRow
    <3>. QED BY <1>f, <2>2, <3>1, <3>2, InSync
  <2>3. CASE q # c.pic
    <3>1. row'[q] = row[q] BY <1>q, <2>1, <2>3 DEF RowTyped
    <3>2. CallsStay(q) BY <2>1, <2>3, CallsOfOthers
    <3>. QED BY <1>q, <1>f, <2>1, <3>1, <3>2, NoneEnds, Untouched
  <2>. QED BY <2>2, <2>3
<1>7. CASE EnqueueExtraction(c)
  <2>. DEFINE key == IF c.op = "overwrite" THEN c.n ELSE NoKey
  <2>1. /\ UNCHANGED row /\ c.step = "read" /\ Enqueue("extract", c.pic, key)
        /\ calls' = (calls \ {c}) \cup {[c EXCEPT !.step = "enqueued"]}
    BY <1>7 DEF EnqueueExtraction
  <2>2. c.op = "overwrite" => c.n # 0 BY DEF SyncInv, CallsTyped
  <2>3. key \in IdemKeys \cup {NoKey} BY <1>c, <2>2, SyncAssumption DEF CallRecord
  <2>. HIDE DEF key
  <2>4. \A kind, p : Carried(kind, p) BY <1>q, <1>k, <1>c, <1>f, <2>1, <2>3, EnqueueCreates, NoneEnds
  <2>5. CallsStay(q)
    <3>. DEFINE d == [c EXCEPT !.step = "enqueued"]
    <3>1. d.op = c.op /\ d.pic = c.pic /\ d \in calls' /\ calls \ {c} \subseteq calls' BY <1>c, <2>1 DEF CallRecord
    <3>. HIDE DEF d
    <3>. QED BY <2>1, <3>1 DEF CallsStay
  <2>. QED BY <1>f, <2>1, <2>4, <2>5, Untouched
<1>8. CASE StampExtracting(c)
  <2>1. /\ SetStatus(c.pic, "extracting") /\ Acts(c.pic, LiveExtractions(c.pic) = {}) /\ calls' = calls \ {c}
        /\ UNCHANGED jobs
    BY <1>8 DEF StampExtracting, queueVars
  <2>2. row'[c.pic].status = "extracting" /\ \A r \in Pictures \ {c.pic} : row'[r] = row[r] BY <1>s, <2>1
  <2>3. CASE q = c.pic
    <3>1. LiveExtractions(c.pic) # {} BY <2>1, <2>3 DEF Acts
    <3>2. LiveExtractions(c.pic)' # {} BY <2>1, <3>1 DEF LiveExtractions, Having
    <3>. QED BY <2>2, <2>3, <3>2, ExtractionDue
  <2>4. CASE q # c.pic
    <3>2. CallsStay(q) BY <2>1, <2>4, CallsOfOthers
    <3>. QED BY <1>q, <1>f, <2>1, <2>2, <2>4, <3>2, NoneEnds, Untouched
  <2>. QED BY <2>3, <2>4
<1>. QED BY <1>1, <1>2, <1>3, <1>4, <1>5, <1>6, <1>7, <1>8 DEF CallStep

\* A read that lands, on the object it read.
LEMMA ReadLands ==
  ASSUME SyncInv, NEW l \in held, work[l.token].stage = "fetched", RecordRead(l), UNCHANGED file,
         Pic(l) \notin stale'
  PROVE  \A q \in Pictures : q = Pic(l) => Sound(q)'
<1>. SUFFICES ASSUME NEW q \in Pictures, q = Pic(l) PROVE Sound(q)'
  OBVIOUS
<1>1. /\ row'[q].status \notin {"extracting", "pending"}
      /\ row'[q].status = "synced" => row'[q].db = work[l.token].exif
  BY ReadLeavesRow
<1>2. file[q].exif = work[l.token].exif BY DEF RecordRead, Acts, Replaced
<1>. QED BY <1>1, <1>2, AtRest, InSync

\* The answer to a job ends that job only.
LEMMA OthersCarried ==
  ASSUME SyncInv, NEW l \in held, Complete(l) \/ \E permanent \in BOOLEAN : Fail(l, permanent),
         UNCHANGED stamps, NEW kind, NEW q, kind # Kind(l) \/ q # Pic(l)
  PROVE  Carried(kind, q)
<1>1. \A j \in Having(Live) : j # l.job => j \in Having(Live)' BY LiveStay DEF SyncInv
<1>. QED BY <1>1 DEF Carried, Kind, Pic

\* The steps of workers that answer nothing.
LEMMA SoundOnWork ==
  ASSUME SyncInv, JobsStay, NEW q \in Pictures, q \notin stale', Sound(q),
         \/ WorkerClaims
         \/ \E l \in held : Bind(l) \/ Fetch(l) \/ Put(l) \/ WorkerVanishes(l) \/ AnswerRefused(l)
  PROVE  Sound(q)'
<1>q. QueueInv /\ file \in [Pictures -> [image : 0 .. MaxWrites, exif : Exif]] BY DEF SyncInv, TypeOK
<1>1. CASE WorkerClaims
  <2>1. UNCHANGED <<row, file, stamps, calls>> /\ \E j \in Jobs : Claim(j, Kinds) BY <1>1 DEF WorkerClaims
  <2>. QED BY <1>q, <2>1, NoneEnds, CallsMore, Untouched
<1>2. ASSUME NEW l \in held, Bind(l) \/ Fetch(l) \/ WorkerVanishes(l) \/ AnswerRefused(l) PROVE Sound(q)'
  <2>1. UNCHANGED <<jobs, row, file, stamps, calls>>
    BY <1>2 DEF Bind, Fetch, WorkerVanishes, AnswerRefused, Vanish, Refuse, queueVars
  <2>. QED BY <1>q, <2>1, NoneEnds, CallsMore, Untouched
<1>3. ASSUME NEW l \in held, Put(l) PROVE Sound(q)'
  <2>1. UNCHANGED <<jobs, row, stamps, calls>> BY <1>3 DEF Put, queueVars
  <2>2. CASE q # Pic(l)
    <3>1. file'[q] = file[q] BY <1>3, <1>q, <2>2 DEF Put
    <3>. QED BY <1>q, <2>1, <3>1, NoneEnds, CallsMore, Untouched
  <2>3. CASE q = Pic(l)
    <3>1. Answerable(l) /\ Kind(l) = "edit" BY <1>3, <2>3 DEF Put, Acts
    <3>2. l.job \in LiveEdits(q) BY <2>3, <3>1, LeaseOf DEF LiveEdits, Having, Answerable, Live, Kind, Pic
    <3>3. l.job \in LiveEdits(q)' BY <2>1, <3>2 DEF LiveEdits, Having
    <3>4. CASE row[q].status # "synced" BY <1>q, <2>1, <3>4, NoneEnds, CallsMore, Untouched
    <3>5. CASE row[q].status = "synced"
      BY <2>1, <3>3, <3>5 DEF Sound, Pending, Extracting, Truth, Settling
    <3>. QED BY <3>4, <3>5
  <2>. QED BY <2>2, <2>3
<1>. QED BY <1>1, <1>2, <1>3

\* respond_job.
LEMMA SoundOnAnswers ==
  ASSUME SyncInv, JobsStay, NEW q \in Pictures, q \notin stale', Sound(q), NEW l \in held,
         AnswerEdit(l) \/ AnswerExtraction(l) \/ \E permanent \in BOOLEAN : AnswerFailure(l, permanent)
  PROVE  Sound(q)'
<1>q. QueueInv /\ RowTyped BY DEF SyncInv, TypeOK, RowTyped
<1>l. /\ Pic(l) \in Pictures /\ Has(Pic(l)) /\ Kind(l) \in {"edit", "extract"} /\ InHand(l)
      /\ row[Pic(l)] \in PictureRow
  BY LeaseOf DEF SyncInv, TypeOK, Has
<1>f. UNCHANGED <<file, stamps, calls>> BY DEF AnswerEdit, AnswerExtraction, AnswerFailure
<1>a. Complete(l) \/ \E permanent \in BOOLEAN : Fail(l, permanent)
  BY DEF AnswerEdit, AnswerExtraction, AnswerFailure
<1>b. CallsStay(q) BY <1>f, CallsMore
\* The rows of other pictures, and this one's as far as the other kind of job goes.
<1>o. ASSUME q # Pic(l), row'[q] = row[q] PROVE Sound(q)'
  BY <1>o, <1>a, <1>b, <1>f, OthersCarried, Untouched
<1>u. ASSUME row'[q] = row[q],
             (Kind(l) = "edit" /\ row[q].status = "extracting") \/ (Kind(l) = "extract" /\ row[q].status # "extracting")
      PROVE  Sound(q)'
  BY <1>u, <1>a, <1>b, <1>f, OthersCarried, Untouched
<1>r. ASSUME work[l.token].stage = "fetched", RecordRead(l) PROVE Sound(q)'
  <2>1. CASE q = Pic(l) BY <1>f, <1>r, <2>1, ReadLands
  <2>2. CASE q # Pic(l)
    <3>1. row'[q] = row[q] BY <1>r, <2>2, ReadLeavesRow
    <3>. QED BY <1>o, <2>2, <3>1
  <2>. QED BY <2>1, <2>2
<1>s. ASSUME NEW status \in SyncStatuses, status \notin {"pending", "extracting", "synced"}, SetStatus(Pic(l), status)
      PROVE  Sound(q)'
  <2>1. row'[Pic(l)].status = status /\ \A r \in Pictures \ {Pic(l)} : row'[r] = row[r]
    BY <1>q, <1>l, <1>s, SetStatusRow
  <2>. QED BY <1>o, <1>s, <2>1, AtRest
<1>1. CASE AnswerEdit(l)
  <2>1. /\ Answerable(l) /\ Kind(l) = "edit" /\ work[l.token].stage = "put" /\ RecordEdit(l)
    BY <1>1 DEF AnswerEdit, Complete
  <2>2. CASE row[Pic(l)].status = "extracting"
    <3>1. row' = row BY <2>1, <2>2 DEF RecordEdit
    <3>2. CASE q = Pic(l)
      <4>1. row'[q] = row[q] /\ row[q].status = "extracting" BY <2>2, <3>1, <3>2
      <4>2. Carried("extract", q) BY <1>a, <1>f, <2>1, OthersCarried
      <4>. QED BY <1>f, <4>1, <4>2, Untouched
    <3>3. CASE q # Pic(l) BY <1>o, <3>1, <3>3
    <3>. QED BY <3>2, <3>3
  <2>3. CASE row[Pic(l)].status # "extracting"
    <3>. DEFINE status == IF Converged(Pic(l), l.job) THEN "synced" ELSE "pending_job_creation"
    <3>1. row' = [row EXCEPT ![Pic(l)].fileExif = work[l.token].exif, ![Pic(l)].status = status]
      BY <2>1, <2>3 DEF RecordEdit
    <3>2. status = "synced" => Converged(Pic(l), l.job) OBVIOUS
    <3>3. status \in {"synced", "pending_job_creation"} OBVIOUS
    <3>. HIDE DEF status
    <3>4. row'[Pic(l)].status = status /\ row'[Pic(l)].db = row[Pic(l)].db
      BY <1>q, <1>l, <3>1 DEF RowTyped, PictureRow
    <3>5. \A r \in Pictures \ {Pic(l)} : row'[r] = row[r] BY <1>q, <3>1 DEF RowTyped
    <3>6. CASE q = Pic(l) /\ status = "synced"
      <4>1. row[q].db = config[l.job] BY <3>2, <3>6 DEF Converged
      <4>2. work[l.token].exif = config[l.job] BY <1>l, <2>1 DEF InHand
      <4>3. file[q].exif = work[l.token].exif BY <2>1, <3>6 DEF RecordEdit, Acts, Replaced
      <4>. QED BY <1>f, <3>4, <3>6, <4>1, <4>2, <4>3, InSync
    <3>7. CASE q = Pic(l) /\ status # "synced" BY <3>3, <3>4, <3>7, AtRest
    <3>8. CASE q # Pic(l) BY <1>o, <3>5, <3>8
    <3>. QED BY <3>6, <3>7, <3>8
  <2>. QED BY <2>2, <2>3
<1>2. CASE AnswerExtraction(l) BY <1>2, <1>r DEF AnswerExtraction
<1>3. ASSUME NEW permanent \in BOOLEAN, AnswerFailure(l, permanent) PROVE Sound(q)'
  <2>1. CASE TakenBack(l.job, permanent).status # "failed"
    <3>1. UNCHANGED row /\ Fail(l, permanent) BY <1>3, <2>1 DEF AnswerFailure
    <3>2. jobs'[l.job].status \in Live
      <4>1. l.job \in Jobs /\ jobs[l.job].status = "processing" BY <3>1, LeaseOf DEF Fail, Answerable
      <4>2. TakenBack(l.job, permanent).status = "pending"
        BY <1>q, <2>1, <4>1, AttemptFailed DEF QueueInv
      <4>. QED BY <1>q, <3>1, <4>1, <4>2 DEF Fail, Live, QueueInv, QueueTypeOK
    <3>3. \A j \in Having(Live) : j \in Having(Live)'
      BY <1>q, <1>a, <3>2, LiveStay DEF Having
    <3>4. \A kind : Carried(kind, q) BY <1>f, <3>3 DEF Carried
    <3>. QED BY <1>b, <1>f, <3>1, <3>4, Untouched
  <2>2. CASE TakenBack(l.job, permanent).status = "failed"
    <3>1. RecordDeath(l, permanent) BY <1>3, <2>2 DEF AnswerFailure
    <3>2. CASE Kind(l) = "edit"
      <4>1. \E status \in {"unsupported_mime", "unsupported_file", "write_failed"} : SetStatus(Pic(l), status)
        BY <3>1, <3>2 DEF RecordDeath
      <4>. QED BY <1>s, <4>1 DEF SyncStatuses
    <3>3. CASE Kind(l) = "extract"
      <4>1. \/ row[Pic(l)].status # "extracting" /\ UNCHANGED row
            \/ HasRead(work[l.token]) /\ RecordRead(l)
            \/ SetStatus(Pic(l), "extract_failed")
        BY <3>1, <3>3 DEF RecordDeath
      <4>2. CASE row[Pic(l)].status # "extracting" /\ UNCHANGED row BY <1>o, <1>u, <3>3, <4>2
      <4>3. CASE HasRead(work[l.token]) /\ RecordRead(l) BY <1>r, <4>3 DEF HasRead
      <4>4. CASE SetStatus(Pic(l), "extract_failed") BY <1>s, <4>4 DEF SyncStatuses
      <4>. QED BY <4>1, <4>2, <4>3, <4>4
    <3>. QED BY <1>l, <3>2, <3>3
  <2>. QED BY <2>1, <2>2
<1>. QED BY <1>1, <1>2, <1>3

\* The watchdog's statements, the drain's listing, a restart.
LEMMA SoundOnRoutines ==
  ASSUME SyncInv, JobsStay, NEW q \in Pictures, q \notin stale', Sound(q),
         \/ \E S \in SUBSET Jobs : WatchdogReset(S)
         \/ \E j \in Jobs : WatchdogStamp(j)
         \/ DrainLists \/ Restart \/ UNCHANGED vars
  PROVE  Sound(q)'
<1>q. QueueInv /\ RowTyped BY DEF SyncInv, TypeOK, RowTyped
<1>1. ASSUME NEW S \in SUBSET Jobs, WatchdogReset(S) PROVE Sound(q)'
  <2>1. /\ UNCHANGED <<row, file, calls>> /\ stamps = {} /\ ResetStale(S) /\ stamps' = GivenUp(S)
    BY <1>1 DEF WatchdogReset
  <2>2. ASSUME NEW j \in Having(Live) PROVE j \in Having(Live)' \cup stamps'
    <3>1. j \in Jobs /\ jobs[j].status \in Live BY DEF Having
    <3>2. jobs'[j] = IF j \in S THEN TakenBack(j, FALSE) ELSE jobs[j] BY <2>1, <3>1 DEF ResetStale
    <3>3. CASE j \in S
      <4>1. jobs[j].status = "processing" BY <2>1, <3>3 DEF ResetStale, Overdue, Having
      <4>2. TakenBack(j, FALSE).status \in {"pending", "failed"} BY <1>q, <3>1, <4>1, AttemptFailed DEF QueueInv
      <4>. QED BY <2>1, <3>1, <3>2, <3>3, <4>2 DEF GivenUp, Having, Live
    <3>4. CASE j \notin S BY <3>1, <3>2, <3>4 DEF Having
    <3>. QED BY <3>3, <3>4
  <2>3. \A kind : Carried(kind, q) BY <2>1, <2>2 DEF Carried
  <2>. QED BY <2>1, <2>3, CallsMore, Untouched
<1>2. ASSUME NEW j \in Jobs, WatchdogStamp(j) PROVE Sound(q)'
  <2>1. /\ UNCHANGED <<jobs, file, calls>> /\ j \in stamps /\ stamps' = stamps \ {j}
    BY <1>2 DEF WatchdogStamp, queueVars
  <2>2. jobs[j].status = "failed" BY <2>1 DEF SyncInv, RowsThere
  <2>3. jobs[j] \in Row /\ j \in Having(Live \cup Terminal)
    BY <1>q, <2>2, RowOfStatus DEF QueueInv, Terminal, Having
  <2>4. jobs[j].pic \in Pictures /\ Has(jobs[j].pic) /\ jobs[j].kind \in {"edit", "extract"}
    BY <2>3, SyncAssumption DEF Row, SyncInv, RowsThere
  <2>5. \A kind : kind # jobs[j].kind \/ q # jobs[j].pic => Carried(kind, q)
    BY <2>1 DEF Carried, Having
  <2>6. CallsStay(q) BY <2>1, CallsMore
  <2>7. ASSUME NEW status \in {"write_failed", "extract_failed"}, SetStatus(jobs[j].pic, status) PROVE Sound(q)'
    <3>1. row'[jobs[j].pic].status = status /\ \A r \in Pictures \ {jobs[j].pic} : row'[r] = row[r]
      BY <1>q, <2>4, <2>7, SetStatusRow DEF SyncStatuses
    <3>2. CASE q = jobs[j].pic BY <3>1, <3>2, AtRest
    <3>3. CASE q # jobs[j].pic BY <2>1, <2>5, <2>6, <3>1, <3>3, Untouched
    <3>. QED BY <3>2, <3>3
  <2>8. ASSUME jobs[j].kind = "extract", row[jobs[j].pic].status # "extracting", UNCHANGED row PROVE Sound(q)'
    <3>1. q = jobs[j].pic => row[q].status # "extracting" BY <2>8
    <3>. QED BY <2>1, <2>5, <2>6, <2>8, <3>1, Untouched
  <2>. QED BY <1>2, <2>4, <2>7, <2>8 DEF WatchdogStamp, SetStatus
<1>3. CASE DrainLists \/ UNCHANGED vars
  <2>1. UNCHANGED <<jobs, row, file, stamps, calls>> BY <1>3 DEF DrainLists, vars, queueVars
  <2>. QED BY <1>q, <2>1, NoneEnds, CallsMore, Untouched
<1>4. CASE Restart
  <2>1. /\ UNCHANGED <<jobs, row, file>>
        /\ \A c \in calls : c.pic # q
        /\ \A j \in stamps : jobs[j].pic # q
    BY <1>4 DEF Restart, queueVars
  <2>2. \A kind : Carried(kind, q) BY <2>1 DEF Carried, Having
  <2>3. CallsStay(q) BY <2>1 DEF CallsStay
  <2>. QED BY <2>1, <2>2, <2>3, Untouched
<1>. QED BY <1>1, <1>2, <1>3, <1>4

\* Once acted on outdated grounds, a picture stays set aside.
LEMMA StaleStays == ASSUME [Next]_vars PROVE stale \subseteq stale'
<1>1. ASSUME NEW p, NEW outdated, Acts(p, outdated) PROVE stale \subseteq stale'
  BY <1>1 DEF Acts
<1>2. ASSUME NEW p \in Pictures,
             \/ Upload(p) \/ DrainCreates(p)
             \/ \E f \in Fields : BeginEdit(p, f) \/ BatchEdit(p, f)
             \/ BeginResync(p) \/ BeginReextract(p) \/ BeginRevert(p) \/ BeginOverwrite(p)
             \/ \E op \in Reextracting : BeginSweep(op, p)
      PROVE  UNCHANGED stale
  BY <1>2 DEF Upload, DrainCreates, BeginEdit, BatchEdit, BeginResync, BeginReextract, BeginRevert,
              BeginOverwrite, BeginSweep
<1>3. ASSUME NEW c \in calls, CallStep(c) PROVE stale \subseteq stale'
  BY <1>1, <1>3 DEF CallStep, CommitEdit, CheckInFlight, StampResync, EndResync, CommitReextract, CommitRevert,
                    EnqueueExtraction, StampExtracting
<1>4. ASSUME NEW l \in held,
             \/ Bind(l) \/ Fetch(l) \/ Put(l) \/ WorkerVanishes(l) \/ AnswerRefused(l)
             \/ AnswerEdit(l) \/ AnswerExtraction(l)
      PROVE  stale \subseteq stale'
  BY <1>1, <1>4 DEF Bind, Fetch, Put, WorkerVanishes, AnswerRefused, AnswerEdit, AnswerExtraction, RecordEdit, RecordRead
<1>5. ASSUME NEW l \in held, NEW permanent \in BOOLEAN, AnswerFailure(l, permanent) PROVE stale \subseteq stale'
  <2>1. (\E b : Acts(Pic(l), b)) \/ UNCHANGED stale BY <1>5 DEF AnswerFailure, RecordRead, RecordDeath
  <2>. QED BY <1>1, <2>1
<1>6. ASSUME WorkerClaims \/ (\E S \in SUBSET Jobs : WatchdogReset(S)) \/ (\E j \in Jobs : WatchdogStamp(j))
               \/ DrainLists \/ Restart \/ UNCHANGED vars
      PROVE  stale \subseteq stale'
  BY <1>6 DEF WorkerClaims, WatchdogReset, WatchdogStamp, DrainLists, Restart, vars
<1>. QED BY <1>2, <1>3, <1>4, <1>5, <1>6 DEF Next

LEMMA SoundRowsStep == SyncInv /\ SoundRows /\ [Next]_vars => SoundRows'
<1>. SUFFICES ASSUME SyncInv, SoundRows, [Next]_vars, NEW q \in Pictures, q \notin stale'
              PROVE  Sound(q)'
  BY DEF SoundRows
<1>1. JobsStay BY StepOfQueue, JobsStayed DEF SyncInv
<1>2. Sound(q) BY StaleStays DEF SoundRows
<1>. QED
  BY <1>1, <1>2, SoundOnPictures, SoundOnCalls, SoundOnWork, SoundOnAnswers, SoundOnRoutines DEF Next

LEMMA SoundRowsInit == Init => SoundRows
BY DEF Init, SoundRows, Sound, Pending, Extracting, Truth, Has

\* A pending row has an edit job in flight, a resync about to create one, or the
\* watchdog about to give it up; an extracting row, which refuses every edit, has
\* an extraction coming or the watchdog about to give up; whatever handlers,
\* workers, drain, watchdog and restarts do, a late stamp aside.
THEOREM TransientRowsMove == Spec => []TransientHasJob
<1>1. SoundRows => TransientHasJob BY DEF SoundRows, Sound, TransientHasJob
<1>. QED BY SyncInvInit, SyncInvStep, SoundRowsInit, SoundRowsStep, <1>1, PTL DEF Spec

\* Once nothing is under way for a picture, its synced row says what its file
\* says, unless someone acted on what no longer held.
THEOREM SyncedRowsTrue == Spec => []SyncedTruth
<1>1. SyncInv /\ SoundRows => SyncedTruth
  <2>. SUFFICES ASSUME SoundRows, NEW p \in Pictures \ stale, Has(p), row[p].status = "synced", Quiet(p)
                PROVE  row[p].db = file[p].exif
    BY DEF SyncedTruth
  <2>1. ~Settling(p) BY DEF Quiet, Settling, LiveEdits
  <2>. QED BY <2>1 DEF SoundRows, Sound, Truth
<1>. QED BY SyncInvInit, SyncInvStep, SoundRowsInit, SoundRowsStep, <1>1, PTL DEF Spec
=============================================================================
