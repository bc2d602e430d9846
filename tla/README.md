# Archypix in TLA+

Archypix is a federated photo library: a Rust backend (`back/src`) over
PostgreSQL and an object store, background *routines* inside the backend
(`common/src/routine.rs`, `back/src/routines`), external *workers* that process
images (`worker/src`), a *resolver* that maps users to instances
(`resolver/src`), and a web frontend. Backends of different instances share
pictures with each other over HTTP.

This directory holds TLA+ models of the parts in which several actors move the
same state, the TLC runs that check them on small instances, and TLAPS proofs
for every size of the parameters. Every definition is written from the source;
`PROJECT.json` maps each to the lines it stands for.

Run a model with `tlc -config <Run>.cfg <Module>MC.tla`, a proof with
`tlapm <Module>Proofs.tla`.

## 1. The system

| Component | State it keeps | Operations | Hard about it |
|---|---|---|---|
| **Routine runtime** `common/src/routine.rs`, `back/src/main.rs` | per-key scheduler entries, debounce timers, run tasks, a FIFO semaphore, the trigger channel, shutdown flags | `trigger`, `trigger_debounced`, `schedule`, timers, `spawn_run`, sweep ticks, shutdown and drain | interleaving of channel, timers and tasks between awaits; panics; reruns racing new triggers; shutdown |
| **Job queue** `back/src/repository/job.rs`, `api/worker/handlers.rs`, `routines/job_watchdog.rs` | the `jobs` table: status, retries, claim token, idempotency key | create (idempotent or not), claim, complete, fail, reset stale, prune | late answers of workers given up on, retry budget, two partial unique indexes |
| **EXIF write-through** `services/jobs.rs`, `repository/picture/exif.rs`, `routines/exif_drain.rs`, `routines/exif_recheck.rs`, `worker/src/jobs` | the EXIF columns and `exif_sync_status` of a picture, the stored object, the EXIF target bound to a job | edit, batch edit, resync, re-extract, revert, overwrite, recheck, regenerate, drain, watchdog, worker reconcile and extraction | reads before a transaction used in it; object store not transactional; jobs that answer late; a stale stamp strands a row |
| **Tagging pipeline** `routines/pipeline`, `repository/pipeline.rs`, `domain/pipeline`, `domain/predicate.rs`, `domain/segmentation.rs`, `domain/tagging.rs` | `last_pipeline_run_at`, the services and their invalidation stamps, tag rows by source | invalidate, evaluate rules, segmentations and mappings in a gated cascade, prune shadowed manual tags, mark and apply | what it read is changed before it marks and writes; service updates commit under it; calendars and date ranges |
| **Share delivery** `routines/pipeline/announcement.rs`, `evaluation.rs`, `repository/share_announcement.rs`, `clients/federation` | `share_announcements` (what was told, under which token), the recipient's copies | full pass, batch reconcile, announce, unannounce, announce-stale sweep, transitive unannounce | network loss, duplicates, late handlers; death between two commits; status changes under a pass |
| **Share lifecycle** `services/shares/lifecycle.rs`, `shareback.rs`, `services/federation.rs` | `outgoing_shares.status`, `incoming_shares.status` | create, accept, reject/leave, revoke, ShareBack | two databases, no distributed transaction; crossing calls; calls that die half way |
| **Federation client** `clients/federation`, `infra/redis.rs` | a token per peer domain, nonces, a single-flight lock, cached backend addresses, all with a time to live | handshake, grant, resolve, send with one retry | a lock that expires under its holder, a grant that comes late, users that move |
| **Content deduplication** `routines/pipeline/dedup.rs`, `repository/dedup.rs`, `services/dedup.rs` | content hashes, visible, hidden and rejected copies | classify an arrival, reconcile a group, keep this copy, trash, restore, purge | a group is read without a lock and rewritten later; two orderings that must agree |
| **Storage quotas** `services/storage.rs`, `repository/user_storage.rs`, `routines/storage_reconcile.rs` | a billed total kept by triggers, its mirror and the reservations in Redis | reserve, check, commit, release, reconcile | a mirror that lags behind the sum; uploads that overlap |
| **Uploads, copies, trash, purge** `services/pictures`, `routines/purge_sweep.rs` | picture rows, upload sessions, staged and stored objects | begin, transfer and complete an upload, copy, trash, purge | objects and rows change in separate steps; a completion repeated |
| **Hierarchies, WebDAV** `services/hierarchy`, `services/vfs`, `api/webdav.rs`, `domain/hierarchy.rs` | virtual trees derived from tags; scratch, junk and inbox entries in Redis | validate a config, resolve it, PUT, DELETE, MKCOL, MOVE, COPY | a path is resolved once and written back as tags later; atomic saves of editors; names that collide |
| **Tags, metadata, renames** `repository/tag.rs`, `services/tags.rs`, `routines/tag_rename.rs` | the tag forest | assign, promote, remove, rename a subtree | renames against concurrent tagging |
| **Received pictures** `domain/received_exif.rs`, `services/pictures/exif.rs`, `services/shares/registration.rs` | owner's snapshot, overrides and effective EXIF | edit, announce, register, override, reset, propose | which layer wins, in whatever order announcements come |
| **Public shares** `services/shares/public.rs` | link, password, flags, upload tickets, derived shares | view, contribute, subscribe, save a copy, update, revoke, clear | every request reads the share first and acts on it later; the cascade spans instances |
| **Resolver** `resolver/src`, `routines/resolver_heartbeat.rs` | backends, name mappings, invites, registration mode | sign up, place, look up, heartbeat, reconcile mappings, change a setting | a signup spans two services; mappings corrected from lists that age |
| **Settings, authentication, limits** `common/src/settings.rs`, `services/auth.rs`, `infra` | settings, tokens | reload, log in, limit | two changes that cross; otherwise sequential |
| **Worker imaging, frontend, migrations, deployment** | none shared | codecs, user interface, schema | outside a model's reach |

How they interact. API handlers change rows in transactions and then *trigger*
routines; the runtime runs each routine at most once per key at a time. The
pipeline routine of a user evaluates the tags of dirty pictures and then
reconciles each active share: it diffs what the share covers against what it
told, posts the difference to the recipient's backend and records it. Edits and
uploads create jobs; workers poll for them, transfer objects by presigned URL,
and answer; the answer handler moves job and picture together; the watchdog and
the drain routine mop up. Everything a crash can interrupt is supposed to be
re-derived from the database by a sweep.

What makes each component correct:

- *runtime*: no accepted trigger is lost; equal keys never run at once; permits
  bound concurrency and are conserved; a prompt trigger is never debounced;
  shutdown ends;
- *queue*: at most one worker's answer counts; a job is handed out at most
  `max_retries` times; terminal jobs stay so; no duplicate live work; every job
  ends;
- *write-through*: a `synced` row tells the truth about the file; no row waits
  in a transient status without a job to move it; every accepted edit settles;
- *delivery*: the recipient's copies converge on what the share covers, under
  the tokens the sender honours; copies never go back in time; a frozen set
  stays frozen; a failed delivery is retried until it goes through;
- *lifecycle*: both ends agree in the end; a dead share has neither tokens nor
  copies;
- *pipeline*: a picture that is not dirty has exactly the tags its inputs imply;
  pruning never takes a tag off a picture that its user put there; every dirty
  picture is evaluated in the end; segments are intervals of time;
- *dedup*: every content is visible in one place, in the library or in the
  trash, and a settled group is never reshuffled;
- *uploads and quotas*: no row without its object; no commit of a checked byte
  beyond the quota;
- *hierarchies and WebDAV*: what a client was told stands; a picture a directory
  counts is listed in it or below; a move lands where it was sent;
- *received pictures*: both users see what they asked for, whatever the order of
  announcements;
- *public shares*: an album ends where its owner ends it, and nothing is told or
  taken against its rules;
- *resolver*: a name has one home and its mapping finds it; invites open what
  they were capped at;
- *federation client*: handshakes do not disturb one another; a user who moved is
  found again.

## 2. Modules

| Module | Extends | Models |
|---|---|---|
| `RoutineSpec` | | abstract specification: what the framework promises its users |
| `RoutineRuntime` | | the runtime as coded; refines `RoutineSpec` |
| `RoutineRuntimeProofs` | `RoutineRuntime` | TLAPS proofs |
| `JobQueue` | | the `jobs` table and leases in workers' hands |
| `JobQueueProofs` | `JobQueue` | TLAPS proofs |
| `ExifSync` | `JobQueue` | rows, files, API calls, workers, drain and watchdog around the same job actions |
| `ExifSyncProofs` | `ExifSync`, `JobQueueProofs` | TLAPS proofs |
| `ShareHandshake` | | the statuses of one share at both ends and the calls that move them |
| `ShareDelivery` | `ShareHandshake` | pipeline passes, tokens, copies, federation faults around the same calls |
| `ShareDeliveryProofs` | `ShareDelivery` | TLAPS proofs |
| `FederationTokens` | | tokens, nonces, the handshake lock and addresses towards one peer instance |
| `TagTree` | | tag paths and the statements that rewrite the manual tags of a picture |
| `Pruning` | `TagTree` | gating, the service cascade and the pruning of shadowed manual tags |
| `TaggingPipeline` | `Pruning` | a user's run and everything that changes what it reads |
| `ContentGroups` | `TagTree` | the rows of one content, the run that settles them, the requests that disturb them |
| `Calendar` | | the civil and the ISO calendar |
| `Predicates` | `Calendar` | what a rule's predicate tree accepts and matches |
| `Segmentation` | `Calendar` | what a segmentation template accepts and which tags it gives an instant |
| `TreeOps` | `TagTree` | the nodes on the way to a directory and the tag operations of a move, whatever the tree |
| `Hierarchy` | `TreeOps` | validation and resolution of a hierarchy, what its directories list |
| `Vfs` | `TreeOps` | WebDAV requests over a hierarchy, statement by statement |
| `VfsProofs` | `Vfs` | TLAPS proofs |
| `Uploads` | | uploads, copies, purge, quota and its mirror |
| `UploadsProofs` | `Uploads` | TLAPS proofs |
| `PublicShares` | | one album, its holders, contributions and derived shares |
| `ReceivedExif` | | one picture's metadata on both sides of a share |
| `Registry` | | the resolver: signups, invites, placement, mappings, the mode's reloads |
| `StorehouseProofs` | `FederationTokens`, `Registry`, `ReceivedExif`, `PublicShares` | TLAPS proofs, component by component |
| `Library` | `TaggingPipeline`, `ContentGroups` | both, as the library of one user |
| `LibraryProofs` | `Library` | TLAPS proofs about `Pruning`, the pipeline and the content groups |
| `LibraryMC` | `Library` | its instance |
| `StorehouseMC` | `Uploads`, `Predicates`, `Hierarchy`, `Vfs`, `PublicShares`, `Registry`, `ReceivedExif`, `FederationTokens`; instantiates `Segmentation` | one instance of uploads, files, album, received picture, registry and peer, and probes of the algorithms |
| other `*MC` | | constants of the TLC instances |

An operator whose name says what is wrong with it (`OutdatedOrEqual`,
`RetriesLeftOffByOne`, `AnswerableAnyToken`, ...) and that stands right before
one with the same parameters is not used by the model: it is the mistake the
next definition avoids. With it in the place of its neighbour the property named
under `mutants` in `PROJECT.json` fails, which shows that the property watches
that line of the code.

### RoutineRuntime and RoutineSpec

One routine's runtime. A step is what the code does between two awaits or under
one lock. `entry` is the scheduler map (`Absent`, `Pending` under a debounce
timer, `Running`, with the `rerun` and `immediate` flags); `tasks[k][s]` counts
the anonymous run tasks of a key at each stage of `spawn_run`'s loop, so that
nothing in the shape of the state keeps a key from having two; `waitq` is the
fair semaphore's queue, in which the shutdown drain takes its place too.
`Schedule` is `schedule()`, `TimerFires` the debounce timer, `Enqueue`, `Grant`,
`Start`, `Finish`, `Panic`, `Settle` the loop of `spawn_run`, `StopLoop`,
`AskDrain`, `Drained`, `Exit` the shutdown. Time is abstract: a timer fires
whenever it likes. `debounce()` is read live, so `Reconfigure` may open or close
the window at any step. Inputs are numbered per key in trigger order.

`RoutineSpec` says the same with nothing of the mechanism: triggers, runs that
begin with an input that is not older than the last, at most one run of a key and
`Concurrency` in all, at most one run per trigger.

### JobQueue

`jobs[j]` is a row (`unborn` before its insert, `deleted` once pruned); `held`
are the leases in workers' hands, pairs of job and claim token. A worker that
crashes, whose claim response is lost or whose answer never arrives is `Vanish`.
`ResetStale` may take back any processing job, because how long it was held is
abstract: its worker may still answer, and `Refuse` is that answer when the
token guard turns it away. Each action is one statement or one transaction. An
insert the partial unique indexes refuse (`Insertable`) changes nothing.

### ExifSync

One picture's row, stored object and jobs. The stored object has image data and
metadata, both numbered by the write they come from. API calls are records in
`calls` that keep what the handler read (`seen`) until its transaction; calls
with several statements (`resync`, `overwrite`, `recheck`, `regenerate`) are
several steps. A transaction is one step: the first write of each locks the
picture row, so two of them on a picture do not overlap. `work[t]` is what the
worker with token `t` has in hand: target bound, object downloaded, object
uploaded. `Put` needs no valid lease, as the presigned URL outlives it. `stamps`
and `drain` are the half-done passes of the watchdog and of the drain routine;
`Restart` loses them and every call.

`stale` is a history variable: the pictures that were changed on the strength of
something no longer true (an upload by a worker that had lost its job or whose
object was replaced, an extraction result that lands after newer bytes, a revert
to a superseded snapshot, a stamp after its job has ended, a restart in the
middle of a call). The safety properties of `exif_sync` are about pictures never
touched that way; that the code admits such steps, and with what result, is what
`exif_stranded` and `exif_upload_lost` show.

### ShareHandshake and ShareDelivery

One share whose recipient is on another instance. `ShareHandshake` has both
statuses and the API calls, statement by statement: a call reaches the other
instance in the middle of its own transaction (accept, decline) or after it
(leave, revoke), and may die at any point. `ShareDelivery` joins them to the
pipeline run of the sender (`RunStarts` ... `Settle`: find dirty pictures, mark
them, read the share, read its coverage, plan, post, record) and to the
recipient's handlers, which check the share and register the copies in two
steps. A picture may be the sender's own or one it received and relays
(`Relayed`), whose version and token come from its owner.

Faults (`Fault`) are named and bounded: a request lost before it is handled
(`Lose`), its answer lost (`LoseAnswer`), posted twice by the client's retry
(`Repost`), handled after the sender's timeout (`GiveUp`), a run that dies at any
step (`RunDies`), a call that dies (`CallFails`). Where the code cannot keep a
promise after such a fault, the exception is a history variable that the property
names: `ghosts` (handled, answer lost, so never recorded), `crossed` (handled
late, in any order with later requests), `forgotten` (marked as run by a run that
died before its diff), `torn` (a status acted on after it had died, or a call
that died half way).

A share may also end by a step of `ShareHandshake` while announcements are under
way. `Mirrored` and `ToldIsCovered` together say both directions: what was told
is at the recipient, and nothing else is.

### TagTree, Pruning and TaggingPipeline

A tag path is a sequence of labels, a picture's rows are sets of paths by source
(manual, incoming share, one set per service). `Pruning` gives the cascade as a
function over the list of services in their order (`Outputs`), and `Plan` and its
helpers are `GateHistory`: which manual rows a service has made redundant and to
which ancestor each may be reduced without starving a gate. `TaggingPipeline` has
the run by what it reads and when (`RunStarts`, `LoadServices`, `FindDirty`,
`LoadTags` of a chunk, `Apply` picture by picture, `MarkRun`), and between any two
of these the edits, EXIF changes, share changes, service transactions and
renames. The clock counts invalidations. `missed` names the
pictures whose stamp covers a change the run did not see.

### ContentGroups

Rows with one content key. A run lists the unsettled groups, reads one, chooses
its representative and rewrites the others, and does it again if a guard tells it
the group has moved. An arrival is classified after it was inserted; trash,
restore, keep and purge are the user's; restarts lose what was only in memory
(`lostWake`).

### Calendar, Predicates and Segmentation

Pure operators. An instant is a number of ticks; a tick stands for whatever is
finer than what it divides. `Predicates` takes a tree as the JSON record it is,
checks what saving accepts (`Accepts`) and evaluates it over a picture;
`Segmentation` parses a template into levels, refuses those that cannot be
interpreted and gives the path of an instant. Strings are sequences of letters
with a case, regular expressions are the sets they match.

### Hierarchy and Vfs

`Hierarchy` resolves a config against the tags in use to directories (a mirror's
are the tag tree below its root, a query's its own and its children's) and gives
what each lists; `TreeOps` turns a picture entering or leaving a directory into tag
operations (`Transition`). `Vfs` has the requests over any tree: what a tree is and
which directories it has are its parameters (`TreeOf`, `DirAt`, ...), and
`Storehouse.cfg` names `Hierarchy`'s operators for them. A request resolves the tree when it
begins, then moves by `stage` between rows, objects and cache entries, while the
other lane does the same or dies. `promises` is what clients were told and no
later request has addressed: that a picture has a content and is shown in a
directory, that a replaced content is archived, that a scratch file is staged,
that a picture is gone from a directory. Scratch files of atomic saves, junk files of
operating systems and inbox entries live in `spaces` and may expire.

### Uploads

A call moves by stages between the object store, the cache and the database
(begin, transfer, complete, copy, and the two ways a WebDAV PUT ends: a new file,
an overwrite). A row bills its size and the bytes of its versions, in the trash or
not; `Billed` is the sum over the rows, as the triggers keep it, and `mirror` its
cached copy, written by whoever counted last. An overwrite asks for the net growth
it reads, commits its version (`CommitVersion`), writes the file, commits the size, and
only then drops the mirror. Workers bill too: a claim takes a version
(`WorkerSnapshots`), an answer sets the size (`WorkerReports`), with neither a check
nor an invalidation. `unchecked` counts the bytes committed that no check was asked
about. The purge sweep lists, deletes rows, then objects; `StorageReconcile` counts
and then caches.

### PublicShares

One public share, its holders on the owner's and on another instance. A request
at a desk reads the album, then acts; the owner updates, revokes (the cascade
goes from derived share to derived share) and clears contributions. `misdeeds`
collects what was told, accepted or trashed against the album's rules by a request
that no change of them had overtaken, and by which kind of request. A list or a URL
is asked for in a variant, the thumbnail or the original.

### ReceivedExif

The owner's fields, the recipient's three layers, announcements that arrive any
number of times in any order, registration in two steps, proposals in flight.
`asked` and `wish` are what each user has asked for so far, kept independently of
the code's merges.

### Registry

A signup is the steps of `register`: mode and invite, name check, placement,
account, mapping. Heartbeats, backends that go stale and come back, passes of the
mapping reconciliation over each backend's list, deletions of accounts, previews
of the placement, and the two-statement change of a setting go on beside it.

### FederationTokens

One backend's Redis state for one peer instance: the token, whether it is near
its end, the nonce of the pending handshake, the lock, the address of each user
and its fallback. A handshake takes the lock, resolves, mints a nonce, asks, and
the peer posts the grant in a request of its own, which is read, consumed and
stored in three steps. A send takes or waits for a token, resolves, posts, and
tries once more with a fresh address after a transient failure. Entries expire at
any time their order allows: the nonce outlives the lock that covers its
handshake unless the handshake does (`slow`).

## 3. Runs

| Run | Shows |
|---|---|
| `routine_runtime` | types, `OneTask`, `NoLostTrigger`, `PromptRunsNow`, the refinement of `RoutineSpec`, `EveryTriggerRuns`, `ShutdownCompletes` |
| `routine_drain` | violation: the exit does not wait for the last run. `let _ = acquire_many(..)` returns the permits at once, and a rerun or a debounce timer starts a run after it |
| `job_queue` | types, `NoDuplicateWork` (one live job per picture and kind where the code asks for it, and no attempt beyond the budget), `OneAnswerer`, `EndsForGood` (a lease given up on stays worthless and an ended job stays ended), `EveryJobEnds` |
| `exif_sync` | types, `SyncedTruth`, `TransientHasJob`, with every operation, routine, restart and late worker |
| `exif_settles` | `EveryRequestSettles` under fairness: every single edit a row accepted is seen synced, refused or failed in the end, or followed by a later one, and no extraction waits for ever; but for the four ways of section 6, item 10, to lose one |
| `exif_stranded` | violation: a recheck stamps `extracting` after its jobs have ended; the row refuses every edit from then on |
| `exif_upload_lost` | violation: a reconcile that downloaded before an overwrite puts the old image back |
| `share_delivery` | types, `Mirrored`, `ToldIsCovered`, `DeadShareIsBare`, `EndsAgree`, `FrozenSet`, `NeverBackInTime`, `DeliveryRecovers` |
| `share_revoked` | violation: a pass under way at a revocation records tokens after they were dropped |
| `share_forgotten` | violation: a run that dies between `mark_run` and the diff leaves a covered picture untold, and the sweep does not find it |
| `library` | types, `EvaluatedTruth`, `PruneKeepsManual`, `EveryPictureSettles` of the pipeline; `RunSettles`, `EveryGroupSettles` of the content groups |
| `storehouse` | types, `FileBehindEveryRow`, `QuotaHolds` (uploads), `ContentKept`, `PlaceKept` (WebDAV: what a client was told of contents, and of where a picture is shown), `AlbumEndsClean` (public share), `LayersResolve` (received picture), `DirectoryHolds` (resolver), `PeersReached` (federation client), `AnswersAgree` (hierarchies, predicates, dates, segmentations) |

The five violations are the disagreements between the code and its comments or
documents met while modelling; each is a finding in `PROJECT.json` with the line
quoted.

### Bounds, and why they are enough

- *routine_runtime*: two keys, one permit, three triggers for the swept key and
  one for the other, one panic. Three triggers are what it takes for a stale
  timer to meet a later window; two keys contend for the permit and queue the
  drain behind a run. The theorems hold for every value of these.
- *job_queue*: two jobs, two pictures, one key, two attempts per job, four
  claims. A job can be claimed, taken back while its worker lives, claimed again
  and answered by both. The theorems hold for every value.
- *exif_sync*: one picture, three jobs, three claims, two attempts, two writes,
  one API call at a time against the workers, the drain, the watchdog and
  restarts, one field, one corrupt image. Three jobs are an extraction, the
  reconcile that races it and the one that follows. `CONSTRAINT NoneStale` stops
  at states where the picture is stale: nothing is claimed beyond them.
- *exif_settles*: the same with one attempt per job, edits and re-extracts, two of
  them at a time; liveness needs the whole graph and no constraint. `Jobs` runs out
  in some of its states; the property excepts an edit that waits and for which no
  job id is left.
- *share_delivery*: one own and one relayed picture. `MCMixes` plays either two
  changes and one delivery fault, or one change and both sides ending the share
  with one call dying. Tokens are reused when held nowhere, so five are enough
  for a fresh one always to exist (and `DeliveryAssumption` asks for them).

- *library*: two pictures, three services (two at the start, one to be created),
  chunks of one picture and two events in the pipeline; three rows of one content
  (a copy, an original, a received one), three changes and one restart in the
  groups. Two events are an invalidation during a run that another change has
  made dirty; three rows are the least in which the choice of a representative
  and a boomerang interfere. Each behaviour follows one of the two (`plays`):
  they share no state at this level of detail, and one run checks both graphs
  without their product.
- *storehouse*: likewise one part per behaviour.
  - uploads: three ids, two slots, sizes 1 and 2 under a quota of 3, one expiry, one
    crash, and three requests or steps of workers (two uploads that fit singly and not
    together, after a third), or two of which each may be an overwrite (beside an upload
    or a worker, with a mirror the reconciler has filled). Three with overwrites among
    them are 2.85 million states by themselves, and were checked once;
  - files: two lanes, three requests, one death or expiry, and menus of requests
    that have something to do with each other (overwrites in each versioning
    mode, arrivals, refilings, atomic saves, scratch directories, directories):
    three arbitrary requests of the union would be the product of unrelated ones;
  - album: two holders, one of them on the owner's instance, one picture beside
    the contributions, two desks, four requests, of which a death spends one
    (four requests and a death besides were checked once too);
  - received: three exchanges, each with its edits, claims and proposals, two
    registrations at a time, three editions, three changes;
  - registry: one name, two backends, two clerks, four placement policies with
    the errands that concern each, four errands, one cut (two names and five
    errands were checked once too);
  - peers: one user of a peer with two backends, two callers, two handshakes, two
    sends, one mishap (two mishaps, and three sends, were checked once too);
  - answers: every valid config of a mirror, a static node and queries two deep
    over eight antichains of tags for each of two pictures; predicate trees of
    two leaves over a product of field values; four days of instants for date
    ranges; six segmentations over 900 instants in three years. An algorithm is
    checked by steps that pick its inputs (`probe`).

`CHECK_DEADLOCK FALSE` is set where the bounds,
or the process's exit, end a behaviour.

### Fairness

- *Runtime*: tokio polls every ready task, sleeps end, and `run()` returns; the
  framework's own documentation relies on that. Nobody has to trigger, sweep,
  panic, reconfigure or shut down.
- *Queue*: some worker that takes every kind keeps polling, and the watchdog,
  whose interval never stops, keeps finding jobs held past the timeout. No
  worker is assumed to answer: each may vanish with every lease.
- *ExifSync*: the same, plus a claim handler that ends, the drain's sweep, and
  API handlers that end. Workers are not assumed to finish.
- *ShareDelivery*: the pipeline of the user keeps being triggered (its sweep), a
  run takes its steps, and the recipient's server handles a request that reached
  it. Faults are bounded. The backoff of an errored share elapses.
- *Library*: a run takes its steps once begun and the routine is triggered while
  there is work (its sweep); a service transaction ends; an arrival's
  classification and a keep request, once begun, end. Requests are never owed.
- *Storehouse* checks safety only and states no fairness.

## 4. Proofs

`RoutineRuntimeProofs` proves, for every finite set of keys, every concurrency
and every bound (`RoutineAssumption`):

- `TypeCorrect`, `SerialPerKey`, `TriggersNeverLost`, `PromptNeverDebounced`;
- `Refinement`: `Spec => RefinesPromise`, the runtime implements `RoutineSpec`.

None of the invariants is inductive by itself. `TaskInv` adds to types and
`OneTask` that permits are conserved (`Conserved`: free plus held is
`Concurrency`) and that a panicked key stays `Running`. `InputInv` keeps the
books of every key: the channel holds the inputs above the last delivered one in
order (`ChanOrdered`), the entry carries the last delivered input (`Current`),
what is owed is written down somewhere (`Owed`), and runs begun plus runs on
their way never exceed the inputs delivered (`Paid`). The refinement needs all of
it: `Begin` of the promise asks that the key is idle, that there is room
(`Conserved`) and that a trigger is left to pay for the run (`Paid`).

`JobQueueProofs` proves, for every set of jobs, pictures, kinds and keys, every
retry budget and any number of claims (`QueueAssumption`):

- `QueueTypes`, `Budget`, `OneAnswers`, `NoDuplicates` (`NoDuplicateWork`), and `EndedForGood` from
  `StaleLeases` and `TerminalKept`.

`QueueInv` is the types, that no token is from the future (`TokensMinted`, which
makes the token of a new claim fresh) and that claims are accounted for
(`Accounted`: a job's claims are its failed attempts and the one under way). The
action properties and `NoDuplicates` go through `RowStep`: every step creates,
claims, ends or deletes a row, or leaves it alone.

`ExifSyncProofs` proves, for every set of pictures, fields and jobs, every budget
and any number of writes, calls, claims and restarts (`SyncAssumption`):

- `SyncTypes`, the types;
- `RunsTheQueue`: `Spec => QueueSpec`. Every step of the write-through is a step of
  the queue or leaves the table alone, so the queue's promises come down to the
  pictures' jobs without another proof (`QueuePromises`);
- `TransientRowsMove` (`TransientHasJob`) and `SyncedRowsTrue` (`SyncedTruth`).

`SyncInv` adds to the queue's invariant that calls carry what their kind carries
(`CallsTyped`), that whatever is bound, in hand or called about has its row
(`RowsThere`) and that two leases differ in their token (`LeasesApart`), without
which two workers would share their `work`. The safety properties speak of a
picture at a time, so does the strengthening, `Sound(p)`: a pending row has its
reconcile or the drain's turn, an extracting row has its job or the call that is
about to make one, and a synced row tells the truth of its file or is being
settled. A step either keeps `Sound(p)` or puts `p` into `stale`. One lemma per action.

`ShareDeliveryProofs` proves, for every set of pictures and every mix of changes
and faults (`DeliveryAssumption`):

- `WellTyped`, `EndsHold` (`EndsAgree`), `DeadSharesBare` (`DeadShareIsBare`),
  `FrozenSetKept` (`FrozenSet`), `CopiesGoForward` (`NeverBackInTime`);
- `RunsTheHandshake`: `ShareDelivery` implements `ShareHandshake` (`ShareSpec`), so
  that no step of the pipeline, the sweep or a handler moves a status in a way of
  its own; a pass may act on any status it saw, which is what `torn` is about;
- `DeliveryMirrors` (`Mirrored`) and `DeliveryCovers` (`ToldIsCovered`): once
  nothing is left to do the two databases agree, whatever was lost, repeated or
  handled late, up to the exceptions named by the history variables.

The last two need most. They speak of states at rest; `Delivery` says what holds of
one picture on the way there: what a pass has looked at is as it is now or the
picture is dirty again (`LookRight`), what it will say or is saying is right
(`SayRight`, `UnsayRight`), what a request in the recipient's hands will write is
what the sender is waiting to record (`InHands`), a copy is one that was announced
(`Held`, `Answered`), a record tells what was told (`OnRecord`) and what is not told
is due (`Due`). `Wire` and `Passes` are what makes these cases exclusive: one request
at a time, at the stage the run is at. A `crossed` picture is outside `Delivery`: a
late request may overwrite anything, and the proof shows it then disturbs no other.

`UploadsProofs` proves, for every finite set of ids, any slots, sizes and quota
(`QuotaAssumption`):

- `TypesHold`, `FilesHold` (`FileBehindEveryRow`), `QuotaKept` (`QuotaHolds`).

`FileInv` says who may be about one picture at a time: two requests only when both
complete it or one writes over it (`Apart`), a beginning, a copy or a new file only of
an id of its own (`Fresh`), the purge only of pictures nobody is about but to write over
them (`PurgeIsAlone`), and that a request that has put its original in place finds it
there (`PlacedHasFile`) unless a second completion took it (`shared`). `QuotaInv` is
about totals: until two requests overlap (`overlapped`), the billed bytes less the
unchecked ones (`Net`) are at most what the mirror says, what the reconciler counted,
and what each request has read (`MirrorCovers`, `RecountCovers`, `TotalCovers`), and a
request that was let through has room for what it brings (`Room`). The mirror is
excepted while an overwrite has committed its version and not yet dropped it, which is
when another request that reads it sets `overlapped`. The lemmas on `Billed`
(`SumFunction` over the rows) are proved from the fold's own definition: the sum over a
finite set is the sum without one element plus that element, whichever it is.

`LibraryProofs` begins with lemmas about the operators of `TagTree` and `Pruning`,
over any labels and any service list, and from them

- `PruneIsNeutral`: pruning the shadowed manual rows changes nothing of what any
  service gives. That is what `GateHistory::plan` (`domain/pipeline/prune.rs`) is
  for: a row is removed only if no gate hears the difference.

It goes from service to service. What is *loose* is below what services give and no
gate of any service needs it (`Covered`), so a gate hears a tag after the pruning if
and only if it heard it before (`GatesOn`, `Levelled`). `FoldDeepest` and the cascade are recursive
functions over the numbers; their laws are proved from the least number for which
they fail.

It proves of the pipeline, for every set of pictures, services, edits and
renames, and every chunk size (the five assumptions of `TaggingPipeline`):

- `PipelineTypes`, `CleanIsEvaluated` (`EvaluatedTruth`), `PruningKeepsManual`
  (`PruneKeepsManual`).

`EvaluatedTruth` is about pictures that are not dirty and is far from inductive: a
picture stops being dirty not only when it is marked but also when the service that
made it dirty is disabled or deleted. `PipelineSettled` therefore says of every picture, dirty
or not, that its rows give what the services stamped no later than its mark give
(`MarksTrue`); of a run, that what it has read of services and rows still holds
for what has not been overtaken (`ServicesRead`, `RowsRead`); and of the pictures a
run has applied but not marked, that they say for the run's start what `MarksTrue`
says for a mark (`DoneTrue`). The heart is a lemma that evaluating a cascade of which
a subset of the services is stamped gives those services the same (`Evaluation`).
That two services never share a position is needed for it, and holds because
`Initial` is so and creation and reordering keep it. `PipelineSettled` was an invariant of two TLC
instances first (7.2 and 10.8 million states).

Of the content groups it proves, for any finite set of rows and any keys and tags:

- `GroupsTypes`, `RunsSettle` (`RunSettles`), and of both together `LibraryTypes`
  (`LibraryTypeOK`).

The invariant is the types alone: a run reads and writes without a lock, so nothing
about a group's shape survives what others do in between, and the property is about
a write nothing overtook. What has to be shown is that the branches of
`reconcile_group` cover every group and leave one row shown. `BestIs` is what the
code relies on: the preferences are an order in which some row of a group comes
before all (by way of a number, `Weight`); `BestByRows`, that a trash and a run
choose by the same order, one from the rows and the other from its reading of them.

`VfsProofs` proves, for every library, any menus of requests, any number of lanes,
requests, deaths and expiries, and whatever the tree operators say (they are
parameters about which nothing is assumed), under `VfsAssumption`:

- `ContentIsKept` (`ContentKept`): a file a client stored has its bytes, its hash and
  its worker job, what it replaced under full versioning is archived, and a staged
  file can be promoted, until a request addresses it.

`ContentKept` looks at objects and rows that every request in the other lanes may
be about to write. `WellInv` says what a request, an entry and a promise are made of
and that two requests never have the same id. `PicturesInv` says who may write a
picture: of two requests on one picture both know of it (`Alone`), so that neither is
promised anything afterwards; a picture whose row is still to come has its bytes
already and an id of the request's own (`Written`, `Fresh`); a promise is of a picture
no request that is not contested is writing (`KeptWell`), and what an overwrite
replaced is still in place or already a version (`ArchivedWell`). `StagingInv` does
the same for scratch files: an object is in one listing or in the hands of one
request (`Own`), and whatever a request still has to save, sweep or take back does
not touch an entry somebody was promised (`Spares`), because handling scratch files
at once voids the promises (`Together`). TLC found all three true in
every state of `storehouse` first.

`StorehouseProofs` proves four components in turn; their variables are disjoint, so
each proof reads by itself.

- *Peers*, for any users, backends, callers and bounds: `PeersTypes`,
  `PeersAreReached` (`PeersReached`). `PeersWell` says that a caller waits for exactly
  one handshake or wish (`Served`), in which the types already need the other
  conjuncts. `Undisturbed` says that a handshake within the lock's time is the only
  one under way and the last begun, and that the pending nonce is its own (`Alone`);
  `ReachedWell`, that an address just looked up is the user's, unless the user moved
  after the lookup (`LookedUp`), and so is whatever is cached once the old one was found
  dead (`BustedFound`).
- *Resolver*, for any finite sets of names and clerks, any backends, policies and
  invites: `RegistryTypes`, `DirectoryIsKept` (`DirectoryHolds`). `DirectoryWell` counts
  a code's uses with those of the signups on their way to an account (`Spent`: the
  finite cardinality of `Pending`), says of a name that is not `excused` that at most
  one signup is about it and how far it is tells which of account and mapping exist
  (`OneHome`), of a gated signup that what it has passed so far covers it (`Gated`), of a
  change of the mode that it is the only one (`OneChange`), and of a pass that whoever
  was there all along is in the lists it read (`PassWell`).
- *Received picture*, for any snapshots, edits, claims and proposals:
  `ReceivedTypes`, `LayersAlwaysResolve` (`LayersResolve`). The property compares what
  is shown with what was wished; `ReceivedWell` goes through the overrides: they are
  the wishes outside `shadowed` (`OverridesClaimed`), the columns are those of overrides over
  snapshot (`Resolved`), and a registration no other has ended under is not older
  than the row it read (`Newest`). The lemmas are about metadata field by
  field: `LaidOverIs`, `AppliedIs` and their kin say what each merge gives every field.
- *Public share*, for any holders, pictures, settings and desks: `AlbumTypes`,
  `AlbumAlwaysEndsClean` (`AlbumEndsClean`). `Sound` says what a request may rely on
  at each of its stages: the album it read is the album, unless it is `stale`; a
  cascade has every share derived before it still before it (`todo`). `EndsMeet`
  says of a share that died uncrossed that its holder is being told, or that nobody
  joins or holds it. `StaysSound` carries every other desk over a step at once.

The invariants were checked by TLC before they were proved: the resolver's on
1.4 and 13.7 million states, the received picture's on 95 thousand, the
album's on 493 thousand, the uploads' on 2.85 million.

The theorems state the very properties the runs check, with the same exceptions
(history variables) and nothing weaker.

Only model-checked:

- all liveness and everything that rests on ENABLED (`EveryTriggerRuns`,
  `ShutdownCompletes`, `EveryJobEnds`, `EveryRequestSettles`, `DeliveryRecovers`,
  `EveryPictureSettles`, `EveryGroupSettles`), which is out of the prover's reach;
- `PlaceKept` and `AnswersAgree`: `Hierarchy` and `Predicates` declare RECURSIVE
  operators (trees inside trees), with which the prover loses its SMT backend, so
  nothing is proved about them. `PlaceKept` is about where a hierarchy shows a
  picture and holds only because of what `Hierarchy` computes; of other tree
  operators it would be false;
- `StorehouseTypeOK`: the types of all parts together, stated in `StorehouseMC`, which
  extends both modules. The types of five of its parts are proved component by
  component, above; those of `Vfs` (a tag written to a row is a path) rest on what
  `Hierarchy` answers.

## 5. Assumptions and what is left out

- The constants: `ExifSync` needs a field (a picture without metadata has nothing to
  settle); `ShareDelivery` needs more tokens than faults plus three, because a row, a
  copy, the run and each late request hold one, so that a fresh one is always left
  (UUIDs in the code); `TaggingPipeline` needs initial services at different positions
  (the column is assigned by creation and by reordering, one by one), tags that are
  non-empty paths of which the reserved one is not a user's, and renames between
  parsed paths; `Registry` needs finitely many names and clerks, and integer caps and
  pins (columns of that type); `ContentGroups`, finitely many rows numbered from 1 and
  initial rows of their types; `ReceivedExif`, that snapshots are rows (no field is
  present and empty) and that an edit's values are of its fields; `PublicShares`, that
  desks are numbered from 1 (0 is the owner's own step) and that settings are flags;
  `Vfs`, that initial rows have their columns and ids of their own (new rows get UUIDs
  in the code, numbers above 100 here) and that only moves and copies name a destination.
- Uploads: retention outlasts every upload session and request. A retention is one day
  at least (`services/user_settings.rs`, `1..=3650`), a session's time to live is
  hours (`services/pictures/upload.rs` 219), a request's seconds. `ListPurgeable` lists
  no picture that a request or a session is about; without that, a picture trashed
  and purged while a copy of its id or its second completion is under way loses
  its object.

- PostgreSQL transactions and single statements are atomic; two transactions that
  write one picture row are serialized by its lock. Reads outside a transaction
  are steps of their own.
- A claim handler is over long before the watchdog's timeout (minutes against
  seconds), which `WatchdogReset` says in its guard.
- Times (debounce windows, timeouts, backoffs, retention) are abstract: they may
  elapse at any moment.
- ExifSync has one field and one picture; format-specific metadata, thumbnails,
  visual edits and ML jobs are left out, and so is an overwrite with identical
  bytes.
- ShareDelivery has one share and a remote recipient. Recipients on the same
  instance, several shares of one picture, the transitive unannounce routine, the
  recipient's loop prevention and ShareBack mapping are left out. Evaluation of
  tags is one step (`Retag` moves a picture in or out of the coverage).
- Pipeline: group-by-event and ML emission, dry runs and the predicate counters
  are left out; segmentations and rules enter as what they emit (their operators
  are checked by themselves).
- ContentGroups: near-duplicate suggestions are left out.
- Vfs: the HTTP layer (PROPFIND bodies, ETags, ranges, locks), redirects to
  presigned URLs and the mirror of the reserved root are left out. PUT bodies
  arrive whole.
- Uploads: a batch is single uploads begun together; the breakdown shown to the
  user and the admin pages are left out.
- PublicShares: the rename of the shared tag, received pictures in the coverage,
  share-backs and rate limits are left out.
- ReceivedExif: the creator credit, relayed pictures and the rounding of values
  are left out.
- Registry: the lookup cache, operator sessions, the config matrix and who may
  mint which invite are left out. A name check and an account creation on a
  backend are atomic there (its own unique index).
- FederationTokens: the peer's resolver answers with its current directory; of
  the cache's failures only the lock's fail-open error is modelled; the nonce's
  time to live is longer than the lock's, as the constants are; a grant is posted
  once; what a signature covers is left out.

Not modelled at all: worker imaging (codecs and metadata engines: external tools
and byte formats), the frontend, migrations as such (the indexes and triggers
that matter are modelled with the tables they guard), deployment, logins,
sessions and rate limits, and the merging and coercion of settings.

## 6. What the models found out

The five violations are disagreements the runs show. The following were met while
modelling, and a property either exempts them by a history variable (named where
it is so) or does not speak of them. They are listed for whoever changes the code
next to them.

1. *Pipeline.* `mark_run` overwrites an invalidation made while it evaluated
   (`missed`), so that a service renamed under a run and disabled later leaves what
   it gave under its old name on a picture nobody finds dirty; the proof attempt
   found this, with four events, one more than a run had; `now()` in a service transaction is its start; `replace_config` is
   two statements and a death between them leaves the new config unstamped;
   reordering invalidates nothing; a service disabled or deleted during a run has
   its tags re-added by it; a run can re-add an anchor the user has just removed.
   Manual rows are not always an antichain (`Assign` of `{A, A.B}` over `{A}`),
   which prune.rs takes for granted around 187.
2. *Federation client.* A token is bound to the backend that issued it but cached
   per global domain, so behind a peer with several backends a message for a user
   of another one is refused as a bad request, and the token is not dropped until
   its time to live ends. Doc 28 4.3 (one pending nonce per domain) fails once the
   lock expires under a slow resolve and request (`slow`): the second handshake
   replaces the nonce and the first grant is refused. `get` and `del` of a nonce
   are not atomic. A failed handshake and a 404 do not bust the cached address; a
   lookup begun before a move can cache the old one again (`passed`).
3. *Content groups.* A stale reconcile or a late classification can undo a user's
   restore; restoring a boomerang row, or one of several manual ones, is undone by
   the next run; the purge sweep does not check again that what it listed is still
   in the trash (purge_sweep.rs 58-81), and wakes nobody.
4. *Uploads and quotas.* (The purge's dependence on the retention, see section 5, showed
   with four requests; the runs have three.) A second completion over the quota deletes
   the object of a committed row (`shared`); check and commit are apart, so overlapping
   uploads overrun the quota (`overlapped`); a death after the staging object is deleted
   loses the upload; one after a commit, or between an overwrite's version and its end,
   leaves a mirror that says too little. storage.rs 5 has "committed + reserved + incoming
   <= quota" hold "on any byte-adding write", and doc 22:142-144 the mirror "refreshed at
   known write points", but some bytes are billed without a question and without a word
   to the mirror: the version a claim takes of the file it will edit
   (api/worker/handlers.rs 98-144) and the size its answer sets
   (repository/picture/exif.rs 100 and 175), so one user's total can pass the quota with
   nothing overlapping, and a stale mirror lets through what the database would refuse.
   An overwrite's version is asked for, but with the shrinking of the file counted
   before it happens (write.rs 119), so until the overwrite is through, or for good when
   it dies, the old bytes beyond the new ones are billed unasked; and it is the end of
   the overwrite, not the version's commit, that drops the mirror (lifecycle.rs 58-70).
   `QuotaHolds` counts the workers' bytes and those an overwrite keeps in `unchecked`,
   and a check under a mirror that an overwrite has not dropped yet as `overlapped`. A
   completion whose HEAD fails for any reason is checked with the client's size, or
   with none and so not at all (upload.rs 284-300), and bills that size, or nothing.
5. *Predicates and segmentations.* A date-only `to` ends at 23:59:59; `time_range`
   with `from = to` matches one instant; `year` is cast from i64 to i32;
   `min > max` is accepted; predicate seasons are northern only. Doc 20:225 puts
   the week offset's boundary on another day than the code; offsets of months with
   a time make a segment recur, as do `{year}.{season}` and `{year}.{week}`.
6. *Hierarchy and WebDAV.* A node in both chains of a move fires nothing, yet the
   operations of the node left or entered can take away a tag it needs (`Undoes`);
   a query parent subtracts what a child mirror's foreign exclude hides (`Cuts`);
   `reuse_existing_case` sends a write for `Photos` to `photos` when both exist.
   An overwrite that dies between bytes and hash makes a PUT of the old content a
   no-op, and one that dies after the hash is never read; staging entries are read,
   changed and written back without a lock; a scratch directory that is renamed
   strands its files; MOVE onto an existing name keeps both; two PUTs at once can
   mint twins by case; an overwrite is allowed in a read-only directory.
7. *Public shares.* The list of a view-only album gives away originals: the handler
   (public_view.rs 82-105) takes the variant from the request, `list_public_pictures`
   hands it on unchecked and listing.rs presigns it; only `presign_public_picture`
   checks (public.rs 262). The items keep the date of the original file and whether
   there is a position, too (listing.rs 208-209). public.rs 203-205 says "the presigned
   variant is a thumbnail, never the original", and doc 27:103 and 317 that a view-only
   album strips originals, EXIF and GPS "from bytes and JSON". `AlbumEndsClean` exempts
   these three, from a list, by name (`ListLeaks`), and nothing else: without the
   exemption TLC shows each of them after four steps. public_view.rs around 221 says no password is needed to
   contribute, but every contribution to a protected album is refused; save-a-copy
   and subscribe never ask for the password, which doc 27:132 calls a gate; the
   cascade of a revoke ends at the first recipient that fails and a retry does not
   find those marked (`cascaded`); a claim that overlaps a revoke leaves an active
   incoming share of a dead one (`crossed`); a session survives a change of the
   password; an update that keeps the password can write back an older hash
   (`blurred`).
8. *Received EXIF.* `ALL_EXIF_FIELDS` lists 12 of 13 fields, so a proposal of the
   GPS accuracy leaves the recipient's override in place; the SQL merge keeps a
   position of (0, 0) that the Rust merge drops; a proposal's `clear` is coupled to
   the GPS group on one side only; the guard against stale announcements reads the
   row without a lock; edits of different fields write back whole snapshots and
   lose one another (jobs.rs 245); an override made while a proposal is in flight
   is dropped.
9. *Resolver.* A pass prunes a mapping made after its backend's list was fetched;
   overlapping signups or a lost answer can put a name on two backends
   (`excused`), and its mapping then changes with every pass; an invite use is
   spent even if the signup fails later; `max_users` is checked against the last
   heartbeat; crossing patches of a setting can publish the older one
   (`crossing`); the preview of a placement moves the round-robin cursor; no
   backend calls `update_mapping`, which the documents' push on registration
   needs.

10. *EXIF write-through.* An accepted edit is lost, and the row looks synced, in four
   ways, each of which `EveryRequestSettles` names. A re-extract reads the row before
   the edit and stamps it `extracting` after (`Overruled`), although jobs.rs 342-344
   says that it "is refused while the row holds an unsynced DB edit that would be
   silently discarded". And an extracting row takes edits under its extraction
   (`Stomped`) when an edit has read the row before it was stamped; when the drain has
   it on a list and stamps it `pending`; or when a re-extract comes between the two
   statements of the watchdog, the second of which lets the row go
   (job_watchdog.rs 59-83 spares a re-extraction "that succeeded meanwhile", not one
   under way). Reads and transactions share no lock.

## 7. Plan

Done, with proofs: the runtime and the queue, write-through, delivery and
lifecycle of one share, pruning and the pipeline, uploads and quotas, federation
client, resolver, received pictures, public shares, content groups. Done: WebDAV; the
algorithms of predicates, segmentations and hierarchies.

Next, most important first:

1. `ShareChain`: three users, A to B to C, with the transitive unannounce routine
   and a share revoked at A while B's pass to C is under way; two shares in one
   pass, the first of which fails.
2. The creator credit and relayed pictures of `ReceivedExif`; ML and event
   services of the pipeline.
