------------------------------ MODULE Uploads ------------------------------
(***************************************************************************)
(* Uploads, copies, WebDAV writes and the purge of one user's pictures, and  *)
(* the quota that gates them (services/pictures/upload.rs and copy.rs,      *)
(* services/vfs/write.rs, services/storage.rs, routines/purge_sweep.rs,     *)
(* routines/storage_reconcile.rs), beside the workers that nothing gates    *)
(* (api/worker/handlers.rs).                                                *)
(*                                                                         *)
(* A request is a call that moves by stages between the object store, the   *)
(* cache and the database; calls interleave, and a process may die under    *)
(* one.  The bytes billed are kept by triggers in the transactions that     *)
(* change a row, so they are the sum over the rows and their versions; the  *)
(* cache mirrors that sum and holds a reservation for each upload that      *)
(* declared its size.                                                       *)
(***************************************************************************)
EXTENDS Integers, FiniteSets, Functions

CONSTANTS
    UploadIds,   \* picture ids a call may mint
    Slots,       \* requests served at the same time
    Sizes,       \* sizes of files, in bytes
    Quota,       \* the user's quota; an unlimited one skips every check below
    Owned,       \* the pictures at the start: sizes by id
    MaxCalls,    \* requests and reports of workers, bounded for TLC
    MaxExpiries, \* cache entries that expire, bounded for TLC
    MaxCrashes   \* requests that die under way and answers of the store that fail, bounded for TLC

Nothing == -1   \* no cached total, no declared size, no picture

ASSUME QuotaAssumption ==
    /\ UploadIds \subseteq Nat /\ IsFiniteSet(UploadIds) /\ Sizes \subseteq Nat /\ Quota \in Nat \ {0}
    /\ DOMAIN Owned \subseteq UploadIds /\ Owned \in [DOMAIN Owned -> Sizes] /\ SumFunction(Owned) <= Quota

VARIABLES
    pictures,    \* rows: size, bytes of its versions and whether the row is in the trash
    objects,     \* originals in the pictures bucket: size by id
    staged,      \* objects of the staging bucket: size by id
    sessions,    \* upload sessions in the cache
    reserved,    \* reservations: bytes by id
    mirror,      \* the cached committed total
    call,        \* the request each slot serves
    listed,      \* pictures the purge sweep has found
    unlinked,    \* rows it has deleted whose objects it has not
    recount,     \* the total the reconciler has computed and not yet cached
    shared,      \* history: ids completed by a second request, the first under way or committed
    overlapped,  \* history: bytes were committed under a total another request relied on
    unchecked,   \* history: bytes committed that no check of the quota was asked about
    calls, expiries, crashes

store == <<pictures, objects, staged>>
cache == <<sessions, reserved, mirror>>
sweeps == <<listed, unlinked, recount>>
limits == <<calls, expiries, crashes>>
audit == <<overlapped, unchecked>>
uploadVars == <<store, cache, call, sweeps, shared, audit, limits>>

CallOf(kind, p, source, size, old, snaps, stage) ==
    [kind |-> kind, pic |-> p, source |-> source, size |-> size, old |-> old, snaps |-> snaps,
     total |-> Nothing, stage |-> stage]
NewCall(kind, p, source, size, stage) == CallOf(kind, p, source, size, 0, FALSE, stage)
Free == NewCall("free", Nothing, Nothing, Nothing, "none")

Without(f, x) == Restrict(f, DOMAIN f \ {x})
With(f, x, value) == [y \in DOMAIN f \cup {x} |-> IF y = x THEN value ELSE f[y]]

(* billed_total: what the triggers keep in user_storage, and reconcile_all computes again. *)
(* Versions are billed with the row, in the trash or not, and go with it.                 *)
Billed == SumFunction([p \in DOMAIN pictures |-> pictures[p].size + pictures[p].versions])

NewRow(size) == [size |-> size, versions |-> 0, trashed |-> FALSE]

UploadsInit ==
    /\ pictures = [p \in DOMAIN Owned |-> NewRow(Owned[p])]
    /\ objects = Owned /\ staged = << >>
    /\ sessions = {} /\ reserved = << >> /\ mirror = Nothing
    /\ call = [s \in Slots |-> Free]
    /\ listed = {} /\ unlinked = {} /\ recount = Nothing
    /\ shared = {} /\ overlapped = FALSE /\ unchecked = 0
    /\ calls = 0 /\ expiries = 0 /\ crashes = 0

(* the slots are alike: a request takes the first free one *)
Serve(s, request) ==
    /\ call[s] = Free /\ (\A t \in Slots : t < s => call[t] # Free) /\ calls < MaxCalls /\ calls' = calls + 1
    /\ call' = [call EXCEPT ![s] = request]
    /\ UNCHANGED <<expiries, crashes>>

At(s, stage) == call[s].stage = stage
Moves(s, stage) == call' = [call EXCEPT ![s].stage = stage]
Ends(s) == call' = [call EXCEPT ![s] = Free]

InUse == DOMAIN pictures \cup DOMAIN objects \cup DOMAIN staged \cup sessions \cup unlinked
             \cup {call[s].pic : s \in {t \in Slots : call[t] # Free}}
(* a new id; which one makes no difference *)
Minted == {p \in UploadIds \ InUse : \A q \in UploadIds \ InUse : p <= q}
----------------------------------------------------------------------------
(* Requests *)

(* begin_upload: the client may not know the size *)
Begin ==
    /\ \E s \in Slots, p \in Minted, size \in Sizes \cup {Nothing} :
        Serve(s, NewCall("begin", p, Nothing, size, "check"))
    /\ UNCHANGED <<store, cache, sweeps, shared, audit>>

(* the client sends the file to its presigned URL, once or again *)
Put ==
    /\ \E p \in sessions, size \in Sizes :
        /\ p \notin DOMAIN staged
        /\ staged' = With(staged, p, size)
    /\ UNCHANGED <<pictures, objects, cache, call, sweeps, shared, audit, limits>>

(* complete_upload: another call may be completing the same upload *)
Complete ==
    \E s \in Slots, p \in sessions :
        /\ Serve(s, NewCall("complete", p, Nothing, Nothing, "promote"))
        /\ LET again == p \in DOMAIN pictures \/ \E t \in Slots : call[t].kind = "complete" /\ call[t].pic = p
           IN  shared' = IF again THEN shared \cup {p} ELSE shared
        /\ UNCHANGED <<store, cache, sweeps, audit>>

(* copy_object: without its source the call fails *)
Promote ==
    \E s \in Slots :
        /\ At(s, "promote")
        /\ LET p == call[s].pic IN
           IF p \in DOMAIN staged
           THEN objects' = With(objects, p, staged[p]) /\ Moves(s, "clear")
           ELSE Ends(s) /\ UNCHANGED objects
        /\ UNCHANGED <<pictures, staged, cache, sweeps, shared, audit, limits>>

(* delete_object and release, with the size that is known by then; without one nothing is checked *)
Hears(s, p, size) ==
    /\ staged' = Without(staged, p)
    /\ reserved' = Without(reserved, p)
    /\ call' = [call EXCEPT ![s].size = size, ![s].stage = IF size = Nothing THEN "commit" ELSE "check"]

(* object_size: when the store does not tell, be the object missing or not, the client's size is *)
(* taken, if it told one                                                                        *)
Clear ==
    \E s \in Slots, told \in Sizes \cup {Nothing}, fails \in BOOLEAN :
        /\ At(s, "clear")
        /\ (call[s].pic \in DOMAIN objects /\ ~fails) => told = Nothing
        /\ Hears(s, call[s].pic, IF call[s].pic \in DOMAIN objects /\ ~fails THEN objects[call[s].pic] ELSE told)
        /\ IF fails THEN crashes < MaxCrashes /\ crashes' = crashes + 1 ELSE UNCHANGED crashes
        /\ UNCHANGED <<pictures, objects, sessions, mirror, sweeps, shared, audit, calls, expiries>>

(* copy_source_into_library of an owned picture *)
Copy ==
    /\ \E s \in Slots, p \in Minted, source \in DOMAIN pictures :
        Serve(s, NewCall("copy", p, source, pictures[source].size, "check"))
    /\ UNCHANGED <<store, cache, sweeps, shared, audit>>

(* land_new: a file that no row has the content of *)
PutNew ==
    /\ \E s \in Slots, p \in Minted, size \in Sizes \ {0} :
        Serve(s, NewCall("put", p, Nothing, size, "check"))
    /\ UNCHANGED <<store, cache, sweeps, shared, audit>>

(* what a request asks room for: an overwrite the new bytes less the old ones, which stay when it *)
(* keeps them as a version                                                                        *)
Incoming(c) == c.size - c.old + IF c.snaps THEN c.old ELSE 0

Overwriting(p, size, snaps, stage) == CallOf("overwrite", p, Nothing, size, pictures[p].size, snaps, stage)

Cleared(c) == IF c.snaps THEN "snapshot" ELSE IF c.kind = "complete" THEN "commit" ELSE "bytes"

(* put: the row as the request reads it; the versioning mode and the versions there are decide    *)
(* whether it keeps one; only a growing overwrite is checked                                      *)
Overwrite ==
    /\ \E s \in Slots, size \in Sizes \ {0}, snaps \in BOOLEAN,
          p \in {q \in DOMAIN pictures : ~pictures[q].trashed} :
        LET c == Overwriting(p, size, snaps, "check")
        IN  Serve(s, IF Incoming(c) > 0 THEN c ELSE Overwriting(p, size, snaps, Cleared(c)))
    /\ UNCHANGED <<store, cache, sweeps, shared, audit>>

(* a request that has committed bytes under the cached total *)
Unannounced(c) ==
    \/ c.stage = "invalidate"
    \/ c.kind = "overwrite" /\ c.snaps /\ c.stage \in {"bytes", "commit"}

(* committed: the mirror, or on a miss the database *)
ReadTotal ==
    \E s \in Slots :
        /\ At(s, "check")
        /\ call' = [call EXCEPT ![s].total = IF mirror # Nothing THEN mirror ELSE Billed,
                                ![s].stage = IF mirror # Nothing THEN "decide" ELSE "fill"]
        /\ overlapped' = (overlapped \/ (mirror # Nothing /\ \E t \in Slots : Unannounced(call[t])))
        /\ UNCHANGED <<store, cache, sweeps, shared, unchecked, limits>>

FillMirror ==
    \E s \in Slots :
        /\ At(s, "fill")
        /\ mirror' = call[s].total
        /\ Moves(s, "decide")
        /\ UNCHANGED <<store, sessions, reserved, sweeps, shared, audit, limits>>

(* fits, and at_or_over_quota when no size is known *)
Fits(s) ==
    LET used == call[s].total + SumFunction(reserved)
    IN  IF call[s].size = Nothing THEN used < Quota ELSE used + Incoming(call[s]) <= Quota

Granted(s, p) ==
    CASE call[s].kind = "begin" ->
            /\ reserved' = IF call[s].size = Nothing THEN reserved ELSE With(reserved, p, call[s].size)
            /\ sessions' = sessions \cup {p}
            /\ Ends(s) /\ UNCHANGED objects
      [] OTHER -> Moves(s, Cleared(call[s])) /\ UNCHANGED <<reserved, sessions, objects>>

(* a completion over the quota takes its promoted object away *)
Refused(s, p) ==
    /\ objects' = IF call[s].kind = "complete" THEN Without(objects, p) ELSE objects
    /\ Ends(s) /\ UNCHANGED <<reserved, sessions>>

Decide ==
    \E s \in Slots :
        /\ At(s, "decide")
        /\ IF Fits(s) THEN Granted(s, call[s].pic) ELSE Refused(s, call[s].pic)
        /\ UNCHANGED <<pictures, staged, mirror, sweeps, shared, audit, limits>>

(* a total that is read and not let go covers what its request is yet to commit: a version and its *)
(* overwrite, or the bytes by which a picture grows                                               *)
Relies(c) ==
    \/ c.stage \in {"fill", "decide", "snapshot"}
    \/ c.stage \in {"bytes", "commit"} /\ c.size > c.old
Relying(s) == recount # Nothing \/ \E t \in Slots \ {s} : Relies(call[t])

Beyond(bytes, room) == IF bytes > room THEN bytes - room ELSE 0

(* a request commits bytes, of which its check has let so many through *)
Bills(s, bytes, room) ==
    /\ overlapped' = (overlapped \/ (bytes > 0 /\ Relying(s)))
    /\ unchecked' = unchecked + Beyond(bytes, room)

(* snapshot_version_on_overwrite: a version of the size that was read, of a picture that is there *)
(* still; one mode keeps the first version only, and a worker may have made it meanwhile.         *)
(* Nothing tells the mirror until the overwrite is through.                                       *)
CommitVersion ==
    \E s \in Slots :
        /\ At(s, "snapshot")
        /\ LET p == call[s].pic IN
           \/ /\ p \in DOMAIN pictures /\ p \in DOMAIN objects
              /\ pictures' = [pictures EXCEPT ![p].versions = @ + call[s].old]
              /\ Bills(s, call[s].old, call[s].size)
              /\ Moves(s, "bytes")
           \/ /\ p \in DOMAIN pictures /\ pictures[p].versions > 0
              /\ Moves(s, "bytes") /\ UNCHANGED <<pictures, audit>>
           \/ /\ p \notin DOMAIN pictures \/ p \notin DOMAIN objects
              /\ Ends(s) /\ UNCHANGED <<pictures, audit>>
        /\ UNCHANGED <<objects, staged, cache, sweeps, shared, limits>>

(* copy_object of a copy's source, which may be gone, and copy_to of a file that is written *)
CopyBytes ==
    \E s \in Slots :
        /\ At(s, "bytes")
        /\ LET c == call[s] IN
           IF c.kind = "copy" /\ c.source \notin DOMAIN objects
           THEN Ends(s) /\ UNCHANGED objects
           ELSE /\ objects' = With(objects, c.pic, IF c.kind = "copy" THEN objects[c.source] ELSE c.size)
                /\ Moves(s, "commit")
        /\ UNCHANGED <<pictures, staged, cache, sweeps, shared, audit, limits>>

(* the transaction that inserts the row; an id that is taken fails it *)
CommitRow(s, p) ==
    LET size == IF call[s].size = Nothing THEN 0 ELSE call[s].size
    IN  IF p \in DOMAIN pictures
        THEN Ends(s) /\ UNCHANGED <<pictures, audit>>
        ELSE pictures' = With(pictures, p, NewRow(size)) /\ Bills(s, size, size) /\ Moves(s, "invalidate")

(* set_file_hash: whatever size the row has by now, if it is still there *)
CommitSize(s, p) ==
    /\ IF p \in DOMAIN pictures
       THEN /\ pictures' = [pictures EXCEPT ![p].size = call[s].size]
            /\ Bills(s, call[s].size - pictures[p].size, Beyond(call[s].size, call[s].old))
       ELSE UNCHANGED <<pictures, audit>>
    /\ Moves(s, "invalidate")

Commit ==
    \E s \in Slots :
        /\ At(s, "commit")
        /\ IF call[s].kind = "overwrite" THEN CommitSize(s, call[s].pic) ELSE CommitRow(s, call[s].pic)
        /\ UNCHANGED <<objects, staged, cache, sweeps, shared, limits>>

(* the session goes with the upload that it was for *)
SessionsLeft(c) == IF c.kind = "overwrite" THEN sessions ELSE sessions \ {c.pic}

(* a fault: the mirror goes on saying what it said *)
InvalidateNothing ==
    \E s \in Slots :
        /\ At(s, "invalidate")
        /\ sessions' = SessionsLeft(call[s])
        /\ Ends(s)
        /\ UNCHANGED <<store, reserved, mirror, sweeps, shared, audit, limits>>

(* invalidate_committed, and the session of an upload goes *)
Invalidate ==
    \E s \in Slots :
        /\ At(s, "invalidate")
        /\ mirror' = Nothing
        /\ sessions' = SessionsLeft(call[s])
        /\ Ends(s)
        /\ UNCHANGED <<store, reserved, sweeps, shared, audit, limits>>

(* the process dies under a request; bytes committed and not yet announced leave a total that *)
(* goes on being relied on                                                                    *)
CallDies ==
    \E s \in Slots :
        /\ call[s] # Free /\ crashes < MaxCrashes
        /\ crashes' = crashes + 1
        /\ overlapped' = (overlapped \/ Unannounced(call[s]))
        /\ Ends(s)
        /\ UNCHANGED <<store, cache, sweeps, shared, unchecked, calls, expiries>>
----------------------------------------------------------------------------
(* The cache forgets, the trash, and the sweeps *)

Expires ==
    /\ expiries < MaxExpiries /\ expiries' = expiries + 1
    /\ \/ mirror' = Nothing /\ UNCHANGED <<sessions, reserved>>
       \/ \E p \in sessions : sessions' = sessions \ {p} /\ UNCHANGED <<mirror, reserved>>
       \/ \E p \in DOMAIN reserved : reserved' = Without(reserved, p) /\ UNCHANGED <<mirror, sessions>>
    /\ UNCHANGED <<store, call, sweeps, shared, audit, calls, crashes>>

(* claim_job of an edit: a version before the file is written over, of the size the claim has read, *)
(* and neither a check nor a word to the mirror                                                    *)
WorkerSnapshots ==
    /\ calls < MaxCalls /\ calls' = calls + 1
    /\ \E p \in DOMAIN pictures, size \in Sizes :
        /\ pictures' = [pictures EXCEPT ![p].versions = @ + size]
        /\ unchecked' = unchecked + size
    /\ UNCHANGED <<objects, staged, cache, call, sweeps, shared, overlapped, expiries, crashes>>

(* complete_job: the size of the file the worker has read or written, unchecked and unannounced too *)
WorkerReports ==
    /\ calls < MaxCalls /\ calls' = calls + 1
    /\ \E p \in DOMAIN pictures, size \in Sizes :
        /\ pictures' = [pictures EXCEPT ![p].size = size]
        /\ unchecked' = unchecked + Beyond(size, pictures[p].size)
    /\ UNCHANGED <<objects, staged, cache, call, sweeps, shared, overlapped, expiries, crashes>>

SetTrashed ==
    /\ calls < MaxCalls /\ calls' = calls + 1
    /\ \E p \in DOMAIN pictures : pictures' = [pictures EXCEPT ![p].trashed = ~@]
    /\ UNCHANGED <<objects, staged, cache, call, sweeps, shared, audit, expiries, crashes>>

(* find_purgeable: the retention is at least a day (services/user_settings.rs), which no request *)
(* and no upload session about the picture outlasts. *)
Retained(p) == p \in sessions \/ \E s \in Slots : call[s].pic = p

ListPurgeable ==
    /\ listed = {}
    /\ listed' = {p \in DOMAIN pictures : pictures[p].trashed /\ ~Retained(p)}
    /\ listed' # {}
    /\ UNCHANGED <<store, cache, call, unlinked, recount, shared, audit, limits>>

(* purge_one: the row, as it was listed; then the objects *)
PurgeRow ==
    \E p \in listed :
        /\ unlinked = {}
        /\ pictures' = Without(pictures, p)
        /\ listed' = listed \ {p}
        /\ unlinked' = {p}
        /\ UNCHANGED <<objects, staged, cache, call, recount, shared, audit, limits>>

(* a fault: the objects go first, and the row is left for the next sweep when that dies *)
PurgeObjectsListed ==
    \E p \in listed :
        /\ objects' = Without(objects, p)
        /\ UNCHANGED <<pictures, staged, cache, call, sweeps, shared, audit, limits>>

PurgeObjects ==
    \E p \in unlinked :
        /\ objects' = Without(objects, p)
        /\ unlinked' = {}
        /\ UNCHANGED <<pictures, staged, cache, call, listed, recount, shared, audit, limits>>

(* storage_reconcile: the totals in one statement, then the mirror *)
Recount ==
    /\ recount = Nothing /\ expiries < MaxExpiries /\ expiries' = expiries + 1
    /\ recount' = Billed
    /\ UNCHANGED <<store, cache, call, listed, unlinked, shared, audit, calls, crashes>>

CacheRecount ==
    /\ recount # Nothing
    /\ mirror' = recount /\ recount' = Nothing
    /\ UNCHANGED <<store, sessions, reserved, call, listed, unlinked, shared, audit, limits>>

UploadsNext ==
    \/ Begin \/ Put \/ Complete \/ Promote \/ Clear \/ Copy \/ PutNew \/ Overwrite
    \/ ReadTotal \/ FillMirror \/ Decide \/ CommitVersion \/ CopyBytes \/ Commit \/ Invalidate \/ CallDies
    \/ Expires \/ WorkerSnapshots \/ WorkerReports \/ SetTrashed \/ ListPurgeable \/ PurgeRow \/ PurgeObjects
    \/ Recount \/ CacheRecount

UploadsSpec == UploadsInit /\ [][UploadsNext]_uploadVars
----------------------------------------------------------------------------
(* Properties *)

(* what each kind of request goes through *)
Checking == {"check", "fill", "decide"}
InOrder(c) ==
    /\ c.kind # "overwrite" => c.old = 0 /\ ~c.snaps
    /\ \/ c.kind = "begin" /\ c.stage \in Checking
       \/ c.kind = "complete" /\ c.stage \in Checking \cup {"promote", "clear", "commit", "invalidate"}
       \/ c.kind \in {"copy", "put"} /\ c.stage \in Checking \cup {"bytes", "commit", "invalidate"}
          /\ IF c.kind = "copy" THEN c.size # Nothing /\ c.source # Nothing ELSE c.size \in Sizes
       \/ c.kind = "overwrite" /\ c.stage \in Checking \cup {"snapshot", "bytes", "commit", "invalidate"}
          /\ c.size \in Sizes /\ (c.stage = "snapshot" => c.snaps)

CallType ==
    [kind : {"begin", "complete", "copy", "put", "overwrite"}, pic : UploadIds, source : UploadIds \cup {Nothing},
     size : Sizes \cup {0, Nothing}, old : Sizes \cup {0}, snaps : BOOLEAN, total : Nat \cup {Nothing},
     stage : Checking \cup {"promote", "clear", "snapshot", "bytes", "commit", "invalidate"}]

RowType == [size : Sizes \cup {0}, versions : Nat, trashed : BOOLEAN]

(* Rows, objects, cache entries and calls have their types, and a call is at a stage of its kind. *)
UploadsTypeOK ==
    /\ pictures \in [DOMAIN pictures -> RowType]
    /\ objects \in [DOMAIN objects -> Sizes] /\ staged \in [DOMAIN staged -> Sizes]
    /\ reserved \in [DOMAIN reserved -> Sizes \cup {0}]
    /\ DOMAIN pictures \cup DOMAIN objects \cup DOMAIN staged \cup DOMAIN reserved \cup sessions \subseteq UploadIds
    /\ mirror \in Nat \cup {Nothing} /\ recount \in Nat \cup {Nothing}
    /\ listed \cup unlinked \cup shared \subseteq UploadIds
    /\ call \in [Slots -> CallType \cup {Free}]
    /\ \A s \in Slots : call[s] # Free => InOrder(call[s])
    /\ overlapped \in BOOLEAN /\ unchecked \in Nat

(* Every picture row has its original in the object store, over every crash, purge, copy and *)
(* late file; but not when a second request completes an upload that is being completed, or   *)
(* that was but kept its session: over the quota, it takes the object away (upload.rs 297-307).*)
FileBehindEveryRow == DOMAIN pictures \subseteq DOMAIN objects \cup shared

(* The quota holds but for the bytes no check is asked about, which storage.rs 1-5 does not know  *)
(* of: versions that claims take, what workers report, the bytes a shrinking overwrite keeps of    *)
(* the old file until it is through, and what a row lost under an overwrite.  It holds as long as  *)
(* no request commits bytes that another one, or the reconciler, has already counted without: the  *)
(* mirror in the cache never lets a request through that the database would refuse for what the    *)
(* requests themselves have added.                                                                 *)
QuotaHolds == overlapped \/ Billed <= Quota + unchecked
=============================================================================
