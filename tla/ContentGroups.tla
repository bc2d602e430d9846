--------------------------- MODULE ContentGroups ---------------------------
(***************************************************************************)
(* The rows of one user that hold the same content, and how one of them     *)
(* becomes the picture the user sees (routines/pipeline/dedup.rs,           *)
(* repository/dedup.rs, services/dedup.rs, services/pictures/lifecycle.rs). *)
(*                                                                         *)
(* Rows with the same content key form a group.  A live group shows one row *)
(* and hides the others as content_dedupe; a rejected group shows one       *)
(* manual row in the trash and hides the others as boomerang.  Arrivals,    *)
(* hashes, the user's trash, restore and keep, and departures break this;   *)
(* the run of the pipeline restores it, group by group, from rows it reads  *)
(* without a lock.                                                          *)
(***************************************************************************)
EXTENDS TagTree

CONSTANTS
    Rows,           \* picture ids, numbers: their order is the last tie-break
    Traits,         \* for each row: owned, and copy (a physical copy of another picture)
    Keys,           \* content keys
    UserTags,       \* manual tags the user gives
    Held,           \* the rows at the start
    MaxGroupChanges,\* requests, arrivals and departures, bounded for TLC
    MaxRestarts     \* restarts of the process, bounded for TLC

NoKey == "unhashed"
Live == "live"
Rejection == {"manual", "boomerang"}

(* a row of pictures, as far as its group goes *)
LibraryRow == [key : Keys \cup {NoKey}, reason : {Live, "content_dedupe"} \cup Rejection,
               ownerDeleted : BOOLEAN, tags : SUBSET UserTags]

ASSUME GroupsAssumption ==
    /\ IsFiniteSet(Rows) /\ Rows \subseteq Nat \ {0} /\ NoKey \notin Keys
    /\ \A r \in Rows : Traits[r].owned \in BOOLEAN /\ Traits[r].copy \in BOOLEAN
    /\ DOMAIN Held \subseteq Rows /\ Held \in [DOMAIN Held -> LibraryRow]

VARIABLES
    lib,      \* the rows that exist: key, reason (Live, or why it is deleted), ownerDeleted, tags
    arrivals, \* received rows still to be classified, each with the verdict read for it
    keep,     \* "keep this copy" between its reads and its writes
    groupRun, \* the deduplication part of a pipeline run
    woken,    \* the pipeline has been triggered for the user
    purging,  \* rows the purge sweep has listed
    lostWake, \* history: a restart lost a wake, a run or an arrival's classification
    groupChanges, restarts

groupVars == <<lib, arrivals, keep, groupRun, woken, purging, lostWake, groupChanges, restarts>>

NotRunning == [stage |-> "idle"]
NotKeeping == [row |-> 0]
----------------------------------------------------------------------------
Group(k) == {r \in DOMAIN lib : lib[r].key = k}
(* a row without a key equals nothing, not even itself *)
SameContent(r) == IF lib[r].key = NoKey THEN {} ELSE Group(lib[r].key)
OfReason(rs, reasons) == {r \in rs : lib[r].reason \in reasons}

(* sort_key and the ORDER BY of reject_content_group: kept by its owner, owned, original, *)
(* lowest id *)
SortKey(r, rows) ==
    <<rows[r].ownerDeleted, ~Traits[r].owned, Traits[r].copy>>

Precedes(r, s, rows) ==
    LET a == SortKey(r, rows)
        b == SortKey(s, rows)
    IN  \/ \E i \in 1..3 : ~a[i] /\ b[i] /\ \A j \in 1..(i - 1) : a[j] = b[j]
        \/ a = b /\ r <= s

Best(rs, rows) == CHOOSE r \in rs : \A s \in rs : Precedes(r, s, rows)

(* a row comes into the library *)
Created(r, row) == [s \in DOMAIN lib \cup {r} |-> IF s = r THEN row ELSE lib[s]]

(* the rows of rs are given a reason *)
Marked(rows, rs, reason) ==
    [r \in DOMAIN rows |-> IF r \in rs THEN [rows[r] EXCEPT !.reason = reason] ELSE rows[r]]

(* group_manual_tag_paths and batch_assign: the tags of the others come onto the target, *)
(* unless it is deleted *)
Merged(rows, rs, target) ==
    LET others == UNION {rows[r].tags : r \in rs \ {target}}
    IN  IF rows[target].reason = Live
        THEN [rows EXCEPT ![target].tags = Assign(@, others)] ELSE rows

GroupChange == groupChanges < MaxGroupChanges /\ groupChanges' = groupChanges + 1 /\ UNCHANGED restarts
Wake == woken' = TRUE

GroupsInit ==
    /\ lib = Held /\ arrivals = {} /\ keep = NotKeeping /\ groupRun = NotRunning
    /\ woken = FALSE /\ purging = {} /\ lostWake = FALSE
    /\ groupChanges = 0 /\ restarts = 0
----------------------------------------------------------------------------
(* Arrivals and departures *)

(* register_received_pictures: a new row is live; a known one takes the owner's state, and a *)
(* key if one is announced.  Both are classified after the commit, and only then is the run   *)
(* triggered. *)
Receive ==
    /\ GroupChange
    /\ \E r \in {s \in Rows : ~Traits[s].owned}, k \in Keys \cup {NoKey}, gone \in BOOLEAN :
        /\ lib' = IF r \in DOMAIN lib
                  THEN [lib EXCEPT ![r].ownerDeleted = gone, ![r].key = IF k = NoKey THEN @ ELSE k]
                  ELSE Created(r, [key |-> k, reason |-> Live, ownerDeleted |-> gone, tags |-> {}])
        /\ arrivals' = arrivals \cup {[row |-> r, verdict |-> "unread"]}
    /\ UNCHANGED <<keep, groupRun, woken, purging, lostWake>>

(* classify_arrival, first half: is there a rejection among the others? *)
ClassifyReads ==
    \E a \in arrivals :
        /\ a.verdict = "unread"
        /\ LET others == IF a.row \in DOMAIN lib THEN SameContent(a.row) \ {a.row} ELSE {}
               rejected == OfReason(others, Rejection) # {}
           IN  /\ arrivals' = (arrivals \ {a})
                       \cup (IF rejected THEN {[a EXCEPT !.verdict = "reject"]} ELSE {})
               /\ woken' = (woken \/ ~rejected)
        /\ UNCHANGED <<lib, keep, groupRun, purging, lostWake, groupChanges, restarts>>

(* classify_arrival, second half: the arrival itself is hidden *)
ClassifyWrites ==
    \E a \in arrivals :
        /\ a.verdict = "reject"
        /\ lib' = Marked(lib, {a.row}, "boomerang")
        /\ arrivals' = arrivals \ {a}
        /\ Wake
        /\ UNCHANGED <<keep, groupRun, purging, lostWake, groupChanges, restarts>>

(* an upload or a copy: an owned row, its key known at once or when the worker has hashed it *)
Upload ==
    /\ GroupChange
    /\ \E r \in {s \in Rows \ DOMAIN lib : Traits[s].owned}, k \in Keys \cup {NoKey} :
        lib' = Created(r, [key |-> k, reason |-> Live, ownerDeleted |-> FALSE, tags |-> {}])
    /\ Wake
    /\ UNCHANGED <<arrivals, keep, groupRun, purging, lostWake>>

(* a worker's completion: the first key of a row, or a new one after its pixels changed *)
Hashed ==
    /\ GroupChange
    /\ \E r \in {s \in DOMAIN lib : Traits[s].owned}, k \in Keys :
        lib' = [lib EXCEPT ![r].key = k]
    /\ Wake
    /\ UNCHANGED <<arrivals, keep, groupRun, purging, lostWake>>

(* unregister_announced_pictures deletes a received row with no share left *)
Unannounced ==
    /\ GroupChange
    /\ \E r \in {s \in DOMAIN lib : ~Traits[s].owned} :
        lib' = [s \in DOMAIN lib \ {r} |-> lib[s]]
    /\ Wake
    /\ UNCHANGED <<arrivals, keep, groupRun, purging, lostWake>>

(* find_purgeable: owned rows whose retention has elapsed, whatever their reason *)
FindPurgeable ==
    /\ purging = {} /\ GroupChange
    /\ \E rs \in (SUBSET {r \in DOMAIN lib : Traits[r].owned /\ lib[r].reason # Live}) \ {{}} :
        purging' = rs
    /\ UNCHANGED <<lib, arrivals, keep, groupRun, woken, lostWake>>

(* purge_one deletes the row as listed, restored since or not, and wakes nobody *)
PurgeOne ==
    \E r \in purging :
        /\ lib' = [s \in DOMAIN lib \ {r} |-> lib[s]]
        /\ purging' = purging \ {r}
        /\ UNCHANGED <<arrivals, keep, groupRun, woken, lostWake, groupChanges, restarts>>
----------------------------------------------------------------------------
(* The user *)

(* batch_edit_tags on one live picture *)
TagPicture ==
    /\ GroupChange
    /\ \E r \in OfReason(DOMAIN lib, {Live}), t \in UserTags :
        \/ lib' = [lib EXCEPT ![r].tags = Assign(@, {t})]
        \/ t \in lib[r].tags /\ lib' = [lib EXCEPT ![r].tags = RemoveTags(@, {t})]
    /\ Wake
    /\ UNCHANGED <<arrivals, keep, groupRun, purging, lostWake>>

(* set_trashed(true): the row, then its whole group: the best row stays visible in the trash *)
Trash ==
    /\ GroupChange
    /\ \E r \in DOMAIN lib :
        LET group == SameContent(r)
        IN  lib' = IF group = {} THEN Marked(lib, {r}, "manual")
                   ELSE Marked(Marked(lib, group, "boomerang"), {Best(group, lib)}, "manual")
    /\ Wake
    /\ UNCHANGED <<arrivals, keep, groupRun, purging, lostWake>>

(* set_trashed(false): the row, and its boomerang siblings are merely hidden again *)
Restore ==
    /\ GroupChange
    /\ \E r \in DOMAIN lib :
        lib' = Marked(Marked(lib, OfReason(SameContent(r) \ {r}, {"boomerang"}), "content_dedupe"),
                      {r}, Live)
    /\ Wake
    /\ UNCHANGED <<arrivals, keep, groupRun, purging, lostWake>>

(* batch_set_trashed_selection(true): hidden rows of every group with a manual row follow *)
TrashBatch ==
    /\ GroupChange
    /\ \E rs \in SUBSET DOMAIN lib \ {{}} :
        LET trashed == Marked(lib, rs, "manual")
            followers == {r \in DOMAIN lib :
                /\ trashed[r].reason = "content_dedupe"
                /\ \E m \in SameContent(r) \ {r} : trashed[m].reason = "manual"}
        IN  lib' = Marked(trashed, followers, "boomerang")
    /\ Wake
    /\ UNCHANGED <<arrivals, keep, groupRun, purging, lostWake>>

(* batch_set_trashed_selection(false): a boomerang beside a live row is merely hidden again *)
RestoreBatch ==
    /\ GroupChange
    /\ \E rs \in SUBSET DOMAIN lib \ {{}} :
        LET restored == Marked(lib, rs, Live)
            followers == {r \in DOMAIN lib :
                /\ restored[r].reason = "boomerang"
                /\ \E m \in SameContent(r) \ {r} : restored[m].reason = Live}
        IN  lib' = Marked(restored, followers, "content_dedupe")
    /\ Wake
    /\ UNCHANGED <<arrivals, keep, groupRun, purging, lostWake>>

(* set_picture_survivor, its reads: the row that was live until now *)
KeepBegins ==
    /\ keep = NotKeeping /\ GroupChange
    /\ \E r \in DOMAIN lib :
        LET live == OfReason(SameContent(r) \ {r}, {Live})
        IN  keep' = [row |-> r, wasLive |-> lib[r].reason = Live,
                     old |-> IF live = {} THEN 0 ELSE CHOOSE s \in live : \A t \in live : s <= t]
    /\ UNCHANGED <<lib, arrivals, groupRun, woken, purging, lostWake>>

(* set_survivor, and the tags: those of the old survivor replace, or the group's are merged *)
KeepCommits ==
    /\ keep # NotKeeping
    /\ LET r == keep.row IN
       IF r \notin DOMAIN lib THEN UNCHANGED <<lib, woken>>
       ELSE LET group == SameContent(r)
                kept == Marked(Marked(lib, group \ {r}, "content_dedupe"), group \cap {r}, Live)
                oldTags == IF keep.old \in DOMAIN lib THEN lib[keep.old].tags ELSE {}
            IN  /\ group # {}
                /\ lib' = IF keep.old # 0 THEN [kept EXCEPT ![r].tags = Assign({}, oldTags)]
                          ELSE IF keep.wasLive THEN kept ELSE Merged(kept, group, r)
                /\ Wake
    /\ keep' = NotKeeping
    /\ UNCHANGED <<arrivals, groupRun, purging, lostWake, groupChanges, restarts>>

(* set_survivor of a row without a key updates nothing: 404 *)
KeepRefused ==
    /\ keep.row \in DOMAIN lib /\ SameContent(keep.row) = {}
    /\ keep' = NotKeeping
    /\ UNCHANGED <<lib, arrivals, groupRun, woken, purging, lostWake, groupChanges, restarts>>
----------------------------------------------------------------------------
(* The run *)

(* a fault: rows hidden with nothing left to show them are not looked for *)
SweepFindsLive(k) == Cardinality(OfReason(Group(k), {Live})) > 1

(* find_users_needing_reconcile: groups the recovery sweep finds *)
SweepFinds(k) ==
    LET count(reasons) == Cardinality(OfReason(Group(k), reasons))
    IN  \/ count({Live}) > 1
        \/ count({Live}) = 0 /\ count({"content_dedupe"}) > 0 /\ count(Rejection) = 0
        \/ count({Live}) = 0 /\ count({"boomerang"}) > 0 /\ count({"manual"}) = 0

(* find_candidate_keys *)
Candidate(k) ==
    \/ Cardinality(Group(k)) > 1
    \/ OfReason(Group(k), {"content_dedupe"}) # {}
    \/ OfReason(Group(k), {"boomerang"}) # {} /\ OfReason(Group(k), {"manual"}) = {}

GroupRunDue == woken \/ \E k \in Keys : SweepFinds(k)

(* a dirty picture starts a run too, at any time *)
ListKeys ==
    /\ groupRun = NotRunning
    /\ groupRun' = [stage |-> "keys", todo |-> {k \in Keys : Candidate(k)}]

GroupRunStarts ==
    /\ ListKeys
    /\ woken' = FALSE
    /\ UNCHANGED <<lib, arrivals, keep, purging, lostWake, groupChanges, restarts>>

(* reconcile_group reads the rows of its group *)
NextGroup ==
    /\ groupRun.stage = "keys"
    /\ \E k \in groupRun.todo :
        groupRun' = [stage |-> "write", todo |-> groupRun.todo \ {k}, key |-> k,
                     rows |-> [r \in Group(k) |-> lib[r]]]

GroupRead ==
    /\ NextGroup
    /\ UNCHANGED <<lib, arrivals, keep, woken, purging, lostWake, groupChanges, restarts>>

(* a fault: rows already rejected are taken to be as they should be *)
VerdictsOfNew(rows) ==
    LET all == DOMAIN rows
        of(reasons) == {r \in all : rows[r].reason \in reasons}
        live == of({Live})
        hidden == of({"content_dedupe"})
    IN  IF of(Rejection) # {} THEN [r \in live \cup hidden |-> "boomerang"]
        ELSE IF Cardinality(live) > 1
             THEN [r \in live \ {Best(live, rows)} |-> "content_dedupe"]
        ELSE IF live = {} /\ hidden # {} THEN [r \in {Best(hidden, rows)} |-> Live]
        ELSE [r \in {} |-> Live]

(* the reasons reconcile_group writes for the rows it read: rows it leaves alone are absent *)
Verdicts(rows) ==
    LET all == DOMAIN rows
        of(reasons) == {r \in all : rows[r].reason \in reasons}
        live == of({Live})
        hidden == of({"content_dedupe"})
        Wanted(r) == IF r = Best(all, rows) THEN "manual" ELSE "boomerang"
    IN  IF of(Rejection) # {} THEN [r \in {s \in all : rows[s].reason # Wanted(s)} |-> Wanted(r)]
        ELSE IF Cardinality(live) > 1
             THEN [r \in live \ {Best(live, rows)} |-> "content_dedupe"]
        ELSE IF live = {} /\ hidden # {} THEN [r \in {Best(hidden, rows)} |-> Live]
        ELSE [r \in {} |-> Live]

(* the row that takes over the tags of its group, if any *)
Heir(rows) ==
    LET verdicts == Verdicts(rows)
        live == {r \in DOMAIN rows : rows[r].reason = Live}
    IN  IF \E r \in DOMAIN verdicts : verdicts[r] = Live THEN DOMAIN verdicts
        ELSE IF \E r \in DOMAIN verdicts : verdicts[r] = "content_dedupe"
             THEN live \ DOMAIN verdicts
        ELSE {}

(* the writes name the rows by id, as they were read; only a promotion looks at the reason again *)
Reconciled(rows) ==
    LET verdicts == Verdicts(rows)
        applies(r) == verdicts[r] = Live => lib[r].reason = "content_dedupe"
        written == [r \in DOMAIN lib |->
            IF r \in DOMAIN verdicts /\ applies(r) THEN [lib[r] EXCEPT !.reason = verdicts[r]]
            ELSE lib[r]]
        heirs == Heir(rows) \cap DOMAIN lib
    IN  IF heirs = {} THEN written
        ELSE LET heir == CHOOSE r \in heirs : TRUE IN Merged(written, SameContent(heir), heir)

GroupDone == groupRun.stage = "write" /\ groupRun' = [stage |-> "keys", todo |-> groupRun.todo]

GroupWrite ==
    /\ GroupDone
    /\ lib' = Reconciled(groupRun.rows)
    /\ UNCHANGED <<arrivals, keep, woken, purging, lostWake, groupChanges, restarts>>

KeysDone == groupRun.stage = "keys" /\ groupRun.todo = {} /\ groupRun' = NotRunning

GroupRunEnds ==
    /\ KeysDone
    /\ UNCHANGED <<lib, arrivals, keep, woken, purging, lostWake, groupChanges, restarts>>

(* what is only in memory is gone *)
Restart ==
    /\ restarts < MaxRestarts
    /\ restarts' = restarts + 1
    /\ lostWake' = (lostWake \/ woken \/ groupRun # NotRunning \/ arrivals # {})
    /\ woken' = FALSE /\ groupRun' = NotRunning /\ arrivals' = {} /\ keep' = NotKeeping /\ purging' = {}
    /\ UNCHANGED <<lib, groupChanges>>

(* how the run goes on; of the actions, only those above and Restart do this *)
GroupStep == (GroupRunDue /\ ListKeys) \/ NextGroup \/ GroupDone \/ KeysDone
Classified == \E a \in arrivals : arrivals' = arrivals \ {a}
KeepDone == keep # NotKeeping /\ keep' = NotKeeping

GroupsNext ==
    \/ Receive \/ ClassifyReads \/ ClassifyWrites \/ Upload \/ Hashed \/ Unannounced
    \/ FindPurgeable \/ PurgeOne
    \/ TagPicture \/ Trash \/ Restore \/ TrashBatch \/ RestoreBatch
    \/ KeepBegins \/ KeepCommits \/ KeepRefused
    \/ GroupRunStarts \/ GroupRead \/ GroupWrite \/ GroupRunEnds \/ Restart

GroupsSpec == GroupsInit /\ [][GroupsNext]_groupVars

(* the routine runs a user it was triggered for, and its sweep triggers those it finds; a *)
(* request that has begun ends *)
GroupsFairness ==
    /\ WF_groupRun(GroupStep)
    /\ WF_arrivals(Classified)
    /\ WF_keep(KeepDone)
----------------------------------------------------------------------------
(* Properties *)

(* The rows and the requests in flight have their types. *)
GroupsTypeOK ==
    /\ DOMAIN lib \subseteq Rows
    /\ \A r \in DOMAIN lib :
        /\ lib[r].key \in Keys \cup {NoKey}
        /\ lib[r].reason \in {Live, "content_dedupe"} \cup Rejection
        /\ lib[r].ownerDeleted \in BOOLEAN /\ lib[r].tags \subseteq UserTags
    /\ \A a \in arrivals : a.row \in Rows /\ a.verdict \in {"unread", "reject"}
    /\ keep.row \in Rows \cup {0}
    /\ groupRun.stage \in {"idle", "keys", "write"}
    /\ purging \subseteq Rows
    /\ woken \in BOOLEAN /\ lostWake \in BOOLEAN

Counted(k, reasons) == Cardinality(OfReason(Group(k), reasons))

(* a Live group with one survivor, or a Rejected one with one representative *)
Settled(k) ==
    \/ Group(k) = {}
    \/ Counted(k, {Live}) = 1 /\ Counted(k, Rejection) = 0
    \/ Counted(k, {"manual"}) = 1 /\ Counted(k, {Live, "content_dedupe"}) = 0

(* content the user can find neither in the library nor in the trash *)
Invisible(k) == Group(k) # {} /\ Counted(k, {Live, "manual"}) = 0

(* Every content group reaches its invariant after any change (dedup.rs 1-5), whatever the   *)
(* reads of the run, of an arrival and of the user's requests missed of one another; after a *)
(* restart that lost a wake, at least no content stays invisible (the sweep's backstop).     *)
EveryGroupSettles ==
    \A k \in Keys :
        /\ ~Settled(k) ~> (Settled(k) \/ lostWake)
        /\ Invisible(k) ~> ~Invisible(k)

(* A run that nothing overtook leaves its group settled, and does not touch one that was so, *)
(* whose representative is the one a trash would choose: the two orderings of the code agree *)
(* and a stable survivor is never reshuffled (dedup.rs 1-5, 37-41).                          *)
RunSettles ==
    [][\A k \in Keys :
        LET chosen == Counted(k, {"manual"}) = 1 => OfReason(Group(k), {"manual"}) = {Best(Group(k), lib)}
        IN  GroupWrite /\ groupRun.key = k /\ groupRun.rows = [r \in Group(k) |-> lib[r]]
            => Settled(k)' /\ (Settled(k) /\ chosen => lib' = lib)]_groupVars
=============================================================================
