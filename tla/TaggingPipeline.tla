-------------------------- MODULE TaggingPipeline --------------------------
(***************************************************************************)
(* The tagging pipeline of one user: the run that evaluates the enabled     *)
(* services over the dirty pictures (routines/pipeline/evaluation.rs), and  *)
(* everything that changes what it reads while it works: tag edits, EXIF    *)
(* and share changes, service updates in their transactions, the rename     *)
(* cascade.                                                                 *)
(*                                                                         *)
(* A picture is dirty when its mark is Never or older than the last         *)
(* invalidation of an enabled service.  A run reads the services, then the  *)
(* pictures, then the tags of one chunk at a time, and stamps the chunk     *)
(* with the time it started.  The clock counts the invalidations, which come   *)
(* between the runs; a service update is stamped when its transaction begins. *)
(***************************************************************************)
EXTENDS Pruning

CONSTANTS
    Pics,       \* the user's pictures
    Ids,        \* service ids
    Paths,      \* the tags users and services give
    ShareTag,   \* the tag the one incoming share gives its pictures
    Initial,    \* the services at the start: a function from a subset of Ids to definitions
    Creatable,  \* definitions a new service may have
    Patches,    \* what PATCH may change: functions from some of PatchFields to values
    Configs,    \* the tags PUT config may make a service emit
    Edits,      \* tag edits: records of added and removed paths
    Renames,    \* pairs of the old and new path of a rename
    ChunkSize,  \* 100 in the code
    MaxEvents   \* changes by users and shares, and failures, bounded for TLC

ASSUME BoundsAssumption == ChunkSize \in Nat \ {0} /\ MaxEvents \in Nat
ASSUME IdsAssumption == IsFiniteSet(Ids)

Tag == Paths \cup {ShareTag}
FiniteTags == {paths \in SUBSET Tag : IsFiniteSet(paths)}
Assignable == {paths \in FiniteTags : ShareTag \notin paths}

(* what a service is created with; it gates on any tag and gives those of its user *)
IsDefinition(d) ==
    /\ d.kind \in {"rule", "mapping"} /\ d.enabled \in BOOLEAN /\ d.prune \in BOOLEAN
    /\ d.requires \in FiniteTags /\ d.excludes \in FiniteTags /\ d.keep \in FiniteTags
    /\ d.assign \in Assignable

PatchFields == {"enabled", "requires", "excludes", "prune", "keep"}

IsPatch(patch) ==
    \A f \in DOMAIN patch \cap PatchFields :
        IF f \in {"enabled", "prune"} THEN patch[f] \in BOOLEAN ELSE patch[f] \in FiniteTags

ASSUME TagAssumption ==
    /\ \A t \in Tag : t \in Seq(STRING) /\ t # << >>
    /\ ShareTag \notin Paths
ASSUME ServicesAssumption ==
    /\ DOMAIN Initial \subseteq Ids
    /\ \A i \in DOMAIN Initial : IsDefinition(Initial[i]) /\ Initial[i].position \in Int
    /\ \A i, j \in DOMAIN Initial : i # j => Initial[i].position # Initial[j].position
    /\ \A d \in Creatable : IsDefinition(d)
    /\ \A patch \in Patches : IsPatch(patch)
    /\ Configs \subseteq Assignable
(* a rename moves tags of the user to tags of the user: both ends are parsed paths, never reserved *)
ASSUME EditsAssumption ==
    /\ \A e \in Edits : e.add \in FiniteTags /\ e.remove \in FiniteTags
    /\ \A r \in Renames :
           /\ ~IsAncestorOrSelf(r.old, ShareTag)
           /\ \A t \in Paths :
                  IsAncestorOrSelf(r.old, t) => r.new \o SubSeq(t, Len(r.old) + 1, Len(t)) \in Paths

Never == 0
None == [kind |-> "none"]

VARIABLES
    manual, incoming, auto, \* the tag rows of each picture, by source; auto rows carry their service
    fact,                   \* whether a picture has the data the rules look for
    mark,                   \* last_pipeline_run_at
    svc,                    \* the tagging_services rows
    clock,
    txn,                    \* the open service transaction, or a config replaced but not yet touched
    run,
    missed,                 \* history: pictures whose mark is not to be trusted, see MarkRun
    events

rows == <<manual, incoming, auto>>
pipelineVars == <<rows, fact, mark, svc, clock, txn, run, missed, events>>

Idle == [stage |-> "idle"]
----------------------------------------------------------------------------
(* Services *)

Active(services) == {i \in DOMAIN services : services[i].enabled}

(* list_enabled_by_owner: mappings first, the others by position *)
Rank(service) == IF service.kind = "mapping" THEN 0 ELSE 1

Before(services, i, j) ==
    \/ Rank(services[i]) < Rank(services[j])
    \/ Rank(services[i]) = Rank(services[j]) /\ services[i].position < services[j].position

ListEnabled(services) ==
    CHOOSE order \in [1..Cardinality(Active(services)) -> Active(services)] :
        \A k, l \in DOMAIN order : k < l => Before(services, order[k], order[l])

Dirty(p, marks, services) ==
    \/ marks[p] = Never
    \/ \E i \in Active(services) : marks[p] < services[i].invalidated

(* ServiceConfig::evaluate: a mapping emits for the pictures of its share, a rule where it matches *)
Emits(service, known, shared) ==
    IF (service.kind = "mapping" /\ shared # {}) \/ (service.kind = "rule" /\ known)
    THEN service.assign ELSE {}

(* a service as Pruning sees it for one picture *)
Gated(service, known, shared) ==
    [enabled |-> TRUE, emits |-> Emits(service, known, shared),
     requires |-> service.requires, excludes |-> service.excludes,
     prune |-> service.prune, keep |-> service.keep]

ForPicture(services, order, known, shared) ==
    [k \in DOMAIN order |-> Gated(services[order[k]], known, shared)]

(* what one picture's evaluation produces: its rows, each with its service *)
Produced(services, known, own, shared) ==
    LET order == ListEnabled(services)
        out == Outputs(ForPicture(services, order, known, shared), own \cup shared)
    IN  UNION {{order[k]} \X out[k] : k \in DOMAIN order}
----------------------------------------------------------------------------
(* What a change does to the run under way *)

(* pictures of the chunk whose tags have been read *)
ReadTags == IF run.stage = "apply" THEN run.chunk ELSE {}
(* pictures whose row has been read *)
ReadRows == IF run.stage \in {"batch", "apply"} THEN run.todo \cup ReadTags ELSE {}

Overtaken(ps) == [run EXCEPT !.overtaken = @ \cup ps]
OvertakenTags(ps) == IF run.stage = "apply" THEN Overtaken(ps \cap ReadTags) ELSE run
(* no picture is read before the services are *)
OvertakenServices == IF run.stage \in {"loaded", "batch", "apply"} THEN Overtaken(Pics) ELSE run
(* unless the stamp of an enabled service makes dirty again what the run stamps; a picture whose *)
(* own rows changed is overtaken all the same: the service may be gone before it is evaluated   *)
OvertakenUnstamped(ids, stamp, changed) ==
    IF run.stage # "idle" /\ run.at < stamp /\ \E i \in ids : svc'[i].enabled
    THEN OvertakenTags(changed)
    ELSE OvertakenServices
StampedSince(stamp) == {p \in Pics : mark[p] >= stamp}

OvertakenRows(ps) == IF ReadRows # {} THEN Overtaken(ps \cap ReadRows) ELSE run

Event == events < MaxEvents /\ events' = events + 1

(* the row of a service *)
Service(d, position, stamp) ==
    [kind |-> d.kind, enabled |-> d.enabled, requires |-> d.requires, excludes |-> d.excludes,
     assign |-> d.assign, prune |-> d.prune, keep |-> d.keep,
     position |-> position, invalidated |-> stamp]

(* a library without pipeline tags, under the given services, its pictures marked alike *)
PipelineStart(services, at) ==
    /\ manual \in [Pics -> {{}}] /\ incoming \in [Pics -> {{}}] /\ auto \in [Pics -> {{}}]
    /\ fact \in [Pics -> {TRUE}]
    /\ mark \in [Pics -> {at}]
    /\ svc = [i \in DOMAIN services |-> Service(services[i], services[i].position, 1)]
    /\ clock = 1
    /\ txn = None /\ run = Idle /\ missed = {}
    /\ events = 0

PipelineInit == PipelineStart(Initial, Never)
----------------------------------------------------------------------------
(* Changes to pictures *)

(* batch_edit_tags: remove, then add, in one transaction; both re-dirty *)
EditTags ==
    /\ Event
    /\ \E ps \in (SUBSET Pics) \ {{}}, e \in Edits :
        LET Removed(p) == RemoveTags(manual[p], e.remove)
            lost == {p \in ps : Removed(p) # manual[p]}
            dirtied == IF e.add = {} THEN lost ELSE ps
        IN  /\ manual' = [p \in Pics |-> IF p \in ps THEN Assign(Removed(p), e.add) ELSE manual[p]]
            /\ mark' = [p \in Pics |-> IF p \in dirtied THEN Never ELSE mark[p]]
            /\ run' = OvertakenTags(ps)
    /\ UNCHANGED <<incoming, auto, fact, svc, clock, txn, missed>>

(* an extraction or an EXIF edit changes the row and clears its mark *)
EditFact ==
    /\ Event
    /\ \E p \in Pics :
        /\ fact' = [fact EXCEPT ![p] = ~@]
        /\ mark' = [mark EXCEPT ![p] = Never]
        /\ run' = OvertakenRows({p})
    /\ UNCHANGED <<rows, svc, clock, txn, missed>>

(* register_received_pictures / unregister_announced_pictures for a picture that stays *)
ShareTagChanges ==
    /\ Event
    /\ \E p \in Pics :
        /\ incoming' = [incoming EXCEPT ![p] = {ShareTag} \ @]
        /\ mark' = [mark EXCEPT ![p] = Never]
        /\ run' = OvertakenTags({p})
    /\ UNCHANGED <<manual, auto, fact, svc, clock, txn, missed>>
----------------------------------------------------------------------------
(* Changes to services *)

(* an open update or deletion holds its row *)
Unlocked(i) == txn.kind \in {"update", "delete"} => txn.id # i

(* last_invalidated_at defaults to the insert's time *)
CreateService ==
    /\ Event
    /\ \E i \in Ids \ DOMAIN svc, definition \in Creatable :
        LET last == {svc[j].position : j \in DOMAIN svc} \cup {-1}
            position == 1 + CHOOSE m \in last : \A n \in last : n <= m
        IN  svc' = [j \in DOMAIN svc \cup {i} |->
                        IF j = i THEN Service(definition, position, clock + 1) ELSE svc[j]]
    /\ clock' = clock + 1
    /\ UNCHANGED <<rows, fact, mark, txn, run, missed>>

(* update_service and delete_service open a transaction; now() is its start for good *)
UpdateBegins ==
    /\ txn.kind = "none" /\ Event
    /\ clock' = clock + 1
    /\ \E i \in DOMAIN svc, promote \in BOOLEAN :
        \/ \E patch \in Patches :
               txn' = [kind |-> "update", id |-> i, patch |-> patch, promote |-> promote,
                       stamp |-> clock + 1]
        \/ txn' = [kind |-> "delete", id |-> i, promote |-> promote]
    /\ UNCHANGED <<rows, fact, mark, svc, run, missed>>

OwnRows(p, i) == {r \in auto[p] : r[1] = i}
PathsOf(rs) == {r[2] : r \in rs}
Holders(i) == {p \in Pics : OwnRows(p, i) # {}}

(* retire_tags: the rows of a disabled or deleted service go, or become manual *)
Retired(i, promote) ==
    /\ auto' = [p \in Pics |-> auto[p] \ OwnRows(p, i)]
    /\ manual' = IF promote THEN [p \in Pics |-> PromoteManual(manual[p], PathsOf(OwnRows(p, i)))]
                            ELSE manual
    /\ mark' = [p \in Pics |-> IF p \in Holders(i) THEN Never ELSE mark[p]]

(* a field the patch leaves out keeps its value *)
Patched(service, patch, stamp) ==
    LET Field(f) == IF f \in DOMAIN patch THEN patch[f] ELSE service[f] IN
    [service EXCEPT !.enabled = Field("enabled"), !.requires = Field("requires"),
                    !.excludes = Field("excludes"), !.prune = Field("prune"),
                    !.keep = Field("keep"), !.invalidated = stamp]

Disables(patch) == "enabled" \in DOMAIN patch /\ ~patch.enabled

UpdateCommits ==
    /\ txn.kind = "update"
    /\ svc' = [svc EXCEPT ![txn.id] = Patched(@, txn.patch, txn.stamp)]
    /\ IF Disables(txn.patch) THEN Retired(txn.id, txn.promote) ELSE UNCHANGED <<manual, auto, mark>>
    /\ txn' = None
    /\ run' = OvertakenUnstamped({txn.id}, txn.stamp, {})
    /\ missed' = missed \cup StampedSince(txn.stamp)
    /\ UNCHANGED <<incoming, fact, clock, events>>

DeleteCommits ==
    /\ txn.kind = "delete"
    /\ svc' = [i \in DOMAIN svc \ {txn.id} |-> svc[i]]
    /\ Retired(txn.id, txn.promote)
    /\ txn' = None
    /\ run' = OvertakenServices
    /\ UNCHANGED <<incoming, fact, clock, missed, events>>

(* replace_config writes the config and touches the service in two statements *)
ReplaceConfig ==
    /\ txn.kind = "none" /\ Event
    /\ \E i \in DOMAIN svc, assign \in Configs :
        /\ svc' = [svc EXCEPT ![i].assign = assign]
        /\ txn' = [kind |-> "config", id |-> i]
    /\ run' = OvertakenServices
    /\ missed' = Pics
    /\ UNCHANGED <<rows, fact, mark, clock>>

ConfigTouched ==
    /\ txn.kind = "config"
    /\ clock' = clock + 1
    /\ svc' = [svc EXCEPT ![txn.id].invalidated = clock + 1]
    /\ txn' = None
    /\ UNCHANGED <<rows, fact, mark, run, missed, events>>

(* the request, or the process, ends before the touch; or a transaction rolls back *)
RequestDies ==
    /\ txn.kind # "none"
    /\ Event
    /\ txn' = None
    /\ UNCHANGED <<rows, fact, mark, svc, clock, run, missed>>

(* reorder_services: the new positions, and nothing else *)
Reorder ==
    /\ Event
    /\ \E i, j \in {k \in DOMAIN svc : svc[k].kind # "mapping" /\ Unlocked(k)} :
        /\ svc[i].position < svc[j].position
        /\ svc' = [svc EXCEPT ![i].position = svc[j].position, ![j].position = svc[i].position]
    /\ run' = OvertakenServices
    /\ missed' = Pics
    /\ UNCHANGED <<rows, fact, mark, clock, txn>>

RenamePaths(paths, r) == {RenameUnder(p, r.old, r.new) : p \in paths}

(* cascade_rename: one transaction, whose statements are taken at its end; keep lists are not *)
(* renamed *)
RenameBegins ==
    /\ txn.kind = "none" /\ Event
    /\ \E r \in Renames :
        /\ ~IsAncestorOrSelf(r.old, r.new) /\ ~IsAncestorOrSelf(r.new, r.old)
        /\ txn' = [kind |-> "rename", rename |-> r,
                   stamp |-> clock + 1]
    /\ clock' = clock + 1
    /\ UNCHANGED <<rows, fact, mark, svc, run, missed>>

Renamed(service, r) ==
    [service EXCEPT !.requires = RenamePaths(@, r), !.excludes = RenamePaths(@, r),
                    !.assign = RenamePaths(@, r)]

CarriesUnder(p, path) ==
    \E t \in manual[p] \cup incoming[p] \cup PathsOf(auto[p]) : IsAncestorOrSelf(path, t)

RenameCommits ==
    /\ txn.kind = "rename"
    /\ LET r == txn.rename
           Written(service) == [Renamed(service, r) EXCEPT !.invalidated = txn.stamp]
       IN  /\ manual' = [p \in Pics |-> Rename(manual[p], r.old, r.new)]
           /\ svc' = [i \in DOMAIN svc |->
                  IF Renamed(svc[i], r) # svc[i] THEN Written(svc[i]) ELSE svc[i]]
           /\ mark' = [p \in Pics |->
                  IF CarriesUnder(p, r.old) \/ CarriesUnder(p, r.new) THEN Never ELSE mark[p]]
    /\ txn' = None
    /\ run' = OvertakenUnstamped({i \in DOMAIN svc : svc'[i] # svc[i]}, txn.stamp,
                                 {p \in Pics : manual'[p] # manual[p]})
    /\ missed' = missed \cup StampedSince(txn.stamp)
    /\ UNCHANGED <<incoming, auto, fact, clock, events>>
----------------------------------------------------------------------------
(* The run.  The routine runs one at a time per user: when any change triggers it, and when *)
(* its sweep finds a dirty picture. *)

RunDue == \E p \in Pics : Dirty(p, mark, svc)

RunStarts ==
    /\ run.stage = "idle"
    /\ run' = [stage |-> "started", at |-> clock]
    /\ UNCHANGED <<rows, fact, mark, svc, clock, txn, missed, events>>

(* deduplication and pending announcements run between the start and this read *)
LoadServices ==
    /\ run.stage = "started"
    /\ run' = [stage |-> "loaded", at |-> run.at, services |-> svc, overtaken |-> {}]
    /\ UNCHANGED <<rows, fact, mark, svc, clock, txn, missed, events>>

(* what is left to do, and the picture rows as they were found *)
Batch(todo, facts) ==
    [stage |-> "batch", at |-> run.at, services |-> run.services, overtaken |-> run.overtaken,
     todo |-> todo, facts |-> facts]

FindDirty ==
    /\ run.stage = "loaded"
    /\ LET dirty == {p \in Pics : Dirty(p, mark, svc)} IN
       run' = IF dirty = {} THEN Idle
              ELSE Batch(dirty, fact)
    /\ UNCHANGED <<rows, fact, mark, svc, clock, txn, missed, events>>

Smaller(m, n) == IF m < n THEN m ELSE n

LoadTags ==
    /\ run.stage = "batch"
    /\ \E chunk \in SUBSET run.todo :
        /\ Cardinality(chunk) = Smaller(ChunkSize, Cardinality(run.todo))
        /\ run' = [stage |-> "apply", at |-> run.at, services |-> run.services,
                    overtaken |-> run.overtaken, todo |-> run.todo \ chunk, facts |-> run.facts,
                    chunk |-> chunk, left |-> chunk, done |-> {}, own |-> manual,
                    shared |-> incoming]
    /\ UNCHANGED <<rows, fact, mark, svc, clock, txn, missed, events>>

(* the run goes on to its next picture; of the actions below, only Apply does this *)
NextPicture(p) == run' = [run EXCEPT !.left = @ \ {p}, !.done = @ \cup {p}]

(* apply_picture_tags: the produced rows replace the stored ones and the prune plan is carried *)
(* out, in one transaction; a prune clears the mark *)
Apply ==
    /\ run.stage = "apply"
    /\ \E p \in run.left :
        LET order == ListEnabled(run.services)
            svcs == ForPicture(run.services, order, run.facts[p], run.shared[p])
            plan == Plan(svcs, run.own[p], run.shared[p])
            pruned == plan.remove # {} \/ plan.assign # {}
        IN  /\ auto' = [auto EXCEPT ![p] =
                   Produced(run.services, run.facts[p], run.own[p], run.shared[p])]
            /\ manual' = [manual EXCEPT ![p] = Replace(@, plan.remove, plan.assign)]
            /\ mark' = [mark EXCEPT ![p] = IF pruned THEN Never ELSE @]
            /\ missed' = missed \cup ({p} \cap run.overtaken)
            /\ NextPicture(p)
    /\ UNCHANGED <<incoming, fact, svc, clock, txn, events>>

ApplyFails ==
    /\ run.stage = "apply"
    /\ \E p \in run.left : run' = [run EXCEPT !.left = @ \ {p}]
    /\ Event
    /\ UNCHANGED <<rows, fact, mark, svc, clock, txn, missed>>

NextChunk ==
    IF run.todo = {} THEN Idle ELSE Batch(run.todo, run.facts)

(* a fault: the stamp is the time of the statement *)
MarkRunNow ==
    /\ run.stage = "apply" /\ run.left = {}
    /\ mark' = [p \in Pics |-> IF p \in run.done THEN clock ELSE mark[p]]
    /\ missed' = (missed \ run.done) \cup (run.done \cap run.overtaken)
    /\ run' = NextChunk
    /\ UNCHANGED <<rows, fact, svc, clock, txn, events>>

(* a fault: WHERE last_pipeline_run_at < the stamp leaves out the rows without one *)
MarkRunOlder ==
    /\ run.stage = "apply" /\ run.left = {}
    /\ mark' = [p \in Pics |-> IF p \in run.done /\ mark[p] # Never THEN run.at ELSE mark[p]]
    /\ missed' = (missed \ run.done) \cup (run.done \cap run.overtaken)
    /\ run' = NextChunk
    /\ UNCHANGED <<rows, fact, svc, clock, txn, events>>

(* mark_run stamps every picture of the chunk that was applied, whatever has happened to it *)
(* since.  missed remembers those whose inputs changed after they were read. *)
MarkRun ==
    /\ run.stage = "apply" /\ run.left = {}
    /\ mark' = [p \in Pics |-> IF p \in run.done THEN run.at ELSE mark[p]]
    /\ missed' = (missed \ run.done) \cup (run.done \cap run.overtaken)
    /\ run' = NextChunk
    /\ UNCHANGED <<rows, fact, svc, clock, txn, events>>

(* an error of mark_run is logged, and the run goes on *)
MarkFails ==
    /\ run.stage = "apply" /\ run.left = {}
    /\ Event
    /\ run' = NextChunk
    /\ UNCHANGED <<rows, fact, mark, svc, clock, txn, missed>>

(* a query fails, or the process restarts *)
RunDies ==
    /\ run.stage # "idle"
    /\ Event
    /\ run' = Idle
    /\ UNCHANGED <<rows, fact, mark, svc, clock, txn, missed>>

(* Fairness: the routine always has a run to start for a dirty picture (its triggers and its *)
(* sweep, RoutineRuntime), and a run and a request go on unless they fail.  NextPicture      *)
(* stands for Apply, which is always possible with it. *)
NextPictureDone == run.stage = "apply" /\ \E p \in run.left : NextPicture(p)
RunStep == (RunDue /\ RunStarts) \/ LoadServices \/ FindDirty \/ LoadTags \/ NextPictureDone \/ MarkRun
PipelineTxnEnds == UpdateCommits \/ DeleteCommits \/ ConfigTouched \/ RenameCommits

PipelineNext ==
    \/ EditTags \/ EditFact \/ ShareTagChanges
    \/ CreateService \/ UpdateBegins \/ ReplaceConfig \/ Reorder \/ RenameBegins
    \/ UpdateCommits \/ DeleteCommits \/ ConfigTouched \/ RenameCommits \/ RequestDies
    \/ RunStarts \/ LoadServices \/ FindDirty \/ LoadTags \/ Apply \/ ApplyFails
    \/ MarkRun \/ MarkFails \/ RunDies

PipelineFairness == WF_run(RunStep) /\ WF_txn(PipelineTxnEnds)

----------------------------------------------------------------------------
(* Properties *)

Tags == [Pics -> SUBSET (Paths \cup {ShareTag})]

(* The rows, marks, services and the run have their types, and nothing is stamped in the future. *)
PipelineTypeOK ==
    /\ manual \in Tags /\ incoming \in Tags
    /\ auto \in [Pics -> SUBSET (Ids \X Paths)]
    /\ fact \in [Pics -> BOOLEAN]
    /\ mark \in [Pics -> 0..clock]
    /\ DOMAIN svc \subseteq Ids /\ \A i \in DOMAIN svc : svc[i].invalidated \in 1..clock
    /\ txn.kind \in {"none", "update", "delete", "config", "rename"}
    /\ run.stage \in {"idle", "started", "loaded", "batch", "apply"}
    /\ missed \subseteq Pics
    /\ events \in 0..MaxEvents

(* A picture the pipeline considers up to date carries exactly the tags the services as they *)
(* are give it, its manual tags as they are after the run has pruned them; unless its inputs *)
(* changed between the run's reads and its stamp (MarkRun), or a service changed without a   *)
(* stamp that makes the picture dirty (missed): evaluation.rs promises that only dirty       *)
(* pictures are out of date. *)
EvaluatedTruth ==
    \A p \in Pics : ~Dirty(p, mark, svc) /\ p \notin missed =>
        auto[p] = Produced(svc, fact[p], manual[p], incoming[p])

Present(p) == Up(manual[p] \cup PathsOf(auto[p]))

(* A run never takes a tag off a picture that its user put there: what it prunes is still    *)
(* present, through a service's row or a deeper one (doc 39 4.2), even when the rows changed *)
(* after the run had read them. *)
PruneKeepsManual ==
    [][Apply => \A p \in Pics : Up(manual[p]) \subseteq Present(p)']_pipelineVars

(* Every dirty picture is evaluated in the end, over failures, restarts and changes under    *)
(* the run. *)
EveryPictureSettles == \A p \in Pics : Dirty(p, mark, svc) ~> ~Dirty(p, mark, svc)

PipelineSpec == PipelineInit /\ [][PipelineNext]_pipelineVars /\ PipelineFairness
=============================================================================
