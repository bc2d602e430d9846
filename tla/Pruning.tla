------------------------------ MODULE Pruning ------------------------------
(***************************************************************************)
(* Gating and shadowed-manual-tag pruning of one picture                   *)
(* (domain/tagging.rs, domain/pipeline/prune.rs).                          *)
(*                                                                         *)
(* A service is a record: enabled, requires and excludes (sets of paths),   *)
(* emits (the tags its rules give this picture), prune and keep.  A list    *)
(* of services runs in order; each gates on the manual and incoming_share   *)
(* rows and on what the services before it produced.  A manual row an       *)
(* opted-in service also produced is redundant: it is removed, or reduced   *)
(* to an ancestor some gate still needs.                                    *)
(***************************************************************************)
EXTENDS TagTree

Hits(arm, tags) == {t \in tags : IsAncestorOrSelf(arm, t)}

RequiresMet(svc, tags) == \A arm \in svc.requires : Hits(arm, tags) # {}
Excluded(svc, tags)    == \E arm \in svc.excludes : Hits(arm, tags) # {}

Fires(svc, tags) == svc.enabled /\ RequiresMet(svc, tags) /\ ~Excluded(svc, tags)

(* the gating set of service k: the base rows and what the services before it produced *)
SeenBy(out, base, k) == base \cup UNION {out[j] : j \in 1..(k - 1)}

(* what each service of the list produces over the base rows *)
Outputs(svcs, base) ==
    LET out[k \in 1..Len(svcs)] ==
            IF Fires(svcs[k], SeenBy(out, base, k)) THEN FoldDeepest(svcs[k].emits) ELSE {}
    IN  out

Evaluated(svcs, base) == UNION {Outputs(svcs, base)[k] : k \in DOMAIN svcs}
----------------------------------------------------------------------------
(* GateHistory::plan.  manual and incoming are the base rows, out the outputs of the run. *)

(* a fault: a row below a produced tag counts as redundant *)
CandidatesBelow(svcs, out, manual) ==
    {m \in manual : \E k \in DOMAIN svcs : svcs[k].prune /\ \E t \in out[k] : IsAncestorOrSelf(t, m)}

Candidates(svcs, out, manual) ==
    {m \in manual : \E k \in DOMAIN svcs : svcs[k].prune /\ m \in out[k]}

(* tag still reaches service k without the candidates' rows *)
Survives(tag, k, manual, incoming, candidates, out) ==
    \/ tag \in incoming
    \/ tag \in manual \ candidates
    \/ \E j \in 1..(k - 1) : tag \in out[j]

(* candidates that alone block a service which would otherwise fire are left as they are *)
Kept(svcs, out, manual, incoming) ==
    LET candidates == Candidates(svcs, out, manual)
        Blocking(k) == {arm \in svcs[k].excludes : Hits(arm, SeenBy(out, manual \cup incoming, k)) # {}}
        SoleBlocked == {k \in DOMAIN svcs :
            LET seen == SeenBy(out, manual \cup incoming, k) IN
            /\ svcs[k].enabled /\ RequiresMet(svcs[k], seen) /\ ~Fires(svcs[k], seen)
            /\ \A arm \in Blocking(k), t \in seen :
                   t \in Hits(arm, seen) => ~Survives(t, k, manual, incoming, candidates, out)}
    IN  {c \in candidates : \E k \in SoleBlocked : \E arm \in Blocking(k) : IsAncestorOrSelf(arm, c)}

(* the paths at or above m that something still needs m to satisfy *)
Anchors(svcs, out, manual, incoming, m) ==
    LET candidates == Candidates(svcs, out, manual)
        base == manual \cup incoming
        Needed(k) == {arm \in svcs[k].requires :
            LET hits == Hits(arm, SeenBy(out, base, k)) IN
            m \in hits /\ \A t \in hits : ~Survives(t, k, manual, incoming, candidates, out)}
        Fired == {k \in DOMAIN svcs : Fires(svcs[k], SeenBy(out, base, k))}
        Pruners == {k \in DOMAIN svcs : svcs[k].prune /\ m \in out[k]}
    IN  (UNION {Needed(k) : k \in Fired})
            \cup {f \in UNION {svcs[k].keep : k \in Pruners} : IsAncestorOrSelf(f, m)}

Deepest(paths) == CHOOSE p \in paths : \A q \in paths : Len(q) <= Len(p)

(* normalize: the rows stay an antichain, and no path is deleted and inserted at once *)
Normalized(manual, remove, assign) ==
    LET remaining == manual \ remove
        wanted == {a \in FoldDeepest(assign) : \A r \in remaining : ~IsAncestorOrSelf(a, r)}
    IN  [remove |-> (remove \ wanted) \cup {r \in remaining : \E a \in wanted : IsAncestorOf(r, a)},
         assign |-> wanted \ manual]

Plan(svcs, manual, incoming) ==
    LET out == Outputs(svcs, manual \cup incoming)
        loose == Candidates(svcs, out, manual) \ Kept(svcs, out, manual, incoming)
        AnchorsOf(m) == Anchors(svcs, out, manual, incoming, m)
        moved == {m \in loose : AnchorsOf(m) # {} /\ Deepest(AnchorsOf(m)) # m}
        bare == {m \in loose : AnchorsOf(m) = {}}
    IN  Normalized(manual, moved \cup bare, {Deepest(AnchorsOf(m)) : m \in moved})

(* the manual rows after the plan has been carried out by replace_manual_tags *)
Pruned(svcs, manual, incoming) ==
    LET plan == Plan(svcs, manual, incoming) IN Replace(manual, plan.remove, plan.assign)
=============================================================================
