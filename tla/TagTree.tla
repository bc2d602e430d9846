------------------------------ MODULE TagTree ------------------------------
(***************************************************************************)
(* Tag paths and the statements that rewrite the tag rows of a picture     *)
(* (domain/tag.rs, repository/tag.rs).  A path is a non-empty sequence of   *)
(* labels; what a label is made of is left out.  Only the deepest tags are  *)
(* stored: an ancestor is present through its descendants, so two row sets  *)
(* say the same of a picture when their upward closures (Up) are equal.     *)
(***************************************************************************)
EXTENDS Integers, Sequences, FiniteSets

SharedRoot == "SharedToMe"

(* a is b or one of its ancestors: presence is inclusive *)
IsAncestorOrSelf(a, b) == Len(a) <= Len(b) /\ SubSeq(b, 1, Len(a)) = a
IsAncestorOf(a, b) == IsAncestorOrSelf(a, b) /\ a # b

Depth(p) == Len(p)
Ancestors(p) == {SubSeq(p, 1, i) : i \in 1..(Len(p) - 1)}
Up(paths) == paths \cup UNION {Ancestors(p) : p \in paths}

IsReserved(p) == p[1] = SharedRoot

(* TagPath::parse on a path given by its labels: some label may be malformed, and the *)
(* reserved root is for the share machinery only. *)
Parses(labels, goodLabels, allowProtected) ==
    /\ labels # << >>
    /\ \A i \in DOMAIN labels : labels[i] \in goodLabels
    /\ allowProtected \/ ~IsReserved(labels)

SharedToMe(sender, original) == <<SharedRoot, sender>> \o original

(* a fault: the last label of the old path stays *)
RenameKeepingLabel(p, old, new) ==
    IF IsAncestorOrSelf(old, p) THEN new \o SubSeq(p, Len(old), Len(p)) ELSE p

(* None of the source is the path unchanged: it is unrelated to the renamed one *)
RenameUnder(p, old, new) ==
    IF IsAncestorOrSelf(old, p) THEN new \o SubSeq(p, Len(old) + 1, Len(p)) ELSE p

FoldDeepest(paths) == {p \in paths : \A q \in paths : ~IsAncestorOf(p, q)}

IsAntichain(paths) == FoldDeepest(paths) = paths
----------------------------------------------------------------------------
(* The manual rows of one picture under each statement.  All parts of a statement read *)
(* the rows as they were before it. *)

(* batch_assign: stored proper ancestors of an added tag go, unless they are added too; *)
(* the deepest added tags come in, unless something deeper is stored *)
Assign(rows, added) ==
    (rows \ {m \in rows \ added : \E t \in added : IsAncestorOf(m, t)})
        \cup {t \in FoldDeepest(added) : \A m \in rows : ~IsAncestorOf(t, m)}

(* batch_remove: a removed tag takes its subtree with it *)
RemoveTags(rows, removed) == {m \in rows : \A r \in removed : ~IsAncestorOrSelf(r, m)}

(* replace_manual_tags: no ancestor rule runs *)
Replace(rows, removed, assigned) == (rows \ removed) \cup assigned

(* rename_manual_subtree: a renamed row that meets a stored one is dropped *)
Rename(rows, old, new) == {RenameUnder(m, old, new) : m \in rows}

(* promote_service_tags_to_manual: a promoted path already manual is dropped, a manual *)
(* ancestor of one that is not goes *)
PromoteManual(rows, promoted) ==
    (rows \ {m \in rows : \E p \in promoted \ rows : IsAncestorOf(m, p)}) \cup promoted
----------------------------------------------------------------------------
(* Aggregates over pictures.  rowsOf gives each picture its stored paths. *)

(* a picture counts for every prefix of every tag it holds *)
CountUnder(pics, rowsOf, path) == Cardinality({p \in pics : path \in Up(rowsOf[p])})

(* list_tags_enriched.exact_count: at the path, and nowhere below it *)
ExactlyAt(rows, path) ==
    path \in rows /\ \A m \in rows : ~IsAncestorOf(path, m)
=============================================================================
