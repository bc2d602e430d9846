------------------------------ MODULE TreeOps ------------------------------
(***************************************************************************)
(* What requests do with the directories of a hierarchy, whatever tree they  *)
(* are of: the cases of tags, the nodes on the way to a directory, and the   *)
(* tag operations of a move (domain/hierarchy.rs, services/hierarchy/).      *)
(*                                                                         *)
(* Labels are numbers; 2k and 2k + 1 are one label in two cases.  A          *)
(* directory's name is a sequence of labels: a label, or a leaf qualified by *)
(* the levels above it.  What a directory may not have is a set of at most   *)
(* one value.                                                                *)
(***************************************************************************)
EXTENDS TagTree, SequencesExt

Folded(name) == [i \in DOMAIN name |-> name[i] \div 2]

PathBefore(p, q) ==
    \/ IsStrictPrefix(p, q)
    \/ \E i \in DOMAIN p \cap DOMAIN q : SubSeq(p, 1, i - 1) = SubSeq(q, 1, i - 1) /\ p[i] < q[i]
Sorted(paths) == SetToSortSeq(paths, PathBefore)

(* reuse_existing_case: top down, the first stored tag that has the same parent and another case *)
ReuseExistingCase(candidate, existing) ==
    LET Twin(parent, label, ex) ==
            /\ Len(ex) > Len(parent) /\ SubSeq(ex, 1, Len(parent)) = parent
            /\ LET other == ex[Len(parent) + 1]
               IN  other # label /\ other \div 2 = label \div 2
        Chosen(parent, label) ==
            LET twins == SelectSeq(existing, LAMBDA ex : Twin(parent, label, ex))
            IN  IF twins = << >> THEN label ELSE Head(twins)[Len(parent) + 1]
    IN  FoldLeft(LAMBDA done, label : Append(done, Chosen(done, label)), << >>, candidate)
----------------------------------------------------------------------------
Op(op, path) == [op |-> op, path |-> path]

(* the operations of a mirror directory are those of its own tag *)
MirrorWriteBack(mirror, tag) ==
    [onAdd |-> <<Op("assign", tag)>> \o SetToSeq({Op("assign", p) : p \in mirror.include}),
     onRemove |-> <<Op("remove", tag)>>]

OpPaths(ops, op) == {ops[i].path : i \in {j \in DOMAIN ops : ops[j].op = op}}

Carries(tags, p) == \E t \in tags : IsAncestorOrSelf(p, t)

(* node_chain: the levels of one mirror are one node, its deepest *)
ChainNode(dir) == [key |-> <<dir.id, dir.mirrorTag>>, writeBack |-> dir.writeBack]
NodeChain(along) ==
    LET deepest == SelectSeq([i \in DOMAIN along |-> i],
                             LAMBDA i : i = Len(along) \/ along[i + 1].id # along[i].id)
    IN  [i \in DOMAIN deepest |-> ChainNode(along[deepest[i]])]

(* transition: what the nodes left undo, and what the nodes entered do *)
OpsOf(chain, other, field) ==
    LET Mine(n) == \A i \in DOMAIN other : other[i].key # n.key
        Ops(n) == IF n.writeBack = {} THEN << >> ELSE (CHOOSE wb \in n.writeBack : TRUE)[field]
    IN  FoldLeft(LAMBDA ops, n : IF Mine(n) THEN ops \o Ops(n) ELSE ops, << >>, chain)
Transition(src, dst) == [leave |-> OpsOf(src, dst, "onRemove"), enter |-> OpsOf(dst, src, "onAdd")]

(* extension_base *)
ExtensionBase(dir) ==
    IF dir.mirrorTag = {} THEN dir.newChild
    ELSE {[tag |-> t, id |-> i, include |-> dir.include, writable |-> dir.writable,
           trashedDuplicate |-> dir.trashedDuplicate] : t \in dir.mirrorTag, i \in dir.id}

(* the tags of a picture after a transition *)
AfterOps(tags, ops) == Assign(RemoveTags(tags, OpPaths(ops, "remove")), OpPaths(ops, "assign"))
AfterTransition(tags, change) == AfterOps(AfterOps(tags, change.leave), change.enter)

(* the move takes a tag that a node of both sides asks for and, being in both, does not give again *)
Undoes(from, to) ==
    LET change == Transition(from, to)
        asked == OpPaths(OpsOf(SelectSeq(to, LAMBDA n : n \in Range(from)), << >>, "onAdd"), "assign")
    IN  \E r \in OpPaths(change.leave \o change.enter, "remove"), a \in asked :
            IsAncestorOrSelf(r, a) \/ IsAncestorOrSelf(a, r)
=============================================================================
