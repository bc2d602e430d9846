----------------------------- MODULE Hierarchy -----------------------------
(***************************************************************************)
(* Hierarchies: directory trees over the tags of a user's pictures           *)
(* (domain/hierarchy.rs, services/hierarchy/).  A config is a sequence of    *)
(* nodes; resolving it against the tags in use gives directories, and a      *)
(* directory lists the pictures its predicate holds of.                      *)
(*                                                                         *)
(* A node is a record with the keys its kind has; its optional settings are  *)
(* keys it may lack.                                                         *)
(***************************************************************************)
EXTENDS TreeOps

(* what a node says, or what it inherits *)
Given(node, key, inherited) == IF key \in DOMAIN node THEN node[key] ELSE inherited

EffectiveName(node) ==
    IF node.kind = "mirror" THEN {Given(node, "name", <<Last(node.tagRoot)>>)}
    ELSE IF "name" \in DOMAIN node THEN {node.name} ELSE {}

Children(node) == IF node.kind \in {"query", "static"} THEN node.children ELSE << >>

----------------------------------------------------------------------------
(* Validation. *)

(* the operations can make a picture satisfy the predicate, and cease to *)
ValidWriteBack(wb, node) ==
    LET assigned == OpPaths(wb.onAdd, "assign")
        dropped == OpPaths(wb.onRemove, "remove")
    IN  /\ IF node.all THEN node.include \subseteq assigned
           ELSE node.include = {} \/ node.include \cap assigned # {}
        /\ node.exclude \subseteq OpPaths(wb.onAdd, "remove")
        /\ \/ IF node.all THEN node.include \cap dropped # {}
              ELSE node.include # {} /\ node.include \subseteq dropped
           \/ node.exclude \cap OpPaths(wb.onRemove, "assign") # {}

RECURSIVE NodeIds(_)
NodeIds(nodes) == FoldLeft(LAMBDA ids, n : Append(ids, n.id) \o NodeIds(Children(n)), << >>, nodes)

ValidNode(node) ==
    /\ node.kind = "mirror" =>
        /\ node.maxDepth > 0 => node.minDepth <= node.maxDepth
        /\ \A c \in node.collapsed : IsAncestorOrSelf(node.tagRoot, c)
    /\ node.kind = "query" =>
        /\ node.untagged => node.include \cup node.exclude = {}
        /\ ~node.untagged => \A wb \in node.writeBack : ValidWriteBack(wb, node)

(* sibling names are unique whatever their case *)
RECURSIVE ValidNodes(_)
ValidNodes(nodes) ==
    /\ \A i \in DOMAIN nodes : EffectiveName(nodes[i]) # {} /\ ValidNode(nodes[i]) /\ ValidNodes(Children(nodes[i]))
    /\ \A i, j \in DOMAIN nodes : \A m \in EffectiveName(nodes[i]), n \in EffectiveName(nodes[j]) :
            Folded(m) = Folded(n) => i = j

ValidConfig(config) == ValidNodes(config.nodes) /\ IsInjective(NodeIds(config.nodes))
----------------------------------------------------------------------------
(* Predicates over a picture's stored tags. *)

AnyPicture == [include |-> {}, all |-> FALSE, exact |-> {}, exclude |-> {}, untagged |-> FALSE,
               and |-> {}, minus |-> {}]

(* render_predicate *)
RECURSIVE Holds(_, _)
Holds(pred, tags) ==
    LET arms == [p \in pred.include |-> Carries(tags, p)]
        exact == [p \in pred.exact |-> ExactlyAt(tags, p)]
    IN  /\ pred.untagged => tags = {}
        /\ \/ DOMAIN arms \cup DOMAIN exact = {}
           \/ pred.all /\ (\A p \in DOMAIN arms : arms[p]) /\ \A p \in DOMAIN exact : exact[p]
           \/ ~pred.all /\ ((\E p \in DOMAIN arms : arms[p]) \/ \E p \in DOMAIN exact : exact[p])
        /\ \A p \in pred.exclude : ~Carries(tags, p)
        /\ \A term \in pred.and : Holds(term, tags)
        /\ \A child \in pred.minus : ~Holds(child, tags)

QueryOwn(node) ==
    [AnyPicture EXCEPT !.include = node.include, !.all = node.all, !.exclude = node.exclude,
                       !.untagged = node.untagged]

Requires(paths) == [AnyPicture EXCEPT !.include = paths, !.all = TRUE]

ForeignExcludes(node) == {e \in node.exclude : ~IsAncestorOrSelf(node.tagRoot, e)}

(* mirror_filters: the mirrors whose pictures are filtered, by node id *)
RECURSIVE MirrorFilters(_, _)
MirrorFilters(nodes, ands) ==
    LET Filter(node) == [Requires(node.include) EXCEPT !.exclude = ForeignExcludes(node), !.and = ands]
        Of(node) ==
            CASE node.kind = "mirror" /\ node.include \cup ForeignExcludes(node) # {} ->
                    {[id |-> node.id, tagRoot |-> node.tagRoot, predicate |-> Filter(node)]}
              [] node.kind = "query" -> MirrorFilters(node.children, ands \cup {QueryOwn(node)})
              [] node.kind = "static" -> MirrorFilters(node.children, ands)
              [] OTHER -> {}
    IN  UNION {Of(nodes[i]) : i \in DOMAIN nodes}
----------------------------------------------------------------------------
(* Resolution: directories from the config and the tag paths in use. *)

InheritedAt(up, node) ==
    [master |-> up.master,
     enabled |-> up.master /\ Given(node, "writeBackEnabled", up.enabled),
     trashedDuplicate |-> Given(node, "trashedDuplicate", up.trashedDuplicate),
     safeDelete |-> Given(node, "safeDeleteMode", up.safeDelete)]

MirrorBase(node, at) ==
    [tag |-> node.tagRoot, id |-> node.id, include |-> node.include, writable |-> at.enabled,
     trashedDuplicate |-> at.trashedDuplicate]

(* where a new directory of a container goes: its first mirror that is hoisted and not projected *)
FirstHoistedMirror(nodes, up) ==
    LET hoisted == SelectSeq(nodes, LAMBDA n : n.kind = "mirror" /\ ~n.keepDir /\ n.minDepth <= 1)
    IN  IF hoisted = << >> THEN {} ELSE {MirrorBase(Head(hoisted), InheritedAt(up, Head(hoisted)))}

Directory(name, at) ==
    [name |-> name, id |-> {}, writable |-> FALSE, safeDelete |-> at.safeDelete, isDrop |-> FALSE,
     direct |-> {}, subtree |-> {}, own |-> {}, writeBack |-> {}, mirrorTag |-> {}, include |-> {},
     newChild |-> {}, trashedDuplicate |-> at.trashedDuplicate, children |-> << >>]

Owns(dirs) == UNION {dirs[i].own : i \in DOMAIN dirs}

RECURSIVE MirrorDir(_, _, _)
MirrorDir(path, name, m) ==
    LET below == Sorted({d \in m.dirs : IsAncestorOf(path, d) /\ Depth(d) = Depth(path) + 1})
        kids == [i \in DOMAIN below |-> MirrorDir(below[i], <<Last(below[i])>>, m)]
        own == [AnyPicture EXCEPT !.exact = {path}, !.include = m.arms[path], !.and = m.ands,
                    !.exclude = m.foreign \cup {e \in m.excluded : IsAncestorOrSelf(path, e)}]
    IN  [writable |-> m.base.writable, id |-> {m.base.id}, mirrorTag |-> {path}, include |-> m.base.include,
         direct |-> {[own EXCEPT !.minus = Owns(kids)]},
         subtree |-> {[Requires({path}) EXCEPT !.exclude = m.excluded \cup m.foreign, !.and = m.ands]},
         own |-> {Requires({path} \cup m.base.include)},
         writeBack |-> IF m.base.writable THEN {MirrorWriteBack(m.base, path)} ELSE {},
         children |-> kids] @@ Directory(name, m.at)

(* a hoisted leaf that is not alone of its name is qualified by the levels it hides *)
ProjectedName(path, tops, root) ==
    LET Leaf(p) == Folded(<<Last(p)>>)
    IN  IF \E o \in tops \ {path} : Leaf(o) = Leaf(path)
        THEN <<Last(path)>> \o SubSeq(path, Depth(root) + 1, Depth(path) - 1) ELSE <<Last(path)>>

ExpandMirror(node, paths, ands, at) ==
    LET root == node.tagRoot
        projected == node.minDepth > 1
        top == Depth(root) + Max({1, node.minDepth})
        cutDepth == Depth(root) + node.maxDepth
        Under(set, p) == \E e \in set : IsAncestorOrSelf(e, p)
        written == {e \in node.exclude : IsAncestorOrSelf(root, e)}
        cuts == IF node.maxDepth = 0 THEN {}
                ELSE {SubSeq(p, 1, cutDepth + 1) :
                        p \in {q \in paths : IsAncestorOrSelf(root, q) /\ ~Under(written, q) /\ Depth(q) > cutDepth}}
        collapsed == {c \in node.collapsed : Depth(c) >= top \/ ~projected}
                        \cup (IF node.deeper = "collapse" THEN cuts ELSE {})
        excluded == written \cup (IF node.deeper = "exclude" THEN cuts ELSE {})
        relevant == {p \in paths : IsAncestorOrSelf(root, p) /\ ~Under(excluded, p)}
        first == IF projected THEN top ELSE Depth(root)
        dirs == {d \in UNION {{SubSeq(p, 1, i) : i \in first..Depth(p)} : p \in relevant} : ~Under(collapsed, d)}
        (* a collapsed subtree that has pictures goes to the deepest directory above it *)
        Above(c) == {a \in Ancestors(c) \cap dirs : \A b \in Ancestors(c) \cap dirs : Depth(b) <= Depth(a)}
        rolled == {c \in collapsed : IsAncestorOrSelf(root, c) /\ ~Under(excluded, c)
                                        /\ \E p \in relevant : IsAncestorOrSelf(c, p)}
        base == MirrorBase(node, at)
        m == [dirs |-> dirs, arms |-> [d \in dirs |-> {c \in rolled : d \in Above(c)}],
              excluded |-> excluded, foreign |-> ForeignExcludes(node),
              ands |-> ands \cup (IF node.include = {} THEN {} ELSE {Requires(node.include)}),
              base |-> base, at |-> at]
        name == CHOOSE n \in EffectiveName(node) : TRUE
        tops == {d \in dirs : Depth(d) = top}
        hoisted == LET s == Sorted(tops) IN [i \in DOMAIN s |->
                        MirrorDir(s[i], IF projected THEN ProjectedName(s[i], tops, root) ELSE <<Last(s[i])>>, m)]
        container == [id |-> {node.id}, own |-> {Requires({root} \cup node.include)}, mirrorTag |-> {root},
                      include |-> node.include, children |-> hoisted] @@ Directory(name, at)
    IN  CASE ~projected /\ node.keepDir /\ root \in dirs -> <<MirrorDir(root, name, m)>>
          [] projected /\ node.keepDir /\ hoisted # << >> -> <<container>>
          [] OTHER -> hoisted

(* for_mirror: a filtered mirror has its own paths, by node id *)
PathsFor(node, paths) == IF node.id \in DOMAIN paths.filtered THEN paths.filtered[node.id] ELSE paths.distinct

(* build_nodes *)
RECURSIVE BuildNodes(_, _, _, _)
BuildNodes(nodes, paths, ands, up) ==
    LET Dirs(node) ==
        LET at == InheritedAt(up, node)
            base == [id |-> {node.id}] @@ Directory(CHOOSE n \in EffectiveName(node) : TRUE, at)
            kids == BuildNodes(Children(node), paths,
                               ands \cup (IF node.kind = "query" THEN {QueryOwn(node)} ELSE {}), at)
            membership == [QueryOwn(node) EXCEPT !.and = ands]
            writable == at.enabled /\ node.writeBack # {}
            newChild == FirstHoistedMirror(Children(node), at)
        IN  CASE node.kind = "mirror" -> ExpandMirror(node, PathsFor(node, paths), ands, at)
              [] node.kind = "query" ->
                    <<[direct |-> {[membership EXCEPT !.minus = Owns(kids)]}, subtree |-> {membership},
                       own |-> {QueryOwn(node)}, writable |-> writable,
                       writeBack |-> IF writable THEN node.writeBack ELSE {},
                       newChild |-> newChild, children |-> kids] @@ base>>
              [] node.kind = "static" -> <<[newChild |-> newChild, children |-> kids] @@ base>>
              [] node.kind = "drop" ->
                    <<[isDrop |-> TRUE, writable |-> TRUE,
                       writeBack |-> {[onAdd |-> node.onAdd, onRemove |-> << >>]}] @@ base>>
    IN  FlattenSeq([i \in DOMAIN nodes |-> Dirs(nodes[i])])

(* apply_custom_dir_names: a directory named after its tag takes the tag's own name, unless a *)
(* sibling has it; contested names go by path *)
RECURSIVE Named(_, _)
Named(dir, custom) ==
    LET kids == dir.children
        ByPath(i, j) ==
            LET Key(k) == IF kids[k].mirrorTag = {} THEN << >> ELSE CHOOSE t \in kids[k].mirrorTag : TRUE
            IN  PathBefore(Key(i), Key(j)) \/ (Key(i) = Key(j) /\ i < j)
        Takes(acc, i) ==
            LET wanted == {custom[t] : t \in {u \in kids[i].mirrorTag \cap DOMAIN custom :
                                                kids[i].name = <<Last(u)>>}}
            IN  IF \A n \in wanted : Folded(n) \in acc.taken THEN acc
                ELSE LET n == CHOOSE n \in wanted : TRUE
                     IN  [taken |-> acc.taken \cup {Folded(n)}, names |-> [acc.names EXCEPT ![i] = n]]
        names == FoldLeft(Takes, [taken |-> {Folded(kids[i].name) : i \in DOMAIN kids},
                                  names |-> [i \in DOMAIN kids |-> kids[i].name]],
                          SetToSortSeq(DOMAIN kids, ByPath)).names
    IN  [dir EXCEPT !.children =
            [i \in DOMAIN kids |-> Named([kids[i] EXCEPT !.name = names[i]], custom)]]

(* resolve_for_user.  tagsOf: the tags of each live picture; meta: the tags that stay when empty *)
(* and their own directory names. *)
ResolveTree(config, tagsOf, meta) ==
    LET used == UNION Range(tagsOf)
        up == [master |-> config.writeBack, enabled |-> TRUE, trashedDuplicate |-> config.trashedDuplicate,
               safeDelete |-> config.safeDelete]
        Matching(f) == UNION {tagsOf[p] : p \in {q \in DOMAIN tagsOf : Holds(f.predicate, tagsOf[q])}}
        filters == MirrorFilters(config.nodes, {})
        filtered == [id \in {f.id : f \in filters} |->
                        LET f == CHOOSE f \in filters : f.id = id
                        IN  {t \in Matching(f) \cup meta.shown : IsAncestorOrSelf(f.tagRoot, t)}]
        paths == [distinct |-> used \cup meta.shown, filtered |-> filtered]
    IN  Named([newChild |-> FirstHoistedMirror(config.nodes, up),
               children |-> BuildNodes(config.nodes, paths, {}, up)] @@ Directory(<< >>, up), meta.names)
----------------------------------------------------------------------------
(* Walking the tree, and what a write at a directory does. *)

(* find_dir: the directories from below the root to the one addressed, {} if there is none *)
RECURSIVE DirsAlong(_, _)
DirsAlong(dir, segments) ==
    LET next == SelectSeq(dir.children, LAMBDA c : c.name = Head(segments))
    IN  IF segments = << >> THEN {<< >>}
        ELSE IF next = << >> THEN {}
        ELSE {<<Head(next)>> \o rest : rest \in DirsAlong(Head(next), Tail(segments))}

FindDir(root, segments) ==
    {IF along = << >> THEN root ELSE Last(along) : along \in DirsAlong(root, segments)}

Listed(dir, tags) == \E p \in dir.direct : Holds(p, tags)

RECURSIVE ListedBelow(_, _)
ListedBelow(dir, tags) ==
    Listed(dir, tags) \/ \E i \in DOMAIN dir.children : ListedBelow(dir.children[i], tags)

(* dir_nonempty *)
RECURSIVE Nonempty(_, _)
Nonempty(dir, tagsOf) ==
    IF dir.subtree = {} THEN \E i \in DOMAIN dir.children : Nonempty(dir.children[i], tagsOf)
    ELSE \E p \in DOMAIN tagsOf : \A s \in dir.subtree : Holds(s, tagsOf[p])
----------------------------------------------------------------------------
(* What users read from a hierarchy, checked over the configs and pictures of an instance. *)

RECURSIVE Trails(_)
(* the directories of a tree, each by those from below the root to it *)
Trails(dir) ==
    UNION {{<<dir.children[i]>> \o rest : rest \in {<< >>} \cup Trails(dir.children[i])} : i \in DOMAIN dir.children}

Segments(along) == [i \in DOMAIN along |-> along[i].name]

RECURSIVE Cuts(_)
(* what nodes keep out, or hide for want of a directory *)
Cuts(nodes) ==
    (UNION {Cuts(Children(nodes[i])) : i \in DOMAIN nodes})
        \cup {nodes[i] : i \in {j \in DOMAIN nodes : nodes[j].kind = "mirror" /\
                (nodes[j].exclude # {} \/ nodes[j].minDepth > 1 \/ nodes[j].deeper = "exclude")}}

(* A picture that counts for a directory is listed in it or below, unless a mirror cuts it out: *)
(* what a parent leaves to its children, they show.                                            *)
NothingLost(config, tagsOf, meta) ==
    Cuts(config.nodes) = {} =>
        \A along \in Trails(ResolveTree(config, tagsOf, meta)) : \A p \in DOMAIN tagsOf :
            (\E s \in Last(along).subtree : Holds(s, tagsOf[p])) => ListedBelow(Last(along), tagsOf[p])

(* every node on the way writes back, and none undoes what another asks for *)
Writes(along) ==
    LET chain == NodeChain(along)
        ops == OpsOf(chain, << >>, "onAdd")
    IN  /\ \A i \in DOMAIN chain : chain[i].writeBack # {}
        /\ \A a \in OpPaths(ops, "assign"), r \in OpPaths(ops, "remove") : ~IsAncestorOrSelf(r, a)

(* A picture put into a directory, or moved into it from one that lists it, is listed there or *)
(* below it once its tags are resolved again.  But not when the move undoes a node it stays in: *)
(* out of a mirror into the query node above it, say.                                          *)
MovesLand(config, tagsOf, meta) ==
    LET root == ResolveTree(config, tagsOf, meta)
        Lands(p, tags, to) ==
            \A d \in FindDir(ResolveTree(config, (p :> tags) @@ tagsOf, meta), Segments(to)) : ListedBelow(d, tags)
    IN  Cuts(config.nodes) = {} =>
        \A to \in {t \in Trails(root) : Writes(t) /\ ~Last(t).isDrop} :
            /\ LET new == Cardinality(DOMAIN tagsOf) + 1
               IN  Lands(new, AfterTransition({}, Transition(<< >>, NodeChain(to))), to)
            /\ \A from \in Trails(root), p \in DOMAIN tagsOf :
                Listed(Last(from), tagsOf[p]) /\ Last(from).writable /\ ~Undoes(NodeChain(from), NodeChain(to)) =>
                    Lands(p, AfterTransition(tagsOf[p], Transition(NodeChain(from), NodeChain(to))), to)
=============================================================================
