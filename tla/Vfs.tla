-------------------------------- MODULE Vfs --------------------------------
(***************************************************************************)
(* The WebDAV file system over a hierarchy (api/webdav.rs, services/vfs/):   *)
(* requests resolve the tree when they start, and then read and write rows,  *)
(* objects and cache entries one after the other, while others do the same.  *)
(*                                                                         *)
(* A file name is a sequence whose first element says which tag label it     *)
(* would mint; a picture that is not alone of its name in a directory is     *)
(* qualified by its id.  Contents stand for files and for their hashes.      *)
(* Reads, redirects, and what the user does elsewhere are left out, and so   *)
(* are mirrors of the reserved root.  What a tree says is what Hierarchy     *)
(* computes of it; here it is a parameter.                                   *)
(***************************************************************************)
EXTENDS TreeOps

CONSTANTS
    TreeOf(_, _, _),  \* the tree of a hierarchy, the live pictures' tags and the metadata rows
    DirAt(_, _),      \* the directory of a tree at a path, in a set; {} if there is none
    DirsTo(_, _),     \* the directories from below the root to it, in a set
    TrailsOf(_),      \* those of every directory of a tree
    Lists(_, _),      \* whether a directory lists a picture of some tags
    ListsBelow(_, _), \* whether it or a directory below it does
    Config,       \* the hierarchy
    Library,      \* the picture rows at the start
    Empty,        \* the content of a file of no bytes
    Scratch,      \* names that atomic saves use for their temporary files
    Junk,         \* names of the files operating systems leave about
    Menus,        \* the requests clients may send together, and the user's versioning mode
    Lanes,        \* requests served at the same time
    MaxRequests,  \* requests, bounded for TLC
    MaxDeaths     \* requests that die under way and cache entries that expire, bounded for TLC

(* rows have their columns and ids below those that new ones get; only moves and copies have a destination *)
ASSUME VfsAssumption ==
    /\ \A p \in DOMAIN Library :
        p \in 1..100 /\ DOMAIN Library[p] = {"hash", "tags", "asserted", "trashed", "name"}
    /\ \A m \in Menus : \A r \in m.requests : r.method \in {"MOVE", "COPY"} \/ r.to = << >>

VARIABLES
    photos,    \* rows: hash, manual tags, tags a service asserts, in the trash or not, file name
    bytes,     \* originals by picture
    versions,  \* <<picture, content>> snapshots
    due,       \* <<picture, content>> for which an extraction was enqueued
    meta,      \* the tags shown when empty, and the directory names tags were given
    spaces,    \* cache entries: the scratch, junk or drop listing of a directory
    scraps,    \* objects staged by atomic saves
    serving,   \* the request each lane serves
    promises,  \* history: what clients were told and nothing has addressed since
    menu, served, deaths

rows == <<photos, due, versions, meta>>
stores == <<bytes, scraps>>
vfsVars == <<rows, stores, spaces, serving, promises, menu, served, deaths>>

Idle == [stage |-> "idle", pic |-> {}]

LiveTags == [p \in {q \in DOMAIN photos : ~photos[q].trashed} |-> photos[p].tags \cup photos[p].asserted]
Tree == TreeOf(Config, LiveTags, meta)

VfsStart(m) ==
    /\ photos = Library /\ bytes = [p \in DOMAIN Library |-> Library[p].hash]
    /\ versions = {} /\ due = {} /\ meta = [shown |-> {}, names |-> << >>]
    /\ spaces = << >> /\ scraps = << >>
    /\ serving = [l \in Lanes |-> Idle] /\ promises = {}
    /\ menu = m /\ served = 0 /\ deaths = 0

VfsInit == \E m \in Menus : VfsStart(m)
----------------------------------------------------------------------------
(* What a directory holds *)

Drop(f, x) == Restrict(f, DOMAIN f \ {x})
Entered(f, x, v) == [y \in DOMAIN f \cup {x} |-> IF y = x THEN v ELSE f[y]]
NoSpace == [dirs |-> {}, files |-> << >>]
Space(key) == IF key \in DOMAIN spaces THEN spaces[key] ELSE NoSpace
(* a fault: an entry with nothing left in it stays *)
SavedEmpty(key, space) == Entered(spaces, key, space)

Saved(key, space) == IF space = NoSpace THEN Drop(spaces, key) ELSE Entered(spaces, key, space)

(* drop_files: what the inbox got lately, under the names it was written as *)
DropFiles(dir) ==
    LET inbox == Space(<<"drop", dir.id>>).files
    IN  UNION {{[name |-> n, pic |-> p] : p \in inbox[n].pic} : n \in DOMAIN inbox}

(* dir_files and project_files *)
NameAmong(p, here) ==
    IF \E q \in here \ {p} : Folded(photos[q].name) = Folded(photos[p].name) THEN photos[p].name \o <<p>> ELSE photos[p].name
FilesOf(dir) ==
    LET here == {p \in DOMAIN LiveTags : Lists(dir, LiveTags[p])}
    IN  IF dir.isDrop THEN DropFiles(dir) ELSE {[name |-> NameAmong(p, here), pic |-> p] : p \in here}

(* file_entry: the picture a path names *)
Entry(root, path) ==
    UNION {{f.pic : f \in {g \in FilesOf(d) : g.name = Last(path)}} : d \in DirAt(root, Front(path))}

(* list_dir *)
EmptyDir(dir, path) ==
    dir.children = << >> /\ FilesOf(dir) = {} /\ Space(<<"junk", path>>) = NoSpace /\ Space(<<"scratch", path>>) = NoSpace

PicturesUnder(tag) == {p \in DOMAIN photos : Carries(photos[p].tags \cup photos[p].asserted, tag)}
MirrorTags(root) == UNION {Last(along).mirrorTag : along \in TrailsOf(root)}

(* resolve_path: an existing directory, or new ones below the nearest that is *)
Targets(root, path) ==
    LET Existing(i) == DirAt(root, SubSeq(path, 1, i))
        nearest == Max({i \in 0..Len(path) : Existing(i) # {}})
        labels == [i \in 1..(Len(path) - nearest) |-> Head(path[nearest + i])]
    IN  IF nearest = Len(path) THEN {[dir |-> {d}, trashedDuplicate |-> d.trashedDuplicate] : d \in Existing(nearest)}
        ELSE {[dir |-> {}, base |-> b, depth |-> nearest, tag |-> b.tag \o labels, trashedDuplicate |-> b.trashedDuplicate] :
                b \in {e \in UNION {ExtensionBase(d) : d \in Existing(nearest)} : e.writable}}

ChainTo(root, path) == NodeChain(CHOOSE along \in DirsTo(root, path) : TRUE)

(* a fault: new directories add nothing to the nearest that is *)
NearestChain(root, path, target) ==
    LET known == SubSeq(path, 1, IF target.dir # {} THEN Len(path) ELSE target.depth)
    IN  {ChainTo(root, known) : d \in {e \in DirAt(root, known) : e.writeBack # {}}}

(* writable_chain: {} when the target is read-only *)
WritableChain(root, path, target) ==
    IF target.dir # {}
    THEN {ChainTo(root, path) : d \in {e \in target.dir : e.writeBack # {}}}
    ELSE LET above == SubSeq(path, 1, target.depth)
             chain == ChainTo(root, above)
             own == \E d \in DirAt(root, above) : d.id = {target.base.id}
             step == [key |-> <<{target.base.id}, {target.tag}>>, writeBack |-> {MirrorWriteBack(target.base, target.tag)}]
         IN  {(IF own THEN Front(chain) ELSE chain) \o <<step>>}

(* fold_case: assigned tags take the case of stored ones *)
FoldCase(root, ops) ==
    LET existing == Sorted((UNION Range(LiveTags)) \cup MirrorTags(root))
    IN  [i \in DOMAIN ops |-> IF ops[i].op = "assign" THEN [ops[i] EXCEPT !.path = ReuseExistingCase(@, existing)] ELSE ops[i]]
----------------------------------------------------------------------------
(* Serving a request *)

Becomes(l, c) == serving' = [serving EXCEPT ![l] = c]
(* a request whose picture another one addresses is promised nothing *)
Takes(l, c, p) ==
    serving' = [m \in Lanes |->
        IF m = l THEN [c EXCEPT !.pic = {p}, !.contested = \E n \in Lanes \ {l} : serving[n].pic = {p}]
        ELSE IF serving[m].pic = {p} THEN [serving[m] EXCEPT !.contested = TRUE] ELSE serving[m]]

InScratch(path) == \E i \in DOMAIN path : path[i] \in Scratch
IsPromotion(c) == InScratch(c.request.from) /\ c.request.to # << >> /\ ~InScratch(c.request.to)
Destination(c) == IF IsPromotion(c) THEN c.request.to ELSE c.request.from

Place(kind, path) == [key |-> <<kind, Front(path)>>, name |-> Last(path)]
Update(op, at, entry) == [op |-> op, at |-> at, entry |-> entry]
(* what is staged, the picture, or the bytes of a junk file *)
File(object, pic, content) == [object |-> object, pic |-> pic, content |-> content]
NoFile == File({}, {}, Empty)

(* note_drop and forget_drop: the update of the listing of a directory, if it is an inbox *)
Inboxes(dirs) == {<<"drop", d.id>> : d \in {e \in dirs : e.isDrop}}
UpdateInbox(dirs, op, name, entry) ==
    IF Inboxes(dirs) = {} THEN << >>
    ELSE <<Update(op, [key |-> CHOOSE k \in Inboxes(dirs) : TRUE, name |-> name], entry)>>
NoteDrop(dirs, name, p) == UpdateInbox(dirs, "put", name, File({}, {p}, Empty))
ForgetDrop(dirs, name) == UpdateInbox(dirs, "delete", name, NoFile)

(* what a client is told of a picture, kept while no request addresses it: its content, and the *)
(* directories it is shown in or is gone from, as long as no directory comes, goes or is renamed *)
Told(l, kind, p, content, place, isDue) ==
    LET others == {serving[m] : m \in {n \in Lanes \ {l} : serving[n].stage # "idle"}}
        torn == kind = "kept" /\ p \in DOMAIN bytes /\ bytes[p] # photos[p].hash
    IN  IF torn \/ (serving[l].pic = {p} /\ serving[l].contested) \/ (\E o \in others : o.pic = {p}) \/ (kind = "gone" /\ \E o \in others : o.reshapes) THEN {}
        ELSE {[kind |-> kind, pic |-> p, content |-> content, due |-> isDue,
               place |-> IF \E o \in others : o.reshapes THEN {} ELSE place]}

(* what full versioning replaces stays promised *)
Addressed(p, replaces) ==
    {q \in promises : q.kind \in {"archived", "staged"} \/ q.pic # p} \cup
        {[q EXCEPT !.kind = "archived", !.place = {}, !.due = FALSE] :
            q \in {r \in promises : r.kind = "kept" /\ r.pic = p /\ replaces /\ menu.versioning = "full"}}
Reshaped == {IF q.kind = "kept" THEN [q EXCEPT !.place = {}] ELSE q : q \in {r \in promises : r.kind # "gone"}}

(* the end of the writes of a request: listings are still to be updated, or the scratch file of *)
(* a promotion to be dropped                                                                   *)
Concludes(l, c) ==
    LET unlists == c.request.method = "MOVE" /\ IsPromotion(c)
    IN  Becomes(l, IF c.todo # << >> THEN [c EXCEPT !.stage = "read"]
                   ELSE IF unlists THEN [c EXCEPT !.stage = "unlist"] ELSE Idle)

StagedAt(key) == {q \in promises : q.kind = "staged" /\ q.at.key = key}

Closes(l) == Becomes(l, Idle) /\ UNCHANGED promises

(* dispatch, and the tree it loads *)
FirstStage(r) ==
    IF Last(r.from) \in Junk THEN IF r.method \in {"PUT", "DELETE"} THEN "read" ELSE "none"
    ELSE IF ~InScratch(r.from) THEN IF InScratch(r.to) THEN "backup" ELSE "look"
    ELSE IF r.method = "PUT" THEN IF r.content = Empty THEN "none" ELSE "upload"
    ELSE IF r.method = "COPY" /\ InScratch(r.to) THEN "none" ELSE "read"

JunkTodo(r) ==
    <<Update(IF r.method = "PUT" THEN "put" ELSE "delete", Place("junk", r.from), File({}, {}, r.content))>>
ScratchTodo(r) ==
    LET from == Place("scratch", r.from)
    IN  CASE r.method = "MKCOL" -> <<Update("addDir", from, NoFile)>>
          [] r.method = "PUT" -> <<Update("put", from, File({}, {}, r.content))>>
          [] r.method = "DELETE" -> <<Update("delete", from, NoFile)>>
          [] r.method \in {"MOVE", "COPY"} /\ InScratch(r.to) ->
                <<Update("take", from, NoFile), Update("give", Place("scratch", r.to), NoFile)>>
          [] OTHER -> <<Update("fetch", from, NoFile)>>
Todo(r) == IF Last(r.from) \in Junk THEN JunkTodo(r) ELSE IF InScratch(r.from) THEN ScratchTodo(r) ELSE << >>

StagesOf(r) == InScratch(r.from) \/ InScratch(r.to)

(* requests that handle scratch files at once are promised nothing of them *)
Start ==
    \E l \in Lanes, r \in menu.requests :
        /\ serving[l] = Idle /\ (\A m \in Lanes : m < l => serving[m] # Idle)
        /\ served < MaxRequests /\ served' = served + 1
        /\ FirstStage(r) # "none"
        /\ LET root == Tree
               reshapes == FirstStage(r) = "look" /\ (r.method = "MKCOL" \/ DirAt(root, r.from) # {})
               Handles(m) == serving[m] # Idle /\ StagesOf(serving[m].request)
               others == {m \in Lanes \ {l} : StagesOf(r) /\ Handles(m)}
           IN  /\ serving' = [m \in Lanes |->
                     IF m \in others THEN [serving[m] EXCEPT !.contested = TRUE] ELSE IF m # l THEN serving[m]
                     ELSE [stage |-> FirstStage(r), id |-> served', request |-> r, root |-> root, pic |-> {},
                           content |-> r.content, todo |-> Todo(r), space |-> NoSpace, listing |-> NoSpace, carried |-> {},
                           reshapes |-> reshapes, contested |-> others # {}, change |-> << >>, object |-> {}]]
               /\ promises' = IF reshapes THEN Reshaped ELSE promises
        /\ UNCHANGED <<rows, stores, spaces, menu, deaths>>
----------------------------------------------------------------------------
(* Cache entries are read, changed and written back: two requests may do so at once. *)

(* put_staging stores the bytes first *)
Upload ==
    \E l \in Lanes :
        /\ serving[l].stage = "upload"
        /\ scraps' = Entered(scraps, serving[l].id, serving[l].content)
        /\ LET c == serving[l]
           IN  Becomes(l, [c EXCEPT !.stage = "read", !.object = {c.id},
                               !.todo = <<Update("put", Place("scratch", c.request.from), File({c.id}, {}, c.content))>>])
        /\ UNCHANGED <<rows, bytes, spaces, promises, menu, served, deaths>>

(* the objects of the entry an update takes away *)
Replaced(update, space) ==
    IF update.at.name \in DOMAIN space.files /\ update.op \in {"put", "delete"} /\ update.entry.pic = {}
    THEN space.files[update.at.name].object ELSE {}

ReadSpace ==
    \E l \in Lanes :
        /\ serving[l].stage = "read"
        /\ LET c == serving[l]
               update == Head(c.todo)
               space == Space(update.at.key)
               entry == IF update.at.name \in DOMAIN space.files THEN {space.files[update.at.name]} ELSE {}
               known == entry # {} \/ update.at.name \in space.dirs
           IN  /\ scraps' = Restrict(scraps, DOMAIN scraps \ Replaced(update, space))
               /\ promises' = {q \in promises : q.kind = "staged" => q.at # update.at}
               /\ CASE update.op \in {"put", "addDir", "give"} -> Becomes(l, [c EXCEPT !.stage = "save", !.space = space])
                    [] update.op \in {"delete", "take"} ->
                        IF known THEN Becomes(l, [c EXCEPT !.stage = "save", !.space = space, !.carried = entry])
                        ELSE Becomes(l, Idle)
                    [] update.op = "fetch" ->
                        (* only staged bytes can be promoted *)
                        LET f == {e \in entry : e.object # {}}
                        IN  IF f = {} THEN Becomes(l, Idle)
                            ELSE Becomes(l, [c EXCEPT !.stage = "look", !.listing = space, !.todo = << >>,
                                    !.object = UNION {e.object : e \in f}, !.content = (CHOOSE e \in f : TRUE).content])
        /\ UNCHANGED <<rows, bytes, spaces, menu, served, deaths>>

Updated(c, update) ==
    LET n == update.at.name
        space == c.space
    IN  CASE update.op = "addDir" -> [space EXCEPT !.dirs = @ \cup {n}]
          [] update.op = "put" -> [space EXCEPT !.files = Entered(@, n, update.entry)]
          [] update.op = "give" /\ c.carried = {} -> [space EXCEPT !.dirs = @ \cup {n}]
          [] update.op = "give" /\ c.carried # {} -> [space EXCEPT !.files = Entered(@, n, CHOOSE e \in c.carried : TRUE)]
          [] update.op \in {"delete", "take"} /\ n \in DOMAIN space.files -> [space EXCEPT !.files = Drop(@, n)]
          [] OTHER -> [space EXCEPT !.dirs = @ \ {n}]

(* a staged file is promised to its client; a save over what another request has saved since *)
(* the read may take it away                                                                   *)
Staged(l, at, file) ==
    IF ~serving[l].contested /\ at.key[1] = "scratch" /\ file.object # {}
    THEN {[kind |-> "staged", at |-> at, content |-> file.content]} ELSE {}

SaveSpace ==
    \E l \in Lanes :
        /\ serving[l].stage = "save"
        /\ LET c == serving[l]
               update == Head(c.todo)
               key == update.at.key
               space == Updated(c, update)
               sweeps == update.op = "delete" /\ key[1] = "scratch" /\ c.carried = {}
               next == [c EXCEPT !.todo = Tail(@)]
           IN  /\ spaces' = Saved(key, space)
               /\ promises' = (IF Space(key) = c.space THEN promises ELSE promises \ StagedAt(key))
                                 \cup (IF update.op = "put" THEN Staged(l, update.at, update.entry) ELSE {})
               /\ IF sweeps THEN Becomes(l, [next EXCEPT !.stage = "sweep"]) ELSE Concludes(l, next)
        /\ UNCHANGED <<rows, stores, menu, served, deaths>>

(* the files staged inside a removed scratch directory *)
Sweep ==
    \E l \in Lanes :
        /\ serving[l].stage = "sweep"
        /\ LET key == <<"scratch", serving[l].request.from>>
               files == Space(key).files
           IN  /\ scraps' = Restrict(scraps, DOMAIN scraps \ UNION {files[n].object : n \in DOMAIN files})
               /\ spaces' = Drop(spaces, key)
               /\ promises' = promises \ StagedAt(key)
        /\ Becomes(l, Idle)
        /\ UNCHANGED <<rows, bytes, menu, served, deaths>>

(* promote_staging: the marker goes from the cache entry as it was read before the write, then *)
(* the object goes                                                                            *)
Unlist ==
    \E l \in Lanes :
        /\ serving[l].stage = "unlist"
        /\ LET c == serving[l]
               at == Place("scratch", c.request.from)
           IN  /\ spaces' = Saved(at.key, [c.listing EXCEPT !.files = Drop(@, at.name)])
               /\ promises' = IF Space(at.key) = c.listing THEN promises ELSE promises \ StagedAt(at.key)
               /\ Becomes(l, [c EXCEPT !.stage = "unstage"])
        /\ UNCHANGED <<rows, stores, menu, served, deaths>>

Unstage ==
    \E l \in Lanes :
        /\ serving[l].stage = "unstage"
        /\ scraps' = Restrict(scraps, DOMAIN scraps \ serving[l].object)
        /\ Becomes(l, Idle)
        /\ UNCHANGED <<rows, bytes, spaces, promises, menu, served, deaths>>

(* stage_backup_ref: a picture moved out of the way stays where it is *)
Backup ==
    \E l \in Lanes :
        /\ serving[l].stage = "backup"
        /\ LET c == serving[l]
               found == Entry(c.root, c.request.from)
           IN  Becomes(l, IF found = {} THEN Idle
                          ELSE [c EXCEPT !.stage = "read", !.todo = <<Update("put", Place("scratch", c.request.to), File({}, found, Empty))>>])
        /\ UNCHANGED <<rows, stores, spaces, promises, menu, served, deaths>>
----------------------------------------------------------------------------

(* land_new: a live picture of the same content takes the tags of the target, one in the trash *)
(* does what the target says, and else the bytes are a new picture's.  The user may be over quota *)
LandNew(l, c, target, enter, name, place) ==
    LET Alike(trashed) == {p \in DOMAIN photos : photos[p].hash = c.content /\ photos[p].trashed = trashed}
        live == Alike(FALSE)
        trashed == Alike(TRUE)
        Noted(p) == NoteDrop(target.dir, name, p)
        Lands(p, stage, restores) ==
            /\ promises' = Addressed(p, FALSE)
            /\ Takes(l, [c EXCEPT !.stage = stage, !.todo = Noted(p), !.change =
                    [leave |-> << >>, enter |-> enter, restores |-> restores, place |-> place]], p)
    IN  \/ \E p \in live : Lands(p, "apply", FALSE)
        \/ /\ live = {} /\ target.trashedDuplicate = "restore"
           /\ \E p \in trashed : Lands(p, "apply", TRUE)
        \/ /\ live = {} /\ target.trashedDuplicate = "ignore"
           /\ \E p \in trashed :
                /\ promises' = promises \cup Told(l, "kept", p, c.content, {}, FALSE)
                /\ Concludes(l, [c EXCEPT !.todo = Noted(p)])
        \/ live \cup trashed = {} /\ (Lands(100 + c.id, "bytes", FALSE) \/ Closes(l))

(* finalize_write: an overwrite, unless it is over quota, or a new file *)
LookPut ==
    \E l \in Lanes :
        LET c == serving[l]
            path == Destination(c)
            parent == Front(path)
            root == c.root
            target == Targets(root, parent)
            chains == UNION {WritableChain(root, parent, t) : t \in target}
            dirs == UNION {t.dir : t \in target}
            same == IF Inboxes(dirs) = {} THEN Entry(root, path) ELSE {}
        IN  /\ c.stage = "look" /\ (c.request.method = "PUT" \/ IsPromotion(c))
            /\ CASE c.content = Empty -> Concludes(l, c) /\ UNCHANGED promises
                 [] c.content # Empty /\ same # {} ->
                        LET p == CHOOSE p \in same : TRUE
                        IN  IF photos[p].hash = c.content
                            THEN /\ promises' = promises \cup Told(l, "kept", p, c.content, {parent}, FALSE)
                                 /\ Concludes(l, c)
                            ELSE \/ promises' = Addressed(p, TRUE)
                                        /\ Takes(l, [c EXCEPT !.stage = "snapshot"], p)
                                 \/ Closes(l)
                 [] c.content # Empty /\ same = {} /\ chains = {} -> Closes(l)
                 [] c.content # Empty /\ same = {} /\ chains # {} ->
                        \E t \in target, ch \in chains :
                            LandNew(l, c, t, Transition(<< >>, ch).enter, Last(path),
                                    IF Inboxes(dirs) = {} THEN {parent} ELSE {})
            /\ UNCHANGED <<rows, stores, spaces, menu, served, deaths>>

(* a fault: only the first overwrite of a picture is snapshotted *)
SnapshotFirst ==
    \E l \in Lanes, p \in DOMAIN photos :
        /\ serving[l].stage = "snapshot" /\ serving[l].pic = {p}
        /\ versions' = IF menu.versioning # "none" /\ \A v \in versions : v[1] # p
                       THEN versions \cup {<<p, bytes[p]>>} ELSE versions
        /\ Becomes(l, [serving[l] EXCEPT !.stage = "bytes"])
        /\ UNCHANGED <<photos, due, meta, stores, spaces, promises, menu, served, deaths>>

(* snapshot_version_on_overwrite *)
Snapshot ==
    \E l \in Lanes, p \in DOMAIN photos :
        /\ serving[l].stage = "snapshot" /\ serving[l].pic = {p}
        /\ versions' = IF \/ menu.versioning = "full"
                          \/ menu.versioning = "original" /\ \A v \in versions : v[1] # p
                       THEN versions \cup {<<p, bytes[p]>>} ELSE versions
        /\ Becomes(l, [serving[l] EXCEPT !.stage = "bytes"])
        /\ UNCHANGED <<photos, due, meta, stores, spaces, promises, menu, served, deaths>>

(* copy_to: from the request, or from the staged object, which may be gone *)
PutBytes ==
    \E l \in Lanes :
        LET c == serving[l]
            from == IF IsPromotion(c) THEN {scraps[o] : o \in c.object \cap DOMAIN scraps} ELSE {c.content}
        IN  /\ c.stage = "bytes"
            /\ \A p \in c.pic : IF from = {} THEN Closes(l) /\ UNCHANGED bytes
                 ELSE /\ bytes' = Entered(bytes, p, CHOOSE b \in from : TRUE)
                      /\ Becomes(l, [c EXCEPT !.stage = IF p \in DOMAIN photos THEN "hash" ELSE "row"])
                      /\ UNCHANGED promises
            /\ UNCHANGED <<rows, scraps, spaces, menu, served, deaths>>

SetHash ==
    \E l \in Lanes, p \in DOMAIN photos :
        /\ serving[l].stage = "hash" /\ serving[l].pic = {p}
        /\ photos' = [photos EXCEPT ![p].hash = serving[l].content]
        /\ Becomes(l, [serving[l] EXCEPT !.stage = "enqueue"])
        /\ UNCHANGED <<due, versions, meta, stores, spaces, promises, menu, served, deaths>>

Enqueue ==
    \E l \in Lanes, p \in DOMAIN photos :
        LET c == serving[l] IN
        /\ c.stage = "enqueue" /\ c.pic = {p}
        /\ due' = due \cup {<<p, c.content>>}
        /\ promises' = promises \cup Told(l, "kept", p, c.content, {Front(Destination(c))}, TRUE)
        /\ Concludes(l, c)
        /\ UNCHANGED <<photos, versions, meta, stores, spaces, menu, served, deaths>>

(* the row, its hash and its extraction in one transaction *)
InsertRow ==
    \E l \in Lanes :
        LET c == serving[l] IN
        /\ c.stage = "row"
        /\ \A p \in c.pic :
            /\ photos' = Entered(photos, p, [hash |-> c.content, tags |-> {}, asserted |-> {}, trashed |-> FALSE,
                                           name |-> Last(Destination(c))])
            /\ due' = due \cup {<<p, c.content>>}
        /\ Becomes(l, [c EXCEPT !.stage = "apply"])
        /\ UNCHANGED <<versions, meta, stores, spaces, promises, menu, served, deaths>>

(* apply_transition: not when a service asserts a tag to be removed *)
Apply ==
    \E l \in Lanes, p \in DOMAIN photos :
        LET c == serving[l]
            root == c.root
            change == [leave |-> FoldCase(root, c.change.leave), enter |-> FoldCase(root, c.change.enter)]
        IN  /\ c.stage = "apply" /\ c.pic = {p}
            /\ IF \E t \in photos[p].asserted, r \in OpPaths(change.leave, "remove") : IsAncestorOrSelf(r, t)
               THEN Closes(l) /\ UNCHANGED photos
               ELSE /\ photos' = [photos EXCEPT ![p].trashed = @ /\ ~c.change.restores,
                                                ![p].tags = AfterTransition(@, change)]
                    /\ promises' = promises \cup
                            Told(l, IF c.request.method = "DELETE" THEN "gone" ELSE "kept", p, photos[p].hash, c.change.place,
                                 c.request.method = "PUT" /\ p = 100 + c.id)
                    /\ Concludes(l, c)
            /\ UNCHANGED <<due, versions, meta, stores, spaces, menu, served, deaths>>
----------------------------------------------------------------------------

(* delete: an empty directory goes with the row that shows it, a picture as its directory says *)
DeleteDir ==
    \E l \in Lanes :
        LET c == serving[l]
            path == c.request.from
            root == c.root
        IN  /\ c.stage = "look" /\ c.request.method = "DELETE"
            /\ \E d \in DirAt(root, path) :
                meta' = IF EmptyDir(d, path)
                        THEN LET bare == {t \in d.mirrorTag \cap meta.shown : PicturesUnder(t) = {}}
                             IN  [shown |-> meta.shown \ bare, names |-> Restrict(meta.names, DOMAIN meta.names \ bare)]
                        ELSE meta
            /\ Closes(l)
            /\ UNCHANGED <<photos, due, versions, stores, spaces, menu, served, deaths>>

DeleteFile ==
    \E l \in Lanes :
        LET c == serving[l]
            path == c.request.from
            root == c.root
            Forgets(d) == ForgetDrop({d}, Last(path))
        IN  /\ c.stage = "look" /\ c.request.method = "DELETE" /\ ~InScratch(path) /\ DirAt(root, path) = {}
            /\ IF Entry(root, path) = {} THEN Closes(l)
               ELSE \E p \in Entry(root, path), d \in DirAt(root, Front(path)) :
                    CASE ~d.writable \/ d.safeDelete = "fullDelete" ->
                            /\ promises' = Addressed(p, FALSE)
                            /\ Takes(l, [c EXCEPT !.stage = "trash", !.todo = Forgets(d),
                                            !.change = [place |-> IF d.isDrop THEN {} ELSE {Front(path)}]], p)
                      [] d.writable /\ d.safeDelete # "fullDelete" /\ d.writeBack = {} -> Closes(l)
                      [] OTHER ->
                            /\ promises' = Addressed(p, FALSE)
                            /\ Takes(l, [c EXCEPT !.stage = "apply", !.todo = Forgets(d), !.change =
                                    [leave |-> (CHOOSE wb \in d.writeBack : TRUE).onRemove, enter |-> << >>,
                                     restores |-> FALSE, place |-> IF d.isDrop THEN {} ELSE {Front(path)}]], p)
            /\ UNCHANGED <<rows, stores, spaces, menu, served, deaths>>

(* set_deleted *)
Trash ==
    \E l \in Lanes, p \in DOMAIN photos :
        LET c == serving[l] IN
        /\ c.stage = "trash" /\ c.pic = {p}
        /\ photos' = [photos EXCEPT ![p].trashed = TRUE]
        /\ promises' = promises \cup Told(l, "gone", p, photos[p].hash, c.change.place, FALSE)
        /\ Concludes(l, c)
        /\ UNCHANGED <<due, versions, meta, stores, spaces, menu, served, deaths>>

(* move_ and copy of a picture *)
MoveFile ==
    \E l \in Lanes :
        LET c == serving[l]
            from == Front(c.request.from)
            to == Front(c.request.to)
            root == c.root
            moves == c.request.method = "MOVE"
            target == Targets(root, to)
            chains == UNION {WritableChain(root, to, t) : t \in target}
            forgets == IF moves THEN ForgetDrop(DirAt(root, from), Last(c.request.from)) ELSE << >>
            Notes(p) == NoteDrop(UNION {t.dir : t \in target}, Last(c.request.to), p)
            readOnly == moves /\ \A d \in DirAt(root, from) : d.writeBack = {}
        IN  /\ c.stage = "look" /\ c.request.method \in {"MOVE", "COPY"} /\ ~IsPromotion(c)
            /\ moves => DirAt(root, c.request.from) = {}
            /\ CASE Entry(root, c.request.from) = {} -> Closes(l) /\ UNCHANGED photos
                 [] Entry(root, c.request.from) # {} /\ moves /\ from = to ->
                        /\ photos' = [p \in DOMAIN photos |->
                                        IF p \in Entry(root, c.request.from) THEN [photos[p] EXCEPT !.name = Last(c.request.to)] ELSE photos[p]]
                        /\ Closes(l)
                 [] Entry(root, c.request.from) # {} /\ ~(moves /\ from = to) ->
                        /\ IF chains = {} \/ readOnly THEN Closes(l)
                           ELSE \E p \in Entry(root, c.request.from), into \in chains :
                                LET change == Transition(ChainTo(root, from), into)
                                    shown == \A d \in UNION {t.dir : t \in target} : ~d.isDrop
                                IN  /\ promises' = Addressed(p, FALSE)
                                    /\ Takes(l, [c EXCEPT !.stage = "apply", !.todo = forgets \o Notes(p), !.change =
                                            [leave |-> IF moves THEN change.leave ELSE << >>, enter |-> change.enter, restores |-> FALSE,
                                             place |-> IF shown /\ ~Undoes(ChainTo(root, from), into) THEN {to} ELSE {}]], p)
                        /\ UNCHANGED photos
            /\ UNCHANGED <<due, versions, meta, stores, spaces, menu, served, deaths>>

(* resolve_new_tag: the tag of a directory that is not there yet, folded onto one of another case *)
NewTag(root, path) ==
    {t \in {FoldCase(root, <<Op("assign", e.tag)>>)[1].path : e \in {f \in Targets(root, path) : f.dir = {}}} : t \notin MirrorTags(root)}

Shown(m, tag, name) == [shown |-> m.shown \cup {tag}, names |-> Entered(m.names, tag, name)]

Mkcol ==
    \E l \in Lanes :
        LET c == serving[l]
            path == c.request.from
            root == c.root
            tags == IF \E d \in DirAt(root, Front(path)) : d.isDrop THEN {} ELSE NewTag(root, path)
        IN  /\ c.stage = "look" /\ c.request.method = "MKCOL"
            /\ meta' = IF tags = {} THEN meta ELSE Shown(meta, CHOOSE t \in tags : TRUE, Last(path))
            /\ Closes(l)
            /\ UNCHANGED <<photos, due, versions, stores, spaces, menu, served, deaths>>

(* rename_subtree: a row that is there already wins *)
RenamedRows(m, old, new) ==
    LET known == m.shown \cup DOMAIN m.names
        after == {RenameUnder(n, old, new) : n \in known}
        Source(n) == IF n \in known /\ ~IsAncestorOrSelf(old, n) THEN n
                     ELSE CHOOSE k \in known : RenameUnder(k, old, new) = n
    IN  [shown |-> {n \in after : Source(n) \in m.shown},
         names |-> [n \in {k \in after : Source(k) \in DOMAIN m.names} |-> m.names[Source(n)]]]

(* move_empty_dir: only the renaming of a directory that its metadata row shows *)
MoveEmptyDir ==
    \E l \in Lanes :
        LET c == serving[l]
            from == c.request.from
            to == c.request.to
            root == c.root
            old == meta.shown \cap UNION {d.mirrorTag : d \in {e \in DirAt(root, from) : e.writable /\ EmptyDir(e, from)}}
        IN  /\ c.stage = "look" /\ c.request.method = "MOVE" /\ ~IsPromotion(c) /\ DirAt(root, from) # {}
            /\ IF Front(from) # Front(to) \/ old = {} \/ NewTag(root, to) = {} THEN UNCHANGED meta
               ELSE \E tag \in old, new \in NewTag(root, to) :
                    meta' = IF PicturesUnder(tag) # {}
                            THEN [Shown(meta, new, Last(to)) EXCEPT !.shown = @ \ {tag}]
                            ELSE Shown(RenamedRows(meta, tag, new), new, Last(to))
            /\ Closes(l)
            /\ UNCHANGED <<photos, due, versions, stores, spaces, menu, served, deaths>>
----------------------------------------------------------------------------
(* the process dies under a request; a cache entry expires *)
RequestDies ==
    \E l \in Lanes :
        /\ serving[l] # Idle /\ deaths < MaxDeaths /\ deaths' = deaths + 1
        /\ Closes(l)
        /\ UNCHANGED <<rows, stores, spaces, menu, served>>

SpaceExpires ==
    \E key \in DOMAIN spaces :
        /\ deaths < MaxDeaths /\ deaths' = deaths + 1
        /\ spaces' = Drop(spaces, key) /\ promises' = promises \ StagedAt(key)
        /\ UNCHANGED <<rows, stores, serving, menu, served>>

VfsNext ==
    \/ Start \/ Upload \/ ReadSpace \/ SaveSpace \/ Sweep \/ Unlist \/ Unstage \/ Backup
    \/ LookPut \/ Snapshot \/ PutBytes \/ SetHash \/ Enqueue \/ InsertRow \/ Apply
    \/ DeleteDir \/ DeleteFile \/ Trash \/ MoveFile \/ Mkcol \/ MoveEmptyDir
    \/ RequestDies \/ SpaceExpires

VfsSpec == VfsInit /\ [][VfsNext]_vfsVars
----------------------------------------------------------------------------
(* Rows, objects, entries and requests have their types. *)
VfsTypeOK ==
    /\ \A p \in DOMAIN photos :
        /\ photos[p].trashed \in BOOLEAN /\ photos[p].hash # Empty
        /\ \A t \in photos[p].tags \cup photos[p].asserted : t # << >>
    /\ {d[1] : d \in due} \cup {v[1] : v \in versions} \subseteq DOMAIN photos
    /\ \A k \in DOMAIN spaces : spaces[k] # NoSpace /\ k[1] \in {"scratch", "junk", "drop"}
    /\ \A l \in Lanes : serving[l].stage \in {"idle", "upload", "read", "save", "sweep", "unlist", "unstage", "backup",
                            "look", "snapshot", "bytes", "hash", "enqueue", "row", "apply", "trash"}
    /\ served \in 0..MaxRequests /\ deaths \in 0..MaxDeaths

(* shown below a directory whose names mint the same labels, whatever their case *)
ShownAt(p, place) ==
    \E along \in TrailsOf(Tree) :
        /\ [i \in DOMAIN along |-> Head(along[i].name) \div 2] = [i \in DOMAIN place |-> Head(place[i]) \div 2]
        /\ p \in DOMAIN LiveTags /\ ListsBelow(Last(along), LiveTags[p])

(* What a client was told stands until a request addresses it, over every death of another        *)
(* request, every overlap and every retry (services/vfs/write.rs, dirops.rs, staging.rs).  Exempt: *)
(* a picture two requests address at once, and an overwrite that died between its bytes and hash. *)

(* A stored picture has the bytes it was given and will be read; what an overwrite replaced under *)
(* full versioning is a version; a staged file is there to be promoted.                           *)
ContentKept ==
    \A q \in promises :
        CASE q.kind = "kept" ->
                /\ q.pic \in DOMAIN bytes /\ bytes[q.pic] = q.content /\ photos[q.pic].hash = q.content
                /\ q.due => <<q.pic, q.content>> \in due
          [] q.kind = "archived" -> bytes[q.pic] = q.content \/ <<q.pic, q.content>> \in versions
          [] q.kind = "staged" ->
                LET files == Space(q.at.key).files
                IN  /\ q.at.name \in DOMAIN files /\ files[q.at.name].object # {}
                    /\ \A o \in files[q.at.name].object : o \in DOMAIN scraps /\ scraps[o] = q.content
          [] OTHER -> TRUE

(* A stored picture is shown in the directory it was put into, a deleted one is not listed. *)
PlaceKept ==
    \A q \in promises :
        /\ q.kind = "kept" => \A place \in q.place : ShownAt(q.pic, place)
        /\ q.kind = "gone" =>
              \A place \in q.place : \A d \in DirAt(Tree, place) : q.pic \notin {f.pic : f \in FilesOf(d)}
=============================================================================
