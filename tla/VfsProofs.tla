----------------------------- MODULE VfsProofs -----------------------------
(***************************************************************************)
(* Proofs about Vfs: what a WebDAV client was told of the content of a file *)
(* stands, for every library, set of requests, number of lanes, deaths and  *)
(* expiries, and for whatever the hierarchy makes of paths and tags.        *)
(*                                                                         *)
(* A promise of a picture stands because no request writes a picture that   *)
(* another one answered for without both knowing it; a promise of a staged  *)
(* file because its object is in one listing only and every other request   *)
(* spares it.  Promises of places depend on the hierarchy and are left to   *)
(* TLC.                                                                    *)
(***************************************************************************)
EXTENDS Vfs, SequenceTheorems, TLAPS

----------------------------------------------------------------------------
(* Well-formed requests, entries, rows and promises.  c is a request, R the  *)
(* ids of the rows, n the number of ids given.                               *)

PromiseKeys == {"kind", "pic", "content", "due", "place"}
CallKeys == {"stage", "id", "request", "root", "pic", "content", "todo", "space", "listing", "carried",
             "reshapes", "contested", "change", "object"}
RowKeys == {"hash", "tags", "asserted", "trashed", "name"}

Active(c) == c.stage # "idle"
Parts(s) == {s[i] : i \in DOMAIN s}
IsSequence(s) == s \in Seq(Parts(s))
SpaceObjects(s) == UNION {s.files[n].object : n \in DOMAIN s.files}

KnownEntry(e, R, n) == e.pic \subseteq R /\ e.object \subseteq 1..n
KnownSpace(s, R, n) == DOMAIN s = {"dirs", "files"} /\ \A x \in DOMAIN s.files : KnownEntry(s.files[x], R, n)

From(c) == Place("scratch", c.request.from)
StagedEntry(c) == [object |-> c.object, pic |-> {}, content |-> c.content]

(* the place of an update is a name of a listing *)
Sited(u) == u.at = [key |-> u.at.key, name |-> u.at.name]

(* the picture whose row c is about to insert *)
Inserting(c) == IF c.stage \in {"bytes", "row"} THEN c.pic ELSE {}

(* u is an update c may have to do: only staging touches scratch listings, and *)
(* only a PUT brings a new object into one                                    *)
Chore(c, u, R, n) ==
    /\ u.op \in {"put", "addDir", "give", "delete", "take", "fetch"} /\ Sited(u)
    /\ u.entry.pic \subseteq R \cup Inserting(c) /\ u.entry.object \subseteq 1..n
    /\ u.at.key[1] = "scratch" => StagesOf(c.request) /\ c.pic = {}
    /\ u.op = "fetch" => u.at = From(c) /\ c.request.method # "PUT"
    /\ u.entry.object # {} => c.request.method = "PUT" /\ c.object # {}

(* what c holds at its stage *)
Well(c, R, n) ==
    /\ DOMAIN c = CallKeys /\ Active(c) /\ c.id \in 1..n
    /\ \A p, r \in c.pic : p = r
    /\ c.stage \in {"snapshot", "bytes", "hash", "enqueue", "row", "apply", "trash"} => c.pic # {}
    /\ c.stage \in {"snapshot", "hash", "enqueue", "apply", "trash"} => c.pic \subseteq R
    /\ c.stage \in {"upload", "backup", "look"} => c.pic = {}
    /\ c.stage = "look" => c.todo = << >>
    /\ c.pic \subseteq R \cup {100 + c.id}
    /\ c.stage = "row" => c.pic = {100 + c.id}
    /\ c.stage \in {"upload", "backup"} => c.object = {} /\ StagesOf(c.request)
    /\ c.stage = "upload" \/ (c.request.method = "PUT" /\ c.object # {}) =>
          /\ c.request.method = "PUT" /\ InScratch(c.request.from) /\ c.pic = {}
          /\ c.stage \in {"upload", "read", "save"}
          /\ c.todo = <<Update("put", From(c), StagedEntry(c))>>
    /\ c.request.method = "PUT" => c.object \subseteq {c.id}
    /\ c.request.method # "PUT" \/ c.request.to = << >>
    /\ IsSequence(c.todo) /\ \A u \in Parts(c.todo) : Chore(c, u, R, n)
    /\ c.stage \in {"read", "save"} => c.todo # << >>
    /\ KnownSpace(c.space, R, n) /\ KnownSpace(c.listing, R, n)
    /\ \A e \in c.carried : KnownEntry(e, R, n)
    /\ c.object \subseteq 1..n
    /\ IsPromotion(c) /\ c.object = {} => c.stage = "read" /\ \A u \in Parts(c.todo) : u.op = "fetch"
    /\ c.stage \in {"unlist", "unstage"} => IsPromotion(c)

CallsWell ==
    /\ DOMAIN serving = Lanes
    /\ \A l \in Lanes : serving[l] = Idle \/ Well(serving[l], DOMAIN photos, served)
IdsDiffer == \A l, m \in Lanes : l # m /\ Active(serving[l]) /\ Active(serving[m]) => serving[l].id # serving[m].id

RowsWell ==
    /\ served \in Nat
    /\ DOMAIN photos \subseteq DOMAIN Library \cup {100 + i : i \in 1..served}
    /\ \A p \in DOMAIN photos : DOMAIN photos[p] = RowKeys
    /\ \A k \in DOMAIN spaces : KnownSpace(spaces[k], DOMAIN photos, served)
    /\ menu \in Menus
PromisesWell ==
    \A q \in promises :
        /\ q.kind # "staged" => DOMAIN q = PromiseKeys
        /\ q.kind \in {"kept", "gone", "archived", "staged"}
        /\ q.kind \in {"kept", "archived"} => q.pic \in DOMAIN photos

WellInv == RowsWell /\ CallsWell /\ IdsDiffer /\ PromisesWell

----------------------------------------------------------------------------
(* Promises of pictures: who may write the picture of a promise *)

(* every row has its bytes *)
Lasting == DOMAIN photos \subseteq DOMAIN bytes

(* the id that c would give a new picture is unused, or it is the picture c inserted *)
Fresh(c) == Active(c) /\ 100 + c.id \in DOMAIN photos => c.pic = {100 + c.id}

(* two requests that hold one picture know it *)
Alone(l) == \A m \in Lanes \ {l} : serving[l].pic # {} /\ serving[m].pic = serving[l].pic => serving[l].contested

(* past its stage, a request has written the hash, the extraction and the bytes *)
Hashed(c) == \A p \in c.pic : c.stage = "enqueue" /\ ~c.contested => photos[p].hash = c.content
Due(c) == \A p \in c.pic : c.stage = "apply" /\ ~c.contested /\ p = 100 + c.id => <<p, photos[p].hash>> \in due
Written(c) == c.stage = "row" => c.pic \subseteq DOMAIN bytes

Writing == {"snapshot", "bytes", "hash", "row"}

(* the bytes promised are there and no request is about to replace them *)
KeptWell(q) ==
    /\ bytes[q.pic] = q.content /\ photos[q.pic].hash = q.content
    /\ q.due => <<q.pic, q.content>> \in due
    /\ \A l \in Lanes : serving[l].pic = {q.pic} => serving[l].stage \notin Writing

(* they are a version, or still the original until a request has copied it *)
ArchivedWell(q) ==
    /\ menu.versioning = "full"
    /\ \/ <<q.pic, q.content>> \in versions
       \/ bytes[q.pic] = q.content /\ \A l \in Lanes : serving[l].pic = {q.pic} => serving[l].stage # "bytes"

PicturesInv ==
    /\ Lasting
    /\ \A l \in Lanes : Fresh(serving[l]) /\ Alone(l) /\ Hashed(serving[l]) /\ Due(serving[l]) /\ Written(serving[l])
    /\ \A q \in promises : q.kind = "kept" => KeptWell(q)
    /\ \A q \in promises : q.kind = "archived" => ArchivedWell(q)

----------------------------------------------------------------------------
(* Promises of staged files: the one listing and the requests that hold an object *)

(* two requests that stage at once know it *)
Handles(c) == Active(c) /\ StagesOf(c.request) /\ c.pic = {}
Together ==
    \A l, m \in Lanes :
        l # m /\ Handles(serving[l]) /\ Active(serving[m]) /\ StagesOf(serving[m].request) => serving[l].contested

(* c has a new object to stage, and every object c can reach *)
Carrying(c) == Active(c) /\ (c.stage = "upload" \/ (c.request.method = "PUT" /\ c.object # {}))
Held(c) == c.object \cup SpaceObjects(c.space) \cup SpaceObjects(c.listing) \cup (UNION {e.object : e \in c.carried})
             \cup (UNION {u.entry.object : u \in Parts(c.todo)})

(* a new object is in no listing and no other request reaches it *)
Own(l) ==
    LET c == serving[l]
    IN  Carrying(c) =>
            /\ \A k \in DOMAIN spaces : c.id \notin SpaceObjects(spaces[k])
            /\ \A m \in Lanes \ {l} : Active(serving[m]) => c.id \notin Held(serving[m])
            /\ c.id \notin SpaceObjects(c.space)
            /\ c.object # {} => c.id \in DOMAIN scraps /\ scraps[c.id] = c.content

(* c does not take object o at name of the listing key away, nor bring it anywhere else *)
Spares(c, key, name, o) ==
    /\ o \notin c.object
    /\ \A e \in c.carried : o \notin e.object
    /\ \A u \in Parts(c.todo) : o \notin u.entry.object
    /\ c.stage = "save" => /\ Head(c.todo).at # [key |-> key, name |-> name]
                           /\ Head(c.todo).at.key # key => o \notin SpaceObjects(c.space)
    /\ c.stage = "upload" => c.id # o
    /\ From(c).key # key => o \notin SpaceObjects(c.listing)
    /\ IsPromotion(c) /\ c.object # {} => From(c) # [key |-> key, name |-> name]

(* the file is in its listing with an object of its own, which every request spares *)
StagedWell(q) ==
      /\ q.at = [key |-> q.at.key, name |-> q.at.name]
      /\ q.at.key \in DOMAIN spaces /\ q.at.key[1] = "scratch"
      /\ q.at.name \in DOMAIN spaces[q.at.key].files
      /\ spaces[q.at.key].files[q.at.name].object # {}
      /\ \A o \in spaces[q.at.key].files[q.at.name].object :
           /\ o \in DOMAIN scraps /\ scraps[o] = q.content
           /\ \A k \in DOMAIN spaces : \A x \in DOMAIN spaces[k].files :
                 o \in spaces[k].files[x].object => k = q.at.key /\ x = q.at.name
           /\ \A l \in Lanes : Active(serving[l]) => Spares(serving[l], q.at.key, q.at.name, o)

StagingInv ==
    /\ Together /\ \A l \in Lanes : Own(l)
    /\ \A q \in promises : q.kind = "staged" => StagedWell(q)

----------------------------------------------------------------------------
(* Sequences, functions and cache entries *)

LEMMA StagedKind == \A l, at, e : \A q \in Staged(l, at, e) : q.kind = "staged"
BY DEF Staged

LEMMA HeadPart ==
    ASSUME NEW s, IsSequence(s), s # << >>
    PROVE  Head(s) \in Parts(s) /\ IsSequence(Tail(s)) /\ Parts(Tail(s)) \subseteq Parts(s)
<1>1. s \in Seq(Parts(s)) BY DEF IsSequence
<1>2. Head(s) \in Parts(s) /\ Tail(s) \in Seq(Parts(s)) BY <1>1, HeadTailProperties
<1>3. PICK k \in Nat : Tail(s) \in [1..k -> Parts(s)]
  <2> DEFINE S == Parts(s)
             t == Tail(s)
  <2>1. t \in UNION {[1..n -> S] : n \in Nat} BY <1>2, SeqDef, Zenon
  <2> HIDE DEF S, t
  <2>2. \E n \in Nat : t \in [1..n -> S] BY <2>1
  <2> QED BY <2>2 DEF S, t
<1>4. DOMAIN Tail(s) = 1..Len(Tail(s)) /\ Len(Tail(s)) = Len(s) - 1 /\ Len(s) \in Nat /\ DOMAIN s = 1..Len(s)
  BY <1>1, <1>2, HeadTailProperties
<1>5. \A i \in 1..Len(Tail(s)) : Tail(s)[i] = s[i + 1] BY <1>1, HeadTailProperties
<1>6. Parts(Tail(s)) \subseteq Parts(s)
  <2>1. ASSUME NEW i \in 1..Len(Tail(s)) PROVE i + 1 \in 1..Len(s) BY <1>4
  <2> QED BY <2>1, <1>4, <1>5 DEF Parts
<1>7. Tail(s) \in [1..k -> Parts(Tail(s))] BY <1>3 DEF Parts
<1>8. IsSequence(Tail(s))
  <2> DEFINE T == Parts(Tail(s))
             t == Tail(s)
  <2>1. t \in [1..k -> T] BY <1>7
  <2> HIDE DEF T, t
  <2>2. t \in UNION {[1..n -> T] : n \in Nat} BY <2>1
  <2>3. t \in Seq(T) BY <2>2, SeqDef, Zenon
  <2> QED BY <2>3 DEF IsSequence, T, t
<1> QED BY <1>2, <1>6, <1>8

LEMMA NoPart == IsSequence(<< >>) /\ Parts(<< >>) = {}
BY DEF IsSequence, Parts

LEMMA OnePart == \A u : IsSequence(<<u>>) /\ Parts(<<u>>) = {u} /\ Head(<<u>>) = u /\ Tail(<<u>>) = << >>
BY DEF IsSequence, Parts

LEMMA TwoParts == \A u, v : IsSequence(<<u, v>>) /\ Parts(<<u, v>>) = {u, v}
BY DEF IsSequence, Parts

LEMMA SitedUpdates ==
    /\ \A kind, path, op, entry : Sited(Update(op, Place(kind, path), entry))
    /\ \A key, name, op, entry : Sited(Update(op, [key |-> key, name |-> name], entry))
    /\ \A u, kind, path : u.at = Place(kind, path) => Sited(u)
BY DEF Sited, Update, Place

LEMMA DropIs ==
    \A f, x : /\ DOMAIN Drop(f, x) = DOMAIN f \ {x}
              /\ \A y \in DOMAIN f \ {x} : Drop(f, x)[y] = f[y]
BY DEF Drop, Restrict

LEMMA PutIs ==
    \A x, v, f : /\ DOMAIN Entered(f, x, v) = DOMAIN f \cup {x}
                 /\ Entered(f, x, v)[x] = v
                 /\ \A y \in DOMAIN f \ {x} : Entered(f, x, v)[y] = f[y]
BY DEF Entered

LEMMA RestrictIs ==
    \A f, S : DOMAIN Restrict(f, S) = S /\ \A y \in S : Restrict(f, S)[y] = f[y]
BY DEF Restrict

(* the entry that is saved is the one read next, and no other changes *)
LEMMA SavedIs ==
    ASSUME NEW key, NEW s, spaces' = Saved(key, s)
    PROVE  /\ Space(key)' = s /\ DOMAIN spaces' \subseteq DOMAIN spaces \cup {key}
           /\ key \in DOMAIN spaces' => spaces'[key] = s
           /\ s # NoSpace => key \in DOMAIN spaces'
           /\ \A k : k # key => (k \in DOMAIN spaces' <=> k \in DOMAIN spaces) /\ (k \in DOMAIN spaces => spaces'[k] = spaces[k])
<1>1. CASE s = NoSpace
  <2>1. spaces' = Drop(spaces, key) BY <1>1 DEF Saved
  <2>2. DOMAIN spaces' = DOMAIN spaces \ {key} BY <2>1, DropIs
  <2>3. \A k \in DOMAIN spaces \ {key} : spaces'[k] = spaces[k] BY <2>1, DropIs
  <2> QED BY <1>1, <2>2, <2>3 DEF Space
<1>2. CASE s # NoSpace
  <2>1. spaces' = Entered(spaces, key, s) BY <1>2 DEF Saved
  <2>2. DOMAIN spaces' = DOMAIN spaces \cup {key} BY <2>1, PutIs
  <2>3. spaces'[key] = s BY <2>1, PutIs
  <2>4. \A k \in DOMAIN spaces \ {key} : spaces'[k] = spaces[k] BY <2>1, PutIs
  <2> QED BY <1>2, <2>2, <2>3, <2>4 DEF Space
<1> QED BY <1>1, <1>2

----------------------------------------------------------------------------
(* Steps of a lane *)

(* l turns to d, and the others stay as they are, but for learning that they are contested *)
Turns(l, d) ==
    /\ DOMAIN serving' = Lanes /\ serving'[l] = d
    /\ \A m \in Lanes \ {l} :
        \/ serving'[m] = serving[m]
        \/ Active(serving[m]) /\ serving'[m] = [serving[m] EXCEPT !.contested = TRUE]

LEMMA IdleIs == Idle.stage = "idle" /\ Idle.pic = {} /\ ~Active(Idle)
BY DEF Idle, Active

LEMMA BecomesTurns ==
    ASSUME DOMAIN serving = Lanes, NEW l \in Lanes, NEW d, Becomes(l, d)
    PROVE  Turns(l, d) /\ \A m \in Lanes \ {l} : serving'[m] = serving[m]
BY DEF Becomes, Turns

LEMMA WellWider ==
    ASSUME NEW R, NEW S, R \subseteq S, NEW n \in Nat, NEW c, Well(c, R, n)
    PROVE  /\ Well(c, S, n) /\ Well(c, S, n + 1)
           /\ Well([c EXCEPT !.contested = TRUE], S, n) /\ Well([c EXCEPT !.contested = TRUE], S, n + 1)
<1>1. 1..n \subseteq 1..(n + 1) OBVIOUS
<1>2. ASSUME NEW m, 1..n \subseteq 1..m PROVE Well(c, S, m)
  BY <1>2 DEF Well, CallKeys, Chore, Inserting, KnownSpace, KnownEntry
<1>3. ASSUME NEW m, Well(c, S, m) PROVE Well([c EXCEPT !.contested = TRUE], S, m)
  BY <1>3 DEF Well, CallKeys, Chore, Inserting, From, StagedEntry, IsPromotion, Active
<1> QED BY <1>1, <1>2, <1>3

LEMMA WellActive == \A c, R, n : Well(c, R, n) => Active(c) /\ c # Idle /\ DOMAIN c = CallKeys
BY IdleIs DEF Well

LEMMA TurnsWell ==
    ASSUME CallsWell, IdsDiffer, served \in Nat, DOMAIN photos \subseteq DOMAIN photos', served' = served,
           NEW l \in Lanes, Active(serving[l]), NEW d, Turns(l, d),
           d = Idle \/ (Well(d, DOMAIN photos', served) /\ d.id = serving[l].id)
    PROVE  CallsWell' /\ IdsDiffer'
<1>1. ASSUME NEW m \in Lanes \ {l}
      PROVE  /\ serving'[m] = Idle \/ Well(serving'[m], DOMAIN photos', served)
             /\ Active(serving'[m]) => Active(serving[m]) /\ serving'[m].id = serving[m].id
  <2>1. CASE serving[m] = Idle BY <2>1, IdleIs DEF Turns
  <2>2. CASE Well(serving[m], DOMAIN photos, served)
    <3>1. Well(serving'[m], DOMAIN photos', served) BY <2>2, WellWider DEF Turns
    <3>2. serving'[m].id = serving[m].id BY <2>2 DEF Turns, Well, CallKeys
    <3> QED BY <3>1, <3>2, <2>2, WellActive
  <2> QED BY <2>1, <2>2 DEF CallsWell
<1>2. CallsWell' BY <1>1 DEF CallsWell, Turns
<1>3. IdsDiffer'
  <2>1. \A m \in Lanes : Active(serving'[m]) => Active(serving[m]) /\ serving'[m].id = serving[m].id
    BY <1>1, IdleIs DEF Turns
  <2> QED BY <2>1 DEF IdsDiffer, Active
<1> QED BY <1>2, <1>3

LEMMA SpaceKnown ==
    ASSUME RowsWell, NEW key PROVE KnownSpace(Space(key), DOMAIN photos, served)
BY DEF RowsWell, Space, NoSpace, KnownSpace

LEMMA KnownWider ==
    ASSUME NEW R, NEW S, R \subseteq S, NEW n, NEW s, KnownSpace(s, R, n) PROVE KnownSpace(s, S, n)
BY DEF KnownSpace, KnownEntry

(* rows and entries, over a step that saves at most one entry *)
LEMMA RowsStay ==
    ASSUME RowsWell, UNCHANGED <<photos, spaces, menu, served>> PROVE RowsWell'
BY DEF RowsWell, KnownSpace, KnownEntry

LEMMA RowsSaved ==
    ASSUME RowsWell, UNCHANGED <<photos, menu, served>>, NEW key, NEW s, KnownSpace(s, DOMAIN photos, served),
           spaces' = Saved(key, s)
    PROVE  RowsWell'
<1>1. \A k \in DOMAIN spaces' : KnownSpace(spaces'[k], DOMAIN photos, served) BY SavedIs DEF RowsWell
<1> QED BY <1>1 DEF RowsWell

LEMMA RowsDropped ==
    ASSUME RowsWell, UNCHANGED <<photos, menu, served>>, NEW key, spaces' = Drop(spaces, key)
    PROVE  RowsWell'
<1>1. \A k \in DOMAIN spaces' : KnownSpace(spaces'[k], DOMAIN photos, served)
  <2>1. DOMAIN spaces' = DOMAIN spaces \ {key} BY DropIs
  <2>2. \A k \in DOMAIN spaces \ {key} : spaces'[k] = spaces[k] BY DropIs
  <2> QED BY <2>1, <2>2 DEF RowsWell
<1> QED BY <1>1 DEF RowsWell

LEMMA EntryKnown ==
    ASSUME RowsWell, NEW root, NEW path PROVE Entry(root, path) \subseteq DOMAIN photos
<1>1. \A d : \A f \in DropFiles(d) : f.pic \in DOMAIN photos
  <2> SUFFICES ASSUME NEW d, NEW n \in DOMAIN Space(<<"drop", d.id>>).files
               PROVE  Space(<<"drop", d.id>>).files[n].pic \subseteq DOMAIN photos
    BY DEF DropFiles
  <2> QED BY SpaceKnown DEF KnownSpace, KnownEntry
<1>2. DOMAIN LiveTags \subseteq DOMAIN photos BY DEF LiveTags
<1>3. \A d : \A f \in FilesOf(d) : f.pic \in DOMAIN photos
  <2> TAKE d
  <2>1. CASE d.isDrop BY <1>1, <2>1 DEF FilesOf
  <2>2. CASE ~d.isDrop
    <3> SUFFICES ASSUME NEW f \in FilesOf(d) PROVE f.pic \in DOMAIN photos
      OBVIOUS
    <3> DEFINE here == {p \in DOMAIN LiveTags : Lists(d, LiveTags[p])}
    <3>3. FilesOf(d) = {[name |-> NameAmong(p, here), pic |-> p] : p \in here} BY <2>2 DEF FilesOf
    <3>2. \E p \in here : f.pic = p
      <4> HIDE DEF here
      <4> QED BY <3>3
    <3>1. f.pic \in DOMAIN LiveTags BY <3>2
    <3> QED BY <3>1, <1>2
  <2> QED BY <2>1, <2>2
<1> QED BY <1>3 DEF Entry

(* what a client is told *)
LEMMA ToldIs ==
    ASSUME NEW l, NEW kind, NEW p, NEW content, NEW place, NEW isDue,
           NEW q \in Told(l, kind, p, content, place, isDue)
    PROVE  /\ DOMAIN q = PromiseKeys
           /\ q.kind = kind /\ q.pic = p /\ q.content = content /\ q.due = isDue
           /\ ~(kind = "kept" /\ p \in DOMAIN bytes /\ bytes[p] # photos[p].hash)
           /\ ~(serving[l].pic = {p} /\ serving[l].contested)
           /\ \A m \in Lanes \ {l} : serving[m].stage # "idle" => serving[m].pic # {p}
BY DEF Told, PromiseKeys

LEMMA AddressedIs ==
    ASSUME PromisesWell, NEW p, NEW replaces, NEW q \in Addressed(p, replaces)
    PROVE  \/ q \in promises /\ (q.kind \in {"archived", "staged"} \/ q.pic # p)
           \/ /\ q.kind = "archived" /\ q.pic = p /\ DOMAIN q = PromiseKeys /\ menu.versioning = "full" /\ replaces
              /\ \E r \in promises : r.kind = "kept" /\ r.pic = p /\ q.content = r.content
BY DEF Addressed, PromisesWell, PromiseKeys

LEMMA ReshapedIs ==
    ASSUME PromisesWell, NEW q \in Reshaped
    PROVE  \/ q \in promises /\ q.kind # "kept"
           \/ /\ q.kind = "kept" /\ DOMAIN q = PromiseKeys
              /\ \E r \in promises : r.kind = "kept" /\ r.pic = q.pic /\ q.content = r.content /\ q.due = r.due
BY DEF Reshaped, PromisesWell, PromiseKeys

LEMMA PromisesStay ==
    ASSUME PromisesWell, DOMAIN photos \subseteq DOMAIN photos', promises' \subseteq promises PROVE PromisesWell'
BY DEF PromisesWell

LEMMA AddressedWell ==
    ASSUME PromisesWell, NEW p, NEW replaces, promises' = Addressed(p, replaces), UNCHANGED photos
    PROVE  PromisesWell'
BY AddressedIs DEF PromisesWell

LEMMA ToldWell ==
    ASSUME PromisesWell, NEW l, NEW kind \in {"kept", "gone"}, NEW p \in DOMAIN photos, NEW content, NEW place,
           NEW isDue, promises' = promises \cup Told(l, kind, p, content, place, isDue),
           DOMAIN photos \subseteq DOMAIN photos'
    PROVE  PromisesWell'
BY ToldIs DEF PromisesWell

----------------------------------------------------------------------------
(* Every step keeps requests, rows and promises well-formed. *)

LEMMA LaneWell ==
    ASSUME CallsWell, NEW l \in Lanes, serving[l] # Idle
    PROVE  /\ Well(serving[l], DOMAIN photos, served) /\ Active(serving[l]) /\ DOMAIN serving[l] = CallKeys
           /\ IsSequence(serving[l].todo)
           /\ \A u \in Parts(serving[l].todo) : Chore(serving[l], u, DOMAIN photos, served)
           /\ serving[l].stage \in {"read", "save"} => Head(serving[l].todo) \in Parts(serving[l].todo)
<1>1. Well(serving[l], DOMAIN photos, served) BY DEF CallsWell
<1>2. IsSequence(serving[l].todo) BY <1>1 DEF Well
<1>3. serving[l].stage \in {"read", "save"} => serving[l].todo # << >> BY <1>1 DEF Well
<1>4. serving[l].stage \in {"read", "save"} => Head(serving[l].todo) \in Parts(serving[l].todo) BY <1>2, <1>3, HeadPart
<1>5. \A u \in Parts(serving[l].todo) : Chore(serving[l], u, DOMAIN photos, served) BY <1>1 DEF Well
<1> QED BY <1>1, <1>2, <1>4, <1>5, WellActive

LEMMA UploadWell == ASSUME WellInv, Upload PROVE WellInv'
<1> USE DEF WellInv
<1>1. PICK l \in Lanes :
        /\ serving[l].stage = "upload"
        /\ Becomes(l, [serving[l] EXCEPT !.stage = "read", !.object = {serving[l].id},
                !.todo = <<Update("put", Place("scratch", serving[l].request.from),
                                  File({serving[l].id}, {}, serving[l].content))>>])
        /\ UNCHANGED <<rows, bytes, spaces, promises, menu, served, deaths>>
  BY DEF Upload
<1> DEFINE c == serving[l]
           u == Update("put", From(c), [object |-> {c.id}, pic |-> {}, content |-> c.content])
           d == [c EXCEPT !.stage = "read", !.object = {c.id}, !.todo = <<u>>]
<1>2. c # Idle BY <1>1, IdleIs
<1>3. Well(c, DOMAIN photos, served) /\ DOMAIN c = CallKeys BY <1>2, LaneWell
<1>4. c.todo = <<Update("put", From(c), StagedEntry(c))>> /\ c.request.method = "PUT" /\ InScratch(c.request.from) /\ c.pic = {}
  BY <1>1, <1>3 DEF Well
<1>5. File({c.id}, {}, c.content) = [object |-> {c.id}, pic |-> {}, content |-> c.content]
  BY DEF File
<1>6. Well(d, DOMAIN photos, served)
  <2>1. IsSequence(d.todo) /\ Parts(d.todo) = {u} BY <1>3, OnePart DEF CallKeys
  <2> HIDE DEF u
  <2>2. d.pic = {} /\ d.object = {c.id} /\ d.stage = "read" /\ d.request = c.request /\ DOMAIN d = CallKeys
        /\ d.todo = <<u>> /\ d.id = c.id /\ d.content = c.content
    BY <1>3, <1>4 DEF CallKeys
  <2>3. Chore(d, u, DOMAIN photos, served)
    BY <2>2, <1>3, <1>4 DEF Chore, Sited, Inserting, u, Update, From, Place, StagesOf, Well
  <2>4. u = Update("put", From(d), StagedEntry(d)) BY <2>2 DEF u, StagedEntry, From
  <2> QED BY <1>3, <1>4, <2>1, <2>2, <2>3, <2>4 DEF Well, IsPromotion, CallKeys, Active
<1>7. Turns(l, d) BY <1>1, <1>5, BecomesTurns DEF CallsWell, From
<1>8. UNCHANGED <<photos, spaces, menu, served, promises>> BY <1>1 DEF rows
<1>9. d.id = c.id BY <1>3 DEF CallKeys
<1> HIDE DEF d
<1>10. CallsWell' /\ IdsDiffer' BY <1>2, <1>6, <1>7, <1>8, <1>9, LaneWell, TurnsWell DEF RowsWell
<1> QED BY <1>8, <1>10, RowsStay, PromisesStay

LEMMA ConcludesIs ==
    ASSUME DOMAIN serving = Lanes, NEW l \in Lanes, NEW c, Concludes(l, c)
    PROVE  \E d : /\ Becomes(l, d)
                  /\ \/ d = Idle
                     \/ c.todo # << >> /\ d = [c EXCEPT !.stage = "read"]
                     \/ /\ c.todo = << >> /\ c.request.method = "MOVE" /\ IsPromotion(c)
                        /\ d = [c EXCEPT !.stage = "unlist"]
BY DEF Concludes

(* what a request that is done with its rows and objects may still be *)
LEMMA WellLater ==
    ASSUME NEW c, NEW R, NEW n \in Nat, Well(c, R, n), c.stage \in {"save", "look", "enqueue", "apply", "trash", "unlist"},
           NEW d, \/ c.todo # << >> /\ d = [c EXCEPT !.stage = "read"]
                  \/ c.todo = << >> /\ c.request.method = "MOVE" /\ IsPromotion(c) /\ d = [c EXCEPT !.stage = "unlist"]
                  \/ c.stage = "unlist" /\ d = [c EXCEPT !.stage = "unstage"]
    PROVE  Well(d, R, n) /\ d.id = c.id
<1>1. CASE c.todo # << >> /\ d = [c EXCEPT !.stage = "read"]
  BY <1>1 DEF Well, CallKeys, Chore, Inserting, From, StagedEntry, IsPromotion, Active
<1>2. CASE c.todo = << >> /\ c.request.method = "MOVE" /\ IsPromotion(c) /\ d = [c EXCEPT !.stage = "unlist"]
  BY <1>2 DEF Well, CallKeys, Chore, Inserting, From, StagedEntry, IsPromotion, Active
<1>3. CASE c.stage = "unlist" /\ d = [c EXCEPT !.stage = "unstage"]
  BY <1>3 DEF Well, CallKeys, Chore, Inserting, From, StagedEntry, IsPromotion, Active
<1> QED BY <1>1, <1>2, <1>3


EntryAt(u, s) == IF u.at.name \in DOMAIN s.files THEN {s.files[u.at.name]} ELSE {}

(* what a request becomes that reads s for its update u *)
Read(c, u, s, d) ==
    \/ d = Idle
    \/ u.op \in {"put", "addDir", "give"} /\ d = [c EXCEPT !.stage = "save", !.space = s]
    \/ u.op \in {"delete", "take"} /\ d = [c EXCEPT !.stage = "save", !.space = s, !.carried = EntryAt(u, s)]
    \/ /\ u.op = "fetch"
       /\ \E e \in EntryAt(u, s) :
            e.object # {} /\ d = [c EXCEPT !.stage = "look", !.listing = s, !.todo = << >>, !.object = e.object, !.content = e.content]

(* the step of lane l that reads the listing of its next update *)
Reads(l, d) ==
    LET c == serving[l]
        u == Head(c.todo)
        s == Space(u.at.key)
    IN  /\ c.stage = "read" /\ Becomes(l, d) /\ Read(c, u, s, d)
        /\ scraps' = Restrict(scraps, DOMAIN scraps \ Replaced(u, s))
        /\ promises' = {q \in promises : q.kind = "staged" => q.at # u.at}
        /\ UNCHANGED <<rows, bytes, spaces, menu, served, deaths>>

LEMMA ReadSpaceIs == ASSUME CallsWell, ReadSpace PROVE \E l \in Lanes : \E d : Reads(l, d)
<1>1. PICK l \in Lanes : serving[l].stage = "read" /\ ReadSpace!(l)!2 /\ UNCHANGED <<rows, bytes, spaces, menu, served, deaths>>
  BY DEF ReadSpace
<1> DEFINE c == serving[l]
           u == Head(c.todo)
           s == Space(u.at.key)
           entry == EntryAt(u, s)
           f == {e \in entry : e.object # {}}
<1>2. u.op \in {"put", "addDir", "give", "delete", "take", "fetch"}
  BY <1>1, LaneWell, IdleIs DEF Chore
<1>3. \E d : Becomes(l, d) /\ Read(c, u, s, d)
  <2>1. CASE u.op \in {"put", "addDir", "give"}
    <3>1. Becomes(l, [c EXCEPT !.stage = "save", !.space = s]) BY <1>1, <2>1
    <3> QED BY <2>1, <3>1 DEF Read
  <2>2. CASE u.op \in {"delete", "take"}
    <3>1. Becomes(l, [c EXCEPT !.stage = "save", !.space = s, !.carried = entry]) \/ Becomes(l, Idle) BY <1>1, <2>2 DEF EntryAt
    <3> QED BY <2>2, <3>1 DEF Read
  <2>3. CASE u.op = "fetch"
    <3>1. \/ f = {} /\ Becomes(l, Idle)
          \/ f # {} /\ Becomes(l, [c EXCEPT !.stage = "look", !.listing = s, !.todo = << >>,
                                    !.object = UNION {e.object : e \in f}, !.content = (CHOOSE e \in f : TRUE).content])
      BY <1>1, <2>3 DEF EntryAt
    <3>2. CASE f = {} BY <3>1, <3>2 DEF Read
    <3>3. CASE f # {}
      <4>1. PICK e : f = {e} /\ entry = {e} /\ e.object # {} BY <3>3 DEF EntryAt
      <4>2. UNION {g.object : g \in f} = e.object /\ (CHOOSE g \in f : TRUE) = e BY <4>1
      <4>3. Becomes(l, [c EXCEPT !.stage = "look", !.listing = s, !.todo = << >>, !.object = e.object, !.content = e.content])
        BY <3>1, <3>3, <4>2
      <4> QED BY <2>3, <4>1, <4>3 DEF Read
    <3> QED BY <3>2, <3>3
  <2> QED BY <1>2, <2>1, <2>2, <2>3
<1> QED BY <1>1, <1>3 DEF Reads

LEMMA ReadWell ==
    ASSUME NEW c, NEW R, NEW n \in Nat, Well(c, R, n), c.stage = "read", NEW s, KnownSpace(s, R, n), NEW d,
           Read(c, Head(c.todo), s, d)
    PROVE  d = Idle \/ (Well(d, R, n) /\ d.id = c.id)
<1> DEFINE u == Head(c.todo)
<1>1. DOMAIN c = CallKeys BY DEF Well
<1>2. u \in Parts(c.todo) /\ Chore(c, u, R, n) BY HeadPart DEF Well
<1>3. \A e \in EntryAt(u, s) : KnownEntry(e, R, n) BY DEF EntryAt, KnownSpace
<1> HIDE DEF u
<1>4. CASE u.op \in {"put", "addDir", "give"} /\ d = [c EXCEPT !.stage = "save", !.space = s]
  BY <1>1, <1>2, <1>4 DEF Well, CallKeys, Chore, Inserting, From, StagedEntry, IsPromotion, Active
<1>5. CASE u.op \in {"delete", "take"} /\ d = [c EXCEPT !.stage = "save", !.space = s, !.carried = EntryAt(u, s)]
  BY <1>1, <1>2, <1>3, <1>5 DEF Well, CallKeys, Chore, Inserting, From, StagedEntry, IsPromotion, Active
<1>6. ASSUME u.op = "fetch", NEW e \in EntryAt(u, s), e.object # {},
             d = [c EXCEPT !.stage = "look", !.listing = s, !.todo = << >>, !.object = e.object, !.content = e.content]
      PROVE  Well(d, R, n) /\ d.id = c.id
  <2>1. c.request.method # "PUT" /\ c.pic = {} BY <1>2, <1>6 DEF Chore, From, Place
  <2>2. IsSequence(d.todo) /\ Parts(d.todo) = {} BY <1>1, <1>6, NoPart DEF CallKeys
  <2>3. e.object \subseteq 1..n BY <1>3, <1>6 DEF KnownEntry
  <2> QED BY <1>1, <1>6, <2>1, <2>2, <2>3 DEF Well, CallKeys, Chore, Inserting, From, StagedEntry, IsPromotion, Active
<1> QED BY <1>4, <1>5, <1>6 DEF Read, u

LEMMA ReadSpaceWell == ASSUME WellInv, ReadSpace PROVE WellInv'
<1> USE DEF WellInv
<1>0. PICK l \in Lanes : \E d : Reads(l, d) BY ReadSpaceIs
<1>00. PICK d : Reads(l, d) BY <1>0
<1>1. LET c == serving[l]
          u == Head(c.todo)
          s == Space(u.at.key)
      IN  /\ c.stage = "read" /\ Becomes(l, d) /\ Read(c, u, s, d)
          /\ promises' = {q \in promises : q.kind = "staged" => q.at # u.at}
          /\ UNCHANGED <<rows, bytes, spaces, menu, served, deaths>>
  BY <1>00 DEF Reads
<1>2. serving[l] # Idle BY <1>1, IdleIs
<1>3. served \in Nat BY DEF RowsWell
<1>4. d = Idle \/ (Well(d, DOMAIN photos, served) /\ d.id = serving[l].id)
  BY <1>1, <1>2, <1>3, LaneWell, SpaceKnown, ReadWell
<1>5. UNCHANGED <<photos, spaces, menu, served>> /\ promises' \subseteq promises BY <1>1 DEF rows
<1>6. CallsWell' /\ IdsDiffer' BY <1>1, <1>2, <1>3, <1>4, <1>5, LaneWell, BecomesTurns, TurnsWell DEF CallsWell
<1> QED BY <1>5, <1>6, RowsStay, PromisesStay

LEMMA UpdatedIs ==
    ASSUME NEW c, NEW u, DOMAIN c.space = {"dirs", "files"}
    PROVE  LET s == c.space
               n == u.at.name
               t == Updated(c, u)
           IN  /\ DOMAIN t = {"dirs", "files"}
               /\ u.op = "put" => t.files = Entered(s.files, n, u.entry)
               /\ u.op = "give" /\ c.carried # {} => \E e \in c.carried : t.files = Entered(s.files, n, e)
               /\ u.op # "put" /\ ~(u.op = "give" /\ c.carried # {}) => t.files = s.files \/ t.files = Drop(s.files, n)
<1> DEFINE s == c.space
           n == u.at.name
<1>1. CASE u.op = "addDir" BY <1>1 DEF Updated
<1>2. CASE u.op = "put" BY <1>2 DEF Updated
<1>3. CASE u.op = "give" /\ c.carried = {} BY <1>3 DEF Updated
<1>4. CASE u.op = "give" /\ c.carried # {}
  <2>1. PICK e \in c.carried : e = CHOOSE f \in c.carried : TRUE BY <1>4
  <2>2. Updated(c, u) = [s EXCEPT !.files = Entered(s.files, n, e)] BY <1>4, <2>1 DEF Updated
  <2> QED BY <1>4, <2>2
<1>5. CASE u.op \in {"delete", "take"} /\ n \in DOMAIN s.files
  <2>1. Updated(c, u) = [s EXCEPT !.files = Drop(s.files, n)] BY <1>5 DEF Updated
  <2> QED BY <1>5, <2>1
<1>6. CASE u.op \notin {"addDir", "put", "give"} /\ ~(u.op \in {"delete", "take"} /\ n \in DOMAIN s.files)
  <2>1. Updated(c, u) = [s EXCEPT !.dirs = s.dirs \ {n}] BY <1>6 DEF Updated
  <2> QED BY <1>6, <2>1
<1> QED BY <1>1, <1>2, <1>3, <1>4, <1>5, <1>6

LEMMA UpdatedKnown ==
    ASSUME NEW c, NEW R, NEW n \in Nat, Well(c, R, n), c.stage = "save"
    PROVE  KnownSpace(Updated(c, Head(c.todo)), R, n)
<1> DEFINE u == Head(c.todo)
           s == c.space
           x == u.at.name
           t == Updated(c, u)
<1>1. Chore(c, u, R, n) BY HeadPart DEF Well
<1>2. KnownEntry(u.entry, R, n) BY <1>1 DEF Chore, Inserting, KnownEntry
<1>3. KnownSpace(s, R, n) /\ \A e \in c.carried : KnownEntry(e, R, n) BY DEF Well
<1> HIDE DEF u, s
<1>4. ASSUME NEW e, KnownEntry(e, R, n), t.files = Entered(s.files, x, e), DOMAIN t = {"dirs", "files"}
      PROVE  KnownSpace(t, R, n)
  <2>0. LET f == Entered(s.files, x, e)
        IN  DOMAIN f = DOMAIN s.files \cup {x} /\ f[x] = e /\ \A y \in DOMAIN s.files \ {x} : f[y] = s.files[y]
    BY DEF Entered
  <2>1. DOMAIN t.files = DOMAIN s.files \cup {x} /\ t.files[x] = e /\ \A y \in DOMAIN s.files \ {x} : t.files[y] = s.files[y]
    <3> HIDE DEF t, x
    <3> QED BY <1>4, <2>0
  <2> QED BY <1>3, <1>4, <2>1 DEF KnownSpace
<1>5. ASSUME t.files = Drop(s.files, x), DOMAIN t = {"dirs", "files"} PROVE KnownSpace(t, R, n)
  <2>1. DOMAIN t.files = DOMAIN s.files \ {x} /\ \A y \in DOMAIN s.files \ {x} : t.files[y] = s.files[y] BY <1>5, DropIs
  <2> QED BY <1>3, <1>5, <2>1 DEF KnownSpace
<1>6. ASSUME t.files = s.files, DOMAIN t = {"dirs", "files"} PROVE KnownSpace(t, R, n)
  BY <1>3, <1>6 DEF KnownSpace
<1>7. DOMAIN c.space = {"dirs", "files"} BY <1>3 DEF KnownSpace, s
<1>8. /\ DOMAIN t = {"dirs", "files"}
      /\ u.op = "put" => t.files = Entered(s.files, x, u.entry)
      /\ u.op = "give" /\ c.carried # {} => \E e \in c.carried : t.files = Entered(s.files, x, e)
      /\ u.op # "put" /\ ~(u.op = "give" /\ c.carried # {}) => t.files = s.files \/ t.files = Drop(s.files, x)
  BY <1>7, UpdatedIs DEF s
<1> HIDE DEF t, x
<1>9. KnownSpace(t, R, n) BY <1>2, <1>3, <1>4, <1>5, <1>6, <1>8
<1> QED BY <1>9 DEF t, u

(* what a request becomes that has saved its update *)
Saves(c, d) ==
    \/ d = Idle
    \/ /\ Head(c.todo).op = "delete" /\ Head(c.todo).at.key[1] = "scratch" /\ c.carried = {}
       /\ d = [c EXCEPT !.stage = "sweep", !.todo = Tail(c.todo)]
    \/ Tail(c.todo) # << >> /\ d = [c EXCEPT !.stage = "read", !.todo = Tail(c.todo)]
    \/ /\ Tail(c.todo) = << >> /\ c.request.method = "MOVE" /\ IsPromotion(c)
       /\ d = [c EXCEPT !.stage = "unlist", !.todo = Tail(c.todo)]

(* the step of lane l that saves the listing with its update *)
SavesNext(l, d) ==
    LET c == serving[l]
        u == Head(c.todo)
    IN  /\ c.stage = "save" /\ Becomes(l, d) /\ Saves(c, d)
        /\ spaces' = Saved(u.at.key, Updated(c, u))
        /\ promises' = (IF Space(u.at.key) = c.space THEN promises ELSE promises \ StagedAt(u.at.key))
                        \cup (IF u.op = "put" THEN Staged(l, u.at, u.entry) ELSE {})
        /\ UNCHANGED <<rows, stores, menu, served, deaths>>

LEMMA SaveSpaceIs == ASSUME CallsWell, SaveSpace PROVE \E l \in Lanes : \E d : SavesNext(l, d)
<1>1. PICK l \in Lanes : serving[l].stage = "save" /\ SaveSpace!(l)!2 /\ UNCHANGED <<rows, stores, menu, served, deaths>>
  BY DEF SaveSpace
<1> DEFINE c == serving[l]
           u == Head(c.todo)
           next == [c EXCEPT !.todo = Tail(@)]
           sweeps == u.op = "delete" /\ u.at.key[1] = "scratch" /\ c.carried = {}
<1>2. DOMAIN c = CallKeys BY <1>1, LaneWell, IdleIs
<1>3. next.todo = Tail(c.todo) /\ next.request = c.request BY <1>2 DEF CallKeys
<1>4. \E d : Becomes(l, d) /\ Saves(c, d)
  <2>1. CASE sweeps
    <3>1. Becomes(l, [c EXCEPT !.stage = "sweep", !.todo = Tail(c.todo)])
      <4>1. Becomes(l, [next EXCEPT !.stage = "sweep"]) BY <1>1, <2>1
      <4>2. [next EXCEPT !.stage = "sweep"] = [c EXCEPT !.stage = "sweep", !.todo = Tail(c.todo)] BY <1>2 DEF CallKeys
      <4> QED BY <4>1, <4>2
    <3> QED BY <2>1, <3>1 DEF Saves
  <2>2. CASE ~sweeps
    <3>1. Concludes(l, next) BY <1>1, <2>2
    <3> HIDE DEF next
    <3>2. PICK d : /\ Becomes(l, d)
                   /\ \/ d = Idle
                      \/ next.todo # << >> /\ d = [next EXCEPT !.stage = "read"]
                      \/ /\ next.todo = << >> /\ next.request.method = "MOVE" /\ IsPromotion(next)
                         /\ d = [next EXCEPT !.stage = "unlist"]
      BY <3>1, ConcludesIs DEF CallsWell
    <3>3. \A st : [next EXCEPT !.stage = st] = [c EXCEPT !.stage = st, !.todo = Tail(c.todo)] BY <1>2 DEF CallKeys, next
    <3> QED BY <1>3, <3>2, <3>3 DEF Saves, IsPromotion
  <2> QED BY <2>1, <2>2
<1> QED BY <1>1, <1>4 DEF SavesNext

LEMMA SavesWell ==
    ASSUME NEW c, NEW R, NEW n \in Nat, Well(c, R, n), c.stage = "save", NEW d, Saves(c, d)
    PROVE  d = Idle \/ (Well(d, R, n) /\ d.id = c.id)
<1> DEFINE u == Head(c.todo)
           t == Tail(c.todo)
<1>1. DOMAIN c = CallKeys /\ c.todo # << >> /\ IsSequence(c.todo) BY DEF Well
<1>2. IsSequence(t) /\ Parts(t) \subseteq Parts(c.todo) BY <1>1, HeadPart
<1>3. c.request.method = "PUT" /\ c.object # {} => u.op = "put" /\ t = << >>
  <2>1. ASSUME c.request.method = "PUT", c.object # {} PROVE c.todo = <<Update("put", From(c), StagedEntry(c))>>
    BY <2>1 DEF Well
  <2>2. \A v : c.todo = <<v>> => u = v /\ t = << >> BY OnePart
  <2>3. Update("put", From(c), StagedEntry(c)).op = "put" BY DEF Update
  <2> QED BY <2>1, <2>2, <2>3
<1>4. ~IsPromotion(c) \/ c.object # {} BY DEF Well
<1> HIDE DEF u, t
<1>5. ASSUME NEW st \in {"sweep", "read", "unlist"}, d = [c EXCEPT !.stage = st, !.todo = t],
             st = "read" => t # << >>, st = "unlist" => IsPromotion(c), ~(c.request.method = "PUT" /\ c.object # {})
      PROVE  Well(d, R, n) /\ d.id = c.id
  <2>1. /\ DOMAIN d = CallKeys /\ d.id = c.id /\ d.pic = c.pic /\ d.object = c.object /\ d.request = c.request
        /\ d.todo = t /\ d.space = c.space /\ d.listing = c.listing /\ d.carried = c.carried /\ d.stage = st
    BY <1>1, <1>5 DEF CallKeys
  <2>2. \A v \in Parts(t) : Chore(d, v, R, n) BY <1>2, <2>1 DEF Well, Chore, Inserting, From
  <2>3. IsPromotion(d) <=> IsPromotion(c) BY <2>1 DEF IsPromotion
  <2> QED BY <1>2, <1>4, <1>5, <2>1, <2>2, <2>3 DEF Well, Active
<1> QED
  <2>1. CASE d = Idle BY <2>1
  <2>2. CASE u.op = "delete" /\ d = [c EXCEPT !.stage = "sweep", !.todo = t] BY <1>3, <1>5, <2>2
  <2>3. CASE t # << >> /\ d = [c EXCEPT !.stage = "read", !.todo = t] BY <1>3, <1>5, <2>3
  <2>4. CASE t = << >> /\ c.request.method = "MOVE" /\ IsPromotion(c) /\ d = [c EXCEPT !.stage = "unlist", !.todo = t]
    BY <1>3, <1>5, <2>4
  <2> QED BY <2>1, <2>2, <2>3, <2>4 DEF Saves, u, t

LEMMA SaveSpaceWell == ASSUME WellInv, SaveSpace PROVE WellInv'
<1> USE DEF WellInv
<1>0. PICK l \in Lanes : \E d : SavesNext(l, d) BY SaveSpaceIs
<1>00. PICK d : SavesNext(l, d) BY <1>0
<1>1. LET c == serving[l]
          u == Head(c.todo)
      IN  /\ c.stage = "save" /\ Becomes(l, d) /\ Saves(c, d)
          /\ spaces' = Saved(u.at.key, Updated(c, u))
          /\ promises' = (IF Space(u.at.key) = c.space THEN promises ELSE promises \ StagedAt(u.at.key))
                          \cup (IF u.op = "put" THEN Staged(l, u.at, u.entry) ELSE {})
          /\ UNCHANGED <<rows, stores, menu, served, deaths>>
  BY <1>00 DEF SavesNext
<1>2. serving[l] # Idle BY <1>1, IdleIs
<1>3. served \in Nat BY DEF RowsWell
<1>4. d = Idle \/ (Well(d, DOMAIN photos, served) /\ d.id = serving[l].id) BY <1>1, <1>2, <1>3, LaneWell, SavesWell
<1>5. UNCHANGED <<photos, menu, served>> BY <1>1 DEF rows
<1>6. CallsWell' /\ IdsDiffer' BY <1>1, <1>2, <1>3, <1>4, <1>5, LaneWell, BecomesTurns, TurnsWell DEF CallsWell
<1>7. KnownSpace(Updated(serving[l], Head(serving[l].todo)), DOMAIN photos, served)
  BY <1>1, <1>2, <1>3, LaneWell, UpdatedKnown
<1>8. RowsWell' BY <1>1, <1>5, <1>7, RowsSaved
<1>9. PromisesWell'
  <2>1. \A q \in promises' : q \in promises \/ q.kind = "staged" BY <1>1, StagedKind
  <2> QED BY <1>5, <2>1 DEF PromisesWell
<1> QED BY <1>6, <1>8, <1>9

LEMMA StepWell ==
    ASSUME WellInv, NEW l \in Lanes, serving[l] # Idle, NEW d, Turns(l, d), RowsWell', PromisesWell',
           DOMAIN photos \subseteq DOMAIN photos', served' = served,
           d = Idle \/ (Well(d, DOMAIN photos', served) /\ d.id = serving[l].id)
    PROVE  WellInv'
<1>1. Active(serving[l]) /\ served \in Nat BY LaneWell DEF WellInv, RowsWell
<1>2. CallsWell' /\ IdsDiffer' BY <1>1, TurnsWell DEF WellInv
<1> QED BY <1>2 DEF WellInv

(* a step that leaves rows and entries alone *)
LEMMA PlainStepWell ==
    ASSUME WellInv, NEW l \in Lanes, serving[l] # Idle, NEW d, Becomes(l, d), UNCHANGED <<photos, spaces, menu, served>>,
           promises' \subseteq promises \/ PromisesWell',
           d = Idle \/ (Well(d, DOMAIN photos, served) /\ d.id = serving[l].id)
    PROVE  WellInv'
BY StepWell, RowsStay, PromisesStay, BecomesTurns DEF WellInv, CallsWell

LEMMA ClosesWell ==
    ASSUME WellInv, NEW l \in Lanes, serving[l] # Idle, Closes(l), UNCHANGED <<photos, spaces, menu, served>>
    PROVE  WellInv'
BY PlainStepWell DEF Closes

LEMMA SweepWell == ASSUME WellInv, Sweep PROVE WellInv'
<1>1. PICK l \in Lanes : serving[l].stage = "sweep" /\ Sweep!(l)!2 /\ Becomes(l, Idle) /\ UNCHANGED <<rows, bytes, menu, served, deaths>>
  BY DEF Sweep
<1>2. serving[l] # Idle /\ UNCHANGED <<photos, menu, served>> BY <1>1, IdleIs DEF rows
<1>3. promises' \subseteq promises BY <1>1
<1>4. spaces' = Drop(spaces, <<"scratch", serving[l].request.from>>) BY <1>1
<1>5. RowsWell' BY <1>2, <1>4, RowsDropped DEF WellInv
<1>6. PromisesWell' BY <1>2, <1>3, PromisesStay DEF WellInv
<1>7. Turns(l, Idle) BY <1>1, BecomesTurns DEF WellInv, CallsWell
<1> QED BY <1>2, <1>5, <1>6, <1>7, StepWell

LEMMA UnlistWell == ASSUME WellInv, Unlist PROVE WellInv'
<1>1. PICK l \in Lanes : serving[l].stage = "unlist" /\ Unlist!(l)!2 /\ UNCHANGED <<rows, stores, menu, served, deaths>>
  BY DEF Unlist
<1> DEFINE c == serving[l]
           at == Place("scratch", c.request.from)
           s == [c.listing EXCEPT !.files = Drop(@, at.name)]
           d == [c EXCEPT !.stage = "unstage"]
<1>2. c # Idle /\ UNCHANGED <<photos, menu, served>> /\ promises' \subseteq promises BY <1>1, IdleIs DEF rows
<1>3. Well(c, DOMAIN photos, served) /\ served \in Nat BY <1>2, LaneWell DEF WellInv, RowsWell
<1>4. Well(d, DOMAIN photos, served) /\ d.id = c.id BY <1>1, <1>3, WellLater
<1>5. KnownSpace(s, DOMAIN photos, served)
  <2>1. KnownSpace(c.listing, DOMAIN photos, served) BY <1>3 DEF Well
  <2>2. DOMAIN s = {"dirs", "files"} /\ s.files = Drop(c.listing.files, at.name) BY <2>1 DEF KnownSpace
  <2>3. DOMAIN s.files \subseteq DOMAIN c.listing.files /\ \A x \in DOMAIN s.files : s.files[x] = c.listing.files[x]
    <3>1. \A f, x : DOMAIN Drop(f, x) \subseteq DOMAIN f /\ \A y \in DOMAIN Drop(f, x) : Drop(f, x)[y] = f[y] BY DropIs
    <3> HIDE DEF s, at
    <3> QED BY <2>2, <3>1
  <2> QED BY <2>1, <2>2, <2>3 DEF KnownSpace
<1>6. spaces' = Saved(at.key, s) BY <1>1
<1> HIDE DEF s, at
<1>7. RowsWell' BY <1>2, <1>5, <1>6, RowsSaved DEF WellInv
<1>8. PromisesWell' BY <1>2, PromisesStay DEF WellInv
<1>9. Turns(l, d) BY <1>1, BecomesTurns DEF WellInv, CallsWell
<1> QED BY <1>2, <1>4, <1>7, <1>8, <1>9, StepWell

LEMMA UnstageWell == ASSUME WellInv, Unstage PROVE WellInv'
<1>1. PICK l \in Lanes : serving[l].stage = "unstage" /\ Becomes(l, Idle) /\ UNCHANGED <<rows, bytes, spaces, promises, menu, served, deaths>>
  BY DEF Unstage
<1> QED BY <1>1, IdleIs, PlainStepWell DEF rows

LEMMA BackupWell == ASSUME WellInv, Backup PROVE WellInv'
<1>1. PICK l \in Lanes : serving[l].stage = "backup" /\ Backup!(l)!2 /\ UNCHANGED <<rows, stores, spaces, promises, menu, served, deaths>>
  BY DEF Backup
<1> DEFINE c == serving[l]
           found == Entry(c.root, c.request.from)
           u == Update("put", Place("scratch", c.request.to), File({}, found, Empty))
           d == [c EXCEPT !.stage = "read", !.todo = <<u>>]
<1>2. c # Idle /\ UNCHANGED <<photos, spaces, menu, served>> BY <1>1, IdleIs DEF rows
<1>3. Well(c, DOMAIN photos, served) /\ DOMAIN c = CallKeys BY <1>2, LaneWell DEF WellInv
<1>4. Becomes(l, Idle) \/ Becomes(l, d) BY <1>1
<1>5. Well(d, DOMAIN photos, served) /\ d.id = c.id
  <2>1. found \subseteq DOMAIN photos BY EntryKnown DEF WellInv
  <2>2. IsSequence(<<u>>) /\ Parts(<<u>>) = {u} BY OnePart
  <2>3. c.stage = "backup" /\ c.object = {} /\ c.pic = {} /\ ~IsPromotion(c) BY <1>1, <1>3 DEF Well
  <2>4. /\ u.op = "put" /\ u.entry.object = {} /\ u.entry.pic = found /\ u.at = Place("scratch", c.request.to)
        /\ u.at.key[1] = "scratch" /\ Sited(u)
    BY SitedUpdates DEF Update, File, Place
  <2>5. StagesOf(c.request)
    BY <1>1, <1>3 DEF Well
  <2> HIDE DEF found, u
  <2>6. /\ DOMAIN d = CallKeys /\ d.id = c.id /\ d.pic = c.pic /\ d.object = c.object /\ d.request = c.request
        /\ d.todo = <<u>> /\ d.space = c.space /\ d.listing = c.listing /\ d.carried = c.carried /\ d.stage = "read"
    BY <1>3 DEF CallKeys
  <2>7. Chore(d, u, DOMAIN photos, served) BY <2>1, <2>3, <2>4, <2>5, <2>6 DEF Chore
  <2>8. ~IsPromotion(d) BY <2>3, <2>6 DEF IsPromotion
  <2> QED BY <1>3, <2>2, <2>3, <2>6, <2>7, <2>8 DEF Well, Active
<1>6. CASE Becomes(l, Idle) BY <1>1, <1>2, <1>6, PlainStepWell
<1>7. CASE Becomes(l, d) BY <1>1, <1>2, <1>5, <1>7, PlainStepWell
<1> QED BY <1>4, <1>6, <1>7

Begins(l, r, d) ==
    /\ serving[l] = Idle /\ Turns(l, d) /\ FirstStage(r) # "none" /\ served' = served + 1
    /\ DOMAIN d = CallKeys /\ d.stage = FirstStage(r) /\ d.id = served + 1 /\ d.request = r /\ d.pic = {}
    /\ d.content = r.content /\ d.todo = Todo(r) /\ d.space = NoSpace /\ d.listing = NoSpace /\ d.carried = {} /\ d.object = {}
    /\ \A m \in Lanes \ {l} : Active(serving[m]) /\ StagesOf(serving[m].request) /\ StagesOf(r) =>
            d.contested /\ serving'[m] = [serving[m] EXCEPT !.contested = TRUE]
    /\ promises' = Reshaped \/ promises' = promises
    /\ UNCHANGED <<rows, stores, spaces, menu, deaths>>

LEMMA StartIs == ASSUME CallsWell, Start PROVE \E l \in Lanes, r \in menu.requests : \E d : Begins(l, r, d)
<1>1. PICK l \in Lanes, r \in menu.requests : Start!(l, r)
  BY DEF Start
<1> DEFINE root == Tree
           reshapes == FirstStage(r) = "look" /\ (r.method = "MKCOL" \/ DirAt(root, r.from) # {})
           Handled(m) == serving[m] # Idle /\ StagesOf(serving[m].request)
           others == {m \in Lanes \ {l} : StagesOf(r) /\ Handled(m)}
           contested == others # {}
           d == [stage |-> FirstStage(r), id |-> served', request |-> r, root |-> root, pic |-> {}, content |-> r.content,
                 todo |-> Todo(r), space |-> NoSpace, listing |-> NoSpace, carried |-> {}, reshapes |-> reshapes,
                 contested |-> contested, change |-> << >>, object |-> {}]
<1>2. serving' = [m \in Lanes |-> IF m \in others THEN [serving[m] EXCEPT !.contested = TRUE]
                                  ELSE IF m # l THEN serving[m] ELSE d]
  BY <1>1
<1>10. served' = served + 1 BY <1>1
<1>9. /\ DOMAIN d = CallKeys /\ d.stage = FirstStage(r) /\ d.id = served + 1 /\ d.request = r /\ d.pic = {} /\ d.contested = contested
      /\ d.content = r.content /\ d.todo = Todo(r) /\ d.space = NoSpace /\ d.listing = NoSpace /\ d.carried = {} /\ d.object = {}
  BY <1>10 DEF CallKeys
<1>3. \A m \in Lanes : serving[m] # Idle <=> Active(serving[m])
  BY IdleIs, LaneWell
<1> HIDE DEF d, reshapes, root
<1>4. Turns(l, d) BY <1>2, <1>3 DEF Turns
<1>5. \A m \in Lanes \ {l} :
        Active(serving[m]) /\ StagesOf(serving[m].request) /\ StagesOf(r) =>
          contested /\ serving'[m] = [serving[m] EXCEPT !.contested = TRUE]
  BY <1>2, <1>3
<1>6. promises' = Reshaped \/ promises' = promises BY <1>1
<1>7. serving[l] = Idle /\ FirstStage(r) # "none" /\ UNCHANGED <<rows, stores, spaces, menu, deaths>>
  BY <1>1
<1> HIDE DEF contested
<1>8. Begins(l, r, d) BY <1>4, <1>5, <1>6, <1>7, <1>9, <1>10 DEF Begins
<1> QED BY <1>8

LEMMA FirstWell ==
    ASSUME NEW r, r.method \in {"MOVE", "COPY"} \/ r.to = << >>, FirstStage(r) # "none", NEW n \in Nat \ {0}, NEW R,
           NEW d, DOMAIN d = CallKeys, d.stage = FirstStage(r), d.id = n, d.request = r, d.pic = {}, d.content = r.content,
           d.todo = Todo(r), d.space = NoSpace, d.listing = NoSpace, d.carried = {}, d.object = {}
    PROVE  Well(d, R, n)
<1>1. KnownSpace(NoSpace, R, n) BY DEF NoSpace, KnownSpace
<1>2. ~InScratch(<< >>) BY DEF InScratch
<1>3. NoFile.object = {} /\ NoFile.pic = {} /\ \A x : File({}, {}, x).object = {} /\ File({}, {}, x).pic = {}
  BY DEF NoFile, File
<1>4. \A kind, path : Place(kind, path).key[1] = kind BY DEF Place
<1>5. \A op, at, entry : Update(op, at, entry).op = op /\ Update(op, at, entry).at = at /\ Update(op, at, entry).entry = entry
  BY DEF Update
<1>6. CASE Last(r.from) \in Junk
  <2> DEFINE op == IF r.method = "PUT" THEN "put" ELSE "delete"
             u == Update(op, Place("junk", r.from), File({}, {}, r.content))
  <2>1. d.todo = <<u>> /\ d.stage = "read" /\ r.method \in {"PUT", "DELETE"} BY <1>6 DEF Todo, JunkTodo, FirstStage
  <2>2. u.op \in {"put", "delete"} /\ u.at.key[1] = "junk" /\ u.entry.object = {} /\ u.entry.pic = {} /\ Sited(u)
    BY <1>3, <1>4, <1>5, SitedUpdates
  <2> HIDE DEF u
  <2>3. Chore(d, u, R, n) BY <2>2 DEF Chore
  <2>4. ~IsPromotion(d) BY <2>1 DEF IsPromotion
  <2> QED BY <1>1, <2>1, <2>3, <2>4, OnePart DEF Well, Active
<1>7. CASE Last(r.from) \notin Junk /\ ~InScratch(r.from)
  <2>1. d.todo = << >> /\ (d.stage = "look" \/ (d.stage = "backup" /\ InScratch(r.to))) BY <1>7 DEF Todo, FirstStage
  <2>2. ~IsPromotion(d) BY <1>7 DEF IsPromotion
  <2>3. StagesOf(r) <=> InScratch(r.to) BY <1>7 DEF StagesOf
  <2> QED BY <1>1, <2>1, <2>2, <2>3, NoPart DEF Well, Active
<1>8. CASE Last(r.from) \notin Junk /\ InScratch(r.from)
  <2>1. d.todo = ScratchTodo(r) BY <1>8 DEF Todo
  <2>2. d.stage \in {"upload", "read"} /\ (d.stage = "upload" <=> r.method = "PUT") BY <1>8 DEF FirstStage
  <2>3. StagesOf(r) BY <1>8 DEF StagesOf
  <2>4. From(d) = Place("scratch", r.from) BY DEF From
  <2>5. ASSUME r.method = "PUT" PROVE Well(d, R, n)
    <3> DEFINE u == Update("put", From(d), File({}, {}, r.content))
    <3>1. d.todo = <<u>> BY <2>1, <2>4, <2>5 DEF ScratchTodo
    <3>2. StagedEntry(d) = File({}, {}, r.content) BY DEF StagedEntry, File
    <3>3. u.op = "put" /\ u.at = From(d) /\ u.entry.object = {} /\ u.entry.pic = {} /\ Sited(u)
      BY <1>3, <1>5, SitedUpdates DEF From
    <3>4. d.todo = <<Update("put", From(d), StagedEntry(d))>> BY <3>1, <3>2
    <3> HIDE DEF u
    <3>5. Chore(d, u, R, n) BY <2>3, <3>3 DEF Chore
    <3>6. ~IsPromotion(d) BY <2>5 DEF IsPromotion
    <3> QED BY <1>1, <1>8, <2>2, <2>3, <2>5, <3>1, <3>4, <3>5, <3>6, OnePart DEF Well, Active
  <2>6. ASSUME r.method # "PUT", NEW u, d.todo = <<u>>, u.op \in {"addDir", "delete", "fetch"}, u.at = From(d), u.entry = NoFile,
               u.op = "fetch" \/ ~IsPromotion(d)
        PROVE  Well(d, R, n)
    <3>1. Chore(d, u, R, n) BY <1>3, <2>3, <2>6, SitedUpdates DEF Chore, From
    <3> QED BY <1>1, <2>2, <2>3, <2>6, <3>1, OnePart DEF Well, Active
  <2>7. ASSUME r.method \in {"MOVE", "COPY"}, InScratch(r.to) PROVE Well(d, R, n)
    <3> DEFINE u == Update("take", Place("scratch", r.from), NoFile)
               v == Update("give", Place("scratch", r.to), NoFile)
    <3>1. d.todo = <<u, v>> BY <2>1, <2>7 DEF ScratchTodo
    <3>2. u.op = "take" /\ u.entry = NoFile /\ u.at.key[1] = "scratch" /\ v.op = "give" /\ v.entry = NoFile /\ v.at.key[1] = "scratch"
          /\ Sited(u) /\ Sited(v)
      BY <1>4, <1>5, SitedUpdates
    <3> HIDE DEF u, v
    <3>3. Chore(d, u, R, n) /\ Chore(d, v, R, n) BY <1>3, <2>3, <3>2 DEF Chore
    <3>4. ~IsPromotion(d) BY <2>7 DEF IsPromotion
    <3>5. <<u, v>> # << >> OBVIOUS
    <3> QED BY <1>1, <2>2, <2>3, <2>7, <3>1, <3>3, <3>4, <3>5, TwoParts DEF Well, Active
  <2>8. CASE r.method \in {"MKCOL", "DELETE"}
    <3>1. ~IsPromotion(d) BY <2>8 DEF IsPromotion
    <3>2. \E op \in {"addDir", "delete"} : d.todo = <<Update(op, From(d), NoFile)>> BY <2>1, <2>4, <2>8 DEF ScratchTodo
    <3> QED BY <1>5, <2>6, <2>8, <3>1, <3>2
  <2>9. CASE r.method \notin {"MKCOL", "DELETE", "PUT"} /\ ~(r.method \in {"MOVE", "COPY"} /\ InScratch(r.to))
    <3>1. d.todo = <<Update("fetch", From(d), NoFile)>> BY <2>1, <2>4, <2>9 DEF ScratchTodo
    <3> QED BY <1>5, <2>6, <2>9, <3>1
  <2> QED BY <2>5, <2>7, <2>8, <2>9
<1> QED BY <1>6, <1>7, <1>8

LEMMA StartWell == ASSUME VfsAssumption, WellInv, Start PROVE WellInv'
<1> USE DEF WellInv
<1>1. PICK l \in Lanes, r \in menu.requests : \E d : Begins(l, r, d) BY StartIs
<1>13. PICK d : Begins(l, r, d) BY <1>1
<1>2. UNCHANGED <<photos, spaces, menu>> /\ served \in Nat /\ served' = served + 1 /\ menu \in Menus
  BY <1>13 DEF Begins, rows, RowsWell
<1>3. r.method \in {"MOVE", "COPY"} \/ r.to = << >> BY <1>2 DEF VfsAssumption
<1>5. d.id = served + 1 /\ Turns(l, d) BY <1>13 DEF Begins
<1>4. Well(d, DOMAIN photos, served + 1)
  <2>1. served + 1 \in Nat \ {0} BY <1>2
  <2> QED BY <1>3, <1>13, <2>1, FirstWell DEF Begins
<1>6. \A m \in Lanes \ {l} :
        /\ serving'[m] = Idle \/ Well(serving'[m], DOMAIN photos, served + 1)
        /\ Active(serving'[m]) => Active(serving[m]) /\ serving'[m].id = serving[m].id /\ serving[m].id \in 1..served
  <2> SUFFICES ASSUME NEW m \in Lanes \ {l}
               PROVE  /\ serving'[m] = Idle \/ Well(serving'[m], DOMAIN photos, served + 1)
                      /\ Active(serving'[m]) => Active(serving[m]) /\ serving'[m].id = serving[m].id /\ serving[m].id \in 1..served
    OBVIOUS
  <2>0. serving'[m] = serving[m] \/ (Active(serving[m]) /\ serving'[m] = [serving[m] EXCEPT !.contested = TRUE])
    BY <1>5 DEF Turns
  <2>1. CASE serving[m] = Idle BY <2>0, <2>1, IdleIs
  <2>2. CASE serving[m] # Idle
    <3>1. Well(serving[m], DOMAIN photos, served) /\ DOMAIN serving[m] = CallKeys BY <2>2, LaneWell
    <3>2. Well(serving'[m], DOMAIN photos, served + 1)
      <4>1. /\ Well(serving[m], DOMAIN photos, served + 1)
            /\ Well([serving[m] EXCEPT !.contested = TRUE], DOMAIN photos, served + 1)
        BY <1>2, <3>1, WellWider
      <4> QED BY <2>0, <4>1
    <3>3. serving'[m].id = serving[m].id BY <2>0, <3>1 DEF CallKeys
    <3>4. Active(serving[m]) /\ serving[m].id \in 1..served BY <3>1 DEF Well
    <3> QED BY <3>2, <3>3, <3>4
  <2> QED BY <2>1, <2>2
<1>7. serving'[l] = d /\ DOMAIN serving' = Lanes BY <1>5 DEF Turns
<1>8. CallsWell' BY <1>2, <1>4, <1>6, <1>7 DEF CallsWell
<1>9. IdsDiffer'
  <2>1. \A m \in Lanes \ {l} : Active(serving'[m]) => serving'[m].id # d.id BY <1>2, <1>5, <1>6
  <2>2. \A m, k \in Lanes \ {l} : m # k /\ Active(serving'[m]) /\ Active(serving'[k]) => serving'[m].id # serving'[k].id
    BY <1>6 DEF IdsDiffer
  <2> QED BY <1>7, <2>1, <2>2 DEF IdsDiffer, Active
<1>10. RowsWell'
  <2>1. 1..served \subseteq 1..(served + 1) BY <1>2
  <2>2. \A k \in DOMAIN spaces : KnownSpace(spaces[k], DOMAIN photos, served + 1)
    BY <2>1 DEF RowsWell, KnownSpace, KnownEntry
  <2>3. DOMAIN photos \subseteq DOMAIN Library \cup {100 + i : i \in 1..(served + 1)} BY <2>1 DEF RowsWell
  <2> QED BY <1>2, <2>2, <2>3 DEF RowsWell
<1>11. PromisesWell'
  <2>1. \A q \in Reshaped : q \in promises \/
           (q.kind = "kept" /\ DOMAIN q = PromiseKeys /\ \E p \in promises : p.kind = "kept" /\ p.pic = q.pic)
    BY ReshapedIs
  <2> QED BY <1>13, <1>2, <2>1 DEF PromisesWell, Begins
<1> QED BY <1>8, <1>9, <1>10, <1>11

LEMMA TakesIs ==
    ASSUME CallsWell, NEW l \in Lanes, NEW c, DOMAIN c = CallKeys, NEW p, Takes(l, c, p)
    PROVE  \E b \in BOOLEAN :
             /\ Turns(l, [c EXCEPT !.pic = {p}, !.contested = b])
             /\ \A m \in Lanes \ {l} : serving[m].pic = {p} => b /\ serving'[m].contested
             /\ \A m \in Lanes \ {l} : serving[m].pic # {p} => serving'[m] = serving[m]
<1> DEFINE b == \E m \in Lanes \ {l} : serving[m].pic = {p}
           d == [c EXCEPT !.pic = {p}, !.contested = b]
<1>1. serving' = [m \in Lanes |->
            IF m = l THEN d ELSE IF serving[m].pic = {p} THEN [serving[m] EXCEPT !.contested = TRUE] ELSE serving[m]]
  BY DEF Takes
<1>2. \A m \in Lanes : serving[m].pic = {p} => Active(serving[m]) /\ DOMAIN serving[m] = CallKeys
  BY IdleIs, LaneWell
<1>3. b \in BOOLEAN /\ \A m \in Lanes \ {l} : serving[m].pic = {p} => b OBVIOUS
<1> HIDE DEF b
<1>4. Turns(l, d)
  <2> HIDE DEF d
  <2> QED BY <1>1, <1>2 DEF Turns
<1>5. \A m \in Lanes \ {l} : serving[m].pic = {p} => serving'[m].contested BY <1>1, <1>2 DEF CallKeys
<1>6. \A m \in Lanes \ {l} : serving[m].pic # {p} => serving'[m] = serving[m] BY <1>1
<1> QED BY <1>3, <1>4, <1>5, <1>6

(* the updates of inboxes that a request has for later, of pictures in P *)
InboxTodo(t, P) ==
    /\ IsSequence(t)
    /\ \A u \in Parts(t) : u.op \in {"put", "delete"} /\ Sited(u) /\ u.at.key[1] = "drop" /\ u.entry.object = {} /\ u.entry.pic \subseteq P

LEMMA NotesAre ==
    ASSUME NEW dirs, NEW name, NEW p
    PROVE  /\ InboxTodo(NoteDrop(dirs, name, p), {p}) /\ InboxTodo(ForgetDrop(dirs, name), {p})
           /\ InboxTodo(<< >>, {p})
<1>1. \A k \in Inboxes(dirs) : k[1] = "drop" BY DEF Inboxes
<1>2. ASSUME NEW op \in {"put", "delete"}, NEW entry, entry.object = {}, entry.pic \subseteq {p}
      PROVE  InboxTodo(UpdateInbox(dirs, op, name, entry), {p})
  <2>1. CASE Inboxes(dirs) = {} BY <2>1, NoPart DEF UpdateInbox, InboxTodo
  <2>2. CASE Inboxes(dirs) # {}
    <3> DEFINE k == CHOOSE x \in Inboxes(dirs) : TRUE
               u == Update(op, [key |-> k, name |-> name], entry)
    <3>1. k \in Inboxes(dirs) BY <2>2
    <3>2. UpdateInbox(dirs, op, name, entry) = <<u>> BY <2>2 DEF UpdateInbox
    <3> HIDE DEF k
    <3>3. u.op = op /\ u.at.key = k /\ u.entry = entry /\ Sited(u) BY SitedUpdates DEF Update
    <3>4. k[1] = "drop" BY <1>1, <3>1
    <3> HIDE DEF u
    <3> QED BY <1>2, <3>2, <3>3, <3>4, OnePart DEF InboxTodo
  <2> QED BY <2>1, <2>2
<1>3. File({}, {p}, Empty).object = {} /\ File({}, {p}, Empty).pic = {p} /\ NoFile.object = {} /\ NoFile.pic = {}
  BY DEF File, NoFile
<1>4. InboxTodo(NoteDrop(dirs, name, p), {p}) BY <1>2, <1>3 DEF NoteDrop
<1>5. InboxTodo(ForgetDrop(dirs, name), {p}) BY <1>2, <1>3 DEF ForgetDrop
<1> QED BY <1>4, <1>5, NoPart DEF InboxTodo

LEMMA JoinedTodo ==
    ASSUME NEW s, NEW t, NEW P, InboxTodo(s, P), InboxTodo(t, P)
    PROVE  InboxTodo(s \o t, P)
<1> DEFINE S == Parts(s) \cup Parts(t)
           j == s \o t
<1>1. s \in Seq(S) /\ t \in Seq(S)
  <2>1. s \in Seq(Parts(s)) /\ t \in Seq(Parts(t)) BY DEF InboxTodo, IsSequence
  <2>2. Parts(s) \subseteq S /\ Parts(t) \subseteq S OBVIOUS
  <2> HIDE DEF S
  <2> QED BY <2>1, <2>2, SeqMonotonic
<1> HIDE DEF S
<1>2. j \in Seq(S) BY <1>1, ConcatProperties
<1> HIDE DEF j
<1>3. PICK k \in Nat : j \in [1..k -> S]
  <2>1. j \in UNION {[1..n -> S] : n \in Nat} BY <1>2, SeqDef, Zenon
  <2> QED BY <2>1
<1>4. Parts(j) \subseteq S /\ j \in [1..k -> Parts(j)] BY <1>3 DEF Parts
<1>5. IsSequence(j)
  <2>1. [1..k -> Parts(j)] \subseteq UNION {[1..n -> Parts(j)] : n \in Nat} BY <1>3
  <2> QED BY <1>4, <2>1, SeqDef DEF IsSequence
<1> QED BY <1>4, <1>5 DEF InboxTodo, S, j

(* a request that has found its picture, or has only listings left to update *)
LEMMA TakenWell ==
    ASSUME NEW c, NEW R, NEW n \in Nat, Well(c, R, n), c.stage = "look",
           NEW st \in {"apply", "bytes", "trash", "snapshot"}, NEW p, p \in R \/ (p = 100 + c.id /\ st = "bytes"),
           NEW t, InboxTodo(t, {p}), NEW d, DOMAIN d = CallKeys, d.stage = st, d.pic = {p}, d.todo = t, d.id = c.id,
           d.request = c.request, d.space = c.space, d.listing = c.listing, d.carried = c.carried, d.object = c.object
    PROVE  Well(d, R, n)
<1>1. \A u \in Parts(t) : Chore(d, u, R, n)
  <2> SUFFICES ASSUME NEW u \in Parts(t) PROVE Chore(d, u, R, n)
    OBVIOUS
  <2>1. u.op \in {"put", "delete"} /\ Sited(u) /\ u.at.key[1] = "drop" /\ u.entry.object = {} /\ u.entry.pic \subseteq {p} BY DEF InboxTodo
  <2>2. u.entry.pic \subseteq R \cup Inserting(d) BY <2>1 DEF Inserting
  <2> QED BY <2>1, <2>2 DEF Chore
<1>2. IsPromotion(d) <=> IsPromotion(c) BY DEF IsPromotion
<1>3. ~(IsPromotion(c) /\ c.object = {}) /\ (c.request.method = "PUT" => c.object = {}) BY DEF Well
<1> QED BY <1>1, <1>2, <1>3 DEF Well, Active, InboxTodo

LEMMA NotedWell ==
    ASSUME NEW c, NEW R, NEW n \in Nat, Well(c, R, n), c.stage = "look",
           NEW d, DOMAIN d = CallKeys, InboxTodo(d.todo, R),
           (d.stage = "read" /\ d.todo # << >>) \/ (d.stage = "unlist" /\ IsPromotion(c)), d.pic = c.pic, d.id = c.id,
           d.request = c.request, d.space = c.space, d.listing = c.listing, d.carried = c.carried, d.object = c.object
    PROVE  Well(d, R, n)
<1>1. \A u \in Parts(d.todo) : Chore(d, u, R, n) BY DEF InboxTodo, Chore
<1>2. IsPromotion(d) <=> IsPromotion(c) BY DEF IsPromotion
<1>3. ~(IsPromotion(c) /\ c.object = {}) /\ (c.request.method = "PUT" => c.object = {}) /\ c.pic = {} BY DEF Well
<1> QED BY <1>1, <1>2, <1>3 DEF Well, Active, InboxTodo

(* what a look for the place of a file leads to *)
LooksPut(l, c) ==
    \/ Concludes(l, c) /\ UNCHANGED promises
    \/ \E p \in DOMAIN photos : \E t, e, place :
         /\ photos[p].hash = c.content /\ InboxTodo(t, {p}) /\ (e = c \/ e = [c EXCEPT !.todo = t])
         /\ promises' = promises \cup Told(l, "kept", p, c.content, place, FALSE) /\ Concludes(l, e)
    \/ \E p \in DOMAIN photos : promises' = Addressed(p, TRUE) /\ Takes(l, [c EXCEPT !.stage = "snapshot"], p)
    \/ \E p \in DOMAIN photos : \E t, change :
         /\ InboxTodo(t, {p}) /\ promises' = Addressed(p, FALSE)
         /\ Takes(l, [c EXCEPT !.stage = "apply", !.todo = t, !.change = change], p)
    \/ \E t, change :
         /\ InboxTodo(t, {100 + c.id}) /\ promises' = Addressed(100 + c.id, FALSE)
         /\ Takes(l, [c EXCEPT !.stage = "bytes", !.todo = t, !.change = change], 100 + c.id)
    \/ Closes(l)

LEMMA LandNewIs ==
    ASSUME NEW l, NEW c, NEW target, NEW enter, NEW name, NEW place, LandNew(l, c, target, enter, name, place)
    PROVE  LooksPut(l, c)
<1> DEFINE Alike(trashed) == {p \in DOMAIN photos : photos[p].hash = c.content /\ photos[p].trashed = trashed}
           Noted(p) == NoteDrop(target.dir, name, p)
           Change(restores) == [leave |-> << >>, enter |-> enter, restores |-> restores, place |-> place]
           Lands(p, stage, restores) ==
            /\ promises' = Addressed(p, FALSE)
            /\ Takes(l, [c EXCEPT !.stage = stage, !.todo = Noted(p), !.change = Change(restores)], p)
<1>1. \A p : InboxTodo(Noted(p), {p}) BY NotesAre
<1>2. \/ \E p \in Alike(FALSE) : Lands(p, "apply", FALSE)
      \/ \E p \in Alike(TRUE) : Lands(p, "apply", TRUE)
      \/ \E p \in Alike(TRUE) :
           /\ promises' = promises \cup Told(l, "kept", p, c.content, {}, FALSE)
           /\ Concludes(l, [c EXCEPT !.todo = Noted(p)])
      \/ Lands(100 + c.id, "bytes", FALSE)
      \/ Closes(l)
  BY DEF LandNew
<1> HIDE DEF Noted, Change
<1>3. CASE \E p \in Alike(FALSE) : Lands(p, "apply", FALSE) BY <1>1, <1>3 DEF LooksPut
<1>4. CASE \E p \in Alike(TRUE) : Lands(p, "apply", TRUE) BY <1>1, <1>4 DEF LooksPut
<1>5. ASSUME NEW p \in Alike(TRUE), promises' = promises \cup Told(l, "kept", p, c.content, {}, FALSE),
             Concludes(l, [c EXCEPT !.todo = Noted(p)])
      PROVE  LooksPut(l, c)
  BY <1>1, <1>5 DEF LooksPut
<1>6. CASE Lands(100 + c.id, "bytes", FALSE) BY <1>1, <1>6 DEF LooksPut
<1>7. CASE Closes(l) BY <1>7 DEF LooksPut
<1> QED BY <1>2, <1>3, <1>4, <1>5, <1>6, <1>7

LEMMA LookPutIs ==
    ASSUME WellInv, LookPut
    PROVE  \E l \in Lanes :
             /\ serving[l].stage = "look" /\ LooksPut(l, serving[l]) /\ UNCHANGED <<rows, stores, spaces, menu, served, deaths>>
<1>1. PICK l \in Lanes : LookPut!(l)
  BY DEF LookPut
<1> DEFINE c == serving[l]
           path == Destination(c)
           parent == Front(path)
           root == c.root
           target == Targets(root, parent)
           chains == UNION {WritableChain(root, parent, t) : t \in target}
           dirs == UNION {t.dir : t \in target}
           same == IF Inboxes(dirs) = {} THEN Entry(root, path) ELSE {}
<1>2. c.stage = "look" /\ UNCHANGED <<rows, stores, spaces, menu, served, deaths>> BY <1>1
<1>3. same \subseteq DOMAIN photos BY EntryKnown DEF WellInv
<1>4. \/ Concludes(l, c) /\ UNCHANGED promises
      \/ \E p \in same :
            \/ /\ photos[p].hash = c.content
               /\ promises' = promises \cup Told(l, "kept", p, c.content, {parent}, FALSE)
               /\ Concludes(l, c)
            \/ promises' = Addressed(p, TRUE) /\ Takes(l, [c EXCEPT !.stage = "snapshot"], p)
      \/ Closes(l)
      \/ \E t \in target, ch \in chains : \E place :
            LandNew(l, c, t, Transition(<< >>, ch).enter, Last(path), place)
  <2>1. CASE c.content = Empty BY <1>1, <2>1
  <2>2. CASE c.content # Empty /\ same # {}
    <3> DEFINE p == CHOOSE q \in same : TRUE
    <3>1. p \in same BY <2>2
    <3>2. IF photos[p].hash = c.content
          THEN promises' = promises \cup Told(l, "kept", p, c.content, {parent}, FALSE) /\ Concludes(l, c)
          ELSE (promises' = Addressed(p, TRUE) /\ Takes(l, [c EXCEPT !.stage = "snapshot"], p)) \/ Closes(l)
      BY <1>1, <2>2
    <3> HIDE DEF p, same
    <3> QED BY <3>1, <3>2
  <2>3. CASE c.content # Empty /\ same = {} /\ chains = {} BY <1>1, <2>3
  <2>4. CASE c.content # Empty /\ same = {} /\ chains # {} BY <1>1, <2>4
  <2> QED BY <2>1, <2>2, <2>3, <2>4
<1> HIDE DEF same, parent, target, chains
<1>5. LooksPut(l, c)
  <2>1. CASE Concludes(l, c) /\ UNCHANGED promises BY <2>1 DEF LooksPut
  <2>2. CASE Closes(l) BY <2>2 DEF LooksPut
  <2>3. ASSUME NEW p \in same, photos[p].hash = c.content,
               promises' = promises \cup Told(l, "kept", p, c.content, {parent}, FALSE), Concludes(l, c)
        PROVE  LooksPut(l, c)
    BY <1>3, <2>3, NotesAre DEF LooksPut
  <2>4. ASSUME NEW p \in same, promises' = Addressed(p, TRUE), Takes(l, [c EXCEPT !.stage = "snapshot"], p)
        PROVE  LooksPut(l, c)
    BY <1>3, <2>4 DEF LooksPut
  <2>5. ASSUME NEW t, NEW enter, NEW name, NEW place, LandNew(l, c, t, enter, name, place) PROVE LooksPut(l, c)
    BY <2>5, LandNewIs
  <2> QED BY <1>4, <2>1, <2>2, <2>3, <2>4, <2>5
<1> QED BY <1>2, <1>5

LEMMA TakesStepWell ==
    ASSUME WellInv, NEW l \in Lanes, serving[l].stage = "look", UNCHANGED <<photos, spaces, menu, served>>, PromisesWell',
           NEW d, NEW p, Takes(l, d, p), NEW st \in {"apply", "bytes", "trash", "snapshot"}, d.stage = st,
           p \in DOMAIN photos \/ (p = 100 + serving[l].id /\ st = "bytes"),
           NEW t, InboxTodo(t, {p}), d.todo = t,
           DOMAIN d = CallKeys, d.id = serving[l].id, d.request = serving[l].request, d.space = serving[l].space,
           d.listing = serving[l].listing, d.carried = serving[l].carried, d.object = serving[l].object
    PROVE  WellInv'
<1> DEFINE c == serving[l]
<1>1. c # Idle /\ CallsWell BY IdleIs DEF WellInv
<1>2. Well(c, DOMAIN photos, served) /\ served \in Nat BY <1>1, LaneWell DEF WellInv, RowsWell
<1>3. PICK b \in BOOLEAN : Turns(l, [d EXCEPT !.pic = {p}, !.contested = b]) BY <1>1, TakesIs
<1> DEFINE e == [d EXCEPT !.pic = {p}, !.contested = b]
<1>4. /\ DOMAIN e = CallKeys /\ e.stage = st /\ e.pic = {p} /\ e.todo = t /\ e.id = c.id /\ e.request = c.request
      /\ e.space = c.space /\ e.listing = c.listing /\ e.carried = c.carried /\ e.object = c.object
  BY DEF CallKeys
<1> HIDE DEF e
<1>5. Well(e, DOMAIN photos, served) BY <1>2, <1>4, TakenWell
<1>6. RowsWell' BY RowsStay DEF WellInv
<1> QED BY <1>1, <1>3, <1>4, <1>5, <1>6, StepWell DEF e

LEMMA LooksPutWell ==
    ASSUME WellInv, NEW l \in Lanes, serving[l].stage = "look", LooksPut(l, serving[l]), UNCHANGED <<photos, spaces, menu, served>>
    PROVE  WellInv'
<1> DEFINE c == serving[l]
<1>1. c # Idle BY IdleIs
<1>2. Well(c, DOMAIN photos, served) /\ DOMAIN c = CallKeys /\ served \in Nat /\ c.todo = << >> /\ c.pic = {} 
  BY <1>1, LaneWell DEF WellInv, RowsWell, Well
<1>3. ASSUME NEW e, NEW t, InboxTodo(t, DOMAIN photos), e = c \/ e = [c EXCEPT !.todo = t], Concludes(l, e), PromisesWell'
      PROVE  WellInv'
  <2>1. e.todo = << >> \/ e.todo = t BY <1>2, <1>3 DEF CallKeys
  <2>2. InboxTodo(e.todo, DOMAIN photos) BY <1>3, <2>1, NoPart DEF InboxTodo
  <2>3. PICK d : /\ Becomes(l, d)
                 /\ \/ d = Idle
                    \/ e.todo # << >> /\ d = [e EXCEPT !.stage = "read"]
                    \/ e.todo = << >> /\ e.request.method = "MOVE" /\ IsPromotion(e) /\ d = [e EXCEPT !.stage = "unlist"]
    BY <1>3, ConcludesIs DEF WellInv, CallsWell
  <2>4. /\ DOMAIN e = CallKeys /\ e.request = c.request /\ e.pic = c.pic /\ e.id = c.id /\ e.space = c.space
        /\ e.listing = c.listing /\ e.carried = c.carried /\ e.object = c.object
    BY <1>2, <1>3 DEF CallKeys
  <2>5. IsPromotion(e) <=> IsPromotion(c) BY <2>4 DEF IsPromotion
  <2>6. ASSUME NEW st \in {"read", "unlist"}, d = [e EXCEPT !.stage = st]
        PROVE  /\ DOMAIN d = CallKeys /\ d.request = c.request /\ d.pic = c.pic /\ d.id = c.id /\ d.space = c.space
               /\ d.listing = c.listing /\ d.carried = c.carried /\ d.object = c.object /\ d.stage = st /\ d.todo = e.todo
    BY <2>4, <2>6 DEF CallKeys
  <2>7. d = Idle \/ (Well(d, DOMAIN photos, served) /\ d.id = c.id)
    <3>1. CASE e.todo # << >> /\ d = [e EXCEPT !.stage = "read"]
      <4>1. InboxTodo(d.todo, DOMAIN photos) /\ d.todo # << >> /\ d.stage = "read" BY <2>2, <2>6, <3>1
      <4> QED BY <1>2, <2>6, <3>1, <4>1, NotedWell
    <3>2. CASE IsPromotion(e) /\ d = [e EXCEPT !.stage = "unlist"] BY <1>1, <1>2, <2>2, <2>5, <2>6, <3>2, NotedWell
    <3> QED BY <2>3, <3>1, <3>2
  <2> QED BY <1>1, <1>3, <2>3, <2>7, PlainStepWell
<1>4. ASSUME NEW st \in {"apply", "bytes", "snapshot"}, NEW p, p \in DOMAIN photos \/ (p = 100 + c.id /\ st = "bytes"),
             NEW t, InboxTodo(t, {p}), NEW change, NEW replaces, promises' = Addressed(p, replaces),
             NEW d, d = [c EXCEPT !.stage = st, !.todo = t, !.change = change] \/ (t = << >> /\ d = [c EXCEPT !.stage = st]),
             Takes(l, d, p)
      PROVE  WellInv'
  <2>1. /\ DOMAIN d = CallKeys /\ d.id = c.id /\ d.request = c.request /\ d.space = c.space /\ d.todo = t
        /\ d.listing = c.listing /\ d.carried = c.carried /\ d.object = c.object /\ d.stage = st
    BY <1>2, <1>4 DEF CallKeys
  <2>2. PromisesWell' BY <1>4, AddressedWell DEF WellInv
  <2> QED BY <1>4, <2>1, <2>2, TakesStepWell
<1>5. CASE Concludes(l, c) /\ UNCHANGED promises
  <2>1. PromisesWell' BY <1>5, PromisesStay DEF WellInv
  <2> QED BY <1>3, <1>5, <2>1, NoPart DEF InboxTodo
<1>6. ASSUME NEW p \in DOMAIN photos, NEW t, NEW e, NEW place, InboxTodo(t, {p}), e = c \/ e = [c EXCEPT !.todo = t],
             promises' = promises \cup Told(l, "kept", p, c.content, place, FALSE), Concludes(l, e)
      PROVE  WellInv'
  <2>1. PromisesWell' BY <1>6, ToldWell DEF WellInv
  <2>2. InboxTodo(t, DOMAIN photos) BY <1>6 DEF InboxTodo
  <2> QED BY <1>3, <1>6, <2>1, <2>2
<1>7. ASSUME NEW p \in DOMAIN photos, promises' = Addressed(p, TRUE), Takes(l, [c EXCEPT !.stage = "snapshot"], p)
      PROVE  WellInv'
  <2>1. InboxTodo(<< >>, {p}) BY NotesAre
  <2> QED BY <1>4, <1>7, <2>1
<1>8. ASSUME NEW p \in DOMAIN photos, NEW t, NEW change, InboxTodo(t, {p}), promises' = Addressed(p, FALSE),
             Takes(l, [c EXCEPT !.stage = "apply", !.todo = t, !.change = change], p)
      PROVE  WellInv'
  BY <1>4, <1>8
<1>9. ASSUME NEW t, NEW change, InboxTodo(t, {100 + c.id}), promises' = Addressed(100 + c.id, FALSE),
             Takes(l, [c EXCEPT !.stage = "bytes", !.todo = t, !.change = change], 100 + c.id)
      PROVE  WellInv'
  BY <1>4, <1>9
<1>10. CASE Closes(l) BY <1>1, <1>10, ClosesWell
<1> QED BY <1>5, <1>6, <1>7, <1>8, <1>9, <1>10 DEF LooksPut

LEMMA LookPutWell == ASSUME WellInv, LookPut PROVE WellInv'
<1>1. PICK l \in Lanes :
             /\ serving[l].stage = "look" /\ LooksPut(l, serving[l]) /\ UNCHANGED <<rows, stores, spaces, menu, served, deaths>>
  BY LookPutIs
<1> QED BY <1>1, LooksPutWell DEF rows

(* a request that goes on with its picture *)
LEMMA GoesOnWell ==
    ASSUME NEW c, NEW R, NEW S, R \subseteq S, NEW n \in Nat, Well(c, R, n),
           NEW st, NEW d, d = [c EXCEPT !.stage = st],
           \/ c.stage = "snapshot" /\ st = "bytes"
           \/ c.stage = "bytes" /\ st = "hash" /\ \A p \in c.pic : p \in R
           \/ c.stage = "bytes" /\ st = "row" /\ \A p \in c.pic : p \notin R
           \/ c.stage = "hash" /\ st = "enqueue"
           \/ c.stage = "row" /\ st = "apply" /\ \A p \in c.pic : p \in S
    PROVE  Well(d, S, n) /\ d.id = c.id
<1>1. /\ DOMAIN d = CallKeys /\ d.id = c.id /\ d.request = c.request /\ d.space = c.space /\ d.todo = c.todo /\ d.pic = c.pic
      /\ d.listing = c.listing /\ d.carried = c.carried /\ d.object = c.object /\ d.stage = st
  BY DEF Well, CallKeys
<1>2. IsPromotion(d) <=> IsPromotion(c) BY <1>1 DEF IsPromotion
<1>3. \A u \in Parts(c.todo) : Chore(d, u, S, n) BY <1>1 DEF Well, Chore, Inserting, From
<1>4. KnownSpace(c.space, S, n) /\ KnownSpace(c.listing, S, n) /\ \A e \in c.carried : KnownEntry(e, S, n)
  BY KnownWider DEF Well, KnownEntry
<1>5. /\ c.pic # {} /\ (\A p, r \in c.pic : p = r) /\ c.pic \subseteq R \cup {100 + c.id} /\ c.id \in 1..n
      /\ ~(c.request.method = "PUT" /\ c.object # {}) /\ ~(IsPromotion(c) /\ c.object = {})
      /\ IsSequence(c.todo) /\ c.object \subseteq 1..n
      /\ (c.request.method # "PUT" \/ c.request.to = << >>)
  BY DEF Well
<1>6. st = "row" => c.pic = {100 + c.id} BY <1>5
<1> QED BY <1>1, <1>2, <1>3, <1>4, <1>5, <1>6 DEF Well, Active

LEMMA SnapshotWell == ASSUME WellInv, Snapshot PROVE WellInv'
<1>1. PICK l \in Lanes : /\ serving[l].stage = "snapshot" /\ Becomes(l, [serving[l] EXCEPT !.stage = "bytes"])
                         /\ UNCHANGED <<photos, due, meta, stores, spaces, promises, menu, served, deaths>>
  BY DEF Snapshot
<1>2. serving[l] # Idle /\ served \in Nat BY <1>1, IdleIs DEF WellInv, RowsWell
<1>3. Well(serving[l], DOMAIN photos, served) BY <1>2, LaneWell DEF WellInv
<1> DEFINE d == [serving[l] EXCEPT !.stage = "bytes"]
<1>4. Well(d, DOMAIN photos, served) /\ d.id = serving[l].id BY <1>1, <1>2, <1>3, GoesOnWell
<1> HIDE DEF d
<1>5. Becomes(l, d) BY <1>1 DEF d
<1> QED BY <1>1, <1>2, <1>4, <1>5, PlainStepWell

(* copying the bytes of a request, or not *)
PutsBytes(l, c, p, d) ==
    \/ d = Idle /\ UNCHANGED bytes
    \/ /\ \E b : /\ bytes' = Entered(bytes, p, b) 
                 /\ IF IsPromotion(c) THEN \E o \in c.object : o \in DOMAIN scraps /\ b = scraps[o] ELSE b = c.content
       /\ d = [c EXCEPT !.stage = IF p \in DOMAIN photos THEN "hash" ELSE "row"]
       /\ UNCHANGED promises

(* the step of lane l that copies them *)
PutsNext(l, d) ==
    \E p \in serving[l].pic :
        /\ serving[l].stage = "bytes" /\ Becomes(l, d) /\ PutsBytes(l, serving[l], p, d) /\ UNCHANGED promises
        /\ UNCHANGED <<rows, scraps, spaces, menu, served, deaths>>

LEMMA PutBytesIs == ASSUME WellInv, PutBytes PROVE \E l \in Lanes : \E d : PutsNext(l, d)
<1>1. PICK l \in Lanes : PutBytes!(l)
  BY DEF PutBytes
<1> DEFINE c == serving[l]
           from == IF IsPromotion(c) THEN {scraps[o] : o \in c.object \cap DOMAIN scraps} ELSE {c.content}
<1>2. c # Idle /\ c.stage = "bytes" BY <1>1, IdleIs
<1>3. PICK p \in c.pic : TRUE BY <1>2, LaneWell DEF WellInv, Well
<1>4. IF from = {} THEN Closes(l) /\ UNCHANGED bytes
      ELSE /\ bytes' = Entered(bytes, p, CHOOSE b \in from : TRUE)
           /\ Becomes(l, [c EXCEPT !.stage = IF p \in DOMAIN photos THEN "hash" ELSE "row"])
           /\ UNCHANGED promises
  BY <1>1, <1>3
<1>5. from # {} => \E b \in from : b = CHOOSE x \in from : TRUE
  <2> HIDE DEF from
  <2> QED OBVIOUS
<1>6. CASE from = {} BY <1>1, <1>3, <1>4, <1>6 DEF Closes, PutsBytes, PutsNext
<1>7. CASE from # {}
  <2> DEFINE d == [c EXCEPT !.stage = IF p \in DOMAIN photos THEN "hash" ELSE "row"]
  <2>1. PICK b \in from : b = CHOOSE x \in from : TRUE BY <1>5, <1>7
  <2>2. bytes' = Entered(bytes, p, b) /\ Becomes(l, d) /\ UNCHANGED promises BY <1>4, <1>7, <2>1
  <2>3. IF IsPromotion(c) THEN \E o \in c.object : o \in DOMAIN scraps /\ b = scraps[o] ELSE b = c.content BY <2>1
  <2>4. PutsBytes(l, c, p, d) BY <2>2, <2>3 DEF PutsBytes
  <2> QED BY <1>1, <1>3, <2>2, <2>4 DEF PutsNext
<1> QED BY <1>6, <1>7

LEMMA PutBytesWell == ASSUME WellInv, PutBytes PROVE WellInv'
<1>0. PICK l \in Lanes : \E d : PutsNext(l, d) BY PutBytesIs
<1>00. PICK d : PutsNext(l, d) BY <1>0
<1>1. \E p \in serving[l].pic :
             /\ serving[l].stage = "bytes" /\ Becomes(l, d) /\ PutsBytes(l, serving[l], p, d) /\ UNCHANGED promises
             /\ UNCHANGED <<rows, scraps, spaces, menu, served, deaths>>
  BY <1>00 DEF PutsNext
<1>2. PICK p \in serving[l].pic : PutsBytes(l, serving[l], p, d) BY <1>1
<1>3. serving[l] # Idle /\ served \in Nat BY <1>1, IdleIs DEF WellInv, RowsWell
<1>4. Well(serving[l], DOMAIN photos, served) BY <1>3, LaneWell DEF WellInv
<1>5. serving[l].pic = {p} BY <1>4 DEF Well
<1>6. CASE p \in DOMAIN photos
  <2> DEFINE e == [serving[l] EXCEPT !.stage = "hash"]
  <2>1. d = Idle \/ d = e BY <1>2, <1>6 DEF PutsBytes
  <2>3. \A r \in serving[l].pic : r \in DOMAIN photos BY <1>5, <1>6
  <2>4. Well(e, DOMAIN photos, served) /\ e.id = serving[l].id BY <1>1, <1>3, <1>4, <2>3, GoesOnWell
  <2>2. d = Idle \/ (Well(d, DOMAIN photos, served) /\ d.id = serving[l].id) BY <2>1, <2>4
  <2> QED BY <1>1, <1>3, <2>2, PlainStepWell DEF rows
<1>7. CASE p \notin DOMAIN photos
  <2> DEFINE e == [serving[l] EXCEPT !.stage = "row"]
  <2>1. d = Idle \/ d = e BY <1>2, <1>7 DEF PutsBytes
  <2>3. \A r \in serving[l].pic : r \notin DOMAIN photos BY <1>5, <1>7
  <2>4. Well(e, DOMAIN photos, served) /\ e.id = serving[l].id BY <1>1, <1>3, <1>4, <2>3, GoesOnWell
  <2>2. d = Idle \/ (Well(d, DOMAIN photos, served) /\ d.id = serving[l].id) BY <2>1, <2>4
  <2> QED BY <1>1, <1>3, <2>2, PlainStepWell DEF rows
<1> QED BY <1>6, <1>7

LEMMA RowsEdited ==
    ASSUME RowsWell, UNCHANGED <<spaces, menu, served>>, DOMAIN photos' = DOMAIN photos,
           \A p \in DOMAIN photos : DOMAIN photos'[p] = RowKeys
    PROVE  RowsWell'
BY DEF RowsWell

LEMMA SetHashWell == ASSUME WellInv, SetHash PROVE WellInv'
<1>1. PICK l \in Lanes, p \in DOMAIN photos :
        /\ serving[l].stage = "hash" /\ serving[l].pic = {p} /\ photos' = [photos EXCEPT ![p].hash = serving[l].content]
        /\ Becomes(l, [serving[l] EXCEPT !.stage = "enqueue"])
        /\ UNCHANGED <<due, versions, meta, stores, spaces, promises, menu, served, deaths>>
  BY DEF SetHash
<1> DEFINE d == [serving[l] EXCEPT !.stage = "enqueue"]
<1>2. serving[l] # Idle /\ served \in Nat BY <1>1, IdleIs DEF WellInv, RowsWell
<1>3. Well(serving[l], DOMAIN photos, served) BY <1>2, LaneWell DEF WellInv
<1>4. Well(d, DOMAIN photos, served) /\ d.id = serving[l].id BY <1>1, <1>2, <1>3, GoesOnWell
<1>5. Turns(l, d) BY <1>1, BecomesTurns DEF WellInv, CallsWell
<1>6. DOMAIN photos' = DOMAIN photos BY <1>1
<1>7. RowsWell' BY <1>1, RowsEdited DEF WellInv, RowsWell, RowKeys
<1>8. PromisesWell' BY <1>1, <1>6, PromisesStay DEF WellInv
<1> HIDE DEF d
<1> QED BY <1>1, <1>2, <1>4, <1>5, <1>6, <1>7, <1>8, StepWell

(* a request whose rows and objects are written *)
LEMMA DoneWell ==
    ASSUME WellInv, NEW l \in Lanes, serving[l].stage \in {"enqueue", "apply", "trash"}, Concludes(l, serving[l]),
           DOMAIN photos' = DOMAIN photos, served' = served, RowsWell', PromisesWell'
    PROVE  WellInv'
<1>1. PICK d : /\ Becomes(l, d)
               /\ \/ d = Idle
                  \/ serving[l].todo # << >> /\ d = [serving[l] EXCEPT !.stage = "read"]
                  \/ /\ serving[l].todo = << >> /\ serving[l].request.method = "MOVE" /\ IsPromotion(serving[l])
                     /\ d = [serving[l] EXCEPT !.stage = "unlist"]
  BY ConcludesIs DEF WellInv, CallsWell
<1>2. serving[l] # Idle /\ served \in Nat BY IdleIs DEF WellInv, RowsWell
<1>3. Well(serving[l], DOMAIN photos, served) BY <1>2, LaneWell DEF WellInv
<1>4. d = Idle \/ (Well(d, DOMAIN photos, served) /\ d.id = serving[l].id) BY <1>1, <1>2, <1>3, WellLater
<1>5. Turns(l, d) BY <1>1, BecomesTurns DEF WellInv, CallsWell
<1> QED BY <1>2, <1>4, <1>5, StepWell

LEMMA EnqueueWell == ASSUME WellInv, Enqueue PROVE WellInv'
<1>1. PICK l \in Lanes, p \in DOMAIN photos :
        /\ serving[l].stage = "enqueue" /\ serving[l].pic = {p}
        /\ promises' = promises \cup Told(l, "kept", p, serving[l].content, {Front(Destination(serving[l]))}, TRUE)
        /\ Concludes(l, serving[l]) /\ UNCHANGED <<photos, versions, meta, stores, spaces, menu, served, deaths>>
  BY DEF Enqueue
<1>2. PromisesWell' BY <1>1, ToldWell DEF WellInv
<1>3. RowsWell' BY <1>1, RowsStay DEF WellInv
<1> QED BY <1>1, <1>2, <1>3, DoneWell

LEMMA TrashWell == ASSUME WellInv, Trash PROVE WellInv'
<1>1. PICK l \in Lanes, p \in DOMAIN photos :
        /\ serving[l].stage = "trash" /\ serving[l].pic = {p} /\ photos' = [photos EXCEPT ![p].trashed = TRUE]
        /\ promises' = promises \cup Told(l, "gone", p, photos[p].hash, serving[l].change.place, FALSE)
        /\ Concludes(l, serving[l]) /\ UNCHANGED <<due, versions, meta, stores, spaces, menu, served, deaths>>
  BY DEF Trash
<1>2. DOMAIN photos' = DOMAIN photos BY <1>1
<1>3. PromisesWell' BY <1>1, <1>2, ToldWell DEF WellInv
<1>4. RowsWell' BY <1>1, RowsEdited DEF WellInv, RowsWell, RowKeys
<1> QED BY <1>1, <1>2, <1>3, <1>4, DoneWell

LEMMA InsertRowIs ==
    ASSUME WellInv, InsertRow
    PROVE  \E l \in Lanes : \E row :
             LET c == serving[l]
                 p == 100 + c.id
             IN  /\ c.stage = "row" /\ c.pic = {p} /\ DOMAIN row = RowKeys /\ row.hash = c.content
                 /\ photos' = Entered(photos, p, row) /\ due' = due \cup {<<p, c.content>>}
                 /\ Becomes(l, [c EXCEPT !.stage = "apply"])
                 /\ UNCHANGED <<versions, meta, stores, spaces, promises, menu, served, deaths>>
<1>1. PICK l \in Lanes : InsertRow!(l)
  BY DEF InsertRow
<1>2. serving[l] # Idle /\ serving[l].stage = "row" BY <1>1, IdleIs
<1>3. serving[l].pic = {100 + serving[l].id} BY <1>2, LaneWell DEF WellInv, Well
<1>4. 100 + serving[l].id \in serving[l].pic BY <1>3
<1> DEFINE row == [hash |-> serving[l].content, tags |-> {}, asserted |-> {}, trashed |-> FALSE,
                                           name |-> Last(Destination(serving[l]))]
<1>5. photos' = Entered(photos, 100 + serving[l].id, row) /\ due' = due \cup {<<100 + serving[l].id, serving[l].content>>}
  BY <1>1, <1>4
<1>6. DOMAIN row = RowKeys /\ row.hash = serving[l].content BY DEF RowKeys
<1> HIDE DEF row
<1> QED BY <1>1, <1>3, <1>5, <1>6

LEMMA InsertRowWell == ASSUME WellInv, InsertRow PROVE WellInv'
<1>1. PICK l \in Lanes : \E row :
             LET c == serving[l]
                 p == 100 + c.id
             IN  /\ c.stage = "row" /\ c.pic = {p} /\ DOMAIN row = RowKeys /\ row.hash = c.content
                 /\ photos' = Entered(photos, p, row) /\ due' = due \cup {<<p, c.content>>}
                 /\ Becomes(l, [c EXCEPT !.stage = "apply"])
                 /\ UNCHANGED <<versions, meta, stores, spaces, promises, menu, served, deaths>>
  BY InsertRowIs
<1> DEFINE c == serving[l]
           p == 100 + c.id
           d == [c EXCEPT !.stage = "apply"]
<1>2. PICK row : DOMAIN row = RowKeys /\ photos' = Entered(photos, p, row) BY <1>1
<1>3. DOMAIN photos' = DOMAIN photos \cup {p} /\ photos'[p] = row /\ \A r \in DOMAIN photos \ {p} : photos'[r] = photos[r]
  <2>1. photos' = Entered(photos, p, row) BY <1>2
  <2> HIDE DEF p
  <2>2. DOMAIN photos' = DOMAIN photos \cup {p} BY <2>1, PutIs
  <2>3. photos'[p] = row BY <2>1, PutIs
  <2>4. \A r \in DOMAIN photos \ {p} : photos'[r] = photos[r] BY <2>1, PutIs
  <2> QED BY <2>2, <2>3, <2>4
<1>4. c # Idle /\ served \in Nat BY <1>1, IdleIs DEF WellInv, RowsWell
<1>5. Well(c, DOMAIN photos, served) BY <1>4, LaneWell DEF WellInv
<1>6. c.id \in 1..served BY <1>5 DEF Well
<1>7. RowsWell'
  <2>1. DOMAIN photos' \subseteq DOMAIN Library \cup {100 + i : i \in 1..served} BY <1>3, <1>6 DEF WellInv, RowsWell
  <2>2. \A r \in DOMAIN photos' : DOMAIN photos'[r] = RowKeys BY <1>2, <1>3 DEF WellInv, RowsWell
  <2>3. \A k \in DOMAIN spaces : KnownSpace(spaces[k], DOMAIN photos', served) BY <1>3, KnownWider DEF WellInv, RowsWell
  <2>4. UNCHANGED <<spaces, menu, served>> /\ served \in Nat /\ menu \in Menus BY <1>1 DEF WellInv, RowsWell
  <2> QED BY <2>1, <2>2, <2>3, <2>4 DEF RowsWell
<1>8. DOMAIN photos \subseteq DOMAIN photos' /\ \A r \in c.pic : r \in DOMAIN photos' BY <1>1, <1>3
<1>9. Well(d, DOMAIN photos', served) /\ d.id = c.id BY <1>1, <1>4, <1>5, <1>8, GoesOnWell
<1>10. Turns(l, d) BY <1>1, BecomesTurns DEF WellInv, CallsWell
<1>11. PromisesWell' BY <1>1, <1>8, PromisesStay DEF WellInv
<1> HIDE DEF d
<1> QED BY <1>1, <1>4, <1>7, <1>8, <1>9, <1>10, <1>11, StepWell

LEMMA ApplyIs ==
    ASSUME WellInv, Apply
    PROVE  \E l \in Lanes, p \in DOMAIN photos :
             /\ serving[l].stage = "apply" /\ serving[l].pic = {p}
             /\ \/ Closes(l) /\ UNCHANGED photos
                \/ /\ DOMAIN photos' = DOMAIN photos /\ \A r \in DOMAIN photos : DOMAIN photos'[r] = RowKeys /\ photos'[r].hash = photos[r].hash
                   /\ \E kind \in {"kept", "gone"} : \E place : promises' = promises \cup
                            Told(l, kind, p, photos[p].hash, place, serving[l].request.method = "PUT" /\ p = 100 + serving[l].id)
                   /\ Concludes(l, serving[l])
             /\ UNCHANGED <<due, versions, meta, stores, spaces, menu, served, deaths>>
<1>1. PICK l \in Lanes, p \in DOMAIN photos : Apply!(l, p)
  BY DEF Apply
<1> DEFINE c == serving[l]
           change == [leave |-> FoldCase(c.root, c.change.leave), enter |-> FoldCase(c.root, c.change.enter)]
           kind == IF c.request.method = "DELETE" THEN "gone" ELSE "kept"
           isDue == c.request.method = "PUT" /\ p = 100 + c.id
           put == /\ photos' = [photos EXCEPT ![p].trashed = @ /\ ~c.change.restores, ![p].tags = AfterTransition(@, change)]
                  /\ promises' = promises \cup Told(l, kind, p, photos[p].hash, c.change.place, isDue)
                  /\ Concludes(l, c)
<1>2. /\ c.stage = "apply" /\ c.pic = {p} /\ UNCHANGED <<due, versions, meta, stores, spaces, menu, served, deaths>>
      /\ (Closes(l) /\ UNCHANGED photos) \/ put
  BY <1>1
<1> HIDE DEF change, isDue
<1>3. kind \in {"kept", "gone"} OBVIOUS
<1> HIDE DEF kind
<1>4. ASSUME put
      PROVE  DOMAIN photos' = DOMAIN photos /\ \A r \in DOMAIN photos : DOMAIN photos'[r] = RowKeys /\ photos'[r].hash = photos[r].hash
  BY <1>4 DEF WellInv, RowsWell, RowKeys
<1>5. put => \E k \in {"kept", "gone"} : \E place : promises' = promises \cup Told(l, k, p, photos[p].hash, place, isDue)
  BY <1>3
<1>6. put => Concludes(l, c) OBVIOUS
<1> HIDE DEF put
<1> QED BY <1>2, <1>4, <1>5, <1>6 DEF isDue

LEMMA ApplyWell == ASSUME WellInv, Apply PROVE WellInv'
<1>1. PICK l \in Lanes, p \in DOMAIN photos :
             /\ serving[l].stage = "apply" /\ serving[l].pic = {p}
             /\ \/ Closes(l) /\ UNCHANGED photos
                \/ /\ DOMAIN photos' = DOMAIN photos /\ \A r \in DOMAIN photos : DOMAIN photos'[r] = RowKeys /\ photos'[r].hash = photos[r].hash
                   /\ \E kind \in {"kept", "gone"} : \E place : promises' = promises \cup
                            Told(l, kind, p, photos[p].hash, place, serving[l].request.method = "PUT" /\ p = 100 + serving[l].id)
                   /\ Concludes(l, serving[l])
             /\ UNCHANGED <<due, versions, meta, stores, spaces, menu, served, deaths>>
  BY ApplyIs
<1>2. CASE Closes(l) /\ UNCHANGED photos BY <1>1, <1>2, IdleIs, ClosesWell
<1>3. CASE ~(Closes(l) /\ UNCHANGED photos)
  <2>0. PICK kind \in {"kept", "gone"} : \E place : promises' = promises \cup
              Told(l, kind, p, photos[p].hash, place, serving[l].request.method = "PUT" /\ p = 100 + serving[l].id)
    BY <1>1, <1>3
  <2>1. PICK place : promises' = promises \cup
          Told(l, kind, p, photos[p].hash, place, serving[l].request.method = "PUT" /\ p = 100 + serving[l].id)
    BY <2>0
  <2>2. DOMAIN photos' = DOMAIN photos BY <1>1, <1>3
  <2>3. PromisesWell' BY <2>1, <2>2, ToldWell DEF WellInv
  <2>4. RowsWell' BY <1>1, <1>3, RowsEdited DEF WellInv
  <2> QED BY <1>1, <1>3, <2>2, <2>3, <2>4, DoneWell
<1> QED BY <1>2, <1>3

(* requests that change no picture's bytes and end at once *)
LEMMA ClosingWell ==
    ASSUME WellInv, DeleteDir \/ Mkcol \/ MoveEmptyDir \/ RequestDies
    PROVE  WellInv' /\ \E l \in Lanes : serving[l] # Idle /\ Closes(l) /\ UNCHANGED <<photos, due, versions, stores, spaces, menu>>
<1>1. \E l \in Lanes : serving[l] # Idle /\ Closes(l) /\ UNCHANGED <<photos, due, versions, stores, spaces, menu, served>>
  <2>1. CASE DeleteDir BY <2>1, IdleIs DEF DeleteDir
  <2>2. CASE Mkcol BY <2>2, IdleIs DEF Mkcol
  <2>3. CASE MoveEmptyDir
    <3>1. PICK l \in Lanes : MoveEmptyDir!(l) BY <2>3 DEF MoveEmptyDir
    <3>2. serving[l].stage = "look" /\ Closes(l) /\ UNCHANGED <<photos, due, versions, stores, spaces, menu, served>> BY <3>1
    <3> QED BY <3>2, IdleIs
  <2>4. CASE RequestDies BY <2>4 DEF RequestDies, rows
  <2> QED BY <2>1, <2>2, <2>3, <2>4
<1> QED BY <1>1, ClosesWell

LEMMA SpaceExpiresWell == ASSUME WellInv, SpaceExpires PROVE WellInv'
<1>1. PICK key \in DOMAIN spaces : spaces' = Drop(spaces, key) /\ promises' = promises \ StagedAt(key) /\ UNCHANGED <<rows, serving, menu, served>>
  BY DEF SpaceExpires
<1>2. UNCHANGED <<photos, serving, menu, served>> BY <1>1 DEF rows
<1>3. RowsWell' BY <1>1, <1>2, RowsDropped DEF WellInv
<1>4. PromisesWell' BY <1>1, <1>2, PromisesStay DEF WellInv
<1> QED BY <1>2, <1>3, <1>4 DEF WellInv, CallsWell, IdsDiffer, Active

(* a request for a picture at a path: it is found, and addressed, or that is all *)
Finds(l, c) ==
    \/ /\ Closes(l) /\ DOMAIN photos' = DOMAIN photos
       /\ \A r \in DOMAIN photos : DOMAIN photos'[r] = RowKeys /\ photos'[r].hash = photos[r].hash
    \/ /\ UNCHANGED photos
       /\ \E p \in DOMAIN photos, st \in {"trash", "apply"} : \E t, change :
            /\ InboxTodo(t, {p}) /\ promises' = Addressed(p, FALSE)
            /\ Takes(l, [c EXCEPT !.stage = st, !.todo = t, !.change = change], p)

LEMMA DeleteFileIs ==
    ASSUME WellInv, DeleteFile
    PROVE  \E l \in Lanes : serving[l].stage = "look" /\ Finds(l, serving[l]) /\ UNCHANGED <<rows, stores, spaces, menu, served, deaths>>
<1>1. PICK l \in Lanes : DeleteFile!(l)
  BY DEF DeleteFile
<1> DEFINE c == serving[l]
           path == c.request.from
           Forgets(d) == ForgetDrop({d}, Last(path))
<1>2. c.stage = "look" /\ UNCHANGED <<rows, stores, spaces, menu, served, deaths>> BY <1>1
<1>3. UNCHANGED photos /\ \A r \in DOMAIN photos : DOMAIN photos[r] = RowKeys BY <1>2 DEF rows, WellInv, RowsWell
<1>4. CASE Closes(l) BY <1>2, <1>3, <1>4 DEF Finds
<1>5. CASE ~Closes(l)
  <2>1. PICK p \in Entry(c.root, path), d \in DirAt(c.root, Front(path)) :
            CASE ~d.writable \/ d.safeDelete = "fullDelete" ->
                            /\ promises' = Addressed(p, FALSE)
                            /\ Takes(l, [c EXCEPT !.stage = "trash", !.todo = Forgets(d),
                                            !.change = [place |-> IF d.isDrop THEN {} ELSE {Front(path)}]], p)
                      [] d.writable /\ d.safeDelete # "fullDelete" /\ d.writeBack = {} -> Closes(l)
                      [] OTHER ->
                            /\ promises' = Addressed(p, FALSE)
                            /\ Takes(l, [c EXCEPT !.stage = "apply", !.todo = Forgets(d), !.change =
                                    [leave |-> (CHOOSE wb \in d.writeBack : TRUE).onRemove, enter |-> << >>,
                                     restores |-> FALSE, place |-> IF d.isDrop THEN {} ELSE {Front(path)}]], p)
    BY <1>1, <1>5
  <2> DEFINE trashed == [place |-> IF d.isDrop THEN {} ELSE {Front(path)}]
             untagged == [leave |-> (CHOOSE wb \in d.writeBack : TRUE).onRemove, enter |-> << >>,
                          restores |-> FALSE, place |-> IF d.isDrop THEN {} ELSE {Front(path)}]
  <2>2. p \in DOMAIN photos BY EntryKnown DEF WellInv
  <2>3. InboxTodo(Forgets(d), {p}) BY NotesAre
  <2>4. \/ promises' = Addressed(p, FALSE) /\ Takes(l, [c EXCEPT !.stage = "trash", !.todo = Forgets(d), !.change = trashed], p)
        \/ promises' = Addressed(p, FALSE) /\ Takes(l, [c EXCEPT !.stage = "apply", !.todo = Forgets(d), !.change = untagged], p)
    BY <1>5, <2>1
  <2> HIDE DEF Forgets, trashed, untagged
  <2>5. Finds(l, c) BY <1>3, <2>2, <2>3, <2>4 DEF Finds
  <2> QED BY <1>2, <2>5
<1> QED BY <1>4, <1>5

LEMMA MoveFileIs ==
    ASSUME WellInv, MoveFile
    PROVE  \E l \in Lanes : /\ serving[l].stage = "look" /\ Finds(l, serving[l])
                            /\ UNCHANGED <<due, versions, stores, spaces, menu, served, deaths>>
<1>1. PICK l \in Lanes : MoveFile!(l)
  BY DEF MoveFile
<1> DEFINE c == serving[l]
            from == Front(c.request.from)
            to == Front(c.request.to)
            root == c.root
            moves == c.request.method = "MOVE"
            target == Targets(root, to)
            chains == UNION {WritableChain(root, to, t) : t \in target}
            forgets == IF moves THEN ForgetDrop(DirAt(root, from), Last(c.request.from)) ELSE << >>
            Notes(p) == NoteDrop(UNION {t.dir : t \in target}, Last(c.request.to), p)
            found == Entry(root, c.request.from)
            Change(into) == 
                LET change == Transition(ChainTo(root, from), into)
                    shown == \A d \in UNION {t.dir : t \in target} : ~d.isDrop
                IN  [leave |-> IF moves THEN change.leave ELSE << >>, enter |-> change.enter, restores |-> FALSE,
                     place |-> IF shown /\ ~Undoes(ChainTo(root, from), into) THEN {to} ELSE {}]
            renamed == [p \in DOMAIN photos |->
                          IF p \in found THEN [photos[p] EXCEPT !.name = Last(c.request.to)] ELSE photos[p]]
<1>2. c.stage = "look" /\ UNCHANGED <<due, versions, stores, spaces, menu, served, deaths>> BY <1>1
<1>3. \A r \in DOMAIN photos : DOMAIN photos[r] = RowKeys BY DEF WellInv, RowsWell
<1>4. found \subseteq DOMAIN photos BY EntryKnown DEF WellInv
<1>5. \A p : InboxTodo(forgets \o Notes(p), {p})
  <2>1. \A p : InboxTodo(forgets, {p}) /\ InboxTodo(Notes(p), {p}) BY NotesAre
  <2> HIDE DEF forgets, Notes
  <2> QED BY <2>1, JoinedTodo
<1>6. \/ Closes(l) /\ UNCHANGED photos
      \/ Closes(l) /\ photos' = renamed
      \/ /\ UNCHANGED photos
         /\ \E p \in found, into \in chains :
              /\ promises' = Addressed(p, FALSE)
              /\ Takes(l, [c EXCEPT !.stage = "apply", !.todo = forgets \o Notes(p), !.change = Change(into)], p)
  <2>1. CASE found = {} BY <1>1, <2>1
  <2>2. CASE found # {} /\ moves /\ from = to BY <1>1, <2>2
  <2>3. CASE found # {} /\ ~(moves /\ from = to) BY <1>1, <2>3
  <2> QED BY <2>1, <2>2, <2>3
<1>7. CASE Closes(l) /\ UNCHANGED photos BY <1>2, <1>3, <1>7 DEF Finds
<1>8. CASE Closes(l) /\ photos' = renamed
  <2> HIDE DEF found
  <2>1. DOMAIN photos' = DOMAIN photos /\ \A r \in DOMAIN photos : DOMAIN photos'[r] = RowKeys /\ photos'[r].hash = photos[r].hash
    BY <1>3, <1>8 DEF RowKeys
  <2> QED BY <1>2, <1>8, <2>1 DEF Finds
<1>9. ASSUME UNCHANGED photos, NEW p \in found, NEW into, promises' = Addressed(p, FALSE),
             Takes(l, [c EXCEPT !.stage = "apply", !.todo = forgets \o Notes(p), !.change = Change(into)], p)
      PROVE  Finds(l, c)
  <2>1. InboxTodo(forgets \o Notes(p), {p}) BY <1>5
  <2>2. p \in DOMAIN photos BY <1>4
  <2> DEFINE t == forgets \o Notes(p)
             change == Change(into)
  <2>3. InboxTodo(t, {p}) /\ Takes(l, [c EXCEPT !.stage = "apply", !.todo = t, !.change = change], p) BY <1>9, <2>1
  <2> HIDE DEF t, change
  <2> QED BY <1>9, <2>2, <2>3 DEF Finds
<1> HIDE DEF found, chains, Change, Notes, forgets, renamed
<1> QED BY <1>2, <1>6, <1>7, <1>8, <1>9

LEMMA FindsWell ==
    ASSUME WellInv, NEW l \in Lanes, serving[l].stage = "look", Finds(l, serving[l]), UNCHANGED <<spaces, menu, served>>
    PROVE  WellInv'
<1> DEFINE c == serving[l]
<1>1. c # Idle BY IdleIs
<1>2. DOMAIN c = CallKeys BY <1>1, LaneWell DEF WellInv
<1>3. ASSUME Closes(l), DOMAIN photos' = DOMAIN photos, \A r \in DOMAIN photos : DOMAIN photos'[r] = RowKeys PROVE WellInv'
  <2>1. RowsWell' BY <1>3, RowsEdited DEF WellInv
  <2>2. PromisesWell' BY <1>3, PromisesStay DEF WellInv, Closes
  <2>3. Turns(l, Idle) BY <1>3, BecomesTurns DEF WellInv, CallsWell, Closes
  <2> QED BY <1>1, <1>3, <2>1, <2>2, <2>3, StepWell
<1>4. ASSUME UNCHANGED photos, NEW p \in DOMAIN photos, NEW st \in {"trash", "apply"}, NEW t, NEW change,
             InboxTodo(t, {p}), promises' = Addressed(p, FALSE),
             Takes(l, [c EXCEPT !.stage = st, !.todo = t, !.change = change], p)
      PROVE  WellInv'
  <2> DEFINE d == [c EXCEPT !.stage = st, !.todo = t, !.change = change]
  <2>1. /\ DOMAIN d = CallKeys /\ d.id = c.id /\ d.request = c.request /\ d.space = c.space /\ d.todo = t
        /\ d.listing = c.listing /\ d.carried = c.carried /\ d.object = c.object /\ d.stage = st
    BY <1>2 DEF CallKeys
  <2>2. PromisesWell' BY <1>4, AddressedWell DEF WellInv
  <2>3. Takes(l, d, p) BY <1>4
  <2> HIDE DEF d
  <2> QED BY <1>4, <2>1, <2>2, <2>3, TakesStepWell
<1> QED BY <1>3, <1>4 DEF Finds

LEMMA FileWell == ASSUME WellInv, DeleteFile \/ MoveFile PROVE WellInv'
<1>1. PICK l \in Lanes : serving[l].stage = "look" /\ Finds(l, serving[l]) /\ UNCHANGED <<spaces, menu, served>>
  BY DeleteFileIs, MoveFileIs
<1> QED BY <1>1, FindsWell

LEMMA WellInitially == ASSUME VfsAssumption, VfsInit PROVE WellInv
<1>1. PICK m \in Menus : VfsStart(m) BY DEF VfsInit
<1>2. RowsWell BY <1>1 DEF VfsAssumption, VfsStart, RowsWell, RowKeys
<1>3. \A l \in Lanes : serving[l] = Idle BY <1>1 DEF VfsStart
<1>4. CallsWell /\ IdsDiffer BY <1>1, <1>3, IdleIs DEF VfsStart, CallsWell, IdsDiffer
<1>5. PromisesWell BY <1>1 DEF VfsStart, PromisesWell
<1> QED BY <1>2, <1>4, <1>5 DEF WellInv

LEMMA StaysWell == ASSUME VfsAssumption, WellInv, [VfsNext]_vfsVars PROVE WellInv'
<1>1. CASE VfsNext
  BY <1>1, StartWell, UploadWell, ReadSpaceWell, SaveSpaceWell, SweepWell, UnlistWell, UnstageWell, BackupWell, LookPutWell,
     SnapshotWell, PutBytesWell, SetHashWell, EnqueueWell, InsertRowWell, ApplyWell, TrashWell, ClosingWell, FileWell,
     SpaceExpiresWell DEF VfsNext
<1>2. CASE UNCHANGED vfsVars
  <2>1. UNCHANGED <<photos, spaces, menu, served, promises, serving>> BY <1>2 DEF vfsVars, rows
  <2> QED BY <2>1, RowsStay, PromisesStay DEF WellInv, CallsWell, IdsDiffer, Active
<1> QED BY <1>1, <1>2

----------------------------------------------------------------------------
(* Every step keeps what was promised of pictures. *)

LEMMA OthersStay ==
    ASSUME CallsWell, NEW l \in Lanes, NEW d, Turns(l, d), NEW m \in Lanes \ {l}
    PROVE  /\ Active(serving'[m]) <=> Active(serving[m])
           /\ serving'[m].stage = serving[m].stage /\ serving'[m].pic = serving[m].pic
           /\ Active(serving[m]) => /\ serving'[m].id = serving[m].id /\ serving'[m].content = serving[m].content
                                    /\ serving[m].contested => serving'[m].contested
<1>1. CASE serving'[m] = serving[m] BY <1>1
<1>2. CASE Active(serving[m]) /\ serving'[m] = [serving[m] EXCEPT !.contested = TRUE]
  <2>1. DOMAIN serving[m] = CallKeys BY <1>2, IdleIs, LaneWell
  <2> QED BY <1>2, <2>1 DEF CallKeys, Active
<1> QED BY <1>1, <1>2 DEF Turns

(* an old promise of a picture *)
Older(q) == \E r \in promises : r.kind = q.kind /\ r.pic = q.pic /\ r.content = q.content /\ (q.kind = "kept" /\ q.due => r.due)

LEMMA PicturesStep ==
    ASSUME WellInv, PicturesInv, NEW l \in Lanes, NEW d, Turns(l, d), menu' = menu,
           DOMAIN photos \subseteq DOMAIN photos', DOMAIN photos' \subseteq DOMAIN bytes', DOMAIN bytes \subseteq DOMAIN bytes',
           \A p \in DOMAIN photos' \ DOMAIN photos : Active(serving[l]) /\ p = 100 + serving[l].id,
           due \subseteq due', versions \subseteq versions',
           \A p \in DOMAIN photos : (serving[l].pic = {p} /\ serving[l].stage \in {"hash", "row"}) \/ photos'[p].hash = photos[p].hash,
           \A p \in DOMAIN photos : (serving[l].pic = {p} /\ serving[l].stage = "bytes") \/ bytes'[p] = bytes[p],
           \A m \in Lanes \ {l} : d.pic # {} /\ serving[m].pic = d.pic => d.contested /\ serving'[m].contested,
           Fresh(d)', Hashed(d)', Due(d)', Written(d)',
           \A q \in promises' : q.kind = "kept" =>
               \/ KeptWell(q)'
               \/ /\ Older(q)
                  /\ d.pic = {q.pic} /\ d.stage \in Writing => serving[l].pic = {q.pic} /\ serving[l].stage \in Writing,
           \A q \in promises' : q.kind = "archived" => ArchivedWell(q)' \/ (Older(q) /\ (d.stage = "bytes" => d.pic # {q.pic}))
    PROVE  PicturesInv'
<1>1. /\ Lasting
      /\ \A m \in Lanes : Fresh(serving[m]) /\ Alone(m) /\ Hashed(serving[m]) /\ Due(serving[m]) /\ Written(serving[m])
      /\ \A q \in promises : q.kind = "kept" => KeptWell(q)
      /\ \A q \in promises : q.kind = "archived" => ArchivedWell(q)
  BY DEF PicturesInv
<1>2. CallsWell /\ IdsDiffer /\ serving'[l] = d BY DEF WellInv, Turns
<1>3. Lasting' BY DEF Lasting
<1>4. ASSUME NEW m \in Lanes \ {l} PROVE Fresh(serving[m])'
  <2>1. CASE ~Active(serving[m]) BY <1>2, <2>1, OthersStay DEF Fresh
  <2>2. CASE Active(serving[m])
    <3>1. serving'[m].id = serving[m].id /\ serving'[m].pic = serving[m].pic BY <1>2, <2>2, OthersStay
    <3>2. Active(serving[l]) => serving[l].id # serving[m].id BY <1>2, <2>2 DEF IdsDiffer
    <3>3. serving[m].id \in Nat /\ (Active(serving[l]) => serving[l].id \in Nat)
      BY <1>2, <2>2, LaneWell, IdleIs DEF Well, WellInv, RowsWell
    <3>4. 100 + serving[m].id \in DOMAIN photos' => 100 + serving[m].id \in DOMAIN photos BY <3>2, <3>3
    <3> QED BY <1>1, <2>2, <3>1, <3>4 DEF Fresh
  <2> QED BY <2>1, <2>2
<1>5. \A m \in Lanes : Alone(m)'
  <2> SUFFICES ASSUME NEW m \in Lanes, NEW k \in Lanes \ {m}, serving'[m].pic # {}, serving'[k].pic = serving'[m].pic
               PROVE  serving'[m].contested
    BY DEF Alone
  <2>1. CASE m = l BY <1>2, <2>1, OthersStay
  <2>2. CASE k = l BY <1>2, <2>2, OthersStay
  <2>3. CASE m # l /\ k # l
    <3>1. serving[m].pic # {} /\ serving[k].pic = serving[m].pic BY <1>2, <2>3, OthersStay
    <3>2. serving[m].contested BY <1>1, <3>1 DEF Alone
    <3>3. Active(serving[m])
      BY <1>2, <3>1, IdleIs, LaneWell
    <3> QED BY <1>2, <2>3, <3>2, <3>3, OthersStay
  <2> QED BY <2>1, <2>2, <2>3
<1>6. ASSUME NEW m \in Lanes \ {l}, NEW p \in serving'[m].pic, ~serving'[m].contested, serving'[m].stage \in {"enqueue", "apply"}
      PROVE  /\ serving[m].pic = {p} /\ p \in DOMAIN photos /\ Active(serving[m]) /\ ~serving[m].contested
             /\ photos'[p].hash = photos[p].hash
  <2>1. Active(serving[m]) /\ serving[m].pic = serving'[m].pic /\ serving[m].stage = serving'[m].stage
    BY <1>2, <1>6, OthersStay DEF Active
  <2>2. Well(serving[m], DOMAIN photos, served) BY <1>2, <2>1, IdleIs, LaneWell
  <2>3. serving[m].pic = {p} BY <1>6, <2>1, <2>2 DEF Well
  <2>4. ~serving[m].contested BY <1>2, <1>6, <2>1, OthersStay
  <2>5. serving[l].pic # {p} BY <1>1, <2>3, <2>4 DEF Alone
  <2> QED
    <3>1. p \in DOMAIN photos => photos'[p].hash = photos[p].hash BY <2>5
    <3>2. p \in DOMAIN photos
      BY <1>6, <2>1, <2>2, <2>3 DEF Well
    <3> QED BY <2>1, <2>3, <2>4, <3>1, <3>2
<1>7. ASSUME NEW m \in Lanes \ {l} PROVE Hashed(serving[m])' /\ Due(serving[m])' /\ Written(serving[m])'
  <2>1. CASE ~Active(serving[m]) BY <1>2, <2>1, OthersStay, IdleIs DEF Hashed, Due, Written, Active
  <2>2. CASE Active(serving[m])
    <3>1. /\ serving'[m].id = serving[m].id /\ serving'[m].pic = serving[m].pic /\ serving'[m].stage = serving[m].stage
          /\ serving'[m].content = serving[m].content
      BY <1>2, <2>2, OthersStay
    <3>2. Hashed(serving[m]) /\ Due(serving[m]) /\ Written(serving[m]) BY <1>1
    <3>3. Hashed(serving[m])' BY <1>6, <3>1, <3>2 DEF Hashed
    <3>4. Due(serving[m])' BY <1>6, <3>1, <3>2 DEF Due
    <3>5. Written(serving[m])' BY <3>1, <3>2 DEF Written
    <3> QED BY <3>3, <3>4, <3>5
  <2> QED BY <2>1, <2>2
<1>8. ASSUME NEW q \in promises', q.kind = "kept" PROVE KeptWell(q)'
  <2>1. CASE KeptWell(q)' BY <2>1
  <2>2. CASE Older(q) /\ (d.pic = {q.pic} /\ d.stage \in Writing => serving[l].pic = {q.pic} /\ serving[l].stage \in Writing)
    <3>1. PICK r \in promises : r.kind = "kept" /\ r.pic = q.pic /\ r.content = q.content /\ (q.due => r.due) BY <1>8, <2>2 DEF Older
    <3>2. KeptWell(r) BY <1>1, <3>1
    <3>3. \A m \in Lanes : serving[m].pic = {q.pic} => serving[m].stage \notin Writing BY <3>1, <3>2 DEF KeptWell
    <3>4. q.pic \in DOMAIN photos BY <3>1 DEF WellInv, PromisesWell
    <3>5. bytes'[q.pic] = bytes[q.pic] /\ photos'[q.pic].hash = photos[q.pic].hash BY <3>3, <3>4 DEF Writing
    <3>6. \A m \in Lanes : serving'[m].pic = {q.pic} => serving'[m].stage \notin Writing BY <1>2, <2>2, <3>3, OthersStay
    <3>7. bytes[q.pic] = q.content /\ photos[q.pic].hash = q.content /\ (q.due => <<q.pic, q.content>> \in due)
      BY <3>1, <3>2 DEF KeptWell
    <3> QED BY <3>5, <3>6, <3>7 DEF KeptWell
  <2> QED BY <1>8, <2>1, <2>2
<1>9. ASSUME NEW q \in promises', q.kind = "archived" PROVE ArchivedWell(q)'
  <2>1. CASE ArchivedWell(q)' BY <2>1
  <2>2. CASE Older(q) /\ (d.stage = "bytes" => d.pic # {q.pic})
    <3>1. PICK r \in promises : r.kind = "archived" /\ r.pic = q.pic /\ r.content = q.content BY <1>9, <2>2 DEF Older
    <3>2. ArchivedWell(r) /\ q.pic \in DOMAIN photos BY <1>1, <3>1 DEF WellInv, PromisesWell
    <3>3. CASE <<q.pic, q.content>> \in versions BY <3>1, <3>2, <3>3 DEF ArchivedWell
    <3>4. CASE <<q.pic, q.content>> \notin versions
      <4>1. bytes[q.pic] = q.content /\ \A m \in Lanes : serving[m].pic = {q.pic} => serving[m].stage # "bytes"
        BY <3>1, <3>2, <3>4 DEF ArchivedWell
      <4>2. bytes'[q.pic] = q.content BY <3>2, <4>1
      <4>3. \A m \in Lanes : serving'[m].pic = {q.pic} => serving'[m].stage # "bytes" BY <1>2, <2>2, <4>1, OthersStay
      <4> QED BY <3>2, <4>2, <4>3 DEF ArchivedWell
    <3> QED BY <3>3, <3>4
  <2> QED BY <1>9, <2>1, <2>2
<1>10. \A m \in Lanes : Fresh(serving[m])' /\ Hashed(serving[m])' /\ Due(serving[m])' /\ Written(serving[m])'
  BY <1>2, <1>4, <1>7
<1> HIDE DEF Fresh, Hashed, Due, Written, Alone, KeptWell, ArchivedWell, Lasting
<1> QED BY <1>3, <1>5, <1>8, <1>9, <1>10 DEF PicturesInv

(* no lane, no picture: what does not concern them *)
LEMMA PicturesStay ==
    ASSUME PicturesInv, UNCHANGED <<photos, bytes, due, versions, menu, serving>>,
           \A q \in promises' : q.kind \in {"kept", "archived"} => q \in promises
    PROVE  PicturesInv'
<1>1. Lasting' BY DEF PicturesInv, Lasting
<1>2. \A l \in Lanes : Fresh(serving[l])' /\ Alone(l)' /\ Hashed(serving[l])' /\ Due(serving[l])' /\ Written(serving[l])'
  BY DEF PicturesInv, Fresh, Alone, Hashed, Due, Written, Active
<1>3. \A q \in promises' : q.kind = "kept" => KeptWell(q)' BY DEF PicturesInv, KeptWell
<1>4. \A q \in promises' : q.kind = "archived" => ArchivedWell(q)' BY DEF PicturesInv, ArchivedWell
<1> QED BY <1>1, <1>2, <1>3, <1>4 DEF PicturesInv

(* a request that ends, or is done with its picture *)
Leaves(l, d) ==
    /\ Active(serving[l]) /\ Becomes(l, d)
    /\ \/ d = Idle
       \/ /\ d.pic = serving[l].pic /\ d.id = serving[l].id /\ d.contested = serving[l].contested
          /\ d.stage \notin Writing \cup {"enqueue", "apply"}

LEMMA LeavesPictures ==
    ASSUME WellInv, PicturesInv, NEW l \in Lanes, NEW d, Leaves(l, d), UNCHANGED <<bytes, versions, menu>>, due \subseteq due',
           DOMAIN photos' = DOMAIN photos, \A p \in DOMAIN photos : photos'[p].hash = photos[p].hash,
           \A q \in promises' : q.kind = "kept" => KeptWell(q)' \/ Older(q),
           \A q \in promises' : q.kind = "archived" => Older(q)
    PROVE  PicturesInv'
<1>1. Turns(l, d) /\ \A m \in Lanes \ {l} : serving'[m] = serving[m] BY BecomesTurns DEF Leaves, WellInv, CallsWell
<1>2. DOMAIN photos' \subseteq DOMAIN bytes' BY DEF PicturesInv, Lasting
<1>3. \A m \in Lanes \ {l} : d.pic # {} /\ serving[m].pic = d.pic => d.contested /\ serving'[m].contested
  BY <1>1, IdleIs DEF Leaves, PicturesInv, Alone
<1>4. d = Idle \/ (d.pic = serving[l].pic /\ d.id = serving[l].id) BY DEF Leaves
<1>5. Fresh(d)'
  <2>1. Fresh(serving[l]) BY DEF PicturesInv
  <2> QED BY <1>4, <2>1, IdleIs DEF Fresh, Leaves
<1>6. d.stage \notin Writing \cup {"enqueue", "apply"} BY IdleIs DEF Leaves, Writing, Idle
<1>7. Hashed(d)' /\ Due(d)' /\ Written(d)' BY <1>6 DEF Hashed, Due, Written, Writing
<1>8. d.stage # "bytes" BY <1>6 DEF Writing
<1> QED BY <1>1, <1>2, <1>3, <1>5, <1>6, <1>7, <1>8, PicturesStep

LEMMA ToldKept ==
    ASSUME WellInv, PicturesInv, NEW l \in Lanes, NEW d, Becomes(l, d), d.stage \notin Writing \/ d.pic = {},
           NEW p \in DOMAIN photos, photos'[p].hash = photos[p].hash, bytes' = bytes, NEW content, NEW place, NEW isDue,
           NEW q \in Told(l, "kept", p, content, place, isDue),
           (serving[l].pic = {p} /\ serving[l].contested) \/ (photos[p].hash = content /\ (isDue => <<p, content>> \in due'))
    PROVE  KeptWell(q)'
<1>1. /\ q.pic = p /\ q.content = content /\ q.due = isDue
      /\ ~(p \in DOMAIN bytes /\ bytes[p] # photos[p].hash)
      /\ ~(serving[l].pic = {p} /\ serving[l].contested)
      /\ \A m \in Lanes \ {l} : serving[m].stage # "idle" => serving[m].pic # {p}
  BY ToldIs
<1>2. p \in DOMAIN bytes BY DEF PicturesInv, Lasting
<1>3. bytes'[p] = content /\ photos'[p].hash = content /\ (q.due => <<p, content>> \in due') BY <1>1, <1>2
<1>4. \A m \in Lanes : serving'[m].pic = {p} => serving'[m].stage \notin Writing
  <2>1. \A m \in Lanes \ {l} : serving'[m] = serving[m] BY BecomesTurns DEF WellInv, CallsWell
  <2>2. serving'[l] = d BY DEF Becomes, WellInv, CallsWell
  <2>3. \A m \in Lanes \ {l} : serving[m].pic # {p}
    BY <1>1, IdleIs, LaneWell DEF WellInv, Active
  <2> QED BY <2>1, <2>2, <2>3
<1> QED BY <1>1, <1>3, <1>4 DEF KeptWell

(* steps that end a request or update an entry *)
LEMMA PlainPictures ==
    ASSUME WellInv, PicturesInv, NEW l \in Lanes, NEW d, Leaves(l, d), UNCHANGED <<photos, bytes, due, versions, menu>>,
           \A q \in promises' : q.kind \in {"kept", "archived"} => q \in promises
    PROVE  PicturesInv'
BY LeavesPictures DEF Older

LEMMA ClosesPictures ==
    ASSUME WellInv, PicturesInv, NEW l \in Lanes, serving[l] # Idle, Closes(l), UNCHANGED <<photos, bytes, due, versions, menu>>
    PROVE  PicturesInv'
<1>1. Leaves(l, Idle) /\ promises' = promises BY LaneWell DEF Leaves, Closes, WellInv
<1> QED BY <1>1, PlainPictures

LEMMA EntriesLeave ==
    ASSUME WellInv, Upload \/ ReadSpace \/ SaveSpace \/ Sweep \/ Unlist \/ Unstage \/ Backup
    PROVE  /\ \E l \in Lanes : \E d : Leaves(l, d)
           /\ UNCHANGED <<photos, bytes, due, versions, menu>>
           /\ \A q \in promises' : q.kind \in {"kept", "archived"} => q \in promises
<1> DEFINE Plain == /\ UNCHANGED <<photos, bytes, due, versions, menu>>
                    /\ \A q \in promises' : q.kind \in {"kept", "archived"} => q \in promises
<1>1. ASSUME NEW l \in Lanes, serving[l].stage # "idle" PROVE DOMAIN serving[l] = CallKeys /\ Active(serving[l])
  BY <1>1, IdleIs, LaneWell DEF WellInv
<1>2. ASSUME NEW l \in Lanes, serving[l].stage # "idle", Becomes(l, Idle) PROVE \E m \in Lanes : \E d : Leaves(m, d)
  BY <1>1, <1>2 DEF Leaves
<1>3. CASE Upload
  <2>1. PICK l \in Lanes : /\ serving[l].stage = "upload" /\ UNCHANGED <<rows, bytes, spaces, promises, menu, served, deaths>>
                           /\ \E t, o : Becomes(l, [serving[l] EXCEPT !.stage = "read", !.object = o, !.todo = t])
    BY <1>3 DEF Upload
  <2>2. PICK t, o : Becomes(l, [serving[l] EXCEPT !.stage = "read", !.object = o, !.todo = t]) BY <2>1
  <2>3. Leaves(l, [serving[l] EXCEPT !.stage = "read", !.object = o, !.todo = t])
    BY <1>1, <2>1, <2>2 DEF Leaves, CallKeys, Writing
  <2>4. Plain BY <2>1 DEF rows
  <2> QED BY <2>3, <2>4
<1>4. CASE ReadSpace
  <2>0. PICK l \in Lanes : \E d : Reads(l, d) BY <1>4, ReadSpaceIs DEF WellInv
  <2>00. PICK d : Reads(l, d) BY <2>0
  <2>1. LET c == serving[l]
            u == Head(c.todo)
            s == Space(u.at.key)
        IN  /\ c.stage = "read" /\ Becomes(l, d) /\ Read(c, u, s, d)
            /\ promises' = {q \in promises : q.kind = "staged" => q.at # u.at}
            /\ UNCHANGED <<rows, bytes, spaces, menu, served, deaths>>
    BY <2>00 DEF Reads
  <2>2. Leaves(l, d)
    <3> DEFINE c == serving[l]
               u == Head(c.todo)
               s == Space(u.at.key)
    <3>1. Read(c, u, s, d) /\ DOMAIN c = CallKeys /\ Active(c) /\ Becomes(l, d) BY <1>1, <2>1
    <3> HIDE DEF u, s
    <3>2. CASE d = Idle BY <3>1, <3>2 DEF Leaves
    <3>3. CASE d = [c EXCEPT !.stage = "save", !.space = s] BY <3>1, <3>3 DEF Leaves, CallKeys, Writing
    <3>4. CASE d = [c EXCEPT !.stage = "save", !.space = s, !.carried = EntryAt(u, s)] BY <3>1, <3>4 DEF Leaves, CallKeys, Writing
    <3>5. ASSUME NEW e, d = [c EXCEPT !.stage = "look", !.listing = s, !.todo = << >>, !.object = e.object, !.content = e.content]
          PROVE  Leaves(l, d)
      BY <3>1, <3>5 DEF Leaves, CallKeys, Writing
    <3> QED BY <3>1, <3>2, <3>3, <3>4, <3>5 DEF Read
  <2>3. Plain BY <2>1 DEF rows
  <2> QED BY <2>2, <2>3
<1>5. CASE SaveSpace
  <2>0. PICK l \in Lanes : \E d : SavesNext(l, d) BY <1>5, SaveSpaceIs DEF WellInv
  <2>00. PICK d : SavesNext(l, d) BY <2>0
  <2>1. LET c == serving[l]
            u == Head(c.todo)
        IN  /\ c.stage = "save" /\ Becomes(l, d) /\ Saves(c, d)
            /\ promises' = (IF Space(u.at.key) = c.space THEN promises ELSE promises \ StagedAt(u.at.key))
                            \cup (IF u.op = "put" THEN Staged(l, u.at, u.entry) ELSE {})
            /\ UNCHANGED <<rows, stores, menu, served, deaths>>
    BY <2>00 DEF SavesNext
  <2>2. Leaves(l, d) BY <1>1, <2>1 DEF Leaves, Saves, CallKeys, Writing
  <2>3. \A q \in promises' : q \in promises \/ q.kind = "staged" BY <2>1, StagedKind
  <2>4. Plain BY <2>1, <2>3 DEF rows, stores
  <2> QED BY <2>2, <2>4
<1>6. CASE Sweep
  <2>1. PICK l \in Lanes : /\ serving[l].stage = "sweep" /\ Becomes(l, Idle) /\ promises' \subseteq promises
                           /\ UNCHANGED <<rows, bytes, menu, served, deaths>>
    BY <1>6 DEF Sweep
  <2>2. Plain BY <2>1 DEF rows
  <2> QED BY <1>2, <2>1, <2>2
<1>7. CASE Unlist
  <2>1. PICK l \in Lanes : /\ serving[l].stage = "unlist" /\ Becomes(l, [serving[l] EXCEPT !.stage = "unstage"])
                           /\ promises' \subseteq promises /\ UNCHANGED <<rows, stores, menu, served, deaths>>
    BY <1>7 DEF Unlist
  <2>2. Leaves(l, [serving[l] EXCEPT !.stage = "unstage"]) BY <1>1, <2>1 DEF Leaves, CallKeys, Writing
  <2>3. Plain BY <2>1 DEF rows, stores
  <2> QED BY <2>2, <2>3
<1>8. CASE Unstage
  <2>1. PICK l \in Lanes : serving[l].stage = "unstage" /\ Becomes(l, Idle) /\ UNCHANGED <<rows, bytes, spaces, promises, menu, served, deaths>>
    BY <1>8 DEF Unstage
  <2>2. Plain BY <2>1 DEF rows
  <2> QED BY <1>2, <2>1, <2>2
<1>9. CASE Backup
  <2>1. PICK l \in Lanes : /\ serving[l].stage = "backup" /\ UNCHANGED <<rows, stores, spaces, promises, menu, served, deaths>>
                           /\ \/ Becomes(l, Idle)
                              \/ \E t : Becomes(l, [serving[l] EXCEPT !.stage = "read", !.todo = t])
    BY <1>9 DEF Backup
  <2>2. ASSUME NEW t, Becomes(l, [serving[l] EXCEPT !.stage = "read", !.todo = t])
        PROVE  Leaves(l, [serving[l] EXCEPT !.stage = "read", !.todo = t])
    BY <1>1, <2>1, <2>2 DEF Leaves, CallKeys, Writing
  <2>3. Plain BY <2>1 DEF rows, stores
  <2> QED BY <1>2, <2>1, <2>2, <2>3
<1> QED BY <1>3, <1>4, <1>5, <1>6, <1>7, <1>8, <1>9

LEMMA EntriesPictures ==
    ASSUME WellInv, PicturesInv, Upload \/ ReadSpace \/ SaveSpace \/ Sweep \/ Unlist \/ Unstage \/ Backup
    PROVE  PicturesInv'
BY EntriesLeave, PlainPictures

LEMMA ConcludesLeaves ==
    ASSUME WellInv, NEW l \in Lanes, serving[l] # Idle,
           NEW c, DOMAIN c = CallKeys, c.pic = serving[l].pic, c.id = serving[l].id, c.contested = serving[l].contested, Concludes(l, c)
    PROVE  \E d : Leaves(l, d)
<1>1. PICK d : /\ Becomes(l, d)
               /\ d = Idle \/ d = [c EXCEPT !.stage = "read"] \/ d = [c EXCEPT !.stage = "unlist"]
  BY ConcludesIs DEF WellInv, CallsWell
<1>2. Active(serving[l]) BY LaneWell DEF WellInv
<1>3. d = Idle \/ (d.pic = c.pic /\ d.id = c.id /\ d.contested = c.contested /\ d.stage \in {"read", "unlist"})
  BY <1>1 DEF CallKeys
<1>4. Leaves(l, d) BY <1>1, <1>2, <1>3 DEF Leaves, Writing
<1> QED BY <1>4

LEMMA FreshLook ==
    ASSUME WellInv, PicturesInv, NEW l \in Lanes, serving[l].stage = "look"
    PROVE  /\ serving[l] # Idle /\ Active(serving[l]) /\ DOMAIN serving[l] = CallKeys /\ serving[l].pic = {}
           /\ 100 + serving[l].id \notin DOMAIN photos
<1>1. serving[l] # Idle BY IdleIs
<1>2. Active(serving[l]) /\ DOMAIN serving[l] = CallKeys /\ serving[l].pic = {} BY <1>1, LaneWell DEF WellInv, Well
<1>3. Fresh(serving[l]) BY DEF PicturesInv
<1> QED BY <1>1, <1>2, <1>3 DEF Fresh

LEMMA TakesPictures ==
    ASSUME WellInv, PicturesInv, NEW l \in Lanes, serving[l].stage = "look", UNCHANGED <<photos, bytes, due, versions, menu>>,
           NEW c, DOMAIN c = CallKeys, c.id = serving[l].id, NEW p, Takes(l, c, p),
           \/ c.stage \in {"snapshot", "apply", "trash"} /\ p \in DOMAIN photos
           \/ c.stage = "bytes" /\ p = 100 + c.id,
           NEW replaces, promises' = Addressed(p, replaces)
    PROVE  PicturesInv'
<1>1. /\ Active(serving[l]) /\ serving[l].pic = {} /\ 100 + c.id \notin DOMAIN photos BY FreshLook
<1>2. PICK b \in BOOLEAN :
             /\ Turns(l, [c EXCEPT !.pic = {p}, !.contested = b])
             /\ \A m \in Lanes \ {l} : serving[m].pic = {p} => b /\ serving'[m].contested
  BY TakesIs DEF WellInv
<1> DEFINE d == [c EXCEPT !.pic = {p}, !.contested = b]
<1>3. Turns(l, d) /\ d.pic = {p} /\ d.contested = b /\ d.id = c.id /\ d.stage = c.stage BY <1>2 DEF CallKeys
<1> HIDE DEF d
<1>4. DOMAIN photos' \subseteq DOMAIN bytes' BY DEF PicturesInv, Lasting
<1>5. \A m \in Lanes \ {l} : d.pic # {} /\ serving[m].pic = d.pic => d.contested /\ serving'[m].contested BY <1>2, <1>3
<1>6. Fresh(d)' BY <1>1, <1>3 DEF Fresh
<1>7. Hashed(d)' /\ Due(d)' /\ Written(d)' BY <1>1, <1>3 DEF Hashed, Due, Written
<1>8. ASSUME NEW q \in promises', q.kind \in {"kept", "archived"}
      PROVE  \/ q \in promises /\ (q.kind = "archived" \/ q.pic # p)
             \/ q.kind = "archived" /\ c.stage # "bytes" /\ ArchivedWell(q)'
  <2>1. CASE q \in promises /\ (q.kind \in {"archived", "staged"} \/ q.pic # p) BY <1>8, <2>1
  <2>2. CASE ~(q \in promises /\ (q.kind \in {"archived", "staged"} \/ q.pic # p))
    <3>1. /\ q.kind = "archived" /\ q.pic = p /\ menu.versioning = "full"
          /\ \E r \in promises : r.kind = "kept" /\ r.pic = p /\ q.content = r.content
      BY <1>8, <2>2, AddressedIs DEF WellInv
    <3>2. PICK r \in promises : r.kind = "kept" /\ r.pic = p /\ q.content = r.content BY <3>1
    <3>3. KeptWell(r) /\ p \in DOMAIN photos BY <3>2 DEF PicturesInv, WellInv, PromisesWell
    <3>4. \A m \in Lanes : serving'[m].pic = {p} => serving'[m].stage # "bytes"
      <4>1. c.stage # "bytes" BY <1>1, <3>3
      <4>2. \A m \in Lanes \ {l} : serving'[m].pic = {p} => serving'[m].stage # "bytes"
        BY <1>3, <3>2, <3>3, OthersStay DEF KeptWell, Writing, WellInv
      <4> QED BY <1>3, <4>1, <4>2 DEF Turns
    <3>5. bytes'[p] = q.content BY <3>2, <3>3 DEF KeptWell
    <3>6. c.stage # "bytes" BY <1>1, <3>3
    <3> QED BY <3>1, <3>4, <3>5, <3>6 DEF ArchivedWell
  <2> QED BY <2>1, <2>2
<1>9. \A q \in promises' : q.kind = "kept" => Older(q) /\ d.pic # {q.pic} BY <1>3, <1>8 DEF Older
<1>10. \A q \in promises' : q.kind = "archived" => ArchivedWell(q)' \/ (Older(q) /\ (d.stage = "bytes" => d.pic # {q.pic}))
  <2>1. \A q \in promises : q.kind = "archived" => q.pic \in DOMAIN photos BY DEF WellInv, PromisesWell
  <2>2. \A q \in promises : q.kind = "archived" => Older(q) BY DEF Older
  <2>3. d.stage = "bytes" => p \notin DOMAIN photos BY <1>1, <1>3
  <2> QED BY <1>3, <1>8, <2>1, <2>2, <2>3
<1> QED BY <1>3, <1>4, <1>5, <1>6, <1>7, <1>9, <1>10, PicturesStep

LEMMA StartPictures == ASSUME VfsAssumption, WellInv, PicturesInv, Start PROVE PicturesInv'
<1>10. PICK l \in Lanes, r \in menu.requests : \E d : Begins(l, r, d) BY StartIs DEF WellInv
<1>11. PICK d : Begins(l, r, d) BY <1>10
<1>12. FirstStage(r) \in {"read", "none", "backup", "look", "upload"} BY DEF FirstStage
<1>1. /\ serving[l] = Idle /\ Turns(l, d) /\ d.pic = {} /\ d.id = served + 1
      /\ d.stage \in {"read", "none", "backup", "look", "upload"}
      /\ promises' = Reshaped \/ promises' = promises
      /\ UNCHANGED <<rows, stores, spaces, menu, deaths>>
  BY <1>11, <1>12 DEF Begins
<1>2. UNCHANGED <<photos, bytes, due, versions, menu>> BY <1>1 DEF rows, stores
<1>3. 100 + d.id \notin DOMAIN photos
  <2>1. served \in Nat /\ DOMAIN photos \subseteq DOMAIN Library \cup {100 + i : i \in 1..served} BY DEF WellInv, RowsWell
  <2>2. DOMAIN Library \subseteq 1..100 BY DEF VfsAssumption
  <2>3. d.id = served + 1 BY <1>1
  <2>4. served \in Nat BY <2>1
  <2>5. 100 + (served + 1) \notin 1..100 /\ \A i \in 1..served : 100 + (served + 1) # 100 + i BY <2>4
  <2> QED BY <2>1, <2>2, <2>3, <2>5
<1>4. Fresh(d)' BY <1>2, <1>3 DEF Fresh
<1>5. Hashed(d)' /\ Due(d)' /\ Written(d)' BY <1>1 DEF Hashed, Due, Written
<1>6. DOMAIN photos' \subseteq DOMAIN bytes' BY <1>2 DEF PicturesInv, Lasting
<1>7. \A q \in promises' : q.kind \in {"kept", "archived"} => Older(q)
  <2>1. CASE promises' = promises BY <2>1 DEF Older
  <2>2. CASE promises' = Reshaped BY <2>2, ReshapedIs DEF Older, WellInv
  <2>3. promises' = Reshaped \/ promises' = promises BY <1>1
  <2> QED BY <2>1, <2>2, <2>3
<1>8. \A m \in Lanes \ {l} : d.pic = {} BY <1>1
<1>9. \A x : d.pic # {x} BY <1>1
<1> QED BY <1>1, <1>2, <1>4, <1>5, <1>6, <1>7, <1>8, <1>9, PicturesStep

LEMMA LooksPutPictures ==
    ASSUME WellInv, PicturesInv, NEW l \in Lanes, serving[l].stage = "look", LooksPut(l, serving[l]),
           UNCHANGED <<photos, bytes, due, versions, menu>>
    PROVE  PicturesInv'
<1> DEFINE c == serving[l]
<1>1. c # Idle /\ Active(c) /\ DOMAIN c = CallKeys /\ c.pic = {} BY FreshLook
<1>2. CASE Concludes(l, c) /\ UNCHANGED promises
  <2>1. PICK d : Leaves(l, d) BY <1>1, <1>2, ConcludesLeaves
  <2> QED BY <1>2, <2>1, PlainPictures
<1>3. ASSUME NEW p \in DOMAIN photos, NEW t, NEW e, NEW place, photos[p].hash = c.content, e = c \/ e = [c EXCEPT !.todo = t],
             promises' = promises \cup Told(l, "kept", p, c.content, place, FALSE), Concludes(l, e)
      PROVE  PicturesInv'
  <2>1. DOMAIN e = CallKeys /\ e.pic = c.pic /\ e.id = c.id /\ e.contested = c.contested BY <1>1, <1>3 DEF CallKeys
  <2>2. PICK d : Leaves(l, d) BY <1>1, <1>3, <2>1, ConcludesLeaves
  <2>3. Becomes(l, d) /\ (d.stage \notin Writing \/ d.pic = {}) BY <2>2, IdleIs DEF Leaves
  <2>4. \A q \in Told(l, "kept", p, c.content, place, FALSE) : KeptWell(q)' /\ q.kind = "kept"
    <3> SUFFICES ASSUME NEW q \in Told(l, "kept", p, c.content, place, FALSE) PROVE KeptWell(q)' /\ q.kind = "kept"
      OBVIOUS
    <3>2. photos' = photos /\ bytes' = bytes /\ photos[p].hash = c.content BY <1>3
    <3> DEFINE isDue == FALSE
               content == c.content
    <3>3. q \in Told(l, "kept", p, content, place, isDue) OBVIOUS
    <3>4. photos[p].hash = content /\ (isDue => <<p, content>> \in due') BY <3>2
    <3> HIDE DEF isDue, content
    <3>1. q.kind = "kept" BY <3>3, ToldIs
    <3>5. KeptWell(q)' BY <1>3, <2>3, <3>2, <3>3, <3>4, ToldKept
    <3> QED BY <3>1, <3>5
  <2>5. \A q \in promises' : q \in promises \/ (KeptWell(q)' /\ q.kind = "kept") BY <1>3, <2>4
  <2> HIDE DEF KeptWell
  <2>6. \A q \in promises : Older(q) BY DEF Older
  <2> QED BY <2>2, <2>5, <2>6, LeavesPictures
<1>4. ASSUME NEW p, NEW d, DOMAIN d = CallKeys, d.id = c.id, NEW replaces, promises' = Addressed(p, replaces), Takes(l, d, p),
             (d.stage \in {"snapshot", "apply", "trash"} /\ p \in DOMAIN photos) \/ (d.stage = "bytes" /\ p = 100 + d.id)
      PROVE  PicturesInv'
  BY <1>4, TakesPictures
<1>5. ASSUME NEW p \in DOMAIN photos, promises' = Addressed(p, TRUE), Takes(l, [c EXCEPT !.stage = "snapshot"], p)
      PROVE  PicturesInv'
  BY <1>1, <1>4, <1>5 DEF CallKeys
<1>6. ASSUME NEW p \in DOMAIN photos, NEW t, NEW change, promises' = Addressed(p, FALSE),
             Takes(l, [c EXCEPT !.stage = "apply", !.todo = t, !.change = change], p)
      PROVE  PicturesInv'
  BY <1>1, <1>4, <1>6 DEF CallKeys
<1>7. ASSUME NEW t, NEW change, promises' = Addressed(100 + c.id, FALSE),
             Takes(l, [c EXCEPT !.stage = "bytes", !.todo = t, !.change = change], 100 + c.id)
      PROVE  PicturesInv'
  BY <1>1, <1>4, <1>7 DEF CallKeys
<1>8. CASE Closes(l) BY <1>1, <1>8, ClosesPictures
<1> QED BY <1>2, <1>3, <1>5, <1>6, <1>7, <1>8 DEF LooksPut

LEMMA FindsPictures ==
    ASSUME WellInv, PicturesInv, NEW l \in Lanes, serving[l].stage = "look", Finds(l, serving[l]), UNCHANGED <<bytes, due, versions, menu>>
    PROVE  PicturesInv'
<1> DEFINE c == serving[l]
<1>1. c # Idle /\ Active(c) /\ DOMAIN c = CallKeys BY FreshLook
<1>2. ASSUME Closes(l), DOMAIN photos' = DOMAIN photos, \A r \in DOMAIN photos : photos'[r].hash = photos[r].hash PROVE PicturesInv'
  <2>1. Leaves(l, Idle) /\ promises' = promises BY <1>1, <1>2 DEF Leaves, Closes
  <2>2. \A q \in promises' : Older(q) BY <2>1 DEF Older
  <2> QED BY <1>2, <2>1, <2>2, LeavesPictures
<1>3. ASSUME UNCHANGED photos, NEW p \in DOMAIN photos, NEW st \in {"trash", "apply"}, NEW t, NEW change, promises' = Addressed(p, FALSE),
             Takes(l, [c EXCEPT !.stage = st, !.todo = t, !.change = change], p)
      PROVE  PicturesInv'
  <2> DEFINE d == [c EXCEPT !.stage = st, !.todo = t, !.change = change]
  <2>1. DOMAIN d = CallKeys /\ d.id = c.id /\ d.stage \in {"snapshot", "apply", "trash"} /\ Takes(l, d, p) BY <1>1, <1>3 DEF CallKeys
  <2> HIDE DEF d
  <2> QED BY <1>3, <2>1, TakesPictures
<1> QED BY <1>2, <1>3 DEF Finds

(* a request that goes on with its picture *)
LEMMA GoesOn ==
    ASSUME WellInv, PicturesInv, NEW l \in Lanes, serving[l].stage \in Writing, NEW st, Becomes(l, [serving[l] EXCEPT !.stage = st])
    PROVE  LET d == [serving[l] EXCEPT !.stage = st]
           IN  /\ Active(serving[l]) /\ DOMAIN serving[l] = CallKeys /\ Well(serving[l], DOMAIN photos, served)
               /\ Turns(l, d) /\ d.stage = st /\ d.id = serving[l].id /\ d.pic = serving[l].pic /\ d.content = serving[l].content
               /\ d.contested = serving[l].contested
               /\ \A m \in Lanes \ {l} : d.pic # {} /\ serving[m].pic = d.pic => d.contested /\ serving'[m].contested
<1> DEFINE d == [serving[l] EXCEPT !.stage = st]
<1>1. serving[l] # Idle BY IdleIs DEF Writing
<1>2. Active(serving[l]) /\ DOMAIN serving[l] = CallKeys /\ Well(serving[l], DOMAIN photos, served) BY <1>1, LaneWell DEF WellInv
<1>3. d.stage = st /\ d.id = serving[l].id /\ d.pic = serving[l].pic /\ d.content = serving[l].content
      /\ d.contested = serving[l].contested
  BY <1>2 DEF CallKeys
<1> HIDE DEF d
<1>4. Becomes(l, d) BY DEF d
<1>5. Turns(l, d) /\ \A m \in Lanes \ {l} : serving'[m] = serving[m] BY <1>4, BecomesTurns DEF WellInv, CallsWell
<1>6. \A m \in Lanes \ {l} : d.pic # {} /\ serving[m].pic = d.pic => d.contested /\ serving'[m].contested
  BY <1>3, <1>5 DEF PicturesInv, Alone
<1> QED BY <1>2, <1>3, <1>5, <1>6 DEF d

(* a picture that is being written is promised to nobody *)
LEMMA NotKept ==
    ASSUME PicturesInv, NEW l \in Lanes, serving[l].stage \in Writing, NEW q \in promises, q.kind = "kept"
    PROVE  serving[l].pic # {q.pic}
BY DEF PicturesInv, KeptWell

LEMMA SnapshotPictures == ASSUME WellInv, PicturesInv, Snapshot PROVE PicturesInv'
<1>1. PICK l \in Lanes, p \in DOMAIN photos : Snapshot!(l, p)
  BY DEF Snapshot
<1>11. PICK d : d = [serving[l] EXCEPT !.stage = "bytes"] OBVIOUS
<1>2. /\ serving[l].stage = "snapshot" /\ serving[l].pic = {p} /\ Becomes(l, d)
      /\ UNCHANGED <<photos, due, meta, stores, spaces, promises, menu, served, deaths>>
  BY <1>1, <1>11
<1>3. versions \subseteq versions' /\ (menu.versioning = "full" => <<p, bytes[p]>> \in versions') BY <1>1
<1>4. /\ Active(serving[l]) /\ Turns(l, d) /\ d.stage = "bytes" /\ d.id = serving[l].id /\ d.pic = {p}
      /\ \A m \in Lanes \ {l} : d.pic # {} /\ serving[m].pic = d.pic => d.contested /\ serving'[m].contested
  BY <1>2, <1>11, GoesOn DEF Writing
<1>5. UNCHANGED <<photos, bytes, due, menu>> /\ promises' = promises BY <1>2 DEF stores
<1>6. DOMAIN photos' \subseteq DOMAIN bytes' BY <1>5 DEF PicturesInv, Lasting
<1>7. Fresh(d)'
  <2>1. Fresh(serving[l]) BY DEF PicturesInv
  <2> QED BY <1>2, <1>4, <1>5, <2>1 DEF Fresh
<1>8. Hashed(d)' /\ Due(d)' /\ Written(d)' BY <1>4 DEF Hashed, Due, Written
<1>9. \A q \in promises' : q.kind = "kept" => Older(q) /\ d.pic # {q.pic} BY <1>2, <1>4, <1>5, NotKept DEF Older, Writing
<1>10. \A q \in promises' : q.kind = "archived" => ArchivedWell(q)' \/ (Older(q) /\ (d.stage = "bytes" => d.pic # {q.pic}))
  <2> SUFFICES ASSUME NEW q \in promises', q.kind = "archived", q.pic = p PROVE ArchivedWell(q)'
    BY <1>4, <1>5 DEF Older
  <2>1. ArchivedWell(q) BY <1>5 DEF PicturesInv
  <2>2. <<q.pic, q.content>> \in versions' BY <1>3, <2>1 DEF ArchivedWell
  <2> QED BY <1>5, <2>1, <2>2 DEF ArchivedWell
<1> QED BY <1>3, <1>4, <1>5, <1>6, <1>7, <1>8, <1>9, <1>10, PicturesStep

LEMMA PutBytesPictures == ASSUME WellInv, PicturesInv, PutBytes PROVE PicturesInv'
<1>0. PICK l \in Lanes : \E d : PutsNext(l, d) BY PutBytesIs
<1>00. PICK d : PutsNext(l, d) BY <1>0
<1>1. \E p \in serving[l].pic :
             /\ serving[l].stage = "bytes" /\ Becomes(l, d) /\ PutsBytes(l, serving[l], p, d) /\ UNCHANGED promises
             /\ UNCHANGED <<rows, scraps, spaces, menu, served, deaths>>
  BY <1>00 DEF PutsNext
<1>2. PICK p \in serving[l].pic : PutsBytes(l, serving[l], p, d) BY <1>1
<1>3. UNCHANGED <<photos, due, versions, menu, promises>> BY <1>1 DEF rows
<1>4. CASE d = Idle /\ UNCHANGED bytes BY <1>1, <1>3, <1>4, IdleIs, ClosesPictures DEF Closes
<1>5. ASSUME NEW b, bytes' = Entered(bytes, p, b), NEW st \in {"hash", "row"}, d = [serving[l] EXCEPT !.stage = st],
             st = "hash" => p \in DOMAIN photos
      PROVE  PicturesInv'
  <2>1. DOMAIN bytes' = DOMAIN bytes \cup {p} /\ \A x \in DOMAIN bytes \ {p} : bytes'[x] = bytes[x]
    <3>1. DOMAIN bytes' = DOMAIN bytes \cup {p} BY <1>5, PutIs
    <3>2. \A x \in DOMAIN bytes \ {p} : bytes'[x] = bytes[x] BY <1>5, PutIs
    <3> QED BY <3>1, <3>2
  <2>2. /\ Active(serving[l]) /\ Turns(l, d) /\ d.stage = st /\ d.id = serving[l].id /\ d.pic = serving[l].pic
        /\ \A m \in Lanes \ {l} : d.pic # {} /\ serving[m].pic = d.pic => d.contested /\ serving'[m].contested
    BY <1>1, <1>5, GoesOn DEF Writing
  <2>3. serving[l].pic = {p} BY <1>1, <1>2, GoesOn, IdleIs, LaneWell DEF WellInv, Well
  <2>4. DOMAIN photos' \subseteq DOMAIN bytes' BY <1>3, <2>1 DEF PicturesInv, Lasting
  <2>5. Fresh(d)'
    <3>1. Fresh(serving[l]) BY DEF PicturesInv
    <3> QED BY <1>3, <2>2, <3>1 DEF Fresh
  <2>6. Hashed(d)' /\ Due(d)' /\ Written(d)' BY <2>1, <2>2, <2>3 DEF Hashed, Due, Written
  <2>7. \A q \in promises' : q.kind = "kept" => Older(q) /\ d.pic # {q.pic} BY <1>1, <1>3, <2>2, NotKept DEF Older, Writing
  <2>8. \A q \in promises' : q.kind = "archived" => Older(q) BY <1>3 DEF Older
  <2>9. \A x \in DOMAIN photos : (serving[l].pic = {x} /\ serving[l].stage = "bytes") \/ bytes'[x] = bytes[x]
    BY <1>1, <2>1, <2>3 DEF PicturesInv, Lasting
  <2>10. d.stage # "bytes" BY <2>2
  <2> QED BY <1>3, <2>1, <2>2, <2>4, <2>5, <2>6, <2>7, <2>8, <2>9, <2>10, PicturesStep
<1>6. CASE p \in DOMAIN photos BY <1>2, <1>4, <1>5, <1>6 DEF PutsBytes
<1>7. CASE p \notin DOMAIN photos BY <1>2, <1>4, <1>5, <1>7 DEF PutsBytes
<1> QED BY <1>6, <1>7

LEMMA SetHashPictures == ASSUME WellInv, PicturesInv, SetHash PROVE PicturesInv'
<1>1. PICK l \in Lanes, p \in DOMAIN photos :
        /\ serving[l].stage = "hash" /\ serving[l].pic = {p} /\ photos' = [photos EXCEPT ![p].hash = serving[l].content]
        /\ Becomes(l, [serving[l] EXCEPT !.stage = "enqueue"])
        /\ UNCHANGED <<due, versions, meta, stores, spaces, promises, menu, served, deaths>>
  BY DEF SetHash
<1>12. PICK d : d = [serving[l] EXCEPT !.stage = "enqueue"] OBVIOUS
<1>2. /\ Active(serving[l]) /\ Turns(l, d) /\ d.stage = "enqueue" /\ d.id = serving[l].id /\ d.pic = {p} /\ d.content = serving[l].content
      /\ \A m \in Lanes \ {l} : d.pic # {} /\ serving[m].pic = d.pic => d.contested /\ serving'[m].contested
  BY <1>1, <1>12, GoesOn DEF Writing
<1>3. UNCHANGED <<bytes, due, versions, menu>> /\ promises' = promises BY <1>1 DEF stores
<1>4. DOMAIN photos' = DOMAIN photos /\ photos'[p].hash = serving[l].content /\ \A x \in DOMAIN photos \ {p} : photos'[x] = photos[x]
  BY <1>1 DEF WellInv, RowsWell, RowKeys
<1>5. DOMAIN photos' \subseteq DOMAIN bytes' BY <1>3, <1>4 DEF PicturesInv, Lasting
<1>6. Fresh(d)'
  <2>1. Fresh(serving[l]) BY DEF PicturesInv
  <2> QED BY <1>1, <1>2, <1>4, <2>1 DEF Fresh
<1>7. Hashed(d)' /\ Due(d)' /\ Written(d)' BY <1>2, <1>4 DEF Hashed, Due, Written
<1>8. \A q \in promises' : q.kind = "kept" => Older(q) /\ d.pic # {q.pic} BY <1>1, <1>2, <1>3, NotKept DEF Older, Writing
<1>9. \A q \in promises' : q.kind = "archived" => Older(q) BY <1>3 DEF Older
<1>10. d.stage # "bytes" BY <1>2
<1>11. \A x \in DOMAIN photos : (serving[l].pic = {x} /\ serving[l].stage \in {"hash", "row"}) \/ photos'[x].hash = photos[x].hash
  BY <1>1, <1>4
<1> QED BY <1>2, <1>3, <1>4, <1>5, <1>6, <1>7, <1>8, <1>9, <1>10, <1>11, PicturesStep

LEMMA InsertRowPictures == ASSUME WellInv, PicturesInv, InsertRow PROVE PicturesInv'
<1>1. PICK l \in Lanes : \E row :
             LET c == serving[l]
                 p == 100 + c.id
             IN  /\ c.stage = "row" /\ c.pic = {p} /\ DOMAIN row = RowKeys /\ row.hash = c.content
                 /\ photos' = Entered(photos, p, row) /\ due' = due \cup {<<p, c.content>>}
                 /\ Becomes(l, [c EXCEPT !.stage = "apply"])
                 /\ UNCHANGED <<versions, meta, stores, spaces, promises, menu, served, deaths>>
  BY InsertRowIs
<1> DEFINE c == serving[l]
           p == 100 + c.id
<1>16. PICK d : d = [c EXCEPT !.stage = "apply"] OBVIOUS
<1>2. PICK row : row.hash = c.content /\ photos' = Entered(photos, p, row) BY <1>1
<1>3. DOMAIN photos' = DOMAIN photos \cup {p} /\ photos'[p].hash = c.content /\ \A x \in DOMAIN photos \ {p} : photos'[x] = photos[x]
  <2>1. photos' = Entered(photos, p, row) /\ row.hash = c.content BY <1>2
  <2> HIDE DEF p
  <2>2. DOMAIN photos' = DOMAIN photos \cup {p} BY <2>1, PutIs
  <2>3. photos'[p] = row BY <2>1, PutIs
  <2>4. \A x \in DOMAIN photos \ {p} : photos'[x] = photos[x] BY <2>1, PutIs
  <2> QED BY <2>1, <2>2, <2>3, <2>4
<1>4. /\ Active(c) /\ Turns(l, d) /\ d.stage = "apply" /\ d.id = c.id /\ d.pic = {p} /\ d.content = c.content
      /\ \A m \in Lanes \ {l} : d.pic # {} /\ serving[m].pic = d.pic => d.contested /\ serving'[m].contested
  BY <1>1, <1>16, GoesOn DEF Writing
<1>5. UNCHANGED <<bytes, versions, menu>> /\ promises' = promises /\ due' = due \cup {<<p, c.content>>} BY <1>1 DEF stores
<1>6. c.stage = "row" /\ c.pic = {p} /\ d.id = c.id BY <1>1, <1>4
<1>7. DOMAIN photos' \subseteq DOMAIN bytes'
  <2>1. Written(c) BY DEF PicturesInv
  <2>2. p \in DOMAIN bytes BY <1>6, <2>1 DEF Written
  <2> QED BY <1>3, <1>5, <2>2 DEF PicturesInv, Lasting
<1>8. Fresh(d)' BY <1>4 DEF Fresh
<1>9. Hashed(d)' /\ Due(d)' /\ Written(d)' BY <1>3, <1>4, <1>5 DEF Hashed, Due, Written
<1>10. \A q \in promises' : q.kind = "kept" => Older(q) /\ d.pic # {q.pic} BY <1>4, <1>5, <1>6, NotKept DEF Older, Writing
<1>11. \A q \in promises' : q.kind = "archived" => Older(q) BY <1>5 DEF Older
<1>12. d.stage # "bytes" BY <1>4
<1>13. \A x \in DOMAIN photos : (serving[l].pic = {x} /\ serving[l].stage \in {"hash", "row"}) \/ photos'[x].hash = photos[x].hash
  BY <1>3, <1>6
<1>14. \A x \in DOMAIN photos' \ DOMAIN photos : Active(serving[l]) /\ x = 100 + serving[l].id BY <1>3, <1>4
<1>15. DOMAIN photos \subseteq DOMAIN photos' /\ due \subseteq due' BY <1>3, <1>5
<1> HIDE DEF p
<1> QED BY <1>4, <1>5, <1>7, <1>8, <1>9, <1>10, <1>11, <1>12, <1>13, <1>14, <1>15, PicturesStep

(* a request that tells its client how it ended *)
LEMMA DonePictures ==
    ASSUME WellInv, PicturesInv, NEW l \in Lanes, serving[l].stage \in {"enqueue", "apply", "trash"}, Concludes(l, serving[l]),
           UNCHANGED <<bytes, versions, menu>>, due \subseteq due', DOMAIN photos' = DOMAIN photos,
           \A r \in DOMAIN photos : photos'[r].hash = photos[r].hash,
           NEW p \in DOMAIN photos, NEW kind \in {"kept", "gone"}, NEW content, NEW place, NEW isDue,
           promises' = promises \cup Told(l, kind, p, content, place, isDue),
           kind = "kept" => (serving[l].pic = {p} /\ serving[l].contested) \/ (photos[p].hash = content /\ (isDue => <<p, content>> \in due'))
    PROVE  PicturesInv'
<1>1. serving[l] # Idle /\ DOMAIN serving[l] = CallKeys BY IdleIs, LaneWell DEF WellInv
<1>2. PICK d : Leaves(l, d) BY <1>1, ConcludesLeaves
<1>3. Becomes(l, d) /\ (d.stage \notin Writing \/ d.pic = {}) BY <1>2, IdleIs DEF Leaves
<1>4. ASSUME NEW q \in Told(l, kind, p, content, place, isDue), kind = "kept" PROVE KeptWell(q)'
  <2>1. q \in Told(l, "kept", p, content, place, isDue) BY <1>4
  <2> QED BY <1>3, <1>4, <2>1, ToldKept
<1>5. \A q \in Told(l, kind, p, content, place, isDue) : q.kind = kind BY ToldIs
<1>6. \A q \in promises : Older(q) BY DEF Older
<1> HIDE DEF KeptWell
<1>7. \A q \in promises' : q.kind = "kept" => KeptWell(q)' \/ Older(q) BY <1>4, <1>5, <1>6
<1>8. \A q \in promises' : q.kind = "archived" => Older(q) BY <1>5, <1>6
<1> QED BY <1>2, <1>7, <1>8, LeavesPictures

LEMMA EnqueuePictures == ASSUME WellInv, PicturesInv, Enqueue PROVE PicturesInv'
<1>1. PICK l \in Lanes, p \in DOMAIN photos :
        /\ serving[l].stage = "enqueue" /\ serving[l].pic = {p} /\ due' = due \cup {<<p, serving[l].content>>}
        /\ promises' = promises \cup Told(l, "kept", p, serving[l].content, {Front(Destination(serving[l]))}, TRUE)
        /\ Concludes(l, serving[l]) /\ UNCHANGED <<photos, versions, meta, stores, spaces, menu, served, deaths>>
  BY DEF Enqueue
<1>2. Hashed(serving[l]) BY DEF PicturesInv
<1>3. serving[l].contested \/ photos[p].hash = serving[l].content BY <1>1, <1>2 DEF Hashed
<1> DEFINE isDue == TRUE
           content == serving[l].content
           place == {Front(Destination(serving[l]))}
           kind == "kept"
<1>4. /\ promises' = promises \cup Told(l, kind, p, content, place, isDue) /\ kind \in {"kept", "gone"}
      /\ (serving[l].pic = {p} /\ serving[l].contested) \/ (photos[p].hash = content /\ (isDue => <<p, content>> \in due'))
  BY <1>1, <1>3
<1>5. UNCHANGED <<photos, bytes, versions, menu>> /\ due \subseteq due' BY <1>1 DEF stores
<1> HIDE DEF isDue, content, place, kind
<1> QED BY <1>1, <1>4, <1>5, DonePictures

LEMMA TrashPictures == ASSUME WellInv, PicturesInv, Trash PROVE PicturesInv'
<1>1. PICK l \in Lanes, p \in DOMAIN photos :
        /\ serving[l].stage = "trash" /\ serving[l].pic = {p} /\ photos' = [photos EXCEPT ![p].trashed = TRUE]
        /\ promises' = promises \cup Told(l, "gone", p, photos[p].hash, serving[l].change.place, FALSE)
        /\ Concludes(l, serving[l]) /\ UNCHANGED <<due, versions, meta, stores, spaces, menu, served, deaths>>
  BY DEF Trash
<1> DEFINE isDue == FALSE
           content == photos[p].hash
           place == serving[l].change.place
           kind == "gone"
<1>2. promises' = promises \cup Told(l, kind, p, content, place, isDue) /\ kind \in {"kept", "gone"} /\ kind # "kept" BY <1>1
<1>3. DOMAIN photos' = DOMAIN photos /\ \A r \in DOMAIN photos : photos'[r].hash = photos[r].hash
  BY <1>1 DEF WellInv, RowsWell, RowKeys
<1>4. UNCHANGED <<bytes, versions, menu>> /\ due \subseteq due' BY <1>1 DEF stores
<1>5. serving[l].stage = "trash" /\ Concludes(l, serving[l]) BY <1>1
<1> HIDE DEF isDue, content, place, kind
<1> QED BY <1>2, <1>3, <1>4, <1>5, DonePictures

LEMMA ApplyPictures == ASSUME WellInv, PicturesInv, Apply PROVE PicturesInv'
<1>1. PICK l \in Lanes, p \in DOMAIN photos :
             /\ serving[l].stage = "apply" /\ serving[l].pic = {p}
             /\ \/ Closes(l) /\ UNCHANGED photos
                \/ /\ DOMAIN photos' = DOMAIN photos /\ \A r \in DOMAIN photos : DOMAIN photos'[r] = RowKeys /\ photos'[r].hash = photos[r].hash
                   /\ \E kind \in {"kept", "gone"} : \E place : promises' = promises \cup
                            Told(l, kind, p, photos[p].hash, place, serving[l].request.method = "PUT" /\ p = 100 + serving[l].id)
                   /\ Concludes(l, serving[l])
             /\ UNCHANGED <<due, versions, meta, stores, spaces, menu, served, deaths>>
  BY ApplyIs
<1>2. UNCHANGED <<bytes, due, versions, menu>> BY <1>1 DEF stores
<1>3. CASE Closes(l) /\ UNCHANGED photos BY <1>1, <1>2, <1>3, IdleIs, ClosesPictures
<1>4. CASE ~(Closes(l) /\ UNCHANGED photos)
  <2> DEFINE isDue == serving[l].request.method = "PUT" /\ p = 100 + serving[l].id
             content == photos[p].hash
  <2>0. PICK kind \in {"kept", "gone"} : \E place : promises' = promises \cup Told(l, kind, p, content, place, isDue)
    BY <1>1, <1>4
  <2>1. PICK place : promises' = promises \cup Told(l, kind, p, content, place, isDue)
    BY <2>0
  <2>2. Due(serving[l]) BY DEF PicturesInv
  <2>3. serving[l].contested \/ (isDue => <<p, content>> \in due') BY <1>1, <1>2, <2>2 DEF Due
  <2>4. (serving[l].pic = {p} /\ serving[l].contested) \/ (photos[p].hash = content /\ (isDue => <<p, content>> \in due')) BY <1>1, <2>3
  <2> HIDE DEF isDue, content
  <2> QED BY <1>1, <1>2, <1>4, <2>1, <2>4, DonePictures
<1> QED BY <1>3, <1>4

LEMMA PicturesInitially == ASSUME VfsInit PROVE PicturesInv
<1>1. PICK m \in Menus : VfsStart(m) BY DEF VfsInit
<1>2. Lasting BY <1>1 DEF VfsStart, Lasting
<1>3. \A l \in Lanes : serving[l] = Idle BY <1>1 DEF VfsStart
<1>4. \A l \in Lanes : serving[l].stage = "idle" /\ serving[l].pic = {} BY <1>3, IdleIs
<1>5. \A l \in Lanes : Fresh(serving[l]) /\ Alone(l) /\ Hashed(serving[l]) /\ Due(serving[l]) /\ Written(serving[l])
  BY <1>4 DEF Fresh, Alone, Hashed, Due, Written, Active
<1>6. promises = {} BY <1>1 DEF VfsStart
<1> QED BY <1>2, <1>5, <1>6 DEF PicturesInv

LEMMA PicturesKept == ASSUME VfsAssumption, WellInv, PicturesInv, [VfsNext]_vfsVars PROVE PicturesInv'
<1>1. CASE LookPut
  <2>1. PICK l \in Lanes : serving[l].stage = "look" /\ LooksPut(l, serving[l]) /\ UNCHANGED <<rows, stores, spaces, menu, served, deaths>>
    BY <1>1, LookPutIs
  <2> QED BY <2>1, LooksPutPictures DEF rows, stores
<1>2. CASE DeleteFile \/ MoveFile
  <2>1. PICK l \in Lanes : serving[l].stage = "look" /\ Finds(l, serving[l]) /\ UNCHANGED <<bytes, due, versions, menu>>
    BY <1>2, DeleteFileIs, MoveFileIs DEF rows, stores
  <2> QED BY <2>1, FindsPictures
<1>3. CASE DeleteDir \/ Mkcol \/ MoveEmptyDir \/ RequestDies
  <2>1. PICK l \in Lanes : serving[l] # Idle /\ Closes(l) /\ UNCHANGED <<photos, due, versions, stores, spaces, menu>>
    BY <1>3, ClosingWell
  <2> QED BY <2>1, ClosesPictures DEF stores
<1>4. CASE SpaceExpires
  <2>1. UNCHANGED <<rows, stores, serving, menu, served>> /\ promises' \subseteq promises BY <1>4 DEF SpaceExpires
  <2> QED BY <2>1, PicturesStay DEF rows, stores
<1>5. CASE UNCHANGED vfsVars
  <2>1. UNCHANGED <<rows, stores, serving, menu, promises>> BY <1>5 DEF vfsVars
  <2> QED BY <2>1, PicturesStay DEF rows, stores
<1> QED
  BY <1>1, <1>2, <1>3, <1>4, <1>5, StartPictures, EntriesPictures, SnapshotPictures, PutBytesPictures, SetHashPictures,
     EnqueuePictures, InsertRowPictures, ApplyPictures, TrashPictures DEF VfsNext

----------------------------------------------------------------------------
(* Every step keeps what was promised of staged files. *)

LEMMA OthersParts ==
    ASSUME CallsWell, NEW l \in Lanes, NEW d, Turns(l, d), NEW m \in Lanes \ {l}
    PROVE  /\ Active(serving[m])' <=> Active(serving[m])
           /\ Active(serving[m]) =>
                /\ Carrying(serving[m])' <=> Carrying(serving[m])
                /\ Handles(serving[m])' <=> Handles(serving[m])
                /\ (serving[m].request)' = serving[m].request /\ (serving[m].id)' = serving[m].id
                /\ (serving[m].space)' = serving[m].space /\ (serving[m].object)' = serving[m].object
                /\ (serving[m].content)' = serving[m].content /\ Held(serving[m])' = Held(serving[m])
                /\ serving[m].contested => (serving[m].contested)'
                /\ \A key, name, o : Spares(serving[m], key, name, o)' <=> Spares(serving[m], key, name, o)
<1>1. CASE serving'[m] = serving[m]
  BY <1>1 DEF Active, Carrying, Handles, Held, Spares, From, IsPromotion
<1>2. CASE Active(serving[m]) /\ serving'[m] = [serving[m] EXCEPT !.contested = TRUE]
  <2>1. DOMAIN serving[m] = CallKeys BY <1>2, IdleIs, LaneWell
  <2>2. /\ serving'[m].stage = serving[m].stage /\ serving'[m].id = serving[m].id /\ serving'[m].request = serving[m].request
        /\ serving'[m].pic = serving[m].pic /\ serving'[m].content = serving[m].content /\ serving'[m].todo = serving[m].todo
        /\ serving'[m].space = serving[m].space /\ serving'[m].listing = serving[m].listing
        /\ serving'[m].carried = serving[m].carried /\ serving'[m].object = serving[m].object /\ serving'[m].contested
    BY <1>2, <2>1 DEF CallKeys
  <2>3. Active(serving[m])' BY <1>2, <2>2 DEF Active
  <2>4. Held(serving[m])' = Held(serving[m]) BY <2>2 DEF Held
  <2>5. \A key, name, o : Spares(serving[m], key, name, o)' <=> Spares(serving[m], key, name, o)
    BY <2>2 DEF Spares, From, IsPromotion
  <2>6. (Carrying(serving[m])' <=> Carrying(serving[m])) /\ (Handles(serving[m])' <=> Handles(serving[m]))
    BY <2>2 DEF Carrying, Handles, Active
  <2> QED BY <1>2, <2>2, <2>3, <2>4, <2>5, <2>6
<1> QED BY <1>1, <1>2 DEF Turns

Objects(q) == spaces[q.at.key].files[q.at.name].object

(* what an old promise needs of a step to d *)
Kept(q, d) ==
    /\ q \in promises /\ q.at.key \in DOMAIN spaces' /\ q.at.name \in DOMAIN spaces'[q.at.key].files
    /\ spaces'[q.at.key].files[q.at.name] = spaces[q.at.key].files[q.at.name]
    /\ \A o \in Objects(q) :
         /\ o \in DOMAIN scraps' /\ scraps'[o] = scraps[o]
         /\ \A k \in DOMAIN spaces' : \A x \in DOMAIN spaces'[k].files :
               o \in spaces'[k].files[x].object => k = q.at.key /\ x = q.at.name
         /\ Active(d) => Spares(d, q.at.key, q.at.name, o)

(* the id of a request that carries a new object is nowhere else *)
Unseen(c, m, d) ==
    /\ \A k \in DOMAIN spaces' : c.id \notin SpaceObjects(spaces'[k])
    /\ Active(d) => c.id \notin Held(d)
    /\ c.object # {} => c.id \in DOMAIN scraps' /\ scraps'[c.id] = c.content

LEMMA StagingStep ==
    ASSUME WellInv, StagingInv, NEW l \in Lanes, NEW d, Turns(l, d),
           \A m \in Lanes \ {l} : Active(serving[m]) /\ StagesOf(serving[m].request) /\ Active(d) /\ StagesOf(d.request) =>
              /\ Handles(d) => d.contested
              /\ Handles(serving[m]) => serving'[m].contested,
           Carrying(d) =>
              /\ \A k \in DOMAIN spaces' : d.id \notin SpaceObjects(spaces'[k])
              /\ \A m \in Lanes \ {l} : Active(serving[m]) => d.id \notin Held(serving[m])
              /\ d.id \notin SpaceObjects(d.space)
              /\ d.object # {} => d.id \in DOMAIN scraps' /\ scraps'[d.id] = d.content,
           \A m \in Lanes \ {l} : Carrying(serving[m]) => Unseen(serving[m], m, d),
           \A q \in promises' : q.kind = "staged" => StagedWell(q)' \/ Kept(q, d)
    PROVE  StagingInv'
<1>1. CallsWell /\ serving'[l] = d /\ DOMAIN serving' = Lanes BY DEF WellInv, Turns
<1>2. Together'
  <2> SUFFICES ASSUME NEW a \in Lanes, NEW b \in Lanes, a # b, Handles(serving[a])', Active(serving[b])', StagesOf(serving[b].request)'
               PROVE  (serving[a].contested)'
    BY DEF Together
  <2>1. CASE a = l
    <3>1. Handles(d) /\ Active(d) /\ StagesOf(d.request) BY <1>1, <2>1 DEF Handles
    <3>2. Active(serving[b]) /\ StagesOf(serving[b].request) BY <1>1, <2>1, OthersParts
    <3> QED BY <1>1, <2>1, <3>1, <3>2
  <2>2. CASE b = l
    <3>1. Active(d) /\ StagesOf(d.request) BY <1>1, <2>2
    <3>2. Active(serving[a])' BY DEF Handles
    <3>3. Active(serving[a]) /\ Handles(serving[a]) BY <1>1, <2>2, <3>2, OthersParts
    <3> QED BY <2>2, <3>1, <3>3 DEF Handles
  <2>3. CASE a # l /\ b # l
    <3>1. Active(serving[a])' BY DEF Handles
    <3>2. Active(serving[a]) /\ Handles(serving[a]) BY <1>1, <2>3, <3>1, OthersParts
    <3>3. Active(serving[b]) /\ StagesOf(serving[b].request) BY <1>1, <2>3, OthersParts
    <3>4. serving[a].contested BY <3>2, <3>3 DEF StagingInv, Together
    <3> QED BY <1>1, <2>3, <3>2, <3>4, OthersParts
  <2> QED BY <2>1, <2>2, <2>3
<1>3. Own(l)'
  <2>1. \A m \in Lanes \ {l} : Active(serving[m])' => Active(serving[m]) /\ Held(serving[m])' = Held(serving[m])
    BY <1>1, OthersParts
  <2> QED BY <1>1, <2>1 DEF Own
<1>4. ASSUME NEW m \in Lanes \ {l} PROVE Own(m)'
  <2> SUFFICES ASSUME Carrying(serving[m])'
               PROVE  /\ \A k \in DOMAIN spaces' : (serving[m].id)' \notin SpaceObjects(spaces'[k])
                      /\ \A n \in Lanes \ {m} : Active(serving[n])' => (serving[m].id)' \notin Held(serving[n])'
                      /\ (serving[m].id)' \notin SpaceObjects(serving[m].space)'
                      /\ (serving[m].object)' # {} => (serving[m].id)' \in DOMAIN scraps' /\ scraps'[(serving[m].id)'] = (serving[m].content)'
    BY DEF Own
  <2>1. Active(serving[m])' BY DEF Carrying
  <2>2. Active(serving[m]) BY <1>1, <2>1, OthersParts
  <2>3. /\ Carrying(serving[m]) /\ (serving[m].id)' = serving[m].id /\ (serving[m].space)' = serving[m].space
        /\ (serving[m].object)' = serving[m].object /\ (serving[m].content)' = serving[m].content
    BY <1>1, <2>2, OthersParts
  <2>4. Unseen(serving[m], m, d) BY <2>3
  <2>5. Own(m) BY DEF StagingInv
  <2>6. /\ \A n \in Lanes \ {m} : Active(serving[n]) => serving[m].id \notin Held(serving[n])
        /\ serving[m].id \notin SpaceObjects(serving[m].space)
    BY <2>3, <2>5 DEF Own
  <2>7. ASSUME NEW n \in Lanes \ {m}, Active(serving[n])' PROVE serving[m].id \notin Held(serving[n])'
    <3>1. CASE n = l BY <1>1, <2>4, <2>7, <3>1 DEF Unseen
    <3>2. CASE n # l
      <4>1. Active(serving[n]) BY <1>1, <2>7, <3>2, OthersParts
      <4>2. Held(serving[n])' = Held(serving[n]) BY <1>1, <3>2, <4>1, OthersParts
      <4> QED BY <2>6, <4>1, <4>2
    <3> QED BY <3>1, <3>2
  <2>8. serving[m].id \notin SpaceObjects(serving[m].space)' BY <2>3, <2>6 DEF SpaceObjects
  <2> QED BY <2>3, <2>4, <2>7, <2>8 DEF Unseen
<1>5. ASSUME NEW q \in promises', q.kind = "staged" PROVE StagedWell(q)'
  <2>1. CASE StagedWell(q)' BY <2>1
  <2>2. CASE Kept(q, d)
    <3>1. q \in promises /\ StagedWell(q) BY <1>5, <2>2 DEF Kept, StagingInv
    <3>2. Objects(q)' = Objects(q) BY <2>2 DEF Kept, Objects
    <3>3. ASSUME NEW o \in Objects(q)
          PROVE  /\ o \in DOMAIN scraps' /\ scraps'[o] = q.content
                 /\ \A k \in DOMAIN spaces' : \A x \in DOMAIN spaces'[k].files :
                      o \in spaces'[k].files[x].object => k = q.at.key /\ x = q.at.name
                 /\ \A n \in Lanes : Active(serving[n])' => Spares(serving[n], q.at.key, q.at.name, o)'
      <4>1. /\ scraps[o] = q.content
            /\ \A n \in Lanes : Active(serving[n]) => Spares(serving[n], q.at.key, q.at.name, o)
        BY <3>1, <3>3 DEF StagedWell, Objects
      <4>2. /\ o \in DOMAIN scraps' /\ scraps'[o] = scraps[o]
            /\ \A k \in DOMAIN spaces' : \A x \in DOMAIN spaces'[k].files :
                      o \in spaces'[k].files[x].object => k = q.at.key /\ x = q.at.name
            /\ Active(d) => Spares(d, q.at.key, q.at.name, o)
        BY <2>2, <3>3 DEF Kept
      <4>3. ASSUME NEW n \in Lanes, Active(serving[n])' PROVE Spares(serving[n], q.at.key, q.at.name, o)'
        <5>1. CASE n = l
          <6>1. serving'[n] = d BY <1>1, <5>1
          <6> QED BY <4>2, <4>3, <6>1 DEF Spares, From, IsPromotion, Active
        <5>2. CASE n # l
          <6>1. Active(serving[n]) BY <1>1, <4>3, <5>2, OthersParts
          <6> QED BY <1>1, <4>1, <5>2, <6>1, OthersParts
        <5> QED BY <5>1, <5>2
      <4> QED BY <4>1, <4>2, <4>3
    <3>4. /\ q.at = [key |-> q.at.key, name |-> q.at.name] /\ q.at.key[1] = "scratch" /\ Objects(q) # {}
      BY <3>1 DEF StagedWell, Objects
    <3>5. q.at.key \in DOMAIN spaces' /\ q.at.name \in DOMAIN spaces'[q.at.key].files BY <2>2 DEF Kept
    <3> QED BY <3>2, <3>3, <3>4, <3>5 DEF StagedWell, Objects
  <2> QED BY <1>5, <2>1, <2>2
<1> QED BY <1>2, <1>3, <1>4, <1>5 DEF StagingInv

(* d handles what c handles, with no new object *)
Like(c, d) ==
    /\ d.request = c.request /\ d.object = c.object /\ d.space = c.space /\ d.listing = c.listing /\ d.carried = c.carried
    /\ \A u \in Parts(d.todo) : u.entry.object = {} \/ u \in Parts(c.todo)
    /\ d.pic = {} => c.pic = {} /\ d.contested = c.contested
Still(c, d) == Like(c, d) /\ d.stage \notin {"upload", "save"} /\ ~Carrying(d)

(* what the steps of a lane other than those on entries do to staged files: nothing *)
StillStaged ==
    /\ UNCHANGED <<spaces, scraps>> /\ \A q \in promises' : q.kind = "staged" => q \in promises
    /\ \E l \in Lanes : \E d : serving[l] # Idle /\ Turns(l, d) /\ (d = Idle \/ Still(serving[l], d))

LEMMA StillTogether ==
    ASSUME WellInv, StagingInv, NEW l \in Lanes, serving[l] # Idle, NEW d, Turns(l, d),
           d = Idle \/ (d.request = serving[l].request /\ (d.pic = {} => serving[l].pic = {} /\ d.contested = serving[l].contested)),
           NEW m \in Lanes \ {l}, Active(serving[m]), StagesOf(serving[m].request), Active(d), StagesOf(d.request)
    PROVE  /\ Handles(d) => d.contested
           /\ Handles(serving[m]) => serving'[m].contested
<1>1. Active(serving[l]) BY LaneWell DEF WellInv
<1>2. d.request = serving[l].request /\ (d.pic = {} => serving[l].pic = {} /\ d.contested = serving[l].contested) BY IdleIs
<1>3. ASSUME Handles(d) PROVE d.contested
  <2>1. Handles(serving[l]) BY <1>1, <1>2, <1>3 DEF Handles
  <2>2. serving[l].contested BY <2>1 DEF StagingInv, Together
  <2> QED BY <1>2, <1>3, <2>2 DEF Handles
<1>4. ASSUME Handles(serving[m]) PROVE serving'[m].contested
  <2>1. serving[m].contested BY <1>1, <1>2, <1>4 DEF StagingInv, Together
  <2> QED BY <2>1, OthersStay DEF WellInv
<1> QED BY <1>3, <1>4

LEMMA StillStaging == ASSUME WellInv, StagingInv, StillStaged PROVE StagingInv'
<1>0. PICK l \in Lanes : \E d : serving[l] # Idle /\ Turns(l, d) /\ (d = Idle \/ Still(serving[l], d))
  BY DEF StillStaged
<1>1. PICK d : serving[l] # Idle /\ Turns(l, d) /\ (d = Idle \/ Still(serving[l], d))
  BY <1>0
<1> DEFINE c == serving[l]
<1>2. Active(c) /\ UNCHANGED <<spaces, scraps>> BY <1>1, LaneWell DEF WellInv, StillStaged
<1>3. \A m \in Lanes \ {l} : Active(serving[m]) /\ StagesOf(serving[m].request) /\ Active(d) /\ StagesOf(d.request) =>
              /\ Handles(d) => d.contested
              /\ Handles(serving[m]) => serving'[m].contested
  <2>1. d = Idle \/ (d.request = c.request /\ (d.pic = {} => c.pic = {} /\ d.contested = c.contested))
    BY <1>1 DEF Still, Like
  <2> QED BY <1>1, <2>1, StillTogether
<1>4. ~Carrying(d) BY <1>1, IdleIs DEF Still, Carrying
<1>5. Active(d) => Held(d) \subseteq Held(c)
  <2> SUFFICES ASSUME Still(c, d) PROVE Held(d) \subseteq Held(c)
    BY <1>1, IdleIs
  <2>1. UNION {u.entry.object : u \in Parts(d.todo)} \subseteq UNION {u.entry.object : u \in Parts(c.todo)} BY DEF Still, Like
  <2> QED BY <2>1 DEF Still, Like, Held
<1>6. ASSUME NEW m \in Lanes \ {l}, Carrying(serving[m]) PROVE Unseen(serving[m], m, d)
  <2>1. Own(m) BY DEF StagingInv
  <2>2. /\ \A k \in DOMAIN spaces : serving[m].id \notin SpaceObjects(spaces[k])
        /\ serving[m].id \notin Held(c)
        /\ serving[m].object # {} => serving[m].id \in DOMAIN scraps /\ scraps[serving[m].id] = serving[m].content
    BY <1>2, <1>6, <2>1 DEF Own
  <2> QED BY <1>2, <1>5, <2>2 DEF Unseen
<1>7. ASSUME NEW q \in promises', q.kind = "staged" PROVE Kept(q, d)
  <2>1. q \in promises /\ StagedWell(q) BY <1>7 DEF StillStaged, StagingInv
  <2>2. ASSUME NEW o \in Objects(q), Active(d) PROVE Spares(d, q.at.key, q.at.name, o)
    <3>1. Spares(c, q.at.key, q.at.name, o) BY <1>2, <2>1, <2>2 DEF StagedWell, Objects
    <3>2. Still(c, d) BY <1>1, <2>2, IdleIs
    <3>3. \A u \in Parts(d.todo) : o \notin u.entry.object BY <3>1, <3>2 DEF Spares, Still, Like
    <3> QED BY <3>1, <3>2, <3>3 DEF Spares, Still, Like, From, IsPromotion
  <2> QED BY <1>2, <2>1, <2>2 DEF Kept, StagedWell, Objects
<1> QED BY <1>1, <1>3, <1>4, <1>6, <1>7, StagingStep

LEMMA NotCarrying ==
    ASSUME NEW c, NEW R, NEW n, Well(c, R, n), c.stage \notin {"upload", "read", "save"}
    PROVE  ~(c.request.method = "PUT" /\ c.object # {})
BY DEF Well

LEMMA StillCloses == ASSUME NEW l \in Lanes, WellInv, serving[l] # Idle, Becomes(l, Idle), UNCHANGED <<spaces, scraps>>,
                            \A q \in promises' : q.kind = "staged" => q \in promises
                     PROVE  StillStaged
BY BecomesTurns DEF StillStaged, WellInv, CallsWell

LEMMA StillConcludes ==
    ASSUME WellInv, NEW l \in Lanes, serving[l] # Idle, serving[l].stage \notin {"upload", "read", "save"},
           NEW e, DOMAIN e = CallKeys, Like(serving[l], e), e.pic = serving[l].pic, Concludes(l, e), UNCHANGED <<spaces, scraps>>,
           \A q \in promises' : q.kind = "staged" => q \in promises
    PROVE  StillStaged
<1>1. PICK d : /\ Becomes(l, d)
               /\ d = Idle \/ d = [e EXCEPT !.stage = "read"] \/ d = [e EXCEPT !.stage = "unlist"]
  BY ConcludesIs DEF WellInv, CallsWell
<1>2. Turns(l, d) BY <1>1, BecomesTurns DEF WellInv, CallsWell
<1>3. ASSUME NEW st \in {"read", "unlist"}, d = [e EXCEPT !.stage = st] PROVE Still(serving[l], d)
  <2>1. /\ d.request = e.request /\ d.object = e.object /\ d.space = e.space /\ d.listing = e.listing /\ d.carried = e.carried
        /\ d.todo = e.todo /\ d.pic = e.pic /\ d.contested = e.contested /\ d.stage = st
    BY <1>3 DEF CallKeys
  <2>2. Like(serving[l], d) BY <2>1 DEF Like
  <2>3. ~Carrying(d) BY <2>1, NotCarrying, LaneWell DEF Carrying, Like, WellInv
  <2> QED BY <2>1, <2>2, <2>3 DEF Still
<1> QED BY <1>1, <1>2, <1>3 DEF StillStaged

LEMMA StillTakes ==
    ASSUME WellInv, NEW l \in Lanes, serving[l] # Idle, serving[l].stage \notin {"upload", "read", "save"},
           NEW e, DOMAIN e = CallKeys, e.stage \notin {"upload", "save"}, e.request = serving[l].request, e.object = serving[l].object,
           e.space = serving[l].space, e.listing = serving[l].listing, e.carried = serving[l].carried,
           NEW t, e.todo = t, NEW p, InboxTodo(t, {p}), Takes(l, e, p), UNCHANGED <<spaces, scraps>>,
           \A q \in promises' : q.kind = "staged" => q \in promises
    PROVE  StillStaged
<1>1. PICK b \in BOOLEAN : Turns(l, [e EXCEPT !.pic = {p}, !.contested = b]) BY TakesIs DEF WellInv
<1> DEFINE d == [e EXCEPT !.pic = {p}, !.contested = b]
<1>2. /\ d.request = e.request /\ d.object = e.object /\ d.space = e.space /\ d.listing = e.listing /\ d.carried = e.carried
      /\ d.todo = t /\ d.pic = {p} /\ d.stage = e.stage
  BY DEF CallKeys
<1> HIDE DEF d
<1>3. Like(serving[l], d) BY <1>2 DEF Like, InboxTodo
<1>4. ~Carrying(d) BY <1>2, NotCarrying, LaneWell DEF Carrying, WellInv
<1>5. Still(serving[l], d) BY <1>2, <1>3, <1>4 DEF Still
<1>6. Turns(l, d) BY <1>1 DEF d
<1> QED BY <1>5, <1>6 DEF StillStaged

LEMMA StillLooksPut ==
    ASSUME WellInv, NEW l \in Lanes, serving[l].stage = "look", LooksPut(l, serving[l]), UNCHANGED <<spaces, scraps>>
    PROVE  StillStaged
<1> DEFINE c == serving[l]
<1>1. c # Idle BY IdleIs
<1>2. DOMAIN c = CallKeys BY <1>1, LaneWell DEF WellInv
<1>3. CASE Concludes(l, c) /\ UNCHANGED promises BY <1>1, <1>2, <1>3, StillConcludes DEF Like
<1>4. ASSUME NEW p, NEW t, NEW e, NEW place, InboxTodo(t, {p}), e = c \/ e = [c EXCEPT !.todo = t],
             promises' = promises \cup Told(l, "kept", p, c.content, place, FALSE), Concludes(l, e)
      PROVE  StillStaged
  <2>1. DOMAIN e = CallKeys /\ Like(c, e) /\ e.pic = c.pic BY <1>2, <1>4 DEF Like, CallKeys, InboxTodo
  <2>2. \A q \in promises' : q.kind = "staged" => q \in promises
    <3> DEFINE isDue == FALSE
    <3>1. promises' = promises \cup Told(l, "kept", p, c.content, place, isDue) BY <1>4
    <3> HIDE DEF isDue
    <3> QED BY <3>1, ToldIs
  <2> QED BY <1>1, <1>4, <2>1, <2>2, StillConcludes
<1>5. ASSUME NEW p, NEW e, DOMAIN e = CallKeys, e.stage \in {"snapshot", "apply", "bytes"}, e.request = c.request, e.object = c.object,
           e.space = c.space, e.listing = c.listing, e.carried = c.carried, InboxTodo(e.todo, {p}), NEW replaces,
           promises' = Addressed(p, replaces), Takes(l, e, p)
      PROVE  StillStaged
  <2>1. \A q \in promises' : q.kind = "staged" => q \in promises BY <1>5, AddressedIs DEF WellInv
  <2> QED BY <1>1, <1>5, <2>1, StillTakes
<1>6. ASSUME NEW p, promises' = Addressed(p, TRUE), Takes(l, [c EXCEPT !.stage = "snapshot"], p) PROVE StillStaged
  <2>1. c.todo = << >> BY <1>1, LaneWell DEF WellInv, Well
  <2>2. InboxTodo(c.todo, {p}) BY <2>1, NoPart DEF InboxTodo
  <2> QED BY <1>2, <1>5, <1>6, <2>2 DEF CallKeys
<1>7. ASSUME NEW p, NEW st \in {"apply", "bytes"}, NEW t, NEW change, InboxTodo(t, {p}), promises' = Addressed(p, FALSE),
             Takes(l, [c EXCEPT !.stage = st, !.todo = t, !.change = change], p)
      PROVE  StillStaged
  BY <1>2, <1>5, <1>7 DEF CallKeys
<1>8. CASE Closes(l) BY <1>1, <1>8, StillCloses DEF Closes
<1> QED BY <1>3, <1>4, <1>6, <1>7, <1>8 DEF LooksPut

LEMMA StillFinds ==
    ASSUME WellInv, NEW l \in Lanes, serving[l].stage = "look", Finds(l, serving[l]), UNCHANGED <<spaces, scraps>>
    PROVE  StillStaged
<1> DEFINE c == serving[l]
<1>1. c # Idle BY IdleIs
<1>2. DOMAIN c = CallKeys BY <1>1, LaneWell DEF WellInv
<1>3. CASE Closes(l) BY <1>1, <1>3, StillCloses DEF Closes
<1>4. ASSUME NEW p \in DOMAIN photos, NEW st \in {"trash", "apply"}, NEW t, NEW change, InboxTodo(t, {p}), promises' = Addressed(p, FALSE),
             Takes(l, [c EXCEPT !.stage = st, !.todo = t, !.change = change], p)
      PROVE  StillStaged
  <2>1. \A q \in promises' : q.kind = "staged" => q \in promises BY <1>4, AddressedIs DEF WellInv
  <2> DEFINE e == [c EXCEPT !.stage = st, !.todo = t, !.change = change]
  <2>2. /\ DOMAIN e = CallKeys /\ e.stage = st /\ e.request = c.request /\ e.object = c.object
        /\ e.space = c.space /\ e.listing = c.listing /\ e.carried = c.carried /\ e.todo = t /\ Takes(l, e, p)
    BY <1>2, <1>4 DEF CallKeys
  <2> HIDE DEF e
  <2> QED BY <1>1, <1>4, <2>1, <2>2, StillTakes
<1> QED BY <1>3, <1>4 DEF Finds

LEMMA StillGoesOn ==
    ASSUME WellInv, NEW l \in Lanes, serving[l].stage \in Writing, NEW st \in {"bytes", "hash", "row", "enqueue", "apply"},
           Becomes(l, [serving[l] EXCEPT !.stage = st]), UNCHANGED <<spaces, scraps>>, promises' = promises
    PROVE  StillStaged
<1> DEFINE c == serving[l]
           d == [c EXCEPT !.stage = st]
<1>1. c # Idle BY IdleIs DEF Writing
<1>2. DOMAIN c = CallKeys BY <1>1, LaneWell DEF WellInv
<1>3. /\ d.request = c.request /\ d.object = c.object /\ d.space = c.space /\ d.listing = c.listing /\ d.carried = c.carried
      /\ d.todo = c.todo /\ d.pic = c.pic /\ d.contested = c.contested /\ d.stage = st
  BY <1>2 DEF CallKeys
<1>4. Turns(l, d) BY BecomesTurns DEF WellInv, CallsWell
<1> HIDE DEF d
<1>5. ~Carrying(d) BY <1>1, <1>3, NotCarrying, LaneWell DEF Carrying, WellInv, Writing
<1>6. Still(c, d) BY <1>3, <1>5 DEF Still, Like
<1> QED BY <1>1, <1>4, <1>6 DEF StillStaged

LEMMA StillDone ==
    ASSUME WellInv, NEW l \in Lanes, serving[l].stage \in {"enqueue", "apply", "trash"}, Concludes(l, serving[l]), UNCHANGED <<spaces, scraps>>,
           NEW p, NEW kind \in {"kept", "gone"}, NEW content, NEW place, NEW isDue,
           promises' = promises \cup Told(l, kind, p, content, place, isDue)
    PROVE  StillStaged
<1>1. serving[l] # Idle BY IdleIs
<1>2. DOMAIN serving[l] = CallKeys BY <1>1, LaneWell DEF WellInv
<1>3. \A q \in promises' : q.kind = "staged" => q \in promises BY ToldIs
<1>4. Like(serving[l], serving[l]) BY DEF Like
<1> QED BY <1>1, <1>2, <1>3, <1>4, StillConcludes

LEMMA PlacesStill ==
    ASSUME WellInv, Snapshot \/ PutBytes \/ SetHash \/ Enqueue \/ InsertRow \/ Apply \/ Trash \/ Backup
                    \/ DeleteDir \/ Mkcol \/ MoveEmptyDir \/ RequestDies \/ LookPut \/ DeleteFile \/ MoveFile
    PROVE  StillStaged
<1>1. CASE Snapshot
  <2>1. PICK l \in Lanes : serving[l].stage = "snapshot" /\ Becomes(l, [serving[l] EXCEPT !.stage = "bytes"])
                           /\ UNCHANGED <<photos, due, meta, stores, spaces, promises, menu, served, deaths>>
    BY <1>1 DEF Snapshot
  <2> QED BY <2>1, StillGoesOn DEF Writing, stores
<1>2. CASE PutBytes
  <2>0. PICK l \in Lanes : \E d : PutsNext(l, d) BY <1>2, PutBytesIs
  <2>00. PICK d : PutsNext(l, d) BY <2>0
  <2>1. \E p \in serving[l].pic :
             /\ serving[l].stage = "bytes" /\ Becomes(l, d) /\ PutsBytes(l, serving[l], p, d) /\ UNCHANGED promises
             /\ UNCHANGED <<rows, scraps, spaces, menu, served, deaths>>
    BY <2>00 DEF PutsNext
  <2>2. d = Idle \/ d = [serving[l] EXCEPT !.stage = "hash"] \/ d = [serving[l] EXCEPT !.stage = "row"] BY <2>1 DEF PutsBytes
  <2>3. CASE d = Idle BY <2>1, <2>3, IdleIs, StillCloses
  <2>4. CASE d = [serving[l] EXCEPT !.stage = "hash"] BY <2>1, <2>4, StillGoesOn DEF Writing
  <2>5. CASE d = [serving[l] EXCEPT !.stage = "row"] BY <2>1, <2>5, StillGoesOn DEF Writing
  <2> QED BY <2>2, <2>3, <2>4, <2>5
<1>3. CASE SetHash
  <2>1. PICK l \in Lanes, p \in DOMAIN photos :
        /\ serving[l].stage = "hash" /\ Becomes(l, [serving[l] EXCEPT !.stage = "enqueue"])
        /\ UNCHANGED <<due, versions, meta, stores, spaces, promises, menu, served, deaths>>
    BY <1>3 DEF SetHash
  <2> QED BY <2>1, StillGoesOn DEF Writing, stores
<1>4. CASE InsertRow
  <2>1. PICK l \in Lanes :
        /\ serving[l].stage = "row" /\ Becomes(l, [serving[l] EXCEPT !.stage = "apply"])
        /\ UNCHANGED <<versions, meta, stores, spaces, promises, menu, served, deaths>>
    BY <1>4 DEF InsertRow
  <2> QED BY <2>1, StillGoesOn DEF Writing, stores
<1>5. CASE Enqueue
  <2>1. PICK l \in Lanes, p \in DOMAIN photos :
        /\ serving[l].stage = "enqueue"
        /\ promises' = promises \cup Told(l, "kept", p, serving[l].content, {Front(Destination(serving[l]))}, TRUE)
        /\ Concludes(l, serving[l]) /\ UNCHANGED <<photos, versions, meta, stores, spaces, menu, served, deaths>>
    BY <1>5 DEF Enqueue
  <2> DEFINE isDue == TRUE
  <2>2. promises' = promises \cup Told(l, "kept", p, serving[l].content, {Front(Destination(serving[l]))}, isDue) BY <2>1
  <2> HIDE DEF isDue
  <2> QED BY <2>1, <2>2, StillDone DEF stores
<1>6. CASE Trash
  <2>1. PICK l \in Lanes, p \in DOMAIN photos :
        /\ serving[l].stage = "trash"
        /\ promises' = promises \cup Told(l, "gone", p, photos[p].hash, serving[l].change.place, FALSE)
        /\ Concludes(l, serving[l]) /\ UNCHANGED <<due, versions, meta, stores, spaces, menu, served, deaths>>
    BY <1>6 DEF Trash
  <2> DEFINE isDue == FALSE
  <2>2. promises' = promises \cup Told(l, "gone", p, photos[p].hash, serving[l].change.place, isDue) BY <2>1
  <2> HIDE DEF isDue
  <2> QED BY <2>1, <2>2, StillDone DEF stores
<1>7. CASE Apply
  <2>1. PICK l \in Lanes, p \in DOMAIN photos :
             /\ serving[l].stage = "apply" /\ serving[l].pic = {p}
             /\ \/ Closes(l) /\ UNCHANGED photos
                \/ /\ DOMAIN photos' = DOMAIN photos /\ \A r \in DOMAIN photos : DOMAIN photos'[r] = RowKeys /\ photos'[r].hash = photos[r].hash
                   /\ \E kind \in {"kept", "gone"} : \E place : promises' = promises \cup
                            Told(l, kind, p, photos[p].hash, place, serving[l].request.method = "PUT" /\ p = 100 + serving[l].id)
                   /\ Concludes(l, serving[l])
             /\ UNCHANGED <<due, versions, meta, stores, spaces, menu, served, deaths>>
    BY <1>7, ApplyIs
  <2>2. CASE Closes(l) BY <2>1, <2>2, IdleIs, StillCloses DEF Closes, stores
  <2>3. CASE ~Closes(l)
    <3> DEFINE isDue == serving[l].request.method = "PUT" /\ p = 100 + serving[l].id
    <3>0. PICK kind \in {"kept", "gone"} : \E place : promises' = promises \cup Told(l, kind, p, photos[p].hash, place, isDue)
      BY <2>1, <2>3
    <3>1. PICK place : promises' = promises \cup Told(l, kind, p, photos[p].hash, place, isDue)
      BY <3>0
    <3> HIDE DEF isDue
    <3> QED BY <2>1, <2>3, <3>1, StillDone DEF stores
  <2> QED BY <2>2, <2>3
<1>8. CASE Backup
  <2>1. PICK l \in Lanes : serving[l].stage = "backup" /\ Backup!(l)!2 /\ UNCHANGED <<rows, stores, spaces, promises, menu, served, deaths>>
    BY <1>8 DEF Backup
  <2> DEFINE c == serving[l]
             u == Update("put", Place("scratch", c.request.to), File({}, Entry(c.root, c.request.from), Empty))
             d == [c EXCEPT !.stage = "read", !.todo = <<u>>]
  <2>2. Becomes(l, Idle) \/ Becomes(l, d) BY <2>1
  <2>3. c # Idle BY <2>1, IdleIs
  <2>4. Well(c, DOMAIN photos, served) /\ DOMAIN c = CallKeys BY <2>3, LaneWell DEF WellInv
  <2>5. Parts(<<u>>) = {u} /\ u.entry.object = {} BY OnePart DEF Update, File
  <2> HIDE DEF u
  <2>6. /\ d.request = c.request /\ d.object = c.object /\ d.space = c.space /\ d.listing = c.listing /\ d.carried = c.carried
        /\ d.todo = <<u>> /\ d.pic = c.pic /\ d.contested = c.contested /\ d.stage = "read"
    BY <2>4 DEF CallKeys
  <2>7. ~Carrying(d) BY <2>1, <2>4, <2>6, NotCarrying DEF Carrying
  <2>8. Still(c, d) BY <2>5, <2>6, <2>7 DEF Still, Like
  <2> HIDE DEF d
  <2>9. CASE Becomes(l, d)
    <3>1. Turns(l, d) BY <2>9, BecomesTurns DEF WellInv, CallsWell
    <3> QED BY <2>1, <2>3, <2>8, <3>1 DEF StillStaged, stores
  <2>10. CASE Becomes(l, Idle) BY <2>1, <2>3, <2>10, StillCloses DEF stores
  <2> QED BY <2>2, <2>9, <2>10
<1>9. CASE DeleteDir \/ Mkcol \/ MoveEmptyDir \/ RequestDies
  <2>1. PICK l \in Lanes : serving[l] # Idle /\ Closes(l) /\ UNCHANGED <<photos, due, versions, stores, spaces, menu>>
    BY <1>9, ClosingWell
  <2> QED BY <2>1, StillCloses DEF stores, Closes
<1>10. CASE LookPut
  <2>1. PICK l \in Lanes : serving[l].stage = "look" /\ LooksPut(l, serving[l]) /\ UNCHANGED <<rows, stores, spaces, menu, served, deaths>>
    BY <1>10, LookPutIs
  <2> QED BY <2>1, StillLooksPut DEF stores
<1>11. CASE DeleteFile \/ MoveFile
  <2>1. PICK l \in Lanes : serving[l].stage = "look" /\ Finds(l, serving[l]) /\ UNCHANGED <<stores, spaces>>
    BY <1>11, DeleteFileIs, MoveFileIs
  <2> QED BY <2>1, StillFinds DEF stores
<1> QED BY <1>1, <1>2, <1>3, <1>4, <1>5, <1>6, <1>7, <1>8, <1>9, <1>10, <1>11

AllObjects == UNION {SpaceObjects(spaces[k]) : k \in DOMAIN spaces}

LEMMA InSpace == \A s, o : o \in SpaceObjects(s) <=> \E x \in DOMAIN s.files : o \in s.files[x].object
BY DEF SpaceObjects

LEMMA FoundIn == ASSUME NEW key, NEW o \in SpaceObjects(Space(key))
                 PROVE  key \in DOMAIN spaces /\ o \in SpaceObjects(spaces[key]) /\ o \in AllObjects
<1>1. SpaceObjects(NoSpace) = {} BY DEF SpaceObjects, NoSpace
<1>2. key \in DOMAIN spaces /\ Space(key) = spaces[key] BY <1>1 DEF Space
<1> QED BY <1>2 DEF AllObjects

(* steps keep the ids of requests that carry new objects out of sight *)
LEMMA UnseenStays ==
    ASSUME WellInv, StagingInv, NEW l \in Lanes, serving[l] # Idle, NEW d, NEW m \in Lanes \ {l}, Carrying(serving[m]),
           \A k \in DOMAIN spaces' : SpaceObjects(spaces'[k]) \subseteq AllObjects \cup Held(serving[l]),
           Active(d) => Held(d) \subseteq AllObjects \cup Held(serving[l]) \cup {serving[l].id},
           \A o \in DOMAIN scraps : o \in AllObjects \cup Held(serving[l]) \cup {serving[l].id} \/ (o \in DOMAIN scraps' /\ scraps'[o] = scraps[o])
    PROVE  Unseen(serving[m], m, d)
<1> DEFINE i == serving[m].id
<1>1. Active(serving[l]) BY LaneWell DEF WellInv
<1>2. Active(serving[m]) BY DEF Carrying
<1>3. i # serving[l].id BY <1>1, <1>2 DEF WellInv, IdsDiffer
<1>4. Own(m) BY DEF StagingInv
<1>5. /\ i \notin AllObjects /\ i \notin Held(serving[l])
      /\ serving[m].object # {} => i \in DOMAIN scraps /\ scraps[i] = serving[m].content
  BY <1>1, <1>4 DEF Own, AllObjects
<1> QED BY <1>3, <1>5 DEF Unseen

(* where the objects of a promise are *)
LEMMA StagedOnly ==
    ASSUME StagingInv, NEW q \in promises, q.kind = "staged"
    PROVE  /\ q.at = [key |-> q.at.key, name |-> q.at.name] /\ q.at.key \in DOMAIN spaces /\ q.at.key[1] = "scratch"
           /\ q.at.name \in DOMAIN spaces[q.at.key].files /\ Objects(q) # {} /\ Space(q.at.key) = spaces[q.at.key]
           /\ \A o \in Objects(q) :
                /\ o \in DOMAIN scraps /\ scraps[o] = q.content
                /\ \A k \in DOMAIN spaces : \A x \in DOMAIN spaces[k].files :
                      o \in spaces[k].files[x].object => k = q.at.key /\ x = q.at.name
                /\ \A key : key # q.at.key => o \notin SpaceObjects(Space(key))
                /\ \A l \in Lanes : Active(serving[l]) => Spares(serving[l], q.at.key, q.at.name, o)
<1>1. StagedWell(q) BY DEF StagingInv
<1>2. ASSUME NEW o \in Objects(q), NEW key, key # q.at.key PROVE o \notin SpaceObjects(Space(key))
  <2> SUFFICES ASSUME o \in SpaceObjects(Space(key)) PROVE FALSE
    OBVIOUS
  <2>1. key \in DOMAIN spaces /\ o \in SpaceObjects(spaces[key]) BY FoundIn
  <2>2. PICK x \in DOMAIN spaces[key].files : o \in spaces[key].files[x].object BY <2>1, InSpace
  <2> QED BY <1>1, <1>2, <2>1, <2>2 DEF StagedWell, Objects
<1> HIDE DEF Spares
<1> QED BY <1>1, <1>2 DEF StagedWell, Objects, Space

LEMMA OneListing ==
    ASSUME StagingInv, NEW q \in promises, q.kind = "staged", NEW o \in Objects(q)
    PROVE  \A k \in DOMAIN spaces : \A x \in DOMAIN spaces[k].files :
              o \in spaces[k].files[x].object => k = q.at.key /\ x = q.at.name
<1> USE DEF StagingInv
<1>1. StagedWell(q) OBVIOUS
<1> HIDE DEF StagingInv
<1> QED BY <1>1 DEF StagedWell, Objects

(* an old promise, when only objects at other names go and no object of it is added *)
LEMMA StaysKept ==
    ASSUME StagingInv, NEW q \in promises, q.kind = "staged", NEW d,
           spaces' = spaces,
           \A o \in Objects(q) : o \in DOMAIN scraps' /\ scraps'[o] = scraps[o],
           \A o \in Objects(q) : Active(d) => Spares(d, q.at.key, q.at.name, o)
    PROVE  Kept(q, d)
<1>1. /\ q.at.key \in DOMAIN spaces /\ q.at.name \in DOMAIN spaces[q.at.key].files
      /\ \A o \in Objects(q) :
            \A k \in DOMAIN spaces : \A x \in DOMAIN spaces[k].files :
                      o \in spaces[k].files[x].object => k = q.at.key /\ x = q.at.name
  BY StagedOnly
<1> HIDE DEF Spares
<1> QED BY <1>1 DEF Kept

LEMMA UploadStaging == ASSUME WellInv, StagingInv, Upload PROVE StagingInv'
<1>1. PICK l \in Lanes :
        /\ serving[l].stage = "upload"
        /\ scraps' = Entered(scraps, serving[l].id, serving[l].content)
        /\ Becomes(l, [serving[l] EXCEPT !.stage = "read", !.object = {serving[l].id},
                !.todo = <<Update("put", Place("scratch", serving[l].request.from),
                                  File({serving[l].id}, {}, serving[l].content))>>])
        /\ UNCHANGED <<rows, bytes, spaces, promises, menu, served, deaths>>
  BY DEF Upload
<1> DEFINE c == serving[l]
           u == Update("put", Place("scratch", c.request.from), File({c.id}, {}, c.content))
           d == [c EXCEPT !.stage = "read", !.object = {c.id}, !.todo = <<u>>]
<1>2. c # Idle BY <1>1, IdleIs
<1>3. Well(c, DOMAIN photos, served) /\ DOMAIN c = CallKeys /\ Active(c) BY <1>2, LaneWell DEF WellInv
<1>4. c.request.method = "PUT" /\ ~IsPromotion(c) BY <1>1, <1>3 DEF Well, IsPromotion
<1>5. Parts(<<u>>) = {u} /\ u.entry.object = {c.id} BY OnePart DEF Update, File
<1> HIDE DEF u
<1>6. /\ d.request = c.request /\ d.object = {c.id} /\ d.space = c.space /\ d.listing = c.listing /\ d.carried = c.carried
      /\ d.todo = <<u>> /\ d.pic = c.pic /\ d.contested = c.contested /\ d.stage = "read" /\ d.id = c.id /\ d.content = c.content
  BY <1>3 DEF CallKeys
<1>7. Turns(l, d) BY <1>1, BecomesTurns DEF WellInv, CallsWell, u
<1> HIDE DEF d
<1>8. DOMAIN scraps' = DOMAIN scraps \cup {c.id} /\ scraps'[c.id] = c.content /\ \A o \in DOMAIN scraps \ {c.id} : scraps'[o] = scraps[o]
  <2> DEFINE i == c.id
             b == c.content
  <2>1. scraps' = Entered(scraps, i, b) BY <1>1
  <2> HIDE DEF i, b
  <2>2. DOMAIN scraps' = DOMAIN scraps \cup {i} BY <2>1, PutIs
  <2>3. scraps'[i] = b BY <2>1, PutIs
  <2>4. \A o \in DOMAIN scraps \ {i} : scraps'[o] = scraps[o] BY <2>1, PutIs
  <2> QED BY <2>2, <2>3, <2>4 DEF i, b
<1>9. Own(l) /\ Carrying(c) BY <1>1, <1>3 DEF StagingInv, Carrying
<1>10. spaces' = spaces /\ promises' = promises BY <1>1
<1>11. Held(d) \subseteq Held(c) \cup {c.id}
  <2> SUFFICES ASSUME NEW o \in Held(d), o # c.id PROVE o \in Held(c)
    OBVIOUS
  <2>1. ASSUME NEW v \in Parts(d.todo) PROVE o \notin v.entry.object BY <1>5, <1>6, <2>1
  <2>2. \/ o \in SpaceObjects(d.space) \/ o \in SpaceObjects(d.listing) \/ \E e \in d.carried : o \in e.object
    BY <1>6, <2>1 DEF Held
  <2>3. SpaceObjects(d.space) = SpaceObjects(c.space) /\ SpaceObjects(d.listing) = SpaceObjects(c.listing) BY <1>6
  <2>4. \/ o \in SpaceObjects(c.space) \/ o \in SpaceObjects(c.listing) \/ \E e \in c.carried : o \in e.object
    BY <1>6, <2>2, <2>3
  <2> HIDE DEF SpaceObjects
  <2> QED BY <2>4 DEF Held
<1>12. \A m \in Lanes \ {l} : Active(serving[m]) /\ StagesOf(serving[m].request) /\ Active(d) /\ StagesOf(d.request) =>
              /\ Handles(d) => d.contested
              /\ Handles(serving[m]) => serving'[m].contested
  BY <1>2, <1>6, <1>7, StillTogether
<1>13. Carrying(d) =>
              /\ \A k \in DOMAIN spaces' : d.id \notin SpaceObjects(spaces'[k])
              /\ \A m \in Lanes \ {l} : Active(serving[m]) => d.id \notin Held(serving[m])
              /\ d.id \notin SpaceObjects(d.space)
              /\ d.object # {} => d.id \in DOMAIN scraps' /\ scraps'[d.id] = d.content
  BY <1>6, <1>8, <1>9, <1>10 DEF Own
<1>14. \A m \in Lanes \ {l} : Carrying(serving[m]) => Unseen(serving[m], m, d)
  <2>1. \A k \in DOMAIN spaces' : SpaceObjects(spaces'[k]) \subseteq AllObjects \cup Held(c) BY <1>10 DEF AllObjects
  <2> QED BY <1>2, <1>8, <1>11, <2>1, UnseenStays
<1>15. ASSUME NEW q \in promises', q.kind = "staged" PROVE Kept(q, d)
  <2>1. ASSUME NEW o \in Objects(q)
        PROVE  o \in DOMAIN scraps' /\ scraps'[o] = scraps[o] /\ Spares(d, q.at.key, q.at.name, o)
    <3>1. Spares(c, q.at.key, q.at.name, o) /\ o \in DOMAIN scraps BY <1>3, <1>10, <1>15, <2>1, StagedOnly
    <3>2. o # c.id BY <1>1, <3>1 DEF Spares
    <3>3. \A v \in Parts(d.todo) : o \notin v.entry.object BY <1>5, <1>6, <3>2
    <3> QED BY <1>4, <1>6, <1>8, <3>1, <3>2, <3>3 DEF Spares, From, IsPromotion
  <2> HIDE DEF Spares
  <2> QED BY <1>10, <1>15, <2>1, StaysKept
<1> QED BY <1>7, <1>12, <1>13, <1>14, <1>15, StagingStep

(* a request that has read an entry *)
LEMMA ReadIs ==
    ASSUME WellInv, NEW l \in Lanes, serving[l].stage = "read", NEW d,
           NEW u, u = Head(serving[l].todo), NEW s, s = Space(u.at.key), Read(serving[l], u, s, d), d # Idle
    PROVE  LET c == serving[l]
           IN  /\ c # Idle /\ Well(c, DOMAIN photos, served) /\ Active(c) /\ DOMAIN c = CallKeys /\ u \in Parts(c.todo) /\ Chore(c, u, DOMAIN photos, served)
               /\ d.request = c.request /\ d.id = c.id /\ d.pic = c.pic /\ d.contested = c.contested /\ d.stage \in {"save", "look"}
               /\ d.stage = "save" => d.object = c.object /\ d.listing = c.listing /\ d.todo = c.todo /\ d.content = c.content /\ d.space = s
               /\ d.stage = "look" => /\ c.request.method # "PUT" /\ u.at = From(c) /\ d.listing = s /\ d.todo = << >> /\ d.space = c.space
                                      /\ \E e \in EntryAt(u, s) : d.object = e.object
               /\ d.carried = c.carried \/ d.carried = EntryAt(u, s)
<1> DEFINE c == serving[l]
<1>1. c # Idle BY IdleIs
<1>2. /\ Well(c, DOMAIN photos, served) /\ Active(c) /\ DOMAIN c = CallKeys /\ u \in Parts(c.todo) /\ Chore(c, u, DOMAIN photos, served)
  BY <1>1, LaneWell DEF WellInv
<1>3. CASE d = [c EXCEPT !.stage = "save", !.space = s] BY <1>1, <1>2, <1>3 DEF CallKeys
<1>4. CASE d = [c EXCEPT !.stage = "save", !.space = s, !.carried = EntryAt(u, s)] BY <1>1, <1>2, <1>4 DEF CallKeys
<1>5. ASSUME u.op = "fetch", NEW e \in EntryAt(u, s),
             d = [c EXCEPT !.stage = "look", !.listing = s, !.todo = << >>, !.object = e.object, !.content = e.content]
      PROVE  /\ d.request = c.request /\ d.id = c.id /\ d.pic = c.pic /\ d.contested = c.contested /\ d.stage = "look"
             /\ c.request.method # "PUT" /\ u.at = From(c) /\ d.listing = s /\ d.todo = << >> /\ d.space = c.space
             /\ d.object = e.object /\ d.carried = c.carried
  BY <1>2, <1>5 DEF CallKeys, Chore
<1> QED BY <1>1, <1>2, <1>3, <1>4, <1>5 DEF Read

LEMMA ReadSpaceStaging == ASSUME WellInv, StagingInv, ReadSpace PROVE StagingInv'
<1>0. PICK l \in Lanes : \E d : Reads(l, d) BY ReadSpaceIs DEF WellInv
<1>00. PICK d : Reads(l, d) BY <1>0
<1>1. LET c == serving[l]
          u == Head(c.todo)
          s == Space(u.at.key)
      IN  /\ c.stage = "read" /\ Becomes(l, d) /\ Read(c, u, s, d)
          /\ scraps' = Restrict(scraps, DOMAIN scraps \ Replaced(u, s))
          /\ promises' = {q \in promises : q.kind = "staged" => q.at # u.at}
          /\ UNCHANGED <<rows, bytes, spaces, menu, served, deaths>>
  BY <1>00 DEF Reads
<1>2. PICK u : u = Head(serving[l].todo) OBVIOUS
<1>3. PICK s : s = Space(u.at.key) OBVIOUS
<1> DEFINE c == serving[l]
<1>4. /\ c.stage = "read" /\ Becomes(l, d) /\ Read(c, u, s, d) /\ scraps' = Restrict(scraps, DOMAIN scraps \ Replaced(u, s))
      /\ promises' = {q \in promises : q.kind = "staged" => q.at # u.at} /\ spaces' = spaces
  BY <1>1, <1>2, <1>3
<1>5. c # Idle /\ Turns(l, d) BY <1>4, IdleIs, BecomesTurns DEF WellInv, CallsWell
<1>6. \A e \in EntryAt(u, s) : e.object \subseteq SpaceObjects(s) BY DEF EntryAt, SpaceObjects
<1>7. SpaceObjects(s) \subseteq AllObjects BY <1>3, FoundIn
<1>8. DOMAIN scraps' = DOMAIN scraps \ Replaced(u, s) /\ \A o \in DOMAIN scraps' : scraps'[o] = scraps[o]
  BY <1>4, RestrictIs
<1>9. Replaced(u, s) \subseteq SpaceObjects(s) BY DEF Replaced, SpaceObjects
<1> DEFINE Facts == 
             /\ d.request = c.request /\ d.id = c.id /\ d.pic = c.pic /\ d.contested = c.contested /\ d.stage \in {"save", "look"}
             /\ d.stage = "save" => d.object = c.object /\ d.listing = c.listing /\ d.todo = c.todo /\ d.content = c.content /\ d.space = s
             /\ d.stage = "look" => /\ c.request.method # "PUT" /\ u.at = From(c) /\ d.listing = s /\ d.todo = << >> /\ d.space = c.space
                                    /\ \E e \in EntryAt(u, s) : d.object = e.object
             /\ d.carried = c.carried \/ d.carried = EntryAt(u, s)
<1>10. d = Idle \/ Facts
  <2>1. c.stage = "read" /\ Read(c, u, s, d) BY <1>4
  <2>2. ASSUME d # Idle PROVE Facts BY <1>2, <1>3, <2>1, <2>2, ReadIs
  <2> QED BY <2>2
<1>11. Active(d) => Held(d) \subseteq AllObjects \cup Held(c) \cup {c.id}
  <2> SUFFICES ASSUME Facts PROVE Held(d) \subseteq AllObjects \cup Held(c)
    BY <1>10, IdleIs
  <2>1. UNION {e.object : e \in d.carried} \subseteq SpaceObjects(s) \cup Held(c) BY <1>6 DEF Held
  <2>2. CASE d.stage = "save" BY <1>7, <2>1, <2>2 DEF Held
  <2>3. CASE d.stage = "look"
    <3>1. d.object \subseteq SpaceObjects(s) BY <1>6, <2>3
    <3>2. UNION {v.entry.object : v \in Parts(d.todo)} = {} BY <2>3, NoPart
    <3> QED BY <1>7, <2>1, <2>3, <3>1, <3>2 DEF Held
  <2> QED BY <2>2, <2>3
<1>12. \A m \in Lanes \ {l} : Active(serving[m]) /\ StagesOf(serving[m].request) /\ Active(d) /\ StagesOf(d.request) =>
              /\ Handles(d) => d.contested
              /\ Handles(serving[m]) => serving'[m].contested
  BY <1>5, <1>10, StillTogether
<1>13. Carrying(d) =>
              /\ \A k \in DOMAIN spaces' : d.id \notin SpaceObjects(spaces'[k])
              /\ \A m \in Lanes \ {l} : Active(serving[m]) => d.id \notin Held(serving[m])
              /\ d.id \notin SpaceObjects(d.space)
              /\ d.object # {} => d.id \in DOMAIN scraps' /\ scraps'[d.id] = d.content
  <2> SUFFICES ASSUME Carrying(d) PROVE
              /\ \A k \in DOMAIN spaces' : d.id \notin SpaceObjects(spaces'[k])
              /\ \A m \in Lanes \ {l} : Active(serving[m]) => d.id \notin Held(serving[m])
              /\ d.id \notin SpaceObjects(d.space)
              /\ d.object # {} => d.id \in DOMAIN scraps' /\ scraps'[d.id] = d.content
    OBVIOUS
  <2>1. Facts /\ d.stage = "save" BY <1>10, IdleIs DEF Carrying
  <2>2. Active(c) BY <1>5, LaneWell DEF WellInv
  <2>3. Carrying(c) /\ Own(l) BY <2>1, <2>2 DEF Carrying, StagingInv
  <2>4. c.id \notin SpaceObjects(s)
    <3>1. c.id \notin AllObjects BY <2>3 DEF Own, AllObjects
    <3> QED BY <1>7, <3>1
  <2> QED BY <1>4, <1>8, <1>9, <2>1, <2>3, <2>4 DEF Own
<1>14. \A m \in Lanes \ {l} : Carrying(serving[m]) => Unseen(serving[m], m, d)
  <2>1. \A k \in DOMAIN spaces' : SpaceObjects(spaces'[k]) \subseteq AllObjects \cup Held(c) BY <1>4 DEF AllObjects
  <2>2. \A o \in DOMAIN scraps : o \in AllObjects \cup Held(c) \cup {c.id} \/ (o \in DOMAIN scraps' /\ scraps'[o] = scraps[o])
    BY <1>7, <1>8, <1>9
  <2> QED BY <1>5, <1>11, <2>1, <2>2, UnseenStays
<1>16. Sited(u) BY <1>2, <1>4, <1>5, LaneWell DEF WellInv, Chore
<1>15. ASSUME NEW q \in promises', q.kind = "staged" PROVE Kept(q, d)
  <2>1. q \in promises /\ q.at # u.at BY <1>4, <1>15
  <2>2. ASSUME NEW o \in Objects(q)
        PROVE  /\ o \in DOMAIN scraps' /\ scraps'[o] = scraps[o]
               /\ \A e \in EntryAt(u, s) : o \notin e.object
               /\ u.at.key # q.at.key => o \notin SpaceObjects(s)
    <3>1. o \in DOMAIN scraps BY <1>15, <2>1, <2>2, StagedOnly
    <3>2. CASE u.at.key # q.at.key
      <4>1. o \notin SpaceObjects(s) BY <1>3, <1>15, <2>1, <2>2, <3>2, StagedOnly
      <4> QED BY <1>6, <1>8, <1>9, <3>1, <3>2, <4>1
    <3>3. CASE u.at.key = q.at.key
      <4>1. q.at.key \in DOMAIN spaces /\ s = spaces[q.at.key] BY <1>3, <1>15, <2>1, <3>3, StagedOnly
      <4>2. u.at.name # q.at.name BY <1>15, <2>1, <3>3, <1>16, StagedOnly DEF Sited
      <4>3. \A x \in DOMAIN s.files : o \in s.files[x].object => x = q.at.name
        <5>1. \A k \in DOMAIN spaces : \A x \in DOMAIN spaces[k].files :
                      o \in spaces[k].files[x].object => k = q.at.key /\ x = q.at.name
          BY <1>15, <2>1, <2>2, OneListing
        <5> QED BY <4>1, <5>1
      <4>4. o \notin Replaced(u, s) /\ \A e \in EntryAt(u, s) : o \notin e.object
        BY <4>2, <4>3 DEF Replaced, EntryAt
      <4> QED BY <1>8, <3>1, <3>3, <4>4
    <3> QED BY <3>2, <3>3
  <2>3. ASSUME NEW o \in Objects(q), Active(d) PROVE Spares(d, q.at.key, q.at.name, o)
    <3>1. Active(c) BY <1>5, LaneWell DEF WellInv
    <3>2. Spares(c, q.at.key, q.at.name, o) BY <1>15, <2>1, <2>3, <3>1, StagedOnly
    <3>3. Facts BY <1>10, <2>3, IdleIs
    <3>4. q.at = [key |-> q.at.key, name |-> q.at.name] BY <1>15, <2>1, StagedOnly
    <3>5. (\A e \in EntryAt(u, s) : o \notin e.object) /\ (u.at.key # q.at.key => o \notin SpaceObjects(s)) BY <2>2, <2>3
    <3>6. \A e \in d.carried : o \notin e.object BY <3>2, <3>3, <3>5 DEF Spares
    <3>7. From(d) = From(c) /\ (IsPromotion(d) <=> IsPromotion(c)) BY <3>3 DEF From, IsPromotion
    <3>8. CASE d.stage = "save"
      <4>1. u = Head(d.todo) BY <1>2, <3>3, <3>8
      <4>2. o \notin d.object /\ \A v \in Parts(d.todo) : o \notin v.entry.object BY <3>2, <3>3, <3>8 DEF Spares
      <4>3. Head(d.todo).at # [key |-> q.at.key, name |-> q.at.name] BY <2>1, <3>4, <4>1
      <4>4. Head(d.todo).at.key # q.at.key => o \notin SpaceObjects(d.space) BY <3>3, <3>5, <3>8, <4>1
      <4>5. From(d).key # q.at.key => o \notin SpaceObjects(d.listing) BY <3>2, <3>3, <3>7, <3>8 DEF Spares
      <4>6. IsPromotion(d) /\ d.object # {} => From(d) # [key |-> q.at.key, name |-> q.at.name]
        BY <3>2, <3>3, <3>7, <3>8 DEF Spares
      <4> QED BY <3>6, <3>8, <4>2, <4>3, <4>4, <4>5, <4>6 DEF Spares
    <3>9. CASE d.stage = "look"
      <4>1. o \notin d.object /\ Parts(d.todo) = {} BY <3>3, <3>5, <3>9, NoPart
      <4>2. From(d) = u.at /\ d.listing = s BY <3>3, <3>7, <3>9
      <4>3. From(d) # [key |-> q.at.key, name |-> q.at.name] BY <2>1, <3>4, <4>2
      <4> QED BY <3>5, <3>6, <3>9, <4>1, <4>2, <4>3 DEF Spares
    <3> QED BY <3>3, <3>8, <3>9
  <2> HIDE DEF Spares
  <2> QED BY <1>4, <1>15, <2>1, <2>2, <2>3, StaysKept
<1> QED BY <1>5, <1>12, <1>13, <1>14, <1>15, StagingStep

(* an old promise, over the saving of an entry *)
LEMMA SavingKeeps ==
    ASSUME StagingInv, NEW q \in promises, q.kind = "staged", NEW d, NEW key, NEW t, spaces' = Saved(key, t),
           \A o \in Objects(q) : o \in DOMAIN scraps' /\ scraps'[o] = scraps[o],
           \A o \in Objects(q) : Active(d) => Spares(d, q.at.key, q.at.name, o),
           q.at.key # key => \A o \in Objects(q) : o \notin SpaceObjects(t),
           q.at.key = key => /\ q.at.name \in DOMAIN t.files /\ t.files[q.at.name] = Space(key).files[q.at.name]
                             /\ \A o \in Objects(q) : \A x \in DOMAIN t.files : o \in t.files[x].object => x = q.at.name
    PROVE  Kept(q, d)
<1>1. /\ q.at.key \in DOMAIN spaces /\ q.at.name \in DOMAIN spaces[q.at.key].files /\ Space(q.at.key) = spaces[q.at.key]
      /\ \A o \in Objects(q) :
            \A k \in DOMAIN spaces : \A x \in DOMAIN spaces[k].files :
                      o \in spaces[k].files[x].object => k = q.at.key /\ x = q.at.name
  BY StagedOnly
<1>2. /\ DOMAIN spaces' \subseteq DOMAIN spaces \cup {key}
      /\ key \in DOMAIN spaces' => spaces'[key] = t
      /\ t # NoSpace => key \in DOMAIN spaces'
      /\ \A k : k # key => (k \in DOMAIN spaces' <=> k \in DOMAIN spaces) /\ (k \in DOMAIN spaces => spaces'[k] = spaces[k])
  BY SavedIs
<1> HIDE DEF Spares
<1>3. CASE q.at.key # key
  <2>1. q.at.key \in DOMAIN spaces' /\ spaces'[q.at.key] = spaces[q.at.key] BY <1>1, <1>2, <1>3
  <2>2. ASSUME NEW o \in Objects(q), NEW k \in DOMAIN spaces', NEW x \in DOMAIN spaces'[k].files, o \in spaces'[k].files[x].object
        PROVE  k = q.at.key /\ x = q.at.name
    <3>1. CASE k = key
      <4>1. spaces'[k] = t BY <1>2, <3>1
      <4>2. o \in SpaceObjects(t) BY <2>2, <4>1, InSpace
      <4> QED BY <1>3, <2>2, <4>2
    <3>2. CASE k # key BY <1>1, <1>2, <2>2, <3>2
    <3> QED BY <3>1, <3>2
  <2> QED BY <1>1, <2>1, <2>2 DEF Kept
<1>4. CASE q.at.key = key
  <2>1. NoSpace.files = << >> BY DEF NoSpace
  <2>2. t # NoSpace BY <1>4, <2>1
  <2>3. key \in DOMAIN spaces' /\ spaces'[key] = t BY <1>2, <2>2
  <2>4. q.at.name \in DOMAIN spaces'[q.at.key].files /\ spaces'[q.at.key].files[q.at.name] = spaces[q.at.key].files[q.at.name]
    BY <1>1, <1>4, <2>3
  <2>5. ASSUME NEW o \in Objects(q), NEW k \in DOMAIN spaces', NEW x \in DOMAIN spaces'[k].files, o \in spaces'[k].files[x].object
        PROVE  k = q.at.key /\ x = q.at.name
    <3>1. CASE k = key BY <1>4, <2>3, <2>5, <3>1
    <3>2. CASE k # key BY <1>1, <1>2, <2>5, <3>2
    <3> QED BY <3>1, <3>2
  <2> QED BY <1>4, <2>3, <2>4, <2>5 DEF Kept
<1> QED BY <1>3, <1>4

LEMMA EnteredFiles ==
    \A f, n, e, x :
      /\ x \in DOMAIN Entered(f, n, e) => (x = n /\ Entered(f, n, e)[x] = e) \/ (x # n /\ x \in DOMAIN f /\ Entered(f, n, e)[x] = f[x])
      /\ x \in DOMAIN f /\ x # n => x \in DOMAIN Entered(f, n, e) /\ Entered(f, n, e)[x] = f[x]
BY DEF Entered

LEMMA DroppedFiles ==
    \A f, n, x :
      /\ x \in DOMAIN Drop(f, n) => x # n /\ x \in DOMAIN f /\ Drop(f, n)[x] = f[x]
      /\ x \in DOMAIN f /\ x # n => x \in DOMAIN Drop(f, n) /\ Drop(f, n)[x] = f[x]
BY DEF Drop, Restrict

(* the objects of an updated listing *)
LEMMA UpdatedObjects ==
    ASSUME NEW c, NEW u, DOMAIN c.space = {"dirs", "files"}, NEW x \in DOMAIN Updated(c, u).files
    PROVE  \/ x # u.at.name /\ x \in DOMAIN c.space.files /\ Updated(c, u).files[x] = c.space.files[x]
           \/ x = u.at.name /\ u.op = "put" /\ Updated(c, u).files[x] = u.entry
           \/ x = u.at.name /\ Updated(c, u).files[x] \in c.carried
           \/ x = u.at.name /\ x \in DOMAIN c.space.files /\ Updated(c, u).files[x] = c.space.files[x]
<1> DEFINE s == c.space
           n == u.at.name
           t == Updated(c, u)
<1>1. /\ u.op = "put" => t.files = Entered(s.files, n, u.entry)
      /\ u.op = "give" /\ c.carried # {} => \E e \in c.carried : t.files = Entered(s.files, n, e)
      /\ u.op # "put" /\ ~(u.op = "give" /\ c.carried # {}) => t.files = s.files \/ t.files = Drop(s.files, n)
  BY UpdatedIs
<1> HIDE DEF s, n, t
<1>2. x \in DOMAIN t.files BY DEF t
<1>3. ASSUME NEW e, t.files = Entered(s.files, n, e)
      PROVE  (x = n /\ t.files[x] = e) \/ (x # n /\ x \in DOMAIN s.files /\ t.files[x] = s.files[x])
  BY <1>2, <1>3, EnteredFiles
<1>4. CASE u.op = "put" BY <1>1, <1>3, <1>4 DEF s, n, t
<1>5. CASE u.op = "give" /\ c.carried # {} BY <1>1, <1>3, <1>5 DEF s, n, t
<1>6. CASE u.op # "put" /\ ~(u.op = "give" /\ c.carried # {})
  <2>1. CASE t.files = s.files BY <1>2, <2>1 DEF s, n, t
  <2>2. CASE t.files = Drop(s.files, n)
    <3>1. x # n /\ x \in DOMAIN s.files /\ t.files[x] = s.files[x] BY <1>2, <2>2, DroppedFiles
    <3> QED BY <3>1 DEF s, n, t
  <2> QED BY <1>1, <1>6, <2>1, <2>2
<1> QED BY <1>4, <1>5, <1>6

(* and where its other files are *)
LEMMA UpdatedOthers ==
    ASSUME NEW c, NEW u, DOMAIN c.space = {"dirs", "files"}, NEW x \in DOMAIN c.space.files, x # u.at.name
    PROVE  x \in DOMAIN Updated(c, u).files /\ Updated(c, u).files[x] = c.space.files[x]
<1> DEFINE s == c.space
           n == u.at.name
           t == Updated(c, u)
<1>1. /\ u.op = "put" => t.files = Entered(s.files, n, u.entry)
      /\ u.op = "give" /\ c.carried # {} => \E e \in c.carried : t.files = Entered(s.files, n, e)
      /\ u.op # "put" /\ ~(u.op = "give" /\ c.carried # {}) => t.files = s.files \/ t.files = Drop(s.files, n)
  BY UpdatedIs
<1> HIDE DEF s, n, t
<1>2. x \in DOMAIN s.files /\ x # n BY DEF s, n
<1>3. ASSUME NEW e, t.files = Entered(s.files, n, e) PROVE x \in DOMAIN t.files /\ t.files[x] = s.files[x]
  BY <1>2, <1>3, EnteredFiles
<1>4. ASSUME t.files = Drop(s.files, n) PROVE x \in DOMAIN t.files /\ t.files[x] = s.files[x]
  BY <1>2, <1>4, DroppedFiles
<1>5. x \in DOMAIN t.files /\ t.files[x] = s.files[x] BY <1>1, <1>2, <1>3, <1>4
<1> QED BY <1>5 DEF s, t

(* what a request becomes that has saved an update *)
LEMMA SavesIs ==
    ASSUME WellInv, NEW l \in Lanes, serving[l].stage = "save", NEW d, Saves(serving[l], d), d # Idle
    PROVE  LET c == serving[l]
           IN  /\ d.request = c.request /\ d.id = c.id /\ d.pic = c.pic /\ d.contested = c.contested /\ d.stage \in {"sweep", "read", "unlist"}
               /\ d.object = c.object /\ d.space = c.space /\ d.listing = c.listing /\ d.carried = c.carried
               /\ d.todo = Tail(c.todo) /\ Parts(d.todo) \subseteq Parts(c.todo) /\ ~Carrying(d)
<1> DEFINE c == serving[l]
<1>1. c # Idle BY IdleIs
<1>2. Well(c, DOMAIN photos, served) /\ DOMAIN c = CallKeys /\ IsSequence(c.todo) /\ c.todo # << >>
  <2>1. Well(c, DOMAIN photos, served) BY <1>1, LaneWell DEF WellInv
  <2> QED BY <2>1 DEF Well
<1>3. Parts(Tail(c.todo)) \subseteq Parts(c.todo) BY <1>2, HeadPart
<1>4. ASSUME NEW st \in {"sweep", "read", "unlist"}, d = [c EXCEPT !.stage = st, !.todo = Tail(c.todo)]
      PROVE  /\ d.request = c.request /\ d.id = c.id /\ d.pic = c.pic /\ d.contested = c.contested /\ d.stage = st
             /\ d.object = c.object /\ d.space = c.space /\ d.listing = c.listing /\ d.carried = c.carried /\ d.todo = Tail(c.todo)
  BY <1>2, <1>4 DEF CallKeys
<1>5. /\ d.request = c.request /\ d.id = c.id /\ d.pic = c.pic /\ d.contested = c.contested /\ d.stage \in {"sweep", "read", "unlist"}
      /\ d.object = c.object /\ d.space = c.space /\ d.listing = c.listing /\ d.carried = c.carried /\ d.todo = Tail(c.todo)
  BY <1>4 DEF Saves
<1>6. ASSUME c.request.method = "PUT", c.object # {} PROVE FALSE
  <2> DEFINE u == Update("put", From(c), StagedEntry(c))
  <2>1. c.todo = <<u>> BY <1>2, <1>6 DEF Well
  <2>2. u.op = "put" BY DEF Update
  <2> HIDE DEF u
  <2>3. Head(c.todo).op = "put" /\ Tail(c.todo) = << >> BY <2>1, <2>2, OnePart
  <2> QED BY <1>6, <2>3 DEF Saves
<1> QED BY <1>3, <1>5, <1>6 DEF Carrying

(* a file that is staged is the only one of its object, and no other request comes near it *)
LEMMA NewlyStaged ==
    ASSUME WellInv, StagingInv, NEW l \in Lanes, serving[l].stage = "save", NEW d, Saves(serving[l], d), Turns(l, d),
           NEW u, u = Head(serving[l].todo), u.op = "put", NEW t, t = Updated(serving[l], u),
           spaces' = Saved(u.at.key, t), scraps' = scraps, NEW q \in Staged(l, u.at, u.entry)
    PROVE  StagedWell(q)'
<1> DEFINE c == serving[l]
<1>1. c # Idle BY IdleIs
<1>2. /\ Well(c, DOMAIN photos, served) /\ Active(c) /\ u \in Parts(c.todo) /\ Chore(c, u, DOMAIN photos, served)
  BY <1>1, LaneWell DEF WellInv
<1>3. ~c.contested /\ u.at.key[1] = "scratch" /\ u.entry.object # {} /\ q.at = u.at /\ q.content = u.entry.content
  BY DEF Staged
<1>4. c.request.method = "PUT" /\ c.object # {} BY <1>2, <1>3 DEF Chore
<1>5. Carrying(c) /\ Own(l) /\ c.object = {c.id} BY <1>2, <1>4 DEF Carrying, StagingInv, Well
<1>6. Handles(c) BY <1>2, <1>4 DEF Well, Handles, StagesOf
<1>7. u.entry.object = {c.id} /\ u.entry.content = c.content
  <2> DEFINE v == Update("put", From(c), StagedEntry(c))
  <2>1. c.todo = <<v>> BY <1>2, <1>4 DEF Well
  <2>2. v.entry = StagedEntry(c) BY DEF Update
  <2> HIDE DEF v
  <2>3. u = v BY <2>1, OnePart
  <2> QED BY <1>5, <2>2, <2>3 DEF StagedEntry
<1>8. d = Idle
  <2>1. d # Idle => d.request = c.request /\ d.object = c.object /\ ~Carrying(d) /\ d.stage \in {"sweep", "read", "unlist"} BY SavesIs
  <2> QED BY <1>4, <2>1 DEF Carrying, Active
<1>9. DOMAIN c.space = {"dirs", "files"} BY <1>2 DEF Well, KnownSpace
<1>10. Sited(u) BY <1>2 DEF Chore
<1> DEFINE key == u.at.key
           n == u.at.name
<1>18. PICK i : i = c.id OBVIOUS
<1>11. n \in DOMAIN t.files /\ t.files[n] = u.entry
  <2>1. t.files = Entered(c.space.files, n, u.entry) BY <1>9, UpdatedIs
  <2>2. n \in DOMAIN Entered(c.space.files, n, u.entry) /\ Entered(c.space.files, n, u.entry)[n] = u.entry BY DEF Entered
  <2> QED BY <2>1, <2>2
<1>12. /\ key \in DOMAIN spaces' /\ spaces'[key] = t
       /\ \A k : k # key => (k \in DOMAIN spaces' <=> k \in DOMAIN spaces) /\ (k \in DOMAIN spaces => spaces'[k] = spaces[k])
  <2>1. NoSpace.files = << >> BY DEF NoSpace
  <2>2. t # NoSpace BY <1>11, <2>1
  <2>3. /\ key \in DOMAIN spaces' => spaces'[key] = t
        /\ t # NoSpace => key \in DOMAIN spaces'
        /\ \A k : k # key => (k \in DOMAIN spaces' <=> k \in DOMAIN spaces) /\ (k \in DOMAIN spaces => spaces'[k] = spaces[k])
    <3>1. spaces' = Saved(key, t) OBVIOUS
    <3> HIDE DEF key, n, c
    <3> QED BY <3>1, SavedIs
  <2> QED BY <2>2, <2>3
<1>13. /\ \A k \in DOMAIN spaces : i \notin SpaceObjects(spaces[k])
       /\ \A m \in Lanes \ {l} : Active(serving[m]) => i \notin Held(serving[m])
       /\ i \notin SpaceObjects(c.space) /\ i \in DOMAIN scraps /\ scraps[i] = c.content
  BY <1>4, <1>5, <1>18 DEF Own
<1>14. ASSUME NEW k \in DOMAIN spaces', NEW x \in DOMAIN spaces'[k].files, i \in spaces'[k].files[x].object
       PROVE  k = key /\ x = n
  <2>1. CASE k # key
    <3>1. i \in SpaceObjects(spaces[k]) /\ k \in DOMAIN spaces BY <1>12, <1>14, <2>1, InSpace
    <3> QED BY <1>13, <3>1
  <2>2. CASE k = key /\ x # n
    <3>1. x \in DOMAIN t.files /\ i \in t.files[x].object BY <1>12, <1>14, <2>2
    <3>2. x \in DOMAIN c.space.files /\ t.files[x] = c.space.files[x]
      <4>1. x \in DOMAIN Updated(c, u).files BY <3>1
      <4>2. x # u.at.name BY <2>2
      <4> HIDE DEF key, n
      <4>3. x \in DOMAIN c.space.files /\ Updated(c, u).files[x] = c.space.files[x] BY <1>9, <4>1, <4>2, UpdatedObjects
      <4> QED BY <4>3
    <3>3. i \in SpaceObjects(c.space) BY <3>1, <3>2, InSpace
    <3> QED BY <1>13, <3>3
  <2> QED BY <2>1, <2>2
<1>16. q.at = [key |-> q.at.key, name |-> q.at.name] /\ q.at.key = key /\ q.at.name = n /\ q.content = c.content
  BY <1>3, <1>7, <1>10 DEF Sited
<1>15. ASSUME NEW m \in Lanes, Active(serving[m])', NEW o \in {i} PROVE Spares(serving[m], q.at.key, q.at.name, o)'
  <2>1. m # l BY <1>8, <1>15, IdleIs DEF Turns, Active
  <2>2. Active(serving[m]) /\ (\A k, x, f : Spares(serving[m], k, x, f)' <=> Spares(serving[m], k, x, f))
    BY <1>15, <2>1, OthersParts DEF WellInv
  <2>3. ~StagesOf(serving[m].request) BY <1>3, <1>6, <2>1, <2>2 DEF StagingInv, Together
  <2>4. i \notin Held(serving[m]) BY <1>13, <2>1, <2>2
  <2>5. serving[m] # Idle BY <2>2, IdleIs
  <2>6. Well(serving[m], DOMAIN photos, served) BY <2>5, LaneWell DEF WellInv
  <2>7. serving[m].stage = "save" => Head(serving[m].todo).at.key[1] # "scratch"
    BY <2>3, <2>5, LaneWell DEF WellInv, Chore
  <2>8. serving[m].stage # "upload" BY <2>3, <2>6 DEF Well
  <2>9. ~IsPromotion(serving[m]) BY <2>3 DEF IsPromotion, StagesOf
  <2>10. o \notin Held(serving[m]) BY <1>15, <2>4
  <2>11. /\ o \notin serving[m].object /\ o \notin SpaceObjects(serving[m].space) /\ o \notin SpaceObjects(serving[m].listing)
         /\ \A e \in serving[m].carried : o \notin e.object
         /\ \A v \in Parts(serving[m].todo) : o \notin v.entry.object
    BY <2>10 DEF Held
  <2>12. serving[m].stage = "save" => Head(serving[m].todo).at # [key |-> q.at.key, name |-> q.at.name]
    BY <1>3, <2>7
  <2>13. Spares(serving[m], q.at.key, q.at.name, o) BY <2>8, <2>9, <2>11, <2>12 DEF Spares
  <2> QED BY <2>2, <2>13
<1>17. spaces'[key].files[n].object = {i} BY <1>18, <1>7, <1>11, <1>12
<1>19. key[1] = "scratch" BY <1>3
<1>20. \A k : \A x : k \in DOMAIN spaces' /\ x \in DOMAIN spaces'[k].files /\ i \in spaces'[k].files[x].object => k = key /\ x = n
  <2> HIDE DEF key, n, c
  <2> TAKE k, x
  <2> HAVE k \in DOMAIN spaces' /\ x \in DOMAIN spaces'[k].files /\ i \in spaces'[k].files[x].object
  <2> QED BY <1>14
<1>21. n \in DOMAIN spaces'[key].files BY <1>11, <1>12
<1>22. i \in DOMAIN scraps' /\ scraps'[i] = q.content BY <1>13, <1>16
<1> HIDE DEF c, key, n, Spares
<1>23. ASSUME NEW o \in spaces'[q.at.key].files[q.at.name].object
       PROVE  /\ o \in DOMAIN scraps' /\ scraps'[o] = q.content
              /\ \A k \in DOMAIN spaces' : \A x \in DOMAIN spaces'[k].files :
                    o \in spaces'[k].files[x].object => k = q.at.key /\ x = q.at.name
              /\ \A m \in Lanes : Active(serving[m])' => Spares(serving[m], q.at.key, q.at.name, o)'
  <2>1. o = i BY <1>16, <1>17, <1>23
  <2>2. o \in DOMAIN scraps' /\ scraps'[o] = q.content BY <1>22, <2>1
  <2>3. \A k \in DOMAIN spaces' : \A x \in DOMAIN spaces'[k].files :
                    o \in spaces'[k].files[x].object => k = q.at.key /\ x = q.at.name
    BY <1>16, <1>20, <2>1
  <2>4. \A m \in Lanes : Active(serving[m])' => Spares(serving[m], q.at.key, q.at.name, o)' BY <1>15, <2>1
  <2> QED BY <2>2, <2>3, <2>4
<1>24. q.at.key \in DOMAIN spaces' /\ q.at.key[1] = "scratch" /\ q.at.name \in DOMAIN spaces'[q.at.key].files
  BY <1>12, <1>16, <1>19, <1>21
<1>25. spaces'[q.at.key].files[q.at.name].object # {} BY <1>16, <1>17
<1> QED BY <1>16, <1>23, <1>24, <1>25 DEF StagedWell

LEMMA SaveSpaceStaging == ASSUME WellInv, StagingInv, SaveSpace PROVE StagingInv'
<1>0. PICK l \in Lanes : \E d : SavesNext(l, d) BY SaveSpaceIs DEF WellInv
<1>00. PICK d : SavesNext(l, d) BY <1>0
<1>1. LET c == serving[l]
          u == Head(c.todo)
      IN  /\ c.stage = "save" /\ Becomes(l, d) /\ Saves(c, d)
          /\ spaces' = Saved(u.at.key, Updated(c, u))
          /\ promises' = (IF Space(u.at.key) = c.space THEN promises ELSE promises \ StagedAt(u.at.key))
                          \cup (IF u.op = "put" THEN Staged(l, u.at, u.entry) ELSE {})
          /\ UNCHANGED <<rows, stores, menu, served, deaths>>
  BY <1>00 DEF SavesNext
<1> DEFINE c == serving[l]
<1>2. PICK u : u = Head(c.todo) OBVIOUS
<1>3. PICK t : t = Updated(c, u) OBVIOUS
<1>4. /\ c.stage = "save" /\ Saves(c, d) /\ spaces' = Saved(u.at.key, t) /\ scraps' = scraps
      /\ promises' = (IF Space(u.at.key) = c.space THEN promises ELSE promises \ StagedAt(u.at.key))
                                 \cup (IF u.op = "put" THEN Staged(l, u.at, u.entry) ELSE {})
  BY <1>1, <1>2, <1>3 DEF stores
<1>5. c # Idle /\ Turns(l, d) BY <1>1, IdleIs, BecomesTurns DEF WellInv, CallsWell
<1>6. Well(c, DOMAIN photos, served) /\ Active(c) /\ u \in Parts(c.todo) /\ Chore(c, u, DOMAIN photos, served)
  BY <1>2, <1>4, <1>5, LaneWell DEF WellInv
<1> DEFINE Facts ==
         /\ d.request = c.request /\ d.id = c.id /\ d.pic = c.pic /\ d.contested = c.contested /\ d.stage \in {"sweep", "read", "unlist"}
         /\ d.object = c.object /\ d.space = c.space /\ d.listing = c.listing /\ d.carried = c.carried
         /\ Parts(d.todo) \subseteq Parts(c.todo) /\ ~Carrying(d)
<1>7. d = Idle \/ Facts BY <1>4, SavesIs
<1>8. DOMAIN c.space = {"dirs", "files"} BY <1>6 DEF Well, KnownSpace
<1>9. ASSUME NEW x \in DOMAIN t.files, NEW o \in t.files[x].object
      PROVE  \/ x # u.at.name /\ x \in DOMAIN c.space.files /\ t.files[x] = c.space.files[x]
             \/ o \in u.entry.object \/ (\E e \in c.carried : o \in e.object)
             \/ x \in DOMAIN c.space.files /\ t.files[x] = c.space.files[x]
  BY <1>3, <1>8, <1>9, UpdatedObjects
<1>10. ASSUME NEW o \in SpaceObjects(t)
       PROVE  o \in SpaceObjects(c.space) \/ o \in u.entry.object \/ (\E e \in c.carried : o \in e.object)
  <2>1. PICK x \in DOMAIN t.files : o \in t.files[x].object BY InSpace
  <2> QED BY <1>9, <2>1, InSpace
<1>11. SpaceObjects(t) \subseteq Held(c) BY <1>6, <1>10 DEF Held
<1>12. Active(d) => Held(d) \subseteq Held(c)
  <2> SUFFICES ASSUME Facts PROVE Held(d) \subseteq Held(c)
    BY <1>7, IdleIs
  <2>1. (UNION {v.entry.object : v \in Parts(d.todo)}) \subseteq (UNION {v.entry.object : v \in Parts(c.todo)}) OBVIOUS
  <2> QED BY <2>1 DEF Held
<1>13. \A m \in Lanes \ {l} : Active(serving[m]) /\ StagesOf(serving[m].request) /\ Active(d) /\ StagesOf(d.request) =>
              /\ Handles(d) => d.contested
              /\ Handles(serving[m]) => serving'[m].contested
  BY <1>5, <1>7, StillTogether
<1>14. ~Carrying(d) BY <1>7, IdleIs DEF Carrying
<1>15. \A m \in Lanes \ {l} : Carrying(serving[m]) => Unseen(serving[m], m, d)
  <2>1. ASSUME NEW k \in DOMAIN spaces' PROVE SpaceObjects(spaces'[k]) \subseteq AllObjects \cup Held(c)
    <3>1. CASE k = u.at.key BY <1>4, <1>11, <3>1, SavedIs
    <3>2. CASE k # u.at.key
      <4>1. k \in DOMAIN spaces /\ spaces'[k] = spaces[k] BY <1>4, <3>2, SavedIs
      <4> QED BY <4>1 DEF AllObjects
    <3> QED BY <3>1, <3>2
  <2> QED BY <1>4, <1>5, <1>12, <2>1, UnseenStays
<1>16. ASSUME NEW q \in promises', q.kind = "staged" PROVE StagedWell(q)' \/ Kept(q, d)
  <2>1. CASE u.op = "put" /\ q \in Staged(l, u.at, u.entry) BY <1>2, <1>3, <1>4, <1>5, <2>1, NewlyStaged
  <2>2. CASE q \in promises /\ (Space(u.at.key) = c.space \/ q \notin StagedAt(u.at.key))
    <3>1. /\ q.at = [key |-> q.at.key, name |-> q.at.name] /\ q.at.name \in DOMAIN spaces[q.at.key].files
          /\ Space(q.at.key) = spaces[q.at.key] /\ q.at.key \in DOMAIN spaces
          /\ \A o \in Objects(q) : o \in DOMAIN scraps /\ Spares(c, q.at.key, q.at.name, o)
      BY <1>6, <1>16, <2>2, StagedOnly
    <3>2. ASSUME NEW o \in Objects(q), Active(d) PROVE Spares(d, q.at.key, q.at.name, o)
      <4>1. Facts /\ Spares(c, q.at.key, q.at.name, o) BY <1>7, <3>1, <3>2, IdleIs
      <4>2. From(d) = From(c) /\ (IsPromotion(d) <=> IsPromotion(c)) BY <4>1 DEF From, IsPromotion
      <4> QED BY <4>1, <4>2 DEF Spares
    <3>3. ASSUME q.at.key # u.at.key, NEW o \in Objects(q) PROVE o \notin SpaceObjects(t)
      <4>1. Spares(c, q.at.key, q.at.name, o) BY <3>1, <3>3
      <4>2. /\ o \notin SpaceObjects(c.space) /\ o \notin u.entry.object /\ \A e \in c.carried : o \notin e.object
        BY <1>2, <1>4, <1>6, <3>3, <4>1 DEF Spares
      <4> QED BY <1>10, <4>2
    <3>4. ASSUME q.at.key = u.at.key
          PROVE  /\ q.at.name \in DOMAIN t.files /\ t.files[q.at.name] = Space(u.at.key).files[q.at.name]
                 /\ \A o \in Objects(q) : \A x \in DOMAIN t.files : o \in t.files[x].object => x = q.at.name
      <4>1. Space(u.at.key) = c.space BY <1>16, <2>2, <3>4 DEF StagedAt
      <4>2. c.space = spaces[q.at.key] BY <3>1, <3>4, <4>1
      <4>3. PICK o : o \in Objects(q) BY <1>16, <2>2, StagedOnly
      <4>4. Head(c.todo).at # [key |-> q.at.key, name |-> q.at.name] BY <1>4, <3>1, <4>3 DEF Spares
      <4>5. u.at.name # q.at.name BY <1>2, <1>6, <3>4, <4>4 DEF Chore, Sited
      <4>6. q.at.name \in DOMAIN t.files /\ t.files[q.at.name] = c.space.files[q.at.name]
        BY <1>3, <1>8, <3>1, <4>2, <4>5, UpdatedOthers
      <4>7. ASSUME NEW r \in Objects(q), NEW x \in DOMAIN t.files, r \in t.files[x].object PROVE x = q.at.name
        <5>1. Spares(c, q.at.key, q.at.name, r) BY <3>1, <4>7
        <5>2. r \notin u.entry.object /\ \A e \in c.carried : r \notin e.object BY <1>6, <5>1 DEF Spares
        <5>3. x \in DOMAIN c.space.files /\ t.files[x] = c.space.files[x] BY <1>9, <4>7, <5>2
        <5>4. \A k \in DOMAIN spaces : \A y \in DOMAIN spaces[k].files :
                      r \in spaces[k].files[y].object => k = q.at.key /\ y = q.at.name
          BY <1>16, <2>2, <4>7, OneListing
        <5> QED BY <3>1, <4>2, <4>7, <5>3, <5>4
      <4> QED BY <4>1, <4>6, <4>7
    <3> HIDE DEF Spares
    <3>5. \A o \in Objects(q) : o \in DOMAIN scraps' /\ scraps'[o] = scraps[o] BY <1>4, <3>1
    <3> QED BY <1>4, <1>16, <2>2, <3>2, <3>3, <3>4, <3>5, SavingKeeps
  <2> QED BY <1>4, <2>1, <2>2
<1> QED BY <1>5, <1>13, <1>14, <1>15, <1>16, StagingStep

LEMMA UnlistStaging == ASSUME WellInv, StagingInv, Unlist PROVE StagingInv'
<1>1. PICK l \in Lanes : serving[l].stage = "unlist" /\ Unlist!(l)!2 /\ UNCHANGED <<rows, stores, menu, served, deaths>>
  BY DEF Unlist
<1> DEFINE c == serving[l]
<1>2. c # Idle BY <1>1, IdleIs
<1>3. Well(c, DOMAIN photos, served) /\ Active(c) /\ DOMAIN c = CallKeys BY <1>2, LaneWell DEF WellInv
<1>4. PICK at : at = From(c) OBVIOUS
<1>5. PICK s : s = [c.listing EXCEPT !.files = Drop(c.listing.files, at.name)] OBVIOUS
<1>6. PICK d : d = [c EXCEPT !.stage = "unstage"] OBVIOUS
<1>7. /\ spaces' = Saved(at.key, s) /\ scraps' = scraps /\ Becomes(l, d)
      /\ promises' = IF Space(at.key) = c.listing THEN promises ELSE promises \ StagedAt(at.key)
  BY <1>1, <1>4, <1>5, <1>6 DEF stores, From
<1>8. Turns(l, d) BY <1>7, BecomesTurns DEF WellInv, CallsWell
<1>9. /\ d.request = c.request /\ d.object = c.object /\ d.space = c.space /\ d.listing = c.listing /\ d.carried = c.carried
      /\ d.todo = c.todo /\ d.pic = c.pic /\ d.contested = c.contested /\ d.stage = "unstage" /\ d.id = c.id
  BY <1>3, <1>6 DEF CallKeys
<1>10. DOMAIN c.listing = {"dirs", "files"} BY <1>3 DEF Well, KnownSpace
<1>11. s.files = Drop(c.listing.files, at.name) BY <1>5, <1>10
<1>12. ASSUME NEW x \in DOMAIN s.files
       PROVE  x # at.name /\ x \in DOMAIN c.listing.files /\ s.files[x] = c.listing.files[x]
  BY <1>11, DroppedFiles
<1>13. SpaceObjects(s) \subseteq SpaceObjects(c.listing)
  <2> SUFFICES ASSUME NEW o \in SpaceObjects(s) PROVE o \in SpaceObjects(c.listing)
    OBVIOUS
  <2>1. PICK x \in DOMAIN s.files : o \in s.files[x].object BY InSpace
  <2> QED BY <1>12, <2>1, InSpace
<1>14. Held(d) = Held(c) BY <1>9 DEF Held
<1>15. \A m \in Lanes \ {l} : Active(serving[m]) /\ StagesOf(serving[m].request) /\ Active(d) /\ StagesOf(d.request) =>
              /\ Handles(d) => d.contested
              /\ Handles(serving[m]) => serving'[m].contested
  BY <1>2, <1>8, <1>9, StillTogether
<1>16. ~Carrying(d) BY <1>1, <1>3, <1>9, NotCarrying DEF Carrying
<1>17. \A m \in Lanes \ {l} : Carrying(serving[m]) => Unseen(serving[m], m, d)
  <2>1. ASSUME NEW k \in DOMAIN spaces' PROVE SpaceObjects(spaces'[k]) \subseteq AllObjects \cup Held(c)
    <3>1. CASE k = at.key
      <4>1. spaces'[k] = s BY <1>7, <3>1, SavedIs
      <4> QED BY <1>13, <4>1 DEF Held
    <3>2. CASE k # at.key
      <4>1. k \in DOMAIN spaces /\ spaces'[k] = spaces[k] BY <1>7, <3>2, SavedIs
      <4> QED BY <4>1 DEF AllObjects
    <3> QED BY <3>1, <3>2
  <2>2. Held(d) \subseteq AllObjects \cup Held(c) \cup {c.id} BY <1>14
  <2> QED BY <1>2, <1>7, <2>1, <2>2, UnseenStays
<1>18. ASSUME NEW q \in promises', q.kind = "staged" PROVE Kept(q, d)
  <2>1. q \in promises /\ (Space(at.key) = c.listing \/ q \notin StagedAt(at.key)) BY <1>7, <1>18
  <2>2. /\ q.at = [key |-> q.at.key, name |-> q.at.name] /\ q.at.name \in DOMAIN spaces[q.at.key].files
        /\ Space(q.at.key) = spaces[q.at.key] /\ q.at.key \in DOMAIN spaces
        /\ \A o \in Objects(q) : o \in DOMAIN scraps /\ Spares(c, q.at.key, q.at.name, o)
    BY <1>3, <1>18, <2>1, StagedOnly
  <2>3. ASSUME NEW o \in Objects(q) PROVE Spares(d, q.at.key, q.at.name, o)
    <3>1. Spares(c, q.at.key, q.at.name, o) BY <2>2, <2>3
    <3> QED BY <1>9, <3>1 DEF Spares, From, IsPromotion
  <2>4. ASSUME q.at.key # at.key, NEW o \in Objects(q) PROVE o \notin SpaceObjects(s)
    <3>1. Spares(c, q.at.key, q.at.name, o) BY <2>2, <2>4
    <3>2. o \notin SpaceObjects(c.listing) BY <1>4, <2>4, <3>1 DEF Spares
    <3> QED BY <1>13, <3>2
  <2>5. ASSUME q.at.key = at.key
        PROVE  /\ q.at.name \in DOMAIN s.files /\ s.files[q.at.name] = Space(at.key).files[q.at.name]
               /\ \A o \in Objects(q) : \A x \in DOMAIN s.files : o \in s.files[x].object => x = q.at.name
    <3>1. Space(at.key) = c.listing BY <1>18, <2>1, <2>5 DEF StagedAt
    <3>2. c.listing = spaces[q.at.key] BY <2>2, <2>5, <3>1
    <3>3. PICK o : o \in Objects(q) BY <1>18, <2>1, StagedOnly
    <3>4. IsPromotion(c) /\ c.object # {} BY <1>1, <1>3 DEF Well
    <3>5. at # [key |-> q.at.key, name |-> q.at.name] BY <1>4, <2>2, <3>3, <3>4 DEF Spares
    <3>6. q.at.name # at.name BY <1>4, <2>5, <3>5 DEF From, Place
    <3>7. q.at.name \in DOMAIN s.files /\ s.files[q.at.name] = c.listing.files[q.at.name]
      BY <1>11, <2>2, <3>2, <3>6, DroppedFiles
    <3>8. ASSUME NEW r \in Objects(q), NEW x \in DOMAIN s.files, r \in s.files[x].object PROVE x = q.at.name
      <4>1. x \in DOMAIN c.listing.files /\ r \in c.listing.files[x].object BY <1>12, <3>8
      <4>2. \A k \in DOMAIN spaces : \A y \in DOMAIN spaces[k].files :
                      r \in spaces[k].files[y].object => k = q.at.key /\ y = q.at.name
        BY <1>18, <2>1, <3>8, OneListing
      <4> QED BY <2>2, <3>2, <4>1, <4>2
    <3> QED BY <3>1, <3>7, <3>8
  <2> HIDE DEF Spares
  <2>6. \A o \in Objects(q) : o \in DOMAIN scraps' /\ scraps'[o] = scraps[o] BY <1>7, <2>2
  <2> QED BY <1>7, <1>18, <2>1, <2>3, <2>4, <2>5, <2>6, SavingKeeps
<1> QED BY <1>8, <1>15, <1>16, <1>17, <1>18, StagingStep

LEMMA UnstageStaging == ASSUME WellInv, StagingInv, Unstage PROVE StagingInv'
<1>1. PICK l \in Lanes : /\ serving[l].stage = "unstage" /\ scraps' = Restrict(scraps, DOMAIN scraps \ serving[l].object)
                         /\ Becomes(l, Idle) /\ spaces' = spaces /\ promises' = promises
  BY DEF Unstage
<1> DEFINE c == serving[l]
<1>2. c # Idle /\ Turns(l, Idle) BY <1>1, IdleIs, BecomesTurns DEF WellInv, CallsWell
<1>3. Active(c) BY <1>2, LaneWell DEF WellInv
<1>4. DOMAIN scraps' = DOMAIN scraps \ c.object /\ \A o \in DOMAIN scraps' : scraps'[o] = scraps[o] BY <1>1, RestrictIs
<1>5. ~Active(Idle) /\ ~Carrying(Idle) BY IdleIs DEF Carrying
<1>6. \A m \in Lanes \ {l} : Carrying(serving[m]) => Unseen(serving[m], m, Idle)
  <2>1. \A k \in DOMAIN spaces' : SpaceObjects(spaces'[k]) \subseteq AllObjects \cup Held(c) BY <1>1 DEF AllObjects
  <2>2. \A o \in DOMAIN scraps : o \in AllObjects \cup Held(c) \cup {c.id} \/ (o \in DOMAIN scraps' /\ scraps'[o] = scraps[o])
    BY <1>4 DEF Held
  <2> QED BY <1>2, <1>5, <2>1, <2>2, UnseenStays
<1>7. ASSUME NEW q \in promises', q.kind = "staged" PROVE Kept(q, Idle)
  <2>1. ASSUME NEW o \in Objects(q) PROVE o \in DOMAIN scraps' /\ scraps'[o] = scraps[o]
    <3>1. o \in DOMAIN scraps /\ Spares(c, q.at.key, q.at.name, o) BY <1>1, <1>3, <1>7, <2>1, StagedOnly
    <3> QED BY <1>4, <3>1 DEF Spares
  <2> QED BY <1>1, <1>5, <1>7, <2>1, StaysKept
<1> QED BY <1>2, <1>5, <1>6, <1>7, StagingStep

(* the directory of a promise is not the one removed *)
LEMMA DroppingKeeps ==
    ASSUME StagingInv, NEW q \in promises, q.kind = "staged", NEW key, q.at.key # key, spaces' = Drop(spaces, key),
           \A o \in Objects(q) : o \in DOMAIN scraps' /\ scraps'[o] = scraps[o]
    PROVE  Kept(q, Idle)
<1>1. /\ q.at.key \in DOMAIN spaces /\ q.at.name \in DOMAIN spaces[q.at.key].files
      /\ \A o \in Objects(q) :
            \A k \in DOMAIN spaces : \A x \in DOMAIN spaces[k].files :
                      o \in spaces[k].files[x].object => k = q.at.key /\ x = q.at.name
  BY StagedOnly
<1>2. DOMAIN spaces' = DOMAIN spaces \ {key} /\ \A k \in DOMAIN spaces' : spaces'[k] = spaces[k]
  <2>1. DOMAIN spaces' = DOMAIN spaces \ {key} BY DropIs
  <2>2. \A k \in DOMAIN spaces \ {key} : spaces'[k] = spaces[k] BY DropIs
  <2> QED BY <2>1, <2>2
<1>3. ~Active(Idle) BY IdleIs
<1> QED BY <1>1, <1>2, <1>3 DEF Kept

LEMMA SweepStaging == ASSUME WellInv, StagingInv, Sweep PROVE StagingInv'
<1>1. PICK l \in Lanes : serving[l].stage = "sweep" /\ Sweep!(l)!2 /\ Becomes(l, Idle) /\ UNCHANGED <<rows, bytes, menu, served, deaths>>
  BY DEF Sweep
<1> DEFINE c == serving[l]
<1>2. c # Idle /\ Turns(l, Idle) BY <1>1, IdleIs, BecomesTurns DEF WellInv, CallsWell
<1>3. PICK key : key = <<"scratch", c.request.from>> OBVIOUS
<1>4. PICK gone : gone = UNION {Space(key).files[n].object : n \in DOMAIN Space(key).files} OBVIOUS
<1>5. scraps' = Restrict(scraps, DOMAIN scraps \ gone) /\ spaces' = Drop(spaces, key) /\ promises' = promises \ StagedAt(key)
  BY <1>1, <1>3, <1>4
<1>6. gone = SpaceObjects(Space(key)) BY <1>4 DEF SpaceObjects
<1>7. DOMAIN scraps' = DOMAIN scraps \ gone /\ \A o \in DOMAIN scraps' : scraps'[o] = scraps[o] BY <1>5, RestrictIs
<1>8. DOMAIN spaces' = DOMAIN spaces \ {key} /\ \A k \in DOMAIN spaces' : spaces'[k] = spaces[k] BY <1>5, DropIs
<1>9. ~Active(Idle) /\ ~Carrying(Idle) BY IdleIs DEF Carrying
<1>10. \A m \in Lanes \ {l} : Carrying(serving[m]) => Unseen(serving[m], m, Idle)
  <2>1. \A k \in DOMAIN spaces' : SpaceObjects(spaces'[k]) \subseteq AllObjects \cup Held(c) BY <1>8 DEF AllObjects
  <2>2. \A o \in gone : o \in AllObjects BY <1>6, FoundIn
  <2>3. \A o \in DOMAIN scraps : o \in AllObjects \cup Held(c) \cup {c.id} \/ (o \in DOMAIN scraps' /\ scraps'[o] = scraps[o])
    BY <1>7, <2>2
  <2> QED BY <1>2, <1>9, <2>1, <2>3, UnseenStays
<1>11. ASSUME NEW q \in promises', q.kind = "staged" PROVE Kept(q, Idle)
  <2>1. q \in promises /\ q.at.key # key BY <1>5, <1>11 DEF StagedAt
  <2>2. ASSUME NEW o \in Objects(q) PROVE o \in DOMAIN scraps' /\ scraps'[o] = scraps[o]
    <3>1. o \in DOMAIN scraps /\ o \notin SpaceObjects(Space(key)) BY <1>11, <2>1, <2>2, StagedOnly
    <3> QED BY <1>6, <1>7, <3>1
  <2> QED BY <1>5, <1>11, <2>1, <2>2, DroppingKeeps
<1> QED BY <1>2, <1>9, <1>10, <1>11, StagingStep

(* a step of no request *)
LEMMA NoneStaging ==
    ASSUME StagingInv, UNCHANGED <<serving, scraps>>, DOMAIN spaces' \subseteq DOMAIN spaces,
           \A k \in DOMAIN spaces' : spaces'[k] = spaces[k],
           \A q \in promises' : q.kind = "staged" => q \in promises /\ q.at.key \in DOMAIN spaces'
    PROVE  StagingInv'
<1>1. Together' BY DEF StagingInv, Together, Handles, Active
<1>2. ASSUME NEW l \in Lanes PROVE Own(l)'
  <2>1. Own(l) BY DEF StagingInv
  <2>2. \A m \in Lanes : Held(serving[m])' = Held(serving[m]) BY DEF Held, SpaceObjects
  <2>3. \A k \in DOMAIN spaces' : SpaceObjects(spaces'[k]) = SpaceObjects(spaces[k]) OBVIOUS
  <2>4. Carrying(serving[l])' <=> Carrying(serving[l]) BY DEF Carrying, Active
  <2>5. SpaceObjects(serving[l].space)' = SpaceObjects(serving[l].space) BY DEF SpaceObjects
  <2> SUFFICES ASSUME Carrying(serving[l])
               PROVE  /\ \A k \in DOMAIN spaces' : serving[l].id \notin SpaceObjects(spaces'[k])
                      /\ \A m \in Lanes \ {l} : Active(serving[m]) => serving[l].id \notin Held(serving[m])
                      /\ serving[l].id \notin SpaceObjects(serving[l].space)
                      /\ serving[l].object # {} => serving[l].id \in DOMAIN scraps /\ scraps[serving[l].id] = serving[l].content
    BY <2>2, <2>4, <2>5 DEF Own, Active
  <2> QED BY <2>1, <2>3 DEF Own
<1>3. ASSUME NEW q \in promises', q.kind = "staged" PROVE StagedWell(q)'
  <2>1. q \in promises /\ q.at.key \in DOMAIN spaces' /\ StagedWell(q) BY <1>3 DEF StagingInv
  <2>2. spaces'[q.at.key] = spaces[q.at.key] BY <2>1
  <2>3. \A l \in Lanes : \A f : /\ Active(serving[l])' => Active(serving[l])
                                /\ Spares(serving[l], q.at.key, q.at.name, f)' <=> Spares(serving[l], q.at.key, q.at.name, f)
    BY DEF Active, Spares, From, IsPromotion
  <2>4. ASSUME NEW o \in spaces'[q.at.key].files[q.at.name].object
        PROVE  /\ o \in DOMAIN scraps' /\ scraps'[o] = q.content
               /\ \A k \in DOMAIN spaces' : \A x \in DOMAIN spaces'[k].files :
                     o \in spaces'[k].files[x].object => k = q.at.key /\ x = q.at.name
               /\ \A l \in Lanes : Active(serving[l])' => Spares(serving[l], q.at.key, q.at.name, o)'
    <3>1. o \in spaces[q.at.key].files[q.at.name].object BY <2>2, <2>4
    <3> HIDE DEF Spares
    <3>2. /\ o \in DOMAIN scraps /\ scraps[o] = q.content
          /\ \A k \in DOMAIN spaces : \A x \in DOMAIN spaces[k].files :
                o \in spaces[k].files[x].object => k = q.at.key /\ x = q.at.name
          /\ \A l \in Lanes : Active(serving[l]) => Spares(serving[l], q.at.key, q.at.name, o)
      BY <2>1, <3>1 DEF StagedWell
    <3> QED BY <2>3, <3>2
  <2> HIDE DEF Spares
  <2> QED BY <2>1, <2>2, <2>4 DEF StagedWell
<1> QED BY <1>1, <1>2, <1>3 DEF StagingInv

LEMMA SpaceExpiresStaging == ASSUME StagingInv, SpaceExpires PROVE StagingInv'
<1>1. PICK key \in DOMAIN spaces : spaces' = Drop(spaces, key) /\ promises' = promises \ StagedAt(key) /\ UNCHANGED <<serving, scraps>>
  BY DEF SpaceExpires, stores
<1>2. DOMAIN spaces' = DOMAIN spaces \ {key} BY <1>1, DropIs
<1>3. \A k \in DOMAIN spaces \ {key} : spaces'[k] = spaces[k] BY <1>1, DropIs
<1>4. ASSUME NEW q \in promises', q.kind = "staged" PROVE q \in promises /\ q.at.key \in DOMAIN spaces'
  <2>1. q \in promises /\ q.at.key # key BY <1>1, <1>4 DEF StagedAt
  <2>2. q.at.key \in DOMAIN spaces BY <1>4, <2>1, StagedOnly
  <2> QED BY <1>2, <2>1, <2>2
<1> QED BY <1>1, <1>2, <1>3, <1>4, NoneStaging

LEMMA HeldKnown ==
    ASSUME NEW c, NEW R, NEW n, Well(c, R, n) PROVE Held(c) \subseteq 1..n
<1> SUFFICES ASSUME NEW o \in Held(c) PROVE o \in 1..n
  OBVIOUS
<1>1. ASSUME NEW s, KnownSpace(s, R, n), o \in SpaceObjects(s) PROVE o \in 1..n
  <2>1. PICK x \in DOMAIN s.files : o \in s.files[x].object BY <1>1, InSpace
  <2> QED BY <1>1, <2>1 DEF KnownSpace, KnownEntry
<1>2. ASSUME NEW e \in c.carried, o \in e.object PROVE o \in 1..n BY <1>2 DEF Well, KnownEntry
<1>3. ASSUME NEW u \in Parts(c.todo), o \in u.entry.object PROVE o \in 1..n BY <1>3 DEF Well, Chore
<1>4. KnownSpace(c.space, R, n) /\ KnownSpace(c.listing, R, n) /\ c.object \subseteq 1..n BY DEF Well
<1>5. \/ o \in c.object \/ o \in SpaceObjects(c.space) \/ o \in SpaceObjects(c.listing)
      \/ (\E e \in c.carried : o \in e.object) \/ (\E u \in Parts(c.todo) : o \in u.entry.object)
  BY DEF Held
<1> QED BY <1>1, <1>2, <1>3, <1>4, <1>5

LEMMA StartStaging == ASSUME VfsAssumption, WellInv, StagingInv, Start PROVE StagingInv'
<1>1. PICK l \in Lanes, r \in menu.requests : \E d : Begins(l, r, d) BY StartIs DEF WellInv
<1>2. PICK d : Begins(l, r, d) BY <1>1
<1>4. PICK i : i = served + 1 OBVIOUS
<1>6. /\ serving[l] = Idle /\ Turns(l, d) /\ FirstStage(r) # "none"
      /\ promises' = Reshaped \/ promises' = promises
      /\ spaces' = spaces /\ scraps' = scraps
  BY <1>2 DEF Begins, stores
<1>7. /\ d.stage = FirstStage(r) /\ d.id = i /\ d.request = r /\ d.pic = {} /\ d.content = r.content
      /\ d.todo = Todo(r) /\ d.space = NoSpace /\ d.listing = NoSpace /\ d.carried = {} /\ d.object = {} /\ DOMAIN d = CallKeys
  BY <1>2, <1>4 DEF Begins
<1>8. i \in Nat \ {0} /\ i \notin 1..served BY <1>4 DEF WellInv, RowsWell
<1>9. r.method \in {"MOVE", "COPY"} \/ r.to = << >> BY DEF VfsAssumption, WellInv, RowsWell
<1>21. FirstStage(r) # "none" BY <1>6
<1>22. Turns(l, d) BY <1>6
<1>10. Well(d, DOMAIN photos, i) BY <1>21, <1>7, <1>8, <1>9, FirstWell
<1>11. \A u \in Parts(d.todo) : u.entry.object = {} BY <1>7, <1>10 DEF Well, Chore
<1>12. SpaceObjects(NoSpace) = {} BY DEF SpaceObjects, NoSpace
<1>13. Held(d) = {}
  <2>1. ASSUME NEW o \in Held(d) PROVE FALSE
    <3>1. \/ o \in d.object \/ o \in SpaceObjects(d.space) \/ o \in SpaceObjects(d.listing)
          \/ (\E e \in d.carried : o \in e.object) \/ (\E u \in Parts(d.todo) : o \in u.entry.object)
      BY <2>1 DEF Held
    <3> QED BY <1>7, <1>11, <1>12, <3>1
  <2> QED BY <2>1
<1>14. d.stage # "save"
  <2>1. FirstStage(r) # "save" BY DEF FirstStage
  <2> QED BY <1>7, <2>1
<1>15. \A k \in DOMAIN spaces : i \notin SpaceObjects(spaces[k])
  <2> SUFFICES ASSUME NEW k \in DOMAIN spaces, i \in SpaceObjects(spaces[k]) PROVE FALSE
    OBVIOUS
  <2>1. PICK x \in DOMAIN spaces[k].files : i \in spaces[k].files[x].object BY InSpace
  <2> QED BY <1>8, <2>1 DEF WellInv, RowsWell, KnownSpace, KnownEntry
<1>16. \A m \in Lanes \ {l} : Active(serving[m]) => i \notin Held(serving[m])
  <2> SUFFICES ASSUME NEW m \in Lanes, Active(serving[m]), i \in Held(serving[m]) PROVE FALSE
    OBVIOUS
  <2>1. Well(serving[m], DOMAIN photos, served) BY IdleIs, LaneWell DEF WellInv
  <2> QED BY <1>8, <2>1, HeldKnown
<1>17. \A m \in Lanes \ {l} : Active(serving[m]) /\ StagesOf(serving[m].request) /\ Active(d) /\ StagesOf(d.request) =>
              /\ Handles(d) => d.contested
              /\ Handles(serving[m]) => serving'[m].contested
  <2> SUFFICES ASSUME NEW m \in Lanes \ {l}, Active(serving[m]), StagesOf(serving[m].request), StagesOf(d.request)
               PROVE  d.contested /\ serving'[m].contested
    OBVIOUS
  <2>1. d.contested /\ serving'[m] = [serving[m] EXCEPT !.contested = TRUE] BY <1>2, <1>7 DEF Begins
  <2>2. serving[m] # Idle BY IdleIs
  <2>3. DOMAIN serving[m] = CallKeys BY <2>2, LaneWell DEF WellInv
  <2> QED BY <1>7, <2>1, <2>3 DEF CallKeys
<1>18. Carrying(d) =>
              /\ \A k \in DOMAIN spaces' : d.id \notin SpaceObjects(spaces'[k])
              /\ \A m \in Lanes \ {l} : Active(serving[m]) => d.id \notin Held(serving[m])
              /\ d.id \notin SpaceObjects(d.space)
              /\ d.object # {} => d.id \in DOMAIN scraps' /\ scraps'[d.id] = d.content
  BY <1>6, <1>7, <1>12, <1>15, <1>16
<1>19. ASSUME NEW m \in Lanes \ {l}, Carrying(serving[m]) PROVE Unseen(serving[m], m, d)
  <2>1. Own(m) BY DEF StagingInv
  <2> QED BY <1>6, <1>13, <1>19, <2>1 DEF Own, Unseen
<1>20. ASSUME NEW q \in promises', q.kind = "staged" PROVE Kept(q, d)
  <2>1. q \in promises BY <1>6, <1>20, ReshapedIs DEF WellInv
  <2>2. ASSUME NEW o \in Objects(q) PROVE Spares(d, q.at.key, q.at.name, o)
    <3>1. o # i
      <4>1. q.at.key \in DOMAIN spaces /\ q.at.name \in DOMAIN spaces[q.at.key].files BY <1>20, <2>1, StagedOnly
      <4>2. o \in SpaceObjects(spaces[q.at.key]) BY <2>2, <4>1, InSpace DEF Objects
      <4> QED BY <1>15, <4>1, <4>2
    <3> QED BY <1>7, <1>11, <1>12, <1>14, <3>1 DEF Spares
  <2> HIDE DEF Spares
  <2>3. \A o \in Objects(q) : o \in DOMAIN scraps' /\ scraps'[o] = scraps[o] BY <1>6, <1>20, <2>1, StagedOnly
  <2>4. spaces' = spaces BY <1>6
  <2> QED BY <1>20, <2>1, <2>2, <2>3, <2>4, StaysKept
<1> QED BY <1>22, <1>17, <1>18, <1>19, <1>20, StagingStep

LEMMA StagingInitially == ASSUME VfsInit PROVE StagingInv
<1>1. PICK m \in Menus : VfsStart(m) BY DEF VfsInit
<1>2. \A l \in Lanes : serving[l] = Idle BY <1>1 DEF VfsStart
<1>3. \A l \in Lanes : ~Active(serving[l]) BY <1>2, IdleIs
<1>4. promises = {} BY <1>1 DEF VfsStart
<1> QED BY <1>3, <1>4 DEF StagingInv, Together, Own, Handles, Carrying

LEMMA StagingKept == ASSUME VfsAssumption, WellInv, StagingInv, [VfsNext]_vfsVars PROVE StagingInv'
<1>1. CASE VfsNext
  BY <1>1, StartStaging, UploadStaging, ReadSpaceStaging, SaveSpaceStaging, SweepStaging, UnlistStaging, UnstageStaging,
     SpaceExpiresStaging, PlacesStill, StillStaging DEF VfsNext
<1>2. CASE UNCHANGED vfsVars
  <2>1. UNCHANGED <<serving, scraps, spaces, promises>> BY <1>2 DEF vfsVars, stores
  <2>2. \A q \in promises : q.kind = "staged" => q.at.key \in DOMAIN spaces BY StagedOnly
  <2> QED BY <2>1, <2>2, NoneStaging
<1> QED BY <1>1, <1>2

----------------------------------------------------------------------------
(* What the invariants say of the files *)

LEMMA InvariantsKeepContent == ASSUME WellInv, PicturesInv, StagingInv PROVE ContentKept
<1>1. ASSUME NEW q \in promises, q.kind = "kept"
      PROVE  /\ q.pic \in DOMAIN bytes /\ bytes[q.pic] = q.content /\ photos[q.pic].hash = q.content
             /\ q.due => <<q.pic, q.content>> \in due
  BY <1>1 DEF WellInv, PromisesWell, PicturesInv, Lasting, KeptWell
<1>2. ASSUME NEW q \in promises, q.kind = "archived" PROVE bytes[q.pic] = q.content \/ <<q.pic, q.content>> \in versions
  BY <1>2 DEF PicturesInv, ArchivedWell
<1>3. ASSUME NEW q \in promises, q.kind = "staged", NEW files, files = Space(q.at.key).files
      PROVE  /\ q.at.name \in DOMAIN files /\ files[q.at.name].object # {}
             /\ \A o \in files[q.at.name].object : o \in DOMAIN scraps /\ scraps[o] = q.content
  <2>1. StagedWell(q) BY <1>3 DEF StagingInv
  <2>2. files = spaces[q.at.key].files BY <1>3, <2>1 DEF StagedWell, Space
  <2> QED BY <2>1, <2>2 DEF StagedWell
<1> QED BY <1>1, <1>2, <1>3 DEF ContentKept

(* An acknowledged write keeps its content, whatever requests, deaths and retries follow: a stored picture *)
(* has the bytes, the hash and the extraction it was answered for, what an overwrite replaced under full    *)
(* versioning is a version, and a staged file is in its listing with the object that holds its bytes        *)
(* (services/vfs/write.rs, staging.rs).                                                                       *)
THEOREM ContentIsKept == VfsSpec => []ContentKept
<1> DEFINE Inv == WellInv /\ PicturesInv /\ StagingInv
<1>1. VfsInit => Inv BY VfsAssumption, WellInitially, PicturesInitially, StagingInitially
<1>2. Inv /\ [VfsNext]_vfsVars => Inv' BY VfsAssumption, StaysWell, PicturesKept, StagingKept
<1>3. Inv => ContentKept BY InvariantsKeepContent
<1> QED BY <1>1, <1>2, <1>3, PTL DEF VfsSpec
=============================================================================
