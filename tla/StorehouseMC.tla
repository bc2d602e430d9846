--------------------------- MODULE StorehouseMC ---------------------------
(***************************************************************************)
(* Instances of the uploads, of the WebDAV file system, of a public share, of *)
(* a picture's metadata on both sides of a share, of the resolver, of the way to *)
(* a peer instance, and of the pure algorithms that decide what users are shown. *)
(* They share no state at their level of detail, so each behaviour follows    *)
(* one: plays.                                                               *)
(* An algorithm is checked by probes, each a step that picks its inputs.     *)
(***************************************************************************)
EXTENDS Uploads, Predicates, Hierarchy, Vfs, PublicShares, Registry, ReceivedExif, FederationTokens

SG == INSTANCE Segmentation

(* Tag labels: an even number and the next one are a label in two cases. *)
A == 2
B == 4
C == 6
D == 8
Library_ == <<20>>   \* the directory of the mirror of A
Untitled == <<22>>   \* that of the query for D
Inbox == <<24>>
Wall == <<26>>       \* a read-only query for A
Pb == <<B>>
Pn == <<C>>
Pr == <<C + 1, 30>>
Fa == <<101>>
Fb == <<103>>
Tmp == <<105>>
Ds == <<107>>

Mirror(id, root, more) ==
    more @@ [id |-> id, kind |-> "mirror", tagRoot |-> root, keepDir |-> TRUE, collapsed |-> {},
             exclude |-> {}, include |-> {}, minDepth |-> 0, maxDepth |-> 0, deeper |-> "collapse"]
Adds(include, exclude) ==
    [onAdd |-> SetToSeq({Op("assign", p) : p \in include} \cup {Op("remove", p) : p \in exclude}),
     onRemove |-> SetToSeq({Op("remove", p) : p \in include} \cup
                              IF include = {} THEN {Op("assign", p) : p \in exclude} ELSE {})]
Query(id, name, include, exclude, writable, children) ==
    [id |-> id, kind |-> "query", name |-> name, all |-> TRUE, include |-> include, exclude |-> exclude,
     untagged |-> FALSE, writeBack |-> IF writable THEN {Adds(include, exclude)} ELSE {}, children |-> children]
Hierarchy_(nodes) ==
    [writeBack |-> TRUE, safeDelete |-> "singleBranch", trashedDuplicate |-> "restore", nodes |-> nodes]
----------------------------------------------------------------------------
(* The file system: two pictures, one of them in the trash and tagged by a service. *)
MCConfig == Hierarchy_(
    <<Mirror(1, <<A>>, [name |-> Library_]), Query(2, Untitled, {<<D>>}, {}, TRUE, << >>),
      [id |-> 3, kind |-> "drop", name |-> Inbox, onAdd |-> <<Op("assign", <<D>>)>>, trashedDuplicate |-> "ignore"],
      Query(4, Wall, {<<A>>}, {}, FALSE, << >>)>>)
MCLibrary ==
    <<[hash |-> "a", tags |-> {<<A, B>>}, asserted |-> {}, trashed |-> FALSE, name |-> Fa],
      [hash |-> "b", tags |-> {<<A>>}, asserted |-> {<<D>>}, trashed |-> TRUE, name |-> Fb]>>
MCScratch == {Tmp}
MCJunk == {Ds}

Request(m, f, t, c) == [method |-> m, from |-> f, to |-> t, content |-> c]
Put_(path, c) == Request("PUT", path, << >>, c)
Delete_(path) == Request("DELETE", path, << >>, "empty")
Mkcol_(path) == Request("MKCOL", path, << >>, "empty")
Move_(from, to) == Request("MOVE", from, to, "empty")
Copy_(from, to) == Request("COPY", from, to, "empty")

Sub(name) == <<Library_, Pb, name>>

(* a file written over and over, with the client's usual empty write first *)
Overwrites == {Put_(Sub(Fa), c) : c \in {"empty", "a", "c", "d"}} \cup {Delete_(Sub(Fa)), Delete_(<<Wall, Fa>>)}
(* new files in a new directory, in the inbox and beside a picture in the trash *)
Arrivals ==
    {Put_(<<Library_, Pn, Fb>>, c) : c \in {"a", "b", "c"}} \cup {Put_(<<Inbox, Fa>>, c) : c \in {"b", "c"}}
        \cup {Delete_(<<Library_, Pn, Fb>>), Delete_(<<Inbox, Fa>>), Put_(<<Inbox, Fb>>, "c"),
                 Put_(<<Untitled, Fb>>, "c")}
(* pictures moved and copied between the nodes *)
Refilings ==
    {Move_(Sub(Fa), <<Untitled, Fa>>), Copy_(Sub(Fa), <<Untitled, Fb>>), Move_(<<Untitled, Fa>>, <<Library_, Fa>>),
     Move_(Sub(Fa), Sub(Fb)), Put_(<<Untitled, Fb>>, "b"), Move_(<<Untitled, Fb>>, <<Library_, Fb>>),
     Delete_(<<Untitled, Fa>>), Delete_(<<Wall, Fa>>), Move_(Sub(Fa), <<Inbox, Fa>>)}
(* atomic saves, by a new temporary file or with the old one moved away *)
AtomicSaves ==
    {Put_(Sub(Tmp), "c"), Put_(Sub(Tmp), "d"), Move_(Sub(Tmp), Sub(Fa)), Copy_(Sub(Tmp), Sub(Fb)),
     Move_(Sub(Fa), Sub(Tmp)), Delete_(Sub(Tmp)), Put_(Sub(Ds), "d"), Move_(Sub(Tmp), <<Inbox, Fb>>)}
(* temporary directories *)
ScratchDirs ==
    {Mkcol_(<<Library_, Tmp>>), Put_(<<Library_, Tmp, Fb>>, "c"), Move_(<<Library_, Tmp, Fb>>, <<Library_, Fb>>),
     Delete_(<<Library_, Tmp>>), Move_(<<Library_, Tmp, Fb>>, <<Library_, Tmp>>), Delete_(<<Library_, Ds>>)}
(* directories made, renamed to another case, filled and removed *)
Directories ==
    {Mkcol_(<<Library_, Pn>>), Mkcol_(<<Library_, Pr>>), Move_(<<Library_, Pn>>, <<Library_, Pr>>),
     Put_(<<Library_, Pn, Fb>>, "c"), Put_(<<Library_, Pr, Fb>>, "d"), Delete_(<<Library_, Pn>>),
     Delete_(<<Library_, Pb>>)}
MCMenus ==
    {[versioning |-> v, requests |-> Overwrites] : v \in {"none", "original", "full"}}
        \cup {[versioning |-> "none", requests |-> r] :
                r \in {Arrivals, Refilings, AtomicSaves, ScratchDirs, Directories}}

MCOwned == <<1>>

(* The public share: opened and closed to view and to contributions, its password set, kept or cleared. *)
Input(originals, upload, shareBack, password) ==
    [originals |-> originals, upload |-> upload, shareBack |-> shareBack, password |-> password]
MCAlbums == {Input(FALSE, TRUE, TRUE, "keep"), Input(TRUE, TRUE, FALSE, "set"), Input(TRUE, FALSE, TRUE, "clear")}

(* The resolver: each placement with the errands that matter to it. *)
Policy(s, i, b, e) == [strategy |-> s, importance |-> i, static |-> b, errands |-> e]
MCPolicies ==
    {Policy("round_robin", 1, 0, {"register", "invite", "mode"}),
     Policy("static", 1, 1, {"register", "invite", "capacity", "start", "heartbeat"}),
     Policy("round_robin", 0, 0, {"register", "preview", "expiry", "start", "heartbeat"}),
     Policy("least_users", 0, 0, {"register", "pass", "delete", "expiry", "heartbeat"})}
MCInvitations == {[max |-> 1, pin |-> 2], [max |-> Referral, pin |-> NoCode]}

(* The federation peer: a user on the first of its two backends. *)
MCHomes == [u \in Peers |-> 1]

(* A received picture: edits of a part of a position, claims of a field or of its absence, and proposals. *)
Delta(set, empty, clear) == [set |-> set, empty |-> empty, clear |-> clear]
Lat(n) == "gps_lat" :> n
Lng(n) == "gps_lng" :> n
Accuracy(n) == "gps_accuracy_m" :> n
Model(n) == "camera_model" :> n
Exchange(snapshot, edits, claims, proposals) ==
    [snapshot |-> snapshot, edits |-> edits, claims |-> claims, proposals |-> proposals]
MCExchanges ==
    {Exchange(Lat(0) @@ Lng(1), {Delta(Lng(0), {}, {}), Delta(Model(2), {}, {})},
              {Delta(Model(2), {}, {}), Delta(Lng(0), {}, {})}, {}),
     Exchange(Lat(0) @@ Lng(1) @@ Model(1), {Delta(Lat(1), {}, {"camera_model"})},
              {Delta(Model(2), {"gps_lat"}, {}), Delta(<< >>, {"camera_model"}, {}), Delta(<< >>, {}, {"gps_lng"})}, {}),
     Exchange(Lat(1) @@ Lng(1) @@ Accuracy(1), {Delta(Model(2), {}, {})}, {Delta(Lng(2) @@ Accuracy(2), {}, {})},
              {Delta(Lat(2) @@ Accuracy(3), {}, {}), Delta(<< >>, {"gps_lat"}, {"camera_model"})})}
----------------------------------------------------------------------------
(* Probes of hierarchies: every small config of a mirror and queries, by what two pictures carry. *)
Mirrors ==
    {Mirror(1, r, m) : r \in {<<A>>, <<A, B>>},
        m \in {<< >>, [keepDir |-> FALSE], [collapsed |-> {<<A, B, C>>}], [maxDepth |-> 1],
               [collapsed |-> {<<A, B>>}, keepDir |-> FALSE]}}
Inner ==
    {<< >>} \cup {<<m>> : m \in {n \in Mirrors : ValidNode(n)}}
        \cup {<<Query(5, <<26>>, {<<A, B>>}, e, TRUE, << >>)>> : e \in {{}, {<<A, C>>}}}
Outer ==
    Inner \cup {<<Query(7, <<20>>, {<<A>>}, e, TRUE, k)>> : e \in {{}, {<<D>>}}, k \in Inner}
        \cup {<<[id |-> 9, kind |-> "static", name |-> <<28>>, children |-> k]>> : k \in Inner}
Hierarchies ==
    {c \in {Hierarchy_(o) : o \in Outer}
        \cup {Hierarchy_(o \o <<Query(8, <<30>>, {<<A, C>>}, {}, TRUE, << >>)>>) : o \in Outer} : ValidConfig(c)}
TagSets == {FoldDeepest(s) : s \in SUBSET {<<A>>, <<A, B>>, <<A, B, C>>, <<D>>}}
ShownTags == [shown |-> {<<A, B>>}, names |-> (<<A, C>> :> <<B>>)]

(* Probes of predicates: a picture learns some of its fields. *)
Word1 == <<[letter |-> 1, upper |-> FALSE]>>
Word2 == <<[letter |-> 1, upper |-> TRUE], [letter |-> 1, upper |-> FALSE]>>
Leaves ==
    {[field |-> "iso_speed", min |-> 1, max |-> 2], [field |-> "captured_at", year |-> 2018],
     [field |-> "captured_at", is_present |-> FALSE],
     [gps_bbox |-> [lat_min |-> 0, lat_max |-> 1, lon_min |-> 0, lon_max |-> 0]],
     [field |-> "camera_brand", starts_with |-> Word1, ignore_case |-> TRUE],
     [field |-> "captured_at", time_range |-> [from |-> 90, to |-> 10], season |-> "winter"]}
Trees == {t \in Leaves \cup {[and |-> <<l, m>>] : l, m \in Leaves} \cup {[or |-> <<l, m>>] : l, m \in Leaves}
                \cup {[not |-> l] : l \in Leaves} : Accepts(t, 0)}
Blank == [f \in Fields |-> Absent]
Pictures ==
    {[Blank EXCEPT !["iso_speed"] = i, !["captured_at"] = c, !["gps_lat"] = y, !["gps_lng"] = x,
                   !["camera_brand"] = b] :
        i \in {Absent, 1, 3}, c \in {Absent, 5, Day * 200 + 95}, y \in {Absent, 1}, x \in {Absent, 0},
        b \in {Absent, Word1, Word2}}

(* Probes of segmentations: three years, twice a day, from autumn on. *)
Level(name) == <<SG!Ph(name)>>
Segmentation_(template, parts, offset) ==
    [root |-> <<"R">>, hemisphere |-> "north", catchAll |-> Absent,
     bands |-> <<[from |-> Absent, to |-> Absent, enabled |-> TRUE, template |-> template, parts |-> parts,
                  offset |-> offset]>>]
ToTheEnd(n) == [stride |-> n, bound |-> "end", inclusive_end |-> TRUE]
Segmentations ==
    {Segmentation_(<<Level("year"), Level("month")>>, [month |-> ToTheEnd(5)], [months |-> 1]),
     Segmentation_(<<Level("iso_year"), Level("week")>>, [week |-> ToTheEnd(2)], [days |-> 1]),
     Segmentation_(<<Level("year"), Level("quarter")>>, << >>, [months |-> 1]),
     Segmentation_(<<Level("year"), Level("month"), Level("day")>>, [day |-> [stride |-> 10, bound |-> "range"]], << >>),
     Segmentation_(<<Level("year"), Level("month"), Level("day"), Level("daypart")>>, << >>, [time |-> 24]),
     Segmentation_(<<Level("year"), <<SG!Ph("month"), SG!Ph("day")>> >>, [month |-> [pad |-> 2], day |-> [pad |-> 2]], << >>)}
Instants == [i \in 1..900 |-> 650 * Day + i * (Day \div 2) + 8]
----------------------------------------------------------------------------
VARIABLES plays, probe

vars == <<uploadVars, vfsVars, albumVars, receivedVars, registryVars, peersVars, plays, probe>>

Unasked == [about |-> "nothing"]

Init ==
    /\ plays \in {"uploads", "writes", "files", "album", "received", "registry", "peers", "answers"} /\ probe = Unasked
    /\ UploadsInit /\ PublicSharesInit /\ PeersStart(MCHomes)
    /\ IF plays = "files" THEN VfsInit ELSE VfsStart(CHOOSE m \in Menus : TRUE)
    /\ IF plays = "received" THEN ReceivedInit ELSE ReceivedStart(CHOOSE x \in Exchanges : TRUE, FALSE)
    /\ IF plays = "registry" THEN RegistryInit ELSE RegistryStart(<< >>, {}, CHOOSE p \in Policies : TRUE)

Ask ==
    /\ probe = Unasked
    /\ \/ \E c \in Hierarchies, t, u \in TagSets : probe' = [about |-> "hierarchy", config |-> c, tags |-> <<t, u>>]
       \/ \E t \in Trees, p \in Pictures : probe' = [about |-> "predicate", tree |-> t, pic |-> p]
       \/ \E t \in 0..(4 * Day - 1), d \in 0..2, e \in 0..2 : probe' = [about |-> "dates", at |-> t, first |-> d, next |-> e]
       \/ \E s \in {v \in Segmentations : SG!Valid(v)} : probe' = [about |-> "segmentation", config |-> s]

Beside(others) == UNCHANGED <<others, plays, probe>>

(* a bound on uploads: MaxCalls requests and reports of workers, or two, which may be overwrites *)
Few == IF plays = "writes" THEN calls' <= 2 ELSE \A s \in Slots : call'[s].kind # "overwrite"

Next ==
    \/ plays \in {"uploads", "writes"} /\ UploadsNext /\ Few
       /\ Beside(<<vfsVars, albumVars, receivedVars, registryVars, peersVars>>)
    \/ plays = "files" /\ VfsNext /\ Beside(<<uploadVars, albumVars, receivedVars, registryVars, peersVars>>)
    \/ plays = "album" /\ PublicSharesNext /\ Beside(<<uploadVars, vfsVars, receivedVars, registryVars, peersVars>>)
    \/ plays = "registry" /\ RegistryNext /\ Beside(<<uploadVars, vfsVars, albumVars, receivedVars, peersVars>>)
    \/ plays = "received" /\ ReceivedNext /\ Beside(<<uploadVars, vfsVars, albumVars, registryVars, peersVars>>)
    \/ plays = "peers" /\ PeersNext /\ Beside(<<uploadVars, vfsVars, albumVars, receivedVars, registryVars>>)
    \/ plays = "answers" /\ Ask
       /\ UNCHANGED <<uploadVars, vfsVars, albumVars, receivedVars, registryVars, peersVars, plays>>

(* The states of the uploads, the file system, the public share, the received picture,  *)
(* the resolver and the way to a peer have their types.                                         *)
StorehouseTypeOK ==
    /\ plays \in {"uploads", "writes"} => UploadsTypeOK
    /\ plays = "files" => VfsTypeOK
    /\ plays = "album" => PublicSharesTypeOK
    /\ plays = "received" => ReceivedTypeOK
    /\ plays = "registry" => RegistryTypeOK
    /\ plays = "peers" => PeersTypeOK

(* What users read from the algorithms holds of every config and picture probed.  A picture a    *)
(* mirror or a query covers is listed in some directory of it, and a move lands where it was sent *)
(* (resolver.rs).  Learning a fact of a picture never takes it out of a rule that asks for no     *)
(* absence, and following ranges tile time (predicate.rs).  Time never comes back to a segment it *)
(* has left (segmentation.rs).                                                                   *)
AnswersAgree ==
    CASE probe.about = "hierarchy" ->
            NothingLost(probe.config, probe.tags, ShownTags) /\ MovesLand(probe.config, probe.tags, ShownTags)
      [] probe.about = "predicate" -> \A poorer \in Pictures : NeverUnlearnt(probe.tree, probe.pic, poorer)
      [] probe.about = "dates" ->
            /\ probe.first <= probe.next => Tile(probe.at, probe.first, probe.next, probe.next + 1)
            /\ AroundTheClock(TimeOf(probe.at), 20 * probe.first, 30 * probe.next)
      [] probe.about = "segmentation" -> SG!SegmentsAreIntervals(probe.config, Instants)
      [] OTHER -> TRUE
=============================================================================
