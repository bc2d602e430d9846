---------------------------- MODULE PublicShares ----------------------------
(***************************************************************************)
(* A public share: a tag of one user's library shown to whoever holds the   *)
(* link, an album (services/shares/public.rs).  Holders look at it, send     *)
(* pictures to it, and turn it into a private share of their own, derived    *)
(* from it; the owner changes it, revokes it and clears what was sent.       *)
(*                                                                         *)
(* Nothing about who may see what is stored: each request reads the album,   *)
(* then acts on what it read while others go on.  A request occupies a desk. *)
(***************************************************************************)
EXTENDS Integers, FiniteSets, Sequences

CONSTANTS
    Holders,     \* users with an account who hold the link
    Neighbours,  \* those of them on the owner's instance
    Shots,       \* ids of the owner's pictures; 0 is there from the start
    Albums,      \* what the owner may set: originals, upload, share-back, and the password kept, set or cleared
    Desks,       \* requests served at the same time, numbered
    MaxAsks,     \* requests and edits, bounded for TLC
    MaxLost      \* requests that die under way, bounded for TLC

ASSUME PublicSharesAssumption ==
    /\ Neighbours \subseteq Holders /\ 0 \in Shots /\ Desks \subseteq Nat \ {0}
    /\ \A i \in Albums : i.originals \in BOOLEAN /\ i.upload \in BOOLEAN /\ i.shareBack \in BOOLEAN

NoPassword == 0

VARIABLES
    album,     \* the row: status, expiry, password (a new number for each one set), flags
    shots,     \* the owner's pictures: in the album's tag or not, trashed or not, creator
    tickets,   \* upload sessions opened for contributions
    derived,   \* outgoing shares minted from the album, in that order
    joined,    \* the holders' incoming shares: status by the id of the outgoing one
    unlocked,  \* holders with an unlock session
    desk,      \* the request under way at each desk
    latest,    \* history: the last password set, or none
    blurred,   \* history: an update kept a password it had read before another change
    crossed,   \* history: derived shares that ended while a request was joining or leaving them
    cascaded,  \* history: a revoke has gone through every derived share
    misdeeds,  \* history: what was told, taken or trashed against the album's rules
    asks, losts

sharing == <<derived, joined>>
told == <<latest, blurred, crossed, cascaded, misdeeds>>
albumVars == <<album, shots, tickets, sharing, unlocked, desk, told, asks, losts>>

NoRequest == [stage |-> "free", stale |-> FALSE]
Ended == {"revoked", "tombstoned"}

PublicSharesInit ==
    /\ album = [status |-> "active", expired |-> FALSE, password |-> NoPassword, originals |-> TRUE, upload |-> TRUE,
                shareBack |-> TRUE]
    /\ shots = [p \in {0} |-> [tagged |-> TRUE, trashed |-> FALSE, creator |-> "owner", gift |-> FALSE]]
    /\ tickets = {} /\ derived = << >> /\ joined = << >> /\ unlocked = {}
    /\ desk = [d \in Desks |-> NoRequest]
    /\ latest = NoPassword /\ blurred = FALSE /\ crossed = {} /\ cascaded = FALSE /\ misdeeds = {}
    /\ asks = 0 /\ losts = 0

Counted == asks + losts < MaxAsks /\ asks' = asks + 1 /\ UNCHANGED losts
(* a request takes the first free desk *)
Opens(request) ==
    \E d \in Desks :
        /\ desk[d] = NoRequest /\ (\A e \in Desks : e < d => desk[e] # NoRequest) /\ Counted
        /\ desk' = [desk EXCEPT ![d] = request]
Proceeds(d, request) == desk' = [desk EXCEPT ![d] = request]
Answered(d) == desk' = [desk EXCEPT ![d] = NoRequest]
Reached(d, stage) == desk[d].stage = stage
(* the album changes: requests under way go on with the row they have read *)
Outdated(except) == [d \in Desks |-> IF d = except \/ desk[d] = NoRequest THEN desk[d] ELSE [desk[d] EXCEPT !.stale = TRUE]]

IsAccessible(a) == a.status = "active" /\ ~a.expired
ViewOnly(a) == ~a.originals
Covered(p) == shots[p].tagged /\ ~shots[p].trashed
(* resolve_access: contributions come without the unlock session *)
Resolves(a, session) == IsAccessible(a) /\ (a.password = NoPassword \/ session)
----------------------------------------------------------------------------
(* Looking *)

Unlock(v) ==
    /\ IsAccessible(album) /\ album.password # NoPassword /\ v \notin unlocked
    /\ Counted /\ unlocked' = unlocked \cup {v}
    /\ UNCHANGED <<album, shots, tickets, sharing, desk, told>>

KeyExpires(v) ==
    /\ v \in unlocked /\ Counted
    /\ unlocked' = unlocked \ {v}
    /\ UNCHANGED <<album, shots, tickets, sharing, desk, told>>

Gate(about, a, v) ==
    CASE about = "landing" -> IsAccessible(a)
      [] about = "copy" -> IsAccessible(a) /\ a.originals /\ v \in Neighbours
      [] OTHER -> Resolves(a, v \in unlocked)

(* lists and URLs are of the variant of the picture that the request asks for *)
Variants == {"thumbnail", "original"}

Enquire(v, about, variant) ==
    /\ Gate(about, album, v) /\ (variant # "thumbnail" => about \in {"list", "url"})
    /\ Opens([stage |-> "tell", stale |-> FALSE, about |-> about, variant |-> variant, row |-> album])
    /\ UNCHANGED <<album, shots, tickets, sharing, unlocked, told>>

(* what each answer holds of a picture: an answer is stripped by the row its request has read; the *)
(* list of the date of capture alone, and not of the original's URL, its own date, or whether the   *)
(* picture has a place                                                                             *)
ListTells(a, variant) == {variant, "credit", "created", "located"} \cup IF ViewOnly(a) THEN {} ELSE {"date"}
UrlTells(a, variant) == IF ViewOnly(a) /\ variant # "thumbnail" THEN {} ELSE {variant}
DetailTells(a) == {"credit"} \cup IF ViewOnly(a) THEN {} ELSE {"date", "place"}
AggregateTells(a) == {"credit"} \cup IF ViewOnly(a) THEN {} ELSE {"date", "place"}
CopyTells == {"original", "date", "place", "credit"}
MetaTells == {"count"}
Tells(q) ==
    LET about == q.about
        a == q.row
    IN  CASE about = "list" -> ListTells(a, q.variant) [] about = "url" -> UrlTells(a, q.variant)
          [] about = "detail" -> DetailTells(a) [] about = "aggregate" -> AggregateTells(a)
          [] about = "copy" -> CopyTells [] OTHER -> MetaTells

(* the permission model of 27_public_shares.md, section 4 *)
Offered(a) ==
    IF ~IsAccessible(a) THEN {}
    ELSE {"thumbnail", "credit", "count"}
            \cup IF a.originals THEN {"original", "date", "created", "place", "located"} ELSE {}

(* coverage is read when the answer is made; a request overtaken by a change of the album is not to blame *)
Tell(d) ==
    /\ Reached(d, "tell") /\ \E p \in DOMAIN shots : Covered(p)
    /\ Answered(d)
    /\ misdeeds' = IF desk[d].stale THEN misdeeds
                   ELSE misdeeds \cup {desk[d].about} \X (Tells(desk[d]) \ Offered(album))
    /\ UNCHANGED <<album, shots, tickets, sharing, unlocked, latest, blurred, crossed, cascaded, asks, losts>>
(* nothing is covered: 404 or an empty list *)
TellNothing(d) ==
    /\ Reached(d, "tell") /\ ~\E p \in DOMAIN shots : Covered(p)
    /\ Answered(d)
    /\ UNCHANGED <<album, shots, tickets, sharing, unlocked, told, asks, losts>>
----------------------------------------------------------------------------
(* Contributing: a session for the owner's library, the completed upload, and then its creator *)

TakesGifts(a) == Resolves(a, FALSE) /\ a.upload

Ticket ==
    /\ TakesGifts(album) /\ Counted
    /\ \E p \in Shots \ (DOMAIN shots \cup tickets) : tickets' = tickets \cup {p}
    /\ UNCHANGED <<album, shots, sharing, unlocked, desk, told>>

Finish(p, named) ==
    /\ p \in tickets /\ TakesGifts(album)
    /\ \A d \in Desks : ~(Reached(d, "land") /\ desk[d].pic = p)
    /\ Opens([stage |-> "land", stale |-> FALSE, pic |-> p, named |-> named])
    /\ UNCHANGED <<album, shots, tickets, sharing, unlocked, told>>

(* the row and the album's tag are one transaction of complete_upload *)
Land(d) ==
    /\ Reached(d, "land")
    /\ shots' = [p \in DOMAIN shots \cup {desk[d].pic} |->
          IF p = desk[d].pic THEN [tagged |-> TRUE, trashed |-> FALSE, creator |-> "owner", gift |-> TRUE] ELSE shots[p]]
    /\ tickets' = tickets \ {desk[d].pic}
    /\ IF desk[d].named THEN Proceeds(d, [desk[d] EXCEPT !.stage = "credit"]) ELSE Answered(d)
    /\ misdeeds' = IF desk[d].stale \/ (IsAccessible(album) /\ album.upload) THEN misdeeds ELSE misdeeds \cup {<<"upload", "uninvited">>}
    /\ UNCHANGED <<album, sharing, unlocked, latest, blurred, crossed, cascaded, asks, losts>>

Credit(d) ==
    /\ Reached(d, "credit")
    /\ shots' = [shots EXCEPT ![desk[d].pic].creator = "guest"]
    /\ Answered(d)
    /\ UNCHANGED <<album, tickets, sharing, unlocked, told, asks, losts>>
----------------------------------------------------------------------------
(* Subscribing: the owner's side mints a derived share or finds the one it has, the holder's joins it *)

Claimable(a) == IsAccessible(a) /\ a.originals
Live(id) == derived[id].status \notin Ended
(* a fault: the shares still awaiting their first pass are not found *)
FindDerivedActive == {id \in DOMAIN derived : derived[id].status = "active"}
FindDerivedByPublicShare == {id \in DOMAIN derived : Live(id)}

Claim(v) ==
    /\ Claimable(album)
    /\ Opens([stage |-> "find", stale |-> FALSE, who |-> v, shareBack |-> album.shareBack, id |-> 0])
    /\ UNCHANGED <<album, shots, tickets, sharing, unlocked, told>>

FindDerived(v) == {id \in FindDerivedByPublicShare : derived[id].who = v}

FindExisting(d) ==
    /\ Reached(d, "find")
    /\ LET found == FindDerived(desk[d].who) IN
       \/ \E id \in found : Proceeds(d, [desk[d] EXCEPT !.stage = "join", !.id = id])
       \/ found = {} /\ Proceeds(d, [desk[d] EXCEPT !.stage = "mint"])
    /\ UNCHANGED <<album, shots, tickets, sharing, unlocked, told, asks, losts>>

(* one transaction; uq_outgoing_share refuses a second live share of the tag to the same user *)
MintDerived(d) ==
    /\ Reached(d, "mint")
    /\ LET id == Len(derived) + 1
           row == [who |-> desk[d].who, status |-> "first", shareBack |-> desk[d].shareBack,
                   late |-> album.status = "revoked"]
       IN  IF \E e \in DOMAIN derived : Live(e) /\ derived[e].who = desk[d].who
           THEN Answered(d) /\ UNCHANGED derived
           ELSE derived' = Append(derived, row) /\ Proceeds(d, [desk[d] EXCEPT !.stage = "join", !.id = id])
    /\ UNCHANGED <<album, shots, tickets, joined, unlocked, told, asks, losts>>

(* IncomingShareRepository::create: a row that is there keeps its status *)
Join(d) ==
    /\ Reached(d, "join")
    /\ joined' = [id \in DOMAIN joined \cup {desk[d].id} |-> IF id \in DOMAIN joined THEN joined[id] ELSE "pending"]
    /\ Proceeds(d, [desk[d] EXCEPT !.stage = "activate"])
    /\ UNCHANGED <<album, shots, tickets, derived, unlocked, told, asks, losts>>

Activate(d) ==
    /\ Reached(d, "activate")
    /\ joined' = [joined EXCEPT ![desk[d].id] = "active"]
    /\ Answered(d)
    /\ UNCHANGED <<album, shots, tickets, derived, unlocked, told, asks, losts>>

(* the first pass of the announcements, which ShareDelivery details *)
FirstPass(id) ==
    /\ derived[id].status = "first"
    /\ derived' = [derived EXCEPT ![id].status = "active"]
    /\ UNCHANGED <<album, shots, tickets, joined, unlocked, desk, told, asks, losts>>

Joining(id) == \E d \in Desks : desk[d].stage \in {"join", "activate"} /\ desk[d].id = id
Crosses(id, after) == crossed' = IF Joining(id) \/ after = "active" THEN crossed \cup {id} ELSE crossed

(* reject_incoming_share of a share not yet accepted: both ends in one go *)
Decline(id) ==
    /\ joined[id] = "pending" /\ Counted
    /\ joined' = [joined EXCEPT ![id] = "tombstoned"] /\ derived' = [derived EXCEPT ![id].status = "tombstoned"]
    /\ Crosses(id, "tombstoned")
    /\ UNCHANGED <<album, shots, tickets, unlocked, desk, latest, blurred, cascaded, misdeeds>>

(* of an active one: this end, then the owner's *)
Leave(id) ==
    /\ joined[id] = "active"
    /\ joined' = [joined EXCEPT ![id] = "tombstoned"]
    /\ Opens([stage |-> "notify", stale |-> FALSE, id |-> id])
    /\ UNCHANGED <<album, shots, tickets, derived, unlocked, told>>

NotifyLeft(d) ==
    /\ Reached(d, "notify")
    /\ derived' = [derived EXCEPT ![desk[d].id].status = "tombstoned"]
    /\ Crosses(desk[d].id, joined[desk[d].id])
    /\ Answered(d)
    /\ UNCHANGED <<album, shots, tickets, joined, unlocked, latest, blurred, cascaded, misdeeds, asks, losts>>
----------------------------------------------------------------------------
(* The owner *)

Amend(input) ==
    /\ Opens([stage |-> "write", stale |-> FALSE, input |-> input, password |-> album.password])
    /\ UNCHANGED <<album, shots, tickets, sharing, unlocked, told>>

(* the password kept is the one the request has read; an update may move the expiry to later *)
Write(d) ==
    /\ Reached(d, "write")
    /\ LET i == desk[d].input
           password == CASE i.password = "keep" -> desk[d].password
                         [] i.password = "set" -> asks
                         [] OTHER -> NoPassword
       IN  /\ album' = [album EXCEPT !.expired = FALSE, !.password = password, !.originals = i.originals,
                            !.upload = i.upload, !.shareBack = i.originals /\ (i.shareBack \/ i.upload)]
           /\ latest' = IF i.password = "keep" THEN latest ELSE password
           /\ blurred' = (blurred \/ (i.password = "keep" /\ desk[d].stale))
    /\ desk' = [Outdated(d) EXCEPT ![d] = NoRequest]
    /\ UNCHANGED <<shots, tickets, sharing, unlocked, crossed, cascaded, misdeeds, asks, losts>>

Expire ==
    /\ IsAccessible(album) /\ Counted
    /\ album' = [album EXCEPT !.expired = TRUE]
    /\ desk' = Outdated(0)
    /\ UNCHANGED <<shots, tickets, sharing, unlocked, told>>

(* the owner's other requests: a picture leaves or joins the tag, goes to the trash or comes back *)
Refile(p) ==
    /\ Counted
    /\ \/ shots' = [shots EXCEPT ![p].tagged = ~@]
       \/ shots' = [shots EXCEPT ![p].trashed = ~@]
    /\ UNCHANGED <<album, tickets, sharing, unlocked, desk, told>>

(* what a revoke goes through: the derived shares to end, the one being told, the pictures to trash *)
Round(stage, clear) == [stage |-> stage, stale |-> FALSE, clear |-> clear, todo |-> {}, id |-> 0, pics |-> {}]

(* revoke_public_share: the album first, whatever follows *)
Revoke(cascade, clear) ==
    /\ album' = [album EXCEPT !.status = "revoked"] /\ Counted
    /\ LET old == Outdated(0)
           next == IF cascade THEN "derived" ELSE IF clear THEN "sweep" ELSE "free"
       IN  \E d \in Desks :
            /\ desk[d] = NoRequest /\ \A e \in Desks : e < d => desk[e] # NoRequest
            /\ desk' = IF next = "free" THEN old ELSE [old EXCEPT ![d] = Round(next, clear)]
    /\ UNCHANGED <<shots, tickets, sharing, unlocked, told>>

AfterCascade(d) == IF desk[d].clear THEN Proceeds(d, [desk[d] EXCEPT !.stage = "sweep"]) ELSE Answered(d)

ListDerived(d) ==
    /\ Reached(d, "derived")
    /\ Proceeds(d, [desk[d] EXCEPT !.stage = "mark", !.todo = FindDerivedByPublicShare])
    /\ UNCHANGED <<album, shots, tickets, sharing, unlocked, told, asks, losts>>

(* revoke_outgoing_share of each in turn: this end, then the holder's *)
MarkRevoked(d) ==
    /\ Reached(d, "mark")
    /\ \E id \in desk[d].todo :
        LET rest == desk[d].todo \ {id} IN
        IF derived[id].status = "revoked"
        THEN Proceeds(d, [desk[d] EXCEPT !.todo = rest]) /\ UNCHANGED derived
        ELSE /\ derived' = [derived EXCEPT ![id].status = "revoked"]
             /\ Proceeds(d, [desk[d] EXCEPT !.stage = "reach", !.todo = rest, !.id = id])
    /\ UNCHANGED <<album, shots, tickets, joined, unlocked, told, asks, losts>>

(* an unknown share is passed over here, and an error elsewhere, which ends the request *)
TellRevoked(d) ==
    /\ Reached(d, "reach")
    /\ LET id == desk[d].id
           here == derived[id].who \in Neighbours
       IN  /\ IF id \in DOMAIN joined /\ ~(here /\ joined[id] \in Ended)
              THEN joined' = [joined EXCEPT ![id] = "revoked"] ELSE UNCHANGED joined
           /\ IF here \/ id \in DOMAIN joined THEN Proceeds(d, [desk[d] EXCEPT !.stage = "mark"]) ELSE Answered(d)
           /\ Crosses(id, "revoked")
    /\ UNCHANGED <<album, shots, tickets, derived, unlocked, latest, blurred, cascaded, misdeeds, asks, losts>>

CascadeEnds(d) ==
    /\ Reached(d, "mark") /\ desk[d].todo = {}
    /\ AfterCascade(d) /\ cascaded' = TRUE
    /\ UNCHANGED <<album, shots, tickets, sharing, unlocked, latest, blurred, crossed, misdeeds, asks, losts>>

ContributionIds == {p \in DOMAIN shots : Covered(p) /\ shots[p].creator = "guest"}

(* trash_contributions: alone, or at the end of a revoke *)
TrashContributions ==
    /\ Opens(Round("sweep", FALSE))
    /\ UNCHANGED <<album, shots, tickets, sharing, unlocked, told>>

SweepGifts(d) ==
    /\ Reached(d, "sweep")
    /\ IF ContributionIds = {} THEN Answered(d) ELSE Proceeds(d, [desk[d] EXCEPT !.stage = "trash", !.pics = ContributionIds])
    /\ UNCHANGED <<album, shots, tickets, sharing, unlocked, told, asks, losts>>

TrashSwept(d) ==
    /\ Reached(d, "trash")
    /\ shots' = [p \in DOMAIN shots |-> IF p \in desk[d].pics THEN [shots[p] EXCEPT !.trashed = TRUE] ELSE shots[p]]
    /\ Answered(d)
    /\ misdeeds' = IF \A p \in desk[d].pics : shots[p].gift THEN misdeeds ELSE misdeeds \cup {<<"sweep", "not sent">>}
    /\ UNCHANGED <<album, tickets, sharing, unlocked, latest, blurred, crossed, cascaded, asks, losts>>

(* the process dies, a peer is out of reach, or an answer is lost *)
Dies(d) ==
    /\ desk[d] # NoRequest /\ losts < MaxLost /\ losts' = losts + 1
    /\ crossed' = IF Reached(d, "reach") THEN crossed \cup {desk[d].id} ELSE crossed
    /\ Answered(d)
    /\ UNCHANGED <<album, shots, tickets, sharing, unlocked, latest, blurred, cascaded, misdeeds, asks>>
----------------------------------------------------------------------------
About == {"landing", "list", "url", "detail", "aggregate", "copy"}

PublicSharesNext ==
    \/ \E v \in Holders : Unlock(v) \/ KeyExpires(v) \/ Claim(v) \/ \E a \in About, w \in Variants : Enquire(v, a, w)
    \/ Ticket \/ \E p \in Shots, named \in BOOLEAN : Finish(p, named)
    \/ \E id \in DOMAIN derived : FirstPass(id)
    \/ \E id \in DOMAIN joined : Decline(id) \/ Leave(id)
    \/ \E i \in Albums : Amend(i)
    \/ Expire \/ \E p \in DOMAIN shots : Refile(p)
    \/ \E cascade, clear \in BOOLEAN : Revoke(cascade, clear)
    \/ TrashContributions
    \/ \E d \in Desks :
        \/ Tell(d) \/ TellNothing(d) \/ Land(d) \/ Credit(d)
        \/ FindExisting(d) \/ MintDerived(d) \/ Join(d) \/ Activate(d) \/ NotifyLeft(d)
        \/ Write(d) \/ ListDerived(d) \/ MarkRevoked(d) \/ TellRevoked(d) \/ CascadeEnds(d)
        \/ SweepGifts(d) \/ TrashSwept(d) \/ Dies(d)

PublicSharesSpec == PublicSharesInit /\ [][PublicSharesNext]_albumVars
----------------------------------------------------------------------------
PublicSharesTypeOK ==
    /\ album.status \in {"active", "revoked"} /\ DOMAIN shots \subseteq Shots /\ tickets \subseteq Shots \ DOMAIN shots
    /\ DOMAIN joined \subseteq DOMAIN derived /\ \A id \in DOMAIN joined : joined[id] \in {"pending", "active"} \cup Ended
    /\ \A id \in DOMAIN derived : derived[id].who \in Holders /\ derived[id].status \in {"first", "active"} \cup Ended

(* What the list of a view-only album gives away, although "the presigned variant is a thumbnail,     *)
(* never the original" (public.rs 203-205), a view-only gallery is "thumbnails only, EXIF/GPS omitted *)
(* from the JSON" (27_public_shares.md 103), and such a share "strips originals + EXIF/GPS from bytes *)
(* and JSON" (317): the original, to a request that asks the list for that variant, the date of the   *)
(* original file, and whether the picture has a place.                                                *)
ListLeaks == {"list"} \X {"original", "created", "located"}

(* An album ends where its owner ends it.  A cascading revoke that went through leaves no share      *)
(* derived from the album, but those claimed before it and minted after; when nothing is under way,   *)
(* nobody still holds an active end of a share that is dead, but one that ended while it was being    *)
(* joined, left or told; the password is the last one set unless two updates overlapped; and no       *)
(* answer but a list told, no contribution was accepted and no picture trashed that the album's rules *)
(* do not allow, by a request that was not overtaken by a change of them; a list tells against them   *)
(* ListLeaks and nothing more, and never the place or the date of capture (public.rs).                *)
AlbumEndsClean ==
    /\ cascaded => \A id \in DOMAIN derived : Live(id) => derived[id].late
    /\ (\A d \in Desks : desk[d] = NoRequest) =>
            \A id \in DOMAIN joined : joined[id] = "active" => Live(id) \/ id \in crossed
    /\ album.password = latest \/ blurred
    /\ misdeeds \subseteq ListLeaks
=============================================================================
