---------------------------- MODULE ReceivedExif ----------------------------
(***************************************************************************)
(* The metadata of a picture on both sides of a share.  The owner's row has    *)
(* one set of fields, which the owner edits and announces.  The recipient's    *)
(* row has three layers: the owner's snapshot, the recipient's overrides of     *)
(* single fields, and the columns materialised from both, which everything      *)
(* else reads.  A proposal escalates an override to the owner                   *)
(* (domain/received_exif.rs, services/pictures/exif.rs,                          *)
(* services/shares/registration.rs).  Metadata is a function on the fields that  *)
(* have a value; an override may also claim that a field is empty.              *)
(***************************************************************************)
EXTENDS Naturals, FiniteSets, Functions

CONSTANTS
    Exchanges,   \* what the owner's row holds at first, and the deltas the owner asks for, the
                 \* recipient claims and the recipient proposes
    Registrars,  \* announcements registered at the same time
    MaxEditions, \* versions of the owner's row, bounded for TLC
    MaxChanges   \* requests of either user, bounded for TLC

Gps == {"gps_lat", "gps_lng", "gps_accuracy_m"}
ExifFields == Gps \cup {"camera_model"}
NotListed == {"gps_accuracy_m"} \* what ALL_EXIF_FIELDS omits
Emptied == 99                   \* a field claimed empty

IsExif(e) == DOMAIN e \subseteq ExifFields /\ e \in [DOMAIN e -> Nat]
IsRow(e) == IsExif(e) /\ \A f \in DOMAIN e : e[f] # Emptied
IsDelta(d) == IsRow(d.set) /\ d.empty \subseteq ExifFields /\ d.clear \subseteq ExifFields

ASSUME ReceivedExifAssumption ==
    /\ MaxEditions \in Nat \ {0} /\ MaxChanges \in Nat
    /\ \A x \in Exchanges : IsRow(x.snapshot) /\ \A d \in x.edits \cup x.claims \cup x.proposals : IsDelta(d)

VARIABLES
    exchange,  \* the one this behaviour follows
    owner,     \* the fields of the owner's row
    edition,   \* its updated_at
    editing,   \* single edits that have read the row
    granted,   \* an active share covers the picture and allows edits
    posts,     \* announcements made, delivered any number of times and in any order
    registrar, \* announcements being registered
    copy,      \* the recipient's row
    proposal,  \* the proposal under way
    asked,     \* history: what the owner's row should hold by the edits accepted
    reverted,  \* history: its fields that an edit built on an older row undid
    wish,      \* history: what the recipient should see instead of the owner's values
    shadowed,  \* history: overrides an escalation should have dropped and did not, or the reverse
    rewound,   \* history: a registration not overlapped by another replaced a newer snapshot
    changes

ownerVars == <<owner, edition, editing, granted, asked, reverted>>
postVars == <<posts, registrar>>
copyVars == <<copy, wish, shadowed>>
receivedVars == <<exchange, ownerVars, postVars, copyVars, proposal, rewound, changes>>

NotHeld == [held |-> FALSE]
NoProposal == [stage |-> "none"]
NoPost == [stage |-> "free"]

Value(exif, f) == IF f \in DOMAIN exif THEN exif[f] ELSE Emptied
Dropping(exif, fields) == Restrict(exif, DOMAIN exif \ fields)
LaidOver(top, base) ==
    [f \in DOMAIN top \cup DOMAIN base |-> IF f \in DOMAIN top THEN top[f] ELSE base[f]]

ReceivedStart(x, held) ==
    LET exif == x.snapshot IN
    /\ exchange = x /\ owner = exif /\ edition = 1 /\ editing = {} /\ granted = TRUE /\ asked = exif /\ reverted = {}
    /\ posts = {} /\ registrar = [r \in Registrars |-> NoPost]
    /\ copy = IF held THEN [held |-> TRUE, remote |-> exif, at |-> 1, overrides |-> << >>, columns |-> exif] ELSE NotHeld
    /\ wish = << >> /\ shadowed = {} /\ proposal = NoProposal /\ rewound = FALSE /\ changes = 0
ReceivedInit == \E x \in Exchanges, held \in BOOLEAN : ReceivedStart(x, held)

Change == changes < MaxChanges /\ changes' = changes + 1
----------------------------------------------------------------------------
(* Deltas: fields to set, to claim empty and to clear *)

CoupleGps(fields) == fields \cup IF fields \cap {"gps_lat", "gps_lng"} # {} THEN Gps ELSE {}
AtNullIsland(exif) == Value(exif, "gps_lat") = 0 /\ Value(exif, "gps_lng") = 0
ValidateExifEdit(set, empty, clear) ==
    DOMAIN set \cap (CoupleGps(empty) \cup CoupleGps(clear)) = {} /\ ~AtNullIsland(set)
(* clear as validated, coupled *)
Applied(exif, set, clear) == LaidOver(set, Dropping(exif, CoupleGps(clear)))
----------------------------------------------------------------------------
(* The owner *)

Accepted(set, clear, base) ==
    LET touched == DOMAIN set \cup CoupleGps(clear)
    IN /\ owner' = Applied(base, set, clear) /\ edition' = edition + 1
       /\ asked' = Applied(asked, set, clear)
       /\ reverted' = (reverted \ touched) \cup
                          {f \in ExifFields \ touched : Value(base, f) # Value(owner, f)}

(* edit_pictures_exif reads the row ... *)
ReadForEdit(set, clear, by) ==
    /\ edition + Cardinality(editing) < MaxEditions
    /\ editing' = editing \cup {[set |-> set, clear |-> clear, base |-> owner, by |-> by]}

StartEdit(d) ==
    /\ Change /\ ValidateExifEdit(d.set, {}, d.clear) /\ (\A e \in editing : e.by # "owner")
    /\ ReadForEdit(d.set, d.clear, "owner")
    /\ UNCHANGED <<owner, edition, granted, asked, reverted, postVars, copyVars, proposal, rewound>>

(* ... and later writes a whole snapshot built from what it read *)
WriteEdit(e) ==
    /\ e \in editing /\ editing' = editing \ {e}
    /\ Accepted(e.set, e.clear, e.base)
    /\ proposal' = IF e.by = "proposal" /\ proposal.stage = "applying" THEN [proposal EXCEPT !.stage = "applied"]
                   ELSE proposal
    /\ UNCHANGED <<granted, postVars, copyVars, rewound, changes>>

(* a batch edit assigns the fields it touches in one statement *)
BatchEdit(d) ==
    /\ Change /\ ValidateExifEdit(d.set, {}, d.clear) /\ edition + Cardinality(editing) < MaxEditions
    /\ Accepted(d.set, d.clear, owner)
    /\ UNCHANGED <<editing, granted, postVars, copyVars, proposal, rewound>>

Withdraw ==
    /\ granted /\ Change /\ granted' = FALSE
    /\ UNCHANGED <<owner, edition, editing, asked, reverted, postVars, copyVars, proposal, rewound>>

(* the owner's fields and version as they are *)
Announce ==
    /\ posts' = posts \cup {[at |-> edition, exif |-> owner]} /\ posts' # posts
    /\ UNCHANGED <<ownerVars, registrar, copyVars, proposal, rewound, changes>>
----------------------------------------------------------------------------
(* The recipient's row *)

Columns(exif) == Dropping(exif, {f \in DOMAIN exif : exif[f] = Emptied})
(* (0,0) stands for no position *)
DropNullIsland(exif) == IF AtNullIsland(exif) THEN Dropping(exif, Gps) ELSE exif
Materialize(remote, overrides) == DropNullIsland(Columns(LaidOver(overrides, remote)))

(* register_received_pictures looks at the version of the row, which it does not lock ... *)
OlderThanRow(post) == copy.held /\ post.at < copy.at

BeginRegistration(r, post) ==
    /\ registrar[r] = NoPost /\ (\A q \in Registrars : q < r => registrar[q] # NoPost)
    /\ post \in posts /\ ~OlderThanRow(post)
    /\ registrar' = [registrar EXCEPT ![r] = [stage |-> "checked", overlapped |-> FALSE,
                                              at |-> post.at, exif |-> post.exif]]
    /\ UNCHANGED <<ownerVars, posts, copyVars, proposal, rewound, changes>>

(* ... and writes it, with the columns that the overrides it finds there make of the snapshot *)
EndRegistration(r) ==
    /\ registrar[r].stage = "checked"
    /\ LET post == registrar[r]
           kept == IF copy.held THEN copy.overrides ELSE << >>
       IN /\ copy' = [held |-> TRUE, remote |-> post.exif, at |-> post.at, overrides |-> kept,
                      columns |-> Materialize(post.exif, kept)]
          /\ rewound' = (rewound \/ (OlderThanRow(post) /\ ~post.overlapped))
    /\ registrar' = [q \in Registrars |->
          IF q = r \/ registrar[q] = NoPost THEN NoPost ELSE [registrar[q] EXCEPT !.overlapped = TRUE]]
    /\ UNCHANGED <<ownerVars, posts, wish, shadowed, proposal, changes>>

(* the picture is unannounced by the last share it came by: the row goes, overrides and all *)
Unannounce ==
    /\ copy.held /\ Change /\ copy' = NotHeld /\ wish' = << >> /\ shadowed' = {}
    /\ UNCHANGED <<ownerVars, postVars, proposal, rewound>>

OverridePatch(set, empty) == LaidOver(set, [f \in empty |-> Emptied])
NewOverrides(patch, clear) == LaidOver(patch, Dropping(copy.overrides, clear))
(* as if a field were redundant by the owner's having a value of it *)
RedundantByKey(patch, remote) == DOMAIN patch \cap DOMAIN remote
(* a claim that says what the owner says is not stored, so that it does not hide a later edit *)
Redundant(patch, remote) == {f \in DOMAIN patch : patch[f] = Value(remote, f)}

(* one statement; unlike a registration, it takes (0,0) for a position *)
ApplyLocally(patch, clear) ==
    copy' = [copy EXCEPT !.overrides = Dropping(NewOverrides(patch, clear), Redundant(patch, copy.remote)),
                         !.columns = Columns(LaidOver(NewOverrides(patch, clear), copy.remote))]

Override(d) ==
    LET patch == OverridePatch(d.set, CoupleGps(d.empty))
        claimed == {f \in DOMAIN patch : patch[f] # Value(copy.remote, f)}
    IN /\ copy.held /\ Change /\ ValidateExifEdit(d.set, d.empty, d.clear)
       /\ ApplyLocally(patch, CoupleGps(d.clear))
       /\ wish' = LaidOver(Restrict(patch, claimed), Dropping(wish, DOMAIN patch \cup CoupleGps(d.clear)))
       /\ shadowed' = shadowed \ (DOMAIN patch \cup CoupleGps(d.clear))
       /\ proposal' = IF proposal = NoProposal THEN proposal ELSE [proposal EXCEPT !.since = @ \cup DOMAIN patch]
       /\ UNCHANGED <<ownerVars, postVars, rewound>>
----------------------------------------------------------------------------
(* A proposal *)

(* an active share that brought the picture allows edits *)
Editable == copy.held /\ granted
Propose(d) ==
    /\ Editable /\ proposal = NoProposal /\ Change
    /\ proposal' = [stage |-> "sent", set |-> d.set, clear |-> d.clear \cup d.empty, since |-> {}]
    /\ UNCHANGED <<ownerVars, postVars, copyVars, rewound>>

(* the owner's side checks the grant again, and edits as the owner would *)
StillGranted == granted
ReceiveProposal ==
    /\ proposal.stage = "sent" /\ StillGranted /\ ValidateExifEdit(proposal.set, {}, proposal.clear)
    /\ ReadForEdit(proposal.set, proposal.clear, "proposal")
    /\ proposal' = [proposal EXCEPT !.stage = "applying"]
    /\ UNCHANGED <<owner, edition, granted, asked, reverted, postVars, copyVars, rewound, changes>>

(* no grant, an invalid delta, an extraction under way, or an answer that does not come *)
ProposalFails ==
    /\ proposal.stage \in {"sent", "applying", "applied"} /\ proposal' = NoProposal
    /\ UNCHANGED <<ownerVars, postVars, copyVars, rewound, changes>>

Touched == proposal.clear \cup (DOMAIN proposal.set \ NotListed)
(* once the owner has applied it, the override makes way, one claimed meanwhile too *)
Escalate ==
    /\ proposal.stage = "applied" /\ proposal' = NoProposal
    /\ IF copy.held
       THEN LET proposed == DOMAIN proposal.set \cup CoupleGps(proposal.clear)
            IN /\ ApplyLocally(<< >>, Touched)
               /\ wish' = Dropping(wish, proposed \ proposal.since)
               /\ shadowed' = shadowed \cup (proposed \ Touched) \cup (proposed \cap proposal.since)
       ELSE UNCHANGED copyVars
    /\ UNCHANGED <<ownerVars, postVars, rewound, changes>>
----------------------------------------------------------------------------
ReceivedNext ==
    /\ UNCHANGED exchange
    /\ \/ \E d \in exchange.edits : StartEdit(d) \/ BatchEdit(d)
       \/ \E e \in editing : WriteEdit(e)
       \/ Withdraw \/ Announce
       \/ \E r \in Registrars : EndRegistration(r) \/ \E post \in posts : BeginRegistration(r, post)
       \/ Unannounce
       \/ \E d \in exchange.claims : Override(d)
       \/ \E d \in exchange.proposals : Propose(d)
       \/ ReceiveProposal \/ ProposalFails \/ Escalate

ReceivedSpec == ReceivedInit /\ [][ReceivedNext]_receivedVars
----------------------------------------------------------------------------
ReceivedTypeOK ==
    /\ IsExif(owner) /\ edition \in 1..MaxEditions /\ granted \in BOOLEAN
    /\ \A p \in posts : IsExif(p.exif) /\ p.at \in 1..edition
    /\ copy # NotHeld => IsExif(copy.remote) /\ IsExif(copy.columns) /\ IsExif(copy.overrides) /\ copy.at \in 1..edition
    /\ proposal.stage \in {"none", "sent", "applying", "applied"}
    /\ reverted \subseteq ExifFields /\ shadowed \subseteq ExifFields /\ IsExif(wish)

(* Both users see what they asked for (received_exif.rs, exif.rs, batch.rs, registration.rs).      *)
(* The owner's row holds every edit accepted, but for fields changed while an edit that does not    *)
(* touch them was built.  The recipient's columns show its own claims, sticky whatever is announced *)
(* in between, and in every other field the owner's snapshot, but for fields an escalation does not *)
(* list or that were claimed while it was under way; and an announcement never replaces the         *)
(* snapshot of a newer one, unless their registrations overlap.                                     *)
LayersResolve ==
    /\ \A f \in ExifFields \ reverted : Value(owner, f) = Value(asked, f)
    /\ copy.held =>
          LET shown == Dropping(copy.columns, shadowed)
              meant == LaidOver(wish, copy.remote)
          IN \/ shown = Dropping(Columns(meant), shadowed)
             \/ AtNullIsland(LaidOver(copy.overrides, copy.remote)) /\ shown = Dropping(Columns(meant), shadowed \cup Gps)
    /\ ~rewound
=============================================================================
