------------------------------ MODULE Registry ------------------------------
(***************************************************************************)
(* The resolver: the service in front of several backends that knows which   *)
(* of them holds a user's account (resolver/src).  It admits signups, places  *)
(* them on a backend and maps their names; a routine corrects the mappings    *)
(* from the backends' own lists of users.                                     *)
(*                                                                         *)
(* A signup, a change of a setting and a pass of the routine are each several *)
(* statements and calls; a clerk serves one of the first two at a time.       *)
(***************************************************************************)
EXTENDS Integers, FiniteSets, Functions, FiniteSetsExt

CONSTANTS
    Names,      \* usernames people ask for
    Servers,    \* the backends, numbered in the order their rows were created
    Policies,   \* placement: strategy, pin importance, static backend; and the errands a behaviour is made of
    Invitations, \* what an invite may be: max uses and pinned backend
    Clerks,     \* requests served at the same time
    MaxErrands, \* requests, heartbeats and edits, bounded for TLC
    MaxCuts     \* requests and passes that die under way, bounded for TLC

ASSUME RegistryAssumption ==
    /\ Servers \subseteq Nat /\ MaxErrands \in Nat /\ MaxCuts \in Nat
    /\ IsFiniteSet(Names) /\ IsFiniteSet(Clerks)
    /\ \A i \in Invitations : i.max \in Int /\ i.pin \in Int

NoCode == 0
Referral == -1  \* max_uses NULL: a tracking link, good in open mode only
NoLimit == 0    \* max_uses 0, and a backend with max_users NULL
Modes == {"open", "invite"}

VARIABLES
    fleet,     \* the backends' rows
    homes,     \* the accounts on each backend
    mappings,  \* username to backend
    invites,   \* by code
    policy,    \* the placement settings of this behaviour
    override,  \* the stored registration mode
    live,      \* the published one
    clerk,     \* the request under way at each clerk
    pass,      \* the pass of MappingReconcile
    admitted,  \* history: accounts made through each code
    excused,   \* history: names that raced themselves, lost an answer or were unmapped by a pass
    wronged,   \* history: what a pass or a signup did against the rules
    crossing,  \* history: two changes of the mode overlapped
    errands, cuts

fleetVars == <<fleet, homes>>
doorVars == <<invites, override, live>>
registryTold == <<admitted, excused, wronged, crossing>>
registryVars == <<fleetVars, mappings, doorVars, policy, clerk, pass, registryTold, errands, cuts>>

AtEase == [stage |-> "free"]
NoPass == [stage |-> "idle"]
Newcomer == [known |-> FALSE, reachable |-> FALSE, token |-> "none", users |-> 0, accepting |-> TRUE, max |-> NoLimit,
             selected |-> 0]
Heard(users) == [Newcomer EXCEPT !.known = TRUE, !.reachable = TRUE, !.token = "good", !.users = users]

(* an upsert of one entry *)
Noted(f, key, value) == [x \in DOMAIN f \cup {key} |-> IF x = key THEN value ELSE f[x]]

RegistryStart(mapped, heard, p) ==
    /\ mappings = mapped
    /\ homes = [b \in Servers |-> {n \in DOMAIN mapped : mapped[n] = b}]
    /\ fleet = [b \in Servers |-> IF b \in heard THEN Heard(Cardinality(homes[b])) ELSE Newcomer]
    /\ invites = << >> /\ policy = p
    /\ override = "open" /\ live = "open"
    /\ clerk = [c \in Clerks |-> AtEase] /\ pass = NoPass
    /\ admitted = << >> /\ excused = {} /\ wronged = {} /\ crossing = FALSE
    /\ errands = 0 /\ cuts = 0

(* the resolver has heard from some backends, and some users live on these and are mapped *)
RegistryInit ==
    \E heard \in SUBSET Servers, settled \in SUBSET Names, p \in Policies :
        \E mapped \in [settled -> heard] : RegistryStart(mapped, heard, p)

Errand(kind) == kind \in policy.errands /\ errands < MaxErrands /\ errands' = errands + 1 /\ UNCHANGED cuts
Sits(kind, request) ==
    \E c \in Clerks :
        /\ clerk[c] = AtEase /\ (\A d \in Clerks : d < c => clerk[d] # AtEase) /\ Errand(kind)
        /\ clerk' = [clerk EXCEPT ![c] = request]
Turns(c, request) == clerk' = [clerk EXCEPT ![c] = request]
Rises(c) == clerk' = [clerk EXCEPT ![c] = AtEase]
Seated(c, stage) == clerk[c].stage = stage
Asking(n) == {c \in Clerks : clerk[c].stage \in {"door", "redeem", "place", "provision", "map"} /\ clerk[c].name = n}

(* the pass under way no longer sees a library at rest, and is sure of the mapping of n no more *)
Disturbed(n) == IF pass = NoPass THEN pass ELSE [pass EXCEPT !.calm = FALSE, !.sure = @ \ {n}]
----------------------------------------------------------------------------
(* The fleet *)

(* a backend announces itself when it starts; an upsert of its address keeps the rest of its row *)
SelfRegister(b) ==
    /\ ~fleet[b].known /\ Errand("start")
    /\ fleet' = [fleet EXCEPT ![b].known = TRUE]
    /\ UNCHANGED <<homes, mappings, doorVars, policy, clerk, pass, registryTold>>

(* an unknown backend is answered 404 *)
Heartbeat(b) ==
    /\ fleet[b].known /\ Errand("heartbeat")
    /\ fleet' = [fleet EXCEPT ![b].reachable = TRUE, ![b].token = "good", ![b].users = Cardinality(homes[b])]
    /\ UNCHANGED <<homes, mappings, doorVars, policy, clerk, pass, registryTold>>

(* no heartbeat came in time: the backend no longer accepts the token it gave *)
TokenExpires(b) ==
    /\ fleet[b].token = "good" /\ Errand("expiry")
    /\ fleet' = [fleet EXCEPT ![b].token = "expired"]
    /\ UNCHANGED <<homes, mappings, doorVars, policy, clerk, pass, registryTold>>

StaleBackendPrune ==
    /\ \E b \in Servers : fleet[b].reachable /\ fleet[b].token # "good"
    /\ fleet' = [b \in Servers |-> [fleet[b] EXCEPT !.reachable = @ /\ fleet[b].token = "good"]]
    /\ UNCHANGED <<homes, mappings, doorVars, policy, clerk, pass, registryTold, errands, cuts>>

SetCapacity(b, accepting, max) ==
    /\ fleet[b].known /\ Errand("capacity")
    /\ fleet' = [fleet EXCEPT ![b].accepting = accepting, ![b].max = max]
    /\ UNCHANGED <<homes, mappings, doorVars, policy, clerk, pass, registryTold>>

(* the replay of a backend's token: sent to a reachable one, accepted while it lasts *)
Target(b) == fleet[b].reachable /\ fleet[b].token # "none"
Answers(b) == Target(b) /\ fleet[b].token = "good"

(* an admin of the backend deletes the account; nothing tells the resolver *)
DeleteUser(b, n) ==
    /\ n \in homes[b] /\ Errand("delete")
    /\ homes' = [homes EXCEPT ![b] = @ \ {n}] /\ pass' = Disturbed(n)
    /\ UNCHANGED <<fleet, mappings, doorVars, policy, clerk, registryTold>>
----------------------------------------------------------------------------
(* Invites and the registration mode *)

IsExhausted(i) == i.max > 0 /\ i.uses >= i.max
IsActive(i, mode) == ~i.expired /\ ~IsExhausted(i) /\ ~(i.max = Referral /\ mode # "open")

MintInvite(i) ==
    /\ Cardinality(DOMAIN invites) < Cardinality(Invitations) /\ Errand("invite")
    /\ LET code == 1 + Cardinality(DOMAIN admitted)
       IN /\ invites' = Noted(invites, code, [max |-> i.max, pin |-> i.pin, uses |-> 0, expired |-> FALSE])
          /\ admitted' = Noted(admitted, code, [max |-> i.max, accounts |-> 0])
    /\ UNCHANGED <<fleetVars, mappings, override, live, policy, clerk, pass, excused, wronged, crossing>>

DropInvites(codes) ==
    /\ codes # {} /\ invites' = Restrict(invites, DOMAIN invites \ codes)
    /\ UNCHANGED <<fleetVars, mappings, override, live, policy, clerk, pass, registryTold>>

DeleteInvite(code) == code \in DOMAIN invites /\ Errand("invite") /\ DropInvites({code})
CleanupInvites ==
    /\ DropInvites({code \in DOMAIN invites : invites[code].expired \/ IsExhausted(invites[code])})
    /\ UNCHANGED <<errands, cuts>>
InviteExpires(code) ==
    /\ code \in DOMAIN invites /\ ~invites[code].expired /\ Errand("invite")
    /\ invites' = [invites EXCEPT ![code].expired = TRUE]
    /\ UNCHANGED <<fleetVars, mappings, override, live, policy, clerk, pass, registryTold>>

(* patch_setting: store the override, read all of them, publish what was read *)
PatchMode(mode) ==
    /\ Sits("mode", [stage |-> "reload"]) /\ override' = mode
    /\ crossing' = (crossing \/ \E c \in Clerks : clerk[c].stage \in {"reload", "publish"})
    /\ UNCHANGED <<fleetVars, mappings, invites, live, policy, pass, admitted, excused, wronged>>
LoadOverrides(c) ==
    /\ Seated(c, "reload") /\ Turns(c, [stage |-> "publish", mode |-> override])
    /\ UNCHANGED <<fleetVars, mappings, doorVars, policy, pass, registryTold, errands, cuts>>
Publish(c) ==
    /\ Seated(c, "publish") /\ Rises(c) /\ live' = clerk[c].mode
    /\ UNCHANGED <<fleetVars, mappings, invites, override, policy, pass, registryTold, errands, cuts>>
----------------------------------------------------------------------------
(* A signup *)

(* username_exists: a name is taken when it is mapped *)
Register(n, code) ==
    /\ n \notin DOMAIN mappings
    /\ Sits("register", [stage |-> "door", name |-> n, code |-> code, gated |-> FALSE, redeemed |-> FALSE,
                         pin |-> NoCode, server |-> NoCode])
    /\ excused' = IF Asking(n) = {} THEN excused ELSE excused \cup {n}
    /\ UNCHANGED <<fleetVars, mappings, doorVars, policy, pass, admitted, wronged, crossing>>

(* the check before the redemption: in open mode an invalid invite is ignored *)
Authorized(mode, code) == mode = "open" \/ (code \in DOMAIN invites /\ IsActive(invites[code], mode))

Authorize(c) ==
    /\ Seated(c, "door")
    /\ IF Authorized(live, clerk[c].code)
       THEN Turns(c, [clerk[c] EXCEPT !.stage = IF clerk[c].code = NoCode THEN "place" ELSE "redeem",
                                      !.gated = live # "open"])
       ELSE Rises(c)
    /\ UNCHANGED <<fleetVars, mappings, doorVars, policy, pass, registryTold, errands, cuts>>

Redeemable(i) == ~i.expired /\ (i.max \in {Referral, NoLimit} \/ i.uses < i.max)

Redeem(c) ==
    /\ Seated(c, "redeem")
    /\ LET code == clerk[c].code
           taken == code \in DOMAIN invites /\ Redeemable(invites[code])
       IN /\ invites' = IF taken THEN [invites EXCEPT ![code].uses = @ + 1] ELSE invites
          /\ CASE taken -> Turns(c, [clerk[c] EXCEPT !.stage = "place", !.redeemed = TRUE, !.pin = invites[code].pin])
               [] ~taken /\ clerk[c].gated -> Rises(c)
               [] OTHER -> Turns(c, [clerk[c] EXCEPT !.stage = "place"])
    /\ UNCHANGED <<fleetVars, mappings, override, live, policy, pass, registryTold, errands, cuts>>

IsEligible(f) == f.reachable /\ f.accepting /\ (f.max = NoLimit \/ f.users < f.max)
Eligible == {b \in Servers : fleet[b].known /\ IsEligible(fleet[b])}
(* the first in row order among those with the least of a measure *)
Least(S, measure(_)) == Min({b \in S : \A d \in S : measure(b) <= measure(d)})
SelectedOf(b) == fleet[b].selected
MetricOf(b) == fleet[b].users
Choice(S, pin) ==
    LET pinned == pin \in S
        best == Least(S, MetricOf)
    IN CASE policy.strategy = "round_robin" -> IF pinned /\ policy.importance >= 1 THEN pin ELSE Least(S, SelectedOf)
         [] policy.strategy = "static" ->
              IF pinned /\ policy.importance >= 1 THEN pin ELSE IF policy.static \in S THEN policy.static ELSE Min(S)
         [] OTHER -> IF pinned /\ MetricOf(pin) - MetricOf(best) <= policy.importance THEN pin ELSE best
(* the cursor of the round robin moves at every pick, whatever the strategy, the dashboard's preview too *)
TouchSelected(b) ==
    fleet' = [fleet EXCEPT ![b].selected = 1 + Max({fleet[d].selected : d \in Servers})]

PickBackend(c) ==
    /\ Seated(c, "place")
    /\ IF Eligible = {} THEN Rises(c) /\ UNCHANGED fleet
       ELSE LET b == Choice(Eligible, clerk[c].pin)
            IN Turns(c, [clerk[c] EXCEPT !.stage = "provision", !.server = b]) /\ TouchSelected(b)
    /\ UNCHANGED <<homes, mappings, doorVars, policy, pass, registryTold, errands, cuts>>
NextBackend ==
    /\ Eligible # {} /\ Errand("preview") /\ TouchSelected(Choice(Eligible, NoCode))
    /\ UNCHANGED <<homes, mappings, doorVars, policy, clerk, pass, registryTold>>

(* the signup is forwarded; the backend refuses a name it has, and knows nothing of capacity or invites *)
Provision(c) ==
    /\ Seated(c, "provision")
    /\ LET r == clerk[c]
           made == Answers(r.server) /\ r.name \notin homes[r.server]
       IN IF made
          THEN /\ homes' = [homes EXCEPT ![r.server] = @ \cup {r.name}]
               /\ Turns(c, [r EXCEPT !.stage = "map"]) /\ pass' = Disturbed(r.name)
               /\ admitted' = IF r.redeemed THEN [admitted EXCEPT ![r.code].accounts = @ + 1] ELSE admitted
               /\ wronged' = IF r.gated /\ (~r.redeemed \/ admitted[r.code].max = Referral)
                             THEN wronged \cup {r.name} ELSE wronged
          ELSE Rises(c) /\ UNCHANGED <<homes, pass, admitted, wronged>>
    /\ UNCHANGED <<fleet, mappings, doorVars, policy, excused, crossing, errands, cuts>>

MapName(c) ==
    /\ Seated(c, "map") /\ Rises(c)
    /\ mappings' = Noted(mappings, clerk[c].name, clerk[c].server)
    /\ pass' = Disturbed(clerk[c].name)
    /\ UNCHANGED <<fleetVars, doorVars, policy, registryTold, errands, cuts>>

(* the request dies, or the answer of the backend is lost *)
ClerkDies(c) ==
    /\ clerk[c] # AtEase /\ Rises(c) /\ cuts < MaxCuts /\ cuts' = cuts + 1
    /\ excused' = IF Seated(c, "map") THEN excused \cup {clerk[c].name} ELSE excused
    /\ crossing' = (crossing \/ clerk[c].stage \in {"reload", "publish"})
    /\ UNCHANGED <<fleetVars, mappings, doorVars, policy, pass, admitted, wronged, errands>>
----------------------------------------------------------------------------
(* MappingReconcile *)

BeginPass ==
    /\ pass = NoPass /\ Errand("pass")
    /\ pass' = [stage |-> "fetch", todo |-> {b \in Servers : fleet[b].reachable}, lists |-> << >>, calm |-> TRUE,
                sure |-> {n \in DOMAIN mappings : n \in homes[mappings[n]]}]
    /\ UNCHANGED <<fleetVars, mappings, doorVars, policy, clerk, registryTold>>

(* a backend that fails to answer is left out of the pass *)
FetchUsers(b) ==
    /\ pass.stage = "fetch" /\ b \in pass.todo
    /\ \E heard \in {Answers(b), FALSE} :
          pass' = [pass EXCEPT !.todo = @ \ {b}, !.lists = IF heard THEN Noted(@, b, homes[b]) ELSE @]
    /\ UNCHANGED <<fleetVars, mappings, doorVars, policy, clerk, registryTold, errands, cuts>>

(* a name several backends claim goes to the first met in the order of a hash map *)
Claimed(lists) == UNION {lists[b] : b \in DOMAIN lists}
Desired(lists, rank) ==
    [n \in Claimed(lists) |-> CHOOSE b \in DOMAIN lists :
        n \in lists[b] /\ \A d \in DOMAIN lists : n \in lists[d] => rank[b] <= rank[d]]
Ranks(S) == {r \in [S -> 1..Cardinality(S)] : IsInjective(r)}

ListMappings ==
    /\ pass.stage = "fetch" /\ pass.todo = {}
    /\ IF pass.lists = << >> THEN pass' = NoPass
       ELSE \E rank \in Ranks(DOMAIN pass.lists) :
               LET desired == Desired(pass.lists, rank)
               IN pass' = [stage |-> "fix", lists |-> pass.lists, calm |-> pass.calm, sure |-> pass.sure,
                           current |-> mappings, desired |-> desired,
                           todo |-> {n \in DOMAIN desired : ~(n \in DOMAIN mappings /\ mappings[n] = desired[n])}]
    /\ UNCHANGED <<fleetVars, mappings, doorVars, policy, clerk, registryTold, errands, cuts>>

Fix(n) ==
    /\ pass.stage = "fix" /\ n \in pass.todo
    /\ mappings' = Noted(mappings, n, pass.desired[n])
    /\ pass' = [pass EXCEPT !.todo = @ \ {n}]
    /\ UNCHANGED <<fleetVars, doorVars, policy, clerk, registryTold, errands, cuts>>

(* as if a user on a backend that did not answer were gone *)
PrunableUnclaimed(n) == n \notin DOMAIN pass.desired
Prunable(n) == n \notin DOMAIN pass.desired /\ pass.current[n] \in DOMAIN pass.lists

(* a pass nothing disturbed leaves every name of the backends it heard where it is *)
Misplaced(m) ==
    {n \in Names : \E b \in DOMAIN pass.lists :
        \/ n \in homes[b] /\ ~(n \in DOMAIN m /\ n \in homes[m[n]])
        \/ n \notin homes[b] /\ n \in DOMAIN m /\ m[n] = b}

DeleteMappings ==
    /\ pass.stage = "fix" /\ pass.todo = {}
    /\ LET gone == {n \in DOMAIN pass.current : Prunable(n)}
           kept == Restrict(mappings, DOMAIN mappings \ gone)
       IN /\ mappings' = kept
          /\ excused' = excused \cup {n \in gone : \E b \in Servers : n \in homes[b]}
          /\ wronged' = wronged \cup (gone \cap pass.sure) \cup IF pass.calm THEN Misplaced(kept) ELSE {}
    /\ pass' = NoPass
    /\ UNCHANGED <<fleetVars, doorVars, policy, clerk, admitted, crossing, errands, cuts>>

PassDies ==
    /\ pass # NoPass /\ pass' = NoPass /\ cuts < MaxCuts /\ cuts' = cuts + 1
    /\ UNCHANGED <<fleetVars, mappings, doorVars, policy, clerk, registryTold, errands>>
----------------------------------------------------------------------------
RegistryNext ==
    \/ \E b \in Servers :
          \/ SelfRegister(b) \/ Heartbeat(b) \/ TokenExpires(b) \/ FetchUsers(b)
          \/ \E accepting \in BOOLEAN, max \in {NoLimit, 1} : SetCapacity(b, accepting, max)
          \/ \E n \in Names : DeleteUser(b, n)
    \/ \E n \in Names : Fix(n) \/ \E code \in {NoCode} \cup DOMAIN admitted : Register(n, code)
    \/ \E c \in Clerks :
          \/ Authorize(c) \/ Redeem(c) \/ PickBackend(c) \/ Provision(c) \/ MapName(c) \/ ClerkDies(c)
          \/ LoadOverrides(c) \/ Publish(c)
    \/ \E i \in Invitations : MintInvite(i)
    \/ \E code \in DOMAIN invites : DeleteInvite(code) \/ InviteExpires(code)
    \/ \E mode \in Modes : PatchMode(mode)
    \/ StaleBackendPrune \/ CleanupInvites \/ NextBackend
    \/ BeginPass \/ ListMappings \/ DeleteMappings \/ PassDies

RegistrySpec == RegistryInit /\ [][RegistryNext]_registryVars
----------------------------------------------------------------------------
RegistryTypeOK ==
    /\ fleet \in [Servers -> [known : BOOLEAN, reachable : BOOLEAN, token : {"none", "good", "expired"}, users : Nat,
                              accepting : BOOLEAN, max : Nat, selected : Nat]]
    /\ homes \in [Servers -> SUBSET Names]
    /\ DOMAIN mappings \subseteq Names /\ \A n \in DOMAIN mappings : mappings[n] \in Servers
    /\ DOMAIN invites \subseteq DOMAIN admitted
    /\ override \in Modes /\ live \in Modes /\ excused \subseteq Names /\ wronged \subseteq Names

(* The resolver's directory is to be relied upon (registration.rs, routine.rs, repository.rs):   *)
(* a pass never unmaps a user who was mapped and present on its backend all along, and one that   *)
(* nothing disturbed leaves every name of the backends it heard mapped to where it lives; a name  *)
(* has two accounts only if its own signups overlapped, an answer was lost or a pass unmapped it; *)
(* no invite opens more accounts than it was capped at, none opens in a gated mode without one;   *)
(* the published mode is the stored one when no change is under way.                              *)
DirectoryHolds ==
    /\ wronged = {}
    /\ \A n \in Names \ excused : Cardinality({b \in Servers : n \in homes[b]}) <= 1
    /\ \A code \in DOMAIN admitted : admitted[code].max > 0 => admitted[code].accounts <= admitted[code].max
    /\ crossing \/ (\E c \in Clerks : clerk[c].stage \in {"reload", "publish"}) \/ live = override
=============================================================================
