------------------------ MODULE ShareDeliveryProofs ------------------------
(***************************************************************************)
(* Proofs about ShareDelivery for any pictures, tokens, mixes of calls and *)
(* faults, and number of changes: that a dead share keeps no token and no  *)
(* copy, that the two ends agree, that a share without new pictures tells  *)
(* none, and that once nothing is left to do the recipient holds what the  *)
(* share covers, under the token the sender honours.                       *)
(***************************************************************************)
EXTENDS ShareDelivery, FiniteSetTheorems, TLAPS

-----------------------------------------------------------------------------
(* The inductive invariant, in named parts: the statuses *)

\* Where the calls can be, given the statuses they move.
Calls ==
  /\ ~torn /\ call.revoke # "idle" => out = "revoked"
  /\ ~torn /\ call.rejection # "idle" => out \in Dead
  /\ inc = "active" => call.accept = "idle"
  /\ call.reject \in {"leaving", "left"} => call.accept = "idle" /\ inc # "pending"
  /\ call.reject = "declined" => call.accept \in {"idle", "opening"}
  /\ call.reject = "left" => inc \in Dead
  /\ ~torn /\ inc \in Dead /\ out \notin Dead => call.accept = "idle"
  /\ out = "pending" => inc # "active" /\ call.accept # "answered"

\* One end is dead alone only while a call is on its way to the other.
OnItsWay ==
  /\ call.rejection # "idle" => call.reject \in {"declined", "left"}
  /\ out = "revoked" /\ inc \notin Dead => call.revoke # "idle"
  /\ out = "tombstoned" /\ inc \notin Dead => call.reject = "declined" /\ call.rejection # "idle"
  /\ inc \in Dead /\ out \notin Dead => call.reject = "left" /\ call.rejection = "idle"
  /\ call.accept = "answered" /\ out \in Dead => out = "revoked" /\ call.revoke # "idle"

\* A share that is not active at the recipient's has no copies there.
Bare ==
  /\ DropDone => Tracked = {}
  /\ inc # "active" => Told = {}

-----------------------------------------------------------------------------
(* The pass and its request *)

Passing == {"look", "plan", "announce", "announcing", "unannounce", "unannouncing", "settle"}
Saying == RunAt("announce") \/ RunAt("announcing")
Unsaying == Saying \/ RunAt("unannounce") \/ RunAt("unannouncing")

Says == UNION {[S -> Item] : S \in SUBSET Pictures}

Runs ==
  [step : {"idle", "find", "mark", "batch"} \cup Passing, seen : Statuses,
   todo : SUBSET Pictures, scope : SUBSET Pictures, look : SUBSET Pictures,
   say : Says, unsay : SUBSET Pictures, ok : BOOLEAN]

Requests ==
  [kind : {"none", "announce", "unannounce"},
   stage : {"none", "sent", "checked", "done", "refused"}, say : Says, unsay : SUBSET Pictures]

\* The late requests are those of so many faults.
Types ==
  /\ TypeOK
  /\ run \in Runs
  /\ req \in Requests
  /\ late \subseteq Requests
  /\ IsFiniteSet(late) /\ Cardinality(late) <= faults
  /\ mix \in Mixes /\ faults \in 0 .. mix.faults
  /\ future \in BOOLEAN /\ torn \in BOOLEAN

\* The request on the wire is the one the run waits for.
Wire ==
  /\ RunAt("announcing") =>
       /\ req.kind = "announce" /\ req.say = run.say /\ req.unsay = {}
       /\ req.stage \in {"sent", "checked", "done", "refused"}
  /\ RunAt("unannouncing") =>
       /\ req.kind = "unannounce" /\ DOMAIN req.say = {} /\ req.unsay = run.unsay
       /\ req.stage \in {"sent", "done", "refused"}
  /\ ~(RunAt("announcing") \/ RunAt("unannouncing")) => req = NoReq

OnTheWire ==
  /\ Wire
  /\ \A r \in late : r.stage \in {"sent", "checked"} /\ Subjects(r) \subseteq crossed

\* A full pass sees a share that awaits one and takes every picture, a batch an
\* active one and its pictures.
Passes ==
  run.step \in Passing =>
    /\ \/ run.seen \in Awaiting /\ run.scope = Pictures
       \/ run.seen = "active" /\ run.scope = run.todo
    /\ ~torn /\ run.seen \in Awaiting => out \in Awaiting \cup Dead
    /\ ~torn /\ run.seen = "pending_first_announcement" => out \in {run.seen} \cup Dead

-----------------------------------------------------------------------------
(* What has been told *)

\* No version is from the future.
VersionRight(p) ==
  /\ p \in Tracked => track[p].at <= updated[p]
  /\ p \in Told => theirs[p].owner <= OwnerVersion(p)
  /\ Saying /\ p \in DOMAIN run.say =>
       /\ run.say[p].at <= updated[p] /\ run.say[p].owner <= OwnerVersion(p)
       /\ p \in Told \ crossed => theirs[p].owner <= run.say[p].owner
  /\ \A r \in late : p \in DOMAIN r.say => r.say[p].owner <= OwnerVersion(p)

Versions == \A p \in Pictures : VersionRight(p)

Alive == ~torn /\ out \notin Dead /\ inc \notin Dead

\* The last announcement of p was of p as it is.
Current(p) == track[p].at = updated[p] /\ p \notin dirty

\* A picture told as it is, is held by the recipient as it was told.
Held(p) ==
  p \in Tracked /\ Current(p) =>
    /\ p \in covered
    /\ theirs[p] = [token |-> track[p].token, owner |-> OwnerVersion(p)]
    /\ p \in Relayed => track[p].token = upstream[p]

\* What a pass looked up, and what it will say, is so, or has changed since.
LookRight(p) ==
  RunAt("plan") =>
    /\ p \in run.look => p \in run.scope
    /\ p \in run.scope /\ p \notin dirty => (p \in run.look <=> p \in covered)

SayRight(p) ==
  Saying /\ p \in DOMAIN run.say =>
    /\ run.say[p].at = updated[p] /\ p \notin dirty =>
         /\ p \in covered
         /\ run.say[p].owner = OwnerVersion(p)
         /\ p \in Relayed => run.say[p].token = upstream[p]
    /\ p \in Tracked => ~Current(p) \/ ~Alive

UnsayRight(p) ==
  Unsaying /\ p \in run.unsay =>
    /\ p \in covered => p \in dirty
    /\ p \in Tracked => ~Current(p) \/ ~Alive
    /\ Saying => p \notin DOMAIN run.say

\* A request that is through has done what it says.
Answered(p) ==
  req.stage = "done" =>
    /\ p \in DOMAIN req.say =>
         theirs[p] = [token |-> req.say[p].token, owner |-> req.say[p].owner]
    /\ p \in req.unsay => theirs[p] = None

\* Who was told is on record, or will be when the answer is in.
OnRecord(p) ==
  p \in Told \ ghosts => p \in Tracked \/ (req.stage = "done" /\ p \in DOMAIN req.say)

\* What a share that takes new pictures has not told of, is due: dirty, waiting
\* for a full pass, or in the hands of the run.
Due(p) ==
  future /\ p \in covered \ (forgotten \cup Tracked) =>
    \/ p \in dirty
    \/ out # "active"
    \/ RunAt("batch") /\ p \in run.todo
    \/ run.step \in Passing /\ p \in run.scope

\* A pass tells what it is in charge of, or fails.
InHands(p) ==
  future /\ p \in covered \ Tracked /\ run.step \in Passing /\ p \in run.scope =>
    \/ p \in dirty
    \/ RunAt("look")
    \/ RunAt("plan") /\ p \in run.look
    \/ Saying /\ p \in DOMAIN run.say
    \/ run.step \in {"unannounce", "unannouncing", "settle"} /\ ~run.ok

\* A share without new pictures says what it has told already.
Frozen ==
  ~future /\ ~torn /\ out \notin Dead /\ Saying /\ run.seen # "pending_first_announcement"
    => DOMAIN run.say \subseteq Tracked

PassRight(p) == LookRight(p) /\ SayRight(p) /\ UnsayRight(p)
EndsRight(p) == Held(p) /\ Answered(p) /\ OnRecord(p) /\ Due(p) /\ InHands(p)

Delivery == \A p \in Pictures \ crossed : PassRight(p) /\ (Alive => EndsRight(p))

-----------------------------------------------------------------------------
(* Types *)

LEMMA SaysOf ==
  ASSUME NEW s \in Says
  PROVE  DOMAIN s \subseteq Pictures /\ \A p \in DOMAIN s : s[p] \in Item
BY DEF Says

LEMMA SaysIn ==
  ASSUME NEW S \in SUBSET Pictures, NEW s \in [S -> Item]
  PROVE  s \in Says
BY DEF Says

LEMMA NothingSaid == NoItems \in Says /\ DOMAIN NoItems = {}
<1>1. NoItems \in [{} -> Item] BY DEF NoItems
<1>. QED BY <1>1, SaysIn DEF NoItems

LEMMA IdleTypes == IdleRun \in Runs /\ NoReq \in Requests
BY NothingSaid DEF IdleRun, NoReq, Runs, Requests, Statuses, Passing

LEMMA OneMore ==
  ASSUME NEW S, IsFiniteSet(S), NEW x
  PROVE  /\ IsFiniteSet(S \cup {x})
         /\ Cardinality(S) \in Nat /\ Cardinality(S \cup {x}) \in Nat
         /\ Cardinality(S \cup {x}) <= Cardinality(S) + 1
<1>1. Cardinality(S) \in Nat BY FS_CardinalityType
<1>2. IsFiniteSet(S \cup {x}) /\ Cardinality(S \cup {x}) = IF x \in S THEN Cardinality(S) ELSE Cardinality(S) + 1
  BY FS_AddElement
<1>. QED BY <1>1, <1>2

\* A set of naturals has a least element.
LEMMA LeastNatural ==
  ASSUME NEW S \in SUBSET Nat, S # {}
  PROVE  \E m \in S : \A n \in S : m <= n
<1>1. PICK m \in S : \A n \in S : ~(<<n, m>> \in OpToRel(<, Nat))
  BY NatLessThanWellFounded, WFMin
<1>2. \A n \in S : ~(n < m) BY <1>1 DEF OpToRel
<1>3. \A n \in S : m <= n
  <2>. SUFFICES ASSUME NEW n \in S PROVE m <= n
    OBVIOUS
  <2>1. n \in Nat /\ m \in Nat /\ ~(n < m) BY <1>2
  <2>. QED BY <2>1
<1>. QED BY <1>3

\* There is always a token that is in no use for p.
LEMMA Fresh ==
  ASSUME Types, NEW p \in Pictures
  PROVE  FreshToken(p) \in Tokens \ InUse(p)
<1>. DEFINE R == {r \in late \cup {run} : p \in DOMAIN r.say}
            T == {r.say[p].token : r \in R}
            f == [r \in R |-> r.say[p].token]
            a == track[p].token
            b == theirs[p].token
<1>1. IsFiniteSet(late \cup {run}) /\ Cardinality(late \cup {run}) <= faults + 1
  <2>1. IsFiniteSet(late) /\ Cardinality(late) <= faults /\ faults \in Nat BY DeliveryAssumption DEF Types
  <2>. QED BY <2>1, OneMore
<1>2. IsFiniteSet(R) /\ Cardinality(R) <= Cardinality(late \cup {run})
  <2>1. R \in SUBSET (late \cup {run}) OBVIOUS
  <2>. HIDE DEF R
  <2>. QED BY <1>1, <2>1, FS_Subset
<1>3. f \in Surjection(R, T) BY DEF Surjection
<1>4. IsFiniteSet(T) /\ Cardinality(T) <= Cardinality(R)
  <2>. HIDE DEF R, T, f
  <2>. QED BY <1>2, <1>3, FS_Surjection
<1>5. InUse(p) \subseteq (T \cup {a}) \cup {b} BY DEF InUse
<1>. HIDE DEF R, T, f, a, b
<1>6. IsFiniteSet(InUse(p)) /\ Cardinality(InUse(p)) <= faults + 3
  <2>1. IsFiniteSet(T \cup {a}) /\ Cardinality(T \cup {a}) <= Cardinality(T) + 1
    BY <1>4, OneMore
  <2>2. IsFiniteSet((T \cup {a}) \cup {b}) /\ Cardinality((T \cup {a}) \cup {b}) <= Cardinality(T \cup {a}) + 1
    BY <2>1, OneMore
  <2>3. IsFiniteSet(InUse(p)) /\ Cardinality(InUse(p)) <= Cardinality((T \cup {a}) \cup {b})
    BY <1>5, <2>2, FS_Subset
  <2>4. /\ Cardinality(InUse(p)) \in Nat /\ Cardinality((T \cup {a}) \cup {b}) \in Nat
        /\ Cardinality(T \cup {a}) \in Nat /\ Cardinality(T) \in Nat
        /\ Cardinality(R) \in Nat /\ Cardinality(late \cup {run}) \in Nat /\ faults \in Nat
    BY <1>1, <1>2, <1>4, <2>1, <2>2, <2>3, FS_CardinalityType, DeliveryAssumption DEF Types
  <2>. QED BY <1>1, <1>2, <1>4, <2>1, <2>2, <2>3, <2>4
<1>7. Tokens \ InUse(p) # {}
  <2>. SUFFICES ASSUME Tokens \subseteq InUse(p) PROVE FALSE
    OBVIOUS
  <2>1. Cardinality(Tokens) <= Cardinality(InUse(p)) BY <1>6, FS_Subset
  <2>2. Cardinality(Tokens) > mix.faults + 3 /\ mix.faults \in Nat BY DeliveryAssumption DEF Types
  <2>3. Cardinality(Tokens) \in Nat /\ Cardinality(InUse(p)) \in Nat /\ faults \in Nat /\ faults <= mix.faults
    BY <1>6, <2>2, FS_CardinalityType, DeliveryAssumption DEF Types
  <2>. QED BY <1>6, <2>1, <2>2, <2>3
<1>8. \E t \in Tokens \ InUse(p) : \A u \in Tokens \ InUse(p) : t <= u
  <2>1. Tokens \ InUse(p) \in SUBSET Nat BY DeliveryAssumption
  <2>. QED BY <1>7, <2>1, LeastNatural
<1>. QED BY <1>8 DEF FreshToken

-----------------------------------------------------------------------------
(* The statuses *)

\* What a step does to the statuses, and what it must own up to.
StatusStep ==
  \/ UNCHANGED shareVars
  \/ AcceptBegins \/ AcceptSends \/ AcceptReceived \/ AcceptCommits
  \/ RevokeMarks \/ RejectBegins \/ RejectDeclines \/ RejectReceived
  \/ AcceptMoves /\ (out \in Dead => torn')
  \/ RejectEnds /\ (inc' # inc /\ inc = "active" => torn')
  \/ (RevokeDrops \/ RejectDrops) /\ track' = NoRows
  \/ (RevokeReceived \/ RejectLeaves) /\ theirs' = NoRows
  \/ \E op \in DOMAIN AllIdle :
       CallDies(op) /\ faults' = faults + 1 /\ (call[op] \in {"marked", "received"} => torn')
  \/ /\ RunAt("settle")
     /\ PassSucceeds(run.seen) \/ PassFails(run.seen)
     /\ UNCHANGED <<inc, call>>
     /\ out \in Dead /\ out' # out => torn'
     /\ run'.step \notin Passing

\* What is torn, crossed or faulty stays so.
Remembers == (torn => torn') /\ crossed \subseteq crossed' /\ (faults' = faults \/ faults' = faults + 1)

LEMMA StatusStepOf ==
  ASSUME [Next]_vars
  PROVE  StatusStep /\ Remembers
<1>. USE DEF StatusStep, Remembers
<1>1. ASSUME NEW p \in Pictures, Retag(p) \/ Edit(p) \/ ArrivesAgain(p) PROVE StatusStep /\ Remembers
  BY <1>1 DEF Retag, Edit, ArrivesAgain, history
<1>2. ASSUME Sweep PROVE StatusStep /\ Remembers BY <1>2 DEF Sweep, history
<1>3. ASSUME RunStarts \/ FindDirty \/ StartBatch \/ Look \/ Plan \/ Announce \/ Unannounce \/ UnannounceAnswered
      PROVE  StatusStep /\ Remembers
  BY <1>3 DEF RunStarts, FindDirty, StartBatch, Look, Plan, Announce, Unannounce, UnannounceAnswered, history, budgets
<1>4. ASSUME MarkRun PROVE StatusStep /\ Remembers BY <1>4 DEF MarkRun, budgets
<1>4a. ASSUME AnnounceAnswered PROVE StatusStep /\ Remembers BY <1>4a DEF AnnounceAnswered, budgets
<1>5. ASSUME Settle PROVE StatusStep /\ Remembers BY <1>5 DEF Settle, budgets, IdleRun, Passing
<1>6. ASSUME NEW r \in Arrived, CheckShare(r) \/ Unregister(r) PROVE StatusStep /\ Remembers
  BY <1>6 DEF CheckShare, Unregister, history, budgets
<1>6a. ASSUME NEW r \in Arrived, Register(r) PROVE StatusStep /\ Remembers
  BY <1>6a DEF Register, budgets
<1>7. ASSUME StatusCall PROVE StatusStep /\ Remembers BY <1>7 DEF StatusCall, StatusCalls, RejectBegins, history, budgets
<1>8. ASSUME StaleCall PROVE StatusStep /\ Remembers BY <1>8 DEF StaleCall, budgets
<1>9. ASSUME DropTokens \/ CleanUp PROVE StatusStep /\ Remembers BY <1>9 DEF DropTokens, CleanUp, history, budgets
<1>10. ASSUME Lose \/ LoseAnswer \/ Repost \/ GiveUp \/ RunDies PROVE StatusStep /\ Remembers
  BY <1>10 DEF Lose, LoseAnswer, Repost, GiveUp, RunDies, Fault, history
<1>11. ASSUME NEW op \in DOMAIN AllIdle, CallFails(op) PROVE StatusStep /\ Remembers
  BY <1>11 DEF CallFails, Fault
<1>12. ASSUME UNCHANGED vars PROVE StatusStep /\ Remembers BY <1>12 DEF vars, history, budgets
<1>. QED
  BY <1>1, <1>2, <1>3, <1>4, <1>4a, <1>5, <1>6, <1>6a, <1>7, <1>8, <1>9, <1>10, <1>11, <1>12
  DEF Next, RunStep, CallStep, Handle

LEMMA CallNames == DOMAIN AllIdle = {"accept", "revoke", "reject", "rejection"}
BY DEF AllIdle

LEMMA StatusesTyped ==
  ASSUME ShareTypeOK, StatusStep
  PROVE  ShareTypeOK'
<1>. USE DEF ShareTypeOK, Statuses, Awaiting, Dead, Steps, Step
<1>1. CASE UNCHANGED shareVars BY <1>1 DEF shareVars
<1>2. CASE AcceptBegins \/ AcceptSends \/ AcceptReceived \/ AcceptCommits \/ AcceptMoves
  BY <1>2 DEF AcceptBegins, AcceptSends, AcceptReceived, AcceptCommits, AcceptMoves
<1>3. CASE RevokeMarks \/ RevokeDrops \/ RevokeReceived
  BY <1>3 DEF RevokeMarks, RevokeDrops, RevokeReceived
<1>4. CASE RejectBegins \/ RejectDeclines \/ RejectReceived \/ RejectDrops \/ RejectLeaves
  BY <1>4 DEF RejectBegins, RejectDeclines, RejectReceived, RejectDrops, RejectLeaves
<1>5. CASE RejectEnds BY <1>5 DEF RejectEnds
<1>6. ASSUME NEW op \in DOMAIN AllIdle, CallDies(op) PROVE ShareTypeOK' BY <1>6, CallNames DEF CallDies
<1>7. CASE (PassSucceeds(run.seen) \/ PassFails(run.seen)) /\ UNCHANGED <<inc, call>>
  BY <1>7 DEF PassSucceeds, PassFails
<1>. QED BY <1>1, <1>2, <1>3, <1>4, <1>5, <1>6, <1>7 DEF StatusStep

\* Where the calls can be is kept by every one of them.
LEMMA CallsKept ==
  ASSUME ShareTypeOK, Calls, StatusStep, Remembers
  PROVE  Calls'
<1>. USE DEF ShareTypeOK, Statuses, Awaiting, Dead, Steps, Step, Calls, Remembers
<1>1. CASE UNCHANGED shareVars BY <1>1 DEF shareVars
<1>2. CASE AcceptBegins \/ AcceptSends \/ AcceptReceived
  BY <1>2 DEF AcceptBegins, AcceptSends, AcceptReceived, At, Unlocked
<1>3. CASE AcceptCommits BY <1>3 DEF AcceptCommits, At
<1>4. CASE AcceptMoves /\ (out \in Dead => torn') BY <1>4 DEF AcceptMoves, At
<1>5. CASE RevokeMarks \/ RevokeDrops \/ RevokeReceived
  BY <1>5 DEF RevokeMarks, RevokeDrops, RevokeReceived, At, Unlocked
<1>6. CASE RejectBegins \/ RejectDeclines \/ RejectReceived \/ RejectDrops \/ RejectLeaves
  BY <1>6 DEF RejectBegins, RejectDeclines, RejectReceived, RejectDrops, RejectLeaves, At, Unlocked
<1>7. CASE RejectEnds BY <1>7 DEF RejectEnds, At
<1>8. ASSUME NEW op \in DOMAIN AllIdle, CallDies(op), call[op] \in {"marked", "received"} => torn' PROVE Calls'
  BY <1>8, CallNames DEF CallDies, At
<1>9. CASE (PassSucceeds(run.seen) \/ PassFails(run.seen)) /\ UNCHANGED <<inc, call>> /\ (out \in Dead /\ out' # out => torn')
  BY <1>9 DEF PassSucceeds, PassFails
<1>. QED BY <1>1, <1>2, <1>3, <1>4, <1>5, <1>6, <1>7, <1>8, <1>9 DEF StatusStep

\* A call that has begun brings the other end along.
LEMMA OnItsWayKept ==
  ASSUME ShareTypeOK, Calls, StatusStep, Remembers, faults \in Nat,
         faults = 0 /\ ~torn => OnItsWay
  PROVE  faults' = 0 /\ ~torn' => OnItsWay'
<1>. SUFFICES ASSUME OnItsWay, ~torn, ~torn', faults' = 0 PROVE OnItsWay'
  BY DEF Remembers
<1>. USE DEF ShareTypeOK, Statuses, Awaiting, Dead, Steps, Step, Calls, OnItsWay
<1>1. CASE UNCHANGED shareVars BY <1>1 DEF shareVars
<1>2. CASE AcceptBegins \/ AcceptSends \/ AcceptReceived
  BY <1>2 DEF AcceptBegins, AcceptSends, AcceptReceived, At, Unlocked
<1>3. CASE AcceptCommits BY <1>3 DEF AcceptCommits, At
<1>4. CASE AcceptMoves /\ (out \in Dead => torn') BY <1>4 DEF AcceptMoves, At
<1>5. CASE RevokeMarks \/ RevokeDrops \/ RevokeReceived
  BY <1>5 DEF RevokeMarks, RevokeDrops, RevokeReceived, At, Unlocked
<1>6. CASE RejectBegins \/ RejectDeclines \/ RejectReceived \/ RejectDrops \/ RejectLeaves
  BY <1>6 DEF RejectBegins, RejectDeclines, RejectReceived, RejectDrops, RejectLeaves, At, Unlocked
<1>7. CASE RejectEnds BY <1>7 DEF RejectEnds, At
<1>8. ASSUME faults' = faults + 1 PROVE FALSE BY <1>8
<1>9. CASE (PassSucceeds(run.seen) \/ PassFails(run.seen)) /\ UNCHANGED <<inc, call>> /\ (out \in Dead /\ out' # out => torn')
  BY <1>9 DEF PassSucceeds, PassFails
<1>. QED BY <1>1, <1>2, <1>3, <1>4, <1>5, <1>6, <1>7, <1>8, <1>9 DEF StatusStep

\* Nothing revives a share that has died at either end, unless it tears.
LEMMA AliveBefore ==
  ASSUME ShareTypeOK, Calls, StatusStep, Remembers, Alive'
  PROVE  Alive /\ (out' # out => out' # "active" \/ (RunAt("settle") /\ run'.step \notin Passing))
<1>. USE DEF ShareTypeOK, Statuses, Awaiting, Dead, Steps, Step, Calls, Remembers, Alive
<1>1. CASE UNCHANGED shareVars BY <1>1 DEF shareVars
<1>2. CASE AcceptBegins \/ AcceptSends \/ AcceptReceived
  BY <1>2 DEF AcceptBegins, AcceptSends, AcceptReceived
<1>3. CASE AcceptCommits BY <1>3 DEF AcceptCommits, At
<1>4. CASE AcceptMoves /\ (out \in Dead => torn') BY <1>4 DEF AcceptMoves, At
<1>5. CASE RevokeMarks \/ RevokeDrops \/ RevokeReceived
  BY <1>5 DEF RevokeMarks, RevokeDrops, RevokeReceived, At
<1>6. CASE RejectBegins \/ RejectDeclines \/ RejectReceived \/ RejectDrops \/ RejectLeaves
  BY <1>6 DEF RejectBegins, RejectDeclines, RejectReceived, RejectDrops, RejectLeaves, At
<1>7. CASE RejectEnds BY <1>7 DEF RejectEnds, At
<1>8. ASSUME NEW op \in DOMAIN AllIdle, CallDies(op) PROVE Alive /\ out' = out
  BY <1>8 DEF CallDies
<1>9. CASE /\ RunAt("settle")
           /\ PassSucceeds(run.seen) \/ PassFails(run.seen)
           /\ UNCHANGED <<inc, call>> /\ (out \in Dead /\ out' # out => torn') /\ run'.step \notin Passing
  BY <1>9 DEF PassSucceeds, PassFails
<1>. QED BY <1>1, <1>2, <1>3, <1>4, <1>5, <1>6, <1>7, <1>8, <1>9 DEF StatusStep

-----------------------------------------------------------------------------
(* Who writes what *)

RequestFault == Lose \/ LoseAnswer \/ Repost \/ GiveUp \/ RunDies

Answer == AnnounceAnswered \/ UnannounceAnswered

\* The steps that write each variable.
Writers ==
  /\ UNCHANGED <<mix, future>>
  /\ \/ UNCHANGED pictureVars
     \/ \E p \in Pictures : Retag(p) \/ Edit(p) \/ ArrivesAgain(p)
     \/ Sweep \/ MarkRun
  /\ UNCHANGED track \/ Answer \/ DropTokens
  /\ UNCHANGED theirs \/ (\E r \in Arrived : Register(r) \/ Unregister(r)) \/ CleanUp
  /\ UNCHANGED run \/ RunStep \/ RunDies
  /\ UNCHANGED <<req, late>> \/ Announce \/ Unannounce \/ Answer \/ (\E r \in Arrived : Handle(r)) \/ RequestFault
  /\ UNCHANGED late \/ (\E r \in Arrived : Handle(r)) \/ RequestFault
  /\ UNCHANGED faults \/ RequestFault \/ (\E op \in DOMAIN AllIdle : CallFails(op))

LEMMA WritersOf ==
  ASSUME [Next]_vars
  PROVE  Writers
<1>. USE DEF Writers, Answer, RequestFault, history, budgets, pictureVars
<1>1. ASSUME NEW p \in Pictures, Retag(p) PROVE Writers BY <1>1 DEF Retag
<1>2. ASSUME NEW p \in Pictures, Edit(p) PROVE Writers BY <1>2 DEF Edit
<1>3. ASSUME NEW p \in Pictures, ArrivesAgain(p) PROVE Writers BY <1>3 DEF ArrivesAgain
<1>4. CASE Sweep BY <1>4 DEF Sweep
<1>5. CASE RunStarts BY <1>5 DEF RunStarts, RunStep
<1>6. CASE FindDirty BY <1>6 DEF FindDirty, RunStep
<1>7. CASE MarkRun BY <1>7 DEF MarkRun, RunStep
<1>8. CASE StartBatch BY <1>8 DEF StartBatch, RunStep
<1>9. CASE Look BY <1>9 DEF Look, RunStep
<1>10. CASE Plan BY <1>10 DEF Plan, RunStep
<1>11. CASE Announce BY <1>11 DEF Announce, RunStep
<1>12. CASE AnnounceAnswered BY <1>12 DEF AnnounceAnswered, RunStep
<1>13. CASE Unannounce BY <1>13 DEF Unannounce, RunStep
<1>14. CASE UnannounceAnswered BY <1>14 DEF UnannounceAnswered, RunStep
<1>15. CASE Settle BY <1>15 DEF Settle, RunStep
<1>16. ASSUME NEW r \in Arrived, CheckShare(r) PROVE Writers BY <1>16 DEF CheckShare, Handle
<1>17. ASSUME NEW r \in Arrived, Register(r) PROVE Writers BY <1>17 DEF Register, Handle
<1>18. ASSUME NEW r \in Arrived, Unregister(r) PROVE Writers BY <1>18 DEF Unregister, Handle
<1>19. CASE StatusCall BY <1>19 DEF StatusCall
<1>20. CASE StaleCall BY <1>20 DEF StaleCall
<1>21. CASE DropTokens BY <1>21 DEF DropTokens
<1>22. CASE CleanUp BY <1>22 DEF CleanUp
<1>23. CASE Lose BY <1>23 DEF Lose
<1>24. CASE LoseAnswer BY <1>24 DEF LoseAnswer
<1>25. CASE Repost BY <1>25 DEF Repost
<1>26. CASE GiveUp BY <1>26 DEF GiveUp
<1>27. CASE RunDies BY <1>27 DEF RunDies
<1>28. ASSUME NEW op \in DOMAIN AllIdle, CallFails(op) PROVE Writers BY <1>28 DEF CallFails
<1>29. CASE UNCHANGED vars BY <1>29 DEF vars
<1>. QED
  BY <1>1, <1>2, <1>3, <1>4, <1>5, <1>6, <1>7, <1>8, <1>9, <1>10, <1>11, <1>12, <1>13, <1>14, <1>15,
     <1>16, <1>17, <1>18, <1>19, <1>20, <1>21, <1>22, <1>23, <1>24, <1>25, <1>26, <1>27, <1>28, <1>29
  DEF Next, RunStep, CallStep, Handle

-----------------------------------------------------------------------------
(* The types are kept *)

LEMMA SaidItems ==
  \A r \in Requests \cup Runs :
    /\ DOMAIN r.say \subseteq Pictures /\ r.unsay \subseteq Pictures
    /\ \A p \in DOMAIN r.say : r.say[p] \in Item
<1>. SUFFICES ASSUME NEW r \in Requests \cup Runs
     PROVE  /\ DOMAIN r.say \subseteq Pictures /\ r.unsay \subseteq Pictures
            /\ \A p \in DOMAIN r.say : r.say[p] \in Item
  OBVIOUS
<1>1. r.say \in Says /\ r.unsay \in SUBSET Pictures BY DEF Requests, Runs
<1>. QED BY <1>1, SaysOf

LEMMA ArrivedTyped ==
  ASSUME Types, NEW r \in Arrived
  PROVE  r \in Requests /\ (r # req => r \in late) /\ r.stage \in {"sent", "checked"}
BY DEF Types, Arrived

LEMMA SomeTouched ==
  ASSUME Types, NEW S, Touch(S)
  PROVE  /\ updated' \in [Pictures -> Nat]
         /\ \A p \in Pictures : updated'[p] = IF p \in S THEN updated[p] + 1 ELSE updated[p]
BY DEF Touch, Types, TypeOK

LEMMA PicturesKept ==
  ASSUME Types, Writers
  PROVE  /\ covered' \subseteq Pictures /\ dirty' \subseteq Pictures
         /\ updated' \in [Pictures -> Nat]
         /\ origin' \in [Relayed -> Nat]
         /\ upstream' \in [Relayed -> Tokens]
<1>. DEFINE Goal == /\ covered' \subseteq Pictures /\ dirty' \subseteq Pictures
                    /\ updated' \in [Pictures -> Nat]
                    /\ origin' \in [Relayed -> Nat]
                    /\ upstream' \in [Relayed -> Tokens]
<1>. USE DEF Types, TypeOK
<1>1. ASSUME NEW p \in Pictures, Retag(p) \/ Edit(p) PROVE Goal
  BY <1>1, SomeTouched DEF Retag, Edit, Invalidate
<1>2. ASSUME NEW p \in Pictures, ArrivesAgain(p) PROVE Goal
  <2>1. FreshToken(p) \in Tokens BY Fresh
  <2>. QED BY <1>2, <2>1, SomeTouched DEF ArrivesAgain, Invalidate
<1>3. ASSUME Sweep PROVE Goal BY <1>3, SomeTouched DEF Sweep, Invalidate, Lagging, Tracked
<1>4. ASSUME MarkRun PROVE Goal BY <1>4, SomeTouched DEF MarkRun
<1>5. ASSUME UNCHANGED pictureVars PROVE Goal BY <1>5 DEF pictureVars
<1>. QED BY <1>1, <1>2, <1>3, <1>4, <1>5 DEF Writers

LEMMA RowsKept ==
  ASSUME Types, Writers
  PROVE  \A p \in Pictures : track'[p] \in Row \cup {None}
<1>. DEFINE Goal == \A p \in Pictures : track'[p] \in Row \cup {None}
<1>. USE DEF Types, TypeOK
<1>1. ASSUME AnnounceAnswered PROVE Goal
  <2>1. \A p \in Pictures \cap DOMAIN run.say : [token |-> run.say[p].token, at |-> run.say[p].at] \in Row
    BY DEF Item, Row
  <2>. QED BY <1>1, <2>1 DEF AnnounceAnswered
<1>2. ASSUME UnannounceAnswered PROVE Goal BY <1>2 DEF UnannounceAnswered
<1>3. ASSUME DropTokens PROVE Goal BY <1>3 DEF DropTokens, NoRows
<1>. QED BY <1>1, <1>2, <1>3 DEF Writers, Answer

LEMMA CopiesKept ==
  ASSUME Types, Writers
  PROVE  \A p \in Pictures : theirs'[p] \in Copy \cup {None}
<1>. DEFINE Goal == \A p \in Pictures : theirs'[p] \in Copy \cup {None}
<1>. USE DEF Types, TypeOK
<1>1. ASSUME NEW r \in Arrived, Register(r) PROVE Goal
  <2>1. \A p \in Pictures \cap DOMAIN r.say : [token |-> r.say[p].token, owner |-> r.say[p].owner] \in Copy
    BY ArrivedTyped, SaidItems DEF Item, Copy
  <2>. QED BY <1>1, <2>1 DEF Register
<1>2. ASSUME NEW r \in Arrived, Unregister(r) PROVE Goal BY <1>2 DEF Unregister
<1>3. ASSUME CleanUp PROVE Goal BY <1>3 DEF CleanUp, NoRows
<1>. QED BY <1>1, <1>2, <1>3 DEF Writers

LEMMA RunKept ==
  ASSUME Types, Writers
  PROVE  run' \in Runs
<1>. USE DEF Types, TypeOK, Passing
<1>. USE IdleTypes
<1>1. CASE RunStarts
  <2>1. CASE run' = [run EXCEPT !.step = "look", !.seen = out, !.scope = Pictures]
    <3>1. out \in Statuses BY DEF ShareTypeOK
    <3> QED BY <2>1, <3>1 DEF Runs
  <2>2. CASE Goto("find") BY <2>2 DEF Goto, Runs
  <2>. QED BY <1>1, <2>1, <2>2 DEF RunStarts
<1>2. CASE FindDirty BY <1>2 DEF FindDirty, Runs
<1>3. CASE MarkRun BY <1>3 DEF MarkRun, Goto, Runs
<1>4. CASE StartBatch BY <1>4 DEF StartBatch, Runs, ShareTypeOK
<1>5. CASE Look BY <1>5 DEF Look, Runs
<1>6. CASE Plan
  <2>. DEFINE s == [p \in Untold |-> [token |-> TokenFor(p), at |-> updated[p], owner |-> OwnerVersion(p)]]
  <2>1. run.look \subseteq Pictures BY DEF Runs
  <2>2. Untold \in SUBSET Pictures BY <2>1 DEF Untold
  <2>3. \A p \in Untold : TokenFor(p) \in Tokens
    <3>. SUFFICES ASSUME NEW p \in Untold PROVE TokenFor(p) \in Tokens
      OBVIOUS
    <3>1. p \in Pictures BY <2>2
    <3>2. FreshToken(p) \in Tokens BY <3>1, Fresh
    <3>3. track[p] # None => track[p].token \in Tokens BY <3>1 DEF Row
    <3>. QED BY <3>1, <3>2, <3>3 DEF TokenFor
  <2>4. \A p \in Untold : updated[p] \in Nat /\ OwnerVersion(p) \in Nat BY <2>2 DEF OwnerVersion
  <2>5. s \in [Untold -> Item] BY <2>3, <2>4 DEF Item
  <2>6. s \in Says BY <2>2, <2>5, SaysIn
  <2>7. (Tracked \cap run.scope) \ run.look \in SUBSET Pictures BY DEF Tracked
  <2>. HIDE DEF s
  <2>8. run' = [run EXCEPT !.step = "announce", !.say = s, !.unsay = (Tracked \cap run.scope) \ run.look]
    BY <1>6 DEF Plan, s
  <2>. QED BY <2>6, <2>7, <2>8 DEF Runs
<1>7. CASE Announce BY <1>7 DEF Announce, Goto, Runs
<1>8. CASE AnnounceAnswered BY <1>8 DEF AnnounceAnswered, Delivered, Runs
<1>9. CASE Unannounce BY <1>9 DEF Unannounce, Goto, Runs
<1>10. CASE UnannounceAnswered BY <1>10 DEF UnannounceAnswered, Delivered, Runs
<1>11. CASE Settle BY <1>11 DEF Settle, Runs
<1>12. CASE RunDies BY <1>12 DEF RunDies
<1>. QED
  BY <1>1, <1>2, <1>3, <1>4, <1>5, <1>6, <1>7, <1>8, <1>9, <1>10, <1>11, <1>12 DEF Writers, RunStep

\* What Advance does, to the request on the wire or to a late one.
LEMMA Advanced ==
  ASSUME Types, NEW r \in Arrived, NEW stage \in {"checked", "done", "refused"}, Advance(r, stage)
  PROVE  /\ req' \in Requests /\ late' \subseteq Requests
         /\ IsFiniteSet(late') /\ Cardinality(late') <= Cardinality(late)
         /\ r = req => req' = [req EXCEPT !.stage = stage] /\ late' = late
         /\ r # req => /\ req' = req /\ r \in late
                       /\ \A q \in late' : q \in late \/ (q = [r EXCEPT !.stage = stage] /\ stage = "checked")
<1>. USE DEF Types
<1>1. r \in Requests /\ (r # req => r \in late) BY ArrivedTyped
<1>. DEFINE q == [r EXCEPT !.stage = stage]
<1>2. q \in Requests BY <1>1 DEF Requests
<1>3. CASE r = req BY <1>1, <1>2, <1>3, FS_CardinalityType DEF Advance
<1>4. CASE r # req
  <2>1. r \in late /\ req' = req /\ late' = (late \ {r}) \cup {x \in {q} : stage = "checked"}
    BY <1>1, <1>4 DEF Advance
  <2>. HIDE DEF q
  <2>2. IsFiniteSet(late \ {r}) /\ Cardinality(late \ {r}) = Cardinality(late) - 1 /\ Cardinality(late) \in Nat
    BY <2>1, FS_RemoveElement, FS_CardinalityType
  <2>3. /\ IsFiniteSet((late \ {r}) \cup {q})
        /\ Cardinality(late \ {r}) \in Nat /\ Cardinality((late \ {r}) \cup {q}) \in Nat
        /\ Cardinality((late \ {r}) \cup {q}) <= Cardinality(late \ {r}) + 1
    BY <2>2, OneMore
  <2>4. CASE stage = "checked"
    <3>1. late' = (late \ {r}) \cup {q} BY <2>1, <2>4
    <3>2. IsFiniteSet(late') /\ Cardinality(late') <= Cardinality(late) BY <2>2, <2>3, <3>1
    <3>3. late' \subseteq Requests BY <1>2, <3>1
    <3>4. \A x \in late' : x \in late \/ x = q BY <3>1
    <3>. QED BY <1>4, <2>1, <2>4, <3>2, <3>3, <3>4 DEF q
  <2>5. CASE stage # "checked"
    <3>1. late' = late \ {r} BY <2>1, <2>5
    <3>2. IsFiniteSet(late') /\ Cardinality(late') <= Cardinality(late) BY <2>2, <3>1
    <3>3. late' \subseteq Requests /\ \A x \in late' : x \in late BY <3>1
    <3>. QED BY <1>4, <2>1, <3>2, <3>3
  <2>. QED BY <2>4, <2>5
<1>. QED BY <1>3, <1>4

\* A handler only moves a request along.
LEMMA Handled ==
  ASSUME Types, NEW r \in Arrived, Handle(r)
  PROVE  \E stage \in {"checked", "done", "refused"} :
           /\ Advance(r, stage)
           /\ UNCHANGED <<run, faults>>
           /\ \/ r.kind = "announce" /\ r.stage = "sent" /\ stage \in {"checked", "refused"}
              \/ r.stage = "checked" /\ stage = "done"
              \/ r.kind = "unannounce" /\ stage = "done"
<1>1. CASE CheckShare(r) BY <1>1 DEF CheckShare, budgets
<1>2. CASE Register(r) BY <1>2 DEF Register, budgets
<1>3. CASE Unregister(r) BY <1>3 DEF Unregister, budgets
<1>. QED BY <1>1, <1>2, <1>3 DEF Handle

LEMMA OneFault ==
  ASSUME Types, NEW kind, Fault(kind)
  PROVE  faults' = faults + 1 /\ faults' \in 0 .. mix.faults /\ faults' \in Nat
BY DeliveryAssumption DEF Types, Fault

LEMMA FewLate ==
  ASSUME Types
  PROVE  Cardinality(late) \in Nat /\ faults \in Nat /\ Cardinality(late) <= faults
BY FS_CardinalityType, DeliveryAssumption DEF Types

\* One more late request is one more fault.
LEMMA OneMoreLate ==
  ASSUME Types, NEW kind, Fault(kind), late' = late \/ late' = late \cup {req}
  PROVE  late' \subseteq Requests /\ IsFiniteSet(late') /\ Cardinality(late') <= faults'
<1>1. faults' = faults + 1 BY OneFault
<1>2. CASE late' = late BY <1>1, <1>2, FewLate DEF Types
<1>3. CASE late' = late \cup {req}
  <2>1. IsFiniteSet(late) BY DEF Types
  <2>2. /\ IsFiniteSet(late \cup {req}) /\ Cardinality(late \cup {req}) \in Nat
        /\ Cardinality(late \cup {req}) <= Cardinality(late) + 1
    BY <2>1, OneMore
  <2>3. Cardinality(late \cup {req}) <= faults + 1 BY <2>2, FewLate
  <2>. QED BY <1>1, <1>3, <2>2, <2>3 DEF Types
<1>. QED BY <1>2, <1>3

LEMMA RequestsKept ==
  ASSUME Types, Writers
  PROVE  /\ req' \in Requests /\ late' \subseteq Requests
         /\ IsFiniteSet(late') /\ Cardinality(late') <= faults'
         /\ faults' \in 0 .. mix.faults
<1>. DEFINE Goal == /\ req' \in Requests /\ late' \subseteq Requests
                    /\ IsFiniteSet(late') /\ Cardinality(late') <= faults'
                    /\ faults' \in 0 .. mix.faults
            Still == UNCHANGED <<late, faults>>
<1>0. ASSUME Still, req' \in Requests PROVE Goal BY <1>0 DEF Types
<1>1. ASSUME Announce PROVE Goal
  <2>1. run.say \in Says BY DEF Types, Runs
  <2>2. req' \in Requests BY <1>1, <2>1 DEF Announce, Post, Types, Requests
  <2>. QED BY <1>0, <1>1, <2>2 DEF Announce, budgets
<1>2. ASSUME Unannounce PROVE Goal
  <2>1. run.unsay \in SUBSET Pictures BY DEF Types, Runs
  <2>2. req' \in Requests BY <1>2, <2>1, NothingSaid DEF Unannounce, Post, Types, Requests
  <2>. QED BY <1>0, <1>2, <2>2 DEF Unannounce, budgets
<1>3. ASSUME Answer PROVE Goal
  BY <1>0, <1>3, IdleTypes DEF Answer, AnnounceAnswered, UnannounceAnswered, budgets
<1>4. ASSUME NEW r \in Arrived, Handle(r) PROVE Goal
  <2>1. PICK stage \in {"checked", "done", "refused"} : Advance(r, stage) /\ UNCHANGED <<run, faults>>
    BY <1>4, Handled
  <2>2. /\ req' \in Requests /\ late' \subseteq Requests
        /\ IsFiniteSet(late') /\ Cardinality(late') <= Cardinality(late)
    BY <2>1, Advanced
  <2>3. Cardinality(late') \in Nat BY <2>2, FS_CardinalityType
  <2>4. faults' = faults /\ faults' \in 0 .. mix.faults BY <2>1 DEF Types
  <2>5. Cardinality(late') <= faults' BY <2>2, <2>3, <2>4, FewLate
  <2>. QED BY <2>2, <2>4, <2>5
<1>5. ASSUME RequestFault PROVE Goal
  <2>1. PICK kind : Fault(kind) BY <1>5 DEF RequestFault, Lose, LoseAnswer, Repost, GiveUp, RunDies
  <2>2. late' = late \/ late' = late \cup {req}
    BY <1>5 DEF RequestFault, Lose, LoseAnswer, Repost, GiveUp, RunDies
  <2>3. req' = NoReq \/ \E s \in {"refused", "sent"} : req' = [req EXCEPT !.stage = s]
    BY <1>5 DEF RequestFault, Lose, LoseAnswer, Repost, GiveUp, RunDies
  <2>4. req' \in Requests BY <2>3, IdleTypes DEF Types, Requests
  <2>. QED BY <2>1, <2>2, <2>4, OneMoreLate, OneFault
<1>6. ASSUME UNCHANGED <<req, late>>, UNCHANGED faults PROVE Goal BY <1>0, <1>6 DEF Types
<1>7. ASSUME UNCHANGED <<req, late>>, NEW op \in DOMAIN AllIdle, CallFails(op) PROVE Goal
  <2>1. Fault("call") BY <1>7 DEF CallFails
  <2>. QED BY <1>7, <2>1, OneMoreLate, OneFault DEF Types
<1>. QED BY <1>1, <1>2, <1>3, <1>4, <1>5, <1>6, <1>7 DEF Writers

LEMMA TypesKept ==
  ASSUME Types, [Next]_vars
  PROVE  Types'
<1>0. Writers /\ StatusStep /\ UNCHANGED <<mix, future>> BY WritersOf, StatusStepOf DEF Writers
<1>1. ShareTypeOK' BY <1>0, StatusesTyped DEF Types, TypeOK
<1>2. /\ covered' \subseteq Pictures /\ dirty' \subseteq Pictures /\ updated' \in [Pictures -> Nat]
      /\ origin' \in [Relayed -> Nat] /\ upstream' \in [Relayed -> Tokens]
  BY <1>0, PicturesKept
<1>3. \A p \in Pictures : track'[p] \in Row \cup {None} /\ theirs'[p] \in Copy \cup {None}
  BY <1>0, RowsKept, CopiesKept
<1>4. run' \in Runs BY <1>0, RunKept
<1>5. /\ req' \in Requests /\ late' \subseteq Requests
      /\ IsFiniteSet(late') /\ Cardinality(late') <= faults'
      /\ faults' \in 0 .. mix'.faults
  BY <1>0, RequestsKept
<1>6. \A r \in {req', run'} \cup late' : \A p \in DOMAIN r.say : r.say[p] \in Item
  BY <1>4, <1>5, SaidItems
<1>7. TypeOK' BY <1>1, <1>2, <1>3, <1>6 DEF TypeOK
<1>8. torn' \in BOOLEAN
  <2>. USE DEF history
  <2>1. CASE UNCHANGED vars BY <2>1 DEF vars, Types
  <2>2. ASSUME NEW p \in Pictures, Retag(p) \/ Edit(p) \/ ArrivesAgain(p) PROVE torn' \in BOOLEAN
    BY <2>2 DEF Retag, Edit, ArrivesAgain, Types
  <2>3. CASE Sweep BY <2>3 DEF Sweep, Types
  <2>4. CASE RunStep
    <3>1. CASE RunStarts \/ FindDirty \/ MarkRun \/ StartBatch \/ Look \/ Plan
      BY <3>1 DEF RunStarts, FindDirty, MarkRun, StartBatch, Look, Plan, Types
    <3>2. CASE Announce \/ Unannounce \/ UnannounceAnswered
      BY <3>2 DEF Announce, Unannounce, UnannounceAnswered, Types
    <3>3. CASE AnnounceAnswered BY <3>3 DEF AnnounceAnswered, Types
    <3>4. CASE Settle BY <3>4 DEF Settle, Types
    <3>. QED BY <2>4, <3>1, <3>2, <3>3, <3>4 DEF RunStep
  <2>5. ASSUME NEW r \in Arrived, Handle(r) PROVE torn' \in BOOLEAN
    <3>1. CASE CheckShare(r) \/ Unregister(r) BY <3>1 DEF CheckShare, Unregister, Types
    <3>2. CASE Register(r) BY <3>2 DEF Register, Types
    <3>. QED BY <2>5, <3>1, <3>2 DEF Handle
  <2>6. CASE StatusCall \/ DropTokens \/ CleanUp BY <2>6 DEF StatusCall, DropTokens, CleanUp, Types
  <2>7. CASE StaleCall BY <2>7 DEF StaleCall, Types
  <2>8. CASE RequestFault BY <2>8 DEF RequestFault, Lose, LoseAnswer, Repost, GiveUp, RunDies, Types
  <2>9. ASSUME NEW op \in DOMAIN AllIdle, CallFails(op) PROVE torn' \in BOOLEAN BY <2>9 DEF CallFails, Types
  <2>. QED BY <2>1, <2>2, <2>3, <2>4, <2>5, <2>6, <2>7, <2>8, <2>9 DEF Next, CallStep, RequestFault
<1>9. mix' \in Mixes /\ future' \in BOOLEAN BY <1>0 DEF Types
<1>. QED BY <1>4, <1>5, <1>7, <1>8, <1>9 DEF Types

LEMMA InitTypes ==
  ASSUME Init
  PROVE  Types
<1>1. IsFiniteSet(late) /\ Cardinality(late) = 0 BY FS_EmptySet DEF Init
<1>2. ShareTypeOK BY DEF Init, ShareInit, ShareTypeOK, Statuses, Awaiting, Steps, AllIdle
<1>3. \A p \in Pictures : track[p] \in Row \cup {None} /\ theirs[p] \in Copy \cup {None} BY DEF Init
<1>4. run \in Runs /\ req \in Requests /\ late \subseteq Requests BY IdleTypes DEF Init
<1>5. \A r \in {req, run} \cup late : \A p \in DOMAIN r.say : r.say[p] \in Item BY <1>4, SaidItems
<1>6. TypeOK BY <1>2, <1>3, <1>5 DEF Init, TypeOK
<1>7. faults \in 0 .. mix.faults /\ Cardinality(late) <= faults BY <1>1, DeliveryAssumption DEF Init
<1>. QED BY <1>1, <1>4, <1>6, <1>7 DEF Types, Init

LEMMA TypesHold == Spec => []Types
<1>1. Init => Types BY InitTypes
<1>2. Types /\ [Next]_vars => Types' BY TypesKept
<1>. QED BY <1>1, <1>2, PTL DEF Spec

\* In every state the rows, the copies, the pass and the requests are what the
\* code makes them: whatever is announced has a token, and a picture announced
\* for the first time one that nothing else holds.
THEOREM WellTyped == Spec => []TypeOK
<1>1. Types => TypeOK BY DEF Types
<1>. QED BY <1>1, TypesHold, PTL

-----------------------------------------------------------------------------
(* The statuses, in every state *)

\* Only tearing revives a dead share.
LEMMA DeadStays ==
  ASSUME ShareTypeOK, StatusStep, out \in Dead
  PROVE  out' \in Dead \/ torn'
<1>. USE DEF Dead
<1>1. CASE UNCHANGED shareVars BY <1>1 DEF shareVars
<1>2. CASE AcceptBegins \/ AcceptSends \/ AcceptReceived \/ AcceptCommits \/ RejectEnds
  BY <1>2 DEF AcceptBegins, AcceptSends, AcceptReceived, AcceptCommits, RejectEnds
<1>3. CASE RevokeMarks \/ RevokeDrops \/ RevokeReceived BY <1>3 DEF RevokeMarks, RevokeDrops, RevokeReceived
<1>4. CASE RejectBegins \/ RejectDeclines \/ RejectReceived \/ RejectDrops \/ RejectLeaves
  BY <1>4 DEF RejectBegins, RejectDeclines, RejectReceived, RejectDrops, RejectLeaves
<1>5. ASSUME NEW op \in DOMAIN AllIdle, CallDies(op) PROVE out' \in Dead BY <1>5 DEF CallDies
<1>. QED BY <1>1, <1>2, <1>3, <1>4, <1>5 DEF StatusStep

StatusInv == Calls /\ (faults = 0 /\ ~torn => OnItsWay)

LEMMA StatusesHold == Spec => [](Types /\ StatusInv)
<1>1. Init => StatusInv
  BY DEF Init, ShareInit, AllIdle, StatusInv, Calls, OnItsWay, Dead
<1>2. ASSUME Types, StatusInv, [Next]_vars PROVE StatusInv'
  <2>1. StatusStep /\ Remembers BY <1>2, StatusStepOf
  <2>2. ShareTypeOK /\ faults \in Nat BY <1>2, FewLate DEF Types, TypeOK
  <2>. QED BY <1>2, <2>1, <2>2, CallsKept, OnItsWayKept DEF StatusInv
<1>. QED BY <1>1, <1>2, TypesHold, PTL DEF Spec

\* A status step moves the statuses as the handshake does, or not at all.
LEMMA HandshakeStep ==
  ASSUME StatusStep, run.seen \in Statuses
  PROVE  [ShareNext]_shareVars
<1>1. CASE AcceptBegins \/ AcceptSends \/ AcceptReceived \/ AcceptCommits \/ AcceptMoves
  BY <1>1 DEF ShareNext, AcceptStep
<1>2. CASE RevokeMarks \/ RevokeDrops \/ RevokeReceived BY <1>2 DEF ShareNext, RevokeStep
<1>3. CASE RejectBegins \/ RejectDeclines \/ RejectReceived \/ RejectDrops \/ RejectLeaves \/ RejectEnds
  BY <1>3 DEF ShareNext, RejectStep
<1>4. CASE \E op \in DOMAIN AllIdle : CallDies(op) BY <1>4 DEF ShareNext
<1>5. CASE (PassSucceeds(run.seen) \/ PassFails(run.seen)) /\ UNCHANGED <<inc, call>>
  BY <1>5 DEF ShareNext, PassEnds
<1>. QED BY <1>1, <1>2, <1>3, <1>4, <1>5 DEF StatusStep

\* The delivery does to the two statuses what the API calls and the ends of passes
\* do by themselves: whatever is lost, repeated or dies on the way, no step of the
\* pipeline, of the sweep or of the recipient's handlers moves a status otherwise,
\* and what a pass acts on is a status that the share may have had.
THEOREM RunsTheHandshake == Spec => ShareSpec
<1>1. Init => ShareInit BY DEF Init
<1>2. ASSUME Types, [Next]_vars PROVE [ShareNext]_shareVars
  <2>1. StatusStep BY <1>2, StatusStepOf
  <2>2. run.seen \in Statuses BY <1>2 DEF Types, Runs
  <2>. QED BY <2>1, <2>2, HandshakeStep
<1>. QED BY <1>1, <1>2, TypesHold, PTL DEF Spec, ShareSpec

\* The recipient's share is active only if the sender has handed its own to the
\* pipeline; and without faults, once every call is through, neither end is dead
\* alone.
THEOREM EndsHold == Spec => []EndsAgree
<1>1. Types /\ StatusInv => EndsAgree
  <2>. SUFFICES ASSUME Types, StatusInv PROVE EndsAgree
    OBVIOUS
  <2>1. inc = "active" => out # "pending" BY DEF StatusInv, Calls
  <2>2. call = AllIdle /\ faults = 0 /\ ~torn => (out \in Dead <=> inc \in Dead)
    BY DEF StatusInv, OnItsWay, AllIdle, Dead
  <2>. QED BY <2>1, <2>2 DEF EndsAgree
<1>. QED BY <1>1, StatusesHold, PTL

\* The tokens of a share are dropped between its death and the end of the call
\* that killed it; a call that dies in between tears.
LEMMA DropDoneBefore ==
  ASSUME ShareTypeOK, StatusStep, DropDone', ~torn'
  PROVE  DropDone \/ track' = NoRows
<1>. USE DEF ShareTypeOK, Statuses, Awaiting, Dead, Steps, Step, At, DropDone
<1>1. CASE UNCHANGED shareVars BY <1>1 DEF shareVars
<1>2. CASE AcceptBegins \/ AcceptSends \/ AcceptReceived \/ AcceptCommits
  BY <1>2 DEF AcceptBegins, AcceptSends, AcceptReceived, AcceptCommits
<1>3. CASE RevokeMarks \/ RevokeReceived BY <1>3 DEF RevokeMarks, RevokeReceived
<1>4. CASE RejectBegins \/ RejectDeclines \/ RejectReceived \/ RejectLeaves
  BY <1>4 DEF RejectBegins, RejectDeclines, RejectReceived, RejectLeaves
<1>5. CASE RejectEnds BY <1>5 DEF RejectEnds
<1>6. CASE AcceptMoves BY <1>6 DEF AcceptMoves
<1>7. ASSUME NEW op \in DOMAIN AllIdle, CallDies(op), call[op] \in {"marked", "received"} => torn' PROVE DropDone
  BY <1>7, CallNames DEF CallDies
<1>8. CASE (PassSucceeds(run.seen) \/ PassFails(run.seen)) /\ UNCHANGED <<inc, call>> /\ (out \in Dead /\ out' # out => torn')
  BY <1>8 DEF PassSucceeds, PassFails
<1>. QED BY <1>1, <1>2, <1>3, <1>4, <1>5, <1>6, <1>7, <1>8 DEF StatusStep

\* The incoming share stops being active with its clean-up.
LEMMA InactiveBefore ==
  ASSUME ShareTypeOK, StatusStep, inc' # "active", ~torn'
  PROVE  inc # "active" \/ theirs' = NoRows
<1>1. CASE UNCHANGED shareVars BY <1>1 DEF shareVars
<1>2. CASE AcceptBegins \/ AcceptSends \/ AcceptReceived \/ AcceptCommits \/ AcceptMoves
  BY <1>2 DEF AcceptBegins, AcceptSends, AcceptReceived, AcceptCommits, AcceptMoves
<1>3. CASE RevokeMarks \/ RevokeDrops BY <1>3 DEF RevokeMarks, RevokeDrops
<1>4. CASE RejectBegins \/ RejectDeclines \/ RejectReceived \/ RejectDrops
  BY <1>4 DEF RejectBegins, RejectDeclines, RejectReceived, RejectDrops
<1>5. CASE RejectEnds /\ (inc' # inc /\ inc = "active" => torn') BY <1>5 DEF RejectEnds
<1>6. ASSUME NEW op \in DOMAIN AllIdle, CallDies(op) PROVE inc' = inc BY <1>6 DEF CallDies
<1>. QED BY <1>1, <1>2, <1>3, <1>4, <1>5, <1>6 DEF StatusStep

\* Rows appear only when an announcement is answered, copies when one is handled.
LEMMA NoNewRows ==
  ASSUME Writers, Tracked = {}, out \in Dead, ~torn'
  PROVE  Tracked' = {}
<1>. USE DEF Tracked
<1>1. CASE AnnounceAnswered BY <1>1 DEF AnnounceAnswered
<1>2. CASE UnannounceAnswered BY <1>2 DEF UnannounceAnswered
<1>3. CASE DropTokens BY <1>3 DEF DropTokens, NoRows
<1>. QED BY <1>1, <1>2, <1>3 DEF Writers, Answer

LEMMA NoNewCopies ==
  ASSUME Writers, Told = {}, inc # "active", ~torn'
  PROVE  Told' = {}
<1>. USE DEF Told
<1>1. ASSUME NEW r \in Arrived, Register(r) PROVE FALSE BY <1>1 DEF Register
<1>2. ASSUME NEW r \in Arrived, Unregister(r) PROVE Told' = {} BY <1>2 DEF Unregister
<1>3. CASE CleanUp BY <1>3 DEF CleanUp, NoRows
<1>. QED BY <1>1, <1>2, <1>3 DEF Writers

LEMMA BareHolds == Spec => [](~torn => Bare)
<1>1. Init => Bare BY DEF Init, ShareInit, Bare, Tracked, Told, DropDone, Dead
<1>2. ASSUME Types, ~torn => Bare, [Next]_vars PROVE (~torn => Bare)'
  <2>. SUFFICES ASSUME ~torn' PROVE Bare'
    OBVIOUS
  <2>1. StatusStep /\ Remembers /\ Writers BY <1>2, StatusStepOf, WritersOf
  <2>2. ShareTypeOK /\ Bare BY <1>2, <2>1 DEF Types, TypeOK, Remembers
  <2>3. ASSUME DropDone' PROVE Tracked' = {}
    <3>1. CASE track' = NoRows BY <3>1 DEF NoRows, Tracked
    <3>2. CASE DropDone BY <2>1, <2>2, <3>2, NoNewRows DEF Bare, DropDone
    <3>. QED BY <2>1, <2>2, <2>3, <3>1, <3>2, DropDoneBefore
  <2>4. ASSUME inc' # "active" PROVE Told' = {}
    <3>1. CASE theirs' = NoRows BY <3>1 DEF NoRows, Told
    <3>2. CASE inc # "active" BY <2>1, <2>2, <3>2, NoNewCopies DEF Bare
    <3>. QED BY <2>1, <2>2, <2>4, <3>1, <3>2, InactiveBefore
  <2>. QED BY <2>3, <2>4 DEF Bare
<1>. QED BY <1>1, <1>2, TypesHold, PTL DEF Spec

\* A share that is dead at the sender's has no token left once the call that
\* killed it has dropped them, and one dead at the recipient's no copy, as long as
\* no status is acted on after it has died.
THEOREM DeadSharesBare == Spec => []DeadShareIsBare
<1>1. (~torn => Bare) => DeadShareIsBare
  BY DEF Bare, DeadShareIsBare, Dead
<1>. QED BY <1>1, BareHolds, PTL

-----------------------------------------------------------------------------
(* The pass and its request, in every state *)

\* The request on the wire belongs to a run that waits for it.
LEMMA Waiting ==
  ASSUME Types, OnTheWire, req.stage # "none"
  PROVE  /\ RunAt("announcing") \/ RunAt("unannouncing")
         /\ req.say = run.say \/ DOMAIN req.say = {}
         /\ req.kind # "none"
BY DEF OnTheWire, Wire, NoReq, Types

LEMMA LateKept ==
  ASSUME Types, OnTheWire, Writers, Remembers
  PROVE  \A r \in late' : r.stage \in {"sent", "checked"} /\ Subjects(r) \subseteq crossed'
<1>. DEFINE Goal == \A r \in late' : r.stage \in {"sent", "checked"} /\ Subjects(r) \subseteq crossed'
<1>0. (\A r \in late : r.stage \in {"sent", "checked"} /\ Subjects(r) \subseteq crossed) /\ crossed \subseteq crossed'
  BY DEF OnTheWire, Remembers
<1>1. ASSUME late' = late PROVE Goal BY <1>0, <1>1
<1>2. ASSUME NEW r \in Arrived, Handle(r) PROVE Goal
  <2>1. PICK stage \in {"checked", "done", "refused"} : Advance(r, stage)
    BY <1>2, Handled
  <2>2. CASE r = req BY <1>1, <2>1, <2>2, Advanced
  <2>3. CASE r # req
    <3>1. r \in late /\ \A q \in late' : q \in late \/ (q = [r EXCEPT !.stage = stage] /\ stage = "checked")
      BY <2>1, <2>3, Advanced
    <3>2. r \in Requests BY ArrivedTyped
    <3>3. [r EXCEPT !.stage = stage].stage = stage /\ Subjects([r EXCEPT !.stage = stage]) = Subjects(r)
      BY <3>2 DEF Requests, Subjects
    <3>. QED BY <1>0, <3>1, <3>3
  <2>. QED BY <2>2, <2>3
<1>3. ASSUME Repost \/ GiveUp \/ RunDies PROVE Goal
  <2>1. \/ late' = late
        \/ req.stage \in {"sent", "checked"} /\ late' = late \cup {req} /\ crossed' = crossed \cup Subjects(req)
    BY <1>3 DEF Repost, GiveUp, RunDies, Types, Requests
  <2>. QED BY <1>0, <2>1
<1>4. ASSUME Lose \/ LoseAnswer PROVE late' = late BY <1>4 DEF Lose, LoseAnswer
<1>. QED BY <1>1, <1>2, <1>3, <1>4 DEF Writers, RequestFault

\* What a run step asks of the request: nothing is on the wire but while it waits.
LEMMA OnTheWireKept ==
  ASSUME Types, OnTheWire, Writers, Remembers
  PROVE  OnTheWire'
<1>0. Wire BY DEF OnTheWire
<1>. SUFFICES Wire'
  BY LateKept DEF OnTheWire
<1>. USE DEF RunAt, Wire
<1>1. ASSUME UNCHANGED <<run, req>> PROVE Wire' BY <1>0, <1>1
<1>2. CASE RunStarts \/ FindDirty \/ MarkRun \/ StartBatch
  <2>1. req = NoReq /\ req' = req
    BY <1>0, <1>2 DEF RunStarts, FindDirty, MarkRun, StartBatch
  <2>2. run'.step \in {"look", "find", "idle", "mark", "batch"}
    <3>. USE DEF Types, Runs
    <3>1. CASE RunStarts BY <3>1 DEF RunStarts, Goto
    <3>2. CASE FindDirty BY <3>2 DEF FindDirty, IdleRun
    <3>3. CASE MarkRun BY <3>3 DEF MarkRun, Goto
    <3>4. CASE StartBatch BY <3>4 DEF StartBatch, IdleRun
    <3>. QED BY <1>2, <3>1, <3>2, <3>3, <3>4
  <2>. QED BY <2>1, <2>2
<1>3. CASE Look \/ Plan
  <2>1. req = NoReq /\ req' = req BY <1>0, <1>3 DEF Look, Plan
  <2>2. run'.step \in {"plan", "announce"} BY <1>3 DEF Look, Plan, Types, Runs
  <2>. QED BY <2>1, <2>2
<1>4. CASE Announce
  <2>1. CASE DOMAIN run.say = {} BY <1>0, <1>4, <2>1 DEF Announce, Goto, Types, Runs
  <2>2. CASE DOMAIN run.say # {} BY <1>4, <2>2 DEF Announce, Goto, Post, Types, Runs
  <2>. QED BY <2>1, <2>2
<1>5. CASE AnnounceAnswered BY <1>5 DEF AnnounceAnswered, Types, Runs
<1>6. CASE Unannounce
  <2>1. CASE run.unsay = {} BY <1>0, <1>6, <2>1 DEF Unannounce, Goto, Types, Runs
  <2>2. CASE run.unsay # {} BY <1>6, <2>2, NothingSaid DEF Unannounce, Goto, Post, Types, Runs
  <2>. QED BY <2>1, <2>2
<1>7. CASE UnannounceAnswered BY <1>7 DEF UnannounceAnswered, Types, Runs
<1>8. CASE Settle
  <2>1. req = NoReq /\ req' = req BY <1>0, <1>8 DEF Settle
  <2>2. run'.step \in {"find", "idle"} BY <1>8 DEF Settle, IdleRun
  <2>. QED BY <2>1, <2>2
<1>9. ASSUME NEW r \in Arrived, Handle(r) PROVE Wire'
  <2>1. PICK stage \in {"checked", "done", "refused"} :
           /\ Advance(r, stage) /\ run' = run
           /\ \/ r.kind = "announce" /\ r.stage = "sent" /\ stage \in {"checked", "refused"}
              \/ r.stage = "checked" /\ stage = "done"
              \/ r.kind = "unannounce" /\ stage = "done"
    BY <1>9, Handled
  <2>2. CASE r # req BY <1>1, <2>1, <2>2, Advanced
  <2>3. CASE r = req
    <3>1. req' = [req EXCEPT !.stage = stage] /\ r.stage \in {"sent", "checked"}
      BY <2>1, <2>3, Advanced, ArrivedTyped
    <3>2. /\ req'.kind = req.kind /\ req'.say = req.say /\ req'.unsay = req.unsay /\ req'.stage = stage
      BY <3>1 DEF Types, Requests
    <3>3. RunAt("announcing") \/ RunAt("unannouncing") BY <2>3, <3>1, Waiting
    <3>. QED BY <1>0, <2>1, <2>3, <3>2, <3>3
  <2>. QED BY <2>2, <2>3
<1>10. CASE Lose \/ LoseAnswer \/ Repost \/ GiveUp
  <2>1. /\ run' = run /\ req.stage \in {"sent", "checked", "done"}
        /\ \E s \in {"refused", "sent"} : req' = [req EXCEPT !.stage = s]
    BY <1>10 DEF Lose, LoseAnswer, Repost, GiveUp
  <2>2. /\ req'.kind = req.kind /\ req'.say = req.say /\ req'.unsay = req.unsay
        /\ req'.stage \in {"refused", "sent"}
    BY <2>1 DEF Types, Requests
  <2>3. RunAt("announcing") \/ RunAt("unannouncing") BY <2>1, Waiting
  <2>. QED BY <1>0, <2>1, <2>2, <2>3
<1>11. CASE RunDies BY <1>11 DEF RunDies, IdleRun
<1>. QED
  BY <1>1, <1>2, <1>3, <1>4, <1>5, <1>6, <1>7, <1>8, <1>9, <1>10, <1>11 DEF Writers, RunStep, Answer, RequestFault

LEMMA OnTheWireHolds == Spec => [](Types /\ OnTheWire)
<1>1. Init => OnTheWire BY DEF Init, OnTheWire, Wire, IdleRun, RunAt
<1>2. Types /\ OnTheWire /\ [Next]_vars => OnTheWire' BY OnTheWireKept, WritersOf, StatusStepOf
<1>. QED BY <1>1, <1>2, TypesHold, PTL DEF Spec

\* A run keeps what it saw of the share and its scope until it ends.
LEMMA SeenStill ==
  ASSUME Types, Writers, run'.step \in Passing
  PROVE  \/ /\ run.step \in Passing /\ ~RunAt("settle")
            /\ UNCHANGED <<run.seen, run.scope, run.todo>>
         \/ RunAt("idle") /\ RunStarts /\ out \in Awaiting /\ run'.seen = out /\ run'.scope = Pictures
         \/ RunAt("batch") /\ StartBatch /\ out = "active" /\ run'.seen = out
              /\ run'.scope = run.todo /\ run'.todo = run.todo
         \/ run' = run
<1>. USE DEF Types, Runs, Passing, RunAt
<1>1. CASE RunStarts BY <1>1 DEF RunStarts, Goto
<1>2. CASE FindDirty BY <1>2 DEF FindDirty, IdleRun
<1>3. CASE MarkRun BY <1>3 DEF MarkRun, Goto
<1>4. CASE StartBatch BY <1>4 DEF StartBatch, IdleRun
<1>5. CASE Look BY <1>5 DEF Look
<1>6. CASE Plan BY <1>6 DEF Plan
<1>7. CASE Announce BY <1>7 DEF Announce, Goto
<1>8. CASE AnnounceAnswered BY <1>8 DEF AnnounceAnswered
<1>9. CASE Unannounce BY <1>9 DEF Unannounce, Goto
<1>10. CASE UnannounceAnswered BY <1>10 DEF UnannounceAnswered
<1>11. CASE Settle BY <1>11 DEF Settle, IdleRun
<1>12. CASE RunDies BY <1>12 DEF RunDies, IdleRun
<1>. QED
  BY <1>1, <1>2, <1>3, <1>4, <1>5, <1>6, <1>7, <1>8, <1>9, <1>10, <1>11, <1>12 DEF Writers, RunStep

\* While a pass goes on, a share that awaits one still does, or dies.
LEMMA StillAwaiting ==
  ASSUME ShareTypeOK, StatusStep, run'.step \in Passing, ~torn'
  PROVE  /\ out \in Awaiting \cup Dead => out' \in Awaiting \cup Dead
         /\ out \in {"pending_first_announcement"} \cup Dead => out' \in {"pending_first_announcement"} \cup Dead
<1>0. CASE out' = out BY <1>0
<1>1. CASE UNCHANGED shareVars BY <1>1 DEF shareVars
<1>2. CASE AcceptBegins \/ AcceptSends \/ AcceptReceived \/ AcceptMoves \/ AcceptCommits \/ RejectEnds
  BY <1>2 DEF Awaiting, AcceptBegins, AcceptSends, AcceptReceived, AcceptMoves, AcceptCommits, RejectEnds
<1>3. CASE RevokeMarks \/ RevokeDrops \/ RevokeReceived BY <1>3 DEF Dead, RevokeMarks, RevokeDrops, RevokeReceived
<1>4. CASE RejectBegins \/ RejectDeclines \/ RejectReceived \/ RejectDrops \/ RejectLeaves
  BY <1>4 DEF Dead, RejectBegins, RejectDeclines, RejectReceived, RejectDrops, RejectLeaves
<1>5. ASSUME NEW op \in DOMAIN AllIdle, CallDies(op) PROVE out' = out BY <1>5 DEF CallDies
<1>. QED BY <1>0, <1>1, <1>2, <1>3, <1>4, <1>5 DEF StatusStep

LEMMA PassesKept ==
  ASSUME Types, Passes, Writers, StatusStep, Remembers
  PROVE  Passes'
<1>. SUFFICES ASSUME run'.step \in Passing
     PROVE  /\ \/ run'.seen \in Awaiting /\ run'.scope = Pictures
               \/ run'.seen = "active" /\ run'.scope = run'.todo
            /\ ~torn' /\ run'.seen \in Awaiting => out' \in Awaiting \cup Dead
            /\ ~torn' /\ run'.seen = "pending_first_announcement" => out' \in {run'.seen} \cup Dead
  BY DEF Passes
<1>1. ShareTypeOK /\ (~torn' => ~torn) BY DEF Types, TypeOK, Remembers
<1>2. CASE run.step \in Passing /\ UNCHANGED <<run.seen, run.scope, run.todo>>
  BY <1>1, <1>2, StillAwaiting DEF Passes
<1>3. CASE RunStarts /\ out \in Awaiting /\ run'.seen = out /\ run'.scope = Pictures
  <2>1. out' = out BY <1>3 DEF RunStarts, shareVars
  <2>. QED BY <1>3, <2>1
<1>4. CASE out = "active" /\ run'.seen = out /\ run'.scope = run.todo /\ run'.todo = run.todo
  BY <1>4 DEF Awaiting
<1>5. CASE run' = run
  <2>1. run.step \in Passing BY <1>5
  <2>. QED BY <1>1, <1>5, <2>1, StillAwaiting DEF Passes
<1>. QED BY <1>2, <1>3, <1>4, <1>5, SeenStill

\* The tokens are dropped only under a dead share.
LEMMA DropsWhenDead ==
  ASSUME Types, Calls, DropTokens, ~torn
  PROVE  out' \in Dead /\ out' = out
BY DEF Calls, DropTokens, RevokeDrops, RejectDrops, At, Dead

LEMMA FrozenKept ==
  ASSUME Types, Calls, Passes, Frozen, Writers, StatusStep, Remembers
  PROVE  Frozen'
<1>. SUFFICES ASSUME ~future, ~torn', out' \notin Dead, Saying', run'.seen # "pending_first_announcement"
     PROVE  DOMAIN run'.say \subseteq Tracked'
  BY DEF Frozen, Writers
<1>1. ShareTypeOK /\ ~torn /\ out \notin Dead BY DeadStays DEF Types, TypeOK, Remembers
<1>. USE DEF Saying, RunAt
<1>2. CASE run' = run
  <2>1. DOMAIN run.say \subseteq Tracked BY <1>1, <1>2 DEF Frozen
  <2>2. track' = track
    <3>1. ~Answer BY <1>2 DEF Answer, AnnounceAnswered, UnannounceAnswered, Types, Runs
    <3>2. ~DropTokens BY <1>1, DropsWhenDead
    <3>. QED BY <3>1, <3>2 DEF Writers
  <2>. QED BY <1>2, <2>1, <2>2 DEF Tracked
<1>3. CASE Plan
  <2>1. run'.say = [p \in Untold |-> [token |-> TokenFor(p), at |-> updated[p], owner |-> OwnerVersion(p)]]
    BY <1>3 DEF Plan, Types, Runs
  <2>2. run'.seen = run.seen /\ run.look \subseteq Pictures BY <1>3 DEF Plan, Types, Runs
  <2>3. \A p \in Untold : p \in Pictures /\ track[p] # None BY <2>2 DEF Untold, AnnounceNew
  <2>4. track' = track BY <1>3 DEF Plan
  <2>. QED BY <2>1, <2>3, <2>4 DEF Tracked
<1>4. CASE Announce
  <2>1. /\ run'.say = run.say /\ run'.seen = run.seen /\ run.step = "announce"
    BY <1>4 DEF Announce, Goto, Types, Runs
  <2>2. track' = track BY <1>4 DEF Announce
  <2>. QED BY <1>1, <2>1, <2>2 DEF Frozen, Tracked
<1>5. CASE RunStep /\ ~Plan /\ ~Announce
  <2>. USE DEF Types, Runs
  <2>1. CASE RunStarts BY <2>1 DEF RunStarts, Goto
  <2>2. CASE FindDirty BY <2>2 DEF FindDirty, IdleRun
  <2>3. CASE MarkRun BY <2>3 DEF MarkRun, Goto
  <2>4. CASE StartBatch BY <2>4 DEF StartBatch, IdleRun
  <2>5. CASE Look BY <2>5 DEF Look
  <2>6. CASE AnnounceAnswered BY <2>6 DEF AnnounceAnswered
  <2>7. CASE Unannounce BY <2>7 DEF Unannounce, Goto
  <2>8. CASE UnannounceAnswered BY <2>8 DEF UnannounceAnswered
  <2>9. CASE Settle BY <2>9 DEF Settle, IdleRun
  <2>. QED BY <1>5, <2>1, <2>2, <2>3, <2>4, <2>5, <2>6, <2>7, <2>8, <2>9 DEF RunStep
<1>6. CASE RunDies BY <1>6 DEF RunDies, IdleRun
<1>. QED BY <1>2, <1>3, <1>4, <1>5, <1>6 DEF Writers

PassInv == OnTheWire /\ Passes /\ Frozen

LEMMA PassesHold == Spec => [](Types /\ StatusInv /\ PassInv)
<1>1. Init => PassInv
  BY DEF Init, PassInv, OnTheWire, Wire, Passes, Frozen, Saying, IdleRun, RunAt, Passing
<1>2. ASSUME Types, StatusInv, PassInv, [Next]_vars PROVE PassInv'
  BY <1>2, WritersOf, StatusStepOf, OnTheWireKept, PassesKept, FrozenKept DEF PassInv, StatusInv
<1>. QED BY <1>1, <1>2, TypesHold, StatusesHold, PTL DEF Spec

-----------------------------------------------------------------------------
(* What a step may never do *)

\* A share created with future = false never tells a picture it had not told
\* when it became active, whatever is tagged under it later: only a request
\* handled late, from before, can still bring one.
THEOREM FrozenSetKept == Spec => FrozenSet
<1>1. ASSUME Types, StatusInv, PassInv, [Next]_vars,
             ~future, ~torn', out \in {"active", "errored"}
      PROVE  Told' \ Told \subseteq Tracked \cup crossed
  <2>1. Writers /\ Remembers BY <1>1, WritersOf, StatusStepOf
  <2>2. ~torn /\ out \notin Dead BY <1>1, <2>1 DEF Remembers, Dead
  <2>3. ASSUME NEW r \in Arrived, Register(r) PROVE Told' \ Told \subseteq Tracked \cup crossed
    <3>1. Told' \ Told \subseteq DOMAIN r.say BY <2>3 DEF Told, Register
    <3>2. CASE r # req
      BY <1>1, <3>1, <3>2, ArrivedTyped DEF PassInv, OnTheWire, Subjects
    <3>3. CASE r = req
      <4>1. r.stage = "checked" /\ r.stage # "none" BY <2>3 DEF Register
      <4>2. RunAt("announcing") /\ req.say = run.say
        BY <1>1, <3>3, <4>1, Waiting DEF PassInv, OnTheWire, Wire
      <4>3. run.step \in Passing BY <4>2 DEF RunAt, Passing
      <4>4. run.seen # "pending_first_announcement"
        BY <1>1, <2>2, <4>3 DEF PassInv, Passes, Dead
      <4>5. DOMAIN run.say \subseteq Tracked
        BY <1>1, <2>2, <4>2, <4>4 DEF PassInv, Frozen, Saying
      <4>. QED BY <3>1, <3>3, <4>2, <4>5
    <3>. QED BY <3>2, <3>3
  <2>4. ASSUME NEW r \in Arrived, Unregister(r) PROVE Told' \ Told = {} BY <2>4 DEF Told, Unregister
  <2>5. CASE CleanUp BY <2>5 DEF CleanUp, NoRows, Told
  <2>6. CASE UNCHANGED theirs BY <2>6 DEF Told
  <2>. QED BY <2>1, <2>3, <2>4, <2>5, <2>6 DEF Writers
<1>2. Types /\ StatusInv /\ PassInv /\ [Next]_vars
        => [~future /\ ~torn' /\ out \in {"active", "errored"} => Told' \ Told \subseteq Tracked \cup crossed]_vars
  BY <1>1
<1>. QED BY <1>2, PassesHold, PTL DEF Spec, FrozenSet

\* A copy the recipient keeps never goes back to an older version, in whatever
\* order the announcements of its picture are handled, and however often.
THEOREM CopiesGoForward == Spec => NeverBackInTime
<1>1. ASSUME Types, [Next]_vars, NEW p \in Told, theirs'[p] # None
      PROVE  theirs'[p].owner >= theirs[p].owner
  <2>1. p \in Pictures /\ theirs[p] \in Copy /\ theirs[p] # None BY <1>1 DEF Told, Types, TypeOK
  <2>2. theirs[p].owner \in Nat BY <2>1 DEF Copy
  <2>3. Writers BY <1>1, WritersOf
  <2>4. ASSUME NEW r \in Arrived, Register(r) PROVE theirs'[p].owner >= theirs[p].owner
    <3>1. CASE p \notin DOMAIN r.say \/ Outdated(p, r.say[p])
      <4>1. theirs'[p] = theirs[p] BY <2>1, <2>4, <3>1 DEF Register
      <4>. QED BY <2>2, <4>1
    <3>2. CASE p \in DOMAIN r.say /\ ~Outdated(p, r.say[p])
      <4>1. theirs'[p] = [token |-> r.say[p].token, owner |-> r.say[p].owner] BY <2>1, <2>4, <3>2 DEF Register
      <4>2. r \in Requests /\ p \in DOMAIN r.say BY <1>1, <3>2, ArrivedTyped
      <4>3. r.say[p] \in Item BY <4>2, SaidItems
      <4>4. r.say[p].owner \in Nat /\ ~(r.say[p].owner < theirs[p].owner) BY <2>1, <3>2, <4>3 DEF Outdated, Item
      <4>. QED BY <2>2, <4>1, <4>4
    <3>. QED BY <3>1, <3>2
  <2>5. ASSUME NEW r \in Arrived, Unregister(r) PROVE theirs'[p] = theirs[p] BY <1>1, <2>1, <2>5 DEF Unregister
  <2>6. ~CleanUp BY <1>1, <2>1 DEF CleanUp, NoRows
  <2>. QED BY <2>2, <2>3, <2>4, <2>5, <2>6 DEF Writers
<1>2. Types /\ [Next]_vars
        => [\A p \in Told : theirs'[p] # None => theirs'[p].owner >= theirs[p].owner]_vars
  BY <1>1
<1>. QED BY <1>2, TypesHold, PTL DEF Spec, NeverBackInTime

-----------------------------------------------------------------------------
(* How one picture, its row and its copy move *)

\* Nothing about p has moved at the sender's.
Same(p) ==
  /\ p \in covered' <=> p \in covered
  /\ p \in dirty' <=> p \in dirty
  /\ updated'[p] = updated[p]
  /\ OwnerVersion(p)' = OwnerVersion(p)
  /\ p \in Relayed => upstream'[p] = upstream[p]

\* Something has, and p is dirty; or p is evaluated again.
Dirtied(p) ==
  /\ p \in dirty'
  /\ updated'[p] = updated[p] + 1
  /\ OwnerVersion(p)' >= OwnerVersion(p)
  /\ UNCHANGED <<out, inc, run, req, late, track, theirs, ghosts, forgotten, torn>>

Marked(p) ==
  /\ MarkRun /\ p \in run.todo
  /\ updated'[p] = updated[p] + 1
  /\ OwnerVersion(p)' >= OwnerVersion(p)
  /\ p \in covered' <=> p \in covered

LEMMA PictureMoves ==
  ASSUME Types, Writers, NEW p \in Pictures
  PROVE  Same(p) \/ Dirtied(p) \/ Marked(p)
<1>0. /\ updated \in [Pictures -> Nat] /\ origin \in [Relayed -> Nat] /\ upstream \in [Relayed -> Tokens]
      /\ updated[p] \in Nat /\ (p \in Relayed => origin[p] \in Nat) /\ Relayed \subseteq Pictures
  BY DeliveryAssumption DEF Types, TypeOK
<1>1. ASSUME UNCHANGED pictureVars PROVE Same(p) BY <1>1 DEF pictureVars, Same, OwnerVersion
<1>2. ASSUME NEW S, Invalidate(S), UNCHANGED <<run, req, late, track, theirs>>,
             UNCHANGED shareVars, UNCHANGED history,
             p \notin S => (p \in covered' <=> p \in covered) /\ (p \in Relayed => origin'[p] = origin[p] /\ upstream'[p] = upstream[p]),
             p \in Relayed => origin'[p] \in Nat /\ origin'[p] >= origin[p]
      PROVE  Same(p) \/ Dirtied(p)
  <2>1. dirty' = dirty \cup S /\ updated'[p] = IF p \in S THEN updated[p] + 1 ELSE updated[p]
    BY <1>0, <1>2 DEF Invalidate, Touch
  <2>2. CASE p \in S
    <3>1. p \in dirty' /\ updated'[p] = updated[p] + 1 BY <2>1, <2>2
    <3>2. OwnerVersion(p)' >= OwnerVersion(p)
      <4>1. CASE p \in Relayed BY <1>2, <4>1 DEF OwnerVersion
      <4>2. CASE p \notin Relayed BY <1>0, <3>1, <4>2 DEF OwnerVersion
      <4>. QED BY <4>1, <4>2
    <3>. QED BY <1>2, <3>1, <3>2 DEF Dirtied, shareVars, history
  <2>3. CASE p \notin S BY <1>2, <2>1, <2>3 DEF Same, OwnerVersion
  <2>. QED BY <2>2, <2>3
<1>3. ASSUME NEW q \in Pictures, Retag(q) PROVE Same(p) \/ Dirtied(p)
  <2>1. /\ Invalidate({q}) /\ UNCHANGED <<run, req, late, track, theirs>> /\ UNCHANGED shareVars /\ UNCHANGED history
        /\ p \notin {q} => (p \in covered' <=> p \in covered)
        /\ UNCHANGED <<origin, upstream>>
    BY <1>3 DEF Retag
  <2>. QED BY <1>0, <1>2, <2>1
<1>4. ASSUME NEW q \in Pictures, Edit(q) PROVE Same(p) \/ Dirtied(p)
  <2>1. /\ Invalidate({q}) /\ UNCHANGED <<run, req, late, track, theirs>> /\ UNCHANGED shareVars /\ UNCHANGED history
        /\ UNCHANGED <<covered, origin, upstream>>
    BY <1>4 DEF Edit
  <2>. QED BY <1>0, <1>2, <2>1
<1>5. ASSUME NEW q \in Pictures, ArrivesAgain(q) PROVE Same(p) \/ Dirtied(p)
  <2>1. /\ Invalidate({q}) /\ UNCHANGED <<run, req, late, track, theirs>> /\ UNCHANGED shareVars /\ UNCHANGED history
        /\ UNCHANGED covered
    BY <1>5 DEF ArrivesAgain
  <2>2. \/ origin' = [origin EXCEPT ![q] = @ + 1] /\ upstream' = upstream
        \/ upstream' = [upstream EXCEPT ![q] = FreshToken(q)] /\ origin' = origin
    BY <1>5 DEF ArrivesAgain
  <2>3. p \notin {q} /\ p \in Relayed => origin'[p] = origin[p] /\ upstream'[p] = upstream[p]
    BY <1>0, <2>2
  <2>4. p \in Relayed => origin'[p] \in Nat /\ origin'[p] >= origin[p]
    <3>1. CASE origin' = origin BY <1>0, <3>1
    <3>2. CASE origin' = [origin EXCEPT ![q] = @ + 1] BY <1>0, <3>2
    <3>. QED BY <2>2, <3>1, <3>2
  <2>. QED BY <1>2, <2>1, <2>3, <2>4
<1>6. ASSUME Sweep PROVE Same(p) \/ Dirtied(p)
  <2>1. /\ Invalidate(Lagging) /\ UNCHANGED <<run, req, late, track, theirs>> /\ UNCHANGED shareVars /\ UNCHANGED history
        /\ UNCHANGED <<covered, origin, upstream>>
    BY <1>6 DEF Sweep
  <2>. QED BY <1>0, <1>2, <2>1
<1>7. ASSUME MarkRun PROVE Same(p) \/ Marked(p)
  <2>1. /\ dirty' = dirty \ run.todo /\ UNCHANGED <<covered, origin, upstream>>
        /\ updated'[p] = IF p \in run.todo THEN updated[p] + 1 ELSE updated[p]
    BY <1>0, <1>7 DEF MarkRun, Touch
  <2>2. CASE p \in run.todo
    <3>1. updated'[p] = updated[p] + 1 BY <2>1, <2>2
    <3>2. OwnerVersion(p)' >= OwnerVersion(p)
      <4>1. CASE p \in Relayed BY <1>0, <2>1, <4>1 DEF OwnerVersion
      <4>2. CASE p \notin Relayed BY <1>0, <3>1, <4>2 DEF OwnerVersion
      <4>. QED BY <4>1, <4>2
    <3>. QED BY <1>7, <2>1, <2>2, <3>1, <3>2 DEF Marked
  <2>3. CASE p \notin run.todo BY <2>1, <2>3 DEF Same, OwnerVersion
  <2>. QED BY <2>2, <2>3
<1>. QED BY <1>1, <1>3, <1>4, <1>5, <1>6, <1>7 DEF Writers

\* Versions only grow.
LEMMA VersionsGrow ==
  ASSUME Types, Writers, NEW p \in Pictures
  PROVE  /\ updated[p] \in Nat /\ updated'[p] \in Nat /\ updated'[p] >= updated[p]
         /\ OwnerVersion(p) \in Nat /\ OwnerVersion(p)' \in Nat /\ OwnerVersion(p)' >= OwnerVersion(p)
<1>1. /\ updated[p] \in Nat /\ (p \in Relayed => origin[p] \in Nat)
      /\ updated'[p] \in Nat /\ (p \in Relayed => origin'[p] \in Nat)
  BY PicturesKept DEF Types, TypeOK
<1>2. OwnerVersion(p) \in Nat /\ OwnerVersion(p)' \in Nat BY <1>1 DEF OwnerVersion
<1>. QED BY <1>1, <1>2, PictureMoves DEF Same, Dirtied, Marked

\* A row moves when its announcement or its withdrawal is answered, or dies
\* with its share.
LEMMA RowMoves ==
  ASSUME Types, Writers, NEW p \in Pictures
  PROVE  \/ track'[p] = track[p]
         \/ /\ AnnounceAnswered /\ Delivered /\ p \in DOMAIN run.say
            /\ track'[p] = [token |-> run.say[p].token, at |-> run.say[p].at]
         \/ UnannounceAnswered /\ Delivered /\ p \in run.unsay /\ track'[p] = None
         \/ DropTokens /\ track'[p] = None
<1>1. CASE AnnounceAnswered BY <1>1 DEF AnnounceAnswered
<1>2. CASE UnannounceAnswered BY <1>2 DEF UnannounceAnswered
<1>3. CASE DropTokens BY <1>3 DEF DropTokens, NoRows
<1>. QED BY <1>1, <1>2, <1>3 DEF Writers, Answer

\* A copy moves when a request about its picture is handled, or goes with its
\* share; only a late request is about pictures the pass does not wait for.
LEMMA CopyMoves ==
  ASSUME Types, OnTheWire, Writers, NEW p \in Pictures \ crossed
  PROVE  \/ theirs'[p] = theirs[p]
         \/ /\ Register(req) /\ RunAt("announcing") /\ p \in DOMAIN run.say
            /\ req \in Arrived /\ req.say = run.say /\ ~Outdated(p, run.say[p])
            /\ theirs'[p] = [token |-> run.say[p].token, owner |-> run.say[p].owner]
         \/ /\ Unregister(req) /\ RunAt("unannouncing") /\ p \in run.unsay
            /\ req \in Arrived /\ theirs'[p] = None
         \/ CleanUp /\ theirs'[p] = None
<1>1. ASSUME NEW r \in Arrived, r # req, Register(r) PROVE theirs'[p] = theirs[p]
  <2>1. p \notin DOMAIN r.say BY <1>1, ArrivedTyped DEF OnTheWire, Subjects
  <2>. QED BY <1>1, <2>1 DEF Register
<1>2. ASSUME NEW r \in Arrived, r # req, Unregister(r) PROVE theirs'[p] = theirs[p]
  <2>1. p \notin r.unsay BY <1>2, ArrivedTyped DEF OnTheWire, Subjects
  <2>. QED BY <1>2, <2>1 DEF Unregister
<1>3. ASSUME req \in Arrived, Register(req)
      PROVE  \/ theirs'[p] = theirs[p]
             \/ /\ RunAt("announcing") /\ p \in DOMAIN run.say /\ req.say = run.say
                /\ ~Outdated(p, run.say[p])
                /\ theirs'[p] = [token |-> run.say[p].token, owner |-> run.say[p].owner]
  <2>1. req.stage = "checked" BY <1>3 DEF Register
  <2>2. RunAt("announcing") /\ req.say = run.say BY <2>1, Waiting DEF OnTheWire, Wire
  <2>. QED BY <1>3, <2>2 DEF Register
<1>4. ASSUME req \in Arrived, Unregister(req)
      PROVE  \/ theirs'[p] = theirs[p]
             \/ RunAt("unannouncing") /\ p \in run.unsay /\ theirs'[p] = None
  <2>1. req.kind = "unannounce" BY <1>4 DEF Unregister
  <2>2. RunAt("unannouncing") /\ req.unsay = run.unsay BY <2>1 DEF OnTheWire, Wire, NoReq
  <2>. QED BY <1>4, <2>2 DEF Unregister
<1>5. CASE CleanUp BY <1>5 DEF CleanUp, NoRows
<1>. QED BY <1>1, <1>2, <1>3, <1>4, <1>5 DEF Writers

\* What a pass says was planned, and only its own answers end that.
LEMMA SayingBefore ==
  ASSUME Types, Writers, Saying'
  PROVE  Plan \/ (Saying /\ run'.say = run.say /\ run'.unsay = run.unsay)
<1>. USE DEF Types, Runs, RunAt, Saying
<1>1. CASE RunStarts BY <1>1 DEF RunStarts, Goto
<1>2. CASE FindDirty BY <1>2 DEF FindDirty, IdleRun
<1>3. CASE MarkRun BY <1>3 DEF MarkRun, Goto
<1>4. CASE StartBatch BY <1>4 DEF StartBatch, IdleRun
<1>5. CASE Look BY <1>5 DEF Look
<1>6. CASE Announce BY <1>6 DEF Announce, Goto
<1>7. CASE AnnounceAnswered BY <1>7 DEF AnnounceAnswered
<1>8. CASE Unannounce BY <1>8 DEF Unannounce, Goto
<1>9. CASE UnannounceAnswered BY <1>9 DEF UnannounceAnswered
<1>10. CASE Settle BY <1>10 DEF Settle, IdleRun
<1>11. CASE RunDies BY <1>11 DEF RunDies, IdleRun
<1>12. CASE run' = run BY <1>12
<1>. QED
  BY <1>1, <1>2, <1>3, <1>4, <1>5, <1>6, <1>7, <1>8, <1>9, <1>10, <1>11, <1>12 DEF Writers, RunStep

LEMMA UnsayingBefore ==
  ASSUME Types, Writers, Unsaying'
  PROVE  Plan \/ (Unsaying /\ run'.unsay = run.unsay)
<1>. USE DEF Types, Runs, RunAt, Saying, Unsaying
<1>1. CASE RunStarts BY <1>1 DEF RunStarts, Goto
<1>2. CASE FindDirty BY <1>2 DEF FindDirty, IdleRun
<1>3. CASE MarkRun BY <1>3 DEF MarkRun, Goto
<1>4. CASE StartBatch BY <1>4 DEF StartBatch, IdleRun
<1>5. CASE Look BY <1>5 DEF Look
<1>6. CASE Announce BY <1>6 DEF Announce, Goto
<1>7. CASE AnnounceAnswered BY <1>7 DEF AnnounceAnswered
<1>8. CASE Unannounce BY <1>8 DEF Unannounce, Goto
<1>9. CASE UnannounceAnswered BY <1>9 DEF UnannounceAnswered
<1>10. CASE Settle BY <1>10 DEF Settle, IdleRun
<1>11. CASE RunDies BY <1>11 DEF RunDies, IdleRun
<1>12. CASE run' = run BY <1>12
<1>. QED
  BY <1>1, <1>2, <1>3, <1>4, <1>5, <1>6, <1>7, <1>8, <1>9, <1>10, <1>11, <1>12 DEF Writers, RunStep

\* What a plan says, and what it takes back.
LEMMA Planned ==
  ASSUME Types, Plan
  PROVE  /\ DOMAIN run'.say = Untold
         /\ \A p \in Untold :
              /\ p \in Pictures
              /\ run'.say[p] = [token |-> TokenFor(p), at |-> updated[p], owner |-> OwnerVersion(p)]
         /\ run'.unsay = (Tracked \cap run.scope) \ run.look
         /\ run'.step = "announce" /\ run'.scope = run.scope
         /\ UNCHANGED <<pictureVars, track, theirs, shareVars, torn>>
<1>1. /\ run'.say = [p \in Untold |-> [token |-> TokenFor(p), at |-> updated[p], owner |-> OwnerVersion(p)]]
      /\ run'.unsay = (Tracked \cap run.scope) \ run.look
      /\ run'.step = "announce" /\ run'.scope = run.scope
  BY DEF Plan, Types, Runs
<1>2. \A p \in Untold : p \in Pictures BY DEF Untold, Types, Runs
<1>3. UNCHANGED <<pictureVars, track, theirs, shareVars, torn>> BY DEF Plan, history
<1>. QED BY <1>1, <1>2, <1>3

-----------------------------------------------------------------------------
(* No version is from the future *)

LEMMA VersionKept ==
  ASSUME Types, OnTheWire, Writers, Remembers, NEW p \in Pictures, VersionRight(p)
  PROVE  VersionRight(p)'
<1>. USE DEF VersionRight
<1>1. /\ updated[p] \in Nat /\ updated'[p] \in Nat /\ updated'[p] >= updated[p]
      /\ OwnerVersion(p) \in Nat /\ OwnerVersion(p)' \in Nat /\ OwnerVersion(p)' >= OwnerVersion(p)
  BY VersionsGrow
<1>2. /\ p \in Tracked => track[p].at \in Nat
      /\ p \in Told => theirs[p].owner \in Nat
      /\ p \in DOMAIN run.say => run.say[p].at \in Nat /\ run.say[p].owner \in Nat
      /\ \A r \in Requests : p \in DOMAIN r.say => r.say[p].owner \in Nat
  BY SaidItems DEF Types, TypeOK, Tracked, Told, Row, Copy, Item
<1>3. ASSUME p \in Tracked' PROVE track'[p].at <= updated'[p]
  <2>1. CASE track'[p] = track[p] BY <1>1, <1>2, <1>3, <2>1 DEF Tracked
  <2>2. CASE /\ AnnounceAnswered /\ p \in DOMAIN run.say
             /\ track'[p] = [token |-> run.say[p].token, at |-> run.say[p].at]
    <3>1. Saying BY <2>2 DEF AnnounceAnswered, Saying
    <3>2. run.say[p].at <= updated[p] BY <2>2, <3>1
    <3>. QED BY <1>1, <1>2, <2>2, <3>2
  <2>. QED BY <1>3, <2>1, <2>2, RowMoves DEF Tracked
<1>4. ASSUME p \in Told' PROVE theirs'[p].owner <= OwnerVersion(p)'
  <2>1. CASE theirs'[p] = theirs[p] BY <1>1, <1>2, <1>4, <2>1 DEF Told
  <2>2. ASSUME NEW r \in Arrived, Register(r), theirs'[p] # theirs[p] PROVE theirs'[p].owner <= OwnerVersion(p)'
    <3>1. p \in DOMAIN r.say /\ theirs'[p].owner = r.say[p].owner BY <2>2 DEF Register
    <3>2. r.say[p].owner \in Nat BY <1>2, <3>1, ArrivedTyped
    <3>3. CASE r # req BY <1>1, <3>1, <3>2, <3>3, ArrivedTyped
    <3>4. CASE r = req
      <4>1. req.stage = "checked" BY <2>2, <3>4 DEF Register
      <4>2. RunAt("announcing") /\ req.say = run.say BY <4>1, Waiting DEF OnTheWire, Wire
      <4>3. run.say[p].owner <= OwnerVersion(p) BY <3>1, <3>4, <4>2 DEF Saying
      <4>. QED BY <1>1, <3>1, <3>2, <3>4, <4>2, <4>3
    <3>. QED BY <3>3, <3>4
  <2>3. ASSUME NEW r \in Arrived, Unregister(r) PROVE theirs'[p] = theirs[p]
    BY <1>4, <2>3 DEF Unregister, Told
  <2>4. ~CleanUp BY <1>4 DEF CleanUp, NoRows, Told
  <2>. QED BY <2>1, <2>2, <2>3, <2>4 DEF Writers
<1>5. ASSUME Saying', p \in DOMAIN run'.say
      PROVE  /\ run'.say[p].at <= updated'[p] /\ run'.say[p].owner <= OwnerVersion(p)'
             /\ p \in Told' \ crossed' => theirs'[p].owner <= run'.say[p].owner
  <2>1. CASE Plan
    <3>1. p \in Untold /\ run'.say[p].at = updated[p] /\ run'.say[p].owner = OwnerVersion(p)
      <4>1. p \in Untold BY <1>5, <2>1, Planned
      <4>2. run'.say[p] = [token |-> TokenFor(p), at |-> updated[p], owner |-> OwnerVersion(p)]
        BY <2>1, <4>1, Planned
      <4>. QED BY <4>1, <4>2
    <3>2. theirs' = theirs BY <2>1, Planned
    <3>. QED BY <1>1, <1>2, <3>1, <3>2 DEF Told
  <2>2. CASE Saying /\ run'.say = run.say
    <3>1. /\ run.say[p].at <= updated[p] /\ run.say[p].owner <= OwnerVersion(p)
          /\ p \in Told \ crossed => theirs[p].owner <= run.say[p].owner
      BY <1>5, <2>2
    <3>2. ASSUME p \in Told' \ crossed' PROVE theirs'[p].owner <= run'.say[p].owner
      <4>1. p \in Pictures \ crossed BY <3>2 DEF Remembers
      <4>2. CASE theirs'[p] = theirs[p] BY <2>2, <3>1, <3>2, <4>1, <4>2 DEF Told
      <4>3. CASE theirs'[p] = [token |-> run.say[p].token, owner |-> run.say[p].owner]
        <5>1. run.say[p].owner \in Nat BY <1>2, <1>5, <2>2
        <5>. QED BY <2>2, <4>3, <5>1
      <4>4. theirs'[p] # None BY <3>2 DEF Told
      <4>. QED BY <4>1, <4>2, <4>3, <4>4, CopyMoves
    <3>. QED BY <1>1, <1>2, <1>5, <2>2, <3>1, <3>2
  <2>. QED BY <1>5, <2>1, <2>2, SayingBefore
<1>6. ASSUME NEW r \in late', p \in DOMAIN r.say PROVE r.say[p].owner <= OwnerVersion(p)'
  <2>1. CASE r \in late
    <3>1. r \in Requests BY <2>1 DEF Types
    <3>. QED BY <1>1, <1>2, <1>6, <2>1, <3>1
  <2>2. CASE r = req /\ req.stage \in {"sent", "checked"}
    <3>1. req.say = run.say /\ Saying BY <1>6, <2>2, Waiting DEF OnTheWire, Wire, Saying
    <3>2. run.say[p].owner <= OwnerVersion(p) BY <1>6, <2>2, <3>1
    <3>. QED BY <1>1, <1>2, <1>6, <2>2, <3>1, <3>2
  <2>3. ASSUME NEW q \in late, r.say = q.say PROVE r.say[p].owner <= OwnerVersion(p)'
    <3>1. q \in Requests BY DEF Types
    <3>2. q.say[p].owner <= OwnerVersion(p) /\ q.say[p].owner \in Nat BY <1>2, <1>6, <2>3, <3>1
    <3>. QED BY <1>1, <2>3, <3>2
  <2>4. ASSUME NEW a \in Arrived, Handle(a) PROVE r \in late \/ \E q \in late : r.say = q.say
    <3>1. PICK stage \in {"checked", "done", "refused"} : Advance(a, stage) BY <2>4, Handled
    <3>2. CASE a = req BY <3>1, <3>2, Advanced
    <3>3. CASE a # req
      <4>1. a \in late /\ (r \in late \/ r = [a EXCEPT !.stage = stage]) BY <3>1, <3>3, Advanced
      <4>2. a \in Requests BY ArrivedTyped
      <4>. QED BY <4>1, <4>2 DEF Requests
    <3>. QED BY <3>2, <3>3
  <2>5. ASSUME RequestFault PROVE r \in late \/ (r = req /\ req.stage \in {"sent", "checked"})
    BY <2>5 DEF RequestFault, Lose, LoseAnswer, Repost, GiveUp, RunDies
  <2>. QED BY <2>1, <2>2, <2>3, <2>4, <2>5 DEF Writers
<1>. QED BY <1>3, <1>4, <1>5, <1>6

-----------------------------------------------------------------------------
(* What a pass looked up, will say and will take back *)

\* The last announcement of p is of p as it is only if it was, or if it has just
\* been answered.
LEMMA CurrentBefore ==
  ASSUME Types, Writers, NEW p \in Pictures, VersionRight(p), p \in Tracked', Current(p)'
  PROVE  /\ Same(p)
         /\ \/ p \in Tracked /\ Current(p) /\ track'[p] = track[p]
            \/ /\ AnnounceAnswered /\ Delivered /\ p \in DOMAIN run.say
               /\ track'[p] = [token |-> run.say[p].token, at |-> run.say[p].at]
<1>1. \/ track'[p] = track[p] /\ p \in Tracked
      \/ /\ AnnounceAnswered /\ Delivered /\ p \in DOMAIN run.say
         /\ track'[p] = [token |-> run.say[p].token, at |-> run.say[p].at]
  BY RowMoves DEF Tracked
<1>2. Same(p)
  <2>1. ~Dirtied(p) BY DEF Dirtied, Current
  <2>2. ASSUME Marked(p) PROVE FALSE
    <3>1. track'[p] = track[p] /\ p \in Tracked BY <1>1, <2>2 DEF Marked, MarkRun, AnnounceAnswered, RunAt
    <3>2. track[p].at \in Nat /\ track[p].at <= updated[p] BY <3>1 DEF VersionRight, Types, TypeOK, Tracked, Row
    <3>3. updated[p] \in Nat BY DEF Types, TypeOK
    <3>. QED BY <2>2, <3>1, <3>2, <3>3 DEF Current, Marked
  <2>. QED BY <2>1, <2>2, PictureMoves
<1>3. track'[p] = track[p] => Current(p) BY <1>2 DEF Same, Current
<1>. QED BY <1>1, <1>2, <1>3

\* Only a look brings a pass to its plan, and p as it was seen is dirty since if
\* it has moved.
LEMMA LookKept ==
  ASSUME Types, Writers, NEW p \in Pictures, LookRight(p)
  PROVE  LookRight(p)'
<1>. SUFFICES ASSUME RunAt("plan")'
     PROVE  /\ p \in run'.look => p \in run'.scope
            /\ p \in run'.scope /\ p \notin dirty' => (p \in run'.look <=> p \in covered')
  BY DEF LookRight
<1>. USE DEF RunAt, Types, Runs
<1>1. CASE RunStarts BY <1>1 DEF RunStarts, Goto
<1>2. CASE FindDirty BY <1>2 DEF FindDirty, IdleRun
<1>3. CASE MarkRun BY <1>3 DEF MarkRun, Goto
<1>4. CASE StartBatch BY <1>4 DEF StartBatch, IdleRun
<1>5. CASE Look BY <1>5 DEF Look, pictureVars
<1>6. CASE Plan BY <1>6 DEF Plan
<1>7. CASE Announce BY <1>7 DEF Announce, Goto
<1>8. CASE AnnounceAnswered BY <1>8 DEF AnnounceAnswered
<1>9. CASE Unannounce BY <1>9 DEF Unannounce, Goto
<1>10. CASE UnannounceAnswered BY <1>10 DEF UnannounceAnswered
<1>11. CASE Settle BY <1>11 DEF Settle, IdleRun
<1>12. CASE RunDies BY <1>12 DEF RunDies, IdleRun
<1>13. CASE run' = run
  <2>1. ~Marked(p) BY <1>13 DEF Marked, MarkRun
  <2>2. Same(p) \/ p \in dirty' BY <2>1, PictureMoves DEF Dirtied
  <2>. QED BY <1>13, <2>2 DEF LookRight, Same
<1>. QED
  BY <1>1, <1>2, <1>3, <1>4, <1>5, <1>6, <1>7, <1>8, <1>9, <1>10, <1>11, <1>12, <1>13 DEF Writers, RunStep

\* A picture in a plan is not told as it is: its row is missing, lags, or has a
\* token the owner has replaced.
LEMMA PlannedStale ==
  ASSUME Types, NEW p \in Untold \cap Pictures, p \in Tracked, Current(p)
  PROVE  p \in Relayed /\ upstream[p] # track[p].token
<1>1. updated[p] \in Nat /\ track[p] # None BY DEF Types, TypeOK, Tracked
<1>. QED BY <1>1 DEF Untold, TokenMoved, Current

LEMMA SayKept ==
  ASSUME Types, OnTheWire, Writers, NEW p \in Pictures, VersionRight(p), PassRight(p),
         Alive => Held(p), Alive' => Alive
  PROVE  SayRight(p)'
<1>. SUFFICES ASSUME Saying', p \in DOMAIN run'.say
     PROVE  /\ run'.say[p].at = updated'[p] /\ p \notin dirty' =>
                 /\ p \in covered'
                 /\ run'.say[p].owner = OwnerVersion(p)'
                 /\ p \in Relayed => run'.say[p].token = upstream'[p]
            /\ p \in Tracked' /\ Current(p)' => ~Alive'
  BY DEF SayRight
<1>1. CASE Plan
  <2>1. p \in Untold /\ p \in run.look
    <3>1. p \in Untold BY <1>1, Planned
    <3>. QED BY <3>1 DEF Untold
  <2>2. run'.say[p] = [token |-> TokenFor(p), at |-> updated[p], owner |-> OwnerVersion(p)]
    BY <1>1, <2>1, Planned
  <2>3. UNCHANGED <<covered, dirty, updated, origin, upstream, track>> BY <1>1 DEF Plan, pictureVars
  <2>4. p \notin dirty => p \in covered BY <1>1, <2>1 DEF PassRight, LookRight, Plan
  <2>5. p \in Relayed => TokenFor(p) = upstream[p] BY DEF TokenFor
  <2>6. OwnerVersion(p)' = OwnerVersion(p) BY <2>3 DEF OwnerVersion
  <2>7. ASSUME p \in Tracked', Current(p)' PROVE ~Alive'
    <3>1. p \in Tracked /\ Current(p) BY <2>3, <2>7 DEF Tracked, Current
    <3>2. p \in Relayed /\ upstream[p] # track[p].token BY <2>1, <3>1, PlannedStale
    <3>. QED BY <3>1, <3>2 DEF Held
  <2>. QED BY <2>2, <2>3, <2>4, <2>5, <2>6, <2>7
<1>2. CASE Saying /\ run'.say = run.say
  <2>1. SayRight(p) /\ p \in DOMAIN run.say BY <1>2 DEF PassRight
  <2>2. run.say[p].at \in Nat /\ updated[p] \in Nat /\ run.say[p].at <= updated[p]
    BY <1>2, <2>1, SaidItems DEF VersionRight, Types, TypeOK, Item
  <2>3. /\ run'.say[p].at = updated'[p] /\ p \notin dirty' =>
             /\ p \in covered'
             /\ run'.say[p].owner = OwnerVersion(p)'
             /\ p \in Relayed => run'.say[p].token = upstream'[p]
    <3>1. CASE Same(p) BY <1>2, <2>1, <3>1 DEF Same, SayRight
    <3>2. CASE Dirtied(p) BY <3>2 DEF Dirtied
    <3>3. CASE Marked(p) BY <1>2, <3>3 DEF Marked, MarkRun, Saying, RunAt
    <3>. QED BY <3>1, <3>2, <3>3, PictureMoves
  <2>4. ASSUME p \in Tracked', Current(p)' PROVE ~Alive'
    <3>1. ~AnnounceAnswered
      <4>1. ASSUME AnnounceAnswered PROVE run'.step = "unannounce" BY <4>1 DEF AnnounceAnswered, Types, Runs
      <4>. QED BY <4>1 DEF Saying, RunAt
    <3>2. p \in Tracked /\ Current(p) BY <2>4, <3>1, CurrentBefore
    <3>. QED BY <1>2, <2>1, <3>2 DEF SayRight
  <2>. QED BY <2>3, <2>4
<1>. QED BY <1>1, <1>2, SayingBefore

LEMMA UnsayKept ==
  ASSUME Types, OnTheWire, Writers, NEW p \in Pictures, VersionRight(p), PassRight(p),
         Alive => Held(p), Alive' => Alive
  PROVE  UnsayRight(p)'
<1>. SUFFICES ASSUME Unsaying', p \in run'.unsay
     PROVE  /\ p \in covered' => p \in dirty'
            /\ p \in Tracked' /\ Current(p)' => ~Alive'
            /\ Saying' => p \notin DOMAIN run'.say
  BY DEF UnsayRight
<1>1. CASE Plan
  <2>1. p \in Tracked /\ p \in run.scope /\ p \notin run.look BY <1>1, Planned
  <2>2. UNCHANGED <<covered, dirty, updated, track>> BY <1>1 DEF Plan, pictureVars
  <2>3. p \in covered => p \in dirty BY <1>1, <2>1 DEF PassRight, LookRight, Plan
  <2>4. p \notin DOMAIN run'.say
    <3>1. p \notin Untold BY <2>1 DEF Untold
    <3>. QED BY <1>1, <3>1, Planned
  <2>5. ASSUME p \in Tracked', Current(p)' PROVE ~Alive'
    <3>1. p \in Tracked /\ Current(p) BY <2>2, <2>5 DEF Tracked, Current
    <3>. QED BY <2>3, <3>1 DEF Held, Current
  <2>. QED BY <2>2, <2>3, <2>4, <2>5
<1>2. CASE ~Plan /\ Unsaying /\ run'.unsay = run.unsay
  <2>1. UnsayRight(p) /\ p \in run.unsay BY <1>2 DEF PassRight
  <2>2. p \in covered' => p \in dirty'
    <3>1. CASE Same(p) BY <1>2, <2>1, <3>1 DEF Same, UnsayRight
    <3>2. CASE Dirtied(p) BY <3>2 DEF Dirtied
    <3>3. CASE Marked(p) BY <1>2, <3>3 DEF Marked, MarkRun, Unsaying, Saying, RunAt
    <3>. QED BY <3>1, <3>2, <3>3, PictureMoves
  <2>3. ASSUME Saying' PROVE p \notin DOMAIN run'.say
    <3>1. Saying /\ run'.say = run.say BY <1>2, <2>3, SayingBefore
    <3>. QED BY <1>2, <2>1, <3>1 DEF UnsayRight
  <2>4. ASSUME p \in Tracked', Current(p)' PROVE ~Alive'
    <3>1. ~(AnnounceAnswered /\ p \in DOMAIN run.say)
      BY <1>2, <2>1 DEF AnnounceAnswered, UnsayRight, Saying
    <3>2. p \in Tracked /\ Current(p) BY <2>4, <3>1, CurrentBefore
    <3>. QED BY <1>2, <2>1, <3>2 DEF UnsayRight
  <2>. QED BY <2>2, <2>3, <2>4
<1>. QED BY <1>1, <1>2, UnsayingBefore

-----------------------------------------------------------------------------
(* What the two ends hold of a picture *)

\* Under a live share neither the rows nor the copies are dropped.
LEMMA NothingDropped ==
  ASSUME Types, Calls, Alive, Alive'
  PROVE  ~DropTokens /\ ~CleanUp
<1>1. ~DropTokens BY DropsWhenDead DEF Alive
<1>2. ~CleanUp
  <2>1. ASSUME CleanUp PROVE inc' \in Dead BY <2>1 DEF CleanUp, RevokeReceived, RejectLeaves, Dead
  <2>. QED BY <2>1 DEF Alive
<1>. QED BY <1>1, <1>2

LEMMA HeldKept ==
  ASSUME Types, Calls, OnTheWire, Writers, NEW p \in Pictures \ crossed, VersionRight(p), PassRight(p),
         Held(p), Answered(p), Alive, Alive'
  PROVE  Held(p)'
<1>. SUFFICES ASSUME p \in Tracked', Current(p)'
     PROVE  /\ p \in covered'
            /\ theirs'[p] = [token |-> track'[p].token, owner |-> OwnerVersion(p)']
            /\ p \in Relayed => track'[p].token = upstream'[p]
  BY DEF Held
<1>1. Same(p) BY CurrentBefore
<1>2. CASE p \in Tracked /\ Current(p) /\ track'[p] = track[p]
  <2>1. /\ p \in covered
        /\ theirs[p] = [token |-> track[p].token, owner |-> OwnerVersion(p)]
        /\ p \in Relayed => track[p].token = upstream[p]
    BY <1>2 DEF Held
  <2>2. theirs'[p] = theirs[p]
    <3>1. ~(RunAt("announcing") /\ p \in DOMAIN run.say) BY <1>2 DEF PassRight, SayRight, Saying
    <3>2. ~(RunAt("unannouncing") /\ p \in run.unsay) BY <1>2 DEF PassRight, UnsayRight, Unsaying
    <3>. QED BY <3>1, <3>2, CopyMoves, NothingDropped
  <2>. QED BY <1>1, <1>2, <2>1, <2>2 DEF Same
<1>3. CASE /\ AnnounceAnswered /\ Delivered /\ p \in DOMAIN run.say
           /\ track'[p] = [token |-> run.say[p].token, at |-> run.say[p].at]
  <2>1. Saying /\ RunAt("announcing") /\ theirs' = theirs BY <1>3 DEF AnnounceAnswered, Saying
  <2>2. req.say = run.say /\ req.stage = "done" BY <1>3, <2>1 DEF OnTheWire, Wire, Delivered
  <2>3. theirs[p] = [token |-> run.say[p].token, owner |-> run.say[p].owner] BY <1>3, <2>2 DEF Answered
  <2>4. run.say[p].at = updated[p] /\ p \notin dirty BY <1>1, <1>3 DEF Current, Same
  <2>5. /\ p \in covered /\ run.say[p].owner = OwnerVersion(p)
        /\ p \in Relayed => run.say[p].token = upstream[p]
    BY <1>3, <2>1, <2>4 DEF PassRight, SayRight
  <2>. QED BY <1>1, <1>3, <2>1, <2>3, <2>5 DEF Same
<1>. QED BY <1>2, <1>3, CurrentBefore

\* A request is through only by being handled.
LEMMA DoneBefore ==
  ASSUME Types, OnTheWire, Writers, req'.stage = "done"
  PROVE  \/ req' = req
         \/ /\ req \in Arrived /\ Handle(req) /\ ~CheckShare(req)
            /\ req'.say = req.say /\ req'.unsay = req.unsay
<1>1. CASE Announce BY <1>1 DEF Announce, Post
<1>2. CASE Unannounce BY <1>2 DEF Unannounce, Post
<1>3. CASE Answer BY <1>3 DEF Answer, AnnounceAnswered, UnannounceAnswered, NoReq
<1>4. ASSUME NEW r \in Arrived, Handle(r)
      PROVE  req' = req \/ (r = req /\ ~CheckShare(r) /\ req'.say = req.say /\ req'.unsay = req.unsay)
  <2>1. PICK stage \in {"checked", "done", "refused"} : Advance(r, stage) BY <1>4, Handled
  <2>2. CASE r # req BY <2>1, <2>2, Advanced
  <2>3. CASE r = req
    <3>1. req' = [req EXCEPT !.stage = stage] BY <2>1, <2>3, Advanced
    <3>2. req'.say = req.say /\ req'.unsay = req.unsay BY <3>1 DEF Types, Requests
    <3>3. ASSUME CheckShare(r) PROVE FALSE
      <4>1. PICK s \in {"checked", "refused"} : Advance(r, s) BY <3>3 DEF CheckShare
      <4>2. req' = [req EXCEPT !.stage = s] BY <2>3, <4>1, Advanced
      <4>. QED BY <4>2 DEF Types, Requests
    <3>. QED BY <2>3, <3>2, <3>3
  <2>. QED BY <2>2, <2>3
<1>5. CASE Lose \/ LoseAnswer \/ Repost \/ GiveUp
  BY <1>5 DEF Lose, LoseAnswer, Repost, GiveUp, Types, Requests
<1>6. CASE RunDies BY <1>6 DEF RunDies, NoReq
<1>7. CASE UNCHANGED <<req, late>> BY <1>7
<1>. QED BY <1>1, <1>2, <1>3, <1>4, <1>5, <1>6, <1>7 DEF Writers, RequestFault

LEMMA AnsweredKept ==
  ASSUME Types, Calls, OnTheWire, Writers, NEW p \in Pictures \ crossed, VersionRight(p), Answered(p), Alive, Alive'
  PROVE  Answered(p)'
<1>. SUFFICES ASSUME req'.stage = "done"
     PROVE  /\ p \in DOMAIN req'.say =>
                 theirs'[p] = [token |-> req'.say[p].token, owner |-> req'.say[p].owner]
            /\ p \in req'.unsay => theirs'[p] = None
  BY DEF Answered
<1>1. CASE req' = req
  <2>1. req \notin Arrived BY <1>1 DEF Arrived
  <2>2. theirs'[p] = theirs[p] BY <2>1, CopyMoves, NothingDropped
  <2>. QED BY <1>1, <2>2 DEF Answered
<1>2. CASE req \in Arrived /\ Register(req) /\ req'.say = req.say /\ req'.unsay = req.unsay
  <2>1. req.stage = "checked" BY <1>2 DEF Register
  <2>2. RunAt("announcing") /\ req.say = run.say /\ req.unsay = {} BY <2>1, Waiting DEF OnTheWire, Wire
  <2>3. ASSUME p \in DOMAIN req.say
        PROVE  theirs'[p] = [token |-> req.say[p].token, owner |-> req.say[p].owner]
    <3>1. p \in Told => theirs[p].owner <= req.say[p].owner /\ theirs[p].owner \in Nat
      BY <2>2, <2>3 DEF VersionRight, Saying, Types, TypeOK, Told, Copy
    <3>2. req.say[p].owner \in Nat BY <2>3, SaidItems DEF Types, Item
    <3>3. ~Outdated(p, req.say[p]) BY <3>1, <3>2 DEF Outdated, Told
    <3>. QED BY <1>2, <2>3, <3>3 DEF Register
  <2>. QED BY <1>2, <2>2, <2>3
<1>3. CASE req \in Arrived /\ Unregister(req) /\ req'.say = req.say /\ req'.unsay = req.unsay
  <2>1. req.kind = "unannounce" BY <1>3 DEF Unregister
  <2>2. DOMAIN req.say = {} BY <2>1 DEF OnTheWire, Wire, NoReq
  <2>3. p \in req.unsay => theirs'[p] = None BY <1>3 DEF Unregister
  <2>. QED BY <1>3, <2>2, <2>3
<1>. QED BY <1>1, <1>2, <1>3, DoneBefore DEF Handle

\* Only an answer clears a picture told unheard, and only evaluating it again
\* one that a dead run has forgotten.
LEMMA HistoryGrows ==
  ASSUME [Next]_vars
  PROVE  /\ AnnounceAnswered \/ ghosts \subseteq ghosts'
         /\ MarkRun \/ forgotten \subseteq forgotten'
<1>. DEFINE Kept == UNCHANGED <<ghosts, forgotten>>
<1>1. ASSUME NEW r \in Arrived, Handle(r) PROVE Kept
  <2>1. CASE CheckShare(r) \/ Unregister(r) BY <2>1 DEF CheckShare, Unregister, history
  <2>2. CASE Register(r) BY <2>2 DEF Register
  <2>. QED BY <1>1, <2>1, <2>2 DEF Handle
<1>2. ASSUME RequestFault PROVE ghosts \subseteq ghosts' /\ forgotten \subseteq forgotten'
  BY <1>2 DEF RequestFault, Lose, LoseAnswer, Repost, GiveUp, RunDies, history
<1>3. ASSUME NEW q \in Pictures, Retag(q) \/ Edit(q) \/ ArrivesAgain(q) PROVE Kept
  BY <1>3 DEF Retag, Edit, ArrivesAgain, history
<1>4. ASSUME Sweep PROVE Kept BY <1>4 DEF Sweep, history
<1>5. ASSUME RunStarts \/ FindDirty \/ StartBatch \/ Look \/ Plan PROVE Kept
  BY <1>5 DEF RunStarts, FindDirty, StartBatch, Look, Plan, history
<1>6. ASSUME Announce \/ Unannounce \/ UnannounceAnswered PROVE Kept
  BY <1>6 DEF Announce, Unannounce, UnannounceAnswered, history
<1>7. ASSUME Settle PROVE Kept BY <1>7 DEF Settle
<1>8. ASSUME MarkRun PROVE ghosts' = ghosts BY <1>8 DEF MarkRun
<1>9. ASSUME AnnounceAnswered PROVE forgotten' = forgotten BY <1>9 DEF AnnounceAnswered
<1>10. ASSUME StatusCall \/ DropTokens \/ CleanUp PROVE Kept BY <1>10 DEF StatusCall, DropTokens, CleanUp, history
<1>11. ASSUME StaleCall PROVE Kept BY <1>11 DEF StaleCall
<1>12. ASSUME NEW op \in DOMAIN AllIdle, CallFails(op) PROVE Kept BY <1>12 DEF CallFails
<1>13. ASSUME UNCHANGED vars PROVE Kept BY <1>13 DEF vars, history
<1>. QED
  BY <1>1, <1>2, <1>3, <1>4, <1>5, <1>6, <1>7, <1>8, <1>9, <1>10, <1>11, <1>12, <1>13
  DEF Next, RunStep, CallStep, RequestFault

\* The end of a run or a fault that makes a request unheard owns up to it.
LEMMA OnRecordKept ==
  ASSUME Types, Calls, OnTheWire, [Next]_vars, NEW p \in Pictures \ crossed, Answered(p), OnRecord(p), Alive, Alive'
  PROVE  OnRecord(p)'
<1>. DEFINE Done == req.stage = "done" /\ p \in DOMAIN req.say
<1>. SUFFICES ASSUME p \in Told', p \notin ghosts'
     PROVE  p \in Tracked' \/ (req'.stage = "done" /\ p \in DOMAIN req'.say)
  BY DEF OnRecord
<1>0. Writers /\ ~DropTokens /\ ~CleanUp BY WritersOf, NothingDropped
<1>1. CASE AnnounceAnswered
  <2>1. theirs' = theirs /\ ghosts' = (IF Delivered THEN ghosts \ DOMAIN run.say ELSE ghosts)
        /\ req.say = run.say
    BY <1>1 DEF AnnounceAnswered, OnTheWire, Wire
  <2>2. CASE Delivered /\ p \in DOMAIN run.say
    <3>1. track'[p] = [token |-> run.say[p].token, at |-> run.say[p].at] BY <1>1, <2>2 DEF AnnounceAnswered
    <3>2. track'[p] # None
      <4>1. run.say[p] \in Item BY <2>2, SaidItems DEF Types
      <4>. QED BY <3>1, <4>1, DeliveryAssumption DEF Item, Row
    <3>. QED BY <3>2 DEF Tracked
  <2>3. CASE ~(Delivered /\ p \in DOMAIN run.say)
    <3>1. p \in Told \ ghosts /\ ~Done BY <2>1, <2>3 DEF Told, Delivered
    <3>2. track'[p] = track[p] BY <1>1, <2>3 DEF AnnounceAnswered
    <3>. QED BY <3>1, <3>2 DEF OnRecord, Tracked
  <2>. QED BY <2>2, <2>3
<1>2. CASE UnannounceAnswered
  <2>1. theirs' = theirs /\ ghosts' = ghosts /\ DOMAIN req.say = {} /\ req.unsay = run.unsay
    BY <1>2 DEF UnannounceAnswered, history, OnTheWire, Wire
  <2>2. p \in Told \ ghosts /\ p \in Tracked BY <2>1 DEF OnRecord, Told
  <2>3. ~(Delivered /\ p \in run.unsay) BY <2>1, <2>2 DEF Answered, Told, Delivered
  <2>4. track'[p] = track[p] BY <1>2, <2>3 DEF UnannounceAnswered
  <2>. QED BY <2>2, <2>4 DEF Tracked
<1>3. CASE ~Answer
  <2>1. track'[p] = track[p] BY <1>0, <1>3 DEF Writers
  <2>2. ASSUME p \in Tracked PROVE p \in Tracked' BY <2>1, <2>2 DEF Tracked
  <2>3. CASE req \in Arrived /\ Register(req) /\ theirs'[p] # theirs[p]
    <3>1. p \in DOMAIN req.say BY <2>3 DEF Register
    <3>2. Advance(req, "done") BY <2>3 DEF Register
    <3>3. req' = [req EXCEPT !.stage = "done"] BY <2>3, <3>2, Advanced
    <3>4. req'.stage = "done" /\ req'.say = req.say BY <3>3 DEF Types, Requests
    <3>. QED BY <3>1, <3>4
  <2>4. CASE theirs'[p] = theirs[p]
    <3>0. p \in Told BY <2>4 DEF Told
    <3>1. CASE Done
      <4>1. req.stage = "done" /\ p \in DOMAIN req.say BY <3>1
      <4>2. RunAt("announcing") \/ RunAt("unannouncing") BY <4>1, Waiting
      <4>3. ASSUME Announce \/ Unannounce PROVE FALSE BY <4>2, <4>3 DEF Announce, Unannounce, RunAt
      <4>4. ASSUME NEW r \in Arrived, Handle(r) PROVE req' = req
        <5>1. r # req BY <4>1 DEF Arrived
        <5>2. PICK stage \in {"checked", "done", "refused"} : Advance(r, stage) BY <4>4, Handled
        <5>. QED BY <5>1, <5>2, Advanced
      <4>5. ASSUME LoseAnswer \/ Repost \/ RunDies PROVE p \in ghosts'
        BY <4>1, <4>5 DEF LoseAnswer, Repost, RunDies
      <4>6. ASSUME Lose \/ GiveUp PROVE FALSE BY <4>1, <4>6 DEF Lose, GiveUp
      <4>7. req' = req BY <1>0, <1>3, <4>3, <4>4, <4>5, <4>6 DEF Writers, RequestFault
      <4>. QED BY <4>1, <4>7
    <3>2. CASE ~Done
      <4>1. p \notin ghosts => p \in Tracked BY <3>0, <3>2 DEF OnRecord
      <4>2. ghosts \subseteq ghosts' BY <1>3, HistoryGrows DEF Answer
      <4>. QED BY <2>2, <4>1, <4>2
    <3>. QED BY <3>1, <3>2
  <2>5. theirs'[p] # None BY DEF Told
  <2>. QED BY <1>0, <2>3, <2>4, <2>5, CopyMoves
<1>. QED BY <1>1, <1>2, <1>3 DEF Answer

\* Who is neither told nor dirty was so before, unless it has just been marked.
LEMMA OutstandingBefore ==
  ASSUME Types, Writers, [Next]_vars, NEW p \in Pictures, PassRight(p),
         ~DropTokens, ~MarkRun, p \in covered' \ Tracked', p \notin dirty'
  PROVE  /\ p \in covered /\ p \notin dirty /\ p \notin Tracked
         /\ forgotten \subseteq forgotten'
<1>1. Same(p) BY PictureMoves DEF Dirtied, Marked
<1>2. p \in covered /\ p \notin dirty BY <1>1 DEF Same
<1>3. ~(UnannounceAnswered /\ p \in run.unsay)
  BY <1>2 DEF PassRight, UnsayRight, UnannounceAnswered, Unsaying
<1>4. p \notin Tracked
  <2>1. CASE track'[p] = track[p] BY <2>1 DEF Tracked
  <2>2. CASE AnnounceAnswered /\ Delivered /\ p \in DOMAIN run.say /\ track'[p] = [token |-> run.say[p].token, at |-> run.say[p].at]
    <3>1. run.say[p] \in Item BY <2>2, SaidItems DEF Types
    <3>2. track'[p] # None BY <2>2, <3>1, DeliveryAssumption DEF Item, Row
    <3>. QED BY <3>2 DEF Tracked
  <2>. QED BY <1>3, <2>1, <2>2, RowMoves
<1>. QED BY <1>2, <1>4, HistoryGrows

LEMMA InHandsKept ==
  ASSUME Types, Writers, OnTheWire, [Next]_vars, NEW p \in Pictures, PassRight(p), InHands(p), ~DropTokens
  PROVE  InHands(p)'
<1>. SUFFICES ASSUME future, p \in covered' \ Tracked', run'.step \in Passing, p \in run'.scope, p \notin dirty'
     PROVE  \/ RunAt("look")'
            \/ RunAt("plan")' /\ p \in run'.look
            \/ Saying' /\ p \in DOMAIN run'.say
            \/ run'.step \in {"unannounce", "unannouncing", "settle"} /\ ~run'.ok
  BY DEF InHands, Writers
<1>. USE DEF Types, Runs, RunAt
<1>0. ~MarkRun
  <2>1. ASSUME MarkRun PROVE run'.step = "batch" BY <2>1 DEF MarkRun, Goto
  <2>. QED BY <2>1 DEF Passing
<1>1. /\ p \in covered /\ p \notin dirty /\ p \notin Tracked
  BY <1>0, OutstandingBefore
<1>2. CASE RunStarts BY <1>2 DEF RunStarts, Goto, Passing
<1>3. CASE FindDirty BY <1>3 DEF FindDirty, IdleRun, Passing
<1>4. CASE StartBatch BY <1>4 DEF StartBatch, IdleRun, Passing
<1>5. CASE Look BY <1>1, <1>5 DEF Look
<1>6. CASE Plan
  <2>1. run.step = "plan" /\ p \in run.scope BY <1>6, Planned DEF Plan
  <2>2. p \in run.look BY <1>1, <2>1 DEF PassRight, LookRight
  <2>3. p \in Untold BY <1>1, <2>2 DEF Untold, AnnounceNew, Tracked
  <2>. QED BY <1>6, <2>3, Planned DEF Saying
<1>7. CASE Announce
  <2>1. run.step = "announce" /\ run'.scope = run.scope /\ run'.say = run.say
    BY <1>7 DEF Announce, Goto
  <2>2. p \in DOMAIN run.say BY <1>1, <2>1 DEF InHands, Passing, Saying
  <2>3. run'.step = "announcing" BY <1>7, <2>2 DEF Announce, Goto
  <2>. QED BY <2>1, <2>2, <2>3 DEF Saying
<1>8. CASE AnnounceAnswered
  <2>1. run.step = "announcing" /\ run'.scope = run.scope /\ run'.step = "unannounce" /\ run'.ok = Delivered
    BY <1>8 DEF AnnounceAnswered
  <2>2. p \in DOMAIN run.say BY <1>1, <2>1 DEF InHands, Passing, Saying
  <2>3. ~Delivered
    <3>1. ASSUME Delivered PROVE track'[p] = [token |-> run.say[p].token, at |-> run.say[p].at]
      BY <1>8, <2>2, <3>1 DEF AnnounceAnswered
    <3>2. run.say[p] \in Item BY <2>2, SaidItems
    <3>. QED BY <3>1, <3>2, DeliveryAssumption DEF Tracked, Item, Row
  <2>. QED BY <2>1, <2>3
<1>9. CASE Unannounce
  <2>1. run.step = "unannounce" /\ run'.scope = run.scope /\ run'.ok = run.ok /\ run'.step \in {"unannouncing", "settle"}
    BY <1>9 DEF Unannounce, Goto
  <2>2. ~run.ok BY <1>1, <2>1 DEF InHands, Passing, Saying
  <2>. QED BY <2>1, <2>2
<1>10. CASE UnannounceAnswered
  <2>1. run.step = "unannouncing" /\ run'.scope = run.scope /\ run'.step = "settle" /\ run'.ok = (run.ok /\ Delivered)
    BY <1>10 DEF UnannounceAnswered
  <2>2. ~run.ok BY <1>1, <2>1 DEF InHands, Passing, Saying
  <2>. QED BY <2>1, <2>2
<1>11. CASE Settle BY <1>11 DEF Settle, IdleRun, Passing
<1>12. CASE RunDies BY <1>12 DEF RunDies, IdleRun, Passing
<1>13. CASE run' = run BY <1>1, <1>13 DEF InHands, Saying
<1>. QED
  BY <1>0, <1>2, <1>3, <1>4, <1>5, <1>6, <1>7, <1>8, <1>9, <1>10, <1>11, <1>12, <1>13 DEF Writers, RunStep

LEMMA DueKept ==
  ASSUME Types, Calls, OnTheWire, Passes, Writers, StatusStep, Remembers, [Next]_vars,
         NEW p \in Pictures, PassRight(p), Due(p), InHands(p), Alive, Alive'
  PROVE  Due(p)'
<1>. SUFFICES ASSUME future, p \in covered' \ (forgotten' \cup Tracked'), p \notin dirty', out' = "active"
     PROVE  \/ RunAt("batch")' /\ p \in run'.todo
            \/ run'.step \in Passing /\ p \in run'.scope
  BY DEF Due, Writers
<1>. USE DEF RunAt
<1>0. ~DropTokens BY NothingDropped
<1>1. CASE MarkRun
  <2>1. run'.step = "batch" /\ run'.todo = run.todo BY <1>1 DEF MarkRun, Goto, Types, Runs
  <2>2. CASE p \in run.todo BY <2>1, <2>2
  <2>3. CASE p \notin run.todo
    <3>1. p \in covered \ (forgotten \cup Tracked) /\ p \notin dirty BY <1>1, <2>3 DEF MarkRun, Tracked
    <3>2. out = "active" /\ run.step = "mark" BY <1>1 DEF MarkRun, shareVars
    <3>. QED BY <3>1, <3>2 DEF Due, Passing
  <2>. QED BY <2>2, <2>3
<1>2. ASSUME ~MarkRun
      PROVE  /\ p \in covered \ (forgotten \cup Tracked) /\ p \notin dirty
             /\ \/ out # "active"
                \/ run.step = "batch" /\ p \in run.todo
                \/ run.step \in Passing /\ p \in run.scope
  BY <1>0, <1>2, OutstandingBefore DEF Due
<1>3. out = "active" \/ (RunAt("settle") /\ run'.step \notin Passing)
  <2>1. ShareTypeOK BY DEF Types, TypeOK
  <2>. QED BY <2>1, AliveBefore
<1>4. CASE Settle
  <2>0. ~MarkRun /\ run.step = "settle" BY <1>4 DEF MarkRun, Settle
  <2>1. ASSUME p \in run.scope PROVE FALSE
    <3>1. ~run.ok BY <1>2, <2>0, <2>1 DEF InHands, Passing, Saying
    <3>2. PassFails(run.seen) BY <1>4, <3>1 DEF Settle
    <3>3. run.seen # "active" /\ out = "active" BY <3>2 DEF PassFails
    <3>. QED BY <2>0, <3>3 DEF Passes, Passing, Alive, Awaiting, Dead
  <2>2. out # "active" BY <1>2, <2>0, <2>1 DEF Passing
  <2>3. run.seen \in Awaiting BY <1>4, <2>2 DEF Settle, PassSucceeds, PassFails
  <2>4. run.scope = Pictures BY <2>0, <2>3 DEF Passes, Passing, Awaiting
  <2>. QED BY <2>1, <2>4
<1>5. CASE RunDies
  <2>0. ~MarkRun BY <1>5 DEF RunDies, MarkRun, Goto, IdleRun, Types, Runs
  <2>1. out = "active" BY <1>5 DEF RunDies, shareVars
  <2>2. CASE run.step = "batch" /\ p \in run.todo
    BY <1>2, <1>5, <2>0, <2>2 DEF RunDies
  <2>3. CASE run.step \in Passing /\ p \in run.scope
    <3>1. run.scope = run.todo
      BY <2>1, <2>3 DEF Passes, Alive, Awaiting, Dead
    <3>. QED BY <1>2, <1>5, <2>0, <2>3, <3>1 DEF RunDies, Passing
  <2>. QED BY <1>2, <2>0, <2>1, <2>2, <2>3
<1>6. CASE RunStep /\ ~MarkRun /\ ~Settle
  <2>. USE DEF Types, Runs
  <2>0. /\ out = "active"
        /\ \/ run.step = "batch" /\ p \in run.todo
           \/ run.step \in Passing /\ p \in run.scope
    <3>1. out' = out
      BY <1>6 DEF RunStep, RunStarts, FindDirty, StartBatch, Look, Plan, Announce, AnnounceAnswered,
                  Unannounce, UnannounceAnswered, shareVars
    <3>2. out = "active" /\ ~MarkRun BY <1>6, <3>1
    <3>. QED BY <1>2, <3>2
  <2>1. CASE RunStarts BY <2>0, <2>1 DEF RunStarts, Passing
  <2>2. CASE FindDirty BY <2>0, <2>2 DEF FindDirty, Passing
  <2>3. CASE StartBatch
    <3>1. run' = [run EXCEPT !.step = "look", !.seen = out, !.scope = run.todo] BY <2>0, <2>3 DEF StartBatch
    <3>2. p \in run.todo BY <2>0, <2>3 DEF StartBatch, Passing
    <3>. QED BY <3>1, <3>2 DEF Passing
  <2>4. CASE Look BY <2>0, <2>4 DEF Look, Passing
  <2>5. CASE Plan BY <2>0, <2>5, Planned DEF Plan, Passing
  <2>6. CASE Announce BY <2>0, <2>6 DEF Announce, Goto, Passing
  <2>7. CASE AnnounceAnswered BY <2>0, <2>7 DEF AnnounceAnswered, Passing
  <2>8. CASE Unannounce BY <2>0, <2>8 DEF Unannounce, Goto, Passing
  <2>9. CASE UnannounceAnswered BY <2>0, <2>9 DEF UnannounceAnswered, Passing
  <2>. QED BY <1>6, <2>1, <2>2, <2>3, <2>4, <2>5, <2>6, <2>7, <2>8, <2>9 DEF RunStep
<1>7. CASE run' = run
  <2>1. ~MarkRun BY <1>7 DEF MarkRun, Goto, Types, Runs
  <2>2. out = "active" BY <1>3, <1>7 DEF Passing
  <2>. QED BY <1>2, <1>7, <2>1, <2>2
<1>. QED BY <1>1, <1>4, <1>5, <1>6, <1>7 DEF Writers

LEMMA DeliveryKept ==
  ASSUME Types, StatusInv, PassInv, Versions, Delivery, [Next]_vars
  PROVE  Versions' /\ Delivery'
<1>1. Writers /\ StatusStep /\ Remembers BY WritersOf, StatusStepOf
<1>2. ShareTypeOK /\ Calls /\ OnTheWire /\ Passes BY DEF Types, TypeOK, StatusInv, PassInv
<1>3. Versions'
  <2>. SUFFICES ASSUME NEW p \in Pictures PROVE VersionRight(p)'
    BY DEF Versions
  <2>1. VersionRight(p) BY DEF Versions
  <2>. QED BY <1>1, <1>2, <2>1, VersionKept
<1>4. Alive' => Alive BY <1>1, <1>2, AliveBefore
<1>5. ASSUME NEW p \in Pictures \ crossed'
      PROVE  PassRight(p)' /\ (Alive' => EndsRight(p)')
  <2>1. p \in Pictures \ crossed BY <1>1 DEF Remembers
  <2>2. VersionRight(p) /\ PassRight(p) BY <2>1 DEF Versions, Delivery
  <2>3. Alive => Held(p) /\ Answered(p) /\ OnRecord(p) /\ Due(p) /\ InHands(p)
    BY <2>1 DEF Delivery, EndsRight
  <2>4. LookRight(p)' BY <1>1, <2>1, <2>2, LookKept DEF PassRight
  <2>5. SayRight(p)' BY <1>1, <1>2, <1>4, <2>1, <2>2, <2>3, SayKept
  <2>6. UnsayRight(p)' BY <1>1, <1>2, <1>4, <2>1, <2>2, <2>3, UnsayKept
  <2>7. ASSUME Alive' PROVE EndsRight(p)'
    <3>1. Alive /\ Held(p) /\ Answered(p) /\ OnRecord(p) /\ Due(p) /\ InHands(p) BY <1>4, <2>3, <2>7
    <3>2. Held(p)' BY <1>1, <1>2, <2>1, <2>2, <2>7, <3>1, HeldKept
    <3>3. Answered(p)' BY <1>1, <1>2, <2>1, <2>2, <2>7, <3>1, AnsweredKept
    <3>4. OnRecord(p)' BY <1>2, <2>1, <2>7, <3>1, OnRecordKept
    <3>5. Due(p)' BY <1>1, <1>2, <2>1, <2>2, <2>7, <3>1, DueKept
    <3>6. InHands(p)'
      <4>1. ~DropTokens BY <1>2, <2>7, <3>1, NothingDropped
      <4>. QED BY <1>1, <1>2, <2>1, <2>2, <3>1, <4>1, InHandsKept
    <3>. QED BY <3>2, <3>3, <3>4, <3>5, <3>6 DEF EndsRight
  <2>. QED BY <2>4, <2>5, <2>6, <2>7 DEF PassRight
<1>. QED BY <1>3, <1>5 DEF Delivery

LEMMA DeliveryBegins ==
  ASSUME Init
  PROVE  Versions /\ Delivery
<1>1. run = IdleRun /\ ~RunAt("plan") /\ ~Saying /\ ~Unsaying /\ run.step \notin Passing
  BY DEF Init, IdleRun, RunAt, Saying, Unsaying, Passing
<1>2. Tracked = {} /\ Told = {} /\ late = {} /\ covered = {} /\ req.stage = "none"
  BY DEF Init, Tracked, Told, NoReq
<1>3. Versions BY <1>1, <1>2 DEF Versions, VersionRight
<1>4. ASSUME NEW p \in Pictures PROVE PassRight(p) /\ EndsRight(p)
  <2>1. PassRight(p) BY <1>1 DEF PassRight, LookRight, SayRight, UnsayRight
  <2>2. EndsRight(p) BY <1>1, <1>2 DEF EndsRight, Held, Answered, OnRecord, Due, InHands
  <2>. QED BY <2>1, <2>2
<1>. QED BY <1>3, <1>4 DEF Delivery

LEMMA DeliveryHolds == Spec => [](Types /\ PassInv /\ Versions /\ Delivery)
<1>1. Types /\ StatusInv /\ PassInv /\ Versions /\ Delivery /\ [Next]_vars => Versions' /\ Delivery'
  BY DeliveryKept
<1>. QED BY <1>1, DeliveryBegins, TypesHold, StatusesHold, PassesHold, PTL DEF Spec

\* Once nothing is left for the pipeline, the handlers and the sweep to do, every
\* announced picture is still covered and the recipient holds its newest version
\* under the very token the sender will honour; only a request handled late can
\* have left another.
THEOREM DeliveryMirrors == Spec => []Mirrored
<1>1. ASSUME Types, PassInv, Versions, Delivery PROVE Mirrored
  <2>. SUFFICES ASSUME Quiescent, NEW p \in Tracked \ crossed
       PROVE  p \in covered /\ theirs[p] = [token |-> track[p].token, owner |-> OwnerVersion(p)]
    BY DEF Mirrored
  <2>1. p \in Pictures \ crossed BY DEF Tracked
  <2>2. Alive BY DEF Quiescent, Alive, Dead
  <2>3. Held(p) BY <1>1, <2>1, <2>2 DEF Delivery, EndsRight
  <2>4. track[p].at = updated[p]
    <3>1. ~(track[p].at < updated[p]) BY DEF Quiescent, Lagging, Dead
    <3>2. track[p].at <= updated[p] BY <1>1, <2>1 DEF Versions, VersionRight
    <3>3. track[p].at \in Nat /\ updated[p] \in Nat BY <1>1, <2>1 DEF Types, TypeOK, Tracked, Row
    <3>. QED BY <3>1, <3>2, <3>3
  <2>5. Current(p) BY <2>4 DEF Current, Quiescent
  <2>. QED BY <2>3, <2>5 DEF Held
<1>. QED BY <1>1, DeliveryHolds, PTL

\* Then too the recipient keeps no picture the share does not cover, except one of
\* a request whose answer was lost or late; and a share that takes new pictures
\* has announced every covered one, except those a run had marked when it died.
THEOREM DeliveryCovers == Spec => []ToldIsCovered
<1>1. ASSUME Types, PassInv, Versions, Delivery PROVE ToldIsCovered
  <2>. SUFFICES ASSUME Quiescent
       PROVE  /\ Told \ (ghosts \cup crossed) \subseteq covered
              /\ future => covered \ (crossed \cup forgotten) \subseteq Tracked
    BY DEF ToldIsCovered
  <2>1. Alive /\ dirty = {} /\ out = "active" /\ run.step = "idle"
    BY DEF Quiescent, Alive, Dead, RunAt
  <2>2. ASSUME NEW p \in Told \ (ghosts \cup crossed) PROVE p \in covered
    <3>1. p \in Pictures \ crossed BY DEF Told
    <3>2. Held(p) /\ OnRecord(p) BY <1>1, <2>1, <3>1 DEF Delivery, EndsRight
    <3>3. req.stage # "done" BY <1>1, <2>1 DEF PassInv, OnTheWire, Wire, RunAt, NoReq
    <3>4. p \in Tracked BY <3>2, <3>3 DEF OnRecord
    <3>5. track[p].at = updated[p]
      <4>1. ~(track[p].at < updated[p]) BY <3>4 DEF Quiescent, Lagging, Dead
      <4>2. track[p].at <= updated[p] BY <1>1, <3>1, <3>4 DEF Versions, VersionRight
      <4>3. track[p].at \in Nat /\ updated[p] \in Nat BY <1>1, <3>1, <3>4 DEF Types, TypeOK, Tracked, Row
      <4>. QED BY <4>1, <4>2, <4>3
    <3>. QED BY <2>1, <3>2, <3>4, <3>5 DEF Held, Current
  <2>3. ASSUME future, NEW p \in covered \ (crossed \cup forgotten), p \notin Tracked PROVE FALSE
    <3>1. p \in Pictures \ crossed BY <1>1 DEF Types, TypeOK
    <3>2. Due(p) BY <1>1, <2>1, <3>1 DEF Delivery, EndsRight
    <3>. QED BY <2>1, <2>3, <3>2 DEF Due, RunAt, Passing
  <2>. QED BY <2>2, <2>3
<1>. QED BY <1>1, DeliveryHolds, PTL
=============================================================================
