--------------------------- MODULE StorehouseProofs ---------------------------
(***************************************************************************)
(* Proofs about components of the storehouse, each for any value of its       *)
(* constants.  What instances rely on when they deal with one another: the     *)
(* types and PeersReached of FederationTokens.  The resolver: the types and     *)
(* DirectoryHolds of Registry.  A received picture: the types and              *)
(* LayersResolve of ReceivedExif.  A public share: the types and               *)
(* AlbumEndsClean of PublicShares.                                             *)
(***************************************************************************)
EXTENDS FederationTokens, Registry, ReceivedExif, PublicShares, FiniteSetTheorems, WellFoundedInduction, TLAPS

(* A set of naturals has a least element. *)
LEMMA LeastNatural ==
    ASSUME NEW S \in SUBSET Nat, S # {}
    PROVE  \E m \in S : \A n \in S : m <= n
<1>1. PICK m \in S : \A n \in S : ~(<<n, m>> \in OpToRel(<, Nat))
  BY NatLessThanWellFounded, WFMin
<1>2. \A n \in S : ~(n < m) BY <1>1 DEF OpToRel
<1>3. ASSUME NEW n \in S PROVE m <= n
  <2>1. n \in Nat /\ m \in Nat /\ ~(n < m) BY <1>2
  <2> QED BY <2>1
<1> QED BY <1>3
-----------------------------------------------------------------------------
(* Types of handshakes, sends and what waits for the lock *)

Places == Backends \cup {Unset, Domain}
Running == {"resolving", "caching", "minting", "asked", "read", "consumed"}
Shake == [stage : Running, peer : Peers, by : Callers \cup {Unset}, at : Places]
Wish == [peer : Peers, by : Callers \cup {Unset}]
Sending == [stage : {"waiting", "polling", "resolving", "caching", "posting"}, peer : Peers,
            at : Places, again : BOOLEAN]

CacheTyped ==
    /\ token \in Handshakes \cup {Unset} /\ nonce \in Handshakes \cup {Unset}
    /\ near \in BOOLEAN /\ locked \in BOOLEAN
AddressesTyped ==
    /\ home \in [Peers -> Backends]
    /\ url \in [Peers -> Backends \cup {Unset}] /\ fallback \in [Peers -> Backends \cup {Unset}]
ShakesTyped ==
    /\ shakes \in [Handshakes -> {Unborn, Over, Denied} \cup Shake]
    /\ wanted \in SUBSET Wish /\ slow \in SUBSET Handshakes
SendsTyped == outgoing \in [Callers -> {NoCall} \cup Sending]
PeersTyped == CacheTyped /\ AddressesTyped /\ ShakesTyped /\ SendsTyped

(* A caller that waits has put in one wish or is served by one handshake, and nobody else has. *)
Serves(c) == {h \in Underway : shakes[h].by = c}
Wishes(c) == {w \in wanted : w.by = c}
Served ==
    \A c \in Callers :
        /\ Serves(c) # {} \/ Wishes(c) # {} <=> outgoing[c].stage = "waiting"
        /\ Serves(c) = {} \/ Wishes(c) = {}
        /\ \A h, g \in Serves(c) : h = g
        /\ \A w, x \in Wishes(c) : w = x
        /\ \A w \in Wishes(c) : w.peer = outgoing[c].peer
-----------------------------------------------------------------------------
(* A handshake that runs has all its fields. *)
LEMMA Runs ==
    ASSUME PeersTyped, NEW h \in Handshakes
    PROVE  IF h \in Underway THEN shakes[h] \in Shake ELSE shakes[h] \in {Unborn, Over, Denied}
BY DEF PeersTyped, ShakesTyped, Underway, Shake, Running, Unborn, Over, Denied

(* A caller let go of goes on or gives up, the others stay as they are. *)
LEMMA LetGo ==
    ASSUME PeersTyped, Served, NEW c \in Callers \cup {Unset}, NEW ok \in BOOLEAN,
           c = Unset \/ outgoing[c].stage = "waiting"
    PROVE  /\ Resumed(c, ok) \in [Callers -> {NoCall} \cup Sending]
           /\ \A d \in Callers : d # c => Resumed(c, ok)[d] = outgoing[d]
           /\ c # Unset => Resumed(c, ok)[c].stage # "waiting"
<1>1. \A d \in Callers : outgoing[d] \in {NoCall} \cup Sending BY DEF PeersTyped, SendsTyped
<1>2. c # Unset => outgoing[c] \in Sending BY <1>1 DEF NoCall
<1>3. \A d \in Callers : d = Unset => FALSE BY FederationTokensAssumption DEF Unset
<1> QED BY <1>1, <1>2, <1>3 DEF Resumed, Sending, NoCall

(* The end of a handshake, or of the wait for it. *)
LEMMA EndServed ==
    ASSUME PeersTyped, Served, NEW h \in Underway, NEW ok \in BOOLEAN, UNCHANGED wanted,
           NEW how \in {Over, Denied, [shakes[h] EXCEPT !.by = Unset]}, ShakeOver(h, how, ok)
    PROVE  Served' /\ SendsTyped' /\ shakes' \in [Handshakes -> {Unborn, Over, Denied} \cup Shake]
<1> DEFINE b == shakes[h].by
<1>1. h \in Handshakes /\ shakes[h] \in Shake BY Runs DEF Underway
<1>2. b \in Callers \cup {Unset} BY <1>1 DEF Shake
<1>3. b = Unset \/ outgoing[b].stage = "waiting" BY <1>1, <1>2 DEF Served, Serves
<1>4. SendsTyped' /\ \A d \in Callers : IF d = b THEN outgoing'[d].stage # "waiting" ELSE outgoing'[d] = outgoing[d]
  <2>1. outgoing' = Resumed(b, ok) BY DEF ShakeOver
  <2>2. \A d \in Callers : d # Unset BY FederationTokensAssumption DEF Unset
  <2> QED BY <1>2, <1>3, <2>1, <2>2, LetGo DEF SendsTyped
<1>5. how \in {Over, Denied} \cup Shake BY <1>1 DEF Shake
<1>6. shakes' = [shakes EXCEPT ![h] = how] /\ shakes' \in [Handshakes -> {Unborn, Over, Denied} \cup Shake]
  BY <1>1, <1>5 DEF ShakeOver, PeersTyped, ShakesTyped
<1>7. h \in Underway' => shakes'[h].by = Unset
  BY <1>1, <1>6 DEF Underway, Over, Denied, Shake, ShakesTyped, PeersTyped
<1>8. \A c \in Callers : Serves(c)' = Serves(c) \ {h}
  <2> SUFFICES ASSUME NEW c \in Callers PROVE Serves(c)' = Serves(c) \ {h} OBVIOUS
  <2>1. c # Unset BY FederationTokensAssumption DEF Unset
  <2>2. \A g \in Handshakes : g # h => shakes'[g] = shakes[g] BY <1>1, <1>6 DEF PeersTyped, ShakesTyped
  <2> QED BY <1>7, <2>1, <2>2 DEF Serves, Underway
<1>9. \A c \in Callers : Wishes(c)' = Wishes(c) BY DEF Wishes
<1>10. \A c \in Callers : h \in Serves(c) <=> c = b BY <1>1 DEF Serves
<1>11. Served'
  <2> SUFFICES ASSUME NEW c \in Callers
       PROVE /\ Serves(c)' # {} \/ Wishes(c)' # {} <=> outgoing'[c].stage = "waiting"
             /\ Serves(c)' = {} \/ Wishes(c)' = {}
             /\ \A k, g \in Serves(c)' : k = g
             /\ \A w, x \in Wishes(c)' : w = x
             /\ \A w \in Wishes(c)' : w.peer = outgoing'[c].peer
    BY DEF Served
  <2>1. CASE c = b
    <3>1. h \in Serves(c) BY <2>1, <1>10
    <3> QED BY <1>4, <1>8, <1>9, <2>1, <3>1 DEF Served
  <2>2. CASE c # b
    <3>1. Serves(c)' = Serves(c) /\ outgoing'[c] = outgoing[c] BY <1>4, <1>8, <1>10, <2>2
    <3> QED BY <1>9, <3>1 DEF Served
  <2> QED BY <2>1, <2>2
<1> QED BY <1>4, <1>6, <1>11

(* Nobody begins or ends to wait, and no handshake begins or ends. *)
LEMMA QuietServed ==
    ASSUME Served, UNCHANGED wanted, Underway' = Underway,
           \A h \in Underway : shakes'[h].by = shakes[h].by,
           \A c \in Callers : /\ outgoing'[c].stage = "waiting" <=> outgoing[c].stage = "waiting"
                              /\ outgoing[c].stage = "waiting" => outgoing'[c].peer = outgoing[c].peer
    PROVE  Served'
<1>1. \A c \in Callers : Serves(c)' = Serves(c) /\ Wishes(c)' = Wishes(c) BY DEF Serves, Wishes
<1>2. \A c \in Callers : Wishes(c) # {} => outgoing[c].stage = "waiting" BY DEF Served
<1> QED BY <1>1, <1>2 DEF Served

(* A handshake that runs moves on. *)
LEMMA StageServed ==
    ASSUME PeersTyped, Served, UNCHANGED <<wanted, outgoing>>, NEW h \in Underway, NEW stage \in Running,
           NEW at \in Places, shakes' = [shakes EXCEPT ![h].stage = stage, ![h].at = at]
    PROVE  Served' /\ shakes' \in [Handshakes -> {Unborn, Over, Denied} \cup Shake]
           /\ Underway' = Underway
<1>1. h \in Handshakes /\ shakes[h] \in Shake BY Runs DEF Underway
<1>2. shakes'[h] \in Shake /\ shakes'[h].by = shakes[h].by /\ shakes'[h].stage = stage
      /\ \A g \in Handshakes : g # h => shakes'[g] = shakes[g]
  BY <1>1 DEF PeersTyped, ShakesTyped, Shake
<1>3. shakes' \in [Handshakes -> {Unborn, Over, Denied} \cup Shake]
  BY <1>1, <1>2 DEF PeersTyped, ShakesTyped
<1>4. Underway' = Underway BY <1>1, <1>2 DEF Underway, Running
<1>5. Served' BY <1>1, <1>2, <1>4, QuietServed DEF Underway
<1> QED BY <1>3, <1>4, <1>5

LEMMA StageAlone ==
    ASSUME PeersTyped, Served, UNCHANGED <<wanted, outgoing>>, NEW h \in Underway, NEW stage \in Running,
           shakes' = [shakes EXCEPT ![h].stage = stage]
    PROVE  Served' /\ shakes' \in [Handshakes -> {Unborn, Over, Denied} \cup Shake]
           /\ Underway' = Underway
<1>1. h \in Handshakes /\ shakes[h] \in Shake BY Runs DEF Underway
<1>2. shakes'[h] \in Shake /\ shakes'[h].by = shakes[h].by /\ shakes'[h].stage = stage
      /\ \A g \in Handshakes : g # h => shakes'[g] = shakes[g]
  BY <1>1 DEF PeersTyped, ShakesTyped, Shake
<1>3. shakes' \in [Handshakes -> {Unborn, Over, Denied} \cup Shake]
  BY <1>1, <1>2 DEF PeersTyped, ShakesTyped
<1>4. Underway' = Underway BY <1>1, <1>2 DEF Underway, Running
<1>5. Served' BY <1>1, <1>2, <1>4, QuietServed DEF Underway
<1> QED BY <1>3, <1>4, <1>5

(* What may be found out about an address is a place. *)
LEMMA Found ==
    ASSUME PeersTyped, NEW u \in Peers, NEW a \in Addresses(u)
    PROVE  a.at \in Places /\ (a.fresh => a.at = home[u] /\ a.at \in Backends)
BY FederationTokensAssumption DEF PeersTyped, AddressesTyped, Addresses, Places, Unset

(* What is about to be cached is what the resolver said: a backend. *)
Looked ==
    /\ \A h \in Handshakes : Before(h, "caching") => shakes[h].at \in Backends
    /\ \A c \in Callers : outgoing[c].stage = "caching" => outgoing[c].at \in Backends

Ordered == PeersTyped /\ Served
PeersWell == Ordered /\ Looked

LEMMA WellStart == PeersInit => PeersWell
<1> SUFFICES ASSUME NEW places \in [Peers -> Backends], PeersStart(places) PROVE PeersWell BY DEF PeersInit
<1>1. PeersTyped
  BY DEF PeersStart, PeersTyped, CacheTyped, AddressesTyped, ShakesTyped, SendsTyped
<1>2. \A c \in Callers : Serves(c) = {} /\ Wishes(c) = {} /\ outgoing[c].stage = "idle"
  BY DEF PeersStart, Serves, Wishes, Underway, Unborn, NoCall
<1>3. Looked BY DEF PeersStart, Looked, Before, Unborn, NoCall
<1> QED BY <1>1, <1>2, <1>3 DEF PeersWell, Ordered, Served

(* Addresses: no handshake nor send takes part. *)
LEMMA WellAddresses ==
    ASSUME PeersWell, NEW u \in Peers, UrlExpires(u) \/ \E b \in Backends : UserMoves(u, b)
    PROVE  Ordered'
<1>1. UNCHANGED <<redisVars, shakeVars, outgoing>> BY DEF UrlExpires, UserMoves, redisVars, shakeVars
<1>2. AddressesTyped' BY DEF UrlExpires, UserMoves, PeersWell, Ordered, PeersTyped, AddressesTyped
<1>3. CacheTyped' /\ ShakesTyped' /\ SendsTyped'
  BY <1>1 DEF PeersWell, Ordered, PeersTyped, CacheTyped, ShakesTyped, SendsTyped, redisVars, shakeVars
<1>4. Underway' = Underway BY <1>1 DEF Underway, shakeVars
<1>5. Served' BY <1>1, <1>4, QuietServed DEF PeersWell, Ordered, shakeVars
<1> QED BY <1>2, <1>3, <1>5 DEF PeersWell, Ordered, PeersTyped

(* The lock, the nonce and the token run out. *)
LEMMA WellExpiries ==
    ASSUME PeersWell, LockExpires \/ NonceExpires \/ TokenAges
    PROVE  Ordered'
<1>1. UNCHANGED <<home, url, fallback, wanted, shakes, outgoing>>
  BY DEF LockExpires, NonceExpires, TokenAges, urlVars, shakeVars
<1>2. slow' \in SUBSET Handshakes
  BY DEF LockExpires, NonceExpires, TokenAges, shakeVars, PeersWell, Ordered, PeersTyped, ShakesTyped, Underway
<1>3. CacheTyped'
  BY DEF LockExpires, NonceExpires, TokenAges, PeersWell, Ordered, PeersTyped, CacheTyped
<1>4. Underway' = Underway BY <1>1 DEF Underway
<1>5. Served' BY <1>1, <1>4, QuietServed DEF PeersWell, Ordered
<1> QED BY <1>1, <1>2, <1>3, <1>5 DEF PeersWell, Ordered, PeersTyped, AddressesTyped, ShakesTyped, SendsTyped

(* The lock goes to the handshake with the least number that was never begun. *)
Lowest(h) == Before(h, "unborn") /\ \A g \in 1..(h - 1) : ~Before(g, "unborn")

LEMMA LeastUnborn ==
    ASSUME NEW g \in Handshakes, Before(g, "unborn")
    PROVE  \E h \in Handshakes : Lowest(h)
<1> DEFINE S == {h \in Handshakes : Before(h, "unborn")}
<1>1. S \subseteq Nat /\ S # {} BY DEF Handshakes
<1>2. PICK h \in S : \A k \in S : h <= k BY <1>1, LeastNatural
<1>3. \A k \in S : ~(k < h) BY <1>1, <1>2
<1>4. \A k \in 1..(h - 1) : k \in Handshakes /\ k < h BY FederationTokensAssumption DEF Handshakes
<1> QED BY <1>2, <1>3, <1>4 DEF Lowest

(* A wish taken up becomes the handshake of its caller. *)
LEMMA WellTaken ==
    ASSUME PeersWell, NEW w \in wanted, TakesLock(w)
    PROVE  Ordered'
<1> DEFINE h == CHOOSE h \in Handshakes : Lowest(h)
<1>1. \E g \in Handshakes : Before(g, "unborn") BY DEF TakesLock
<1>2. h \in Handshakes /\ Before(h, "unborn") BY <1>1, LeastUnborn DEF Lowest
<1>3. /\ wanted' = wanted \ {w} /\ Acquired(h) /\ locked'
      /\ shakes' = [shakes EXCEPT ![h] = [stage |-> "resolving", peer |-> w.peer, by |-> w.by, at |-> Unset]]
      /\ UNCHANGED <<token, near, nonce, urlVars, outgoing, outdated, sends>>
  BY DEF TakesLock, Lowest
<1> HIDE DEF h
<1>4. w \in Wish BY DEF PeersWell, Ordered, PeersTyped, ShakesTyped
<1>5. shakes'[h] \in Shake /\ shakes'[h].by = w.by /\ \A g \in Handshakes : g # h => shakes'[g] = shakes[g]
  BY <1>2, <1>3, <1>4 DEF PeersWell, Ordered, PeersTyped, ShakesTyped, Shake, Wish, Running, Places
<1>6. h \notin Underway BY <1>2 DEF Before, Underway
<1>7. slow' \in SUBSET Handshakes
  BY <1>2, <1>3 DEF Acquired, PeersWell, Ordered, PeersTyped, ShakesTyped, Underway
<1>8. PeersTyped'
  <2>1. shakes' \in [Handshakes -> {Unborn, Over, Denied} \cup Shake]
    BY <1>2, <1>3, <1>5 DEF PeersWell, Ordered, PeersTyped, ShakesTyped
  <2>2. ShakesTyped' BY <1>3, <1>7, <2>1 DEF PeersWell, Ordered, PeersTyped, ShakesTyped
  <2> QED BY <1>3, <2>2 DEF PeersWell, Ordered, PeersTyped, CacheTyped, AddressesTyped, SendsTyped, urlVars
<1>9. \A c \in Callers : Serves(c)' = IF c = w.by THEN Serves(c) \cup {h} ELSE Serves(c)
  BY <1>2, <1>5, <1>6 DEF Serves, Underway, Shake, Running
<1>10. \A c \in Callers : Wishes(c)' = Wishes(c) \ {w} BY <1>3 DEF Wishes
<1>11. Served'
  <2> SUFFICES ASSUME NEW c \in Callers
       PROVE /\ Serves(c)' # {} \/ Wishes(c)' # {} <=> outgoing'[c].stage = "waiting"
             /\ Serves(c)' = {} \/ Wishes(c)' = {}
             /\ \A k, g \in Serves(c)' : k = g
             /\ \A v, x \in Wishes(c)' : v = x
             /\ \A v \in Wishes(c)' : v.peer = outgoing'[c].peer
    BY DEF Served
  <2>1. CASE c = w.by
    <3>1. w \in Wishes(c) BY <2>1 DEF Wishes
    <3>2. Serves(c)' = {h} /\ Wishes(c)' = {} BY <1>9, <1>10, <2>1, <3>1 DEF PeersWell, Ordered, Served
    <3> QED BY <1>3, <3>1, <3>2 DEF PeersWell, Ordered, Served
  <2>2. CASE c # w.by
    <3>1. Serves(c)' = Serves(c) /\ Wishes(c)' = Wishes(c) BY <1>9, <1>10, <2>2 DEF Wishes
    <3> QED BY <1>3, <3>1 DEF PeersWell, Ordered, Served
  <2> QED BY <2>1, <2>2
<1> QED BY <1>8, <1>11 DEF PeersWell, Ordered

LEMMA WellLeft ==
    ASSUME PeersWell, NEW w \in wanted, LeavesItToOther(w)
    PROVE  Ordered'
<1>1. w \in Wish BY DEF PeersWell, Ordered, PeersTyped, ShakesTyped
<1>2. \A c \in Callers : c # Unset BY FederationTokensAssumption DEF Unset
<1>3. w.by # Unset => w.by \in Callers /\ w \in Wishes(w.by) BY <1>1 DEF Wish, Wishes
<1>4. w.by \in Callers \cup {Unset} /\ (w.by = Unset \/ outgoing[w.by].stage = "waiting")
  BY <1>1, <1>3 DEF Wish, PeersWell, Ordered, Served
<1>5. SendsTyped' /\ \A c \in Callers :
          IF c = w.by THEN outgoing'[c].stage # "waiting" ELSE outgoing'[c] = outgoing[c]
  BY <1>2, <1>4, LetGo DEF LeavesItToOther, PeersWell, Ordered, SendsTyped
<1>6. wanted' = wanted \ {w} /\ UNCHANGED <<redisVars, urlVars, shakes, slow>> BY DEF LeavesItToOther
<1>7. PeersTyped'
  BY <1>5, <1>6 DEF PeersWell, Ordered, PeersTyped, CacheTyped, AddressesTyped, ShakesTyped, redisVars, urlVars
<1>8. \A c \in Callers : Serves(c)' = Serves(c) /\ Wishes(c)' = Wishes(c) \ {w}
  BY <1>6 DEF Serves, Wishes, Underway
<1>9. \A c \in Callers : w \in Wishes(c) <=> c = w.by BY DEF Wishes
<1>10. Served'
  <2> SUFFICES ASSUME NEW c \in Callers
       PROVE /\ Serves(c)' # {} \/ Wishes(c)' # {} <=> outgoing'[c].stage = "waiting"
             /\ Serves(c)' = {} \/ Wishes(c)' = {}
             /\ \A k, g \in Serves(c)' : k = g
             /\ \A v, x \in Wishes(c)' : v = x
             /\ \A v \in Wishes(c)' : v.peer = outgoing'[c].peer
    BY DEF Served
  <2>1. CASE c = w.by
    <3>1. Serves(c)' = {} /\ Wishes(c)' = {} BY <1>8, <1>9, <2>1 DEF PeersWell, Ordered, Served
    <3> QED BY <1>5, <2>1, <3>1
  <2>2. CASE c # w.by
    <3>1. Serves(c)' = Serves(c) /\ Wishes(c)' = Wishes(c) /\ outgoing'[c] = outgoing[c]
      BY <1>5, <1>8, <1>9, <2>2
    <3> QED BY <3>1 DEF PeersWell, Ordered, Served
  <2> QED BY <2>1, <2>2
<1> QED BY <1>7, <1>10 DEF PeersWell, Ordered

LEMMA WellResolves ==
    ASSUME PeersWell, NEW h \in Handshakes, ShakeResolves(h)
    PROVE  Ordered'
<1>1. h \in Underway /\ shakes[h] \in Shake BY Runs DEF ShakeResolves, Before, Underway, PeersWell, Ordered
<1>2. PICK a \in Addresses(shakes[h].peer) :
          IF a.at = Unset THEN ShakeOver(h, Over, FALSE)
          ELSE /\ shakes' = [shakes EXCEPT ![h].at = a.at,
                                           ![h].stage = IF a.fresh THEN "caching" ELSE "minting"]
               /\ UNCHANGED outgoing
  BY DEF ShakeResolves
<1>3. UNCHANGED <<redisVars, urlVars, wanted, slow>> BY DEF ShakeResolves
<1>4. Served' /\ SendsTyped' /\ shakes' \in [Handshakes -> {Unborn, Over, Denied} \cup Shake]
  <2>1. CASE a.at = Unset BY <1>1, <1>2, <1>3, <2>1, EndServed DEF PeersWell, Ordered
  <2>2. CASE a.at # Unset
    <3> DEFINE stage == IF a.fresh THEN "caching" ELSE "minting"
    <3>1. a.at \in Places /\ stage \in Running BY <1>1, Found DEF PeersWell, Ordered, Shake, Running
    <3>2. shakes' = [shakes EXCEPT ![h].stage = stage, ![h].at = a.at]
      BY <1>1, <1>2, <2>2 DEF Shake, PeersWell, Ordered, PeersTyped, ShakesTyped, Underway
    <3>3. UNCHANGED <<wanted, outgoing>> BY <1>2, <1>3, <2>2
    <3> HIDE DEF stage
    <3>4. Served' /\ shakes' \in [Handshakes -> {Unborn, Over, Denied} \cup Shake]
      BY <1>1, <3>1, <3>2, <3>3, StageServed DEF PeersWell, Ordered
    <3> QED BY <3>3, <3>4 DEF PeersWell, Ordered, PeersTyped, SendsTyped
  <2> QED BY <2>1, <2>2
<1> QED BY <1>3, <1>4 DEF PeersWell, Ordered, PeersTyped, CacheTyped, AddressesTyped, ShakesTyped, redisVars, urlVars

(* A handshake that goes on, or ends. *)
LEMMA WellShakes ==
    ASSUME PeersWell, NEW h \in Handshakes,
           \/ ShakeCaches(h) \/ AsksForToken(h) \/ Undelivered(h) \/ TimesOut(h)
           \/ GrantMatches(h) \/ GrantDenied(h) \/ NonceConsumed(h) \/ TokenStored(h)
    PROVE  Ordered'
<1> USE DEF Before
<1>1. h \in Underway
  BY DEF ShakeCaches, AsksForToken, Undelivered, TimesOut, GrantMatches, GrantDenied, NonceConsumed,
         TokenStored, Grants, Underway
<1>2. shakes[h] \in Shake BY <1>1, Runs DEF PeersWell, Ordered
<1>3. UNCHANGED <<wanted, slow, home>>
  BY DEF ShakeCaches, AsksForToken, Undelivered, TimesOut, GrantMatches, GrantDenied, NonceConsumed,
         TokenStored, urlVars
<1>4. CacheTyped'
  BY DEF ShakeCaches, AsksForToken, Undelivered, TimesOut, GrantMatches, GrantDenied, NonceConsumed,
         TokenStored, redisVars, PeersWell, Ordered, PeersTyped, CacheTyped
<1>5. Served' /\ SendsTyped' /\ shakes' \in [Handshakes -> {Unborn, Over, Denied} \cup Shake]
  <2>1. CASE Undelivered(h) \/ TimesOut(h) \/ GrantDenied(h) \/ TokenStored(h)
    <3>1. PICK how \in {Over, Denied, [shakes[h] EXCEPT !.by = Unset]}, ok \in BOOLEAN : ShakeOver(h, how, ok)
      BY <2>1 DEF Undelivered, TimesOut, GrantDenied, TokenStored
    <3> QED BY <1>1, <1>3, <3>1, EndServed DEF PeersWell, Ordered
  <2>2. CASE ShakeCaches(h) \/ AsksForToken(h) \/ GrantMatches(h) \/ NonceConsumed(h)
    <3>1. UNCHANGED outgoing BY <2>2 DEF ShakeCaches, AsksForToken, GrantMatches, NonceConsumed
    <3>2. PICK stage \in Running : shakes' = [shakes EXCEPT ![h].stage = stage]
      BY <2>2 DEF ShakeCaches, AsksForToken, GrantMatches, NonceConsumed, Running
    <3>3. Served' /\ shakes' \in [Handshakes -> {Unborn, Over, Denied} \cup Shake]
      BY <1>1, <1>3, <3>1, <3>2, StageAlone DEF PeersWell, Ordered
    <3> QED BY <3>1, <3>3 DEF PeersWell, Ordered, PeersTyped, SendsTyped
  <2> QED BY <2>1, <2>2
<1>6. AddressesTyped'
  <2>1. CASE ShakeCaches(h)
    BY <1>2, <1>3, <2>1 DEF ShakeCaches, CacheAddress, Shake, Looked, PeersWell, Ordered, PeersTyped, AddressesTyped
  <2>2. CASE ~ShakeCaches(h)
    <3>1. UNCHANGED urlVars
      BY <2>2 DEF AsksForToken, Undelivered, TimesOut, GrantMatches, GrantDenied, NonceConsumed, TokenStored
    <3> QED BY <3>1 DEF urlVars, PeersWell, Ordered, PeersTyped, AddressesTyped
  <2> QED BY <2>1, <2>2
<1> QED BY <1>3, <1>4, <1>5, <1>6 DEF PeersWell, Ordered, PeersTyped, ShakesTyped

(* Sends that do not wait, and none of them begins to. *)
LEMMA WellGoesOn ==
    ASSUME PeersWell, NEW c \in Callers, UNCHANGED <<redisVars, wanted, shakes, slow, home>>,
           AddressesTyped', outgoing[c].stage \notin {"idle", "waiting"},
           NEW to \in {NoCall} \cup Sending, to.stage # "waiting", outgoing' = [outgoing EXCEPT ![c] = to]
    PROVE  Ordered'
<1>1. SendsTyped' BY DEF PeersWell, Ordered, PeersTyped, SendsTyped
<1>2. CacheTyped' /\ ShakesTyped'
  BY DEF PeersWell, Ordered, PeersTyped, CacheTyped, ShakesTyped, redisVars
<1>3. \A d \in Callers : IF d = c THEN outgoing'[d].stage # "waiting" ELSE outgoing'[d] = outgoing[d]
  BY DEF PeersWell, Ordered, PeersTyped, SendsTyped
<1>4. Underway' = Underway BY DEF Underway
<1>5. Served' BY <1>3, <1>4, QuietServed DEF PeersWell, Ordered
<1> QED BY <1>1, <1>2, <1>5 DEF PeersWell, Ordered, PeersTyped

LEMMA WellSends ==
    ASSUME PeersWell, NEW c \in Callers,
           Polls(c) \/ CallResolves(c) \/ CallCaches(c) \/ PostAnswered(c) \/ PostFails(c)
    PROVE  Ordered'
<1>1. /\ outgoing[c].stage \in {"polling", "resolving", "caching", "posting"}
      /\ UNCHANGED <<redisVars, wanted, shakes, slow, home>>
  BY DEF Polls, CallResolves, CallCaches, PostAnswered, PostFails, shakeVars, urlVars
<1>2. outgoing[c] \in Sending BY <1>1 DEF PeersWell, Ordered, PeersTyped, SendsTyped, NoCall
<1>3. \E to \in {NoCall} \cup Sending : to.stage # "waiting" /\ outgoing' = [outgoing EXCEPT ![c] = to]
  <2>1. CASE Polls(c)
    BY <1>2, <2>1 DEF Polls, NoCall, Sending, PeersWell, Ordered, PeersTyped, SendsTyped
  <2>2. CASE CallResolves(c)
    <3>1. PICK a \in Addresses(outgoing[c].peer) :
              outgoing' = [outgoing EXCEPT ![c] = IF a.at = Unset THEN NoCall
                ELSE [@ EXCEPT !.stage = IF a.fresh THEN "caching" ELSE "posting", !.at = a.at]]
      BY <2>2 DEF CallResolves
    <3>2. a.at \in Places BY <1>2, Found DEF PeersWell, Ordered, Sending
    <3>3. [outgoing[c] EXCEPT !.stage = IF a.fresh THEN "caching" ELSE "posting", !.at = a.at] \in Sending
      BY <1>2, <3>2 DEF Sending
    <3> DEFINE to == IF a.at = Unset THEN NoCall
                ELSE [outgoing[c] EXCEPT !.stage = IF a.fresh THEN "caching" ELSE "posting", !.at = a.at]
    <3>4. to \in {NoCall} \cup Sending /\ to.stage # "waiting" BY <1>2, <3>3 DEF NoCall, Sending
    <3>5. outgoing' = [outgoing EXCEPT ![c] = to] BY <3>1 DEF PeersWell, Ordered, PeersTyped, SendsTyped
    <3> QED BY <3>4, <3>5
  <2>3. CASE CallCaches(c)
    BY <1>2, <2>3 DEF CallCaches, Sending, PeersWell, Ordered, PeersTyped, SendsTyped
  <2>4. CASE PostAnswered(c) BY <2>4 DEF PostAnswered, NoCall
  <2>5. CASE PostFails(c)
    BY <1>2, <2>5 DEF PostFails, NoCall, Sending, PeersWell, Ordered, PeersTyped, SendsTyped
  <2> QED BY <2>1, <2>2, <2>3, <2>4, <2>5
<1>4. AddressesTyped'
  <2>1. CASE Polls(c) \/ CallResolves(c) \/ PostAnswered(c)
    BY <2>1 DEF Polls, CallResolves, PostAnswered, urlVars, PeersWell, Ordered, PeersTyped, AddressesTyped
  <2>2. CASE CallCaches(c)
    <3>1. UNCHANGED home BY <2>2 DEF CallCaches
    <3> QED BY <1>2, <2>2, <3>1 DEF Looked, CallCaches, CacheAddress, PeersWell, Ordered, PeersTyped, AddressesTyped, Sending
  <2>3. CASE PostFails(c)
    <3>1. url' \in {url, Forgotten(outgoing[c].peer)} /\ UNCHANGED <<home, fallback>> BY <2>3 DEF PostFails
    <3> QED BY <3>1 DEF Forgotten, PeersWell, Ordered, PeersTyped, AddressesTyped
  <2> QED BY <2>1, <2>2, <2>3
<1>5. PICK to \in {NoCall} \cup Sending : to.stage # "waiting" /\ outgoing' = [outgoing EXCEPT ![c] = to] BY <1>3
<1> QED BY <1>1, <1>4, <1>5, WellGoesOn

LEMMA WellBegins ==
    ASSUME PeersWell, NEW c \in Callers, NEW u \in Peers, SendStarts(c, u)
    PROVE  Ordered'
<1> DEFINE stage == IF token = Unset THEN "waiting" ELSE "resolving"
<1>1. /\ outgoing[c] = NoCall /\ UNCHANGED <<redisVars, urlVars, shakes, slow>>
      /\ outgoing' = [outgoing EXCEPT ![c] = Call(stage, u)]
      /\ wanted' = wanted \cup IF token = Unset THEN {[peer |-> u, by |-> c]}
                             ELSE IF near THEN {[peer |-> u, by |-> Unset]} ELSE {}
  BY DEF SendStarts
<1>2. c # Unset BY FederationTokensAssumption DEF Unset
<1>3. wanted' \in SUBSET Wish
  BY <1>1 DEF PeersWell, Ordered, PeersTyped, ShakesTyped, Wish
<1>4. Call(stage, u) \in Sending BY DEF Call, Sending, Places
<1>5. SendsTyped' BY <1>1, <1>4 DEF PeersWell, Ordered, PeersTyped, SendsTyped
<1>6. CacheTyped' /\ AddressesTyped' /\ ShakesTyped'
  BY <1>1, <1>3 DEF PeersWell, Ordered, PeersTyped, CacheTyped, AddressesTyped, ShakesTyped, redisVars, urlVars
<1>7. \A d \in Callers : Serves(d)' = Serves(d) BY <1>1 DEF Serves, Underway
<1>8. \A d \in Callers : Wishes(d)' = IF d = c /\ token = Unset THEN Wishes(d) \cup {[peer |-> u, by |-> c]} ELSE Wishes(d)
  BY <1>1, <1>2, FederationTokensAssumption DEF Wishes, Unset
<1>9. Serves(c) = {} /\ Wishes(c) = {} BY <1>1 DEF PeersWell, Ordered, Served, NoCall
<1>10. outgoing'[c] = Call(stage, u) /\ \A d \in Callers : d # c => outgoing'[d] = outgoing[d]
  BY <1>1 DEF PeersWell, Ordered, PeersTyped, SendsTyped
<1>11. Served'
  <2> SUFFICES ASSUME NEW d \in Callers
       PROVE /\ Serves(d)' # {} \/ Wishes(d)' # {} <=> outgoing'[d].stage = "waiting"
             /\ Serves(d)' = {} \/ Wishes(d)' = {}
             /\ \A k, g \in Serves(d)' : k = g
             /\ \A v, x \in Wishes(d)' : v = x
             /\ \A v \in Wishes(d)' : v.peer = outgoing'[d].peer
    BY DEF Served
  <2>1. CASE d = c
    <3>1. Serves(d)' = {} /\ outgoing'[d].stage = stage /\ outgoing'[d].peer = u
      BY <1>7, <1>9, <1>10, <2>1 DEF Call
    <3>2. CASE token = Unset
      <4>1. Wishes(d)' = {[peer |-> u, by |-> c]} BY <1>8, <1>9, <2>1, <3>2
      <4> HIDE DEF stage
      <4>2. stage = "waiting" BY <3>2 DEF stage
      <4> QED BY <3>1, <4>1, <4>2
    <3>3. CASE token # Unset
      <4>1. Wishes(d)' = {} BY <1>8, <1>9, <2>1, <3>3
      <4> HIDE DEF stage
      <4>2. stage # "waiting" BY <3>3 DEF stage
      <4> QED BY <3>1, <4>1, <4>2
    <3> QED BY <3>2, <3>3
  <2>2. CASE d # c BY <1>7, <1>8, <1>10, <2>2 DEF PeersWell, Ordered, Served
  <2> QED BY <2>1, <2>2
<1> QED BY <1>5, <1>6, <1>11 DEF Ordered, PeersTyped

(* Whatever is about to be cached was so before, or the resolver has just said it. *)
LEMMA CachingShakes ==
    ASSUME PeersWell, PeersNext, NEW h \in Handshakes, Before(h, "caching")'
    PROVE  \/ /\ Before(h, "caching") /\ shakes'[h].at = shakes[h].at /\ shakes'[h].peer = shakes[h].peer
           \/ /\ shakes'[h].at = home[shakes'[h].peer] /\ shakes'[h].peer \in Peers
              /\ UNCHANGED urlVars
<1> USE DEF PeersWell, Ordered, PeersTyped, ShakesTyped
<1>1. CASE UNCHANGED shakes BY <1>1 DEF Before
<1>2. ASSUME NEW w \in wanted, TakesLock(w) PROVE shakes'[h] = shakes[h]
  <2>1. PICK g \in Handshakes : shakes' = [shakes EXCEPT ![g] = [stage |-> "resolving", peer |-> w.peer,
                                                                 by |-> w.by, at |-> Unset]]
    BY <1>2, LeastUnborn DEF TakesLock, Lowest
  <2>2. CASE g = h BY <2>1, <2>2 DEF Before
  <2>3. CASE g # h BY <2>1, <2>3
  <2> QED BY <2>2, <2>3
<1>3. ASSUME NEW g \in Handshakes, ShakeResolves(g)
      PROVE  \/ /\ Before(h, "caching") /\ shakes'[h].at = shakes[h].at /\ shakes'[h].peer = shakes[h].peer
             \/ /\ shakes'[h].at = home[shakes'[h].peer] /\ shakes'[h].peer \in Peers
                /\ UNCHANGED urlVars
  <2>1. CASE h # g BY <1>3, <2>1 DEF ShakeResolves, ShakeOver, Before
  <2>2. CASE h = g
    <3>1. shakes[g] \in Shake BY <1>3, Runs DEF ShakeResolves, Before, Underway
    <3>2. PICK a \in Addresses(shakes[g].peer) :
              IF a.at = Unset THEN ShakeOver(g, Over, FALSE)
              ELSE shakes' = [shakes EXCEPT ![g].at = a.at,
                                            ![g].stage = IF a.fresh THEN "caching" ELSE "minting"]
      BY <1>3 DEF ShakeResolves
    <3>3. a.at # Unset
      <4>1. ASSUME a.at = Unset PROVE shakes'[g] = Over BY <3>2, <4>1 DEF ShakeOver
      <4>2. Over.stage = "over" BY DEF Over
      <4> QED BY <2>2, <4>1, <4>2 DEF Before
    <3>4. shakes'[g] = [[shakes[g] EXCEPT !.at = a.at] EXCEPT !.stage = IF a.fresh THEN "caching" ELSE "minting"]
      BY <3>2, <3>3
    <3>5. a.fresh BY <2>2, <3>1, <3>4 DEF Before, Shake
    <3>6. shakes'[g].at = a.at /\ shakes'[g].peer = shakes[g].peer BY <3>1, <3>4 DEF Shake
    <3>7. a.at = home[shakes[g].peer] /\ shakes[g].peer \in Peers BY <3>1, <3>5, Found DEF Shake
    <3> QED BY <1>3, <2>2, <3>6, <3>7 DEF ShakeResolves
  <2> QED BY <2>1, <2>2
<1>4. ASSUME NEW g \in Handshakes,
             \/ ShakeCaches(g) \/ AsksForToken(g) \/ Undelivered(g) \/ TimesOut(g)
             \/ GrantMatches(g) \/ GrantDenied(g) \/ NonceConsumed(g) \/ TokenStored(g)
      PROVE  Before(h, "caching") /\ shakes'[h].at = shakes[h].at /\ shakes'[h].peer = shakes[h].peer
  <2>1. shakes[g] \in Shake
    BY <1>4, Runs DEF ShakeCaches, AsksForToken, Undelivered, TimesOut, GrantMatches, GrantDenied, NonceConsumed,
                      TokenStored, Before, Grants, Underway
  <2>2. CASE g # h
    BY <1>4, <2>2 DEF ShakeCaches, AsksForToken, Undelivered, TimesOut, GrantMatches, GrantDenied, NonceConsumed,
                      TokenStored, ShakeOver, Before
  <2>3. CASE g = h /\ (ShakeCaches(g) \/ AsksForToken(g) \/ GrantMatches(g) \/ NonceConsumed(g))
    BY <2>1, <2>3 DEF ShakeCaches, AsksForToken, GrantMatches, NonceConsumed, Before, Shake
  <2>4. CASE g = h /\ (Undelivered(g) \/ GrantDenied(g) \/ TokenStored(g))
    <3>1. shakes'[g] \in {Over, Denied} BY <2>4 DEF Undelivered, GrantDenied, TokenStored, ShakeOver
    <3>2. Over.stage = "over" /\ Denied.stage = "refused" BY DEF Over, Denied
    <3> QED BY <2>4, <3>1, <3>2 DEF Before
  <2>5. CASE g = h /\ TimesOut(g) BY <2>1, <2>5 DEF TimesOut, ShakeOver, Before, Shake
  <2> QED BY <1>4, <2>2, <2>3, <2>4, <2>5
<1>5. \/ UNCHANGED shakes
      \/ \E w \in wanted : TakesLock(w)
      \/ \E g \in Handshakes :
            \/ ShakeResolves(g) \/ ShakeCaches(g) \/ AsksForToken(g) \/ Undelivered(g) \/ TimesOut(g)
            \/ GrantMatches(g) \/ GrantDenied(g) \/ NonceConsumed(g) \/ TokenStored(g)
  BY DEF PeersNext, UrlExpires, UserMoves, LeavesItToOther, LockExpires, NonceExpires, TokenAges, Polls,
         CallResolves, CallCaches, PostAnswered, PostFails, SendStarts, shakeVars
<1> QED BY <1>1, <1>2, <1>3, <1>4, <1>5 DEF Before

LEMMA CachingSends ==
    ASSUME PeersWell, PeersNext, NEW c \in Callers, outgoing'[c].stage = "caching"
    PROVE  \/ /\ outgoing[c].stage = "caching" /\ outgoing'[c].at = outgoing[c].at
              /\ outgoing'[c].peer = outgoing[c].peer
           \/ /\ outgoing'[c].at = home[outgoing'[c].peer] /\ outgoing'[c].peer \in Peers
              /\ UNCHANGED urlVars
<1> USE DEF PeersWell, Ordered, PeersTyped, SendsTyped
<1>1. CASE UNCHANGED outgoing BY <1>1
<1>2. ASSUME NEW b, NEW ok \in BOOLEAN, outgoing' = Resumed(b, ok) PROVE outgoing'[c] = outgoing[c]
  BY <1>2 DEF Resumed, NoCall, Sending
<1>3. ASSUME NEW d \in Callers, CallResolves(d)
      PROVE  \/ outgoing'[c] = outgoing[c]
             \/ /\ outgoing'[c].at = home[outgoing'[c].peer] /\ outgoing'[c].peer \in Peers
                /\ UNCHANGED urlVars
  <2>1. CASE c # d BY <1>3, <2>1 DEF CallResolves
  <2>2. CASE c = d
    <3>1. outgoing[c] \in Sending BY <1>3, <2>2 DEF CallResolves, NoCall
    <3>2. PICK a \in Addresses(outgoing[c].peer) :
              outgoing' = [outgoing EXCEPT ![c] = IF a.at = Unset THEN NoCall
                ELSE [@ EXCEPT !.stage = IF a.fresh THEN "caching" ELSE "posting", !.at = a.at]]
      BY <1>3, <2>2 DEF CallResolves
    <3>3. a.at # Unset /\ a.fresh /\ outgoing'[c].at = a.at /\ outgoing'[c].peer = outgoing[c].peer
      BY <3>1, <3>2 DEF NoCall, Sending
    <3>4. a.at = home[outgoing[c].peer] /\ outgoing[c].peer \in Peers BY <3>1, <3>3, Found DEF Sending
    <3> QED BY <1>3, <3>3, <3>4 DEF CallResolves
  <2> QED BY <2>1, <2>2
<1>4. ASSUME NEW d \in Callers,
             Polls(d) \/ CallCaches(d) \/ PostAnswered(d) \/ PostFails(d) \/ \E u \in Peers : SendStarts(d, u)
      PROVE  outgoing'[c] = outgoing[c]
  <2>1. PICK to : outgoing' = [outgoing EXCEPT ![d] = to] /\ to.stage # "caching"
    BY <1>4 DEF Polls, CallCaches, PostAnswered, PostFails, SendStarts, NoCall, Call, Sending
  <2> QED BY <2>1
<1>5. ASSUME NEW w \in wanted, TakesLock(w) \/ LeavesItToOther(w) PROVE outgoing'[c] = outgoing[c]
  BY <1>2, <1>5 DEF TakesLock, LeavesItToOther
<1>6. ASSUME NEW h \in Handshakes,
             \/ ShakeResolves(h) \/ ShakeCaches(h) \/ AsksForToken(h) \/ Undelivered(h) \/ TimesOut(h)
             \/ GrantMatches(h) \/ GrantDenied(h) \/ NonceConsumed(h) \/ TokenStored(h)
      PROVE outgoing'[c] = outgoing[c]
  BY <1>2, <1>6 DEF ShakeResolves, ShakeCaches, AsksForToken, Undelivered, TimesOut, GrantMatches, GrantDenied,
                    NonceConsumed, TokenStored, ShakeOver
<1> QED BY <1>1, <1>3, <1>4, <1>5, <1>6
        DEF PeersNext, UrlExpires, UserMoves, LockExpires, NonceExpires, TokenAges

(* Moves and evictions change addresses without a lookup under way: what is cached stays a backend. *)
LEMMA WellKept == PeersWell /\ [PeersNext]_peersVars => PeersWell'
<1> SUFFICES ASSUME PeersWell, [PeersNext]_peersVars PROVE PeersWell' OBVIOUS
<1>1. CASE UNCHANGED peersVars
  <2>1. UNCHANGED <<token, near, nonce, locked, home, url, fallback, wanted, shakes, slow, outgoing>>
    BY <1>1 DEF peersVars, redisVars, urlVars, shakeVars
  <2>2. Ordered'
    <3>1. Underway' = Underway BY <2>1 DEF Underway
    <3>2. Served' BY <2>1, <3>1, QuietServed DEF PeersWell, Ordered
    <3> QED BY <2>1, <3>2 DEF PeersWell, Ordered, PeersTyped, CacheTyped, AddressesTyped, ShakesTyped, SendsTyped
  <2>3. Looked' BY <2>1 DEF PeersWell, Looked, Before
  <2> QED BY <2>2, <2>3 DEF PeersWell
<1>2. CASE PeersNext
  <2>1. Ordered'
    BY <1>2, WellAddresses, WellExpiries, WellTaken, WellLeft, WellResolves, WellShakes, WellSends, WellBegins
       DEF PeersNext
  <2>2. ASSUME NEW h \in Handshakes, Before(h, "caching")' PROVE shakes'[h].at \in Backends
    BY <1>2, <2>2, CachingShakes DEF PeersWell, Ordered, PeersTyped, AddressesTyped, Looked
  <2>3. ASSUME NEW c \in Callers, outgoing'[c].stage = "caching" PROVE outgoing'[c].at \in Backends
    BY <1>2, <2>3, CachingSends DEF PeersWell, Ordered, PeersTyped, AddressesTyped, Looked
  <2> QED BY <2>1, <2>2, <2>3 DEF PeersWell, Looked
<1> QED BY <1>1, <1>2

(* Tokens, addresses, handshakes and sends keep their types, and a send that waits has put in a wish *)
(* or is served by a handshake: none is left waiting for nothing.                                 *)
THEOREM PeersTypes == PeersSpec => []PeersTypeOK
<1>1. PeersWell => PeersTypeOK
  <2> SUFFICES ASSUME PeersWell PROVE PeersTypeOK OBVIOUS
  <2>1. \A h \in Handshakes :
          shakes[h] \in {Unborn, Over, Denied}
            \/ (shakes[h].at \in Backends \cup {Unset, Domain} /\ shakes[h].by \in Callers \cup {Unset})
    BY DEF PeersWell, Ordered, PeersTyped, ShakesTyped, Shake, Places
  <2>2. \A c \in Callers : outgoing[c] # NoCall => outgoing[c].at \in Backends \cup {Unset, Domain}
    BY DEF PeersWell, Ordered, PeersTyped, SendsTyped, Sending, Places
  <2>3. ASSUME NEW c \in Callers, outgoing[c].stage = "waiting"
        PROVE  [peer |-> outgoing[c].peer, by |-> c] \in wanted \/ \E h \in Underway : shakes[h].by = c
    <3>1. CASE Serves(c) # {} BY <3>1 DEF Serves
    <3>2. CASE Wishes(c) # {}
      <4>1. PICK w \in Wishes(c) : w \in Wish /\ w.by = c /\ w.peer = outgoing[c].peer
        BY <3>2 DEF Wishes, PeersWell, Ordered, PeersTyped, ShakesTyped, Served
      <4>2. w = [peer |-> outgoing[c].peer, by |-> c] BY <4>1 DEF Wish
      <4> QED BY <4>2 DEF Wishes
    <3> QED BY <2>3, <3>1, <3>2 DEF PeersWell, Ordered, Served
  <2> QED BY <2>1, <2>2, <2>3 DEF PeersTypeOK, PeersWell, Ordered, PeersTyped, CacheTyped, AddressesTyped
<1> QED BY WellStart, WellKept, <1>1, PTL DEF PeersSpec
-----------------------------------------------------------------------------
(* Handshakes one at a time *)

(* While a handshake is within the lock's time, it is alone and is the last that was begun. *)
Alone ==
    \A h \in Underway \ slow :
        /\ Underway = {h} /\ locked
        /\ Before(h, "asked") => nonce = h
        /\ \A g \in Handshakes : h < g => Before(g, "unborn")

BornInOrder == \A g, h \in Handshakes : g < h /\ Before(g, "unborn") => Before(h, "unborn")
TokenHadHandshake == token # Unset => ~Before(token, "unborn")
Undisturbed == Alone /\ BornInOrder /\ TokenHadHandshake /\ ~outdated
               /\ \A h \in Handshakes : shakes[h] = Denied => h \in slow

LEMMA UndisturbedStart == PeersInit => Undisturbed
<1> SUFFICES ASSUME NEW places \in [Peers -> Backends], PeersStart(places) PROVE Undisturbed BY DEF PeersInit
<1>1. \A h \in Handshakes : Before(h, "unborn") /\ h \notin Underway /\ shakes[h] # Denied
  BY DEF PeersStart, Before, Underway, Unborn, Denied
<1> QED BY <1>1 DEF PeersStart, Undisturbed, Alone, BornInOrder, TokenHadHandshake, Underway

(* What leaves the handshakes alone leaves them undisturbed. *)
LEMMA UndisturbedByOthers ==
    ASSUME PeersWell, Undisturbed, UNCHANGED <<shakes, outdated>>, slow \subseteq slow',
           token' \in {token, Unset},
           (Underway \ slow' # {}) => locked' = locked /\ nonce' = nonce
    PROVE  Undisturbed'
<1>1. Underway' = Underway BY DEF Underway
<1>2. \A h \in Handshakes : \A stage : Before(h, stage)' <=> Before(h, stage) BY DEF Before
<1>3. Alone' BY <1>1, <1>2 DEF Undisturbed, Alone, Underway
<1>4. BornInOrder' BY <1>2 DEF Undisturbed, BornInOrder
<1>5. TokenHadHandshake' BY <1>2 DEF Undisturbed, TokenHadHandshake, PeersWell, Ordered, PeersTyped, CacheTyped
<1> QED BY <1>3, <1>4, <1>5 DEF Undisturbed

LEMMA UndisturbedByBeginning ==
    ASSUME PeersWell, Undisturbed, NEW w \in wanted, TakesLock(w)
    PROVE  Undisturbed'
<1>1. PICK h \in Handshakes : Lowest(h) /\ Acquired(h) /\ locked'
          /\ shakes' = [shakes EXCEPT ![h] = [stage |-> "resolving", peer |-> w.peer, by |-> w.by, at |-> Unset]]
  BY LeastUnborn DEF TakesLock, Lowest
<1>2. UNCHANGED <<token, nonce, outdated>> BY DEF TakesLock
<1>3. shakes'[h].stage = "resolving" /\ \A g \in Handshakes : g # h => shakes'[g] = shakes[g]
  BY <1>1 DEF PeersWell, Ordered, PeersTyped, ShakesTyped
<1>4. Before(h, "unborn") /\ h \notin Underway BY <1>1 DEF Lowest, Before, Underway
<1>5. Underway' = Underway \cup {h} BY <1>3, <1>4 DEF Underway
<1>6. \A g \in Handshakes : h < g => Before(g, "unborn")'
  BY <1>3, <1>4, FederationTokensAssumption DEF Undisturbed, BornInOrder, Before, Handshakes
<1>7. Alone'
  <2>1. CASE Underway' \subseteq slow' BY <2>1 DEF Alone
  <2>2. CASE ~locked /\ Underway \cap slow = {} /\ slow' = slow
    <3>1. Underway = {} BY <2>2 DEF Undisturbed, Alone
    <3>2. Underway' = {h} /\ ~Before(h, "asked")' BY <1>3, <1>5, <3>1 DEF Before
    <3> QED BY <1>1, <1>6, <3>2 DEF Alone
  <2>3. Underway' \subseteq slow' \/ (~locked /\ Underway \cap slow = {} /\ slow' = slow)
    <3>1. CASE locked BY <1>1, <1>5, <3>1 DEF Acquired
    <3>2. CASE ~locked
      <4>1. Underway \subseteq slow BY <3>2 DEF Undisturbed, Alone
      <4> QED BY <1>1, <1>5, <3>2, <4>1 DEF Acquired
    <3> QED BY <3>1, <3>2
  <2> QED BY <2>1, <2>2, <2>3
<1>8. BornInOrder'
  BY <1>1, <1>3, FederationTokensAssumption DEF Lowest, Undisturbed, BornInOrder, Before, Handshakes
<1>9. TokenHadHandshake'
  BY <1>2, <1>3 DEF Undisturbed, TokenHadHandshake, Before, PeersWell, Ordered, PeersTyped, CacheTyped
<1>10. \A g \in Handshakes : shakes'[g] = Denied => g \in slow'
  <2>1. shakes'[h] # Denied BY <1>3 DEF Denied
  <2>2. slow \subseteq slow' BY <1>1 DEF Acquired
  <2> QED BY <1>3, <2>1, <2>2 DEF Undisturbed
<1> QED BY <1>2, <1>7, <1>8, <1>9, <1>10 DEF Undisturbed

(* A handshake under way takes a step: were it not the only one, it would be slow. *)
LEMMA UndisturbedByStep ==
    ASSUME PeersWell, Undisturbed, NEW h \in Underway, NEW to, shakes' = [shakes EXCEPT ![h] = to],
           to.stage # "unborn", UNCHANGED <<slow, locked>>,
           to = Denied => h \in slow,
           to.stage = "asked" => nonce' = h \/ (Before(h, "asked") /\ nonce' = nonce),
           token' \in {token, h}, outdated' => outdated \/ (token > h /\ h \notin slow)
    PROVE  Undisturbed'
<1>1. h \in Handshakes /\ ~Before(h, "unborn") BY DEF Underway, Before
<1>2. shakes'[h] = to /\ \A g \in Handshakes : g # h => shakes'[g] = shakes[g]
  BY <1>1 DEF PeersWell, Ordered, PeersTyped, ShakesTyped
<1>3. \A g \in Handshakes : Before(g, "unborn")' <=> Before(g, "unborn") BY <1>1, <1>2 DEF Before
<1>4. Underway' \subseteq Underway BY <1>2 DEF Underway
<1>5. Alone'
  <2> SUFFICES ASSUME NEW k \in Underway' \ slow'
       PROVE /\ Underway' = {k} /\ locked'
             /\ Before(k, "asked")' => nonce' = k
             /\ \A g \in Handshakes : k < g => Before(g, "unborn")'
    BY DEF Alone
  <2>1. k \in Underway \ slow /\ k \in Handshakes BY <1>4 DEF Underway
  <2>2. k = h /\ Underway = {k} /\ locked BY <2>1 DEF Undisturbed, Alone
  <2>3. Before(k, "asked") => nonce = k BY <2>1 DEF Undisturbed, Alone
  <2>4. Before(k, "asked")' => nonce' = k BY <1>2, <2>2, <2>3 DEF Before
  <2>5. \A g \in Handshakes : k < g => Before(g, "unborn")' BY <1>3, <2>1 DEF Undisturbed, Alone
  <2> QED BY <1>4, <2>2, <2>4, <2>5
<1>6. BornInOrder' BY <1>3 DEF Undisturbed, BornInOrder
<1>7. TokenHadHandshake'
  BY <1>1, <1>3 DEF Undisturbed, TokenHadHandshake, PeersWell, Ordered, PeersTyped, CacheTyped
<1>8. ~outdated'
  <2> SUFFICES ASSUME token > h, h \notin slow PROVE FALSE BY DEF Undisturbed
  <2>1. token \in Handshakes
    BY <1>1, FederationTokensAssumption DEF PeersWell, Ordered, PeersTyped, CacheTyped, Unset, Handshakes
  <2>2. Before(token, "unborn")
    BY <1>1, <2>1, FederationTokensAssumption DEF Undisturbed, Alone, Handshakes
  <2> QED BY <2>1, <2>2, FederationTokensAssumption DEF Undisturbed, TokenHadHandshake, Unset, Handshakes
<1>9. \A g \in Handshakes : shakes'[g] = Denied => g \in slow' BY <1>2 DEF Undisturbed
<1> QED BY <1>5, <1>6, <1>7, <1>8, <1>9 DEF Undisturbed

LEMMA UndisturbedKept == PeersWell /\ Undisturbed /\ [PeersNext]_peersVars => Undisturbed'
<1> SUFFICES ASSUME PeersWell, Undisturbed, [PeersNext]_peersVars PROVE Undisturbed' OBVIOUS
<1>1. CASE UNCHANGED <<redisVars, shakeVars>>
  BY <1>1, UndisturbedByOthers DEF redisVars, shakeVars
<1>2. CASE \E c \in Callers, u \in Peers : SendStarts(c, u)
  BY <1>2, UndisturbedByOthers DEF SendStarts, redisVars
<1>3. CASE \E w \in wanted : LeavesItToOther(w)
  BY <1>3, UndisturbedByOthers DEF LeavesItToOther, redisVars
<1>4. CASE \E w \in wanted : TakesLock(w) BY <1>4, UndisturbedByBeginning
<1>5. CASE LockExpires BY <1>5, UndisturbedByOthers DEF LockExpires
<1>6. CASE NonceExpires
  <2>1. Underway \subseteq slow BY <1>6 DEF NonceExpires, Undisturbed, Alone
  <2> QED BY <1>6, <2>1, UndisturbedByOthers DEF NonceExpires, shakeVars
<1>7. CASE TokenAges BY <1>7, UndisturbedByOthers DEF TokenAges, shakeVars
<1>8. ASSUME NEW h \in Handshakes, ShakeResolves(h) PROVE Undisturbed'
  <2>1. h \in Underway /\ shakes[h] \in Shake BY <1>8, Runs DEF ShakeResolves, Before, Underway, PeersWell, Ordered
  <2>2. UNCHANGED <<redisVars, slow, outdated>> BY <1>8 DEF ShakeResolves
  <2>3. PICK a \in Addresses(shakes[h].peer) :
            IF a.at = Unset THEN ShakeOver(h, Over, FALSE)
            ELSE shakes' = [shakes EXCEPT ![h].at = a.at,
                                          ![h].stage = IF a.fresh THEN "caching" ELSE "minting"]
    BY <1>8 DEF ShakeResolves
  <2>4. \E to : shakes' = [shakes EXCEPT ![h] = to] /\ to.stage \in {"over", "caching", "minting"}
    <3>1. CASE a.at = Unset
      <4>1. shakes' = [shakes EXCEPT ![h] = Over] BY <2>3, <3>1 DEF ShakeOver
      <4>2. Over.stage = "over" BY DEF Over
      <4> QED BY <4>1, <4>2
    <3>2. CASE a.at # Unset
      <4> DEFINE to == [[shakes[h] EXCEPT !.at = a.at] EXCEPT !.stage = IF a.fresh THEN "caching" ELSE "minting"]
      <4>1. shakes' = [shakes EXCEPT ![h] = to]
        BY <2>1, <2>3, <3>2 DEF PeersWell, Ordered, PeersTyped, ShakesTyped, Underway
      <4>2. to.stage \in {"caching", "minting"} BY <2>1 DEF Shake
      <4> HIDE DEF to
      <4> QED BY <4>1, <4>2
    <3> QED BY <3>1, <3>2
  <2>5. PICK to : shakes' = [shakes EXCEPT ![h] = to] /\ to.stage \in {"over", "caching", "minting"} BY <2>4
  <2>6. to # Denied BY <2>5 DEF Denied
  <2> QED BY <2>1, <2>2, <2>5, <2>6, UndisturbedByStep DEF redisVars, Undisturbed
<1>9. ASSUME NEW h \in Handshakes, ShakeCaches(h) \/ AsksForToken(h) \/ GrantMatches(h) \/ NonceConsumed(h)
      PROVE  Undisturbed'
  <2>1. h \in Underway /\ shakes[h] \in Shake
    BY <1>9, Runs DEF ShakeCaches, AsksForToken, GrantMatches, NonceConsumed, Grants, Before, Underway,
                      PeersWell, Ordered
  <2>2. PICK stage : /\ shakes' = [shakes EXCEPT ![h].stage = stage]
                     /\ stage \in {"minting", "asked", "read", "consumed"} /\ (stage = "asked" => nonce' = h)
    BY <1>9 DEF ShakeCaches, AsksForToken, GrantMatches, NonceConsumed
  <2>3. UNCHANGED <<token, locked, slow, outdated>>
    BY <1>9 DEF ShakeCaches, AsksForToken, GrantMatches, NonceConsumed, redisVars
  <2> DEFINE to == [shakes[h] EXCEPT !.stage = stage]
  <2>4. shakes' = [shakes EXCEPT ![h] = to] BY <2>2
  <2>5. to.stage = stage BY <2>1 DEF Shake
  <2> HIDE DEF to
  <2>6. to # Denied BY <2>2, <2>5 DEF Denied
  <2> QED BY <2>1, <2>2, <2>3, <2>4, <2>5, <2>6, UndisturbedByStep DEF Undisturbed
<1>10. ASSUME NEW h \in Handshakes, Undelivered(h) \/ TokenStored(h) PROVE Undisturbed'
  <2>1. h \in Underway BY <1>10 DEF Undelivered, TokenStored, Before, Underway
  <2>2. Over.stage = "over" /\ Over # Denied BY DEF Over, Denied
  <2>3. shakes' = [shakes EXCEPT ![h] = Over] /\ UNCHANGED <<slow, locked>>
    BY <1>10 DEF Undelivered, TokenStored, ShakeOver, redisVars
  <2>4. token' \in {token, h} /\ (outdated' => outdated \/ (token > h /\ h \notin slow))
    <3>1. CASE Undelivered(h) BY <3>1 DEF Undelivered, redisVars
    <3>2. CASE TokenStored(h)
      <4>1. outdated' = (outdated \/ (token > h /\ h \notin slow)) BY <3>2 DEF TokenStored
      <4>2. token' = h BY <3>2 DEF TokenStored
      <4> QED BY <4>1, <4>2, Zenon
    <3> QED BY <1>10, <3>1, <3>2
  <2> QED BY <2>1, <2>2, <2>3, <2>4, UndisturbedByStep
<1>11. ASSUME NEW h \in Handshakes, TimesOut(h) PROVE Undisturbed'
  <2>1. h \in Underway /\ shakes[h] \in Shake
    BY <1>11, Runs DEF TimesOut, Underway, PeersWell, Ordered
  <2> DEFINE to == [shakes[h] EXCEPT !.by = Unset]
  <2>2. shakes' = [shakes EXCEPT ![h] = to] BY <1>11 DEF TimesOut, ShakeOver
  <2>3. to.stage = shakes[h].stage /\ to.stage \in Running BY <2>1 DEF Shake
  <2> HIDE DEF to
  <2>4. to # Denied /\ to.stage # "unborn" BY <2>3 DEF Denied, Running
  <2>5. UNCHANGED <<token, nonce, slow, locked, outdated>> BY <1>11 DEF TimesOut, redisVars
  <2> QED BY <2>1, <2>2, <2>3, <2>4, <2>5, UndisturbedByStep DEF Before, Undisturbed
<1>12. ASSUME NEW h \in Handshakes, GrantDenied(h) PROVE Undisturbed'
  <2>1. h \in Underway /\ Before(h, "asked") BY <1>12 DEF GrantDenied, Grants, Before, Underway
  <2>2. h \in slow BY <1>12, <2>1 DEF GrantDenied, Echoes, Undisturbed, Alone
  <2>3. Denied.stage = "refused" BY DEF Denied
  <2>4. shakes' = [shakes EXCEPT ![h] = Denied] /\ UNCHANGED <<token, nonce, slow, locked, outdated>>
    BY <1>12 DEF GrantDenied, ShakeOver, redisVars
  <2> QED BY <2>1, <2>2, <2>3, <2>4, UndisturbedByStep DEF Undisturbed
<1>13. \/ UNCHANGED <<redisVars, shakeVars>>
       \/ (\E c \in Callers, u \in Peers : SendStarts(c, u)) \/ LockExpires \/ NonceExpires \/ TokenAges
       \/ \E w \in wanted : TakesLock(w) \/ LeavesItToOther(w)
       \/ \E h \in Handshakes :
             \/ ShakeResolves(h) \/ ShakeCaches(h) \/ AsksForToken(h) \/ Undelivered(h) \/ TimesOut(h)
             \/ GrantMatches(h) \/ GrantDenied(h) \/ NonceConsumed(h) \/ TokenStored(h)
  BY DEF PeersNext, peersVars, UrlExpires, UserMoves, Polls, CallResolves, CallCaches, PostAnswered, PostFails
<1> QED BY <1>1, <1>2, <1>3, <1>4, <1>5, <1>6, <1>7, <1>8, <1>9, <1>10, <1>11, <1>12, <1>13
-----------------------------------------------------------------------------
(* Addresses *)

(* An address about to be cached is that of the user's backend, unless it moved meanwhile. *)
LookedUp ==
    /\ \A h \in Handshakes : Before(h, "caching") /\ shakes[h].peer \notin passed => shakes[h].at = home[shakes[h].peer]
    /\ \A c \in Callers :
          outgoing[c].stage = "caching" /\ outgoing[c].peer \notin passed => outgoing[c].at = home[outgoing[c].peer]

BustedFound ==
    /\ busted \in SUBSET Peers /\ busted \cap passed = {}
    /\ \A u \in busted : url[u] \in {Unset, home[u]}

ReachedWell == LookedUp /\ BustedFound

LEMMA ReachedStart == PeersInit => ReachedWell
BY DEF PeersInit, PeersStart, ReachedWell, LookedUp, BustedFound, Before, Unborn, NoCall

LEMMA ReachedMoves ==
    ASSUME PeersWell, ReachedWell, NEW u \in Peers, NEW b \in Backends, UserMoves(u, b)
    PROVE  ReachedWell'
<1>1. /\ home' = [home EXCEPT ![u] = b] /\ busted' = busted \ {u}
      /\ passed' = IF Overtaken(u) THEN passed \cup {u} ELSE passed \ {u}
      /\ UNCHANGED <<url, shakes, outgoing>>
  BY DEF UserMoves, shakeVars
<1>2. \A v \in Peers : v # u => home'[v] = home[v] BY <1>1 DEF PeersWell, Ordered, PeersTyped, AddressesTyped
<1>3. ASSUME NEW h \in Handshakes, Before(h, "caching"), shakes[h].peer \notin passed'
      PROVE  shakes[h].at = home'[shakes[h].peer]
  <2>1. shakes[h].peer \in Peers
    <3>1. shakes[h] \in Shake BY <1>3, Runs DEF Before, Underway, PeersWell, Ordered
    <3> QED BY <3>1 DEF Shake
  <2>2. shakes[h].peer # u BY <1>1, <1>3 DEF Overtaken
  <2>3. shakes[h].peer \notin passed BY <1>1, <1>3, <2>2
  <2> QED BY <1>2, <1>3, <2>1, <2>2, <2>3 DEF ReachedWell, LookedUp
<1>4. ASSUME NEW c \in Callers, outgoing[c].stage = "caching", outgoing[c].peer \notin passed'
      PROVE  outgoing[c].at = home'[outgoing[c].peer]
  <2>1. outgoing[c].peer \in Peers
    <3>1. outgoing[c] \in Sending BY <1>4 DEF PeersWell, Ordered, PeersTyped, SendsTyped, NoCall
    <3> QED BY <3>1 DEF Sending
  <2>2. outgoing[c].peer # u BY <1>1, <1>4 DEF Overtaken
  <2>3. outgoing[c].peer \notin passed BY <1>1, <1>4, <2>2
  <2> QED BY <1>2, <1>4, <2>1, <2>2, <2>3 DEF ReachedWell, LookedUp
<1>5. LookedUp' BY <1>1, <1>3, <1>4 DEF LookedUp, Before
<1>6. BustedFound' BY <1>1, <1>2 DEF ReachedWell, BustedFound
<1> QED BY <1>5, <1>6 DEF ReachedWell

LEMMA ReachedKept == PeersWell /\ ReachedWell /\ [PeersNext]_peersVars => ReachedWell'
<1> SUFFICES ASSUME PeersWell, ReachedWell, [PeersNext]_peersVars PROVE ReachedWell' OBVIOUS
<1>1. CASE UNCHANGED peersVars
  BY <1>1 DEF peersVars, urlVars, shakeVars, ReachedWell, LookedUp, BustedFound, Before
<1>2. CASE \E u \in Peers, b \in Backends : UserMoves(u, b) BY <1>2, ReachedMoves
<1>3. ASSUME PeersNext, ~\E u \in Peers, b \in Backends : UserMoves(u, b) PROVE ReachedWell'
  <2>1. UNCHANGED <<home, passed>>
    BY <1>3 DEF PeersNext, UrlExpires, TakesLock, LeavesItToOther, ShakeResolves, ShakeCaches, AsksForToken,
        Undelivered, TimesOut, GrantMatches, GrantDenied, NonceConsumed, TokenStored, LockExpires, NonceExpires,
        TokenAges, Polls, CallResolves, CallCaches, PostAnswered, PostFails, SendStarts, urlVars
  <2>2. LookedUp'
    <3>1. ASSUME NEW h \in Handshakes, Before(h, "caching")', shakes'[h].peer \notin passed'
          PROVE  shakes'[h].at = home'[shakes'[h].peer]
      BY <1>3, <2>1, <3>1, CachingShakes DEF ReachedWell, LookedUp
    <3>2. ASSUME NEW c \in Callers, outgoing'[c].stage = "caching", outgoing'[c].peer \notin passed'
          PROVE  outgoing'[c].at = home'[outgoing'[c].peer]
      BY <1>3, <2>1, <3>2, CachingSends DEF ReachedWell, LookedUp
    <3> QED BY <3>1, <3>2 DEF LookedUp
  <2>3. ASSUME NEW u \in Peers
        PROVE  \/ url'[u] \in {url[u], Unset} /\ (u \in busted' => u \in busted \/ (url'[u] = Unset /\ u \notin passed))
               \/ busted' = busted /\ (u \notin passed => url'[u] = home[u])
    <3>1. CASE UNCHANGED <<url, busted>> BY <3>1
    <3>2. ASSUME NEW v \in Peers, UrlExpires(v) PROVE url'[u] \in {url[u], Unset} /\ busted' = busted
      BY <3>2 DEF UrlExpires, PeersWell, Ordered, PeersTyped, AddressesTyped
    <3>3. ASSUME NEW c \in Callers, PostFails(c)
          PROVE  url'[u] \in {url[u], Unset} /\ (u \in busted' => u \in busted \/ (url'[u] = Unset /\ u \notin passed))
      BY <3>3 DEF PostFails, Forgotten, PeersWell, Ordered, PeersTyped, AddressesTyped
    <3>4. ASSUME NEW h \in Handshakes, ShakeCaches(h)
          PROVE  busted' = busted /\ (url'[u] = url[u] \/ (u \notin passed => url'[u] = home[u]))
      <4>1. shakes[h] \in Shake BY <3>4, Runs DEF ShakeCaches, Before, Underway, PeersWell, Ordered
      <4> QED BY <3>4, <4>1 DEF ShakeCaches, CacheAddress, Shake, ReachedWell, LookedUp, PeersWell, Ordered, PeersTyped,
                                AddressesTyped
    <3>5. ASSUME NEW c \in Callers, CallCaches(c)
          PROVE  busted' = busted /\ (url'[u] = url[u] \/ (u \notin passed => url'[u] = home[u]))
      BY <3>5 DEF CallCaches, CacheAddress, ReachedWell, LookedUp, PeersWell, Ordered, PeersTyped, AddressesTyped
    <3>6. \/ UNCHANGED <<url, busted>> \/ (\E v \in Peers : UrlExpires(v))
          \/ (\E c \in Callers : PostFails(c) \/ CallCaches(c)) \/ (\E h \in Handshakes : ShakeCaches(h))
      BY <1>3 DEF PeersNext, TakesLock, LeavesItToOther, ShakeResolves, AsksForToken,
        Undelivered, TimesOut, GrantMatches, GrantDenied, NonceConsumed, TokenStored, LockExpires, NonceExpires,
        TokenAges, Polls, CallResolves, PostAnswered, SendStarts, urlVars
    <3> QED BY <3>1, <3>2, <3>3, <3>4, <3>5, <3>6
  <2>4. busted' \in SUBSET Peers
    <3>1. ASSUME NEW c \in Callers, PostFails(c) PROVE busted' \in SUBSET Peers
      <4>1. outgoing[c] \in Sending BY <3>1 DEF PostFails, PeersWell, Ordered, PeersTyped, SendsTyped, NoCall
      <4> QED BY <3>1, <4>1 DEF PostFails, Sending, ReachedWell, BustedFound
    <3>2. UNCHANGED busted \/ \E c \in Callers : PostFails(c)
      BY <1>3 DEF PeersNext, UrlExpires, TakesLock, LeavesItToOther, ShakeResolves, ShakeCaches, AsksForToken,
        Undelivered, TimesOut, GrantMatches, GrantDenied, NonceConsumed, TokenStored, LockExpires, NonceExpires,
        TokenAges, Polls, CallResolves, CallCaches, PostAnswered, SendStarts, urlVars
    <3> QED BY <3>1, <3>2 DEF ReachedWell, BustedFound
  <2>5. BustedFound' BY <2>1, <2>3, <2>4 DEF ReachedWell, BustedFound
  <2> QED BY <2>2, <2>5 DEF ReachedWell
<1> QED BY <1>1, <1>2, <1>3

(* Whatever is lost, late, evicted or moved: handshakes within the lock's time run one at a time, *)
(* are granted what they asked for and never put an older token over a newer one; and a user found  *)
(* unreachable is looked up until it is found where it is.                                        *)
THEOREM PeersAreReached == PeersSpec => []PeersReached
<1> DEFINE Inv == PeersWell /\ Undisturbed /\ ReachedWell
<1>1. PeersInit => Inv BY WellStart, UndisturbedStart, ReachedStart
<1>2. Inv /\ [PeersNext]_peersVars => Inv' BY WellKept, UndisturbedKept, ReachedKept
<1>3. Inv => PeersReached
  <2> SUFFICES ASSUME Inv PROVE PeersReached OBVIOUS
  <2>1. Underway \ slow = {} \/ \E h \in Handshakes : Underway \ slow = {h}
    BY DEF Undisturbed, Alone, Underway
  <2>2. Cardinality(Underway \ slow) <= 1
    <3>1. CASE Underway \ slow = {}
      <4>1. Cardinality(Underway \ slow) = 0 BY <3>1, FS_EmptySet
      <4> QED BY <4>1
    <3>2. ASSUME NEW h \in Handshakes, Underway \ slow = {h} PROVE Cardinality(Underway \ slow) <= 1
      <4>1. Cardinality(Underway \ slow) = 1 BY <3>2, FS_Singleton
      <4> QED BY <4>1
    <3> QED BY <2>1, <3>1, <3>2
  <2> QED BY <2>2 DEF PeersReached, Undisturbed, ReachedWell, BustedFound
<1> QED BY <1>1, <1>2, <1>3, PTL DEF PeersSpec
-----------------------------------------------------------------------------
(* Types of the directory *)

Row == [known : BOOLEAN, reachable : BOOLEAN, token : {"none", "good", "expired"}, users : Nat,
        accepting : BOOLEAN, max : Nat, selected : Nat]
Signing == {"door", "redeem", "place", "provision", "map"}
Changing == {"reload", "publish"}
Signup == [stage : Signing, name : Names, code : Nat, gated : BOOLEAN, redeemed : BOOLEAN, pin : Int,
           server : Servers \cup {NoCode}]
Changeover == {[stage |-> "reload"]} \cup [stage : {"publish"}, mode : Modes]
Lists == UNION {[S -> SUBSET Names] : S \in SUBSET Servers}
Maps == UNION {[S -> Servers] : S \in SUBSET Names}
Fetching == [stage : {"fetch"}, todo : SUBSET Servers, lists : Lists, calm : BOOLEAN, sure : SUBSET Names]
Fixing == [stage : {"fix"}, lists : Lists, calm : BOOLEAN, sure : SUBSET Names, current : Maps, desired : Maps,
           todo : SUBSET Names]

FleetTyped == fleet \in [Servers -> Row] /\ \E top \in Nat : \A b \in Servers : fleet[b].selected <= top
AccountsTyped == homes \in [Servers -> SUBSET Names] /\ mappings \in Maps
CodesTyped ==
    /\ \E k \in Nat : DOMAIN admitted = 1..k
    /\ DOMAIN invites \subseteq DOMAIN admitted
    /\ \A code \in DOMAIN admitted : admitted[code] \in [max : Int, accounts : Nat]
    /\ \A code \in DOMAIN invites :
           /\ invites[code] \in [max : Int, pin : Int, uses : Nat, expired : BOOLEAN]
           /\ invites[code].max = admitted[code].max
ModesTyped == override \in Modes /\ live \in Modes /\ crossing \in BOOLEAN
ClerksTyped ==
    /\ clerk \in [Clerks -> {AtEase} \cup Changeover \cup Signup]
    /\ \A c \in Clerks : clerk[c].stage \in {"provision", "map"} => clerk[c].server \in Servers
PassTyped ==
    /\ pass \in {NoPass} \cup Fetching \cup Fixing
    /\ pass.stage = "fix" => pass.todo \subseteq DOMAIN pass.desired
ToldTyped == excused \in SUBSET Names /\ wronged \in SUBSET Names
RegistryTyped == FleetTyped /\ AccountsTyped /\ CodesTyped /\ ModesTyped /\ ClerksTyped /\ PassTyped /\ ToldTyped
-----------------------------------------------------------------------------
LEMMA MapsAre == \A m : m \in Maps => /\ DOMAIN m \subseteq Names /\ m = [n \in DOMAIN m |-> m[n]]
                                     /\ \A n \in DOMAIN m : m[n] \in Servers
BY DEF Maps
LEMMA ListsAre == \A l : l \in Lists => /\ DOMAIN l \subseteq Servers /\ l = [b \in DOMAIN l |-> l[b]]
                                       /\ \A b \in DOMAIN l : l[b] \subseteq Names
BY DEF Lists
LEMMA MapNoted == ASSUME NEW m \in Maps, NEW n \in Names, NEW b \in Servers PROVE Noted(m, n, b) \in Maps
<1>1. DOMAIN m \cup {n} \in SUBSET Names BY MapsAre
<1>2. Noted(m, n, b) \in [DOMAIN m \cup {n} -> Servers] BY MapsAre DEF Noted
<1> QED BY <1>1, <1>2 DEF Maps
LEMMA ListNoted == ASSUME NEW l \in Lists, NEW b \in Servers, NEW S \in SUBSET Names PROVE Noted(l, b, S) \in Lists
<1>1. DOMAIN l \cup {b} \in SUBSET Servers BY ListsAre
<1>2. Noted(l, b, S) \in [DOMAIN l \cup {b} -> SUBSET Names] BY ListsAre DEF Noted
<1> QED BY <1>1, <1>2 DEF Lists
LEMMA EmptyLists == << >> \in Lists /\ << >> \in Maps /\ DOMAIN << >> = {}
BY DEF Lists, Maps

LEMMA SizeTyped == ASSUME AccountsTyped, NEW b \in Servers PROVE Cardinality(homes[b]) \in Nat
<1>1. homes[b] \in SUBSET Names BY DEF AccountsTyped
<1> QED BY <1>1, RegistryAssumption, FS_Subset, FS_CardinalityType

LEMMA TouchTyped ==
    ASSUME FleetTyped, NEW b \in Servers, TouchSelected(b)
    PROVE  FleetTyped'
<1> DEFINE tops == {k \in Nat : \A d \in Servers : fleet[d].selected <= k}
           picks == {fleet[d].selected : d \in Servers}
<1>1. PICK k \in tops : \A j \in tops : k <= j
  <2>1. tops # {} /\ tops \in SUBSET Nat BY DEF FleetTyped
  <2> QED BY <2>1, LeastNatural
<1>2. \A d \in Servers : fleet[d].selected \in Nat BY DEF FleetTyped, Row
<1>3. k \in picks
  <2> SUFFICES ASSUME k \notin picks PROVE FALSE
    OBVIOUS
  <2>1. \A d \in Servers : fleet[d].selected <= k - 1 BY <1>1, <1>2
  <2>2. k - 1 \in tops BY <1>1, <1>2, <2>1
  <2> QED BY <1>1, <2>2
<1>4. Max(picks) = k BY <1>1, <1>2, <1>3 DEF Max
<1>5. fleet' = [fleet EXCEPT ![b].selected = 1 + k] BY <1>4 DEF TouchSelected
<1>6. k \in Nat /\ \A d \in Servers : fleet[d].selected <= k BY <1>1
<1>7. fleet' \in [Servers -> Row] BY <1>5, <1>6 DEF FleetTyped, Row
<1>8. \A d \in Servers : fleet'[d].selected <= 1 + k BY <1>2, <1>5, <1>6 DEF FleetTyped, Row
<1> QED BY <1>6, <1>7, <1>8 DEF FleetTyped

LEMMA LeastIs ==
    ASSUME NEW S \in SUBSET Servers, S # {}, NEW m \in [S -> Nat]
    PROVE  Min({b \in S : \A d \in S : m[b] <= m[d]}) \in S
<1> DEFINE best == {b \in S : \A d \in S : m[b] <= m[d]}
<1>1. best # {}
  <2>1. PICK k \in {m[b] : b \in S} : \A j \in {m[b] : b \in S} : k <= j
    <3>1. {m[b] : b \in S} \in SUBSET Nat /\ {m[b] : b \in S} # {} OBVIOUS
    <3> QED BY <3>1, LeastNatural
  <2> QED BY <2>1
<1>2. \E b \in best : \A d \in best : b <= d BY <1>1, LeastNatural, RegistryAssumption
<1> QED BY <1>2 DEF Min

LEMMA ChoiceIs ==
    ASSUME FleetTyped, NEW S \in SUBSET Servers, S # {}, NEW pin
    PROVE  Choice(S, pin) \in S
<1>1. Least(S, SelectedOf) \in S
  <2> DEFINE m == [b \in S |-> SelectedOf(b)]
  <2>1. m \in [S -> Nat] BY DEF SelectedOf, FleetTyped, Row
  <2>2. Min({b \in S : \A d \in S : m[b] <= m[d]}) \in S BY <2>1, LeastIs
  <2> QED BY <2>2 DEF Least
<1>2. Least(S, MetricOf) \in S
  <2> DEFINE m == [b \in S |-> MetricOf(b)]
  <2>1. m \in [S -> Nat] BY DEF MetricOf, FleetTyped, Row
  <2>2. Min({b \in S : \A d \in S : m[b] <= m[d]}) \in S BY <2>1, LeastIs
  <2> QED BY <2>2 DEF Least
<1>3. Min(S) \in S
  <2>1. \E b \in S : \A d \in S : b <= d BY LeastNatural, RegistryAssumption
  <2> QED BY <2>1 DEF Min
<1> QED BY <1>1, <1>2, <1>3 DEF Choice
-----------------------------------------------------------------------------
LEMMA TypedStart == RegistryInit => RegistryTyped
<1> SUFFICES ASSUME NEW heard \in SUBSET Servers, NEW settled \in SUBSET Names, NEW p \in Policies,
                    NEW mapped \in [settled -> heard], RegistryStart(mapped, heard, p)
             PROVE  RegistryTyped
  BY DEF RegistryInit
<1>1. AccountsTyped BY DEF RegistryStart, AccountsTyped, Maps
<1>2. FleetTyped
  <2>1. \A b \in Servers : Cardinality(homes[b]) \in Nat BY <1>1, SizeTyped
  <2>2. \A b \in Servers : fleet[b] \in Row /\ fleet[b].selected = 0
    BY <2>1 DEF RegistryStart, Row, Heard, Newcomer, NoLimit
  <2>3. fleet = [b \in Servers |-> fleet[b]] BY DEF RegistryStart
  <2> QED BY <2>2, <2>3 DEF FleetTyped
<1>3. CodesTyped
  <2>1. DOMAIN admitted = {} /\ DOMAIN invites = {} BY EmptyLists DEF RegistryStart
  <2>2. DOMAIN admitted = 1..0 BY <2>1
  <2> QED BY <2>1, <2>2 DEF CodesTyped
<1>4. ModesTyped BY DEF RegistryStart, ModesTyped, Modes
<1>5. ClerksTyped BY DEF RegistryStart, ClerksTyped, AtEase
<1>6. PassTyped /\ ToldTyped BY DEF RegistryStart, PassTyped, NoPass, ToldTyped
<1> QED BY <1>1, <1>2, <1>3, <1>4, <1>5, <1>6 DEF RegistryTyped
-----------------------------------------------------------------------------
(* Which steps move what *)

LEMMA FleetSteps ==
    ASSUME [RegistryNext]_registryVars
    PROVE  \/ UNCHANGED fleet
           \/ \E b \in Servers : \/ SelfRegister(b) \/ Heartbeat(b) \/ TokenExpires(b)
                                 \/ \E accepting \in BOOLEAN, max \in {NoLimit, 1} : SetCapacity(b, accepting, max)
           \/ \E c \in Clerks : PickBackend(c)
           \/ StaleBackendPrune \/ NextBackend
<1> DEFINE same == UNCHANGED fleet
           Goal == \/ same
                   \/ \E b \in Servers : \/ SelfRegister(b) \/ Heartbeat(b) \/ TokenExpires(b)
                                         \/ \E accepting \in BOOLEAN, max \in {NoLimit, 1} : SetCapacity(b, accepting, max)
                   \/ \E c \in Clerks : PickBackend(c)
                   \/ StaleBackendPrune \/ NextBackend
<1>1. CASE UNCHANGED registryVars BY <1>1 DEF registryVars, fleetVars, doorVars, registryTold
<1>2. ASSUME NEW b \in Servers,
             \/ FetchUsers(b)
             \/ \E n \in Names : DeleteUser(b, n)
      PROVE  same
  BY <1>2 DEF fleetVars, doorVars, registryTold, DeleteUser, FetchUsers
<1>3. ASSUME NEW n \in Names,
             \/ Fix(n)
             \/ \E code \in {NoCode} \cup DOMAIN admitted : Register(n, code)
      PROVE  same
  BY <1>3 DEF fleetVars, doorVars, registryTold, Fix, Register
<1>4. ASSUME NEW c \in Clerks,
             Authorize(c) \/ Redeem(c) \/ Provision(c) \/ MapName(c) \/ ClerkDies(c) \/ LoadOverrides(c) \/ Publish(c)
      PROVE  same
  BY <1>4 DEF fleetVars, doorVars, registryTold, Authorize, ClerkDies, LoadOverrides, MapName, Provision, Publish, Redeem
<1>5. ASSUME NEW i \in Invitations, MintInvite(i) PROVE same
  BY <1>5 DEF fleetVars, doorVars, registryTold, MintInvite
<1>6. ASSUME NEW code \in DOMAIN invites, DeleteInvite(code) \/ InviteExpires(code) PROVE same
  BY <1>6 DEF fleetVars, doorVars, registryTold, DeleteInvite, DropInvites, InviteExpires
<1>7. ASSUME NEW mode \in Modes, PatchMode(mode) PROVE same
  BY <1>7 DEF fleetVars, doorVars, registryTold, PatchMode
<1>8. ASSUME CleanupInvites \/ BeginPass \/ ListMappings \/ DeleteMappings \/ PassDies
      PROVE  same
  BY <1>8 DEF fleetVars, doorVars, registryTold, BeginPass, CleanupInvites, DeleteMappings, DropInvites, ListMappings, PassDies
<1> SUFFICES Goal OBVIOUS
<1> HIDE DEF same
<1>9. CASE RegistryNext
  <2>1. ASSUME NEW b \in Servers,
               \/ SelfRegister(b) \/ Heartbeat(b) \/ TokenExpires(b) \/ FetchUsers(b)
               \/ \E accepting \in BOOLEAN, max \in {NoLimit, 1} : SetCapacity(b, accepting, max)
               \/ \E n \in Names : DeleteUser(b, n)
        PROVE  Goal
    BY <2>1, <1>2
  <2>2. ASSUME NEW c \in Clerks,
               \/ Authorize(c) \/ Redeem(c) \/ PickBackend(c) \/ Provision(c) \/ MapName(c) \/ ClerkDies(c)
               \/ LoadOverrides(c) \/ Publish(c)
        PROVE  Goal
    BY <2>2, <1>4
  <2>3. CASE \E n \in Names : Fix(n) \/ \E code \in {NoCode} \cup DOMAIN admitted : Register(n, code)
    BY <2>3, <1>3
  <2>4. CASE \/ \E i \in Invitations : MintInvite(i)
             \/ \E code \in DOMAIN invites : DeleteInvite(code) \/ InviteExpires(code)
             \/ \E mode \in Modes : PatchMode(mode)
    BY <2>4, <1>5, <1>6, <1>7
  <2>5. CASE \/ StaleBackendPrune \/ CleanupInvites \/ NextBackend
             \/ BeginPass \/ ListMappings \/ DeleteMappings \/ PassDies
    BY <2>5, <1>8
  <2> HIDE DEF Goal
  <2> QED BY <1>9, <2>1, <2>2, <2>3, <2>4, <2>5 DEF RegistryNext
<1> QED BY <1>1, <1>9 DEF same

LEMMA CodeSteps ==
    ASSUME [RegistryNext]_registryVars
    PROVE  \/ UNCHANGED <<invites, admitted>>
           \/ \E c \in Clerks : Redeem(c) \/ Provision(c)
           \/ \E i \in Invitations : MintInvite(i)
           \/ \E code \in DOMAIN invites : InviteExpires(code)
           \/ UNCHANGED admitted /\ \E codes : invites' = Restrict(invites, DOMAIN invites \ codes)
<1> DEFINE same == UNCHANGED <<invites, admitted>>
           Goal == \/ same
                   \/ \E c \in Clerks : Redeem(c) \/ Provision(c)
                   \/ \E i \in Invitations : MintInvite(i)
                   \/ \E code \in DOMAIN invites : InviteExpires(code)
                   \/ UNCHANGED admitted /\ \E codes : invites' = Restrict(invites, DOMAIN invites \ codes)
<1>1. CASE UNCHANGED registryVars BY <1>1 DEF registryVars, fleetVars, doorVars, registryTold
<1>2. ASSUME NEW b \in Servers,
             \/ SelfRegister(b) \/ Heartbeat(b) \/ TokenExpires(b) \/ FetchUsers(b)
             \/ \E accepting \in BOOLEAN, max \in {NoLimit, 1} : SetCapacity(b, accepting, max)
             \/ \E n \in Names : DeleteUser(b, n)
      PROVE  same
  BY <1>2 DEF fleetVars, doorVars, registryTold, DeleteUser, FetchUsers, Heartbeat, SelfRegister, SetCapacity, TokenExpires
<1>3. ASSUME NEW n \in Names,
             \/ Fix(n)
             \/ \E code \in {NoCode} \cup DOMAIN admitted : Register(n, code)
      PROVE  same
  BY <1>3 DEF fleetVars, doorVars, registryTold, Fix, Register
<1>4. ASSUME NEW c \in Clerks,
             Authorize(c) \/ PickBackend(c) \/ MapName(c) \/ ClerkDies(c) \/ LoadOverrides(c) \/ Publish(c)
      PROVE  same
  BY <1>4 DEF fleetVars, doorVars, registryTold, Authorize, ClerkDies, LoadOverrides, MapName, PickBackend, Publish
<1>5. ASSUME NEW mode \in Modes, PatchMode(mode) PROVE same
  BY <1>5 DEF fleetVars, doorVars, registryTold, PatchMode
<1>6. ASSUME StaleBackendPrune \/ NextBackend \/ BeginPass \/ ListMappings \/ DeleteMappings \/ PassDies
      PROVE  same
  BY <1>6 DEF fleetVars, doorVars, registryTold, BeginPass, DeleteMappings, ListMappings, NextBackend, PassDies, StaleBackendPrune
<1>e. ASSUME CleanupInvites \/ \E code \in DOMAIN invites : DeleteInvite(code)
      PROVE  UNCHANGED admitted /\ \E codes : invites' = Restrict(invites, DOMAIN invites \ codes)
  BY <1>e DEF registryTold, CleanupInvites, DeleteInvite, DropInvites
<1> SUFFICES Goal OBVIOUS
<1> HIDE DEF same
<1>7. CASE RegistryNext
  <2>1. ASSUME NEW b \in Servers,
               \/ SelfRegister(b) \/ Heartbeat(b) \/ TokenExpires(b) \/ FetchUsers(b)
               \/ \E accepting \in BOOLEAN, max \in {NoLimit, 1} : SetCapacity(b, accepting, max)
               \/ \E n \in Names : DeleteUser(b, n)
        PROVE  Goal
    BY <2>1, <1>2
  <2>2. ASSUME NEW c \in Clerks,
               \/ Authorize(c) \/ Redeem(c) \/ PickBackend(c) \/ Provision(c) \/ MapName(c) \/ ClerkDies(c)
               \/ LoadOverrides(c) \/ Publish(c)
        PROVE  Goal
    BY <2>2, <1>4
  <2>3. CASE \E n \in Names : Fix(n) \/ \E code \in {NoCode} \cup DOMAIN admitted : Register(n, code)
    BY <2>3, <1>3
  <2>4. CASE \/ \E i \in Invitations : MintInvite(i)
             \/ \E code \in DOMAIN invites : DeleteInvite(code) \/ InviteExpires(code)
             \/ \E mode \in Modes : PatchMode(mode)
    BY <2>4, <1>5, <1>e
  <2>5. CASE \/ StaleBackendPrune \/ CleanupInvites \/ NextBackend
             \/ BeginPass \/ ListMappings \/ DeleteMappings \/ PassDies
    BY <2>5, <1>6, <1>e
  <2> HIDE DEF Goal
  <2> QED BY <1>7, <2>1, <2>2, <2>3, <2>4, <2>5 DEF RegistryNext
<1> QED BY <1>1, <1>7 DEF same

LEMMA DirectorySteps ==
    ASSUME [RegistryNext]_registryVars
    PROVE  \/ UNCHANGED <<homes, mappings, pass>>
           \/ \E b \in Servers : FetchUsers(b) \/ \E n \in Names : DeleteUser(b, n)
           \/ \E c \in Clerks : Provision(c) \/ MapName(c)
           \/ \E n \in Names : Fix(n)
           \/ BeginPass \/ ListMappings \/ DeleteMappings \/ PassDies
<1> DEFINE same == UNCHANGED <<homes, mappings, pass>>
           Goal == \/ same
                   \/ \E b \in Servers : FetchUsers(b) \/ \E n \in Names : DeleteUser(b, n)
                   \/ \E c \in Clerks : Provision(c) \/ MapName(c)
                   \/ \E n \in Names : Fix(n)
                   \/ BeginPass \/ ListMappings \/ DeleteMappings \/ PassDies
<1>1. CASE UNCHANGED registryVars BY <1>1 DEF registryVars, fleetVars
<1>2. ASSUME NEW b \in Servers, \/ SelfRegister(b) \/ Heartbeat(b) \/ TokenExpires(b)
                                \/ \E accepting \in BOOLEAN, max \in {NoLimit, 1} : SetCapacity(b, accepting, max)
      PROVE  same
  BY <1>2 DEF SelfRegister, Heartbeat, TokenExpires, SetCapacity
<1>3. ASSUME NEW code \in {NoCode} \cup DOMAIN admitted, NEW n \in Names, Register(n, code) PROVE same
  BY <1>3 DEF fleetVars, Register
<1>4. ASSUME NEW c \in Clerks,
             Authorize(c) \/ Redeem(c) \/ PickBackend(c) \/ ClerkDies(c) \/ LoadOverrides(c) \/ Publish(c)
      PROVE  same
  BY <1>4 DEF fleetVars, Authorize, Redeem, PickBackend, ClerkDies, LoadOverrides, Publish
<1>5. ASSUME NEW i \in Invitations, MintInvite(i) PROVE same BY <1>5 DEF fleetVars, MintInvite
<1>6. ASSUME NEW code \in DOMAIN invites, DeleteInvite(code) \/ InviteExpires(code) PROVE same
  BY <1>6 DEF fleetVars, DeleteInvite, DropInvites, InviteExpires
<1>7. ASSUME NEW mode \in Modes, PatchMode(mode) PROVE same BY <1>7 DEF fleetVars, PatchMode
<1>8. ASSUME StaleBackendPrune \/ CleanupInvites \/ NextBackend PROVE same
  BY <1>8 DEF fleetVars, StaleBackendPrune, CleanupInvites, DropInvites, NextBackend
<1> SUFFICES Goal OBVIOUS
<1> HIDE DEF same
<1>9. CASE RegistryNext
  <2>1. ASSUME NEW b \in Servers,
               \/ SelfRegister(b) \/ Heartbeat(b) \/ TokenExpires(b) \/ FetchUsers(b)
               \/ \E accepting \in BOOLEAN, max \in {NoLimit, 1} : SetCapacity(b, accepting, max)
               \/ \E n \in Names : DeleteUser(b, n)
        PROVE  Goal
    BY <2>1, <1>2
  <2>2. ASSUME NEW c \in Clerks,
               \/ Authorize(c) \/ Redeem(c) \/ PickBackend(c) \/ Provision(c) \/ MapName(c) \/ ClerkDies(c)
               \/ LoadOverrides(c) \/ Publish(c)
        PROVE  Goal
    BY <2>2, <1>4
  <2>3. CASE \E n \in Names : Fix(n) \/ \E code \in {NoCode} \cup DOMAIN admitted : Register(n, code)
    BY <2>3, <1>3
  <2>4. CASE \/ \E i \in Invitations : MintInvite(i)
             \/ \E code \in DOMAIN invites : DeleteInvite(code) \/ InviteExpires(code)
             \/ \E mode \in Modes : PatchMode(mode)
    BY <2>4, <1>5, <1>6, <1>7
  <2>5. CASE \/ StaleBackendPrune \/ CleanupInvites \/ NextBackend
             \/ BeginPass \/ ListMappings \/ DeleteMappings \/ PassDies
    BY <2>5, <1>8
  <2> HIDE DEF Goal
  <2> QED BY <1>9, <2>1, <2>2, <2>3, <2>4, <2>5 DEF RegistryNext
<1> QED BY <1>1, <1>9 DEF same

LEMMA ClerkSteps ==
    ASSUME [RegistryNext]_registryVars
    PROVE  \/ UNCHANGED clerk
           \/ \E n \in Names, code \in {NoCode} \cup DOMAIN admitted : Register(n, code)
           \/ \E mode \in Modes : PatchMode(mode)
           \/ \E c \in Clerks : \/ Authorize(c) \/ Redeem(c) \/ PickBackend(c) \/ Provision(c) \/ MapName(c)
                                \/ ClerkDies(c) \/ LoadOverrides(c) \/ Publish(c)
<1> DEFINE same == UNCHANGED clerk
           Goal == \/ same
                   \/ \E n \in Names, code \in {NoCode} \cup DOMAIN admitted : Register(n, code)
                   \/ \E mode \in Modes : PatchMode(mode)
                   \/ \E c \in Clerks : \/ Authorize(c) \/ Redeem(c) \/ PickBackend(c) \/ Provision(c) \/ MapName(c)
                                        \/ ClerkDies(c) \/ LoadOverrides(c) \/ Publish(c)
<1>1. CASE UNCHANGED registryVars BY <1>1 DEF registryVars, fleetVars, doorVars, registryTold
<1>2. ASSUME NEW b \in Servers,
             \/ SelfRegister(b) \/ Heartbeat(b) \/ TokenExpires(b) \/ FetchUsers(b)
             \/ \E accepting \in BOOLEAN, max \in {NoLimit, 1} : SetCapacity(b, accepting, max)
             \/ \E n \in Names : DeleteUser(b, n)
      PROVE  same
  BY <1>2 DEF fleetVars, doorVars, registryTold, DeleteUser, FetchUsers, Heartbeat, SelfRegister, SetCapacity, TokenExpires
<1>3. ASSUME NEW n \in Names, Fix(n) PROVE same
  BY <1>3 DEF fleetVars, doorVars, registryTold, Fix
<1>4. ASSUME NEW i \in Invitations, MintInvite(i) PROVE same
  BY <1>4 DEF fleetVars, doorVars, registryTold, MintInvite
<1>5. ASSUME NEW code \in DOMAIN invites, DeleteInvite(code) \/ InviteExpires(code) PROVE same
  BY <1>5 DEF fleetVars, doorVars, registryTold, DeleteInvite, DropInvites, InviteExpires
<1>6. ASSUME StaleBackendPrune \/ CleanupInvites \/ NextBackend \/ BeginPass \/ ListMappings \/ DeleteMappings \/ PassDies
      PROVE  same
  BY <1>6 DEF fleetVars, doorVars, registryTold, BeginPass, CleanupInvites, DeleteMappings, DropInvites, ListMappings, NextBackend, PassDies, StaleBackendPrune
<1> SUFFICES Goal OBVIOUS
<1> HIDE DEF same
<1>7. CASE RegistryNext
  <2>1. ASSUME NEW b \in Servers,
               \/ SelfRegister(b) \/ Heartbeat(b) \/ TokenExpires(b) \/ FetchUsers(b)
               \/ \E accepting \in BOOLEAN, max \in {NoLimit, 1} : SetCapacity(b, accepting, max)
               \/ \E n \in Names : DeleteUser(b, n)
        PROVE  Goal
    BY <2>1, <1>2
  <2>2. ASSUME NEW c \in Clerks,
               \/ Authorize(c) \/ Redeem(c) \/ PickBackend(c) \/ Provision(c) \/ MapName(c) \/ ClerkDies(c)
               \/ LoadOverrides(c) \/ Publish(c)
        PROVE  Goal
    BY <2>2
  <2>3. CASE \E n \in Names : Fix(n) \/ \E code \in {NoCode} \cup DOMAIN admitted : Register(n, code)
    BY <2>3, <1>3
  <2>4. CASE \/ \E i \in Invitations : MintInvite(i)
             \/ \E code \in DOMAIN invites : DeleteInvite(code) \/ InviteExpires(code)
             \/ \E mode \in Modes : PatchMode(mode)
    BY <2>4, <1>4, <1>5
  <2>5. CASE \/ StaleBackendPrune \/ CleanupInvites \/ NextBackend
             \/ BeginPass \/ ListMappings \/ DeleteMappings \/ PassDies
    BY <2>5, <1>6
  <2> HIDE DEF Goal
  <2> QED BY <1>7, <2>1, <2>2, <2>3, <2>4, <2>5 DEF RegistryNext
<1> QED BY <1>1, <1>7 DEF same

LEMMA ModeSteps ==
    ASSUME [RegistryNext]_registryVars
    PROVE  \/ UNCHANGED <<override, live, crossing>>
           \/ \E mode \in Modes : PatchMode(mode)
           \/ \E c \in Clerks : ClerkDies(c) \/ Publish(c)
<1> DEFINE same == UNCHANGED <<override, live, crossing>>
<1>1. CASE UNCHANGED registryVars BY <1>1 DEF registryVars, doorVars, registryTold
<1>2. ASSUME NEW b \in Servers, SelfRegister(b) \/ Heartbeat(b) \/ TokenExpires(b) \/ FetchUsers(b) PROVE same
  BY <1>2 DEF doorVars, registryTold, SelfRegister, Heartbeat, TokenExpires, FetchUsers
<1>3. ASSUME NEW b \in Servers, \/ \E accepting \in BOOLEAN, max \in {NoLimit, 1} : SetCapacity(b, accepting, max)
                                \/ \E n \in Names : DeleteUser(b, n)
      PROVE  same
  BY <1>3 DEF doorVars, registryTold, SetCapacity, DeleteUser
<1>4. ASSUME NEW n \in Names, Fix(n) \/ \E code \in {NoCode} \cup DOMAIN admitted : Register(n, code) PROVE same
  BY <1>4 DEF doorVars, registryTold, Fix, Register
<1>5. ASSUME NEW c \in Clerks,
             Authorize(c) \/ Redeem(c) \/ PickBackend(c) \/ Provision(c) \/ MapName(c) \/ LoadOverrides(c)
      PROVE  same
  BY <1>5 DEF doorVars, registryTold, Authorize, Redeem, PickBackend, Provision, MapName, LoadOverrides
<1>6. ASSUME NEW i \in Invitations, MintInvite(i) PROVE same
  BY <1>6 DEF doorVars, registryTold, MintInvite
<1>7. ASSUME NEW code \in DOMAIN invites, DeleteInvite(code) \/ InviteExpires(code) PROVE same
  BY <1>7 DEF doorVars, registryTold, DeleteInvite, DropInvites, InviteExpires
<1>8. ASSUME StaleBackendPrune \/ CleanupInvites \/ NextBackend PROVE same
  BY <1>8 DEF doorVars, registryTold, StaleBackendPrune, CleanupInvites, DropInvites, NextBackend
<1>9. ASSUME BeginPass \/ ListMappings \/ DeleteMappings \/ PassDies PROVE same
  BY <1>9 DEF doorVars, registryTold, BeginPass, ListMappings, DeleteMappings, PassDies
<1> HIDE DEF same
<1>10. CASE RegistryNext
  <2> DEFINE Goal == \/ same \/ \E mode \in Modes : PatchMode(mode)
                     \/ \E c \in Clerks : ClerkDies(c) \/ Publish(c)
  <2> SUFFICES Goal BY DEF same
  <2>1. ASSUME NEW b \in Servers,
               \/ SelfRegister(b) \/ Heartbeat(b) \/ TokenExpires(b) \/ FetchUsers(b)
               \/ \E accepting \in BOOLEAN, max \in {NoLimit, 1} : SetCapacity(b, accepting, max)
               \/ \E n \in Names : DeleteUser(b, n)
        PROVE  Goal
    BY <2>1, <1>2, <1>3
  <2>2. ASSUME NEW c \in Clerks,
               \/ Authorize(c) \/ Redeem(c) \/ PickBackend(c) \/ Provision(c) \/ MapName(c) \/ ClerkDies(c)
               \/ LoadOverrides(c) \/ Publish(c)
        PROVE  Goal
    BY <2>2, <1>5
  <2>3. CASE \E n \in Names : Fix(n) \/ \E code \in {NoCode} \cup DOMAIN admitted : Register(n, code)
    BY <2>3, <1>4
  <2>4. CASE \/ \E i \in Invitations : MintInvite(i)
             \/ \E code \in DOMAIN invites : DeleteInvite(code) \/ InviteExpires(code)
    BY <2>4, <1>6, <1>7
  <2>5. CASE \/ StaleBackendPrune \/ CleanupInvites \/ NextBackend
             \/ BeginPass \/ ListMappings \/ DeleteMappings \/ PassDies
    BY <2>5, <1>8, <1>9
  <2>6. CASE \E mode \in Modes : PatchMode(mode) BY <2>6
  <2> HIDE DEF Goal
  <2> QED BY <1>10, <2>1, <2>2, <2>3, <2>4, <2>5, <2>6 DEF RegistryNext
<1> QED BY <1>1, <1>10 DEF same

LEMMA ToldSteps ==
    ASSUME [RegistryNext]_registryVars
    PROVE  \/ UNCHANGED <<excused, wronged>>
           \/ \E n \in Names, code \in {NoCode} \cup DOMAIN admitted : Register(n, code)
           \/ \E c \in Clerks : Provision(c) \/ ClerkDies(c)
           \/ DeleteMappings
<1> DEFINE same == UNCHANGED <<excused, wronged>>
           Goal == \/ same
                   \/ \E n \in Names, code \in {NoCode} \cup DOMAIN admitted : Register(n, code)
                   \/ \E c \in Clerks : Provision(c) \/ ClerkDies(c)
                   \/ DeleteMappings
<1>1. CASE UNCHANGED registryVars BY <1>1 DEF registryVars, fleetVars, doorVars, registryTold
<1>2. ASSUME NEW b \in Servers,
             \/ SelfRegister(b) \/ Heartbeat(b) \/ TokenExpires(b) \/ FetchUsers(b)
             \/ \E accepting \in BOOLEAN, max \in {NoLimit, 1} : SetCapacity(b, accepting, max)
             \/ \E n \in Names : DeleteUser(b, n)
      PROVE  same
  BY <1>2 DEF fleetVars, doorVars, registryTold, DeleteUser, FetchUsers, Heartbeat, SelfRegister, SetCapacity, TokenExpires
<1>3. ASSUME NEW n \in Names, Fix(n) PROVE same
  BY <1>3 DEF fleetVars, doorVars, registryTold, Fix
<1>4. ASSUME NEW c \in Clerks,
             Authorize(c) \/ Redeem(c) \/ PickBackend(c) \/ MapName(c) \/ LoadOverrides(c) \/ Publish(c)
      PROVE  same
  BY <1>4 DEF fleetVars, doorVars, registryTold, Authorize, LoadOverrides, MapName, PickBackend, Publish, Redeem
<1>5. ASSUME NEW i \in Invitations, MintInvite(i) PROVE same
  BY <1>5 DEF fleetVars, doorVars, registryTold, MintInvite
<1>6. ASSUME NEW code \in DOMAIN invites, DeleteInvite(code) \/ InviteExpires(code) PROVE same
  BY <1>6 DEF fleetVars, doorVars, registryTold, DeleteInvite, DropInvites, InviteExpires
<1>7. ASSUME NEW mode \in Modes, PatchMode(mode) PROVE same
  BY <1>7 DEF fleetVars, doorVars, registryTold, PatchMode
<1>8. ASSUME StaleBackendPrune \/ CleanupInvites \/ NextBackend \/ BeginPass \/ ListMappings \/ PassDies
      PROVE  same
  BY <1>8 DEF fleetVars, doorVars, registryTold, BeginPass, CleanupInvites, DropInvites, ListMappings, NextBackend, PassDies, StaleBackendPrune
<1> SUFFICES Goal OBVIOUS
<1> HIDE DEF same
<1>9. CASE RegistryNext
  <2>1. ASSUME NEW b \in Servers,
               \/ SelfRegister(b) \/ Heartbeat(b) \/ TokenExpires(b) \/ FetchUsers(b)
               \/ \E accepting \in BOOLEAN, max \in {NoLimit, 1} : SetCapacity(b, accepting, max)
               \/ \E n \in Names : DeleteUser(b, n)
        PROVE  Goal
    BY <2>1, <1>2
  <2>2. ASSUME NEW c \in Clerks,
               \/ Authorize(c) \/ Redeem(c) \/ PickBackend(c) \/ Provision(c) \/ MapName(c) \/ ClerkDies(c)
               \/ LoadOverrides(c) \/ Publish(c)
        PROVE  Goal
    BY <2>2, <1>4
  <2>3. CASE \E n \in Names : Fix(n) \/ \E code \in {NoCode} \cup DOMAIN admitted : Register(n, code)
    BY <2>3, <1>3
  <2>4. CASE \/ \E i \in Invitations : MintInvite(i)
             \/ \E code \in DOMAIN invites : DeleteInvite(code) \/ InviteExpires(code)
             \/ \E mode \in Modes : PatchMode(mode)
    BY <2>4, <1>5, <1>6, <1>7
  <2>5. CASE \/ StaleBackendPrune \/ CleanupInvites \/ NextBackend
             \/ BeginPass \/ ListMappings \/ DeleteMappings \/ PassDies
    BY <2>5, <1>8
  <2> HIDE DEF Goal
  <2> QED BY <1>9, <2>1, <2>2, <2>3, <2>4, <2>5 DEF RegistryNext
<1> QED BY <1>1, <1>9 DEF same
-----------------------------------------------------------------------------
LEMMA Signs ==
    ASSUME ClerksTyped, NEW c \in Clerks, clerk[c].stage \in Signing
    PROVE  clerk[c] \in Signup
BY DEF ClerksTyped, AtEase, Changeover, Signing
LEMMA Fetches ==
    ASSUME PassTyped, pass.stage = "fetch"
    PROVE  pass \in Fetching
BY DEF PassTyped, NoPass, Fixing
LEMMA Fixes ==
    ASSUME PassTyped, pass.stage = "fix"
    PROVE  pass \in Fixing
BY DEF PassTyped, NoPass, Fetching

LEMMA SameSelection ==
    ASSUME FleetTyped, fleet' \in [Servers -> Row], \A b \in Servers : fleet'[b].selected = fleet[b].selected
    PROVE  FleetTyped'
BY DEF FleetTyped

LEMMA FleetKept ==
    ASSUME RegistryTyped, [RegistryNext]_registryVars
    PROVE  FleetTyped'
<1> FleetTyped /\ AccountsTyped BY DEF RegistryTyped
<1>1. CASE UNCHANGED fleet BY <1>1 DEF FleetTyped
<1> DEFINE kept == fleet' \in [Servers -> Row] /\ \A b \in Servers : fleet'[b].selected = fleet[b].selected
<1>2. ASSUME NEW b \in Servers, SelfRegister(b) PROVE kept BY <1>2 DEF SelfRegister, FleetTyped, Row
<1>3. ASSUME NEW b \in Servers, Heartbeat(b) PROVE kept
  <2>1. Cardinality(homes[b]) \in Nat BY SizeTyped
  <2> DEFINE row == [fleet[b] EXCEPT !.reachable = TRUE, !.token = "good", !.users = Cardinality(homes[b])]
  <2>2. row \in Row /\ row.selected = fleet[b].selected BY <2>1 DEF FleetTyped, Row
  <2>3. fleet' = [fleet EXCEPT ![b] = row] BY <1>3 DEF Heartbeat
  <2> HIDE DEF row
  <2> QED BY <2>2, <2>3 DEF FleetTyped
<1>4. ASSUME NEW b \in Servers, TokenExpires(b) PROVE kept BY <1>4 DEF TokenExpires, FleetTyped, Row
<1>5. ASSUME NEW b \in Servers, NEW accepting \in BOOLEAN, NEW max \in {NoLimit, 1}, SetCapacity(b, accepting, max)
      PROVE  kept
  <2>1. max \in Nat BY DEF NoLimit
  <2>2. fleet[b] \in Row BY DEF FleetTyped
  <2>3. PICK row : row = [fleet[b] EXCEPT !.accepting = accepting, !.max = max] OBVIOUS
  <2>4. row \in Row /\ row.selected = fleet[b].selected BY <2>1, <2>2, <2>3 DEF Row
  <2>5. fleet' = [fleet EXCEPT ![b] = row] BY <1>5, <2>3 DEF SetCapacity
  <2> QED BY <2>4, <2>5 DEF FleetTyped
<1>6. ASSUME StaleBackendPrune PROVE kept
  <2>1. \A b \in Servers : [fleet[b] EXCEPT !.reachable = @ /\ fleet[b].token = "good"] \in Row
    BY DEF FleetTyped, Row
  <2>2. \A b \in Servers : fleet'[b] = [fleet[b] EXCEPT !.reachable = @ /\ fleet[b].token = "good"]
    BY <1>6 DEF StaleBackendPrune
  <2>3. fleet' = [b \in Servers |-> fleet'[b]] BY <1>6 DEF StaleBackendPrune
  <2>4. \A b \in Servers : fleet'[b].selected = fleet[b].selected
    <3> SUFFICES ASSUME NEW b \in Servers PROVE fleet'[b].selected = fleet[b].selected
      OBVIOUS
    <3>1. fleet[b] \in Row BY DEF FleetTyped
    <3>2. fleet'[b] = [fleet[b] EXCEPT !.reachable = @ /\ fleet[b].token = "good"] BY <2>2
    <3> QED BY <3>1, <3>2 DEF Row
  <2>5. fleet' \in [Servers -> Row] BY <2>1, <2>2, <2>3
  <2> QED BY <2>4, <2>5
<1>7. Eligible \in SUBSET Servers BY DEF Eligible
<1>8. ASSUME NEW c \in Clerks, PickBackend(c) PROVE FleetTyped'
  BY <1>1, <1>7, <1>8, ChoiceIs, TouchTyped DEF PickBackend
<1>9. CASE NextBackend BY <1>7, <1>9, ChoiceIs, TouchTyped DEF NextBackend
<1> QED BY <1>1, <1>2, <1>3, <1>4, <1>5, <1>6, <1>8, <1>9, FleetSteps, SameSelection

LEMMA AccountsKept ==
    ASSUME RegistryTyped, [RegistryNext]_registryVars
    PROVE  AccountsTyped'
<1> AccountsTyped /\ ClerksTyped /\ PassTyped BY DEF RegistryTyped
<1>1. CASE UNCHANGED <<homes, mappings>> BY <1>1 DEF AccountsTyped
<1>2. ASSUME NEW b \in Servers, NEW n \in Names, DeleteUser(b, n) PROVE AccountsTyped'
  BY <1>2 DEF DeleteUser, AccountsTyped
<1>3. ASSUME NEW c \in Clerks, Provision(c) PROVE AccountsTyped'
  <2>1. clerk[c] \in Signup BY <1>3, Signs DEF Provision, Seated, Signing
  <2> QED BY <1>3, <2>1 DEF Provision, AccountsTyped, Signup
<1>4. ASSUME NEW c \in Clerks, MapName(c) PROVE AccountsTyped'
  <2>1. clerk[c] \in Signup BY <1>4, Signs DEF MapName, Seated, Signing
  <2>2. clerk[c].name \in Names /\ clerk[c].server \in Servers BY <1>4, <2>1 DEF MapName, Seated, Signup, ClerksTyped
  <2> QED BY <1>4, <2>2, MapNoted DEF MapName, AccountsTyped, fleetVars
<1>5. ASSUME NEW n \in Names, Fix(n) PROVE AccountsTyped'
  <2>1. pass \in Fixing BY <1>5, Fixes DEF Fix
  <2>2. pass.desired[n] \in Servers
    <3>1. pass.desired \in Maps BY <2>1 DEF Fixing
    <3> QED BY <1>5, <2>1, <3>1, MapsAre DEF Fix, PassTyped
  <2> QED BY <1>5, <2>2, MapNoted DEF Fix, AccountsTyped, fleetVars
<1>6. CASE DeleteMappings
  <2>1. PICK S : mappings' = Restrict(mappings, DOMAIN mappings \ S) BY <1>6 DEF DeleteMappings
  <2>2. mappings' \in Maps BY <2>1, MapsAre DEF Restrict, Maps, AccountsTyped
  <2> QED BY <1>6, <2>2 DEF DeleteMappings, AccountsTyped, fleetVars
<1>7. CASE BeginPass \/ ListMappings \/ PassDies \/ \E b \in Servers : FetchUsers(b)
  BY <1>7, <1>1 DEF BeginPass, ListMappings, PassDies, FetchUsers, fleetVars
<1> QED BY <1>1, <1>2, <1>3, <1>4, <1>5, <1>6, <1>7, DirectorySteps

LEMMA ModesKept ==
    ASSUME RegistryTyped, [RegistryNext]_registryVars
    PROVE  ModesTyped'
<1> ModesTyped /\ ClerksTyped BY DEF RegistryTyped
<1>1. CASE UNCHANGED <<override, live, crossing>> BY <1>1 DEF ModesTyped
<1>2. ASSUME NEW mode \in Modes, PatchMode(mode) PROVE ModesTyped' BY <1>2 DEF PatchMode, ModesTyped
<1>3. ASSUME NEW c \in Clerks, ClerkDies(c) PROVE ModesTyped' BY <1>3 DEF ClerkDies, ModesTyped, doorVars
<1>4. ASSUME NEW c \in Clerks, Publish(c) PROVE ModesTyped'
  <2>1. clerk[c].mode \in Modes BY <1>4 DEF Publish, Seated, ClerksTyped, AtEase, Changeover, Signup, Signing
  <2> QED BY <1>4, <2>1 DEF Publish, ModesTyped, registryTold
<1> QED BY <1>1, <1>2, <1>3, <1>4, ModeSteps

LEMMA ToldKept ==
    ASSUME RegistryTyped, [RegistryNext]_registryVars
    PROVE  ToldTyped'
<1> ToldTyped /\ ClerksTyped /\ PassTyped BY DEF RegistryTyped
<1>1. CASE UNCHANGED <<excused, wronged>> BY <1>1 DEF ToldTyped
<1>2. ASSUME NEW n \in Names, NEW code, Register(n, code) PROVE ToldTyped' BY <1>2 DEF Register, ToldTyped
<1>3. ASSUME NEW c \in Clerks, Provision(c) PROVE ToldTyped'
  <2>1. clerk[c] \in Signup BY <1>3, Signs DEF Provision, Seated, Signing
  <2>2. clerk[c].name \in Names BY <2>1 DEF Signup
  <2> QED BY <1>3, <2>2 DEF Provision, ToldTyped
<1>4. ASSUME NEW c \in Clerks, ClerkDies(c) PROVE ToldTyped'
  <2>1. Seated(c, "map") => clerk[c].name \in Names BY Signs DEF Seated, Signing, Signup
  <2> QED BY <1>4, <2>1 DEF ClerkDies, ToldTyped
<1>5. CASE DeleteMappings
  <2>1. DOMAIN pass.current \subseteq Names /\ pass.sure \subseteq Names
    BY <1>5, Fixes, MapsAre DEF DeleteMappings, Fixing
  <2>2. \A m : Misplaced(m) \subseteq Names BY DEF Misplaced
  <2> QED BY <1>5, <2>1, <2>2 DEF DeleteMappings, ToldTyped
<1> QED BY <1>1, <1>2, <1>3, <1>4, <1>5, ToldSteps

LEMMA ClerkMoves ==
    ASSUME ClerksTyped, NEW c \in Clerks, NEW r \in {AtEase} \cup Changeover \cup Signup,
           clerk' = [clerk EXCEPT ![c] = r], r.stage \in {"provision", "map"} => r.server \in Servers
    PROVE  ClerksTyped'
BY DEF ClerksTyped

Taken(c) == clerk[c].code \in DOMAIN invites /\ Redeemable(invites[clerk[c].code])
LEMMA Redeems ==
    ASSUME NEW c \in Clerks, Redeem(c)
    PROVE  \/ /\ Taken(c) /\ invites' = [invites EXCEPT ![clerk[c].code].uses = @ + 1]
              /\ Turns(c, [clerk[c] EXCEPT !.stage = "place", !.redeemed = TRUE, !.pin = invites[clerk[c].code].pin])
           \/ ~Taken(c) /\ UNCHANGED invites /\ clerk[c].gated /\ Rises(c)
           \/ ~Taken(c) /\ UNCHANGED invites /\ ~clerk[c].gated /\ Turns(c, [clerk[c] EXCEPT !.stage = "place"])
<1>1. CASE Taken(c) BY <1>1 DEF Redeem, Taken
<1>2. CASE ~Taken(c) /\ clerk[c].gated BY <1>2 DEF Redeem, Taken
<1>3. CASE ~Taken(c) /\ ~clerk[c].gated BY <1>3 DEF Redeem, Taken
<1> QED BY <1>1, <1>2, <1>3

LEMMA ClerksKept ==
    ASSUME RegistryTyped, [RegistryNext]_registryVars
    PROVE  ClerksTyped'
<1> ClerksTyped /\ CodesTyped /\ FleetTyped /\ ModesTyped BY DEF RegistryTyped
<1>1. CASE UNCHANGED clerk BY <1>1 DEF ClerksTyped
<1>2. ASSUME NEW n \in Names, NEW code \in {NoCode} \cup DOMAIN admitted, Register(n, code) PROVE ClerksTyped'
  <2> DEFINE r == [stage |-> "door", name |-> n, code |-> code, gated |-> FALSE, redeemed |-> FALSE,
                   pin |-> NoCode, server |-> NoCode]
  <2>1. r \in Signup BY DEF Signup, Signing, CodesTyped, NoCode
  <2>2. r.stage = "door" OBVIOUS
  <2> HIDE DEF r
  <2> QED BY <1>2, <2>1, <2>2, ClerkMoves DEF Register, Sits, r
<1>3. ASSUME NEW mode \in Modes, PatchMode(mode) PROVE ClerksTyped'
  BY <1>3, ClerkMoves DEF PatchMode, Sits, Changeover
<1>4. ASSUME NEW c \in Clerks, Rises(c) PROVE ClerksTyped'
  BY <1>4, ClerkMoves DEF Rises, AtEase
<1>5. ASSUME NEW c \in Clerks, NEW r \in Signup, Turns(c, r), r.stage \in {"provision", "map"} => r.server \in Servers
      PROVE  ClerksTyped'
  BY <1>5, ClerkMoves DEF Turns
<1>6. \A c \in Clerks : clerk[c].stage \in Signing => clerk[c] \in Signup BY Signs
<1>7. ASSUME NEW c \in Clerks, Authorize(c) PROVE ClerksTyped'
  <2> DEFINE r == [clerk[c] EXCEPT !.stage = IF clerk[c].code = NoCode THEN "place" ELSE "redeem", !.gated = live # "open"]
  <2>1. r \in Signup /\ r.stage \in {"place", "redeem"} BY <1>6, <1>7 DEF Authorize, Seated, Signing, Signup
  <2> HIDE DEF r
  <2> QED BY <1>4, <1>5, <1>7, <2>1 DEF Authorize, r
<1>8. ASSUME NEW c \in Clerks, Redeem(c) PROVE ClerksTyped'
  <2> DEFINE code == clerk[c].code
             r == [clerk[c] EXCEPT !.stage = "place", !.redeemed = TRUE, !.pin = invites[code].pin]
             q == [clerk[c] EXCEPT !.stage = "place"]
  <2>1. clerk[c] \in Signup BY <1>6, <1>8 DEF Redeem, Seated, Signing
  <2>2. code \in DOMAIN invites => invites[code].pin \in Int BY DEF CodesTyped
  <2>3. q \in Signup /\ q.stage = "place" BY <2>1 DEF Signup, Signing
  <2>4. code \in DOMAIN invites => r \in Signup /\ r.stage = "place" BY <2>1, <2>2 DEF Signup, Signing
  <2>5. ASSUME Taken(c), Turns(c, r) PROVE ClerksTyped'
    <3>1. code \in DOMAIN invites BY <2>5 DEF Taken
    <3> HIDE DEF r, code
    <3> QED BY <1>5, <2>4, <2>5, <3>1
  <2>6. ASSUME Turns(c, q) PROVE ClerksTyped'
    <3> HIDE DEF q
    <3> QED BY <1>5, <2>3, <2>6
  <2>7. CASE Rises(c) BY <1>4, <2>7
  <2> QED BY <1>8, <2>5, <2>6, <2>7, Redeems
<1>9. ASSUME NEW c \in Clerks, PickBackend(c) PROVE ClerksTyped'
  <2>1. clerk[c] \in Signup BY <1>6, <1>9 DEF PickBackend, Seated, Signing
  <2>2. Eligible # {} => Choice(Eligible, clerk[c].pin) \in Servers BY ChoiceIs DEF Eligible
  <2>3. ASSUME NEW b \in Servers
        PROVE  LET r == [clerk[c] EXCEPT !.stage = "provision", !.server = b] IN r \in Signup /\ r.server \in Servers
    BY <2>1 DEF Signup, Signing
  <2> QED BY <1>4, <1>5, <1>9, <2>2, <2>3 DEF PickBackend
<1>10. ASSUME NEW c \in Clerks, Provision(c) PROVE ClerksTyped'
  <2> DEFINE r == [clerk[c] EXCEPT !.stage = "map"]
  <2>1. clerk[c] \in Signup BY <1>6, <1>10 DEF Provision, Seated, Signing
  <2>2. r \in Signup /\ r.server = clerk[c].server /\ clerk[c].server \in Servers
    BY <1>10, <2>1 DEF Signup, Signing, Provision, Seated, ClerksTyped
  <2>3. Rises(c) \/ Turns(c, r) BY <1>10 DEF Provision
  <2> HIDE DEF r
  <2> QED BY <1>4, <1>5, <2>2, <2>3
<1>11. ASSUME NEW c \in Clerks, MapName(c) \/ ClerkDies(c) \/ Publish(c) PROVE ClerksTyped'
  BY <1>4, <1>11 DEF MapName, ClerkDies, Publish
<1>12. ASSUME NEW c \in Clerks, LoadOverrides(c) PROVE ClerksTyped'
  <2>1. [stage |-> "publish", mode |-> override] \in Changeover BY DEF Changeover, ModesTyped
  <2> QED BY <1>12, <2>1, ClerkMoves DEF LoadOverrides, Turns
<1> QED BY <1>1, <1>2, <1>3, <1>7, <1>8, <1>9, <1>10, <1>11, <1>12, ClerkSteps

LEMMA CodesKept ==
    ASSUME RegistryTyped, [RegistryNext]_registryVars
    PROVE  CodesTyped'
<1> CodesTyped /\ ClerksTyped BY DEF RegistryTyped
<1>1. CASE UNCHANGED <<invites, admitted>> BY <1>1 DEF CodesTyped
<1>2. ASSUME NEW c \in Clerks, Redeem(c) PROVE CodesTyped'
  <2>1. UNCHANGED admitted BY <1>2 DEF Redeem, registryTold
  <2>2. CASE UNCHANGED invites BY <1>1, <2>1, <2>2
  <2>3. CASE invites' = [invites EXCEPT ![clerk[c].code].uses = @ + 1]
    <3>1. DOMAIN invites' = DOMAIN invites BY <2>3
    <3>2. \A x \in DOMAIN invites : /\ invites'[x] \in [max : Int, pin : Int, uses : Nat, expired : BOOLEAN]
                                   /\ invites'[x].max = invites[x].max
      <4> TAKE x \in DOMAIN invites
      <4> DEFINE i == invites[x]
      <4>1. i \in [max : Int, pin : Int, uses : Nat, expired : BOOLEAN] BY DEF CodesTyped
      <4>2. invites'[x] = i \/ invites'[x] = [i EXCEPT !.uses = @ + 1] BY <2>3
      <4> HIDE DEF i
      <4>3. invites'[x] \in [max : Int, pin : Int, uses : Nat, expired : BOOLEAN] /\ invites'[x].max = i.max
        BY <4>1, <4>2
      <4> QED BY <4>3 DEF i
    <3> QED BY <2>1, <3>1, <3>2 DEF CodesTyped
  <2> QED BY <1>2, <2>2, <2>3, Redeems
<1>3. ASSUME NEW c \in Clerks, Provision(c) PROVE CodesTyped'
  <2>1. UNCHANGED invites BY <1>3 DEF Provision, doorVars
  <2>2. UNCHANGED admitted \/ \E code : admitted' = [admitted EXCEPT ![code].accounts = @ + 1]
    BY <1>3 DEF Provision
  <2>3. CASE UNCHANGED admitted BY <1>1, <2>1, <2>3
  <2>4. ASSUME NEW code, admitted' = [admitted EXCEPT ![code].accounts = @ + 1] PROVE CodesTyped'
    <3>1. DOMAIN admitted' = DOMAIN admitted BY <2>4
    <3>2. \A x \in DOMAIN admitted : admitted'[x] \in [max : Int, accounts : Nat] /\ admitted'[x].max = admitted[x].max
      BY <2>4 DEF CodesTyped
    <3> QED BY <2>1, <3>1, <3>2 DEF CodesTyped
  <2> QED BY <2>2, <2>3, <2>4
<1>4. ASSUME NEW i \in Invitations, MintInvite(i) PROVE CodesTyped'
  <2>1. PICK k \in Nat : DOMAIN admitted = 1..k BY DEF CodesTyped
  <2>2. Cardinality(DOMAIN admitted) = k BY <2>1, FS_Interval
  <2>3. DOMAIN admitted' = 1..(k + 1) BY <1>4, <2>1, <2>2 DEF MintInvite, Noted
  <2>4. DOMAIN invites' \subseteq DOMAIN admitted' BY <1>4, <2>1, <2>2 DEF MintInvite, Noted, CodesTyped
  <2>5. i.max \in Int /\ i.pin \in Int BY RegistryAssumption
  <2>6. \A code \in DOMAIN admitted' : admitted'[code] \in [max : Int, accounts : Nat]
    BY <1>4, <2>5 DEF MintInvite, Noted, CodesTyped
  <2>7. \A code \in DOMAIN invites' : /\ invites'[code] \in [max : Int, pin : Int, uses : Nat, expired : BOOLEAN]
                                      /\ invites'[code].max = admitted'[code].max
    BY <1>4, <2>5 DEF MintInvite, Noted, CodesTyped
  <2> QED BY <2>3, <2>4, <2>6, <2>7 DEF CodesTyped
<1>5. ASSUME NEW code \in DOMAIN invites, InviteExpires(code) PROVE CodesTyped'
  BY <1>5 DEF InviteExpires, CodesTyped, registryTold
<1>6. ASSUME UNCHANGED admitted, NEW codes, invites' = Restrict(invites, DOMAIN invites \ codes) PROVE CodesTyped'
  BY <1>6 DEF CodesTyped, Restrict
<1> QED BY <1>1, <1>2, <1>3, <1>4, <1>5, <1>6, CodeSteps

LEMMA DesiredIs ==
    ASSUME NEW l \in Lists, NEW rank \in Ranks(DOMAIN l)
    PROVE  /\ DOMAIN Desired(l, rank) = Claimed(l)
           /\ \A n \in Claimed(l) : Desired(l, rank)[n] \in DOMAIN l /\ n \in l[Desired(l, rank)[n]]
<1> SUFFICES ASSUME NEW n \in Claimed(l)
             PROVE  Desired(l, rank)[n] \in DOMAIN l /\ n \in l[Desired(l, rank)[n]]
  BY DEF Desired
<1> DEFINE claimants == {b \in DOMAIN l : n \in l[b]}
           ranks == {rank[b] : b \in claimants}
<1>1. claimants # {} BY DEF Claimed
<1>2. \A b \in DOMAIN l : rank[b] \in Nat
  <2>1. rank \in [DOMAIN l -> 1..Cardinality(DOMAIN l)] BY DEF Ranks
  <2> QED BY <2>1
<1>3. \E k \in ranks : \A j \in ranks : k <= j
  <2>1. ranks \in SUBSET Nat /\ ranks # {} BY <1>1, <1>2
  <2> QED BY <2>1, LeastNatural
<1>4. \E b \in DOMAIN l : n \in l[b] /\ \A d \in DOMAIN l : n \in l[d] => rank[b] <= rank[d] BY <1>3
<1> QED BY <1>4 DEF Desired

LEMMA PassKept ==
    ASSUME RegistryTyped, [RegistryNext]_registryVars
    PROVE  PassTyped'
<1> PassTyped /\ AccountsTyped /\ ClerksTyped BY DEF RegistryTyped
<1>1. CASE UNCHANGED pass BY <1>1 DEF PassTyped
<1>2. ASSUME NEW n, pass' = Disturbed(n) PROVE PassTyped'
  <2>1. CASE pass = NoPass BY <2>1, <1>1, <1>2 DEF Disturbed
  <2>2. CASE pass \in Fetching \cup Fixing BY <1>2, <2>2 DEF Disturbed, PassTyped, NoPass, Fetching, Fixing
  <2> QED BY <2>1, <2>2 DEF PassTyped
<1>3. CASE pass' = NoPass BY <1>3 DEF PassTyped, NoPass
<1>4. ASSUME NEW b \in Servers, FetchUsers(b) PROVE PassTyped'
  <2>1. pass \in Fetching BY <1>4, Fetches DEF FetchUsers
  <2>2. PICK l \in Lists : pass' = [pass EXCEPT !.todo = @ \ {b}, !.lists = l]
    <3>1. homes[b] \in SUBSET Names /\ pass.lists \in Lists BY <2>1 DEF AccountsTyped, Fetching
    <3>2. Noted(pass.lists, b, homes[b]) \in Lists BY <3>1, ListNoted
    <3> QED BY <1>4, <2>1, <3>1, <3>2 DEF FetchUsers, Fetching
  <2>3. pass' \in Fetching BY <2>1, <2>2 DEF Fetching
  <2> QED BY <2>3 DEF PassTyped, Fetching
<1>5. ASSUME NEW n \in Names, Fix(n) PROVE PassTyped'
  <2>1. pass \in Fixing BY <1>5, Fixes DEF Fix
  <2>2. pass' = [pass EXCEPT !.todo = @ \ {n}] BY <1>5 DEF Fix
  <2> QED BY <2>1, <2>2 DEF PassTyped, Fixing
<1>6. CASE BeginPass
  <2>1. \A n \in DOMAIN mappings : n \in Names BY MapsAre DEF AccountsTyped
  <2>2. pass' \in Fetching BY <1>6, <2>1, EmptyLists DEF BeginPass, Fetching
  <2> QED BY <2>2 DEF PassTyped, Fetching
<1>7. CASE ListMappings
  <2>1. pass \in Fetching /\ pass.lists \in Lists BY <1>7, Fetches DEF ListMappings, Fetching
  <2>2. ASSUME NEW rank \in Ranks(DOMAIN pass.lists) PROVE Desired(pass.lists, rank) \in Maps
    <3> DEFINE l == pass.lists
    <3>1. DOMAIN l \subseteq Servers /\ \A b \in DOMAIN l : l[b] \subseteq Names BY <2>1, ListsAre
    <3>2. Claimed(l) \in SUBSET Names BY <3>1 DEF Claimed
    <3>3. \A n \in Claimed(l) : Desired(l, rank)[n] \in Servers BY <2>1, <3>1, DesiredIs
    <3>4. Desired(l, rank) = [n \in Claimed(l) |-> Desired(l, rank)[n]] BY DEF Desired
    <3>5. Desired(l, rank) \in [Claimed(l) -> Servers] BY <3>3, <3>4
    <3> QED BY <3>2, <3>5 DEF Maps
  <2>3. CASE pass' = NoPass BY <2>3, <1>3
  <2>4. ASSUME NEW desired \in Maps, NEW todo \in SUBSET DOMAIN desired,
               pass' = [stage |-> "fix", lists |-> pass.lists, calm |-> pass.calm, sure |-> pass.sure,
                        current |-> mappings, desired |-> desired, todo |-> todo]
        PROVE  PassTyped'
    <3>1. todo \in SUBSET Names BY MapsAre
    <3> QED BY <2>1, <2>4, <3>1 DEF PassTyped, Fetching, Fixing, AccountsTyped
  <2> QED BY <1>7, <2>2, <2>3, <2>4 DEF ListMappings
<1>8. CASE DeleteMappings \/ PassDies BY <1>3, <1>8 DEF DeleteMappings, PassDies
<1>9. CASE \E b \in Servers, n \in Names : DeleteUser(b, n) BY <1>2, <1>9 DEF DeleteUser
<1>10. CASE \E c \in Clerks : Provision(c) \/ MapName(c) BY <1>1, <1>2, <1>10 DEF Provision, MapName
<1> QED BY <1>1, <1>4, <1>5, <1>6, <1>7, <1>8, <1>9, <1>10, DirectorySteps

LEMMA TypedKept == RegistryTyped /\ [RegistryNext]_registryVars => RegistryTyped'
BY FleetKept, AccountsKept, CodesKept, ModesKept, ClerksKept, PassKept, ToldKept DEF RegistryTyped

(* The backends' rows, the accounts, the directory, the invites and the mode keep their types, for any *)
(* names, backends, placements, invitations, requests at a time and bounds.                            *)
THEOREM RegistryTypes == RegistrySpec => []RegistryTypeOK
<1>1. RegistryTyped => RegistryTypeOK
  BY MapsAre DEF RegistryTyped, FleetTyped, AccountsTyped, CodesTyped, ModesTyped, ToldTyped, RegistryTypeOK, Row
<1> QED BY <1>1, TypedStart, TypedKept, PTL DEF RegistrySpec
-----------------------------------------------------------------------------
(* Invites: a signup in a gated mode has redeemed an invite that lets it in, and every use of a capped *)
(* invite is an account or a signup on its way to one.                                                  *)

Fair(r, codes) ==
    /\ r.stage \in {"door", "redeem"} => ~r.redeemed
    /\ r.stage = "redeem" => r.code # NoCode
    /\ r.stage \in {"redeem", "place", "provision"} /\ r.gated => r.code \in DOMAIN codes /\ codes[r.code].max # Referral
    /\ r.stage \in {"place", "provision"} /\ r.gated => r.redeemed
    /\ r.stage \in {"place", "provision"} /\ r.redeemed => r.code \in DOMAIN codes
Gated == \A c \in Clerks : Fair(clerk[c], admitted)

LEMMA MaxesStay ==
    ASSUME RegistryTyped, [RegistryNext]_registryVars
    PROVE  /\ DOMAIN admitted \subseteq DOMAIN admitted'
           /\ \A code \in DOMAIN admitted : admitted'[code].max = admitted[code].max
<1> CodesTyped BY DEF RegistryTyped
<1>1. CASE UNCHANGED admitted BY <1>1
<1>2. ASSUME NEW c \in Clerks, Redeem(c) PROVE UNCHANGED admitted BY <1>2 DEF Redeem, registryTold
<1>3. ASSUME NEW c \in Clerks, Provision(c)
      PROVE  /\ DOMAIN admitted \subseteq DOMAIN admitted'
             /\ \A code \in DOMAIN admitted : admitted'[code].max = admitted[code].max
  <2>1. UNCHANGED admitted \/ \E code : admitted' = [admitted EXCEPT ![code].accounts = @ + 1]
    BY <1>3 DEF Provision
  <2>2. ASSUME NEW code, admitted' = [admitted EXCEPT ![code].accounts = @ + 1]
        PROVE  /\ DOMAIN admitted \subseteq DOMAIN admitted'
               /\ \A other \in DOMAIN admitted : admitted'[other].max = admitted[other].max
    <3>1. DOMAIN admitted' = DOMAIN admitted BY <2>2
    <3>2. ASSUME NEW other \in DOMAIN admitted PROVE admitted'[other].max = admitted[other].max
      <4>1. CASE other = code
        <5>1. admitted'[other] = [admitted[other] EXCEPT !.accounts = @ + 1] BY <2>2, <3>2, <4>1
        <5>2. "max" \in DOMAIN admitted[other] BY <3>2 DEF CodesTyped
        <5> QED BY <5>1, <5>2
      <4>2. CASE other # code BY <2>2, <3>2, <4>2
      <4> QED BY <4>1, <4>2
    <3> QED BY <3>1, <3>2
  <2> QED BY <2>1, <2>2
<1>4. ASSUME NEW i \in Invitations, MintInvite(i)
      PROVE  /\ DOMAIN admitted \subseteq DOMAIN admitted'
             /\ \A code \in DOMAIN admitted : admitted'[code].max = admitted[code].max
  <2>1. PICK k \in Nat : DOMAIN admitted = 1..k BY DEF CodesTyped
  <2>2. Cardinality(DOMAIN admitted) = k BY <2>1, FS_Interval
  <2> QED BY <1>4, <2>1, <2>2 DEF MintInvite, Noted
<1>5. ASSUME NEW code \in DOMAIN invites, InviteExpires(code) PROVE UNCHANGED admitted
  BY <1>5 DEF InviteExpires, registryTold
<1> QED BY <1>1, <1>2, <1>3, <1>4, <1>5, CodeSteps

LEMMA FairGrows ==
    ASSUME RegistryTyped, [RegistryNext]_registryVars
    PROVE  \A r : Fair(r, admitted) => Fair(r, admitted')
BY MaxesStay DEF Fair

LEMMA GatedMoves ==
    ASSUME RegistryTyped, Gated, [RegistryNext]_registryVars, NEW c \in Clerks, NEW r,
           clerk' = [clerk EXCEPT ![c] = r], Fair(r, admitted)
    PROVE  Gated'
<1>1. \A d \in Clerks : clerk'[d] = r \/ clerk'[d] = clerk[d] BY DEF RegistryTyped, ClerksTyped
<1>2. \A d \in Clerks : Fair(clerk'[d], admitted) BY <1>1 DEF Gated
<1> QED BY <1>2, FairGrows DEF Gated

LEMMA GatedKept ==
    ASSUME RegistryTyped, Gated, [RegistryNext]_registryVars
    PROVE  Gated'
<1> ClerksTyped /\ CodesTyped BY DEF RegistryTyped
<1> DEFINE moved(c, r) == clerk' = [clerk EXCEPT ![c] = r] /\ Fair(r, admitted)
<1>1. CASE UNCHANGED clerk BY <1>1, FairGrows DEF Gated
<1>2. Fair(AtEase, admitted) BY DEF Fair, AtEase
<1>3. ASSUME NEW n \in Names, NEW code \in {NoCode} \cup DOMAIN admitted, Register(n, code)
      PROVE  \E c \in Clerks : \E r : moved(c, r)
  <2> DEFINE r == [stage |-> "door", name |-> n, code |-> code, gated |-> FALSE, redeemed |-> FALSE,
                   pin |-> NoCode, server |-> NoCode]
  <2>1. Fair(r, admitted) BY DEF Fair
  <2> HIDE DEF r
  <2> QED BY <1>3, <2>1 DEF Register, Sits, r
<1>4. ASSUME NEW mode \in Modes, PatchMode(mode) PROVE \E c \in Clerks : \E r : moved(c, r)
  <2>1. Fair([stage |-> "reload"], admitted) BY DEF Fair
  <2> QED BY <1>4, <2>1 DEF PatchMode, Sits
<1>5. ASSUME NEW c \in Clerks, Authorize(c) PROVE \E r : moved(c, r)
  <2> DEFINE r == [clerk[c] EXCEPT !.stage = IF clerk[c].code = NoCode THEN "place" ELSE "redeem", !.gated = live # "open"]
  <2>1. clerk[c] \in Signup /\ clerk[c].stage = "door" BY <1>5, Signs DEF Authorize, Seated, Signing
  <2>2. ~clerk[c].redeemed BY <2>1 DEF Gated, Fair
  <2>3. /\ r.stage = IF clerk[c].code = NoCode THEN "place" ELSE "redeem"
        /\ r.gated = (live # "open") /\ r.code = clerk[c].code /\ ~r.redeemed
    BY <2>1, <2>2 DEF Signup
  <2>4. NoCode \notin DOMAIN invites BY DEF CodesTyped, NoCode
  <2>5. ASSUME Authorized(live, clerk[c].code), live # "open"
        PROVE  r.code # NoCode /\ r.code \in DOMAIN admitted /\ admitted[r.code].max # Referral
    <3>1. r.code \in DOMAIN invites /\ invites[r.code].max # Referral BY <2>3, <2>5 DEF Authorized, IsActive
    <3> QED BY <2>4, <3>1 DEF CodesTyped
  <2> HIDE DEF r
  <2>6. Authorized(live, clerk[c].code) => Fair(r, admitted) BY <2>3, <2>5 DEF Fair
  <2> QED BY <1>2, <1>5, <2>6 DEF Authorize, Turns, Rises, r
<1>6. ASSUME NEW c \in Clerks, Redeem(c) PROVE \E r : moved(c, r)
  <2> DEFINE r == [clerk[c] EXCEPT !.stage = "place", !.redeemed = TRUE, !.pin = invites[clerk[c].code].pin]
             q == [clerk[c] EXCEPT !.stage = "place"]
  <2>1. clerk[c] \in Signup /\ clerk[c].stage = "redeem" BY <1>6, Signs DEF Redeem, Seated, Signing
  <2>2. ASSUME Taken(c) PROVE Fair(r, admitted)
    <3>1. r.stage = "place" /\ r.redeemed /\ r.code = clerk[c].code /\ r.gated = clerk[c].gated BY <2>1 DEF Signup
    <3>2. clerk[c].code \in DOMAIN admitted BY <2>2 DEF Taken, CodesTyped
    <3>3. Fair(clerk[c], admitted) BY DEF Gated
    <3> HIDE DEF r
    <3> QED BY <2>1, <3>1, <3>2, <3>3 DEF Fair
  <2>3. ASSUME ~clerk[c].gated PROVE Fair(q, admitted)
    <3>1. q.stage = "place" /\ ~q.gated /\ q.redeemed = clerk[c].redeemed BY <2>1, <2>3 DEF Signup
    <3>2. Fair(clerk[c], admitted) BY DEF Gated
    <3> HIDE DEF q
    <3> QED BY <2>1, <3>1, <3>2 DEF Fair
  <2> HIDE DEF r, q
  <2> QED BY <1>2, <1>6, <2>2, <2>3, Redeems DEF Turns, Rises, r, q
<1>7. ASSUME NEW c \in Clerks, PickBackend(c) PROVE \E r : moved(c, r)
  <2>1. clerk[c] \in Signup /\ clerk[c].stage = "place" BY <1>7, Signs DEF PickBackend, Seated, Signing
  <2>2. ASSUME NEW b PROVE Fair([clerk[c] EXCEPT !.stage = "provision", !.server = b], admitted)
    BY <2>1 DEF Gated, Fair, Signup
  <2> QED BY <1>2, <1>7, <2>2 DEF PickBackend, Turns, Rises
<1>8. ASSUME NEW c \in Clerks, Provision(c) PROVE \E r : moved(c, r)
  <2>1. clerk[c] \in Signup BY <1>8, Signs DEF Provision, Seated, Signing
  <2>2. Fair([clerk[c] EXCEPT !.stage = "map"], admitted) BY <2>1 DEF Fair, Signup
  <2> QED BY <1>2, <1>8, <2>2 DEF Provision, Turns, Rises
<1>9. ASSUME NEW c \in Clerks, MapName(c) \/ ClerkDies(c) \/ Publish(c) PROVE \E r : moved(c, r)
  BY <1>2, <1>9 DEF MapName, ClerkDies, Publish, Rises
<1>10. ASSUME NEW c \in Clerks, LoadOverrides(c) PROVE \E r : moved(c, r)
  <2>1. Fair([stage |-> "publish", mode |-> override], admitted) BY DEF Fair
  <2> QED BY <1>10, <2>1 DEF LoadOverrides, Turns
<1>11. UNCHANGED clerk \/ \E c \in Clerks : \E r : moved(c, r)
  <2> HIDE DEF moved
  <2> QED BY <1>3, <1>4, <1>5, <1>6, <1>7, <1>8, <1>9, <1>10, ClerkSteps
<1> QED BY <1>1, <1>11, GatedMoves

Holds(r, code) == r.stage \in {"place", "provision"} /\ r.redeemed /\ r.code = code
Pending(code) == {c \in Clerks : Holds(clerk[c], code)}
Used(code) == admitted[code].accounts + Cardinality(Pending(code))
Spent ==
    \A code \in DOMAIN admitted : admitted[code].max > 0 =>
        /\ Used(code) <= admitted[code].max
        /\ code \in DOMAIN invites => Used(code) <= invites[code].uses /\ invites[code].uses <= admitted[code].max

LEMMA PendingCounts == \A code : IsFiniteSet(Pending(code)) /\ Cardinality(Pending(code)) \in Nat
BY RegistryAssumption, FS_Subset, FS_CardinalityType DEF Pending

LEMMA PendingMoves ==
    ASSUME ClerksTyped, NEW c \in Clerks, NEW r, clerk' = [clerk EXCEPT ![c] = r], NEW code
    PROVE  Cardinality(Pending(code)') =
              Cardinality(Pending(code)) + (IF Holds(r, code) THEN 1 ELSE 0) - (IF Holds(clerk[c], code) THEN 1 ELSE 0)
<1>1. clerk'[c] = r /\ \A d \in Clerks : d # c => clerk'[d] = clerk[d] BY DEF ClerksTyped
<1>2. Pending(code)' = IF Holds(r, code) THEN Pending(code) \cup {c} ELSE Pending(code) \ {c}
  BY <1>1 DEF Pending
<1>3. c \in Pending(code) <=> Holds(clerk[c], code) BY DEF Pending
<1>4. IsFiniteSet(Pending(code)) /\ Cardinality(Pending(code)) \in Nat BY PendingCounts
<1>5. Cardinality(Pending(code) \cup {c}) = IF c \in Pending(code) THEN Cardinality(Pending(code)) ELSE Cardinality(Pending(code)) + 1
  BY <1>4, FS_AddElement
<1>6. Cardinality(Pending(code) \ {c}) = IF c \in Pending(code) THEN Cardinality(Pending(code)) - 1 ELSE Cardinality(Pending(code))
  BY <1>4, FS_RemoveElement
<1> QED BY <1>2, <1>3, <1>4, <1>5, <1>6

(* Nothing is redeemed: no new hold, no use and no account, and invites may go. *)
LEMMA SpentBySteps ==
    ASSUME RegistryTyped, Spent, UNCHANGED admitted, DOMAIN invites' \subseteq DOMAIN invites,
           \A code \in DOMAIN invites' : invites'[code].uses = invites[code].uses,
           \A code : Cardinality(Pending(code)') <= Cardinality(Pending(code))
    PROVE  Spent'
<1>1. \A code \in DOMAIN admitted :
          /\ admitted[code].accounts \in Nat /\ admitted[code].max \in Int
          /\ code \in DOMAIN invites => invites[code].uses \in Nat
  BY DEF RegistryTyped, CodesTyped
<1>2. \A code : Cardinality(Pending(code)) \in Nat /\ Cardinality(Pending(code)') \in Nat
  <2>1. \A code : IsFiniteSet(Pending(code)') /\ Cardinality(Pending(code)') \in Nat
    BY RegistryAssumption, FS_Subset, FS_CardinalityType DEF Pending
  <2> QED BY <2>1, PendingCounts
<1> SUFFICES ASSUME NEW code \in DOMAIN admitted, admitted[code].max > 0
             PROVE  /\ Used(code)' <= admitted[code].max
                    /\ code \in DOMAIN invites' => Used(code)' <= invites'[code].uses /\ invites'[code].uses <= admitted[code].max
  BY DEF Spent
<1>3. Used(code)' <= Used(code) /\ Used(code)' \in Nat /\ Used(code) \in Nat BY <1>1, <1>2 DEF Used
<1> QED BY <1>1, <1>3 DEF Spent

LEMMA SpentKept ==
    ASSUME RegistryTyped, Gated, Spent, [RegistryNext]_registryVars
    PROVE  Spent'
<1> ClerksTyped /\ CodesTyped BY DEF RegistryTyped
<1> DEFINE quiet == /\ UNCHANGED admitted /\ DOMAIN invites' \subseteq DOMAIN invites
                    /\ \A code \in DOMAIN invites' : invites'[code].uses = invites[code].uses
           none(r) == \A code : ~Holds(r, code)
<1>1. CASE quiet /\ UNCHANGED clerk
  <2>1. \A code : Cardinality(Pending(code)') = Cardinality(Pending(code)) BY <1>1 DEF Pending
  <2>2. \A code : Cardinality(Pending(code)) \in Nat BY PendingCounts
  <2> QED BY <1>1, <2>1, <2>2, SpentBySteps
<1>2. ASSUME quiet, NEW c \in Clerks, NEW r, clerk' = [clerk EXCEPT ![c] = r],
             \A code : Holds(r, code) => Holds(clerk[c], code)
      PROVE  Spent'
  <2>1. ASSUME NEW code PROVE Cardinality(Pending(code)') <= Cardinality(Pending(code))
    <3>1. Cardinality(Pending(code)') =
              Cardinality(Pending(code)) + (IF Holds(r, code) THEN 1 ELSE 0) - (IF Holds(clerk[c], code) THEN 1 ELSE 0)
      BY <1>2, PendingMoves
    <3>2. Cardinality(Pending(code)) \in Nat BY PendingCounts
    <3> QED BY <1>2, <3>1, <3>2
  <2> QED BY <1>2, <2>1, SpentBySteps
<1>3. none(AtEase) BY DEF Holds, AtEase
<1>4. CASE UNCHANGED <<invites, admitted>> /\ \E c \in Clerks : \E r : clerk' = [clerk EXCEPT ![c] = r] /\ none(r)
  BY <1>2, <1>4
<1>5. ASSUME NEW n \in Names, NEW code, Register(n, code) PROVE Spent'
  <2> DEFINE r == [stage |-> "door", name |-> n, code |-> code, gated |-> FALSE, redeemed |-> FALSE,
                   pin |-> NoCode, server |-> NoCode]
  <2>1. none(r) BY DEF Holds
  <2> HIDE DEF r, none
  <2> QED BY <1>4, <1>5, <2>1 DEF Register, Sits, doorVars, r
<1>6. ASSUME NEW mode \in Modes, PatchMode(mode) PROVE Spent'
  <2>1. none([stage |-> "reload"]) BY DEF Holds
  <2> HIDE DEF none
  <2> QED BY <1>4, <1>6, <2>1 DEF PatchMode, Sits, doorVars
<1>7. ASSUME NEW c \in Clerks, Authorize(c) PROVE Spent'
  <2> DEFINE r == [clerk[c] EXCEPT !.stage = IF clerk[c].code = NoCode THEN "place" ELSE "redeem", !.gated = live # "open"]
  <2>1. clerk[c] \in Signup /\ clerk[c].stage = "door" BY <1>7, Signs DEF Authorize, Seated, Signing
  <2>2. ~r.redeemed BY <2>1 DEF Gated, Fair, Signup
  <2>3. none(r) BY <2>2 DEF Holds
  <2> HIDE DEF r, none
  <2> QED BY <1>3, <1>4, <1>7, <2>3 DEF Authorize, Turns, Rises, doorVars, registryTold, r
<1>8. ASSUME NEW c \in Clerks, PickBackend(c) PROVE Spent'
  <2>1. clerk[c] \in Signup /\ clerk[c].stage = "place" BY <1>8, Signs DEF PickBackend, Seated, Signing
  <2>2. UNCHANGED <<invites, admitted>> BY <1>8 DEF PickBackend, doorVars, registryTold
  <2>3. ASSUME NEW b, Turns(c, [clerk[c] EXCEPT !.stage = "provision", !.server = b]) PROVE Spent'
    <3> DEFINE r == [clerk[c] EXCEPT !.stage = "provision", !.server = b]
    <3>1. \A code : Holds(r, code) => Holds(clerk[c], code) BY <2>1 DEF Holds, Signup
    <3>2. clerk' = [clerk EXCEPT ![c] = r] BY <2>3 DEF Turns
    <3> HIDE DEF r
    <3> QED BY <1>2, <2>2, <3>1, <3>2
  <2>4. CASE Rises(c)
    <3> HIDE DEF none
    <3> QED BY <1>3, <1>4, <2>2, <2>4 DEF Rises
  <2> QED BY <1>8, <2>3, <2>4 DEF PickBackend
<1>9. ASSUME NEW c \in Clerks, MapName(c) \/ ClerkDies(c) \/ Publish(c) PROVE Spent'
  <2>1. UNCHANGED <<invites, admitted>> /\ Rises(c)
    BY <1>9 DEF MapName, ClerkDies, Publish, doorVars, registryTold
  <2> HIDE DEF none
  <2> QED BY <1>3, <1>4, <2>1 DEF Rises
<1>10. ASSUME NEW c \in Clerks, LoadOverrides(c) PROVE Spent'
  <2>1. none([stage |-> "publish", mode |-> override]) BY DEF Holds
  <2> HIDE DEF none
  <2> QED BY <1>4, <1>10, <2>1 DEF LoadOverrides, Turns, doorVars, registryTold
<1>11. ASSUME NEW c \in Clerks, Redeem(c) PROVE Spent'
  <2>1. clerk[c] \in Signup /\ clerk[c].stage = "redeem" BY <1>11, Signs DEF Redeem, Seated, Signing
  <2>2. UNCHANGED admitted BY <1>11 DEF Redeem, registryTold
  <2> DEFINE r == [clerk[c] EXCEPT !.stage = "place", !.redeemed = TRUE, !.pin = invites[clerk[c].code].pin]
             q == [clerk[c] EXCEPT !.stage = "place"]
             mine == clerk[c].code
  <2>3. CASE UNCHANGED invites /\ Rises(c)
    <3> HIDE DEF none
    <3> QED BY <1>3, <1>4, <2>2, <2>3 DEF Rises
  <2>4. CASE UNCHANGED invites /\ Turns(c, q)
    <3>1. none(q) BY <2>1 DEF Gated, Fair, Holds, Signup
    <3> HIDE DEF none, q
    <3> QED BY <1>4, <2>2, <2>4, <3>1 DEF Turns
  <2>5. CASE Taken(c) /\ invites' = [invites EXCEPT ![mine].uses = @ + 1] /\ Turns(c, r)
    <3>1. \A code : Holds(r, code) <=> code = mine BY <2>1 DEF Holds, Signup
    <3>2. \A code : ~Holds(clerk[c], code) BY <2>1 DEF Holds
    <3>3. clerk' = [clerk EXCEPT ![c] = r] BY <2>5 DEF Turns
    <3>4. \A code : Cardinality(Pending(code)') = Cardinality(Pending(code)) + (IF code = mine THEN 1 ELSE 0)
      <4> HIDE DEF r
      <4>1. \A code : Cardinality(Pending(code)') = Cardinality(Pending(code)) + (IF Holds(r, code) THEN 1 ELSE 0) - 0
        BY <3>2, <3>3, PendingMoves
      <4> QED BY <3>1, <4>1, PendingCounts
    <3>5. \A code \in DOMAIN admitted :
              /\ admitted[code].accounts \in Nat /\ admitted[code].max \in Int
              /\ code \in DOMAIN invites => invites[code].uses \in Nat /\ invites[code].max = admitted[code].max
      BY DEF CodesTyped
    <3>6. mine \in DOMAIN invites /\ mine \in DOMAIN admitted /\ Redeemable(invites[mine]) BY <2>5 DEF Taken, CodesTyped
    <3>7. /\ DOMAIN invites' = DOMAIN invites
          /\ \A code \in DOMAIN invites : invites'[code].uses = invites[code].uses + (IF code = mine THEN 1 ELSE 0)
      <4>1. \A code \in DOMAIN invites : invites[code] \in [max : Int, pin : Int, uses : Nat, expired : BOOLEAN]
        BY DEF CodesTyped
      <4> QED BY <2>5, <3>6, <4>1
    <3> SUFFICES ASSUME NEW code \in DOMAIN admitted, admitted[code].max > 0
                 PROVE  /\ Used(code)' <= admitted[code].max
                        /\ code \in DOMAIN invites' => Used(code)' <= invites'[code].uses /\ invites'[code].uses <= admitted[code].max
      BY <2>2 DEF Spent
    <3>8. Used(code) \in Nat /\ Used(code)' = Used(code) + (IF code = mine THEN 1 ELSE 0)
      BY <2>2, <3>4, <3>5, PendingCounts DEF Used
    <3>9. CASE code # mine BY <3>5, <3>7, <3>8, <3>9 DEF Spent
    <3>10. CASE code = mine
      <4>1. invites[code].uses < admitted[code].max BY <3>5, <3>6, <3>10 DEF Redeemable, Referral, NoLimit
      <4> QED BY <3>5, <3>6, <3>7, <3>8, <3>10, <4>1 DEF Spent
    <3> QED BY <3>9, <3>10
  <2> QED BY <1>11, <2>3, <2>4, <2>5, Redeems
<1>12. ASSUME NEW c \in Clerks, Provision(c) PROVE Spent'
  <2>1. clerk[c] \in Signup /\ clerk[c].stage = "provision" BY <1>12, Signs DEF Provision, Seated, Signing
  <2>2. UNCHANGED invites BY <1>12 DEF Provision, doorVars
  <2> DEFINE r == [clerk[c] EXCEPT !.stage = "map"]
             mine == clerk[c].code
  <2>3. none(r) BY <2>1 DEF Holds, Signup
  <2>4. (Rises(c) \/ Turns(c, r)) => \E q : clerk' = [clerk EXCEPT ![c] = q] /\ none(q)
    BY <1>3, <2>3 DEF Rises, Turns
  <2>5. CASE UNCHANGED admitted
    <3> HIDE DEF r, none
    <3>1. Rises(c) \/ Turns(c, r) BY <1>12 DEF Provision, r
    <3> QED BY <1>4, <2>2, <2>4, <2>5, <3>1
  <2>6. CASE clerk[c].redeemed /\ admitted' = [admitted EXCEPT ![mine].accounts = @ + 1] /\ Turns(c, r)
    <3>1. \A code : Holds(clerk[c], code) <=> code = mine BY <2>1, <2>6 DEF Holds
    <3>2. clerk' = [clerk EXCEPT ![c] = r] BY <2>6 DEF Turns
    <3>3. \A code : Cardinality(Pending(code)') = Cardinality(Pending(code)) - (IF code = mine THEN 1 ELSE 0)
      <4> HIDE DEF r
      <4>1. \A code : Cardinality(Pending(code)') = Cardinality(Pending(code)) + 0 - (IF Holds(clerk[c], code) THEN 1 ELSE 0)
        BY <2>3, <3>2, PendingMoves
      <4> QED BY <3>1, <4>1, PendingCounts
    <3>4. \A code \in DOMAIN admitted : admitted[code] \in [max : Int, accounts : Nat] BY DEF CodesTyped
    <3>5. DOMAIN admitted' = DOMAIN admitted /\ \A code \in DOMAIN admitted :
              /\ admitted'[code].max = admitted[code].max
              /\ admitted'[code].accounts = admitted[code].accounts + (IF code = mine THEN 1 ELSE 0)
      BY <2>6, <3>4
    <3>6. \A code \in DOMAIN admitted : Used(code)' = Used(code)
      <4> TAKE code \in DOMAIN admitted
      <4>1. admitted[code].accounts \in Nat /\ Cardinality(Pending(code)) \in Nat BY <3>4, PendingCounts
      <4> QED BY <3>3, <3>5, <4>1 DEF Used
    <3> QED BY <2>2, <3>5, <3>6 DEF Spent
  <2>7. \/ UNCHANGED admitted
        \/ clerk[c].redeemed /\ admitted' = [admitted EXCEPT ![mine].accounts = @ + 1] /\ Turns(c, r)
    <3> HIDE DEF r
    <3> QED BY <1>12 DEF Provision, r
  <2> QED BY <2>5, <2>6, <2>7
<1>13. ASSUME NEW i \in Invitations, MintInvite(i) PROVE Spent'
  <2>1. PICK k \in Nat : DOMAIN admitted = 1..k BY DEF CodesTyped
  <2>2. Cardinality(DOMAIN admitted) = k BY <2>1, FS_Interval
  <2>3. UNCHANGED clerk BY <1>13 DEF MintInvite
  <2>4. \A code : Cardinality(Pending(code)') = Cardinality(Pending(code)) BY <2>3 DEF Pending
  <2>5. Cardinality(Pending(k + 1)) = 0
    <3>1. \A c \in Clerks : ~Holds(clerk[c], k + 1) BY <2>1 DEF Gated, Fair, Holds
    <3>2. Pending(k + 1) = {} BY <3>1 DEF Pending
    <3> QED BY <3>2, FS_EmptySet
  <2>6. \A code \in DOMAIN admitted : /\ admitted'[code] = admitted[code]
                                      /\ code \in DOMAIN invites' <=> code \in DOMAIN invites
                                      /\ code \in DOMAIN invites => invites'[code] = invites[code]
    BY <1>13, <2>1, <2>2 DEF MintInvite, Noted, CodesTyped
  <2>7. /\ DOMAIN admitted' = DOMAIN admitted \cup {k + 1}
        /\ admitted'[k + 1] = [max |-> i.max, accounts |-> 0]
        /\ invites'[k + 1] = [max |-> i.max, pin |-> i.pin, uses |-> 0, expired |-> FALSE]
    BY <1>13, <2>1, <2>2 DEF MintInvite, Noted
  <2>8. \A code \in DOMAIN admitted : Used(code)' = Used(code) BY <2>4, <2>6 DEF Used
  <2>9. Used(k + 1)' = 0 BY <2>4, <2>5, <2>7 DEF Used
  <2>10. i.max \in Int BY RegistryAssumption
  <2> QED BY <2>6, <2>7, <2>8, <2>9, <2>10 DEF Spent
<1>14. ASSUME UNCHANGED clerk, NEW code \in DOMAIN invites, InviteExpires(code) PROVE Spent'
  <2>1. \A x \in DOMAIN invites : invites[x] \in [max : Int, pin : Int, uses : Nat, expired : BOOLEAN]
    BY DEF CodesTyped
  <2>2. quiet BY <1>14, <2>1 DEF InviteExpires, registryTold
  <2> QED BY <1>1, <1>14, <2>2
<1>15. ASSUME UNCHANGED clerk, UNCHANGED admitted, NEW codes, invites' = Restrict(invites, DOMAIN invites \ codes)
      PROVE  Spent'
  BY <1>1, <1>15 DEF Restrict
<1>16. CASE UNCHANGED clerk
  <2>1. CASE UNCHANGED <<invites, admitted>> BY <1>1, <1>16, <2>1
  <2> QED BY <1>11, <1>12, <1>13, <1>14, <1>15, <1>16, <2>1, CodeSteps
<1> QED BY <1>5, <1>6, <1>7, <1>8, <1>9, <1>10, <1>11, <1>12, <1>16, ClerkSteps
-----------------------------------------------------------------------------
(* Accounts: while its signups neither overlap nor lose an answer, a name has at most one signup under *)
(* way, no account before that one is provisioned, and a mapping, or a signup about to map it, after.  *)

HomesOf(n) == {b \in Servers : n \in homes[b]}
Ready(n) == n \in DOMAIN mappings \/ \E c \in Asking(n) : clerk[c].stage = "map"
OneHome ==
    \A n \in Names \ excused :
        /\ \A c, d \in Asking(n) : c = d
        /\ \A c \in Asking(n) : clerk[c].stage # "map" => HomesOf(n) = {}
        /\ HomesOf(n) # {} => Ready(n)
        /\ \A b, d \in HomesOf(n) : b = d

(* A change of the mode that crosses no other leaves the stored mode published. *)
OneChange ==
    ~crossing =>
        /\ \A c, d \in Clerks : clerk[c].stage \in Changing /\ clerk[d].stage \in Changing => c = d
        /\ \A c \in Clerks : clerk[c].stage = "publish" => clerk[c].mode = override
        /\ (\A c \in Clerks : clerk[c].stage \notin Changing) => live = override

LEMMA Advances ==
    ASSUME ClerksTyped, NEW c \in Clerks, Authorize(c) \/ Redeem(c) \/ PickBackend(c)
    PROVE  /\ UNCHANGED <<homes, mappings, excused, override, live, crossing>>
           /\ clerk[c].stage \in {"door", "redeem", "place"}
           /\ \E r : /\ clerk' = [clerk EXCEPT ![c] = r]
                     /\ r = AtEase \/ (r.stage \in {"redeem", "place", "provision"} /\ r.name = clerk[c].name)
<1> DEFINE next(r) == r = AtEase \/ (r.stage \in {"redeem", "place", "provision"} /\ r.name = clerk[c].name)
           onward == \E r : clerk' = [clerk EXCEPT ![c] = r] /\ next(r)
<1>1. clerk[c].stage \in {"door", "redeem", "place"} BY DEF Authorize, Redeem, PickBackend, Seated
<1>2. clerk[c] \in Signup BY <1>1, Signs DEF Signing
<1>3. UNCHANGED <<homes, mappings, excused, override, live, crossing>>
  BY DEF Authorize, Redeem, PickBackend, fleetVars, doorVars, registryTold
<1>4. ASSUME NEW r, next(r), clerk' = [clerk EXCEPT ![c] = r] PROVE onward
  <2> HIDE DEF next
  <2> QED BY <1>4
<1>5. ASSUME Rises(c) PROVE onward BY <1>4, <1>5 DEF Rises
<1>6. ASSUME Authorize(c) PROVE onward
  <2> DEFINE r == [clerk[c] EXCEPT !.stage = IF clerk[c].code = NoCode THEN "place" ELSE "redeem", !.gated = live # "open"]
  <2>1. next(r) BY <1>2 DEF Signup
  <2> HIDE DEF r, next, onward
  <2>2. Rises(c) \/ Turns(c, r) BY <1>6 DEF Authorize, r
  <2>3. CASE Turns(c, r) BY <1>4, <2>1, <2>3 DEF Turns
  <2> QED BY <1>5, <2>2, <2>3
<1>7. ASSUME Redeem(c) PROVE onward
  <2> DEFINE r == [clerk[c] EXCEPT !.stage = "place", !.redeemed = TRUE, !.pin = invites[clerk[c].code].pin]
             q == [clerk[c] EXCEPT !.stage = "place"]
  <2>1. next(r) /\ next(q) BY <1>2 DEF Signup
  <2> HIDE DEF r, q, next, onward
  <2>2. Rises(c) \/ Turns(c, r) \/ Turns(c, q) BY <1>7, Redeems DEF r, q
  <2>3. CASE Turns(c, r) BY <1>4, <2>1, <2>3 DEF Turns
  <2>4. CASE Turns(c, q) BY <1>4, <2>1, <2>4 DEF Turns
  <2> QED BY <1>5, <2>2, <2>3, <2>4
<1>8. ASSUME PickBackend(c) PROVE onward
  <2>1. CASE Rises(c) BY <1>5, <2>1
  <2>2. ASSUME NEW b, Turns(c, [clerk[c] EXCEPT !.stage = "provision", !.server = b]) PROVE onward
    <3> DEFINE r == [clerk[c] EXCEPT !.stage = "provision", !.server = b]
    <3>1. next(r) BY <1>2 DEF Signup
    <3>2. clerk' = [clerk EXCEPT ![c] = r] BY <2>2 DEF Turns
    <3> HIDE DEF r, next, onward
    <3> QED BY <1>4, <3>1, <3>2
  <2> HIDE DEF onward
  <2> QED BY <1>8, <2>1, <2>2 DEF PickBackend
<1> QED BY <1>1, <1>3, <1>6, <1>7, <1>8

LEMMA Provisions ==
    ASSUME ClerksTyped, NEW c \in Clerks, Provision(c)
    PROVE  /\ UNCHANGED <<mappings, excused, override, live, crossing>>
           /\ clerk[c] \in Signup /\ clerk[c].stage = "provision" /\ clerk[c].server \in Servers
           /\ \/ UNCHANGED <<homes, pass, wronged>> /\ Rises(c)
              \/ /\ homes' = [homes EXCEPT ![clerk[c].server] = @ \cup {clerk[c].name}]
                 /\ Turns(c, [clerk[c] EXCEPT !.stage = "map"]) /\ pass' = Disturbed(clerk[c].name)
                 /\ wronged' = IF clerk[c].gated /\ (~clerk[c].redeemed \/ admitted[clerk[c].code].max = Referral)
                               THEN wronged \cup {clerk[c].name} ELSE wronged
<1>1. UNCHANGED <<mappings, excused, override, live, crossing>> BY DEF Provision, doorVars
<1>2. clerk[c] \in Signup /\ clerk[c].stage = "provision" BY Signs DEF Provision, Seated, Signing
<1>3. clerk[c].server \in Servers BY <1>2 DEF ClerksTyped
<1>4. CASE Answers(clerk[c].server) /\ clerk[c].name \notin homes[clerk[c].server] BY <1>1, <1>2, <1>3, <1>4 DEF Provision
<1>5. CASE ~(Answers(clerk[c].server) /\ clerk[c].name \notin homes[clerk[c].server])
  BY <1>1, <1>2, <1>3, <1>5 DEF Provision
<1> QED BY <1>4, <1>5

(* Nobody begins a signup and no account is made. *)
LEMMA HomesFewer ==
    ASSUME OneHome, excused \subseteq excused',
           \A n \in Names \ excused' :
              /\ HomesOf(n)' \subseteq HomesOf(n)
              /\ Asking(n)' \subseteq Asking(n)
              /\ \A c \in Asking(n)' : clerk'[c].stage # "map" => clerk[c].stage # "map"
              /\ HomesOf(n)' # {} /\ Ready(n) => Ready(n)'
    PROVE  OneHome'
<1> SUFFICES ASSUME NEW n \in Names \ excused'
             PROVE  /\ \A c, d \in Asking(n)' : c = d
                    /\ \A c \in Asking(n)' : clerk'[c].stage # "map" => HomesOf(n)' = {}
                    /\ HomesOf(n)' # {} => Ready(n)'
                    /\ \A b, d \in HomesOf(n)' : b = d
  BY DEF OneHome
<1> QED BY DEF OneHome

LEMMA HomeBySteps ==
    ASSUME RegistryTyped, OneHome, UNCHANGED <<homes, mappings, excused>>, NEW c \in Clerks, NEW r,
           clerk' = [clerk EXCEPT ![c] = r], clerk[c].stage # "map",
           \/ r.stage \notin Signing
           \/ r.stage \in {"redeem", "place", "provision"} /\ r.name = clerk[c].name /\ clerk[c].stage \in Signing
    PROVE  OneHome'
<1>1. clerk'[c] = r /\ \A d \in Clerks : d # c => clerk'[d] = clerk[d] BY DEF RegistryTyped, ClerksTyped
<1>2. ASSUME NEW n
      PROVE  /\ HomesOf(n)' = HomesOf(n) /\ Asking(n)' \subseteq Asking(n)
             /\ \A d \in Asking(n)' : clerk'[d].stage # "map" => clerk[d].stage # "map"
  BY <1>1 DEF HomesOf, Asking, Signing
<1>3. ASSUME NEW n, Ready(n) PROVE Ready(n)' BY <1>1, <1>3 DEF Ready, Asking
<1> QED BY <1>2, <1>3, HomesFewer

LEMMA HomeKept ==
    ASSUME RegistryTyped, OneHome, [RegistryNext]_registryVars
    PROVE  OneHome'
<1> ClerksTyped /\ AccountsTyped BY DEF RegistryTyped
<1>1. CASE UNCHANGED <<homes, mappings, excused, clerk>>
  <2>1. \A n : HomesOf(n)' = HomesOf(n) /\ Asking(n)' = Asking(n) /\ (Ready(n) => Ready(n)')
    BY <1>1 DEF HomesOf, Asking, Ready
  <2> QED BY <1>1, <2>1, HomesFewer
<1>2. ASSUME NEW c \in Clerks, Authorize(c) \/ Redeem(c) \/ PickBackend(c) PROVE OneHome'
  <2>1. AtEase.stage \notin Signing BY DEF AtEase, Signing
  <2>2. clerk[c].stage # "map" /\ clerk[c].stage \in Signing BY <1>2, Advances DEF Signing
  <2>3. UNCHANGED <<homes, mappings, excused>> BY <1>2, Advances
  <2>4. PICK r : /\ clerk' = [clerk EXCEPT ![c] = r]
                 /\ r = AtEase \/ (r.stage \in {"redeem", "place", "provision"} /\ r.name = clerk[c].name)
    BY <1>2, Advances
  <2> QED BY <2>1, <2>2, <2>3, <2>4, HomeBySteps
<1>3. ASSUME NEW mode \in Modes, PatchMode(mode) PROVE OneHome'
  <2>1. PICK c \in Clerks : clerk[c] = AtEase /\ clerk' = [clerk EXCEPT ![c] = [stage |-> "reload"]]
    BY <1>3 DEF PatchMode, Sits
  <2>2. clerk[c].stage # "map" BY <2>1 DEF AtEase
  <2>3. [stage |-> "reload"].stage \notin Signing BY DEF Signing
  <2>4. UNCHANGED <<homes, mappings, excused>> BY <1>3 DEF PatchMode, fleetVars
  <2> QED BY <2>1, <2>2, <2>3, <2>4, HomeBySteps
<1>4. ASSUME NEW c \in Clerks, LoadOverrides(c) \/ Publish(c) PROVE OneHome'
  <2> DEFINE q == [stage |-> "publish", mode |-> override]
  <2>1. q.stage \notin Signing /\ AtEase.stage \notin Signing BY DEF Signing, AtEase
  <2> HIDE DEF q
  <2>2. clerk[c].stage # "map" BY <1>4 DEF LoadOverrides, Publish, Seated
  <2>3. clerk' = [clerk EXCEPT ![c] = q] \/ clerk' = [clerk EXCEPT ![c] = AtEase]
    BY <1>4 DEF LoadOverrides, Publish, Turns, Rises, q
  <2>4. UNCHANGED <<homes, mappings, excused>> BY <1>4 DEF LoadOverrides, Publish, fleetVars, registryTold
  <2> QED BY <2>1, <2>2, <2>3, <2>4, HomeBySteps
<1>5. ASSUME NEW c \in Clerks, MapName(c) PROVE OneHome'
  <2>1. clerk' = [clerk EXCEPT ![c] = AtEase] /\ clerk[c].stage = "map" BY <1>5 DEF MapName, Rises, Seated
  <2>2. clerk'[c] = AtEase /\ \A d \in Clerks : d # c => clerk'[d] = clerk[d] BY <2>1 DEF ClerksTyped
  <2>3. UNCHANGED <<homes, excused>> /\ DOMAIN mappings' = DOMAIN mappings \cup {clerk[c].name}
    BY <1>5 DEF MapName, Noted, fleetVars, registryTold
  <2>4. \A n : HomesOf(n)' = HomesOf(n) /\ Asking(n)' \subseteq Asking(n)
    BY <2>2, <2>3 DEF HomesOf, Asking, AtEase
  <2>5. \A n, d : d \in Asking(n)' => clerk'[d] = clerk[d] BY <2>2 DEF Asking, AtEase
  <2>6. ASSUME NEW n, Ready(n) PROVE Ready(n)' BY <2>1, <2>2, <2>3, <2>6 DEF Ready, Asking
  <2> QED BY <2>3, <2>4, <2>5, <2>6, HomesFewer
<1>6. ASSUME NEW c \in Clerks, ClerkDies(c) PROVE OneHome'
  <2>1. clerk' = [clerk EXCEPT ![c] = AtEase] BY <1>6 DEF ClerkDies, Rises
  <2>2. clerk'[c] = AtEase /\ \A d \in Clerks : d # c => clerk'[d] = clerk[d] BY <2>1 DEF ClerksTyped
  <2>3. UNCHANGED <<homes, mappings>> /\ excused \subseteq excused' BY <1>6 DEF ClerkDies, fleetVars
  <2>4. \A n : HomesOf(n)' = HomesOf(n) /\ Asking(n)' \subseteq Asking(n)
    BY <2>2, <2>3 DEF HomesOf, Asking, AtEase
  <2>5. \A n, d : d \in Asking(n)' => clerk'[d] = clerk[d] BY <2>2 DEF Asking, AtEase
  <2>6. ASSUME NEW n \in Names \ excused', Ready(n) PROVE Ready(n)'
    <3>1. c \in Asking(n) => clerk[c].stage # "map" BY <1>6 DEF ClerkDies, Seated, Asking
    <3> QED BY <2>2, <2>3, <2>6, <3>1 DEF Ready, Asking
  <2> QED BY <2>3, <2>4, <2>5, <2>6, HomesFewer
<1>7. ASSUME NEW n \in Names, NEW code, Register(n, code) PROVE OneHome'
  <2> DEFINE r == [stage |-> "door", name |-> n, code |-> code, gated |-> FALSE, redeemed |-> FALSE,
                   pin |-> NoCode, server |-> NoCode]
  <2>1. PICK c \in Clerks : clerk[c] = AtEase /\ clerk' = [clerk EXCEPT ![c] = r] BY <1>7 DEF Register, Sits
  <2>2. r.stage = "door" /\ r.name = n OBVIOUS
  <2> HIDE DEF r
  <2>3. clerk'[c] = r /\ \A d \in Clerks : d # c => clerk'[d] = clerk[d] BY <2>1 DEF ClerksTyped
  <2>4. UNCHANGED <<homes, mappings>> /\ excused \subseteq excused' /\ n \notin DOMAIN mappings
    BY <1>7 DEF Register, fleetVars
  <2>5. n \notin excused' => Asking(n) = {} BY <1>7 DEF Register
  <2>6. \A m : HomesOf(m)' = HomesOf(m) BY <2>4 DEF HomesOf
  <2>7. \A m : m # n => Asking(m)' = Asking(m) /\ \A d \in Asking(m) : clerk'[d] = clerk[d]
    BY <2>1, <2>2, <2>3 DEF Asking, AtEase
  <2>8. n \notin excused' => Asking(n)' = {c} /\ HomesOf(n) = {}
    <3>1. Asking(n) = {} => Asking(n)' = {c} BY <2>2, <2>3 DEF Asking
    <3>2. n \notin excused' /\ Asking(n) = {} => HomesOf(n) = {} BY <2>4 DEF OneHome, Ready
    <3> QED BY <2>5, <3>1, <3>2
  <2>9. \A m : m # n => (Ready(m) => Ready(m)') BY <2>4, <2>7 DEF Ready
  <2> SUFFICES ASSUME NEW m \in Names \ excused'
               PROVE  /\ \A x, d \in Asking(m)' : x = d
                      /\ \A x \in Asking(m)' : clerk'[x].stage # "map" => HomesOf(m)' = {}
                      /\ HomesOf(m)' # {} => Ready(m)'
                      /\ \A b, d \in HomesOf(m)' : b = d
    BY DEF OneHome
  <2>10. CASE m = n BY <2>6, <2>8, <2>10
  <2>11. CASE m # n
    <3>1. m \in Names \ excused BY <2>4
    <3> QED BY <2>6, <2>7, <2>9, <2>11, <3>1 DEF OneHome
  <2> QED BY <2>10, <2>11
<1>8. ASSUME NEW c \in Clerks, Provision(c) PROVE OneHome'
  <2> DEFINE n == clerk[c].name
             r == [clerk[c] EXCEPT !.stage = "map"]
  <2>1. clerk[c] \in Signup /\ clerk[c].stage = "provision" /\ clerk[c].server \in Servers BY <1>8, Provisions
  <2>2. UNCHANGED <<mappings, excused>> BY <1>8, Provisions
  <2>3. CASE UNCHANGED homes /\ Rises(c)
    <3>1. AtEase.stage \notin Signing BY DEF AtEase, Signing
    <3> QED BY <2>1, <2>2, <2>3, <3>1, HomeBySteps DEF Rises
  <2>4. CASE homes' = [homes EXCEPT ![clerk[c].server] = @ \cup {n}] /\ Turns(c, r)
    <3>1. r.stage = "map" /\ r.name = n BY <2>1 DEF Signup
    <3> HIDE DEF r
    <3>2. clerk'[c] = r /\ \A d \in Clerks : d # c => clerk'[d] = clerk[d] BY <2>4 DEF Turns, ClerksTyped
    <3>3. \A b \in Servers : homes'[b] = IF b = clerk[c].server THEN homes[b] \cup {n} ELSE homes[b]
      BY <2>4 DEF AccountsTyped
    <3>4. ASSUME NEW m
          PROVE  /\ HomesOf(m)' = IF m = n THEN HomesOf(m) \cup {clerk[c].server} ELSE HomesOf(m)
                 /\ Asking(m)' = Asking(m)
      <4>1. HomesOf(m)' = IF m = n THEN HomesOf(m) \cup {clerk[c].server} ELSE HomesOf(m)
        BY <2>1, <3>3 DEF HomesOf
      <4>2. \A d \in Clerks : d \in Asking(m)' <=> d \in Asking(m) BY <2>1, <3>1, <3>2 DEF Asking
      <4>3. Asking(m)' \subseteq Clerks /\ Asking(m) \subseteq Clerks BY DEF Asking
      <4> QED BY <4>1, <4>2, <4>3
    <3>5. ASSUME NEW m, Ready(m) PROVE Ready(m)'
      <4>1. \A d \in Asking(m) : clerk[d].stage = "map" => clerk'[d].stage = "map" BY <3>1, <3>2 DEF Asking
      <4>2. Asking(m)' = Asking(m) BY <3>4
      <4> QED BY <2>2, <3>5, <4>1, <4>2 DEF Ready
    <3>6. c \in Asking(n) BY <2>1 DEF Asking
    <3>7. Ready(n)' BY <3>1, <3>2, <3>4, <3>6 DEF Ready
    <3> SUFFICES ASSUME NEW m \in Names \ excused
                 PROVE  /\ \A x, d \in Asking(m)' : x = d
                        /\ \A x \in Asking(m)' : clerk'[x].stage # "map" => HomesOf(m)' = {}
                        /\ HomesOf(m)' # {} => Ready(m)'
                        /\ \A b, d \in HomesOf(m)' : b = d
      BY <2>2 DEF OneHome
    <3>8. CASE m # n
      <4>1. c \notin Asking(m) BY <3>8 DEF Asking
      <4>2. \A x \in Asking(m) : clerk'[x] = clerk[x] BY <3>2, <4>1 DEF Asking
      <4> QED BY <3>4, <3>5, <3>8, <4>2 DEF OneHome
    <3>9. CASE m = n
      <4>1. HomesOf(n) = {} BY <2>1, <3>6, <3>9 DEF OneHome
      <4>2. \A x \in Asking(n) : x = c BY <3>6, <3>9 DEF OneHome
      <4> QED BY <3>1, <3>2, <3>4, <3>7, <3>9, <4>1, <4>2
    <3> QED BY <3>8, <3>9
  <2> QED BY <1>8, <2>3, <2>4, Provisions
<1>9. ASSUME UNCHANGED clerk, NEW b \in Servers, NEW n \in Names, DeleteUser(b, n) PROVE OneHome'
  <2>1. UNCHANGED <<mappings, excused>> BY <1>9 DEF DeleteUser, registryTold
  <2>2. \A d \in Servers : homes'[d] \subseteq homes[d] BY <1>9 DEF DeleteUser, AccountsTyped
  <2>3. \A m : HomesOf(m)' \subseteq HomesOf(m) /\ Asking(m)' = Asking(m) /\ (Ready(m) => Ready(m)')
    BY <1>9, <2>1, <2>2 DEF HomesOf, Asking, Ready
  <2> QED BY <1>9, <2>1, <2>3, HomesFewer
<1>10. ASSUME UNCHANGED clerk, NEW n \in Names, Fix(n) PROVE OneHome'
  <2>1. UNCHANGED <<homes, excused>> /\ DOMAIN mappings \subseteq DOMAIN mappings'
    BY <1>10 DEF Fix, Noted, fleetVars, registryTold
  <2>2. \A m : HomesOf(m)' = HomesOf(m) /\ Asking(m)' = Asking(m) /\ (Ready(m) => Ready(m)')
    BY <1>10, <2>1 DEF HomesOf, Asking, Ready
  <2> QED BY <1>10, <2>1, <2>2, HomesFewer
<1>11. ASSUME UNCHANGED clerk, DeleteMappings PROVE OneHome'
  <2> DEFINE gone == {n \in DOMAIN pass.current : Prunable(n)}
  <2>1. /\ UNCHANGED homes /\ DOMAIN mappings' = DOMAIN mappings \ gone
        /\ excused' = excused \cup {n \in gone : \E b \in Servers : n \in homes[b]}
    BY <1>11 DEF DeleteMappings, Restrict, fleetVars
  <2> HIDE DEF gone
  <2>2. \A m : HomesOf(m)' = HomesOf(m) /\ Asking(m)' = Asking(m) BY <1>11, <2>1 DEF HomesOf, Asking
  <2>3. ASSUME NEW m \in Names \ excused', HomesOf(m)' # {}, Ready(m) PROVE Ready(m)'
    <3>1. m \notin gone BY <2>1, <2>3 DEF HomesOf
    <3> QED BY <1>11, <2>1, <2>2, <2>3, <3>1 DEF Ready
  <2>4. excused \subseteq excused' BY <2>1
  <2> QED BY <1>11, <2>2, <2>3, <2>4, HomesFewer
<1>12. CASE UNCHANGED clerk
  <2>1. CASE UNCHANGED <<homes, mappings>>
    <3>1. CASE UNCHANGED excused BY <1>1, <1>12, <2>1, <3>1
    <3> QED BY <1>6, <1>7, <1>8, <1>11, <1>12, <3>1, ToldSteps
  <2>2. BeginPass \/ ListMappings \/ PassDies \/ (\E b \in Servers : FetchUsers(b)) => UNCHANGED <<homes, mappings>>
    BY DEF BeginPass, ListMappings, PassDies, FetchUsers, fleetVars
  <2> QED BY <1>5, <1>8, <1>9, <1>10, <1>11, <1>12, <2>1, <2>2, DirectorySteps
<1> QED BY <1>2, <1>3, <1>4, <1>5, <1>6, <1>7, <1>8, <1>12, ClerkSteps

LEMMA ChangeBySteps ==
    ASSUME ClerksTyped, OneChange, UNCHANGED <<override, live, crossing>>, NEW c \in Clerks, NEW r,
           clerk' = [clerk EXCEPT ![c] = r], clerk[c].stage \notin Changing, r.stage \notin Changing
    PROVE  OneChange'
<1>1. clerk'[c] = r /\ \A d \in Clerks : d # c => clerk'[d] = clerk[d] BY DEF ClerksTyped
<1>2. \A d \in Clerks : /\ clerk'[d].stage \in Changing <=> clerk[d].stage \in Changing
                        /\ clerk'[d].stage \in Changing => clerk'[d] = clerk[d]
  BY <1>1
<1>3. "publish" \in Changing BY DEF Changing
<1> QED BY <1>2, <1>3 DEF OneChange

LEMMA ChangeKept ==
    ASSUME RegistryTyped, OneChange, [RegistryNext]_registryVars
    PROVE  OneChange'
<1> ClerksTyped /\ ModesTyped BY DEF RegistryTyped
<1>1. CASE UNCHANGED <<override, live, crossing, clerk>> BY <1>1 DEF OneChange
<1>2. AtEase.stage \notin Changing BY DEF AtEase, Changing
<1>3. ASSUME NEW c \in Clerks, Authorize(c) \/ Redeem(c) \/ PickBackend(c) PROVE OneChange'
  <2>1. clerk[c].stage \notin Changing /\ UNCHANGED <<override, live, crossing>> BY <1>3, Advances DEF Changing
  <2>2. PICK r : /\ clerk' = [clerk EXCEPT ![c] = r]
                 /\ r = AtEase \/ (r.stage \in {"redeem", "place", "provision"} /\ r.name = clerk[c].name)
    BY <1>3, Advances
  <2>3. r.stage \notin Changing BY <1>2, <2>2 DEF Changing
  <2> QED BY <2>1, <2>2, <2>3, ChangeBySteps
<1>4. ASSUME NEW c \in Clerks, Provision(c) PROVE OneChange'
  <2> DEFINE r == [clerk[c] EXCEPT !.stage = "map"]
  <2>1. /\ clerk[c] \in Signup /\ clerk[c].stage = "provision" /\ UNCHANGED <<override, live, crossing>>
        /\ Rises(c) \/ Turns(c, r)
    BY <1>4, Provisions
  <2>2. r.stage \notin Changing /\ clerk[c].stage \notin Changing BY <2>1 DEF Signup, Changing
  <2> HIDE DEF r
  <2>3. CASE Rises(c) BY <1>2, <2>1, <2>2, <2>3, ChangeBySteps DEF Rises
  <2>4. CASE Turns(c, r) BY <2>1, <2>2, <2>4, ChangeBySteps DEF Turns
  <2> QED BY <2>1, <2>3, <2>4
<1>5. ASSUME NEW n \in Names, NEW code, Register(n, code) PROVE OneChange'
  <2> DEFINE r == [stage |-> "door", name |-> n, code |-> code, gated |-> FALSE, redeemed |-> FALSE,
                   pin |-> NoCode, server |-> NoCode]
  <2>1. r.stage \notin Changing BY DEF Changing
  <2> HIDE DEF r
  <2>2. PICK c \in Clerks : clerk[c] = AtEase /\ clerk' = [clerk EXCEPT ![c] = r] BY <1>5 DEF Register, Sits, r
  <2>3. UNCHANGED <<override, live, crossing>> BY <1>5 DEF Register, doorVars
  <2> QED BY <1>2, <2>1, <2>2, <2>3, ChangeBySteps
<1>6. ASSUME NEW c \in Clerks, MapName(c) PROVE OneChange'
  <2>1. clerk[c].stage \notin Changing /\ UNCHANGED <<override, live, crossing>> /\ Rises(c)
    BY <1>6 DEF MapName, Seated, Changing, doorVars, registryTold
  <2> QED BY <1>2, <2>1, ChangeBySteps DEF Rises
<1>7. ASSUME NEW c \in Clerks, ClerkDies(c) PROVE OneChange'
  <2>1. CASE clerk[c].stage \in Changing
    <3>1. crossing' BY <1>7, <2>1 DEF ClerkDies, Changing
    <3> QED BY <3>1 DEF OneChange
  <2>2. CASE clerk[c].stage \notin Changing
    <3>1. UNCHANGED <<override, live, crossing>>
      BY <1>7, <2>2 DEF ClerkDies, Changing, doorVars, ModesTyped
    <3>2. Rises(c) BY <1>7 DEF ClerkDies
    <3> QED BY <1>2, <2>2, <3>1, <3>2, ChangeBySteps DEF Rises
  <2> QED BY <2>1, <2>2
<1>8. ASSUME NEW mode \in Modes, PatchMode(mode) PROVE OneChange'
  <2>1. PICK c \in Clerks : clerk[c] = AtEase /\ clerk' = [clerk EXCEPT ![c] = [stage |-> "reload"]]
    BY <1>8 DEF PatchMode, Sits
  <2>2. clerk'[c] = [stage |-> "reload"] /\ \A d \in Clerks : d # c => clerk'[d] = clerk[d] BY <2>1 DEF ClerksTyped
  <2>3. crossing' = (crossing \/ \E d \in Clerks : clerk[d].stage \in Changing) BY <1>8 DEF PatchMode, Changing
  <2>4. ~crossing' => \A d \in Clerks : d # c => clerk'[d].stage \notin Changing BY <2>2, <2>3
  <2>5. clerk'[c].stage = "reload" BY <2>2
  <2> QED BY <2>4, <2>5 DEF OneChange, Changing
<1>9. ASSUME NEW c \in Clerks, LoadOverrides(c) PROVE OneChange'
  <2>1. clerk[c].stage = "reload" /\ clerk' = [clerk EXCEPT ![c] = [stage |-> "publish", mode |-> override]]
    BY <1>9 DEF LoadOverrides, Seated, Turns
  <2>2. UNCHANGED <<override, live, crossing>> BY <1>9 DEF LoadOverrides, doorVars, registryTold
  <2>3. /\ clerk'[c].stage = "publish" /\ clerk'[c].mode = override
        /\ \A d \in Clerks : d # c => clerk'[d] = clerk[d]
    BY <2>1 DEF ClerksTyped
  <2> QED BY <2>1, <2>2, <2>3 DEF OneChange, Changing
<1>10. ASSUME NEW c \in Clerks, Publish(c) PROVE OneChange'
  <2>1. clerk[c].stage = "publish" /\ clerk' = [clerk EXCEPT ![c] = AtEase] /\ live' = clerk[c].mode
    BY <1>10 DEF Publish, Seated, Rises
  <2>2. UNCHANGED <<override, crossing>> BY <1>10 DEF Publish, registryTold
  <2>3. clerk'[c] = AtEase /\ \A d \in Clerks : d # c => clerk'[d] = clerk[d] BY <2>1 DEF ClerksTyped
  <2>4. ~crossing => \A d \in Clerks : clerk'[d].stage \notin Changing BY <1>2, <2>1, <2>3 DEF OneChange, Changing
  <2> QED BY <2>1, <2>2, <2>4 DEF OneChange, Changing
<1>11. CASE UNCHANGED clerk
  <2>1. CASE UNCHANGED <<override, live, crossing>> BY <1>1, <1>11, <2>1
  <2> QED BY <1>7, <1>8, <1>10, <2>1, ModeSteps
<1> QED BY <1>3, <1>4, <1>5, <1>6, <1>7, <1>8, <1>9, <1>10, <1>11, ClerkSteps
-----------------------------------------------------------------------------
(* The pass: its lists tell the truth of the names it is sure of, and of every name while nothing *)
(* disturbed it; then the directory is what it was when the pass read it, but for what it fixed.    *)

PassSure ==
    pass # NoPass => \A n \in pass.sure :
        /\ n \in DOMAIN mappings /\ n \in homes[mappings[n]]
        /\ \A b \in DOMAIN pass.lists : n \in pass.lists[b] <=> n \in homes[b]
        /\ pass.stage = "fix" => n \in DOMAIN pass.current /\ n \in homes[pass.current[n]]
Listed == \A b \in DOMAIN pass.lists : pass.lists[b] = homes[b]
FixedSoFar ==
    /\ \A n \in DOMAIN pass.desired \ pass.todo : n \in DOMAIN mappings /\ mappings[n] = pass.desired[n]
    /\ \A n \in DOMAIN mappings \ DOMAIN pass.desired : n \in DOMAIN pass.current /\ mappings[n] = pass.current[n]
PassCalm == pass # NoPass /\ pass.calm => Listed /\ (pass.stage = "fix" => FixedSoFar)
PassFix ==
    pass.stage = "fix" =>
        /\ DOMAIN pass.desired = Claimed(pass.lists)
        /\ \A n \in DOMAIN pass.desired : pass.desired[n] \in DOMAIN pass.lists /\ n \in pass.lists[pass.desired[n]]
PassWell == PassSure /\ PassCalm /\ PassFix

LEMMA PassFields ==
    ASSUME PassTyped, pass # NoPass
    PROVE  /\ pass \in Fetching \cup Fixing /\ pass.lists \in Lists /\ pass.sure \subseteq Names
           /\ pass.calm \in BOOLEAN /\ pass.stage \in {"fetch", "fix"}
BY DEF PassTyped, Fetching, Fixing

(* Something happens to one name. *)
LEMMA PassDisturbed ==
    ASSUME RegistryTyped, PassWell, NEW n \in Names, pass' = Disturbed(n),
           \A b \in Servers : \A m \in Names : m # n => (m \in homes'[b] <=> m \in homes[b]),
           \A m \in Names : m # n /\ m \in DOMAIN mappings => m \in DOMAIN mappings' /\ mappings'[m] = mappings[m]
    PROVE  PassWell'
<1> PassTyped /\ AccountsTyped BY DEF RegistryTyped
<1>1. CASE pass = NoPass
  <2>1. pass' = NoPass BY <1>1 DEF Disturbed
  <2> QED BY <2>1 DEF PassWell, PassSure, PassCalm, PassFix, NoPass
<1>2. CASE pass # NoPass
  <2>1. pass' = [pass EXCEPT !.calm = FALSE, !.sure = @ \ {n}] BY <1>2 DEF Disturbed
  <2>2. pass \in Fetching \cup Fixing BY <1>2, PassFields
  <2>3. pass'.calm = FALSE /\ pass'.sure = pass.sure \ {n} /\ pass'.lists = pass.lists /\ pass'.stage = pass.stage
    BY <2>1, <2>2 DEF Fetching, Fixing
  <2>4. pass.stage = "fix" => pass'.desired = pass.desired /\ pass'.current = pass.current
    BY <2>1, <2>2 DEF Fetching, Fixing
  <2>5. DOMAIN pass.lists \subseteq Servers /\ pass.sure \subseteq Names BY <1>2, PassFields, ListsAre
  <2>6. \A m \in DOMAIN mappings : mappings[m] \in Servers BY MapsAre DEF AccountsTyped
  <2>7. pass.stage = "fix" => \A m \in DOMAIN pass.current : pass.current[m] \in Servers
    <3>1. pass.stage = "fix" => pass.current \in Maps BY Fixes DEF Fixing
    <3> QED BY <3>1, MapsAre
  <2>8. PassSure'
    <3> SUFFICES ASSUME NEW m \in pass'.sure
                 PROVE  /\ m \in DOMAIN mappings' /\ m \in homes'[mappings'[m]]
                        /\ \A b \in DOMAIN pass'.lists : m \in pass'.lists[b] <=> m \in homes'[b]
                        /\ pass'.stage = "fix" => m \in DOMAIN pass'.current /\ m \in homes'[pass'.current[m]]
      BY DEF PassSure
    <3>1. m \in pass.sure /\ m # n /\ m \in Names BY <2>3, <2>5
    <3>2. /\ m \in DOMAIN mappings /\ m \in homes[mappings[m]]
          /\ \A b \in DOMAIN pass.lists : m \in pass.lists[b] <=> m \in homes[b]
          /\ pass.stage = "fix" => m \in DOMAIN pass.current /\ m \in homes[pass.current[m]]
      BY <1>2, <3>1 DEF PassWell, PassSure
    <3>3. m \in DOMAIN mappings' /\ mappings'[m] = mappings[m] BY <3>1, <3>2
    <3> QED BY <2>3, <2>4, <2>5, <2>6, <2>7, <3>1, <3>2, <3>3
  <2>9. PassCalm' BY <2>3 DEF PassCalm
  <2>10. PassFix' BY <2>3, <2>4 DEF PassWell, PassFix
  <2> QED BY <2>8, <2>9, <2>10 DEF PassWell
<1> QED BY <1>1, <1>2

LEMMA PassWellKept ==
    ASSUME RegistryTyped, PassWell, [RegistryNext]_registryVars
    PROVE  PassWell'
<1> ClerksTyped /\ AccountsTyped /\ PassTyped BY DEF RegistryTyped
<1>1. CASE UNCHANGED <<homes, mappings, pass>>
  BY <1>1 DEF PassWell, PassSure, PassCalm, PassFix, Listed, FixedSoFar, Claimed
<1>2. CASE pass' = NoPass BY <1>2 DEF PassWell, PassSure, PassCalm, PassFix, NoPass
<1>3. ASSUME NEW b \in Servers, NEW n \in Names, DeleteUser(b, n) PROVE PassWell'
  <2>1. pass' = Disturbed(n) /\ UNCHANGED mappings BY <1>3 DEF DeleteUser
  <2>2. \A d \in Servers : homes'[d] = IF d = b THEN homes[d] \ {n} ELSE homes[d]
    BY <1>3 DEF DeleteUser, AccountsTyped
  <2> QED BY <2>1, <2>2, PassDisturbed
<1>4. ASSUME NEW c \in Clerks, Provision(c) PROVE PassWell'
  <2>1. UNCHANGED mappings /\ clerk[c] \in Signup BY <1>4, Provisions
  <2>2. CASE UNCHANGED <<homes, pass>> BY <1>1, <2>1, <2>2
  <2>3. CASE homes' = [homes EXCEPT ![clerk[c].server] = @ \cup {clerk[c].name}] /\ pass' = Disturbed(clerk[c].name)
    <3>1. clerk[c].name \in Names BY <2>1 DEF Signup
    <3>2. \A d \in Servers : homes'[d] = IF d = clerk[c].server THEN homes[d] \cup {clerk[c].name} ELSE homes[d]
      BY <2>3 DEF AccountsTyped
    <3> QED BY <2>1, <2>3, <3>1, <3>2, PassDisturbed
  <2> QED BY <1>4, <2>2, <2>3, Provisions
<1>5. ASSUME NEW c \in Clerks, MapName(c) PROVE PassWell'
  <2>1. clerk[c] \in Signup BY <1>5, Signs DEF MapName, Seated, Signing
  <2>2. clerk[c].name \in Names BY <2>1 DEF Signup
  <2>3. /\ UNCHANGED homes /\ pass' = Disturbed(clerk[c].name)
        /\ mappings' = Noted(mappings, clerk[c].name, clerk[c].server)
    BY <1>5 DEF MapName, fleetVars
  <2>4. \A m \in DOMAIN mappings : m # clerk[c].name => m \in DOMAIN mappings' /\ mappings'[m] = mappings[m]
    BY <2>3 DEF Noted
  <2> QED BY <2>2, <2>3, <2>4, PassDisturbed
<1>6. CASE BeginPass
  <2>1. /\ pass'.stage = "fetch" /\ pass'.lists = << >>
        /\ pass'.sure = {n \in DOMAIN mappings : n \in homes[mappings[n]]}
        /\ UNCHANGED <<homes, mappings>>
    BY <1>6 DEF BeginPass, fleetVars
  <2>2. DOMAIN pass'.lists = {} BY <2>1, EmptyLists
  <2> QED BY <2>1, <2>2 DEF PassWell, PassSure, PassCalm, PassFix, Listed
<1>7. ASSUME NEW b \in Servers, FetchUsers(b) PROVE PassWell'
  <2>1. pass \in Fetching /\ pass.stage = "fetch" /\ pass # NoPass BY <1>7, Fetches DEF FetchUsers, Fetching, NoPass
  <2>2. UNCHANGED <<homes, mappings>> BY <1>7 DEF FetchUsers, fleetVars
  <2>3. PICK l : l \in {pass.lists, Noted(pass.lists, b, homes[b])} /\ pass' = [pass EXCEPT !.todo = @ \ {b}, !.lists = l]
    BY <1>7, <2>1 DEF FetchUsers, Fetching
  <2>4. pass'.stage = "fetch" /\ pass'.lists = l /\ pass'.calm = pass.calm /\ pass'.sure = pass.sure
    BY <2>1, <2>3 DEF Fetching
  <2>5. \A d \in DOMAIN l : (d \in DOMAIN pass.lists /\ l[d] = pass.lists[d]) \/ l[d] = homes[d] BY <2>3 DEF Noted
  <2>6. PassSure' BY <2>1, <2>2, <2>4, <2>5 DEF PassWell, PassSure
  <2>7. PassCalm' BY <2>1, <2>2, <2>4, <2>5 DEF PassWell, PassCalm, Listed
  <2> QED BY <2>4, <2>6, <2>7 DEF PassWell, PassFix
<1>8. CASE ListMappings
  <2>1. pass \in Fetching /\ pass.lists \in Lists /\ pass # NoPass BY <1>8, Fetches DEF ListMappings, Fetching, NoPass
  <2>2. UNCHANGED <<homes, mappings>> BY <1>8 DEF ListMappings, fleetVars
  <2>3. ASSUME NEW rank \in Ranks(DOMAIN pass.lists), NEW todo,
               todo = {n \in DOMAIN Desired(pass.lists, rank) :
                          ~(n \in DOMAIN mappings /\ mappings[n] = Desired(pass.lists, rank)[n])},
               pass' = [stage |-> "fix", lists |-> pass.lists, calm |-> pass.calm, sure |-> pass.sure,
                        current |-> mappings, desired |-> Desired(pass.lists, rank), todo |-> todo]
        PROVE  PassWell'
    <3>1. /\ pass'.stage = "fix" /\ pass'.lists = pass.lists /\ pass'.calm = pass.calm /\ pass'.sure = pass.sure
          /\ pass'.current = mappings /\ pass'.desired = Desired(pass.lists, rank) /\ pass'.todo = todo
      BY <2>3
    <3>2. PassSure' BY <2>1, <2>2, <3>1 DEF PassWell, PassSure
    <3>3. FixedSoFar' BY <2>2, <2>3, <3>1 DEF FixedSoFar
    <3>4. PassCalm' BY <2>1, <2>2, <3>1, <3>3 DEF PassWell, PassCalm, Listed
    <3>5. PassFix' BY <2>1, <3>1, DesiredIs DEF PassFix
    <3> QED BY <3>2, <3>4, <3>5 DEF PassWell
  <2> QED BY <1>2, <1>8, <2>3 DEF ListMappings
<1>9. ASSUME NEW n \in Names, Fix(n) PROVE PassWell'
  <2>1. pass \in Fixing /\ pass.stage = "fix" /\ pass # NoPass BY <1>9, Fixes DEF Fix, Fixing, NoPass
  <2>2. UNCHANGED homes /\ pass' = [pass EXCEPT !.todo = @ \ {n}] /\ mappings' = Noted(mappings, n, pass.desired[n])
    BY <1>9 DEF Fix, fleetVars
  <2>3. /\ pass'.stage = "fix" /\ pass'.lists = pass.lists /\ pass'.calm = pass.calm /\ pass'.sure = pass.sure
        /\ pass'.current = pass.current /\ pass'.desired = pass.desired /\ pass'.todo = pass.todo \ {n}
    BY <2>1, <2>2 DEF Fixing
  <2>4. DOMAIN mappings' = DOMAIN mappings \cup {n} /\ mappings'[n] = pass.desired[n]
        /\ \A m \in DOMAIN mappings : m # n => mappings'[m] = mappings[m]
    BY <2>2 DEF Noted
  <2>5. n \in DOMAIN pass.desired BY <1>9, <2>1 DEF Fix, PassTyped
  <2>6. pass.desired[n] \in DOMAIN pass.lists /\ n \in pass.lists[pass.desired[n]] BY <2>1, <2>5 DEF PassWell, PassFix
  <2>7. PassSure' BY <2>1, <2>2, <2>3, <2>4, <2>6 DEF PassWell, PassSure
  <2>8. FixedSoFar => FixedSoFar' BY <2>3, <2>4, <2>5 DEF FixedSoFar
  <2>9. PassCalm' BY <2>1, <2>2, <2>3, <2>8 DEF PassWell, PassCalm, Listed
  <2>10. PassFix' BY <2>1, <2>3 DEF PassWell, PassFix
  <2> QED BY <2>7, <2>9, <2>10 DEF PassWell
<1>10. CASE DeleteMappings \/ PassDies BY <1>2, <1>10 DEF DeleteMappings, PassDies
<1> QED BY <1>1, <1>3, <1>4, <1>5, <1>6, <1>7, <1>8, <1>9, <1>10, DirectorySteps
-----------------------------------------------------------------------------
LEMMA NothingWronged ==
    ASSUME RegistryTyped, Gated, PassWell, wronged = {}, [RegistryNext]_registryVars
    PROVE  wronged' = {}
<1> ClerksTyped /\ AccountsTyped /\ PassTyped BY DEF RegistryTyped
<1>1. ASSUME NEW n \in Names, NEW code, Register(n, code) PROVE wronged' = {} BY <1>1 DEF Register
<1>2. ASSUME NEW c \in Clerks, ClerkDies(c) PROVE wronged' = {} BY <1>2 DEF ClerkDies
<1>3. ASSUME NEW c \in Clerks, Provision(c) PROVE wronged' = {}
  <2>1. clerk[c].stage = "provision" BY <1>3, Provisions
  <2>2. ~(clerk[c].gated /\ (~clerk[c].redeemed \/ admitted[clerk[c].code].max = Referral))
    BY <2>1 DEF Gated, Fair
  <2> QED BY <1>3, <2>2, Provisions
<1>4. CASE DeleteMappings
  <2> DEFINE gone == {n \in DOMAIN pass.current : Prunable(n)}
             kept == Restrict(mappings, DOMAIN mappings \ gone)
  <2>1. pass \in Fixing /\ pass.stage = "fix" /\ pass # NoPass /\ pass.todo = {}
    BY <1>4, Fixes DEF DeleteMappings, Fixing, NoPass
  <2>2. wronged' = wronged \cup (gone \cap pass.sure) \cup IF pass.calm THEN Misplaced(kept) ELSE {}
    BY <1>4 DEF DeleteMappings
  <2>3. DOMAIN pass.desired = Claimed(pass.lists) BY <2>1 DEF PassWell, PassFix
  <2>4. \A n \in gone : /\ n \notin Claimed(pass.lists) /\ n \in DOMAIN pass.current
                        /\ pass.current[n] \in DOMAIN pass.lists
    BY <2>3 DEF Prunable
  <2>5. gone \cap pass.sure = {}
    <3> SUFFICES ASSUME NEW n \in gone, n \in pass.sure PROVE FALSE
      OBVIOUS
    <3>1. n \in homes[pass.current[n]] /\ (n \in pass.lists[pass.current[n]] <=> n \in homes[pass.current[n]])
      BY <2>1, <2>4 DEF PassWell, PassSure
    <3> QED BY <2>4, <3>1 DEF Claimed
  <2>6. ASSUME pass.calm PROVE Misplaced(kept) = {}
    <3>1. Listed /\ FixedSoFar BY <2>1, <2>6 DEF PassWell, PassCalm
    <3>2. DOMAIN kept = DOMAIN mappings \ gone /\ \A n \in DOMAIN kept : kept[n] = mappings[n] BY DEF Restrict
    <3> SUFFICES ASSUME NEW n \in Names, NEW b \in DOMAIN pass.lists,
                        \/ n \in homes[b] /\ ~(n \in DOMAIN kept /\ n \in homes[kept[n]])
                        \/ n \notin homes[b] /\ n \in DOMAIN kept /\ kept[n] = b
                 PROVE  FALSE
      BY DEF Misplaced
    <3>3. \A d \in DOMAIN pass.lists : pass.lists[d] = homes[d] BY <3>1 DEF Listed
    <3>4. ASSUME n \in DOMAIN pass.desired
          PROVE  /\ n \in DOMAIN mappings /\ mappings[n] = pass.desired[n] /\ n \notin gone
                 /\ n \in homes[pass.desired[n]]
      BY <2>1, <2>3, <2>4, <3>1, <3>3, <3>4 DEF FixedSoFar, PassWell, PassFix
    <3>5. CASE n \in homes[b]
      <4>1. n \in DOMAIN pass.desired BY <2>3, <3>3, <3>5 DEF Claimed
      <4>2. n \in DOMAIN kept /\ n \in homes[kept[n]]
        <5> HIDE DEF gone, kept
        <5> QED BY <3>2, <3>4, <4>1
      <4> HIDE DEF gone, kept
      <4> QED BY <3>5, <4>2
    <3>6. CASE n \notin homes[b] /\ n \in DOMAIN kept /\ kept[n] = b
      <4>1. n \notin DOMAIN pass.desired
        <5> HIDE DEF gone, kept
        <5> QED BY <3>2, <3>4, <3>6
      <4>2. n \in DOMAIN pass.current /\ pass.current[n] = b BY <3>1, <3>2, <3>6, <4>1 DEF FixedSoFar
      <4>3. n \in gone BY <4>1, <4>2 DEF Prunable
      <4> HIDE DEF gone, kept
      <4> QED BY <3>2, <3>6, <4>3
    <3> QED BY <3>5, <3>6
  <2> HIDE DEF gone, kept
  <2> QED BY <2>2, <2>5, <2>6
<1> QED BY <1>1, <1>2, <1>3, <1>4, ToldSteps

DirectoryWell ==
    RegistryTyped /\ Gated /\ Spent /\ OneHome /\ OneChange /\ PassWell /\ wronged = {}

LEMMA DirectoryStart == RegistryInit => DirectoryWell
<1> SUFFICES ASSUME RegistryInit PROVE DirectoryWell
  OBVIOUS
<1>1. RegistryTyped BY TypedStart
<1>2. PICK heard \in SUBSET Servers, settled \in SUBSET Names, p \in Policies : \E mapped \in [settled -> heard] :
          RegistryStart(mapped, heard, p)
  BY DEF RegistryInit
<1>3. PICK mapped \in [settled -> heard] : RegistryStart(mapped, heard, p) BY <1>2
<1>4. \A c \in Clerks : clerk[c].stage = "free" BY <1>3 DEF RegistryStart, AtEase
<1>5. DOMAIN admitted = {} BY <1>3, EmptyLists DEF RegistryStart
<1>6. Gated BY <1>4 DEF Gated, Fair
<1>7. Spent BY <1>5 DEF Spent
<1>8. OneHome
  <2>1. \A n : Asking(n) = {} BY <1>4 DEF Asking
  <2>2. \A b \in Servers : homes[b] = {n \in DOMAIN mappings : mappings[n] = b} BY <1>3 DEF RegistryStart
  <2>3. \A n : HomesOf(n) # {} => n \in DOMAIN mappings BY <2>2 DEF HomesOf
  <2>4. \A n : \A b, d \in HomesOf(n) : b = d BY <2>2 DEF HomesOf
  <2> QED BY <2>1, <2>3, <2>4 DEF OneHome, Ready
<1>9. OneChange BY <1>3, <1>4 DEF OneChange, Changing, RegistryStart
<1>10. PassWell
  <2>1. pass = NoPass BY <1>3 DEF RegistryStart
  <2> QED BY <2>1 DEF PassWell, PassSure, PassCalm, PassFix, NoPass
<1>11. wronged = {} BY <1>3 DEF RegistryStart
<1> QED BY <1>1, <1>6, <1>7, <1>8, <1>9, <1>10, <1>11 DEF DirectoryWell

LEMMA DirectoryKept == DirectoryWell /\ [RegistryNext]_registryVars => DirectoryWell'
BY TypedKept, GatedKept, SpentKept, HomeKept, ChangeKept, PassWellKept, NothingWronged DEF DirectoryWell

(* The resolver's directory is to be relied upon, for any names, backends, placements, invitations,  *)
(* requests at a time and deaths: see DirectoryHolds.                                                 *)
THEOREM DirectoryIsKept == RegistrySpec => []DirectoryHolds
<1>1. ASSUME DirectoryWell PROVE DirectoryHolds
  <2> USE <1>1
  <2> RegistryTyped /\ Spent /\ OneHome /\ OneChange BY DEF DirectoryWell
  <2>1. wronged = {} BY DEF DirectoryWell
  <2>2. ASSUME NEW n \in Names \ excused PROVE Cardinality({b \in Servers : n \in homes[b]}) <= 1
    <3>1. \A b, d \in HomesOf(n) : b = d BY DEF OneHome
    <3>2. HomesOf(n) = {} \/ \E b : HomesOf(n) = {b} BY <3>1
    <3>3. Cardinality(HomesOf(n)) \in {0, 1} BY <3>2, FS_EmptySet, FS_Singleton
    <3> QED BY <3>3 DEF HomesOf
  <2>3. ASSUME NEW code \in DOMAIN admitted, admitted[code].max > 0 PROVE admitted[code].accounts <= admitted[code].max
    <3>1. admitted[code].accounts \in Nat /\ admitted[code].max \in Int BY DEF RegistryTyped, CodesTyped
    <3>2. Cardinality(Pending(code)) \in Nat BY PendingCounts
    <3> QED BY <2>3, <3>1, <3>2 DEF Spent, Used
  <2>4. crossing \/ (\E c \in Clerks : clerk[c].stage \in {"reload", "publish"}) \/ live = override
    BY DEF OneChange, Changing
  <2> QED BY <2>1, <2>2, <2>3, <2>4 DEF DirectoryHolds
<1> QED BY <1>1, DirectoryStart, DirectoryKept, PTL DEF RegistrySpec
-----------------------------------------------------------------------------
(***************************************************************************)
(* A received picture.  Metadata is compared field by field: two functions    *)
(* that give every field the same value have the same columns.                *)
(***************************************************************************)
Exifs == UNION {[fields -> Nat] : fields \in SUBSET ExifFields}

LEMMA ExifIsExif ==
    ASSUME NEW e PROVE IsExif(e) <=> e \in Exifs
PROOF
<1>1. ASSUME IsExif(e) PROVE e \in Exifs
  BY <1>1 DEF IsExif, Exifs
<1>2. ASSUME e \in Exifs PROVE IsExif(e)
  <2>1. PICK fields \in SUBSET ExifFields : e \in [fields -> Nat]
    BY <1>2 DEF Exifs
  <2> QED BY <2>1 DEF IsExif
<1> QED BY <1>1, <1>2

LEMMA EmptiedIsNat == Emptied \in Nat
PROOF BY DEF Emptied

LEMMA LaidOverIs ==
    ASSUME NEW t \in Exifs, NEW b \in Exifs
    PROVE  /\ LaidOver(t, b) \in Exifs
           /\ DOMAIN LaidOver(t, b) = DOMAIN t \cup DOMAIN b
           /\ \A f : Value(LaidOver(t, b), f) = IF f \in DOMAIN t THEN t[f] ELSE Value(b, f)
           /\ \A f \in DOMAIN LaidOver(t, b) : LaidOver(t, b)[f] = IF f \in DOMAIN t THEN t[f] ELSE b[f]
PROOF
<1>1. IsExif(t) /\ IsExif(b)
  BY ExifIsExif
<1>2. DOMAIN LaidOver(t, b) = DOMAIN t \cup DOMAIN b
  BY DEF LaidOver
<1>3. \A f \in DOMAIN LaidOver(t, b) : LaidOver(t, b)[f] = IF f \in DOMAIN t THEN t[f] ELSE b[f]
  BY DEF LaidOver
<1>4. LaidOver(t, b) \in [DOMAIN t \cup DOMAIN b -> Nat]
  BY <1>1 DEF LaidOver, IsExif
<1>5. LaidOver(t, b) \in Exifs
  BY <1>1, <1>4 DEF Exifs, IsExif
<1>6. \A f : Value(LaidOver(t, b), f) = IF f \in DOMAIN t THEN t[f] ELSE Value(b, f)
  BY <1>2, <1>3 DEF Value
<1> QED BY <1>2, <1>3, <1>5, <1>6

LEMMA LaidOverShows ==
    ASSUME NEW t \in Exifs, NEW b \in Exifs, NEW f
    PROVE  Value(LaidOver(t, b), f) = IF f \in DOMAIN t THEN t[f] ELSE Value(b, f)
PROOF
<1>1. \A g : Value(LaidOver(t, b), g) = IF g \in DOMAIN t THEN t[g] ELSE Value(b, g)
  BY LaidOverIs
<1> QED BY <1>1

LEMMA DroppingIs ==
    ASSUME NEW e \in Exifs, NEW gone
    PROVE  /\ Dropping(e, gone) \in Exifs
           /\ DOMAIN Dropping(e, gone) = DOMAIN e \ gone
           /\ \A f : Value(Dropping(e, gone), f) = IF f \in gone THEN Emptied ELSE Value(e, f)
           /\ \A f \in DOMAIN e \ gone : Dropping(e, gone)[f] = e[f]
PROOF
<1>1. IsExif(e)
  BY ExifIsExif
<1>2. DOMAIN Dropping(e, gone) = DOMAIN e \ gone
  BY DEF Dropping, Restrict
<1>3. \A f \in DOMAIN e \ gone : Dropping(e, gone)[f] = e[f]
  BY DEF Dropping, Restrict
<1>4. Dropping(e, gone) \in [DOMAIN e \ gone -> Nat]
  BY <1>1 DEF Dropping, Restrict, IsExif
<1>5. Dropping(e, gone) \in Exifs
  BY <1>1, <1>4 DEF Exifs, IsExif
<1>6. \A f : Value(Dropping(e, gone), f) = IF f \in gone THEN Emptied ELSE Value(e, f)
  BY <1>2, <1>3 DEF Value
<1> QED BY <1>2, <1>3, <1>5, <1>6

LEMMA ColumnsAre ==
    ASSUME NEW e \in Exifs
    PROVE  /\ Columns(e) \in Exifs
           /\ \A f : Value(Columns(e), f) = Value(e, f)
           /\ \A f : f \in DOMAIN Columns(e) <=> Value(e, f) # Emptied
PROOF
<1> DEFINE gone == {f \in DOMAIN e : e[f] = Emptied}
<1>1. Columns(e) = Dropping(e, gone)
  BY DEF Columns
<1>2. \A f : f \in gone <=> f \in DOMAIN e /\ e[f] = Emptied
  OBVIOUS
<1> HIDE DEF gone
<1>3. Columns(e) \in Exifs /\ DOMAIN Columns(e) = DOMAIN e \ gone
  <2>1. Dropping(e, gone) \in Exifs
    BY DroppingIs
  <2>2. DOMAIN Dropping(e, gone) = DOMAIN e \ gone
    BY DroppingIs
  <2> QED BY <1>1, <2>1, <2>2
<1>4. \A f : Value(Columns(e), f) = IF f \in gone THEN Emptied ELSE Value(e, f)
  <2>1. \A f : Value(Dropping(e, gone), f) = IF f \in gone THEN Emptied ELSE Value(e, f)
    BY DroppingIs
  <2> QED BY <1>1, <2>1
<1>5. \A f : Value(Columns(e), f) = Value(e, f)
  BY <1>2, <1>4 DEF Value
<1>6. \A f : f \in DOMAIN Columns(e) <=> Value(e, f) # Emptied
  BY <1>2, <1>3 DEF Value
<1> QED BY <1>3, <1>5, <1>6

(* Two rows of columns, less the same fields, are the same when no other field tells them apart. *)
LEMMA SameColumns ==
    ASSUME NEW a \in Exifs, NEW b \in Exifs, NEW gone,
           \A f \in ExifFields \ gone : Value(a, f) = Value(b, f)
    PROVE  Dropping(Columns(a), gone) = Dropping(Columns(b), gone)
PROOF
<1> DEFINE A == Dropping(Columns(a), gone)
           B == Dropping(Columns(b), gone)
<1>0. IsExif(a) /\ IsExif(b) /\ Columns(a) \in Exifs /\ Columns(b) \in Exifs
  BY ExifIsExif, ColumnsAre
<1>9. \A e \in Exifs : /\ Dropping(e, gone) \in Exifs
                       /\ DOMAIN Dropping(e, gone) = DOMAIN e \ gone
                       /\ \A f \in DOMAIN Dropping(e, gone) : Dropping(e, gone)[f] = e[f]
  <2> SUFFICES ASSUME NEW e \in Exifs
               PROVE  /\ Dropping(e, gone) \in Exifs
                      /\ DOMAIN Dropping(e, gone) = DOMAIN e \ gone
                      /\ \A f \in DOMAIN Dropping(e, gone) : Dropping(e, gone)[f] = e[f]
    OBVIOUS
  <2>1. Dropping(e, gone) \in Exifs
    BY DroppingIs
  <2>2. DOMAIN Dropping(e, gone) = DOMAIN e \ gone
    BY DroppingIs
  <2>3. \A f \in DOMAIN e \ gone : Dropping(e, gone)[f] = e[f]
    BY DroppingIs
  <2> QED BY <2>1, <2>2, <2>3
<1>1. A \in Exifs /\ DOMAIN A = DOMAIN Columns(a) \ gone /\ \A f \in DOMAIN A : A[f] = Columns(a)[f]
  BY <1>0, <1>9
<1>2. B \in Exifs /\ DOMAIN B = DOMAIN Columns(b) \ gone /\ \A f \in DOMAIN B : B[f] = Columns(b)[f]
  BY <1>0, <1>9
<1>3. \A f : Value(a, f) # Emptied => f \in ExifFields
  BY <1>0 DEF Value, IsExif
<1>4. \A f : Value(b, f) # Emptied => f \in ExifFields
  BY <1>0 DEF Value, IsExif
<1>5. DOMAIN A = DOMAIN B
  BY <1>1, <1>2, <1>3, <1>4, ColumnsAre
<1>6. \A f \in DOMAIN A : A[f] = B[f]
  <2> SUFFICES ASSUME NEW f \in DOMAIN A PROVE A[f] = B[f]
    OBVIOUS
  <2>1. f \in DOMAIN Columns(a) /\ f \in DOMAIN Columns(b) /\ f \notin gone
    BY <1>1, <1>2, <1>5
  <2>2. Value(Columns(a), f) = Value(a, f) /\ Value(Columns(b), f) = Value(b, f) /\ Value(a, f) # Emptied
    BY <2>1, ColumnsAre
  <2>3. Columns(a)[f] = Columns(b)[f]
    BY <2>1, <2>2, <1>3 DEF Value
  <2> QED BY <2>3, <1>1, <1>2, <1>5
<1>7. A \in [DOMAIN A -> Nat] /\ B \in [DOMAIN B -> Nat]
  BY <1>1, <1>2, ExifIsExif DEF IsExif
<1> HIDE DEF A, B
<1>8. A = B
  BY <1>5, <1>6, <1>7
<1> QED BY <1>8 DEF A, B

LEMMA ColumnsAgree ==
    ASSUME NEW a \in Exifs, NEW b \in Exifs, \A f \in ExifFields : Value(a, f) = Value(b, f)
    PROVE  Columns(a) = Columns(b)
PROOF
<1>1. Dropping(Columns(a), {}) = Dropping(Columns(b), {})
  BY SameColumns
<1>2. \A e \in Exifs : Dropping(e, {}) = e
  <2> SUFFICES ASSUME NEW e \in Exifs PROVE Dropping(e, {}) = e
    OBVIOUS
  <2>1. IsExif(e)
    BY ExifIsExif
  <2> QED BY <2>1 DEF IsExif, Dropping, Restrict
<1>3. Columns(a) \in Exifs /\ Columns(b) \in Exifs
  BY ColumnsAre
<1> QED BY <1>1, <1>2, <1>3

LEMMA MoreDropped ==
    ASSUME NEW e \in Exifs, NEW f1, NEW f2
    PROVE  Dropping(Dropping(e, f1), f2) = Dropping(e, f2 \cup f1)
PROOF
<1>1. Dropping(e, f1) \in Exifs /\ DOMAIN Dropping(e, f1) = DOMAIN e \ f1
  BY DroppingIs
<1>2. (DOMAIN e \ f1) \ f2 = DOMAIN e \ (f2 \cup f1)
  OBVIOUS
<1> QED BY <1>1, <1>2 DEF Dropping, Restrict

Edits == [set : Exifs, clear : SUBSET ExifFields, base : Exifs, by : {"owner", "proposal"}]
Posts == [at : Nat, exif : Exifs]
Registering == [stage : {"checked"}, overlapped : BOOLEAN, at : Nat, exif : Exifs]
Rows == [held : {TRUE}, remote : Exifs, at : Nat, overrides : Exifs, columns : Exifs]
Proposals == [stage : {"sent", "applying", "applied"}, set : Exifs, clear : SUBSET ExifFields,
              since : SUBSET ExifFields]

(* Every value the code keeps has its type, and the editions leave room for the edits under way. *)
OwnerTyped ==
    /\ exchange \in Exchanges /\ owner \in Exifs /\ asked \in Exifs /\ granted \in BOOLEAN
    /\ editing \subseteq Edits /\ reverted \subseteq ExifFields
Versions == edition \in Nat \ {0} /\ IsFiniteSet(editing) /\ edition + Cardinality(editing) <= MaxEditions
PostsTyped ==
    /\ posts \subseteq Posts /\ \A p \in posts : p.at \in 1..edition
    /\ registrar \in [Registrars -> Registering \cup {NoPost}]
    /\ \A r \in Registrars : registrar[r] # NoPost => registrar[r].at \in 1..edition
CopyTyped ==
    /\ copy \in Rows \cup {NotHeld} /\ (copy # NotHeld => copy.at \in 1..edition)
    /\ wish \in Exifs /\ shadowed \subseteq ExifFields
ProposalTyped == proposal \in Proposals \cup {NoProposal}
ReceivedTyped == OwnerTyped /\ Versions /\ PostsTyped /\ CopyTyped /\ ProposalTyped

(* The owner's row holds what was asked of it, but for what an edit built on an older row undid. *)
OwnerTrue == \A f \in ExifFields \ reverted : Value(owner, f) = Value(asked, f)

(* The overrides are what the recipient wishes to see, and the columns are those of both layers,     *)
(* less (0,0) where a registration took it for no position.                                           *)
OverridesClaimed ==
    /\ ~copy.held => DOMAIN wish = {}
    /\ copy.held => \A f \in ExifFields \ shadowed :
          /\ f \in DOMAIN copy.overrides <=> f \in DOMAIN wish
          /\ f \in DOMAIN wish => copy.overrides[f] = wish[f]
ShowsBoth(row) ==
    LET layers == LaidOver(row.overrides, row.remote) IN
    \/ row.columns = Columns(layers)
    \/ AtNullIsland(layers) /\ row.columns = Dropping(Columns(layers), Gps)
Resolved == copy.held => ShowsBoth(copy)

(* A registration that no other has ended under is still not older than the row it looked at. *)
Newest ==
    /\ ~rewound
    /\ \A r \in Registrars : registrar[r] # NoPost => registrar[r].overlapped \/ ~OlderThanRow(registrar[r])

ReceivedWell == ReceivedTyped /\ OwnerTrue /\ OverridesClaimed /\ Resolved /\ Newest

LEMMA AppliedIs ==
    ASSUME NEW e \in Exifs, NEW set \in Exifs, NEW clear
    PROVE  /\ Applied(e, set, clear) \in Exifs
           /\ \A f : Value(Applied(e, set, clear), f) =
                       IF f \in DOMAIN set THEN set[f] ELSE IF f \in CoupleGps(clear) THEN Emptied ELSE Value(e, f)
PROOF
<1> DEFINE rest == Dropping(e, CoupleGps(clear))
<1>1. rest \in Exifs
  BY DroppingIs
<1>2. \A f : Value(rest, f) = IF f \in CoupleGps(clear) THEN Emptied ELSE Value(e, f)
  BY DroppingIs
<1> HIDE DEF rest
<1>3. LaidOver(set, rest) \in Exifs
  BY <1>1, LaidOverIs
<1>4. \A f : Value(LaidOver(set, rest), f) = IF f \in DOMAIN set THEN set[f] ELSE Value(rest, f)
  BY <1>1, LaidOverShows
<1>5. Applied(e, set, clear) = LaidOver(set, rest)
  BY DEF Applied, rest
<1>6. \A f : Value(Applied(e, set, clear), f) = IF f \in DOMAIN set THEN set[f] ELSE Value(rest, f)
  BY <1>4, <1>5
<1> QED BY <1>2, <1>3, <1>5, <1>6

LEMMA DeltasTyped ==
    ASSUME OwnerTyped, NEW d \in exchange.edits \cup exchange.claims \cup exchange.proposals
    PROVE  d.set \in Exifs /\ d.empty \subseteq ExifFields /\ d.clear \subseteq ExifFields
PROOF
<1>1. IsDelta(d)
  BY ReceivedExifAssumption DEF OwnerTyped
<1>2. IsExif(d.set)
  BY <1>1 DEF IsDelta, IsRow
<1> QED BY <1>1, <1>2, ExifIsExif DEF IsDelta

LEMMA GpsAreFields ==
    ASSUME NEW fields \in SUBSET ExifFields PROVE CoupleGps(fields) \in SUBSET ExifFields
PROOF BY DEF CoupleGps, ExifFields

(* An edit accepted keeps the owner's row true to what was asked. *)
LEMMA AcceptedKeeps ==
    ASSUME ReceivedWell, NEW set \in Exifs, NEW clear \in SUBSET ExifFields, NEW base \in Exifs,
           Accepted(set, clear, base)
    PROVE  /\ owner' \in Exifs /\ asked' \in Exifs /\ reverted' \subseteq ExifFields
           /\ edition' = edition + 1 /\ OwnerTrue'
PROOF
<1> DEFINE touched == DOMAIN set \cup CoupleGps(clear)
<1>1. owner' = Applied(base, set, clear) /\ asked' = Applied(asked, set, clear) /\ edition' = edition + 1
  BY DEF Accepted
<1>2. reverted' = (reverted \ touched) \cup {f \in ExifFields \ touched : Value(base, f) # Value(owner, f)}
  BY DEF Accepted
<1>3. owner \in Exifs /\ asked \in Exifs /\ reverted \subseteq ExifFields
  BY DEF ReceivedWell, ReceivedTyped, OwnerTyped
<1>4. owner' \in Exifs
  BY <1>1, AppliedIs
<1>5. asked' \in Exifs
  BY <1>1, <1>3, AppliedIs
<1>6. \A f : Value(Applied(base, set, clear), f) =
              IF f \in DOMAIN set THEN set[f] ELSE IF f \in CoupleGps(clear) THEN Emptied ELSE Value(base, f)
  BY AppliedIs
<1>7. \A f : Value(Applied(asked, set, clear), f) =
              IF f \in DOMAIN set THEN set[f] ELSE IF f \in CoupleGps(clear) THEN Emptied ELSE Value(asked, f)
  BY <1>3, AppliedIs
<1>8. ASSUME NEW f \in ExifFields \ reverted' PROVE Value(owner', f) = Value(asked', f)
  <2>1. CASE f \in DOMAIN set
    BY <2>1, <1>1, <1>6, <1>7
  <2>2. CASE f \notin DOMAIN set /\ f \in CoupleGps(clear)
    BY <2>2, <1>1, <1>6, <1>7
  <2>3. CASE f \notin touched
    <3>1. f \notin reverted /\ Value(base, f) = Value(owner, f)
      BY <2>3, <1>2, <1>8
    <3>2. Value(owner, f) = Value(asked, f)
      BY <3>1 DEF ReceivedWell, OwnerTrue
    <3>3. Value(Applied(base, set, clear), f) = Value(base, f) /\ Value(Applied(asked, set, clear), f) = Value(asked, f)
      BY <2>3, <1>6, <1>7
    <3> QED BY <3>1, <3>2, <3>3, <1>1
  <2> QED BY <2>1, <2>2, <2>3
<1>9. reverted' \subseteq ExifFields
  BY <1>2, <1>3
<1> QED BY <1>1, <1>4, <1>5, <1>8, <1>9 DEF OwnerTrue

LEMMA RowTyped ==
    ASSUME ReceivedTyped, copy.held
    PROVE  /\ copy \in Rows /\ copy # NotHeld /\ copy.at \in 1..edition /\ copy.at \in Nat
           /\ copy.remote \in Exifs /\ copy.overrides \in Exifs /\ copy.columns \in Exifs
PROOF
<1>1. copy \in Rows \cup {NotHeld} /\ (copy # NotHeld => copy.at \in 1..edition)
  BY DEF ReceivedTyped, CopyTyped
<1>2. copy # NotHeld
  BY DEF NotHeld
<1>3. copy \in Rows
  BY <1>1, <1>2
<1> QED BY <1>1, <1>2, <1>3 DEF Rows

(* What one statement of the recipient makes of its row. *)
LEMMA LocallyApplied ==
    ASSUME ReceivedTyped, copy.held, NEW patch \in Exifs, NEW clear, ApplyLocally(patch, clear)
    PROVE  /\ copy' \in Rows /\ copy'.held /\ copy'.at = copy.at /\ copy'.remote = copy.remote
           /\ ShowsBoth(copy')
           /\ \A f : f \in DOMAIN copy'.overrides <=>
                 IF f \in DOMAIN patch THEN patch[f] # Value(copy.remote, f)
                 ELSE f \in DOMAIN copy.overrides /\ f \notin clear
           /\ \A f \in DOMAIN copy'.overrides :
                 copy'.overrides[f] = IF f \in DOMAIN patch THEN patch[f] ELSE copy.overrides[f]
PROOF
<1>1. /\ copy \in Rows /\ copy.remote \in Exifs /\ copy.overrides \in Exifs
  BY RowTyped
<1> DEFINE rest == Dropping(copy.overrides, clear)
           new == LaidOver(patch, rest)
           gone == {f \in DOMAIN patch : patch[f] = Value(copy.remote, f)}
           kept == Dropping(new, gone)
<1>2. rest \in Exifs
  BY <1>1, DroppingIs
<1>3. DOMAIN rest = DOMAIN copy.overrides \ clear
  BY <1>1, DroppingIs
<1>4. \A f \in DOMAIN copy.overrides \ clear : rest[f] = copy.overrides[f]
  BY <1>1, DroppingIs
<1>5. copy' = [copy EXCEPT !.overrides = kept, !.columns = Columns(LaidOver(new, copy.remote))]
  BY DEF ApplyLocally, NewOverrides, Redundant
<1> HIDE DEF rest
<1>6. new \in Exifs
  BY <1>2, LaidOverIs
<1>7. DOMAIN new = DOMAIN patch \cup DOMAIN rest
  BY <1>2, LaidOverIs
<1>8. \A f \in DOMAIN new : new[f] = IF f \in DOMAIN patch THEN patch[f] ELSE rest[f]
  BY <1>2, LaidOverIs
<1> HIDE DEF new
<1>9. \A f : f \in gone <=> f \in DOMAIN patch /\ patch[f] = Value(copy.remote, f)
  OBVIOUS
<1> HIDE DEF gone
<1>10. kept \in Exifs
  BY <1>6, DroppingIs
<1>11. DOMAIN kept = DOMAIN new \ gone
  BY <1>6, DroppingIs
<1>12. \A f \in DOMAIN new \ gone : kept[f] = new[f]
  BY <1>6, DroppingIs
<1> HIDE DEF kept
<1>13. LaidOver(new, copy.remote) \in Exifs
  BY <1>1, <1>6, LaidOverIs
<1>14. LaidOver(kept, copy.remote) \in Exifs
  BY <1>1, <1>10, LaidOverIs
<1>15. Columns(LaidOver(new, copy.remote)) \in Exifs
  BY <1>13, ColumnsAre
<1>16. /\ copy' \in Rows /\ copy'.held /\ copy'.at = copy.at /\ copy'.remote = copy.remote
       /\ copy'.overrides = kept /\ copy'.columns = Columns(LaidOver(new, copy.remote))
  BY <1>1, <1>5, <1>10, <1>15 DEF Rows
<1>17. \A f : f \in DOMAIN kept <=> IF f \in DOMAIN patch THEN patch[f] # Value(copy.remote, f)
                                   ELSE f \in DOMAIN copy.overrides /\ f \notin clear
  BY <1>3, <1>7, <1>9, <1>11
<1>18. \A f \in DOMAIN kept : kept[f] = IF f \in DOMAIN patch THEN patch[f] ELSE copy.overrides[f]
  BY <1>3, <1>4, <1>7, <1>8, <1>11, <1>12
<1>19. \A f : Value(LaidOver(new, copy.remote), f) = IF f \in DOMAIN new THEN new[f] ELSE Value(copy.remote, f)
  BY <1>1, <1>6, LaidOverShows
<1>20. \A f : Value(LaidOver(kept, copy.remote), f) = IF f \in DOMAIN kept THEN kept[f] ELSE Value(copy.remote, f)
  BY <1>1, <1>10, LaidOverShows
<1>21. \A f : Value(LaidOver(new, copy.remote), f) = Value(LaidOver(kept, copy.remote), f)
  <2> SUFFICES ASSUME NEW f
               PROVE  Value(LaidOver(new, copy.remote), f) = Value(LaidOver(kept, copy.remote), f)
    OBVIOUS
  <2>1. CASE f \in gone
    <3>1. f \in DOMAIN new /\ new[f] = Value(copy.remote, f) /\ f \notin DOMAIN kept
      BY <2>1, <1>7, <1>8, <1>9, <1>11
    <3> QED BY <3>1, <1>19, <1>20
  <2>2. CASE f \notin gone
    <3>1. f \in DOMAIN new <=> f \in DOMAIN kept
      BY <2>2, <1>11
    <3>2. f \in DOMAIN new => kept[f] = new[f]
      BY <2>2, <1>12
    <3> QED BY <3>1, <3>2, <1>19, <1>20
  <2> QED BY <2>1, <2>2
<1>22. Columns(LaidOver(new, copy.remote)) = Columns(LaidOver(kept, copy.remote))
  BY <1>13, <1>14, <1>21, ColumnsAgree
<1>23. ShowsBoth(copy')
  BY <1>16, <1>22 DEF ShowsBoth
<1> QED BY <1>16, <1>17, <1>18, <1>23

LEMMA PostsStay ==
    ASSUME ReceivedTyped, edition' \in {edition, edition + 1}, UNCHANGED postVars PROVE PostsTyped'
PROOF
<1>1. edition \in Nat /\ posts' = posts /\ registrar' = registrar
  BY DEF ReceivedTyped, Versions, postVars
<1>2. 1..edition \subseteq 1..edition'
  BY <1>1
<1> QED BY <1>1, <1>2 DEF ReceivedTyped, PostsTyped

LEMMA CopyStays ==
    ASSUME ReceivedWell, edition' \in {edition, edition + 1}, UNCHANGED copyVars
    PROVE  CopyTyped' /\ OverridesClaimed' /\ Resolved'
PROOF
<1>1. edition \in Nat /\ copy' = copy /\ wish' = wish /\ shadowed' = shadowed
  BY DEF ReceivedWell, ReceivedTyped, Versions, copyVars
<1>2. 1..edition \subseteq 1..edition'
  BY <1>1
<1>3. CopyTyped'
  BY <1>1, <1>2 DEF ReceivedWell, ReceivedTyped, CopyTyped
<1>4. OverridesClaimed'
  BY <1>1 DEF ReceivedWell, OverridesClaimed
<1>5. Resolved'
  BY <1>1 DEF ReceivedWell, Resolved
<1> QED BY <1>3, <1>4, <1>5

LEMMA OwnerStays ==
    ASSUME ReceivedWell, UNCHANGED <<exchange, ownerVars>> PROVE OwnerTyped' /\ Versions' /\ OwnerTrue'
PROOF
<1>1. OwnerTyped'
  BY DEF ReceivedWell, ReceivedTyped, OwnerTyped, ownerVars
<1>2. Versions'
  BY DEF ReceivedWell, ReceivedTyped, Versions, ownerVars
<1>3. OwnerTrue'
  BY DEF ReceivedWell, OwnerTrue, ownerVars
<1> QED BY <1>1, <1>2, <1>3

LEMMA NewestStays ==
    ASSUME Newest, registrar' = registrar, rewound' = rewound, copy'.held => copy.held /\ copy'.at = copy.at
    PROVE  Newest'
PROOF BY DEF Newest, OlderThanRow

LEMMA ReadForEditKeeps ==
    ASSUME ReceivedWell, NEW set \in Exifs, NEW clear \in SUBSET ExifFields, NEW by \in {"owner", "proposal"},
           ReadForEdit(set, clear, by), UNCHANGED <<exchange, owner, edition, granted, asked, reverted>>
    PROVE  OwnerTyped' /\ Versions' /\ OwnerTrue'
PROOF
<1> DEFINE new == [set |-> set, clear |-> clear, base |-> owner, by |-> by]
<1>1. editing' = editing \cup {new} /\ edition + Cardinality(editing) < MaxEditions
  BY DEF ReadForEdit
<1>2. new \in Edits
  BY DEF Edits, ReceivedWell, ReceivedTyped, OwnerTyped
<1>3. OwnerTyped'
  BY <1>1, <1>2 DEF OwnerTyped, ReceivedWell, ReceivedTyped
<1>4. IsFiniteSet(editing) /\ edition \in Nat \ {0} /\ Cardinality(editing) \in Nat
  BY FS_CardinalityType DEF ReceivedWell, ReceivedTyped, Versions
<1> HIDE DEF new
<1>5. IsFiniteSet(editing') /\ Cardinality(editing') \in {Cardinality(editing), Cardinality(editing) + 1}
  BY <1>1, <1>4, FS_AddElement
<1>6. Versions'
  BY <1>1, <1>4, <1>5, ReceivedExifAssumption DEF Versions
<1>7. OwnerTrue'
  BY DEF ReceivedWell, OwnerTrue
<1> QED BY <1>3, <1>6, <1>7

LEMMA StartEditKeeps ==
    ASSUME ReceivedWell, exchange' = exchange, NEW d \in exchange.edits, StartEdit(d) PROVE ReceivedWell'
PROOF
<1>1. d.set \in Exifs /\ d.clear \in SUBSET ExifFields
  BY DeltasTyped DEF ReceivedWell, ReceivedTyped
<1>2. ReadForEdit(d.set, d.clear, "owner") /\ UNCHANGED <<owner, edition, granted, asked, reverted, postVars, copyVars, proposal, rewound>>
  BY DEF StartEdit
<1>3. OwnerTyped' /\ Versions' /\ OwnerTrue'
  BY <1>1, <1>2, ReadForEditKeeps
<1>4. PostsTyped'
  BY <1>2, PostsStay DEF ReceivedWell
<1>5. CopyTyped' /\ OverridesClaimed' /\ Resolved'
  BY <1>2, CopyStays
<1>6. Newest'
  BY <1>2, NewestStays DEF ReceivedWell, postVars, copyVars
<1>7. ProposalTyped'
  BY <1>2 DEF ReceivedWell, ReceivedTyped, ProposalTyped
<1> QED BY <1>3, <1>4, <1>5, <1>6, <1>7 DEF ReceivedWell, ReceivedTyped

LEMMA WriteEditKeeps ==
    ASSUME ReceivedWell, exchange' = exchange, NEW e \in editing, WriteEdit(e) PROVE ReceivedWell'
PROOF
<1>0. e \in Edits
  BY DEF ReceivedWell, ReceivedTyped, OwnerTyped
<1>1. e.set \in Exifs /\ e.clear \in SUBSET ExifFields /\ e.base \in Exifs
  BY <1>0 DEF Edits
<1>2. /\ editing' = editing \ {e} /\ Accepted(e.set, e.clear, e.base)
      /\ UNCHANGED <<granted, postVars, copyVars, rewound, changes>>
  BY DEF WriteEdit
<1>3. owner' \in Exifs /\ asked' \in Exifs /\ reverted' \subseteq ExifFields /\ edition' = edition + 1 /\ OwnerTrue'
  BY <1>1, <1>2, AcceptedKeeps
<1>4. OwnerTyped'
  BY <1>2, <1>3 DEF OwnerTyped, ReceivedWell, ReceivedTyped
<1>5. IsFiniteSet(editing) /\ edition \in Nat \ {0} /\ Cardinality(editing) \in Nat /\ edition + Cardinality(editing) <= MaxEditions
  BY FS_CardinalityType DEF ReceivedWell, ReceivedTyped, Versions
<1>6. IsFiniteSet(editing') /\ Cardinality(editing') = Cardinality(editing) - 1
  BY <1>2, <1>5, FS_RemoveElement
<1>7. Versions'
  BY <1>3, <1>5, <1>6, ReceivedExifAssumption DEF Versions
<1>8. PostsTyped'
  BY <1>2, <1>3, PostsStay DEF ReceivedWell
<1>9. CopyTyped' /\ OverridesClaimed' /\ Resolved'
  BY <1>2, <1>3, CopyStays
<1>10. Newest'
  BY <1>2, NewestStays DEF ReceivedWell, postVars, copyVars
<1>11. ProposalTyped'
  <2>1. proposal' = IF e.by = "proposal" /\ proposal.stage = "applying" THEN [proposal EXCEPT !.stage = "applied"]
                    ELSE proposal
    BY DEF WriteEdit
  <2>2. proposal \in Proposals \cup {NoProposal}
    BY DEF ReceivedWell, ReceivedTyped, ProposalTyped
  <2>3. CASE proposal.stage = "applying"
    <3>1. proposal \in Proposals
      BY <2>2, <2>3 DEF NoProposal
    <3>2. [proposal EXCEPT !.stage = "applied"] \in Proposals
      BY <3>1 DEF Proposals
    <3> QED BY <2>1, <2>2, <3>2 DEF ProposalTyped
  <2> QED BY <2>1, <2>2, <2>3 DEF ProposalTyped
<1> QED BY <1>3, <1>4, <1>7, <1>8, <1>9, <1>10, <1>11 DEF ReceivedWell, ReceivedTyped

LEMMA BatchEditKeeps ==
    ASSUME ReceivedWell, exchange' = exchange, NEW d \in exchange.edits, BatchEdit(d) PROVE ReceivedWell'
PROOF
<1>1. d.set \in Exifs /\ d.clear \in SUBSET ExifFields
  BY DeltasTyped DEF ReceivedWell, ReceivedTyped
<1>2. /\ Accepted(d.set, d.clear, owner) /\ edition + Cardinality(editing) < MaxEditions
      /\ UNCHANGED <<editing, granted, postVars, copyVars, proposal, rewound>>
  BY DEF BatchEdit
<1>3. owner \in Exifs
  BY DEF ReceivedWell, ReceivedTyped, OwnerTyped
<1>4. owner' \in Exifs /\ asked' \in Exifs /\ reverted' \subseteq ExifFields /\ edition' = edition + 1 /\ OwnerTrue'
  BY <1>1, <1>2, <1>3, AcceptedKeeps
<1>5. OwnerTyped'
  BY <1>2, <1>4 DEF OwnerTyped, ReceivedWell, ReceivedTyped
<1>6. IsFiniteSet(editing) /\ edition \in Nat \ {0} /\ Cardinality(editing) \in Nat
  BY FS_CardinalityType DEF ReceivedWell, ReceivedTyped, Versions
<1>7. Versions'
  BY <1>2, <1>4, <1>6, ReceivedExifAssumption DEF Versions
<1>8. PostsTyped'
  BY <1>2, <1>4, PostsStay DEF ReceivedWell
<1>9. CopyTyped' /\ OverridesClaimed' /\ Resolved'
  BY <1>2, <1>4, CopyStays
<1>10. Newest'
  BY <1>2, NewestStays DEF ReceivedWell, postVars, copyVars
<1>11. ProposalTyped'
  BY <1>2 DEF ReceivedWell, ReceivedTyped, ProposalTyped
<1> QED BY <1>4, <1>5, <1>7, <1>8, <1>9, <1>10, <1>11 DEF ReceivedWell, ReceivedTyped

LEMMA WithdrawKeeps ==
    ASSUME ReceivedWell, exchange' = exchange, Withdraw PROVE ReceivedWell'
PROOF
<1>1. granted' = FALSE /\ UNCHANGED <<owner, edition, editing, asked, reverted, postVars, copyVars, proposal, rewound>>
  BY DEF Withdraw
<1>2. OwnerTyped'
  BY <1>1 DEF OwnerTyped, ReceivedWell, ReceivedTyped
<1>3. Versions' /\ OwnerTrue'
  BY <1>1 DEF ReceivedWell, ReceivedTyped, Versions, OwnerTrue
<1>4. PostsTyped'
  BY <1>1, PostsStay DEF ReceivedWell
<1>5. CopyTyped' /\ OverridesClaimed' /\ Resolved'
  BY <1>1, CopyStays
<1>6. Newest'
  BY <1>1, NewestStays DEF ReceivedWell, postVars, copyVars
<1>7. ProposalTyped'
  BY <1>1 DEF ReceivedWell, ReceivedTyped, ProposalTyped
<1> QED BY <1>2, <1>3, <1>4, <1>5, <1>6, <1>7 DEF ReceivedWell, ReceivedTyped

LEMMA AnnounceKeeps ==
    ASSUME ReceivedWell, exchange' = exchange, Announce PROVE ReceivedWell'
PROOF
<1> DEFINE new == [at |-> edition, exif |-> owner]
<1>1. posts' = posts \cup {new} /\ UNCHANGED <<ownerVars, registrar, copyVars, proposal, rewound>>
  BY DEF Announce
<1>2. edition' = edition /\ edition \in Nat \ {0} /\ owner \in Exifs
  BY <1>1 DEF ownerVars, ReceivedWell, ReceivedTyped, Versions, OwnerTyped
<1>3. new \in Posts /\ new.at \in 1..edition
  BY <1>2 DEF Posts
<1>4. PostsTyped'
  BY <1>1, <1>2, <1>3 DEF ReceivedWell, ReceivedTyped, PostsTyped
<1>5. OwnerTyped' /\ Versions' /\ OwnerTrue'
  BY <1>1, OwnerStays
<1>6. CopyTyped' /\ OverridesClaimed' /\ Resolved'
  BY <1>1, <1>2, CopyStays
<1>7. Newest'
  BY <1>1, NewestStays DEF ReceivedWell, copyVars
<1>8. ProposalTyped'
  BY <1>1 DEF ReceivedWell, ReceivedTyped, ProposalTyped
<1> QED BY <1>4, <1>5, <1>6, <1>7, <1>8 DEF ReceivedWell, ReceivedTyped

LEMMA BeginRegistrationKeeps ==
    ASSUME ReceivedWell, exchange' = exchange, NEW r \in Registrars, NEW post \in posts, BeginRegistration(r, post)
    PROVE  ReceivedWell'
PROOF
<1> DEFINE new == [stage |-> "checked", overlapped |-> FALSE, at |-> post.at, exif |-> post.exif]
<1>1. /\ ~OlderThanRow(post) /\ registrar' = [registrar EXCEPT ![r] = new]
      /\ UNCHANGED <<ownerVars, posts, copyVars, proposal, rewound>>
  BY DEF BeginRegistration
<1>2. edition' = edition /\ copy' = copy
  BY <1>1 DEF ownerVars, copyVars
<1>3. post \in Posts /\ post.at \in 1..edition
  BY DEF ReceivedWell, ReceivedTyped, PostsTyped
<1>4. new \in Registering /\ new.at = post.at /\ new.overlapped = FALSE
  BY <1>3 DEF Posts, Registering
<1>5. registrar \in [Registrars -> Registering \cup {NoPost}]
  BY DEF ReceivedWell, ReceivedTyped, PostsTyped
<1> HIDE DEF new
<1>6. PostsTyped'
  BY <1>1, <1>2, <1>3, <1>4, <1>5 DEF ReceivedWell, ReceivedTyped, PostsTyped
<1>7. ~OlderThanRow(new)
  BY <1>1, <1>4 DEF OlderThanRow
<1>8. Newest'
  <2> SUFFICES ASSUME NEW q \in Registrars, registrar'[q] # NoPost
               PROVE  registrar'[q].overlapped \/ ~OlderThanRow(registrar[q])'
    BY <1>1 DEF ReceivedWell, Newest
  <2>1. CASE q = r
    <3>1. registrar'[q] = new
      BY <2>1, <1>1, <1>5
    <3> QED BY <3>1, <1>2, <1>7 DEF OlderThanRow
  <2>2. CASE q # r
    <3>1. registrar'[q] = registrar[q]
      BY <2>2, <1>1, <1>5
    <3> QED BY <3>1, <1>2 DEF ReceivedWell, Newest, OlderThanRow
  <2> QED BY <2>1, <2>2
<1>9. OwnerTyped' /\ Versions' /\ OwnerTrue'
  BY <1>1, OwnerStays
<1>10. CopyTyped' /\ OverridesClaimed' /\ Resolved'
  BY <1>1, <1>2, CopyStays
<1>11. ProposalTyped'
  BY <1>1 DEF ReceivedWell, ReceivedTyped, ProposalTyped
<1> QED BY <1>6, <1>8, <1>9, <1>10, <1>11 DEF ReceivedWell, ReceivedTyped

(* What a registration makes of a snapshot and the overrides. *)
LEMMA Materialized ==
    ASSUME NEW remote \in Exifs, NEW overrides \in Exifs
    PROVE  /\ Materialize(remote, overrides) \in Exifs
           /\ LET layers == LaidOver(overrides, remote) IN
              \/ Materialize(remote, overrides) = Columns(layers)
              \/ AtNullIsland(layers) /\ Materialize(remote, overrides) = Dropping(Columns(layers), Gps)
PROOF
<1> DEFINE layers == LaidOver(overrides, remote)
<1>1. layers \in Exifs
  BY LaidOverIs
<1> HIDE DEF layers
<1>2. Columns(layers) \in Exifs /\ \A f : Value(Columns(layers), f) = Value(layers, f)
  BY <1>1, ColumnsAre
<1>3. AtNullIsland(Columns(layers)) <=> AtNullIsland(layers)
  BY <1>2 DEF AtNullIsland
<1>4. Dropping(Columns(layers), Gps) \in Exifs
  BY <1>2, DroppingIs
<1>5. Materialize(remote, overrides) = IF AtNullIsland(Columns(layers)) THEN Dropping(Columns(layers), Gps) ELSE Columns(layers)
  BY DEF Materialize, DropNullIsland, layers
<1> QED BY <1>2, <1>3, <1>4, <1>5 DEF layers

LEMMA EndRegistrationKeeps ==
    ASSUME ReceivedWell, exchange' = exchange, NEW r \in Registrars, EndRegistration(r) PROVE ReceivedWell'
PROOF
<1> DEFINE post == registrar[r]
           kept == IF copy.held THEN copy.overrides ELSE << >>
<1>1. /\ registrar[r].stage = "checked"
      /\ copy' = [held |-> TRUE, remote |-> post.exif, at |-> post.at, overrides |-> kept,
                  columns |-> Materialize(post.exif, kept)]
      /\ rewound' = (rewound \/ (OlderThanRow(post) /\ ~post.overlapped))
      /\ registrar' = [q \in Registrars |->
            IF q = r \/ registrar[q] = NoPost THEN NoPost ELSE [registrar[q] EXCEPT !.overlapped = TRUE]]
      /\ UNCHANGED <<ownerVars, posts, wish, shadowed, proposal>>
  BY DEF EndRegistration
<1>2. /\ registrar \in [Registrars -> Registering \cup {NoPost}]
      /\ \A q \in Registrars : registrar[q] # NoPost => registrar[q].at \in 1..edition
  BY DEF ReceivedWell, ReceivedTyped, PostsTyped
<1>3. post \in Registering /\ post # NoPost /\ post.at \in 1..edition
  BY <1>1, <1>2 DEF NoPost
<1>4. post.exif \in Exifs /\ post.at \in Nat
  BY <1>3 DEF Registering
<1>5. kept \in Exifs
  <2>1. CASE copy.held
    BY <2>1, RowTyped DEF ReceivedWell
  <2>2. CASE ~copy.held
    <3>1. IsExif(<< >>)
      BY DEF IsExif
    <3> QED BY <2>2, <3>1, ExifIsExif
  <2> QED BY <2>1, <2>2
<1>6. edition' = edition
  BY <1>1 DEF ownerVars
<1>7. Materialize(post.exif, kept) \in Exifs
  BY <1>4, <1>5, Materialized
<1>8. CopyTyped'
  <2>1. copy' \in Rows /\ copy'.at = post.at
    BY <1>1, <1>4, <1>5, <1>7 DEF Rows
  <2> QED BY <2>1, <1>1, <1>3, <1>6 DEF CopyTyped, ReceivedWell, ReceivedTyped
<1>9. Resolved'
  <2>1. \/ Materialize(post.exif, kept) = Columns(LaidOver(kept, post.exif))
        \/ /\ AtNullIsland(LaidOver(kept, post.exif))
           /\ Materialize(post.exif, kept) = Dropping(Columns(LaidOver(kept, post.exif)), Gps)
    BY <1>4, <1>5, Materialized
  <2>2. copy'.overrides = kept /\ copy'.remote = post.exif /\ copy'.columns = Materialize(post.exif, kept)
    BY <1>1
  <2> HIDE DEF post, kept
  <2> QED BY <2>1, <2>2 DEF Resolved, ShowsBoth
<1>10. OverridesClaimed'
  <2>1. copy'.held /\ copy'.overrides = kept /\ wish' = wish /\ shadowed' = shadowed
    BY <1>1
  <2>2. CASE copy.held
    <3>1. kept = copy.overrides
      BY <2>2
    <3> QED BY <2>1, <2>2, <3>1 DEF ReceivedWell, OverridesClaimed
  <2>3. CASE ~copy.held
    <3>1. DOMAIN kept = {} /\ DOMAIN wish = {}
      BY <2>3 DEF ReceivedWell, OverridesClaimed
    <3> QED BY <2>1, <3>1 DEF OverridesClaimed
  <2> QED BY <2>2, <2>3
<1>11. \A q \in Registrars : registrar'[q] # NoPost =>
          /\ registrar'[q] \in Registering /\ registrar'[q].overlapped
          /\ registrar[q] # NoPost /\ registrar'[q].at = registrar[q].at
  BY <1>1, <1>2 DEF Registering
<1>12. PostsTyped'
  <2>1. registrar' \in [Registrars -> Registering \cup {NoPost}]
    BY <1>1, <1>11
  <2>2. \A q \in Registrars : registrar'[q] # NoPost => registrar'[q].at \in 1..edition'
    BY <1>2, <1>6, <1>11
  <2> QED BY <2>1, <2>2, <1>1, <1>6 DEF PostsTyped, ReceivedWell, ReceivedTyped
<1>13. Newest'
  <2>1. ~rewound'
    BY <1>1, <1>3 DEF ReceivedWell, Newest
  <2> QED BY <2>1, <1>11 DEF Newest
<1>14. OwnerTyped' /\ Versions' /\ OwnerTrue'
  BY <1>1, OwnerStays
<1>15. ProposalTyped'
  BY <1>1 DEF ReceivedWell, ReceivedTyped, ProposalTyped
<1> QED BY <1>8, <1>9, <1>10, <1>12, <1>13, <1>14, <1>15 DEF ReceivedWell, ReceivedTyped

LEMMA UnannounceKeeps ==
    ASSUME ReceivedWell, exchange' = exchange, Unannounce PROVE ReceivedWell'
PROOF
<1>1. /\ copy' = NotHeld /\ wish' = << >> /\ shadowed' = {}
      /\ UNCHANGED <<ownerVars, postVars, proposal, rewound>>
  BY DEF Unannounce
<1>2. edition' = edition
  BY <1>1 DEF ownerVars
<1>3. IsExif(<< >>)
  BY DEF IsExif
<1>4. wish' \in Exifs
  BY <1>1, <1>3, ExifIsExif
<1>5. CopyTyped'
  BY <1>1, <1>4 DEF CopyTyped
<1>6. ~copy'.held /\ DOMAIN wish' = {}
  BY <1>1 DEF NotHeld
<1>7. OverridesClaimed' /\ Resolved'
  BY <1>6 DEF OverridesClaimed, Resolved
<1>8. Newest'
  BY <1>1, <1>6, NewestStays DEF ReceivedWell, postVars
<1>9. OwnerTyped' /\ Versions' /\ OwnerTrue'
  BY <1>1, OwnerStays
<1>10. PostsTyped'
  BY <1>1, <1>2, PostsStay DEF ReceivedWell
<1>11. ProposalTyped'
  BY <1>1 DEF ReceivedWell, ReceivedTyped, ProposalTyped
<1> QED BY <1>5, <1>7, <1>8, <1>9, <1>10, <1>11 DEF ReceivedWell, ReceivedTyped

LEMMA PatchTyped ==
    ASSUME NEW set \in Exifs, NEW empty \in SUBSET ExifFields PROVE OverridePatch(set, empty) \in Exifs
PROOF
<1> DEFINE emptied == [f \in empty |-> Emptied]
<1>1. emptied \in Exifs
  BY EmptiedIsNat DEF Exifs
<1>2. LaidOver(set, emptied) \in Exifs
  BY <1>1, LaidOverIs
<1> QED BY <1>2 DEF OverridePatch

LEMMA OverrideKeeps ==
    ASSUME ReceivedWell, exchange' = exchange, NEW d \in exchange.claims, Override(d) PROVE ReceivedWell'
PROOF
<1> DEFINE patch == OverridePatch(d.set, CoupleGps(d.empty))
           clear == CoupleGps(d.clear)
           claimed == {f \in DOMAIN patch : patch[f] # Value(copy.remote, f)}
           put == Restrict(patch, claimed)
           rest == Dropping(wish, DOMAIN patch \cup clear)
<1>1. /\ copy.held /\ ApplyLocally(patch, clear)
      /\ wish' = LaidOver(put, rest) /\ shadowed' = shadowed \ (DOMAIN patch \cup clear)
      /\ proposal' = IF proposal = NoProposal THEN proposal ELSE [proposal EXCEPT !.since = @ \cup DOMAIN patch]
      /\ UNCHANGED <<ownerVars, postVars, rewound>>
  BY DEF Override
<1>2. d.set \in Exifs /\ d.empty \in SUBSET ExifFields /\ d.clear \in SUBSET ExifFields
  BY DeltasTyped DEF ReceivedWell, ReceivedTyped
<1>3. patch \in Exifs
  BY <1>2, GpsAreFields, PatchTyped
<1>4. wish \in Exifs /\ shadowed \subseteq ExifFields
  BY DEF ReceivedWell, ReceivedTyped, CopyTyped
<1>5. edition' = edition
  BY <1>1 DEF ownerVars
<1>6. \A f : f \in claimed <=> f \in DOMAIN patch /\ patch[f] # Value(copy.remote, f)
  OBVIOUS
<1>7. DOMAIN put = claimed /\ \A f \in claimed : put[f] = patch[f]
  BY DEF Restrict
<1>8. put \in Exifs
  <2>1. IsExif(patch)
    BY <1>3, ExifIsExif
  <2>2. IsExif(put)
    BY <2>1, <1>6 DEF IsExif, Restrict
  <2> QED BY <2>2, ExifIsExif
<1>r. /\ rest \in Exifs /\ DOMAIN rest = DOMAIN wish \ (DOMAIN patch \cup clear)
      /\ \A f \in DOMAIN wish \ (DOMAIN patch \cup clear) : rest[f] = wish[f]
  <2> HIDE DEF patch, clear, claimed, put
  <2> DEFINE gone == DOMAIN patch \cup clear
  <2>1. rest = Dropping(wish, gone)
    OBVIOUS
  <2> HIDE DEF gone, rest
  <2>2. rest \in Exifs /\ DOMAIN rest = DOMAIN wish \ gone /\ \A f \in DOMAIN wish \ gone : rest[f] = wish[f]
    BY <1>4, <2>1, DroppingIs
  <2> QED BY <2>2 DEF gone
<1>9. rest \in Exifs
  BY <1>r
<1>10. DOMAIN rest = DOMAIN wish \ (DOMAIN patch \cup clear)
  BY <1>r
<1>11. \A f \in DOMAIN wish \ (DOMAIN patch \cup clear) : rest[f] = wish[f]
  BY <1>r
<1>12. /\ copy' \in Rows /\ copy'.held /\ copy'.at = copy.at /\ ShowsBoth(copy')
       /\ \A f : f \in DOMAIN copy'.overrides <=>
             IF f \in DOMAIN patch THEN patch[f] # Value(copy.remote, f)
             ELSE f \in DOMAIN copy.overrides /\ f \notin clear
       /\ \A f \in DOMAIN copy'.overrides :
             copy'.overrides[f] = IF f \in DOMAIN patch THEN patch[f] ELSE copy.overrides[f]
  BY <1>1, <1>3, LocallyApplied DEF ReceivedWell
<1> HIDE DEF patch, clear, put, rest, claimed
<1>13. LaidOver(put, rest) \in Exifs
  BY <1>8, <1>9, LaidOverIs
<1>14. DOMAIN LaidOver(put, rest) = DOMAIN put \cup DOMAIN rest
  BY <1>8, <1>9, LaidOverIs
<1>15. \A f \in DOMAIN LaidOver(put, rest) : LaidOver(put, rest)[f] = IF f \in DOMAIN put THEN put[f] ELSE rest[f]
  BY <1>8, <1>9, LaidOverIs
<1>16. CopyTyped'
  <2>1. copy.at \in 1..edition
    BY <1>1, RowTyped DEF ReceivedWell
  <2> QED BY <2>1, <1>1, <1>4, <1>5, <1>12, <1>13 DEF CopyTyped
<1>17. Resolved'
  BY <1>12 DEF Resolved
<1>18. OverridesClaimed'
  <2> SUFFICES ASSUME NEW f \in ExifFields \ shadowed'
               PROVE  /\ f \in DOMAIN copy'.overrides <=> f \in DOMAIN wish'
                      /\ f \in DOMAIN wish' => copy'.overrides[f] = wish'[f]
    BY <1>12 DEF OverridesClaimed
  <2>1. CASE f \in DOMAIN patch
    <3>1. f \in DOMAIN wish' <=> f \in claimed
      BY <2>1, <1>1, <1>7, <1>10, <1>14
    <3>2. f \in claimed => wish'[f] = patch[f]
      BY <1>1, <1>7, <1>14, <1>15
    <3>3. f \in DOMAIN copy'.overrides <=> f \in claimed
      BY <2>1, <1>6, <1>12
    <3>4. f \in DOMAIN copy'.overrides => copy'.overrides[f] = patch[f]
      BY <2>1, <1>12
    <3> QED BY <3>1, <3>2, <3>3, <3>4
  <2>2. CASE f \notin DOMAIN patch /\ f \in clear
    <3>1. f \notin DOMAIN wish'
      BY <2>2, <1>1, <1>6, <1>7, <1>10, <1>14
    <3>2. f \notin DOMAIN copy'.overrides
      BY <2>2, <1>12
    <3> QED BY <3>1, <3>2
  <2>3. CASE f \notin DOMAIN patch /\ f \notin clear
    <3>1. f \notin shadowed
      BY <2>3, <1>1
    <3>2. /\ f \in DOMAIN copy.overrides <=> f \in DOMAIN wish
          /\ f \in DOMAIN wish => copy.overrides[f] = wish[f]
      BY <3>1, <1>1 DEF ReceivedWell, OverridesClaimed
    <3>3. f \in DOMAIN wish' <=> f \in DOMAIN wish
      BY <2>3, <1>1, <1>6, <1>7, <1>10, <1>14
    <3>4. f \in DOMAIN wish => wish'[f] = wish[f]
      <4>1. ASSUME f \in DOMAIN wish PROVE wish'[f] = rest[f] /\ rest[f] = wish[f]
        BY <4>1, <3>3, <2>3, <1>1, <1>6, <1>7, <1>11, <1>15
      <4> QED BY <4>1
    <3>5. f \in DOMAIN copy'.overrides <=> f \in DOMAIN copy.overrides
      BY <2>3, <1>12
    <3>6. f \in DOMAIN copy'.overrides => copy'.overrides[f] = copy.overrides[f]
      BY <2>3, <1>12
    <3> QED BY <3>2, <3>3, <3>4, <3>5, <3>6
  <2> QED BY <2>1, <2>2, <2>3
<1>19. ProposalTyped'
  <2>1. proposal \in Proposals \cup {NoProposal} /\ DOMAIN patch \subseteq ExifFields
    BY <1>3, ExifIsExif DEF ReceivedWell, ReceivedTyped, ProposalTyped, IsExif
  <2>2. CASE proposal = NoProposal
    BY <2>2, <1>1 DEF ProposalTyped
  <2>3. CASE proposal # NoProposal
    <3>1. proposal' = [proposal EXCEPT !.since = @ \cup DOMAIN patch] /\ proposal \in Proposals
      BY <2>1, <2>3, <1>1
    <3>2. proposal' \in Proposals
      BY <2>1, <3>1 DEF Proposals
    <3> QED BY <3>2 DEF ProposalTyped
  <2> QED BY <2>2, <2>3
<1>20. Newest'
  BY <1>1, <1>12, NewestStays DEF ReceivedWell, postVars
<1>21. OwnerTyped' /\ Versions' /\ OwnerTrue'
  BY <1>1, OwnerStays
<1>22. PostsTyped'
  BY <1>1, <1>5, PostsStay DEF ReceivedWell
<1> QED BY <1>16, <1>17, <1>18, <1>19, <1>20, <1>21, <1>22 DEF ReceivedWell, ReceivedTyped

LEMMA ProposeKeeps ==
    ASSUME ReceivedWell, exchange' = exchange, NEW d \in exchange.proposals, Propose(d) PROVE ReceivedWell'
PROOF
<1>1. /\ proposal' = [stage |-> "sent", set |-> d.set, clear |-> d.clear \cup d.empty, since |-> {}]
      /\ UNCHANGED <<ownerVars, postVars, copyVars, rewound>>
  BY DEF Propose
<1>2. d.set \in Exifs /\ d.empty \in SUBSET ExifFields /\ d.clear \in SUBSET ExifFields
  BY DeltasTyped DEF ReceivedWell, ReceivedTyped
<1>3. proposal' \in Proposals
  BY <1>1, <1>2 DEF Proposals
<1>4. edition' = edition
  BY <1>1 DEF ownerVars
<1>5. OwnerTyped' /\ Versions' /\ OwnerTrue'
  BY <1>1, OwnerStays
<1>6. PostsTyped'
  BY <1>1, <1>4, PostsStay DEF ReceivedWell
<1>7. CopyTyped' /\ OverridesClaimed' /\ Resolved'
  BY <1>1, <1>4, CopyStays
<1>8. Newest'
  BY <1>1, NewestStays DEF ReceivedWell, postVars, copyVars
<1> QED BY <1>3, <1>5, <1>6, <1>7, <1>8 DEF ReceivedWell, ReceivedTyped, ProposalTyped

LEMMA ReceiveProposalKeeps ==
    ASSUME ReceivedWell, exchange' = exchange, ReceiveProposal PROVE ReceivedWell'
PROOF
<1>1. /\ proposal.stage = "sent" /\ ReadForEdit(proposal.set, proposal.clear, "proposal")
      /\ proposal' = [proposal EXCEPT !.stage = "applying"]
      /\ UNCHANGED <<owner, edition, granted, asked, reverted, postVars, copyVars, rewound>>
  BY DEF ReceiveProposal
<1>2. proposal \in Proposals
  BY <1>1 DEF ReceivedWell, ReceivedTyped, ProposalTyped, NoProposal
<1>3. proposal.set \in Exifs /\ proposal.clear \in SUBSET ExifFields /\ proposal' \in Proposals
  BY <1>1, <1>2 DEF Proposals
<1>4. OwnerTyped' /\ Versions' /\ OwnerTrue'
  BY <1>1, <1>3, ReadForEditKeeps
<1>5. PostsTyped'
  BY <1>1, PostsStay DEF ReceivedWell
<1>6. CopyTyped' /\ OverridesClaimed' /\ Resolved'
  BY <1>1, CopyStays
<1>7. Newest'
  BY <1>1, NewestStays DEF ReceivedWell, postVars, copyVars
<1> QED BY <1>3, <1>4, <1>5, <1>6, <1>7 DEF ReceivedWell, ReceivedTyped, ProposalTyped

LEMMA ProposalFailsKeeps ==
    ASSUME ReceivedWell, exchange' = exchange, ProposalFails PROVE ReceivedWell'
PROOF
<1>1. proposal' = NoProposal /\ UNCHANGED <<ownerVars, postVars, copyVars, rewound>>
  BY DEF ProposalFails
<1>2. edition' = edition
  BY <1>1 DEF ownerVars
<1>3. OwnerTyped' /\ Versions' /\ OwnerTrue'
  BY <1>1, OwnerStays
<1>4. PostsTyped'
  BY <1>1, <1>2, PostsStay DEF ReceivedWell
<1>5. CopyTyped' /\ OverridesClaimed' /\ Resolved'
  BY <1>1, <1>2, CopyStays
<1>6. Newest'
  BY <1>1, NewestStays DEF ReceivedWell, postVars, copyVars
<1> QED BY <1>1, <1>3, <1>4, <1>5, <1>6 DEF ReceivedWell, ReceivedTyped, ProposalTyped

LEMMA EscalateKeeps ==
    ASSUME ReceivedWell, exchange' = exchange, Escalate PROVE ReceivedWell'
PROOF
<1>1. proposal.stage = "applied" /\ proposal' = NoProposal /\ UNCHANGED <<ownerVars, postVars, rewound>>
  BY DEF Escalate
<1>2. edition' = edition
  BY <1>1 DEF ownerVars
<1>3. OwnerTyped' /\ Versions' /\ OwnerTrue'
  BY <1>1, OwnerStays
<1>4. PostsTyped'
  BY <1>1, <1>2, PostsStay DEF ReceivedWell
<1>5. ProposalTyped'
  BY <1>1 DEF ProposalTyped
<1>6. CopyTyped' /\ OverridesClaimed' /\ Resolved' /\ (copy'.held => copy.held /\ copy'.at = copy.at)
  <2>1. CASE ~copy.held
    <3>1. UNCHANGED copyVars
      BY <2>1 DEF Escalate
    <3> QED BY <3>1, <1>2, CopyStays DEF copyVars
  <2>2. CASE copy.held
    <3> DEFINE proposed == DOMAIN proposal.set \cup CoupleGps(proposal.clear)
               kept == Dropping(wish, proposed \ proposal.since)
    <3>1. /\ ApplyLocally(<< >>, Touched) /\ wish' = kept
          /\ shadowed' = shadowed \cup (proposed \ Touched) \cup (proposed \cap proposal.since)
      BY <2>2 DEF Escalate
    <3>2. IsExif(<< >>) /\ DOMAIN << >> = {}
      BY DEF IsExif
    <3>3. << >> \in Exifs
      BY <3>2, ExifIsExif
    <3>4. /\ copy' \in Rows /\ copy'.held /\ copy'.at = copy.at /\ ShowsBoth(copy')
          /\ \A f : f \in DOMAIN copy'.overrides <=> f \in DOMAIN copy.overrides /\ f \notin Touched
          /\ \A f \in DOMAIN copy'.overrides : copy'.overrides[f] = copy.overrides[f]
      BY <2>2, <3>1, <3>2, <3>3, LocallyApplied DEF ReceivedWell
    <3>5. proposal \in Proposals
      BY <1>1 DEF ReceivedWell, ReceivedTyped, ProposalTyped, NoProposal
    <3>6. proposal.set \in Exifs /\ proposal.clear \in SUBSET ExifFields
      BY <3>5 DEF Proposals
    <3>7. proposed \subseteq ExifFields
      <4>1. CoupleGps(proposal.clear) \subseteq ExifFields
        BY <3>6, GpsAreFields
      <4>2. DOMAIN proposal.set \subseteq ExifFields
        BY <3>6, ExifIsExif DEF IsExif
      <4> QED BY <4>1, <4>2
    <3>8. Touched \subseteq proposed
      BY DEF Touched, CoupleGps
    <3>9. wish \in Exifs /\ shadowed \subseteq ExifFields
      BY DEF ReceivedWell, ReceivedTyped, CopyTyped
    <3>k. /\ kept \in Exifs /\ DOMAIN kept = DOMAIN wish \ (proposed \ proposal.since)
          /\ \A f \in DOMAIN wish \ (proposed \ proposal.since) : kept[f] = wish[f]
      <4> HIDE DEF proposed
      <4> DEFINE gone == proposed \ proposal.since
      <4>1. kept = Dropping(wish, gone)
        OBVIOUS
      <4> HIDE DEF gone, kept
      <4>2. kept \in Exifs /\ DOMAIN kept = DOMAIN wish \ gone /\ \A f \in DOMAIN wish \ gone : kept[f] = wish[f]
        BY <3>9, <4>1, DroppingIs
      <4> QED BY <4>2 DEF gone
    <3>10. kept \in Exifs
      BY <3>k
    <3>11. DOMAIN kept = DOMAIN wish \ (proposed \ proposal.since)
      BY <3>k
    <3>12. \A f \in DOMAIN wish \ (proposed \ proposal.since) : kept[f] = wish[f]
      BY <3>k
    <3> HIDE DEF proposed, kept
    <3>13. CopyTyped'
      <4>1. copy.at \in 1..edition
        BY <2>2, RowTyped DEF ReceivedWell
      <4> QED BY <4>1, <1>2, <3>1, <3>4, <3>7, <3>9, <3>10 DEF CopyTyped
    <3>14. OverridesClaimed'
      <4> SUFFICES ASSUME NEW f \in ExifFields \ shadowed'
                   PROVE  /\ f \in DOMAIN copy'.overrides <=> f \in DOMAIN wish'
                          /\ f \in DOMAIN wish' => copy'.overrides[f] = wish'[f]
        BY <3>4 DEF OverridesClaimed
      <4>1. f \notin shadowed /\ (f \in proposed => f \in Touched /\ f \notin proposal.since)
        BY <3>1
      <4>2. /\ f \in DOMAIN copy.overrides <=> f \in DOMAIN wish
            /\ f \in DOMAIN wish => copy.overrides[f] = wish[f]
        BY <4>1, <2>2 DEF ReceivedWell, OverridesClaimed
      <4>3. CASE f \in proposed
        BY <4>1, <4>3, <3>1, <3>4, <3>11
      <4>4. CASE f \notin proposed
        BY <4>2, <4>4, <3>1, <3>4, <3>8, <3>11, <3>12
      <4> QED BY <4>3, <4>4
    <3> QED BY <2>2, <3>4, <3>13, <3>14 DEF Resolved
  <2> QED BY <2>1, <2>2
<1>7. Newest'
  BY <1>1, <1>6, NewestStays DEF ReceivedWell, postVars
<1> QED BY <1>3, <1>4, <1>5, <1>6, <1>7 DEF ReceivedWell, ReceivedTyped

LEMMA ReceivedStarts == ReceivedInit => ReceivedWell
PROOF
<1> SUFFICES ASSUME NEW x \in Exchanges, NEW held \in BOOLEAN, ReceivedStart(x, held) PROVE ReceivedWell
  BY DEF ReceivedInit
<1> DEFINE exif == x.snapshot
<1>1. /\ exchange = x /\ owner = exif /\ edition = 1 /\ editing = {} /\ granted = TRUE /\ asked = exif /\ reverted = {}
      /\ posts = {} /\ registrar = [r \in Registrars |-> NoPost]
      /\ copy = IF held THEN [held |-> TRUE, remote |-> exif, at |-> 1, overrides |-> << >>, columns |-> exif] ELSE NotHeld
      /\ wish = << >> /\ shadowed = {} /\ proposal = NoProposal /\ rewound = FALSE
  BY DEF ReceivedStart
<1>2. IsRow(exif)
  BY ReceivedExifAssumption
<1>3. exif \in Exifs /\ \A f \in DOMAIN exif : exif[f] # Emptied
  BY <1>2, ExifIsExif DEF IsRow
<1>4. IsExif(<< >>) /\ DOMAIN << >> = {}
  BY DEF IsExif
<1>5. << >> \in Exifs
  BY <1>4, ExifIsExif
<1> HIDE DEF exif
<1>6. OwnerTyped /\ OwnerTrue
  BY <1>1, <1>3 DEF OwnerTyped, OwnerTrue
<1>7. Versions
  BY <1>1, FS_EmptySet, ReceivedExifAssumption DEF Versions
<1>8. PostsTyped
  BY <1>1 DEF PostsTyped
<1>9. copy \in Rows \cup {NotHeld} /\ (copy # NotHeld => copy.at = 1)
  BY <1>1, <1>3, <1>5 DEF Rows
<1>10. CopyTyped
  BY <1>1, <1>5, <1>9 DEF CopyTyped
<1>11. copy.held => held /\ copy = [held |-> TRUE, remote |-> exif, at |-> 1, overrides |-> << >>, columns |-> exif]
  BY <1>1 DEF NotHeld
<1>12. OverridesClaimed
  BY <1>1, <1>4, <1>11 DEF OverridesClaimed
<1>13. Resolved
  <2>1. LaidOver(<< >>, exif) \in Exifs
    BY <1>3, <1>5, LaidOverIs
  <2>2. \A f : Value(LaidOver(<< >>, exif), f) = Value(exif, f)
    <3>1. \A f : Value(LaidOver(<< >>, exif), f) = IF f \in DOMAIN << >> THEN << >>[f] ELSE Value(exif, f)
      BY <1>3, <1>5, LaidOverShows
    <3> QED BY <3>1, <1>4
  <2>3. Columns(LaidOver(<< >>, exif)) = Columns(exif)
    BY <1>3, <2>1, <2>2, ColumnsAgree
  <2>4. Columns(exif) = exif
    <3>1. {f \in DOMAIN exif : exif[f] = Emptied} = {}
      BY <1>3
    <3>2. exif = [f \in DOMAIN exif |-> exif[f]]
      BY <1>2 DEF IsRow, IsExif, exif
    <3> QED BY <3>1, <3>2 DEF Columns, Dropping, Restrict
  <2> QED BY <2>3, <2>4, <1>11 DEF Resolved, ShowsBoth
<1>14. Newest
  BY <1>1 DEF Newest
<1>15. ProposalTyped
  BY <1>1 DEF ProposalTyped
<1> QED BY <1>6, <1>7, <1>8, <1>10, <1>12, <1>13, <1>14, <1>15 DEF ReceivedWell, ReceivedTyped

LEMMA ReceivedSteps == ReceivedWell /\ [ReceivedNext]_receivedVars => ReceivedWell'
PROOF
<1> SUFFICES ASSUME ReceivedWell, [ReceivedNext]_receivedVars PROVE ReceivedWell'
  OBVIOUS
<1>1. CASE UNCHANGED receivedVars
  <2>1. UNCHANGED <<exchange, ownerVars, postVars, copyVars, proposal, rewound>>
    BY <1>1 DEF receivedVars
  <2>2. edition' = edition
    BY <2>1 DEF ownerVars
  <2>3. OwnerTyped' /\ Versions' /\ OwnerTrue'
    BY <2>1, OwnerStays
  <2>4. PostsTyped'
    BY <2>1, <2>2, PostsStay DEF ReceivedWell
  <2>5. CopyTyped' /\ OverridesClaimed' /\ Resolved'
    BY <2>1, <2>2, CopyStays
  <2>6. Newest'
    BY <2>1, NewestStays DEF ReceivedWell, postVars, copyVars
  <2>7. ProposalTyped'
    BY <2>1 DEF ReceivedWell, ReceivedTyped, ProposalTyped
  <2> QED BY <2>3, <2>4, <2>5, <2>6, <2>7 DEF ReceivedWell, ReceivedTyped
<1>2. CASE ReceivedNext
  <2>0. exchange' = exchange
    BY <1>2 DEF ReceivedNext
  <2>1. CASE \E d \in exchange.edits : StartEdit(d) \/ BatchEdit(d)
    BY <2>0, <2>1, StartEditKeeps, BatchEditKeeps
  <2>2. CASE \E e \in editing : WriteEdit(e)
    BY <2>0, <2>2, WriteEditKeeps
  <2>3. CASE Withdraw \/ Announce
    BY <2>0, <2>3, WithdrawKeeps, AnnounceKeeps
  <2>4. CASE \E r \in Registrars : EndRegistration(r) \/ \E post \in posts : BeginRegistration(r, post)
    BY <2>0, <2>4, EndRegistrationKeeps, BeginRegistrationKeeps
  <2>5. CASE Unannounce
    BY <2>0, <2>5, UnannounceKeeps
  <2>6. CASE \E d \in exchange.claims : Override(d)
    BY <2>0, <2>6, OverrideKeeps
  <2>7. CASE \E d \in exchange.proposals : Propose(d)
    BY <2>0, <2>7, ProposeKeeps
  <2>8. CASE ReceiveProposal \/ ProposalFails \/ Escalate
    BY <2>0, <2>8, ReceiveProposalKeeps, ProposalFailsKeeps, EscalateKeeps
  <2> QED BY <1>2, <2>1, <2>2, <2>3, <2>4, <2>5, <2>6, <2>7, <2>8 DEF ReceivedNext
<1> QED BY <1>1, <1>2

(* What the invariant says of the columns is what both users were promised. *)
LEMMA WellLayered == ReceivedWell => LayersResolve
PROOF
<1> SUFFICES ASSUME ReceivedWell PROVE LayersResolve
  OBVIOUS
<1>1. \A f \in ExifFields \ reverted : Value(owner, f) = Value(asked, f)
  BY DEF ReceivedWell, OwnerTrue
<1>2. ~rewound
  BY DEF ReceivedWell, Newest
<1>3. ASSUME copy.held
      PROVE  LET shown == Dropping(copy.columns, shadowed)
                 meant == LaidOver(wish, copy.remote)
             IN \/ shown = Dropping(Columns(meant), shadowed)
                \/ /\ AtNullIsland(LaidOver(copy.overrides, copy.remote))
                   /\ shown = Dropping(Columns(meant), shadowed \cup Gps)
  <2> DEFINE layers == LaidOver(copy.overrides, copy.remote)
             meant == LaidOver(wish, copy.remote)
  <2>1. copy.remote \in Exifs /\ copy.overrides \in Exifs /\ wish \in Exifs
    BY <1>3, RowTyped DEF ReceivedWell, ReceivedTyped, CopyTyped
  <2>2. \A f : Value(layers, f) = IF f \in DOMAIN copy.overrides THEN copy.overrides[f] ELSE Value(copy.remote, f)
    <3> DEFINE top == copy.overrides
               base == copy.remote
    <3>1. top \in Exifs /\ base \in Exifs
      BY <2>1
    <3>2. layers = LaidOver(top, base)
      OBVIOUS
    <3> HIDE DEF top, base, layers, meant
    <3>3. \A f : Value(LaidOver(top, base), f) = IF f \in DOMAIN top THEN top[f] ELSE Value(base, f)
      BY <3>1, LaidOverShows
    <3>4. \A f : Value(layers, f) = IF f \in DOMAIN top THEN top[f] ELSE Value(base, f)
      BY <3>2, <3>3
    <3> QED BY <3>4 DEF top, base
  <2>3. \A f : Value(meant, f) = IF f \in DOMAIN wish THEN wish[f] ELSE Value(copy.remote, f)
    <3> DEFINE base == copy.remote
    <3>1. wish \in Exifs /\ base \in Exifs
      BY <2>1
    <3>2. meant = LaidOver(wish, base)
      OBVIOUS
    <3> HIDE DEF base, layers, meant
    <3>3. \A f : Value(LaidOver(wish, base), f) = IF f \in DOMAIN wish THEN wish[f] ELSE Value(base, f)
      BY <3>1, LaidOverShows
    <3>4. \A f : Value(meant, f) = IF f \in DOMAIN wish THEN wish[f] ELSE Value(base, f)
      BY <3>2, <3>3
    <3> QED BY <3>4 DEF base
  <2>4. layers \in Exifs /\ meant \in Exifs
    BY <2>1, LaidOverIs
  <2>5. \A f \in ExifFields \ shadowed : Value(layers, f) = Value(meant, f)
    BY <1>3, <2>2, <2>3 DEF ReceivedWell, OverridesClaimed
  <2>6. copy.columns = Columns(layers) \/ (AtNullIsland(layers) /\ copy.columns = Dropping(Columns(layers), Gps))
    BY <1>3 DEF ReceivedWell, Resolved, ShowsBoth
  <2> HIDE DEF layers, meant
  <2>7. Dropping(Columns(layers), shadowed) = Dropping(Columns(meant), shadowed)
    BY <2>4, <2>5, SameColumns
  <2>8. Dropping(Columns(layers), shadowed \cup Gps) = Dropping(Columns(meant), shadowed \cup Gps)
    BY <2>4, <2>5, SameColumns
  <2>9. Dropping(Dropping(Columns(layers), Gps), shadowed) = Dropping(Columns(layers), shadowed \cup Gps)
    <3>1. Columns(layers) \in Exifs
      BY <2>4, ColumnsAre
    <3> QED BY <3>1, MoreDropped
  <2>10. \/ Dropping(copy.columns, shadowed) = Dropping(Columns(meant), shadowed)
         \/ AtNullIsland(layers) /\ Dropping(copy.columns, shadowed) = Dropping(Columns(meant), shadowed \cup Gps)
    BY <2>6, <2>7, <2>8, <2>9
  <2> QED BY <2>10 DEF layers, meant
<1> QED BY <1>1, <1>2, <1>3 DEF LayersResolve

LEMMA ReceivedHolds == ReceivedSpec => []ReceivedWell
PROOF BY ReceivedStarts, ReceivedSteps, PTL DEF ReceivedSpec

(* The metadata, the announcements and the proposal have their types on both sides. *)
THEOREM ReceivedTypes == ReceivedSpec => []ReceivedTypeOK
PROOF
<1>1. ReceivedWell => ReceivedTypeOK
  <2> SUFFICES ASSUME ReceivedWell PROVE ReceivedTypeOK
    OBVIOUS
  <2>1. IsExif(owner) /\ granted \in BOOLEAN /\ reverted \subseteq ExifFields
    BY ExifIsExif DEF ReceivedWell, ReceivedTyped, OwnerTyped
  <2>2. edition \in 1..MaxEditions
    BY FS_CardinalityType, ReceivedExifAssumption DEF ReceivedWell, ReceivedTyped, Versions
  <2>3. \A p \in posts : IsExif(p.exif) /\ p.at \in 1..edition
    BY ExifIsExif DEF ReceivedWell, ReceivedTyped, PostsTyped, Posts
  <2>4. copy # NotHeld => IsExif(copy.remote) /\ IsExif(copy.columns) /\ IsExif(copy.overrides) /\ copy.at \in 1..edition
    BY ExifIsExif DEF ReceivedWell, ReceivedTyped, CopyTyped, Rows
  <2>5. proposal.stage \in {"none", "sent", "applying", "applied"}
    BY DEF ReceivedWell, ReceivedTyped, ProposalTyped, Proposals, NoProposal
  <2>6. shadowed \subseteq ExifFields /\ IsExif(wish)
    BY ExifIsExif DEF ReceivedWell, ReceivedTyped, CopyTyped
  <2> QED BY <2>1, <2>2, <2>3, <2>4, <2>5, <2>6 DEF ReceivedTypeOK
<1> QED BY <1>1, ReceivedHolds, PTL

(* Whatever is edited, announced, registered, overridden and proposed, in any order, both users see    *)
(* what they asked for: the owner's row its edits, the recipient's columns its claims over the owner's *)
(* snapshot, and no announcement replaces a newer one unless their registrations overlap.              *)
THEOREM LayersAlwaysResolve == ReceivedSpec => []LayersResolve
PROOF BY WellLayered, ReceivedHolds, PTL
-----------------------------------------------------------------------------
(***************************************************************************)
(* A public share.  A request acts on what it has read: what it holds is     *)
(* sound as long as the album it read is the album there is, or it is stale,  *)
(* and what others do keeps it sound.                                         *)
(***************************************************************************)
AlbumRow == [status : {"active", "revoked"}, expired : BOOLEAN, password : Nat, originals : BOOLEAN,
             upload : BOOLEAN, shareBack : BOOLEAN]
Shot == [tagged : BOOLEAN, trashed : BOOLEAN, creator : {"owner", "guest"}, gift : BOOLEAN]
Derived == [who : Holders, status : {"first", "active"} \cup Ended, shareBack : BOOLEAN, late : BOOLEAN]

Telling == [stage : {"tell"}, stale : BOOLEAN, about : About, variant : Variants, row : AlbumRow]
Landing == [stage : {"land", "credit"}, stale : BOOLEAN, pic : Shots, named : BOOLEAN]
Subscribing == [stage : {"find", "mint", "join", "activate"}, stale : BOOLEAN, who : Holders,
                shareBack : BOOLEAN, id : Nat]
Leaving == [stage : {"notify"}, stale : BOOLEAN, id : Nat]
Writing == [stage : {"write"}, stale : BOOLEAN, input : Albums, password : Nat]
Rounds == [stage : {"derived", "mark", "reach", "sweep", "trash"}, stale : BOOLEAN, clear : BOOLEAN,
           todo : SUBSET Nat, id : Nat, pics : SUBSET Shots]
AlbumServed == Telling \cup Landing \cup Subscribing \cup Leaving \cup Writing \cup Rounds
AlbumRequests == AlbumServed \cup {NoRequest}

AlbumTyped == album \in AlbumRow /\ latest \in Nat /\ asks \in Nat
ShotsTyped ==
    /\ DOMAIN shots \subseteq Shots /\ shots \in [DOMAIN shots -> Shot] /\ tickets \subseteq Shots \ DOMAIN shots
    /\ \A p \in DOMAIN shots : shots[p].creator = "guest" => shots[p].gift
SharesTyped ==
    /\ derived \in Seq(Derived)
    /\ DOMAIN joined \subseteq DOMAIN derived /\ joined \in [DOMAIN joined -> {"pending", "active"} \cup Ended]
DeskTyped == desk \in [Desks -> AlbumRequests]

(* What a request may rely on. *)
Sound(q) ==
    /\ q.stage = "tell" /\ ~q.stale => q.row = album /\ IsAccessible(album) /\ (q.about = "copy" => album.originals)
    /\ q.stage = "land" /\ ~q.stale => IsAccessible(album) /\ album.upload
    /\ q.stage = "write" /\ ~q.stale => q.password = album.password
    /\ q.stage = "credit" => q.pic \in DOMAIN shots /\ shots[q.pic].gift
    /\ q.stage = "trash" => \A p \in q.pics : p \in DOMAIN shots /\ shots[p].gift
    /\ q.stage \in {"derived", "mark", "reach"} => album.status = "revoked"
    /\ q.stage \in {"mark", "reach"} =>
          q.todo \subseteq DOMAIN derived /\ \A id \in DOMAIN derived : Live(id) => derived[id].late \/ id \in q.todo
    /\ q.stage \in {"join", "activate", "notify", "reach"} => q.id \in DOMAIN derived
    /\ q.stage \in {"activate", "notify"} => q.id \in DOMAIN joined
DeskSound == \A d \in Desks : Sound(desk[d])

CascadeWell == cascaded => album.status = "revoked" /\ \A id \in DOMAIN derived : Live(id) => derived[id].late

(* A share that died without being crossed is being told to its holder, or nobody joins or holds it. *)
Reaching(id) == \E d \in Desks : desk[d].stage = "reach" /\ desk[d].id = id
Held(id) == id \in DOMAIN joined /\ joined[id] = "active"
EndsMeet == \A id \in DOMAIN derived : ~Live(id) /\ id \notin crossed => Reaching(id) \/ (~Joining(id) /\ ~Held(id))

ToldWell == (album.password = latest \/ blurred) /\ misdeeds \subseteq ListLeaks

AlbumWell == AlbumTyped /\ ShotsTyped /\ SharesTyped /\ DeskTyped /\ DeskSound /\ CascadeWell /\ EndsMeet /\ ToldWell
-----------------------------------------------------------------------------
LEMMA FreeIsFree ==
    ASSUME NEW q \in AlbumRequests
    PROVE  /\ q.stage = "free" <=> q = NoRequest
           /\ q.stale \in BOOLEAN
PROOF
<1>1. CASE q = NoRequest
  BY <1>1 DEF NoRequest
<1>2. CASE q \in AlbumServed
  <2>1. q.stage # "free" /\ q.stale \in BOOLEAN
    BY <1>2 DEF AlbumServed, Telling, Landing, Subscribing, Leaving, Writing, Rounds
  <2>2. q # NoRequest
    BY <2>1 DEF NoRequest
  <2> QED BY <2>1, <2>2
<1> QED BY <1>1, <1>2 DEF AlbumRequests

LEMMA FreeIsSound == Sound(NoRequest)
PROOF BY DEF Sound, NoRequest

LEMMA FreeWillBeSound == Sound(NoRequest)'
PROOF BY DEF Sound, NoRequest

(* What the stage of a request says of it. *)
LEMMA Tellers == ASSUME NEW q \in AlbumRequests, q.stage = "tell" PROVE q \in Telling
PROOF BY DEF AlbumRequests, AlbumServed, Landing, Subscribing, Leaving, Writing, Rounds, NoRequest
LEMMA Landers == ASSUME NEW q \in AlbumRequests, q.stage \in {"land", "credit"} PROVE q \in Landing
PROOF BY DEF AlbumRequests, AlbumServed, Telling, Subscribing, Leaving, Writing, Rounds, NoRequest
LEMMA Subscribers ==
    ASSUME NEW q \in AlbumRequests, q.stage \in {"find", "mint", "join", "activate"} PROVE q \in Subscribing
PROOF BY DEF AlbumRequests, AlbumServed, Telling, Landing, Leaving, Writing, Rounds, NoRequest
LEMMA Leavers == ASSUME NEW q \in AlbumRequests, q.stage = "notify" PROVE q \in Leaving
PROOF BY DEF AlbumRequests, AlbumServed, Telling, Landing, Subscribing, Writing, Rounds, NoRequest
LEMMA Writers == ASSUME NEW q \in AlbumRequests, q.stage = "write" PROVE q \in Writing
PROOF BY DEF AlbumRequests, AlbumServed, Telling, Landing, Subscribing, Leaving, Rounds, NoRequest
LEMMA Rounders ==
    ASSUME NEW q \in AlbumRequests, q.stage \in {"derived", "mark", "reach", "sweep", "trash"} PROVE q \in Rounds
PROOF BY DEF AlbumRequests, AlbumServed, Telling, Landing, Subscribing, Leaving, Writing, NoRequest

LEMMA RoundTyped ==
    ASSUME NEW stage \in {"derived", "mark", "reach", "sweep", "trash"}, NEW clear \in BOOLEAN
    PROVE  Round(stage, clear) \in Rounds
PROOF BY DEF Round, Rounds

(* What others may do to the shares and the pictures. *)
SharesGo ==
    /\ DOMAIN derived \subseteq DOMAIN derived' /\ DOMAIN joined \subseteq DOMAIN joined'
    /\ \A id \in DOMAIN derived : derived'[id].late = derived[id].late /\ (Live(id)' => Live(id))
    /\ \A id \in DOMAIN derived' \ DOMAIN derived : album.status = "revoked" => derived'[id].late
ShotsGo ==
    /\ DOMAIN shots \subseteq DOMAIN shots'
    /\ \A p \in DOMAIN shots : shots[p].gift => shots'[p].gift

LEMMA StaysSound ==
    ASSUME SharesGo, ShotsGo, NEW q, Sound(q), album' = album PROVE Sound(q)'
PROOF
<1>1. q.stage \in {"derived", "mark", "reach"} => album'.status = "revoked"
  BY DEF Sound
<1>2. ASSUME q.stage \in {"mark", "reach"}
      PROVE  q.todo \subseteq DOMAIN derived' /\ \A id \in DOMAIN derived' : Live(id)' => derived'[id].late \/ id \in q.todo
  <2>1. q.todo \subseteq DOMAIN derived' /\ album.status = "revoked"
    BY <1>2 DEF Sound, SharesGo
  <2>2. ASSUME NEW id \in DOMAIN derived', Live(id)' PROVE derived'[id].late \/ id \in q.todo
    <3>1. CASE id \in DOMAIN derived
      BY <1>2, <2>2, <3>1 DEF Sound, SharesGo
    <3>2. CASE id \notin DOMAIN derived
      BY <2>1, <2>2, <3>2 DEF SharesGo
    <3> QED BY <3>1, <3>2
  <2> QED BY <2>1, <2>2
<1>3. q.stage = "credit" => q.pic \in DOMAIN shots' /\ shots'[q.pic].gift
  BY DEF Sound, ShotsGo
<1>4. q.stage = "trash" => \A p \in q.pics : p \in DOMAIN shots' /\ shots'[p].gift
  BY DEF Sound, ShotsGo
<1>5. q.stage \in {"join", "activate", "notify", "reach"} => q.id \in DOMAIN derived'
  BY DEF Sound, SharesGo
<1>6. q.stage \in {"activate", "notify"} => q.id \in DOMAIN joined'
  BY DEF Sound, SharesGo
<1>7. q.stage = "tell" /\ ~q.stale => q.row = album' /\ IsAccessible(album') /\ (q.about = "copy" => album'.originals)
  BY DEF Sound
<1>8. q.stage = "land" /\ ~q.stale => IsAccessible(album') /\ album'.upload
  BY DEF Sound
<1>9. q.stage = "write" /\ ~q.stale => q.password = album'.password
  BY DEF Sound
<1> QED BY <1>1, <1>2, <1>3, <1>4, <1>5, <1>6, <1>7, <1>8, <1>9 DEF Sound

(* One desk moves on, and the others stay. *)
LEMMA DesksMove ==
    ASSUME DeskTyped, DeskSound, SharesGo, ShotsGo, album' = album, NEW d \in Desks, NEW q \in AlbumRequests, Sound(q)',
           desk' = [desk EXCEPT ![d] = q]
    PROVE  DeskTyped' /\ DeskSound' /\ desk'[d] = q /\ \A e \in Desks \ {d} : desk'[e] = desk[e]
PROOF
<1>1. desk' \in [Desks -> AlbumRequests] /\ desk'[d] = q /\ \A e \in Desks \ {d} : desk'[e] = desk[e]
  BY DEF DeskTyped
<1>2. ASSUME NEW e \in Desks PROVE Sound(desk[e])'
  <2>1. CASE e = d
    BY <2>1, <1>1 DEF Sound, Live, IsAccessible
  <2>2. CASE e # d
    <3> DEFINE r == desk[e]
    <3>1. Sound(r)
      BY DEF DeskSound
    <3>2. desk'[e] = r
      BY <2>2, <1>1
    <3> QED BY <3>1, <3>2, StaysSound DEF Sound, Live, IsAccessible
  <2> QED BY <2>1, <2>2
<1> QED BY <1>1, <1>2 DEF DeskTyped, DeskSound

(* The album changes, and a request under way is stale from then on. *)
LEMMA StaleIsSound ==
    ASSUME UNCHANGED <<shots, derived, joined>>, album.status = "revoked" => album'.status = "revoked",
           NEW r \in AlbumServed, Sound(r), NEW q, q = [r EXCEPT !.stale = TRUE]
    PROVE  q \in AlbumServed /\ q.stage = r.stage /\ Sound(q)' /\ (q.stage \in {"join", "activate", "reach"} => q.id = r.id)
PROOF
<1>1. CASE r \in Telling
  <2>1. q \in Telling /\ q.stage = "tell" /\ q.stale
    BY <1>1 DEF Telling
  <2> QED BY <2>1, <1>1 DEF Telling, AlbumServed, Sound
<1>2. CASE r \in Landing
  <2>1. q \in Landing /\ q.stage = r.stage /\ q.stale /\ q.pic = r.pic /\ q.stage \in {"land", "credit"}
    BY <1>2 DEF Landing
  <2> QED BY <2>1 DEF AlbumServed, Sound
<1>3. CASE r \in Subscribing
  <2>1. q \in Subscribing /\ q.stage = r.stage /\ q.id = r.id /\ q.stage \in {"find", "mint", "join", "activate"}
    BY <1>3 DEF Subscribing
  <2> QED BY <2>1 DEF AlbumServed, Sound
<1>4. CASE r \in Leaving
  <2>1. q \in Leaving /\ q.stage = r.stage /\ q.id = r.id /\ q.stage = "notify"
    BY <1>4 DEF Leaving
  <2> QED BY <2>1 DEF AlbumServed, Sound
<1>5. CASE r \in Writing
  <2>1. q \in Writing /\ q.stage = "write" /\ r.stage = "write" /\ q.stale
    BY <1>5 DEF Writing
  <2> QED BY <2>1 DEF AlbumServed, Sound
<1>6. CASE r \in Rounds
  <2>1. /\ q \in Rounds /\ q.stage = r.stage /\ q.id = r.id /\ q.todo = r.todo /\ q.pics = r.pics
        /\ q.stage \in {"derived", "mark", "reach", "sweep", "trash"}
    BY <1>6 DEF Rounds
  <2> QED BY <2>1 DEF AlbumServed, Sound, Live
<1> QED BY <1>1, <1>2, <1>3, <1>4, <1>5, <1>6 DEF AlbumServed

LEMMA DesksOutdated ==
    ASSUME DeskTyped, DeskSound, UNCHANGED <<shots, derived, joined>>, album.status = "revoked" => album'.status = "revoked",
           NEW except, NEW d, NEW q \in AlbumRequests, Sound(q)',
           \/ except \notin Desks /\ desk' = Outdated(except)
           \/ except \notin Desks \ {d} /\ desk' = [Outdated(except) EXCEPT ![d] = q]
    PROVE  /\ DeskTyped' /\ DeskSound'
           /\ \A e \in Desks :
                 \/ e = d /\ desk'[e] = q
                 \/ /\ desk'[e].stage = desk[e].stage
                    /\ desk'[e].stage \in {"join", "activate", "reach"} => desk'[e].id = desk[e].id
PROOF
<1>1. desk \in [Desks -> AlbumRequests] /\ \A e \in Desks : Sound(desk[e])
  BY DEF DeskTyped, DeskSound
<1>2. ASSUME NEW e \in Desks, e # except
      PROVE  \E r \in AlbumRequests : /\ Outdated(except)[e] = r /\ Sound(r)' /\ r.stage = desk[e].stage
                                      /\ r.stage \in {"join", "activate", "reach"} => r.id = desk[e].id
  <2>1. CASE desk[e] = NoRequest
    <3>1. Outdated(except)[e] = NoRequest
      BY <2>1 DEF Outdated
    <3>2. Sound(NoRequest)' /\ NoRequest \in AlbumRequests
      BY FreeWillBeSound DEF AlbumRequests
    <3> QED BY <2>1, <3>1, <3>2 DEF NoRequest, Sound
  <2>2. CASE desk[e] # NoRequest
    <3>1. PICK r : r = desk[e]
      OBVIOUS
    <3>2. PICK s : s = [r EXCEPT !.stale = TRUE]
      OBVIOUS
    <3>3. r \in AlbumServed /\ Sound(r)
      BY <2>2, <3>1, <1>1 DEF AlbumRequests
    <3>4. s \in AlbumServed /\ s.stage = r.stage /\ Sound(s)' /\ (s.stage \in {"join", "activate", "reach"} => s.id = r.id)
      BY <3>2, <3>3, StaleIsSound
    <3>5. Outdated(except)[e] = s
      BY <1>2, <2>2, <3>1, <3>2 DEF Outdated
    <3> QED BY <3>1, <3>4, <3>5 DEF AlbumRequests
  <2> QED BY <2>1, <2>2
<1>3. ASSUME NEW e \in Desks
      PROVE  \E r \in AlbumRequests : /\ desk'[e] = r /\ Sound(r)'
                                      /\ \/ e = d /\ r = q
                                         \/ /\ r.stage = desk[e].stage
                                            /\ r.stage \in {"join", "activate", "reach"} => r.id = desk[e].id
  <2>0. DOMAIN Outdated(except) = Desks
    BY DEF Outdated
  <2>1. CASE e = d /\ desk'[e] = q
    BY <2>1
  <2>2. CASE ~(e = d /\ desk'[e] = q)
    <3>1. e # except /\ desk'[e] = Outdated(except)[e]
      BY <2>0, <2>2
    <3> QED BY <3>1, <1>2
  <2> QED BY <2>1, <2>2
<1>4. desk' = [e \in Desks |-> desk'[e]]
  <2>1. DOMAIN Outdated(except) = Desks /\ Outdated(except) = [e \in Desks |-> Outdated(except)[e]]
    BY DEF Outdated
  <2> QED BY <2>1
<1>5. DeskTyped'
  BY <1>3, <1>4 DEF DeskTyped
<1>6. ASSUME NEW e \in Desks PROVE Sound(desk[e])'
  <2>1. PICK r \in AlbumRequests : desk'[e] = r /\ Sound(r)'
    BY <1>3
  <2> QED BY <2>1 DEF Sound, Live, IsAccessible
<1>7. DeskSound'
  BY <1>6 DEF DeskSound
<1> QED BY <1>3, <1>5, <1>7
-----------------------------------------------------------------------------
Met(id) == ~Live(id) /\ id \notin crossed => Reaching(id) \/ (~Joining(id) /\ ~Held(id))

(* What a step may do to the ends of a share but for one, x, which it deals with. *)
LEMMA EndsMove ==
    ASSUME EndsMeet, NEW x, x \in DOMAIN derived' => Met(x)', crossed \subseteq crossed',
           \A id \in DOMAIN derived' : ~Live(id)' => id = x \/ (id \in DOMAIN derived /\ ~Live(id)),
           \A id \in DOMAIN derived' : Held(id)' => id = x \/ Held(id) \/ Joining(id),
           \A e \in Desks : desk[e].stage = "reach" =>
               desk[e].id = x \/ (desk'[e].stage = "reach" /\ desk'[e].id = desk[e].id),
           \A e \in Desks : desk'[e].stage \in {"join", "activate"} =>
               \/ desk'[e].id = x \/ Live(desk[e].id)'
               \/ desk[e].stage \in {"join", "activate"} /\ desk'[e].id = desk[e].id
    PROVE  EndsMeet'
PROOF
<1> SUFFICES ASSUME NEW id \in DOMAIN derived', ~Live(id)', id \notin crossed'
             PROVE  Reaching(id)' \/ (~Joining(id)' /\ ~Held(id)')
  BY DEF EndsMeet
<1>1. CASE id = x
  BY <1>1 DEF Met
<1>2. CASE id # x
  <2>1. id \in DOMAIN derived /\ ~Live(id) /\ id \notin crossed
    BY <1>2
  <2>2. Reaching(id) \/ (~Joining(id) /\ ~Held(id))
    BY <2>1 DEF EndsMeet
  <2>3. Reaching(id) => Reaching(id)'
    BY <1>2 DEF Reaching
  <2>4. Joining(id)' => Joining(id)
    <3> SUFFICES ASSUME NEW e \in Desks, desk'[e].stage \in {"join", "activate"}, desk'[e].id = id PROVE Joining(id)
      BY DEF Joining
    <3>1. ~Live(desk[e].id)'
      BY DEF Live
    <3> QED BY <1>2, <3>1 DEF Joining
  <2>5. Held(id)' => Held(id) \/ Joining(id)
    BY <1>2
  <2> QED BY <2>2, <2>3, <2>4, <2>5
<1> QED BY <1>1, <1>2

LEMMA Unshared == ASSUME UNCHANGED sharing PROVE SharesGo
PROOF BY DEF sharing, SharesGo, Live
LEMMA Unpictured == ASSUME UNCHANGED shots PROVE ShotsGo
PROOF BY DEF ShotsGo

LEMMA CascadeStays ==
    ASSUME CascadeWell, SharesGo, cascaded' = cascaded, album.status = "revoked" => album'.status = "revoked"
    PROVE  CascadeWell'
PROOF BY DEF CascadeWell, SharesGo

LEMMA SharesTypeStay ==
    ASSUME SharesTyped, UNCHANGED sharing PROVE SharesTyped'
PROOF BY DEF SharesTyped, sharing

LEMMA ShotsTypeStay ==
    ASSUME ShotsTyped, UNCHANGED <<shots, tickets>> PROVE ShotsTyped'
PROOF BY DEF ShotsTyped

(* the shares as they were, no desk at an end of one *)
LEMMA EndsStay ==
    ASSUME EndsMeet, SharesTyped, UNCHANGED <<sharing, crossed>>,
           \A e \in Desks : desk[e].stage = "reach" => desk'[e].stage = "reach" /\ desk'[e].id = desk[e].id,
           \A e \in Desks : desk'[e].stage \in {"join", "activate"} =>
               Live(desk[e].id)' \/ (desk[e].stage \in {"join", "activate"} /\ desk'[e].id = desk[e].id)
    PROVE  EndsMeet'
PROOF
<1>1. 0 \notin DOMAIN derived'
  BY DEF SharesTyped, sharing
<1>2. \A id \in DOMAIN derived' : ~Live(id)' => id \in DOMAIN derived /\ ~Live(id)
  BY DEF sharing, Live
<1>3. \A id \in DOMAIN derived' : Held(id)' => Held(id)
  BY DEF sharing, Held
<1> QED BY <1>1, <1>2, <1>3, EndsMove
-----------------------------------------------------------------------------
LEMMA CountedTyped == ASSUME AlbumTyped, Counted, UNCHANGED <<album, latest>> PROVE AlbumTyped'
PROOF BY DEF AlbumTyped, Counted

LEMMA NoDeskMoves ==
    ASSUME DeskTyped, DeskSound, SharesGo, ShotsGo, UNCHANGED <<album, desk>> PROVE DeskTyped' /\ DeskSound'
PROOF
<1>1. DeskTyped'
  BY DEF DeskTyped
<1>2. ASSUME NEW e \in Desks PROVE Sound(desk[e])'
  <2>1. PICK r : r = desk[e]
    OBVIOUS
  <2>2. Sound(r)
    BY <2>1 DEF DeskSound
  <2>3. Sound(r)'
    BY <2>2, StaysSound
  <2> QED BY <2>1, <2>3
<1> QED BY <1>1, <1>2 DEF DeskSound

(* A request opens and nothing else changes. *)
LEMMA OpensWell ==
    ASSUME AlbumWell, NEW q \in AlbumServed, Sound(q), q.stage \notin {"join", "activate"}, Opens(q),
           UNCHANGED <<album, shots, tickets, sharing, told>>
    PROVE  AlbumWell'
PROOF
<1>1. PICK d \in Desks : desk[d] = NoRequest /\ Counted /\ desk' = [desk EXCEPT ![d] = q]
  BY DEF Opens
<1>2. SharesGo /\ ShotsGo
  BY Unshared, Unpictured
<1>3. q \in AlbumRequests /\ Sound(q)'
  BY <1>2, StaysSound DEF AlbumRequests
<1>4. DeskTyped' /\ DeskSound' /\ desk'[d] = q /\ \A e \in Desks \ {d} : desk'[e] = desk[e]
  BY <1>1, <1>2, <1>3, DesksMove DEF AlbumWell
<1>5. AlbumTyped'
  BY <1>1, CountedTyped DEF AlbumWell, told
<1>6. SharesTyped' /\ ShotsTyped'
  BY SharesTypeStay, ShotsTypeStay DEF AlbumWell
<1>7. CascadeWell'
  BY <1>2, CascadeStays DEF AlbumWell, told
<1>8. ToldWell'
  BY DEF AlbumWell, ToldWell, told
<1>9. EndsMeet'
  <2>1. desk[d].stage = "free"
    BY <1>1 DEF NoRequest
  <2> QED BY <1>4, <2>1, EndsStay DEF AlbumWell, told
<1> QED BY <1>4, <1>5, <1>6, <1>7, <1>8, <1>9 DEF AlbumWell

(* A request that is not telling a holder goes on, or ends, and nothing else changes. *)
LEMMA MovesWell ==
    ASSUME AlbumWell, NEW d \in Desks, NEW q \in AlbumRequests, Sound(q)', desk[d].stage # "reach",
           q.stage \in {"join", "activate"} => Live(q.id)' \/ (desk[d].stage \in {"join", "activate"} /\ q.id = desk[d].id),
           desk' = [desk EXCEPT ![d] = q], AlbumTyped', ToldWell',
           UNCHANGED <<album, shots, tickets, sharing, crossed, cascaded>>
    PROVE  AlbumWell'
PROOF
<1>1. SharesGo /\ ShotsGo
  BY Unshared, Unpictured
<1>2. DeskTyped' /\ DeskSound' /\ desk'[d] = q /\ \A e \in Desks \ {d} : desk'[e] = desk[e]
  BY <1>1, DesksMove DEF AlbumWell
<1>3. SharesTyped' /\ ShotsTyped'
  BY SharesTypeStay, ShotsTypeStay DEF AlbumWell
<1>4. CascadeWell'
  BY <1>1, CascadeStays DEF AlbumWell
<1>5. EndsMeet'
  <2>1. \A e \in Desks : desk'[e].stage \in {"join", "activate"} =>
           Live(desk[e].id)' \/ (desk[e].stage \in {"join", "activate"} /\ desk'[e].id = desk[e].id)
    <3> SUFFICES ASSUME NEW e \in Desks, desk'[e].stage \in {"join", "activate"}
                 PROVE  Live(desk[e].id)' \/ (desk[e].stage \in {"join", "activate"} /\ desk'[e].id = desk[e].id)
      OBVIOUS
    <3>1. CASE e = d
      BY <3>1, <1>2 DEF Live
    <3>2. CASE e # d
      BY <3>2, <1>2
    <3> QED BY <3>1, <3>2
  <2> QED BY <1>2, <2>1, EndsStay DEF AlbumWell
<1> QED BY <1>2, <1>3, <1>4, <1>5 DEF AlbumWell

(* No desk moves, and the shares stay. *)
LEMMA RestsWell ==
    ASSUME AlbumWell, UNCHANGED <<album, sharing, desk, crossed, cascaded>>, ShotsGo, AlbumTyped', ToldWell', ShotsTyped'
    PROVE  AlbumWell'
PROOF
<1>1. SharesGo
  BY Unshared
<1>2. DeskTyped' /\ DeskSound'
  BY <1>1, NoDeskMoves DEF AlbumWell
<1>3. SharesTyped' /\ CascadeWell'
  BY <1>1, SharesTypeStay, CascadeStays DEF AlbumWell
<1>4. EndsMeet'
  BY EndsStay DEF AlbumWell
<1> QED BY <1>2, <1>3, <1>4 DEF AlbumWell
-----------------------------------------------------------------------------
(* Looking *)

LEMMA UnlockWell == ASSUME AlbumWell, NEW v, Unlock(v) \/ KeyExpires(v) PROVE AlbumWell'
PROOF
<1>1. Counted /\ UNCHANGED <<album, shots, tickets, sharing, desk, told>>
  BY DEF Unlock, KeyExpires
<1>2. AlbumTyped'
  BY <1>1, CountedTyped DEF AlbumWell, told
<1>3. ToldWell' /\ ShotsTyped'
  BY <1>1, ShotsTypeStay DEF AlbumWell, ToldWell, told
<1> QED BY <1>1, <1>2, <1>3, RestsWell, Unpictured DEF told

LEMMA EnquireWell ==
    ASSUME AlbumWell, NEW v \in Holders, NEW about \in About, NEW variant \in Variants, Enquire(v, about, variant)
    PROVE  AlbumWell'
PROOF
<1>1. PICK q : q = [stage |-> "tell", stale |-> FALSE, about |-> about, variant |-> variant, row |-> album]
  OBVIOUS
<1>2. Opens(q) /\ Gate(about, album, v) /\ UNCHANGED <<album, shots, tickets, sharing, told>>
  BY <1>1 DEF Enquire
<1>3. q \in Telling /\ q.stage = "tell" /\ q.row = album /\ q.about = about
  BY <1>1 DEF AlbumWell, AlbumTyped, Telling
<1>4. IsAccessible(album) /\ (about = "copy" => album.originals)
  BY <1>2 DEF Gate, Resolves, About
<1>5. Sound(q)
  BY <1>3, <1>4 DEF Sound
<1> QED BY <1>2, <1>3, <1>5, OpensWell DEF AlbumServed

LEMMA TellWell == ASSUME AlbumWell, NEW d \in Desks, Tell(d) PROVE AlbumWell'
PROOF
<1>1. /\ desk[d].stage = "tell" /\ desk' = [desk EXCEPT ![d] = NoRequest]
      /\ misdeeds' = IF desk[d].stale THEN misdeeds ELSE misdeeds \cup {desk[d].about} \X (Tells(desk[d]) \ Offered(album))
      /\ UNCHANGED <<album, shots, tickets, sharing, latest, blurred, crossed, cascaded, asks>>
  BY DEF Tell, Reached, Answered
<1>2. desk[d] \in AlbumRequests /\ Sound(desk[d])
  BY DEF AlbumWell, DeskTyped, DeskSound
<1>3. desk[d] \in Telling
  BY <1>1, <1>2, Tellers
<1>4. misdeeds' \subseteq ListLeaks
  <2>1. CASE desk[d].stale
    BY <2>1, <1>1 DEF AlbumWell, ToldWell
  <2>2. CASE ~desk[d].stale
    <3> DEFINE q == desk[d]
               against == Tells(q) \ Offered(album)
    <3>1. /\ q.row = album /\ IsAccessible(album) /\ (q.about = "copy" => album.originals)
          /\ q.about \in About /\ q.variant \in Variants
      BY <2>2, <1>1, <1>2, <1>3 DEF Sound, Telling
    <3>2. {"thumbnail", "credit", "count"} \subseteq Offered(album)
      BY <3>1 DEF Offered
    <3>3. album.originals => {"original", "date", "created", "place", "located"} \subseteq Offered(album)
      BY <3>1 DEF Offered
    <3>4. ASSUME q.about = "list" PROVE {q.about} \X against \subseteq ListLeaks
      <4>1. Tells(q) = ListTells(album, q.variant)
        BY <3>1, <3>4 DEF Tells
      <4>2. against \subseteq {"original", "created", "located"}
        BY <4>1, <3>1, <3>2, <3>3 DEF ListTells, Variants, ViewOnly
      <4> QED BY <4>2, <3>4, Zenon DEF ListLeaks
    <3>5. ASSUME q.about # "list" PROVE against = {}
      <4>1. Tells(q) \in {UrlTells(album, q.variant), DetailTells(album), AggregateTells(album), MetaTells}
               \/ (q.about = "copy" /\ Tells(q) = CopyTells)
        BY <3>1, <3>5 DEF Tells, About
      <4>2. UrlTells(album, q.variant) \subseteq Offered(album)
        BY <3>1, <3>2, <3>3 DEF UrlTells, Variants, ViewOnly
      <4>3. DetailTells(album) \subseteq Offered(album) /\ AggregateTells(album) \subseteq Offered(album)
        BY <3>1, <3>2, <3>3 DEF DetailTells, AggregateTells, ViewOnly
      <4>4. MetaTells \subseteq Offered(album) /\ (album.originals => CopyTells \subseteq Offered(album))
        BY <3>2, <3>3 DEF MetaTells, CopyTells
      <4> QED BY <4>1, <4>2, <4>3, <4>4, <3>1
    <3>6. {q.about} \X against \subseteq ListLeaks
      BY <3>4, <3>5, Zenon
    <3> QED BY <2>2, <3>6, <1>1 DEF AlbumWell, ToldWell
  <2> QED BY <2>1, <2>2
<1>5. ToldWell' /\ AlbumTyped'
  BY <1>1, <1>4 DEF AlbumWell, ToldWell, AlbumTyped
<1>6. NoRequest \in AlbumRequests /\ NoRequest.stage = "free"
  BY DEF AlbumRequests, NoRequest
<1> QED BY <1>1, <1>5, <1>6, MovesWell, FreeWillBeSound

LEMMA TellNothingWell == ASSUME AlbumWell, NEW d \in Desks, TellNothing(d) PROVE AlbumWell'
PROOF
<1>1. /\ desk[d].stage = "tell" /\ desk' = [desk EXCEPT ![d] = NoRequest]
      /\ UNCHANGED <<album, shots, tickets, sharing, told, asks>>
  BY DEF TellNothing, Reached, Answered
<1>2. ToldWell' /\ AlbumTyped'
  BY <1>1 DEF AlbumWell, ToldWell, AlbumTyped, told
<1>3. NoRequest \in AlbumRequests /\ NoRequest.stage = "free"
  BY DEF AlbumRequests, NoRequest
<1> QED BY <1>1, <1>2, <1>3, MovesWell, FreeWillBeSound DEF told
-----------------------------------------------------------------------------
(* Contributing *)

LEMMA TicketWell == ASSUME AlbumWell, Ticket PROVE AlbumWell'
PROOF
<1>1. Counted /\ UNCHANGED <<album, shots, sharing, desk, told>>
  BY DEF Ticket
<1>2. AlbumTyped'
  BY <1>1, CountedTyped DEF AlbumWell, told
<1>3. ShotsTyped'
  BY DEF Ticket, AlbumWell, ShotsTyped
<1>4. ToldWell'
  BY <1>1 DEF AlbumWell, ToldWell, told
<1> QED BY <1>1, <1>2, <1>3, <1>4, RestsWell, Unpictured DEF told

LEMMA FinishWell == ASSUME AlbumWell, NEW p \in Shots, NEW named \in BOOLEAN, Finish(p, named) PROVE AlbumWell'
PROOF
<1>1. PICK q : q = [stage |-> "land", stale |-> FALSE, pic |-> p, named |-> named]
  OBVIOUS
<1>2. Opens(q) /\ TakesGifts(album) /\ UNCHANGED <<album, shots, tickets, sharing, told>>
  BY <1>1 DEF Finish
<1>3. q \in Landing /\ q.stage = "land"
  BY <1>1 DEF Landing
<1>4. Sound(q)
  BY <1>2, <1>3 DEF Sound, TakesGifts, Resolves
<1> QED BY <1>2, <1>3, <1>4, OpensWell DEF AlbumServed

(* A request goes on while pictures change and the shares stay. *)
LEMMA PicturesMove ==
    ASSUME AlbumWell, NEW d \in Desks, NEW q \in AlbumRequests, Sound(q)', desk[d].stage \notin {"reach", "join", "activate"},
           q.stage \notin {"join", "activate"}, desk' = [desk EXCEPT ![d] = q], ShotsGo, ShotsTyped', ToldWell',
           UNCHANGED <<album, sharing, latest, crossed, cascaded, asks>>
    PROVE  AlbumWell'
PROOF
<1>1. SharesGo
  BY Unshared
<1>2. DeskTyped' /\ DeskSound' /\ desk'[d] = q /\ \A e \in Desks \ {d} : desk'[e] = desk[e]
  BY <1>1, DesksMove DEF AlbumWell
<1>3. SharesTyped' /\ CascadeWell'
  BY <1>1, SharesTypeStay, CascadeStays DEF AlbumWell
<1>4. EndsMeet'
  BY <1>2, EndsStay DEF AlbumWell
<1>5. AlbumTyped'
  BY DEF AlbumWell, AlbumTyped
<1> QED BY <1>2, <1>3, <1>4, <1>5 DEF AlbumWell

LEMMA LandWell == ASSUME AlbumWell, NEW d \in Desks, Land(d) PROVE AlbumWell'
PROOF
<1> DEFINE pic == desk[d].pic
           new == [tagged |-> TRUE, trashed |-> FALSE, creator |-> "owner", gift |-> TRUE]
<1>1. /\ desk[d].stage = "land"
      /\ shots' = [p \in DOMAIN shots \cup {pic} |-> IF p = pic THEN new ELSE shots[p]]
      /\ tickets' = tickets \ {pic}
      /\ desk' = [desk EXCEPT ![d] = IF desk[d].named THEN [desk[d] EXCEPT !.stage = "credit"] ELSE NoRequest]
      /\ misdeeds' = IF desk[d].stale \/ (IsAccessible(album) /\ album.upload) THEN misdeeds ELSE misdeeds \cup {<<"upload", "uninvited">>}
      /\ UNCHANGED <<album, sharing, latest, blurred, crossed, cascaded, asks>>
  BY DEF Land, Reached, Answered, Proceeds
<1>2. desk[d] \in AlbumRequests /\ Sound(desk[d])
  BY DEF AlbumWell, DeskTyped, DeskSound
<1>3. desk[d] \in Landing /\ pic \in Shots
  BY <1>1, <1>2, Landers DEF Landing
<1>4. new \in Shot /\ new.gift /\ new.creator = "owner"
  BY DEF Shot
<1> HIDE DEF new
<1>5. ShotsTyped'
  <2>1. DOMAIN shots' = DOMAIN shots \cup {pic}
    BY <1>1
  <2>2. \A p \in DOMAIN shots' : shots'[p] = IF p = pic THEN new ELSE shots[p]
    BY <1>1
  <2>3. shots' \in [DOMAIN shots' -> Shot]
    BY <1>1, <1>4, <2>1 DEF AlbumWell, ShotsTyped
  <2> QED BY <1>1, <1>3, <1>4, <2>1, <2>2, <2>3 DEF AlbumWell, ShotsTyped
<1>6. ShotsGo
  BY <1>1, <1>4 DEF ShotsGo
<1>7. pic \in DOMAIN shots' /\ shots'[pic].gift
  BY <1>1, <1>4
<1>8. ToldWell'
  BY <1>1, <1>2 DEF AlbumWell, ToldWell, Sound
<1>9. PICK q : q = IF desk[d].named THEN [desk[d] EXCEPT !.stage = "credit"] ELSE NoRequest
  OBVIOUS
<1>10. q \in AlbumRequests /\ Sound(q)' /\ q.stage \notin {"join", "activate"}
  <2>1. CASE desk[d].named
    <3>1. q \in Landing /\ q.stage = "credit" /\ q.pic = pic
      BY <2>1, <1>3, <1>9 DEF Landing
    <3>2. Sound(q)'
      BY <3>1, <1>7 DEF Sound
    <3> QED BY <3>1, <3>2 DEF AlbumRequests, AlbumServed
  <2>2. CASE ~desk[d].named
    <3>1. q = NoRequest
      BY <2>2, <1>9
    <3>2. NoRequest \in AlbumRequests /\ NoRequest.stage = "free" /\ Sound(NoRequest)'
      BY FreeWillBeSound DEF AlbumRequests, NoRequest
    <3> QED BY <3>1, <3>2 DEF Sound
  <2> QED BY <2>1, <2>2
<1>11. desk' = [desk EXCEPT ![d] = q]
  BY <1>1, <1>9
<1> QED BY <1>1, <1>5, <1>6, <1>8, <1>10, <1>11, PicturesMove

LEMMA CreditWell == ASSUME AlbumWell, NEW d \in Desks, Credit(d) PROVE AlbumWell'
PROOF
<1> DEFINE pic == desk[d].pic
<1>1. /\ desk[d].stage = "credit" /\ shots' = [shots EXCEPT ![pic].creator = "guest"]
      /\ desk' = [desk EXCEPT ![d] = NoRequest] /\ UNCHANGED <<album, tickets, sharing, told, asks>>
  BY DEF Credit, Reached, Answered
<1>2. pic \in DOMAIN shots /\ shots[pic].gift
  BY <1>1 DEF AlbumWell, DeskSound, Sound
<1>3. shots \in [DOMAIN shots -> Shot]
  BY DEF AlbumWell, ShotsTyped
<1>4. /\ DOMAIN shots' = DOMAIN shots /\ shots' \in [DOMAIN shots -> Shot]
      /\ \A p \in DOMAIN shots : shots'[p].gift = shots[p].gift /\ (p # pic => shots'[p] = shots[p])
  BY <1>1, <1>2, <1>3 DEF Shot
<1>5. ShotsTyped'
  <2>1. \A p \in DOMAIN shots' : shots'[p].creator = "guest" => shots'[p].gift
    BY <1>2, <1>4 DEF AlbumWell, ShotsTyped
  <2> QED BY <1>1, <1>4, <2>1 DEF AlbumWell, ShotsTyped
<1>6. ShotsGo
  BY <1>4 DEF ShotsGo
<1>7. ToldWell'
  BY <1>1 DEF AlbumWell, ToldWell, told
<1>8. NoRequest \in AlbumRequests /\ NoRequest.stage = "free"
  BY DEF AlbumRequests, NoRequest
<1> QED BY <1>1, <1>5, <1>6, <1>7, <1>8, PicturesMove, FreeWillBeSound DEF told
-----------------------------------------------------------------------------
(* Subscribing *)

LEMMA ClaimWell == ASSUME AlbumWell, NEW v \in Holders, Claim(v) PROVE AlbumWell'
PROOF
<1>1. PICK q : q = [stage |-> "find", stale |-> FALSE, who |-> v, shareBack |-> album.shareBack, id |-> 0]
  OBVIOUS
<1>2. Opens(q) /\ UNCHANGED <<album, shots, tickets, sharing, told>>
  BY <1>1 DEF Claim
<1>3. q \in Subscribing /\ q.stage = "find"
  BY <1>1 DEF AlbumWell, AlbumTyped, AlbumRow, Subscribing
<1>4. Sound(q)
  BY <1>3 DEF Sound
<1> QED BY <1>2, <1>3, <1>4, OpensWell DEF AlbumServed

LEMMA FindExistingWell == ASSUME AlbumWell, NEW d \in Desks, FindExisting(d) PROVE AlbumWell'
PROOF
<1>1. desk[d].stage = "find" /\ UNCHANGED <<album, shots, tickets, sharing, told, asks>>
  BY DEF FindExisting, Reached
<1>2. desk[d] \in AlbumRequests
  BY DEF AlbumWell, DeskTyped
<1>3. desk[d] \in Subscribing
  BY <1>1, <1>2, Subscribers
<1>4. ToldWell' /\ AlbumTyped'
  BY <1>1 DEF AlbumWell, ToldWell, AlbumTyped, told
<1>5. CASE \E id \in FindDerived(desk[d].who) : desk' = [desk EXCEPT ![d] = [desk[d] EXCEPT !.stage = "join", !.id = id]]
  <2>1. PICK id \in FindDerived(desk[d].who) : desk' = [desk EXCEPT ![d] = [desk[d] EXCEPT !.stage = "join", !.id = id]]
    BY <1>5
  <2>2. PICK q : q = [desk[d] EXCEPT !.stage = "join", !.id = id]
    OBVIOUS
  <2>3. id \in DOMAIN derived /\ Live(id)
    BY DEF FindDerived, FindDerivedByPublicShare
  <2>4. id \in Nat
    BY <2>3 DEF AlbumWell, SharesTyped
  <2>5. q \in Subscribing /\ q.stage = "join" /\ q.id = id
    BY <1>3, <2>2, <2>4 DEF Subscribing
  <2>6. Sound(q)' /\ Live(q.id)'
    BY <1>1, <2>3, <2>5 DEF Sound, sharing, Live
  <2>7. desk' = [desk EXCEPT ![d] = q] /\ q \in AlbumRequests
    BY <2>1, <2>2, <2>5 DEF AlbumRequests, AlbumServed
  <2> QED BY <1>1, <1>4, <2>6, <2>7, MovesWell DEF told
<1>6. CASE desk' = [desk EXCEPT ![d] = [desk[d] EXCEPT !.stage = "mint"]]
  <2>1. PICK q : q = [desk[d] EXCEPT !.stage = "mint"]
    OBVIOUS
  <2>2. q \in Subscribing /\ q.stage = "mint"
    BY <1>3, <2>1 DEF Subscribing
  <2>3. Sound(q)' /\ q \in AlbumRequests
    BY <2>2 DEF Sound, AlbumRequests, AlbumServed
  <2>4. desk' = [desk EXCEPT ![d] = q]
    BY <1>6, <2>1
  <2> QED BY <1>1, <1>4, <2>2, <2>3, <2>4, MovesWell DEF told
<1> QED BY <1>5, <1>6 DEF FindExisting, Proceeds

LEMMA MintDerivedWell == ASSUME AlbumWell, NEW d \in Desks, MintDerived(d) PROVE AlbumWell'
PROOF
<1>1. desk[d].stage = "mint" /\ UNCHANGED <<album, shots, tickets, joined, told, asks>>
  BY DEF MintDerived, Reached
<1>2. desk[d] \in AlbumRequests
  BY DEF AlbumWell, DeskTyped
<1>3. desk[d] \in Subscribing
  BY <1>1, <1>2, Subscribers
<1>4. ToldWell' /\ AlbumTyped'
  BY <1>1 DEF AlbumWell, ToldWell, AlbumTyped, told
<1>5. CASE desk' = [desk EXCEPT ![d] = NoRequest] /\ derived' = derived
  <2>1. NoRequest \in AlbumRequests /\ NoRequest.stage = "free"
    BY DEF AlbumRequests, NoRequest
  <2> QED BY <1>1, <1>4, <1>5, <2>1, MovesWell, FreeWillBeSound DEF told, sharing
<1>6. CASE ~(desk' = [desk EXCEPT ![d] = NoRequest] /\ derived' = derived)
  <2> DEFINE new == [who |-> desk[d].who, status |-> "first", shareBack |-> desk[d].shareBack,
                     late |-> album.status = "revoked"]
  <2>1. /\ derived' = Append(derived, new)
        /\ desk' = [desk EXCEPT ![d] = [desk[d] EXCEPT !.stage = "join", !.id = Len(derived) + 1]]
    BY <1>6 DEF MintDerived, Proceeds, Answered
  <2>2. derived \in Seq(Derived) /\ new \in Derived
    BY <1>3 DEF AlbumWell, SharesTyped, Derived, Subscribing
  <2>3. new.status = "first" /\ new.late = (album.status = "revoked")
    OBVIOUS
  <2> HIDE DEF new
  <2>4. /\ derived' \in Seq(Derived) /\ DOMAIN derived' = DOMAIN derived \cup {Len(derived) + 1}
        /\ Len(derived) + 1 \in Nat /\ Len(derived) + 1 \notin DOMAIN derived
        /\ derived'[Len(derived) + 1] = new /\ \A id \in DOMAIN derived : derived'[id] = derived[id]
    BY <2>1, <2>2
  <2>5. PICK id : id = Len(derived) + 1
    OBVIOUS
  <2>6. PICK q : q = [desk[d] EXCEPT !.stage = "join", !.id = id]
    OBVIOUS
  <2>7. q \in Subscribing /\ q.stage = "join" /\ q.id = id
    BY <1>3, <2>4, <2>5, <2>6 DEF Subscribing
  <2>8. Live(id)'
    BY <2>3, <2>4, <2>5 DEF Live, Ended
  <2>9. SharesGo
    BY <1>1, <2>3, <2>4 DEF SharesGo, Live
  <2>10. ShotsGo
    BY <1>1, Unpictured
  <2>11. Sound(q)' /\ q \in AlbumRequests
    BY <2>4, <2>5, <2>7 DEF Sound, AlbumRequests, AlbumServed
  <2>12. desk' = [desk EXCEPT ![d] = q]
    BY <2>1, <2>5, <2>6
  <2>13. DeskTyped' /\ DeskSound' /\ desk'[d] = q /\ \A e \in Desks \ {d} : desk'[e] = desk[e]
    BY <1>1, <2>9, <2>10, <2>11, <2>12, DesksMove DEF AlbumWell
  <2>14. SharesTyped'
    BY <1>1, <2>4 DEF AlbumWell, SharesTyped
  <2>15. ShotsTyped' /\ CascadeWell'
    BY <1>1, <2>9, ShotsTypeStay, CascadeStays DEF AlbumWell, told
  <2>16. EndsMeet'
    <3>1. 0 \notin DOMAIN derived'
      BY <2>4
    <3>2. crossed \subseteq crossed'
      BY <1>1 DEF told
    <3>3. \A i \in DOMAIN derived' : ~Live(i)' => i \in DOMAIN derived /\ ~Live(i)
      BY <2>4, <2>5, <2>8 DEF Live
    <3>4. \A i \in DOMAIN derived' : Held(i)' => Held(i)
      BY <1>1 DEF Held
    <3>5. \A e \in Desks : desk[e].stage = "reach" => desk'[e].stage = "reach" /\ desk'[e].id = desk[e].id
      BY <1>1, <2>13
    <3>6. \A e \in Desks : desk'[e].stage \in {"join", "activate"} =>
             \/ Live(desk[e].id)'
             \/ desk[e].stage \in {"join", "activate"} /\ desk'[e].id = desk[e].id
      <4> SUFFICES ASSUME NEW e \in Desks, desk'[e].stage \in {"join", "activate"}
                   PROVE  Live(desk[e].id)' \/ (desk[e].stage \in {"join", "activate"} /\ desk'[e].id = desk[e].id)
        OBVIOUS
      <4>1. CASE e = d
        BY <4>1, <2>7, <2>8, <2>13 DEF Live
      <4>2. CASE e # d
        BY <4>2, <2>13
      <4> QED BY <4>1, <4>2
    <3>7. EndsMeet
      BY DEF AlbumWell
    <3> QED BY <3>1, <3>2, <3>3, <3>4, <3>5, <3>6, <3>7, EndsMove
  <2> QED BY <1>4, <2>13, <2>14, <2>15, <2>16 DEF AlbumWell
<1> QED BY <1>5, <1>6

LEMMA JoinWell == ASSUME AlbumWell, NEW d \in Desks, Join(d) PROVE AlbumWell'
PROOF
<1> DEFINE id == desk[d].id
<1>1. /\ desk[d].stage = "join"
      /\ joined' = [i \in DOMAIN joined \cup {id} |-> IF i \in DOMAIN joined THEN joined[i] ELSE "pending"]
      /\ desk' = [desk EXCEPT ![d] = [desk[d] EXCEPT !.stage = "activate"]]
      /\ UNCHANGED <<album, shots, tickets, derived, told, asks>>
  BY DEF Join, Reached, Proceeds
<1>2. desk[d] \in AlbumRequests /\ id \in DOMAIN derived
  BY <1>1 DEF AlbumWell, DeskTyped, DeskSound, Sound
<1>3. desk[d] \in Subscribing
  BY <1>1, <1>2, Subscribers
<1>4. PICK q : q = [desk[d] EXCEPT !.stage = "activate"]
  OBVIOUS
<1>5. q \in Subscribing /\ q.stage = "activate" /\ q.id = id
  BY <1>3, <1>4 DEF Subscribing
<1>6. DOMAIN joined' = DOMAIN joined \cup {id} /\ \A i \in DOMAIN joined' : joined'[i] = IF i \in DOMAIN joined THEN joined[i] ELSE "pending"
  BY <1>1
<1>7. SharesTyped'
  <2>1. joined' \in [DOMAIN joined' -> {"pending", "active"} \cup Ended]
    BY <1>1, <1>6 DEF AlbumWell, SharesTyped
  <2> QED BY <2>1, <1>1, <1>2, <1>6 DEF AlbumWell, SharesTyped
<1>8. SharesGo /\ ShotsGo
  BY <1>1, <1>6 DEF SharesGo, ShotsGo, Live
<1>9. Sound(q)' /\ q \in AlbumRequests
  BY <1>1, <1>2, <1>5, <1>6 DEF Sound, AlbumRequests, AlbumServed
<1>10. DeskTyped' /\ DeskSound' /\ desk'[d] = q /\ \A e \in Desks \ {d} : desk'[e] = desk[e]
  BY <1>1, <1>4, <1>8, <1>9, DesksMove DEF AlbumWell
<1>11. ToldWell' /\ AlbumTyped' /\ ShotsTyped' /\ CascadeWell'
  BY <1>1, <1>8, ShotsTypeStay, CascadeStays DEF AlbumWell, ToldWell, AlbumTyped, told
<1>12. EndsMeet'
  <2>1. 0 \notin DOMAIN derived' /\ EndsMeet /\ crossed \subseteq crossed'
    BY <1>1 DEF AlbumWell, SharesTyped, told
  <2>2. \A i \in DOMAIN derived' : ~Live(i)' => i \in DOMAIN derived /\ ~Live(i)
    BY <1>1 DEF Live
  <2>3. \A i \in DOMAIN derived' : Held(i)' => Held(i)
    BY <1>6 DEF Held
  <2>4. \A e \in Desks : desk[e].stage = "reach" => desk'[e].stage = "reach" /\ desk'[e].id = desk[e].id
    BY <1>1, <1>10
  <2>5. \A e \in Desks : desk'[e].stage \in {"join", "activate"} =>
           desk[e].stage \in {"join", "activate"} /\ desk'[e].id = desk[e].id
    BY <1>1, <1>5, <1>10
  <2> QED BY <2>1, <2>2, <2>3, <2>4, <2>5, EndsMove
<1> QED BY <1>7, <1>10, <1>11, <1>12 DEF AlbumWell

LEMMA ActivateWell == ASSUME AlbumWell, NEW d \in Desks, Activate(d) PROVE AlbumWell'
PROOF
<1> DEFINE id == desk[d].id
<1>1. /\ desk[d].stage = "activate" /\ joined' = [joined EXCEPT ![id] = "active"]
      /\ desk' = [desk EXCEPT ![d] = NoRequest] /\ UNCHANGED <<album, shots, tickets, derived, told, asks>>
  BY DEF Activate, Reached, Answered
<1>2. id \in DOMAIN derived /\ id \in DOMAIN joined
  BY <1>1 DEF AlbumWell, DeskSound, Sound
<1>3. DOMAIN joined' = DOMAIN joined /\ \A i \in DOMAIN joined : joined'[i] = IF i = id THEN "active" ELSE joined[i]
  BY <1>1
<1>4. SharesTyped'
  <2>1. joined' \in [DOMAIN joined' -> {"pending", "active"} \cup Ended]
    BY <1>1, <1>3 DEF AlbumWell, SharesTyped
  <2> QED BY <2>1, <1>1, <1>3 DEF AlbumWell, SharesTyped
<1>5. SharesGo /\ ShotsGo
  BY <1>1, <1>3 DEF SharesGo, ShotsGo, Live
<1>6. NoRequest \in AlbumRequests /\ NoRequest.stage = "free"
  BY DEF AlbumRequests, NoRequest
<1>7. DeskTyped' /\ DeskSound' /\ desk'[d] = NoRequest /\ \A e \in Desks \ {d} : desk'[e] = desk[e]
  BY <1>1, <1>5, <1>6, DesksMove, FreeWillBeSound DEF AlbumWell
<1>8. ToldWell' /\ AlbumTyped' /\ ShotsTyped' /\ CascadeWell'
  BY <1>1, <1>5, ShotsTypeStay, CascadeStays DEF AlbumWell, ToldWell, AlbumTyped, told
<1>9. EndsMeet'
  <2>1. 0 \notin DOMAIN derived' /\ EndsMeet /\ crossed \subseteq crossed'
    BY <1>1 DEF AlbumWell, SharesTyped, told
  <2>2. \A i \in DOMAIN derived' : ~Live(i)' => i \in DOMAIN derived /\ ~Live(i)
    BY <1>1 DEF Live
  <2>3. \A i \in DOMAIN derived' : Held(i)' => Held(i) \/ Joining(i)
    BY <1>1, <1>3 DEF Held, Joining
  <2>4. \A e \in Desks : desk[e].stage = "reach" => desk'[e].stage = "reach" /\ desk'[e].id = desk[e].id
    BY <1>1, <1>7
  <2>5. \A e \in Desks : desk'[e].stage \in {"join", "activate"} =>
           desk[e].stage \in {"join", "activate"} /\ desk'[e].id = desk[e].id
    BY <1>6, <1>7
  <2> QED BY <2>1, <2>2, <2>3, <2>4, <2>5, EndsMove
<1> QED BY <1>4, <1>7, <1>8, <1>9 DEF AlbumWell

(* A derived share takes a status. *)
LEMMA StatusSet ==
    ASSUME SharesTyped, NEW id \in DOMAIN derived, NEW status \in {"active"} \cup Ended,
           derived' = [derived EXCEPT ![id].status = status]
    PROVE  /\ derived' \in Seq(Derived) /\ DOMAIN derived' = DOMAIN derived
           /\ derived'[id].status = status /\ derived'[id].late = derived[id].late
           /\ \A i \in DOMAIN derived : i # id => derived'[i] = derived[i]
PROOF
<1>1. derived \in Seq(Derived) /\ DOMAIN derived = 1..Len(derived) /\ Len(derived) \in Nat
  BY DEF SharesTyped
<1>2. derived[id] \in Derived
  BY <1>1
<1>3. [derived[id] EXCEPT !.status = status] \in Derived
  BY <1>2 DEF Derived
<1>4. /\ [derived[id] EXCEPT !.status = status].status = status
      /\ [derived[id] EXCEPT !.status = status].late = derived[id].late
  BY <1>2 DEF Derived
<1>5. derived' = [i \in 1..Len(derived) |-> IF i = id THEN [derived[id] EXCEPT !.status = status] ELSE derived[i]]
  BY <1>1
<1>6. \A i \in 1..Len(derived) : derived'[i] \in Derived
  BY <1>1, <1>3, <1>5
<1>7. derived' \in Seq(Derived)
  BY <1>1, <1>5, <1>6
<1> QED BY <1>1, <1>4, <1>5, <1>7

LEMMA FirstPassWell == ASSUME AlbumWell, NEW id \in DOMAIN derived, FirstPass(id) PROVE AlbumWell'
PROOF
<1>1. /\ derived[id].status = "first" /\ derived' = [derived EXCEPT ![id].status = "active"]
      /\ UNCHANGED <<album, shots, tickets, joined, desk, told, asks>>
  BY DEF FirstPass
<1>2. /\ derived' \in Seq(Derived) /\ DOMAIN derived' = DOMAIN derived
      /\ derived'[id].status = "active" /\ derived'[id].late = derived[id].late
      /\ \A i \in DOMAIN derived : i # id => derived'[i] = derived[i]
  BY <1>1, StatusSet DEF AlbumWell
<1>3. \A i \in DOMAIN derived : Live(i)' <=> Live(i)
  BY <1>1, <1>2 DEF Live, Ended
<1>4. SharesGo /\ ShotsGo
  BY <1>1, <1>2, <1>3 DEF SharesGo, ShotsGo
<1>5. DeskTyped' /\ DeskSound'
  BY <1>1, <1>4, NoDeskMoves DEF AlbumWell
<1>6. SharesTyped'
  BY <1>1, <1>2 DEF AlbumWell, SharesTyped
<1>7. ToldWell' /\ AlbumTyped' /\ ShotsTyped' /\ CascadeWell'
  BY <1>1, <1>4, ShotsTypeStay, CascadeStays DEF AlbumWell, ToldWell, AlbumTyped, told
<1>8. EndsMeet'
  <2>1. 0 \notin DOMAIN derived' /\ EndsMeet /\ crossed \subseteq crossed'
    BY <1>1, <1>2 DEF AlbumWell, SharesTyped, told
  <2>2. \A i \in DOMAIN derived' : ~Live(i)' => i \in DOMAIN derived /\ ~Live(i)
    BY <1>2, <1>3
  <2>3. \A i \in DOMAIN derived' : Held(i)' => Held(i)
    BY <1>1 DEF Held
  <2> QED BY <1>1, <2>1, <2>2, <2>3, EndsMove
<1> QED BY <1>5, <1>6, <1>7, <1>8 DEF AlbumWell

LEMMA DeclineWell == ASSUME AlbumWell, NEW id \in DOMAIN joined, Decline(id) PROVE AlbumWell'
PROOF
<1>1. /\ Counted /\ joined' = [joined EXCEPT ![id] = "tombstoned"] /\ derived' = [derived EXCEPT ![id].status = "tombstoned"]
      /\ crossed' = IF Joining(id) THEN crossed \cup {id} ELSE crossed
      /\ UNCHANGED <<album, shots, tickets, desk, latest, blurred, cascaded, misdeeds>>
  BY DEF Decline, Crosses
<1>2. id \in DOMAIN derived /\ "tombstoned" \in {"active"} \cup Ended
  BY DEF AlbumWell, SharesTyped, Ended
<1>3. /\ derived' \in Seq(Derived) /\ DOMAIN derived' = DOMAIN derived
      /\ derived'[id].status = "tombstoned" /\ derived'[id].late = derived[id].late
      /\ \A i \in DOMAIN derived : i # id => derived'[i] = derived[i]
  BY <1>1, <1>2, StatusSet DEF AlbumWell
<1>4. DOMAIN joined' = DOMAIN joined /\ \A i \in DOMAIN joined : joined'[i] = IF i = id THEN "tombstoned" ELSE joined[i]
  BY <1>1
<1>5. ~Live(id)' /\ \A i \in DOMAIN derived : i # id => (Live(i)' <=> Live(i))
  BY <1>3 DEF Live, Ended
<1>6. SharesGo /\ ShotsGo
  BY <1>1, <1>3, <1>4, <1>5 DEF SharesGo, ShotsGo
<1>7. DeskTyped' /\ DeskSound'
  BY <1>1, <1>6, NoDeskMoves DEF AlbumWell
<1>8. SharesTyped'
  <2>1. joined' \in [DOMAIN joined' -> {"pending", "active"} \cup Ended]
    BY <1>1, <1>4 DEF AlbumWell, SharesTyped, Ended
  <2> QED BY <2>1, <1>3, <1>4 DEF AlbumWell, SharesTyped
<1>9. ToldWell' /\ AlbumTyped' /\ ShotsTyped' /\ CascadeWell'
  BY <1>1, <1>6, ShotsTypeStay, CountedTyped, CascadeStays DEF AlbumWell, ToldWell
<1>10. EndsMeet'
  <2>1. Met(id)'
    BY <1>1, <1>4 DEF Met, Joining, Held
  <2>2. EndsMeet /\ crossed \subseteq crossed'
    BY <1>1 DEF AlbumWell
  <2>3. \A i \in DOMAIN derived' : ~Live(i)' => i = id \/ (i \in DOMAIN derived /\ ~Live(i))
    BY <1>3, <1>5
  <2>4. \A i \in DOMAIN derived' : Held(i)' => Held(i)
    BY <1>4 DEF Held
  <2> QED BY <1>1, <2>1, <2>2, <2>3, <2>4, EndsMove
<1> QED BY <1>7, <1>8, <1>9, <1>10 DEF AlbumWell

LEMMA LeaveWell == ASSUME AlbumWell, NEW id \in DOMAIN joined, Leave(id) PROVE AlbumWell'
PROOF
<1>1. PICK q : q = [stage |-> "notify", stale |-> FALSE, id |-> id]
  OBVIOUS
<1>2. /\ joined[id] = "active" /\ joined' = [joined EXCEPT ![id] = "tombstoned"] /\ Opens(q)
      /\ UNCHANGED <<album, shots, tickets, derived, told>>
  BY <1>1 DEF Leave
<1>3. PICK d \in Desks : desk[d] = NoRequest /\ Counted /\ desk' = [desk EXCEPT ![d] = q]
  BY <1>2 DEF Opens
<1>4. DOMAIN joined' = DOMAIN joined /\ \A i \in DOMAIN joined : joined'[i] = IF i = id THEN "tombstoned" ELSE joined[i]
  BY <1>2
<1>5. id \in DOMAIN derived /\ id \in Nat
  BY DEF AlbumWell, SharesTyped
<1>6. q \in Leaving /\ q.stage = "notify" /\ q.id = id
  BY <1>1, <1>5 DEF Leaving
<1>7. Sound(q)' /\ q \in AlbumRequests
  BY <1>2, <1>4, <1>5, <1>6 DEF Sound, AlbumRequests, AlbumServed
<1>8. SharesGo /\ ShotsGo
  BY <1>2, <1>4 DEF SharesGo, ShotsGo, Live
<1>9. DeskTyped' /\ DeskSound' /\ desk'[d] = q /\ \A e \in Desks \ {d} : desk'[e] = desk[e]
  BY <1>2, <1>3, <1>7, <1>8, DesksMove DEF AlbumWell
<1>10. SharesTyped'
  <2>1. joined' \in [DOMAIN joined' -> {"pending", "active"} \cup Ended]
    BY <1>2, <1>4 DEF AlbumWell, SharesTyped, Ended
  <2> QED BY <2>1, <1>2, <1>4 DEF AlbumWell, SharesTyped
<1>11. ToldWell' /\ AlbumTyped' /\ ShotsTyped' /\ CascadeWell'
  BY <1>2, <1>3, <1>8, ShotsTypeStay, CountedTyped, CascadeStays DEF AlbumWell, ToldWell, told
<1>12. EndsMeet'
  <2>1. 0 \notin DOMAIN derived' /\ EndsMeet /\ crossed \subseteq crossed'
    BY <1>2 DEF AlbumWell, SharesTyped, told
  <2>2. \A i \in DOMAIN derived' : ~Live(i)' => i \in DOMAIN derived /\ ~Live(i)
    BY <1>2 DEF Live
  <2>3. \A i \in DOMAIN derived' : Held(i)' => Held(i)
    BY <1>4 DEF Held
  <2>4. desk[d].stage = "free"
    BY <1>3 DEF NoRequest
  <2> QED BY <1>6, <1>9, <2>1, <2>2, <2>3, <2>4, EndsMove
<1> QED BY <1>9, <1>10, <1>11, <1>12 DEF AlbumWell

LEMMA NotifyLeftWell == ASSUME AlbumWell, NEW d \in Desks, NotifyLeft(d) PROVE AlbumWell'
PROOF
<1>1. PICK id : id = desk[d].id
  OBVIOUS
<1>2. /\ desk[d].stage = "notify" /\ derived' = [derived EXCEPT ![id].status = "tombstoned"]
      /\ crossed' = IF Joining(id) \/ joined[id] = "active" THEN crossed \cup {id} ELSE crossed
      /\ desk' = [desk EXCEPT ![d] = NoRequest]
      /\ UNCHANGED <<album, shots, tickets, joined, latest, blurred, cascaded, misdeeds, asks>>
  BY <1>1 DEF NotifyLeft, Reached, Answered, Crosses
<1>3. id \in DOMAIN derived /\ id \in DOMAIN joined /\ "tombstoned" \in {"active"} \cup Ended
  BY <1>1, <1>2 DEF AlbumWell, DeskSound, Sound, Ended
<1>4. /\ derived' \in Seq(Derived) /\ DOMAIN derived' = DOMAIN derived
      /\ derived'[id].status = "tombstoned" /\ derived'[id].late = derived[id].late
      /\ \A i \in DOMAIN derived : i # id => derived'[i] = derived[i]
  BY <1>2, <1>3, StatusSet DEF AlbumWell
<1>5. ~Live(id)' /\ \A i \in DOMAIN derived : i # id => (Live(i)' <=> Live(i))
  BY <1>4 DEF Live, Ended
<1>6. SharesGo /\ ShotsGo
  BY <1>2, <1>4, <1>5 DEF SharesGo, ShotsGo
<1>7. NoRequest \in AlbumRequests /\ NoRequest.stage = "free"
  BY DEF AlbumRequests, NoRequest
<1>8. DeskTyped' /\ DeskSound' /\ desk'[d] = NoRequest /\ \A e \in Desks \ {d} : desk'[e] = desk[e]
  BY <1>2, <1>6, <1>7, DesksMove, FreeWillBeSound DEF AlbumWell
<1>9. SharesTyped'
  BY <1>2, <1>4 DEF AlbumWell, SharesTyped
<1>10. ToldWell' /\ AlbumTyped' /\ ShotsTyped' /\ CascadeWell'
  BY <1>2, <1>6, ShotsTypeStay, CascadeStays DEF AlbumWell, ToldWell, AlbumTyped
<1>11. EndsMeet'
  <2>1. Met(id)'
    <3> SUFFICES ASSUME id \notin crossed' PROVE ~Joining(id)' /\ ~Held(id)'
      BY DEF Met
    <3>1. ~Joining(id) /\ joined[id] # "active"
      BY <1>2
    <3> QED BY <3>1, <1>2, <1>7, <1>8 DEF Joining, Held
  <2>2. EndsMeet /\ crossed \subseteq crossed'
    BY <1>2 DEF AlbumWell
  <2>3. \A i \in DOMAIN derived' : ~Live(i)' => i = id \/ (i \in DOMAIN derived /\ ~Live(i))
    BY <1>4, <1>5
  <2>4. \A i \in DOMAIN derived' : Held(i)' => Held(i)
    BY <1>2 DEF Held
  <2>5. \A e \in Desks : desk[e].stage = "reach" => desk'[e].stage = "reach" /\ desk'[e].id = desk[e].id
    BY <1>2, <1>8
  <2>6. \A e \in Desks : desk'[e].stage \in {"join", "activate"} =>
           desk[e].stage \in {"join", "activate"} /\ desk'[e].id = desk[e].id
    BY <1>7, <1>8
  <2> QED BY <2>1, <2>2, <2>3, <2>4, <2>5, <2>6, EndsMove
<1> QED BY <1>8, <1>9, <1>10, <1>11 DEF AlbumWell
-----------------------------------------------------------------------------
(* The owner *)

LEMMA AmendWell == ASSUME AlbumWell, NEW i \in Albums, Amend(i) PROVE AlbumWell'
PROOF
<1>1. PICK q : q = [stage |-> "write", stale |-> FALSE, input |-> i, password |-> album.password]
  OBVIOUS
<1>2. Opens(q) /\ UNCHANGED <<album, shots, tickets, sharing, told>>
  BY <1>1 DEF Amend
<1>3. q \in Writing /\ q.stage = "write" /\ q.password = album.password
  BY <1>1 DEF AlbumWell, AlbumTyped, AlbumRow, Writing
<1>4. Sound(q)
  BY <1>3 DEF Sound
<1> QED BY <1>2, <1>3, <1>4, OpensWell DEF AlbumServed

(* The album changes, and every request goes on with the one it has read. *)
LEMMA ChangesWell ==
    ASSUME AlbumWell, album.status = "revoked" => album'.status = "revoked", AlbumTyped', ToldWell',
           UNCHANGED <<shots, tickets, sharing, crossed, cascaded>>, NEW except, NEW d, NEW q \in AlbumRequests, Sound(q)',
           q.stage \notin {"join", "activate"},
           \/ except \notin Desks /\ desk' = Outdated(except)
           \/ except \notin Desks \ {d} /\ desk' = [Outdated(except) EXCEPT ![d] = q] /\ desk[d].stage # "reach"
    PROVE  AlbumWell'
PROOF
<1>1. UNCHANGED <<shots, derived, joined>>
  BY DEF sharing
<1>2. /\ DeskTyped' /\ DeskSound'
      /\ \A e \in Desks :
            \/ e = d /\ desk'[e] = q
            \/ /\ desk'[e].stage = desk[e].stage
               /\ desk'[e].stage \in {"join", "activate", "reach"} => desk'[e].id = desk[e].id
  BY <1>1, DesksOutdated DEF AlbumWell
<1>3. SharesGo
  BY Unshared
<1>4. SharesTyped' /\ ShotsTyped' /\ CascadeWell'
  BY <1>3, SharesTypeStay, ShotsTypeStay, CascadeStays DEF AlbumWell
<1>5. EndsMeet'
  <2>1. ASSUME NEW e \in Desks, desk[e].stage = "reach" PROVE desk'[e].stage = "reach" /\ desk'[e].id = desk[e].id
    <3>1. CASE desk' = Outdated(except)
      BY <2>1, <3>1 DEF Outdated, AlbumWell, DeskTyped, AlbumRequests, AlbumServed, Telling, Landing, Subscribing, Leaving, Writing, Rounds, NoRequest
    <3>2. CASE desk' # Outdated(except)
      BY <2>1, <3>2, <1>2
    <3> QED BY <3>1, <3>2
  <2>2. \A e \in Desks : desk'[e].stage \in {"join", "activate"} =>
           desk[e].stage \in {"join", "activate"} /\ desk'[e].id = desk[e].id
    BY <1>2
  <2> QED BY <2>1, <2>2, EndsStay DEF AlbumWell
<1> QED BY <1>2, <1>4, <1>5 DEF AlbumWell

LEMMA WriteWell == ASSUME AlbumWell, NEW d \in Desks, Write(d) PROVE AlbumWell'
PROOF
<1> DEFINE i == desk[d].input
           password == CASE i.password = "keep" -> desk[d].password [] i.password = "set" -> asks [] OTHER -> NoPassword
<1>1. /\ desk[d].stage = "write"
      /\ album' = [album EXCEPT !.expired = FALSE, !.password = password, !.originals = i.originals,
                                !.upload = i.upload, !.shareBack = i.originals /\ (i.shareBack \/ i.upload)]
      /\ latest' = IF i.password = "keep" THEN latest ELSE password
      /\ blurred' = (blurred \/ (i.password = "keep" /\ desk[d].stale))
      /\ desk' = [Outdated(d) EXCEPT ![d] = NoRequest]
      /\ UNCHANGED <<shots, tickets, sharing, crossed, cascaded, misdeeds, asks>>
  BY DEF Write, Reached
<1>2. desk[d] \in AlbumRequests /\ Sound(desk[d])
  BY DEF AlbumWell, DeskTyped, DeskSound
<1>3. desk[d] \in Writing
  BY <1>1, <1>2, Writers
<1>4. i \in Albums /\ i.originals \in BOOLEAN /\ i.upload \in BOOLEAN /\ i.shareBack \in BOOLEAN /\ password \in Nat
  BY <1>3, PublicSharesAssumption DEF Writing, AlbumWell, AlbumTyped, NoPassword
<1>5. i.password = "keep" => password = desk[d].password
  OBVIOUS
<1> HIDE DEF password, i
<1>6. album \in AlbumRow /\ latest \in Nat
  BY DEF AlbumWell, AlbumTyped
<1>7. album' \in AlbumRow /\ album'.status = album.status /\ album'.password = password
  BY <1>1, <1>4, <1>6 DEF AlbumRow
<1>8. AlbumTyped'
  BY <1>1, <1>4, <1>6, <1>7 DEF AlbumTyped, AlbumWell
<1>9. ToldWell'
  <2>1. album'.password = latest' \/ blurred'
    <3>1. CASE i.password # "keep"
      BY <3>1, <1>1, <1>7
    <3>2. CASE i.password = "keep" /\ desk[d].stale
      BY <3>2, <1>1
    <3>3. CASE i.password = "keep" /\ ~desk[d].stale
      <4>1. password = album.password
        BY <3>3, <1>1, <1>2, <1>5 DEF Sound
      <4>2. album.password = latest \/ blurred
        BY DEF AlbumWell, ToldWell
      <4> QED BY <3>3, <4>1, <4>2, <1>1, <1>7
    <3> QED BY <3>1, <3>2, <3>3
  <2> QED BY <2>1, <1>1 DEF AlbumWell, ToldWell
<1>10. NoRequest \in AlbumRequests /\ NoRequest.stage = "free" /\ Sound(NoRequest)'
  BY FreeWillBeSound DEF AlbumRequests, NoRequest
<1> QED BY <1>1, <1>7, <1>8, <1>9, <1>10, ChangesWell

LEMMA ExpireWell == ASSUME AlbumWell, Expire PROVE AlbumWell'
PROOF
<1>1. /\ Counted /\ album' = [album EXCEPT !.expired = TRUE] /\ desk' = Outdated(0)
      /\ UNCHANGED <<shots, tickets, sharing, told>>
  BY DEF Expire
<1>2. album' \in AlbumRow /\ album'.status = album.status /\ album'.password = album.password
  BY <1>1 DEF AlbumRow, AlbumWell, AlbumTyped
<1>3. AlbumTyped' /\ ToldWell'
  BY <1>1, <1>2 DEF AlbumWell, AlbumTyped, Counted, ToldWell, told
<1>4. NoRequest \in AlbumRequests /\ NoRequest.stage = "free" /\ Sound(NoRequest)'
  BY FreeWillBeSound DEF AlbumRequests, NoRequest
<1>5. 0 \notin Desks
  BY PublicSharesAssumption
<1> QED BY <1>1, <1>2, <1>3, <1>4, <1>5, ChangesWell DEF told

LEMMA RevokeWell == ASSUME AlbumWell, NEW cascade \in BOOLEAN, NEW clear \in BOOLEAN, Revoke(cascade, clear) PROVE AlbumWell'
PROOF
<1> DEFINE next == IF cascade THEN "derived" ELSE IF clear THEN "sweep" ELSE "free"
<1>1. PICK d \in Desks :
        /\ desk[d] = NoRequest
        /\ desk' = IF next = "free" THEN Outdated(0) ELSE [Outdated(0) EXCEPT ![d] = Round(next, clear)]
  BY DEF Revoke
<1>2. album' = [album EXCEPT !.status = "revoked"] /\ Counted /\ UNCHANGED <<shots, tickets, sharing, told>>
  BY DEF Revoke
<1>3. album' \in AlbumRow /\ album'.status = "revoked" /\ album'.password = album.password
  BY <1>2 DEF AlbumRow, AlbumWell, AlbumTyped
<1>4. AlbumTyped' /\ ToldWell'
  BY <1>2, <1>3 DEF AlbumWell, AlbumTyped, Counted, ToldWell, told
<1>5. 0 \notin Desks /\ desk[d].stage = "free"
  BY <1>1, PublicSharesAssumption DEF NoRequest
<1>6. CASE next = "free"
  <2>1. NoRequest \in AlbumRequests /\ NoRequest.stage = "free" /\ Sound(NoRequest)'
    BY FreeWillBeSound DEF AlbumRequests, NoRequest
  <2> QED BY <1>1, <1>2, <1>3, <1>4, <1>5, <1>6, <2>1, ChangesWell DEF told
<1>7. CASE next # "free"
  <2>1. next \in {"derived", "sweep"}
    BY <1>7
  <2>2. PICK q : q = Round(next, clear)
    OBVIOUS
  <2>3. q \in Rounds /\ q.stage \in {"derived", "sweep"}
    BY <2>1, <2>2 DEF Round, Rounds
  <2>4. Sound(q)' /\ q \in AlbumRequests
    BY <2>3, <1>3 DEF Sound, AlbumRequests, AlbumServed
  <2>5. desk' = [Outdated(0) EXCEPT ![d] = q]
    BY <1>1, <1>7, <2>2
  <2> QED BY <1>2, <1>3, <1>4, <1>5, <2>3, <2>4, <2>5, ChangesWell DEF told
<1> QED BY <1>6, <1>7

LEMMA RefileWell == ASSUME AlbumWell, NEW p \in DOMAIN shots, Refile(p) PROVE AlbumWell'
PROOF
<1>1. Counted /\ UNCHANGED <<album, tickets, sharing, desk, told>>
  BY DEF Refile
<1>2. shots \in [DOMAIN shots -> Shot]
  BY DEF AlbumWell, ShotsTyped
<1>3. /\ shots' \in [DOMAIN shots -> Shot] /\ DOMAIN shots' = DOMAIN shots
      /\ \A r \in DOMAIN shots : shots'[r].gift = shots[r].gift /\ shots'[r].creator = shots[r].creator
  <2>1. CASE shots' = [shots EXCEPT ![p].tagged = ~@]
    BY <2>1, <1>2 DEF Shot
  <2>2. CASE shots' = [shots EXCEPT ![p].trashed = ~@]
    BY <2>2, <1>2 DEF Shot
  <2> QED BY <2>1, <2>2 DEF Refile
<1>4. ShotsTyped' /\ ShotsGo
  BY <1>1, <1>3 DEF AlbumWell, ShotsTyped, ShotsGo
<1>5. AlbumTyped' /\ ToldWell'
  BY <1>1, CountedTyped DEF AlbumWell, ToldWell, told
<1> QED BY <1>1, <1>4, <1>5, RestsWell DEF told

LEMMA ListDerivedWell == ASSUME AlbumWell, NEW d \in Desks, ListDerived(d) PROVE AlbumWell'
PROOF
<1>1. PICK q : q = [desk[d] EXCEPT !.stage = "mark", !.todo = FindDerivedByPublicShare]
  OBVIOUS
<1>2. desk[d].stage = "derived" /\ desk' = [desk EXCEPT ![d] = q] /\ UNCHANGED <<album, shots, tickets, sharing, told, asks>>
  BY <1>1 DEF ListDerived, Reached, Proceeds
<1>3. desk[d] \in AlbumRequests /\ Sound(desk[d])
  BY DEF AlbumWell, DeskTyped, DeskSound
<1>4. desk[d] \in Rounds /\ album.status = "revoked"
  BY <1>2, <1>3, Rounders DEF Sound
<1>5. FindDerivedByPublicShare \subseteq Nat
  BY DEF AlbumWell, SharesTyped, FindDerivedByPublicShare
<1>6. q \in Rounds /\ q.stage = "mark" /\ q.todo = FindDerivedByPublicShare
  BY <1>1, <1>4, <1>5 DEF Rounds
<1>7. Sound(q)
  BY <1>4, <1>6 DEF Sound, FindDerivedByPublicShare
<1>8. Sound(q)' /\ q \in AlbumRequests
  BY <1>2, <1>6, <1>7, StaysSound, Unshared, Unpictured DEF AlbumRequests, AlbumServed
<1>9. ToldWell' /\ AlbumTyped'
  BY <1>2 DEF AlbumWell, ToldWell, AlbumTyped, told
<1> QED BY <1>2, <1>6, <1>8, <1>9, MovesWell DEF told

LEMMA MarkRevokedWell == ASSUME AlbumWell, NEW d \in Desks, MarkRevoked(d) PROVE AlbumWell'
PROOF
<1>1. desk[d].stage = "mark" /\ UNCHANGED <<album, shots, tickets, joined, told, asks>>
  BY DEF MarkRevoked, Reached
<1>2. desk[d] \in AlbumRequests /\ Sound(desk[d])
  BY DEF AlbumWell, DeskTyped, DeskSound
<1>3. /\ desk[d] \in Rounds /\ album.status = "revoked" /\ desk[d].todo \subseteq DOMAIN derived
      /\ \A j \in DOMAIN derived : Live(j) => derived[j].late \/ j \in desk[d].todo
  BY <1>1, <1>2, Rounders DEF Sound
<1>4. ToldWell' /\ AlbumTyped'
  BY <1>1 DEF AlbumWell, ToldWell, AlbumTyped, told
<1>5. PICK id \in desk[d].todo :
        IF derived[id].status = "revoked"
        THEN Proceeds(d, [desk[d] EXCEPT !.todo = desk[d].todo \ {id}]) /\ UNCHANGED derived
        ELSE /\ derived' = [derived EXCEPT ![id].status = "revoked"]
             /\ Proceeds(d, [desk[d] EXCEPT !.stage = "reach", !.todo = desk[d].todo \ {id}, !.id = id])
  BY DEF MarkRevoked
<1>6. id \in DOMAIN derived /\ id \in Nat
  BY <1>3 DEF AlbumWell, SharesTyped
<1>7. CASE derived[id].status = "revoked"
  <2>1. PICK q : q = [desk[d] EXCEPT !.todo = desk[d].todo \ {id}]
    OBVIOUS
  <2>2. q \in Rounds /\ q.stage = "mark" /\ q.todo = desk[d].todo \ {id}
    BY <1>1, <1>3, <2>1 DEF Rounds
  <2>3. ~Live(id)
    BY <1>7 DEF Live, Ended
  <2>4. Sound(q)
    BY <1>3, <2>2, <2>3 DEF Sound
  <2>5. desk' = [desk EXCEPT ![d] = q] /\ UNCHANGED sharing
    BY <1>1, <1>5, <1>7, <2>1 DEF Proceeds, sharing
  <2>6. Sound(q)' /\ q \in AlbumRequests
    BY <1>1, <2>2, <2>4, <2>5, StaysSound, Unshared, Unpictured DEF AlbumRequests, AlbumServed
  <2> QED BY <1>1, <1>4, <2>2, <2>5, <2>6, MovesWell DEF told
<1>8. CASE derived[id].status # "revoked"
  <2>1. PICK q : q = [desk[d] EXCEPT !.stage = "reach", !.todo = desk[d].todo \ {id}, !.id = id]
    OBVIOUS
  <2>2. q \in Rounds /\ q.stage = "reach" /\ q.todo = desk[d].todo \ {id} /\ q.id = id
    BY <1>3, <1>6, <2>1 DEF Rounds
  <2>3. desk' = [desk EXCEPT ![d] = q] /\ derived' = [derived EXCEPT ![id].status = "revoked"]
    BY <1>5, <1>8, <2>1 DEF Proceeds
  <2>4. "revoked" \in {"active"} \cup Ended
    BY DEF Ended
  <2>5. /\ derived' \in Seq(Derived) /\ DOMAIN derived' = DOMAIN derived
        /\ derived'[id].status = "revoked" /\ derived'[id].late = derived[id].late
        /\ \A i \in DOMAIN derived : i # id => derived'[i] = derived[i]
    BY <1>6, <2>3, <2>4, StatusSet DEF AlbumWell
  <2>6. ~Live(id)' /\ \A i \in DOMAIN derived : i # id => (Live(i)' <=> Live(i))
    BY <2>5 DEF Live, Ended
  <2>7. SharesGo /\ ShotsGo
    BY <1>1, <2>5, <2>6 DEF SharesGo, ShotsGo
  <2>8. Sound(q)' /\ q \in AlbumRequests
    <3>1. q.todo \subseteq DOMAIN derived' /\ \A j \in DOMAIN derived' : Live(j)' => derived'[j].late \/ j \in q.todo
      BY <1>3, <2>2, <2>5, <2>6
    <3> QED BY <1>1, <1>3, <1>6, <2>2, <2>5, <3>1 DEF Sound, AlbumRequests, AlbumServed
  <2>9. DeskTyped' /\ DeskSound' /\ desk'[d] = q /\ \A e \in Desks \ {d} : desk'[e] = desk[e]
    BY <1>1, <2>3, <2>7, <2>8, DesksMove DEF AlbumWell
  <2>10. SharesTyped' /\ ShotsTyped' /\ CascadeWell'
    BY <1>1, <2>5, <2>7, ShotsTypeStay, CascadeStays DEF AlbumWell, SharesTyped, told
  <2>11. EndsMeet'
    <3>1. Met(id)'
      BY <2>2, <2>9 DEF Met, Reaching
    <3>2. EndsMeet /\ crossed \subseteq crossed'
      BY <1>1 DEF AlbumWell, told
    <3>3. \A i \in DOMAIN derived' : ~Live(i)' => i = id \/ (i \in DOMAIN derived /\ ~Live(i))
      BY <2>5, <2>6
    <3>4. \A i \in DOMAIN derived' : Held(i)' => Held(i)
      BY <1>1 DEF Held
    <3>5. \A e \in Desks : desk[e].stage = "reach" => desk'[e].stage = "reach" /\ desk'[e].id = desk[e].id
      BY <1>1, <2>9
    <3>6. \A e \in Desks : desk'[e].stage \in {"join", "activate"} =>
             desk[e].stage \in {"join", "activate"} /\ desk'[e].id = desk[e].id
      BY <2>2, <2>9
    <3> QED BY <3>1, <3>2, <3>3, <3>4, <3>5, <3>6, EndsMove
  <2> QED BY <1>4, <2>9, <2>10, <2>11 DEF AlbumWell
<1> QED BY <1>7, <1>8

LEMMA TellRevokedWell == ASSUME AlbumWell, NEW d \in Desks, TellRevoked(d) PROVE AlbumWell'
PROOF
<1>1. PICK id : id = desk[d].id
  OBVIOUS
<1> DEFINE here == derived[id].who \in Neighbours
<1>2. /\ desk[d].stage = "reach"
      /\ IF id \in DOMAIN joined /\ ~(here /\ joined[id] \in Ended)
         THEN joined' = [joined EXCEPT ![id] = "revoked"] ELSE UNCHANGED joined
      /\ desk' = [desk EXCEPT ![d] = IF here \/ id \in DOMAIN joined THEN [desk[d] EXCEPT !.stage = "mark"] ELSE NoRequest]
      /\ crossed' = IF Joining(id) THEN crossed \cup {id} ELSE crossed
      /\ UNCHANGED <<album, shots, tickets, derived, latest, blurred, cascaded, misdeeds, asks>>
  BY <1>1 DEF TellRevoked, Reached, Proceeds, Answered, Crosses
<1>3. desk[d] \in AlbumRequests /\ Sound(desk[d])
  BY DEF AlbumWell, DeskTyped, DeskSound
<1>4. desk[d] \in Rounds
  BY <1>2, <1>3, Rounders
<1>5. /\ DOMAIN joined' = DOMAIN joined
      /\ \A i \in DOMAIN joined : joined'[i] \in {joined[i], "revoked"}
      /\ id \in DOMAIN joined => joined'[id] \in Ended
  BY <1>2 DEF Ended
<1>6. SharesTyped'
  <2>1. joined' \in [DOMAIN joined' -> {"pending", "active"} \cup Ended]
    <3>1. CASE joined' = [joined EXCEPT ![id] = "revoked"]
      BY <3>1, <1>5 DEF AlbumWell, SharesTyped, Ended
    <3>2. CASE joined' = joined
      BY <3>2 DEF AlbumWell, SharesTyped
    <3> QED BY <3>1, <3>2, <1>2
  <2> QED BY <2>1, <1>2, <1>5 DEF AlbumWell, SharesTyped
<1>7. SharesGo /\ ShotsGo
  BY <1>2, <1>5 DEF SharesGo, ShotsGo, Live
<1>8. PICK q : q = IF here \/ id \in DOMAIN joined THEN [desk[d] EXCEPT !.stage = "mark"] ELSE NoRequest
  OBVIOUS
<1>9. desk' = [desk EXCEPT ![d] = q]
  BY <1>2, <1>8
<1>10. Sound(q)' /\ q \in AlbumRequests /\ q.stage \in {"mark", "free"}
  <2>1. CASE q = NoRequest
    <3>1. Sound(NoRequest)' /\ NoRequest \in AlbumRequests /\ NoRequest.stage = "free"
      BY FreeWillBeSound DEF AlbumRequests, NoRequest
    <3> QED BY <2>1, <3>1 DEF Sound
  <2>2. CASE q = [desk[d] EXCEPT !.stage = "mark"]
    <3>1. q \in Rounds /\ q.stage = "mark" /\ q.todo = desk[d].todo
      BY <2>2, <1>4 DEF Rounds
    <3>2. Sound(q)
      BY <3>1, <1>2, <1>3 DEF Sound
    <3> QED BY <3>1, <3>2, <1>2, <1>7, StaysSound DEF AlbumRequests, AlbumServed
  <2> QED BY <1>8, <2>1, <2>2
<1>11. DeskTyped' /\ DeskSound' /\ desk'[d] = q /\ \A e \in Desks \ {d} : desk'[e] = desk[e]
  BY <1>2, <1>7, <1>9, <1>10, DesksMove DEF AlbumWell
<1>12. ToldWell' /\ AlbumTyped' /\ ShotsTyped' /\ CascadeWell'
  BY <1>2, <1>7, ShotsTypeStay, CascadeStays DEF AlbumWell, ToldWell, AlbumTyped
<1>13. EndsMeet'
  <2>1. Met(id)'
    <3> SUFFICES ASSUME id \notin crossed' PROVE ~Joining(id)' /\ ~Held(id)'
      BY DEF Met
    <3>1. ~Joining(id)
      BY <1>2
    <3> QED BY <3>1, <1>5, <1>10, <1>11 DEF Joining, Held, Ended
  <2>2. EndsMeet /\ crossed \subseteq crossed'
    BY <1>2 DEF AlbumWell
  <2>3. \A i \in DOMAIN derived' : ~Live(i)' => i \in DOMAIN derived /\ ~Live(i)
    BY <1>2 DEF Live
  <2>4. \A i \in DOMAIN derived' : Held(i)' => Held(i)
    BY <1>5 DEF Held
  <2>5. \A e \in Desks : desk[e].stage = "reach" =>
           desk[e].id = id \/ (desk'[e].stage = "reach" /\ desk'[e].id = desk[e].id)
    BY <1>1, <1>11
  <2>6. \A e \in Desks : desk'[e].stage \in {"join", "activate"} =>
           desk[e].stage \in {"join", "activate"} /\ desk'[e].id = desk[e].id
    BY <1>10, <1>11
  <2> QED BY <2>1, <2>2, <2>3, <2>4, <2>5, <2>6, EndsMove
<1> QED BY <1>6, <1>11, <1>12, <1>13 DEF AlbumWell

LEMMA CascadeEndsWell == ASSUME AlbumWell, NEW d \in Desks, CascadeEnds(d) PROVE AlbumWell'
PROOF
<1>1. PICK q : q = IF desk[d].clear THEN [desk[d] EXCEPT !.stage = "sweep"] ELSE NoRequest
  OBVIOUS
<1>2. /\ desk[d].stage = "mark" /\ desk[d].todo = {} /\ desk' = [desk EXCEPT ![d] = q] /\ cascaded' = TRUE
      /\ UNCHANGED <<album, shots, tickets, sharing, latest, blurred, crossed, misdeeds, asks>>
  BY <1>1 DEF CascadeEnds, Reached, AfterCascade, Proceeds, Answered
<1>3. desk[d] \in AlbumRequests /\ Sound(desk[d])
  BY DEF AlbumWell, DeskTyped, DeskSound
<1>4. desk[d] \in Rounds
  BY <1>2, <1>3, Rounders
<1>5. Sound(q)' /\ q \in AlbumRequests /\ q.stage \in {"sweep", "free"}
  <2>1. CASE q = NoRequest
    <3>1. Sound(NoRequest)' /\ NoRequest \in AlbumRequests /\ NoRequest.stage = "free"
      BY FreeWillBeSound DEF AlbumRequests, NoRequest
    <3> QED BY <2>1, <3>1 DEF Sound
  <2>2. CASE q = [desk[d] EXCEPT !.stage = "sweep"]
    <3>1. q \in Rounds /\ q.stage = "sweep"
      BY <2>2, <1>4 DEF Rounds
    <3> QED BY <3>1 DEF Sound, AlbumRequests, AlbumServed
  <2> QED BY <1>1, <2>1, <2>2
<1>6. SharesGo /\ ShotsGo
  BY <1>2, Unshared, Unpictured
<1>7. DeskTyped' /\ DeskSound' /\ desk'[d] = q /\ \A e \in Desks \ {d} : desk'[e] = desk[e]
  BY <1>2, <1>5, <1>6, DesksMove DEF AlbumWell
<1>8. CascadeWell'
  <2>1. album.status = "revoked" /\ \A id \in DOMAIN derived : Live(id) => derived[id].late
    BY <1>2, <1>3 DEF Sound
  <2> QED BY <2>1, <1>2 DEF CascadeWell, sharing, Live
<1>9. SharesTyped' /\ ShotsTyped' /\ ToldWell' /\ AlbumTyped'
  BY <1>2, SharesTypeStay, ShotsTypeStay DEF AlbumWell, ToldWell, AlbumTyped
<1>10. EndsMeet'
  BY <1>2, <1>5, <1>7, EndsStay DEF AlbumWell
<1> QED BY <1>7, <1>8, <1>9, <1>10 DEF AlbumWell

LEMMA TrashContributionsWell == ASSUME AlbumWell, TrashContributions PROVE AlbumWell'
PROOF
<1>1. PICK q : q = Round("sweep", FALSE)
  OBVIOUS
<1>2. Opens(q) /\ UNCHANGED <<album, shots, tickets, sharing, told>>
  BY <1>1 DEF TrashContributions
<1>3. q \in Rounds /\ q.stage = "sweep"
  BY <1>1 DEF Round, Rounds
<1> QED BY <1>2, <1>3, OpensWell DEF AlbumServed, Sound

LEMMA SweepGiftsWell == ASSUME AlbumWell, NEW d \in Desks, SweepGifts(d) PROVE AlbumWell'
PROOF
<1>1. PICK q : q = IF ContributionIds = {} THEN NoRequest ELSE [desk[d] EXCEPT !.stage = "trash", !.pics = ContributionIds]
  OBVIOUS
<1>2. desk[d].stage = "sweep" /\ desk' = [desk EXCEPT ![d] = q] /\ UNCHANGED <<album, shots, tickets, sharing, told, asks>>
  BY <1>1 DEF SweepGifts, Reached, Proceeds, Answered
<1>3. desk[d] \in AlbumRequests
  BY DEF AlbumWell, DeskTyped
<1>4. desk[d] \in Rounds
  BY <1>2, <1>3, Rounders
<1>5. ContributionIds \subseteq DOMAIN shots /\ ContributionIds \subseteq Shots /\ \A p \in ContributionIds : shots[p].gift
  BY DEF ContributionIds, AlbumWell, ShotsTyped
<1>6. Sound(q)' /\ q \in AlbumRequests /\ q.stage \in {"trash", "free"}
  <2>1. CASE q = NoRequest
    <3>1. Sound(NoRequest)' /\ NoRequest \in AlbumRequests /\ NoRequest.stage = "free"
      BY FreeWillBeSound DEF AlbumRequests, NoRequest
    <3> QED BY <2>1, <3>1 DEF Sound
  <2>2. CASE q = [desk[d] EXCEPT !.stage = "trash", !.pics = ContributionIds]
    <3>1. q \in Rounds /\ q.stage = "trash" /\ q.pics = ContributionIds
      BY <2>2, <1>4, <1>5 DEF Rounds
    <3> QED BY <3>1, <1>2, <1>5 DEF Sound, AlbumRequests, AlbumServed
  <2> QED BY <1>1, <2>1, <2>2
<1>7. ToldWell' /\ AlbumTyped'
  BY <1>2 DEF AlbumWell, ToldWell, AlbumTyped, told
<1> QED BY <1>2, <1>6, <1>7, MovesWell DEF told

LEMMA TrashSweptWell == ASSUME AlbumWell, NEW d \in Desks, TrashSwept(d) PROVE AlbumWell'
PROOF
<1>1. /\ desk[d].stage = "trash"
      /\ shots' = [p \in DOMAIN shots |-> IF p \in desk[d].pics THEN [shots[p] EXCEPT !.trashed = TRUE] ELSE shots[p]]
      /\ desk' = [desk EXCEPT ![d] = NoRequest]
      /\ misdeeds' = IF \A p \in desk[d].pics : shots[p].gift THEN misdeeds ELSE misdeeds \cup {<<"sweep", "not sent">>}
      /\ UNCHANGED <<album, tickets, sharing, latest, blurred, crossed, cascaded, asks>>
  BY DEF TrashSwept, Reached, Answered
<1>2. \A p \in desk[d].pics : shots[p].gift
  BY <1>1 DEF AlbumWell, DeskSound, Sound
<1>3. shots \in [DOMAIN shots -> Shot]
  BY DEF AlbumWell, ShotsTyped
<1>4. \A p \in DOMAIN shots : /\ [shots[p] EXCEPT !.trashed = TRUE] \in Shot
                             /\ [shots[p] EXCEPT !.trashed = TRUE].gift = shots[p].gift
                             /\ [shots[p] EXCEPT !.trashed = TRUE].creator = shots[p].creator
  BY <1>3 DEF Shot
<1>5. /\ shots' \in [DOMAIN shots -> Shot] /\ DOMAIN shots' = DOMAIN shots
      /\ \A r \in DOMAIN shots : shots'[r].gift = shots[r].gift /\ shots'[r].creator = shots[r].creator
  BY <1>1, <1>3, <1>4
<1>6. ShotsTyped' /\ ShotsGo
  BY <1>1, <1>5 DEF AlbumWell, ShotsTyped, ShotsGo
<1>7. ToldWell'
  BY <1>1, <1>2 DEF AlbumWell, ToldWell
<1>8. NoRequest \in AlbumRequests /\ NoRequest.stage = "free"
  BY DEF AlbumRequests, NoRequest
<1> QED BY <1>1, <1>6, <1>7, <1>8, PicturesMove, FreeWillBeSound

LEMMA DiesWell == ASSUME AlbumWell, NEW d \in Desks, Dies(d) PROVE AlbumWell'
PROOF
<1>1. PICK id : id = IF desk[d].stage = "reach" THEN desk[d].id ELSE 0
  OBVIOUS
<1>2. /\ desk' = [desk EXCEPT ![d] = NoRequest]
      /\ crossed' = IF desk[d].stage = "reach" THEN crossed \cup {id} ELSE crossed
      /\ UNCHANGED <<album, shots, tickets, sharing, latest, blurred, cascaded, misdeeds, asks>>
  BY <1>1 DEF Dies, Reached, Answered
<1>3. NoRequest \in AlbumRequests /\ NoRequest.stage = "free"
  BY DEF AlbumRequests, NoRequest
<1>4. SharesGo /\ ShotsGo
  BY <1>2, Unshared, Unpictured
<1>5. DeskTyped' /\ DeskSound' /\ desk'[d] = NoRequest /\ \A e \in Desks \ {d} : desk'[e] = desk[e]
  BY <1>2, <1>3, <1>4, DesksMove, FreeWillBeSound DEF AlbumWell
<1>6. SharesTyped' /\ ShotsTyped' /\ CascadeWell' /\ ToldWell' /\ AlbumTyped'
  BY <1>2, <1>4, SharesTypeStay, ShotsTypeStay, CascadeStays DEF AlbumWell, ToldWell, AlbumTyped
<1>7. EndsMeet'
  <2>1. id \in DOMAIN derived' => Met(id)'
    <3>1. CASE desk[d].stage = "reach"
      BY <3>1, <1>2 DEF Met
    <3>2. CASE desk[d].stage # "reach"
      BY <3>2, <1>1, <1>2 DEF AlbumWell, SharesTyped, sharing
    <3> QED BY <3>1, <3>2
  <2>2. EndsMeet /\ crossed \subseteq crossed'
    BY <1>2 DEF AlbumWell
  <2>3. \A i \in DOMAIN derived' : ~Live(i)' => i \in DOMAIN derived /\ ~Live(i)
    BY <1>2 DEF Live, sharing
  <2>4. \A i \in DOMAIN derived' : Held(i)' => Held(i)
    BY <1>2 DEF Held, sharing
  <2>5. \A e \in Desks : desk[e].stage = "reach" =>
           desk[e].id = id \/ (desk'[e].stage = "reach" /\ desk'[e].id = desk[e].id)
    BY <1>1, <1>5
  <2>6. \A e \in Desks : desk'[e].stage \in {"join", "activate"} =>
           desk[e].stage \in {"join", "activate"} /\ desk'[e].id = desk[e].id
    BY <1>3, <1>5
  <2> QED BY <2>1, <2>2, <2>3, <2>4, <2>5, <2>6, EndsMove
<1> QED BY <1>5, <1>6, <1>7 DEF AlbumWell
-----------------------------------------------------------------------------
LEMMA AlbumStarts == PublicSharesInit => AlbumWell
PROOF
<1> SUFFICES ASSUME PublicSharesInit PROVE AlbumWell
  OBVIOUS
<1>1. AlbumTyped
  BY DEF PublicSharesInit, AlbumTyped, AlbumRow, NoPassword
<1>2. ShotsTyped
  BY PublicSharesAssumption DEF PublicSharesInit, ShotsTyped, Shot
<1>3. SharesTyped
  BY DEF PublicSharesInit, SharesTyped
<1>4. DeskTyped
  BY DEF PublicSharesInit, DeskTyped, AlbumRequests
<1>5. DeskSound
  BY FreeIsSound DEF PublicSharesInit, DeskSound
<1>6. CascadeWell /\ ToldWell
  BY DEF PublicSharesInit, CascadeWell, ToldWell
<1>7. EndsMeet
  BY DEF PublicSharesInit, EndsMeet
<1> QED BY <1>1, <1>2, <1>3, <1>4, <1>5, <1>6, <1>7 DEF AlbumWell

LEMMA AlbumSteps == AlbumWell /\ [PublicSharesNext]_albumVars => AlbumWell'
PROOF
<1> SUFFICES ASSUME AlbumWell, [PublicSharesNext]_albumVars PROVE AlbumWell'
  OBVIOUS
<1>1. CASE UNCHANGED albumVars
  <2>1. UNCHANGED <<album, shots, tickets, sharing, desk, told, asks>>
    BY <1>1 DEF albumVars
  <2>2. AlbumTyped' /\ ToldWell' /\ ShotsTyped'
    BY <2>1, ShotsTypeStay DEF AlbumWell, AlbumTyped, ToldWell, told
  <2> QED BY <2>1, <2>2, RestsWell, Unpictured DEF told
<1>2. CASE PublicSharesNext
  <2>1. CASE \E v \in Holders : Unlock(v) \/ KeyExpires(v) \/ Claim(v) \/ \E a \in About, w \in Variants : Enquire(v, a, w)
    BY <2>1, UnlockWell, ClaimWell, EnquireWell
  <2>2. CASE Ticket \/ \E p \in Shots, named \in BOOLEAN : Finish(p, named)
    BY <2>2, TicketWell, FinishWell
  <2>3. CASE \E id \in DOMAIN derived : FirstPass(id)
    BY <2>3, FirstPassWell
  <2>4. CASE \E id \in DOMAIN joined : Decline(id) \/ Leave(id)
    BY <2>4, DeclineWell, LeaveWell
  <2>5. CASE \E i \in Albums : Amend(i)
    BY <2>5, AmendWell
  <2>6. CASE Expire \/ \E p \in DOMAIN shots : Refile(p)
    BY <2>6, ExpireWell, RefileWell
  <2>7. CASE \E cascade, clear \in BOOLEAN : Revoke(cascade, clear)
    BY <2>7, RevokeWell
  <2>8. CASE TrashContributions
    BY <2>8, TrashContributionsWell
  <2>9. ASSUME NEW d \in Desks, Tell(d) \/ TellNothing(d) \/ Land(d) \/ Credit(d)
        PROVE  AlbumWell'
    BY <2>9, TellWell, TellNothingWell, LandWell, CreditWell
  <2>10. ASSUME NEW d \in Desks, FindExisting(d) \/ MintDerived(d) \/ Join(d) \/ Activate(d) \/ NotifyLeft(d)
         PROVE  AlbumWell'
    BY <2>10, FindExistingWell, MintDerivedWell, JoinWell, ActivateWell, NotifyLeftWell
  <2>11. ASSUME NEW d \in Desks, Write(d) \/ ListDerived(d) \/ MarkRevoked(d) \/ TellRevoked(d) \/ CascadeEnds(d)
         PROVE  AlbumWell'
    BY <2>11, WriteWell, ListDerivedWell, MarkRevokedWell, TellRevokedWell, CascadeEndsWell
  <2>12. ASSUME NEW d \in Desks, SweepGifts(d) \/ TrashSwept(d) \/ Dies(d) PROVE AlbumWell'
    BY <2>12, SweepGiftsWell, TrashSweptWell, DiesWell
  <2> QED BY <1>2, <2>1, <2>2, <2>3, <2>4, <2>5, <2>6, <2>7, <2>8, <2>9, <2>10, <2>11, <2>12 DEF PublicSharesNext
<1> QED BY <1>1, <1>2

LEMMA AlbumHolds == PublicSharesSpec => []AlbumWell
PROOF BY AlbumStarts, AlbumSteps, PTL DEF PublicSharesSpec

(* The album, the pictures, the tickets and the shares derived from it have their types. *)
THEOREM AlbumTypes == PublicSharesSpec => []PublicSharesTypeOK
PROOF
<1>1. AlbumWell => PublicSharesTypeOK
  <2> SUFFICES ASSUME AlbumWell PROVE PublicSharesTypeOK
    OBVIOUS
  <2>1. album.status \in {"active", "revoked"}
    BY DEF AlbumWell, AlbumTyped, AlbumRow
  <2>2. DOMAIN shots \subseteq Shots /\ tickets \subseteq Shots \ DOMAIN shots
    BY DEF AlbumWell, ShotsTyped
  <2>3. DOMAIN joined \subseteq DOMAIN derived /\ \A id \in DOMAIN joined : joined[id] \in {"pending", "active"} \cup Ended
    BY DEF AlbumWell, SharesTyped
  <2>4. \A id \in DOMAIN derived : derived[id] \in Derived
    BY DEF AlbumWell, SharesTyped
  <2>5. \A id \in DOMAIN derived : derived[id].who \in Holders /\ derived[id].status \in {"first", "active"} \cup Ended
    BY <2>4 DEF Derived
  <2> QED BY <2>1, <2>2, <2>3, <2>5 DEF PublicSharesTypeOK
<1> QED BY <1>1, AlbumHolds, PTL

(* Whatever holders, contributors and the owner ask, in any order and with any request dying under way,  *)
(* a cascading revoke that went through leaves no share derived before it, an end outlives the other      *)
(* only where they crossed, the password is the last one set unless updates overlapped, and no answer,     *)
(* contribution or sweep goes against the rules of the album it was not overtaken by, but for what the     *)
(* list of a view-only album leaks.                                                                        *)
THEOREM AlbumAlwaysEndsClean == PublicSharesSpec => []AlbumEndsClean
PROOF
<1>1. AlbumWell => AlbumEndsClean
  <2> SUFFICES ASSUME AlbumWell PROVE AlbumEndsClean
    OBVIOUS
  <2>1. cascaded => \A id \in DOMAIN derived : Live(id) => derived[id].late
    BY DEF AlbumWell, CascadeWell
  <2>2. ASSUME \A d \in Desks : desk[d] = NoRequest, NEW id \in DOMAIN joined, joined[id] = "active"
        PROVE  Live(id) \/ id \in crossed
    <3>1. id \in DOMAIN derived /\ Held(id) /\ ~Reaching(id)
      BY <2>2 DEF AlbumWell, SharesTyped, Held, Reaching, NoRequest
    <3> QED BY <3>1 DEF AlbumWell, EndsMeet
  <2> QED BY <2>1, <2>2 DEF AlbumEndsClean, AlbumWell, ToldWell
<1> QED BY <1>1, AlbumHolds, PTL
=============================================================================
