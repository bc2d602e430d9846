-------------------------- MODULE FederationTokens --------------------------
(***************************************************************************)
(* How a backend finds and is let in by another instance                     *)
(* (clients/federation/handshake.rs, resolve.rs, message.rs).  Its Redis has    *)
(* one token for the peer instance, the nonce its next grant must echo and a   *)
(* lock that keeps handshakes apart, each with a time to live, and the backend *)
(* of each user of the peer, cached for an hour and kept longer as a fallback.  *)
(* A handshake asks a backend of the peer for a token, which posts it back in a *)
(* request of its own.  A send takes the token, by a handshake if there is none, *)
(* finds the backend of its user and posts.                                  *)
(***************************************************************************)
EXTENDS Naturals, FiniteSets

CONSTANTS
    Peers,       \* users of the peer instance
    Backends,    \* its backends
    Domain,      \* the address of its domain, taken for a backend's when its resolver says not found
    Callers,     \* requests and routines of this backend that send to it, all alike
    MaxShakes,   \* handshakes, bounded for TLC
    MaxSends,    \* sends, bounded for TLC
    MaxMishaps   \* users that move to another backend, and failures of a server or of the cache,
                 \* bounded for TLC

ASSUME FederationTokensAssumption ==
    /\ Backends \subseteq Nat \ {0} /\ Domain \in Nat \ (Backends \cup {0})
    /\ Peers # {} /\ Backends # {} /\ Callers \subseteq Nat \ {0}
    /\ MaxShakes \in Nat /\ MaxSends \in Nat /\ MaxMishaps \in Nat

Handshakes == 1..MaxShakes
Unset == 0      \* no token, nonce, address or caller

VARIABLES
    home,      \* the backend that has each user
    token,     \* the token in the cache, by the handshake that got it
    near,      \* it is within the refresh margin
    nonce,     \* the pending nonce, by the handshake that minted it
    locked,
    url,       \* the cached backend of each user
    fallback,  \* the long-lived copy
    wanted,    \* handshakes about to take the lock
    shakes,    \* those that took it, in that order
    outgoing,
    slow,      \* history: handshakes that outlived the lock, and those begun beside one
    outdated,  \* history: a handshake in time for the lock replaced a newer one's token
    busted,    \* history: users found unreachable since they last moved ...
    passed,   \* history: ... and users whose last move was overtaken by a lookup under way
    sends, mishaps

redisVars == <<token, near, nonce, locked>>
urlVars == <<home, url, fallback, busted, passed>>
countVars == <<sends, mishaps>>
shakeVars == <<wanted, shakes, slow, outdated>>
peersVars == <<redisVars, urlVars, shakeVars, outgoing, countVars>>

Unborn == [stage |-> "unborn"]
Over == [stage |-> "over"]
Denied == [stage |-> "refused"]
NoCall == [stage |-> "idle"]

PeersStart(homes) ==
    /\ home = homes /\ url = [u \in Peers |-> Unset] /\ fallback = url
    /\ token = Unset /\ near = FALSE /\ nonce = Unset /\ locked = FALSE /\ wanted = {}
    /\ shakes = [h \in Handshakes |-> Unborn] /\ outgoing = [c \in Callers |-> NoCall]
    /\ slow = {} /\ outdated = FALSE /\ busted = {} /\ passed = {}
    /\ sends = 0 /\ mishaps = 0

PeersInit == \E homes \in [Peers -> Backends] : PeersStart(homes)

Mishap(n) == mishaps' = mishaps + n /\ mishaps' <= MaxMishaps
Before(h, stage) == shakes[h].stage = stage
Underway == {h \in Handshakes :
    shakes[h].stage \in {"resolving", "caching", "minting", "asked", "read", "consumed"}}
----------------------------------------------------------------------------
(* Where a user's backend is *)

(* resolve_backend_url: what it may find, whether the resolver has just said so, and what failed *)
Addresses(u) ==
    IF url[u] # Unset THEN {[at |-> url[u], fresh |-> FALSE, mishap |-> 0]}
    ELSE {[at |-> home[u], fresh |-> TRUE, mishap |-> 0], [at |-> Domain, fresh |-> FALSE, mishap |-> 1],
          [at |-> fallback[u], fresh |-> FALSE, mishap |-> 1], [at |-> Unset, fresh |-> FALSE, mishap |-> 1]}

(* only what the resolver said is cached *)
CacheAddress(u, b) == url' = [url EXCEPT ![u] = b] /\ fallback' = [fallback EXCEPT ![u] = b]

UrlExpires(u) ==
    /\ url[u] # Unset /\ url' = [url EXCEPT ![u] = Unset]
    /\ UNCHANGED <<home, fallback, busted, passed, redisVars, shakeVars, outgoing, countVars>>

Overtaken(u) ==
    \/ \E h \in Handshakes : Before(h, "caching") /\ shakes[h].peer = u
    \/ \E c \in Callers : outgoing[c].stage = "caching" /\ outgoing[c].peer = u
UserMoves(u, b) ==
    /\ b # home[u] /\ Mishap(1)
    /\ home' = [home EXCEPT ![u] = b] /\ busted' = busted \ {u}
    /\ passed' = IF Overtaken(u) THEN passed \cup {u} ELSE passed \ {u}
    /\ UNCHANGED <<url, fallback, redisVars, shakeVars, outgoing, sends>>
----------------------------------------------------------------------------
(* Handshakes *)

(* a send that waited for a handshake goes on to look for the token, or fails *)
Resumed(c, ok) == [d \in Callers |->
    IF d # c THEN outgoing[d] ELSE IF ok THEN [outgoing[d] EXCEPT !.stage = "polling"] ELSE NoCall]
ShakeOver(h, how, ok) == shakes' = [shakes EXCEPT ![h] = how] /\ outgoing' = Resumed(shakes[h].by, ok)

(* as if the lock were set whether or not it is *)
AcquiredAnyhow(h) == UNCHANGED <<slow, mishaps>>
(* SET NX EX: the lock is free, or Redis does not say, and then two may run at once *)
Acquired(h) ==
    \/ ~locked /\ slow' = (IF Underway \cap slow = {} THEN slow ELSE slow \cup {h}) /\ UNCHANGED mishaps
    \/ locked /\ Mishap(1) /\ slow' = slow \cup Underway \cup {h}

TakesLock(w) ==
    LET h == CHOOSE h \in Handshakes : Before(h, "unborn") /\ \A g \in 1..(h - 1) : ~Before(g, "unborn")
    IN /\ w \in wanted /\ wanted' = wanted \ {w} /\ (\E g \in Handshakes : Before(g, "unborn"))
       /\ Acquired(h) /\ locked' = TRUE
       /\ shakes' = [shakes EXCEPT ![h] = [stage |-> "resolving", peer |-> w.peer, by |-> w.by, at |-> Unset]]
       /\ UNCHANGED <<token, near, nonce, urlVars, outgoing, outdated, sends>>
(* another handshake is under way: wait for what it brings *)
LeavesItToOther(w) ==
    /\ w \in wanted /\ locked /\ wanted' = wanted \ {w} /\ outgoing' = Resumed(w.by, TRUE)
    /\ UNCHANGED <<redisVars, urlVars, shakes, slow, outdated, countVars>>

ShakeResolves(h) ==
    /\ Before(h, "resolving")
    /\ \E a \in Addresses(shakes[h].peer) :
          /\ Mishap(a.mishap)
          /\ IF a.at = Unset THEN ShakeOver(h, Over, FALSE)
             ELSE /\ shakes' = [shakes EXCEPT ![h].at = a.at,
                                              ![h].stage = IF a.fresh THEN "caching" ELSE "minting"]
                  /\ UNCHANGED outgoing
    /\ UNCHANGED <<redisVars, urlVars, wanted, slow, outdated, sends>>
ShakeCaches(h) ==
    /\ Before(h, "caching") /\ CacheAddress(shakes[h].peer, shakes[h].at)
    /\ shakes' = [shakes EXCEPT ![h].stage = "minting"]
    /\ UNCHANGED <<home, busted, passed, redisVars, wanted, outgoing, slow, outdated, countVars>>

(* the nonce is kept, and then the request is sent *)
AsksForToken(h) ==
    /\ Before(h, "minting") /\ nonce' = h /\ shakes' = [shakes EXCEPT ![h].stage = "asked"]
    /\ UNCHANGED <<token, near, locked, urlVars, wanted, outgoing, slow, outdated, countVars>>

(* the backend asked issues a token, whoever it has, and posts it before it answers *)
Grants(h) == Before(h, "asked") /\ shakes[h].at \in Backends
(* the request or the grant does not arrive *)
Undelivered(h) ==
    /\ Before(h, "asked") /\ Mishap(IF shakes[h].at = home[shakes[h].peer] THEN 1 ELSE 0)
    /\ ShakeOver(h, Over, FALSE)
    /\ UNCHANGED <<redisVars, urlVars, wanted, slow, outdated, sends>>
(* the send stops waiting for the answer; the grant may still come *)
TimesOut(h) ==
    /\ shakes[h].stage \in {"asked", "read", "consumed"} /\ shakes[h].by # Unset
    /\ Mishap(1) /\ ShakeOver(h, [shakes[h] EXCEPT !.by = Unset], FALSE)
    /\ UNCHANGED <<redisVars, urlVars, wanted, slow, outdated, sends>>

(* auth_grant: the nonce is read, deleted if it is the grant's, and the token is kept *)
Echoes(h) == nonce = h
GrantMatches(h) ==
    /\ Grants(h) /\ Echoes(h) /\ shakes' = [shakes EXCEPT ![h].stage = "read"]
    /\ UNCHANGED <<redisVars, urlVars, wanted, outgoing, slow, outdated, countVars>>
GrantDenied(h) ==
    /\ Grants(h) /\ ~Echoes(h) /\ ShakeOver(h, Denied, FALSE)
    /\ UNCHANGED <<redisVars, urlVars, wanted, slow, outdated, countVars>>
NonceConsumed(h) ==
    /\ Before(h, "read") /\ nonce' = Unset /\ shakes' = [shakes EXCEPT ![h].stage = "consumed"]
    /\ UNCHANGED <<token, near, locked, urlVars, wanted, outgoing, slow, outdated, countVars>>
TokenStored(h) ==
    /\ Before(h, "consumed") /\ token' = h /\ near' = FALSE /\ ShakeOver(h, Over, TRUE)
    /\ outdated' = (outdated \/ (token > h /\ h \notin slow))
    /\ UNCHANGED <<nonce, locked, urlVars, wanted, slow, countVars>>

(* times to live; the nonce's minute is longer than the lock's seconds, and the nonce of a handshake *)
(* that is over matters to no grant *)
LockExpires ==
    /\ locked /\ locked' = FALSE /\ slow' = slow \cup Underway
    /\ UNCHANGED <<token, near, nonce, urlVars, wanted, shakes, outgoing, outdated, countVars>>
NonceExpires ==
    /\ nonce # Unset /\ nonce \in Underway \cap slow /\ nonce' = Unset
    /\ UNCHANGED <<token, near, locked, urlVars, shakeVars, outgoing, countVars>>
TokenAges ==
    /\ token # Unset
    /\ IF near THEN token' = Unset /\ near' = FALSE ELSE near' = TRUE /\ UNCHANGED token
    /\ UNCHANGED <<nonce, locked, urlVars, shakeVars, outgoing, countVars>>
----------------------------------------------------------------------------
(* Sends *)

Call(stage, u) == [stage |-> stage, peer |-> u, at |-> Unset, again |-> FALSE]
(* ensure_federation_token: the token of the cache, refreshed in the background when it is near *)
(* its end; without one the send has to see to a handshake first                              *)
SendStarts(c, u) ==
    /\ outgoing[c] = NoCall /\ (\A d \in Callers : d < c => outgoing[d] # NoCall)
    /\ sends < MaxSends /\ sends' = sends + 1
    /\ outgoing' = [outgoing EXCEPT ![c] = Call(IF token = Unset THEN "waiting" ELSE "resolving", u)]
    /\ wanted' = wanted \cup IF token = Unset THEN {[peer |-> u, by |-> c]}
                             ELSE IF near THEN {[peer |-> u, by |-> Unset]} ELSE {}
    /\ UNCHANGED <<redisVars, urlVars, shakes, slow, outdated, mishaps>>

Polls(c) ==
    /\ outgoing[c].stage = "polling"
    /\ outgoing' = [outgoing EXCEPT ![c] = IF token = Unset THEN NoCall ELSE [@ EXCEPT !.stage = "resolving"]]
    /\ UNCHANGED <<redisVars, urlVars, shakeVars, countVars>>

CallResolves(c) ==
    /\ outgoing[c].stage = "resolving"
    /\ \E a \in Addresses(outgoing[c].peer) :
          /\ Mishap(a.mishap)
          /\ outgoing' = [outgoing EXCEPT ![c] = IF a.at = Unset THEN NoCall
                ELSE [@ EXCEPT !.stage = IF a.fresh THEN "caching" ELSE "posting", !.at = a.at]]
    /\ UNCHANGED <<redisVars, urlVars, shakeVars, sends>>
CallCaches(c) ==
    /\ outgoing[c].stage = "caching" /\ CacheAddress(outgoing[c].peer, outgoing[c].at)
    /\ outgoing' = [outgoing EXCEPT ![c].stage = "posting"]
    /\ UNCHANGED <<home, busted, passed, redisVars, shakeVars, countVars>>

(* handled, or refused for good: a token of another backend or out of date, a user not there *)
PostAnswered(c) ==
    /\ outgoing[c].stage = "posting" /\ outgoing' = [outgoing EXCEPT ![c] = NoCall]
    /\ UNCHANGED <<redisVars, urlVars, shakeVars, countVars>>

Forgotten(u) == [url EXCEPT ![u] = Unset]

(* no answer, or one that may be better later: the first time, look up the backend again *)
PostFails(c) ==
    LET u == outgoing[c].peer
    IN /\ outgoing[c].stage = "posting" /\ Mishap(IF outgoing[c].at = home[u] THEN 1 ELSE 0)
       /\ IF outgoing[c].again
          THEN outgoing' = [outgoing EXCEPT ![c] = NoCall] /\ UNCHANGED <<url, busted>>
          ELSE /\ outgoing' = [outgoing EXCEPT ![c].stage = "resolving", ![c].again = TRUE]
               /\ url' = Forgotten(u) /\ busted' = busted \cup ({u} \ passed)
       /\ UNCHANGED <<home, fallback, passed, redisVars, shakeVars, sends>>
----------------------------------------------------------------------------
PeersNext ==
    \/ \E u \in Peers : UrlExpires(u) \/ \E b \in Backends : UserMoves(u, b)
    \/ \E w \in wanted : TakesLock(w) \/ LeavesItToOther(w)
    \/ \E h \in Handshakes :
          \/ ShakeResolves(h) \/ ShakeCaches(h) \/ AsksForToken(h) \/ Undelivered(h) \/ TimesOut(h)
          \/ GrantMatches(h) \/ GrantDenied(h) \/ NonceConsumed(h) \/ TokenStored(h)
    \/ LockExpires \/ NonceExpires \/ TokenAges
    \/ \E c \in Callers :
          \/ Polls(c) \/ CallResolves(c) \/ CallCaches(c) \/ PostAnswered(c) \/ PostFails(c)
          \/ \E u \in Peers : SendStarts(c, u)

PeersSpec == PeersInit /\ [][PeersNext]_peersVars
----------------------------------------------------------------------------
PeersTypeOK ==
    LET places == Backends \cup {Unset, Domain} IN
    /\ token \in Handshakes \cup {Unset} /\ nonce \in Handshakes \cup {Unset} /\ near \in BOOLEAN
    /\ home \in [Peers -> Backends] /\ url \in [Peers -> Backends \cup {Unset}]
    /\ fallback \in [Peers -> Backends \cup {Unset}]
    /\ \A h \in Handshakes :
          shakes[h] \in {Unborn, Over, Denied} \/ (shakes[h].at \in places /\ shakes[h].by \in Callers \cup {Unset})
    /\ \A c \in Callers : outgoing[c] # NoCall => outgoing[c].at \in places
    /\ \A c \in Callers : outgoing[c].stage = "waiting" =>
          [peer |-> outgoing[c].peer, by |-> c] \in wanted \/ \E h \in Underway : shakes[h].by = c

(* The peer can be asked and found (handshake.rs, resolve.rs, message.rs).  Handshakes do not     *)
(* disturb one another unless one outlives the lock: they run one at a time, no grant they asked  *)
(* for is refused, and none puts its token over that of a later one.  Once a user who moved was   *)
(* found unreachable, the old backend is not cached again, unless a lookup was under way at the   *)
(* move.                                                                                         *)
PeersReached ==
    /\ Cardinality(Underway \ slow) <= 1
    /\ \A h \in Handshakes : shakes[h] = Denied => h \in slow
    /\ ~outdated
    /\ \A u \in busted : url[u] \in {Unset, home[u]}
=============================================================================
