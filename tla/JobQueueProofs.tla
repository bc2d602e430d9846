--------------------------- MODULE JobQueueProofs ---------------------------
(***************************************************************************)
(* Proofs about JobQueue for any jobs, pictures, kinds, keys, retry budget *)
(* and number of claims: the types, that a lease which lost its job never  *)
(* answers again, the retry budget, and that no work is queued twice.      *)
(***************************************************************************)
EXTENDS JobQueue, TLAPS

-----------------------------------------------------------------------------
(* The inductive invariant, in named parts *)

\* No token is from the future: the next one is fresh.
TokensMinted ==
  /\ \A l \in held : l.token <= minted
  /\ \A j \in Having(Live \cup Terminal) : jobs[j].token <= minted

\* The claims of a job are its failed attempts and the one under way.
Accounted(j) ==
  /\ jobs[j].status = "unborn" => handed[j] = 0
  /\ jobs[j].status = "pending" => handed[j] = jobs[j].retries /\ handed[j] < MaxRetries
  /\ jobs[j].status = "processing" =>
       handed[j] = jobs[j].retries + 1 /\ handed[j] <= MaxRetries
  /\ handed[j] <= MaxRetries

QueueInv ==
  /\ QueueTypeOK
  /\ TokensMinted
  /\ \A j \in Jobs : Accounted(j)

-----------------------------------------------------------------------------
(* Rows *)

\* A job with the status of a row is a row.
LEMMA RowOfStatus ==
  ASSUME NEW j \in Jobs, QueueTypeOK, jobs[j].status \in Live \cup Terminal
  PROVE  jobs[j] \in Row
BY DEF QueueTypeOK, Unborn, Deleted, Live, Terminal

\* What becomes of a claimed row whose attempt failed.
LEMMA AttemptFailed ==
  ASSUME NEW j \in Jobs, NEW permanent \in BOOLEAN, QueueTypeOK, Accounted(j),
         jobs[j].status = "processing"
  PROVE  /\ TakenBack(j, permanent) \in Row
         /\ TakenBack(j, permanent).token = 0
         /\ TakenBack(j, permanent).retries = jobs[j].retries + 1
         /\ TakenBack(j, permanent).status \in {"pending", "failed"}
         /\ TakenBack(j, permanent).status = "pending" => jobs[j].retries + 1 < MaxRetries
         /\ TakenBack(j, permanent).kind = jobs[j].kind
         /\ TakenBack(j, permanent).pic = jobs[j].pic
         /\ TakenBack(j, permanent).key = jobs[j].key
<1>1. jobs[j] \in Row
  BY RowOfStatus DEF Live
<1>2. jobs[j].retries \in Nat /\ jobs[j].retries + 1 <= MaxRetries
  BY <1>1 DEF Accounted, Row
<1>. DEFINE status == IF ~permanent /\ RetriesLeft(j) THEN "pending" ELSE "failed"
            u == [jobs[j] EXCEPT !.retries = jobs[j].retries + 1, !.token = 0,
                                 !.status = status]
<1>3. /\ status \in {"pending", "failed"}
      /\ status \in Live \cup Terminal
      /\ status = "pending" => jobs[j].retries + 1 < MaxRetries
  BY DEF RetriesLeft, Live, Terminal
<1>4. jobs[j].retries + 1 \in 0 .. MaxRetries /\ 0 \in 0 .. MaxClaims
  BY <1>2, QueueAssumption
<1>5. TakenBack(j, permanent) = u
  BY DEF TakenBack
<1>. HIDE DEF status
<1>6. u \in Row
  BY <1>1, <1>3, <1>4 DEF Row
<1>7. u.status = status /\ u.token = 0 /\ u.retries = jobs[j].retries + 1
  BY <1>1 DEF Row
<1>8. u.kind = jobs[j].kind /\ u.pic = jobs[j].pic /\ u.key = jobs[j].key
  BY <1>1 DEF Row
<1>. QED
  BY <1>3, <1>5, <1>6, <1>7, <1>8

-----------------------------------------------------------------------------
\* The empty table satisfies the inductive invariant.
THEOREM QueueInvInit == QueueInit => QueueInv
<1>. SUFFICES ASSUME QueueInit PROVE QueueInv
  OBVIOUS
<1>1. QueueTypeOK
  BY QueueAssumption DEF QueueInit, QueueTypeOK
<1>2. TokensMinted
  BY DEF QueueInit, TokensMinted, Having, Unborn, Live, Terminal
<1>3. \A j \in Jobs : Accounted(j)
  BY QueueAssumption DEF QueueInit, Accounted, Unborn
<1>. QED
  BY <1>1, <1>2, <1>3 DEF QueueInv

\* Every action of the queue, and a stutter, preserves the inductive invariant.
THEOREM QueueInvStep == QueueInv /\ [QueueNext]_queueVars => QueueInv'
<1>. SUFFICES ASSUME QueueInv, [QueueNext]_queueVars PROVE QueueInv'
  OBVIOUS
<1>. USE QueueAssumption
<1>t. QueueTypeOK /\ TokensMinted
  BY DEF QueueInv
<1>a. \A j \in Jobs : Accounted(j)
  BY DEF QueueInv
<1>1. CASE \E j \in Jobs, kind \in Kinds, p \in Pictures, key \in IdemKeys \cup {NoKey} :
             Create(j, kind, p, key)
  <2>. PICK j \in Jobs, kind \in Kinds, p \in Pictures, key \in IdemKeys \cup {NoKey} :
         Create(j, kind, p, key)
    BY <1>1
  <2>. DEFINE row == [status |-> "pending", kind |-> kind, pic |-> p, key |-> key,
                      retries |-> 0, token |-> 0]
  <2>0. row \in Row
    BY DEF Row, Live, Terminal
  <2>1. /\ jobs' = [jobs EXCEPT ![j] = row]
        /\ jobs[j].status = "unborn"
        /\ UNCHANGED <<held, minted, handed>>
    BY DEF Create, Unborn
  <2>2. QueueTypeOK'
    BY <1>t, <2>0, <2>1 DEF QueueTypeOK
  <2>3. TokensMinted'
    BY <1>t, <2>1 DEF QueueTypeOK, TokensMinted, Having
  <2>4. \A i \in Jobs : Accounted(i)'
    BY <1>t, <1>a, <2>1 DEF QueueTypeOK, Accounted
  <2>. QED
    BY <2>2, <2>3, <2>4 DEF QueueInv
<1>2. CASE \E j \in Jobs, kinds \in SUBSET Kinds : Claim(j, kinds)
  <2>. PICK j \in Jobs, kinds \in SUBSET Kinds : Claim(j, kinds)
    BY <1>2
  <2>0. jobs[j] \in Row /\ jobs[j].status = "pending" /\ minted + 1 \in 1 .. MaxClaims
    BY <1>t, RowOfStatus DEF Claim, Live, QueueTypeOK
  <2>1. /\ jobs' = [jobs EXCEPT ![j] = [jobs[j] EXCEPT !.status = "processing",
                                                      !.token = minted + 1]]
        /\ held' = held \cup {[job |-> j, token |-> minted + 1]}
        /\ minted' = minted + 1
        /\ handed' = [handed EXCEPT ![j] = @ + 1]
    BY DEF Claim, FreshToken
  <2>2. [jobs[j] EXCEPT !.status = "processing", !.token = minted + 1] \in Row
    <3>1. "processing" \in Live \cup Terminal /\ minted + 1 \in 0 .. MaxClaims
      BY <1>t, <2>0 DEF QueueTypeOK, Live
    <3>. QED
      BY <2>0, <3>1 DEF Row
  <2>3. QueueTypeOK'
    <3>1. (jobs \in [Jobs -> Row \cup {Unborn, Deleted}])'
      BY <1>t, <2>1, <2>2 DEF QueueTypeOK
    <3>2. (held \subseteq Lease)'
      BY <1>t, <2>0, <2>1 DEF QueueTypeOK, Lease
    <3>3. (minted \in 0 .. MaxClaims /\ handed \in [Jobs -> Nat])'
      BY <1>t, <2>0, <2>1 DEF QueueTypeOK
    <3>. QED
      BY <3>1, <3>2, <3>3 DEF QueueTypeOK
  <2>4. TokensMinted'
    <3>1. \A l \in held' : l.token <= minted'
      BY <1>t, <2>1 DEF QueueTypeOK, TokensMinted, Lease
    <3>2. ASSUME NEW i \in Having(Live \cup Terminal)'
          PROVE  jobs'[i].token <= minted'
      <4>1. CASE i = j
        BY <1>t, <2>0, <2>1, <4>1 DEF QueueTypeOK, Row
      <4>2. CASE i # j
        <5>1. i \in Jobs /\ jobs'[i] = jobs[i] /\ jobs[i].status \in Live \cup Terminal
          BY <1>t, <2>1, <4>2 DEF QueueTypeOK, Having
        <5>2. jobs[i] \in Row /\ jobs[i].token <= minted
          BY <1>t, <5>1, RowOfStatus DEF TokensMinted, Having
        <5>. QED
          BY <1>t, <2>1, <5>1, <5>2 DEF QueueTypeOK, Row
      <4>. QED
        BY <4>1, <4>2
    <3>. QED
      BY <3>1, <3>2 DEF TokensMinted
  <2>5. \A i \in Jobs : Accounted(i)'
    BY <1>t, <1>a, <2>0, <2>1 DEF QueueTypeOK, Accounted, Row
  <2>. QED
    BY <2>3, <2>4, <2>5 DEF QueueInv
<1>3. CASE \E l \in held : Complete(l)
  <2>. PICK l \in held : Complete(l)
    BY <1>3
  <2>0. l.job \in Jobs /\ jobs[l.job].status = "processing" /\ jobs[l.job] \in Row
    BY <1>t, RowOfStatus DEF Complete, Answerable, QueueTypeOK, Lease, Live
  <2>1. /\ jobs' = [jobs EXCEPT ![l.job] = [jobs[l.job] EXCEPT !.status = "completed"]]
        /\ held' \subseteq held
        /\ UNCHANGED <<minted, handed>>
    BY DEF Complete
  <2>2. [jobs[l.job] EXCEPT !.status = "completed"] \in Row
    BY <2>0 DEF Row, Live, Terminal
  <2>3. QueueTypeOK'
    BY <1>t, <2>1, <2>2 DEF QueueTypeOK
  <2>4. TokensMinted'
    BY <1>t, <2>0, <2>1 DEF QueueTypeOK, TokensMinted, Having, Live, Row
  <2>5. \A i \in Jobs : Accounted(i)'
    BY <1>t, <1>a, <2>0, <2>1 DEF QueueTypeOK, Accounted, Row
  <2>. QED
    BY <2>3, <2>4, <2>5 DEF QueueInv
<1>4. CASE \E l \in held : \E permanent \in BOOLEAN : Fail(l, permanent)
  <2>. PICK l \in held, permanent \in BOOLEAN : Fail(l, permanent)
    BY <1>4
  <2>0. l.job \in Jobs /\ jobs[l.job].status = "processing"
    BY <1>t DEF Fail, Answerable, QueueTypeOK, Lease
  <2>. DEFINE row == TakenBack(l.job, permanent)
  <2>1. /\ jobs' = [jobs EXCEPT ![l.job] = row]
        /\ held' \subseteq held
        /\ UNCHANGED <<minted, handed>>
    BY DEF Fail
  <2>2. /\ row \in Row /\ row.token = 0 /\ row.retries = jobs[l.job].retries + 1
        /\ row.status \in {"pending", "failed"}
        /\ row.status = "pending" => jobs[l.job].retries + 1 < MaxRetries
    BY <1>t, <1>a, <2>0, AttemptFailed
  <2>. HIDE DEF row
  <2>3. QueueTypeOK'
    BY <1>t, <2>1, <2>2 DEF QueueTypeOK
  <2>4. TokensMinted'
    BY <1>t, <2>0, <2>1, <2>2 DEF QueueTypeOK, TokensMinted, Having
  <2>5. \A i \in Jobs : Accounted(i)'
    BY <1>t, <1>a, <2>0, <2>1, <2>2 DEF QueueTypeOK, Accounted
  <2>. QED
    BY <2>3, <2>4, <2>5 DEF QueueInv
<1>5. CASE \E l \in held : Refuse(l) \/ Vanish(l)
  <2>1. held' \subseteq held /\ UNCHANGED <<jobs, minted, handed>>
    BY <1>5 DEF Refuse, Vanish
  <2>2. QueueTypeOK'
    BY <1>t, <2>1 DEF QueueTypeOK
  <2>3. TokensMinted'
    BY <1>t, <2>1 DEF TokensMinted, Having
  <2>4. \A i \in Jobs : Accounted(i)'
    BY <1>a, <2>1 DEF Accounted
  <2>. QED
    BY <2>2, <2>3, <2>4 DEF QueueInv
<1>6. CASE \E S \in SUBSET Jobs : ResetStale(S)
  <2>. PICK S \in SUBSET Jobs : ResetStale(S)
    BY <1>6
  <2>1. /\ jobs' = [j \in Jobs |-> IF j \in S THEN TakenBack(j, FALSE) ELSE jobs[j]]
        /\ UNCHANGED <<held, minted, handed>>
        /\ \A j \in S : jobs[j].status = "processing"
    BY DEF ResetStale, Overdue, Having
  <2>2. \A j \in S :
          /\ TakenBack(j, FALSE) \in Row
          /\ TakenBack(j, FALSE).token = 0
          /\ TakenBack(j, FALSE).retries = jobs[j].retries + 1
          /\ TakenBack(j, FALSE).status \in {"pending", "failed"}
          /\ TakenBack(j, FALSE).status = "pending" => jobs[j].retries + 1 < MaxRetries
    BY <1>t, <1>a, <2>1, AttemptFailed
  <2>3. QueueTypeOK'
    BY <1>t, <2>1, <2>2 DEF QueueTypeOK
  <2>4. TokensMinted'
    <3>1. ASSUME NEW j \in Having(Live \cup Terminal)'
          PROVE  jobs'[j].token <= minted'
      <4>1. CASE j \in S
        <5>1. jobs'[j].token = 0
          BY <2>1, <2>2, <4>1
        <5>2. minted' \in Nat
          BY <1>t, <2>1 DEF QueueTypeOK
        <5>. QED
          BY <5>1, <5>2
      <4>2. CASE j \notin S
        <5>1. j \in Jobs /\ jobs'[j] = jobs[j]
          BY <2>1, <4>2 DEF Having
        <5>. QED
          BY <1>t, <2>1, <5>1 DEF TokensMinted, Having
      <4>. QED
        BY <4>1, <4>2
    <3>. QED
      BY <1>t, <2>1, <3>1 DEF TokensMinted
  <2>5. \A i \in Jobs : Accounted(i)'
    BY <1>t, <1>a, <2>1, <2>2 DEF QueueTypeOK, Accounted
  <2>. QED
    BY <2>3, <2>4, <2>5 DEF QueueInv
<1>7. CASE \E S \in SUBSET Jobs : Prune(S)
  <2>. PICK S \in SUBSET Jobs : Prune(S)
    BY <1>7
  <2>1. /\ jobs' = [j \in Jobs |-> IF j \in S THEN Deleted ELSE jobs[j]]
        /\ UNCHANGED <<held, minted, handed>>
    BY DEF Prune
  <2>2. QueueTypeOK'
    BY <1>t, <2>1 DEF QueueTypeOK
  <2>3. TokensMinted'
    BY <1>t, <2>1 DEF TokensMinted, Having, Deleted, Live, Terminal
  <2>4. \A i \in Jobs : Accounted(i)'
    BY <1>a, <2>1 DEF Accounted, Deleted
  <2>. QED
    BY <2>2, <2>3, <2>4 DEF QueueInv
<1>8. CASE UNCHANGED queueVars
  <2>1. UNCHANGED <<jobs, held, minted, handed>>
    BY <1>8 DEF queueVars
  <2>2. QueueTypeOK' /\ TokensMinted'
    BY <1>t, <2>1 DEF QueueTypeOK, TokensMinted, Having
  <2>3. \A i \in Jobs : Accounted(i)'
    BY <1>a, <2>1 DEF Accounted
  <2>. QED
    BY <2>2, <2>3 DEF QueueInv
<1>. QED
  BY <1>1, <1>2, <1>3, <1>4, <1>5, <1>6, <1>7, <1>8 DEF QueueNext

\* The types of the table, the leases and the counters, in every reachable state.
THEOREM QueueTypes == QueueSpec => []QueueTypeOK
<1>1. QueueInv => QueueTypeOK
  BY DEF QueueInv
<1>. QED
  BY QueueInvInit, QueueInvStep, <1>1, PTL DEF QueueSpec

\* However the attempts of a job fail, by answer, by watchdog or by a worker
\* that vanishes, claim_next hands it out at most max_retries times.
THEOREM Budget == QueueSpec => []WithinBudget
<1>1. QueueInv => WithinBudget
  BY DEF QueueInv, Accounted, WithinBudget
<1>. QED
  BY QueueInvInit, QueueInvStep, <1>1, PTL DEF QueueSpec

\* The claim token of complete and fail lets at most one of the leases of a job
\* answer, however many workers still run it.
THEOREM OneAnswers == QueueSpec => []OneAnswerer
<1>1. QueueInv => OneAnswerer
  <2>. SUFFICES ASSUME QueueInv, NEW l \in held, NEW m \in held,
                       Answerable(l), Answerable(m), l.job = m.job
                PROVE  l = m
    BY DEF OneAnswerer
  <2>1. l \in Lease /\ m \in Lease
    BY DEF QueueInv, QueueTypeOK
  <2>2. l.token = m.token
    BY DEF Answerable
  <2>. QED
    BY <2>1, <2>2 DEF Lease
<1>. QED
  BY QueueInvInit, QueueInvStep, <1>1, PTL DEF QueueSpec

-----------------------------------------------------------------------------
(* What a step may do to a row *)

Identity(r) == <<r.kind, r.pic, r.key>>

Created(j) == jobs[j].status = "unborn" /\ jobs'[j].status = "pending"

Claimed(j) ==
  /\ jobs[j].status = "pending"
  /\ jobs'[j].status = "processing"
  /\ jobs'[j].token = minted + 1
  /\ Identity(jobs'[j]) = Identity(jobs[j])

Ended(j) ==
  /\ jobs[j].status = "processing"
  /\ jobs'[j].status \in {"pending", "failed", "completed"}
  /\ Identity(jobs'[j]) = Identity(jobs[j])

Pruned(j) == jobs[j].status \in Terminal /\ jobs'[j].status = "deleted"

\* Every step creates, claims, ends or deletes a row, or leaves it alone.
LEMMA RowStep ==
  ASSUME QueueInv, [QueueNext]_queueVars, NEW i \in Jobs
  PROVE  jobs'[i] = jobs[i] \/ Created(i) \/ Claimed(i) \/ Ended(i) \/ Pruned(i)
<1>. USE QueueAssumption
<1>t. QueueTypeOK /\ \A j \in Jobs : Accounted(j)
  BY DEF QueueInv
<1>1. ASSUME NEW j \in Jobs, NEW kind \in Kinds, NEW p \in Pictures,
             NEW key \in IdemKeys \cup {NoKey}, Create(j, kind, p, key)
      PROVE  jobs'[i] = jobs[i] \/ Created(i)
  BY <1>t, <1>1 DEF Create, Created, QueueTypeOK, Unborn
<1>2. ASSUME NEW j \in Jobs, NEW kinds \in SUBSET Kinds, Claim(j, kinds)
      PROVE  jobs'[i] = jobs[i] \/ Claimed(i)
  <2>1. jobs[j] \in Row /\ jobs[j].status = "pending"
    BY <1>t, <1>2, RowOfStatus DEF Claim, Live
  <2>2. jobs' = [jobs EXCEPT ![j] = [jobs[j] EXCEPT !.status = "processing",
                                                    !.token = minted + 1]]
    BY <1>2 DEF Claim, FreshToken
  <2>. QED
    BY <1>t, <2>1, <2>2 DEF Claimed, Identity, QueueTypeOK, Row
<1>3. ASSUME NEW l \in held, Complete(l)
      PROVE  jobs'[i] = jobs[i] \/ Ended(i)
  <2>1. l.job \in Jobs /\ jobs[l.job].status = "processing" /\ jobs[l.job] \in Row
    BY <1>t, <1>3, RowOfStatus DEF Complete, Answerable, QueueTypeOK, Lease, Live
  <2>2. jobs' = [jobs EXCEPT ![l.job] = [jobs[l.job] EXCEPT !.status = "completed"]]
    BY <1>3 DEF Complete
  <2>. QED
    BY <1>t, <2>1, <2>2 DEF Ended, Identity, QueueTypeOK, Row
<1>4. ASSUME NEW l \in held, NEW permanent \in BOOLEAN, Fail(l, permanent)
      PROVE  jobs'[i] = jobs[i] \/ Ended(i)
  <2>1. l.job \in Jobs /\ jobs[l.job].status = "processing"
    BY <1>t, <1>4 DEF Fail, Answerable, QueueTypeOK, Lease
  <2>2. jobs' = [jobs EXCEPT ![l.job] = TakenBack(l.job, permanent)]
    BY <1>4 DEF Fail
  <2>3. /\ TakenBack(l.job, permanent).status \in {"pending", "failed"}
        /\ Identity(TakenBack(l.job, permanent)) = Identity(jobs[l.job])
    BY <1>t, <2>1, AttemptFailed DEF Identity
  <2>. QED
    BY <1>t, <2>1, <2>2, <2>3 DEF Ended, QueueTypeOK
<1>5. ASSUME NEW S \in SUBSET Jobs, ResetStale(S)
      PROVE  jobs'[i] = jobs[i] \/ Ended(i)
  <2>1. jobs'[i] = IF i \in S THEN TakenBack(i, FALSE) ELSE jobs[i]
    BY <1>5 DEF ResetStale
  <2>2. CASE i \in S
    <3>1. jobs[i].status = "processing"
      BY <1>5, <2>2 DEF ResetStale, Overdue, Having
    <3>2. /\ TakenBack(i, FALSE).status \in {"pending", "failed"}
          /\ Identity(TakenBack(i, FALSE)) = Identity(jobs[i])
      BY <1>t, <3>1, AttemptFailed DEF Identity
    <3>. QED
      BY <2>1, <2>2, <3>1, <3>2 DEF Ended
  <2>. QED
    BY <2>1, <2>2
<1>6. ASSUME NEW S \in SUBSET Jobs, Prune(S)
      PROVE  jobs'[i] = jobs[i] \/ Pruned(i)
  BY <1>6 DEF Prune, Pruned, Having, Deleted
<1>7. ASSUME (\E l \in held : Refuse(l) \/ Vanish(l)) \/ UNCHANGED queueVars
      PROVE  jobs' = jobs
  BY <1>7 DEF Refuse, Vanish, queueVars
<1>. QED
  BY <1>1, <1>2, <1>3, <1>4, <1>5, <1>6, <1>7 DEF QueueNext

\* Only Create makes a job out of an unborn one.
LEMMA CreatedByCreate ==
  ASSUME QueueInv, [QueueNext]_queueVars, NEW i \in Jobs, Created(i)
  PROVE  \E kind \in Kinds, p \in Pictures, key \in IdemKeys \cup {NoKey} :
           Create(i, kind, p, key)
<1>t. QueueTypeOK
  BY DEF QueueInv
<1>u. jobs[i].status = "unborn" /\ jobs'[i].status = "pending" /\ jobs'[i] # jobs[i]
  BY DEF Created
<1>1. ASSUME NEW j \in Jobs, NEW kinds \in SUBSET Kinds, Claim(j, kinds)
      PROVE  FALSE
  BY <1>t, <1>u, <1>1 DEF Claim, QueueTypeOK
<1>2. ASSUME NEW l \in held, Complete(l) \/ \E permanent \in BOOLEAN : Fail(l, permanent)
      PROVE  FALSE
  BY <1>t, <1>u, <1>2 DEF Complete, Fail, Answerable, QueueTypeOK
<1>3. ASSUME NEW S \in SUBSET Jobs, ResetStale(S) \/ Prune(S)
      PROVE  FALSE
  BY <1>u, <1>3 DEF ResetStale, Prune, Overdue, Having, Terminal
<1>4. ASSUME (\E l \in held : Refuse(l) \/ Vanish(l)) \/ UNCHANGED queueVars
      PROVE  FALSE
  BY <1>u, <1>4 DEF Refuse, Vanish, queueVars
<1>5. ASSUME NEW j \in Jobs, NEW kind \in Kinds, NEW p \in Pictures,
             NEW key \in IdemKeys \cup {NoKey}, Create(j, kind, p, key)
      PROVE  j = i
  BY <1>t, <1>u, <1>5 DEF Create, QueueTypeOK
<1>. QED
  BY <1>1, <1>2, <1>3, <1>4, <1>5 DEF QueueNext

-----------------------------------------------------------------------------
\* A worker whose job was taken back by the watchdog, or was answered, can never
\* complete or fail it again, also once the job has a new claim.
THEOREM StaleLeases == QueueSpec => StaleForGood
<1>1. QueueInv /\ [QueueNext]_queueVars
        => \A l \in held : ~Answerable(l) => ~Answerable(l)'
  <2>. SUFFICES ASSUME QueueInv, [QueueNext]_queueVars, NEW l \in held,
                       ~Answerable(l), Answerable(l)'
                PROVE  FALSE
    OBVIOUS
  <2>1. l.job \in Jobs /\ l.token \in Nat /\ l.token <= minted /\ minted \in Nat
    BY DEF QueueInv, QueueTypeOK, TokensMinted, Lease
  <2>2. jobs'[l.job].status = "processing" /\ jobs'[l.job].token = l.token
    BY DEF Answerable
  <2>3. jobs'[l.job] = jobs[l.job] \/ Claimed(l.job)
    BY <2>1, <2>2, RowStep DEF Created, Ended, Pruned
  <2>4. ~Claimed(l.job)
    BY <2>1, <2>2 DEF Claimed
  <2>. QED
    BY <2>2, <2>3, <2>4 DEF Answerable
<1>. QED
  BY QueueInvInit, QueueInvStep, <1>1, PTL DEF QueueSpec, StaleForGood

\* No late answer and no watchdog pass revives a job that was completed or
\* given up on; it can only be pruned.
THEOREM TerminalKept == QueueSpec => TerminalForGood
<1>1. QueueInv /\ [QueueNext]_queueVars
        => \A j \in Having(Terminal) : jobs'[j].status \in {jobs[j].status, "deleted"}
  BY RowStep DEF Having, Terminal, Created, Claimed, Ended, Pruned
<1>. QED
  BY QueueInvInit, QueueInvStep, <1>1, PTL DEF QueueSpec, TerminalForGood

\* What ended has ended: leases and jobs both.
THEOREM EndedForGood == QueueSpec => EndsForGood
BY StaleLeases, TerminalKept DEF EndsForGood

\* The partial unique indexes, checked only where a row is inserted, also hold
\* while rows come back to pending: one edit_picture in flight per picture, one
\* job in flight per idempotency key.
THEOREM OnceInFlight == QueueSpec => []LiveOnce
<1>1. QueueInit => LiveOnce
  BY DEF QueueInit, LiveOnce, Having, Unborn, Live
<1>2. QueueInv /\ LiveOnce /\ [QueueNext]_queueVars => LiveOnce'
  <2>. SUFFICES ASSUME QueueInv, LiveOnce, [QueueNext]_queueVars
                PROVE  LiveOnce'
    OBVIOUS
  <2>. DEFINE Stays(j) == /\ jobs[j].status \in Live
                          /\ Identity(jobs'[j]) = Identity(jobs[j])
  <2>1. ASSUME NEW j \in Jobs, jobs'[j].status \in Live, ~Created(j)
        PROVE  Stays(j)
    BY <2>1, RowStep DEF Claimed, Ended, Pruned, Live
  <2>2. CASE \E j \in Jobs : Created(j)
    <3>. PICK j \in Jobs : Created(j)
      BY <2>2
    <3>1. PICK kind \in Kinds, p \in Pictures, key \in IdemKeys \cup {NoKey} :
            Create(j, kind, p, key)
      BY CreatedByCreate
    <3>2. /\ \A i \in Jobs : i # j => jobs'[i] = jobs[i]
          /\ jobs'[j].kind = kind /\ jobs'[j].pic = p /\ jobs'[j].key = key
      BY <3>1 DEF Create, QueueInv, QueueTypeOK
    <3>3. ASSUME NEW i \in Having(Live)', i # j
          PROVE  /\ i \in Having(Live) /\ jobs'[i] = jobs[i]
                 /\ ~(kind = "edit" /\ jobs[i].kind = "edit" /\ jobs[i].pic = p)
                 /\ key = jobs[i].key => key = NoKey
      BY <3>1, <3>2, <3>3 DEF Create, Insertable, LiveEdits, Having
    <3>. QED
      BY <3>2, <3>3 DEF LiveOnce
  <2>3. CASE ~ \E j \in Jobs : Created(j)
    <3>1. \A j \in Having(Live)' : j \in Having(Live) /\ Stays(j)
      BY <2>1, <2>3 DEF Having
    <3>. QED
      BY <3>1 DEF LiveOnce, Identity
  <2>. QED
    BY <2>2, <2>3
<1>. QED
  BY QueueInvInit, QueueInvStep, <1>1, <1>2, PTL DEF QueueSpec

\* So the queue repeats no work: neither by two jobs in flight nor by handing
\* out one beyond its budget.
THEOREM NoDuplicates == QueueSpec => []NoDuplicateWork
BY OnceInFlight, Budget, PTL DEF NoDuplicateWork
=============================================================================
