------------------------ MODULE RoutineRuntimeProofs ------------------------
(***************************************************************************)
(* Proofs about RoutineRuntime for every set of keys, every concurrency    *)
(* and every bound: the types, one task per key, permits conserved, no     *)
(* trigger lost, prompt triggers never debounced, and the refinement of    *)
(* RoutineSpec.                                                            *)
(***************************************************************************)
EXTENDS RoutineRuntime, FiniteSetTheorems, TLAPS

-----------------------------------------------------------------------------
(* The inductive invariant, in named parts *)

Holders == {k \in Keys : tasks[k]["granted"] + tasks[k]["running"] > 0}

\* Every permit is free or held by the one task of a key.
Conserved == permits + Cardinality(Holders) = Concurrency

\* A panicked run leaves its entry behind.
WedgedStays == \A k \in wedged : entry[k].phase = "Running"

TaskInv == TypeOK /\ OneTask /\ Conserved /\ WedgedStays

\* Inputs are numbered in trigger order and the channel keeps it.
ChanOrdered ==
  /\ \A i \in DOMAIN chan :
       delivered[chan[i].key] < chan[i].n /\ chan[i].n <= latest[chan[i].key]
  /\ \A i, j \in DOMAIN chan :
       i < j /\ chan[i].key = chan[j].key => chan[i].n < chan[j].n

\* An entry carries the last input delivered; with no entry, it has been run.
Current(k) ==
  /\ entry[k].phase # "Absent" => entry[k].next = delivered[k] /\ delivered[k] > 0
  /\ entry[k].phase = "Absent" => begun[k] = delivered[k] /\ ~entry[k].rerun
  /\ begun[k] <= delivered[k]
  /\ delivered[k] <= latest[k]
  /\ prompt[k] <= delivered[k]

\* What a key owes is written down somewhere.
Owed(k) ==
  /\ entry[k].phase = "Pending" =>
       timers[k] > 0 /\ ~entry[k].rerun /\ prompt[k] <= begun[k]
  /\ k \notin wedged /\ Executing(k) > 0 /\ ~entry[k].rerun =>
       begun[k] = delivered[k]
  /\ k \notin wedged /\ Executing(k) > 0 /\ ~entry[k].immediate =>
       prompt[k] <= begun[k]
  /\ entry[k].immediate => entry[k].rerun

B(p) == IF p THEN 1 ELSE 0

\* Each trigger pays for at most one run.
Paid(k) ==
  runs[k] + ToStart(k) + B(entry[k].rerun) + B(entry[k].phase = "Pending")
    <= delivered[k]

KeyInv(k) == Current(k) /\ Owed(k) /\ Paid(k)

InputInv == ChanOrdered /\ \A k \in Keys : KeyInv(k)

-----------------------------------------------------------------------------
(* What the three ways of changing tasks do *)

TasksType == tasks \in [Keys -> [Stages -> Nat]]

\* Moving a task of k between stages of spawn_run touches those two counts only.
LEMMA MoveEffect ==
  ASSUME TasksType, NEW k \in Keys, NEW from \in Stages, NEW to \in Stages,
         from # to, Move(k, from, to)
  PROVE  /\ TasksType'
         /\ tasks[k][from] > 0
         /\ tasks'[k][from] = tasks[k][from] - 1
         /\ tasks'[k][to] = tasks[k][to] + 1
         /\ \A s \in Stages \ {from, to} : tasks'[k][s] = tasks[k][s]
         /\ \A j \in Keys \ {k} : tasks'[j] = tasks[j]
  BY DEF TasksType, Move

\* Spawning a run task of k adds one to its first stage only.
LEMMA SpawnEffect ==
  ASSUME TasksType, NEW k \in Keys, tasks' = Spawned(k)
  PROVE  /\ TasksType'
         /\ tasks'[k]["spawned"] = tasks[k]["spawned"] + 1
         /\ \A s \in Stages \ {"spawned"} : tasks'[k][s] = tasks[k][s]
         /\ \A j \in Keys \ {k} : tasks'[j] = tasks[j]
  BY DEF TasksType, Spawned, Stages

\* A run task of k that ends leaves its stage and no other.
LEMMA EndEffect ==
  ASSUME TasksType, NEW k \in Keys, NEW s \in Stages, tasks[k][s] > 0,
         tasks' = [tasks EXCEPT ![k][s] = @ - 1]
  PROVE  /\ TasksType'
         /\ tasks'[k][s] = tasks[k][s] - 1
         /\ \A t \in Stages \ {s} : tasks'[k][t] = tasks[k][t]
         /\ \A j \in Keys \ {k} : tasks'[j] = tasks[j]
  BY DEF TasksType

-----------------------------------------------------------------------------
(* One task per key, and every permit accounted for *)

\* Of five naturals that add up to at most one, a positive one is the sum.
LEMMA FiveNaturals ==
  ASSUME NEW a \in Nat, NEW b \in Nat, NEW c \in Nat, NEW d \in Nat, NEW e \in Nat,
         a + b + c + (d + e) \in {0, 1}
  PROVE  /\ a > 0 => a = 1 /\ b = 0 /\ c = 0 /\ d = 0 /\ e = 0
         /\ b > 0 => b = 1 /\ a = 0 /\ c = 0 /\ d = 0 /\ e = 0
         /\ c > 0 => c = 1 /\ a = 0 /\ b = 0 /\ d = 0 /\ e = 0
         /\ d > 0 => d = 1 /\ a = 0 /\ b = 0 /\ c = 0 /\ e = 0
         /\ e > 0 => e = 1 /\ a = 0 /\ b = 0 /\ c = 0 /\ d = 0
  OBVIOUS

\* A key with one task at a stage has none at the others.
LEMMA OnlyTask ==
  ASSUME TypeOK, OneTask, NEW k \in Keys, NEW s \in Stages, tasks[k][s] > 0
  PROVE  /\ tasks[k][s] = 1
         /\ \A t \in Stages \ {s} : tasks[k][t] = 0
         /\ ToStart(k) + Executing(k) = 1
         /\ entry[k].phase = "Running" /\ k \notin wedged
<1> DEFINE n(t) == tasks[k][t]
<1>1. \A t \in Stages : n(t) \in Nat
  BY DEF TypeOK
<1>2. ToStart(k) + Executing(k) =
        n("spawned") + n("waiting") + n("granted") + (n("running") + n("settling"))
  BY DEF ToStart, Executing
<1>3. ToStart(k) + Executing(k) \in {0, 1} /\ n(s) > 0
  BY DEF OneTask
<1> HIDE DEF n
<1>4. ASSUME NEW t \in Stages \ {s}
      PROVE  n(s) = 1 /\ n(t) = 0
  <2>1. /\ n("spawned") \in Nat /\ n("waiting") \in Nat /\ n("granted") \in Nat
        /\ n("running") \in Nat /\ n("settling") \in Nat
    BY <1>1 DEF Stages
  <2>2. n("spawned") + n("waiting") + n("granted") + (n("running") + n("settling"))
          \in {0, 1}
    BY <1>2, <1>3
  <2>3. /\ n("spawned") > 0 =>
             /\ n("spawned") = 1 /\ n("waiting") = 0 /\ n("granted") = 0
             /\ n("running") = 0 /\ n("settling") = 0
        /\ n("waiting") > 0 =>
             /\ n("waiting") = 1 /\ n("spawned") = 0 /\ n("granted") = 0
             /\ n("running") = 0 /\ n("settling") = 0
        /\ n("granted") > 0 =>
             /\ n("granted") = 1 /\ n("spawned") = 0 /\ n("waiting") = 0
             /\ n("running") = 0 /\ n("settling") = 0
        /\ n("running") > 0 =>
             /\ n("running") = 1 /\ n("spawned") = 0 /\ n("waiting") = 0
             /\ n("granted") = 0 /\ n("settling") = 0
        /\ n("settling") > 0 =>
             /\ n("settling") = 1 /\ n("spawned") = 0 /\ n("waiting") = 0
             /\ n("granted") = 0 /\ n("running") = 0
    BY <2>1, <2>2, FiveNaturals
  <2>4. CASE s = "spawned"
    BY <1>2, <1>3, <2>3, <2>4 DEF Stages
  <2>5. CASE s = "waiting"
    BY <1>2, <1>3, <2>3, <2>5 DEF Stages
  <2>6. CASE s = "granted"
    BY <1>2, <1>3, <2>3, <2>6 DEF Stages
  <2>7. CASE s = "running"
    BY <1>2, <1>3, <2>3, <2>7 DEF Stages
  <2>8. CASE s = "settling"
    BY <1>2, <1>3, <2>3, <2>8 DEF Stages
  <2>9. QED
    BY <2>4, <2>5, <2>6, <2>7, <2>8 DEF Stages
<1>5. n(s) = 1
  <2>1. PICK t \in Stages : t # s
    BY DEF Stages
  <2>2. QED
    BY <2>1, <1>4
<1>6. ToStart(k) + Executing(k) = 1
  <2>1. /\ n("spawned") \in Nat /\ n("waiting") \in Nat /\ n("granted") \in Nat
        /\ n("running") \in Nat /\ n("settling") \in Nat
    BY <1>1 DEF Stages
  <2>2. n("spawned") + n("waiting") + n("granted") + (n("running") + n("settling")) # 0
    BY <1>3, <2>1 DEF Stages
  <2>3. QED
    BY <1>2, <1>3, <2>2
<1>7. QED
  BY <1>4, <1>5, <1>6 DEF OneTask, n

\* A key with no entry Running has no task.
LEMMA NoTaskUnlessRunning ==
  ASSUME TypeOK, OneTask, NEW k \in Keys, entry[k].phase # "Running"
  PROVE  \A s \in Stages : tasks[k][s] = 0
<1> SUFFICES ASSUME NEW s \in Stages, tasks[k][s] > 0 PROVE FALSE
  BY DEF TypeOK
<1>1. QED
  BY OnlyTask

\* The keys that hold a permit are among the finitely many keys.
LEMMA HoldersFinite ==
  IsFiniteSet(Holders) /\ Cardinality(Holders) \in Nat
  BY RoutineAssumption, FS_Subset, FS_CardinalityType DEF Holders

\* An action that leaves tasks, entries, permits and panics alone keeps what
\* TaskInv says of them.
LEMMA TasksFrame ==
  ASSUME OneTask, Conserved, WedgedStays,
         UNCHANGED <<tasks, entry, permits, wedged>>
  PROVE  OneTask' /\ Conserved' /\ WedgedStays'
  BY DEF OneTask, Conserved, WedgedStays, ToStart, Executing, Holders

\* An action that changes the tasks of one key, and not whether it holds a
\* permit, conserves the permits.
LEMMA HoldersFrame ==
  ASSUME NEW k \in Keys, Conserved, permits' = permits,
         \A j \in Keys \ {k} : tasks'[j] = tasks[j],
         (tasks'[k]["granted"] + tasks'[k]["running"] > 0)
           <=> (tasks[k]["granted"] + tasks[k]["running"] > 0)
  PROVE  Conserved'
<1>1. Holders' = Holders
  BY DEF Holders
<1>2. QED
  BY <1>1 DEF Conserved

\* An action on the tasks and entry of one key only has to keep the count of
\* that key's tasks.
LEMMA OneKeyStep ==
  ASSUME NEW k \in Keys, TypeOK, OneTask, WedgedStays,
         \A j \in Keys \ {k} : tasks'[j] = tasks[j] /\ entry'[j] = entry[j],
         wedged' \ {k} = wedged \ {k},
         k \in wedged' => entry'[k].phase = "Running",
         (ToStart(k) + Executing(k))' =
           IF entry'[k].phase = "Running" /\ k \notin wedged' THEN 1 ELSE 0
  PROVE  OneTask' /\ WedgedStays'
<1>1. ASSUME NEW j \in Keys, j # k
      PROVE  (ToStart(j) + Executing(j))' =
               IF entry'[j].phase = "Running" /\ j \notin wedged' THEN 1 ELSE 0
  BY <1>1 DEF OneTask, ToStart, Executing
<1>2. OneTask'
  BY <1>1 DEF OneTask
<1>3. WedgedStays'
  BY DEF WedgedStays, TypeOK
<1>4. QED
  BY <1>2, <1>3

\* The runtime starts with no task and every permit free.
THEOREM TaskInvInit == Init => TaskInv
<1> SUFFICES ASSUME Init PROVE TaskInv
  OBVIOUS
<1>1. TypeOK
  BY RoutineAssumption
     DEF Init, TypeOK, Absent, Entry, Phases, NoTask, Stages, Messages
<1>2. OneTask
  BY DEF Init, OneTask, ToStart, Executing, NoTask, Stages, Absent
<1>3. Holders = {}
  BY DEF Init, Holders, NoTask, Stages
<1>4. Conserved
  BY <1>3, FS_EmptySet, RoutineAssumption DEF Init, Conserved
<1>5. WedgedStays
  BY DEF Init, WedgedStays
<1>6. QED
  BY <1>1, <1>2, <1>4, <1>5 DEF TaskInv

\* No step gives a key a second task or loses a permit.
THEOREM TaskInvStep == TaskInv /\ [Next]_vars => TaskInv'
<1> SUFFICES ASSUME TaskInv, [Next]_vars PROVE TaskInv'
  OBVIOUS
<1> USE DEF TaskInv
<1>t. TasksType
  BY DEF TypeOK, TasksType
<1>1. ASSUME NEW k \in Keys, NEW d \in BOOLEAN, Trigger(k, d) \/ Sweep(k)
      PROVE  TaskInv'
  <2>1. \E debounced \in BOOLEAN : Send(k, debounced)
    BY <1>1 DEF Trigger, Sweep
  <2>2. PICK debounced \in BOOLEAN : Send(k, debounced)
    BY <2>1
  <2>3. latest[k] + 1 \in Nat
    BY DEF TypeOK
  <2>4. [key |-> k, n |-> latest[k] + 1, debounced |-> debounced] \in Messages
    BY <2>3 DEF Messages
  <2>5. chan' \in Seq(Messages) /\ latest' \in [Keys -> Nat]
    BY <2>2, <2>4 DEF Send, TypeOK
  <2>6. UNCHANGED <<scheduler, window, inFlight, loops, life,
                    delivered, prompt, begun, runs, wedged, panics>>
    BY <1>1 DEF Trigger, Sweep
  <2>7. TypeOK'
    BY <2>5, <2>6 DEF TypeOK, scheduler
  <2>8. QED
    BY <2>6, <2>7, TasksFrame DEF scheduler
<1>2. CASE Deliver
  <2> DEFINE m == Head(chan)
             immediate == ~m.debounced \/ ~window
  <2>1. m \in Messages /\ chan' \in Seq(Messages)
    BY <1>2 DEF Deliver, TypeOK
  <2>2. m.key \in Keys /\ m.n \in Nat /\ immediate \in BOOLEAN
    BY <2>1 DEF Messages
  <2>3. PICK k \in Keys : k = m.key
    BY <2>2
  <2>4. Schedule(k, m.n, immediate)
    BY <1>2, <2>3 DEF Deliver
  <2>5. UNCHANGED <<waitq, permits, window, inFlight, loops, life,
                    latest, begun, runs, wedged, panics>>
    BY <1>2 DEF Deliver
  <2>6. delivered' \in [Keys -> Nat] /\ prompt' \in [Keys -> Nat]
    BY <1>2, <2>2 DEF Deliver, TypeOK
  <2> HIDE DEF m, immediate
  <2>7. entry' \in [Keys -> Entry] /\ timers' \in [Keys -> Nat]
    <3>1. entry[k] \in Entry /\ timers[k] + 1 \in Nat
      BY DEF TypeOK
    <3>2. /\ RerunNoted(entry[k], m.n, immediate) \in Entry
          /\ [entry[k] EXCEPT !.next = m.n] \in Entry
          /\ [entry[k] EXCEPT !.next = m.n, !.phase = "Running"] \in Entry
          /\ Fresh("Running", m.n) \in Entry
          /\ Fresh("Pending", m.n) \in Entry
      BY <2>2, <3>1 DEF RerunNoted, Fresh, Entry, Phases
    <3>3. /\ \E e \in Entry : entry' = [entry EXCEPT ![k] = e]
          /\ timers' = timers \/ timers' = [timers EXCEPT ![k] = @ + 1]
      BY <2>4, <3>1, <3>2 DEF Schedule
    <3>4. QED
      BY <3>1, <3>3 DEF TypeOK
  <2>8. CASE UNCHANGED tasks /\ (entry'[k].phase = "Running" <=> entry[k].phase = "Running")
    <3>1. TypeOK'
      BY <2>1, <2>5, <2>6, <2>7, <2>8 DEF TypeOK
    <3>2. \A j \in Keys : entry'[j].phase = "Running" <=> entry[j].phase = "Running"
      BY <2>4, <2>8 DEF Schedule, TypeOK
    <3>3. OneTask' /\ WedgedStays'
      BY <2>5, <2>8, <3>2 DEF OneTask, WedgedStays, ToStart, Executing, TypeOK
    <3>4. Conserved'
      BY <2>5, <2>8, HoldersFrame
    <3>5. QED
      BY <3>1, <3>3, <3>4
  <2>9. CASE /\ tasks' = Spawned(k)
             /\ entry[k].phase # "Running"
             /\ entry'[k].phase = "Running"
    <3>1. /\ TasksType'
          /\ tasks'[k]["spawned"] = tasks[k]["spawned"] + 1
          /\ \A s \in Stages \ {"spawned"} : tasks'[k][s] = tasks[k][s]
          /\ \A j \in Keys \ {k} : tasks'[j] = tasks[j]
      BY <1>t, <2>9, SpawnEffect
    <3>2. TypeOK'
      BY <2>1, <2>5, <2>6, <2>7, <3>1 DEF TypeOK, TasksType
    <3>3. \A j \in Keys \ {k} : entry'[j] = entry[j]
      BY <2>4 DEF Schedule, TypeOK
    <3>4. OneTask' /\ WedgedStays'
      <4>1. tasks[k] \in [Stages -> Nat] /\ k \notin wedged
        BY <1>t, <2>9 DEF TasksType, WedgedStays
      <4>2. (ToStart(k) + Executing(k))' = 1
        BY <2>9, <3>1, NoTaskUnlessRunning DEF ToStart, Executing, Stages
      <4>3. QED
        BY <2>5, <2>9, <3>1, <3>3, <4>1, <4>2, OneKeyStep
    <3>5. Conserved'
      BY <2>5, <3>1, HoldersFrame DEF Stages
    <3>6. QED
      BY <3>2, <3>4, <3>5
  <2>10. \/ UNCHANGED tasks /\ (entry'[k].phase = "Running" <=> entry[k].phase = "Running")
         \/ /\ tasks' = Spawned(k)
            /\ entry[k].phase # "Running"
            /\ entry'[k].phase = "Running"
    <3>1. entry[k] \in Entry
      BY DEF TypeOK
    <3>2. /\ RerunNoted(entry[k], m.n, immediate).phase = entry[k].phase
          /\ [entry[k] EXCEPT !.next = m.n].phase = entry[k].phase
          /\ [entry[k] EXCEPT !.next = m.n, !.phase = "Running"].phase = "Running"
          /\ Fresh("Running", m.n).phase = "Running"
          /\ Fresh("Pending", m.n).phase = "Pending"
      BY <3>1 DEF RerunNoted, Fresh, Entry
    <3>3. QED
      BY <2>4, <3>2 DEF Schedule, TypeOK
  <2>11. QED
    BY <2>8, <2>9, <2>10
<1>3. ASSUME NEW k \in Keys, TimerFires(k) PROVE TaskInv'
  <2>1. UNCHANGED <<chan, waitq, permits, window, inFlight, loops, life, history>>
    BY <1>3 DEF TimerFires
  <2>2. timers' \in [Keys -> Nat]
    BY <1>3 DEF TimerFires, TypeOK
  <2>3. CASE WindowOpen(k)
    <3>1. tasks' = Spawned(k) /\ entry' = [entry EXCEPT ![k].phase = "Running"]
      BY <1>3, <2>3 DEF TimerFires
    <3>2. /\ TasksType'
          /\ tasks'[k]["spawned"] = tasks[k]["spawned"] + 1
          /\ \A s \in Stages \ {"spawned"} : tasks'[k][s] = tasks[k][s]
          /\ \A j \in Keys \ {k} : tasks'[j] = tasks[j]
      BY <1>t, <3>1, SpawnEffect
    <3>3. /\ entry' \in [Keys -> Entry]
          /\ entry'[k].phase = "Running"
          /\ \A j \in Keys \ {k} : entry'[j] = entry[j]
      <4>1. entry \in [Keys -> Entry]
        BY DEF TypeOK
      <4>2. PICK one : one = [entry[k] EXCEPT !.phase = "Running"]
        OBVIOUS
      <4>3. one \in Entry /\ one.phase = "Running"
        BY <4>1, <4>2 DEF Entry, Phases
      <4>4. entry' = [entry EXCEPT ![k] = one]
        BY <3>1, <4>2
      <4> QED BY <4>1, <4>3, <4>4
    <3>4. TypeOK'
      BY <2>1, <2>2, <3>2, <3>3 DEF TypeOK, TasksType, history
    <3>5. tasks[k] \in [Stages -> Nat] /\ k \notin wedged
      BY <1>t, <2>3 DEF TasksType, WedgedStays, WindowOpen
    <3>6. (ToStart(k) + Executing(k))' = 1
      BY <2>3, <3>2, NoTaskUnlessRunning DEF ToStart, Executing, Stages, WindowOpen
    <3>7. OneTask' /\ WedgedStays'
      BY <2>1, <3>2, <3>3, <3>5, <3>6, OneKeyStep DEF history
    <3>8. Conserved'
      BY <2>1, <3>2, HoldersFrame DEF Stages
    <3>9. QED
      BY <3>4, <3>7, <3>8
  <2>4. CASE ~WindowOpen(k)
    <3>1. UNCHANGED <<entry, tasks>>
      BY <1>3, <2>4 DEF TimerFires
    <3>2. TypeOK'
      BY <2>1, <2>2, <3>1 DEF TypeOK, history
    <3>3. QED
      BY <2>1, <3>1, <3>2, TasksFrame DEF history
  <2>5. QED
    BY <2>3, <2>4
<1>4. ASSUME NEW k \in Keys, Enqueue(k) PROVE TaskInv'
  <2>1. UNCHANGED <<chan, entry, timers, permits, window, inFlight, loops, life,
                    history>>
    BY <1>4 DEF Enqueue
  <2>2. Move(k, "spawned", "waiting") /\ waitq' = Append(waitq, k)
    BY <1>4 DEF Enqueue
  <2>3. /\ TasksType'
        /\ tasks[k]["spawned"] > 0
        /\ tasks'[k]["spawned"] = tasks[k]["spawned"] - 1
        /\ tasks'[k]["waiting"] = tasks[k]["waiting"] + 1
        /\ \A s \in Stages \ {"spawned", "waiting"} : tasks'[k][s] = tasks[k][s]
        /\ \A j \in Keys \ {k} : tasks'[j] = tasks[j]
    BY <1>t, <2>2, MoveEffect DEF Stages
  <2>4. tasks[k] \in [Stages -> Nat]
    BY <1>t DEF TasksType
  <2>5. waitq' \in Seq(Keys \cup {Drain})
    BY <2>2 DEF TypeOK
  <2>6. TypeOK'
    BY <2>1, <2>3, <2>5 DEF TypeOK, TasksType, history
  <2>7. (ToStart(k) + Executing(k))' = ToStart(k) + Executing(k)
    BY <2>3, <2>4 DEF ToStart, Executing, Stages
  <2>8. OneTask' /\ WedgedStays'
    BY <2>1, <2>3, <2>7, OneKeyStep DEF OneTask, WedgedStays, history
  <2>9. Conserved'
    BY <2>1, <2>3, HoldersFrame DEF Stages
  <2>10. QED
    BY <2>6, <2>8, <2>9
<1>5. ASSUME NEW k \in Keys, Grant(k) PROVE TaskInv'
  <2>1. UNCHANGED <<chan, entry, timers, window, inFlight, loops, life, history>>
    BY <1>5 DEF Grant
  <2>2. /\ Move(k, "waiting", "granted")
        /\ waitq # <<>>
        /\ waitq' = Tail(waitq)
        /\ permits > 0
        /\ permits' = permits - 1
    BY <1>5 DEF Grant, PermitFree
  <2>3. /\ TasksType'
        /\ tasks[k]["waiting"] > 0
        /\ tasks'[k]["waiting"] = tasks[k]["waiting"] - 1
        /\ tasks'[k]["granted"] = tasks[k]["granted"] + 1
        /\ \A s \in Stages \ {"waiting", "granted"} : tasks'[k][s] = tasks[k][s]
        /\ \A j \in Keys \ {k} : tasks'[j] = tasks[j]
    BY <1>t, <2>2, MoveEffect DEF Stages
  <2>4. tasks[k] \in [Stages -> Nat]
    BY <1>t DEF TasksType
  <2>5. waitq' \in Seq(Keys \cup {Drain}) /\ permits' \in 0 .. Concurrency
    BY <2>2, RoutineAssumption DEF TypeOK
  <2>6. TypeOK'
    BY <2>1, <2>3, <2>5 DEF TypeOK, TasksType, history
  <2>7. (ToStart(k) + Executing(k))' = ToStart(k) + Executing(k)
    BY <2>3, <2>4 DEF ToStart, Executing, Stages
  <2>8. OneTask' /\ WedgedStays'
    BY <2>1, <2>3, <2>7, OneKeyStep DEF OneTask, WedgedStays, history
  <2>9. k \notin Holders /\ Holders' = Holders \cup {k}
    <3>1. tasks[k]["granted"] = 0 /\ tasks[k]["running"] = 0
      BY <2>3, OnlyTask DEF Stages
    <3>2. tasks'[k]["granted"] + tasks'[k]["running"] > 0
      BY <2>3, <3>1 DEF Stages
    <3>3. QED
      BY <2>3, <3>1, <3>2 DEF Holders
  <2>10. Conserved'
    <3>1. Cardinality(Holders') = Cardinality(Holders) + 1
      BY <2>9, HoldersFinite, FS_AddElement
    <3>2. QED
      BY <2>2, <3>1, HoldersFinite, RoutineAssumption DEF Conserved, TypeOK
  <2>11. QED
    BY <2>6, <2>8, <2>10
<1>6. ASSUME NEW k \in Keys, Start(k) PROVE TaskInv'
  <2>1. UNCHANGED <<chan, entry, timers, waitq, permits, window, loops, life,
                    latest, delivered, prompt, wedged, panics>>
    BY <1>6 DEF Start
  <2>2. /\ Move(k, "granted", "running")
        /\ inFlight' = inFlight + 1
        /\ begun' = [begun EXCEPT ![k] = entry[k].next]
        /\ runs' = [runs EXCEPT ![k] = @ + 1]
    BY <1>6 DEF Start
  <2>3. /\ TasksType'
        /\ tasks[k]["granted"] > 0
        /\ tasks'[k]["granted"] = tasks[k]["granted"] - 1
        /\ tasks'[k]["running"] = tasks[k]["running"] + 1
        /\ \A s \in Stages \ {"granted", "running"} : tasks'[k][s] = tasks[k][s]
        /\ \A j \in Keys \ {k} : tasks'[j] = tasks[j]
    BY <1>t, <2>2, MoveEffect DEF Stages
  <2>4. tasks[k] \in [Stages -> Nat]
    BY <1>t DEF TasksType
  <2>5. inFlight' \in Nat /\ begun' \in [Keys -> Nat] /\ runs' \in [Keys -> Nat]
    BY <2>2 DEF TypeOK, Entry
  <2>6. TypeOK'
    BY <2>1, <2>3, <2>5 DEF TypeOK, TasksType
  <2>7. (ToStart(k) + Executing(k))' = ToStart(k) + Executing(k)
    BY <2>3, <2>4 DEF ToStart, Executing, Stages
  <2>8. OneTask' /\ WedgedStays'
    BY <2>1, <2>3, <2>7, OneKeyStep DEF OneTask, WedgedStays
  <2>9. Conserved'
    BY <2>1, <2>3, <2>4, HoldersFrame DEF Stages
  <2>10. QED
    BY <2>6, <2>8, <2>9
<1>7. ASSUME NEW k \in Keys, tasks[k]["running"] > 0,
             tasks'[k]["granted"] + tasks'[k]["running"] = 0,
             \A j \in Keys \ {k} : tasks'[j] = tasks[j],
             permits' = permits + 1
      PROVE  Conserved' /\ permits' \in 0 .. Concurrency
  <2>1. k \in Holders /\ Holders' = Holders \ {k}
    <3>1. tasks[k]["granted"] = 0 /\ tasks[k]["running"] = 1
      BY <1>7, OnlyTask DEF Stages
    <3>2. QED
      BY <1>7, <3>1 DEF Holders
  <2>2. Cardinality(Holders') = Cardinality(Holders) - 1
    BY <2>1, HoldersFinite, FS_RemoveElement
  <2>3. Cardinality(Holders') \in Nat
    BY <2>1, HoldersFinite, FS_RemoveElement, FS_CardinalityType
  <2>4. QED
    <3>1. permits \in Nat /\ permits + Cardinality(Holders) = Concurrency
      BY DEF Conserved, TypeOK
    <3>2. Cardinality(Holders) \in Nat /\ Concurrency \in Nat
      BY HoldersFinite, RoutineAssumption, FS_CardinalityType
    <3> QED BY <1>7, <2>2, <2>3, <3>1, <3>2 DEF Conserved
<1>8. ASSUME NEW k \in Keys, Finish(k) PROVE TaskInv'
  <2>1. UNCHANGED <<chan, entry, timers, waitq, window, loops, life, history>>
    BY <1>8 DEF Finish
  <2>2. /\ Move(k, "running", "settling")
        /\ inFlight' = LessOne(inFlight)
        /\ permits' = permits + 1
    BY <1>8 DEF Finish
  <2>3. /\ TasksType'
        /\ tasks[k]["running"] > 0
        /\ tasks'[k]["running"] = tasks[k]["running"] - 1
        /\ tasks'[k]["settling"] = tasks[k]["settling"] + 1
        /\ \A s \in Stages \ {"running", "settling"} : tasks'[k][s] = tasks[k][s]
        /\ \A j \in Keys \ {k} : tasks'[j] = tasks[j]
    BY <1>t, <2>2, MoveEffect DEF Stages
  <2>4. tasks[k] \in [Stages -> Nat]
    BY <1>t DEF TasksType
  <2>5. tasks'[k]["granted"] + tasks'[k]["running"] = 0
    BY <2>3, OnlyTask DEF Stages
  <2>6. Conserved' /\ permits' \in 0 .. Concurrency
    BY <1>7, <2>2, <2>3, <2>5
  <2>7. inFlight' \in Nat
    BY <2>2 DEF LessOne, TypeOK
  <2>8. TypeOK'
    BY <2>1, <2>3, <2>6, <2>7 DEF TypeOK, TasksType, history
  <2>9. (ToStart(k) + Executing(k))' = ToStart(k) + Executing(k)
    BY <2>3, <2>4 DEF ToStart, Executing, Stages
  <2>10. OneTask' /\ WedgedStays'
    BY <2>1, <2>3, <2>9, OneKeyStep DEF OneTask, WedgedStays, history
  <2>11. QED
    BY <2>6, <2>8, <2>10
<1>9. ASSUME NEW k \in Keys, Panic(k) PROVE TaskInv'
  <2>1. UNCHANGED <<chan, entry, timers, waitq, window, inFlight, loops, life,
                    latest, delivered, prompt, begun, runs>>
    BY <1>9 DEF Panic
  <2>2. /\ tasks[k]["running"] > 0
        /\ tasks' = [tasks EXCEPT ![k]["running"] = @ - 1]
        /\ permits' = permits + 1
        /\ wedged' = wedged \cup {k}
        /\ panics' = panics + 1
    BY <1>9 DEF Panic, UnwoundPermits
  <2>3. /\ TasksType'
        /\ tasks'[k]["running"] = tasks[k]["running"] - 1
        /\ \A s \in Stages \ {"running"} : tasks'[k][s] = tasks[k][s]
        /\ \A j \in Keys \ {k} : tasks'[j] = tasks[j]
    BY <1>t, <2>2, EndEffect DEF Stages
  <2>4. /\ tasks[k]["running"] = 1
        /\ \A s \in Stages \ {"running"} : tasks[k][s] = 0
        /\ entry[k].phase = "Running"
    BY <2>2, OnlyTask DEF Stages
  <2>5. \A s \in Stages : tasks'[k][s] = 0
    BY <2>3, <2>4
  <2>6. Conserved' /\ permits' \in 0 .. Concurrency
    BY <1>7, <2>2, <2>3, <2>5 DEF Stages
  <2>7. TypeOK'
    <3>1. tasks' \in [Keys -> [Stages -> Nat]] /\ permits' \in 0 .. Concurrency
      BY <2>3, <2>6 DEF TasksType
    <3>2. wedged' \subseteq Keys /\ panics' \in Nat
      BY <2>2 DEF TypeOK
    <3> QED BY <2>1, <3>1, <3>2 DEF TypeOK
  <2>8. (ToStart(k) + Executing(k))' = 0
    BY <2>5 DEF ToStart, Executing, Stages
  <2>9. OneTask' /\ WedgedStays'
    BY <2>1, <2>2, <2>3, <2>4, <2>8, OneKeyStep
  <2>10. QED
    BY <2>6, <2>7, <2>9
<1>10. ASSUME NEW k \in Keys, Settle(k) PROVE TaskInv'
  <2>1. UNCHANGED <<chan, waitq, permits, window, inFlight, loops, life, history>>
    BY <1>10 DEF Settle
  <2>2. tasks[k]["settling"] > 0
    BY <1>10 DEF Settle
  <2>3. /\ tasks[k]["settling"] = 1
        /\ \A s \in Stages \ {"settling"} : tasks[k][s] = 0
        /\ entry[k].phase = "Running" /\ k \notin wedged
    BY <2>2, OnlyTask DEF Stages
  <2>4. entry[k] \in Entry /\ timers[k] + 1 \in Nat /\ Absent \in Entry
    BY DEF TypeOK, Entry, Phases, Absent
  <2>5. ASSUME NEW p \in {"Running", "Pending"}
        PROVE  Rearmed(entry[k], p) \in Entry /\ Rearmed(entry[k], p).phase = p
    BY <2>4 DEF Rearmed, Entry, Phases
  <2>6. timers' \in [Keys -> Nat]
    <3>1. UNCHANGED timers \/ timers' = [timers EXCEPT ![k] = @ + 1]
      BY <1>10 DEF Settle
    <3>2. timers \in [Keys -> Nat]
      BY DEF TypeOK
    <3> QED BY <2>4, <3>1, <3>2
  <2>7. CASE /\ entry' = [entry EXCEPT ![k] = Rearmed(@, "Running")]
             /\ Move(k, "settling", "spawned")
    <3>1. /\ TasksType'
          /\ tasks'[k]["settling"] = tasks[k]["settling"] - 1
          /\ tasks'[k]["spawned"] = tasks[k]["spawned"] + 1
          /\ \A s \in Stages \ {"settling", "spawned"} : tasks'[k][s] = tasks[k][s]
          /\ \A j \in Keys \ {k} : tasks'[j] = tasks[j]
      BY <1>t, <2>7, MoveEffect DEF Stages
    <3>2. /\ entry' \in [Keys -> Entry]
          /\ entry'[k].phase = "Running"
          /\ \A j \in Keys \ {k} : entry'[j] = entry[j]
      BY <2>5, <2>7 DEF TypeOK
    <3>3. TypeOK'
      BY <2>1, <2>6, <3>1, <3>2 DEF TypeOK, TasksType, history
    <3>4. (ToStart(k) + Executing(k))' = 1
      BY <2>3, <3>1 DEF ToStart, Executing, Stages
    <3>5. OneTask' /\ WedgedStays'
      BY <2>1, <2>3, <3>1, <3>2, <3>4, OneKeyStep DEF history
    <3>6. Conserved'
      BY <2>1, <2>3, <3>1, HoldersFrame DEF Stages
    <3>7. QED
      BY <3>3, <3>5, <3>6
  <2>8. CASE /\ \/ entry' = [entry EXCEPT ![k] = Rearmed(@, "Pending")]
                \/ entry' = [entry EXCEPT ![k] = Absent]
             /\ tasks' = [tasks EXCEPT ![k]["settling"] = @ - 1]
    <3>1. /\ TasksType'
          /\ tasks'[k]["settling"] = tasks[k]["settling"] - 1
          /\ \A s \in Stages \ {"settling"} : tasks'[k][s] = tasks[k][s]
          /\ \A j \in Keys \ {k} : tasks'[j] = tasks[j]
      BY <1>t, <2>2, <2>8, EndEffect DEF Stages
    <3>2. /\ entry' \in [Keys -> Entry]
          /\ entry'[k].phase # "Running"
          /\ \A j \in Keys \ {k} : entry'[j] = entry[j]
      <4>1. Absent.phase = "Absent" /\ Rearmed(entry[k], "Pending").phase = "Pending"
        BY <2>5 DEF Absent
      <4>2. PICK e \in Entry : entry' = [entry EXCEPT ![k] = e] /\ e.phase # "Running"
        BY <2>4, <2>5, <2>8, <4>1
      <4>3. QED
        BY <4>2 DEF TypeOK
    <3>3. TypeOK'
      BY <2>1, <2>6, <3>1, <3>2 DEF TypeOK, TasksType, history
    <3>4. (ToStart(k) + Executing(k))' = 0
      BY <2>3, <3>1 DEF ToStart, Executing, Stages
    <3>5. OneTask' /\ WedgedStays'
      BY <2>1, <2>3, <3>1, <3>2, <3>4, OneKeyStep DEF history
    <3>6. Conserved'
      BY <2>1, <2>3, <3>1, HoldersFrame DEF Stages
    <3>7. QED
      BY <3>3, <3>5, <3>6
  <2>9. QED
    BY <1>10, <2>7, <2>8 DEF Settle
<1>11. CASE \/ Reconfigure \/ Shutdown \/ AskDrain \/ Drained \/ Exit
            \/ \E l \in {"trigger", "sweep"} : StopLoop(l)
  <2>1. UNCHANGED <<chan, entry, timers, tasks, permits, inFlight, history>>
    BY <1>11 DEF Reconfigure, Shutdown, AskDrain, Drained, Exit, StopLoop, scheduler
  <2>2. waitq' \in Seq(Keys \cup {Drain})
    <3>1. \/ waitq' = waitq
          \/ waitq' = Append(waitq, Drain)
          \/ waitq # <<>> /\ waitq' = Tail(waitq)
      BY <1>11 DEF Reconfigure, Shutdown, AskDrain, Drained, Exit, StopLoop, scheduler
    <3>2. waitq \in Seq(Keys \cup {Drain})
      BY DEF TypeOK
    <3>3. QED
      BY <3>1, <3>2
  <2>3. /\ window' \in BOOLEAN
        /\ loops' \subseteq {"trigger", "sweep"}
        /\ life' \in {"up", "stopping", "draining", "drained", "exited"}
    BY <1>11
       DEF Reconfigure, Shutdown, AskDrain, Drained, Exit, StopLoop, scheduler, TypeOK
  <2>4. TypeOK'
    BY <2>1, <2>2, <2>3 DEF TypeOK, history
  <2>5. QED
    BY <2>1, <2>4, TasksFrame DEF history
<1>12. CASE UNCHANGED vars
  <2>1. TypeOK'
    BY <1>12 DEF TypeOK, vars
  <2>2. QED
    BY <1>12, <2>1, TasksFrame DEF vars
<1>13. QED
  BY <1>1, <1>2, <1>3, <1>4, <1>5, <1>6, <1>8, <1>9, <1>10, <1>11, <1>12 DEF Next

\* RoutineRuntime's TypeOK, for every set of keys.
THEOREM TypeCorrect == Spec => []TypeOK
<1>1. Spec => []TaskInv
  BY TaskInvInit, TaskInvStep, PTL DEF Spec
<1>2. TaskInv => TypeOK
  BY DEF TaskInv
<1>3. QED
  BY <1>1, <1>2, PTL

\* Equal keys never run concurrently: at most one run task per key, and exactly
\* one while its entry says Running.
THEOREM SerialPerKey == Spec => []OneTask
<1>1. Spec => []TaskInv
  BY TaskInvInit, TaskInvStep, PTL DEF Spec
<1>2. TaskInv => OneTask
  BY DEF TaskInv
<1>3. QED
  BY <1>1, <1>2, PTL

-----------------------------------------------------------------------------
(* No trigger lost, none debounced that was prompt, none run twice *)

\* The types of what KeyInv says of one key.
LEMMA KeyTypes ==
  ASSUME TypeOK, NEW k \in Keys
  PROVE  /\ entry[k] \in Entry
         /\ entry[k].phase \in Phases
         /\ entry[k].rerun \in BOOLEAN /\ entry[k].immediate \in BOOLEAN
         /\ entry[k].next \in Nat /\ timers[k] \in Nat
         /\ latest[k] \in Nat /\ delivered[k] \in Nat /\ prompt[k] \in Nat
         /\ begun[k] \in Nat /\ runs[k] \in Nat
         /\ tasks[k] \in [Stages -> Nat]
  BY DEF TypeOK, Entry

\* KeyInv of a key survives an action that changes nothing of the key but
\* accepts triggers for it.
LEMMA KeyFrame ==
  ASSUME TypeOK, NEW k \in Keys, KeyInv(k),
         entry'[k] = entry[k], timers'[k] = timers[k], tasks'[k] = tasks[k],
         delivered'[k] = delivered[k], prompt'[k] = prompt[k],
         begun'[k] = begun[k], runs'[k] = runs[k],
         k \in wedged' <=> k \in wedged,
         latest'[k] \in Nat, latest[k] <= latest'[k]
  PROVE  KeyInv(k)'
<1>1. Current(k)'
  BY KeyTypes DEF KeyInv, Current
<1>2. Owed(k)'
  BY DEF KeyInv, Owed, Executing
<1>3. Paid(k)'
  BY DEF KeyInv, Paid, ToStart
<1>4. QED
  BY <1>1, <1>2, <1>3 DEF KeyInv

\* The channel's order survives an action that leaves it and delivered alone.
LEMMA ChanFrame ==
  ASSUME ChanOrdered, UNCHANGED <<chan, delivered, latest>>
  PROVE  ChanOrdered'
  BY DEF ChanOrdered

\* A trigger goes to the channel's end, numbered above all earlier ones.
LEMMA SendOrdered ==
  ASSUME TypeOK, InputInv, NEW k \in Keys, NEW d \in BOOLEAN, Send(k, d),
         UNCHANGED delivered
  PROVE  ChanOrdered'
<1> DEFINE m == [key |-> k, n |-> latest[k] + 1, debounced |-> d]
<1>1. /\ latest' = [latest EXCEPT ![k] = @ + 1]
      /\ chan' = Append(chan, m)
  BY DEF Send
<1>2. latest \in [Keys -> Nat] /\ delivered \in [Keys -> Nat] /\ chan \in Seq(Messages)
  BY DEF TypeOK
<1>3. m \in Messages
  BY <1>2 DEF Messages
<1>4. /\ Len(chan') = Len(chan) + 1
      /\ \A i \in 1 .. Len(chan) : chan'[i] = chan[i]
      /\ chan'[Len(chan) + 1] = m
      /\ DOMAIN chan = 1 .. Len(chan) /\ DOMAIN chan' = 1 .. Len(chan')
      /\ Len(chan) \in Nat
  BY <1>1, <1>2, <1>3
<1>5. \A i \in 1 .. Len(chan) : chan[i] \in Messages
  BY <1>2
<1>6. delivered[k] <= latest[k]
  BY DEF InputInv, KeyInv, Current
<1>7. ASSUME NEW i \in DOMAIN chan'
      PROVE  delivered'[chan'[i].key] < chan'[i].n /\ chan'[i].n <= latest'[chan'[i].key]
  <2>1. CASE i \in 1 .. Len(chan)
    <3>1. /\ chan'[i] = chan[i] /\ chan[i].key \in Keys /\ chan[i].n \in Nat
          /\ delivered[chan[i].key] < chan[i].n /\ chan[i].n <= latest[chan[i].key]
      BY <1>4, <1>5, <2>1 DEF InputInv, ChanOrdered, Messages
    <3>2. latest[chan[i].key] <= latest'[chan[i].key]
      BY <1>1, <1>2, <3>1
    <3>3. latest[chan[i].key] \in Nat /\ latest'[chan[i].key] \in Nat
      BY <1>1, <1>2, <3>1
    <3>4. QED
      BY <3>1, <3>2, <3>3
  <2>2. CASE i = Len(chan) + 1
    BY <1>1, <1>2, <1>4, <1>6, <2>2
  <2>3. QED
    BY <1>4, <2>1, <2>2
<1>8. ASSUME NEW i \in DOMAIN chan', NEW j \in DOMAIN chan', i < j,
             chan'[i].key = chan'[j].key
      PROVE  chan'[i].n < chan'[j].n
  <2>1. i \in 1 .. Len(chan) /\ chan'[i] = chan[i] /\ chan[i] \in Messages
    BY <1>4, <1>5, <1>8
  <2>2. CASE j \in 1 .. Len(chan)
    BY <1>4, <1>8, <2>1, <2>2 DEF InputInv, ChanOrdered
  <2>3. CASE j = Len(chan) + 1
    <3>1. chan[i].key = k /\ chan[i].n <= latest[k] /\ chan'[j].n = latest[k] + 1
      BY <1>4, <1>8, <2>1, <2>3 DEF InputInv, ChanOrdered
    <3>2. QED
      BY <1>2, <2>1, <3>1 DEF Messages
  <2>4. QED
    BY <1>4, <2>2, <2>3
<1>9. QED
  BY <1>7, <1>8 DEF ChanOrdered

\* Delivering the oldest message leaves the others in order.
LEMMA DeliverOrdered ==
  ASSUME TypeOK, InputInv, chan # <<>>, chan' = Tail(chan), UNCHANGED latest,
         delivered' = [delivered EXCEPT ![Head(chan).key] = Head(chan).n]
  PROVE  ChanOrdered'
<1>1. latest \in [Keys -> Nat] /\ delivered \in [Keys -> Nat] /\ chan \in Seq(Messages)
  BY DEF TypeOK
<1>2. /\ Len(chan) \in Nat /\ Len(chan) > 0
      /\ DOMAIN chan = 1 .. Len(chan)
      /\ DOMAIN chan' = 1 .. Len(chan) - 1
      /\ \A i \in 1 .. Len(chan) - 1 : chan'[i] = chan[i + 1]
      /\ Head(chan) = chan[1]
  BY <1>1
<1>3. \A i \in 1 .. Len(chan) : chan[i] \in Messages
  BY <1>1
<1>4. ASSUME NEW i \in DOMAIN chan'
      PROVE  delivered'[chan'[i].key] < chan'[i].n /\ chan'[i].n <= latest'[chan'[i].key]
  <2>1. i + 1 \in 1 .. Len(chan) /\ 1 \in 1 .. Len(chan) /\ 1 < i + 1
    BY <1>2
  <2>2. chan'[i] = chan[i + 1]
    BY <1>2
  <2>3. CASE chan[i + 1].key = chan[1].key
    <3>1. chan[1].n < chan[i + 1].n
      BY <1>2, <2>1, <2>3 DEF InputInv, ChanOrdered
    <3>2. delivered'[chan[1].key] = chan[1].n
      BY <1>1, <1>2, <1>3, <2>1 DEF Messages
    <3>3. QED
      BY <1>2, <2>1, <2>2, <2>3, <3>1, <3>2 DEF InputInv, ChanOrdered
  <2>4. CASE chan[i + 1].key # chan[1].key
    <3>1. delivered'[chan[i + 1].key] = delivered[chan[i + 1].key]
      BY <1>1, <1>2, <1>3, <2>1, <2>4 DEF Messages
    <3>2. QED
      BY <1>2, <2>1, <2>2, <3>1 DEF InputInv, ChanOrdered
  <2>5. QED
    BY <2>3, <2>4
<1>5. ASSUME NEW i \in DOMAIN chan', NEW j \in DOMAIN chan', i < j,
             chan'[i].key = chan'[j].key
      PROVE  chan'[i].n < chan'[j].n
  <2>1. /\ i + 1 \in DOMAIN chan /\ j + 1 \in DOMAIN chan /\ i + 1 < j + 1
        /\ chan'[i] = chan[i + 1] /\ chan'[j] = chan[j + 1]
    BY <1>2, <1>5
  <2>2. QED
    BY <1>5, <2>1 DEF InputInv, ChanOrdered
<1>6. QED
  BY <1>4, <1>5 DEF ChanOrdered

\* schedule() keeps the books of the key it is given, whatever phase it finds.
LEMMA ScheduleKey ==
  ASSUME TaskInv, NEW k \in Keys, KeyInv(k), NEW n \in Nat, NEW immediate \in BOOLEAN,
         Schedule(k, n, immediate),
         delivered[k] < n, n <= latest[k], delivered'[k] = n,
         prompt'[k] = (IF immediate THEN n ELSE prompt[k]),
         latest' = latest, begun' = begun, runs' = runs, wedged' = wedged
  PROVE  KeyInv(k)'
<1> USE DEF TaskInv
<1>k. /\ entry \in [Keys -> Entry] /\ timers \in [Keys -> Nat] /\ TasksType
      /\ tasks[k] \in [Stages -> Nat] /\ entry[k] \in Entry
      /\ entry[k].rerun \in BOOLEAN /\ entry[k].immediate \in BOOLEAN
      /\ latest[k] \in Nat /\ delivered[k] \in Nat /\ prompt[k] \in Nat
      /\ begun[k] \in Nat /\ runs[k] \in Nat
  BY KeyTypes DEF TypeOK, TasksType
<1>1. CASE entry[k].phase = "Running"
  <2>1. /\ entry'[k] = RerunNoted(entry[k], n, immediate)
        /\ UNCHANGED <<timers, tasks>>
    BY <1>k, <1>1 DEF Schedule
  <2>2. /\ entry'[k].phase = "Running" /\ entry'[k].rerun /\ entry'[k].next = n
        /\ entry'[k].immediate = (entry[k].immediate \/ immediate)
    BY <1>k, <1>1, <2>1 DEF RerunNoted, Entry
  <2>3. Current(k)'
    BY <1>k, <2>2 DEF KeyInv, Current
  <2>4. Owed(k)'
    BY <1>k, <2>1, <2>2 DEF KeyInv, Owed, Executing
  <2>5. ToStart(k) \in Nat /\ ToStart(k)' = ToStart(k)
    BY <1>k, <2>1 DEF ToStart, Stages
  <2>6. Paid(k)'
    BY <1>k, <1>1, <2>2, <2>5 DEF KeyInv, Paid, B
  <2>7. QED
    BY <2>3, <2>4, <2>6 DEF KeyInv
<1>2. CASE entry[k].phase \in {"Pending", "Absent"} /\ immediate
  <2>1. /\ \/ entry'[k] = [entry[k] EXCEPT !.next = n, !.phase = "Running"]
           \/ entry'[k] = Fresh("Running", n)
        /\ tasks' = Spawned(k)
        /\ UNCHANGED timers
    BY <1>k, <1>2 DEF Schedule
  <2>2. ~entry[k].rerun /\ ~entry[k].immediate
    BY <1>k, <1>2 DEF KeyInv, Current, Owed
  <2>3. /\ entry'[k].phase = "Running" /\ ~entry'[k].rerun /\ entry'[k].next = n
        /\ ~entry'[k].immediate
    <3>1. CASE entry'[k] = [entry[k] EXCEPT !.next = n, !.phase = "Running"]
      BY <1>k, <2>2, <3>1 DEF Entry
    <3>2. CASE entry'[k] = Fresh("Running", n)
      BY <3>2 DEF Fresh
    <3>3. QED
      BY <2>1, <3>1, <3>2
  <2>4. \A s \in Stages : tasks[k][s] = 0
    BY <1>2, NoTaskUnlessRunning
  <2>5. ToStart(k)' = 1 /\ Executing(k)' = 0 /\ ToStart(k) = 0
    BY <1>k, <2>1, <2>4, SpawnEffect DEF ToStart, Executing, Stages
  <2>6. Current(k)'
    BY <1>k, <2>3 DEF KeyInv, Current
  <2>7. Owed(k)'
    BY <2>3, <2>5 DEF Owed
  <2>8. Paid(k)'
    BY <1>k, <2>3, <2>5, <2>2 DEF KeyInv, Paid, B
  <2>9. QED
    BY <2>6, <2>7, <2>8 DEF KeyInv
<1>3. CASE entry[k].phase \in {"Pending", "Absent"} /\ ~immediate
  <2>1. /\ \/ /\ entry[k].phase = "Pending"
              /\ entry'[k] = [entry[k] EXCEPT !.next = n]
              /\ timers'[k] = timers[k]
           \/ /\ entry[k].phase = "Absent"
              /\ entry'[k] = Fresh("Pending", n)
              /\ timers'[k] = timers[k] + 1
        /\ UNCHANGED tasks
    BY <1>k, <1>3 DEF Schedule
  <2>2. ~entry[k].rerun /\ ~entry[k].immediate
    BY <1>k, <1>3 DEF KeyInv, Current, Owed
  <2>3. /\ entry'[k].phase = "Pending" /\ ~entry'[k].rerun /\ entry'[k].next = n
        /\ ~entry'[k].immediate
    BY <1>k, <2>1, <2>2 DEF Fresh, Entry
  <2>4. timers[k] \in Nat /\ timers'[k] > 0
    BY <1>k, <2>1 DEF KeyInv, Owed
  <2>5. prompt[k] <= begun[k]
    BY <1>k, <1>3 DEF KeyInv, Current, Owed
  <2>6. \A s \in Stages : tasks'[k][s] = 0
    BY <1>3, <2>1, NoTaskUnlessRunning
  <2>7. ToStart(k)' = 0 /\ Executing(k)' = 0 /\ ToStart(k) = 0
    BY <2>1, <2>6 DEF ToStart, Executing, Stages
  <2>8. Current(k)'
    BY <1>k, <1>3, <2>3 DEF KeyInv, Current
  <2>9. Owed(k)'
    BY <1>3, <2>3, <2>4, <2>5, <2>7 DEF Owed
  <2>10. Paid(k)'
    BY <1>k, <2>2, <2>3, <2>7 DEF KeyInv, Paid, B
  <2>11. QED
    BY <2>8, <2>9, <2>10 DEF KeyInv
<1>4. QED
  BY <1>1, <1>2, <1>3, KeyTypes DEF Phases

\* The runtime starts owing nothing.
THEOREM InputInvInit == Init => InputInv
<1> SUFFICES ASSUME Init PROVE InputInv
  OBVIOUS
<1>1. ChanOrdered
  BY DEF Init, ChanOrdered
<1>2. ASSUME NEW k \in Keys PROVE KeyInv(k)
  BY DEF Init, KeyInv, Current, Owed, Paid, B, Absent, ToStart, Executing, NoTask, Stages
<1>3. QED
  BY <1>1, <1>2 DEF InputInv

\* Every step keeps the books of every key.
THEOREM InputInvStep == TaskInv /\ InputInv /\ [Next]_vars => InputInv'
<1> SUFFICES ASSUME TaskInv, InputInv, [Next]_vars PROVE InputInv'
  OBVIOUS
<1>t. TypeOK /\ OneTask /\ TasksType /\ TypeOK'
  BY TaskInvStep DEF TaskInv, TypeOK, TasksType
<1>e. \A j \in Keys : KeyInv(j)
  BY DEF InputInv
<1>o. ASSUME NEW k \in Keys, KeyInv(k)', UNCHANGED <<delivered, prompt>>,
             \A j \in Keys \ {k} :
               /\ entry'[j] = entry[j] /\ timers'[j] = timers[j] /\ tasks'[j] = tasks[j]
               /\ begun'[j] = begun[j] /\ runs'[j] = runs[j]
               /\ j \in wedged' <=> j \in wedged,
             UNCHANGED <<chan, latest>>
      PROVE  InputInv'
  <2>1. ChanOrdered'
    BY <1>o, ChanFrame DEF InputInv
  <2>2. ASSUME NEW j \in Keys, j # k PROVE KeyInv(j)'
    BY <1>o, <1>e, <1>t, <2>2, KeyFrame, KeyTypes
  <2>3. QED
    BY <1>o, <2>1, <2>2 DEF InputInv
<1>1. ASSUME NEW k \in Keys, NEW d \in BOOLEAN, Trigger(k, d) \/ Sweep(k)
      PROVE  InputInv'
  <2>1. PICK debounced \in BOOLEAN : Send(k, debounced)
    BY <1>1 DEF Trigger, Sweep
  <2>2. UNCHANGED <<scheduler, delivered, prompt, begun, runs, wedged>>
    BY <1>1 DEF Trigger, Sweep
  <2>3. ChanOrdered'
    BY <1>t, <2>1, <2>2, SendOrdered
  <2>4. ASSUME NEW j \in Keys PROVE KeyInv(j)'
    <3>1. latest'[j] \in Nat /\ latest[j] <= latest'[j]
      <4>1. latest \in [Keys -> Nat] /\ latest' = [latest EXCEPT ![k] = @ + 1]
        BY <1>t, <2>1 DEF Send, TypeOK
      <4>2. QED
        BY <4>1
    <3>2. QED
      BY <1>e, <1>t, <2>2, <3>1, KeyFrame DEF scheduler
  <2>5. QED
    BY <2>3, <2>4 DEF InputInv
<1>2. CASE Deliver
  <2> DEFINE m == Head(chan)
             immediate == ~m.debounced \/ ~window
  <2>1. /\ chan # <<>> /\ chan' = Tail(chan)
        /\ Schedule(m.key, m.n, immediate)
        /\ delivered' = [delivered EXCEPT ![m.key] = m.n]
        /\ prompt' = IF immediate THEN [prompt EXCEPT ![m.key] = m.n] ELSE prompt
        /\ UNCHANGED <<latest, begun, runs, wedged>>
    BY <1>2 DEF Deliver
  <2>2. m \in Messages /\ m = chan[1] /\ 1 \in DOMAIN chan
    BY <1>t, <2>1 DEF TypeOK
  <2>3. m.key \in Keys /\ m.n \in Nat /\ immediate \in BOOLEAN
    BY <2>2 DEF Messages
  <2>4. delivered[m.key] < m.n /\ m.n <= latest[m.key]
    BY <2>2 DEF InputInv, ChanOrdered
  <2>5. ChanOrdered'
    BY <1>t, <2>1, DeliverOrdered
  <2> HIDE DEF m, immediate
  <2>6. PICK k \in Keys, n \in Nat, now \in BOOLEAN :
          k = m.key /\ n = m.n /\ now = immediate
    BY <2>3
  <2>7. /\ delivered'[k] = n
        /\ prompt'[k] = (IF now THEN n ELSE prompt[k])
        /\ \A j \in Keys \ {k} : delivered'[j] = delivered[j] /\ prompt'[j] = prompt[j]
    BY <1>t, <2>1, <2>6 DEF TypeOK
  <2>8. KeyInv(k)'
    BY <1>e, <2>1, <2>4, <2>6, <2>7, ScheduleKey
  <2>9. ASSUME NEW j \in Keys, j # k PROVE KeyInv(j)'
    <3>1. entry'[j] = entry[j] /\ timers'[j] = timers[j] /\ tasks'[j] = tasks[j]
      BY <1>t, <2>1, <2>6, <2>9 DEF Schedule, Spawned, TypeOK
    <3>2. QED
      BY <1>e, <1>t, <2>1, <2>7, <2>9, <3>1, KeyFrame, KeyTypes
  <2>10. QED
    BY <2>5, <2>8, <2>9 DEF InputInv
<1>3. ASSUME NEW k \in Keys, TimerFires(k) PROVE InputInv'
  <2>1. /\ UNCHANGED <<chan, waitq, permits, history>>
        /\ timers' = [timers EXCEPT ![k] = @ - 1]
    BY <1>3 DEF TimerFires
  <2>k. KeyInv(k) /\ entry[k] \in Entry /\ tasks[k] \in [Stages -> Nat]
    BY <1>e, <1>t, KeyTypes
  <2>2. CASE WindowOpen(k)
    <3>1. tasks' = Spawned(k) /\ entry' = [entry EXCEPT ![k].phase = "Running"]
      BY <1>3, <2>2 DEF TimerFires
    <3>2. /\ entry'[k].phase = "Running" /\ entry'[k].next = entry[k].next
          /\ entry'[k].rerun = entry[k].rerun /\ entry'[k].immediate = entry[k].immediate
      BY <1>t, <2>k, <3>1 DEF TypeOK, Entry
    <3>3. \A s \in Stages : tasks[k][s] = 0
      BY <1>t, <2>2, NoTaskUnlessRunning DEF WindowOpen
    <3>4. ToStart(k)' = 1 /\ Executing(k)' = 0 /\ ToStart(k) = 0
      BY <1>t, <2>k, <3>1, <3>3, SpawnEffect DEF ToStart, Executing, Stages
    <3>5. Current(k)'
      BY <2>1, <2>2, <2>k, <3>2 DEF KeyInv, Current, WindowOpen, history
    <3>6. Owed(k)'
      BY <2>1, <2>2, <2>k, <3>2, <3>4 DEF KeyInv, Owed, WindowOpen, history
    <3>7. Paid(k)'
      BY <1>t, <2>1, <2>2, <2>k, <3>2, <3>4, KeyTypes DEF KeyInv, Paid, B, WindowOpen, history
    <3>8. ASSUME NEW j \in Keys \ {k}
          PROVE  entry'[j] = entry[j] /\ timers'[j] = timers[j] /\ tasks'[j] = tasks[j]
      BY <1>t, <2>1, <3>1 DEF TypeOK, Spawned
    <3>9. QED
      BY <1>o, <2>1, <3>5, <3>6, <3>7, <3>8 DEF KeyInv, history
  <2>3. CASE ~WindowOpen(k)
    <3>1. UNCHANGED <<entry, tasks>>
      BY <1>3, <2>3 DEF TimerFires
    <3>2. Current(k)' /\ Paid(k)'
      BY <2>1, <2>k, <3>1 DEF KeyInv, Current, Paid, ToStart, history
    <3>3. Owed(k)'
      BY <2>1, <2>3, <2>k, <3>1 DEF KeyInv, Owed, Executing, WindowOpen, history
    <3>4. QED
      BY <1>o, <1>t, <2>1, <3>1, <3>2, <3>3 DEF KeyInv, history, TypeOK
  <2>4. QED
    BY <2>2, <2>3
<1>4. ASSUME NEW k \in Keys, Enqueue(k) \/ Grant(k) PROVE InputInv'
  <2>1. UNCHANGED <<chan, entry, timers, history>>
    BY <1>4 DEF Enqueue, Grant
  <2>2. \/ Move(k, "spawned", "waiting")
        \/ Move(k, "waiting", "granted")
    BY <1>4 DEF Enqueue, Grant
  <2>k. KeyInv(k) /\ tasks[k] \in [Stages -> Nat]
    BY <1>e, <1>t, KeyTypes
  <2>3. ToStart(k)' = ToStart(k) /\ Executing(k)' = Executing(k)
    BY <1>t, <2>2, <2>k, MoveEffect DEF ToStart, Executing, Stages
  <2>4. KeyInv(k)'
    BY <2>1, <2>3, <2>k DEF KeyInv, Current, Owed, Paid, history
  <2>5. \A j \in Keys \ {k} : tasks'[j] = tasks[j]
    BY <1>t, <2>2, MoveEffect DEF Stages
  <2>6. QED
    BY <1>o, <2>1, <2>4, <2>5 DEF history
<1>5. ASSUME NEW k \in Keys, Start(k) PROVE InputInv'
  <2>1. /\ UNCHANGED <<chan, entry, timers, latest, delivered, prompt, wedged>>
        /\ entry[k].phase # "Absent"
        /\ Move(k, "granted", "running")
        /\ begun' = [begun EXCEPT ![k] = entry[k].next]
        /\ runs' = [runs EXCEPT ![k] = @ + 1]
    BY <1>5 DEF Start
  <2>k. /\ KeyInv(k) /\ tasks[k] \in [Stages -> Nat]
        /\ runs[k] \in Nat /\ delivered[k] \in Nat /\ prompt[k] \in Nat
    BY <1>e, <1>t, KeyTypes
  <2>2. /\ begun'[k] = delivered[k] /\ runs'[k] = runs[k] + 1
        /\ \A j \in Keys \ {k} : begun'[j] = begun[j] /\ runs'[j] = runs[j]
    BY <1>t, <2>1, <2>k DEF TypeOK, KeyInv, Current
  <2>3. tasks[k]["granted"] > 0 /\ entry[k].phase = "Running"
    BY <1>t, <2>1, MoveEffect, OnlyTask DEF Stages
  <2>m. /\ tasks[k]["granted"] = 1 /\ \A s \in Stages \ {"granted"} : tasks[k][s] = 0
        /\ tasks'[k]["granted"] = tasks[k]["granted"] - 1
        /\ tasks'[k]["running"] = tasks[k]["running"] + 1
        /\ \A s \in Stages \ {"granted", "running"} : tasks'[k][s] = tasks[k][s]
    <3>1. "granted" \in Stages /\ "running" \in Stages
      BY DEF Stages
    <3>2. tasks[k]["granted"] = 1 /\ \A s \in Stages \ {"granted"} : tasks[k][s] = 0
      BY <1>t, <2>3, <3>1, OnlyTask
    <3> QED BY <1>t, <2>1, <3>1, <3>2, MoveEffect
  <2>4. ToStart(k) = 1 /\ ToStart(k)' = 0 /\ Executing(k)' = 1
    BY <2>m DEF ToStart, Executing, Stages
  <2>5. Current(k)'
    BY <2>1, <2>2, <2>k DEF KeyInv, Current
  <2>6. Owed(k)'
    BY <2>1, <2>2, <2>3, <2>k DEF KeyInv, Current, Owed
  <2>7. Paid(k)'
    BY <2>1, <2>2, <2>3, <2>4, <2>k DEF KeyInv, Paid, B
  <2>8. \A j \in Keys \ {k} : tasks'[j] = tasks[j]
    BY <1>t, <2>1, MoveEffect DEF Stages
  <2>9. QED
    BY <1>o, <2>1, <2>2, <2>5, <2>6, <2>7, <2>8 DEF KeyInv
<1>6. ASSUME NEW k \in Keys, Finish(k) PROVE InputInv'
  <2>1. /\ UNCHANGED <<chan, entry, timers, history>>
        /\ Move(k, "running", "settling")
    BY <1>6 DEF Finish
  <2>k. KeyInv(k) /\ tasks[k] \in [Stages -> Nat]
    BY <1>e, <1>t, KeyTypes
  <2>2. ToStart(k)' = ToStart(k) /\ Executing(k)' = Executing(k)
    BY <1>t, <2>1, <2>k, MoveEffect DEF ToStart, Executing, Stages
  <2>3. KeyInv(k)'
    BY <2>1, <2>2, <2>k DEF KeyInv, Current, Owed, Paid, history
  <2>4. \A j \in Keys \ {k} : tasks'[j] = tasks[j]
    BY <1>t, <2>1, MoveEffect DEF Stages
  <2>5. QED
    BY <1>o, <2>1, <2>3, <2>4 DEF history
<1>7. ASSUME NEW k \in Keys, Panic(k) PROVE InputInv'
  <2>1. /\ UNCHANGED <<chan, entry, timers, latest, delivered, prompt, begun, runs>>
        /\ tasks[k]["running"] > 0
        /\ tasks' = [tasks EXCEPT ![k]["running"] = @ - 1]
        /\ wedged' = wedged \cup {k}
    BY <1>7 DEF Panic
  <2>k. KeyInv(k) /\ tasks[k] \in [Stages -> Nat] /\ entry[k].phase = "Running"
    BY <1>e, <1>t, <2>1, KeyTypes, OnlyTask DEF Stages
  <2>2. ToStart(k)' = ToStart(k)
    BY <1>t, <2>1, <2>k, EndEffect DEF ToStart, Stages
  <2>3. KeyInv(k)'
    BY <2>1, <2>2, <2>k DEF KeyInv, Current, Owed, Paid
  <2>4. \A j \in Keys \ {k} : tasks'[j] = tasks[j]
    BY <1>t, <2>1, EndEffect DEF Stages
  <2>5. QED
    BY <1>o, <2>1, <2>3, <2>4
<1>8. ASSUME NEW k \in Keys, Settle(k) PROVE InputInv'
  <2>1. UNCHANGED <<chan, history>> /\ tasks[k]["settling"] > 0
    BY <1>8 DEF Settle
  <2>k. /\ KeyInv(k) /\ tasks[k] \in [Stages -> Nat] /\ entry[k] \in Entry
        /\ entry[k].rerun \in BOOLEAN /\ entry[k].immediate \in BOOLEAN
        /\ timers[k] \in Nat
        /\ runs[k] \in Nat /\ delivered[k] \in Nat /\ prompt[k] \in Nat /\ begun[k] \in Nat
    BY <1>e, <1>t, KeyTypes
  <2>2. /\ tasks[k]["settling"] = 1
        /\ \A s \in Stages \ {"settling"} : tasks[k][s] = 0
        /\ entry[k].phase = "Running" /\ k \notin wedged
    BY <1>t, <2>1, OnlyTask DEF Stages
  <2>3. ToStart(k) = 0 /\ Executing(k) = 1
    BY <2>2 DEF ToStart, Executing, Stages
  <2>4. entry \in [Keys -> Entry] /\ timers \in [Keys -> Nat]
    BY <1>t DEF TypeOK
  <2>5. CASE /\ entry[k].rerun
             /\ entry' = [entry EXCEPT ![k] = Rearmed(@, "Running")]
             /\ Move(k, "settling", "spawned")
             /\ UNCHANGED timers
    <3>1. /\ entry'[k].phase = "Running" /\ entry'[k].next = entry[k].next
          /\ ~entry'[k].rerun /\ ~entry'[k].immediate
          /\ \A j \in Keys \ {k} : entry'[j] = entry[j]
      BY <2>4, <2>5, <2>k DEF Rearmed, Entry
    <3>2. /\ ToStart(k)' = 1 /\ Executing(k)' = 0
          /\ \A j \in Keys \ {k} : tasks'[j] = tasks[j]
      BY <1>t, <2>2, <2>5, MoveEffect DEF ToStart, Executing, Stages
    <3>3. Current(k)'
      BY <2>1, <2>2, <2>k, <3>1 DEF KeyInv, Current, history
    <3>4. Owed(k)'
      BY <3>1, <3>2 DEF Owed
    <3>5. Paid(k)'
      BY <2>1, <2>2, <2>3, <2>5, <2>k, <3>1, <3>2 DEF KeyInv, Paid, B, history
    <3>6. QED
      BY <1>o, <2>1, <2>5, <3>1, <3>2, <3>3, <3>4, <3>5 DEF KeyInv, history
  <2>6. CASE /\ entry[k].rerun
             /\ ~(entry[k].immediate \/ ~window)
             /\ entry' = [entry EXCEPT ![k] = Rearmed(@, "Pending")]
             /\ timers' = [timers EXCEPT ![k] = @ + 1]
             /\ tasks' = [tasks EXCEPT ![k]["settling"] = @ - 1]
    <3>1. /\ entry'[k].phase = "Pending" /\ entry'[k].next = entry[k].next
          /\ ~entry'[k].rerun /\ ~entry'[k].immediate
          /\ timers'[k] > 0
          /\ \A j \in Keys \ {k} : entry'[j] = entry[j] /\ timers'[j] = timers[j]
      BY <2>4, <2>6, <2>k DEF Rearmed, Entry
    <3>2. /\ ToStart(k)' = 0 /\ Executing(k)' = 0
          /\ \A j \in Keys \ {k} : tasks'[j] = tasks[j]
      <4>1. /\ tasks'[k]["settling"] = tasks[k]["settling"] - 1
            /\ \A s \in Stages \ {"settling"} : tasks'[k][s] = tasks[k][s]
            /\ \A j \in Keys \ {k} : tasks'[j] = tasks[j]
        BY <1>t, <2>1, <2>6, EndEffect DEF Stages
      <4>2. \A s \in Stages : tasks'[k][s] = 0
        BY <2>2, <4>1
      <4>3. QED
        BY <4>1, <4>2 DEF ToStart, Executing, Stages
    <3>3. Current(k)'
      BY <2>1, <2>2, <2>k, <3>1 DEF KeyInv, Current, history
    <3>4. prompt[k] <= begun[k]
      BY <2>2, <2>3, <2>6, <2>k DEF KeyInv, Owed
    <3>5. Owed(k)'
      BY <2>1, <3>1, <3>2, <3>4 DEF Owed, history
    <3>6. Paid(k)'
      BY <2>1, <2>2, <2>3, <2>6, <2>k, <3>1, <3>2 DEF KeyInv, Paid, B, history
    <3>7. QED
      BY <1>o, <2>1, <3>1, <3>2, <3>3, <3>5, <3>6 DEF KeyInv, history
  <2>7. CASE /\ ~entry[k].rerun
             /\ entry' = [entry EXCEPT ![k] = Absent]
             /\ tasks' = [tasks EXCEPT ![k]["settling"] = @ - 1]
             /\ UNCHANGED timers
    <3>1. /\ entry'[k] = Absent
          /\ \A j \in Keys \ {k} : entry'[j] = entry[j]
      BY <2>4, <2>7
    <3>2. /\ ToStart(k)' = 0 /\ Executing(k)' = 0
          /\ \A j \in Keys \ {k} : tasks'[j] = tasks[j]
      <4>1. /\ tasks'[k]["settling"] = tasks[k]["settling"] - 1
            /\ \A s \in Stages \ {"settling"} : tasks'[k][s] = tasks[k][s]
            /\ \A j \in Keys \ {k} : tasks'[j] = tasks[j]
        BY <1>t, <2>1, <2>7, EndEffect DEF Stages
      <4>2. \A s \in Stages : tasks'[k][s] = 0
        BY <2>2, <4>1
      <4>3. QED
        BY <4>1, <4>2 DEF ToStart, Executing, Stages
    <3>3. begun[k] = delivered[k]
      BY <2>2, <2>3, <2>7, <2>k DEF KeyInv, Owed
    <3>4. Current(k)'
      BY <2>1, <2>k, <3>1, <3>3 DEF KeyInv, Current, Absent, history
    <3>5. Owed(k)'
      BY <3>1, <3>2 DEF Owed, Absent
    <3>6. Paid(k)'
      BY <2>1, <2>2, <2>3, <2>7, <2>k, <3>1, <3>2 DEF KeyInv, Paid, B, Absent, history
    <3>7. QED
      BY <1>o, <2>1, <2>7, <3>1, <3>2, <3>4, <3>5, <3>6 DEF KeyInv, history
  <2>8. QED
    BY <1>8, <2>5, <2>6, <2>7 DEF Settle
<1>9. CASE \/ Reconfigure \/ Shutdown \/ AskDrain \/ Drained \/ Exit
           \/ \E l \in {"trigger", "sweep"} : StopLoop(l)
           \/ UNCHANGED vars
  <2>1. UNCHANGED <<chan, entry, timers, tasks, latest, delivered, prompt, begun, runs, wedged>>
    BY <1>9
       DEF Reconfigure, Shutdown, AskDrain, Drained, Exit, StopLoop, scheduler, history, vars
  <2>2. ChanOrdered'
    BY <2>1, ChanFrame DEF InputInv
  <2>3. ASSUME NEW j \in Keys PROVE KeyInv(j)'
    BY <1>e, <1>t, <2>1, KeyFrame, KeyTypes
  <2>4. QED
    BY <2>2, <2>3 DEF InputInv
<1>10. QED
  BY <1>1, <1>2, <1>3, <1>4, <1>5, <1>6, <1>7, <1>8, <1>9 DEF Next

\* The two inductive invariants hold together in every reachable state.
LEMMA Invariants == Spec => [](TaskInv /\ InputInv)
<1>1. Init => TaskInv /\ InputInv
  BY TaskInvInit, InputInvInit
<1>2. TaskInv /\ InputInv /\ [Next]_vars => (TaskInv /\ InputInv)'
  BY TaskInvStep, InputInvStep
<1>3. QED
  BY <1>1, <1>2, PTL DEF Spec

\* What the books say of a key that has not begun with its last input.
LEMMA OwedKey ==
  ASSUME TaskInv, InputInv, NEW k \in Keys \ wedged
  PROVE  /\ begun[k] < delivered[k] =>
              \/ entry[k].phase = "Pending" /\ timers[k] > 0
              \/ ToStart(k) > 0
              \/ entry[k].rerun
         /\ begun[k] < prompt[k] =>
              /\ entry[k].phase = "Running"
              /\ ToStart(k) > 0 \/ (entry[k].rerun /\ entry[k].immediate)
<1>1. /\ TypeOK /\ OneTask /\ k \in Keys /\ k \notin wedged /\ KeyInv(k)
  BY DEF TaskInv, InputInv
<1>2. /\ entry[k].phase \in Phases /\ tasks[k] \in [Stages -> Nat]
      /\ entry[k].rerun \in BOOLEAN /\ entry[k].immediate \in BOOLEAN
      /\ delivered[k] \in Nat /\ prompt[k] \in Nat /\ begun[k] \in Nat
  BY <1>1, KeyTypes
<1>3. ToStart(k) \in Nat /\ Executing(k) \in Nat
  BY <1>2 DEF ToStart, Executing, Stages
<1>4. entry[k].phase = "Running" => ToStart(k) > 0 \/ Executing(k) > 0
  BY <1>1, <1>3 DEF OneTask
<1>5. begun[k] < delivered[k] \/ begun[k] < prompt[k] => entry[k].phase # "Absent"
  BY <1>1, <1>2 DEF KeyInv, Current
<1>6. QED
  BY <1>1, <1>2, <1>4, <1>5 DEF KeyInv, Owed, Phases

\* An accepted trigger is never dropped, for every set of keys and every
\* interleaving: RoutineRuntime's NoLostTrigger.
THEOREM TriggersNeverLost == Spec => []NoLostTrigger
<1>1. TaskInv /\ InputInv => NoLostTrigger
  BY OwedKey DEF NoLostTrigger
<1>2. QED
  BY Invariants, <1>1, PTL

\* A prompt trigger never waits for a window: RoutineRuntime's PromptRunsNow.
THEOREM PromptNeverDebounced == Spec => []PromptRunsNow
<1>1. TaskInv /\ InputInv => PromptRunsNow
  BY OwedKey DEF PromptRunsNow
<1>2. QED
  BY Invariants, <1>1, PTL

-----------------------------------------------------------------------------
(* RoutineRuntime implements RoutineSpec *)

\* The running keys are among the finitely many keys.
LEMMA ActiveFinite ==
  IsFiniteSet(Active) /\ Cardinality(Active) \in Nat
  BY RoutineAssumption, FS_Subset, FS_CardinalityType DEF Active

\* A granted task finds room among the running ones: it holds a permit, and so
\* does each of them.
LEMMA RoomToBegin ==
  ASSUME TaskInv, NEW k \in Keys, tasks[k]["granted"] > 0
  PROVE  k \notin Active /\ Cardinality(Active) < Concurrency
<1>1. TypeOK /\ OneTask /\ Conserved
  BY DEF TaskInv
<1>2. tasks[k]["running"] = 0
  BY <1>1, OnlyTask DEF Stages
<1>3. \A j \in Keys : tasks[j]["granted"] \in Nat /\ tasks[j]["running"] \in Nat
  <2>1. tasks \in [Keys -> [Stages -> Nat]]
    BY <1>1 DEF TypeOK
  <2>2. "granted" \in Stages /\ "running" \in Stages
    BY DEF Stages
  <2> QED BY <2>1, <2>2
<1>4. k \notin Active /\ Active \cup {k} \subseteq Holders
  BY <1>2, <1>3 DEF Active, Holders
<1>5. IsFiniteSet(Active) /\ Cardinality(Active) \in Nat
  BY ActiveFinite
<1>6. Cardinality(Active \cup {k}) = Cardinality(Active) + 1
  BY <1>4, <1>5, FS_AddElement
<1>7. Cardinality(Active \cup {k}) <= Cardinality(Holders)
  BY <1>4, HoldersFinite, FS_Subset
<1>8. Cardinality(Holders) <= Concurrency
  BY <1>1, HoldersFinite, RoutineAssumption DEF Conserved, TypeOK
<1>9. QED
  BY <1>4, <1>5, <1>6, <1>7, <1>8, HoldersFinite, RoutineAssumption

\* The runtime keeps the framework's promise: every behaviour of RoutineRuntime
\* is one of RoutineSpec.
THEOREM Refinement == Spec => RefinesPromise
<1>1. Init => Promise!Init
  <2> SUFFICES ASSUME Init PROVE Promise!Init
    OBVIOUS
  <2>1. Active = {}
    BY DEF Init, Active, NoTask, Stages
  <2>2. QED
    BY <2>1, FS_EmptySet, RoutineAssumption DEF Init, Promise!Init
<1>2. TaskInv /\ InputInv /\ [Next]_vars => [Promise!Next]_(Promise!vars)
  <2> SUFFICES ASSUME TaskInv, InputInv, [Next]_vars
               PROVE  [Promise!Next]_(Promise!vars)
    OBVIOUS
  <2>t. TypeOK /\ OneTask /\ TasksType
    BY DEF TaskInv, TypeOK, TasksType
  <2>s. ASSUME UNCHANGED <<latest, begun, runs>>, Active' = Active
        PROVE  UNCHANGED Promise!vars
    BY <2>s DEF Promise!vars
  <2>r. ASSUME \A j \in Keys : tasks'[j]["running"] = tasks[j]["running"]
        PROVE  Active' = Active
    BY <2>r DEF Active
  <2>1. ASSUME NEW k \in Keys, NEW d \in BOOLEAN, Trigger(k, d) \/ Sweep(k)
        PROVE  Promise!Next
    <3>1. latest' = [latest EXCEPT ![k] = @ + 1]
      BY <2>1 DEF Trigger, Sweep, Send
    <3>2. UNCHANGED <<begun, runs, tasks>>
      BY <2>1 DEF Trigger, Sweep, scheduler
    <3>3. Promise!Trigger(k)
      BY <2>r, <3>1, <3>2 DEF Promise!Trigger
    <3>4. QED
      BY <3>3 DEF Promise!Next
  <2>2. CASE Deliver
    <3>1. UNCHANGED <<latest, begun, runs>>
      BY <2>2 DEF Deliver
    <3>2. \A j \in Keys : tasks'[j]["running"] = tasks[j]["running"]
      <4>1. tasks' = tasks \/ \E k \in Keys : tasks' = Spawned(k)
        <5>1. Head(chan) \in Messages
          BY <2>2, <2>t DEF Deliver, TypeOK
        <5>2. QED
          BY <2>2, <5>1 DEF Deliver, Schedule, Messages
      <4>2. QED
        BY <2>t, <4>1 DEF Spawned, TasksType, Stages
    <3>3. QED
      BY <2>r, <2>s, <3>1, <3>2
  <2>3. ASSUME NEW k \in Keys, TimerFires(k) PROVE UNCHANGED Promise!vars
    <3>1. tasks' = tasks \/ tasks' = Spawned(k)
      BY <2>3 DEF TimerFires
    <3>2. \A j \in Keys : tasks'[j]["running"] = tasks[j]["running"]
      BY <2>t, <3>1 DEF Spawned, TasksType, Stages
    <3>3. QED
      BY <2>3, <2>r, <2>s, <3>2 DEF TimerFires, history
  <2>4. ASSUME NEW k \in Keys, Enqueue(k) \/ Grant(k) PROVE UNCHANGED Promise!vars
    <3>1. Move(k, "spawned", "waiting") \/ Move(k, "waiting", "granted")
      BY <2>4 DEF Enqueue, Grant
    <3>2. \A j \in Keys : tasks'[j]["running"] = tasks[j]["running"]
      BY <2>t, <3>1, MoveEffect DEF Stages
    <3>3. QED
      BY <2>4, <2>r, <2>s, <3>2 DEF Enqueue, Grant, history
  <2>5. ASSUME NEW k \in Keys, Start(k) PROVE Promise!Next
    <3>1. /\ Move(k, "granted", "running")
          /\ entry[k].phase # "Absent"
          /\ begun' = [begun EXCEPT ![k] = entry[k].next]
          /\ runs' = [runs EXCEPT ![k] = @ + 1]
          /\ UNCHANGED latest
      BY <2>5 DEF Start
    <3>2. /\ tasks[k]["granted"] > 0
          /\ tasks'[k]["running"] = tasks[k]["running"] + 1
          /\ \A j \in Keys \ {k} : tasks'[j] = tasks[j]
      BY <2>t, <3>1, MoveEffect DEF Stages
    <3>3. k \notin Active /\ Cardinality(Active) < Concurrency
      BY <3>2, RoomToBegin
    <3>4. Active' = Active \cup {k}
      BY <2>t, <3>2 DEF TasksType, Stages, Active
    <3>5. /\ entry[k].next = delivered[k] /\ delivered[k] > 0
          /\ begun[k] <= delivered[k] /\ delivered[k] <= latest[k]
          /\ delivered[k] \in Nat /\ begun[k] \in Nat /\ latest[k] \in Nat
      BY <2>t, <3>1, KeyTypes DEF InputInv, KeyInv, Current
    <3>6. runs[k] < latest[k]
      <4>1. ToStart(k) = 1
        BY <2>t, <3>2, KeyTypes, OnlyTask DEF ToStart, Stages
      <4>2. Paid(k) /\ runs[k] \in Nat
        BY <2>t, KeyTypes DEF InputInv, KeyInv
      <4>3. QED
        BY <3>5, <4>1, <4>2 DEF Paid, B
    <3>7. \E n \in begun[k] .. latest[k] : n > 0 /\ begun' = [begun EXCEPT ![k] = n]
      <4>1. delivered[k] \in begun[k] .. latest[k]
        BY <3>5
      <4>2. QED
        BY <3>1, <3>5, <4>1
    <3>8. Cardinality(Active') = Cardinality(Active) + 1
      BY <3>3, <3>4, ActiveFinite, FS_AddElement
    <3>9. Promise!Begin(k)
      <4>1. /\ Concurrency - Cardinality(Active) > 0
            /\ Concurrency - Cardinality(Active') = (Concurrency - Cardinality(Active)) - 1
        BY <3>3, <3>8, ActiveFinite, RoutineAssumption
      <4>2. QED
        BY <3>1, <3>3, <3>4, <3>6, <3>7, <4>1, Zenon DEF Promise!Begin
    <3>10. QED
      BY <3>9 DEF Promise!Next
  <2>6. ASSUME NEW k \in Keys, Finish(k) \/ Panic(k) PROVE Promise!Next
    <3>1. UNCHANGED <<latest, begun, runs>>
      BY <2>6 DEF Finish, Panic, history
    <3>2. /\ tasks[k]["running"] > 0
          /\ tasks'[k]["running"] = tasks[k]["running"] - 1
          /\ \A j \in Keys \ {k} : tasks'[j] = tasks[j]
      BY <2>t, <2>6, MoveEffect, EndEffect DEF Finish, Panic, Stages
    <3>3. tasks[k]["running"] = 1
      BY <2>t, <3>2, OnlyTask DEF Stages
    <3>4. k \in Active /\ Active' = Active \ {k}
      BY <3>2, <3>3 DEF Active
    <3>5. Cardinality(Active') = Cardinality(Active) - 1
      BY <3>4, ActiveFinite, FS_RemoveElement
    <3>6. Promise!End(k)
      BY <3>1, <3>4, <3>5, ActiveFinite, RoutineAssumption DEF Promise!End
    <3>7. QED
      BY <3>6 DEF Promise!Next
  <2>7. ASSUME NEW k \in Keys, Settle(k) PROVE UNCHANGED Promise!vars
    <3>1. tasks[k]["settling"] > 0
      BY <2>7 DEF Settle
    <3>2. \/ Move(k, "settling", "spawned")
          \/ tasks' = [tasks EXCEPT ![k]["settling"] = @ - 1]
      BY <2>7 DEF Settle
    <3>3. \A j \in Keys : tasks'[j]["running"] = tasks[j]["running"]
      BY <2>t, <3>1, <3>2, MoveEffect, EndEffect DEF Stages
    <3>4. QED
      BY <2>7, <2>r, <2>s, <3>3 DEF Settle, history
  <2>8. CASE \/ Reconfigure \/ Shutdown \/ AskDrain \/ Drained \/ Exit
             \/ \E l \in {"trigger", "sweep"} : StopLoop(l)
             \/ UNCHANGED vars
    <3>1. UNCHANGED <<tasks, latest, begun, runs>>
      BY <2>8
         DEF Reconfigure, Shutdown, AskDrain, Drained, Exit, StopLoop, scheduler, history, vars
    <3>2. QED
      BY <2>r, <2>s, <3>1
  <2>9. QED
    BY <2>1, <2>2, <2>3, <2>4, <2>5, <2>6, <2>7, <2>8 DEF Next
<1>3. QED
  BY <1>1, <1>2, Invariants, PTL DEF Spec, RefinesPromise, Promise!Spec
=============================================================================
