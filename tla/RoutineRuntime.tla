--------------------------- MODULE RoutineRuntime ---------------------------
(***************************************************************************)
(* One routine's runtime (common/src/routine.rs): the trigger channel, the *)
(* per-key scheduler state behind one mutex, debounce timers, run tasks    *)
(* contending for a FIFO semaphore, the sweep loop, and shutdown.          *)
(*                                                                         *)
(* A step is what the code does between two awaits, or under one lock.     *)
(* Tasks are anonymous: tasks[k][s] counts the run tasks of key k that are *)
(* at stage s of spawn_run, so nothing in the shape of the state keeps a   *)
(* key from having two.  Inputs are numbered per key in trigger order.     *)
(***************************************************************************)
EXTENDS Naturals, Sequences, FiniteSets

CONSTANTS
  Keys,         \* the routine's dedup keys
  SweepKeys,    \* the keys its sweep enumerates; {} when interval() is None
  Concurrency,  \* routine.concurrency().max(1), read once at spawn
  MaxTriggers,  \* bound: MaxTriggers[k] triggers sent for k
  MaxPanics,    \* bound: runs that panic
  Drain         \* the shutdown drain's place in the semaphore queue

ASSUME RoutineAssumption ==
  /\ IsFiniteSet(Keys)
  /\ SweepKeys \subseteq Keys
  /\ Concurrency \in Nat \ {0}
  /\ MaxTriggers \in [Keys -> Nat]
  /\ MaxPanics \in Nat
  /\ Drain \notin Keys

VARIABLES
  chan,       \* the mpsc channel: messages [key, n, debounced], oldest first
  entry,      \* entry[k]: the scheduler's map entry for k
  timers,     \* timers[k]: debounce timers of k still asleep
  tasks,      \* tasks[k][s]: run tasks of k at stage s
  waitq,      \* the semaphore's FIFO of waiters
  permits,    \* permits nobody holds
  window,     \* TRUE when debounce() is not zero; read live
  inFlight,   \* RoutineStatus.in_flight
  loops,      \* the runtime's child loops still running
  life,       \* the process: up, stopping, draining, drained, exited
  \* history
  latest,     \* latest[k]: the input of the last trigger sent for k
  delivered,  \* delivered[k]: the last input schedule() was given for k
  prompt,     \* prompt[k]: the last input schedule() took as immediate
  begun,      \* begun[k]: the input of the latest run of k to begin
  runs,       \* runs[k]: how many runs of k have begun
  wedged,     \* keys whose run panicked
  panics      \* how many runs have panicked

scheduler == <<entry, timers, tasks, waitq, permits>>
history == <<latest, delivered, prompt, begun, runs, wedged, panics>>
vars == <<chan, entry, timers, tasks, waitq, permits, window, inFlight,
          loops, life, latest, delivered, prompt, begun, runs, wedged, panics>>

-----------------------------------------------------------------------------
(* The scheduler's records *)

Phases == {"Absent", "Pending", "Running"}

Entry == [phase : Phases, rerun : BOOLEAN, immediate : BOOLEAN, next : Nat]

Absent == [phase |-> "Absent", rerun |-> FALSE, immediate |-> FALSE, next |-> 0]

\* RunState::pending and RunState::running
Fresh(phase, n) ==
  [phase |-> phase, rerun |-> FALSE, immediate |-> FALSE, next |-> n]

\* A trigger found the key running: remember the latest input, and whether the
\* rerun must skip the debounce window.
RerunForgotten(e, n, immediate) == [e EXCEPT !.next = n]
RerunAlwaysDebounced(e, n, immediate) == [e EXCEPT !.next = n, !.rerun = TRUE]
RerunNoted(e, n, immediate) ==
  [e EXCEPT !.next = n, !.rerun = TRUE, !.immediate = @ \/ immediate]

\* A run settles with its rerun flag set: the flags are consumed.
RearmedFlagKept(e, phase) == [e EXCEPT !.phase = phase]
Rearmed(e, phase) ==
  [e EXCEPT !.rerun = FALSE, !.immediate = FALSE, !.phase = phase]

\* spawn_run's loop: spawned (about to ask for a permit), waiting (queued for
\* it), granted (holds it, has not read next_input), running (inside run()),
\* settling (permit dropped, about to lock the map).
Stages == {"spawned", "waiting", "granted", "running", "settling"}

NoTask == [s \in Stages |-> 0]

Messages == [key : Keys, n : Nat, debounced : BOOLEAN]

Init ==
  /\ chan = <<>>
  /\ entry = [k \in Keys |-> Absent]
  /\ timers = [k \in Keys |-> 0]
  /\ tasks = [k \in Keys |-> NoTask]
  /\ waitq = <<>>
  /\ permits = Concurrency
  /\ window \in BOOLEAN
  /\ inFlight = 0
  /\ loops = IF SweepKeys = {} THEN {"trigger"} ELSE {"trigger", "sweep"}
  /\ life = "up"
  /\ latest = [k \in Keys |-> 0]
  /\ delivered = [k \in Keys |-> 0]
  /\ prompt = [k \in Keys |-> 0]
  /\ begun = [k \in Keys |-> 0]
  /\ runs = [k \in Keys |-> 0]
  /\ wedged = {}
  /\ panics = 0

Alive == life # "exited"

-----------------------------------------------------------------------------
(* Triggers and their delivery *)

\* tx.send: the channel accepts while the trigger loop holds the receiver.
Send(k, debounced) ==
  /\ "trigger" \in loops
  /\ latest[k] < MaxTriggers[k]
  /\ latest' = [latest EXCEPT ![k] = @ + 1]
  /\ chan' = Append(chan, [key |-> k, n |-> latest[k] + 1, debounced |-> debounced])

Trigger(k, debounced) ==
  /\ Alive
  /\ Send(k, debounced)
  /\ UNCHANGED <<scheduler, window, inFlight, loops, life,
                 delivered, prompt, begun, runs, wedged, panics>>

\* run_sweep, at startup or on a tick: one prompt trigger for a swept key.
Sweep(k) ==
  /\ Alive
  /\ "sweep" \in loops
  /\ k \in SweepKeys
  /\ Send(k, FALSE)
  /\ UNCHANGED <<scheduler, window, inFlight, loops, life,
                 delivered, prompt, begun, runs, wedged, panics>>

\* spawn_run: a new run task of k.
Spawned(k) == [tasks EXCEPT ![k]["spawned"] = @ + 1]

\* schedule(): the entry, timers and tasks of k after input n, which takes the
\* debounce window unless it is immediate.
Schedule(k, n, immediate) ==
  \/ /\ entry[k].phase = "Running"
     /\ entry' = [entry EXCEPT ![k] = RerunNoted(@, n, immediate)]
     /\ UNCHANGED <<timers, tasks>>
  \/ /\ entry[k].phase = "Pending"
     /\ immediate
     /\ entry' = [entry EXCEPT ![k].next = n, ![k].phase = "Running"]
     /\ tasks' = Spawned(k)
     /\ UNCHANGED timers
  \/ /\ entry[k].phase = "Pending"
     /\ ~immediate
     /\ entry' = [entry EXCEPT ![k].next = n]
     /\ UNCHANGED <<timers, tasks>>
  \/ /\ entry[k].phase = "Absent"
     /\ immediate
     /\ entry' = [entry EXCEPT ![k] = Fresh("Running", n)]
     /\ tasks' = Spawned(k)
     /\ UNCHANGED timers
  \/ /\ entry[k].phase = "Absent"
     /\ ~immediate
     /\ entry' = [entry EXCEPT ![k] = Fresh("Pending", n)]
     /\ timers' = [timers EXCEPT ![k] = @ + 1]
     /\ UNCHANGED tasks

\* The trigger loop takes the oldest message and schedules it.  Until the loop
\* sees the shutdown flag, its select! may still pick a message.
Deliver ==
  /\ Alive
  /\ "trigger" \in loops
  /\ chan # <<>>
  /\ LET m == Head(chan)
         immediate == ~m.debounced \/ ~window
     IN  /\ Schedule(m.key, m.n, immediate)
         /\ delivered' = [delivered EXCEPT ![m.key] = m.n]
         /\ prompt' = IF immediate THEN [prompt EXCEPT ![m.key] = m.n] ELSE prompt
  /\ chan' = Tail(chan)
  /\ UNCHANGED <<waitq, permits, window, inFlight, loops, life,
                 latest, begun, runs, wedged, panics>>

\* Only a window still open is a timer's to start.
WindowAssumedOpen(k) == TRUE
WindowOpen(k) == entry[k].phase = "Pending"

\* A debounce timer wakes: it starts the run of a window still open, and is
\* stale otherwise.
TimerFires(k) ==
  /\ Alive
  /\ timers[k] > 0
  /\ timers' = [timers EXCEPT ![k] = @ - 1]
  /\ IF WindowOpen(k)
     THEN /\ entry' = [entry EXCEPT ![k].phase = "Running"]
          /\ tasks' = Spawned(k)
     ELSE UNCHANGED <<entry, tasks>>
  /\ UNCHANGED <<chan, waitq, permits, window, inFlight, loops, life, history>>

-----------------------------------------------------------------------------
(* A run task *)

Move(k, from, to) ==
  /\ tasks[k][from] > 0
  /\ tasks' = [tasks EXCEPT ![k][from] = @ - 1, ![k][to] = @ + 1]

\* acquire_owned: the task joins the semaphore's queue.
Enqueue(k) ==
  /\ Alive
  /\ Move(k, "spawned", "waiting")
  /\ waitq' = Append(waitq, k)
  /\ UNCHANGED <<chan, entry, timers, permits, window, inFlight, loops, life,
                 history>>

PermitFreeOffByOne == permits >= 0
PermitFree == permits > 0

\* The semaphore serves its queue in order.
Grant(k) ==
  /\ Alive
  /\ waitq # <<>>
  /\ Head(waitq) = k
  /\ PermitFree
  /\ Move(k, "waiting", "granted")
  /\ waitq' = Tail(waitq)
  /\ permits' = permits - 1
  /\ UNCHANGED <<chan, entry, timers, window, inFlight, loops, life, history>>

\* The task reads next_input and calls run().  The code returns when the key
\* has no entry; OneTask shows that a granted task always has one.
Start(k) ==
  /\ Alive
  /\ entry[k].phase # "Absent"
  /\ Move(k, "granted", "running")
  /\ inFlight' = inFlight + 1
  /\ begun' = [begun EXCEPT ![k] = entry[k].next]
  /\ runs' = [runs EXCEPT ![k] = @ + 1]
  /\ UNCHANGED <<chan, entry, timers, waitq, permits, window, loops, life,
                 latest, delivered, prompt, wedged, panics>>

\* mark_finished's saturating_sub
LessOne(n) == IF n = 0 THEN 0 ELSE n - 1

\* run() returns, with Ok or Err: the status is updated, the permit dropped.
Finish(k) ==
  /\ Alive
  /\ Move(k, "running", "settling")
  /\ inFlight' = LessOne(inFlight)
  /\ permits' = permits + 1
  /\ UNCHANGED <<chan, entry, timers, waitq, window, loops, life, history>>

\* The permit is owned by the task's stack frame, so unwinding returns it.
LeakedByUnwinding == permits
UnwoundPermits == permits + 1

\* run() panics: unwinding drops the permit and ends the task; mark_finished
\* and the settling of the entry never happen.
Panic(k) ==
  /\ Alive
  /\ panics < MaxPanics
  /\ tasks[k]["running"] > 0
  /\ tasks' = [tasks EXCEPT ![k]["running"] = @ - 1]
  /\ permits' = UnwoundPermits
  /\ wedged' = wedged \cup {k}
  /\ panics' = panics + 1
  /\ UNCHANGED <<chan, entry, timers, waitq, window, inFlight, loops, life,
                 latest, delivered, prompt, begun, runs>>

\* The task locks the map: it loops for an immediate rerun, opens a debounce
\* window for a debounced one, and removes the entry when nothing came.
Settle(k) ==
  /\ Alive
  /\ tasks[k]["settling"] > 0
  /\ \/ /\ entry[k].rerun
        /\ entry[k].immediate \/ ~window
        /\ entry' = [entry EXCEPT ![k] = Rearmed(@, "Running")]
        /\ Move(k, "settling", "spawned")
        /\ UNCHANGED timers
     \/ /\ entry[k].rerun
        /\ ~(entry[k].immediate \/ ~window)
        /\ entry' = [entry EXCEPT ![k] = Rearmed(@, "Pending")]
        /\ timers' = [timers EXCEPT ![k] = @ + 1]
        /\ tasks' = [tasks EXCEPT ![k]["settling"] = @ - 1]
     \/ /\ ~entry[k].rerun
        /\ entry' = [entry EXCEPT ![k] = Absent]
        /\ tasks' = [tasks EXCEPT ![k]["settling"] = @ - 1]
        /\ UNCHANGED timers
  /\ UNCHANGED <<chan, waitq, permits, window, inFlight, loops, life, history>>

-----------------------------------------------------------------------------
(* Configuration and shutdown *)

\* A settings change makes debounce() zero, or not zero.
Reconfigure ==
  /\ Alive
  /\ window' = ~window
  /\ UNCHANGED <<chan, scheduler, inFlight, loops, life, history>>

\* main: the server has stopped; shutdown_tx.send(true).
Shutdown ==
  /\ life = "up"
  /\ life' = "stopping"
  /\ UNCHANGED <<chan, scheduler, window, inFlight, loops, history>>

\* A child loop sees the flag and breaks; what the channel holds is dropped.
StopLoop(l) ==
  /\ life = "stopping"
  /\ l \in loops
  /\ loops' = loops \ {l}
  /\ UNCHANGED <<chan, scheduler, window, inFlight, life, history>>

\* Both children joined: run_routine asks for every permit, in its turn.
AskDrain ==
  /\ life = "stopping"
  /\ loops = {}
  /\ life' = "draining"
  /\ waitq' = Append(waitq, Drain)
  /\ UNCHANGED <<chan, entry, timers, tasks, permits, window, inFlight, loops,
                 history>>

\* acquire_many(permits) succeeds; `let _ =` drops the permits at once.
Drained ==
  /\ life = "draining"
  /\ waitq # <<>>
  /\ Head(waitq) = Drain
  /\ permits = Concurrency
  /\ waitq' = Tail(waitq)
  /\ life' = "drained"
  /\ UNCHANGED <<chan, entry, timers, tasks, permits, window, inFlight, loops,
                 history>>

\* main has joined every routine and returns: the process is gone.
Exit ==
  /\ life = "drained"
  /\ life' = "exited"
  /\ UNCHANGED <<chan, scheduler, window, inFlight, loops, history>>

-----------------------------------------------------------------------------
Next ==
  \/ \E k \in Keys :
       \/ \E debounced \in BOOLEAN : Trigger(k, debounced)
       \/ Sweep(k)
       \/ TimerFires(k)
       \/ Enqueue(k)
       \/ Grant(k)
       \/ Start(k)
       \/ Finish(k)
       \/ Panic(k)
       \/ Settle(k)
  \/ Deliver
  \/ Reconfigure
  \/ Shutdown
  \/ \E l \in {"trigger", "sweep"} : StopLoop(l)
  \/ AskDrain
  \/ Drained
  \/ Exit

Spec == Init /\ [][Next]_vars

\* Tokio polls every ready task, sleeps end, and the framework relies on run()
\* returning; nothing makes anyone trigger, reconfigure or shut down.
Fairness ==
  /\ WF_vars(Deliver)
  /\ \A k \in Keys :
       /\ WF_vars(TimerFires(k))
       /\ WF_vars(Enqueue(k))
       /\ WF_vars(Grant(k))
       /\ WF_vars(Start(k))
       /\ WF_vars(Finish(k))
       /\ WF_vars(Settle(k))
  /\ \A l \in {"trigger", "sweep"} : WF_vars(StopLoop(l))
  /\ WF_vars(AskDrain)
  /\ WF_vars(Drained)

FairSpec == Spec /\ Fairness

-----------------------------------------------------------------------------
(* Properties *)

TypeOK ==
  /\ chan \in Seq(Messages)
  /\ entry \in [Keys -> Entry]
  /\ timers \in [Keys -> Nat]
  /\ tasks \in [Keys -> [Stages -> Nat]]
  /\ waitq \in Seq(Keys \cup {Drain})
  /\ permits \in 0 .. Concurrency
  /\ window \in BOOLEAN
  /\ inFlight \in Nat
  /\ loops \subseteq {"trigger", "sweep"}
  /\ life \in {"up", "stopping", "draining", "drained", "exited"}
  /\ latest \in [Keys -> Nat]
  /\ delivered \in [Keys -> Nat]
  /\ prompt \in [Keys -> Nat]
  /\ begun \in [Keys -> Nat]
  /\ runs \in [Keys -> Nat]
  /\ wedged \subseteq Keys
  /\ panics \in Nat

ToStart(k) == tasks[k]["spawned"] + tasks[k]["waiting"] + tasks[k]["granted"]
Executing(k) == tasks[k]["running"] + tasks[k]["settling"]

\* A key has exactly one run task while its entry says Running and none
\* otherwise, whatever order timers, triggers and settling runs come in; so
\* equal keys never run concurrently.  A panic leaves Running with no task.
OneTask ==
  \A k \in Keys :
    ToStart(k) + Executing(k) =
      IF entry[k].phase = "Running" /\ k \notin wedged THEN 1 ELSE 0

\* An input schedule() has taken and no run has begun with is owed a run: by a
\* sleeping timer, by a task yet to read next_input, or by the rerun flag.
NoLostTrigger ==
  \A k \in Keys \ wedged :
    begun[k] < delivered[k] =>
      \/ entry[k].phase = "Pending" /\ timers[k] > 0
      \/ ToStart(k) > 0
      \/ entry[k].rerun

\* A prompt trigger never waits for a debounce window, not even one opened by
\* the rerun of the run it found under way.
PromptRunsNow ==
  \A k \in Keys \ wedged :
    begun[k] < prompt[k] =>
      /\ entry[k].phase = "Running"
      /\ ToStart(k) > 0 \/ (entry[k].rerun /\ entry[k].immediate)

Active == {k \in Keys : tasks[k]["running"] > 0}

Promise == INSTANCE RoutineSpec
             WITH active <- Active, room <- Concurrency - Cardinality(Active)

\* The runtime keeps the framework's promise: every behaviour of it is one of
\* RoutineSpec.
RefinesPromise == Promise!Spec

\* Every trigger is followed by a run that began with its input or a later one,
\* unless the key's run panicked or the process is told to stop.
EveryTriggerRuns ==
  \A k \in Keys : \A n \in 1 .. MaxTriggers[k] :
    (latest[k] = n) ~> (begun[k] >= n \/ k \in wedged \/ life # "up")

\* Shutdown never hangs: the loops stop and the drain gets every permit, even
\* with runs queued ahead of it and after a panic.
ShutdownCompletes == (life = "stopping") ~> (life = "drained")

\* main.rs: "drain in-flight runs before exiting".  The permits the drain
\* acquires are dropped at once, so a rerun or a timer starts a run after it.
NothingRunningAtExit ==
  life = "exited" => \A k \in Keys : tasks[k]["running"] = 0
=============================================================================
