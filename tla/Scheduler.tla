------------------------------- MODULE Scheduler -------------------------------
(* The daemon's scheduler, agent/daemon/scheduler.ts and its scheduler.*.ts:   *)
(* cron fires, session-start fires and pull ticks start runs of tasks in one   *)
(* process; the overlap guard, the idle detector, the runAt gate, the budget   *)
(* gate, the retries of task-retry.ts and stop() share its state.              *)
(*                                                                             *)
(* An action is what the process does between two awaits.  A registration is a *)
(* version number, so that a task replaced under its id is told apart.  The    *)
(* lease of a pulled entry is in TaskLease; here the entry is with its run.    *)
EXTENDS Naturals, Sequences, FiniteSets, SequencesExt

CONSTANTS Sched,      \* ids of scheduled tasks
          Exec,       \* their executors
          OneShot,    \* those with a runAt
          Starters,   \* those with trigger sessionstart or both
          MaxTries,   \* resolved maxAttempts of each
          Entry,      \* the commands that are enqueued
          Original,   \* the task each of them resumes, or the entry itself
          Slot,       \* bound: runs at a time, numbered
          MaxFires,   \* bound: runs started by cron
          Managed,    \* the tasks the control surface removes and registers again
          MaxRegs,    \* bound: registrations of a task
          None

ASSUME SchedAssumption ==
  /\ Exec \in [Sched -> {"agent", "shell", "builtin"}]
  /\ OneShot \subseteq Sched /\ Starters \subseteq Sched /\ Managed \subseteq Sched
  /\ MaxTries \in [Sched -> Nat \ {0}]
ASSUME EntryAssumption ==
  Sched \cap Entry = {} /\ Original \in [Entry -> Sched \cup Entry]
ASSUME BoundAssumption ==
  IsFiniteSet(Slot) /\ Slot \subseteq Nat /\ MaxFires \in Nat /\ MaxRegs \in Nat

VARIABLES
  reg,        \* the registry: the version registered under each id, or 0
  regs,       \* versions given out so far
  run,        \* the run in each slot
  inFlight,   \* inFlightTasks
  alerted,    \* overlapAlerts
  idle,       \* idleDetector: the number of tasks executing
  dequeuing,  \* isDequeuing
  queue,      \* the queue directory, oldest first
  later,      \* its entries whose eligibleAfter has not come
  settled,    \* what the finished entries were archived as
  shots,      \* the versions a one-shot has been started under
  ran,        \* the entries whose session was started
  starting,   \* fireOnStart: the tasks it has still to go through, by version
  stops,      \* calls of stop()
  fires

vars == <<reg, regs, run, inFlight, alerted, idle, dequeuing, queue, later, settled,
          shots, ran, starting, stops, fires>>

Id == Sched \cup Entry
Free == [at |-> "free", id |-> None, key |-> None, trigger |-> "none", ver |-> 0,
         tries |-> 0, born |-> 0, signal |-> 0, status |-> "none"]
Trigger == {"cron", "start", "pull"}
Status == {"none", "success", "error", "budget", "cwd"}
Run == [at : {"gate", "session", "sleep", "shell", "builtin", "done"}, id : Id, key : Id,
        trigger : Trigger, ver : Nat, tries : Nat, born : Nat, signal : Nat, status : Status]

Executing(r) == run[r].at \in {"session", "sleep", "shell"}
Guarded(r) == run[r].at \in {"gate", "session", "sleep", "shell"}
Pulling(r) == run[r].trigger = "pull"
HasFree == \E r \in Slot : run[r].at = "free"
FreeSlot == CHOOSE r \in Slot : run[r].at = "free"
Queued == ToSet(queue)

Init ==
  /\ reg = [t \in Sched |-> 1] /\ regs = [t \in Sched |-> 1]
  /\ run = [r \in Slot |-> Free]
  /\ inFlight = {} /\ alerted = {} /\ idle = 0 /\ dequeuing = FALSE
  /\ queue = <<>> /\ later = {} /\ settled = [e \in Entry |-> "no"]
  /\ shots = [t \in Sched |-> <<>>] /\ ran = {}
  /\ starting = {<<t, 1>> : t \in Starters}
  /\ stops = 0 /\ fires = 0

--------------------------------------------------------------------------------
(* runOnce up to its first await, for a task that passes the overlap guard *)

\* Mutant: a resume is guarded by its own queue id.
OwnId(id) == id
overlapKeyOf(id) == IF id \in Entry THEN Original[id] ELSE id

\* applyAutoDisable: a failing write of schedules.json is logged, no more.
\* Mutant: it is not caught, and the task stays registered.
AutoDisableThrows(id) ==
  \/ reg' = [reg EXCEPT ![id] = 0]
  \/ UNCHANGED reg
AutoDisable(id) == reg' = [reg EXCEPT ![id] = 0]

Shot(id, ver) == shots' = [shots EXCEPT ![id] = IF id \in OneShot THEN Append(@, ver) ELSE @]

\* The run goes into a slot; what it is and which await it stands at.
Enter(id, trigger, ver, at) ==
  run' = [run EXCEPT ![FreeSlot] =
            [at |-> at, id |-> id, key |-> overlapKeyOf(id), trigger |-> trigger, ver |-> ver,
             tries |-> 0, born |-> stops, signal |-> stops, status |-> "none"]]

\* A task of the registry is started by cron or at the session start.  A builtin
\* is returned without an await: the finally block runs at its first await, so
\* it is in flight no longer and a one-shot is already disabled.
Begin(t, trigger, ver) ==
  /\ HasFree
  /\ CASE Exec[t] = "agent" ->
            /\ Enter(t, trigger, ver, "gate")
            /\ inFlight' = inFlight \cup {t}
            /\ UNCHANGED <<reg, alerted, idle, shots>>
       [] Exec[t] = "shell" ->
            /\ Enter(t, trigger, ver, "shell")
            /\ inFlight' = inFlight \cup {t}
            /\ idle' = idle + 1
            /\ Shot(t, ver)
            /\ UNCHANGED <<reg, alerted>>
       [] Exec[t] = "builtin" ->
            /\ Enter(t, trigger, ver, "builtin")
            /\ alerted' = alerted \ {t}
            /\ Shot(t, ver)
            /\ IF t \in OneShot THEN AutoDisable(t) ELSE UNCHANGED reg
            /\ UNCHANGED <<inFlight, idle>>

\* A task whose previous run is in flight: a skipped record and one alert.
Overlap(key) ==
  /\ alerted' = alerted \cup {key}
  /\ UNCHANGED <<reg, run, inFlight, idle, shots>>

\* The run is over before its first await: expired, not due or malformed, or the
\* pinned cwd has vanished.  Expiry disables any task, a lost cwd a one-shot.
NotRun(t) ==
  /\ AutoDisable(t) \/ UNCHANGED reg
  /\ alerted' = alerted \ {t}
  /\ UNCHANGED <<run, inFlight, idle, shots>>

StartOrSkip(t, trigger, ver) ==
  IF t \in inFlight THEN Overlap(t) ELSE Begin(t, trigger, ver) \/ NotRun(t)

--------------------------------------------------------------------------------
(* Triggers *)

\* The cron callback; the poll of a one-shot that is running is no run.
Fire(t) ==
  /\ reg[t] # 0 /\ fires < MaxFires
  /\ fires' = fires + 1
  /\ ~(t \in OneShot /\ t \in inFlight)
  /\ StartOrSkip(t, "cron", reg[t])
  /\ UNCHANGED <<regs, dequeuing, queue, later, settled, ran, starting, stops>>

\* fireOnStart takes the next task of the list it made when it was called: it may
\* skip it (cooldown, telemetry not writable), the others run and are awaited.
StartNext ==
  /\ ~ \E r \in Slot : run[r].trigger = "start" /\ run[r].at # "free"
  /\ \E s \in starting :
       LET t == s[1] IN
         /\ starting' = starting \ {s}
         /\ \/ StartOrSkip(t, "start", s[2])
            \/ UNCHANGED <<reg, run, inFlight, alerted, idle, shots>>
  /\ UNCHANGED <<regs, dequeuing, queue, later, settled, ran, stops, fires>>

\* Where in the queue the first entry is that may run, those in early may not.
Ripe(early) == {i \in DOMAIN queue : /\ queue[i] \notin early
                                     /\ \A j \in 1 .. (i - 1) : queue[j] \in early}

\* resumeBlockedByOverlap looks at it.
Blocked == \E i \in Ripe(later) : /\ Original[queue[i]] # queue[i]
                                  /\ overlapKeyOf(queue[i]) \in inFlight

\* An entry skipped for an overlap goes to the end of the queue (under a new id).
\* Mutant: it is finalised like any other.
DropSkipped(e, rest) == queue' = rest /\ settled' = [settled EXCEPT ![e] = "succeeded"]
PutBack(e, rest) == queue' = Append(rest, e) /\ UNCHANGED settled

\* executePullTick: time passes between the look and the dequeue, so that the
\* entry taken may be another one.
PullTick ==
  /\ stops = 0 /\ idle = 0 /\ ~dequeuing /\ ~Blocked
  /\ \E early \in SUBSET later : \E i \in Ripe(early) :
       LET e == queue[i]
           rest == RemoveAt(queue, i)
       IN /\ later' = later \ {e}
          /\ IF overlapKeyOf(e) \in inFlight
             THEN /\ PutBack(e, rest)
                  /\ alerted' = alerted \cup {overlapKeyOf(e)}
                  /\ UNCHANGED <<run, inFlight, dequeuing>>
             ELSE /\ HasFree
                  /\ queue' = rest /\ UNCHANGED settled
                  /\ dequeuing' = TRUE
                  /\ inFlight' = inFlight \cup {overlapKeyOf(e)}
                  /\ Enter(e, "pull", 0, "gate")
                  /\ UNCHANGED alerted
  /\ UNCHANGED <<reg, regs, idle, shots, ran, starting, stops, fires>>

--------------------------------------------------------------------------------
(* A run *)

world == <<regs, dequeuing, queue, later, settled, starting, stops, fires>>

\* The finally block of runOnce: the key is released, a one-shot is disabled
\* whatever its run came to, and under whichever registration its id now stands.
End(r, status) ==
  /\ inFlight' = inFlight \ {run[r].key}
  /\ alerted' = alerted \ {run[r].key}
  /\ IF run[r].id \in OneShot THEN AutoDisable(run[r].id) ELSE UNCHANGED reg
  /\ run' = [run EXCEPT ![r] = IF Pulling(r) THEN [@ EXCEPT !.at = "done", !.status = status] ELSE Free]

\* The budget gate lets the run pass; only now is the shutdown signal captured.
BudgetPass(r) ==
  /\ run[r].at = "gate"
  /\ run' = [run EXCEPT ![r].at = "session", ![r].tries = 1, ![r].signal = stops]
  /\ idle' = idle + 1
  /\ IF Pulling(r)
     THEN ran' = ran \cup {run[r].id} /\ UNCHANGED shots
     ELSE Shot(run[r].id, run[r].ver) /\ UNCHANGED ran
  /\ UNCHANGED <<world, reg, inFlight, alerted>>

\* Usage over budget, or the pinned cwd of a pulled entry has vanished.
NoSession(r) ==
  /\ run[r].at = "gate"
  /\ \E status \in {"budget"} \cup (IF Pulling(r) THEN {"cwd"} ELSE {}) : End(r, status)
  /\ UNCHANGED <<world, idle, shots, ran>>

\* isCancelled: the registration is gone or another one.
isCancelled(r) == ~Pulling(r) /\ reg[run[r].id] # run[r].ver

\* Mutant: retries listen to the captured signal alone.
AbortedOnly(r) == run[r].signal < stops
stopped(r) == run[r].signal < stops \/ isCancelled(r)

Tries(r) == IF Pulling(r) THEN 1 ELSE MaxTries[run[r].id]

\* idleDetector.decrement, which stops at zero.
Leave == idle' = IF idle > 0 THEN idle - 1 ELSE 0

SessionOk(r) ==
  /\ run[r].at = "session"
  /\ End(r, "success") /\ Leave
  /\ UNCHANGED <<world, shots, ran>>

\* A failed attempt: permanent, the last one, or too late for another.
SessionFails(r) ==
  /\ run[r].at = "session"
  /\ End(r, "error") /\ Leave
  /\ UNCHANGED <<world, shots, ran>>

\* A transient failure with attempts left: the backoff sleep.
Backoff(r) ==
  /\ run[r].at = "session" /\ run[r].tries < Tries(r) /\ ~stopped(r)
  /\ run' = [run EXCEPT ![r].at = "sleep"]
  /\ UNCHANGED <<world, reg, inFlight, alerted, idle, shots, ran>>

Wake(r) ==
  /\ run[r].at = "sleep"
  /\ IF stopped(r)
     THEN End(r, "error") /\ Leave
     ELSE /\ run' = [run EXCEPT ![r].at = "session", ![r].tries = @ + 1]
          /\ UNCHANGED <<reg, inFlight, alerted, idle>>
  /\ UNCHANGED <<world, shots, ran>>

\* Mutant: the decrement is not in a finally block and an error passes it by.
ShellLeaks(r) ==
  /\ run[r].at = "shell"
  /\ End(r, "error") /\ UNCHANGED idle
  /\ UNCHANGED <<world, shots, ran>>
ShellEnds(r) ==
  /\ run[r].at = "shell"
  /\ End(r, "success") /\ Leave
  /\ UNCHANGED <<world, shots, ran>>

BuiltinEnds(r) ==
  /\ run[r].at = "builtin"
  /\ run' = [run EXCEPT ![r] = Free]
  /\ UNCHANGED <<world, reg, inFlight, alerted, idle, shots, ran>>

\* Mutant: the record's status is taken for the outcome.
StatusAsIs(r) == settled' = [settled EXCEPT ![run[r].id] = run[r].status]

\* executePullTick after its await: everything but an error is archived as succeeded.
Finalise(r) ==
  settled' = [settled EXCEPT ![run[r].id] =
                IF run[r].status \in {"error", "cwd"} THEN "failed" ELSE "succeeded"]

\* Mutant: the mutex is released on the way of success only.
KeepsMutex(r) ==
  /\ run[r].at = "done"
  /\ Finalise(r)
  /\ dequeuing' = (run[r].status = "error")
  /\ run' = [run EXCEPT ![r] = Free]
  /\ UNCHANGED <<reg, regs, inFlight, alerted, idle, queue, later, shots, ran, starting,
                 stops, fires>>
PullEnd(r) ==
  /\ run[r].at = "done"
  /\ Finalise(r)
  /\ dequeuing' = FALSE
  /\ run' = [run EXCEPT ![r] = Free]
  /\ UNCHANGED <<reg, regs, inFlight, alerted, idle, queue, later, shots, ran, starting,
                 stops, fires>>

--------------------------------------------------------------------------------
(* The control surface, the queue's producers, the clock, the end *)

calls == <<run, inFlight, alerted, idle, dequeuing, settled, shots, ran, starting, fires>>

Register(t) ==
  /\ t \in Managed /\ reg[t] = 0 /\ regs[t] < MaxRegs
  /\ regs' = [regs EXCEPT ![t] = @ + 1]
  /\ reg' = [reg EXCEPT ![t] = regs[t] + 1]
  /\ UNCHANGED <<calls, queue, later, stops>>

Unregister(t) ==
  /\ t \in Managed /\ reg[t] # 0
  /\ reg' = [reg EXCEPT ![t] = 0]
  /\ UNCHANGED <<calls, regs, queue, later, stops>>

\* enqueue, of a command or of an answered handoff, at once or after a backoff.
Accept(e) ==
  /\ e \notin Queued /\ settled[e] = "no" /\ ~ \E r \in Slot : run[r].id = e
  /\ queue' = Append(queue, e)
  /\ later' \in {later, later \cup {e}}
  /\ UNCHANGED <<calls, reg, regs, stops>>

Elapse(e) ==
  /\ e \in later /\ later' = later \ {e}
  /\ UNCHANGED <<calls, reg, regs, queue, stops>>

\* stop(): the signal is aborted and replaced, and every task unregistered.
Stop ==
  /\ stops = 0 /\ stops' = 1
  /\ reg' = [t \in Sched |-> 0]
  /\ UNCHANGED <<calls, regs, queue, later>>

RunStep(r) ==
  \/ BudgetPass(r) \/ NoSession(r) \/ SessionOk(r) \/ SessionFails(r) \/ Backoff(r)
  \/ Wake(r) \/ ShellEnds(r) \/ BuiltinEnds(r) \/ PullEnd(r)

Next ==
  \/ \E t \in Sched : Fire(t) \/ Register(t) \/ Unregister(t)
  \/ StartNext \/ PullTick \/ Stop
  \/ \E e \in Entry : Accept(e) \/ Elapse(e)
  \/ \E r \in Slot : RunStep(r)

Spec == Init /\ [][Next]_vars

\* Awaits come back, the pull timer ticks, backoffs end.
FairSpec ==
  /\ Spec
  /\ WF_vars(PullTick)
  /\ \A r \in Slot : WF_vars(RunStep(r))
  /\ \A e \in Entry : WF_vars(Elapse(e))

--------------------------------------------------------------------------------
(* Properties *)

\* Every variable has its type.
TypeOK ==
  /\ reg \in [Sched -> Nat] /\ regs \in [Sched -> Nat]
  /\ run \in [Slot -> Run \cup {Free}]
  /\ inFlight \in SUBSET Id /\ alerted \in SUBSET Id
  /\ idle \in Nat /\ dequeuing \in BOOLEAN
  /\ queue \in Seq(Entry) /\ later \in SUBSET Entry
  /\ settled \in [Entry -> {"no", "succeeded", "failed"}]
  /\ shots \in [Sched -> Seq(Nat)] /\ ran \in SUBSET Entry
  /\ starting \in SUBSET (Sched \X Nat)
  /\ stops \in Nat /\ fires \in Nat

\* An agent or shell task is never run twice at a time, be it by cron, at the
\* session start or as the resume of its own answered question.
Work(id) == IF id \in Entry THEN Original[id] ELSE id
NoOverlap ==
  \A r, s \in Slot : Guarded(r) /\ Guarded(s) /\ Work(run[r].id) = Work(run[s].id) => r = s

\* What the guards read is what is going on: the idle count is the number of
\* tasks executing, a key is in flight while its run is and the pull mutex is
\* held by one pulled run, so that no path leaves the daemon busy for ever.
BooksExact ==
  /\ idle = Cardinality({r \in Slot : Executing(r)})
  /\ inFlight = {run[r].key : r \in {s \in Slot : Guarded(s)}}
  /\ alerted \subseteq inFlight
  /\ dequeuing <=> \E r \in Slot : Pulling(r)
  /\ \A r, s \in Slot : Pulling(r) /\ Pulling(s) => r = s

\* A one-shot that cron polls is started once under a registration, whatever
\* becomes of the run and of the write that disables it.  (Those that fireOnStart
\* also starts are left out: its list may be older than the cron run.)
OneShotOnce ==
  \A t \in OneShot \ Starters : \A i, j \in DOMAIN shots[t] : shots[t][i] = shots[t][j] => i = j

\* A finished entry was run, unless the budget gate or its cwd kept it from it,
\* and no entry is in two places.
EntrySettled ==
  [][\A e \in Entry : settled[e] = "no" /\ settled'[e] # "no" =>
       /\ e \notin Queued
       /\ \E r \in Slot : /\ run[r].id = e /\ run[r].at = "done"
                          /\ run[r].status \in {"budget", "cwd"} \/ e \in ran]_vars

\* A run begun before stop() makes no further attempt after it, although the
\* signal it captured may be the fresh one.
NoRetryAfterStop ==
  [][\A r \in Slot : run[r].at = "sleep" /\ run'[r].at = "session" => run[r].born = stops]_vars

\* Once the schedule is quiet, an entry in the queue is taken and finished.
QueueDrains == \A e \in Entry : e \in Queued ~> settled[e] # "no" \/ stops > 0
================================================================================
