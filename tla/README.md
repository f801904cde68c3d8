# Verification of agent-afk

TLA+ models, model-checking runs and machine-checked proofs for the parts of
agent-afk whose correctness depends on order, failure and concurrency. Paths
below are relative to the repository root; `agent/...` is `src/agent/...`.

## 1. The system

agent-afk is an agent runtime in TypeScript. A *session* runs turns of a model
with tools; it forks *subagents*, in the foreground or as background jobs, or as
waves of a dependency graph. A *daemon* runs tasks while nobody watches: from
cron, from a durable pull queue and from events. A task that needs a human writes
a durable *handoff*; the Telegram bot, the web server and the REPL answer it. State
that must survive a crash is kept in small files, changed by rename, exclusive
create and unlink; there is no database on these paths, so the order of the file
calls is the protocol.

### 1.1 Components

| component | state it keeps | operations | hard behaviour | correct when |
|---|---|---|---|---|
| task queue and leases (`agent/daemon/queue-store.ts`, `lease-store.ts`, `lease-reclaim.ts`, `task-lifecycle.ts`, `pull-recovery.ts`) | one file per task in `queue/`, `leased/`, `completed/`, `dead-letter/`, scratch files of recovery | enqueue, dequeue, complete, park, recover, reclaim, remove | crash between any two file calls, two daemons, a lease reclaimed while its task runs | no task lost, none run beyond its budget, none stranded |
| single-instance lock (`agent/daemon-instance.lock.ts`) | lock file with a PID | acquire, release | simultaneous starts, stale locks, PID reuse | one daemon at a time, a crash never blocks the next start |
| human handoff (`agent/daemon/handoff-*.ts`, `telegram/handoff-answer.ts`) | record, lock and claim files of a task | ask, answer, expire, sweep, resume | several surfaces and a timeout race, a sweep per timer, crash in a sweep | a question is settled once, an answer is never lost, it resumes the task once |
| scheduler (`agent/daemon/scheduler*.ts`, `idle-detector.ts`, `budget-gate.ts`, `task-retry.ts`) | map of running tasks, dequeue mutex, timers | cron fire, pull tick, retry, stop | overlap of cron, pull and resume runs of one task | one run of a task at a time, no answer dropped by a skip |
| schedule store (`schedule-store.ts`, `scheduler.runat-gate.ts`) | schedule file, one-shot fire records | add, remove, fire once | a crash between firing and recording | a one-shot fires once |
| GitHub poller (`github-event-poller.ts`) | cursor of seen events | poll | duplicate and reordered pages | each event fires once |
| background registry (`agent/background-registry*.ts`) | jobs, joiners, timers | register, adopt, join, cancel, settle, evict | cancel races completion, cap at its limit, drain timeout | a job settles once and everybody who waits is told |
| subagent handle and manager (`agent/subagent.ts`, `agent/subagent/*`) | handle status, continuation registry | fork, run, steer, cancel, teardown, continue | cancel during a run, idle and wall-clock timeouts, retries | one terminal result, hooks fire once |
| abort graph (`agent/abort-graph.ts`) | tree of abort controllers | register, link, abort, rearm, dispose | listeners that dispose nodes during a cascade | an abort reaches every descendant, a child never aborts its parent |
| DAG executor (`agent/dag*.ts`, `concurrency-pool.ts`) | node results, running set, checkpoint | run, fail, skip, resume from checkpoint | failures of one node, gates, abort, bounded pool | a node runs after its dependencies, the run ends |
| session (`agent/session/*`) | phase, turn, pause, queue of messages | send, interrupt, pause, reset, close | close during a turn, pause ceilings | one turn at a time, close ends everything |
| peer messaging (`agent/peer/*`) | inbox files, admission counters | send, claim, ack, sweep | two readers, crash between claim and ack | at-least-once, bounded |
| effect ledger (`agent/effect-ledger/*`) | ledger of side effects | record, replay check | crash between effect and record | an effect is not repeated silently |
| file checkpoint (`agent/file-checkpoint/*`) | content store, turn log | snapshot, rewind | a rewind that fails half-way | files are as at the turn |
| journal (`agent/journal/*`) | append queue, blobs | append, fork, hydrate | a crash between blob and record | a prefix survives |
| LSP pool (`agent/lsp/*`) | clients, mutex, documents | acquire, sync, evict | initialisation races eviction | one client per key |
| worktrees (`agent/worktree*`) | sweep lock, occupancy | create, sweep | sweep races use | a worktree in use is kept |
| hooks, elicitation router, shell jobs, trace, memory, state, workspace stores, MCP, skills, providers | registries and queues | - | - | - |
| Telegram, web server, CLI, browser, service installer, improve, insights, whatif | surfaces and tools | - | - | - |

### 1.2 How they interact

The daemon process takes the lock, then starts the scheduler. The pull tick dequeues
a task (rename into `leased/`), awaits the session's run and archives the lease. A
session that asks a question writes a handoff record and parks the lease, the
question is declined, and the run ends. Surfaces in other processes answer the
record under `<task>.lock`. Timers of the daemon expire records (which also
reclaims a parked lease) and sweep answered records into the queue as resume
tasks. After a crash the service manager starts the daemon again
(`service/`: `Restart=always`); its startup recovery handles stale handoffs first
and leases after.

## 2. Plan

Order: what a crash or a race can lose for good comes first.

1. `TaskLease` and its abstract specification `DurableQueue` - the durable queue, all
   file calls, crashes. *(done, proved: the files implement the queue, no task lost, no
   budget exceeded, and for one daemon one start, and a running session's lease taken by one
   step only, a reclaim of the startup recovery)*
2. `DaemonLock` - the single-instance lock. *(done, proved: one daemon without
   overlapping starts, a start refused only for a rival)*
3. `Handoff` and its abstract specification `HandoffQuestion` - questions, answers,
   expiry, sweeps. *(done, proved: a question's handoff implements the abstract question,
   settled once, no answer lost, resumed once)*
4. `SubagentLifecycle` and its abstract specification `SubagentContract` - a forked subagent
   from fork to release: run, cancel, teardown, job, promotion. *(done, proved: the
   handle and its owners implement the contract, not forgotten, result traced, stop and
   result agree)*
5. `PeerInbox` and its abstract specification `PeerMailbox` - the inbox of a session.
   *(done, proved: the inbox implements the mailbox, a message is seen twice in an uninterrupted
   life only if recovery took its claim back)*
6. `Dag` and its abstract specification `Workflow` - the workflow executor, its pool,
   budget and checkpoint. *(done, proved: the executor implements the workflow, and every
   safety property)*
7. `Scheduler` - cron, pull tick and resume runs of one daemon, retries and `stop`.
   *(done, every safety property proved)*
8. `DurableTask` - would compose the abstract `DurableQueue` and `HandoffQuestion` with the
   scheduler: a question parks its task, and its answer queues the task that resumes it.
9. `AbortGraph` - trees deeper than the manager's root, listeners that dispose
   nodes during a cascade.
10. `LspPool`, `EffectLedger`, `FileCheckpoint`, `SessionTurns` - one module each, in
   this order.

Items 8 to 10 are open. Theorems still worth proving: a refinement of the scheduler's runs by
an abstract task that runs once per registration or entry, and the composition of item 8
from the two refinements that are proved.

## 3. Modules

Each `X.tla` is the component; `MCX.tla` adds only values of constants and bounds for
TLC; `XProofs.tla` holds its theorems. Operators marked `mutant` in a
comment are wrong versions of the definition that follows or precedes them; no
behaviour uses them. They exist to show that each property notices a bug.

### 3.1 TaskLease and DurableQueue

A task is a file. `queue`, `leased`, `scratch`, `completed` and `dead` are the
directories, a set or a function of ids; a rename moves an element and a write
replaces one. `pc` and `job` are where a process is inside a synchronous function and
on which file; between two file calls it may crash, and another process may run,
but none of its own callbacks. `session` is the `runOnce` the pull tick awaits.

| code | actions |
|---|---|
| `enqueue`, `removePending` | `Enqueue`, `RemovePending` |
| `dequeueNext` + `leaseTask` (rename, then write) | `DequeueClaim`, `LeaseWrite`, and their failures `LeaseRenameThrows`, `LeaseWriteThrows` |
| `completeTask` (archive or requeue, then unlink) | `Finish`, `CompleteUnlink`, `FinishThrows` |
| `ask_question`: `writeHandoff`, then `setLeaseState` | `Ask`, `Park`; the answer and the expiry are `Answer`, `GrowsStale`, `ExpireHandoff` |
| `reclaimSingleLease` | `Unpark`, `ReclaimSkip`, `ReclaimClaim`, then the shared recovery calls |
| `recoverExpiredLeases`, first pass | `ScanStart`, `ScanRead`, `ScanClaim`, `RecoverWrite`, `RecoverUnlink`, `RecoverThrows` |
| ... second pass over `.claim-*` | `ClaimsStart`, `ClaimTake`, `ClaimRestore`, `ClaimsDone` |
| clocks, process | `BackoffElapses`, `LeaseExpires`, `ScratchExpires`, `StartDaemon`, `Crash` |

A question expires through two callers: the startup recovery, which lists the stale questions once and
hands `expireHandoff` no `isInFlight` (`agent/daemon/handoff-wiring.ts:261`), and the periodic sweep,
which does (`handoff-maintenance.ts:159`). `recovered` tells them apart, and `SkipsInFlight` is what
`reclaimSingleLease` asks. Left out is a periodic sweep whose timer fires before the startup recovery is
over; it would only add expiries that do check. The startup recovery judges age by one clock
reading, so no question grows stale (`GrowsStale`) while it is under way.

When the rename of a lease fails, `dequeueNext` unlinks the queue file and logs;
the model counts that task as `removed`, so no property promises it anything.
It is listed under the hazards.

`DurableQueue` is what the queue promises whoever adds a task: an accepted task waits
until it is settled or withdrawn, and while the queue is *sound* it runs one
session at a time, within its budget, never after it was settled, and only a session
settles it. `D` in `TaskLease` is the refinement mapping: a task waits while some
directory has a file of it and no archive does, is settled once an archive has it,
withdrawn once it is `removed`, running while a daemon awaits its session. The queue is
sound with one daemon, tasks in flight under their own id, and no crash or failed write so
far; what survives a fault is that nothing accepted disappears.

### 3.2 DaemonLock

`lock` is the file: who created it and the PID in it, 0 until the write. A
process slot goes through the awaited calls of `acquireDaemonLock` in `pc`:
*open* (`O_EXCL`), *read*, *judge* (`kill(pid, 0)`), *clear* (unlink), *reopen*,
*write*, and *undo* after a failed write. `Release` and `Exit` are the two halves
of `stop()`. `foreign` are live processes that are no daemon, for PID reuse. The
flags `overlap` and `recycle` are chosen in `Init` and never change: they say whether, in this
behaviour, two starts may be under way together and whether the kernel reuses a PID
that a lock file still names, so that one model answers the questions with and
without.

### 3.3 Handoff and HandoffQuestion

`file` is `handoffs/<task>.json`, `claim` is `.claiming-<task>.json`, `lock` is
`<task>.lock`. An `Answerer` is a call of `answerHandoff`, an `Expirer` of
`expireHandoff`, a `Router` of `persistRouteAndMessageId`; all three take the lock by the
same steps (`OpenLock`, `StatLock`, `StealLock`, `ReopenLock`), re-read, write
and unlock. A `Sweeper` is a call of `processAnsweredHandoffs`: adopt an
orphaned claim (`StatClaim`, `ReadOrphan`, `DropOrphan`), list, claim by
rename, read again, restore or enqueue, drop. The session's `Ask` overwrites
the record without the lock, as `writeHandoff` does. `wins`, `expiries` and
`resumed` are history.

`HandoffQuestion` is what one question promises: after it was asked it is answered once
or expires once and never both, and only an accepted answer resumes the task. Delivery is
*exact*, one resume per answer, where nobody dies and one sweep runs at a time. `Q` in
`Handoff` maps it to the history of the first question.

### 3.4 SubagentLifecycle and SubagentContract

`handle[a]` is a `SubagentHandleImpl` with its controller: where its `run()` is,
its status, the status of its latest turn, why it was aborted, which session
it uses, what the parent's stream and the trace were told, how many
`SubagentStop` hooks were dispatched, and, for each of four callers that may end it at the same
time, which await of `teardown()` or `cancel()` that caller is in. `active` is
`SubagentManager.active`, `root` its root controller, `shutdown` the manager's
`abortAllAndDrain`; `mode`, `job`, `result`, `released` and `sweep` are the
registry's and the foreground call's side.

| code | actions |
|---|---|
| `forkSubagent`, `register`, its refusal | `Fork`, `Register`, `RefuseJob` |
| foreground call, `runForegroundWithPromotion`, `adoptRunning` | `StartForeground`, `Promote`, `Adopt`, `RefusePromotion`, `ForegroundEnds` |
| `run()`: stream, drain turns, fallback, trace row | `StreamReturns`, `StreamThrows`, `DrainReturns`, `ModelRejected`, `FallbackStarts`, `RowWritten` |
| `withTimeout`, idle watchdog | `TimesOut`, `IdleFires` |
| `cancel()`, `teardown()`, hook | `CancelByUser`, then `Interrupted`, `Closed`, `HookReturns` of a caller |
| `cancelAll` | `SweepBegins`, `SweepDrains`, `SweepSettles`, `SweepTimesOut` |
| `abortAllAndDrain`, `teardownAll`, the parent's abort | `DrainBegins`, `DrainEnds`, `TeardownAll`, `ParentAborts` |

One action is what runs between two awaits that can really suspend. Whether
the registry has room depends on other agents, so it is a nondeterministic
choice.

`SubagentContract` is what forking one subagent promises those who watch it: one outcome,
with its row in the trace and the job settled by it; one stop, which tells that outcome when
nobody but the owner has ended the agent; not forgotten before the one or the other;
worktree and slot freed once, after the stop and with no job running. `C(a)` in `SubagentLifecycle` maps
it to agent `a`, and `KeepsContract` says that every step moves each agent as its contract
allows: the registry and the manager end many agents in one step, so the contracts are
stated side by side and not interleaved.

### 3.5 PeerInbox and PeerMailbox

The files of one session's inbox are sets of messages: `pending`, `delivered`,
`torn` (a receipt the copy fallback has half written), `held` and `acked`. A message can
have two names at once, which is the protocol: a claim is `link` to `delivered/` and then
`unlink` from `pending/`. `pass[r]` is a scan or an `/inbox accept` under way with
its stage and the names it listed; `rec` is the recovery pass, `pruning` a retention
sweep; `buffer`, `acking` and `reclaiming` are what the notifier keeps in memory or
has fired without awaiting. `links` says whether the file system has hard links. `overlap`
says what this behaviour is about: in `all` passes overlap as the code lets them, the
recovery that `startWatching` fires without awaiting beside the scan of the same tick
included; `life` is the same in a process that nobody crashes or swaps; in `none` passes are
kept apart, which the code does not do, and which shows what depends on it. Both are chosen in
`Init`. `undone` is history: the claims that a recovery has taken back in such a life.

| code | actions |
|---|---|
| a peer's write, time, `/inbox drop` | `Send`, `GrowOld`, `DropHeld` |
| `startWatching`, its ticks | `StartWatching`, `StartScan` |
| scan: list, residue, peek, hold | `Take`, `ClearResidue`, `ClearTorn`, `Peek`, `Hold`, `EndScan` |
| `claimPending`: link, copy fallback, unlink, read | `Link`, `Copied`, `UnlinkPending`, `ReadReceipt` |
| `/inbox accept` | `StartAccept`, `Release`, `EndAccept` |
| injection into a turn, ack | `Consume`, `AckWritten` |
| `recoverUnackedDelivered` | `RecoverList`, `RecoverAcks`, `RecoverRead`, `RecoverStat`, `RecoverDrop`, `RecoverMove`, `RecoverEnd` |
| retention sweep | `PruneStart`, `PruneOne` |
| `/resume`, process | `Swap`, `Reclaim`, `Crash` |

`PeerMailbox` is what messaging promises a sender: a queued message waits until it is seen,
refused or a day old. `Box` in `PeerInbox` is the refinement mapping: a message waits
while some file of it can still be delivered and nobody has seen, refused or
outlived it. A mailbox that is not `sound` promises nothing; the inbox is
sound while its passes do not overlap.

### 3.6 Dag and Workflow

`phase` is where `runDAG` is, `layer` the nodes of the current layer, `at[n]` where a
node of it is in `dispatchDagNode`, `live` and `total` the counters of the
delegation budget, `disk` the checkpoint. The in-degree of a node is kept as the set
of upstream nodes it waits for (`owes`).

| code | actions |
|---|---|
| `runDAG`: load, layers, record failures and skips, save, return | `Launch`, `NextLayer`, `EndLayer`, `Save`, `SaveFails`, `Return` |
| `settleWithConcurrencyLimit` | `Claim` |
| a node: receipt, worktree, fork, run, teardown, clean-up, one retry | `Claim`, `SetUp`, `SetUpFails`, `Fork`, `ForkFails`, `Answer`, `Close`, `Tidy`, `Redispatch` |
| node timeout, caller's abort, death | `TimeOut`, `Abort`, `Crash` |

`Workflow` is what the caller is promised about a graph: a node starts once every node upstream
of it is done, its outcome is final, outcomes are kept between nodes only and known
again to the next call for the same graph, and a call that nobody stopped leaves out just what
is below a failure. `W` in `Dag` is the refinement mapping: a node is done once it is
in `outputs` or has settled well in its layer, lost once it is in `failed` or has settled
badly, running while it is anywhere between; what is kept is the checkpoint.

### 3.7 Scheduler

`reg` is the registry with a version number per registration, `run` the runs under way,
`inFlight`, `alerted`, `idle` and `dequeuing` the scheduler's own books,
`queue` the pull queue with `later` for entries whose `eligibleAfter` has not come.

| code | actions |
|---|---|
| cron callback, `fireOnStart` | `Fire`, `StartNext` |
| `executePullTick`, `resumeBlockedByOverlap`, `PullEnd` of its run | `PullTick`, `PullEnd` |
| `runOnce`: overlap guard, gate | `StartOrSkip` in each of the three, `BudgetPass`, `NoSession` |
| agent executor with `withTaskRetry` | `SessionOk`, `SessionFails`, `Backoff`, `Wake` |
| shell and builtin executors | `ShellEnds`, `BuiltinEnds` |
| control surface, `stop()`, queue | `Register`, `Unregister`, `Stop`, `Accept`, `Elapse` |

A run that leaves ends through `End`, the `finally` of the code; the daily budget and
the `cwd` check are nondeterministic choices. The lease of a pulled entry is in `TaskLease`.

## 4. Runs

| run | instance | states | shows |
|---|---|---|---|
| `lease` | 1 daemon, 2 tasks (budgets 1 and 2), 1 crash, 1 failed write | 831,954 | `Durable`, `AttemptsWithinBudget`, `OnlyStartupTakesLease`, `AtMostOnce`, `EventuallyArchived` hold |
| `lease_resume` | 1 daemon, 1 resumed task | violated | `RunHoldsLease` |
| `lock` | 2 slots, 3 PIDs, 2 kills, 1 failed write | 112,844 | `SingleIfSerial`, `RefusedForRival`, `StartsAgain` hold |
| `lock_empty` | 2 slots, no fault | violated | `SingleDaemon` |
| `handoff_race` | 2 surfaces, expiry, route update, sweep, 1 question | 10,082 | `SettledOnce`, `Lifecycle` hold |
| `handoff_crash` | 1 surface, 2 sweeps, 2 crashes | 4,824 | `AnswerKept`, `AnswerResumed` hold |
| `subagent` | 1 agent, every mode and caller | 452,336 | `LeavesWhenOver`, `TraceAgrees`, `StopMatchesResult`, `KeepsContract`, `SweepReturns`, `EverythingEnds` hold |
| `subagent_retry` | the same | violated | `RetryOnlyIfLive` |
| `peer` | 2 messages, buffer of 1, 1 crash, 2 swaps, 1 accept, 1 old message; passes apart, and a life with overlap | 810,990 | `SeenOnce`, `Mailbox`, `Arrives` hold |
| `peer_overlap` | 1 message, passes overlap as the code lets them | violated | `NeverLost` |
| `dag` | chain, fan and join of 3 nodes, 2 slots, 4 spawns, 2 calls, 1 crash | 626,714 | `InputsReady`, `Accounted`, `SlotsExact`, `IsWorkflow`, `NoPromptAfterAbort`, `RunEnds` hold |
| `scheduler` | 3 tasks, 2 entries, 2 runs at a time, 2 fires, 2 registrations | 352,132 | `NoOverlap`, `BooksExact`, `OneShotOnce`, `EntrySettled`, `NoRetryAfterStop`, `QueueDrains` hold |

Each passing run also checks the module's `TypeOK` (once per module).

### 4.1 What the violated runs found

- **`lease_resume`** (`agent/daemon/scheduler.ts:431`). A resumed task is kept in
  flight under its *original* id, but `isInFlight` is asked about the *queue* id. If
  its own question expires while it runs, `reclaimSingleLease` takes the lease of a
  running task and queues it again. `handoff-expiry.ts:81-83` says that the lease
  is left in place. (Startup recovery asks nobody; section 6 has that schedule.)
- **`lock_empty`** (`agent/daemon-instance.lock.ts:211`). Between the exclusive
  create and the write of the PID the file is empty. A second start reads no
  PID, takes the file for stale and removes it; both run.
- **`subagent_retry`** (`agent/subagent/handle.model-fallback.ts:82`). The
  controller is checked before a trace write is awaited and not after it, so a handle
  that was cancelled or timed out meanwhile still runs its retry.
- **`peer_overlap`** (`cli/commands/interactive/peer-inbox-notifier.ts:464`). Recovery
  is fired and the scan of the same tick starts beside it. A message that is in both
  `pending/` and `delivered/` (a claim between its link and its unlink, or one that died
  there) loses both names: recovery drops the receipt because the pending name is there,
  the scan drops the pending name because the receipt is. `docs/peer-messaging.md:231`
  says that a crash between claim and ack will re-deliver.

### 4.2 Bounds

Faults are bounded by `MaxCrashes` and `MaxThrows` in the guards; a crash may fall
between any two file calls, so one already reaches every leftover a single
death can produce, and two reach the leftovers of a recovery that died.

- *lease*: two tasks are enough for order, overtaking and for one task's file
  number colliding with another's; budgets 1 and 2 are no retry and a retry. `MCSpec`
  adds one initial state that a second daemon and a power failure leave behind, a parked
  record in a claim file, because recovery has a branch for it (`ClaimRestore`) that one
  daemon alone does not reach. Two daemons are left to the proofs: `NeverLost`,
  `Durable` and `AttemptsWithinBudget` hold for any number.
- *lock*: two slots make every race of two starts; the third PID lets one be
  reused by a stranger while two daemons live; the second kill hits the start
  that repairs the first.
- *handoff*: everything concerns one task, whose files are shared with no other.
  `handoff_race` has two surfaces so that they race each other as well as the expiry. It
  declares them symmetric: no property there names a surface, and `Lifecycle` is a property
  of steps, so one representative of a state has the steps of all. `handoff_crash` has two sweeps because the daemon does not
  wait for one before its timer starts the next. One question is the scope in
  which the promises hold (section 6 has the smallest instance beyond).
- *subagent*: two agents share only the order in which the manager or the registry
  reaches them, so one agent with all four callers meets every interleaving of
  its own. A caller ends the handle at most once, as the code's guards make it; the manager drains
  once; a model is retried once.
- *peer*: two messages make one wait behind the other in a buffer of one; two swaps
  are away and back, which is what a generation counter is for; one crash reaches each leftover of a
  claim. `overlap` is `none` or `life`; `peer_overlap` has `all`. In `life`, `MaxLife`
  is two messages, or one and an accept: what two claimers and a recovery need to meet.
- *dag*: the three graphs are every way one node can precede, feed or wait for others; limits 0 and
  2 are the pool's floor and real concurrency; four spawns run out in the middle of
  a graph with a retry; two calls and a crash are a resume. Node 1 is isolated, so
  that clean-up of worktrees is there.
- *scheduler*: one task of each executor (an agent task with two tries that also starts with the
  daemon, a shell one-shot that is removed and registered again, a builtin), a resume of
  the agent task's question and a plain command; two runs at a time meet every pairwise overlap.

`CHECK_DEADLOCK FALSE` is set where the system may rest: the queue is empty and
the daemon runs, every subagent is over, no message is left, the last call has returned, or the
bounds on fires are used up. `DaemonLock` and `Handoff` never rest, and
there deadlock is checked.

### 4.3 Fairness

- `TaskLease`: the daemon is started, its event loop runs, the clock moves (weak
  fairness of each). Strong fairness of `DequeueClaim` and `Finish`, because recovery, expiry and
  other files disable them now and then while the tick comes back every few
  seconds; `Finish` itself is justified by the turn limit of a session.
  Nothing is assumed of humans, and `EventuallyArchived` excuses behaviours with a fault.
- `DaemonLock`: `Restart=always` of the installed service, and file calls return.
- `Handoff`: the maintenance tick starts a sweep every 30 s, file calls of a sweep
  return, a record grows old. Nothing is assumed of surfaces.
- `SubagentLifecycle`: trace writes, `interrupt()`, `close()`, hooks and the
  worktree lock return, each bounded by a timer of its own. Nothing is
  assumed of a provider. `EverythingEnds` holds under `Clocks(a)`, which is part of
  the property: the wall clock and the idle watchdog fire (they can be
  configured off), and a drain turn, which no wall clock bounds, ends
  once its controller is aborted.
- `PeerInbox`: the poll ticks, file calls return, and turns consume the buffer. A scan
  in the hold mode is not promised. `Arrives` excuses a session that was swapped out.
- `Dag`: `runDAG` is resumed when what it awaits has settled, and each await of a node comes back
  (a session's run included: it has the node's timer and the provider's own).
  Nothing says that a process that died is started again.
- `Scheduler`: the pull timer ticks, each await of a run comes back, a backoff and an
  `eligibleAfter` end. Nothing is assumed of cron or of the control surface.

## 5. Proofs

All proofs hold for every value of the constants, under the named assumptions of the
modules: ids are positive numbers and `None` is none of them, budgets are
positive, bounds are naturals, the sets of actors are disjoint.

- **`TaskLeaseProofs`.** `TypeInvariant` needs more than types: that ids only
  come from `submitted` (`OnlySubmitted`) and that recovery renames files that
  exist (`ScratchHasRecord`). `NoTaskLost` needs to know, at the moment a process is
  about to unlink a file, why that is safe: `Backed` says that a process between its
  write and its unlink holds a task that is already in an archive or in the queue, and
  `AllKept` is `NeverLost` per task with that written out. `BudgetKept` follows a
  record's attempts through listings, scratch names and jobs (`NamesFit`, `LeasingFits`:
  a name that a process holds is of the task it thinks it is). All three cover
  any number of daemons, crashes and failed writes.
- **`TaskRunProofs`.** What only one daemon keeps (`OneDaemon`, which the instance lock is
  for). `RunKeepsLease` also takes that no task is a resumed one (`OwnKey`; `lease_resume` shows
  the violation with one). It says that one step only takes the lease from under a
  running session, the reclaim of the startup recovery, and rests on `HoldInv`: while the first
  pass of recovery is under way the lease of a session that runs has not expired, the second pass
  looks at no lease, and what it puts back is a parked record. `StartsAtMostOnce` rests on `OnceInv`,
  which says where the one record without an attempt is before the start:
  a queue file, or a lease within its two calls, or, after the fault that
  is allowed, a stray lease or scratch file. `QueueIsDurable` is the refinement of
  `DurableQueue`, for any number of daemons and faults. That no step takes a task back out of what
  it was accepted as rests on `AllKept`, step by step (`WaitingAfter`). While the
  queue is sound no process before this one has left the startup recovery a stale question, so that step
  does not happen (`CalmInv`); and the proof needs where a task's files may be (`InPlace`: in one place, but
  for the two calls of a rename-and-write or a write-and-unlink), that a process
  that is leasing awaits no session (`LeasesFirst`), and that what is archived or
  removed had been accepted (`GoneWereAccepted`).
- **`DaemonLockProofs`.** `OneDaemon`: if starts do not overlap, one daemon runs. The
  invariant says that a running daemon is the one the file names
  (`OwnerOnFile`), and that a start that has read a running daemon's file knows its
  PID and never reaches the unlink (`StarterKnows`). `RefusedOnlyForRival` is about starts
  that do overlap: without a kill or a reused PID, whoever has a PID that was read from
  the file is a daemon that runs or has just stopped (`Unforged`).
- **`HandoffProofs`.** `TypeInvariant` holds always. The others are for one
  question and either no crash or a single caller that takes the lock (`Scope`), where
  the code keeps its promises; section 6 says what happens outside. The
  lock then excludes (`Exclusion`, or trivially `Alone`), a pending record has been settled by nobody
  (`PendingIsOpen`) and what a sweep has claimed is answered (`ClaimIsAnswered`), so a
  sweep never puts a pending record back. `SettledAtMostOnce` is this invariant;
  `AnswerNeverLost` adds that a claim is dropped only after its enqueue
  (`DropsResumed`), `ResumedAtMostOnce` (one sweep, no crash) that an answer
  is in one place at a time (`Moves`). `HandoffIsQuestion` is the refinement of
  `HandoffQuestion`: a step that wins finds a pending record, which nobody has
  settled, and a sweep that enqueues holds an answer (`Won`), for the first time where
  delivery is exact (`Moves`).
- **`SubagentLifecycleProofs`.** One invariant per handle, `Good`: at most one stop,
  nobody waits for a hook that was not dispatched, and whatever status the handle may
  still get has its trace row (`Logged`). A lemma per synchronous step says that
  it keeps a handle good and takes nothing back (`Grows`); the manager's part is
  that an agent outside `active` is over. `TypeInvariant`, `StopDispatchedOnce`,
  `NotForgotten` and `ResultIsTraced` follow. `StopCarriesResult` adds `Matching`: while nobody
  but the owner has ended a handle, what its run may still return is what its
  latest turn came to (`Faithful`). `SubagentKeepsContract` is the refinement of
  `SubagentContract` for every agent. It adds `Jobs`: how a job, its owner's mode and the handle
  fit, so that a job is over only with its run and the owner is back from the teardown only
  once the stop was dispatched. Every action is, for each agent, one of eight kinds of steps that its
  watchers can tell apart (`Effect`: nothing, forked, enlisted, resolved, ended by its owner,
  announced, forgotten, freed); `NextEffects` shows that, and `EffectContract` that each
  kind is a step of the contract or a stutter.
- **`PeerInboxProofs`.** `TypeCorrect` and, while passes do not overlap, `KeptWhileApart`
  and the refinement `InboxIsMailbox`. `Apart` is what non-overlap buys: one reader, and
  a file in one place of its life; `Stages` says what each file call of a pass may
  rely on from the calls before it. For these two `overlap = "none"` is a hypothesis and not a fact about the
  code: `peer_overlap` is the run in which passes overlap. `SeenAtMostOnce` has no such
  hypothesis; it is about an uninterrupted life with at most one accept (`OneLife`), in which no
  buffer is reclaimed (`NoReclaim`): for a message whose claim no recovery has taken back, two claimers never both get
  past the link and nothing makes it claimable again (`ClaimOnce`), the accept takes each name once
  (`AcceptOnce`), and before it only the scan leaves receipts (`ScanFirst`).
- **`DagProofs`.** For every finite set of nodes, acyclic graph, limit and budget.
  `BooksInv` says that the lists of a call, and those of the checkpoint, are ones
  that some run of the graph could have come to (`Sound`), `NodeInv` that the budget counts
  exactly the nodes that hold a receipt; `Finished` says that a call that was not aborted left
  nothing ready. `EveryNodeAccounted` combines it with what acyclic means (`AcyclicAssumption`): if some
  nodes were neither done nor below a failure, one of them would wait for none of the
  others, and that one would be ready. `ExecutorIsWorkflow` is the refinement of `Workflow`: a
  node of the layer that nobody has claimed is ready (`IdleIsReady`, the only place where the
  in-degree books matter), the places of a node in flight are one stretch of
  work that ends once (`Seen`, `NodeWorks`), a layer that ends or is saved has nobody at work
  (`NobodyWorks`), and a call that comes back unstopped is complete (`AllAccounted`).
- **`SchedulerProofs`.** For any tasks, entries and number of runs. The invariant has
  a part per question: `RunOK` (what each run was begun as), `Books` (the in-flight keys, the
  idle count and the pull mutex are those of the runs), `Versions` (no run is of a registration
  from before a `stop`), `OneShots` (a version that has been started is registered
  only while its run lasts) and `Places` (an entry is in one place). The six theorems follow.

Every safety property of a passing run is a theorem. Only model-checked is liveness (`EventuallyArchived`,
`StartsAgain`, `AnswerResumed`, `SweepReturns`, `EverythingEnds`, `Arrives`, `RunEnds`,
`QueueDrains`). Liveness under fairness, `ENABLED`, recursive operators and induction over data are
outside what the prover can do; the modules use no recursion.

## 6. Seen on larger instances or while modelling

Not runs of the project, but worth knowing; the instances are those of section 4
with the constant that is named changed.

- TaskLease, two daemons: one daemon's recovery requeues a lease that expired under the other's
  running session, and the task runs twice; the lock is what prevents it.
- TaskLease, two faults: a lease write that fails and a crash run a task of one
  attempt twice, which is why `AtMostOnce` allows one fault.
- TaskLease, `RunHoldsLease` on the instance of `lease`: violated in 21 states. A task of two attempts asks, fails
  and is queued again; the process dies, the question grows stale, the daemon starts.
  Its startup recovery reads the stale question; while it awaits, the pull tick dequeues the task, whose
  new session asks and parks its lease. `expireHandoff` then finds a parked lease, puts it back to
  `leased`, and `reclaimSingleLease`, with no `isInFlight` to ask
  (`agent/daemon/handoff-wiring.ts:261`, reached from `handoff-maintenance.ts:109`), queues the task again
  while its session runs. `OnlyStartupTakesLease` says that nothing else does that.
- TaskLease: recovery runs once per start, so a lease that has not expired at a
  restart stays until the next one, and a crash between `expireHandoff` and the
  reclaim leaves a parked lease until then. A parked record that a crash left under a scratch
  name is put back only by the second pass. File numbers are counts of the files
  present, so a retried or a new task may overtake an older one.
- DaemonLock: two starts that both judge a stale lock can unlink each other's new
  file; a reused PID keeps a daemon from starting.
- Handoff, two questions: a sweep lists an answered record, the task asks again, and
  the sweep renames the pending record, without the lock. When it puts it back
  (`agent/daemon/handoff-consume.ts:353`) it may overwrite an answer written meanwhile, and
  the question is settled again (`SettledOnce` fails). Asking again also
  erases an answer nobody has swept yet, and a reply to the first message answers the second question.
- Handoff, two surfaces and a crash: a surface that finds a stale lock may
  steal one that was just created, and both settle the question, or one overwrites
  the other's answer (`AnswerKept` fails).
- Handoff, two sweeps and no crash: an orphan check that is slower than 60 s can
  enqueue an answer twice; a rename keeps the modification time, so a claim of an answer that is
  older than that is an orphan at once.
- SubagentLifecycle: a `cancel()` during the terminal row's write adds a second
  terminal row (a comment there says "avoid a double-emit"); `SubagentStop` may
  say `cancelled` for a run whose result is `succeeded`; a handle that is torn down during
  its run is reported to the parent's stream as succeeded
  (`agent/subagent/fork-terminal-hook.ts:67`); a cancelled subagent with buffered text
  resolves as a succeeded partial although a comment says never; drain turns are
  outside `withTimeout`; a fallback session that starts after the handle was closed is never closed.
- A promoted foreground call does not tear down its child manager, and a throw from
  `runForegroundWithPromotion` keeps its delegation slot.
- PeerInbox, `again = {}` where `overlap` is `life`: violated in 24 states. Recovery is fired beside the first
  scan (`cli/commands/interactive/peer-inbox-notifier.ts:416-417`, `:464`); its `readdir` sees a receipt
  that the scan has just claimed and that has no ack yet, and moves it back to `pending/`; the message
  enters a turn from the buffer, and a second one from the next scan. `SeenOnce` allows that and
  nothing else. The docs promise delivery at least once, so this is no disagreement with them.
- PeerInbox, a message that is claimed and not yet injected when the process dies: the header of the notifier
  (`cli/commands/interactive/peer-inbox-notifier.ts:21-23`, "is lost from the conversation ... The file
  stays in `delivered/` for forensics") and `docs/peer-messaging.md:137` ("can still be lost on process exit")
  disagree with `docs/peer-messaging.md:229-231`, `agent/peer/inbox-store.ts:25-32` and the code, whose
  recovery moves the receipt back to `pending/`. `Arrives` follows the code: on the instance of `peer`, with
  passes apart and a crash at that point, the message is delivered after the restart.
- PeerInbox, overlapping passes: a scan's residue unlink, or the copy fallback of a file system without
  links, may race an accept or a swap and lose a message; a `hold` may
  put back into `held/` what an accept is claiming, and a second accept delivers it again.
- PeerInbox: a scan of an earlier generation of the same session may leave a message in
  `delivered/` until the next start; a message older than a day is pruned in the tick that
  claims it.
- Dag: the checkpoint keeps 10 KB of a node's output (`agent/dag-checkpoint.ts:43`, `:171`), so after a
  resume a node below it is given a cut input, and a cut JSON value comes back as a string; the model knows only
  that there is an output. A checkpoint that cannot be read (other than missing or malformed) rejects
  the call before it starts (`:127-131`); the model takes no step for that.
- Dag: a call that was aborted while nothing failed clears the checkpoint of an unfinished graph
  (`agent/dag.ts:375` says "On complete success"); a node over the delegation budget fails, it does not wait.
- Scheduler: builtin runs are returned without being awaited, so the overlap guard ends before they
  do; `stop()` does not end the loop of `fireOnStart`, whose list may name a one-shot
  that cron has meanwhile started and disabled; a run that the budget gate skips still
  disables a `runAt` task and finalises a pulled entry as a success;
  a run's clean-up disables a task that was registered again under the same id.

## 7. Not modelled

`PROJECT.json` gives every component's status and reason. In short:

- *State that steps could disturb, not modelled yet:* sessions and their turns, the file checkpoint, the
  LSP pool, continuations and waves of subagents (section 2, items 8 to 10).
- *Little to interleave:* the effect ledger (synchronous, fsynced appends, the last
  record of an id wins), the journal (one serial queue and one writer per file), shell
  jobs (one owner each), the schedule store (one read-modify-write), hooks.
- *External:* providers, MCP, the browser, git and the worktree manager's calls to it,
  GitHub. Stores on SQLite leave concurrency to the database.
- *No state:* permission classifiers, rendering, parsing, skills, offline analysis.

Within the modelled components, left out are: quarantine of malformed files, `clearPending`,
`renewLease` (no caller), the handoff notifications and the dead-lettering of malformed
records, Windows delete-pending codes, steering and `sendMessage`, retries of a cut
stream, pause ceilings and billing, results that do not match an output
schema (`agent/subagent/result.ts:429-431`; only workflow nodes pass one), the registry's join, peek and eviction, the sender's
rate, hop and duplicate guards and the presence files of peers, prompts and models of a
workflow, telemetry and notifications of the scheduler.
