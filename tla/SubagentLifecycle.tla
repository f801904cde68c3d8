------------------------- MODULE SubagentLifecycle -------------------------
(***************************************************************************)
(* The life of a forked subagent: SubagentHandleImpl (run, cancel,         *)
(* teardown), the SubagentManager that tracks it while it is live, the     *)
(* BackgroundAgentRegistry that runs it as a job, and the foreground call  *)
(* that may be promoted to a job while it runs.                            *)
(*                                                                         *)
(* Everything runs on one event loop, so an action is what happens between *)
(* two awaits that can really suspend: the provider's stream, a trace      *)
(* write, session.interrupt(), session.close(), the SubagentStop hook, the *)
(* worktree lock and cleanup.  Promise continuations that follow each      *)
(* other as microtasks are one action.                                     *)
(*                                                                         *)
(* Up to four calls end the same handle, each from its own caller: "user"  *)
(* (cancelJob, kill, the abort of the tool call), "registry" (cancelAll),  *)
(* "manager" (abortAllAndDrain or teardownAll) and "owner" (the registry's *)
(* markTerminal, the foreground call's finally block, or the background    *)
(* branch when the job is refused).                                        *)
(*                                                                         *)
(* Whether the registry has room for one more job depends on all the       *)
(* others; here it may always say yes or no.                               *)
(***************************************************************************)
EXTENDS Naturals, Sequences

CONSTANT Agent   \* forked subagents

VARIABLES handle,       \* the SubagentHandleImpl and its AbortController
          active,       \* SubagentManager.active, also the live graph nodes
          root,         \* who aborted the manager's rootController, if anyone
          shutdown,     \* how far the manager's own shutdown has come
          mode,         \* who owns the agent's result
          job,          \* status of its registry entry
          result,       \* status of the SubagentResult, once there is one
          released,     \* times its worktree and budget slot were released
          sweep,        \* how far registry.cancelAll has come
          swept         \* the jobs cancelAll waits for

vars == <<handle, active, root, shutdown, mode, job, result,
          released, sweep, swept>>

Caller   == {"user", "registry", "manager", "owner"}
Terminal == {"succeeded", "failed", "cancelled"}
Stage    == {"none", "interrupt", "close", "hook", "returned"}
Modes    == {"unborn", "forked", "background", "rejected",
             "foreground", "promoting", "promoted", "refused"}
Runs     == {"none", "streaming", "draining", "succeeding", "cancelling",
             "failing", "done"}

\* abort "own": this run's timeout or idle watchdog; "cascade": an ancestor;
\* "inherited": an ancestor's timeout; "cancel": cancel() on this handle.
Handle ==
  [run: Runs, status: {"idle", "running"} \cup Terminal,
   latest: {"none"} \cup Terminal,
   abort: {"none", "own", "cascade", "inherited", "cancel"},
   session: 1..2, retry: {"unused", "pending", "used"},
   seen: BOOLEAN, told: SUBSET Terminal, rows: SUBSET Terminal,
   stops: Seq(Terminal),
   stage: [Caller -> Stage], reported: [Caller -> Terminal]]

NewHandle ==
  [run |-> "none", status |-> "idle", latest |-> "none", abort |-> "none",
   session |-> 1, retry |-> "unused",
   seen |-> FALSE, told |-> {}, rows |-> {}, stops |-> <<>>,
   stage |-> [c \in Caller |-> "none"],
   reported |-> [c \in Caller |-> "cancelled"]]

Init ==
  /\ handle = [a \in Agent |-> NewHandle]
  /\ active = {}
  /\ root = "live"
  /\ shutdown = "idle"
  /\ mode = [a \in Agent |-> "unborn"]
  /\ job = [a \in Agent |-> "none"]
  /\ result = [a \in Agent |-> "none"]
  /\ released = [a \in Agent |-> 0]
  /\ sweep = "idle"
  /\ swept = {}

-----------------------------------------------------------------------------
(* What one synchronous step does to a handle *)

InFlight(h) == h.run \notin {"none", "done"}

\* Mutant: the stop hook always hears of a cancellation.
AlwaysCancelled(h) == "cancelled"

\* latestTerminalStatus ?? 'cancelled'
LatestOr(h) == IF h.latest = "none" THEN "cancelled" ELSE h.latest

\* interrupt() is awaited only while a run is in flight, then close() is.
StartClose(h, c) ==
  [h EXCEPT !.stage[c] = IF InFlight(h) THEN "interrupt" ELSE "close"]

\* cancel() up to its first await. An abort reaches the controller only while
\* its node is in the graph.
CancelStart(h, c, inGraph) ==
  IF h.status = "cancelled" \/ h.stops # <<>>
  THEN [h EXCEPT !.stage[c] = "returned"]
  ELSE StartClose([h EXCEPT
         !.reported[c] = LatestOr(h),
         !.status = "cancelled",
         !.rows = @ \cup {"cancelled"},
         !.abort = IF inGraph /\ @ = "none" THEN "cancel" ELSE @], c)

\* teardown() up to its first await
TeardownStart(h, c) ==
  IF h.stops # <<>>
  THEN [h EXCEPT !.stage[c] = "returned"]
  ELSE StartClose([h EXCEPT !.reported[c] = LatestOr(h)], c)

\* A status that is not terminal is told to the parent as 'succeeded'.
ToldStatus(h) == IF h.status \in Terminal THEN h.status ELSE "succeeded"

\* _onTerminal: once for each trace object
OnTerminal(h) ==
  IF h.seen THEN h
  ELSE [h EXCEPT !.seen = TRUE, !.told = @ \cup {ToldStatus(h)}]

\* streamToFinalMessage replaces the trace object.
NewTrace(h) == [h EXCEPT !.seen = FALSE]

\* run() up to its first await; a cancelled handle throws before it starts.
StartRun(h) ==
  IF h.status = "cancelled" THEN [h EXCEPT !.run = "done"]
  ELSE NewTrace([h EXCEPT !.run = "streaming", !.status = "running"])

\* The catch block of run(): who aborted decides the row and the status. A
\* disposed node no longer knows that its abort came from an ancestor.
OwnTimeout(h, inGraph) ==
  h.abort = "own" \/ (h.abort = "inherited" /\ ~inGraph)

\* Mutant: an aborted controller is taken for a cancel() that wrote its row.
CatchAborted(h, inGraph) ==
  IF h.status = "cancelled" \/ (h.abort # "none" /\ ~OwnTimeout(h, inGraph))
  THEN OnTerminal([h EXCEPT !.run = "done", !.status = "cancelled"])
  ELSE [h EXCEPT !.run = "failing", !.rows = @ \cup {"failed"}]

Catch(h, inGraph) ==
  CASE h.status = "cancelled" -> OnTerminal([h EXCEPT !.run = "done"])
    [] h.status # "cancelled" /\ h.abort # "none" /\ ~OwnTimeout(h, inGraph) ->
         [h EXCEPT !.run = "cancelling", !.rows = @ \cup {"cancelled"}]
    [] OTHER ->
         [h EXCEPT !.run = "failing", !.rows = @ \cup {"failed"}]

\* The awaited trace write has returned.
Written(h) ==
  LET status == CASE h.run = "cancelling" -> "cancelled"
                  [] h.run = "failing"    -> "failed"
                  [] OTHER                -> h.status
  IN  OnTerminal([h EXCEPT !.run = "done", !.status = status,
                           !.latest = IF h.run = "succeeding" THEN @ ELSE status])

-----------------------------------------------------------------------------
(* Fragments shared by the actions *)

Running == {a \in Agent : job[a] = "running"}

\* Mutant: the subagent's status is stored as the job's.
SameStatus(s) == s

JobStatus(s) == IF s = "succeeded" THEN "completed"
                ELSE IF s = "cancelled" THEN "cancelled" ELSE "failed"

\* runToResult resolves. A job is marked terminal and its handle torn down in
\* the same turn of the event loop; a foreground call gets to its finally
\* block later.
RunOver(a, h) ==
  /\ result' = [result EXCEPT ![a] = h.status]
  /\ IF job[a] = "running"
     THEN /\ job' = [job EXCEPT ![a] = JobStatus(h.status)]
          /\ handle' = [handle EXCEPT ![a] = TeardownStart(h, "owner")]
     ELSE /\ handle' = [handle EXCEPT ![a] = h]
          /\ UNCHANGED job

\* Mutant: the terminal hook runs before the terminal row is written.
RunStepEarly(a, h) ==
  IF h.run = "done"
  THEN /\ RunOver(a, h)
       /\ active' = active \ {a}
  ELSE /\ handle' = [handle EXCEPT ![a] = h]
       /\ active' = IF h.run \in {"succeeding", "failing"} THEN active \ {a} ELSE active
       /\ UNCHANGED <<job, result>>

\* The run goes on to h, or is over if h has nothing left to await.
RunStep(a, h) ==
  IF h.run = "done"
  THEN /\ RunOver(a, h)
       /\ active' = IF h.seen THEN active \ {a} ELSE active
  ELSE /\ handle' = [handle EXCEPT ![a] = h]
       /\ UNCHANGED <<active, job, result>>

managing == <<root, shutdown>>
sweeping == <<sweep, swept>>

-----------------------------------------------------------------------------
(* Dispatch *)

\* forkSubagent; the child of an aborted root starts aborted.
Fork(a) ==
  /\ mode[a] = "unborn"
  /\ mode' = [mode EXCEPT ![a] = "forked"]
  /\ active' = active \cup {a}
  /\ handle' = [handle EXCEPT ![a].abort = IF root = "live" THEN @ ELSE "cascade"]
  /\ UNCHANGED <<managing, job, result, released, sweeping>>

\* runBackgroundBranch when the registry has room: the run of a handle cancelled before it
\* started is over at once, as a cancelled job.
Register(a) ==
  LET h == StartRun(handle[a])
  IN  /\ mode[a] = "forked"
      /\ mode' = [mode EXCEPT ![a] = "background"]
      /\ IF h.run = "done"
         THEN /\ result' = [result EXCEPT ![a] = h.status]
              /\ job' = [job EXCEPT ![a] = JobStatus(h.status)]
              /\ handle' = [handle EXCEPT ![a] = TeardownStart(h, "owner")]
         ELSE /\ job' = [job EXCEPT ![a] = "running"]
              /\ handle' = [handle EXCEPT ![a] = h]
              /\ UNCHANGED result
      /\ UNCHANGED <<active, managing, released, sweeping>>

\* BackgroundJobCapError: the branch tears the handle down and answers.
RefuseJob(a) ==
  /\ mode[a] = "forked"
  /\ mode' = [mode EXCEPT ![a] = "rejected"]
  /\ handle' = [handle EXCEPT ![a] = TeardownStart(@, "owner")]
  /\ UNCHANGED <<active, managing, job, result, released, sweeping>>

\* runForegroundWithPromotion starts the run and waits for it.
StartForeground(a) ==
  LET h == StartRun(handle[a])
  IN  /\ mode[a] = "forked"
      /\ mode' = [mode EXCEPT ![a] = "foreground"]
      /\ RunStep(a, h)
      /\ UNCHANGED <<managing, released, sweeping>>

\* Ctrl+B wins the race against the result; the worktree lock is awaited.
Promote(a) ==
  /\ mode[a] = "foreground"
  /\ result[a] = "none"
  /\ mode' = [mode EXCEPT ![a] = "promoting"]
  /\ UNCHANGED <<handle, active, managing, job, result, released, sweeping>>

\* adoptRunning; a result that came during the lock settles the job at once.
Adopt(a) ==
  /\ mode[a] = "promoting"
  /\ mode' = [mode EXCEPT ![a] = "promoted"]
  /\ IF result[a] = "none"
     THEN /\ job' = [job EXCEPT ![a] = "running"]
          /\ UNCHANGED handle
     ELSE /\ job' = [job EXCEPT ![a] = JobStatus(result[a])]
          /\ handle' = [handle EXCEPT ![a] = TeardownStart(@, "owner")]
  /\ UNCHANGED <<active, managing, result, released, sweeping>>

\* The cap refuses the promotion: the call stays in the foreground.
RefusePromotion(a) ==
  /\ mode[a] = "promoting"
  /\ mode' = [mode EXCEPT ![a] = "refused"]
  /\ UNCHANGED <<handle, active, managing, job, result, released, sweeping>>

-----------------------------------------------------------------------------
(* The run *)

\* A message arrived, or the stream ended after some text: run() takes it for
\* success whatever happened to the handle meanwhile. Messages the user has
\* queued are then answered by further turns.
StreamReturns(a) ==
  /\ handle[a].run = "streaming"
  /\ handle[a].retry # "pending"
  /\ \E queued \in BOOLEAN :
       LET h == [handle[a] EXCEPT !.status = "succeeded", !.latest = "succeeded"]
       IN  RunStep(a, IF queued /\ h.abort = "none"
                      THEN NewTrace([h EXCEPT !.run = "draining"])
                      ELSE [h EXCEPT !.run = "succeeding",
                                     !.rows = @ \cup {"succeeded"}])
  /\ UNCHANGED <<managing, mode, released, sweeping>>

\* The drain turn has returned or thrown: another one, or the terminal row.
DrainReturns(a) ==
  /\ handle[a].run = "draining"
  /\ \E queued \in BOOLEAN :
       RunStep(a, IF queued /\ handle[a].abort = "none"
                  THEN NewTrace(handle[a])
                  ELSE [handle[a] EXCEPT !.run = "succeeding",
                                         !.rows = @ \cup {"succeeded"}])
  /\ UNCHANGED <<managing, mode, released, sweeping>>

\* The stream ends with an error or with nothing at all.
StreamThrows(a) ==
  /\ handle[a].run = "streaming"
  /\ handle[a].retry # "pending"
  /\ RunStep(a, Catch(handle[a], a \in active))
  /\ UNCHANGED <<managing, mode, released, sweeping>>

\* The provider rejects the model before any progress: the retry is decided
\* here, and a trace write is awaited before it starts.
ModelRejected(a) ==
  /\ handle[a].run = "streaming"
  /\ handle[a].retry = "unused"
  /\ handle[a].abort = "none"
  /\ handle' = [handle EXCEPT ![a].retry = "pending"]
  /\ UNCHANGED <<active, managing, mode, job, result, released, sweeping>>

\* The retry's session replaces the rejected one, which is closed. This goes
\* on even if the run has been given up meanwhile.
FallbackStarts(a) ==
  /\ handle[a].retry = "pending"
  /\ handle' = [handle EXCEPT ![a] = NewTrace([@ EXCEPT
                  !.retry = "used", !.session = 2])]
  /\ UNCHANGED <<active, managing, mode, job, result, released, sweeping>>

\* withTimeout aborts the controller and rejects without waiting for the stream.
TimesOut(a) ==
  LET h == [handle[a] EXCEPT !.abort = IF @ = "none" THEN "own" ELSE @]
  IN  /\ handle[a].run = "streaming"
      /\ RunStep(a, Catch(h, a \in active))
      /\ UNCHANGED <<managing, mode, released, sweeping>>

\* The idle watchdog only aborts; the stream has to notice.
IdleFires(a) ==
  /\ handle[a].run \in {"streaming", "draining"}
  /\ handle[a].abort = "none"
  /\ handle' = [handle EXCEPT ![a].abort = "own"]
  /\ UNCHANGED <<active, managing, mode, job, result, released, sweeping>>

\* The awaited terminal row is written.
RowWritten(a) ==
  /\ handle[a].run \in {"succeeding", "cancelling", "failing"}
  /\ RunStep(a, Written(handle[a]))
  /\ UNCHANGED <<managing, mode, released, sweeping>>

-----------------------------------------------------------------------------
(* Ending a handle: the awaits of cancel() and teardown() *)

Interrupted(a, c) ==
  /\ handle[a].stage[c] = "interrupt"
  /\ handle' = [handle EXCEPT ![a].stage[c] = "close"]
  /\ UNCHANGED <<active, managing, mode, job, result, released, sweeping>>

\* Mutant: the handle is marked as stopped once the hook has answered.
ClosedUnmarked(a, c) ==
  LET h == handle[a]
  IN  /\ h.stage[c] = "close"
      /\ handle' = [handle EXCEPT ![a] =
              [h EXCEPT !.stops = Append(@, h.reported[c]), !.stage[c] = "hook"]]
      /\ UNCHANGED <<active, managing, mode, job, result, released, sweeping>>

\* dispatchStopAndRelease: whoever comes first dispatches SubagentStop.
Closed(a, c) ==
  LET h == handle[a]
  IN  /\ h.stage[c] = "close"
      /\ IF h.stops = <<>>
         THEN /\ handle' = [handle EXCEPT ![a] =
                   [h EXCEPT !.stops = Append(@, h.reported[c]), !.stage[c] = "hook"]]
              /\ UNCHANGED active
         ELSE /\ handle' = [handle EXCEPT ![a] =
                   OnTerminal([h EXCEPT !.stage[c] = "returned"])]
              /\ active' = active \ {a}
      /\ UNCHANGED <<managing, mode, job, result, released, sweeping>>

\* Mutant: the handle is released only by its run, so a refused one stays.
HookForgets(a, c) ==
  /\ handle[a].stage[c] = "hook"
  /\ handle' = [handle EXCEPT ![a].stage[c] = "returned"]
  /\ UNCHANGED <<active, managing, mode, job, result, released, sweeping>>

\* The hook has answered or hit its time limit.
HookReturns(a, c) ==
  /\ handle[a].stage[c] = "hook"
  /\ handle' = [handle EXCEPT ![a] = OnTerminal([@ EXCEPT !.stage[c] = "returned"])]
  /\ active' = active \ {a}
  /\ UNCHANGED <<managing, mode, job, result, released, sweeping>>

\* cancelJob, kill, or the abort of the foreground tool call
CancelByUser(a) ==
  /\ handle[a].stage["user"] = "none"
  /\ \/ a \in active
     \/ job[a] = "running"
     \/ mode[a] \in {"foreground", "promoting", "refused"} /\ result[a] = "none"
  /\ handle' = [handle EXCEPT ![a] = CancelStart(@, "user", a \in active)]
  /\ UNCHANGED <<active, managing, mode, job, result, released, sweeping>>

\* The finally block of a foreground call that was not promoted.
ForegroundEnds(a) ==
  /\ mode[a] \in {"foreground", "refused"}
  /\ result[a] # "none"
  /\ handle[a].stage["owner"] = "none"
  /\ handle' = [handle EXCEPT ![a] = TeardownStart(@, "owner")]
  /\ UNCHANGED <<active, managing, mode, job, result, released, sweeping>>

\* After the owner's teardown: the worktree, then the delegation slot.
Release(a) ==
  /\ handle[a].stage["owner"] = "returned"
  /\ released[a] = 0
  /\ released' = [released EXCEPT ![a] = @ + 1]
  /\ UNCHANGED <<handle, active, managing, mode, job, result, sweeping>>

-----------------------------------------------------------------------------
(* The registry and the manager end everything they know *)

\* cancelAll: every cancel() is issued and awaited, then each job has a
\* bounded time to settle.
SweepBegins ==
  /\ sweep = "idle"
  /\ Running # {}
  /\ sweep' = "cancelling"
  /\ swept' = Running
  /\ handle' = [a \in Agent |-> IF a \in Running
                 THEN CancelStart(handle[a], "registry", a \in active) ELSE handle[a]]
  /\ UNCHANGED <<active, managing, mode, job, result, released>>

SweepDrains ==
  /\ sweep = "cancelling"
  /\ \A a \in swept : handle[a].stage["registry"] = "returned"
  /\ sweep' = "draining"
  /\ UNCHANGED <<handle, active, managing, mode, job, result, released, swept>>

SweepSettles ==
  /\ sweep = "draining"
  /\ swept \cap Running = {}
  /\ sweep' = "done"
  /\ UNCHANGED <<handle, active, managing, mode, job, result, released, swept>>

\* Mutant: the wait for the jobs is not bounded.
SweepWaits ==
  /\ sweep = "draining"
  /\ swept \cap Running = {}
  /\ sweep' = "done"
  /\ UNCHANGED <<handle, active, managing, mode, job, result, released, swept>>

SweepTimesOut ==
  /\ sweep = "draining"
  /\ sweep' = "done"
  /\ UNCHANGED <<handle, active, managing, mode, job, result, released, swept>>

\* A parent's signal aborts the root controller; the linked children follow.
ParentAborts ==
  /\ root # "parent"
  /\ root' = "parent"
  /\ \E why \in {"cascade", "inherited"} :
       handle' = [a \in Agent |-> IF a \in active /\ handle[a].abort = "none"
                   THEN [handle[a] EXCEPT !.abort = why] ELSE handle[a]]
  /\ UNCHANGED <<active, shutdown, mode, job, result, released, sweeping>>

\* AbortGraph.abort marks every descendant as cascading, one that has already
\* aborted itself included; it does nothing once the root is aborted.
Cascade(h) ==
  IF root # "live" THEN h
  ELSE [h EXCEPT !.abort = CASE @ = "none" -> "cascade"
                             [] @ = "own"  -> "inherited"
                             [] OTHER      -> @]

\* abortAllAndDrain: the graph first, then cancel() on every active handle.
DrainBegins ==
  /\ shutdown = "idle"
  /\ active # {}
  /\ shutdown' = "draining"
  /\ root' = IF root = "live" THEN "drain" ELSE root
  /\ handle' = [a \in Agent |-> IF a \in active
                 THEN CancelStart(Cascade(handle[a]), "manager", TRUE)
                 ELSE handle[a]]
  /\ UNCHANGED <<active, mode, job, result, released, sweeping>>

\* A reset rearms the root, unless the parent's signal is aborted for good.
Rearmed == IF root = "parent" THEN "parent" ELSE "live"

\* All cancels are in, the time is up, or there was nothing to drain.
DrainEnds ==
  /\ shutdown = "draining" \/ (shutdown = "idle" /\ active = {})
  /\ shutdown' = "done"
  /\ root' \in {root, Rearmed}
  /\ UNCHANGED <<handle, active, mode, job, result, released, sweeping>>

\* teardownAll: the fleet has finished its work, a handle still running or not.
TeardownAll ==
  /\ shutdown = "idle"
  /\ active # {}
  /\ shutdown' = "done"
  /\ handle' = [a \in Agent |-> IF a \in active
                 THEN TeardownStart(handle[a], "manager") ELSE handle[a]]
  /\ UNCHANGED <<active, root, mode, job, result, released, sweeping>>

-----------------------------------------------------------------------------
(* The specification *)

Ends(a, c) == Interrupted(a, c) \/ Closed(a, c) \/ HookReturns(a, c)

Next ==
  \/ \E a \in Agent : Fork(a)
  \/ \E a \in Agent : Register(a)
  \/ \E a \in Agent : RefuseJob(a)
  \/ \E a \in Agent : StartForeground(a)
  \/ \E a \in Agent : Promote(a)
  \/ \E a \in Agent : Adopt(a)
  \/ \E a \in Agent : RefusePromotion(a)
  \/ \E a \in Agent : StreamReturns(a)
  \/ \E a \in Agent : DrainReturns(a)
  \/ \E a \in Agent : StreamThrows(a)
  \/ \E a \in Agent : ModelRejected(a)
  \/ \E a \in Agent : FallbackStarts(a)
  \/ \E a \in Agent : TimesOut(a)
  \/ \E a \in Agent : IdleFires(a)
  \/ \E a \in Agent : RowWritten(a)
  \/ \E a \in Agent : CancelByUser(a)
  \/ \E a \in Agent : ForegroundEnds(a)
  \/ \E a \in Agent : Release(a)
  \/ \E a \in Agent, c \in Caller : Interrupted(a, c)
  \/ \E a \in Agent, c \in Caller : Closed(a, c)
  \/ \E a \in Agent, c \in Caller : HookReturns(a, c)
  \/ SweepBegins
  \/ SweepDrains
  \/ SweepSettles
  \/ SweepTimesOut
  \/ ParentAborts
  \/ DrainBegins
  \/ DrainEnds
  \/ TeardownAll

Spec == Init /\ [][Next]_vars

\* Trace writes, interrupt(), close() and hooks return (each is bounded by a
\* timer of its own), the worktree lock is granted or refused, and a caller
\* goes on. Nothing is assumed of a provider, not even after an abort.
Fairness ==
  /\ \A a \in Agent :
       /\ WF_vars(RowWritten(a))
       /\ WF_vars(Adopt(a) \/ RefusePromotion(a))
       /\ WF_vars(ForegroundEnds(a))
       /\ WF_vars(Release(a))
  /\ \A a \in Agent, c \in Caller : WF_vars(Ends(a, c))
  /\ WF_vars(SweepDrains)
  /\ WF_vars(SweepTimesOut)

FairSpec == Spec /\ Fairness

-----------------------------------------------------------------------------
(* Properties *)

\* Types. The graph and the manager's map hold only agents that were forked.
TypeOK ==
  /\ handle \in [Agent -> Handle]
  /\ active \subseteq {a \in Agent : mode[a] # "unborn"}
  /\ root \in {"live", "parent", "drain"}
  /\ shutdown \in {"idle", "draining", "done"}
  /\ mode \in [Agent -> Modes]
  /\ job \in [Agent -> {"none", "running", "completed", "failed", "cancelled"}]
  /\ result \in [Agent -> {"none"} \cup Terminal]
  /\ released \in [Agent -> Nat]
  /\ sweep \in {"idle", "cancelling", "draining", "done"}
  /\ swept \subseteq Agent

\* However many callers cancel and tear down a handle at once, its SubagentStop
\* hook is dispatched at most once.
StopOnce == \A a \in Agent : Len(handle[a].stops) <= 1

\* The manager forgets a subagent only when its run is over or its stop has
\* been dispatched: until then killAll and abortAllAndDrain can reach it, and
\* its terminal row is written before the trace may be sealed.
LeavesWhenOver ==
  \A a \in Agent : mode[a] # "unborn" /\ a \notin active =>
    handle[a].run = "done" \/ handle[a].stops # <<>>

\* The trace and the result agree: the status a caller is given has its row in
\* the trace, whoever else ended the handle while that row was being written.
TraceAgrees ==
  \A a \in Agent : result[a] # "none" => result[a] \in handle[a].rows

\* When only its owner ends a handle, SubagentStop carries the run's result.
StopMatchesResult ==
  \A a \in Agent :
    (\A c \in Caller \ {"owner"} : handle[a].stage[c] = "none") =>
      \A s \in 1..Len(handle[a].stops) :
        result[a] # "none" => handle[a].stops[s] = result[a]

\* The handle, its manager and its registry entry, await by await, keep the contract of
\* SubagentContract with everybody who watches the subagent, whoever ends it when: each
\* agent begins as it may, and a step moves each as it may or not at all.
Quiet(h) == \A c \in Caller \ {"owner"} : h.stage[c] = "none"
C(a) == INSTANCE SubagentContract WITH
          forked <- mode[a] # "unborn", tracked <- a \in active,
          rows <- handle[a].rows, outcome <- result[a], job <- job[a],
          stops <- handle[a].stops, alone <- Quiet(handle[a]), freed <- released[a]
KeepsContract ==
  /\ \A a \in Agent : C(a)!Init
  /\ [][\A a \in Agent : [C(a)!Next]_(C(a)!vars)]_vars

\* cancelAll comes back even if no provider ever answers an abort.
SweepReturns == (sweep = "cancelling") ~> (sweep = "done")

\* The wall clock and the idle watchdog of an agent fire in the end (each is
\* set unless configured to 0), and a drain turn, which no wall clock bounds,
\* ends once its controller is aborted.
Clocks(a) ==
  /\ WF_vars(TimesOut(a))
  /\ WF_vars(IdleFires(a))
  /\ WF_vars(handle[a].abort # "none" /\ DrainReturns(a))

\* Where the clocks run, everything dispatched ends: the run is over, SubagentStop was dispatched,
\* the manager has let the handle go, the job is terminal, and its worktree
\* and delegation slot are free.
EverythingEnds ==
  \A a \in Agent : Clocks(a) =>
    (mode[a] \notin {"unborn", "forked"}) ~>
      /\ handle[a].run \in {"none", "done"}
      /\ handle[a].stops # <<>>
      /\ a \notin active
      /\ job[a] # "running"
      /\ released[a] = 1

\* handle.model-fallback.ts: the retry runs only while the controller is not
\* aborted.
RetryOnlyIfLive ==
  [][\A a \in Agent : handle[a].session = 1 /\ handle'[a].session = 2 =>
       handle[a].abort = "none"]_vars

=============================================================================
