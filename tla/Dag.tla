---------------------------------- MODULE Dag ----------------------------------
(* The workflow executor: runDAG of agent/dag.ts runs a graph layer by layer   *)
(* through the pool of concurrency-pool.ts and keeps a checkpoint per layer;   *)
(* a node is a subagent session, forked, retried once and torn down by         *)
(* dag-subagent.dispatch.ts and dag-subagent.recovery.ts under the session's   *)
(* delegation budget.                                                          *)
(*                                                                             *)
(* An action is what one node or the executor does between two awaits.  The    *)
(* in-degree of a node is kept as the set of upstream nodes it still waits     *)
(* for (edges are unique), outputs as the set of nodes that have one.          *)
EXTENDS Naturals, FiniteSets

CONSTANTS Node,         \* the node ids
          Graphs,       \* the edge sets callers submit (validateDAG passed)
          Limits,       \* values of maxConcurrency
          Isolated,     \* the nodes with isolation: worktree
          Slots,        \* the budget's concurrent agents
          Spawns,       \* the budget's agents per session
          MaxLaunches,  \* bound: calls of runDAG
          MaxCrashes,   \* bound: deaths of the process
          None

ASSUME NodeAssumption == IsFiniteSet(Node)
ASSUME GraphAssumption == Graphs \subseteq SUBSET (Node \X Node)
\* validateDAG refuses cycles: every set of nodes has one that waits for none of it.
ASSUME AcyclicAssumption ==
  \A graph \in Graphs : \A S \in SUBSET Node :
    S # {} => \E n \in S : \A u \in S : <<u, n>> \notin graph
ASSUME LimitAssumption == Limits \subseteq Nat
ASSUME BudgetAssumption == Slots \in Nat /\ Spawns \in Nat
ASSUME NoneAssumption == None \notin [edges : SUBSET (Node \X Node), outputs : SUBSET Node,
                                      failed : SUBSET Node, skipped : SUBSET Node]

VARIABLES
  opt,       \* the caller's options: fail fast?, checkpoints?, concurrency
  edges,     \* the graph of the current call
  phase,     \* where runDAG is
  layer,     \* the nodes of the current layer
  at,        \* where each node of the layer is
  tries,     \* the dispatches of each node in this call
  result,    \* what the session of a node came to, before its cleanup
  late,      \* the nodes whose own timer has fired
  aborted,   \* dagController.signal.aborted
  outputs, failed, skipped, owes,   \* the executor's books
  disk,      \* the checkpoint file
  live, total,   \* the delegation budget's counters
  forks,     \* the sessions forked by this process, for SlotsExact
  trees,     \* the worktrees this process has made and not torn down
  launches, crashes

books == <<outputs, failed, skipped, owes>>
budget == <<live, total, forks>>
vars == <<opt, edges, phase, layer, at, tries, result, late, aborted, books,
          disk, budget, trees, launches, crashes>>

Busy == {"setup", "forking", "running", "closing", "tidying", "waiting"}
Settled == {"ok", "err"}
Holding == {"setup", "forking", "running", "closing"}   \* with a spawn receipt
InFlight == {n \in Node : at[n] \in Busy}
Checkpoint == [edges : SUBSET (Node \X Node), outputs : SUBSET Node,
               failed : SUBSET Node, skipped : SUBSET Node]

Upstream(n) == {u \in Node : <<u, n>> \in edges}
Downstream(n) == {d \in Node : <<n, d>> \in edges}
\* The nodes a walk from n reaches.
Below(n) == {d \in Node : \A S \in SUBSET Node :
               Downstream(n) \subseteq S /\ (\A s \in S : Downstream(s) \subseteq S) => d \in S}
Completed == outputs \cup failed
Signalled(n) == aborted \/ n \in late     \* nodeController.signal.aborted

Init ==
  /\ opt \in [failFast : BOOLEAN, durable : BOOLEAN, limit : Limits]
  /\ edges = {} /\ phase = "off" /\ layer = {}
  /\ at = [n \in Node |-> "idle"]
  /\ tries = [n \in Node |-> 0]
  /\ result = [n \in Node |-> "none"]
  /\ late = {} /\ aborted = FALSE
  /\ outputs = {} /\ failed = {} /\ skipped = {}
  /\ owes = [n \in Node |-> {}]
  /\ disk = None
  /\ live = 0 /\ total = 0 /\ forks = 0 /\ trees = {}
  /\ launches = 0 /\ crashes = 0

--------------------------------------------------------------------------------
(* runDAG *)

\* Mutant: failures are not restored.
ForgetsFailures(graph) ==
  IF opt.durable /\ disk # None /\ disk.edges = graph
  THEN [disk EXCEPT !.failed = {}]
  ELSE [edges |-> graph, outputs |-> {}, failed |-> {}, skipped |-> {}]

\* The checkpoint a call starts from: none without a dagId or for another graph.
Loaded(graph) ==
  IF opt.durable /\ disk # None /\ disk.edges = graph
  THEN disk
  ELSE [edges |-> graph, outputs |-> {}, failed |-> {}, skipped |-> {}]

\* What the workers of a layer hold is gone with them.
Forgotten ==
  /\ layer' = {}
  /\ at' = [n \in Node |-> "idle"]
  /\ tries' = [n \in Node |-> 0]
  /\ result' = [n \in Node |-> "none"]
  /\ late' = {}

\* runDAG up to its loop: the books are restored from the checkpoint.  The caller's
\* signal may have fired by then.  A call that cannot read the file rejects and
\* starts nothing, so it is no launch.
Launch ==
  /\ phase \in {"off", "returned"} /\ launches < MaxLaunches
  /\ launches' = launches + 1
  /\ \E graph \in Graphs :
       /\ edges' = graph
       /\ LET prior == Loaded(graph) IN
            /\ outputs' = prior.outputs
            /\ failed' = prior.failed
            /\ skipped' = prior.skipped
            /\ owes' = [n \in Node |-> {u \in Node : <<u, n>> \in graph} \ prior.outputs]
  /\ phase' = "choose" /\ aborted' \in BOOLEAN /\ Forgotten
  /\ UNCHANGED <<opt, disk, budget, trees, crashes>>

\* Mutant: readiness read off the settled nodes.
ReadyByCompletion == {n \in Node : Upstream(n) \subseteq Completed /\ n \notin Completed}

Ready == {n \in Node : owes[n] = {} /\ n \notin Completed /\ n \notin skipped}

\* The head of the loop: the next layer starts.
NextLayer ==
  /\ phase = "choose" /\ ~aborted /\ Ready # {}
  /\ phase' = "layer" /\ layer' = Ready
  /\ UNCHANGED <<opt, edges, at, tries, result, late, aborted, books, disk,
                 budget, trees, launches, crashes>>

\* The end of the loop, and of the call: a run without failures drops its file,
\* unless the unlink fails, which clearCheckpoint ignores.
Return ==
  /\ phase = "choose" /\ (aborted \/ Ready = {})
  /\ phase' = "returned"
  /\ \/ UNCHANGED disk
     \/ opt.durable /\ failed = {} /\ disk' = None
  /\ UNCHANGED <<opt, edges, layer, at, tries, result, late, aborted, books,
                 budget, trees, launches, crashes>>

\* Mutant: only the direct children are skipped.
DirectChildren(losers) == UNION {Downstream(n) : n \in losers}

\* The nodes that markTransitiveSkipped adds for the failures of a layer.
Unreachable(losers) == UNION {Below(n) : n \in losers}

\* All nodes of the layer are settled: their results go into the books.
EndLayer ==
  /\ phase = "layer" /\ \A n \in layer : at[n] \in Settled
  /\ LET won == {n \in layer : at[n] = "ok"}
         lost == layer \ won
     IN /\ outputs' = outputs \cup won
        /\ failed' = failed \cup lost
        /\ skipped' = skipped \cup Unreachable(lost)
        /\ owes' = [n \in Node |-> owes[n] \ won]
        /\ aborted' = (aborted \/ (opt.failFast /\ lost # {}))
        /\ phase' = IF opt.durable /\ ~aborted' THEN "saving" ELSE "choose"
  /\ Forgotten
  /\ UNCHANGED <<opt, edges, disk, budget, trees, launches, crashes>>

\* saveCheckpoint: replaced by rename, or not written at all.
Save ==
  /\ phase = "saving" /\ phase' = "choose"
  /\ disk' = [edges |-> edges, outputs |-> outputs, failed |-> failed, skipped |-> skipped]
  /\ UNCHANGED <<opt, edges, layer, at, tries, result, late, aborted, books,
                 budget, trees, launches, crashes>>

SaveFails ==
  /\ phase = "saving" /\ phase' = "choose"
  /\ UNCHANGED <<opt, edges, layer, at, tries, result, late, aborted, books,
                 disk, budget, trees, launches, crashes>>

\* The caller's signal; no listener is left once the call has returned.
Abort ==
  /\ phase \in {"layer", "saving"} /\ ~aborted
  /\ aborted' = TRUE
  /\ UNCHANGED <<opt, edges, phase, layer, at, tries, result, late, books, disk,
                 budget, trees, launches, crashes>>

\* The process dies; the checkpoint stays.
Crash ==
  /\ crashes < MaxCrashes /\ phase \notin {"off", "returned"}
  /\ crashes' = crashes + 1
  /\ phase' = "off" /\ edges' = {} /\ aborted' = FALSE /\ Forgotten
  /\ outputs' = {} /\ failed' = {} /\ skipped' = {}
  /\ owes' = [n \in Node |-> {}]
  /\ live' = 0 /\ total' = 0 /\ forks' = 0 /\ trees' = {}
  /\ UNCHANGED <<opt, disk, launches>>

--------------------------------------------------------------------------------
(* A node: its place in the pool, its session, its cleanup *)

frame == <<opt, edges, phase, layer, books, disk, launches, crashes>>

\* The node's run() rejects: with fail fast the whole run is aborted at once.
Reject(n) ==
  /\ at' = [at EXCEPT ![n] = "err"]
  /\ aborted' = (aborted \/ opt.failFast)

\* The delegation budget of the session: canSpawn, recordSpawn, rollback.
CanSpawn == live < Slots /\ total < Spawns
RecordSpawn == live' = live + 1 /\ total' = total + 1
Rollback == live' = live - 1 /\ total' = total - 1

\* dispatchDagNode up to its first await: the budget is asked and charged.
Dispatch(n) ==
  /\ IF CanSpawn
     THEN /\ at' = [at EXCEPT ![n] = IF n \in Isolated THEN "setup" ELSE "forking"]
          /\ RecordSpawn /\ UNCHANGED aborted
     ELSE Reject(n) /\ UNCHANGED <<live, total>>
  /\ tries' = [tries EXCEPT ![n] = @ + 1]

\* Mutant: the limit is not floored at 1.
NoFloor == opt.limit

PoolSize == IF opt.limit = 0 THEN 1 ELSE opt.limit

\* A runner of the pool takes a node; one taken after the abort rejects at once.
Claim(n) ==
  /\ phase = "layer" /\ n \in layer /\ at[n] = "idle"
  /\ Cardinality(InFlight) < PoolSize
  /\ IF aborted THEN Reject(n) /\ UNCHANGED <<tries, live, total>> ELSE Dispatch(n)
  /\ UNCHANGED <<frame, result, late, forks, trees>>

\* The worktree is made; without one the receipt is rolled back.
SetUp(n) ==
  /\ at[n] = "setup"
  /\ at' = [at EXCEPT ![n] = "forking"]
  /\ trees' = trees \cup {n}
  /\ UNCHANGED <<frame, aborted, tries, result, late, budget>>

SetUpFails(n) ==
  /\ at[n] = "setup"
  /\ Reject(n) /\ Rollback
  /\ UNCHANGED <<frame, tries, result, late, forks, trees>>

\* Mutant: the signal of the run is asked, not that of the node.
ChecksRunOnly(n) ==
  /\ at[n] = "forking"
  /\ forks' = forks + 1
  /\ at' = [at EXCEPT ![n] = IF aborted THEN "closing" ELSE "running"]
  /\ result' = [result EXCEPT ![n] = IF aborted THEN "err" ELSE "none"]
  /\ UNCHANGED <<frame, aborted, tries, late, live, total, trees>>

\* forkSubagent is back: a node aborted meanwhile is not prompted.
Fork(n) ==
  /\ at[n] = "forking"
  /\ forks' = forks + 1
  /\ at' = [at EXCEPT ![n] = IF Signalled(n) THEN "closing" ELSE "running"]
  /\ result' = [result EXCEPT ![n] = IF Signalled(n) THEN "err" ELSE "none"]
  /\ UNCHANGED <<frame, aborted, tries, late, live, total, trees>>

\* Mutant: release() where rollback() is due.
ReleaseOnForkFailure(n) ==
  /\ at[n] = "forking"
  /\ live' = live - 1 /\ UNCHANGED total
  /\ IF n \in trees
     THEN /\ at' = [at EXCEPT ![n] = "tidying"]
          /\ result' = [result EXCEPT ![n] = "err"]
          /\ UNCHANGED aborted
     ELSE Reject(n) /\ UNCHANGED result
  /\ UNCHANGED <<frame, tries, late, forks, trees>>

ForkFails(n) ==
  /\ at[n] = "forking" /\ Rollback
  /\ IF n \in trees
     THEN /\ at' = [at EXCEPT ![n] = "tidying"]
          /\ result' = [result EXCEPT ![n] = "err"]
          /\ UNCHANGED aborted
     ELSE Reject(n) /\ UNCHANGED result
  /\ UNCHANGED <<frame, tries, late, forks, trees>>

\* runToResult: an output, an error (a question counts as one), or a connection
\* cut before any output or effect.  A cancelled session may still answer.
Answer(n) ==
  /\ at[n] = "running"
  /\ at' = [at EXCEPT ![n] = "closing"]
  /\ \E r \in {"ok", "err", "cut"} : result' = [result EXCEPT ![n] = r]
  /\ UNCHANGED <<frame, aborted, tries, late, budget, trees>>

\* Mutant: every cut is retried.
MoreTries(n) ==
  \/ /\ result[n] = "ok"
     /\ at' = [at EXCEPT ![n] = "ok"] /\ UNCHANGED aborted
  \/ /\ result[n] = "cut" /\ ~Signalled(n)
     /\ at' = [at EXCEPT ![n] = "waiting"] /\ UNCHANGED aborted
  \/ /\ result[n] = "err" \/ (result[n] = "cut" /\ Signalled(n))
     /\ Reject(n)

\* What run() makes of the finished dispatch: the output, one more try, an error.
Conclude(n) ==
  \/ /\ result[n] = "ok"
     /\ at' = [at EXCEPT ![n] = "ok"] /\ UNCHANGED aborted
  \/ /\ result[n] = "cut" /\ tries[n] = 1 /\ ~Signalled(n)
     /\ at' = [at EXCEPT ![n] = "waiting"] /\ UNCHANGED aborted
  \/ /\ result[n] = "err" \/ (result[n] = "cut" /\ (tries[n] # 1 \/ Signalled(n)))
     /\ Reject(n)

\* handle.teardown() is back and the receipt released.
Close(n) ==
  /\ at[n] = "closing"
  /\ live' = live - 1
  /\ IF n \in trees
     THEN at' = [at EXCEPT ![n] = "tidying"] /\ UNCHANGED aborted
     ELSE Conclude(n)
  /\ UNCHANGED <<frame, tries, result, late, total, forks, trees>>

\* The worktree is gone.
Tidy(n) ==
  /\ at[n] = "tidying"
  /\ trees' = trees \ {n}
  /\ Conclude(n)
  /\ UNCHANGED <<frame, tries, result, late, budget>>

\* The delay before the second dispatch is over, or cut short by the abort.
Redispatch(n) ==
  /\ at[n] = "waiting"
  /\ IF Signalled(n) THEN Reject(n) /\ UNCHANGED <<tries, live, total>> ELSE Dispatch(n)
  /\ UNCHANGED <<frame, result, late, forks, trees>>

\* nodeTimeoutMs: only this node is aborted.
TimeOut(n) ==
  /\ at[n] \in Busy /\ ~Signalled(n)
  /\ late' = late \cup {n}
  /\ UNCHANGED <<frame, at, aborted, tries, result, budget, trees>>

NodeStep(n) ==
  \/ Claim(n) \/ SetUp(n) \/ SetUpFails(n) \/ Fork(n) \/ ForkFails(n)
  \/ Answer(n) \/ Close(n) \/ Tidy(n) \/ Redispatch(n)

RunStep == NextLayer \/ Return \/ EndLayer \/ Save \/ SaveFails

Next == Launch \/ RunStep \/ Abort \/ Crash \/ \E n \in Node : NodeStep(n) \/ TimeOut(n)

Spec == Init /\ [][Next]_vars

\* The awaits come back: sessions, forks and teardowns end (a session by its own
\* timeouts), the pool's runners and the executor are resumed by the event loop.
FairSpec == Spec /\ WF_vars(RunStep) /\ \A n \in Node : WF_vars(NodeStep(n))

--------------------------------------------------------------------------------
(* Properties *)

\* Every variable has its type.
TypeOK ==
  /\ opt \in [failFast : BOOLEAN, durable : BOOLEAN, limit : Limits]
  /\ edges \in SUBSET (Node \X Node)
  /\ phase \in {"off", "choose", "layer", "saving", "returned"}
  /\ layer \in SUBSET Node
  /\ at \in [Node -> Busy \cup Settled \cup {"idle"}]
  /\ tries \in [Node -> 0..2]
  /\ result \in [Node -> {"none", "ok", "err", "cut"}]
  /\ late \in SUBSET Node /\ aborted \in BOOLEAN
  /\ outputs \in SUBSET Node /\ failed \in SUBSET Node /\ skipped \in SUBSET Node
  /\ owes \in [Node -> SUBSET Node]
  /\ disk \in Checkpoint \cup {None}
  /\ live \in Nat /\ total \in Nat /\ forks \in Nat
  /\ trees \in SUBSET Node
  /\ launches \in Nat /\ crashes \in Nat

\* A node is run only with the output of every upstream node, also after a
\* restart from a checkpoint with failures (dag.ts, inputs[upId] = outputs[upId]).
InputsReady == \A n \in InFlight : Upstream(n) \subseteq outputs

\* While the file holds a node's outcome for this graph, the node is not run.
DurableNotRerun ==
  opt.durable /\ disk # None /\ disk.edges = edges =>
    InFlight \cap (disk.outputs \cup disk.failed) = {}

\* A call that was not aborted accounts for every node: it has an output, or it
\* failed, or it was skipped, which befalls exactly the nodes below a failure.
Accounted ==
  phase = "returned" /\ ~aborted =>
    /\ Node = outputs \cup failed \cup skipped
    /\ outputs \cap (failed \cup skipped) = {} /\ failed \cap skipped = {}
    /\ skipped = UNION {Below(n) : n \in failed}

\* The budget counts the sessions: one slot for each node between its charge and
\* its release, one spawn for each fork that succeeded or is on its way; a call
\* that has returned holds no slot and no worktree.
SlotsExact ==
  /\ live = Cardinality({n \in Node : at[n] \in Holding})
  /\ total = forks + Cardinality({n \in Node : at[n] \in {"setup", "forking"}})
  /\ phase = "returned" => live = 0 /\ trees = {}

\* No session is prompted once the run is aborted or the node's time is over,
\* whatever was awaited when that happened.
NoPromptAfterAbort ==
  [][\A n \in Node : at[n] # "running" /\ at'[n] = "running" => ~Signalled(n)]_vars

\* The executor, await by await, implements the abstract workflow: what it is asked
\* for, what may run when, what a call that comes back has done, and what a
\* checkpoint gives the next call.  A node has its outcome when its worker settles.
Done == outputs \cup {n \in Node : at[n] = "ok"}
Lost == failed \cup {n \in Node : at[n] = "err"}
Kept == IF opt.durable /\ disk # None
        THEN {[graph |-> disk.edges, done |-> disk.outputs, lost |-> disk.failed]}
        ELSE {}
W == INSTANCE Workflow WITH
       graph <- edges, open <- phase \notin {"off", "returned"}, stopped <- aborted,
       running <- InFlight, done <- Done, lost <- Lost, kept <- Kept
IsWorkflow == W!Spec

\* A call of runDAG returns, unless the process dies.
RunEnds == phase \notin {"off", "returned"} ~> phase \in {"off", "returned"}

================================================================================
