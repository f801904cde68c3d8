------------------------------ MODULE DagProofs ------------------------------
(* Proofs about Dag for every finite set of nodes, all acyclic graphs, every  *)
(* concurrency limit and budget, and any number of calls and crashes.         *)
EXTENDS Dag, FiniteSetTheorems, TLAPS

--------------------------------------------------------------------------------
(* The invariant: the executor's books, and the nodes of the current layer *)

\* Upstream and Below for a graph that need not be the current one.
UpstreamIn(graph, n) == {u \in Node : <<u, n>> \in graph}
BelowIn(graph, n) ==
  {d \in Node : \A S \in SUBSET Node :
     /\ {x \in Node : <<n, x>> \in graph} \subseteq S
     /\ \A s \in S : {x \in Node : <<s, x>> \in graph} \subseteq S
     => d \in S}

\* Books that some run of the graph can have come to: what has an outcome had its
\* inputs, and the nodes below the failures are skipped.
Sound(graph, outs, fails, skips) ==
  /\ outs \cap fails = {}
  /\ \A n \in outs \cup fails : UpstreamIn(graph, n) \subseteq outs
  /\ skips = UNION {BelowIn(graph, n) : n \in fails}

BooksType ==
  /\ opt \in [failFast : BOOLEAN, durable : BOOLEAN, limit : Limits]
  /\ edges \in SUBSET (Node \X Node)
  /\ phase \in {"off", "choose", "layer", "saving", "returned"}
  /\ layer \in SUBSET Node
  /\ outputs \in SUBSET Node /\ failed \in SUBSET Node /\ skipped \in SUBSET Node
  /\ owes \in [Node -> SUBSET Node]
  /\ disk \in Checkpoint \cup {None}

\* A call knows what the file holds of its graph.
Remembered ==
  phase # "off" /\ disk # None /\ opt.durable /\ disk.edges = edges =>
    disk.outputs \subseteq outputs /\ disk.failed \subseteq failed

BooksInv ==
  /\ BooksType
  /\ phase # "off" => edges \in Graphs
  /\ phase = "layer" => layer = Ready
  /\ phase # "layer" => layer = {}
  /\ \A n \in Node : owes[n] = Upstream(n) \ outputs
  /\ Sound(edges, outputs, failed, skipped)
  /\ disk # None => Sound(disk.edges, disk.outputs, disk.failed, disk.skipped)
  /\ Remembered

NodeType ==
  /\ at \in [Node -> Busy \cup Settled \cup {"idle"}]
  /\ tries \in [Node -> 0..2]
  /\ result \in [Node -> {"none", "ok", "err", "cut"}]
  /\ late \in SUBSET Node /\ aborted \in BOOLEAN
  /\ forks \in Nat /\ trees \in SUBSET Node
  /\ launches \in Nat /\ crashes \in Nat

In(K) == {n \in Node : at[n] \in K}
Charged == {"setup", "forking"}
InTree == {"forking", "running", "closing", "tidying"}

\* A node is on its way only in its layer, it has a worktree only between set-up
\* and clean-up, and the budget counts exactly the nodes that hold a receipt.
NodeInv ==
  /\ NodeType
  /\ \A n \in Node : at[n] # "idle" => phase = "layer" /\ n \in layer
  /\ \A n \in Node : at[n] = "idle" => tries[n] = 0
  /\ \A n \in Node : at[n] = "waiting" => tries[n] = 1
  /\ trees \subseteq In(InTree)
  /\ live = Cardinality(In(Holding))
  /\ total = forks + Cardinality(In(Charged))

\* A call that is back and was not aborted left nothing to start.
Finished == phase = "returned" /\ ~aborted => Ready = {}

Inv == BooksInv /\ NodeInv /\ Finished

--------------------------------------------------------------------------------
(* Lemmas *)

LEMMA InFinite == \A K : IsFiniteSet(In(K)) /\ Cardinality(In(K)) \in Nat
  <1> TAKE K
  <1>1. In(K) \subseteq Node
    BY DEF In
  <1>2. IsFiniteSet(In(K))
    BY <1>1, NodeAssumption, FS_Subset
  <1> QED  BY <1>2, FS_CardinalityType

\* One node moves: the number of nodes in K changes by at most one.
LEMMA Moved ==
  ASSUME NEW n \in Node, NEW v, at \in [Node -> Busy \cup Settled \cup {"idle"}],
         at' = [at EXCEPT ![n] = v], NEW K
  PROVE  /\ Cardinality(In(K)) \in Nat /\ Cardinality(In(K)') \in Nat
         /\ (at[n] \in K <=> v \in K) => Cardinality(In(K)') = Cardinality(In(K))
         /\ at[n] \notin K /\ v \in K => Cardinality(In(K)') = Cardinality(In(K)) + 1
         /\ at[n] \in K /\ v \notin K => Cardinality(In(K)) = Cardinality(In(K)') + 1
  <1>1. IsFiniteSet(In(K)) /\ Cardinality(In(K)) \in Nat
    BY InFinite
  <1>2. CASE at[n] \in K <=> v \in K
    <2>1. In(K)' = In(K)
      BY <1>2 DEF In
    <2> QED  BY <1>1, <1>2, <2>1
  <1>3. CASE at[n] \notin K /\ v \in K
    <2>1. In(K)' = In(K) \cup {n} /\ n \notin In(K)
      BY <1>3 DEF In
    <2>2. Cardinality(In(K) \cup {n}) = Cardinality(In(K)) + 1
      BY <1>1, <2>1, FS_AddElement
    <2> QED  BY <1>1, <1>3, <2>1, <2>2
  <1>4. CASE at[n] \in K /\ v \notin K
    <2>1. In(K)' = In(K) \ {n} /\ In(K) = In(K)' \cup {n} /\ n \notin In(K)'
      BY <1>4 DEF In
    <2>2. IsFiniteSet(In(K) \ {n})
      BY <1>1, FS_RemoveElement
    <2>3. Cardinality(In(K)' \cup {n}) = Cardinality(In(K)') + 1 /\ Cardinality(In(K)') \in Nat
      BY <2>1, <2>2, FS_AddElement, FS_CardinalityType
    <2> QED  BY <1>1, <1>4, <2>1, <2>3
  <1> QED  BY <1>2, <1>3, <1>4

\* Where a node can be, as the budget sees it: without a receipt, charged and not
\* forked yet, forked.
Unpaid == {"idle", "tidying", "waiting", "ok", "err"}
Forked == {"running", "closing"}

CountersExact ==
  /\ live = Cardinality(In(Holding))
  /\ total = forks + Cardinality(In(Charged))

\* The counters follow a node that moves: it stays in its class, is charged,
\* rolled back, forked or released.
LEMMA Counters ==
  ASSUME NodeInv, NEW n \in Node, NEW v, at' = [at EXCEPT ![n] = v],
         \/ /\ \/ at[n] \in Unpaid /\ v \in Unpaid
               \/ at[n] \in Charged /\ v \in Charged
               \/ at[n] \in Forked /\ v \in Forked
            /\ UNCHANGED <<live, total, forks>>
         \/ /\ at[n] \in Unpaid /\ v \in Charged
            /\ live' = live + 1 /\ total' = total + 1 /\ forks' = forks
         \/ /\ at[n] \in Charged /\ v \in Unpaid
            /\ live' = live - 1 /\ total' = total - 1 /\ forks' = forks
         \/ /\ at[n] \in Charged /\ v \in Forked
            /\ UNCHANGED <<live, total>> /\ forks' = forks + 1
         \/ /\ at[n] \in Forked /\ v \in Unpaid
            /\ live' = live - 1 /\ UNCHANGED <<total, forks>>
  PROVE  CountersExact' /\ live' \in Nat /\ total' \in Nat /\ forks' \in Nat
  <1>1. PICK h \in Nat, hn \in Nat, c \in Nat, cn \in Nat, f \in Nat :
          /\ h = Cardinality(In(Holding)) /\ hn = Cardinality(In(Holding)')
          /\ c = Cardinality(In(Charged)) /\ cn = Cardinality(In(Charged)')
          /\ f = forks
    BY Moved DEF NodeInv, NodeType
  <1>2. live = h /\ total = f + c
    BY <1>1 DEF NodeInv
  <1>3. /\ (at[n] \in Holding <=> v \in Holding) => hn = h
        /\ at[n] \notin Holding /\ v \in Holding => hn = h + 1
        /\ at[n] \in Holding /\ v \notin Holding => h = hn + 1
        /\ (at[n] \in Charged <=> v \in Charged) => cn = c
        /\ at[n] \notin Charged /\ v \in Charged => cn = c + 1
        /\ at[n] \in Charged /\ v \notin Charged => c = cn + 1
    BY <1>1, Moved DEF NodeInv, NodeType
  <1>4. \A x : /\ x \in Unpaid => x \notin Holding /\ x \notin Charged
               /\ x \in Charged => x \in Holding
               /\ x \in Forked => x \in Holding /\ x \notin Charged
    BY DEF Unpaid, Forked, Holding, Charged
  <1>5. live' = hn /\ \E ff \in Nat : forks' = ff /\ total' = ff + cn
    <2>1. CASE /\ \/ at[n] \in Unpaid /\ v \in Unpaid
                  \/ at[n] \in Charged /\ v \in Charged
                  \/ at[n] \in Forked /\ v \in Forked
               /\ UNCHANGED <<live, total, forks>>
      <3>1. hn = h /\ cn = c
        BY <1>3, <1>4, <2>1
      <3> QED  BY <1>1, <1>2, <2>1, <3>1
    <2>2. CASE /\ at[n] \in Unpaid /\ v \in Charged
               /\ live' = live + 1 /\ total' = total + 1 /\ forks' = forks
      <3>1. hn = h + 1 /\ cn = c + 1
        BY <1>3, <1>4, <2>2
      <3>2. live' = h + 1 /\ total' = f + c + 1 /\ forks' = f
        BY <1>1, <1>2, <2>2
      <3> QED  BY <3>1, <3>2
    <2>3. CASE /\ at[n] \in Charged /\ v \in Unpaid
               /\ live' = live - 1 /\ total' = total - 1 /\ forks' = forks
      <3>1. h = hn + 1 /\ c = cn + 1
        BY <1>3, <1>4, <2>3
      <3>2. live' = h - 1 /\ total' = f + c - 1 /\ forks' = f
        BY <1>1, <1>2, <2>3
      <3> QED  BY <3>1, <3>2
    <2>4. CASE /\ at[n] \in Charged /\ v \in Forked
               /\ UNCHANGED <<live, total>> /\ forks' = forks + 1
      <3>1. h = hn /\ c = cn + 1
        BY <1>3, <1>4, <2>4
      <3>2. live' = h /\ total' = f + c /\ forks' = f + 1
        BY <1>1, <1>2, <2>4
      <3> QED  BY <3>1, <3>2
    <2>5. CASE /\ at[n] \in Forked /\ v \in Unpaid
               /\ live' = live - 1 /\ UNCHANGED <<total, forks>>
      <3>1. h = hn + 1 /\ c = cn
        BY <1>3, <1>4, <2>5
      <3>2. live' = h - 1 /\ total' = f + c /\ forks' = f
        BY <1>1, <1>2, <2>5
      <3> QED  BY <3>1, <3>2
    <2> QED  BY <2>1, <2>2, <2>3, <2>4, <2>5
  <1> QED  BY <1>1, <1>5 DEF CountersExact

\* No node is on its way: nothing is counted and no worktree is left.
LEMMA Quiet ==
  ASSUME NodeInv, \A n \in Node : at[n] \in Settled \cup {"idle"}
  PROVE  live = 0 /\ total = forks /\ trees = {}
  <1>1. In(Holding) = {} /\ In(Charged) = {} /\ In(InTree) = {}
    BY DEF In, Holding, Charged, InTree, Settled
  <1>2. Cardinality({}) = 0
    BY FS_EmptySet
  <1> QED  BY <1>1, <1>2 DEF NodeInv, NodeType

LEMMA BelowNow == \A n : Below(n) = BelowIn(edges, n) /\ Upstream(n) = UpstreamIn(edges, n)
  BY DEF Below, BelowIn, Downstream, Upstream, UpstreamIn

\* Nothing below a failure has an outcome: its inputs can never have been there.
LEMMA BelowIsOpen ==
  ASSUME NEW graph, NEW outs \in SUBSET Node, NEW fails \in SUBSET Node, NEW skips,
         Sound(graph, outs, fails, skips), NEW f \in fails
  PROVE  BelowIn(graph, f) \cap (outs \cup fails) = {}
  <1> DEFINE S == Node \ (outs \cup fails)
  <1>1. \A d \in Node : <<f, d>> \in graph => d \in S
    BY DEF Sound, UpstreamIn
  <1>2. \A s \in S : \A d \in Node : <<s, d>> \in graph => d \in S
    BY DEF Sound, UpstreamIn
  <1>3. S \in SUBSET Node
    OBVIOUS
  <1> HIDE DEF S
  <1>4. BelowIn(graph, f) \subseteq S
    BY <1>1, <1>2, <1>3 DEF BelowIn
  <1> QED  BY <1>4 DEF S

--------------------------------------------------------------------------------
(* A step of a node *)

\* What any step of node n has to keep in order.
LEMMA NodeMove ==
  ASSUME NodeInv, NEW n \in Node, NEW v \in Busy \cup Settled,
         at' = [at EXCEPT ![n] = v], phase = "layer", n \in layer,
         UNCHANGED <<phase, layer, launches, crashes>>,
         tries' \in [Node -> 0..2], \A m \in Node : m # n => tries'[m] = tries[m],
         v = "waiting" => tries'[n] = 1,
         result' \in [Node -> {"none", "ok", "err", "cut"}],
         late' = late, aborted' \in BOOLEAN, forks' \in Nat,
         trees' \subseteq trees \cup {n}, n \in trees' => v \in InTree,
         CountersExact'
  PROVE  NodeInv'
  <1> at \in [Node -> Busy \cup Settled \cup {"idle"}] /\ forks \in Nat
    BY DEF NodeInv, NodeType
  <1>1. NodeType'
    BY DEF NodeInv, NodeType
  <1>2. v # "idle"
    BY DEF Busy, Settled
  <1>3. /\ \A m \in Node : at'[m] # "idle" => phase' = "layer" /\ m \in layer'
        /\ \A m \in Node : at'[m] = "idle" => tries'[m] = 0
        /\ \A m \in Node : at'[m] = "waiting" => tries'[m] = 1
    BY <1>2 DEF NodeInv
  <1>4. trees' \subseteq In(InTree)'
    BY DEF NodeInv, In
  <1> QED  BY <1>1, <1>3, <1>4 DEF NodeInv, CountersExact

\* The places a node can be in on either side of a step.
LEMMA Classes ==
  /\ Unpaid = {"idle", "tidying", "waiting", "ok", "err"} /\ Charged = {"setup", "forking"}
  /\ Forked = {"running", "closing"}
  BY DEF Unpaid, Charged, Forked

LEMMA Places ==
  /\ Holding = {"setup", "forking", "running", "closing"} /\ Charged = {"setup", "forking"}
  /\ InTree = {"forking", "running", "closing", "tidying"} /\ Settled = {"ok", "err"}
  /\ Busy = {"setup", "forking", "running", "closing", "tidying", "waiting"}
  BY DEF Holding, Charged, InTree, Settled, Busy

\* A node that holds a receipt is counted.
LEMMA Counted ==
  ASSUME NodeInv, NEW n \in Node
  PROVE  /\ live \in Nat /\ total \in Nat
         /\ at[n] \in Holding => live > 0
         /\ at[n] \in Charged => total > forks
  <1>1. /\ Cardinality(In(Holding)) \in Nat /\ Cardinality(In(Charged)) \in Nat
        /\ IsFiniteSet(In(Holding)) /\ IsFiniteSet(In(Charged))
    BY InFinite
  <1>2. /\ at[n] \in Holding => In(Holding) # {}
        /\ at[n] \in Charged => In(Charged) # {}
    BY DEF In
  <1>3. /\ at[n] \in Holding => Cardinality(In(Holding)) # 0
        /\ at[n] \in Charged => Cardinality(In(Charged)) # 0
    BY <1>1, <1>2, FS_EmptySet
  <1> QED  BY <1>1, <1>3 DEF NodeInv, NodeType

\* A step of a node keeps receipts, places and worktrees in order.
LEMMA StepOfNode == ASSUME BooksInv, NodeInv, NEW n \in Node, NodeStep(n) PROVE NodeInv'
  <1> USE DEF frame, books, budget, Reject
  <1>1. /\ at \in [Node -> Busy \cup Settled \cup {"idle"}] /\ tries \in [Node -> 0..2]
        /\ result \in [Node -> {"none", "ok", "err", "cut"}] /\ aborted \in BOOLEAN
        /\ trees \in SUBSET Node /\ forks \in Nat /\ live \in Nat /\ total \in Nat
        /\ opt.failFast \in BOOLEAN
    BY Counted DEF NodeInv, NodeType, BooksInv, BooksType
  <1>2. at[n] \in Busy => phase = "layer" /\ n \in layer
    BY Places DEF NodeInv
  <1>3. n \in trees => at[n] \in InTree
    BY DEF NodeInv, In
  <1>4. at[n] = "idle" \/ at[n] = "waiting" => tries[n] \in {0, 1} /\ n \notin trees
    BY <1>3, Places DEF NodeInv
  <1>5. ASSUME Dispatch(n) \/ (Reject(n) /\ UNCHANGED <<tries, live, total>>),
               at[n] \in {"idle", "waiting"}, phase = "layer", n \in layer,
               UNCHANGED <<frame, result, late, forks, trees>>
        PROVE  NodeInv'
    <2>1. CASE Dispatch(n) /\ CanSpawn
      <3>1. PICK v \in {"setup", "forking"} : at' = [at EXCEPT ![n] = v]
        BY <2>1 DEF Dispatch
      <3>2. /\ tries' = [tries EXCEPT ![n] = @ + 1] /\ UNCHANGED aborted
            /\ live' = live + 1 /\ total' = total + 1
        BY <2>1 DEF Dispatch, RecordSpawn
      <3>3. tries' \in [Node -> 0..2] /\ \A m \in Node : m # n => tries'[m] = tries[m]
        BY <1>1, <1>4, <1>5, <3>2
      <3>4. v \in Busy \cup Settled /\ v # "waiting" /\ at[n] \notin Holding \cup Charged
            /\ v \in Holding /\ v \in Charged
        BY <1>5, <3>1, Places
      <3>9. CountersExact'
        BY <1>1, <1>4, <1>5, <3>1, <3>2, <3>3, <3>4, Classes, Counters
      <3> QED  BY <1>1, <1>4, <1>5, <3>1, <3>2, <3>3, <3>4, Places, <3>9, NodeMove
    <2>2. CASE /\ Reject(n) /\ UNCHANGED <<live, total>> /\ tries' \in [Node -> 0..2]
               /\ \A m \in Node : m # n => tries'[m] = tries[m]
      <3>1. at' = [at EXCEPT ![n] = "err"] /\ aborted' \in BOOLEAN
        BY <1>1, <2>2
      <3>2. "err" \in Busy \cup Settled /\ "err" # "waiting" /\ at[n] \notin Holding \cup Charged
            /\ "err" \notin Holding /\ "err" \notin Charged
        BY <1>5, Places
      <3>3. CountersExact'
        BY <1>1, <1>4, <1>5, <2>2, <3>1, <3>2, Classes, Counters
      <3>4. n \notin trees' /\ trees' \subseteq trees \cup {n} /\ forks' \in Nat
            /\ result' \in [Node -> {"none", "ok", "err", "cut"}]
        BY <1>1, <1>4, <1>5
      <3>5. UNCHANGED <<phase, layer, launches, crashes>> /\ late' = late
        BY <1>5
      <3> QED  BY <1>5, <2>2, <3>1, <3>2, <3>3, <3>4, <3>5, NodeMove
    <2>3. CASE Dispatch(n) /\ ~CanSpawn
      <3>1. tries' = [tries EXCEPT ![n] = @ + 1]
        BY <2>3 DEF Dispatch
      <3>2. tries' \in [Node -> 0..2] /\ \A m \in Node : m # n => tries'[m] = tries[m]
        BY <1>1, <1>4, <1>5, <3>1
      <3> QED  BY <2>2, <2>3, <3>2 DEF Dispatch
    <2>4. CASE Reject(n) /\ UNCHANGED <<tries, live, total>>
      BY <1>1, <2>2, <2>4
    <2> QED  BY <1>5, <2>1, <2>3, <2>4
  <1>6. ASSUME at[n] \in {"closing", "tidying"}, Conclude(n), n \notin trees',
               trees' \subseteq trees, total' = total, UNCHANGED <<frame, tries, result, late, forks>>,
               at[n] = "closing" => live' = live - 1,
               at[n] = "tidying" => live' = live
        PROVE  NodeInv'
    <2>1. PICK v \in {"ok", "waiting", "err"} :
            /\ at' = [at EXCEPT ![n] = v]
            /\ v = "waiting" => tries[n] = 1
      BY <1>6 DEF Conclude
    <2>2. aborted' \in BOOLEAN
      BY <1>1, <1>6 DEF Conclude
    <2>3. v \in Busy \cup Settled /\ v \notin Holding /\ v \notin Charged /\ at[n] \notin Charged
          /\ (at[n] \in Holding <=> at[n] = "closing") /\ at[n] \in Busy
      BY <1>6, <2>1, Places
    <2>9. CountersExact'
      BY <1>1, <1>2, <1>6, <2>1, <2>2, <2>3, Classes, Counters
    <2> QED  BY <1>1, <1>2, <1>6, <2>1, <2>2, <2>3, Places, <2>9, NodeMove
  <1>7. CASE Claim(n)
    BY <1>5, <1>7 DEF Claim
  <1>8. CASE SetUp(n)
    <2>1. /\ at' = [at EXCEPT ![n] = "forking"] /\ at[n] = "setup" /\ trees' = trees \cup {n}
          /\ UNCHANGED <<frame, aborted, tries, result, late, budget>>
      BY <1>8 DEF SetUp
    <2>9. CountersExact'
      BY <1>1, <1>2, <2>1, Classes, Counters
    <2> QED  BY <1>1, <1>2, <2>1, Places, <2>9, NodeMove
  <1>9. CASE SetUpFails(n)
    <2>1. /\ at' = [at EXCEPT ![n] = "err"] /\ at[n] = "setup" /\ aborted' \in BOOLEAN
          /\ live' = live - 1 /\ total' = total - 1
          /\ UNCHANGED <<frame, tries, result, late, forks, trees>>
      BY <1>1, <1>9 DEF SetUpFails, Rollback
    <2>2. total' \in Nat /\ n \notin trees
      BY <1>1, <1>3, <2>1, Counted, Places
    <2>3. CountersExact'
      BY <1>1, <1>2, <2>1, <2>2, Classes, Counters
    <2>4. /\ n \notin trees' /\ trees' \subseteq trees \cup {n}
          /\ forks' \in Nat /\ result' \in [Node -> {"none", "ok", "err", "cut"}]
          /\ tries' \in [Node -> 0..2] /\ \A m \in Node : m # n => tries'[m] = tries[m]
      BY <1>1, <2>1, <2>2
    <2>5. UNCHANGED <<phase, layer, launches, crashes>> /\ late' = late
          /\ phase = "layer" /\ n \in layer /\ "err" \in Busy \cup Settled /\ "err" # "waiting"
      BY <1>2, <2>1, Places
    <2> QED  BY <2>1, <2>3, <2>4, <2>5, NodeMove
  <1>10. CASE Fork(n)
    <2>1. PICK v \in {"closing", "running"} : at' = [at EXCEPT ![n] = v]
      BY <1>10 DEF Fork
    <2>2. /\ at[n] = "forking" /\ forks' = forks + 1
          /\ result' \in [Node -> {"none", "ok", "err", "cut"}]
          /\ UNCHANGED <<frame, aborted, tries, late, live, total, trees>>
      BY <1>1, <1>10 DEF Fork
    <2>3. CountersExact'
      BY <1>1, <1>2, <2>1, <2>2, Classes, Counters
    <2>4. v \in Busy \cup Settled /\ v # "waiting" /\ v \in InTree /\ forks' \in Nat
      BY <1>1, <2>1, <2>2, Places
    <2>5. /\ phase = "layer" /\ n \in layer
          /\ UNCHANGED <<phase, layer, launches, crashes, tries, late, aborted, trees>>
      BY <1>2, <2>2, Places
    <2> QED  BY <1>1, <2>1, <2>2, <2>3, <2>4, <2>5, NodeMove
  <1>11. CASE ForkFails(n)
    <2>1. /\ at[n] = "forking" /\ live' = live - 1 /\ total' = total - 1
          /\ UNCHANGED <<frame, tries, late, forks, trees>>
          /\ result' \in [Node -> {"none", "ok", "err", "cut"}] /\ aborted' \in BOOLEAN
      BY <1>1, <1>11 DEF ForkFails, Rollback
    <2>2. PICK v \in {"tidying", "err"} : at' = [at EXCEPT ![n] = v] /\ (n \in trees => v = "tidying")
      BY <1>11 DEF ForkFails
    <2>3. total' \in Nat
      BY <1>1, <2>1, Counted, Places
    <2>9. CountersExact'
      BY <1>1, <1>2, <2>1, <2>2, <2>3, Classes, Counters
    <2> QED  BY <1>1, <1>2, <2>1, <2>2, <2>3, Places, <2>9, NodeMove
  <1>12. CASE Answer(n)
    <2>1. /\ at[n] = "running" /\ at' = [at EXCEPT ![n] = "closing"]
          /\ result' \in [Node -> {"none", "ok", "err", "cut"}]
          /\ UNCHANGED <<frame, aborted, tries, late, budget, trees>>
      BY <1>1, <1>12 DEF Answer
    <2>9. CountersExact'
      BY <1>1, <1>2, <2>1, Classes, Counters
    <2> QED  BY <1>1, <1>2, <2>1, Places, <2>9, NodeMove
  <1>13. CASE Close(n)
    <2>1. /\ at[n] = "closing" /\ live' = live - 1
          /\ UNCHANGED <<frame, tries, result, late, total, forks, trees>>
      BY <1>13 DEF Close
    <2>2. CASE n \in trees
      <3>1. at' = [at EXCEPT ![n] = "tidying"] /\ UNCHANGED aborted
        BY <1>13, <2>2 DEF Close
      <3>9. CountersExact'
        BY <1>1, <1>2, <2>1, <3>1, Classes, Counters
      <3> QED  BY <1>1, <1>2, <2>1, <3>1, Places, <3>9, NodeMove
    <2>3. CASE n \notin trees
      BY <1>6, <1>13, <2>1, <2>3 DEF Close
    <2> QED  BY <2>2, <2>3
  <1>14. CASE Tidy(n)
    <2>1. at[n] = "tidying" /\ trees' = trees \ {n} /\ Conclude(n)
          /\ UNCHANGED <<frame, tries, result, late, budget>>
      BY <1>14 DEF Tidy
    <2> QED  BY <1>6, <2>1
  <1>15. CASE Redispatch(n)
    <2>1. at[n] \in Busy
      BY <1>15, Places DEF Redispatch
    <2> QED  BY <1>2, <1>5, <1>15, <2>1 DEF Redispatch
  <1> QED  BY <1>7, <1>8, <1>9, <1>10, <1>11, <1>12, <1>13, <1>14, <1>15 DEF NodeStep

--------------------------------------------------------------------------------
(* A step of the executor: its books *)

\* Steps that leave the books alone.
LEMMA BooksKept ==
  ASSUME BooksInv, UNCHANGED <<opt, edges, phase, layer, books, disk>>
  PROVE  BooksInv'
  <1>1. UNCHANGED <<opt, edges, phase, layer, outputs, failed, skipped, owes, disk>>
    BY DEF books
  <1>2. Ready' = Ready /\ \A n : Upstream(n)' = Upstream(n)
    BY <1>1 DEF Ready, Completed, Upstream
  <1>3. BooksType' /\ Remembered'
    BY <1>1 DEF BooksInv, BooksType, Checkpoint, Remembered
  <1> QED  BY <1>1, <1>2, <1>3 DEF BooksInv

\* Nothing is on disk or in the books of an empty graph.
LEMMA NoBooks == ASSUME NEW graph PROVE Sound(graph, {}, {}, {})
  BY DEF Sound

\* What the file holds is sound, and so are the books restored from it.
LEMMA LoadedSound ==
  ASSUME BooksInv, NEW graph \in Graphs
  PROVE  /\ Loaded(graph).outputs \in SUBSET Node /\ Loaded(graph).failed \in SUBSET Node
         /\ Loaded(graph).skipped \in SUBSET Node
         /\ Sound(graph, Loaded(graph).outputs, Loaded(graph).failed, Loaded(graph).skipped)
  <1>1. CASE opt.durable /\ disk # None /\ disk.edges = graph
    <2>1. disk \in Checkpoint /\ Sound(disk.edges, disk.outputs, disk.failed, disk.skipped)
      BY <1>1 DEF BooksInv, BooksType
    <2> QED  BY <1>1, <2>1 DEF Loaded, Checkpoint
  <1>2. CASE ~(opt.durable /\ disk # None /\ disk.edges = graph)
    <2>1. Loaded(graph) = [edges |-> graph, outputs |-> {}, failed |-> {}, skipped |-> {}]
      BY <1>2 DEF Loaded
    <2> QED  BY <2>1, NoBooks
  <1> QED  BY <1>1, <1>2

LEMMA LaunchBooks == ASSUME BooksInv, Launch PROVE BooksInv'
  <1>1. PICK graph \in Graphs :
          /\ edges' = graph
          /\ outputs' = Loaded(graph).outputs
          /\ failed' = Loaded(graph).failed
          /\ skipped' = Loaded(graph).skipped
          /\ owes' = [n \in Node |-> {u \in Node : <<u, n>> \in graph} \ Loaded(graph).outputs]
    BY DEF Launch
  <1>2. UNCHANGED <<opt, disk>> /\ phase' = "choose" /\ layer' = {}
    BY DEF Launch, Forgotten
  <1>3. edges' \in SUBSET (Node \X Node)
    BY <1>1, GraphAssumption
  <1>4. BooksType'
    BY <1>1, <1>2, <1>3, LoadedSound DEF BooksInv, BooksType, Checkpoint
  <1>5. \A n \in Node : owes'[n] = Upstream(n)' \ outputs'
    BY <1>1 DEF Upstream
  <1>6. Sound(edges, outputs, failed, skipped)'
    BY <1>1, LoadedSound
  <1>7. (disk # None => Sound(disk.edges, disk.outputs, disk.failed, disk.skipped))'
    BY <1>2 DEF BooksInv
  <1>8. Remembered'
    BY <1>1, <1>2 DEF Remembered, Loaded
  <1> QED  BY <1>1, <1>2, <1>4, <1>5, <1>6, <1>7, <1>8 DEF BooksInv

LEMMA EndLayerBooks == ASSUME BooksInv, EndLayer PROVE BooksInv'
  <1> DEFINE won == {n \in layer : at[n] = "ok"}
             lost == layer \ won
  <1>1. /\ outputs' = outputs \cup won /\ failed' = failed \cup lost
        /\ skipped' = skipped \cup Unreachable(lost)
        /\ owes' = [n \in Node |-> owes[n] \ won]
        /\ UNCHANGED <<opt, edges, disk>> /\ phase' \in {"saving", "choose"} /\ layer' = {}
    BY DEF EndLayer, Forgotten
  <1>2. layer = Ready /\ phase = "layer" /\ won \cup lost = layer /\ won \cap lost = {}
    BY DEF BooksInv, EndLayer
  <1>3. layer \subseteq Node /\ \A n \in layer : Upstream(n) \subseteq outputs /\ n \notin Completed
    BY <1>2 DEF Ready, BooksInv
  <1> HIDE DEF won, lost
  <1>4. won \subseteq layer /\ lost \subseteq layer
    BY <1>2
  <1>5. skipped' \in SUBSET Node
    BY <1>1 DEF Unreachable, Below, BooksInv, BooksType
  <1>6. BooksType'
    BY <1>1, <1>3, <1>4, <1>5 DEF BooksInv, BooksType, Checkpoint
  <1>7. \A n \in Node : owes'[n] = Upstream(n)' \ outputs'
    BY <1>1 DEF BooksInv, Upstream
  <1>8. outputs' \cap failed' = {}
    BY <1>1, <1>2, <1>3, <1>4 DEF BooksInv, Sound, Completed
  <1>9. \A n \in outputs' \cup failed' : UpstreamIn(edges', n) \subseteq outputs'
    BY <1>1, <1>3, <1>4, BelowNow DEF BooksInv, Sound
  <1>10. skipped' = UNION {BelowIn(edges', n) : n \in failed'}
    <2>1. Unreachable(lost) = UNION {BelowIn(edges, n) : n \in lost}
      BY BelowNow DEF Unreachable
    <2>2. skipped = UNION {BelowIn(edges, n) : n \in failed}
      BY DEF BooksInv, Sound
    <2> QED  BY <1>1, <2>1, <2>2
  <1>11. Sound(edges, outputs, failed, skipped)'
    BY <1>8, <1>9, <1>10 DEF Sound
  <1>12. (disk # None => Sound(disk.edges, disk.outputs, disk.failed, disk.skipped))'
    BY <1>1 DEF BooksInv
  <1>13. Remembered'
    BY <1>1, <1>2 DEF BooksInv, Remembered
  <1> QED  BY <1>1, <1>2, <1>6, <1>7, <1>11, <1>12, <1>13 DEF BooksInv

LEMMA SaveBooks == ASSUME BooksInv, Save PROVE BooksInv'
  <1>1. /\ phase = "saving" /\ phase' = "choose"
        /\ disk' = [edges |-> edges, outputs |-> outputs, failed |-> failed, skipped |-> skipped]
        /\ UNCHANGED <<opt, edges, layer, outputs, failed, skipped, owes>>
    BY DEF Save, books
  <1>2. disk' \in Checkpoint
    BY <1>1 DEF Checkpoint, BooksInv, BooksType
  <1>3. Sound(disk.edges, disk.outputs, disk.failed, disk.skipped)'
    BY <1>1 DEF BooksInv
  <1>4. Sound(edges, outputs, failed, skipped)'
    BY <1>1 DEF BooksInv
  <1>5. BooksType' /\ Remembered'
    BY <1>1, <1>2 DEF BooksInv, BooksType, Remembered
  <1> QED  BY <1>1, <1>3, <1>4, <1>5 DEF BooksInv, Upstream

\* The loop goes round without touching the books.
LEMMA LoopBooks == ASSUME BooksInv, NextLayer \/ Return \/ SaveFails PROVE BooksInv'
  <1>1. /\ UNCHANGED <<opt, edges, outputs, failed, skipped, owes>>
        /\ disk' \in {disk, None}
        /\ phase # "off" /\ phase' \in {"layer", "returned", "choose"}
        /\ phase' = "layer" => layer' = Ready
        /\ phase' # "layer" => layer' = layer /\ phase # "layer"
    BY DEF NextLayer, Return, SaveFails, books
  <1>2. Ready' = Ready /\ \A n : Upstream(n)' = Upstream(n)
    BY <1>1 DEF Ready, Completed, Upstream
  <1>3. layer' \subseteq Node
    BY <1>1 DEF Ready, BooksInv, BooksType
  <1>4. BooksType'
    BY <1>1, <1>3 DEF BooksInv, BooksType, Checkpoint
  <1>5. (disk # None => Sound(disk.edges, disk.outputs, disk.failed, disk.skipped))' /\ Remembered'
    BY <1>1 DEF BooksInv, Remembered
  <1>6. Sound(edges, outputs, failed, skipped)'
    BY <1>1 DEF BooksInv
  <1> QED  BY <1>1, <1>2, <1>4, <1>5, <1>6 DEF BooksInv

LEMMA CrashBooks == ASSUME BooksInv, Crash PROVE BooksInv'
  <1>1. /\ UNCHANGED <<opt, disk>> /\ phase' = "off" /\ edges' = {} /\ layer' = {}
        /\ outputs' = {} /\ failed' = {} /\ skipped' = {} /\ owes' = [n \in Node |-> {}]
    BY DEF Crash, Forgotten
  <1>2. BooksType'
    BY <1>1 DEF BooksInv, BooksType, Checkpoint
  <1>3. Sound(edges, outputs, failed, skipped)'
    BY <1>1 DEF Sound, UpstreamIn, BelowIn
  <1>4. (disk # None => Sound(disk.edges, disk.outputs, disk.failed, disk.skipped))'
    BY <1>1 DEF BooksInv
  <1> QED  BY <1>1, <1>2, <1>3, <1>4 DEF BooksInv, Remembered, Upstream

--------------------------------------------------------------------------------
(* A step of the executor: the nodes *)

\* Outside a layer every node is idle.
LEMMA AllIdle ==
  ASSUME NodeInv, phase # "layer"
  PROVE  /\ \A n \in Node : at[n] = "idle"
         /\ live = 0 /\ total = forks /\ trees = {}
  <1>1. \A n \in Node : at[n] = "idle"
    BY DEF NodeInv
  <1> QED  BY <1>1, Quiet

\* With no node on its way and nothing counted, the nodes are in order.
LEMMA FreshNodes ==
  ASSUME \A n \in Node : at[n] = "idle", live = 0, total = forks, trees = {}, NodeType,
         \A n \in Node : tries[n] = 0
  PROVE  NodeInv
  <1>1. In(Holding) = {} /\ In(Charged) = {}
    BY DEF In, Holding, Charged
  <1>2. Cardinality({}) = 0
    BY FS_EmptySet
  <1> QED  BY <1>1, <1>2 DEF NodeInv, NodeType

LEMMA ForgottenNodes ==
  ASSUME Forgotten, live' = 0, total' = forks', trees' = {}, forks' \in Nat,
         aborted' \in BOOLEAN, launches' \in Nat, crashes' \in Nat
  PROVE  NodeInv'
  <1>1. NodeType'
    BY DEF Forgotten, NodeType
  <1>2. (\A n \in Node : at[n] = "idle")' /\ (\A n \in Node : tries[n] = 0)'
    BY DEF Forgotten
  <1>3. In(Holding)' = {} /\ In(Charged)' = {}
    BY <1>2 DEF In, Holding, Charged
  <1>4. Cardinality({}) = 0
    BY FS_EmptySet
  <1> QED  BY <1>1, <1>2, <1>3, <1>4 DEF NodeInv, NodeType

\* The executor moves on, or is aborted, without touching the nodes.
LEMMA NodesKept ==
  ASSUME NodeInv, UNCHANGED <<at, tries, result, late, budget, trees, launches, crashes>>,
         aborted' \in BOOLEAN, phase # "layer" \/ UNCHANGED <<phase, layer>>
  PROVE  NodeInv'
  <1>1. NodeType'
    BY DEF NodeInv, NodeType, budget
  <1>2. \A n \in Node : at'[n] # "idle" => phase' = "layer" /\ n \in layer'
    BY AllIdle DEF NodeInv
  <1>3. In(InTree)' = In(InTree) /\ In(Holding)' = In(Holding) /\ In(Charged)' = In(Charged)
    BY DEF In
  <1> QED  BY <1>1, <1>2, <1>3 DEF NodeInv, budget

\* The workers of a layer go with it, and nothing is on its way then.
LEMMA LayerOver ==
  ASSUME NodeInv, Forgotten, \A n \in Node : at[n] \in Settled \cup {"idle"},
         UNCHANGED <<budget, trees, crashes>>, launches' \in Nat, aborted' \in BOOLEAN
  PROVE  NodeInv'
  <1>1. live' = 0 /\ total' = forks' /\ trees' = {} /\ forks' \in Nat /\ crashes' \in Nat
    BY Quiet DEF budget, NodeInv, NodeType
  <1> QED  BY <1>1, ForgottenNodes

LEMMA RunStepNodes == ASSUME BooksInv, NodeInv, RunStep PROVE NodeInv'
  <1>1. CASE NextLayer
    BY <1>1, NodesKept DEF NextLayer, NodeInv, NodeType
  <1>2. CASE Return
    BY <1>2, NodesKept DEF Return, NodeInv, NodeType
  <1>3. CASE Save
    BY <1>3, NodesKept DEF Save, NodeInv, NodeType
  <1>4. CASE SaveFails
    BY <1>4, NodesKept DEF SaveFails, NodeInv, NodeType
  <1>5. CASE EndLayer
    <2>1. \A n \in Node : at[n] \in Settled \cup {"idle"}
      BY <1>5 DEF EndLayer, NodeInv
    <2>2. aborted' \in BOOLEAN /\ UNCHANGED <<budget, trees, launches, crashes>> /\ Forgotten
      BY <1>5 DEF EndLayer, NodeInv, NodeType, BooksInv, BooksType
    <2> QED  BY <2>1, <2>2, LayerOver DEF NodeInv, NodeType
  <1> QED  BY <1>1, <1>2, <1>3, <1>4, <1>5 DEF RunStep

--------------------------------------------------------------------------------
(* The invariant is inductive *)

LEMMA Started == Init => Inv
  <1> SUFFICES ASSUME Init PROVE Inv
    OBVIOUS
  <1>1. NodeInv
    <2>1. /\ tries \in [Node -> 0..2] /\ late = {} /\ trees = {}
          /\ live = 0 /\ total = 0 /\ forks = 0 /\ launches = 0 /\ crashes = 0
      BY DEF Init
    <2>2. /\ at \in [Node -> Busy \cup Settled \cup {"idle"}] /\ aborted \in BOOLEAN
          /\ result \in [Node -> {"none", "ok", "err", "cut"}]
      BY DEF Init
    <2>3. NodeType
      BY <2>1, <2>2 DEF NodeType
    <2> QED  BY <2>1, <2>3, FreshNodes DEF Init
  <1>2. BooksType
    BY DEF Init, BooksType
  <1>3. Sound(edges, outputs, failed, skipped)
    BY NoBooks DEF Init
  <1>4. BooksInv
    BY <1>2, <1>3 DEF Init, BooksInv, Remembered, Upstream
  <1> QED  BY <1>1, <1>4 DEF Inv, Finished, Init

LEMMA BooksStep == ASSUME Inv, Next PROVE BooksInv'
  <1>1. CASE Launch
    BY <1>1, LaunchBooks DEF Inv
  <1>2. CASE RunStep
    BY <1>2, EndLayerBooks, SaveBooks, LoopBooks DEF Inv, RunStep
  <1>3. CASE Abort
    BY <1>3, BooksKept DEF Inv, Abort
  <1>4. CASE Crash
    BY <1>4, CrashBooks DEF Inv
  <1>5. CASE \E n \in Node : NodeStep(n) \/ TimeOut(n)
    <2>1. UNCHANGED frame
      BY <1>5 DEF NodeStep, Claim, SetUp, SetUpFails, Fork, ForkFails, Answer, Close, Tidy,
                  Redispatch, TimeOut
    <2> QED  BY <2>1, BooksKept DEF frame, Inv
  <1> QED  BY <1>1, <1>2, <1>3, <1>4, <1>5 DEF Next

LEMMA NodesStep == ASSUME Inv, Next PROVE NodeInv'
  <1>1. CASE Launch
    <2>1. \A n \in Node : at[n] = "idle"
      BY <1>1, AllIdle DEF Launch, Inv
    <2>2. /\ UNCHANGED <<budget, trees, crashes>> /\ Forgotten
          /\ launches' = launches + 1 /\ aborted' \in BOOLEAN
      BY <1>1 DEF Launch
    <2>3. launches' \in Nat
      BY <2>2 DEF Inv, NodeInv, NodeType
    <2> QED  BY <2>1, <2>2, <2>3, LayerOver DEF Inv
  <1>2. CASE RunStep
    BY <1>2, RunStepNodes DEF Inv
  <1>3. CASE Abort
    BY <1>3, NodesKept DEF Inv, Abort
  <1>4. CASE Crash
    <2>1. /\ Forgotten /\ live' = 0 /\ total' = 0 /\ forks' = 0 /\ trees' = {}
          /\ crashes' = crashes + 1 /\ launches' = launches /\ aborted' = FALSE
      BY <1>4 DEF Crash
    <2>2. crashes' \in Nat /\ launches' \in Nat
      BY <2>1 DEF Inv, NodeInv, NodeType
    <2> QED  BY <2>1, <2>2, ForgottenNodes
  <1>5. CASE \E n \in Node : NodeStep(n)
    BY <1>5, StepOfNode DEF Inv
  <1>6. CASE \E n \in Node : TimeOut(n)
    <2>1. /\ UNCHANGED <<frame, at, aborted, tries, result, budget, trees>>
          /\ late' \in SUBSET Node
      BY <1>6 DEF TimeOut, Inv, NodeInv, NodeType
    <2>2. NodeType'
      BY <2>1 DEF frame, budget, Inv, NodeInv, NodeType
    <2>3. In(InTree)' = In(InTree) /\ In(Holding)' = In(Holding) /\ In(Charged)' = In(Charged)
      BY <2>1 DEF In
    <2> QED  BY <2>1, <2>2, <2>3 DEF frame, budget, Inv, NodeInv
  <1> QED  BY <1>1, <1>2, <1>3, <1>4, <1>5, <1>6 DEF Next

\* A call returns when nothing is ready, and nothing moves after that.
LEMMA FinishedStep == ASSUME Inv, Next PROVE Finished'
  <1>1. CASE Return
    <2>1. Ready' = Ready
      BY <1>1 DEF Return, books, Ready, Completed
    <2> QED  BY <1>1, <2>1 DEF Return, Finished
  <1>2. CASE phase' = "returned" /\ ~Return
    <2>1. UNCHANGED <<phase, books>> /\ (aborted' = aborted)
      BY <1>2, Places DEF Next, Launch, RunStep, NextLayer, EndLayer, Save, SaveFails, Abort, Crash,
             NodeStep, Claim, SetUp, SetUpFails, Fork, ForkFails, Answer, Close, Tidy,
             Redispatch, TimeOut, frame, Inv, NodeInv
    <2>2. Ready' = Ready
      BY <2>1 DEF books, Ready, Completed
    <2> QED  BY <1>2, <2>1, <2>2 DEF Inv, Finished
  <1> QED  BY <1>1, <1>2 DEF Finished

LEMMA StutterStep == ASSUME Inv, UNCHANGED vars PROVE Inv'
  <1>1. BooksInv'
    BY BooksKept DEF vars, Inv
  <1>2. NodeInv'
    BY NodesKept DEF vars, Inv, NodeInv, NodeType
  <1>3. Ready' = Ready
    BY DEF vars, books, Ready, Completed
  <1> QED  BY <1>1, <1>2, <1>3 DEF Inv, Finished, vars

LEMMA Always == Spec => []Inv
  <1>1. Init => Inv
    BY Started
  <1>2. Inv /\ [Next]_vars => Inv'
    BY BooksStep, NodesStep, FinishedStep, StutterStep DEF Inv
  <1> QED  BY <1>1, <1>2, PTL DEF Spec

--------------------------------------------------------------------------------
(* Theorems *)

\* Every variable of the executor, its nodes and the delegation budget keeps its
\* type: in particular the budget's counters never go below zero.
THEOREM TypeCorrect == Spec => []TypeOK
  <1>1. Inv => TypeOK
    <2> SUFFICES ASSUME Inv PROVE TypeOK
      OBVIOUS
    <2>1. PICK c \in Nat, f \in Nat : c = Cardinality(In(Charged)) /\ f = forks
      BY InFinite DEF Inv, NodeInv, NodeType
    <2>2. live \in Nat /\ total = f + c
      BY <2>1, InFinite DEF Inv, NodeInv
    <2>3. total \in Nat
      BY <2>1, <2>2
    <2> QED  BY <2>2, <2>3 DEF Inv, BooksInv, BooksType, NodeInv, NodeType, TypeOK
  <1> QED  BY <1>1, Always, PTL

\* runDAG starts a node only when every upstream node has an output to pass on,
\* in a first run and in one that resumed from a checkpoint alike.
THEOREM InputsAlwaysReady == Spec => []InputsReady
  <1>1. Inv => InputsReady
    <2> SUFFICES ASSUME Inv, NEW n \in InFlight PROVE Upstream(n) \subseteq outputs
      BY DEF InputsReady
    <2>1. n \in Node /\ phase = "layer" /\ n \in layer
      BY Places DEF InFlight, Inv, NodeInv
    <2>2. owes[n] = {} /\ owes[n] = Upstream(n) \ outputs
      BY <2>1 DEF Inv, BooksInv, Ready
    <2> QED  BY <2>2
  <1> QED  BY <1>1, Always, PTL

\* A node whose outcome the checkpoint of this graph holds is not run again,
\* whatever was saved, lost or resumed in between.
THEOREM DurableKept == Spec => []DurableNotRerun
  <1>1. Inv => DurableNotRerun
    <2> SUFFICES ASSUME Inv, opt.durable, disk # None, disk.edges = edges, NEW n \in InFlight
                 PROVE  n \notin disk.outputs \cup disk.failed
      BY DEF DurableNotRerun
    <2>1. n \in Node /\ phase = "layer" /\ n \in layer
      BY Places DEF InFlight, Inv, NodeInv
    <2>2. n \notin outputs \cup failed
      BY <2>1 DEF Inv, BooksInv, Ready, Completed
    <2> QED  BY <2>1, <2>2 DEF Inv, BooksInv, Remembered
  <1> QED  BY <1>1, Always, PTL

\* The loop cannot end with a node that is neither done nor below a failure: of such
\* nodes one would wait for none of the others.
LEMMA AllAccounted == Inv => Accounted
  <1> SUFFICES ASSUME Inv, phase = "returned", ~aborted
               PROVE  /\ Node = outputs \cup failed \cup skipped
                      /\ outputs \cap (failed \cup skipped) = {} /\ failed \cap skipped = {}
                      /\ skipped = UNION {Below(n) : n \in failed}
    BY DEF Accounted
  <1>1. /\ Ready = {} /\ edges \in Graphs
        /\ outputs \in SUBSET Node /\ failed \in SUBSET Node /\ skipped \in SUBSET Node
        /\ Sound(edges, outputs, failed, skipped)
    BY DEF Inv, Finished, BooksInv, BooksType
  <1>2. skipped = UNION {BelowIn(edges, n) : n \in failed}
    BY <1>1 DEF Sound
  <1>3. skipped = UNION {Below(n) : n \in failed}
    BY <1>2, BelowNow
  <1>4. skipped \cap (outputs \cup failed) = {} /\ outputs \cap failed = {}
    <2>1. \A f \in failed : BelowIn(edges, f) \cap (outputs \cup failed) = {}
      BY <1>1, BelowIsOpen
    <2> QED  BY <1>1, <1>2, <2>1 DEF Sound
  <1>5. Node = outputs \cup failed \cup skipped
    <2> DEFINE S == Node \ (outputs \cup failed \cup skipped)
    <2>1. SUFFICES ASSUME S # {} PROVE FALSE
      BY <1>1
    <2>2. PICK n \in S : \A u \in S : <<u, n>> \notin edges
      BY <1>1, <2>1, AcyclicAssumption
    <2>3. \A u \in Upstream(n) : u \in outputs \cup failed \cup skipped
      BY <2>2 DEF Upstream
    <2>4. \A f \in failed : <<f, n>> \in edges => n \in BelowIn(edges, f)
      BY <2>2 DEF BelowIn
    <2>5. \A f \in failed : \A s \in BelowIn(edges, f) :
            <<s, n>> \in edges => n \in BelowIn(edges, f)
      BY <2>2 DEF BelowIn
    <2>6. \A u \in failed \cup skipped : <<u, n>> \notin edges
      BY <1>2, <2>2, <2>4, <2>5
    <2>7. Upstream(n) \subseteq outputs
      BY <2>3, <2>6 DEF Upstream
    <2>8. owes[n] = {}
      BY <2>2, <2>7 DEF Inv, BooksInv
    <2> QED  BY <1>1, <2>2, <2>8 DEF Ready, Completed
  <1> QED  BY <1>3, <1>4, <1>5

\* A call that was not aborted accounts for every node of the graph: the loop
\* cannot end with a node that is neither done nor below a failure.
THEOREM EveryNodeAccounted == Spec => []Accounted
  BY AllAccounted, Always, PTL

\* The delegation budget is exact through every rollback, release and retry, and
\* a call that is back has given back its slots and torn down its worktrees.
THEOREM SlotsAlwaysExact == Spec => []SlotsExact
  <1>1. Inv => SlotsExact
    <2> SUFFICES ASSUME Inv PROVE SlotsExact
      OBVIOUS
    <2>1. phase = "returned" => live = 0 /\ trees = {}
      BY AllIdle DEF Inv
    <2> QED  BY <2>1 DEF Inv, NodeInv, SlotsExact, In, Charged
  <1> QED  BY <1>1, Always, PTL

\* A session is prompted only if neither the run nor the node's own timer was
\* aborted before: the check after forkSubagent is enough for every schedule.
THEOREM NeverPromptedAfterAbort == Spec => NoPromptAfterAbort
  <1>1. Inv /\ [Next]_vars => [\A n \in Node : at[n] # "running" /\ at'[n] = "running"
                                                  => ~Signalled(n)]_vars
    <2> SUFFICES ASSUME Inv, Next, NEW n \in Node, at[n] # "running", at'[n] = "running"
                 PROVE  ~Signalled(n)
      OBVIOUS
    <2>1. at \in [Node -> Busy \cup Settled \cup {"idle"}]
      BY DEF Inv, NodeInv, NodeType
    <2>2. PICK m \in Node : NodeStep(m)
      BY <2>1 DEF Next, Launch, RunStep, NextLayer, Return, EndLayer, Save, SaveFails, Abort, Crash,
             Forgotten, TimeOut
    <2>3. CASE Fork(m)
      BY <2>1, <2>3 DEF Fork, Signalled
    <2>4. CASE ~Fork(m)
      <3>1. \E v : v # "running" /\ at' = [at EXCEPT ![m] = v]
        BY <2>2, <2>4 DEF NodeStep, Claim, Dispatch, SetUp, SetUpFails, ForkFails, Answer, Close, Tidy,
               Redispatch, Conclude, Reject
      <3> QED  BY <2>1, <3>1
    <2> QED  BY <2>3, <2>4
  <1> QED  BY <1>1, Always, PTL DEF Spec, NoPromptAfterAbort

--------------------------------------------------------------------------------
(* The refinement of Workflow *)

\* What the abstract workflow sees of a node that moves.
LEMMA Seen ==
  ASSUME NodeInv, NEW n \in Node, NEW v, at' = [at EXCEPT ![n] = v],
         at[n] \in Busy \cup {"idle"}, UNCHANGED frame
  PROVE  /\ v \in Busy => /\ InFlight' = InFlight \cup {n}
                          /\ Done' = Done /\ Lost' = Lost
         /\ v = "ok"   => /\ InFlight' = InFlight \ {n}
                          /\ Done' = Done \cup {n} /\ Lost' = Lost
         /\ v = "err"  => /\ InFlight' = InFlight \ {n}
                          /\ Done' = Done /\ Lost' = Lost \cup {n}
         /\ Kept' = Kept /\ edges' = edges /\ phase' = phase
  <1> USE Places DEF frame, books, InFlight, Done, Lost
  <1>1. /\ at \in [Node -> Busy \cup Settled \cup {"idle"}]
        /\ outputs' = outputs /\ failed' = failed
    BY DEF NodeInv, NodeType
  <1>2. ASSUME v \in Busy
        PROVE  InFlight' = InFlight \cup {n} /\ Done' = Done /\ Lost' = Lost
    BY <1>1, <1>2
  <1>3. ASSUME v = "ok"
        PROVE  InFlight' = InFlight \ {n} /\ Done' = Done \cup {n} /\ Lost' = Lost
    BY <1>1, <1>3
  <1>4. ASSUME v = "err"
        PROVE  InFlight' = InFlight \ {n} /\ Done' = Done /\ Lost' = Lost \cup {n}
    BY <1>1, <1>4
  <1>5. Kept' = Kept /\ edges' = edges /\ phase' = phase
    BY DEF Kept
  <1> QED  BY <1>2, <1>3, <1>4, <1>5

\* A node of the layer that nobody has claimed is ready in the abstract sense too.
LEMMA IdleIsReady ==
  ASSUME Inv, NEW n \in Node, phase = "layer", n \in layer, at[n] = "idle"
  PROVE  W!Ready(n)
  <1>1. n \in Ready /\ owes[n] = Upstream(n) \ outputs
    BY DEF Inv, BooksInv
  <1>2. n \notin InFlight \cup Done \cup Lost
    BY <1>1, Places DEF Ready, Completed, InFlight, Done, Lost
  <1>3. \A u \in Node : <<u, n>> \in edges => u \in Done
    BY <1>1 DEF Ready, Upstream, Done
  <1> QED  BY <1>2, <1>3 DEF W!Ready

\* The places a node goes through on its way are one stretch of work; it ends once.
LEMMA NodeWorks ==
  ASSUME Inv, NEW n \in Node, NodeStep(n)
  PROVE  W!Next \/ UNCHANGED W!vars
  <1> USE Places
  <1>1. /\ UNCHANGED frame
        /\ at \in [Node -> Busy \cup Settled \cup {"idle"}] /\ aborted \in BOOLEAN
        /\ NodeInv /\ opt.failFast \in BOOLEAN
    BY DEF Inv, NodeInv, NodeType, BooksInv, BooksType, NodeStep, Claim, SetUp, SetUpFails, Fork,
           ForkFails, Answer, Close, Tidy, Redispatch
  <1>2. at[n] \in Busy => phase = "layer" /\ n \in layer /\ n \in InFlight
    BY DEF Inv, NodeInv, InFlight
  <1>3. ASSUME at[n] \in Busy, NEW v \in Busy, at' = [at EXCEPT ![n] = v], UNCHANGED aborted
        PROVE  UNCHANGED W!vars
    <2>1. InFlight' = InFlight \cup {n} /\ Done' = Done /\ Lost' = Lost
      BY <1>1, <1>3, Seen
    <2>2. Kept' = Kept /\ edges' = edges /\ phase' = phase
      BY <1>1, <1>3, Seen
    <2>3. InFlight' = InFlight
      BY <1>2, <1>3, <2>1
    <2> QED  BY <1>3, <2>1, <2>2, <2>3 DEF W!vars
  <1>4. ASSUME at[n] \in Busy, at' = [at EXCEPT ![n] = "ok"], UNCHANGED aborted
        PROVE  W!Succeed(n)
    <2>1. InFlight' = InFlight \ {n} /\ Done' = Done \cup {n} /\ Lost' = Lost
      BY <1>1, <1>4, Seen
    <2>2. Kept' = Kept /\ edges' = edges /\ phase' = phase
      BY <1>1, <1>4, Seen
    <2> QED  BY <1>2, <1>4, <2>1, <2>2 DEF W!Succeed
  <1>5. ASSUME at[n] \in Busy \/ (at[n] = "idle" /\ phase = "layer" /\ n \in layer), Reject(n)
        PROVE  W!Fail(n)
    <2>1. InFlight' = InFlight \ {n} /\ Done' = Done /\ Lost' = Lost \cup {n}
      BY <1>1, <1>5, Seen DEF Reject
    <2>2. Kept' = Kept /\ edges' = edges /\ phase' = phase
      BY <1>1, <1>5, Seen DEF Reject
    <2>3. n \in InFlight \/ W!Ready(n)
      BY <1>2, <1>5, IdleIsReady
    <2>4. aborted' \in {aborted, TRUE}
      BY <1>1, <1>5 DEF Reject
    <2> QED  BY <1>2, <1>5, <2>1, <2>2, <2>3, <2>4 DEF W!Fail
  <1>6. ASSUME Conclude(n), at[n] \in Busy PROVE W!Next \/ UNCHANGED W!vars
    <2>1. CASE at' = [at EXCEPT ![n] = "ok"] /\ UNCHANGED aborted
      BY <1>4, <1>6, <2>1 DEF W!Next
    <2>2. CASE at' = [at EXCEPT ![n] = "waiting"] /\ UNCHANGED aborted
      BY <1>3, <1>6, <2>2
    <2>3. CASE Reject(n)
      BY <1>5, <1>6, <2>3 DEF W!Next
    <2> QED  BY <1>6, <2>1, <2>2, <2>3 DEF Conclude
  <1>7. CASE Claim(n)
    <2>1. at[n] = "idle" /\ phase = "layer" /\ n \in layer
      BY <1>7 DEF Claim
    <2>2. CASE Reject(n)
      BY <1>5, <2>1, <2>2 DEF W!Next
    <2>3. CASE ~Reject(n)
      <3>1. ~aborted /\ UNCHANGED aborted
        BY <1>7, <2>3 DEF Claim, Dispatch
      <3>2. PICK v \in {"setup", "forking"} : at' = [at EXCEPT ![n] = v]
        BY <1>7, <2>3 DEF Claim, Dispatch
      <3>3. InFlight' = InFlight \cup {n} /\ Done' = Done /\ Lost' = Lost
        BY <1>1, <2>1, <3>2, Seen
      <3>4. Kept' = Kept /\ edges' = edges /\ phase' = phase
        BY <1>1, <2>1, <3>2, Seen
      <3>5. W!Ready(n)
        BY <2>1, IdleIsReady
      <3>6. W!Start(n)
        BY <2>1, <3>1, <3>3, <3>4, <3>5 DEF W!Start
      <3> QED  BY <3>6 DEF W!Next
    <2> QED  BY <2>2, <2>3
  <1>8. CASE SetUp(n)
    BY <1>3, <1>8 DEF SetUp
  <1>9. CASE SetUpFails(n)
    BY <1>5, <1>9 DEF SetUpFails, W!Next
  <1>10. CASE Fork(n)
    <2>1. PICK v \in {"closing", "running"} : at' = [at EXCEPT ![n] = v]
      BY <1>10 DEF Fork
    <2> QED  BY <1>3, <1>10, <2>1 DEF Fork
  <1>11. CASE ForkFails(n)
    <2>1. CASE n \in trees
      BY <1>3, <1>11, <2>1 DEF ForkFails
    <2>2. CASE n \notin trees
      BY <1>5, <1>11, <2>2 DEF ForkFails, W!Next
    <2> QED  BY <2>1, <2>2
  <1>12. CASE Answer(n)
    BY <1>3, <1>12 DEF Answer
  <1>13. CASE Close(n)
    <2>1. CASE n \in trees
      BY <1>3, <1>13, <2>1 DEF Close
    <2>2. CASE n \notin trees
      BY <1>6, <1>13, <2>2 DEF Close
    <2> QED  BY <2>1, <2>2
  <1>14. CASE Tidy(n)
    BY <1>6, <1>14 DEF Tidy
  <1>15. CASE Redispatch(n)
    <2>1. CASE Reject(n)
      BY <1>5, <1>15, <2>1 DEF Redispatch, W!Next
    <2>2. CASE ~Reject(n)
      <3>1. PICK v \in {"setup", "forking"} : at' = [at EXCEPT ![n] = v] /\ UNCHANGED aborted
        BY <1>15, <2>2 DEF Redispatch, Dispatch
      <3> QED  BY <1>3, <1>15, <3>1 DEF Redispatch
    <2> QED  BY <2>1, <2>2
  <1> QED  BY <1>7, <1>8, <1>9, <1>10, <1>11, <1>12, <1>13, <1>14, <1>15 DEF NodeStep

\* Between layers nobody works, and what a layer came to is in the books.
LEMMA NobodyWorks ==
  ASSUME NodeInv, \A n \in Node : at[n] = "idle"
  PROVE  InFlight = {} /\ Done = outputs /\ Lost = failed
  BY Places DEF InFlight, Done, Lost, NodeInv

\* The executor's own steps: a call, the ends of a layer, the checkpoint, the return.
LEMMA RunWorks ==
  ASSUME Inv, Inv', Launch \/ RunStep \/ Abort \/ Crash
  PROVE  W!Next \/ UNCHANGED W!vars
  <1> USE DEF books
  <1>1. phase # "layer" => InFlight = {} /\ Done = outputs /\ Lost = failed
    BY AllIdle, NobodyWorks DEF Inv
  <1>2. Forgotten => (InFlight = {} /\ Done = outputs /\ Lost = failed)'
    BY Places DEF Forgotten, InFlight, Done, Lost
  <1>3. CASE Launch
    <2>1. PICK g \in Graphs :
            /\ edges' = g /\ outputs' = Loaded(g).outputs /\ failed' = Loaded(g).failed
      BY <1>3 DEF Launch
    <2>2. Kept' = Kept /\ aborted' \in BOOLEAN /\ phase' = "choose" /\ phase \in {"off", "returned"}
      BY <1>3 DEF Launch, Kept
    <2>3. (InFlight = {} /\ Done = outputs /\ Lost = failed)'
      BY <1>2, <1>3 DEF Launch
    <2> DEFINE known == {k \in Kept : k.graph = g}
    <2>4. /\ Loaded(g).outputs = UNION {k.done : k \in known}
          /\ Loaded(g).failed = UNION {k.lost : k \in known}
      <3>1. CASE opt.durable /\ disk # None /\ disk.edges = g
        <4>1. known = {[graph |-> disk.edges, done |-> disk.outputs, lost |-> disk.failed]}
          BY <3>1 DEF Kept
        <4> HIDE DEF known
        <4> QED  BY <3>1, <4>1 DEF Loaded
      <3>2. CASE ~(opt.durable /\ disk # None /\ disk.edges = g)
        <4>1. known = {}
          BY <3>2 DEF Kept
        <4> HIDE DEF known
        <4> QED  BY <3>2, <4>1 DEF Loaded
      <3> QED  BY <3>1, <3>2
    <2>5. W!Call(g)
      BY <2>1, <2>2, <2>3, <2>4 DEF W!Call
    <2> QED  BY <2>5 DEF W!Next
  <1>4. CASE NextLayer
    <2>1. UNCHANGED <<opt, edges, at, aborted, outputs, failed, disk>>
          /\ phase = "choose" /\ phase' = "layer"
      BY <1>4 DEF NextLayer
    <2>2. UNCHANGED <<InFlight, Done, Lost, Kept>>
      BY <2>1 DEF InFlight, Done, Lost, Kept
    <2> QED  BY <2>1, <2>2 DEF W!vars
  <1>5. CASE EndLayer
    <2> DEFINE won == {n \in layer : at[n] = "ok"}
    <2>1. /\ phase = "layer" /\ phase' \in {"saving", "choose"}
          /\ \A n \in layer : at[n] \in Settled
          /\ outputs' = outputs \cup won /\ failed' = failed \cup (layer \ won)
          /\ aborted' \in {aborted, TRUE} /\ UNCHANGED <<opt, edges, disk>> /\ Forgotten
      BY <1>5 DEF EndLayer, Inv, NodeInv, NodeType, BooksInv, BooksType
    <2>2. \A n \in Node : at[n] # "idle" => n \in layer
      BY DEF Inv, NodeInv
    <2>3. layer \subseteq Node
      BY DEF Inv, BooksInv, BooksType
    <2>4. InFlight = {}
      BY <2>1, <2>2, Places DEF InFlight
    <2>5. Done = outputs'
      BY <2>1, <2>2, <2>3 DEF Done
    <2>6. Lost = failed'
      BY <2>1, <2>2, <2>3, Places DEF Lost
    <2>7. UNCHANGED <<InFlight, Done, Lost, Kept>>
      BY <1>2, <2>1, <2>4, <2>5, <2>6 DEF Kept
    <2>8. UNCHANGED W!vars \/ W!Stop
      BY <2>1, <2>7 DEF W!vars, W!Stop
    <2> QED  BY <2>8 DEF W!Next
  <1>6. CASE Save
    <2>1. /\ phase = "saving" /\ phase' = "choose"
          /\ UNCHANGED <<opt, edges, at, aborted, outputs, failed>>
          /\ disk' = [edges |-> edges, outputs |-> outputs, failed |-> failed,
                      skipped |-> skipped]
      BY <1>6 DEF Save
    <2>2. UNCHANGED <<InFlight, Done, Lost>>
      BY <2>1 DEF InFlight, Done, Lost
    <2>3. disk' # None
      BY <2>1, NoneAssumption DEF Inv, BooksInv, BooksType
    <2>4. opt.durable => Kept' = {[graph |-> edges, done |-> outputs, lost |-> failed]}
      BY <2>1, <2>3 DEF Kept
    <2>5. ~opt.durable => Kept' = Kept
      BY <2>1 DEF Kept
    <2>6. CASE opt.durable
      BY <1>1, <2>1, <2>2, <2>4, <2>6 DEF W!Keep, W!Outcomes, W!Next
    <2>7. CASE ~opt.durable
      BY <2>1, <2>2, <2>5, <2>7 DEF W!vars
    <2> QED  BY <2>6, <2>7
  <1>7. CASE SaveFails
    <2>1. UNCHANGED <<opt, edges, at, aborted, outputs, failed, disk>>
          /\ phase = "saving" /\ phase' = "choose"
      BY <1>7 DEF SaveFails
    <2>2. UNCHANGED <<InFlight, Done, Lost, Kept>>
      BY <2>1 DEF InFlight, Done, Lost, Kept
    <2> QED  BY <2>1, <2>2 DEF W!vars
  <1>8. CASE Return
    <2>1. /\ phase = "choose" /\ phase' = "returned"
          /\ UNCHANGED <<opt, edges, at, aborted, outputs, failed, skipped>>
          /\ disk' = disk \/ (opt.durable /\ failed = {} /\ disk' = None)
      BY <1>8 DEF Return
    <2>2. UNCHANGED <<InFlight, Done, Lost>>
      BY <2>1 DEF InFlight, Done, Lost
    <2>3. Kept' = Kept \/ (Kept' = {} /\ Lost = {})
      BY <1>1, <2>1 DEF Kept
    <2>4. ~aborted => W!Complete
      <3>1. Accounted'
        BY AllAccounted, PTL
      <3>2. ASSUME ~aborted
            PROVE  Node = outputs \cup failed \cup UNION {Below(n) : n \in failed}
        <4>1. \A n : Below(n)' = Below(n)
          BY <2>1 DEF Below, Downstream
        <4> QED  BY <2>1, <3>1, <3>2, <4>1 DEF Accounted
      <3>3. ASSUME ~aborted, NEW S \in SUBSET Node, failed \subseteq S,
                   \A u \in S, n \in Node : <<u, n>> \in edges => n \in S
            PROVE  Node \ outputs \subseteq S
        <4>1. \A n \in failed : Below(n) \subseteq S
          BY <3>3 DEF Below, Downstream
        <4> QED  BY <3>2, <3>3, <4>1
      <3> QED  BY <1>1, <2>1, <3>3 DEF W!Complete
    <2>5. W!Return
      BY <1>1, <2>1, <2>2, <2>3, <2>4 DEF W!Return
    <2> QED  BY <2>5 DEF W!Next
  <1>9. CASE Abort
    <2>1. /\ phase \in {"layer", "saving"} /\ aborted' = TRUE
          /\ UNCHANGED <<opt, edges, phase, at, outputs, failed, disk>>
      BY <1>9 DEF Abort
    <2>2. UNCHANGED <<InFlight, Done, Lost, Kept>>
      BY <2>1 DEF InFlight, Done, Lost, Kept
    <2> QED  BY <2>1, <2>2 DEF W!Stop, W!Next
  <1>10. CASE Crash
    <2>1. /\ phase \notin {"off", "returned"} /\ phase' = "off" /\ aborted' = FALSE
          /\ edges' = {} /\ outputs' = {} /\ failed' = {} /\ UNCHANGED <<opt, disk>> /\ Forgotten
      BY <1>10 DEF Crash
    <2>2. Kept' = Kept
      BY <2>1 DEF Kept
    <2> QED  BY <1>2, <2>1, <2>2 DEF W!Die, W!Next
  <1> QED  BY <1>3, <1>4, <1>5, <1>6, <1>7, <1>8, <1>9, <1>10 DEF RunStep

LEMMA NextWorks == Inv /\ Inv' /\ [Next]_vars => [W!Next]_(W!vars)
  <1> SUFFICES ASSUME Inv, Inv', [Next]_vars PROVE W!Next \/ UNCHANGED W!vars
    OBVIOUS
  <1>1. CASE Launch \/ RunStep \/ Abort \/ Crash
    BY <1>1, RunWorks
  <1>2. CASE \E n \in Node : NodeStep(n)
    BY <1>2, NodeWorks
  <1>3. CASE \E n \in Node : TimeOut(n)
    BY <1>3 DEF TimeOut, frame, books, W!vars, InFlight, Done, Lost, Kept
  <1>4. CASE UNCHANGED vars
    BY <1>4 DEF vars, books, W!vars, InFlight, Done, Lost, Kept
  <1> QED  BY <1>1, <1>2, <1>3, <1>4 DEF Next

\* The executor implements the abstract workflow: a node is run to one outcome in a
\* call, after all of its inputs and never after an abort was seen, retries, refused
\* sessions and worktrees included; what was saved is what the next call of the
\* graph starts from, whenever the process dies; and a call that was not aborted
\* leaves nothing out but what is below a failure.
THEOREM ExecutorIsWorkflow == Spec => IsWorkflow
  <1>1. Init => W!Init
    BY Places DEF Init, W!Init, InFlight, Done, Lost, Kept
  <1>2. Inv /\ Inv' /\ [Next]_vars => [W!Next]_(W!vars)
    BY NextWorks
  <1> QED  BY <1>1, <1>2, Always, PTL DEF Spec, IsWorkflow, W!Spec
===============================================================================
