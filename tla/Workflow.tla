------------------------------- MODULE Workflow -------------------------------
(***************************************************************************)
(* What the workflow executor promises its caller about a graph.  In a     *)
(* call a node is run at most once to an outcome, after every node         *)
(* upstream of it has one and none of them failed, and never after the     *)
(* call was stopped; a call that nobody stops leaves out only what is      *)
(* below a failure.  Outcomes that were kept for the same graph outlive    *)
(* the process and are taken over by the next call.                        *)
(***************************************************************************)
CONSTANTS Node, Graphs

VARIABLES
    graph,     \* the edges of the call
    open,      \* a call is under way
    stopped,   \* ... and starts nothing any more
    running,   \* the nodes that are being worked on
    done,      \* the nodes with an output
    lost,      \* the nodes that failed
    kept       \* outcomes kept for a later call: of one graph, or none

vars == <<graph, open, stopped, running, done, lost, kept>>

Outcomes == [graph |-> graph, done |-> done, lost |-> lost]

Init ==
    /\ graph = {} /\ ~open /\ stopped = FALSE
    /\ running = {} /\ done = {} /\ lost = {} /\ kept = {}

\* A caller may come with a signal that has fired already.
Call(g) ==
    /\ ~open /\ open' = TRUE /\ stopped' \in BOOLEAN
    /\ graph' = g /\ running' = {}
    /\ LET known == {k \in kept : k.graph = g}
       IN  /\ done' = UNION {k.done : k \in known}
           /\ lost' = UNION {k.lost : k \in known}
    /\ kept' = kept

Ready(n) ==
    /\ n \notin running \cup done \cup lost
    /\ \A u \in Node : <<u, n>> \in graph => u \in done

Start(n) ==
    /\ open /\ ~stopped /\ Ready(n)
    /\ running' = running \cup {n}
    /\ UNCHANGED <<graph, open, stopped, done, lost, kept>>

Succeed(n) ==
    /\ open /\ n \in running
    /\ running' = running \ {n} /\ done' = done \cup {n}
    /\ UNCHANGED <<graph, open, stopped, lost, kept>>

\* A node fails while it runs or is refused a session; that may stop the call.
Fail(n) ==
    /\ open /\ (n \in running \/ Ready(n))
    /\ running' = running \ {n} /\ lost' = lost \cup {n}
    /\ stopped' \in {stopped, TRUE}
    /\ UNCHANGED <<graph, open, done, kept>>

Stop ==
    /\ open /\ stopped' = TRUE
    /\ UNCHANGED <<graph, open, running, done, lost, kept>>

\* Outcomes are kept between nodes, never in the middle of one.
Keep ==
    /\ open /\ running = {}
    /\ kept' = {Outcomes}
    /\ UNCHANGED <<graph, open, stopped, running, done, lost>>

\* Every node without an output has failed or waits, at any distance, for one that did.
Complete ==
    \A S \in SUBSET Node :
        lost \subseteq S /\ (\A u \in S, n \in Node : <<u, n>> \in graph => n \in S)
            => Node \ done \subseteq S

\* The call is back.  What was kept may be dropped if nothing has failed.
Return ==
    /\ open /\ open' = FALSE
    /\ running = {} /\ (stopped \/ Complete)
    /\ kept' = kept \/ (kept' = {} /\ lost = {})
    /\ UNCHANGED <<graph, stopped, running, done, lost>>

Die ==
    /\ open /\ open' = FALSE /\ stopped' = FALSE
    /\ graph' = {} /\ running' = {} /\ done' = {} /\ lost' = {}
    /\ kept' = kept

Next ==
    \/ \E g \in Graphs : Call(g)
    \/ \E n \in Node : Start(n) \/ Succeed(n) \/ Fail(n)
    \/ Stop \/ Keep \/ Return \/ Die

Spec == Init /\ [][Next]_vars
===============================================================================
