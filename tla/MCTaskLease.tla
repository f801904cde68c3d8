----------------------------- MODULE MCTaskLease -----------------------------
(* Instances of TaskLease for TLC. *)
EXTENDS TaskLease

CONSTANT NumTasks

MCTask == 1 .. NumTasks
MCBudget1 == [t \in MCTask |-> 1]
MCBudgets == [t \in MCTask |-> t]
\* A task of the main pull queue is in flight under its own id ...
MCOwnKey == [t \in MCTask |-> t]
\* ... a resumed task under the id of the task that asked the question.
MCOriginalKey == [t \in MCTask |-> 0]

\* Two daemons and a power failure have left a parked record in a claim file: one
\* of them read the lease as expired, the other parked it, the first renamed it.
ParkedClaim ==
    /\ submitted = {1} /\ removed = {}
    /\ queue = {} /\ leased = [t \in Task |-> NoFile] /\ completed = {} /\ dead = {}
    /\ names = 1
    /\ scratch = {[name |-> 0, kind |-> "claim", id |-> 1,
                   rec |-> [attempts |-> 1, state |-> "waiting", expired |-> TRUE]]}
    /\ handoff = [t \in Task |-> IF t = 1 THEN "pending" ELSE "none"]
    /\ runs = [t \in Task |-> IF t = 1 THEN 1 ELSE 0]
    /\ pc = [p \in Proc |-> "down"]
    /\ session = [p \in Proc |-> None] /\ asking = [p \in Proc |-> FALSE]
    /\ unpark = [p \in Proc |-> None] /\ recovered = [p \in Proc |-> FALSE]
    /\ todo = [p \in Proc |-> {}] /\ job = [p \in Proc |-> NoJob]
    /\ crashes = MaxCrashes /\ throws = 0

MCSpec == (Init \/ ParkedClaim) /\ [][Next]_vars /\ Fairness
=============================================================================
