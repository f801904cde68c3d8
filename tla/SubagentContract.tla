--------------------------- MODULE SubagentContract ---------------------------
(***************************************************************************)
(* What forking one subagent promises those who watch it: the caller that  *)
(* waits for its outcome, the trace, the job list, the SubagentStop hook   *)
(* and the manager.  The outcome is given once and never changes; it has   *)
(* its row in the trace and decides the job.  The hook hears of the end    *)
(* once, and of that outcome if nobody but the owner has ended the agent.  *)
(* It is forgotten only when it has an outcome or its end was announced,   *)
(* and what it holds is freed once, after that and with no job running.    *)
(***************************************************************************)
EXTENDS Naturals

VARIABLES
    forked, tracked,   \* there is such an agent; its manager knows it
    rows,              \* the terminal statuses in the trace
    outcome,           \* what the caller is given
    job,               \* the status in the job list
    stops,             \* what SubagentStop was told, in order
    alone,             \* nobody but the owner has begun to end it
    freed              \* times its worktree and slot were freed

vars == <<forked, tracked, rows, outcome, job, stops, alone, freed>>

Terminal == {"succeeded", "failed", "cancelled"}
JobOf(status) == IF status = "succeeded" THEN "completed" ELSE status

Init ==
    /\ forked = FALSE /\ tracked = FALSE
    /\ rows = {} /\ outcome = "none" /\ job = "none"
    /\ stops = <<>> /\ alone = TRUE /\ freed = 0

Fork ==
    /\ ~forked /\ forked' = TRUE /\ tracked' = TRUE
    /\ UNCHANGED <<rows, outcome, job, stops, alone, freed>>

\* Its run or somebody who ends it writes a row; somebody may only begin to end it.
Log ==
    /\ forked
    /\ rows \subseteq rows' /\ rows' \subseteq Terminal
    /\ alone' \in {alone, FALSE}
    /\ UNCHANGED <<forked, tracked, outcome, job, stops, freed>>

Enlist ==
    /\ forked /\ outcome = "none" /\ job = "none"
    /\ job' = "running"
    /\ UNCHANGED <<forked, tracked, rows, outcome, stops, alone, freed>>

\* The run is over, for a job that runs, one that is over before it began, or none.
Resolve(status) ==
    /\ forked /\ outcome = "none" /\ status \in rows
    /\ alone /\ stops # <<>> => stops[1] = status
    /\ outcome' = status
    /\ job' = JobOf(status) \/ (job = "none" /\ job' = job)
    /\ tracked' \in {tracked, FALSE}
    /\ UNCHANGED <<forked, rows, stops, alone, freed>>

\* The call becomes a job when its outcome is already there.
EnlistLate ==
    /\ outcome # "none" /\ job = "none"
    /\ job' = JobOf(outcome)
    /\ UNCHANGED <<forked, tracked, rows, outcome, stops, alone, freed>>

Announce(status) ==
    /\ forked /\ stops = <<>>
    /\ alone /\ outcome # "none" => status = outcome
    /\ stops' = <<status>>
    /\ UNCHANGED <<forked, tracked, rows, outcome, job, alone, freed>>

Forget ==
    /\ tracked /\ (outcome # "none" \/ stops # <<>>)
    /\ tracked' = FALSE
    /\ UNCHANGED <<forked, rows, outcome, job, stops, alone, freed>>

Free ==
    /\ stops # <<>> /\ job # "running"
    /\ freed = 0 /\ freed' = 1
    /\ UNCHANGED <<forked, tracked, rows, outcome, job, stops, alone>>

Next ==
    \/ Fork \/ Log \/ Enlist \/ EnlistLate \/ Forget \/ Free
    \/ \E status \in Terminal : Resolve(status) \/ Announce(status)

Spec == Init /\ [][Next]_vars
===============================================================================
