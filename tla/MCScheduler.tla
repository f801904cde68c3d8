------------------------------ MODULE MCScheduler ------------------------------
(* Instances of Scheduler for TLC: a retried agent task that also starts with *)
(* the daemon, a one-shot, a builtin; a resume of the agent task and a command. *)
EXTENDS Scheduler

MCSched == {"job", "once", "prune"}
MCExec == [t \in MCSched |-> CASE t = "job" -> "agent" [] t = "once" -> "shell" [] t = "prune" -> "builtin"]
MCTries == [t \in MCSched |-> IF t = "job" THEN 2 ELSE 1]
MCEntry == {"answer", "command"}
MCOriginal == [e \in MCEntry |-> IF e = "answer" THEN "job" ELSE e]
MCSlot == 1 .. 2
================================================================================
