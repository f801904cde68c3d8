------------------------------ MODULE DurableQueue ------------------------------
(***************************************************************************)
(* What the daemon's pull queue promises whoever adds a task.  Whatever    *)
(* fails, an accepted task waits until it is settled (archived) or         *)
(* withdrawn.  While the queue is sound - one daemon and no fault so far - *)
(* it runs one session at a time, only while the task waits and within     *)
(* its budget; only a running session settles it; and a session that ends  *)
(* leaves its task settled, withdrawn, or with an attempt left.            *)
(***************************************************************************)
EXTENDS Naturals

CONSTANTS Task, Budget

VARIABLES waiting, settled, withdrawn, running, starts, sound

vars == <<waiting, settled, withdrawn, running, starts, sound>>

Accepted == waiting \cup settled \cup withdrawn

\* An unsound queue may be what an earlier failure has left behind.
Init ==
    /\ Accepted \subseteq Task /\ running = {}
    /\ starts \in [Task -> Nat] /\ sound \in BOOLEAN
    /\ sound => Accepted = {} /\ \A t \in Task : starts[t] = 0

Accept(t) ==
    /\ t \notin Accepted
    /\ waiting' = waiting \cup {t}
    /\ UNCHANGED <<settled, withdrawn, running, starts, sound>>

Start(t) ==
    /\ t \in Accepted
    /\ sound => t \in waiting /\ t \notin running /\ starts[t] < Budget[t]
    /\ running' = running \cup {t}
    /\ starts' = [starts EXCEPT ![t] = @ + 1]
    /\ UNCHANGED <<waiting, settled, withdrawn, sound>>

Settle(t) ==
    /\ t \in Accepted
    /\ sound => t \in waiting /\ t \in running
    /\ waiting' = waiting \ {t} /\ settled' = settled \cup {t}
    /\ UNCHANGED <<withdrawn, running, starts, sound>>

\* By its owner, or by a failure to take it.
Withdraw(t) ==
    /\ t \in Accepted
    /\ sound => t \in waiting
    /\ waiting' = waiting \ {t} /\ withdrawn' = withdrawn \cup {t}
    /\ sound' \in {sound, FALSE}
    /\ UNCHANGED <<settled, running, starts>>

\* The session of a task returns, or dies with its daemon.
End(t) ==
    /\ t \in running
    /\ running' = running \ {t}
    /\ sound' \in {sound, FALSE}
    /\ sound' => t \notin waiting \/ starts[t] < Budget[t]
    /\ UNCHANGED <<waiting, settled, withdrawn, starts>>

Fault ==
    /\ sound' = FALSE
    /\ UNCHANGED <<waiting, settled, withdrawn, running, starts>>

Next ==
    \/ \E t \in Task : Accept(t) \/ Start(t) \/ Settle(t) \/ Withdraw(t) \/ End(t)
    \/ Fault

Spec == Init /\ [][Next]_vars
=============================================================================
