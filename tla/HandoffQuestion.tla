---------------------------- MODULE HandoffQuestion ----------------------------
(***************************************************************************)
(* What the handoff promises about one question to a human: it is settled  *)
(* once, by an answer or by its expiry and never before it was asked; only *)
(* an accepted answer resumes the task, and where delivery is exact it     *)
(* does so once.                                                           *)
(***************************************************************************)
EXTENDS Naturals

CONSTANT exact   \* nobody dies and sweeps do not overlap: no answer is enqueued again

VARIABLES asked, answers, lapses, resumes

vars == <<asked, answers, lapses, resumes>>

Unsettled == answers = 0 /\ lapses = 0

Init == asked = FALSE /\ answers = 0 /\ lapses = 0 /\ resumes = 0

Ask ==
    /\ ~asked
    /\ asked' = TRUE
    /\ UNCHANGED <<answers, lapses, resumes>>

Answer ==
    /\ asked /\ Unsettled
    /\ answers' = 1
    /\ UNCHANGED <<asked, lapses, resumes>>

Lapse ==
    /\ asked /\ Unsettled
    /\ lapses' = 1
    /\ UNCHANGED <<asked, answers, resumes>>

Resume ==
    /\ answers = 1
    /\ exact => resumes = 0
    /\ resumes' = resumes + 1
    /\ UNCHANGED <<asked, answers, lapses>>

Next == Ask \/ Answer \/ Lapse \/ Resume

Spec == Init /\ [][Next]_vars
=============================================================================
