----------------------------- MODULE PeerMailbox -----------------------------
(***************************************************************************)
(* What peer messaging promises a sender: a message that was queued waits  *)
(* until the receiving session has seen it, its operator has refused it,   *)
(* or it has lapsed after a day.  Delivery is at least once, so `seen`     *)
(* says nothing of a second time.                                          *)
(***************************************************************************)
CONSTANT Msg

VARIABLES waiting, seen, refused, lapsed, sound

vars == <<waiting, seen, refused, lapsed, sound>>

Init ==
    /\ waiting = {} /\ seen = {} /\ refused = {} /\ lapsed = {}
    /\ sound \in BOOLEAN

Queue(m) ==
    /\ m \notin waiting \cup seen \cup refused \cup lapsed
    /\ waiting' = waiting \cup {m}
    /\ UNCHANGED <<seen, refused, lapsed, sound>>

See(m) ==
    /\ m \in waiting \cup lapsed
    /\ seen' = seen \cup {m}
    /\ waiting' = waiting \ {m} /\ lapsed' = lapsed \ {m}
    /\ UNCHANGED <<refused, sound>>

Refuse(m) ==
    /\ m \in waiting \cup lapsed
    /\ refused' = refused \cup {m}
    /\ waiting' = waiting \ {m} /\ lapsed' = lapsed \ {m}
    /\ UNCHANGED <<seen, sound>>

Lapse(m) ==
    /\ m \in waiting
    /\ lapsed' = lapsed \cup {m}
    /\ waiting' = waiting \ {m}
    /\ UNCHANGED <<seen, refused, sound>>

\* A mailbox that is not sound promises nothing.
Unreliable == ~sound /\ sound' = sound

Next ==
    \/ \E m \in Msg : Queue(m) \/ See(m) \/ Refuse(m) \/ Lapse(m)
    \/ Unreliable

Spec == Init /\ [][Next]_vars
=============================================================================
