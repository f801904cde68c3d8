----------------------------- MODULE HandoffProofs -----------------------------
(***************************************************************************)
(* One question, and either no process dies or only one caller ever takes  *)
(* the lock: proof that the question is settled at most once and that an   *)
(* accepted answer is never lost, for any number of surfaces, expiry       *)
(* sweeps, route updates and answer sweeps.  Nobody is then inside         *)
(* withHandoffLock with somebody else, and whoever is inside moves the     *)
(* record away from pending, for good; from there a sweep carries it to    *)
(* the queue.  With one sweep at a time and no crash it does so once.      *)
(* Together these make the handoff implement the question of               *)
(* HandoffQuestion.                                                        *)
(***************************************************************************)
EXTENDS Handoff, TLAPS

OneLocker == \A a, b \in Locker : a = b
Scope == MaxQuestions = 1 /\ (MaxCrashes = 0 \/ OneLocker)

Open == \A q \in Question : wins[q] = 0 /\ expiries[q] = 0

\* withHandoffLock excludes: the file is the lock of the one actor inside.
Exclusion ==
    /\ ~lock.old
    /\ lock.holder \in Locker => pc[lock.holder] \in Critical
    /\ \A a \in Locker : /\ pc[a] \notin {"steal", "reopen"}
                         /\ pc[a] \in Critical => lock.holder = a

\* What exclusion is for; a single caller needs no lock to have it.
Alone == \A a, b \in Locker : pc[a] \in Critical /\ pc[b] \in Critical => a = b

\* Where the question is pending nobody has settled it yet.
PendingIsOpen ==
    /\ file.status = "pending" \/ asked = 0 => Open
    /\ file # NoRecord => file.q \in 1 .. asked /\ file.status # "none"
    /\ \A a \in Locker : pc[a] = "write" =>
          Open /\ got[a].status = "pending" /\ got[a].q \in 1 .. asked

\* What a sweep claims is answered, so it never puts a pending record back.
ClaimIsAnswered ==
    /\ file.status = "answered" => ~Open
    /\ claim # NoRecord => ~Open /\ claim.status = "answered" /\ claim.q \in 1 .. asked
    /\ \A s \in Sweeper : pc[s] = "claim" => ~Open /\ file.status \in {"none", "answered"}

HandoffInv == PendingIsOpen /\ ClaimIsAnswered /\ SettledOnce

\* A sweep drops a claim only after it has enqueued its answer.
DropsResumed == \A s \in Sweeper : pc[s] \in {"drop", "dropOrphan"} => resumed[1] > 0

\* One sweep: the answer is in one place, and the claim of an answer that has
\* been enqueued is about to be dropped.
Moves ==
    /\ claim # NoRecord => file = NoRecord
    /\ \A s \in Sweeper : pc[s] # "restore" /\ (pc[s] = "reread" => claim # NoRecord)
    /\ resumed[1] > 0 =>
          /\ ~Open /\ file = NoRecord
          /\ claim # NoRecord => \E s \in Sweeper : pc[s] \in {"drop", "dropOrphan"}

-----------------------------------------------------------------------------
\* The types hold before the first question.
LEMMA InitType == Init => TypeOK
  BY BoundAssumption DEF Init, TypeOK, Record, NoRecord, Lock, NoLock, Stage

\* Every sweep, question, reply and crash keeps the types.
LEMMA StepType == TypeOK /\ [Next]_vars => TypeOK'
  <1> SUFFICES ASSUME TypeOK, [Next]_vars PROVE TypeOK'
    OBVIOUS
  <1> USE BoundAssumption DEF TypeOK, Goto, Stage, LockStage, SweepStage, Critical
  <1>a. /\ Answerer \subseteq Locker /\ Expirer \subseteq Locker /\ Router \subseteq Locker
        /\ Locker \subseteq Actor /\ Sweeper \subseteq Actor
    BY DEF Locker, Actor
  <1>b. /\ NoRecord \in Record /\ NoLock \in Lock
        /\ \A a \in Locker : [holder |-> a, old |-> FALSE] \in Lock
    BY DEF NoRecord, Record, NoLock, Lock
  <1>c. Question \subseteq 0 .. MaxQuestions /\ Question \subseteq Nat
    BY DEF Question
  <1>d. \A r \in Record, f \in [Question -> Nat] :
          [f EXCEPT ![r.q] = @ + 1] \in [Question -> Nat]
    <2> SUFFICES ASSUME NEW r \in Record, NEW f \in [Question -> Nat]
                 PROVE  [f EXCEPT ![r.q] = @ + 1] \in [Question -> Nat]
      OBVIOUS
    <2>1. \A n \in Nat : n + 1 \in Nat
      OBVIOUS
    <2>2. \A q \in Question : f[q] + 1 \in Nat
      BY <2>1
    <2>3. QED
      BY <2>2
  <1> USE <1>a, <1>b, <1>c
  <1>1. ASSUME Ask PROVE TypeOK'
    <2>1. asked' \in 0 .. MaxQuestions /\ asked' = asked + 1
      BY <1>1 DEF Ask
    <2>2. file' \in Record
      <3>1. file' = [q |-> asked', status |-> "pending", answer |-> 0, old |-> FALSE, due |-> FALSE]
        BY <1>1, <2>1 DEF Ask
      <3>2. 0 \in 0 .. MaxQuestions
        OBVIOUS
      <3>3. QED
        BY <2>1, <3>1, <3>2 DEF Record
    <2>3. QED
      BY <1>1, <2>1, <2>2 DEF Ask
  <1>2. ASSUME AgeRecord PROVE TypeOK'
    <2>1. file' \in Record /\ claim' \in Record
      BY <1>2 DEF AgeRecord, Record
    <2>2. QED
      BY <1>2, <2>1 DEF AgeRecord
  <1>3. ASSUME TtlPasses PROVE TypeOK'
    <2>1. file' \in Record
      BY <1>3 DEF TtlPasses, Record
    <2>2. QED
      BY <1>3, <2>1 DEF TtlPasses
  <1>4. ASSUME AgeLock PROVE TypeOK'
    <2>1. lock' \in Lock
      BY <1>4 DEF AgeLock, Lock
    <2>2. QED
      BY <1>4, <2>1 DEF AgeLock
  <1>5. ASSUME NEW a \in Answerer, NEW q \in Question, Reply(a, q) PROVE TypeOK'
    BY <1>5 DEF Reply
  <1>6. ASSUME NEW a \in Expirer, FindStale(a) PROVE TypeOK'
    BY <1>6 DEF FindStale
  <1>7. ASSUME NEW a \in Router, QuestionSent(a) PROVE TypeOK'
    BY <1>7 DEF QuestionSent
  <1>8. ASSUME NEW a \in Locker, OpenLock(a) PROVE TypeOK'
    BY <1>8 DEF OpenLock, TakeOr
  <1>9. ASSUME NEW a \in Locker, StatLock(a) PROVE TypeOK'
    BY <1>9 DEF StatLock
  <1>10. ASSUME NEW a \in Locker, StealLock(a) PROVE TypeOK'
    BY <1>10 DEF StealLock
  <1>11. ASSUME NEW a \in Locker, ReopenLock(a) PROVE TypeOK'
    BY <1>11 DEF ReopenLock, TakeOr
  <1>12. ASSUME NEW a \in Locker, ReadRecord(a) PROVE TypeOK'
    BY <1>12 DEF ReadRecord, Updatable
  <1>13. ASSUME NEW a \in Locker, WriteRecord(a) PROVE TypeOK'
    <2>1. file' \in Record
      BY <1>13 DEF WriteRecord, Updated, Record
    <2>2. wins' \in [Question -> Nat]
      BY <1>13, <1>d DEF WriteRecord
    <2>3. expiries' \in [Question -> Nat]
      BY <1>13, <1>d DEF WriteRecord
    <2>4. QED
      BY <1>13, <2>1, <2>2, <2>3 DEF WriteRecord
  <1>14. ASSUME NEW a \in Locker, Unlock(a) PROVE TypeOK'
    BY <1>14 DEF Unlock
  <1>15. ASSUME NEW s \in Sweeper, SweepStart(s) PROVE TypeOK'
    BY <1>15 DEF SweepStart
  <1>16. ASSUME NEW s \in Sweeper, StatClaim(s) PROVE TypeOK'
    BY <1>16 DEF StatClaim
  <1>17. ASSUME NEW s \in Sweeper, ReadOrphan(s) PROVE TypeOK'
    <2>1. resumed' \in [Question -> Nat]
      BY <1>17, <1>d DEF ReadOrphan, Enqueue
    <2>2. QED
      BY <1>17, <2>1 DEF ReadOrphan
  <1>18. ASSUME NEW s \in Sweeper, DropOrphan(s) PROVE TypeOK'
    BY <1>18 DEF DropOrphan
  <1>19. ASSUME NEW s \in Sweeper, ListAnswered(s) PROVE TypeOK'
    BY <1>19 DEF ListAnswered
  <1>20. ASSUME NEW s \in Sweeper, ClaimRecord(s) PROVE TypeOK'
    BY <1>20 DEF ClaimRecord
  <1>21. ASSUME NEW s \in Sweeper, RereadClaim(s) PROVE TypeOK'
    <2>1. resumed' \in [Question -> Nat]
      BY <1>21, <1>d DEF RereadClaim, Enqueue
    <2>2. QED
      BY <1>21, <2>1 DEF RereadClaim
  <1>22. ASSUME NEW s \in Sweeper, RestoreClaim(s) PROVE TypeOK'
    BY <1>22 DEF RestoreClaim
  <1>23. ASSUME NEW s \in Sweeper, DropClaim(s) PROVE TypeOK'
    BY <1>23 DEF DropClaim
  <1>24. ASSUME NEW group, Crash(group) PROVE TypeOK'
    BY <1>24 DEF Crash
  <1>25. CASE UNCHANGED vars
    BY <1>25 DEF vars
  <1>26. QED
    BY <1>1, <1>2, <1>3, <1>4, <1>5, <1>6, <1>7, <1>8, <1>9, <1>10, <1>11, <1>12, <1>13, <1>14, <1>15, <1>16, <1>17, <1>18, <1>19, <1>20, <1>21, <1>22, <1>23, <1>24, <1>25 DEF Next, LockStep, SweepStep

\* Every file and every local of the handoff code stays well formed, however the
\* surfaces, the sweeps and the crashes interleave.
THEOREM TypeInvariant == Spec => []TypeOK
  <1>1. Init => TypeOK
    BY InitType
  <1>2. TypeOK /\ [Next]_vars => TypeOK'
    BY StepType
  <1>3. QED
    BY <1>1, <1>2, PTL DEF Spec

-----------------------------------------------------------------------------
(* Who is inside withHandoffLock. *)

\* Nobody holds the lock at the start.
LEMMA InitExclusion == Init => Exclusion
  BY ActorAssumption DEF Init, Exclusion, NoLock, Critical, Locker, Actor

\* If no process dies a lock is never old, so nobody steals it.
LEMMA StepExclusion ==
    ASSUME MaxCrashes = 0, TypeOK, Exclusion, [Next]_vars
    PROVE  Exclusion'
  <1> USE BoundAssumption, ActorAssumption, MaxCrashes = 0
      DEF TypeOK, Exclusion, Goto, Critical, Lock, NoLock, Locker, Actor, Free
  <1>1. ASSUME Ask PROVE Exclusion'
    BY <1>1 DEF Ask
  <1>2. ASSUME AgeRecord PROVE Exclusion'
    BY <1>2 DEF AgeRecord
  <1>3. ASSUME TtlPasses PROVE Exclusion'
    BY <1>3 DEF TtlPasses
  <1>4. ASSUME AgeLock PROVE Exclusion'
    BY <1>4 DEF AgeLock
  <1>5. ASSUME NEW a \in Answerer, NEW q \in Question, Reply(a, q) PROVE Exclusion'
    BY <1>5 DEF Reply
  <1>6. ASSUME NEW a \in Expirer, FindStale(a) PROVE Exclusion'
    BY <1>6 DEF FindStale
  <1>7. ASSUME NEW a \in Router, QuestionSent(a) PROVE Exclusion'
    BY <1>7 DEF QuestionSent
  <1>8. ASSUME NEW a \in Locker, OpenLock(a) PROVE Exclusion'
    BY <1>8 DEF OpenLock, TakeOr
  <1>9. ASSUME NEW a \in Locker, StatLock(a) PROVE Exclusion'
    BY <1>9 DEF StatLock
  <1>10. ASSUME NEW a \in Locker, StealLock(a) PROVE Exclusion'
    BY <1>10 DEF StealLock
  <1>11. ASSUME NEW a \in Locker, ReopenLock(a) PROVE Exclusion'
    BY <1>11 DEF ReopenLock, TakeOr
  <1>12. ASSUME NEW a \in Locker, ReadRecord(a) PROVE Exclusion'
    BY <1>12 DEF ReadRecord, Updatable
  <1>13. ASSUME NEW a \in Locker, WriteRecord(a) PROVE Exclusion'
    BY <1>13 DEF WriteRecord, Updated
  <1>14. ASSUME NEW a \in Locker, Unlock(a) PROVE Exclusion'
    BY <1>14 DEF Unlock
  <1>15. ASSUME NEW s \in Sweeper, SweepStart(s) PROVE Exclusion'
    BY <1>15 DEF SweepStart
  <1>16. ASSUME NEW s \in Sweeper, StatClaim(s) PROVE Exclusion'
    BY <1>16 DEF StatClaim
  <1>17. ASSUME NEW s \in Sweeper, ReadOrphan(s) PROVE Exclusion'
    BY <1>17 DEF ReadOrphan, Enqueue
  <1>18. ASSUME NEW s \in Sweeper, DropOrphan(s) PROVE Exclusion'
    BY <1>18 DEF DropOrphan
  <1>19. ASSUME NEW s \in Sweeper, ListAnswered(s) PROVE Exclusion'
    BY <1>19 DEF ListAnswered
  <1>20. ASSUME NEW s \in Sweeper, ClaimRecord(s) PROVE Exclusion'
    BY <1>20 DEF ClaimRecord
  <1>21. ASSUME NEW s \in Sweeper, RereadClaim(s) PROVE Exclusion'
    BY <1>21 DEF RereadClaim, Enqueue
  <1>22. ASSUME NEW s \in Sweeper, RestoreClaim(s) PROVE Exclusion'
    BY <1>22 DEF RestoreClaim
  <1>23. ASSUME NEW s \in Sweeper, DropClaim(s) PROVE Exclusion'
    BY <1>23 DEF DropClaim
  <1>24. ASSUME NEW group, Crash(group) PROVE Exclusion'
    BY <1>24 DEF Crash
  <1>25. CASE UNCHANGED vars
    BY <1>25 DEF vars
  <1>26. QED
    BY <1>1, <1>2, <1>3, <1>4, <1>5, <1>6, <1>7, <1>8, <1>9, <1>10, <1>11, <1>12, <1>13, <1>14, <1>15, <1>16, <1>17, <1>18, <1>19, <1>20, <1>21, <1>22, <1>23, <1>24, <1>25 DEF Next, LockStep, SweepStep

\* In the scope of the theorems one caller at a time is inside the lock.
LEMMA AloneInside == ASSUME Scope PROVE Spec => []Alone
  <1>1. CASE MaxCrashes = 0
    <2>1. Init => TypeOK /\ Exclusion
      BY InitType, InitExclusion
    <2>2. TypeOK /\ Exclusion /\ [Next]_vars => (TypeOK /\ Exclusion)'
      BY <1>1, StepType, StepExclusion
    <2>3. Exclusion => Alone
      BY DEF Exclusion, Alone
    <2>4. QED
      BY <2>1, <2>2, <2>3, PTL DEF Spec
  <1>2. CASE OneLocker
    <2>1. Alone
      BY <1>2 DEF OneLocker, Alone
    <2>2. QED
      BY <2>1, PTL
  <1>3. QED
    BY <1>1, <1>2 DEF Scope

-----------------------------------------------------------------------------
(* The question is settled once. *)

\* The invariant holds of an empty inbox.
LEMMA InitHandoff == Init => HandoffInv
  BY ActorAssumption DEF Init, HandoffInv, PendingIsOpen, ClaimIsAnswered, SettledOnce,
     Open, NoRecord, Locker, Actor

\* Every step keeps it.
LEMMA StepHandoff ==
    ASSUME MaxQuestions = 1, TypeOK, Alone, HandoffInv, [Next]_vars
    PROVE  HandoffInv'
  <1> USE BoundAssumption, ActorAssumption, MaxQuestions = 1
      DEF TypeOK, Alone, HandoffInv, PendingIsOpen, ClaimIsAnswered, SettledOnce, Open,
          Goto, Critical, Record, NoRecord, Locker, Actor, Question
  <1>1. ASSUME Ask PROVE HandoffInv'
    BY <1>1 DEF Ask
  <1>2. ASSUME AgeRecord PROVE HandoffInv'
    BY <1>2 DEF AgeRecord
  <1>3. ASSUME TtlPasses PROVE HandoffInv'
    BY <1>3 DEF TtlPasses
  <1>4. ASSUME AgeLock PROVE HandoffInv'
    BY <1>4 DEF AgeLock
  <1>5. ASSUME NEW a \in Answerer, NEW q \in Question, Reply(a, q) PROVE HandoffInv'
    BY <1>5 DEF Reply
  <1>6. ASSUME NEW a \in Expirer, FindStale(a) PROVE HandoffInv'
    BY <1>6 DEF FindStale
  <1>7. ASSUME NEW a \in Router, QuestionSent(a) PROVE HandoffInv'
    BY <1>7 DEF QuestionSent
  <1>8. ASSUME NEW a \in Locker, OpenLock(a) PROVE HandoffInv'
    BY <1>8 DEF OpenLock, TakeOr
  <1>9. ASSUME NEW a \in Locker, StatLock(a) PROVE HandoffInv'
    BY <1>9 DEF StatLock
  <1>10. ASSUME NEW a \in Locker, StealLock(a) PROVE HandoffInv'
    BY <1>10 DEF StealLock
  <1>11. ASSUME NEW a \in Locker, ReopenLock(a) PROVE HandoffInv'
    BY <1>11 DEF ReopenLock, TakeOr
  <1>12. ASSUME NEW a \in Locker, ReadRecord(a) PROVE HandoffInv'
    BY <1>12 DEF ReadRecord, Updatable
  <1>13. ASSUME NEW a \in Locker, WriteRecord(a) PROVE HandoffInv'
    BY <1>13 DEF WriteRecord, Updated
  <1>14. ASSUME NEW a \in Locker, Unlock(a) PROVE HandoffInv'
    BY <1>14 DEF Unlock
  <1>15. ASSUME NEW s \in Sweeper, SweepStart(s) PROVE HandoffInv'
    BY <1>15 DEF SweepStart
  <1>16. ASSUME NEW s \in Sweeper, StatClaim(s) PROVE HandoffInv'
    BY <1>16 DEF StatClaim
  <1>17. ASSUME NEW s \in Sweeper, ReadOrphan(s) PROVE HandoffInv'
    BY <1>17 DEF ReadOrphan, Enqueue
  <1>18. ASSUME NEW s \in Sweeper, DropOrphan(s) PROVE HandoffInv'
    BY <1>18 DEF DropOrphan
  <1>19. ASSUME NEW s \in Sweeper, ListAnswered(s) PROVE HandoffInv'
    BY <1>19 DEF ListAnswered
  <1>20. ASSUME NEW s \in Sweeper, ClaimRecord(s) PROVE HandoffInv'
    BY <1>20 DEF ClaimRecord
  <1>21. ASSUME NEW s \in Sweeper, RereadClaim(s) PROVE HandoffInv'
    BY <1>21 DEF RereadClaim, Enqueue
  <1>22. ASSUME NEW s \in Sweeper, RestoreClaim(s) PROVE HandoffInv'
    BY <1>22 DEF RestoreClaim
  <1>23. ASSUME NEW s \in Sweeper, DropClaim(s) PROVE HandoffInv'
    BY <1>23 DEF DropClaim
  <1>24. ASSUME NEW group, Crash(group) PROVE HandoffInv'
    BY <1>24 DEF Crash
  <1>25. CASE UNCHANGED vars
    BY <1>25 DEF vars
  <1>26. QED
    BY <1>1, <1>2, <1>3, <1>4, <1>5, <1>6, <1>7, <1>8, <1>9, <1>10, <1>11, <1>12, <1>13, <1>14, <1>15, <1>16, <1>17, <1>18, <1>19, <1>20, <1>21, <1>22, <1>23, <1>24, <1>25 DEF Next, LockStep, SweepStep

\* The invariant of the question, for the theorems that rest on it.
LEMMA HandoffInvariant == ASSUME Scope PROVE Spec => [](TypeOK /\ HandoffInv)
  <1>1. Init => TypeOK /\ HandoffInv
    BY InitType, InitHandoff
  <1>2. TypeOK /\ Alone /\ HandoffInv /\ [Next]_vars => (TypeOK /\ HandoffInv)'
    BY StepType, StepHandoff DEF Scope
  <1>3. QED
    BY <1>1, <1>2, AloneInside, PTL DEF Spec

\* With one question, and no crash or a single surface, the surfaces, the expiry
\* and the sweeps settle the question at most once (withHandoffLock's re-read).
THEOREM SettledAtMostOnce == ASSUME Scope PROVE Spec => []SettledOnce
  <1>1. HandoffInv => SettledOnce
    BY DEF HandoffInv
  <1>2. QED
    BY <1>1, HandoffInvariant, PTL

-----------------------------------------------------------------------------
(* The accepted answer is kept. *)

\* Every step keeps the answer, and a claim is dropped only once it is enqueued.
LEMMA StepKept ==
    ASSUME MaxQuestions = 1, TypeOK, HandoffInv, AnswerKept, DropsResumed, [Next]_vars
    PROVE  (AnswerKept /\ DropsResumed)'
  <1> USE BoundAssumption, ActorAssumption, MaxQuestions = 1
      DEF TypeOK, HandoffInv, PendingIsOpen, ClaimIsAnswered, AnswerKept, DropsResumed, Open,
          Goto, Record, NoRecord, Locker, Actor, Question
  <1>1. ASSUME Ask PROVE (AnswerKept /\ DropsResumed)'
    BY <1>1 DEF Ask
  <1>2. ASSUME AgeRecord PROVE (AnswerKept /\ DropsResumed)'
    BY <1>2 DEF AgeRecord
  <1>3. ASSUME TtlPasses PROVE (AnswerKept /\ DropsResumed)'
    BY <1>3 DEF TtlPasses
  <1>4. ASSUME AgeLock PROVE (AnswerKept /\ DropsResumed)'
    BY <1>4 DEF AgeLock
  <1>5. ASSUME NEW a \in Answerer, NEW q \in Question, Reply(a, q) PROVE (AnswerKept /\ DropsResumed)'
    BY <1>5 DEF Reply
  <1>6. ASSUME NEW a \in Expirer, FindStale(a) PROVE (AnswerKept /\ DropsResumed)'
    BY <1>6 DEF FindStale
  <1>7. ASSUME NEW a \in Router, QuestionSent(a) PROVE (AnswerKept /\ DropsResumed)'
    BY <1>7 DEF QuestionSent
  <1>8. ASSUME NEW a \in Locker, OpenLock(a) PROVE (AnswerKept /\ DropsResumed)'
    BY <1>8 DEF OpenLock, TakeOr
  <1>9. ASSUME NEW a \in Locker, StatLock(a) PROVE (AnswerKept /\ DropsResumed)'
    BY <1>9 DEF StatLock
  <1>10. ASSUME NEW a \in Locker, StealLock(a) PROVE (AnswerKept /\ DropsResumed)'
    BY <1>10 DEF StealLock
  <1>11. ASSUME NEW a \in Locker, ReopenLock(a) PROVE (AnswerKept /\ DropsResumed)'
    BY <1>11 DEF ReopenLock, TakeOr
  <1>12. ASSUME NEW a \in Locker, ReadRecord(a) PROVE (AnswerKept /\ DropsResumed)'
    BY <1>12 DEF ReadRecord, Updatable
  <1>13. ASSUME NEW a \in Locker, WriteRecord(a) PROVE (AnswerKept /\ DropsResumed)'
    BY <1>13 DEF WriteRecord, Updated
  <1>14. ASSUME NEW a \in Locker, Unlock(a) PROVE (AnswerKept /\ DropsResumed)'
    BY <1>14 DEF Unlock
  <1>15. ASSUME NEW s \in Sweeper, SweepStart(s) PROVE (AnswerKept /\ DropsResumed)'
    BY <1>15 DEF SweepStart
  <1>16. ASSUME NEW s \in Sweeper, StatClaim(s) PROVE (AnswerKept /\ DropsResumed)'
    BY <1>16 DEF StatClaim
  <1>17. ASSUME NEW s \in Sweeper, ReadOrphan(s) PROVE (AnswerKept /\ DropsResumed)'
    BY <1>17 DEF ReadOrphan, Enqueue
  <1>18. ASSUME NEW s \in Sweeper, DropOrphan(s) PROVE (AnswerKept /\ DropsResumed)'
    BY <1>18 DEF DropOrphan
  <1>19. ASSUME NEW s \in Sweeper, ListAnswered(s) PROVE (AnswerKept /\ DropsResumed)'
    BY <1>19 DEF ListAnswered
  <1>20. ASSUME NEW s \in Sweeper, ClaimRecord(s) PROVE (AnswerKept /\ DropsResumed)'
    BY <1>20 DEF ClaimRecord
  <1>21. ASSUME NEW s \in Sweeper, RereadClaim(s) PROVE (AnswerKept /\ DropsResumed)'
    BY <1>21 DEF RereadClaim, Enqueue
  <1>22. ASSUME NEW s \in Sweeper, RestoreClaim(s) PROVE (AnswerKept /\ DropsResumed)'
    BY <1>22 DEF RestoreClaim
  <1>23. ASSUME NEW s \in Sweeper, DropClaim(s) PROVE (AnswerKept /\ DropsResumed)'
    BY <1>23 DEF DropClaim
  <1>24. ASSUME NEW group, Crash(group) PROVE (AnswerKept /\ DropsResumed)'
    BY <1>24 DEF Crash
  <1>25. CASE UNCHANGED vars
    BY <1>25 DEF vars
  <1>26. QED
    BY <1>1, <1>2, <1>3, <1>4, <1>5, <1>6, <1>7, <1>8, <1>9, <1>10, <1>11, <1>12, <1>13, <1>14, <1>15, <1>16, <1>17, <1>18, <1>19, <1>20, <1>21, <1>22, <1>23, <1>24, <1>25 DEF Next, LockStep, SweepStep

\* An accepted answer is in the record, in a claim or in a resume task, whichever
\* of any number of sweeps dies between its rename, its enqueue and its unlink.
THEOREM AnswerNeverLost == ASSUME Scope PROVE Spec => []AnswerKept
  <1>1. Init => AnswerKept /\ DropsResumed
    BY DEF Init, AnswerKept, DropsResumed, Actor
  <1>2. TypeOK /\ HandoffInv /\ AnswerKept /\ DropsResumed /\ [Next]_vars
           => (AnswerKept /\ DropsResumed)'
    <2>1. Scope
      OBVIOUS
    <2>2. QED
      BY <2>1, StepKept DEF Scope
  <1>3. QED
    BY <1>1, <1>2, HandoffInvariant, PTL DEF Spec

-----------------------------------------------------------------------------
(* One sweep at a time resumes the task once. *)

\* Every step of a single sweep, and of everybody else, keeps the answer in one place.
LEMMA StepMoves ==
    ASSUME MaxQuestions = 1, MaxCrashes = 0, OneSweeper, TypeOK, HandoffInv,
           DropsResumed, Moves, ResumedOnce, [Next]_vars
    PROVE  (Moves /\ ResumedOnce)'
  <1> USE BoundAssumption, ActorAssumption, MaxQuestions = 1, MaxCrashes = 0
      DEF OneSweeper, TypeOK, HandoffInv, PendingIsOpen, ClaimIsAnswered, DropsResumed, Moves,
          ResumedOnce, Open, Goto, Record, NoRecord, Locker, Actor, Question
  <1>1. ASSUME Ask PROVE (Moves /\ ResumedOnce)'
    BY <1>1 DEF Ask
  <1>2. ASSUME AgeRecord PROVE (Moves /\ ResumedOnce)'
    BY <1>2 DEF AgeRecord
  <1>3. ASSUME TtlPasses PROVE (Moves /\ ResumedOnce)'
    BY <1>3 DEF TtlPasses
  <1>4. ASSUME AgeLock PROVE (Moves /\ ResumedOnce)'
    BY <1>4 DEF AgeLock
  <1>5. ASSUME NEW a \in Answerer, NEW q \in Question, Reply(a, q) PROVE (Moves /\ ResumedOnce)'
    BY <1>5 DEF Reply
  <1>6. ASSUME NEW a \in Expirer, FindStale(a) PROVE (Moves /\ ResumedOnce)'
    BY <1>6 DEF FindStale
  <1>7. ASSUME NEW a \in Router, QuestionSent(a) PROVE (Moves /\ ResumedOnce)'
    BY <1>7 DEF QuestionSent
  <1>8. ASSUME NEW a \in Locker, OpenLock(a) PROVE (Moves /\ ResumedOnce)'
    BY <1>8 DEF OpenLock, TakeOr
  <1>9. ASSUME NEW a \in Locker, StatLock(a) PROVE (Moves /\ ResumedOnce)'
    BY <1>9 DEF StatLock
  <1>10. ASSUME NEW a \in Locker, StealLock(a) PROVE (Moves /\ ResumedOnce)'
    BY <1>10 DEF StealLock
  <1>11. ASSUME NEW a \in Locker, ReopenLock(a) PROVE (Moves /\ ResumedOnce)'
    BY <1>11 DEF ReopenLock, TakeOr
  <1>12. ASSUME NEW a \in Locker, ReadRecord(a) PROVE (Moves /\ ResumedOnce)'
    BY <1>12 DEF ReadRecord, Updatable
  <1>13. ASSUME NEW a \in Locker, WriteRecord(a) PROVE (Moves /\ ResumedOnce)'
    BY <1>13 DEF WriteRecord, Updated
  <1>14. ASSUME NEW a \in Locker, Unlock(a) PROVE (Moves /\ ResumedOnce)'
    BY <1>14 DEF Unlock
  <1>15. ASSUME NEW s \in Sweeper, SweepStart(s) PROVE (Moves /\ ResumedOnce)'
    BY <1>15 DEF SweepStart
  <1>16. ASSUME NEW s \in Sweeper, StatClaim(s) PROVE (Moves /\ ResumedOnce)'
    BY <1>16 DEF StatClaim
  <1>17. ASSUME NEW s \in Sweeper, ReadOrphan(s) PROVE (Moves /\ ResumedOnce)'
    BY <1>17 DEF ReadOrphan, Enqueue
  <1>18. ASSUME NEW s \in Sweeper, DropOrphan(s) PROVE (Moves /\ ResumedOnce)'
    BY <1>18 DEF DropOrphan
  <1>19. ASSUME NEW s \in Sweeper, ListAnswered(s) PROVE (Moves /\ ResumedOnce)'
    BY <1>19 DEF ListAnswered
  <1>20. ASSUME NEW s \in Sweeper, ClaimRecord(s) PROVE (Moves /\ ResumedOnce)'
    BY <1>20 DEF ClaimRecord
  <1>21. ASSUME NEW s \in Sweeper, RereadClaim(s) PROVE (Moves /\ ResumedOnce)'
    BY <1>21 DEF RereadClaim, Enqueue
  <1>22. ASSUME NEW s \in Sweeper, RestoreClaim(s) PROVE (Moves /\ ResumedOnce)'
    BY <1>22 DEF RestoreClaim
  <1>23. ASSUME NEW s \in Sweeper, DropClaim(s) PROVE (Moves /\ ResumedOnce)'
    BY <1>23 DEF DropClaim
  <1>24. ASSUME NEW group, Crash(group) PROVE (Moves /\ ResumedOnce)'
    BY <1>24 DEF Crash
  <1>25. CASE UNCHANGED vars
    BY <1>25 DEF vars
  <1>26. QED
    BY <1>1, <1>2, <1>3, <1>4, <1>5, <1>6, <1>7, <1>8, <1>9, <1>10, <1>11, <1>12, <1>13, <1>14, <1>15, <1>16, <1>17, <1>18, <1>19, <1>20, <1>21, <1>22, <1>23, <1>24, <1>25 DEF Next, LockStep, SweepStep

\* The invariant of the moves, for the theorems that rest on it.
LEMMA MovesInvariant ==
    ASSUME MaxQuestions = 1, MaxCrashes = 0, OneSweeper
    PROVE  Spec => [](DropsResumed /\ Moves /\ ResumedOnce)
  <1>1. Scope
    BY DEF Scope
  <1>2. Spec => [](TypeOK /\ HandoffInv)
    BY <1>1, HandoffInvariant
  <1>3. Init => AnswerKept /\ DropsResumed /\ Moves /\ ResumedOnce
    BY BoundAssumption, ActorAssumption DEF Init, AnswerKept, DropsResumed, Moves, ResumedOnce, Actor, Question
  <1>4. TypeOK /\ HandoffInv /\ AnswerKept /\ DropsResumed /\ Moves /\ ResumedOnce /\ [Next]_vars
           => (AnswerKept /\ DropsResumed /\ Moves /\ ResumedOnce)'
    BY StepKept, StepMoves
  <1>5. QED
    BY <1>2, <1>3, <1>4, PTL DEF Spec

\* With one question, one sweep and no crash the task is resumed once, however
\* many surfaces answer it and however old the record is when it is claimed.
THEOREM ResumedAtMostOnce ==
    ASSUME MaxQuestions = 1, MaxCrashes = 0, OneSweeper
    PROVE  Spec => []ResumedOnce
  BY MovesInvariant, PTL

-----------------------------------------------------------------------------
(* The handoff implements the abstract question. *)

\* What a sweep may enqueue was accepted from a surface, not expired.
Won == file.status = "answered" \/ claim.status = "answered" => wins[1] = 1

\* Only a surface inside the lock makes a record answered, and it has then won.
LEMMA StepWon ==
    ASSUME MaxQuestions = 1, TypeOK, HandoffInv, Won, [Next]_vars
    PROVE  Won'
  <1> USE BoundAssumption, ActorAssumption, MaxQuestions = 1
      DEF TypeOK, HandoffInv, PendingIsOpen, ClaimIsAnswered, Won, Open,
          Goto, Record, NoRecord, Locker, Actor, Question
  <1>1. ASSUME Ask PROVE Won'
    BY <1>1 DEF Ask
  <1>2. ASSUME AgeRecord PROVE Won'
    BY <1>2 DEF AgeRecord
  <1>3. ASSUME TtlPasses PROVE Won'
    BY <1>3 DEF TtlPasses
  <1>4. ASSUME AgeLock PROVE Won'
    BY <1>4 DEF AgeLock
  <1>5. ASSUME NEW a \in Answerer, NEW q \in Question, Reply(a, q) PROVE Won'
    BY <1>5 DEF Reply
  <1>6. ASSUME NEW a \in Expirer, FindStale(a) PROVE Won'
    BY <1>6 DEF FindStale
  <1>7. ASSUME NEW a \in Router, QuestionSent(a) PROVE Won'
    BY <1>7 DEF QuestionSent
  <1>8. ASSUME NEW a \in Locker, OpenLock(a) PROVE Won'
    BY <1>8 DEF OpenLock, TakeOr
  <1>9. ASSUME NEW a \in Locker, StatLock(a) PROVE Won'
    BY <1>9 DEF StatLock
  <1>10. ASSUME NEW a \in Locker, StealLock(a) PROVE Won'
    BY <1>10 DEF StealLock
  <1>11. ASSUME NEW a \in Locker, ReopenLock(a) PROVE Won'
    BY <1>11 DEF ReopenLock, TakeOr
  <1>12. ASSUME NEW a \in Locker, ReadRecord(a) PROVE Won'
    BY <1>12 DEF ReadRecord, Updatable
  <1>13. ASSUME NEW a \in Locker, WriteRecord(a) PROVE Won'
    BY <1>13 DEF WriteRecord, Updated
  <1>14. ASSUME NEW a \in Locker, Unlock(a) PROVE Won'
    BY <1>14 DEF Unlock
  <1>15. ASSUME NEW s \in Sweeper, SweepStart(s) PROVE Won'
    BY <1>15 DEF SweepStart
  <1>16. ASSUME NEW s \in Sweeper, StatClaim(s) PROVE Won'
    BY <1>16 DEF StatClaim
  <1>17. ASSUME NEW s \in Sweeper, ReadOrphan(s) PROVE Won'
    BY <1>17 DEF ReadOrphan, Enqueue
  <1>18. ASSUME NEW s \in Sweeper, DropOrphan(s) PROVE Won'
    BY <1>18 DEF DropOrphan
  <1>19. ASSUME NEW s \in Sweeper, ListAnswered(s) PROVE Won'
    BY <1>19 DEF ListAnswered
  <1>20. ASSUME NEW s \in Sweeper, ClaimRecord(s) PROVE Won'
    BY <1>20 DEF ClaimRecord
  <1>21. ASSUME NEW s \in Sweeper, RereadClaim(s) PROVE Won'
    BY <1>21 DEF RereadClaim, Enqueue
  <1>22. ASSUME NEW s \in Sweeper, RestoreClaim(s) PROVE Won'
    BY <1>22 DEF RestoreClaim
  <1>23. ASSUME NEW s \in Sweeper, DropClaim(s) PROVE Won'
    BY <1>23 DEF DropClaim
  <1>24. ASSUME NEW group, Crash(group) PROVE Won'
    BY <1>24 DEF Crash
  <1>25. CASE UNCHANGED vars
    BY <1>25 DEF vars
  <1>26. QED
    BY <1>1, <1>2, <1>3, <1>4, <1>5, <1>6, <1>7, <1>8, <1>9, <1>10, <1>11, <1>12, <1>13, <1>14, <1>15, <1>16, <1>17, <1>18, <1>19, <1>20, <1>21, <1>22, <1>23, <1>24, <1>25 DEF Next, LockStep, SweepStep

\* Every step is a step of the abstract question or leaves it alone.
LEMMA StepQuestion ==
    ASSUME MaxQuestions = 1, TypeOK, HandoffInv, Won, [Next]_vars,
           MaxCrashes = 0 /\ OneSweeper => DropsResumed /\ Moves /\ ResumedOnce
    PROVE  [Q!Next]_(Q!vars)
  <1> USE BoundAssumption, MaxQuestions = 1 DEF TypeOK, Question, Q!vars
  <1>e. ASSUME NEW s \in Sweeper, pc[s] \in {"orphan", "reread"}, Enqueue(claim),
               UNCHANGED <<asked, wins, expiries>>
        PROVE  [Q!Next]_(Q!vars)
    <2>1. CASE claim.status # "answered"
      BY <1>e, <2>1 DEF Enqueue
    <2>2. CASE claim.status = "answered"
      <3>1. wins[1] = 1
        BY <2>2 DEF Won
      <3>2. claim # NoRecord /\ claim.q = 1
        BY <2>2 DEF NoRecord, HandoffInv, ClaimIsAnswered, Record
      <3>3. resumed'[1] = resumed[1] + 1
        BY <1>e, <2>2, <3>2 DEF Enqueue
      <3>4. MaxCrashes = 0 /\ OneSweeper => resumed[1] = 0
        BY <1>e, <3>2 DEF OneSweeper, Moves
      <3>5. Q!Resume
        BY <1>e, <3>1, <3>3, <3>4 DEF Q!Resume
      <3>6. QED
        BY <3>5 DEF Q!Next
    <2>3. QED
      BY <2>1, <2>2
  <1>1. ASSUME Ask PROVE [Q!Next]_(Q!vars)
    <2>1. Q!Ask
      BY <1>1 DEF Ask, Q!Ask
    <2>2. QED
      BY <2>1 DEF Q!Next
  <1>2. ASSUME AgeRecord PROVE [Q!Next]_(Q!vars)
    BY <1>2 DEF AgeRecord
  <1>3. ASSUME TtlPasses PROVE [Q!Next]_(Q!vars)
    BY <1>3 DEF TtlPasses
  <1>4. ASSUME AgeLock PROVE [Q!Next]_(Q!vars)
    BY <1>4 DEF AgeLock
  <1>5. ASSUME NEW a \in Answerer, NEW q \in Question, Reply(a, q) PROVE [Q!Next]_(Q!vars)
    BY <1>5 DEF Reply
  <1>6. ASSUME NEW a \in Expirer, FindStale(a) PROVE [Q!Next]_(Q!vars)
    BY <1>6 DEF FindStale
  <1>7. ASSUME NEW a \in Router, QuestionSent(a) PROVE [Q!Next]_(Q!vars)
    BY <1>7 DEF QuestionSent
  <1>8. ASSUME NEW a \in Locker, OpenLock(a) PROVE [Q!Next]_(Q!vars)
    BY <1>8 DEF OpenLock, TakeOr
  <1>9. ASSUME NEW a \in Locker, StatLock(a) PROVE [Q!Next]_(Q!vars)
    BY <1>9 DEF StatLock
  <1>10. ASSUME NEW a \in Locker, StealLock(a) PROVE [Q!Next]_(Q!vars)
    BY <1>10 DEF StealLock
  <1>11. ASSUME NEW a \in Locker, ReopenLock(a) PROVE [Q!Next]_(Q!vars)
    BY <1>11 DEF ReopenLock, TakeOr
  <1>12. ASSUME NEW a \in Locker, ReadRecord(a) PROVE [Q!Next]_(Q!vars)
    BY <1>12 DEF ReadRecord, Updatable
  <1>13. ASSUME NEW a \in Locker, WriteRecord(a) PROVE [Q!Next]_(Q!vars)
    <2>1. Open /\ got[a].q = 1 /\ asked > 0
      BY <1>13 DEF WriteRecord, HandoffInv, PendingIsOpen
    <2>2. CASE a \in Answerer
      <3>1. Q!Answer
        BY <1>13, <2>1, <2>2, ActorAssumption DEF WriteRecord, Open, Q!Answer, Q!Unsettled
      <3>2. QED
        BY <3>1 DEF Q!Next
    <2>3. CASE a \in Expirer
      <3>1. Q!Lapse
        BY <1>13, <2>1, <2>3, ActorAssumption DEF WriteRecord, Open, Q!Lapse, Q!Unsettled
      <3>2. QED
        BY <3>1 DEF Q!Next
    <2>4. CASE a \notin Answerer \cup Expirer
      BY <1>13, <2>4 DEF WriteRecord
    <2>5. QED
      BY <2>2, <2>3, <2>4
  <1>14. ASSUME NEW a \in Locker, Unlock(a) PROVE [Q!Next]_(Q!vars)
    BY <1>14 DEF Unlock
  <1>15. ASSUME NEW s \in Sweeper, SweepStart(s) PROVE [Q!Next]_(Q!vars)
    BY <1>15 DEF SweepStart
  <1>16. ASSUME NEW s \in Sweeper, StatClaim(s) PROVE [Q!Next]_(Q!vars)
    BY <1>16 DEF StatClaim
  <1>17. ASSUME NEW s \in Sweeper, ReadOrphan(s) PROVE [Q!Next]_(Q!vars)
    BY <1>17, <1>e DEF ReadOrphan
  <1>18. ASSUME NEW s \in Sweeper, DropOrphan(s) PROVE [Q!Next]_(Q!vars)
    BY <1>18 DEF DropOrphan
  <1>19. ASSUME NEW s \in Sweeper, ListAnswered(s) PROVE [Q!Next]_(Q!vars)
    BY <1>19 DEF ListAnswered
  <1>20. ASSUME NEW s \in Sweeper, ClaimRecord(s) PROVE [Q!Next]_(Q!vars)
    BY <1>20 DEF ClaimRecord
  <1>21. ASSUME NEW s \in Sweeper, RereadClaim(s) PROVE [Q!Next]_(Q!vars)
    BY <1>21, <1>e DEF RereadClaim
  <1>22. ASSUME NEW s \in Sweeper, RestoreClaim(s) PROVE [Q!Next]_(Q!vars)
    BY <1>22 DEF RestoreClaim
  <1>23. ASSUME NEW s \in Sweeper, DropClaim(s) PROVE [Q!Next]_(Q!vars)
    BY <1>23 DEF DropClaim
  <1>24. ASSUME NEW group, Crash(group) PROVE [Q!Next]_(Q!vars)
    BY <1>24 DEF Crash
  <1>25. CASE UNCHANGED vars
    BY <1>25 DEF vars
  <1>26. QED
    BY <1>1, <1>2, <1>3, <1>4, <1>5, <1>6, <1>7, <1>8, <1>9, <1>10, <1>11, <1>12, <1>13, <1>14, <1>15, <1>16, <1>17, <1>18, <1>19, <1>20, <1>21, <1>22, <1>23, <1>24, <1>25 DEF Next, LockStep, SweepStep

\* For any number of surfaces, expiries, route updates and sweeps, in the scope of
\* the theorems above, the handoff of a question is the question of HandoffQuestion.
THEOREM HandoffIsQuestion == ASSUME Scope PROVE Spec => Lifecycle
  <1> DEFINE Once == MaxCrashes = 0 /\ OneSweeper => DropsResumed /\ Moves /\ ResumedOnce
  <1>1. MaxQuestions = 1
    BY DEF Scope
  <1>2. Spec => [](TypeOK /\ HandoffInv)
    BY HandoffInvariant
  <1>3. Spec => []Once
    <2>1. CASE MaxCrashes = 0 /\ OneSweeper
      <3>1. Spec => [](DropsResumed /\ Moves /\ ResumedOnce)
        BY <1>1, <2>1, MovesInvariant
      <3>2. DropsResumed /\ Moves /\ ResumedOnce => Once
        OBVIOUS
      <3>3. QED
        BY <3>1, <3>2, PTL
    <2>2. CASE ~(MaxCrashes = 0 /\ OneSweeper)
      <3>1. Once
        BY <2>2
      <3>2. QED
        BY <3>1, PTL
    <2>3. QED
      BY <2>1, <2>2
  <1>4. Init => Won
    BY DEF Init, Won, NoRecord
  <1>5. TypeOK /\ HandoffInv /\ Won /\ [Next]_vars => Won'
    BY <1>1, StepWon
  <1>6. Init => Q!Init
    BY <1>1 DEF Init, Q!Init, Question
  <1>7. TypeOK /\ HandoffInv /\ Won /\ Once /\ [Next]_vars => [Q!Next]_(Q!vars)
    BY <1>1, StepQuestion
  <1>8. QED
    BY <1>2, <1>3, <1>4, <1>5, <1>6, <1>7, PTL DEF Spec, Lifecycle, Q!Spec
=============================================================================
