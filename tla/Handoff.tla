-------------------------------- MODULE Handoff --------------------------------
(***************************************************************************)
(* The durable human handoff of a daemon task: one record file             *)
(* handoffs/<task>.json that the session overwrites when it asks, that the *)
(* answering surfaces and the expiry update under <task>.lock, and that    *)
(* the sweeps turn into a resume task by way of .claiming-<task>.json      *)
(* (agent/daemon/handoff-store.ts, handoff-expiry.ts, handoff-consume.ts,  *)
(* telegram/handoff-answer.ts).                                            *)
(*                                                                         *)
(* One action per awaited file call.  The daemon runs the expiry, the      *)
(* route update and its sweeps; each answering surface (Telegram bot, web  *)
(* server, REPL) is a process of its own.                                  *)
(***************************************************************************)
EXTENDS Naturals, FiniteSets

CONSTANTS
    Answerer,      \* callers of answerHandoff
    Expirer,       \* callers of expireHandoff
    Router,        \* callers of persistRouteAndMessageId
    Sweeper,       \* calls of processAnsweredHandoffs that may be under way together
    MaxQuestions,  \* bound: questions the task asks
    MaxCrashes     \* bound: processes that die in a behaviour

Locker == Answerer \cup Expirer \cup Router
Actor == Locker \cup Sweeper
Question == 1 .. MaxQuestions

ASSUME BoundAssumption == MaxQuestions \in Nat /\ MaxCrashes \in Nat
ASSUME ActorAssumption ==
    /\ Answerer \cap (Expirer \cup Router) = {} /\ Expirer \cap Router = {}
    /\ Locker \cap Sweeper = {} /\ "nobody" \notin Actor

VARIABLES
    file,      \* handoffs/<task>.json
    claim,     \* handoffs/.claiming-<task>.json
    lock,      \* handoffs/<task>.lock
    asked,     \* questions asked so far
    pc,        \* the file call an actor is at
    got,       \* the record an actor has read
    about,     \* the question an answerer's reply, or a route, belongs to
    wins,      \* history: answers accepted for each question
    expiries,  \* history: expiries of each question
    resumed,   \* history: resume tasks enqueued with the answer of each question
    crashes

vars == <<file, claim, lock, asked, pc, got, about, wins, expiries, resumed, crashes>>

-----------------------------------------------------------------------------
\* old: not written for the 60 s of an orphaned claim; due: 24 h since createdAt.
Record == [q : 0 .. MaxQuestions, status : {"none", "pending", "answered", "expired"},
           answer : 0 .. MaxQuestions, old : BOOLEAN, due : BOOLEAN]
NoRecord == [q |-> 0, status |-> "none", answer |-> 0, old |-> FALSE, due |-> FALSE]
Lock == [holder : Locker \cup {"nobody"}, old : BOOLEAN]
NoLock == [holder |-> "nobody", old |-> FALSE]

Critical == {"read", "write", "unlock"}
LockStage == {"open", "stat", "steal", "reopen"} \cup Critical
SweepStage == {"statClaim", "orphan", "dropOrphan", "list", "claim", "reread", "restore", "drop"}
Stage == {"idle"} \cup LockStage \cup SweepStage

Goto(a, stage) == pc' = [pc EXCEPT ![a] = stage]
Free == lock.holder = "nobody"

\* The re-read inside the lock: who may still write.
KeepsOnlyTtl(a, r) == r # NoRecord /\ (a \in Expirer => r.due)          \* mutant
Updatable(a, r) == r.status = "pending" /\ (a \in Expirer => r.due)

Misspelt(a, r) == [r EXCEPT !.status = "stale", !.old = FALSE]          \* mutant
Updated(a, r) ==
    CASE a \in Answerer -> [r EXCEPT !.status = "answered", !.answer = about[a], !.old = FALSE]
      [] a \in Expirer  -> [r EXCEPT !.status = "expired", !.old = FALSE]
      [] OTHER          -> [r EXCEPT !.old = FALSE]

-----------------------------------------------------------------------------
Init ==
    /\ file = NoRecord /\ claim = NoRecord /\ lock = NoLock
    /\ asked = 0
    /\ pc = [a \in Actor |-> "idle"]
    /\ got = [a \in Actor |-> NoRecord]
    /\ about = [a \in Locker |-> 0]
    /\ wins = [q \in Question |-> 0]
    /\ expiries = [q \in Question |-> 0]
    /\ resumed = [q \in Question |-> 0]
    /\ crashes = 0

\* ask_question of a daemon session: the record is replaced, without the lock.
Ask ==
    /\ asked < MaxQuestions
    /\ asked' = asked + 1
    /\ file' = [q |-> asked + 1, status |-> "pending", answer |-> 0, old |-> FALSE, due |-> FALSE]
    /\ UNCHANGED <<claim, lock, pc, got, about, wins, expiries, resumed, crashes>>

-----------------------------------------------------------------------------
(* Time. *)

AgeRecord ==
    /\ \/ file # NoRecord /\ ~file.old /\ file' = [file EXCEPT !.old = TRUE] /\ claim' = claim
       \/ claim # NoRecord /\ ~claim.old /\ claim' = [claim EXCEPT !.old = TRUE] /\ file' = file
    /\ UNCHANGED <<lock, asked, pc, got, about, wins, expiries, resumed, crashes>>

TtlPasses ==
    /\ file.status = "pending" /\ ~file.due
    /\ file' = [file EXCEPT !.due = TRUE]
    /\ UNCHANGED <<claim, lock, asked, pc, got, about, wins, expiries, resumed, crashes>>

\* STALE_LOCK_TTL_MS: two file calls of a live holder take less than 30 s.
AgeLock ==
    /\ ~Free /\ ~lock.old /\ pc[lock.holder] \notin Critical
    /\ lock' = [lock EXCEPT !.old = TRUE]
    /\ UNCHANGED <<file, claim, asked, pc, got, about, wins, expiries, resumed, crashes>>

-----------------------------------------------------------------------------
(* Who takes the lock, and why. *)

\* A reply to the message of question q, or a tap on its button, finds the
\* record of the task by its id; the surface looks at it before it answers.
Reply(a, q) ==
    /\ a \in Answerer /\ pc[a] = "idle" /\ q <= asked /\ file.status = "pending"
    /\ about' = [about EXCEPT ![a] = q]
    /\ Goto(a, "open")
    /\ UNCHANGED <<file, claim, lock, asked, got, wins, expiries, resumed, crashes>>

\* listPendingHandoffs found a record past its TTL.
FindStale(a) ==
    /\ a \in Expirer /\ pc[a] = "idle" /\ file.status = "pending" /\ file.due
    /\ Goto(a, "open")
    /\ UNCHANGED <<file, claim, lock, asked, got, about, wins, expiries, resumed, crashes>>

\* The question has been sent: its message id goes into the record.
QuestionSent(a) ==
    /\ a \in Router /\ pc[a] = "idle" /\ about[a] < asked
    /\ about' = [about EXCEPT ![a] = asked]
    /\ Goto(a, "open")
    /\ UNCHANGED <<file, claim, lock, asked, got, wins, expiries, resumed, crashes>>

-----------------------------------------------------------------------------
(* withHandoffLock and its callback. *)

TakeOr(a, otherwise) ==
    IF Free
    THEN lock' = [holder |-> a, old |-> FALSE] /\ Goto(a, "read")
    ELSE lock' = lock /\ Goto(a, otherwise)

\* writeFile(lock, '', wx)
OpenLock(a) ==
    /\ pc[a] = "open"
    /\ TakeOr(a, "stat")
    /\ UNCHANGED <<file, claim, asked, got, about, wins, expiries, resumed, crashes>>

\* A lock that is gone, or fresh, ends the attempt.
StatLock(a) ==
    /\ pc[a] = "stat"
    /\ Goto(a, IF ~Free /\ lock.old THEN "steal" ELSE "idle")
    /\ UNCHANGED <<file, claim, lock, asked, got, about, wins, expiries, resumed, crashes>>

\* unlink(lock): by now it may be another one.
StealLock(a) ==
    /\ pc[a] = "steal"
    /\ lock' = NoLock
    /\ Goto(a, "reopen")
    /\ UNCHANGED <<file, claim, asked, got, about, wins, expiries, resumed, crashes>>

ReopenLock(a) ==
    /\ pc[a] = "reopen"
    /\ TakeOr(a, "idle")
    /\ UNCHANGED <<file, claim, asked, got, about, wins, expiries, resumed, crashes>>

ReadRecord(a) ==
    /\ pc[a] = "read"
    /\ got' = [got EXCEPT ![a] = file]
    /\ Goto(a, IF Updatable(a, file) THEN "write" ELSE "unlock")
    /\ UNCHANGED <<file, claim, lock, asked, about, wins, expiries, resumed, crashes>>

\* The record that was read is written back, updated, by an atomic rename.
WriteRecord(a) ==
    /\ pc[a] = "write"
    /\ file' = Updated(a, got[a])
    /\ wins' = IF a \in Answerer THEN [wins EXCEPT ![got[a].q] = @ + 1] ELSE wins
    /\ expiries' = IF a \in Expirer THEN [expiries EXCEPT ![got[a].q] = @ + 1] ELSE expiries
    /\ Goto(a, "unlock")
    /\ UNCHANGED <<claim, lock, asked, got, about, resumed, crashes>>

\* finally: unlink(lock), whosever it is.
Unlock(a) ==
    /\ pc[a] = "unlock"
    /\ lock' = NoLock
    /\ got' = [got EXCEPT ![a] = NoRecord]
    /\ Goto(a, "idle")
    /\ UNCHANGED <<file, claim, asked, about, wins, expiries, resumed, crashes>>

-----------------------------------------------------------------------------
(* processAnsweredHandoffs: recoverOrphanedClaims, then the answered records. *)

\* enqueue(resume command) is synchronous: it follows the read of r at once.
Enqueue(r) == resumed' = IF r.status = "answered"
                         THEN [resumed EXCEPT ![r.q] = @ + 1] ELSE resumed

SweepStart(s) ==
    /\ pc[s] = "idle"
    /\ Goto(s, IF claim # NoRecord THEN "statClaim" ELSE "list")
    /\ UNCHANGED <<file, claim, lock, asked, got, about, wins, expiries, resumed, crashes>>

NeverAdopts(s) ==                                                       \* mutant
    /\ pc[s] = "statClaim"
    /\ Goto(s, "list")
    /\ UNCHANGED <<file, claim, lock, asked, got, about, wins, expiries, resumed, crashes>>

\* A claim younger than 60 s is taken for an active one.
StatClaim(s) ==
    /\ pc[s] = "statClaim"
    /\ Goto(s, IF claim # NoRecord /\ claim.old THEN "orphan" ELSE "list")
    /\ UNCHANGED <<file, claim, lock, asked, got, about, wins, expiries, resumed, crashes>>

DiscardOrphan(s) ==                                                     \* mutant
    /\ pc[s] = "orphan"
    /\ Goto(s, IF claim = NoRecord THEN "list" ELSE "dropOrphan")
    /\ UNCHANGED <<file, claim, lock, asked, got, about, wins, expiries, resumed, crashes>>

ReadOrphan(s) ==
    /\ pc[s] = "orphan"
    /\ Enqueue(claim)
    /\ Goto(s, IF claim = NoRecord THEN "list" ELSE "dropOrphan")
    /\ UNCHANGED <<file, claim, lock, asked, got, about, wins, expiries, crashes>>

DropOrphan(s) ==
    /\ pc[s] = "dropOrphan"
    /\ claim' = NoRecord
    /\ Goto(s, "list")
    /\ UNCHANGED <<file, lock, asked, got, about, wins, expiries, resumed, crashes>>

ListAnswered(s) ==
    /\ pc[s] = "list"
    /\ Goto(s, IF file.status = "answered" THEN "claim" ELSE "idle")
    /\ UNCHANGED <<file, claim, lock, asked, got, about, wins, expiries, resumed, crashes>>

CopyClaim(s) ==                                                         \* mutant
    /\ pc[s] = "claim"
    /\ claim' = file
    /\ Goto(s, IF file = NoRecord THEN "idle" ELSE "reread")
    /\ UNCHANGED <<file, lock, asked, got, about, wins, expiries, resumed, crashes>>

\* rename(record, claim): the claim keeps the mtime; ENOENT skips the record.
ClaimRecord(s) ==
    /\ pc[s] = "claim"
    /\ IF file = NoRecord
       THEN claim' = claim /\ Goto(s, "idle")
       ELSE claim' = file /\ Goto(s, "reread")
    /\ file' = NoRecord
    /\ UNCHANGED <<lock, asked, got, about, wins, expiries, resumed, crashes>>

\* The claimed file is read again; if it is gone or not answered it goes back.
RereadClaim(s) ==
    /\ pc[s] = "reread"
    /\ Enqueue(claim)
    /\ Goto(s, IF claim.status = "answered" THEN "drop" ELSE "restore")
    /\ UNCHANGED <<file, claim, lock, asked, got, about, wins, expiries, crashes>>

\* rename(claim, record), errors ignored.
RestoreClaim(s) ==
    /\ pc[s] = "restore"
    /\ file' = IF claim = NoRecord THEN file ELSE claim
    /\ claim' = NoRecord
    /\ Goto(s, "idle")
    /\ UNCHANGED <<lock, asked, got, about, wins, expiries, resumed, crashes>>

DropClaim(s) ==
    /\ pc[s] = "drop"
    /\ claim' = NoRecord
    /\ Goto(s, "idle")
    /\ UNCHANGED <<file, lock, asked, got, about, wins, expiries, resumed, crashes>>

-----------------------------------------------------------------------------
\* A process dies with everything it was doing; the service manager restarts it.
Crash(group) ==
    /\ crashes < MaxCrashes /\ \E a \in group : pc[a] # "idle"
    /\ crashes' = crashes + 1
    /\ pc' = [a \in Actor |-> IF a \in group THEN "idle" ELSE pc[a]]
    /\ got' = [a \in Actor |-> IF a \in group THEN NoRecord ELSE got[a]]
    /\ UNCHANGED <<file, claim, lock, asked, about, wins, expiries, resumed>>

LockStep(a) ==
    \/ OpenLock(a) \/ StatLock(a) \/ StealLock(a) \/ ReopenLock(a)
    \/ ReadRecord(a) \/ WriteRecord(a) \/ Unlock(a)

SweepStep(s) ==
    \/ SweepStart(s) \/ StatClaim(s) \/ ReadOrphan(s) \/ DropOrphan(s)
    \/ ListAnswered(s) \/ ClaimRecord(s) \/ RereadClaim(s)
    \/ RestoreClaim(s) \/ DropClaim(s)

Next ==
    \/ Ask \/ AgeRecord \/ TtlPasses \/ AgeLock
    \/ \E a \in Answerer, q \in Question : Reply(a, q)
    \/ \E a \in Expirer : FindStale(a)
    \/ \E a \in Router : QuestionSent(a)
    \/ \E a \in Locker : LockStep(a)
    \/ \E s \in Sweeper : SweepStep(s)
    \/ Crash(Expirer \cup Router \cup Sweeper)
    \/ \E a \in Answerer : Crash({a})

Spec == Init /\ [][Next]_vars

\* The maintenance tick starts a sweep every 30 s, file calls return, time passes.
Fairness ==
    /\ WF_vars(AgeRecord)
    /\ \A s \in Sweeper : WF_vars(SweepStep(s))
FairSpec == Spec /\ Fairness

-----------------------------------------------------------------------------
TypeOK ==
    /\ file \in Record /\ claim \in Record
    /\ lock \in Lock
    /\ asked \in 0 .. MaxQuestions
    /\ pc \in [Actor -> Stage]
    /\ got \in [Actor -> Record]
    /\ about \in [Locker -> 0 .. MaxQuestions]
    /\ wins \in [Question -> Nat]
    /\ expiries \in [Question -> Nat]
    /\ resumed \in [Question -> Nat]
    /\ crashes \in 0 .. MaxCrashes

\* A question is settled once: of all the surfaces that answer it and the sweep
\* that expires it, one is told that it won (withHandoffLock's re-read).
SettledOnce == \A q \in Question : wins[q] + expiries[q] <= 1

\* An accepted answer starts one resume run: sweeps never enqueue it twice.
ResumedOnce == \A q \in Question : resumed[q] <= 1

\* An accepted answer is never lost: it is in the record, in a claimed record or
\* in a resume task, wherever a sweep or the process died.
AnswerKept ==
    \A q \in Question : wins[q] > 0 =>
        \/ file.q = q /\ file.status = "answered"
        \/ claim.q = q /\ claim.status = "answered"
        \/ resumed[q] > 0

\* The handoff of one question, call by call, implements the abstract question of
\* HandoffQuestion: settled once, after it was asked, and resumed by an accepted
\* answer only, once if nobody dies and one sweep runs at a time.
OneSweeper == \A s, t \in Sweeper : s = t
Q == INSTANCE HandoffQuestion WITH
    asked <- asked > 0, answers <- wins[1], lapses <- expiries[1],
    resumes <- resumed[1], exact <- MaxCrashes = 0 /\ OneSweeper
Lifecycle == Q!Spec

\* An accepted answer resumes the task, crashes in the sweep included.
AnswerResumed == \A q \in Question : wins[q] > 0 ~> resumed[q] > 0
=============================================================================
