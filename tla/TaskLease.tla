------------------------------ MODULE TaskLease ------------------------------
(***************************************************************************)
(* The daemon's durable pull queue (agent/daemon/queue-store.ts,           *)
(* lease-store.ts, lease-reclaim.ts) at the granularity of its file        *)
(* system calls, driven by the pull tick, the startup recovery and the     *)
(* handoff expiry of one or more daemon processes that may stop between    *)
(* any two calls.                                                          *)
(*                                                                         *)
(* A task is one file that moves between directories: a queue file, a      *)
(* lease file leased/<id>.json, a scratch file leased/.claim-* or          *)
(* leased/.process-* while recovery works on it, and an archive file in    *)
(* completed/ or dead-letter/.  Each process runs JavaScript: its          *)
(* synchronous code is not interleaved with its own callbacks, but other   *)
(* processes run, and the process can die, between any two calls.          *)
(***************************************************************************)
EXTENDS Naturals, FiniteSets

CONSTANTS
    Task,        \* queue ids, numbered in the order `enqueue` generates them
    Proc,        \* daemon processes that share the queue directory
    None,        \* no task
    Budget,      \* maxAttempts of a task's queue file; 1 when enqueue wrote it
    OverlapKey,  \* overlapKeyOf: the id under which a run is kept in flight
    MaxCrashes,  \* bound: crashes in a behaviour
    MaxThrows    \* bound: writes that throw in a behaviour

ASSUME TaskAssumption == Task \subseteq Nat \ {0} /\ None \notin Task
ASSUME BudgetAssumption == Budget \in [Task -> Nat \ {0}]
ASSUME FaultAssumption == MaxCrashes \in Nat /\ MaxThrows \in Nat

VARIABLES
    submitted,   \* ids `enqueue` has accepted
    removed,     \* ids taken out by `queue remove`, or dropped by a failed rename
    queue,       \* files <seq>-<id>.json of the queue directory
    leased,      \* leased/<id>.json, state "none" when there is no file
    scratch,     \* leased/.claim-<random>.json and leased/.process-<random>.json
    names,       \* random scratch names drawn so far (they never collide)
    completed,   \* ids with a file in completed/
    dead,        \* ids with a file in dead-letter/
    handoff,     \* status of handoffs/<id>.json; "stale" is pending for over 24 h
    runs,        \* history: sessions started for each id
    pc,          \* the synchronous section a process is in
    session,     \* the id whose runOnce a process is awaiting
    asking,      \* the session is between writeHandoff and setLeaseState
    unpark,      \* the id whose handoff this process has just expired
    recovered,   \* the one-shot startup recovery of the process has run
    todo,        \* the directory listing recovery is iterating over
    job,         \* the record the current synchronous section works on
    crashes,     \* crashes so far
    throws       \* writes that threw so far

fileVars == <<queue, leased, scratch, names, completed, dead>>
procVars == <<pc, session, asking, unpark, recovered, todo, job>>
faultVars == <<crashes, throws>>
vars == <<submitted, removed, fileVars, handoff, runs, procVars, faultVars>>

-----------------------------------------------------------------------------
QueueFile == [id : Task, seq : Nat, attempts : Nat, eligible : BOOLEAN]
Record == [attempts : Nat, state : {"none", "raw", "leased", "waiting"},
           expired : BOOLEAN]
NoFile == [attempts |-> 0, state |-> "none", expired |-> FALSE]
Scratch == [name : Nat, kind : {"claim", "process"}, id : Task, rec : Record]
FileRef == [kind : {"lease", "claim", "process"}, id : Task \cup {None}, name : Nat]
Job == [ref : FileRef, attempts : Nat, pass : {"first", "second", "reclaim"}]

Section == {"down", "idle", "leasing", "archived", "scan", "scanned",
            "claims", "claimed", "written", "restore", "reclaim"}

HasLease(t) == leased[t].state # "none"
QueuedIds == {f.id : f \in queue}
ScratchIds == {s.id : s \in scratch}

\* dequeueNext: lexicographic order of the names <seq>-<id>.json.
Precedes(f, g) == f.seq < g.seq \/ (f.seq = g.seq /\ f.id < g.id)

\* enqueue and reEnqueueRecord number a file by counting the queue directory;
\* the atomic rename replaces a file of the same name.
QueueWith(t, attempts, eligible) ==
    LET seq == Cardinality(queue) + 1
    IN  {f \in queue : f.seq # seq \/ f.id # t}
          \cup {[id |-> t, seq |-> seq, attempts |-> attempts, eligible |-> eligible]}

\* leaseTask counts the attempt it starts; completeTask and recovery retry while
\* attempts are left.
SameAttempt(attempts) == attempts                          \* mutant
RetryOffByOne(t, attempts) == attempts <= Budget[t]        \* mutant
NextAttempt(attempts) == attempts + 1
MayRetry(t, attempts) == attempts < Budget[t]

\* The rename queue/<seq>-<id>.json -> leased/<id>.json carries the queue file's
\* content: no TaskRecord yet, so no leaseExpiry, which recovery reads as expired.
UnlinkedFirst(f) == leased                                 \* mutant
LeaseFrom(f) ==
    [leased EXCEPT ![f.id] = [attempts |-> f.attempts, state |-> "raw", expired |-> TRUE]]

\* The files a reference of a directory listing still finds.
Found(ref) == IF ref.kind = "lease"
              THEN HasLease(ref.id)
              ELSE \E s \in scratch : s.name = ref.name /\ s.kind = ref.kind
Content(ref) == IF ref.kind = "lease"
                THEN leased[ref.id]
                ELSE (CHOOSE s \in scratch : s.name = ref.name).rec
ScratchRef(s) == [kind |-> s.kind, id |-> s.id, name |-> s.name]
LeaseRef(t) == [kind |-> "lease", id |-> t, name |-> 0]

NoJob == [ref |-> LeaseRef(None), attempts |-> 0, pass |-> "first"]
FreeJob(p) == job' = [job EXCEPT ![p] = NoJob]   \* locals go out of scope

\* scheduler.isInFlight: the in-flight map is keyed by the overlap key.
NotPassedOn(p, t) == FALSE                                 \* mutant
InFlight(p, t) == session[p] # None /\ OverlapKey[session[p]] = t
\* The periodic sweep hands that predicate to expireHandoff; the startup recovery, which
\* expires what was stale when the process began, hands on none.
SkipsInFlight(p, t) == recovered[p] /\ InFlight(p, t)

-----------------------------------------------------------------------------
Init ==
    /\ submitted = {} /\ removed = {}
    /\ queue = {} /\ leased = [t \in Task |-> NoFile] /\ scratch = {} /\ names = 0
    /\ completed = {} /\ dead = {}
    /\ handoff = [t \in Task |-> "none"]
    /\ runs = [t \in Task |-> 0]
    /\ pc = [p \in Proc |-> "down"]
    /\ session = [p \in Proc |-> None]
    /\ asking = [p \in Proc |-> FALSE]
    /\ unpark = [p \in Proc |-> None]
    /\ recovered = [p \in Proc |-> FALSE]
    /\ todo = [p \in Proc |-> {}]
    /\ job = [p \in Proc |-> NoJob]
    /\ crashes = 0 /\ throws = 0

-----------------------------------------------------------------------------
(* The CLI and the clock. *)

\* `afk queue add`: one atomic file write, ids in creation order.
Enqueue(t) ==
    /\ t \notin submitted
    /\ \A u \in Task : u < t => u \in submitted
    /\ submitted' = submitted \cup {t}
    /\ queue' = QueueWith(t, 0, TRUE)
    /\ UNCHANGED <<removed, leased, scratch, names, completed, dead, handoff,
                   runs, procVars, faultVars>>

\* `afk queue remove`: unlink the first queue file that carries the id.
RemovePending(t) ==
    /\ \E f \in queue :
         /\ f.id = t
         /\ \A g \in queue : g.id = t => g = f \/ Precedes(f, g)
         /\ queue' = queue \ {f}
    /\ removed' = removed \cup {t}
    /\ UNCHANGED <<submitted, leased, scratch, names, completed, dead, handoff,
                   runs, procVars, faultVars>>

\* eligibleAfter passes; the backoff (30 s by default) outlasts the synchronous
\* section that wrote the file.
BackoffElapses(t) ==
    /\ \A p \in Proc : /\ pc[p] = "archived" => session[p] # t
                       /\ pc[p] = "written" => job[p].ref.id # t
    /\ \E f \in queue :
         /\ f.id = t /\ ~f.eligible
         /\ queue' = (queue \ {f}) \cup {[f EXCEPT !.eligible = TRUE]}
    /\ UNCHANGED <<submitted, removed, leased, scratch, names, completed, dead,
                   handoff, runs, procVars, faultVars>>

\* leaseExpiry passes.  The lease of a live session outlasts the daemon's
\* startup (10 minutes against the first seconds of the process).
LeaseExpires(t) ==
    /\ leased[t].state \in {"leased", "waiting"} /\ ~leased[t].expired
    /\ \A p \in Proc : session[p] = t => recovered[p]
    /\ leased' = [leased EXCEPT ![t].expired = TRUE]
    /\ UNCHANGED <<submitted, removed, queue, scratch, names, completed, dead,
                   handoff, runs, procVars, faultVars>>

\* The same clock for a record that recovery has renamed to a scratch file.
ScratchExpires(t) ==
    /\ \E s \in scratch :
         /\ s.id = t /\ ~s.rec.expired
         /\ scratch' = (scratch \ {s}) \cup {[s EXCEPT !.rec.expired = TRUE]}
    /\ UNCHANGED <<submitted, removed, queue, leased, names, completed, dead,
                   handoff, runs, procVars, faultVars>>

-----------------------------------------------------------------------------
(* Pull tick: dequeue, run, complete. *)

\* leaseTask, first call: rename queue/<seq>-<id>.json to leased/<id>.json.
DequeueClaim(p) ==
    /\ pc[p] = "idle" /\ session[p] = None
    /\ \E f \in queue :
         /\ f.eligible
         /\ \A g \in queue : g.eligible => g = f \/ Precedes(f, g)
         /\ queue' = queue \ {f}
         /\ leased' = LeaseFrom(f)
         /\ job' = [job EXCEPT ![p] =
                      [ref |-> LeaseRef(f.id), attempts |-> f.attempts, pass |-> "first"]]
    /\ pc' = [pc EXCEPT ![p] = "leasing"]
    /\ UNCHANGED <<submitted, removed, scratch, names, completed, dead, handoff,
                   runs, session, asking, unpark, recovered, todo, faultVars>>

\* leaseTask, first call fails (not ENOENT): dequeueNext unlinks the queue file,
\* so the task is dropped, with no archive entry.
LeaseRenameThrows(p) ==
    /\ pc[p] = "idle" /\ session[p] = None /\ throws < MaxThrows
    /\ \E f \in queue :
         /\ f.eligible
         /\ \A g \in queue : g.eligible => g = f \/ Precedes(f, g)
         /\ queue' = queue \ {f}
         /\ removed' = removed \cup {f.id}
    /\ throws' = throws + 1
    /\ UNCHANGED <<submitted, leased, scratch, names, completed, dead, handoff,
                   runs, procVars, crashes>>

\* leaseTask, second call: write the TaskRecord, then runOnce starts.
LeaseWrite(p) ==
    /\ pc[p] = "leasing"
    /\ LET t == job[p].ref.id
       IN  /\ leased' = [leased EXCEPT ![t] =
                           [attempts |-> NextAttempt(job[p].attempts), state |-> "leased",
                            expired |-> FALSE]]
           /\ session' = [session EXCEPT ![p] = t]
           /\ runs' = [runs EXCEPT ![t] = @ + 1]
    /\ pc' = [pc EXCEPT ![p] = "idle"]
    /\ FreeJob(p)
    /\ UNCHANGED <<submitted, removed, queue, scratch, names, completed, dead,
                   handoff, asking, unpark, recovered, todo, faultVars>>

\* leaseTask, second call fails: dequeueNext skips the task.
LeaseWriteThrows(p) ==
    /\ pc[p] = "leasing" /\ throws < MaxThrows
    /\ pc' = [pc EXCEPT ![p] = "idle"]
    /\ throws' = throws + 1
    /\ FreeJob(p)
    /\ UNCHANGED <<submitted, removed, fileVars, handoff, runs, session, asking,
                   unpark, recovered, todo, crashes>>

\* completeTask reads the lease (a fallback record with one attempt of one when
\* there is none) and writes the archive file or the retry's queue file.
Finish(p, ok) ==
    /\ pc[p] = "idle" /\ session[p] # None /\ ~asking[p]
    /\ LET t == session[p]
           exhausted == ~HasLease(t) \/ ~MayRetry(t, leased[t].attempts)
       IN  /\ completed' = IF ok THEN completed \cup {t} ELSE completed
           /\ dead' = IF ~ok /\ exhausted THEN dead \cup {t} ELSE dead
           /\ queue' = IF ~ok /\ ~exhausted
                       THEN QueueWith(t, leased[t].attempts, FALSE) ELSE queue
    /\ pc' = [pc EXCEPT ![p] = "archived"]
    /\ UNCHANGED <<submitted, removed, leased, scratch, names, handoff, runs,
                   session, asking, unpark, recovered, todo, job, faultVars>>

KeepsMutex(p) ==                                           \* mutant
    /\ pc[p] = "archived"
    /\ leased' = [leased EXCEPT ![session[p]] = NoFile]
    /\ pc' = [pc EXCEPT ![p] = "idle"]
    /\ UNCHANGED <<submitted, removed, queue, scratch, names, completed, dead, session,
                   handoff, runs, asking, unpark, recovered, todo, job, faultVars>>

\* completeTask removes the lease file; the tick is over.
CompleteUnlink(p) ==
    /\ pc[p] = "archived"
    /\ leased' = [leased EXCEPT ![session[p]] = NoFile]
    /\ session' = [session EXCEPT ![p] = None]
    /\ pc' = [pc EXCEPT ![p] = "idle"]
    /\ UNCHANGED <<submitted, removed, queue, scratch, names, completed, dead,
                   handoff, runs, asking, unpark, recovered, todo, job, faultVars>>

\* completeTask throws before it wrote anything; the tick swallows the error.
FinishThrows(p) ==
    /\ pc[p] = "idle" /\ session[p] # None /\ ~asking[p] /\ throws < MaxThrows
    /\ session' = [session EXCEPT ![p] = None]
    /\ throws' = throws + 1
    /\ UNCHANGED <<submitted, removed, fileVars, handoff, runs, pc, asking,
                   unpark, recovered, todo, job, crashes>>

-----------------------------------------------------------------------------
(* Human handoff of a running task. *)

\* ask_question: writeHandoff replaces the record of the task, then awaits.
Ask(p) ==
    /\ pc[p] = "idle" /\ session[p] # None /\ ~asking[p]
    /\ handoff' = [handoff EXCEPT ![session[p]] = "pending"]
    /\ asking' = [asking EXCEPT ![p] = TRUE]
    /\ UNCHANGED <<submitted, removed, fileVars, runs, pc, session, unpark,
                   recovered, todo, job, faultVars>>

\* setLeaseState(id, 'waiting_human_input'); the question is then declined and
\* the session goes on.
Park(p) ==
    /\ pc[p] = "idle" /\ asking[p]
    /\ LET t == session[p]
       IN  leased' = IF HasLease(t)
                     THEN [leased EXCEPT ![t].state = "waiting"] ELSE leased
    /\ asking' = [asking EXCEPT ![p] = FALSE]
    /\ UNCHANGED <<submitted, removed, queue, scratch, names, completed, dead,
                   handoff, runs, pc, session, unpark, recovered, todo, job, faultVars>>

\* updateHandoffAnswer wins the record.
Answer(t) ==
    /\ handoff[t] \in {"pending", "stale"}
    /\ handoff' = [handoff EXCEPT ![t] = "answered"]
    /\ UNCHANGED <<submitted, removed, fileVars, runs, procVars, faultVars>>

\* isHandoffStale: 24 h pass.  Startup recovery reads the clock once, when it begins, and
\* a session does not take a day from its question to setLeaseState.
GrowsStale(t) ==
    /\ handoff[t] = "pending"
    /\ \A p \in Proc : /\ pc[p] = "down" \/ recovered[p]
                       /\ asking[p] => session[p] # t
    /\ handoff' = [handoff EXCEPT ![t] = "stale"]
    /\ UNCHANGED <<submitted, removed, fileVars, runs, procVars, faultVars>>

\* expireHandoff under the handoff lock: a record that is stale when it is read again
\* expires.  Until `recovered` the caller is recoverPendingHandoffs, then the sweep.
ExpireHandoff(p, t) ==
    /\ pc[p] = "idle" /\ unpark[p] = None
    /\ handoff[t] = "stale"
    /\ handoff' = [handoff EXCEPT ![t] = "expired"]
    /\ unpark' = [unpark EXCEPT ![p] = t]
    /\ UNCHANGED <<submitted, removed, fileVars, runs, pc, session, asking,
                   recovered, todo, job, faultVars>>

Requeued(t) == [leased EXCEPT ![t].state = "queued"]       \* mutant
\* setLeaseState(id, 'leased')
Restored(t) == [leased EXCEPT ![t].state = "leased"]

\* expireHandoff after the lock: setLeaseState(id, 'leased') if still parked.
Unpark(p) ==
    /\ pc[p] = "idle" /\ unpark[p] # None
    /\ LET t == unpark[p]
       IN  IF leased[t].state = "waiting"
           THEN /\ leased' = Restored(t)
                /\ pc' = [pc EXCEPT ![p] = "reclaim"]
                /\ unpark' = unpark
           ELSE /\ unpark' = [unpark EXCEPT ![p] = None]
                /\ UNCHANGED <<leased, pc>>
    /\ UNCHANGED <<submitted, removed, queue, scratch, names, completed, dead,
                   handoff, runs, session, asking, recovered, todo, job, faultVars>>

\* reclaimSingleLease leaves a lease in flight, if it can ask, or gone, alone.
ReclaimSkip(p) ==
    /\ pc[p] = "reclaim"
    /\ SkipsInFlight(p, unpark[p]) \/ ~HasLease(unpark[p])
    /\ pc' = [pc EXCEPT ![p] = "idle"]
    /\ unpark' = [unpark EXCEPT ![p] = None]
    /\ UNCHANGED <<submitted, removed, fileVars, handoff, runs, session, asking,
                   recovered, todo, job, faultVars>>

\* The file named by ref becomes the scratch file .claim-<names>.
RenameToScratch(ref, kind) ==
    /\ scratch' = {s \in scratch : ScratchRef(s) # ref}
                    \cup {[name |-> names, kind |-> kind, id |-> ref.id,
                           rec |-> Content(ref)]}
    /\ leased' = IF ref.kind = "lease"
                 THEN [leased EXCEPT ![ref.id] = NoFile] ELSE leased
    /\ names' = names + 1

\* reclaimSingleLease reads the lease and claims it with a rename.
ReclaimClaim(p) ==
    /\ pc[p] = "reclaim"
    /\ LET t == unpark[p]
       IN  /\ ~SkipsInFlight(p, t) /\ HasLease(t)
           /\ RenameToScratch(LeaseRef(t), "claim")
           /\ job' = [job EXCEPT ![p] =
                        [ref |-> [kind |-> "claim", id |-> t, name |-> names],
                         attempts |-> leased[t].attempts, pass |-> "reclaim"]]
    /\ pc' = [pc EXCEPT ![p] = "claimed"]
    /\ UNCHANGED <<submitted, removed, queue, completed, dead, handoff, runs,
                   session, asking, unpark, recovered, todo, faultVars>>

-----------------------------------------------------------------------------
(* recoverExpiredLeases, once per process after the stale handoffs expired. *)

\* First readdir: leases and .process-* files; .claim-* files are filtered out.
ScanStart(p) ==
    /\ pc[p] = "idle" /\ ~recovered[p] /\ unpark[p] = None
    /\ todo' = [todo EXCEPT ![p] =
                  {LeaseRef(t) : t \in {u \in Task : HasLease(u)}}
                    \cup {ScratchRef(s) : s \in {z \in scratch : z.kind = "process"}}]
    /\ pc' = [pc EXCEPT ![p] = "scan"]
    /\ UNCHANGED <<submitted, removed, fileVars, handoff, runs, session, asking,
                   unpark, recovered, job, faultVars>>

\* Read before claim: a missing, parked or unexpired record is skipped.
ScanRead(p) ==
    /\ pc[p] = "scan"
    /\ \E ref \in todo[p] :
         /\ todo' = [todo EXCEPT ![p] = @ \ {ref}]
         /\ IF Found(ref) /\ Content(ref).state # "waiting" /\ Content(ref).expired
            THEN /\ job' = [job EXCEPT ![p] =
                              [ref |-> ref, attempts |-> Content(ref).attempts,
                               pass |-> "first"]]
                 /\ pc' = [pc EXCEPT ![p] = "scanned"]
            ELSE UNCHANGED <<job, pc>>
    /\ UNCHANGED <<submitted, removed, fileVars, handoff, runs, session, asking,
                   unpark, recovered, faultVars>>

\* Claim by rename to .claim-<random>; ENOENT means another process has it.
ScanClaim(p) ==
    /\ pc[p] = "scanned"
    /\ LET ref == job[p].ref
       IN  IF Found(ref)
           THEN /\ RenameToScratch(ref, "claim")
                /\ job' = [job EXCEPT ![p].ref =
                             [kind |-> "claim", id |-> ref.id, name |-> names]]
                /\ pc' = [pc EXCEPT ![p] = "claimed"]
           ELSE /\ pc' = [pc EXCEPT ![p] = "scan"]
                /\ FreeJob(p)
                /\ UNCHANGED <<scratch, leased, names>>
    /\ UNCHANGED <<submitted, removed, queue, completed, dead, handoff, runs,
                   session, asking, unpark, recovered, todo, faultVars>>

\* Re-enqueue or dead-letter the record in memory (all three recoveries).
RecoverWrite(p) ==
    /\ pc[p] = "claimed"
    /\ LET t == job[p].ref.id
       IN  IF MayRetry(t, job[p].attempts)
           THEN /\ queue' = QueueWith(t, job[p].attempts, FALSE)
                /\ dead' = dead
           ELSE /\ dead' = dead \cup {t}
                /\ queue' = queue
    /\ pc' = [pc EXCEPT ![p] = "written"]
    /\ UNCHANGED <<submitted, removed, leased, scratch, names, completed, handoff,
                   runs, session, asking, unpark, recovered, todo, job, faultVars>>

\* Remove the scratch file and go back to the loop of the pass.
RecoverUnlink(p) ==
    /\ pc[p] = "written"
    /\ scratch' = {s \in scratch : ScratchRef(s) # job[p].ref}
    /\ pc' = [pc EXCEPT ![p] = CASE job[p].pass = "first" -> "scan"
                                 [] job[p].pass = "second" -> "claims"
                                 [] OTHER -> "idle"]
    /\ unpark' = IF job[p].pass = "reclaim" THEN [unpark EXCEPT ![p] = None] ELSE unpark
    /\ FreeJob(p)
    /\ UNCHANGED <<submitted, removed, queue, leased, names, completed, dead,
                   handoff, runs, session, asking, recovered, todo, faultVars>>

\* The write throws: the pass (or the reclaim) is abandoned, its caller logs.
RecoverThrows(p) ==
    /\ pc[p] = "claimed" /\ throws < MaxThrows
    /\ pc' = [pc EXCEPT ![p] = "idle"]
    /\ IF job[p].pass = "reclaim"
       THEN unpark' = [unpark EXCEPT ![p] = None] /\ recovered' = recovered
       ELSE recovered' = [recovered EXCEPT ![p] = TRUE] /\ unpark' = unpark
    /\ todo' = [todo EXCEPT ![p] = {}]
    /\ throws' = throws + 1
    /\ FreeJob(p)
    /\ UNCHANGED <<submitted, removed, fileVars, handoff, runs, session, asking, crashes>>

\* Second readdir: the .claim-* files of an interrupted recovery.
ClaimsStart(p) ==
    /\ pc[p] = "scan" /\ todo[p] = {}
    /\ todo' = [todo EXCEPT ![p] =
                  {ScratchRef(s) : s \in {z \in scratch : z.kind = "claim"}}]
    /\ pc' = [pc EXCEPT ![p] = "claims"]
    /\ UNCHANGED <<submitted, removed, fileVars, handoff, runs, session, asking,
                   unpark, recovered, job, faultVars>>

\* Rename a .claim-* to .process-<random>, read it, sort out a parked record.
ClaimTake(p) ==
    /\ pc[p] = "claims"
    /\ \E ref \in todo[p] :
         /\ todo' = [todo EXCEPT ![p] = @ \ {ref}]
         /\ IF Found(ref)
            THEN /\ RenameToScratch(ref, "process")
                 /\ job' = [job EXCEPT ![p] =
                              [ref |-> [kind |-> "process", id |-> ref.id, name |-> names],
                               attempts |-> Content(ref).attempts, pass |-> "second"]]
                 /\ pc' = [pc EXCEPT ![p] =
                             IF Content(ref).state = "waiting" THEN "restore" ELSE "claimed"]
            ELSE UNCHANGED <<scratch, leased, names, job, pc>>
    /\ UNCHANGED <<submitted, removed, queue, completed, dead, handoff, runs,
                   session, asking, unpark, recovered, faultVars>>

\* A parked record goes back to leased/<id>.json.
ClaimRestore(p) ==
    /\ pc[p] = "restore"
    /\ LET ref == job[p].ref
       IN  IF Found(ref)
           THEN /\ leased' = [leased EXCEPT ![ref.id] = Content(ref)]
                /\ scratch' = {s \in scratch : ScratchRef(s) # ref}
           ELSE UNCHANGED <<leased, scratch>>
    /\ pc' = [pc EXCEPT ![p] = "claims"]
    /\ FreeJob(p)
    /\ UNCHANGED <<submitted, removed, queue, names, completed, dead, handoff, runs,
                   session, asking, unpark, recovered, todo, faultVars>>

ClaimsDone(p) ==
    /\ pc[p] = "claims" /\ todo[p] = {}
    /\ recovered' = [recovered EXCEPT ![p] = TRUE]
    /\ pc' = [pc EXCEPT ![p] = "idle"]
    /\ UNCHANGED <<submitted, removed, fileVars, handoff, runs, session, asking,
                   unpark, todo, job, faultVars>>

-----------------------------------------------------------------------------
(* The daemon process. *)

StartDaemon(p) ==
    /\ pc[p] = "down"
    /\ pc' = [pc EXCEPT ![p] = "idle"]
    /\ recovered' = [recovered EXCEPT ![p] = FALSE]
    /\ UNCHANGED <<submitted, removed, fileVars, handoff, runs, session, asking,
                   unpark, todo, job, faultVars>>

\* The process dies (SIGKILL, power, stop during a run): memory is lost.
Crash(p) ==
    /\ pc[p] # "down" /\ crashes < MaxCrashes
    /\ pc' = [pc EXCEPT ![p] = "down"]
    /\ session' = [session EXCEPT ![p] = None]
    /\ asking' = [asking EXCEPT ![p] = FALSE]
    /\ unpark' = [unpark EXCEPT ![p] = None]
    /\ todo' = [todo EXCEPT ![p] = {}]
    /\ crashes' = crashes + 1
    /\ FreeJob(p)
    /\ UNCHANGED <<submitted, removed, fileVars, handoff, runs, recovered, throws>>

Environment ==
    \E t \in Task : \/ Enqueue(t) \/ RemovePending(t) \/ BackoffElapses(t)
                    \/ LeaseExpires(t) \/ ScratchExpires(t) \/ GrowsStale(t) \/ Answer(t)

Tick(p) ==
    \/ DequeueClaim(p) \/ LeaseRenameThrows(p) \/ LeaseWrite(p) \/ LeaseWriteThrows(p)
    \/ \E ok \in BOOLEAN : Finish(p, ok)
    \/ FinishThrows(p) \/ CompleteUnlink(p)

Elicit(p) ==
    \/ Ask(p) \/ Park(p)
    \/ \E t \in Task : ExpireHandoff(p, t)
    \/ Unpark(p) \/ ReclaimSkip(p) \/ ReclaimClaim(p)

Recover(p) ==
    \/ ScanStart(p) \/ ScanRead(p) \/ ScanClaim(p)
    \/ RecoverWrite(p) \/ RecoverUnlink(p) \/ RecoverThrows(p)
    \/ ClaimsStart(p) \/ ClaimTake(p) \/ ClaimRestore(p) \/ ClaimsDone(p)

Next ==
    \/ Environment
    \/ \E p \in Proc : Tick(p) \/ Elicit(p) \/ Recover(p) \/ StartDaemon(p) \/ Crash(p)

Spec == Init /\ [][Next]_vars

\* The daemon is started, its event loop runs, a session that can end ends (its
\* turns are bounded), the clock moves.
Fairness ==
    /\ \A t \in Task : WF_vars(BackoffElapses(t))
    /\ \A p \in Proc :
         /\ WF_vars(StartDaemon(p)) /\ WF_vars(Recover(p))
         /\ SF_vars(DequeueClaim(p)) /\ WF_vars(LeaseWrite(p))
         /\ SF_vars(\E ok \in BOOLEAN : Finish(p, ok)) /\ WF_vars(CompleteUnlink(p))
         /\ WF_vars(Park(p)) /\ WF_vars(Unpark(p) \/ ReclaimSkip(p) \/ ReclaimClaim(p))
FairSpec == Spec /\ Fairness

-----------------------------------------------------------------------------
(* Properties. *)

TypeOK ==
    /\ submitted \subseteq Task /\ removed \subseteq Task
    /\ queue \subseteq QueueFile /\ IsFiniteSet(queue)
    /\ leased \in [Task -> Record]
    /\ scratch \subseteq Scratch
    /\ names \in Nat
    /\ completed \subseteq Task /\ dead \subseteq Task
    /\ handoff \in [Task -> {"none", "pending", "stale", "answered", "expired"}]
    /\ runs \in [Task -> Nat]
    /\ pc \in [Proc -> Section]
    /\ session \in [Proc -> Task \cup {None}]
    /\ asking \in [Proc -> BOOLEAN]
    /\ unpark \in [Proc -> Task \cup {None}]
    /\ recovered \in [Proc -> BOOLEAN]
    /\ todo \in [Proc -> SUBSET FileRef]
    /\ job \in [Proc -> Job]
    /\ crashes \in 0 .. MaxCrashes /\ throws \in 0 .. MaxThrows

\* No accepted task is ever lost: whatever the processes were doing when they
\* died, one of the directories still holds a file for every id that was not
\* taken out.  (Write-then-unlink in completeTask and in recovery,
\* rename-then-write in leaseTask, the second pass for .claim-* leftovers.)
NeverLost ==
    \A t \in submitted \ removed :
        \/ t \in QueuedIds \/ HasLease(t) \/ t \in ScratchIds
        \/ t \in completed \cup dead

\* The retry budget survives every path: a queue file still has an attempt
\* left, and a lease that was written never carries more attempts than the
\* budget, however often the task was recovered.
AttemptsWithinBudget ==
    /\ \A f \in queue : f.attempts < Budget[f.id]
    /\ \A t \in Task : leased[t].attempts <= Budget[t]
    /\ \A s \in scratch : s.rec.attempts <= Budget[s.id]

\* What handoff-expiry.ts:81-83 says: the lease of a task that is still executing is left
\* in place.  The code breaks it for a resumed task, which is in flight under another id,
\* and where the startup recovery expires a question, which does not ask isInFlight.
RunHoldsLease ==
    \A p \in Proc :
        session[p] # None => leased[session[p]].state \in {"leased", "waiting"}

\* Startup recovery is at the reclaim for a question that the task of the running
\* session had asked in an earlier run.
StartupReclaims(p) == pc[p] = "reclaim" /\ unpark[p] = session[p] /\ ~recovered[p]
LosesLease(p) ==
    /\ session[p] # None /\ session'[p] = session[p]
    /\ HasLease(session[p]) /\ ~HasLease(session[p])'

\* Of all steps - both passes of recovery, the sweep's expiry of the session's own
\* question, clocks, failed writes - only one takes the lease file from under a running
\* session: that reclaim of the startup recovery, which the code does not guard.
OnlyStartupTakesLease == [][\A p \in Proc : LosesLease(p) => StartupReclaims(p)]_vars

\* With enqueue's default budget of one attempt no single fault starts a task twice:
\* not a crash between any two file calls, not a write that throws.
AtMostOnce ==
    crashes + throws <= 1 => \A t \in Task : Budget[t] = 1 => runs[t] <= 1

\* One process at a time, as the instance lock sees to, runs tasks of the main queue.
OneDaemon == Proc # {} /\ \A p, q \in Proc : p = q
OwnKey == \A t \in Task : OverlapKey[t] = t

\* A task waits while it has a file and no archive; the queue is sound as long as
\* one daemon owns it, no process has died and no write has thrown.
Archived == completed \cup dead
Waiting ==
    (QueuedIds \cup {t \in Task : HasLease(t)} \cup ScratchIds) \ (Archived \cup removed)
Running == {session[p] : p \in Proc} \ {None}
Sound == OneDaemon /\ OwnKey /\ crashes + throws = 0

\* The files and processes, call by call, implement the abstract queue of
\* DurableQueue: no fault loses an accepted task, and until the first one it is run
\* within its budget, one session at a time, and never after it was archived.
D == INSTANCE DurableQueue WITH
    waiting <- Waiting, settled <- Archived, withdrawn <- removed,
    running <- Running, starts <- runs, sound <- Sound
Durable == D!Spec

\* Unless a fault occurs every accepted task reaches an archive (or is removed):
\* retry, backoff, parked leases and file numbering never strand or starve it.
EventuallyArchived ==
    \A t \in Task : t \in submitted ~>
        t \in completed \cup dead \cup removed \/ crashes + throws > 0

=============================================================================
