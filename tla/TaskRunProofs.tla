---------------------------- MODULE TaskRunProofs ----------------------------
(***************************************************************************)
(* Proofs about TaskLease for one daemon, which is what the instance lock  *)
(* of daemon-instance.lock.ts grants: one step only takes the lease from   *)
(* under a running session, the reclaim that the startup recovery does not *)
(* guard, and a task of one attempt starts once unless two faults hit it.  *)
(* The lease is kept until a first fault, which is what such a reclaim     *)
(* needs (a question left by an earlier process).  With                    *)
(* the theorems of TaskLeaseProofs they make the directories and processes *)
(* implement the queue of DurableQueue, whoever shares them.               *)
(***************************************************************************)
EXTENDS TaskLeaseProofs

-----------------------------------------------------------------------------
(* The lease of a running session. *)

\* Where the two passes of recoverExpiredLeases are under way.
FirstPass(p) ==
    \/ pc[p] \in {"scan", "scanned"}
    \/ pc[p] \in {"claimed", "written"} /\ job[p].pass = "first"
SecondPass(p) ==
    \/ pc[p] \in {"claims", "restore"}
    \/ pc[p] \in {"claimed", "written"} /\ job[p].pass = "second"

\* A lease that recovery could take is not the running session's: while the first pass
\* runs the session's lease has not expired, the second looks at no lease, and a record
\* it puts back is a parked one.
Holds(p) ==
    /\ FirstPass(p) => ~recovered[p]
    /\ SecondPass(p) => \A ref \in todo[p] : ref.kind # "lease"
    /\ pc[p] = "down" => session[p] = None
    /\ pc[p] = "scanned" => job[p].pass = "first"
    /\ pc[p] = "restore" =>
         /\ job[p].ref.kind # "lease"
         /\ \A s \in scratch : s.name = job[p].ref.name => s.rec.state = "waiting"
    /\ session[p] # None =>
         /\ leased[session[p]].expired => recovered[p] \/ SecondPass(p)
         /\ pc[p] = "scanned" /\ job[p].ref.kind = "lease" => job[p].ref.id # session[p]
HoldInv == \A p \in Proc : Holds(p)

\* The file a reference of the second pass finds is the scratch file of that name.
LEMMA ContentIsRecord ==
    ASSUME NEW ref, ref.kind # "lease", Found(ref)
    PROVE  \E s \in scratch : s.name = ref.name /\ Content(ref) = s.rec
  BY DEF Found, Content

\* The clock spares a live session's lease until recovery is over.
LEMMA EnvironmentHolds == BudgetInv /\ HoldInv /\ Environment => HoldInv'
  <1> SUFFICES ASSUME BudgetInv, HoldInv, NEW t \in Task, NEW p \in Proc,
                      \/ Enqueue(t) \/ RemovePending(t) \/ BackoffElapses(t)
                      \/ LeaseExpires(t) \/ ScratchExpires(t) \/ GrowsStale(t) \/ Answer(t)
               PROVE  Holds(p)'
    BY DEF Environment, HoldInv
  <1> leased \in [Task -> Record] /\ scratch \subseteq Scratch /\ session[p] \in Task \cup {None}
    BY DEF BudgetInv, TypeInv, TypeOK
  <1>0. Holds(p)
    BY DEF HoldInv
  <1>1. CASE Enqueue(t) \/ RemovePending(t) \/ BackoffElapses(t) \/ GrowsStale(t) \/ Answer(t)
    BY <1>0, <1>1 DEF Enqueue, RemovePending, BackoffElapses, GrowsStale, Answer, Holds, FirstPass, SecondPass,
       procVars, fileVars
  <1>2. CASE LeaseExpires(t)
    <2>1. /\ leased' = [leased EXCEPT ![t].expired = TRUE]
          /\ session[p] = t => recovered[p]
          /\ UNCHANGED <<scratch, pc, session, recovered, todo, job>>
      BY <1>2 DEF LeaseExpires, procVars
    <2>2. session[p] # None => leased'[session[p]].state = leased[session[p]].state
                               /\ (session[p] # t => leased'[session[p]] = leased[session[p]])
      BY <2>1 DEF Record
    <2> QED  BY <1>0, <2>1, <2>2 DEF Holds, FirstPass, SecondPass
  <1>3. CASE ScratchExpires(t)
    <2>1. \A z \in scratch' : \E s \in scratch : s.name = z.name /\ s.rec.state = z.rec.state
      BY <1>3 DEF ScratchExpires, Scratch, Record
    <2> QED  BY <1>0, <1>3, <2>1 DEF ScratchExpires, Holds, FirstPass, SecondPass, procVars
  <1> QED  BY <1>1, <1>2, <1>3

\* The pull tick takes a lease before it starts a session, and ends it last.
LEMMA TickHolds ==
    ASSUME BudgetInv, HoldInv, OneDaemon, NEW p \in Proc, Tick(p) PROVE HoldInv'
  <1> SUFFICES Holds(p)'
    BY DEF OneDaemon, HoldInv
  <1> USE DEF fileVars, procVars
  <1>0. /\ Holds(p) /\ leased \in [Task -> Record] /\ pc \in [Proc -> Section]
        /\ session \in [Proc -> Task \cup {None}] /\ job \in [Proc -> Job]
    BY DEF BudgetInv, TypeInv, TypeOK, HoldInv
  <1>1. CASE DequeueClaim(p)
    BY <1>0, <1>1 DEF DequeueClaim, Holds, FirstPass, SecondPass
  <1>2. CASE LeaseRenameThrows(p)
    BY <1>0, <1>2 DEF LeaseRenameThrows, Holds, FirstPass, SecondPass
  <1>3. CASE LeaseWrite(p)
    <2>1. job[p].ref.id \in Task
      BY <1>3 DEF LeaseWrite, BudgetInv, TypeInv, TypeOK, OnlySubmitted
    <2> QED  BY <1>0, <1>3, <2>1 DEF LeaseWrite, Holds, FirstPass, SecondPass
  <1>4. CASE LeaseWriteThrows(p)
    BY <1>0, <1>4 DEF LeaseWriteThrows, Holds, FirstPass, SecondPass
  <1>5. ASSUME NEW ok \in BOOLEAN, Finish(p, ok) PROVE Holds(p)'
    BY <1>0, <1>5 DEF Finish, Holds, FirstPass, SecondPass
  <1>6. CASE FinishThrows(p)
    BY <1>0, <1>6 DEF FinishThrows, Holds, FirstPass, SecondPass
  <1>7. CASE CompleteUnlink(p)
    BY <1>0, <1>7 DEF CompleteUnlink, Holds, FirstPass, SecondPass
  <1> QED  BY <1>1, <1>2, <1>3, <1>4, <1>5, <1>6, <1>7 DEF Tick

\* A session's own question parks and unparks its lease; what is reclaimed is gone.
LEMMA ElicitHolds ==
    ASSUME BudgetInv, HoldInv, OneDaemon, NEW p \in Proc, Elicit(p) PROVE HoldInv'
  <1> SUFFICES Holds(p)'
    BY DEF OneDaemon, HoldInv
  <1> USE DEF fileVars, procVars
  <1>0. /\ Holds(p) /\ leased \in [Task -> Record] /\ pc \in [Proc -> Section]
        /\ session \in [Proc -> Task \cup {None}] /\ unpark[p] \in Task \cup {None}
        /\ job \in [Proc -> Job]
    BY DEF BudgetInv, TypeInv, TypeOK, HoldInv
  <1>1. CASE Ask(p)
    BY <1>0, <1>1 DEF Ask, Holds, FirstPass, SecondPass
  <1>2. CASE Park(p)
    BY <1>0, <1>2 DEF Park, Holds, FirstPass, SecondPass, Record
  <1>3. ASSUME NEW t \in Task, ExpireHandoff(p, t) PROVE Holds(p)'
    BY <1>0, <1>3 DEF ExpireHandoff, Holds, FirstPass, SecondPass
  <1>4. CASE Unpark(p)
    BY <1>0, <1>4 DEF Unpark, Restored, Holds, FirstPass, SecondPass, Record
  <1>5. CASE ReclaimSkip(p)
    BY <1>0, <1>5 DEF ReclaimSkip, Holds, FirstPass, SecondPass
  <1>6. CASE ReclaimClaim(p)
    <2>1. unpark[p] \in Task
      BY <1>0, <1>6 DEF ReclaimClaim, BudgetInv, TypeInv, OnlySubmitted
    <2>2. /\ pc'[p] = "claimed" /\ UNCHANGED <<session, recovered, todo>> /\ pc[p] = "reclaim"
          /\ job'[p].pass = "reclaim"
      BY <1>0, <1>6 DEF ReclaimClaim
    <2>3. leased' = [leased EXCEPT ![unpark[p]] = NoFile]
      <3>1. RenameToScratch(LeaseRef(unpark[p]), "claim")
        BY <1>6 DEF ReclaimClaim
      <3> QED  BY <3>1 DEF RenameToScratch, LeaseRef
    <2> QED  BY <1>0, <2>1, <2>2, <2>3 DEF NoFile, Holds, FirstPass, SecondPass
  <1> QED  BY <1>1, <1>2, <1>3, <1>4, <1>5, <1>6 DEF Elicit

\* Startup recovery takes leases that have expired, and claims that are parked back.
LEMMA RecoverHolds ==
    ASSUME BudgetInv, HoldInv, OneDaemon, NEW p \in Proc, Recover(p) PROVE HoldInv'
  <1> SUFFICES Holds(p)'
    BY DEF OneDaemon, HoldInv
  <1> USE DEF fileVars, procVars
  <1>0. /\ Holds(p) /\ leased \in [Task -> Record] /\ pc \in [Proc -> Section]
        /\ session \in [Proc -> Task \cup {None}] /\ recovered \in [Proc -> BOOLEAN]
        /\ job \in [Proc -> Job] /\ scratch \subseteq Scratch
        /\ todo \in [Proc -> SUBSET FileRef] /\ names \in Nat
    BY DEF BudgetInv, TypeInv, TypeOK, HoldInv
  <1>1. CASE ScanStart(p)
    BY <1>0, <1>1 DEF ScanStart, Holds, FirstPass, SecondPass
  <1>2. CASE ScanRead(p)
    <2>1. PICK ref \in todo[p] :
            /\ todo' = [todo EXCEPT ![p] = @ \ {ref}]
            /\ IF Found(ref) /\ Content(ref).state # "waiting" /\ Content(ref).expired
               THEN /\ job' = [job EXCEPT ![p] = [ref |-> ref, attempts |-> Content(ref).attempts,
                                                  pass |-> "first"]]
                    /\ pc' = [pc EXCEPT ![p] = "scanned"]
               ELSE UNCHANGED <<job, pc>>
      BY <1>2 DEF ScanRead
    <2>2. session[p] # None => ~leased[session[p]].expired
      BY <1>0, <1>2 DEF ScanRead, Holds, FirstPass, SecondPass
    <2>3. session[p] # None /\ ref.kind = "lease" /\ ref.id = session[p] => ~Content(ref).expired
      BY <2>2 DEF Content
    <2>4. pc'[p] = "scanned" => job'[p].ref = ref /\ job'[p].pass = "first" /\ Content(ref).expired
      BY <1>0, <1>2, <2>1 DEF ScanRead
    <2>5. pc'[p] \in {"scan", "scanned"} /\ pc[p] = "scan"
          /\ UNCHANGED <<session, leased, recovered, scratch>>
      BY <1>0, <1>2, <2>1 DEF ScanRead
    <2>6. ~recovered[p]
      BY <1>0, <2>5 DEF Holds, FirstPass
    <2>7. session[p] # None /\ pc'[p] = "scanned" /\ job'[p].ref.kind = "lease" =>
            job'[p].ref.id # session[p]
      BY <2>3, <2>4
    <2> HIDE DEF FirstPass
    <2> QED  BY <1>0, <2>2, <2>4, <2>5, <2>6, <2>7 DEF Holds, FirstPass, SecondPass
  <1>3. CASE ScanClaim(p)
    <2> DEFINE ref == job[p].ref
    <2>1. /\ pc[p] = "scanned" /\ pc'[p] \in {"scan", "claimed"}
          /\ pc'[p] = "claimed" => job'[p].pass = "first"
          /\ UNCHANGED <<session, recovered, todo>>
      <3>1. pc[p] = "scanned" /\ UNCHANGED <<session, recovered, todo>>
        BY <1>3 DEF ScanClaim
      <3>2. CASE Found(ref)
        <4>1. pc'[p] = "claimed" /\ job' = [job EXCEPT ![p].ref = [kind |-> "claim", id |-> ref.id, name |-> names]]
          BY <1>0, <1>3, <3>2 DEF ScanClaim
        <4>2. job'[p].pass = job[p].pass
          BY <1>0, <4>1 DEF Job
        <4> QED  BY <1>0, <3>1, <4>1, <4>2 DEF Holds
      <3>3. CASE ~Found(ref)
        BY <1>0, <1>3, <3>1, <3>3 DEF ScanClaim
      <3> QED  BY <3>2, <3>3
    <2>2. ref \in FileRef /\ ref.id \in Task
      BY <1>0, <2>1 DEF Job, BudgetInv, TypeInv, OnlySubmitted, TypeOK
    <2>3. \/ leased' = leased
          \/ ref.kind = "lease" /\ leased' = [leased EXCEPT ![ref.id] = NoFile]
      <3>1. RenameToScratch(ref, "claim") \/ leased' = leased
        <4>1. IF Found(ref)
              THEN /\ RenameToScratch(ref, "claim")
                   /\ job' = [job EXCEPT ![p].ref = [kind |-> "claim", id |-> ref.id, name |-> names]]
                   /\ pc' = [pc EXCEPT ![p] = "claimed"]
              ELSE /\ pc' = [pc EXCEPT ![p] = "scan"]
                   /\ FreeJob(p)
                   /\ UNCHANGED <<scratch, leased, names>>
          BY <1>3 DEF ScanClaim
        <4> QED  BY <4>1
      <3> HIDE DEF ref
      <3> QED  BY <3>1 DEF RenameToScratch
    <2>4. session[p] # None => leased'[session[p]] = leased[session[p]]
      BY <1>0, <2>1, <2>2, <2>3 DEF Holds
    <2> QED  BY <1>0, <2>1, <2>4 DEF Holds, FirstPass, SecondPass
  <1>4. CASE RecoverWrite(p)
    BY <1>0, <1>4 DEF RecoverWrite, Holds, FirstPass, SecondPass
  <1>5. CASE RecoverUnlink(p)
    <2>1. /\ pc[p] = "written" /\ UNCHANGED <<leased, session, recovered, todo>>
          /\ pc'[p] = CASE job[p].pass = "first" -> "scan"
                        [] job[p].pass = "second" -> "claims"
                        [] OTHER -> "idle"
      BY <1>0, <1>5 DEF RecoverUnlink
    <2>2. /\ pc'[p] \in {"scan", "claims", "idle"}
          /\ pc'[p] = "scan" => FirstPass(p)
          /\ pc'[p] = "claims" <=> SecondPass(p)
      BY <2>1 DEF FirstPass, SecondPass
    <2> QED  BY <1>0, <2>1, <2>2 DEF Holds, FirstPass, SecondPass
  <1>6. CASE RecoverThrows(p)
    <2>1. job[p].pass \in {"first", "second", "reclaim"}
      BY <1>0 DEF Job
    <2> QED  BY <1>0, <1>6, <2>1 DEF RecoverThrows, Holds, FirstPass, SecondPass
  <1>7. CASE ClaimsStart(p)
    <2>1. \A ref \in todo'[p] : ref.kind # "lease"
      BY <1>0, <1>7 DEF ClaimsStart, ScratchRef
    <2> QED  BY <1>0, <1>7, <2>1 DEF ClaimsStart, Holds, FirstPass, SecondPass
  <1>8. CASE ClaimTake(p)
    <2>1. PICK ref \in todo[p] :
            /\ todo' = [todo EXCEPT ![p] = @ \ {ref}]
            /\ IF Found(ref)
               THEN /\ RenameToScratch(ref, "process")
                    /\ job' = [job EXCEPT ![p] =
                         [ref |-> [kind |-> "process", id |-> ref.id, name |-> names],
                          attempts |-> Content(ref).attempts, pass |-> "second"]]
                    /\ pc' = [pc EXCEPT ![p] =
                         IF Content(ref).state = "waiting" THEN "restore" ELSE "claimed"]
               ELSE UNCHANGED <<scratch, leased, names, job, pc>>
      BY <1>8 DEF ClaimTake
    <2>2. /\ pc[p] = "claims" /\ UNCHANGED <<session, recovered>> /\ todo'[p] \subseteq todo[p]
          /\ \A r \in todo[p] : r.kind # "lease"
      BY <1>0, <1>8, <2>1 DEF ClaimTake, Holds, SecondPass
    <2>3. leased' = leased
      BY <2>1, <2>2 DEF RenameToScratch
    <2>4. SecondPass(p)' /\ pc'[p] \in {"claims", "restore", "claimed"}
      BY <1>0, <2>1, <2>2 DEF SecondPass
    <2>5. pc'[p] = "restore" =>
            /\ job'[p].ref.kind # "lease"
            /\ \A s \in scratch' : s.name = job'[p].ref.name => s.rec.state = "waiting"
      <3>1. \A s \in scratch : s.name < names /\ s.name \in Nat
        BY <1>0 DEF BudgetInv, NamesFit, Scratch
      <3>2. CASE Found(ref)
        <4>1. job'[p].ref.name = names /\ job'[p].ref.kind = "process"
          BY <1>0, <2>1, <3>2
        <4>2. \A s \in scratch' : s \in scratch \/ s.rec = Content(ref)
          BY <2>1, <3>2 DEF RenameToScratch
        <4>3. pc'[p] = "restore" => Content(ref).state = "waiting"
          BY <1>0, <2>1, <3>2
        <4> QED  BY <1>0, <3>1, <4>1, <4>2, <4>3
      <3>3. CASE ~Found(ref)
        BY <2>1, <2>2, <3>3
      <3> QED  BY <3>2, <3>3
    <2> QED  BY <1>0, <2>2, <2>3, <2>4, <2>5 DEF Holds, FirstPass, SecondPass
  <1>9. CASE ClaimRestore(p)
    <2> DEFINE ref == job[p].ref
    <2>1. pc[p] = "restore" /\ pc'[p] = "claims" /\ UNCHANGED <<session, recovered, todo>>
      BY <1>0, <1>9 DEF ClaimRestore
    <2>2. \/ leased' = leased
          \/ Found(ref) /\ leased' = [leased EXCEPT ![ref.id] = Content(ref)]
      <3>1. IF Found(ref)
            THEN /\ leased' = [leased EXCEPT ![ref.id] = Content(ref)]
                 /\ scratch' = {s \in scratch : ScratchRef(s) # ref}
            ELSE UNCHANGED <<leased, scratch>>
        BY <1>9 DEF ClaimRestore
      <3> QED  BY <3>1
    <2>3. CASE leased' = leased
      BY <1>0, <2>1, <2>3 DEF Holds, FirstPass, SecondPass
    <2>4. CASE Found(ref) /\ leased' = [leased EXCEPT ![ref.id] = Content(ref)]
      <3>1. Content(ref).state = "waiting"
        <4>1. ref.kind # "lease" /\ \A s \in scratch : s.name = ref.name => s.rec.state = "waiting"
          BY <1>0, <2>1 DEF Holds
        <4> QED  BY <2>4, <4>1, ContentIsRecord
      <3> QED  BY <1>0, <2>1, <2>4, <3>1 DEF Holds, FirstPass, SecondPass
    <2> QED  BY <2>2, <2>3, <2>4
  <1>10. CASE ClaimsDone(p)
    BY <1>0, <1>10 DEF ClaimsDone, Holds, FirstPass, SecondPass
  <1> QED  BY <1>1, <1>2, <1>3, <1>4, <1>5, <1>6, <1>7, <1>8, <1>9, <1>10 DEF Recover

\* What was in memory is gone with a crash.
LEMMA NextHolds ==
    ASSUME OneDaemon, BudgetInv, HoldInv, [Next]_vars PROVE HoldInv'
  <1>1. CASE Environment
    BY <1>1, EnvironmentHolds
  <1>2. ASSUME NEW p \in Proc, Tick(p) \/ Elicit(p) \/ Recover(p) PROVE HoldInv'
    BY <1>2, TickHolds, ElicitHolds, RecoverHolds
  <1>3. ASSUME NEW p \in Proc, StartDaemon(p) \/ Crash(p) PROVE HoldInv'
    <2> SUFFICES Holds(p)'
      BY DEF OneDaemon, HoldInv
    <2>1. /\ pc \in [Proc -> Section] /\ session \in [Proc -> Task \cup {None}]
          /\ Holds(p) /\ recovered \in [Proc -> BOOLEAN]
      BY DEF BudgetInv, TypeInv, TypeOK, HoldInv
    <2> QED  BY <1>3, <2>1 DEF StartDaemon, Crash, Holds, FirstPass, SecondPass
  <1>4. CASE UNCHANGED vars
    BY <1>4 DEF vars, fileVars, procVars, HoldInv, Holds, FirstPass, SecondPass
  <1> QED  BY <1>1, <1>2, <1>3, <1>4 DEF Next

LEMMA InitBudget == Init => BudgetInv
  <1>1. Init => TypeInv
    BY InitType
  <1>2. Init => AttemptsWithinBudget
    BY BudgetAssumption DEF Init, AttemptsWithinBudget, NoFile
  <1>3. Init => NamesFit /\ LeasingFits
    BY DEF Init, NamesFit, LeasingFits
  <1> QED  BY <1>1, <1>2, <1>3 DEF BudgetInv

\* A rename takes one lease, and only if it is of a lease file.
LEMMA RenameTakes ==
    ASSUME NEW t \in Task, HasLease(t), NEW ref, NEW kind, RenameToScratch(ref, kind),
           ~(ref.kind = "lease" /\ ref.id = t)
    PROVE  leased'[t] = leased[t]
  BY DEF RenameToScratch

\* A lease whose session goes on stays where it is, unless the startup recovery, which
\* asks no isInFlight, is at the reclaim for a question of that task.
LEMMA LeaseStays ==
    ASSUME OneDaemon, OwnKey, BudgetInv, HoldInv, [Next]_vars, NEW p \in Proc,
           session[p] # None, session'[p] = session[p], HasLease(session[p]), ~StartupReclaims(p)
    PROVE  HasLease(session[p])'
  <1> DEFINE t == session[p]
  <1> USE DEF fileVars, procVars
  <1>0. /\ leased \in [Task -> Record] /\ t \in Task /\ None \notin Task
        /\ session \in [Proc -> Task \cup {None}] /\ Holds(p) /\ queue \subseteq QueueFile
        /\ pc \in [Proc -> Section]
    BY TaskAssumption DEF BudgetInv, TypeInv, TypeOK, HoldInv
  <1>h. leased'[t] = leased[t] => HasLease(t)'
    BY DEF HasLease
  <1>1. CASE UNCHANGED vars
    BY <1>1, <1>h DEF vars
  <1>2. CASE Environment
    <2>1. ASSUME NEW u \in Task, LeaseExpires(u) PROVE HasLease(t)'
      BY <1>0, <2>1 DEF LeaseExpires, HasLease, Record
    <2>2. CASE UNCHANGED leased
      BY <1>h, <2>2
    <2> QED  BY <1>2, <2>1, <2>2 DEF Environment, Enqueue, RemovePending, BackoffElapses,
             ScratchExpires, GrowsStale, Answer
  <1>3. ASSUME NEW q \in Proc, Tick(q) PROVE HasLease(t)'
    <2>1. q = p
      BY DEF OneDaemon
    <2>2. CASE DequeueClaim(q) \/ LeaseRenameThrows(q)
      BY <2>1, <2>2 DEF DequeueClaim, LeaseRenameThrows
    <2>3. CASE LeaseWrite(q)
      <3>1. leased'[t].state = "leased"
        BY <1>0, <2>1, <2>3 DEF LeaseWrite
      <3> QED  BY <3>1 DEF HasLease
    <2>4. CASE CompleteUnlink(q)
      BY <1>0, <2>1, <2>4 DEF CompleteUnlink
    <2>5. CASE UNCHANGED leased
      BY <1>h, <2>5
    <2> QED  BY <1>3, <2>2, <2>3, <2>4, <2>5 DEF Tick, LeaseWriteThrows, Finish, FinishThrows
  <1>4. ASSUME NEW q \in Proc, Elicit(q) PROVE HasLease(t)'
    <2>1. q = p
      BY DEF OneDaemon
    <2>2. CASE Park(q)
      BY <1>0, <2>1, <2>2 DEF Park, HasLease, Record
    <2>3. CASE Unpark(q)
      BY <1>0, <2>1, <2>3 DEF Unpark, Restored, HasLease, Record
    <2>4. CASE ReclaimClaim(q)
      <3>1. /\ pc[p] = "reclaim" /\ ~SkipsInFlight(p, unpark[p])
            /\ RenameToScratch(LeaseRef(unpark[p]), "claim")
        BY <2>1, <2>4 DEF ReclaimClaim
      <3>2. unpark[p] # t
        BY <1>0, <3>1 DEF StartupReclaims, SkipsInFlight, InFlight, OwnKey
      <3>3. leased'[t] = leased[t]
        BY <1>0, <3>1, <3>2, RenameTakes DEF LeaseRef
      <3> QED  BY <1>h, <3>3
    <2>5. CASE UNCHANGED leased
      BY <1>h, <2>5
    <2> QED  BY <1>4, <2>2, <2>3, <2>4, <2>5 DEF Elicit, Ask, ExpireHandoff, ReclaimSkip
  <1>5. ASSUME NEW q \in Proc, Recover(q) PROVE HasLease(t)'
    <2>1. q = p
      BY DEF OneDaemon
    <2>2. CASE ScanClaim(q)
      <3>1. RenameToScratch(job[p].ref, "claim") \/ leased' = leased
        BY <2>1, <2>2 DEF ScanClaim
      <3>2. ~(job[p].ref.kind = "lease" /\ job[p].ref.id = t)
        BY <1>0, <2>1, <2>2 DEF ScanClaim, Holds
      <3> QED  BY <1>0, <1>h, <3>1, <3>2, RenameTakes
    <2>3. CASE ClaimTake(q)
      <3>1. PICK ref \in todo[p] : RenameToScratch(ref, "process") \/ leased' = leased
        BY <2>1, <2>3 DEF ClaimTake
      <3>2. ref.kind # "lease"
        BY <1>0, <2>1, <2>3 DEF ClaimTake, Holds, SecondPass
      <3> QED  BY <1>0, <1>h, <3>1, <3>2, RenameTakes
    <2>4. CASE ClaimRestore(q)
      <3> DEFINE ref == job[p].ref
      <3>1. \/ leased' = leased
            \/ Found(ref) /\ leased' = [leased EXCEPT ![ref.id] = Content(ref)]
        BY <2>1, <2>4 DEF ClaimRestore
      <3>2. CASE Found(ref) /\ leased' = [leased EXCEPT ![ref.id] = Content(ref)]
        <4>1. ref.kind # "lease" /\ \A s \in scratch : s.name = ref.name => s.rec.state = "waiting"
          BY <1>0, <2>1, <2>4 DEF ClaimRestore, Holds
        <4>2. Content(ref).state = "waiting"
          BY <3>2, <4>1, ContentIsRecord
        <4> QED  BY <1>0, <3>2, <4>2 DEF HasLease
      <3> QED  BY <1>h, <3>1, <3>2
    <2>5. CASE UNCHANGED leased
      BY <1>h, <2>5
    <2> QED  BY <1>5, <2>2, <2>3, <2>4, <2>5 DEF Recover, ScanStart, ScanRead, RecoverWrite,
             RecoverUnlink, RecoverThrows, ClaimsStart, ClaimsDone
  <1>6. ASSUME NEW q \in Proc, StartDaemon(q) \/ Crash(q) PROVE HasLease(t)'
    BY <1>6, <1>h DEF StartDaemon, Crash
  <1> QED  BY <1>1, <1>2, <1>3, <1>4, <1>5, <1>6 DEF Next

\* A daemon that is alone takes the lease from under its own running session in one step
\* only: when its startup recovery reclaims for a question of that task, where the code
\* hands no isInFlight to expireHandoff.  Neither pass of recoverExpiredLeases nor the
\* sweep ever does.  The run of a resumed task, whose overlap key is another id, is
\* outside of OwnKey.
THEOREM RunKeepsLease == ASSUME OneDaemon, OwnKey PROVE Spec => OnlyStartupTakesLease
  <1>1. Init => HoldInv
    BY DEF Init, HoldInv, Holds, FirstPass, SecondPass
  <1>2. BudgetInv /\ HoldInv /\ [Next]_vars => (BudgetInv /\ HoldInv)'
    BY NextBudget, NextHolds
  <1>3. BudgetInv /\ HoldInv /\ [Next]_vars =>
          [\A p \in Proc : LosesLease(p) => StartupReclaims(p)]_vars
    BY LeaseStays DEF LosesLease, HasLease
  <1> QED  BY <1>1, <1>2, <1>3, InitBudget, PTL DEF Spec, OnlyStartupTakesLease

-----------------------------------------------------------------------------
(* A task of one attempt.  Until its session starts, one file says that no attempt   *)
(* was made (a queue file just written for a claim aside, that is about to go), and  *)
(* only a fault leaves such a file in another place than the queue.                  *)

Faults == crashes + throws
QueueFiles(t) == {f \in queue : f.id = t}
RawLease(t) == HasLease(t) /\ leased[t].attempts = 0
RawRefs(t) == {ScratchRef(s) : s \in {z \in scratch : z.id = t /\ z.rec.attempts = 0}}

\* The process is at a record of t, in recovery or between its two lease calls.
AtTask(p, t, section) == pc[p] = section /\ job[p].ref.id = t

StartsOnce(p, t) ==
    /\ runs[t] <= 1 /\ (session[p] = t => runs[t] = 1)
    /\ runs[t] = 1 => /\ QueueFiles(t) = {} /\ ~RawLease(t) /\ RawRefs(t) = {}
                      /\ t \in submitted
    /\ \A f, g \in QueueFiles(t) : f = g
    /\ RawLease(t) => /\ QueueFiles(t) = {} /\ RawRefs(t) = {}
                      /\ Faults = 0 => AtTask(p, t, "leasing")
    /\ AtTask(p, t, "leasing") => RawLease(t)
    /\ RawRefs(t) # {} =>
         /\ Faults > 0 /\ RawRefs(t) = {job[p].ref} /\ job[p].attempts = 0
         /\ AtTask(p, t, "claimed") \/ AtTask(p, t, "written")
    /\ AtTask(p, t, "scanned") =>
         (job[p].attempts = 0 <=> RawLease(t) /\ job[p].ref.kind = "lease")
    /\ AtTask(p, t, "claimed") /\ job[p].attempts = 0 =>
         QueueFiles(t) = {} /\ RawRefs(t) # {}
OnceInv == Faults <= 1 => \A p \in Proc, t \in Task : Budget[t] = 1 => StartsOnce(p, t)

\* A file written for another task is none of t's.
LEMMA OtherQueueFiles ==
    ASSUME NEW t, NEW u, u # t, NEW a, NEW e, queue' = QueueWith(u, a, e)
    PROVE  QueueFiles(t)' = QueueFiles(t)
  BY DEF QueueWith, QueueFiles

\* The first file written for t is the only one.
LEMMA OwnQueueFile ==
    ASSUME NEW t, NEW a, NEW e, QueueFiles(t) = {}, queue' = QueueWith(t, a, e)
    PROVE  \A f, g \in QueueFiles(t)' : f = g
  BY DEF QueueWith, QueueFiles

\* What a process finds of t, while no scratch file of t is without an attempt.
LEMMA ContentRaw ==
    ASSUME BudgetInv, NEW t \in Task, RawRefs(t) = {},
           NEW ref \in FileRef, ref.id = t, Found(ref), RefFits(ref)
    PROVE  Content(ref).attempts = 0 <=> RawLease(t) /\ ref.kind = "lease"
  <1>1. CASE ref.kind = "lease"
    BY <1>1 DEF Found, Content, RawLease
  <1>2. CASE ref.kind # "lease"
    <2>1. PICK s \in scratch : s.name = ref.name /\ Content(ref) = s.rec
      BY <1>2, ContentIsRecord
    <2>2. s.id = t
      BY <1>2, <2>1 DEF RefFits
    <2> QED  BY <1>2, <2>1, <2>2 DEF RawRefs
  <1> QED  BY <1>1, <1>2

\* A rename moves the record of t, attempts and all, to one new scratch file.
LEMMA RenameRaw ==
    ASSUME BudgetInv, NEW t \in Task, RawRefs(t) = {}, NEW kind,
           NEW ref \in FileRef, ref.id \in Task, Found(ref), RefFits(ref), RenameToScratch(ref, kind)
    PROVE  /\ RawLease(t)' <=> RawLease(t) /\ ~(ref.kind = "lease" /\ ref.id = t)
           /\ ref.id = t /\ RawLease(t) /\ ref.kind = "lease" =>
                RawRefs(t)' = {[kind |-> kind, id |-> t, name |-> names]}
           /\ ~(ref.id = t /\ RawLease(t) /\ ref.kind = "lease") => RawRefs(t)' = {}
  <1> DEFINE new == [name |-> names, kind |-> kind, id |-> ref.id, rec |-> Content(ref)]
             one == {s \in scratch : ScratchRef(s) # ref}
  <1>1. leased \in [Task -> Record] /\ scratch' = one \cup {new}
    BY DEF BudgetInv, TypeInv, TypeOK, RenameToScratch
  <1>2. leased' = IF ref.kind = "lease" THEN [leased EXCEPT ![ref.id] = NoFile] ELSE leased
    BY DEF RenameToScratch
  <1>3. RawLease(t)' <=> RawLease(t) /\ ~(ref.kind = "lease" /\ ref.id = t)
    BY <1>1, <1>2 DEF RawLease, HasLease, NoFile
  <1>4. \A s \in one : ~(s.id = t /\ s.rec.attempts = 0)
    BY DEF RawRefs
  <1>5. new.id = ref.id /\ new.rec = Content(ref) /\ ScratchRef(new) = [kind |-> kind, id |-> ref.id, name |-> names]
    BY DEF ScratchRef
  <1> HIDE DEF new, one
  <1>6. RawRefs(t)' = {ScratchRef(s) : s \in {z \in {new} : z.id = t /\ z.rec.attempts = 0}}
    BY <1>1, <1>4 DEF RawRefs, ScratchRef
  <1>7. CASE ref.id = t
    <2>1. Content(ref).attempts = 0 <=> RawLease(t) /\ ref.kind = "lease"
      BY <1>7, ContentRaw
    <2> QED  BY <1>3, <1>5, <1>6, <1>7, <2>1
  <1>8. CASE ref.id # t
    BY <1>3, <1>5, <1>6, <1>8
  <1> QED  BY <1>7, <1>8

\* The files of t stay, or become fewer, and the process is nowhere near them.
LEMMA FewerFiles ==
    ASSUME NEW p, NEW t, StartsOnce(p, t), Faults \in Nat, Faults' \in Nat, Faults <= Faults',
           \A at \in {"leasing", "scanned", "claimed"} : ~AtTask(p, t, at)',
           runs'[t] = runs[t], session'[p] = t => session[p] = t, submitted \subseteq submitted',
           QueueFiles(t)' \subseteq QueueFiles(t), RawLease(t)' => RawLease(t),
           RawLease(t)' => Faults' > 0, RawRefs(t)' = {}
    PROVE  StartsOnce(p, t)'
  BY DEF StartsOnce

\* The process goes on where it is, and so do the files of t.
LEMMA SameFiles ==
    ASSUME NEW p, NEW t, StartsOnce(p, t), Faults' = Faults,
           pc'[p] = pc[p], job'[p] = job[p], runs'[t] = runs[t],
           session'[p] = t => session[p] = t, submitted \subseteq submitted',
           QueueFiles(t) = {} => QueueFiles(t)' = {}, \A f, g \in QueueFiles(t)' : f = g,
           RawLease(t)' <=> RawLease(t), RawRefs(t)' = RawRefs(t)
    PROVE  StartsOnce(p, t)'
  BY DEF StartsOnce, AtTask

\* A claim by rename, in any recovery, takes the record of t along with its attempts.
LEMMA ClaimOnce ==
    ASSUME BudgetInv, NEW p \in Proc, NEW t \in Task, StartsOnce(p, t), Faults \in Nat,
           pc[p] \notin {"leasing", "claimed", "written"}, pc'[p] = "claimed",
           NEW kind, NEW ref \in FileRef, ref.id \in Task, Found(ref), RefFits(ref),
           RenameToScratch(ref, kind),
           job'[p].ref = [kind |-> kind, id |-> ref.id, name |-> names],
           ref.id = t => (job'[p].attempts = 0 <=> RawLease(t) /\ ref.kind = "lease"),
           UNCHANGED <<submitted, queue, runs, session, crashes, throws>>
    PROVE  StartsOnce(p, t)'
  <1>1. RawRefs(t) = {} /\ (RawLease(t) => Faults > 0)
    BY DEF StartsOnce, AtTask
  <1>2. /\ RawLease(t)' <=> RawLease(t) /\ ~(ref.kind = "lease" /\ ref.id = t)
        /\ ref.id = t /\ RawLease(t) /\ ref.kind = "lease" =>
             RawRefs(t)' = {[kind |-> kind, id |-> t, name |-> names]}
        /\ ~(ref.id = t /\ RawLease(t) /\ ref.kind = "lease") => RawRefs(t)' = {}
    BY <1>1, RenameRaw
  <1>3. QueueFiles(t)' = QueueFiles(t) /\ Faults' = Faults
    BY DEF QueueFiles, Faults
  <1>4. /\ \A at : at # "claimed" => ~AtTask(p, t, at)'
        /\ AtTask(p, t, "claimed")' <=> ref.id = t
    BY DEF AtTask
  <1>5. CASE ref.id = t /\ RawLease(t) /\ ref.kind = "lease"
    <2>1. RawRefs(t)' = {job'[p].ref} /\ job'[p].attempts = 0 /\ ~RawLease(t)'
      BY <1>2, <1>5
    <2>2. QueueFiles(t)' = {} /\ Faults' > 0 /\ runs'[t] # 1
      BY <1>1, <1>3, <1>5 DEF StartsOnce
    <2> QED  BY <1>3, <1>4, <1>5, <2>1, <2>2 DEF StartsOnce
  <1>6. CASE ~(ref.id = t /\ RawLease(t) /\ ref.kind = "lease")
    <2>1. RawRefs(t)' = {} /\ (RawLease(t)' => RawLease(t))
      BY <1>2, <1>6
    <2>2. ~(AtTask(p, t, "claimed")' /\ job'[p].attempts = 0)
      BY <1>4, <1>6
    <2> QED  BY <1>1, <1>3, <1>4, <2>1, <2>2 DEF StartsOnce
  <1> QED  BY <1>5, <1>6

\* The CLI and the clock neither start a task nor make a file for one that was started.
LEMMA EnvironmentOnce ==
    ASSUME BudgetInv, NEW p \in Proc, NEW t \in Task, StartsOnce(p, t), Environment
    PROVE  StartsOnce(p, t)'
  <1> USE DEF fileVars, procVars, faultVars
  <1>0. /\ leased \in [Task -> Record] /\ scratch \subseteq Scratch /\ queue \subseteq QueueFile
        /\ \A f, g \in QueueFiles(t) : f = g
    BY DEF BudgetInv, TypeInv, TypeOK, StartsOnce
  <1>1. ASSUME NEW u \in Task, Enqueue(u) PROVE StartsOnce(p, t)'
    <2>1. /\ queue' = QueueWith(u, 0, TRUE) /\ submitted' = submitted \cup {u} /\ u \notin submitted
          /\ UNCHANGED <<leased, scratch, runs, pc, session, job, crashes, throws>>
      BY <1>1 DEF Enqueue
    <2>2. RawRefs(t)' = RawRefs(t) /\ (RawLease(t)' <=> RawLease(t)) /\ Faults' = Faults
      BY <2>1 DEF RawRefs, RawLease, HasLease, Faults, ScratchRef
    <2>3. CASE u = t
      <3>1. QueueFiles(t) = {} /\ ~RawLease(t) /\ RawRefs(t) = {}
        BY <2>1, <2>3 DEF BudgetInv, TypeInv, OnlySubmitted, QueueFiles, RawLease, RawRefs
      <3>2. \A f, g \in QueueFiles(t)' : f = g
        BY <2>1, <2>3, <3>1, OwnQueueFile
      <3>3. \A at \in {"leasing", "scanned", "claimed"} : ~AtTask(p, t, at)
        BY <2>1, <2>3 DEF BudgetInv, TypeInv, OnlySubmitted, AtTask
      <3>4. \A at \in {"leasing", "scanned", "claimed"} : ~AtTask(p, t, at)'
        BY <2>1, <3>3 DEF AtTask
      <3>5. runs'[t] # 1 /\ runs'[t] <= 1 /\ session'[p] # t
        BY <2>1, <2>3 DEF StartsOnce
      <3> QED  BY <2>2, <3>1, <3>2, <3>4, <3>5 DEF StartsOnce
    <2>4. CASE u # t
      <3>1. QueueFiles(t)' = QueueFiles(t)
        BY <2>1, <2>4, OtherQueueFiles
      <3> QED  BY <1>0, <2>1, <2>2, <3>1, SameFiles
    <2> QED  BY <2>3, <2>4
  <1>2. ASSUME NEW u \in Task, RemovePending(u) PROVE StartsOnce(p, t)'
    <2>1. /\ queue' \subseteq queue
          /\ UNCHANGED <<submitted, leased, scratch, runs, pc, session, job, crashes, throws>>
      BY <1>2 DEF RemovePending
    <2>2. RawRefs(t)' = RawRefs(t) /\ (RawLease(t)' <=> RawLease(t)) /\ Faults' = Faults
      BY <2>1 DEF RawRefs, RawLease, HasLease, Faults, ScratchRef
    <2>3. QueueFiles(t)' \subseteq QueueFiles(t)
      BY <2>1 DEF QueueFiles
    <2> QED  BY <1>0, <2>1, <2>2, <2>3, SameFiles
  <1>3. ASSUME NEW u \in Task, BackoffElapses(u) PROVE StartsOnce(p, t)'
    <2>1. UNCHANGED <<submitted, leased, scratch, runs, pc, session, job, crashes, throws>>
      BY <1>3 DEF BackoffElapses
    <2>2. RawRefs(t)' = RawRefs(t) /\ (RawLease(t)' <=> RawLease(t)) /\ Faults' = Faults
      BY <2>1 DEF RawRefs, RawLease, HasLease, Faults, ScratchRef
    <2>3. PICK f \in queue : f.id = u /\ queue' = (queue \ {f}) \cup {[f EXCEPT !.eligible = TRUE]}
      BY <1>3 DEF BackoffElapses
    <2>4. [f EXCEPT !.eligible = TRUE].id = f.id
      BY <1>0 DEF QueueFile
    <2>5. (QueueFiles(t) = {} => QueueFiles(t)' = {}) /\ \A g, h \in QueueFiles(t)' : g = h
      BY <1>0, <2>3, <2>4 DEF QueueFiles
    <2> QED  BY <2>1, <2>2, <2>5, SameFiles
  <1>4. ASSUME NEW u \in Task, LeaseExpires(u) \/ ScratchExpires(u) \/ GrowsStale(u) \/ Answer(u) PROVE StartsOnce(p, t)'
    <2>1. UNCHANGED <<submitted, queue, runs, pc, session, job, crashes, throws>>
      BY <1>4 DEF LeaseExpires, ScratchExpires, GrowsStale, Answer
    <2>2. RawLease(t)' <=> RawLease(t)
      BY <1>0, <1>4 DEF LeaseExpires, ScratchExpires, GrowsStale, Answer, RawLease, HasLease, Record
    <2>3. RawRefs(t)' = RawRefs(t)
      <3>1. CASE UNCHANGED scratch
        BY <3>1 DEF RawRefs, ScratchRef
      <3>2. CASE ScratchExpires(u)
        <4>1. PICK s \in scratch : scratch' = (scratch \ {s}) \cup {[s EXCEPT !.rec.expired = TRUE]}
          BY <3>2 DEF ScratchExpires
        <4> DEFINE z == [s EXCEPT !.rec.expired = TRUE]
        <4>2. z.id = s.id /\ z.rec.attempts = s.rec.attempts /\ z.kind = s.kind /\ z.name = s.name
          BY <1>0 DEF Scratch, Record
        <4>3. ScratchRef(z) = ScratchRef(s)
          BY <4>2 DEF ScratchRef
        <4> HIDE DEF z
        <4>4. scratch' = (scratch \ {s}) \cup {z}
          BY <4>1 DEF z
        <4>5. \A r : r \in RawRefs(t)' <=> \E y \in scratch' : y.id = t /\ y.rec.attempts = 0 /\ r = ScratchRef(y)
          BY DEF RawRefs, ScratchRef
        <4>6. \A r : r \in RawRefs(t) <=> \E y \in scratch : y.id = t /\ y.rec.attempts = 0 /\ r = ScratchRef(y)
          BY DEF RawRefs
        <4>7. \A r : r \in RawRefs(t)' <=> r \in RawRefs(t)
          BY <4>2, <4>3, <4>4, <4>5, <4>6
        <4> QED  BY <4>7
      <3> QED  BY <1>4, <3>1, <3>2 DEF LeaseExpires, GrowsStale, Answer
    <2>4. QueueFiles(t)' = QueueFiles(t) /\ Faults' = Faults
      BY <2>1 DEF QueueFiles, Faults
    <2> QED  BY <1>0, <2>1, <2>2, <2>3, <2>4, SameFiles
  <1> QED  BY <1>1, <1>2, <1>3, <1>4 DEF Environment

\* The pull tick: the queue file becomes the lease, and then the session starts.
LEMMA TickOnce ==
    ASSUME BudgetInv, NEW p \in Proc, NEW t \in Task, Budget[t] = 1, StartsOnce(p, t), Tick(p)
    PROVE  StartsOnce(p, t)'
  <1> USE DEF fileVars, procVars, faultVars
  <1>0. /\ leased \in [Task -> Record] /\ queue \subseteq QueueFile /\ runs \in [Task -> Nat]
        /\ pc \in [Proc -> Section] /\ job \in [Proc -> Job]
        /\ session \in [Proc -> Task \cup {None}]
        /\ crashes \in Nat /\ throws \in Nat /\ Faults \in Nat
    BY FaultAssumption DEF BudgetInv, TypeInv, TypeOK, Faults
  <1>1. CASE DequeueClaim(p)
    <2>1. PICK f \in queue :
            /\ queue' = queue \ {f} /\ leased' = LeaseFrom(f)
            /\ job' = [job EXCEPT ![p] =
                 [ref |-> LeaseRef(f.id), attempts |-> f.attempts, pass |-> "first"]]
      BY <1>1 DEF DequeueClaim
    <2>2. /\ pc[p] = "idle" /\ pc'[p] = "leasing" /\ session[p] = None
          /\ UNCHANGED <<submitted, scratch, runs, session, crashes, throws>>
      BY <1>0, <1>1 DEF DequeueClaim
    <2>3. /\ RawRefs(t)' = RawRefs(t) /\ RawRefs(t) = {} /\ Faults' = Faults
          /\ RawLease(t) => Faults > 0
      <3>1. RawRefs(t)' = RawRefs(t) /\ Faults' = Faults
        BY <2>2 DEF RawRefs, ScratchRef, Faults
      <3>2. RawRefs(t) = {} /\ (RawLease(t) => Faults > 0)
        BY <1>0, <2>2 DEF StartsOnce, AtTask
      <3> QED  BY <3>1, <3>2
    <2>4. /\ AtTask(p, t, "leasing")' <=> f.id = t
          /\ \A at \in {"scanned", "claimed"} : ~AtTask(p, t, at)'
      BY <1>0, <2>1, <2>2 DEF AtTask, LeaseRef
    <2>5. QueueFiles(t)' = QueueFiles(t) \ {f}
      BY <2>1 DEF QueueFiles
    <2>6. f.id \in Task /\ f.attempts \in Nat /\ f.attempts < Budget[f.id]
      BY <1>0 DEF QueueFile, BudgetInv, AttemptsWithinBudget
    <2>7. CASE f.id = t
      <3>1. f \in QueueFiles(t) /\ QueueFiles(t)' = {}
        BY <2>5, <2>7 DEF QueueFiles, StartsOnce
      <3>2. f.attempts = 0
        BY <2>6, <2>7
      <3>3. RawLease(t)'
        BY <1>0, <2>1, <2>6, <2>7, <3>2 DEF LeaseFrom, RawLease, HasLease
      <3>4. runs[t] # 1
        BY <3>1 DEF StartsOnce
      <3> QED  BY <2>2, <2>3, <2>4, <2>7, <3>1, <3>3, <3>4, TaskAssumption DEF StartsOnce, AtTask
    <2>8. CASE f.id # t
      <3>1. RawLease(t)' <=> RawLease(t)
        BY <1>0, <2>1, <2>6, <2>8 DEF LeaseFrom, RawLease, HasLease
      <3> QED  BY <1>0, <2>2, <2>3, <2>4, <2>5, <2>8, <3>1, FewerFiles
    <2> QED  BY <2>7, <2>8
  <1>2. CASE LeaseRenameThrows(p)
    <2>1. /\ pc[p] = "idle" /\ queue' \subseteq queue /\ crashes' = crashes /\ throws' = throws + 1
          /\ UNCHANGED <<submitted, leased, scratch, runs, pc, session, job>>
      BY <1>2 DEF LeaseRenameThrows
    <2>2. /\ RawRefs(t)' = RawRefs(t) /\ RawRefs(t) = {} /\ (RawLease(t)' <=> RawLease(t))
      BY <2>1 DEF RawRefs, ScratchRef, RawLease, HasLease, StartsOnce, AtTask
    <2>3. QueueFiles(t)' \subseteq QueueFiles(t) /\ Faults' = Faults + 1
      BY <1>0, <2>1 DEF QueueFiles, Faults
    <2>4. \A at \in {"leasing", "scanned", "claimed"} : ~AtTask(p, t, at)'
      BY <2>1 DEF AtTask
    <2> QED  BY <1>0, <2>1, <2>2, <2>3, <2>4, FewerFiles
  <1>3. CASE LeaseWrite(p)
    <2> DEFINE u == job[p].ref.id
    <2>1. /\ pc[p] = "leasing" /\ pc'[p] = "idle" /\ session' = [session EXCEPT ![p] = u]
          /\ runs' = [runs EXCEPT ![u] = @ + 1]
          /\ leased' = [leased EXCEPT ![u] = [attempts |-> NextAttempt(job[p].attempts),
                                              state |-> "leased", expired |-> FALSE]]
          /\ UNCHANGED <<submitted, queue, scratch, crashes, throws>>
      BY <1>0, <1>3 DEF LeaseWrite
    <2>2. u \in Task /\ u \in submitted /\ job[p].attempts \in Nat
      BY <1>0, <2>1 DEF BudgetInv, TypeInv, OnlySubmitted, TypeOK, Job
    <2>3. /\ RawRefs(t)' = RawRefs(t) /\ RawRefs(t) = {} /\ Faults' = Faults
          /\ QueueFiles(t)' = QueueFiles(t)
      BY <2>1 DEF RawRefs, ScratchRef, Faults, QueueFiles, StartsOnce, AtTask
    <2>4. \A at \in {"leasing", "scanned", "claimed"} : ~AtTask(p, t, at)'
      BY <2>1 DEF AtTask
    <2>5. CASE u = t
      <3>1. RawLease(t)
        BY <2>1, <2>5 DEF StartsOnce, AtTask
      <3>2. QueueFiles(t) = {} /\ runs[t] = 0
        BY <1>0, <2>2, <2>5, <3>1 DEF StartsOnce
      <3>3. ~RawLease(t)' /\ runs'[t] = 1
        BY <1>0, <2>1, <2>2, <2>5, <3>2 DEF RawLease, NextAttempt
      <3> QED  BY <2>1, <2>2, <2>3, <2>4, <2>5, <3>2, <3>3 DEF StartsOnce
    <2>6. CASE u # t
      <3>1. RawLease(t)' <=> RawLease(t)
        BY <1>0, <2>1, <2>2, <2>6 DEF RawLease, HasLease
      <3>2. RawLease(t) => Faults > 0
        BY <1>0, <2>6 DEF StartsOnce, AtTask
      <3>3. runs'[t] = runs[t] /\ session'[p] # t
        BY <1>0, <2>1, <2>6
      <3> QED  BY <1>0, <2>1, <2>3, <2>4, <3>1, <3>2, <3>3, FewerFiles
    <2> QED  BY <2>5, <2>6
  <1>4. CASE LeaseWriteThrows(p)
    <2>1. /\ pc[p] = "leasing" /\ pc'[p] = "idle" /\ crashes' = crashes /\ throws' = throws + 1
          /\ UNCHANGED <<submitted, queue, leased, scratch, runs, session>>
      BY <1>0, <1>4 DEF LeaseWriteThrows
    <2>2. /\ RawRefs(t)' = RawRefs(t) /\ RawRefs(t) = {} /\ (RawLease(t)' <=> RawLease(t))
          /\ QueueFiles(t)' = QueueFiles(t) /\ Faults' = Faults + 1
      BY <1>0, <2>1 DEF RawRefs, ScratchRef, RawLease, HasLease, StartsOnce, AtTask, QueueFiles, Faults
    <2>3. \A at \in {"leasing", "scanned", "claimed"} : ~AtTask(p, t, at)'
      BY <2>1 DEF AtTask
    <2> QED  BY <1>0, <2>1, <2>2, <2>3, FewerFiles
  <1>5. ASSUME NEW ok \in BOOLEAN, Finish(p, ok) PROVE StartsOnce(p, t)'
    <2>1. /\ pc[p] = "idle" /\ pc'[p] = "archived" /\ session[p] # None
          /\ UNCHANGED <<submitted, leased, scratch, runs, session, crashes, throws>>
      BY <1>0, <1>5 DEF Finish
    <2>2. /\ RawRefs(t)' = RawRefs(t) /\ RawRefs(t) = {} /\ (RawLease(t)' <=> RawLease(t))
          /\ Faults' = Faults /\ (RawLease(t) => Faults > 0)
      <3>1. RawRefs(t)' = RawRefs(t) /\ Faults' = Faults
        BY <2>1 DEF RawRefs, ScratchRef, Faults
      <3>2. RawLease(t)' <=> RawLease(t)
        BY <2>1 DEF RawLease, HasLease
      <3>3. RawRefs(t) = {} /\ (RawLease(t) => Faults > 0)
        BY <1>0, <2>1 DEF StartsOnce, AtTask
      <3> QED  BY <3>1, <3>2, <3>3
    <2>3. \A at \in {"leasing", "scanned", "claimed"} : ~AtTask(p, t, at)'
      BY <2>1 DEF AtTask
    <2>4. QueueFiles(t)' = QueueFiles(t)
      <3>1. CASE session[p] = t
        <4>1. ~RawLease(t) /\ leased[t].attempts \in Nat
          BY <1>0, <3>1 DEF StartsOnce, Record
        <4>2. ~HasLease(t) \/ ~MayRetry(t, leased[t].attempts)
          BY <4>1 DEF RawLease, MayRetry
        <4>3. queue' = queue
          BY <1>5, <3>1, <4>2 DEF Finish
        <4> QED  BY <4>3 DEF QueueFiles
      <3>2. CASE session[p] # t
        <4>1. queue' = queue \/ queue' = QueueWith(session[p], leased[session[p]].attempts, FALSE)
          BY <1>5 DEF Finish
        <4>2. CASE queue' = queue
          BY <4>2 DEF QueueFiles
        <4>3. CASE queue' = QueueWith(session[p], leased[session[p]].attempts, FALSE)
          BY <3>2, <4>3, OtherQueueFiles
        <4> QED  BY <4>1, <4>2, <4>3
      <3> QED  BY <3>1, <3>2
    <2> QED  BY <1>0, <2>1, <2>2, <2>3, <2>4, FewerFiles
  <1>6. CASE FinishThrows(p)
    <2>1. /\ pc[p] = "idle" /\ crashes' = crashes /\ throws' = throws + 1 /\ session'[p] = None
          /\ UNCHANGED <<submitted, queue, leased, scratch, runs, pc>>
      BY <1>0, <1>6 DEF FinishThrows
    <2>2. /\ RawRefs(t)' = RawRefs(t) /\ RawRefs(t) = {} /\ (RawLease(t)' <=> RawLease(t))
          /\ QueueFiles(t)' = QueueFiles(t) /\ Faults' = Faults + 1
      BY <1>0, <2>1 DEF RawRefs, ScratchRef, RawLease, HasLease, StartsOnce, AtTask, QueueFiles, Faults
    <2>3. \A at \in {"leasing", "scanned", "claimed"} : ~AtTask(p, t, at)'
      BY <2>1 DEF AtTask
    <2> QED  BY <1>0, <2>1, <2>2, <2>3, TaskAssumption, FewerFiles
  <1>7. CASE CompleteUnlink(p)
    <2>1. /\ pc[p] = "archived" /\ pc'[p] = "idle" /\ session'[p] = None
          /\ leased' = [leased EXCEPT ![session[p]] = NoFile]
          /\ UNCHANGED <<submitted, queue, scratch, runs, crashes, throws>>
      BY <1>0, <1>7 DEF CompleteUnlink
    <2>2. /\ RawRefs(t)' = RawRefs(t) /\ RawRefs(t) = {} /\ (RawLease(t) => Faults > 0)
          /\ QueueFiles(t)' = QueueFiles(t) /\ Faults' = Faults
      BY <1>0, <2>1 DEF RawRefs, ScratchRef, StartsOnce, AtTask, QueueFiles, Faults
    <2>3. RawLease(t)' => RawLease(t)
      BY <1>0, <2>1 DEF RawLease, HasLease, NoFile
    <2>4. \A at \in {"leasing", "scanned", "claimed"} : ~AtTask(p, t, at)'
      BY <2>1 DEF AtTask
    <2> QED  BY <1>0, <2>1, <2>2, <2>3, <2>4, TaskAssumption, FewerFiles
  <1> QED  BY <1>1, <1>2, <1>3, <1>4, <1>5, <1>6, <1>7 DEF Tick

\* A question parks the lease and takes it back with the attempts it had.
LEMMA ElicitOnce ==
    ASSUME BudgetInv, NEW p \in Proc, NEW t \in Task, StartsOnce(p, t), Elicit(p)
    PROVE  StartsOnce(p, t)'
  <1> USE DEF fileVars, procVars, faultVars
  <1>0. /\ leased \in [Task -> Record] /\ pc \in [Proc -> Section] /\ job \in [Proc -> Job]
        /\ Faults \in Nat
    BY FaultAssumption DEF BudgetInv, TypeInv, TypeOK, Faults
  <1>1. CASE Ask(p) \/ Park(p) \/ (\E u \in Task : ExpireHandoff(p, u)) \/ Unpark(p) \/ ReclaimSkip(p)
    <2>1. /\ pc[p] \in {"idle", "reclaim"} /\ pc'[p] \in {"idle", "reclaim"}
          /\ UNCHANGED <<submitted, queue, scratch, runs, session, crashes, throws>>
      BY <1>0, <1>1 DEF Ask, Park, ExpireHandoff, Unpark, ReclaimSkip
    <2>2. RawRefs(t)' = RawRefs(t) /\ Faults' = Faults /\ QueueFiles(t)' = QueueFiles(t)
      BY <2>1 DEF RawRefs, ScratchRef, Faults, QueueFiles
    <2>3. RawLease(t)' <=> RawLease(t)
      <3>1. CASE Ask(p) \/ (\E u \in Task : ExpireHandoff(p, u)) \/ ReclaimSkip(p)
        BY <3>1 DEF Ask, ExpireHandoff, ReclaimSkip, RawLease, HasLease
      <3>2. CASE Park(p)
        BY <1>0, <3>2 DEF Park, RawLease, HasLease, Record
      <3>3. CASE Unpark(p)
        BY <1>0, <3>3 DEF Unpark, Restored, RawLease, HasLease, Record
      <3> QED  BY <1>1, <3>1, <3>2, <3>3
    <2>4. RawRefs(t) = {} /\ (RawLease(t) => Faults > 0)
      BY <1>0, <2>1 DEF StartsOnce, AtTask
    <2>5. \A at \in {"leasing", "scanned", "claimed"} : ~AtTask(p, t, at)'
      BY <2>1 DEF AtTask
    <2> QED  BY <1>0, <2>1, <2>2, <2>3, <2>4, <2>5, FewerFiles
  <1>2. CASE ReclaimClaim(p)
    <2> DEFINE u == unpark[p]
               ref == LeaseRef(u)
    <2>1. /\ pc[p] = "reclaim" /\ pc'[p] = "claimed" /\ HasLease(u) /\ RenameToScratch(ref, "claim")
          /\ job' = [job EXCEPT ![p] = [ref |-> [kind |-> "claim", id |-> u, name |-> names],
                                        attempts |-> leased[u].attempts, pass |-> "reclaim"]]
          /\ UNCHANGED <<submitted, queue, runs, session, crashes, throws>>
      BY <1>0, <1>2 DEF ReclaimClaim
    <2>2. u \in Task
      BY <2>1 DEF BudgetInv, TypeInv, TypeOK, OnlySubmitted
    <2>3. ref \in FileRef /\ ref.id = u /\ ref.kind = "lease" /\ Found(ref) /\ RefFits(ref)
      BY <2>1, <2>2 DEF LeaseRef, FileRef, Found, RefFits
    <2>4. job'[p].ref = [kind |-> "claim", id |-> u, name |-> names] /\ job'[p].attempts = leased[u].attempts
      BY <1>0, <2>1
    <2>5. u = t => (job'[p].attempts = 0 <=> RawLease(t))
      BY <2>1, <2>4 DEF RawLease
    <2> HIDE DEF u, ref
    <2> QED  BY <1>0, <2>1, <2>2, <2>3, <2>4, <2>5, ClaimOnce
  <1> QED  BY <1>1, <1>2 DEF Elicit

\* Recovery queues a task without an attempt once: it unlinks the claim next, and only a
\* second fault could come in between.
LEMMA RecoverOnce ==
    ASSUME BudgetInv, HoldInv, NEW p \in Proc, NEW t \in Task, Budget[t] = 1, StartsOnce(p, t),
           Faults' <= 1, Recover(p)
    PROVE  StartsOnce(p, t)'
  <1> USE DEF fileVars, procVars, faultVars
  <1>0. /\ leased \in [Task -> Record] /\ pc \in [Proc -> Section] /\ job \in [Proc -> Job]
        /\ todo \in [Proc -> SUBSET FileRef]
        /\ crashes \in Nat /\ throws \in Nat /\ Faults \in Nat
    BY FaultAssumption DEF BudgetInv, TypeInv, TypeOK, Faults
  <1>1. CASE ScanStart(p) \/ ClaimsStart(p) \/ ClaimsDone(p)
    <2>1. /\ pc[p] \in {"idle", "scan", "claims"} /\ pc'[p] \in {"idle", "scan", "claims"}
          /\ UNCHANGED <<submitted, queue, leased, scratch, runs, session, crashes, throws>>
      BY <1>0, <1>1 DEF ScanStart, ClaimsStart, ClaimsDone
    <2>2. /\ RawRefs(t)' = RawRefs(t) /\ Faults' = Faults /\ QueueFiles(t)' = QueueFiles(t)
          /\ RawLease(t)' <=> RawLease(t)
      BY <2>1 DEF RawRefs, ScratchRef, Faults, QueueFiles, RawLease, HasLease
    <2>3. RawRefs(t) = {} /\ (RawLease(t) => Faults > 0)
      BY <1>0, <2>1 DEF StartsOnce, AtTask
    <2>4. \A at \in {"leasing", "scanned", "claimed"} : ~AtTask(p, t, at)'
      BY <2>1 DEF AtTask
    <2> QED  BY <1>0, <2>1, <2>2, <2>3, <2>4, FewerFiles
  <1>2. CASE ScanRead(p)
    <2>1. PICK ref \in todo[p] :
            IF Found(ref) /\ Content(ref).state # "waiting" /\ Content(ref).expired
            THEN /\ job' = [job EXCEPT ![p] = [ref |-> ref, attempts |-> Content(ref).attempts,
                                               pass |-> "first"]]
                 /\ pc' = [pc EXCEPT ![p] = "scanned"]
            ELSE UNCHANGED <<job, pc>>
      BY <1>2 DEF ScanRead
    <2>2. /\ pc[p] = "scan"
          /\ UNCHANGED <<submitted, queue, leased, scratch, runs, session, crashes, throws>>
      BY <1>2 DEF ScanRead
    <2>3. /\ RawRefs(t)' = RawRefs(t) /\ Faults' = Faults /\ QueueFiles(t)' = QueueFiles(t)
          /\ RawLease(t)' <=> RawLease(t)
      BY <2>2 DEF RawRefs, ScratchRef, Faults, QueueFiles, RawLease, HasLease
    <2>4. RawRefs(t) = {} /\ (RawLease(t) => Faults > 0)
      BY <1>0, <2>2 DEF StartsOnce, AtTask
    <2>5. ref \in FileRef /\ ref.id \in Task /\ RefFits(ref)
      BY <1>0 DEF BudgetInv, TypeInv, TypeOK, OnlySubmitted, NamesFit
    <2>6. CASE UNCHANGED <<job, pc>>
      <3>1. \A at \in {"leasing", "scanned", "claimed"} : ~AtTask(p, t, at)'
        BY <2>2, <2>6 DEF AtTask
      <3> QED  BY <1>0, <2>2, <2>3, <2>4, <3>1, FewerFiles
    <2>7. CASE Found(ref) /\ ~UNCHANGED <<job, pc>>
      <3>1. pc'[p] = "scanned" /\ job'[p].ref = ref /\ job'[p].attempts = Content(ref).attempts
        BY <1>0, <2>1, <2>7
      <3>2. ref.id = t => (Content(ref).attempts = 0 <=> RawLease(t) /\ ref.kind = "lease")
        BY <2>4, <2>5, <2>7, ContentRaw
      <3>3. /\ \A at \in {"leasing", "claimed", "written"} : ~AtTask(p, t, at)'
            /\ AtTask(p, t, "scanned")' <=> ref.id = t
        BY <3>1 DEF AtTask
      <3> QED  BY <2>2, <2>3, <2>4, <3>1, <3>2, <3>3 DEF StartsOnce
    <2> QED  BY <2>1, <2>6, <2>7
  <1>3. CASE ScanClaim(p)
    <2> DEFINE ref == job[p].ref
    <2>1. IF Found(ref)
          THEN /\ RenameToScratch(ref, "claim")
               /\ job' = [job EXCEPT ![p].ref = [kind |-> "claim", id |-> ref.id, name |-> names]]
               /\ pc' = [pc EXCEPT ![p] = "claimed"]
          ELSE /\ pc' = [pc EXCEPT ![p] = "scan"]
               /\ FreeJob(p)
               /\ UNCHANGED <<scratch, leased, names>>
      BY <1>3 DEF ScanClaim
    <2>2. /\ pc[p] = "scanned"
          /\ UNCHANGED <<submitted, queue, runs, session, crashes, throws>>
      BY <1>3 DEF ScanClaim
    <2>3. ref \in FileRef /\ ref.id \in Task /\ RefFits(ref)
      BY <1>0, <2>2 DEF BudgetInv, TypeInv, TypeOK, OnlySubmitted, NamesFit, Job
    <2>4. CASE Found(ref)
      <3>1. RenameToScratch(ref, "claim") /\ pc'[p] = "claimed"
        BY <1>0, <2>1, <2>4
      <3>2. /\ job'[p].ref = [kind |-> "claim", id |-> ref.id, name |-> names]
            /\ job'[p].attempts = job[p].attempts
        BY <1>0, <2>1, <2>4 DEF Job
      <3>3. ref.id = t => (job'[p].attempts = 0 <=> RawLease(t) /\ ref.kind = "lease")
        BY <2>2, <3>2 DEF StartsOnce, AtTask
      <3> HIDE DEF ref
      <3> QED  BY <1>0, <2>2, <2>3, <2>4, <3>1, <3>2, <3>3, ClaimOnce
    <2>5. CASE ~Found(ref)
      <3>1. pc'[p] = "scan" /\ UNCHANGED <<scratch, leased>>
        BY <1>0, <2>1, <2>5
      <3>2. /\ RawRefs(t)' = RawRefs(t) /\ Faults' = Faults /\ QueueFiles(t)' = QueueFiles(t)
            /\ RawLease(t)' <=> RawLease(t)
        BY <2>2, <3>1 DEF RawRefs, ScratchRef, Faults, QueueFiles, RawLease, HasLease
      <3>3. RawRefs(t) = {} /\ (RawLease(t) => Faults > 0)
        BY <1>0, <2>2 DEF StartsOnce, AtTask
      <3>4. \A at \in {"leasing", "scanned", "claimed"} : ~AtTask(p, t, at)'
        BY <3>1 DEF AtTask
      <3> QED  BY <1>0, <2>2, <3>2, <3>3, <3>4, FewerFiles
    <2> QED  BY <2>4, <2>5
  <1>4. CASE RecoverWrite(p)
    <2> DEFINE u == job[p].ref.id
    <2>1. /\ pc[p] = "claimed" /\ pc'[p] = "written"
          /\ UNCHANGED <<submitted, leased, scratch, runs, session, job, crashes, throws>>
      BY <1>0, <1>4 DEF RecoverWrite
    <2>2. IF MayRetry(u, job[p].attempts) THEN queue' = QueueWith(u, job[p].attempts, FALSE)
                                          ELSE queue' = queue
      BY <1>4 DEF RecoverWrite
    <2>3. /\ RawRefs(t)' = RawRefs(t) /\ Faults' = Faults
          /\ RawLease(t)' <=> RawLease(t)
      BY <2>1 DEF RawRefs, ScratchRef, Faults, RawLease, HasLease
    <2>4. /\ \A at \in {"leasing", "scanned", "claimed"} : ~AtTask(p, t, at)'
          /\ AtTask(p, t, "written")' <=> u = t
      BY <2>1 DEF AtTask
    <2>5. RawLease(t) => Faults > 0
      BY <1>0, <2>1 DEF StartsOnce, AtTask
    <2>6. CASE u = t /\ job[p].attempts = 0
      <3>1. QueueFiles(t) = {} /\ RawRefs(t) = {job[p].ref} /\ Faults > 0
        BY <2>1, <2>6 DEF StartsOnce, AtTask
      <3>2. ~RawLease(t) /\ runs[t] # 1
        BY <3>1 DEF StartsOnce
      <3>3. queue' = QueueWith(t, 0, FALSE)
        <4>1. MayRetry(t, 0)
          BY <1>0 DEF MayRetry
        <4> QED  BY <2>2, <2>6, <4>1
      <3>4. \A f, g \in QueueFiles(t)' : f = g
        BY <3>1, <3>3, OwnQueueFile
      <3> QED  BY <2>1, <2>3, <2>4, <2>6, <3>1, <3>2, <3>4 DEF StartsOnce
    <2>7. CASE ~(u = t /\ job[p].attempts = 0)
      <3>1. RawRefs(t) = {}
        BY <2>1, <2>7 DEF StartsOnce, AtTask
      <3>2. QueueFiles(t)' = QueueFiles(t)
        <4>1. CASE u = t
          <5>1. job[p].attempts \in Nat /\ job[p].attempts # 0
            BY <1>0, <2>7, <4>1 DEF Job
          <5>2. ~MayRetry(t, job[p].attempts)
            BY <1>0, <5>1 DEF MayRetry
          <5>3. queue' = queue
            BY <2>2, <4>1, <5>2
          <5> QED  BY <5>3 DEF QueueFiles
        <4>2. CASE u # t
          <5>1. queue' = queue => QueueFiles(t)' = QueueFiles(t)
            BY DEF QueueFiles
          <5> QED  BY <2>2, <4>2, <5>1, OtherQueueFiles
        <4> QED  BY <4>1, <4>2
      <3> QED  BY <1>0, <2>1, <2>3, <2>4, <2>5, <3>1, <3>2, FewerFiles
    <2> QED  BY <2>6, <2>7
  <1>5. CASE RecoverUnlink(p)
    <2>1. /\ pc[p] = "written" /\ pc'[p] \in {"scan", "claims", "idle"}
          /\ scratch' = {s \in scratch : ScratchRef(s) # job[p].ref}
          /\ UNCHANGED <<submitted, queue, leased, runs, session, crashes, throws>>
      BY <1>0, <1>5 DEF RecoverUnlink
    <2>2. RawRefs(t) \subseteq {job[p].ref}
      BY DEF StartsOnce
    <2>3. RawRefs(t)' = {}
      BY <2>1, <2>2 DEF RawRefs, ScratchRef
    <2>4. Faults' = Faults /\ QueueFiles(t)' = QueueFiles(t) /\ (RawLease(t)' <=> RawLease(t))
      BY <2>1 DEF Faults, QueueFiles, RawLease, HasLease
    <2>5. RawLease(t) => Faults > 0
      BY <1>0, <2>1 DEF StartsOnce, AtTask
    <2>6. \A at \in {"leasing", "scanned", "claimed"} : ~AtTask(p, t, at)'
      BY <2>1 DEF AtTask
    <2> QED  BY <1>0, <2>1, <2>3, <2>4, <2>5, <2>6, FewerFiles
  <1>6. CASE RecoverThrows(p)
    <2>1. /\ pc[p] = "claimed" /\ pc'[p] = "idle" /\ crashes' = crashes /\ throws' = throws + 1
          /\ UNCHANGED <<submitted, queue, leased, scratch, runs, session>>
      BY <1>0, <1>6 DEF RecoverThrows
    <2>2. Faults' = Faults + 1 /\ Faults = 0
      BY <1>0, <2>1 DEF Faults
    <2>3. RawRefs(t) = {}
      BY <2>2 DEF StartsOnce
    <2>4. /\ RawRefs(t)' = RawRefs(t) /\ QueueFiles(t)' = QueueFiles(t)
          /\ RawLease(t)' <=> RawLease(t)
      BY <2>1 DEF RawRefs, ScratchRef, QueueFiles, RawLease, HasLease
    <2>5. \A at \in {"leasing", "scanned", "claimed"} : ~AtTask(p, t, at)'
      BY <2>1 DEF AtTask
    <2> QED  BY <1>0, <2>1, <2>2, <2>3, <2>4, <2>5, FewerFiles
  <1>7. CASE ClaimTake(p)
    <2>1. PICK ref \in todo[p] :
            IF Found(ref)
            THEN /\ RenameToScratch(ref, "process")
                 /\ job' = [job EXCEPT ![p] =
                      [ref |-> [kind |-> "process", id |-> ref.id, name |-> names],
                       attempts |-> Content(ref).attempts, pass |-> "second"]]
                 /\ pc' = [pc EXCEPT ![p] =
                      IF Content(ref).state = "waiting" THEN "restore" ELSE "claimed"]
            ELSE UNCHANGED <<scratch, leased, names, job, pc>>
      BY <1>7 DEF ClaimTake
    <2>2. /\ pc[p] = "claims"
          /\ UNCHANGED <<submitted, queue, runs, session, crashes, throws>>
      BY <1>7 DEF ClaimTake
    <2>3. ref \in FileRef /\ ref.id \in Task /\ RefFits(ref) /\ ref.kind # "lease"
      BY <1>0, <2>2 DEF BudgetInv, TypeInv, TypeOK, OnlySubmitted, NamesFit, HoldInv, Holds, SecondPass
    <2>4. RawRefs(t) = {} /\ (RawLease(t) => Faults > 0)
      BY <1>0, <2>2 DEF StartsOnce, AtTask
    <2>5. Faults' = Faults /\ QueueFiles(t)' = QueueFiles(t)
      BY <2>2 DEF Faults, QueueFiles
    <2>6. CASE Found(ref)
      <3>1. RenameToScratch(ref, "process")
        BY <2>1, <2>6
      <3>2. /\ job'[p].ref = [kind |-> "process", id |-> ref.id, name |-> names]
            /\ job'[p].attempts = Content(ref).attempts
            /\ pc'[p] \in {"restore", "claimed"}
        BY <1>0, <2>1, <2>6
      <3>3. ref.id = t => (job'[p].attempts = 0 <=> RawLease(t) /\ ref.kind = "lease")
        BY <2>3, <2>4, <2>6, <3>2, ContentRaw
      <3>4. CASE pc'[p] = "claimed"
        BY <1>0, <2>2, <2>3, <2>6, <3>1, <3>2, <3>3, <3>4, ClaimOnce
      <3>5. CASE pc'[p] = "restore"
        <4>1. RawRefs(t)' = {} /\ (RawLease(t)' <=> RawLease(t))
          BY <2>3, <2>4, <2>6, <3>1, RenameRaw
        <4>2. \A at \in {"leasing", "scanned", "claimed"} : ~AtTask(p, t, at)'
          BY <3>5 DEF AtTask
        <4> QED  BY <1>0, <2>2, <2>4, <2>5, <4>1, <4>2, FewerFiles
      <3> QED  BY <3>2, <3>4, <3>5
    <2>7. CASE ~Found(ref)
      <3>1. UNCHANGED <<scratch, leased, pc>>
        BY <2>1, <2>7
      <3>2. RawRefs(t)' = RawRefs(t) /\ (RawLease(t)' <=> RawLease(t))
        BY <3>1 DEF RawRefs, ScratchRef, RawLease, HasLease
      <3>3. \A at \in {"leasing", "scanned", "claimed"} : ~AtTask(p, t, at)'
        BY <2>2, <3>1 DEF AtTask
      <3> QED  BY <1>0, <2>2, <2>4, <2>5, <3>2, <3>3, FewerFiles
    <2> QED  BY <2>6, <2>7
  <1>8. CASE ClaimRestore(p)
    <2> DEFINE ref == job[p].ref
    <2>1. IF Found(ref)
          THEN /\ leased' = [leased EXCEPT ![ref.id] = Content(ref)]
               /\ scratch' = {s \in scratch : ScratchRef(s) # ref}
          ELSE UNCHANGED <<leased, scratch>>
      BY <1>8 DEF ClaimRestore
    <2>2. /\ pc[p] = "restore" /\ pc'[p] = "claims"
          /\ UNCHANGED <<submitted, queue, runs, session, crashes, throws>>
      BY <1>0, <1>8 DEF ClaimRestore
    <2>3. ref \in FileRef /\ ref.id \in Task /\ RefFits(ref) /\ ref.kind # "lease"
      BY <1>0, <2>2 DEF BudgetInv, TypeInv, TypeOK, OnlySubmitted, NamesFit, Job, HoldInv, Holds
    <2>4. RawRefs(t) = {} /\ (RawLease(t) => Faults > 0)
      BY <1>0, <2>2 DEF StartsOnce, AtTask
    <2>5. Faults' = Faults /\ QueueFiles(t)' = QueueFiles(t)
      BY <2>2 DEF Faults, QueueFiles
    <2>6. scratch' \subseteq scratch
      BY <2>1
    <2>7. RawRefs(t)' = {}
      BY <2>4, <2>6 DEF RawRefs, ScratchRef
    <2>8. RawLease(t)' => RawLease(t)
      <3>1. CASE Found(ref) /\ ref.id = t
        <4>1. Content(ref).attempts # 0
          BY <2>3, <2>4, <3>1, ContentRaw
        <4> QED  BY <1>0, <2>1, <3>1, <4>1 DEF RawLease
      <3>2. CASE Found(ref) /\ ref.id # t
        BY <1>0, <2>1, <3>2 DEF RawLease, HasLease
      <3>3. CASE ~Found(ref)
        BY <2>1, <3>3 DEF RawLease, HasLease
      <3> QED  BY <3>1, <3>2, <3>3
    <2>9. \A at \in {"leasing", "scanned", "claimed"} : ~AtTask(p, t, at)'
      BY <2>2 DEF AtTask
    <2> QED  BY <1>0, <2>2, <2>4, <2>5, <2>7, <2>8, <2>9, FewerFiles
  <1> QED  BY <1>1, <1>2, <1>3, <1>4, <1>5, <1>6, <1>7, <1>8 DEF Recover

\* Faults are only counted up, by the failures themselves and by a crash.
LEMMA FaultsGrow == ASSUME TypeOK, Next PROVE Faults \in Nat /\ Faults' \in Nat /\ Faults <= Faults'
  <1> USE DEF fileVars, procVars, faultVars
  <1>0. crashes \in Nat /\ throws \in Nat
    BY FaultAssumption DEF TypeOK
  <1>1. CASE Environment
    <2>1. UNCHANGED <<crashes, throws>>
      BY <1>1 DEF Environment, Enqueue, RemovePending, BackoffElapses, LeaseExpires,
         ScratchExpires, GrowsStale, Answer
    <2> QED  BY <1>0, <2>1 DEF Faults
  <1>2. ASSUME NEW p \in Proc, Tick(p) PROVE Faults <= Faults' /\ Faults' \in Nat
    <2>1. CASE LeaseRenameThrows(p)
      BY <1>0, <2>1 DEF LeaseRenameThrows, Faults
    <2>2. CASE LeaseWriteThrows(p)
      BY <1>0, <2>2 DEF LeaseWriteThrows, Faults
    <2>3. CASE FinishThrows(p)
      BY <1>0, <2>3 DEF FinishThrows, Faults
    <2>4. CASE DequeueClaim(p) \/ LeaseWrite(p)
      BY <1>0, <2>4 DEF DequeueClaim, LeaseWrite, Faults
    <2>5. CASE (\E ok \in BOOLEAN : Finish(p, ok)) \/ CompleteUnlink(p)
      <3>1. UNCHANGED faultVars
        BY <2>5 DEF Finish, CompleteUnlink
      <3> QED  BY <1>0, <3>1 DEF Faults
    <2> QED  BY <1>2, <2>1, <2>2, <2>3, <2>4, <2>5 DEF Tick
  <1>3. ASSUME NEW p \in Proc, Elicit(p) PROVE Faults <= Faults' /\ Faults' \in Nat
    BY <1>0, <1>3 DEF Elicit, Ask, Park, ExpireHandoff, Unpark, ReclaimSkip, ReclaimClaim, Faults
  <1>4. ASSUME NEW p \in Proc, Recover(p) PROVE Faults <= Faults' /\ Faults' \in Nat
    <2>1. CASE RecoverThrows(p)
      BY <1>0, <2>1 DEF RecoverThrows, Faults
    <2>2. CASE ScanStart(p) \/ ScanRead(p) \/ ScanClaim(p)
      BY <1>0, <2>2 DEF ScanStart, ScanRead, ScanClaim, Faults
    <2>3. CASE RecoverWrite(p) \/ RecoverUnlink(p)
      <3>1. UNCHANGED faultVars
        BY <2>3 DEF RecoverWrite, RecoverUnlink
      <3> QED  BY <1>0, <3>1 DEF Faults
    <2>4. CASE ClaimsStart(p) \/ ClaimTake(p) \/ ClaimRestore(p) \/ ClaimsDone(p)
      BY <1>0, <2>4 DEF ClaimsStart, ClaimTake, ClaimRestore, ClaimsDone, Faults
    <2> QED  BY <1>4, <2>1, <2>2, <2>3, <2>4 DEF Recover
  <1>5. ASSUME NEW p \in Proc, StartDaemon(p) \/ Crash(p) PROVE Faults <= Faults' /\ Faults' \in Nat
    BY <1>0, <1>5 DEF StartDaemon, Crash, Faults
  <1>6. Faults \in Nat
    BY <1>0 DEF Faults
  <1> QED  BY <1>1, <1>2, <1>3, <1>4, <1>5, <1>6 DEF Next

\* One fault at most: the step of a daemon that is alone keeps every task in order.
LEMMA NextOnce ==
    ASSUME OneDaemon, BudgetInv, HoldInv, OnceInv, [Next]_vars PROVE OnceInv'
  <1>1. CASE UNCHANGED vars
    <2>1. UNCHANGED <<submitted, queue, leased, scratch, runs, pc, session, job, crashes, throws>>
      BY <1>1 DEF vars, fileVars, procVars, faultVars
    <2> QED  BY <2>1 DEF OnceInv, StartsOnce, AtTask, Faults, QueueFiles, RawLease, RawRefs,
           HasLease, ScratchRef
  <1>2. ASSUME Next, Faults' <= 1, NEW p \in Proc, NEW t \in Task, Budget[t] = 1
        PROVE  StartsOnce(p, t)'
    <2>1. Faults \in Nat /\ Faults' \in Nat /\ Faults <= Faults'
      BY <1>2, FaultsGrow DEF BudgetInv, TypeInv
    <2>2. StartsOnce(p, t)
      BY <1>2, <2>1 DEF OnceInv
    <2>3. CASE Environment
      BY <2>2, <2>3, EnvironmentOnce
    <2>4. ASSUME NEW q \in Proc, Tick(q) \/ Elicit(q) \/ Recover(q) PROVE StartsOnce(p, t)'
      <3>1. q = p
        BY DEF OneDaemon
      <3> QED  BY <1>2, <2>2, <2>4, <3>1, TickOnce, ElicitOnce, RecoverOnce
    <2>5. ASSUME NEW q \in Proc, StartDaemon(q) \/ Crash(q) PROVE StartsOnce(p, t)'
      <3>1. q = p
        BY DEF OneDaemon
      <3>2. /\ pc \in [Proc -> Section] /\ session \in [Proc -> Task \cup {None}]
            /\ crashes \in Nat /\ throws \in Nat
        BY FaultAssumption DEF BudgetInv, TypeInv, TypeOK
      <3>3. UNCHANGED <<submitted, queue, leased, scratch, runs>>
        BY <2>5 DEF StartDaemon, Crash, fileVars
      <3>4. /\ RawRefs(t)' = RawRefs(t) /\ QueueFiles(t)' = QueueFiles(t)
            /\ RawLease(t)' <=> RawLease(t)
        BY <3>3 DEF RawRefs, ScratchRef, QueueFiles, RawLease, HasLease
      <3>5. /\ pc'[p] \in {"idle", "down"} /\ session'[p] \in {session[p], None}
            /\ (pc[p] = "down" /\ Faults' = Faults) \/ Faults' = Faults + 1
        BY <2>5, <3>1, <3>2 DEF StartDaemon, Crash, Faults, faultVars, procVars
      <3>6. RawRefs(t) = {} /\ (RawLease(t)' => Faults' > 0)
        BY <1>2, <2>1, <2>2, <3>4, <3>5 DEF StartsOnce, AtTask
      <3>7. \A at \in {"leasing", "scanned", "claimed"} : ~AtTask(p, t, at)'
        BY <3>5 DEF AtTask
      <3> QED  BY <2>1, <2>2, <3>3, <3>4, <3>5, <3>6, <3>7, TaskAssumption, FewerFiles
    <2> QED  BY <1>2, <2>3, <2>4, <2>5 DEF Next
  <1> QED  BY <1>1, <1>2 DEF OnceInv

\* A task with enqueue's default of one attempt is started at most once by a daemon that
\* is alone, whichever single file call fails or is the last one before a crash (leaseTask,
\* completeTask, recoverExpiredLeases and reclaimSingleLease count alike).
THEOREM StartsAtMostOnce == ASSUME OneDaemon PROVE Spec => []AtMostOnce
  <1>1. Init => HoldInv
    BY DEF Init, HoldInv, Holds, FirstPass, SecondPass
  <1>2. Init => OnceInv
    BY TaskAssumption DEF Init, OnceInv, StartsOnce, AtTask, Faults, QueueFiles, RawLease, RawRefs,
       HasLease, NoFile, ScratchRef
  <1>3. OnceInv => AtMostOnce
    BY DEF OneDaemon, OnceInv, StartsOnce, AtMostOnce, Faults
  <1>4. BudgetInv /\ HoldInv /\ OnceInv /\ [Next]_vars => (BudgetInv /\ HoldInv /\ OnceInv)'
    BY NextBudget, NextHolds, NextOnce
  <1> QED  BY <1>1, <1>2, <1>3, <1>4, InitBudget, PTL DEF Spec
-----------------------------------------------------------------------------
(* Until the first fault.  An earlier process left no question to the startup        *)
(* recovery, so nothing takes the lease of a running session.                        *)

Calm(p) ==
    /\ pc[p] = "down" => unpark[p] = None /\ \A t \in Task : handoff[t] = "none"
    /\ ~recovered[p] => unpark[p] = None /\ \A t \in Task : handoff[t] # "stale"
    /\ session[p] # None => HasLease(session[p])
CalmInv == Faults = 0 => \A p \in Proc : Calm(p)

\* A question is asked, grows stale and is expired while one process lives.
LEMMA NextCalm ==
    ASSUME OneDaemon, OwnKey, BudgetInv, HoldInv, CalmInv, [Next]_vars PROVE CalmInv'
  <1> USE DEF fileVars, procVars, faultVars
  <1>1. CASE UNCHANGED vars
    <2>1. UNCHANGED <<leased, handoff, pc, session, unpark, recovered, crashes, throws>>
      BY <1>1 DEF vars
    <2> QED  BY <2>1 DEF CalmInv, Calm, Faults, HasLease
  <1>2. ASSUME Next, Faults' = 0, NEW p \in Proc PROVE Calm(p)'
    <2>1. /\ Faults \in Nat /\ Faults <= 0
          /\ crashes \in Nat /\ throws \in Nat
      BY <1>2, FaultsGrow, FaultAssumption DEF BudgetInv, TypeInv, TypeOK
    <2>2. crashes' = 0 /\ throws' = 0 /\ crashes = 0 /\ throws = 0
      BY <1>2, <2>1, NextBudget, FaultAssumption DEF Faults, BudgetInv, TypeInv, TypeOK
    <2>3. Calm(p)
      BY <2>1 DEF CalmInv
    <2>4. /\ leased \in [Task -> Record] /\ pc \in [Proc -> Section]
          /\ session \in [Proc -> Task \cup {None}] /\ unpark \in [Proc -> Task \cup {None}]
          /\ recovered \in [Proc -> BOOLEAN] /\ None \notin Task
          /\ handoff \in [Task -> {"none", "pending", "stale", "answered", "expired"}]
      BY TaskAssumption DEF BudgetInv, TypeInv, TypeOK
    <2>5. ~StartupReclaims(p) \/ session[p] = None
      BY <2>3, <2>4 DEF StartupReclaims, Calm, BudgetInv, TypeInv, OnlySubmitted
    <2>6. session[p] # None /\ session'[p] = session[p] => HasLease(session[p])'
      BY <2>3, <2>5, LeaseStays DEF Calm
    <2>7. ASSUME UNCHANGED <<pc, session, recovered, unpark>>,
                 \A t \in Task : \/ handoff'[t] = handoff[t]
                                 \/ handoff[t] # "none" /\ handoff'[t] = "answered"
                                 \/ handoff[t] # "none" /\ recovered[p]
          PROVE  Calm(p)'
      BY <2>3, <2>6, <2>7 DEF Calm, HasLease
    <2>8. CASE Environment
      <3>1. UNCHANGED <<pc, session, recovered, unpark>>
        BY <2>8 DEF Environment, Enqueue, RemovePending, BackoffElapses, LeaseExpires,
           ScratchExpires, GrowsStale, Answer
      <3>2. CASE UNCHANGED handoff
        BY <2>7, <3>1, <3>2
      <3>3. ASSUME NEW t \in Task, GrowsStale(t) PROVE Calm(p)'
        <4>1. handoff[t] = "pending" /\ handoff' = [handoff EXCEPT ![t] = "stale"]
          BY <3>3 DEF GrowsStale
        <4>2. recovered[p]
          BY <2>3, <3>3, <4>1 DEF GrowsStale, Calm
        <4> QED  BY <2>4, <2>7, <3>1, <4>1, <4>2
      <3>4. ASSUME NEW t \in Task, Answer(t) PROVE Calm(p)'
        BY <2>4, <2>7, <3>1, <3>4 DEF Answer
      <3> QED  BY <2>8, <3>2, <3>3, <3>4 DEF Environment, Enqueue, RemovePending, BackoffElapses,
               LeaseExpires, ScratchExpires
    <2>9. ASSUME NEW q \in Proc, Tick(q) PROVE Calm(p)'
      <3>1. q = p
        BY DEF OneDaemon
      <3>2. /\ UNCHANGED <<handoff, recovered, unpark>> /\ pc[p] # "down" /\ pc'[p] # "down"
        BY <2>4, <2>9, <3>1 DEF Tick, DequeueClaim, LeaseRenameThrows, LeaseWrite, LeaseWriteThrows,
           Finish, FinishThrows, CompleteUnlink
      <3>3. session'[p] # None => HasLease(session[p])'
        <4>1. CASE LeaseWrite(p)
          <5>1. job[p].ref.id \in Task
            BY <4>1 DEF LeaseWrite, BudgetInv, TypeInv, TypeOK, OnlySubmitted
          <5>2. leased'[job[p].ref.id].state = "leased" /\ session'[p] = job[p].ref.id
            BY <2>4, <4>1, <5>1 DEF LeaseWrite
          <5> QED  BY <5>2 DEF HasLease
        <4>2. CASE session'[p] \in {None, session[p]}
          BY <2>6, <4>2
        <4> QED  BY <2>4, <2>9, <3>1, <4>1, <4>2 DEF Tick, DequeueClaim, LeaseRenameThrows,
                 LeaseWriteThrows, Finish, FinishThrows, CompleteUnlink
      <3> QED  BY <2>3, <3>2, <3>3 DEF Calm, HasLease
    <2>10. ASSUME NEW q \in Proc, Elicit(q) PROVE Calm(p)'
      <3>1. q = p
        BY DEF OneDaemon
      <3>2. UNCHANGED <<session, recovered>> /\ pc[p] # "down" /\ pc'[p] # "down"
        BY <2>4, <2>10, <3>1 DEF Elicit, Ask, Park, ExpireHandoff, Unpark, ReclaimSkip, ReclaimClaim
      <3>3. ~recovered[p] => unpark'[p] = None /\ \A t \in Task : handoff'[t] # "stale"
        <4> SUFFICES ASSUME ~recovered[p]
                     PROVE  unpark'[p] = None /\ \A t \in Task : handoff'[t] # "stale"
          OBVIOUS
        <4>1. unpark[p] = None /\ \A t \in Task : handoff[t] # "stale"
          BY <2>3 DEF Calm
        <4>2. Ask(p) \/ Park(p)
          BY <2>10, <3>1, <4>1 DEF Elicit, ExpireHandoff, Unpark, ReclaimSkip, ReclaimClaim, BudgetInv,
             TypeInv, OnlySubmitted
        <4> QED  BY <2>4, <4>1, <4>2 DEF Ask, Park
      <3> QED  BY <2>3, <2>6, <3>2, <3>3 DEF Calm, HasLease
    <2>11. ASSUME NEW q \in Proc, Recover(q) PROVE Calm(p)'
      <3>1. q = p
        BY DEF OneDaemon
      <3>2. UNCHANGED <<session, handoff>> /\ pc[p] # "down" /\ pc'[p] # "down"
        BY <2>4, <2>11, <3>1 DEF Recover, ScanStart, ScanRead, ScanClaim, RecoverWrite, RecoverUnlink,
           RecoverThrows, ClaimsStart, ClaimTake, ClaimRestore, ClaimsDone
      <3>3. (recovered[p] => recovered'[p]) /\ unpark'[p] \in {None, unpark[p]}
        BY <2>4, <2>11, <3>1 DEF Recover, ScanStart, ScanRead, ScanClaim, RecoverWrite, RecoverUnlink,
           RecoverThrows, ClaimsStart, ClaimTake, ClaimRestore, ClaimsDone
      <3> QED  BY <2>3, <2>6, <3>2, <3>3 DEF Calm, HasLease
    <2>12. ASSUME NEW q \in Proc, StartDaemon(q) \/ Crash(q) PROVE Calm(p)'
      <3>1. q = p
        BY DEF OneDaemon
      <3>2. StartDaemon(p)
        BY <2>2, <2>12, <3>1 DEF Crash
      <3>3. /\ pc[p] = "down" /\ pc'[p] = "idle" /\ UNCHANGED <<session, unpark, handoff, leased>>
        BY <2>4, <3>2 DEF StartDaemon
      <3>4. session[p] = None
        BY <3>3 DEF HoldInv, Holds
      <3>5. unpark[p] = None
        BY <2>3, <3>3 DEF Calm
      <3> QED  BY <2>3, <3>3, <3>4, <3>5 DEF Calm, HasLease
    <2> QED  BY <1>2, <2>8, <2>9, <2>10, <2>11, <2>12 DEF Next
  <1> QED  BY <1>1, <1>2 DEF CalmInv

-----------------------------------------------------------------------------
(* The refinement of DurableQueue. *)

\* Nothing but an accepted task is archived or withdrawn.
GoneWereAccepted == removed \cup Archived \subseteq submitted

\* Where a task is while the one daemon has seen no fault: in one queue file, or in
\* the lease of the session that runs it; no recovery ever takes a lease.  The file
\* counts the sessions, and a session that ended has left the archive or the retry.
InPlace(p) ==
    /\ scratch = {} /\ pc[p] \notin {"claimed", "written", "restore"}
    /\ \A f, g \in queue : f.id = g.id => f = g
    /\ \A f \in queue :
         /\ f.attempts = runs[f.id] /\ f.id \notin Archived \cup removed
         /\ f.id = session[p] => pc[p] = "archived"
         /\ pc[p] = "leasing" => f.id # job[p].ref.id
    /\ \A t \in Task : HasLease(t) =>
         /\ leased[t].attempts = runs[t]
         /\ t = session[p] \/ (pc[p] = "leasing" /\ t = job[p].ref.id)
    /\ \A t \in Task : runs[t] > 0 => t \in submitted
    /\ pc[p] = "leasing" =>
         /\ session[p] = None /\ job[p].attempts = runs[job[p].ref.id]
         /\ job[p].ref.id \notin Archived \cup removed
    /\ pc[p] = "archived" => session[p] \in QueuedIds \cup Archived \cup removed
    /\ session[p] # None /\ pc[p] # "archived" => session[p] \notin Archived \cup removed
PlaceInv == Faults = 0 => \A p \in Proc : InPlace(p)
\* Archive files and withdrawals come from queue files, sessions and recovered records.
LEMMA NextGone == TypeInv /\ GoneWereAccepted /\ [Next]_vars => GoneWereAccepted'
  <1> SUFFICES ASSUME TypeInv, GoneWereAccepted, [Next]_vars PROVE GoneWereAccepted'
    OBVIOUS
  <1> USE DEF fileVars, procVars, faultVars, GoneWereAccepted, Archived
  <1>0. OnlySubmitted
    BY DEF TypeInv
  <1>1. CASE UNCHANGED vars
    BY <1>1 DEF vars
  <1>2. CASE Environment
    BY <1>0, <1>2 DEF Environment, Enqueue, RemovePending, BackoffElapses, LeaseExpires,
       ScratchExpires, GrowsStale, Answer, OnlySubmitted
  <1>3. ASSUME NEW p \in Proc, Tick(p) PROVE GoneWereAccepted'
    <2>1. CASE LeaseRenameThrows(p)
      BY <1>0, <2>1 DEF LeaseRenameThrows, OnlySubmitted
    <2>2. ASSUME NEW ok \in BOOLEAN, Finish(p, ok) PROVE GoneWereAccepted'
      <3>1. /\ session[p] \in submitted /\ UNCHANGED <<submitted, removed>>
            /\ completed' \subseteq completed \cup {session[p]} /\ dead' \subseteq dead \cup {session[p]}
        BY <1>0, <2>2 DEF Finish, OnlySubmitted
      <3> QED  BY <3>1
    <2>3. CASE DequeueClaim(p) \/ LeaseWrite(p) \/ LeaseWriteThrows(p) \/ FinishThrows(p) \/ CompleteUnlink(p)
      <3>1. UNCHANGED <<submitted, removed, completed, dead>>
        BY <2>3 DEF DequeueClaim, LeaseWrite, LeaseWriteThrows, FinishThrows, CompleteUnlink
      <3> QED  BY <3>1
    <2> QED  BY <1>3, <2>1, <2>2, <2>3 DEF Tick
  <1>4. ASSUME NEW p \in Proc, Elicit(p) \/ StartDaemon(p) \/ Crash(p) PROVE GoneWereAccepted'
    <2>1. UNCHANGED <<submitted, removed, completed, dead>>
      BY <1>4 DEF Elicit, Ask, Park, ExpireHandoff, Unpark, ReclaimSkip, ReclaimClaim, StartDaemon, Crash
    <2> QED  BY <2>1
  <1>5. ASSUME NEW p \in Proc, Recover(p) PROVE GoneWereAccepted'
    <2>1. CASE RecoverWrite(p)
      <3>1. /\ job[p].ref.id \in submitted /\ UNCHANGED <<submitted, removed, completed>>
            /\ dead' \subseteq dead \cup {job[p].ref.id}
        BY <1>0, <2>1 DEF RecoverWrite, OnlySubmitted
      <3> QED  BY <3>1
    <2>2. CASE ~RecoverWrite(p)
      <3>1. UNCHANGED <<submitted, removed, completed, dead>>
        BY <1>5, <2>2 DEF Recover, ScanStart, ScanRead, ScanClaim, RecoverUnlink, RecoverThrows,
           ClaimsStart, ClaimTake, ClaimRestore, ClaimsDone
      <3> QED  BY <3>1
    <2> QED  BY <2>1, <2>2
  <1> QED  BY <1>1, <1>2, <1>3, <1>4, <1>5 DEF Next

\* The CLI adds files of new tasks and takes files away; the clock moves none.
LEMMA EnvironmentPlace ==
    ASSUME BudgetInv, GoneWereAccepted, NEW p \in Proc, InPlace(p), Environment
    PROVE  InPlace(p)'
  <1> USE DEF fileVars, procVars, faultVars, QueuedIds, HasLease
  <1>0. /\ leased \in [Task -> Record] /\ queue \subseteq QueueFile /\ runs \in [Task -> Nat]
        /\ scratch = {} /\ session[p] \in Task \cup {None} /\ submitted \subseteq Task
    BY DEF BudgetInv, TypeInv, TypeOK, InPlace
  <1>1. ASSUME NEW t \in Task, Enqueue(t) PROVE InPlace(p)'
    <2>1. /\ t \notin submitted /\ submitted' = submitted \cup {t}
          /\ queue' = QueueWith(t, 0, TRUE)
          /\ UNCHANGED <<removed, completed, dead, leased, scratch, runs, pc, session, job>>
      BY <1>1 DEF Enqueue
    <2>2. \A f \in queue : f.id # t
      BY <2>1 DEF BudgetInv, TypeInv, OnlySubmitted
    <2>3. PICK new : queue' = queue \cup {new} /\ new.id = t /\ new.attempts = 0
      <3> DEFINE new == [id |-> t, seq |-> Cardinality(queue) + 1, attempts |-> 0, eligible |-> TRUE]
      <3>1. queue' = queue \cup {new}
        BY <2>1, <2>2 DEF QueueWith
      <3>2. new.id = t /\ new.attempts = 0
        OBVIOUS
      <3> HIDE DEF new
      <3> QED  BY <3>1, <3>2
    <2>4. /\ runs[t] = 0 /\ t \notin Archived \cup removed /\ session[p] # t
          /\ pc[p] = "leasing" => job[p].ref.id # t
      <3>1. runs[t] \in Nat /\ ~(runs[t] > 0)
        BY <1>0, <2>1 DEF InPlace
      <3>2. t \notin Archived \cup removed
        BY <2>1 DEF GoneWereAccepted
      <3>3. session[p] # t /\ (pc[p] = "leasing" => job[p].ref.id # t)
        BY <2>1, TaskAssumption DEF BudgetInv, TypeInv, OnlySubmitted
      <3> QED  BY <3>1, <3>2, <3>3
    <2> QED  BY <1>0, <2>1, <2>2, <2>3, <2>4 DEF InPlace, Archived
  <1>2. ASSUME NEW t \in Task, RemovePending(t) PROVE InPlace(p)'
    <2>1. PICK f \in queue : f.id = t /\ queue' = queue \ {f}
      BY <1>2 DEF RemovePending
    <2>2. /\ removed' = removed \cup {t}
          /\ UNCHANGED <<submitted, completed, dead, leased, scratch, runs, pc, session, job>>
      BY <1>2 DEF RemovePending
    <2> QED  BY <1>0, <2>1, <2>2 DEF InPlace, Archived
  <1>3. ASSUME NEW t \in Task, BackoffElapses(t) PROVE InPlace(p)'
    <2>1. PICK f \in queue : queue' = (queue \ {f}) \cup {[f EXCEPT !.eligible = TRUE]}
      BY <1>3 DEF BackoffElapses
    <2>2. UNCHANGED <<submitted, removed, completed, dead, leased, scratch, runs, pc, session, job>>
      BY <1>3 DEF BackoffElapses
    <2>3. PICK new : queue' = (queue \ {f}) \cup {new} /\ new.id = f.id /\ new.attempts = f.attempts
      <3> DEFINE new == [f EXCEPT !.eligible = TRUE]
      <3>1. new.id = f.id /\ new.attempts = f.attempts
        BY <1>0 DEF QueueFile
      <3>2. queue' = (queue \ {f}) \cup {new}
        BY <2>1
      <3> HIDE DEF new
      <3> QED  BY <3>1, <3>2
    <2> QED  BY <1>0, <2>2, <2>3 DEF InPlace, Archived
  <1>4. ASSUME NEW t \in Task, LeaseExpires(t) PROVE InPlace(p)'
    <2>1. \A u \in Task : leased'[u].state = leased[u].state /\ leased'[u].attempts = leased[u].attempts
      BY <1>0, <1>4 DEF LeaseExpires, Record
    <2>2. UNCHANGED <<submitted, removed, queue, completed, dead, scratch, runs, pc, session, job>>
      BY <1>4 DEF LeaseExpires
    <2> QED  BY <2>1, <2>2 DEF InPlace, Archived
  <1>5. ASSUME NEW t \in Task, ScratchExpires(t) \/ GrowsStale(t) \/ Answer(t) PROVE InPlace(p)'
    <2>1. UNCHANGED <<submitted, removed, queue, completed, dead, leased, scratch, runs, pc, session, job>>
      BY <1>0, <1>5 DEF ScratchExpires, GrowsStale, Answer
    <2> QED  BY <2>1 DEF InPlace, Archived
  <1> QED  BY <1>1, <1>2, <1>3, <1>4, <1>5 DEF Environment

\* The one file of a task becomes its lease, and the lease becomes an archive or a retry.
LEMMA TickPlace ==
    ASSUME BudgetInv, NEW p \in Proc, Calm(p), InPlace(p), Tick(p), throws' = throws
    PROVE  InPlace(p)'
  <1> USE DEF fileVars, procVars, faultVars, QueuedIds, HasLease
  <1>0. /\ leased \in [Task -> Record] /\ queue \subseteq QueueFile /\ runs \in [Task -> Nat]
        /\ pc \in [Proc -> Section] /\ session \in [Proc -> Task \cup {None}]
        /\ job \in [Proc -> Job] /\ None \notin Task /\ throws \in Nat
        /\ completed \subseteq Task /\ dead \subseteq Task
    BY TaskAssumption, FaultAssumption DEF BudgetInv, TypeInv, TypeOK
  <1>1. CASE DequeueClaim(p)
    <2>1. PICK f \in queue :
            /\ queue' = queue \ {f} /\ leased' = LeaseFrom(f)
            /\ job' = [job EXCEPT ![p] =
                 [ref |-> LeaseRef(f.id), attempts |-> f.attempts, pass |-> "first"]]
      BY <1>1 DEF DequeueClaim
    <2>2. /\ pc[p] = "idle" /\ pc'[p] = "leasing" /\ session[p] = None
          /\ UNCHANGED <<submitted, removed, completed, dead, scratch, runs, session>>
      BY <1>0, <1>1 DEF DequeueClaim
    <2>3. job'[p].ref.id = f.id /\ job'[p].attempts = f.attempts /\ f.id \in Task
      BY <1>0, <2>1 DEF LeaseRef, QueueFile
    <2>4. \A t \in Task : IF t = f.id THEN leased'[t].attempts = f.attempts
                                      ELSE leased'[t] = leased[t]
      BY <1>0, <2>1 DEF LeaseFrom
    <2> QED  BY <1>0, <2>1, <2>2, <2>3, <2>4 DEF InPlace, Archived
  <1>2. CASE LeaseRenameThrows(p) \/ LeaseWriteThrows(p) \/ FinishThrows(p)
    BY <1>0, <1>2 DEF LeaseRenameThrows, LeaseWriteThrows, FinishThrows
  <1>3. CASE LeaseWrite(p)
    <2> DEFINE u == job[p].ref.id
    <2>1. /\ pc[p] = "leasing" /\ pc'[p] = "idle" /\ session'[p] = u
          /\ runs' = [runs EXCEPT ![u] = @ + 1]
          /\ leased' = [leased EXCEPT ![u] = [attempts |-> job[p].attempts + 1,
                                              state |-> "leased", expired |-> FALSE]]
          /\ UNCHANGED <<submitted, removed, queue, completed, dead, scratch>>
      BY <1>0, <1>3 DEF LeaseWrite, NextAttempt
    <2>2. u \in Task /\ u \in submitted /\ job[p].attempts = runs[u]
      BY <2>1 DEF BudgetInv, TypeInv, TypeOK, OnlySubmitted, InPlace
    <2>3. /\ runs'[u] = runs[u] + 1 /\ leased'[u].attempts = runs'[u]
          /\ \A t \in Task : t # u => runs'[t] = runs[t] /\ leased'[t] = leased[t]
      BY <1>0, <2>1, <2>2
    <2> HIDE DEF u
    <2>4. u = job[p].ref.id
      BY DEF u
    <2>5. \A f \in queue : f.id \in Task /\ f.id # u
      BY <1>0, <2>1, <2>4 DEF InPlace, QueueFile
    <2>6. \A t \in Task : HasLease(t)' =>
            leased'[t].attempts = runs'[t] /\ (t = session'[p])
      BY <1>0, <2>1, <2>3, <2>4 DEF InPlace
    <2> QED  BY <1>0, <2>1, <2>2, <2>3, <2>4, <2>5, <2>6 DEF InPlace, Archived
  <1>4. ASSUME NEW ok \in BOOLEAN, Finish(p, ok) PROVE InPlace(p)'
    <2> DEFINE t == session[p]
    <2>1. /\ pc[p] = "idle" /\ pc'[p] = "archived" /\ t \in Task /\ t # None
          /\ UNCHANGED <<submitted, removed, leased, scratch, runs, session, job>>
      BY <1>0, <1>4 DEF Finish
    <2>2. HasLease(t) /\ leased[t].attempts = runs[t] /\ runs[t] \in Nat
      BY <1>0, <2>1 DEF Calm, InPlace
    <2>3. t \notin Archived \cup removed /\ \A f \in queue : f.id # t
      BY <2>1 DEF InPlace
    <2>4. CASE ok \/ ~MayRetry(t, leased[t].attempts)
      <3>1. queue' = queue /\ completed' \cup dead' = completed \cup dead \cup {t}
        BY <1>4, <2>2, <2>4 DEF Finish
      <3> QED  BY <1>0, <2>1, <2>3, <3>1 DEF InPlace, Archived
    <2>5. CASE ~ok /\ MayRetry(t, leased[t].attempts)
      <3>1. queue' = QueueWith(t, leased[t].attempts, FALSE) /\ completed' = completed /\ dead' = dead
        BY <1>4, <2>2, <2>5 DEF Finish
      <3>2. PICK new : queue' = queue \cup {new} /\ new.id = t /\ new.attempts = runs[t]
        <4> DEFINE file == [id |-> t, seq |-> Cardinality(queue) + 1,
                            attempts |-> leased[t].attempts, eligible |-> FALSE]
        <4>1. queue' = queue \cup {file}
          BY <2>3, <3>1 DEF QueueWith
        <4>2. file.id = t /\ file.attempts = runs[t]
          BY <2>2
        <4> HIDE DEF file
        <4> QED  BY <4>1, <4>2
      <3> QED  BY <1>0, <2>1, <2>3, <3>1, <3>2 DEF InPlace, Archived
    <2> QED  BY <2>4, <2>5
  <1>5. CASE CompleteUnlink(p)
    <2>1. /\ pc[p] = "archived" /\ pc'[p] = "idle" /\ session'[p] = None
          /\ leased' = [leased EXCEPT ![session[p]] = NoFile]
          /\ UNCHANGED <<submitted, removed, queue, completed, dead, scratch, runs, job>>
      BY <1>0, <1>5 DEF CompleteUnlink
    <2>2. \A t \in Task : leased'[t].state # "none" => t # session[p] /\ leased'[t] = leased[t]
      BY <1>0, <2>1 DEF NoFile
    <2>3. \A t \in Task : leased'[t].state = "none"
      BY <2>1, <2>2 DEF InPlace
    <2>4. \A f \in queue : f.id # None
      BY <1>0 DEF QueueFile
    <2> QED  BY <1>0, <2>1, <2>3, <2>4 DEF InPlace, Archived
  <1> QED  BY <1>1, <1>2, <1>3, <1>4, <1>5 DEF Tick

\* A parked lease is the running session's, which is in flight: no sweep reclaims it, and
\* the startup recovery has nothing to expire.
LEMMA ElicitPlace ==
    ASSUME BudgetInv, OwnKey, NEW p \in Proc, Calm(p), InPlace(p), Elicit(p)
    PROVE  InPlace(p)'
  <1> USE DEF fileVars, procVars, faultVars, QueuedIds, HasLease
  <1>0. /\ leased \in [Task -> Record] /\ pc \in [Proc -> Section]
        /\ session \in [Proc -> Task \cup {None}] /\ unpark[p] \in Task \cup {None} /\ None \notin Task
    BY TaskAssumption DEF BudgetInv, TypeInv, TypeOK
  <1>1. CASE Ask(p) \/ Park(p) \/ (\E t \in Task : ExpireHandoff(p, t)) \/ Unpark(p) \/ ReclaimSkip(p)
    <2>1. /\ pc[p] \in {"idle", "reclaim"} /\ pc'[p] \in {"idle", "reclaim"}
          /\ UNCHANGED <<submitted, removed, queue, completed, dead, scratch, runs, session, job>>
      BY <1>0, <1>1 DEF Ask, Park, ExpireHandoff, Unpark, ReclaimSkip
    <2>2. \A t \in Task : /\ leased'[t].attempts = leased[t].attempts
                          /\ leased'[t].state = "none" <=> leased[t].state = "none"
      <3>1. CASE Ask(p) \/ (\E t \in Task : ExpireHandoff(p, t)) \/ ReclaimSkip(p)
        BY <3>1 DEF Ask, ExpireHandoff, ReclaimSkip
      <3>2. CASE Park(p)
        BY <1>0, <3>2 DEF Park, Record
      <3>3. CASE Unpark(p)
        BY <1>0, <3>3 DEF Unpark, Restored, Record
      <3> QED  BY <1>1, <3>1, <3>2, <3>3
    <2> QED  BY <2>1, <2>2 DEF InPlace, Archived
  <1>2. CASE ReclaimClaim(p)
    <2>1. pc[p] = "reclaim" /\ HasLease(unpark[p]) /\ ~SkipsInFlight(p, unpark[p])
      BY <1>2 DEF ReclaimClaim
    <2>2. unpark[p] \in Task
      BY <1>0, <2>1 DEF BudgetInv, TypeInv, OnlySubmitted
    <2>3. session[p] = unpark[p]
      BY <2>1, <2>2 DEF InPlace
    <2>4. recovered[p]
      BY <1>0, <2>2 DEF Calm
    <2> QED  BY <1>0, <2>1, <2>2, <2>3, <2>4 DEF SkipsInFlight, InFlight, OwnKey
  <1> QED  BY <1>1, <1>2 DEF Elicit

\* The startup recovery finds no scratch file, and no lease but the running session's.
LEMMA RecoverPlace ==
    ASSUME BudgetInv, HoldInv, NEW p \in Proc, InPlace(p), Recover(p)
    PROVE  InPlace(p)'
  <1> USE DEF fileVars, procVars, faultVars, QueuedIds, HasLease
  <1>0. /\ pc \in [Proc -> Section] /\ job \in [Proc -> Job] /\ todo \in [Proc -> SUBSET FileRef]
        /\ scratch = {} /\ pc[p] \notin {"claimed", "written", "restore"}
    BY DEF BudgetInv, TypeInv, TypeOK, InPlace
  <1>1. CASE ScanStart(p) \/ ScanRead(p) \/ ClaimsStart(p) \/ ClaimsDone(p)
    <2>1. /\ pc[p] \notin {"leasing", "archived"}
          /\ pc'[p] \in {"idle", "scan", "scanned", "claims"}
          /\ UNCHANGED <<submitted, removed, queue, completed, dead, leased, scratch, runs, session>>
      BY <1>0, <1>1 DEF ScanStart, ScanRead, ClaimsStart, ClaimsDone
    <2> QED  BY <2>1 DEF InPlace, Archived
  <1>2. CASE ScanClaim(p)
    <2>1. pc[p] = "scanned" /\ job[p].ref.id \in Task
      BY <1>2 DEF ScanClaim, BudgetInv, TypeInv, TypeOK, OnlySubmitted
    <2>2. ~Found(job[p].ref)
      <3>1. SUFFICES ASSUME Found(job[p].ref) PROVE FALSE
        OBVIOUS
      <3>2. job[p].ref.kind = "lease" /\ HasLease(job[p].ref.id)
        BY <1>0, <3>1 DEF Found
      <3>3. session[p] = job[p].ref.id
        BY <2>1, <3>2 DEF InPlace
      <3> QED  BY <2>1, <3>2, <3>3, TaskAssumption DEF HoldInv, Holds
    <2>3. /\ pc'[p] = "scan"
          /\ UNCHANGED <<submitted, removed, queue, completed, dead, leased, scratch, runs, session>>
      BY <1>0, <1>2, <2>2 DEF ScanClaim
    <2> QED  BY <2>1, <2>3 DEF InPlace, Archived
  <1>3. CASE ClaimTake(p)
    <2>1. PICK ref \in todo[p] :
            IF Found(ref) THEN TRUE ELSE UNCHANGED <<scratch, leased, names, job, pc>>
      BY <1>3 DEF ClaimTake
    <2>2. ref.kind # "lease"
      BY <1>3 DEF ClaimTake, HoldInv, Holds, SecondPass
    <2>3. ~Found(ref)
      BY <1>0, <2>2 DEF Found
    <2>4. UNCHANGED <<submitted, removed, queue, completed, dead, leased, scratch, runs, session, pc, job>>
      BY <1>3, <2>1, <2>3 DEF ClaimTake
    <2> QED  BY <2>4 DEF InPlace, Archived
  <1>4. CASE RecoverWrite(p) \/ RecoverUnlink(p) \/ RecoverThrows(p) \/ ClaimRestore(p)
    BY <1>0, <1>4 DEF RecoverWrite, RecoverUnlink, RecoverThrows, ClaimRestore
  <1> QED  BY <1>1, <1>2, <1>3, <1>4 DEF Recover

\* Until the first fault every task of a daemon that is alone is in its place.
LEMMA NextPlace ==
    ASSUME OneDaemon, OwnKey, BudgetInv, HoldInv, CalmInv, GoneWereAccepted, PlaceInv,
           [Next]_vars
    PROVE  PlaceInv'
  <1>1. CASE UNCHANGED vars
    <2>1. UNCHANGED <<submitted, removed, queue, completed, dead, leased, scratch, runs, pc, session,
                      job, crashes, throws>>
      BY <1>1 DEF vars, fileVars, procVars, faultVars
    <2> QED  BY <2>1 DEF PlaceInv, InPlace, Faults, Archived, HasLease, QueuedIds
  <1>2. ASSUME Next, Faults' = 0, NEW p \in Proc PROVE InPlace(p)'
    <2>1. /\ Faults \in Nat /\ Faults <= 0
          /\ crashes \in Nat /\ throws \in Nat
      BY <1>2, FaultsGrow, FaultAssumption DEF BudgetInv, TypeInv, TypeOK
    <2>2. crashes' = 0 /\ throws' = 0 /\ crashes = 0 /\ throws = 0
      BY <1>2, <2>1, NextBudget, FaultAssumption DEF Faults, BudgetInv, TypeInv, TypeOK
    <2>3. InPlace(p) /\ Calm(p)
      BY <2>1 DEF PlaceInv, CalmInv
    <2>4. CASE Environment
      BY <2>3, <2>4, EnvironmentPlace
    <2>5. ASSUME NEW q \in Proc, Tick(q) \/ Elicit(q) \/ Recover(q) PROVE InPlace(p)'
      <3>1. q = p
        BY DEF OneDaemon
      <3> QED  BY <2>2, <2>3, <2>5, <3>1, TickPlace, ElicitPlace, RecoverPlace
    <2>6. ASSUME NEW q \in Proc, StartDaemon(q) \/ Crash(q) PROVE InPlace(p)'
      <3>1. q = p
        BY DEF OneDaemon
      <3>2. /\ pc[p] = "down" /\ pc'[p] = "idle"
            /\ UNCHANGED <<submitted, removed, queue, completed, dead, leased, scratch, runs, session, job>>
        BY <2>2, <2>6, <3>1 DEF StartDaemon, Crash, fileVars, BudgetInv, TypeInv, TypeOK
      <3> QED  BY <2>3, <3>2, TaskAssumption DEF InPlace, Archived, HasLease, QueuedIds, HoldInv, Holds
    <2> QED  BY <1>2, <2>4, <2>5, <2>6 DEF Next
  <1> QED  BY <1>1, <1>2 DEF PlaceInv
\* A process that leases a task runs no session.
LeasesFirst == \A p \in Proc : pc[p] = "leasing" => session[p] = None

\* A session starts in the step that ends the leasing, and one tick awaits one session.
LEMMA NextLeasing == TypeInv /\ LeasesFirst /\ [Next]_vars => LeasesFirst'
  <1> SUFFICES ASSUME TypeInv, LeasesFirst, [Next]_vars PROVE LeasesFirst'
    OBVIOUS
  <1> USE DEF fileVars, procVars, faultVars, LeasesFirst
  <1>0. pc \in [Proc -> Section] /\ session \in [Proc -> Task \cup {None}]
    BY DEF TypeInv, TypeOK
  <1>1. CASE UNCHANGED vars
    BY <1>1 DEF vars
  <1>2. CASE Environment
    BY <1>2 DEF Environment, Enqueue, RemovePending, BackoffElapses, LeaseExpires,
       ScratchExpires, GrowsStale, Answer
  <1>3. ASSUME NEW p \in Proc, Tick(p) PROVE LeasesFirst'
    BY <1>0, <1>3 DEF Tick, DequeueClaim, LeaseRenameThrows, LeaseWrite, LeaseWriteThrows,
       Finish, FinishThrows, CompleteUnlink
  <1>4. ASSUME NEW p \in Proc, Elicit(p) PROVE LeasesFirst'
    BY <1>0, <1>4 DEF Elicit, Ask, Park, ExpireHandoff, Unpark, ReclaimSkip, ReclaimClaim
  <1>5. ASSUME NEW p \in Proc, Recover(p) PROVE LeasesFirst'
    BY <1>0, <1>5 DEF Recover, ScanStart, ScanRead, ScanClaim, RecoverWrite, RecoverUnlink,
       RecoverThrows, ClaimsStart, ClaimTake, ClaimRestore, ClaimsDone
  <1>6. ASSUME NEW p \in Proc, StartDaemon(p) \/ Crash(p) PROVE LeasesFirst'
    BY <1>0, <1>6 DEF StartDaemon, Crash
  <1> QED  BY <1>1, <1>2, <1>3, <1>4, <1>5, <1>6 DEF Next

\* What the refinement rests on; the last part is what one daemon grants.
DurableInv ==
    /\ SafeInv /\ BudgetInv /\ GoneWereAccepted /\ LeasesFirst
    /\ OneDaemon /\ OwnKey => HoldInv /\ CalmInv /\ PlaceInv

\* No task is lost: what was accepted and neither archived nor withdrawn waits.
LEMMA WaitingTasks ==
    DurableInv => /\ Waiting = submitted \ (Archived \cup removed)
                  /\ D!Accepted = submitted
  <1> SUFFICES ASSUME DurableInv
               PROVE  /\ Waiting = submitted \ (Archived \cup removed)
                      /\ D!Accepted = submitted
    OBVIOUS
  <1>1. /\ \A t \in submitted : Kept(t) /\ submitted \subseteq Task
        /\ \A f \in queue : f.id \in submitted
        /\ \A t \in Task : HasLease(t) => t \in submitted
        /\ \A s \in scratch : s.id \in submitted
    BY DEF DurableInv, SafeInv, AllKept, TypeInv, OnlySubmitted, TypeOK
  <1>2. Waiting \subseteq submitted \ (Archived \cup removed)
    BY <1>1 DEF Waiting, QueuedIds, ScratchIds
  <1>3. submitted \ (Archived \cup removed) \subseteq Waiting
    BY <1>1 DEF Waiting, QueuedIds, ScratchIds, Kept, Archived
  <1> QED  BY <1>2, <1>3 DEF D!Accepted, DurableInv, GoneWereAccepted

\* The same of the state after a step.
LEMMA WaitingAfter == DurableInv' => (Waiting = submitted \ (Archived \cup removed))'
  BY WaitingTasks, PTL

\* A step that settles or withdraws nothing and starts or ends no session is a stutter.
LEMMA QuietStep ==
    ASSUME DurableInv, DurableInv',
           UNCHANGED <<submitted, removed, completed, dead, runs, session, crashes, throws>>
    PROVE  UNCHANGED D!vars
  <1>1. Waiting' = Waiting
    BY WaitingTasks, WaitingAfter DEF Archived
  <1> QED  BY <1>1 DEF D!vars, Archived, Running, Sound

\* A queue file names a task that is still open, as long as the queue is sound.
LEMMA SoundFile ==
    ASSUME DurableInv, Sound, NEW f \in queue PROVE f.id \in Waiting
  <1>1. PICK p \in Proc : InPlace(p)
    BY DEF DurableInv, Sound, OneDaemon, PlaceInv, Faults
  <1> QED  BY <1>1, WaitingTasks DEF InPlace, DurableInv, BudgetInv, TypeInv, OnlySubmitted

\* An archive written for an accepted task settles it.
LEMMA SettleStep ==
    ASSUME DurableInv, DurableInv', NEW t \in submitted, Archived' = Archived \cup {t},
           UNCHANGED <<submitted, removed, runs, session, crashes, throws>>,
           Sound => t \in Waiting /\ t \in Running
    PROVE  D!Settle(t)
  <1>1. Waiting' = Waiting \ {t}
    BY WaitingTasks, WaitingAfter
  <1> QED  BY <1>1, WaitingTasks DEF D!Settle, Running, Sound

\* A queue file taken away for good withdraws its task.
LEMMA WithdrawStep ==
    ASSUME DurableInv, DurableInv', NEW f \in queue, removed' = removed \cup {f.id},
           UNCHANGED <<submitted, completed, dead, runs, session>>, Sound' \in {Sound, FALSE}
    PROVE  \E t \in Task : D!Withdraw(t)
  <1>1. f.id \in submitted /\ f.id \in Task
    BY DEF DurableInv, BudgetInv, TypeInv, OnlySubmitted, TypeOK
  <1>2. Waiting' = Waiting \ {f.id}
    BY WaitingTasks, WaitingAfter DEF Archived
  <1>3. D!Withdraw(f.id)
    BY <1>1, <1>2, WaitingTasks, SoundFile DEF D!Withdraw, Running, Archived
  <1> QED  BY <1>1, <1>3

\* A session that is over ends the run of its task, unless another daemon runs it too.
LEMMA EndStep ==
    ASSUME DurableInv, DurableInv', NEW p \in Proc, session' = [session EXCEPT ![p] = None],
           UNCHANGED <<submitted, removed, completed, dead, runs>>,
           \/ Sound' = FALSE
           \/ Sound' = Sound /\ pc[p] = "archived"
    PROVE  [D!Next]_(D!vars)
  <1>0. session \in [Proc -> Task \cup {None}] /\ None \notin Task
    BY TaskAssumption DEF DurableInv, BudgetInv, TypeInv, TypeOK
  <1>1. Waiting' = Waiting /\ Archived' = Archived
    BY WaitingTasks, WaitingAfter DEF Archived
  <1>2. CASE Running' = Running
    <2>1. CASE Sound' = FALSE
      BY <1>1, <1>2, <2>1 DEF D!Next, D!Fault
    <2>2. CASE Sound' = Sound
      BY <1>1, <1>2, <2>2 DEF D!vars
    <2> QED  BY <2>1, <2>2
  <1>3. CASE Running' # Running
    <2> DEFINE t == session[p]
    <2>1. t \in Task /\ t \in Running /\ Running' = Running \ {t}
      <3>1. \A x : x \in Running <=> x # None /\ \E q \in Proc : session[q] = x
        BY DEF Running
      <3>2. \A x : x \in Running' <=> x # None /\ \E q \in Proc : q # p /\ session[q] = x
        BY <1>0 DEF Running
      <3>3. PICK x : x \in Running /\ x \notin Running'
        BY <1>3, <3>1, <3>2
      <3>4. x = t
        BY <3>1, <3>2, <3>3
      <3> QED  BY <1>0, <3>1, <3>2, <3>3, <3>4
    <2>2. Sound' => t \notin Waiting \/ runs[t] < Budget[t]
      <3> SUFFICES ASSUME Sound, pc[p] = "archived" PROVE t \notin Waiting \/ runs[t] < Budget[t]
        OBVIOUS
      <3>1. InPlace(p)
        BY DEF DurableInv, Sound, PlaceInv, Faults
      <3>2. t \in QueuedIds \/ t \notin Waiting
        BY <3>1 DEF InPlace, Waiting
      <3>3. \A f \in queue : f.attempts = runs[f.id] /\ f.attempts < Budget[f.id]
        BY <3>1 DEF InPlace, DurableInv, BudgetInv, AttemptsWithinBudget
      <3> QED  BY <3>2, <3>3 DEF QueuedIds
    <2>3. D!End(t)
      BY <1>1, <2>1, <2>2 DEF D!End
    <2> QED  BY <2>1, <2>3 DEF D!Next
  <1> QED  BY <1>2, <1>3

\* Whoever writes the lease record starts the session: the task waits, no session runs
\* it, and it has an attempt left, as long as the queue is sound.
LEMMA LeaseWriteStarts ==
    ASSUME DurableInv, DurableInv', NEW p \in Proc, LeaseWrite(p)
    PROVE  \E t \in Task : D!Start(t)
  <1> DEFINE t == job[p].ref.id
  <1>0. /\ session \in [Proc -> Task \cup {None}] /\ None \notin Task
        /\ runs \in [Task -> Nat] /\ job[p].attempts \in Nat
    BY TaskAssumption DEF DurableInv, BudgetInv, TypeInv, TypeOK, Job
  <1>1. /\ pc[p] = "leasing" /\ session' = [session EXCEPT ![p] = t]
        /\ runs' = [runs EXCEPT ![t] = @ + 1]
        /\ UNCHANGED <<submitted, removed, completed, dead, crashes, throws>>
    BY DEF LeaseWrite, faultVars
  <1>2. t \in submitted /\ t \in Task /\ session[p] = None
    BY <1>1 DEF DurableInv, BudgetInv, TypeInv, TypeOK, OnlySubmitted, LeasesFirst
  <1>3. Waiting' = Waiting /\ Archived' = Archived /\ Sound' = Sound
    BY <1>1, WaitingTasks, WaitingAfter DEF Archived, Sound
  <1>4. Running' = Running \cup {t}
    BY <1>0, <1>1, <1>2 DEF Running
  <1>5. ASSUME Sound PROVE t \in Waiting /\ t \notin Running /\ runs[t] < Budget[t]
    <2>1. InPlace(p)
      BY <1>5 DEF DurableInv, Sound, PlaceInv, Faults
    <2>2. t \in Waiting
      BY <1>1, <1>2, <2>1, WaitingTasks DEF InPlace
    <2>3. Running = {}
      BY <1>2, <1>5 DEF Running, Sound, OneDaemon
    <2>4. runs[t] < Budget[t]
      BY <1>1, <2>1 DEF InPlace, DurableInv, BudgetInv, LeasingFits
    <2> QED  BY <2>2, <2>3, <2>4
  <1> HIDE DEF t
  <1>6. D!Start(t)
    BY <1>1, <1>2, <1>3, <1>4, <1>5, WaitingTasks DEF D!Start
  <1> QED  BY <1>2, <1>6

\* completeTask and recovery write an archive, which settles the task, or a retry.
LEMMA ArchiveSettles ==
    ASSUME DurableInv, DurableInv', NEW p \in Proc,
           RecoverWrite(p) \/ \E ok \in BOOLEAN : Finish(p, ok)
    PROVE  [D!Next]_(D!vars)
  <1> DEFINE t == IF pc[p] = "claimed" THEN job[p].ref.id ELSE session[p]
  <1>1. /\ t \in submitted /\ t \in Task
        /\ UNCHANGED <<submitted, removed, runs, session, crashes, throws>>
    <2>1. CASE RecoverWrite(p)
      BY <2>1 DEF RecoverWrite, faultVars, DurableInv, BudgetInv, TypeInv, TypeOK, OnlySubmitted
    <2>2. ASSUME NEW ok \in BOOLEAN, Finish(p, ok)
          PROVE  /\ t \in submitted /\ t \in Task
                 /\ UNCHANGED <<submitted, removed, runs, session, crashes, throws>>
      BY <2>2 DEF Finish, faultVars, DurableInv, BudgetInv, TypeInv, TypeOK, OnlySubmitted
    <2> QED  BY <2>1, <2>2
  <1>2. \/ UNCHANGED <<completed, dead>>
        \/ Archived' = Archived \cup {t}
    <2>1. CASE RecoverWrite(p)
      BY <2>1 DEF RecoverWrite, Archived
    <2>2. ASSUME NEW ok \in BOOLEAN, Finish(p, ok)
          PROVE  UNCHANGED <<completed, dead>> \/ Archived' = Archived \cup {t}
      BY <2>2 DEF Finish, Archived
    <2> QED  BY <2>1, <2>2
  <1>3. ASSUME Sound PROVE t \in Waiting /\ t \in Running
    <2>1. InPlace(p)
      BY <1>3 DEF DurableInv, Sound, PlaceInv, Faults
    <2>2. pc[p] = "idle" /\ session[p] # None /\ t = session[p]
      BY <2>1 DEF InPlace, RecoverWrite, Finish
    <2> QED  BY <1>1, <2>1, <2>2, WaitingTasks DEF InPlace, Running
  <1> HIDE DEF t
  <1>4. CASE UNCHANGED <<completed, dead>>
    BY <1>1, <1>4, QuietStep
  <1>5. CASE Archived' = Archived \cup {t}
    <2>1. D!Settle(t)
      BY <1>1, <1>3, <1>5, SettleStep
    <2> QED  BY <1>1, <2>1 DEF D!Next
  <1> QED  BY <1>2, <1>4, <1>5

\* Every step is a step of the abstract queue or leaves it alone.
LEMMA NextDurable ==
    ASSUME DurableInv, DurableInv', [Next]_vars PROVE [D!Next]_(D!vars)
  <1> USE DEF fileVars, procVars, faultVars
  <1>0. /\ crashes \in Nat /\ throws \in Nat
        /\ session \in [Proc -> Task \cup {None}]
    BY FaultAssumption DEF DurableInv, BudgetInv, TypeInv, TypeOK
  <1>t. throws' = throws + 1 /\ crashes' = crashes => Sound' = FALSE
    BY <1>0 DEF Sound
  <1>c. crashes' = crashes + 1 /\ throws' = throws => Sound' = FALSE
    BY <1>0 DEF Sound
  <1>s. UNCHANGED <<crashes, throws>> => Sound' = Sound
    BY DEF Sound
  <1>f. ASSUME Sound' = FALSE, UNCHANGED <<submitted, removed, completed, dead, runs, session>>
        PROVE  D!Fault
    <2>1. Waiting' = Waiting
      BY <1>f, WaitingTasks, WaitingAfter DEF Archived
    <2> QED  BY <1>f, <2>1 DEF D!Fault, Archived, Running
  <1>1. CASE UNCHANGED vars
    <2>1. UNCHANGED <<submitted, removed, completed, dead, runs, session, crashes, throws>>
      BY <1>1 DEF vars
    <2> QED  BY <2>1, QuietStep
  <1>2. ASSUME NEW t \in Task, Enqueue(t) PROVE [D!Next]_(D!vars)
    <2>1. /\ t \notin submitted /\ submitted' = submitted \cup {t}
          /\ UNCHANGED <<removed, completed, dead, runs, session, crashes, throws>>
      BY <1>2 DEF Enqueue
    <2>2. t \notin Archived \cup removed
      BY <2>1 DEF DurableInv, GoneWereAccepted
    <2>3. Waiting' = Waiting \cup {t}
      BY <2>1, <2>2, WaitingTasks, WaitingAfter DEF Archived
    <2>4. D!Accept(t)
      BY <1>s, <2>1, <2>3, WaitingTasks DEF D!Accept, Archived, Running
    <2> QED  BY <2>4 DEF D!Next
  <1>3. ASSUME NEW t \in Task, RemovePending(t) PROVE [D!Next]_(D!vars)
    <2>1. PICK f \in queue : f.id = t
      BY <1>3 DEF RemovePending
    <2>2. /\ removed' = removed \cup {f.id}
          /\ UNCHANGED <<submitted, completed, dead, runs, session, crashes, throws>>
      BY <1>3, <2>1 DEF RemovePending
    <2>3. \E u \in Task : D!Withdraw(u)
      BY <1>s, <2>2, WithdrawStep
    <2> QED  BY <2>3 DEF D!Next
  <1>4. ASSUME NEW t \in Task, BackoffElapses(t) \/ LeaseExpires(t) \/ ScratchExpires(t) \/ GrowsStale(t) \/ Answer(t)
        PROVE  [D!Next]_(D!vars)
    <2>1. UNCHANGED <<submitted, removed, completed, dead, runs, session, crashes, throws>>
      BY <1>4 DEF BackoffElapses, LeaseExpires, ScratchExpires, GrowsStale, Answer
    <2> QED  BY <2>1, QuietStep
  <1>5. ASSUME NEW p \in Proc, Tick(p) PROVE [D!Next]_(D!vars)
    <2>1. CASE DequeueClaim(p)
      <3>1. UNCHANGED <<submitted, removed, completed, dead, runs, session, crashes, throws>>
        BY <2>1 DEF DequeueClaim
      <3> QED  BY <3>1, QuietStep
    <2>2. CASE LeaseRenameThrows(p)
      <3>1. PICK f \in queue : removed' = removed \cup {f.id}
        BY <2>2 DEF LeaseRenameThrows
      <3>2. /\ UNCHANGED <<submitted, completed, dead, runs, session>>
            /\ throws' = throws + 1 /\ crashes' = crashes
        BY <2>2 DEF LeaseRenameThrows
      <3>3. \E u \in Task : D!Withdraw(u)
        BY <1>t, <3>1, <3>2, WithdrawStep
      <3> QED  BY <3>3 DEF D!Next
    <2>3. CASE LeaseWrite(p)
      BY <2>3, LeaseWriteStarts DEF D!Next
    <2>4. CASE LeaseWriteThrows(p)
      <3>1. /\ UNCHANGED <<submitted, removed, completed, dead, runs, session>>
            /\ throws' = throws + 1 /\ crashes' = crashes
        BY <2>4 DEF LeaseWriteThrows
      <3> QED  BY <1>t, <1>f, <3>1 DEF D!Next
    <2>5. CASE \E ok \in BOOLEAN : Finish(p, ok)
      BY <2>5, ArchiveSettles
    <2>6. CASE FinishThrows(p)
      <3>1. /\ UNCHANGED <<submitted, removed, completed, dead, runs>>
            /\ session' = [session EXCEPT ![p] = None]
            /\ throws' = throws + 1 /\ crashes' = crashes
        BY <2>6 DEF FinishThrows
      <3> QED  BY <1>t, <3>1, EndStep
    <2>7. CASE CompleteUnlink(p)
      <3>1. /\ UNCHANGED <<submitted, removed, completed, dead, runs, crashes, throws>>
            /\ session' = [session EXCEPT ![p] = None] /\ pc[p] = "archived"
        BY <2>7 DEF CompleteUnlink
      <3> QED  BY <1>s, <3>1, EndStep
    <2> QED  BY <1>5, <2>1, <2>2, <2>3, <2>4, <2>5, <2>6, <2>7 DEF Tick
  <1>6. ASSUME NEW p \in Proc, Elicit(p) \/ StartDaemon(p) PROVE [D!Next]_(D!vars)
    <2>1. UNCHANGED <<submitted, removed, completed, dead, runs, session, crashes, throws>>
      BY <1>6 DEF Elicit, Ask, Park, ExpireHandoff, Unpark, ReclaimSkip, ReclaimClaim, StartDaemon
    <2> QED  BY <2>1, QuietStep
  <1>7. ASSUME NEW p \in Proc, Recover(p) PROVE [D!Next]_(D!vars)
    <2>1. CASE RecoverWrite(p)
      BY <2>1, ArchiveSettles
    <2>2. CASE RecoverThrows(p)
      <3>1. /\ UNCHANGED <<submitted, removed, completed, dead, runs, session>>
            /\ throws' = throws + 1 /\ crashes' = crashes
        BY <2>2 DEF RecoverThrows
      <3> QED  BY <1>t, <1>f, <3>1 DEF D!Next
    <2>3. CASE ~RecoverWrite(p) /\ ~RecoverThrows(p)
      <3>1. UNCHANGED <<submitted, removed, completed, dead, runs, session, crashes, throws>>
        BY <1>7, <2>3 DEF Recover, ScanStart, ScanRead, ScanClaim, RecoverUnlink,
           ClaimsStart, ClaimTake, ClaimRestore, ClaimsDone
      <3> QED  BY <3>1, QuietStep
    <2> QED  BY <2>1, <2>2, <2>3
  <1>8. ASSUME NEW p \in Proc, Crash(p) PROVE [D!Next]_(D!vars)
    <2>1. /\ UNCHANGED <<submitted, removed, completed, dead, runs>>
          /\ session' = [session EXCEPT ![p] = None]
          /\ crashes' = crashes + 1 /\ throws' = throws
      BY <1>8 DEF Crash
    <2> QED  BY <1>c, <2>1, EndStep
  <1> QED  BY <1>1, <1>2, <1>3, <1>4, <1>5, <1>6, <1>7, <1>8 DEF Next, Environment

\* However many daemons share the directory, and wherever they die or fail to write, the
\* queue and lease code implements the queue of DurableQueue; for one daemon that is,
\* until the first fault, a queue that runs each task within its budget and settles it once.
THEOREM QueueIsDurable == Spec => Durable
  <1>1. Init => DurableInv
    <2>1. Init => HoldInv /\ CalmInv /\ PlaceInv
      BY TaskAssumption DEF Init, CalmInv, Calm, HoldInv, Holds, FirstPass, SecondPass, PlaceInv, InPlace,
         HasLease, NoFile
    <2>2. Init => GoneWereAccepted /\ LeasesFirst
      BY DEF Init, GoneWereAccepted, LeasesFirst, Archived
    <2> QED  BY <2>1, <2>2, InitSafe, InitBudget DEF DurableInv
  <1>2. DurableInv /\ [Next]_vars => DurableInv'
    <2> SUFFICES ASSUME DurableInv, [Next]_vars PROVE DurableInv'
      OBVIOUS
    <2>1. SafeInv' /\ BudgetInv' /\ GoneWereAccepted' /\ LeasesFirst'
      BY NextSafe, NextBudget, NextGone, NextLeasing DEF DurableInv, SafeInv
    <2>2. OneDaemon /\ OwnKey => HoldInv' /\ CalmInv' /\ PlaceInv'
      BY NextHolds, NextCalm, NextPlace DEF DurableInv
    <2> QED  BY <2>1, <2>2 DEF DurableInv, OneDaemon, OwnKey
  <1>3. Init => D!Init
    <2> SUFFICES ASSUME Init PROVE D!Init
      OBVIOUS
    <2>1. /\ Waiting = {} /\ Archived = {} /\ removed = {} /\ Running = {}
      BY DEF Init, Waiting, QueuedIds, ScratchIds, HasLease, NoFile, Archived, Running
    <2> QED  BY <2>1 DEF Init, D!Init, D!Accepted, Sound
  <1>4. DurableInv /\ DurableInv' /\ [Next]_vars => [D!Next]_(D!vars)
    BY NextDurable
  <1> QED  BY <1>1, <1>2, <1>3, <1>4, PTL DEF Spec, Durable, D!Spec
=============================================================================
