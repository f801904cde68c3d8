--------------------------- MODULE TaskLeaseProofs ---------------------------
(***************************************************************************)
(* Proofs about TaskLease for every set of tasks and processes, every      *)
(* retry budget and every number of crashes and failed writes.             *)
(***************************************************************************)
EXTENDS TaskLease, FiniteSetTheorems, TLAPS

\* Ids only travel from `submitted` into files and into the processes.
OnlySubmitted ==
    /\ \A f \in queue : f.id \in submitted
    /\ \A t \in Task : HasLease(t) => t \in submitted
    /\ \A s \in scratch : s.id \in submitted
    /\ \A p \in Proc :
         /\ session[p] \in submitted \cup {None}
         /\ \A ref \in todo[p] : ref.id \in submitted
         /\ pc[p] \in {"leasing", "scanned", "claimed", "written", "restore"}
              => job[p].ref.id \in submitted
         /\ pc[p] = "archived" => session[p] # None /\ ~asking[p]
         /\ asking[p] => session[p] # None
         /\ pc[p] = "reclaim" => unpark[p] # None

\* Recovery only renames files that exist.
ScratchHasRecord == \A s \in scratch : s.rec.state # "none"

TypeInv == TypeOK /\ OnlySubmitted /\ ScratchHasRecord

-----------------------------------------------------------------------------
(* The operators the actions are built from. *)

\* Putting a task into a queue keeps the type of the queues.
LEMMA QueueWithType ==
    ASSUME queue \subseteq QueueFile, IsFiniteSet(queue),
           NEW t \in Task, NEW a \in Nat, NEW e \in BOOLEAN
    PROVE  /\ QueueWith(t, a, e) \subseteq QueueFile
           /\ IsFiniteSet(QueueWith(t, a, e))
           /\ \A f \in QueueWith(t, a, e) : f \in queue \/ f.id = t
           /\ \E f \in QueueWith(t, a, e) : f.id = t /\ f.eligible = e
           /\ \A f \in queue : f.id # t => f \in QueueWith(t, a, e)
  <1> DEFINE seq == Cardinality(queue) + 1
             new == [id |-> t, seq |-> seq, attempts |-> a, eligible |-> e]
             old == {f \in queue : f.seq # seq \/ f.id # t}
  <1>1. seq \in Nat
    <2>1. Cardinality(queue) \in Nat
      BY FS_CardinalityType
    <2> QED  BY <2>1
  <1>2. QueueWith(t, a, e) = old \cup {new}
    BY DEF QueueWith
  <1>3. new \in QueueFile
    BY <1>1 DEF QueueFile
  <1>4. IsFiniteSet(old)
    BY FS_Subset
  <1>5. IsFiniteSet(old \cup {new})
    BY <1>4, FS_AddElement
  <1> HIDE DEF seq
  <1> QED  BY <1>2, <1>3, <1>5

\* The lease or scratch file a read finds holds a record.
LEMMA ContentType ==
    ASSUME TypeOK, ScratchHasRecord, NEW ref \in FileRef, ref.id \in Task, Found(ref)
    PROVE  Content(ref) \in Record /\ Content(ref).state # "none"
  <1>1. CASE ref.kind = "lease"
    BY <1>1 DEF TypeOK, Found, Content, HasLease
  <1>2. CASE ref.kind # "lease"
    <2> DEFINE s == CHOOSE z \in scratch : z.name = ref.name
    <2>1. s \in scratch
      BY <1>2 DEF Found
    <2>2. Content(ref) = s.rec
      BY <1>2 DEF Content
    <2>3. s.rec \in Record /\ s.rec.state # "none"
      BY <2>1 DEF TypeOK, Scratch, ScratchHasRecord
    <2> QED  BY <2>2, <2>3
  <1> QED  BY <1>1, <1>2

\* A rename between queues keeps their type.
LEMMA RenameType ==
    ASSUME TypeInv, NEW ref \in FileRef, ref.id \in submitted, Found(ref),
           NEW kind \in {"claim", "process"}, RenameToScratch(ref, kind)
    PROVE  /\ scratch' \subseteq Scratch /\ leased' \in [Task -> Record] /\ names' \in Nat
           /\ \A s \in scratch' : s.id \in submitted /\ s.rec.state # "none"
           /\ \A t \in Task : leased'[t].state # "none" => HasLease(t)
           /\ ref.id \in {s.id : s \in scratch'}
           /\ \A t \in Task : t # ref.id => leased'[t] = leased[t]
           /\ \A s \in scratch : s.id # ref.id => s \in scratch'
  <1> DEFINE new == [name |-> names, kind |-> kind, id |-> ref.id, rec |-> Content(ref)]
  <1>1. ref.id \in Task /\ names \in Nat /\ names' \in Nat
    BY DEF TypeInv, TypeOK, RenameToScratch
  <1>2. Content(ref) \in Record /\ Content(ref).state # "none"
    BY <1>1, ContentType DEF TypeInv
  <1>3. new \in Scratch /\ new.id = ref.id /\ new.rec.state # "none"
    BY <1>1, <1>2 DEF Scratch
  <1>4. scratch' = {s \in scratch : ScratchRef(s) # ref} \cup {new}
    BY DEF RenameToScratch
  <1>5. /\ scratch' \subseteq Scratch
        /\ \A s \in scratch' : s.id \in submitted /\ s.rec.state # "none"
        /\ ref.id \in {s.id : s \in scratch'}
    <2> HIDE DEF new
    <2> QED  BY <1>3, <1>4 DEF TypeInv, TypeOK, OnlySubmitted, ScratchHasRecord
  <1>6. \A s \in scratch : s.id # ref.id => s \in scratch'
    BY <1>4 DEF ScratchRef
  <1>7. NoFile \in Record /\ NoFile.state = "none"
    BY DEF NoFile, Record
  <1>8. /\ leased' \in [Task -> Record]
        /\ \A t \in Task : leased'[t].state # "none" => HasLease(t)
        /\ \A t \in Task : t # ref.id => leased'[t] = leased[t]
    BY <1>1, <1>7 DEF TypeInv, TypeOK, RenameToScratch, HasLease
  <1> QED  BY <1>1, <1>5, <1>6, <1>8

-----------------------------------------------------------------------------
(* The type invariant. *)

\* The types hold of an empty queue directory.
LEMMA InitType == Init => TypeInv
  <1>1. IsFiniteSet({})
    BY FS_EmptySet
  <1>2. NoFile \in Record /\ NoFile.state = "none"
    BY DEF NoFile, Record
  <1>3. NoJob \in Job
    BY DEF NoJob, Job, LeaseRef, FileRef
  <1> QED  BY <1>1, <1>2, <1>3, TaskAssumption, FaultAssumption
         DEF Init, TypeInv, TypeOK, OnlySubmitted, ScratchHasRecord, HasLease, Section

\* What a new queue file leaves for the invariant, whatever its backoff.
LEMMA QueueWithSubmitted ==
    ASSUME TypeOK, OnlySubmitted, NEW t \in Task, NEW a \in Nat
    PROVE  \A e \in BOOLEAN :
             /\ QueueWith(t, a, e) \subseteq QueueFile /\ IsFiniteSet(QueueWith(t, a, e))
             /\ \A f \in QueueWith(t, a, e) : f.id \in submitted \cup {t}
  <1>1. queue \subseteq QueueFile /\ IsFiniteSet(queue) /\ \A f \in queue : f.id \in submitted
    BY DEF TypeOK, OnlySubmitted
  <1>2. ASSUME NEW e \in BOOLEAN
        PROVE  /\ QueueWith(t, a, e) \subseteq QueueFile /\ IsFiniteSet(QueueWith(t, a, e))
               /\ \A f \in QueueWith(t, a, e) : f.id \in submitted \cup {t}
    <2>1. /\ QueueWith(t, a, e) \subseteq QueueFile
          /\ IsFiniteSet(QueueWith(t, a, e))
          /\ \A f \in QueueWith(t, a, e) : f \in queue \/ f.id = t
      BY <1>1, QueueWithType
    <2> QED  BY <1>1, <2>1
  <1> QED  BY <1>2

\* A queue file taken out, or changed in place, leaves the queue well formed.
LEMMA QueueEdit ==
    ASSUME TypeOK, NEW f \in queue, NEW g \in QueueFile
    PROVE  /\ queue \ {f} \subseteq QueueFile /\ IsFiniteSet(queue \ {f})
           /\ (queue \ {f}) \cup {g} \subseteq QueueFile
           /\ IsFiniteSet((queue \ {f}) \cup {g})
  <1>1. queue \subseteq QueueFile /\ IsFiniteSet(queue)
    BY DEF TypeOK
  <1>2. IsFiniteSet(queue \ {f})
    BY <1>1, FS_Subset
  <1>3. IsFiniteSet((queue \ {f}) \cup {g})
    BY <1>2, FS_AddElement
  <1> QED  BY <1>1, <1>2, <1>3

\* A daemon that starts a job has a well-typed job.
LEMMA FreeJobType == \A p \in Proc : TypeOK /\ FreeJob(p) => job' \in [Proc -> Job]
  <1>1. NoJob \in Job
    BY DEF NoJob, Job, LeaseRef, FileRef
  <1> QED  BY <1>1 DEF TypeOK, FreeJob

\* What the user and the clock do keeps the types.
LEMMA EnvironmentType == TypeInv /\ Environment => TypeInv'
  <1> SUFFICES ASSUME TypeInv, NEW t \in Task,
                      \/ Enqueue(t) \/ RemovePending(t) \/ BackoffElapses(t)
                      \/ LeaseExpires(t) \/ ScratchExpires(t) \/ GrowsStale(t) \/ Answer(t)
               PROVE  TypeInv'
    BY DEF Environment
  <1> USE DEF TypeInv, TypeOK, OnlySubmitted, ScratchHasRecord, HasLease,
              fileVars, procVars, faultVars
  <1>1. CASE Enqueue(t)
    <2>1. queue' = QueueWith(t, 0, TRUE) /\ submitted' = submitted \cup {t}
      BY <1>1 DEF Enqueue
    <2>2. queue' \subseteq QueueFile /\ IsFiniteSet(queue')
          /\ \A f \in queue' : f.id \in submitted'
      <3>1. TRUE \in BOOLEAN /\ 0 \in Nat
        OBVIOUS
      <3> QED  BY <2>1, <3>1, QueueWithSubmitted
    <2> QED  BY <1>1, <2>1, <2>2 DEF Enqueue
  <1>2. CASE RemovePending(t)
    <2>1. PICK f \in queue : queue' = queue \ {f}
      BY <1>2 DEF RemovePending
    <2>2. queue' \subseteq QueueFile /\ IsFiniteSet(queue')
      BY <2>1, QueueEdit
    <2> QED  BY <1>2, <2>1, <2>2 DEF RemovePending
  <1>3. CASE BackoffElapses(t)
    <2>1. PICK f \in queue : queue' = (queue \ {f}) \cup {[f EXCEPT !.eligible = TRUE]}
      BY <1>3 DEF BackoffElapses
    <2>2. [f EXCEPT !.eligible = TRUE] \in QueueFile
          /\ [f EXCEPT !.eligible = TRUE].id = f.id
      BY DEF QueueFile
    <2>3. queue' \subseteq QueueFile /\ IsFiniteSet(queue')
      BY <2>1, <2>2, QueueEdit
    <2>4. \A g \in queue' : g.id \in submitted
      BY <2>1, <2>2
    <2> QED  BY <1>3, <2>3, <2>4 DEF BackoffElapses
  <1>4. CASE LeaseExpires(t)
    <2>1. leased' \in [Task -> Record] /\ \A u \in Task : leased'[u].state = leased[u].state
      BY <1>4 DEF LeaseExpires, Record
    <2> QED  BY <1>4, <2>1 DEF LeaseExpires
  <1>5. CASE ScratchExpires(t)
    <2>1. PICK s \in scratch :
            scratch' = (scratch \ {s}) \cup {[s EXCEPT !.rec.expired = TRUE]}
      BY <1>5 DEF ScratchExpires
    <2> DEFINE new == [s EXCEPT !.rec.expired = TRUE]
    <2>2. new \in Scratch /\ new.id = s.id /\ new.rec.state = s.rec.state
      BY DEF Scratch, Record
    <2> HIDE DEF new
    <2>3. scratch' \subseteq Scratch
          /\ \A z \in scratch' : z.id \in submitted /\ z.rec.state # "none"
      BY <2>1, <2>2 DEF new
    <2> QED  BY <1>5, <2>3 DEF ScratchExpires
  <1>6. CASE GrowsStale(t) \/ Answer(t)
    BY <1>6 DEF GrowsStale, Answer
  <1> QED  BY <1>1, <1>2, <1>3, <1>4, <1>5, <1>6

\* So does every step of the tick.
LEMMA TickType == \A p \in Proc : TypeInv /\ Tick(p) => TypeInv'
  <1> SUFFICES ASSUME TypeInv, NEW p \in Proc, Tick(p) PROVE TypeInv'
    OBVIOUS
  <1> USE DEF TypeInv, TypeOK, OnlySubmitted, ScratchHasRecord, HasLease,
              fileVars, procVars, faultVars
  <1>1. CASE DequeueClaim(p)
    <2>1. PICK f \in queue :
            /\ queue' = queue \ {f} /\ leased' = LeaseFrom(f)
            /\ job' = [job EXCEPT ![p] =
                 [ref |-> LeaseRef(f.id), attempts |-> f.attempts, pass |-> "first"]]
      BY <1>1 DEF DequeueClaim
    <2>2. queue' \subseteq QueueFile /\ IsFiniteSet(queue') /\ f \in QueueFile
      BY <2>1, QueueEdit
    <2>3. /\ leased' \in [Task -> Record]
          /\ \A t \in Task : leased'[t].state # "none" => t \in submitted
      BY <2>1, <2>2 DEF LeaseFrom, Record, QueueFile
    <2>4. job' \in [Proc -> Job] /\ job'[p].ref.id = f.id
          /\ \A q \in Proc : q # p => job'[q] = job[q]
      BY <2>1, <2>2 DEF Job, FileRef, LeaseRef, QueueFile
    <2> QED  BY <1>1, <2>1, <2>2, <2>3, <2>4 DEF DequeueClaim, Section
  <1>2. CASE LeaseWrite(p)
    <2> DEFINE t == job[p].ref.id
    <2>1. t \in submitted /\ t \in Task /\ t # None /\ job[p].attempts \in Nat
      BY <1>2, TaskAssumption DEF LeaseWrite, Job
    <2>2. /\ leased' \in [Task -> Record]
          /\ \A u \in Task : leased'[u].state # "none" => u \in submitted
      BY <1>2, <2>1 DEF LeaseWrite, Record, NextAttempt
    <2>3. runs' \in [Task -> Nat] /\ session' = [session EXCEPT ![p] = t]
      BY <1>2, <2>1 DEF LeaseWrite
    <2>4. job' \in [Proc -> Job] /\ \A q \in Proc : q # p => job'[q] = job[q]
      BY <1>2, FreeJobType DEF LeaseWrite, FreeJob
    <2> QED  BY <1>2, <2>1, <2>2, <2>3, <2>4 DEF LeaseWrite, Section
  <1>3. CASE LeaseWriteThrows(p)
    <2>1. job' \in [Proc -> Job] /\ \A q \in Proc : q # p => job'[q] = job[q]
      BY <1>3, FreeJobType DEF LeaseWriteThrows, FreeJob
    <2>2. throws' \in 0 .. MaxThrows
      BY <1>3, FaultAssumption DEF LeaseWriteThrows
    <2> QED  BY <1>3, <2>1, <2>2 DEF LeaseWriteThrows, Section
  <1>4. ASSUME NEW ok \in BOOLEAN, Finish(p, ok) PROVE TypeInv'
    <2> DEFINE t == session[p]
    <2>1. t \in Task /\ t \in submitted /\ leased[t].attempts \in Nat
      BY <1>4 DEF Finish, Record
    <2>2. queue' = queue \/ queue' = QueueWith(t, leased[t].attempts, FALSE)
      BY <1>4 DEF Finish
    <2>3. queue' \subseteq QueueFile /\ IsFiniteSet(queue')
          /\ \A f \in queue' : f.id \in submitted
      <3>1. FALSE \in BOOLEAN /\ submitted \cup {t} = submitted
        BY <2>1
      <3>2. /\ QueueWith(t, leased[t].attempts, FALSE) \subseteq QueueFile
            /\ IsFiniteSet(QueueWith(t, leased[t].attempts, FALSE))
            /\ \A f \in QueueWith(t, leased[t].attempts, FALSE) : f.id \in submitted \cup {t}
        BY <2>1, <3>1, QueueWithSubmitted
      <3> HIDE DEF t
      <3> QED  BY <2>2, <3>1, <3>2
    <2>4. completed' \subseteq Task /\ dead' \subseteq Task
      BY <1>4, <2>1 DEF Finish
    <2> QED  BY <1>4, <2>3, <2>4 DEF Finish, Section
  <1>5. CASE FinishThrows(p)
    BY <1>5, FaultAssumption DEF FinishThrows, Section
  <1>6. CASE CompleteUnlink(p)
    <2>1. /\ leased' \in [Task -> Record]
          /\ \A t \in Task : leased'[t].state # "none" => t \in submitted
      BY <1>6 DEF CompleteUnlink, Record, NoFile
    <2> QED  BY <1>6, <2>1 DEF CompleteUnlink, Section
  <1>7. CASE LeaseRenameThrows(p)
    <2>1. PICK f \in queue : queue' = queue \ {f} /\ removed' = removed \cup {f.id}
      BY <1>7 DEF LeaseRenameThrows
    <2>2. queue' \subseteq QueueFile /\ IsFiniteSet(queue') /\ f.id \in Task
      BY <2>1, QueueEdit DEF QueueFile
    <2>3. throws' \in 0 .. MaxThrows
      BY <1>7, FaultAssumption DEF LeaseRenameThrows
    <2> QED  BY <1>7, <2>1, <2>2, <2>3 DEF LeaseRenameThrows
  <1> QED  BY <1>1, <1>2, <1>3, <1>4, <1>5, <1>6, <1>7 DEF Tick

\* So does every step of a question that parks the task.
LEMMA ElicitType == \A p \in Proc : TypeInv /\ Elicit(p) => TypeInv'
  <1> SUFFICES ASSUME TypeInv, NEW p \in Proc, Elicit(p) PROVE TypeInv'
    OBVIOUS
  <1> USE DEF TypeInv, TypeOK, OnlySubmitted, ScratchHasRecord, HasLease,
              fileVars, procVars, faultVars
  <1>1. CASE Ask(p)
    BY <1>1 DEF Ask
  <1>2. CASE Park(p)
    <2>1. /\ leased' \in [Task -> Record]
          /\ \A t \in Task : leased'[t].state # "none" => t \in submitted
      BY <1>2 DEF Park, Record
    <2> QED  BY <1>2, <2>1 DEF Park
  <1>3. ASSUME NEW t \in Task, ExpireHandoff(p, t) PROVE TypeInv'
    BY <1>3, TaskAssumption DEF ExpireHandoff
  <1>4. CASE Unpark(p)
    <2>1. /\ leased' \in [Task -> Record]
          /\ \A t \in Task : leased'[t].state # "none" => t \in submitted
      <3>1. unpark[p] \in Task /\ leased[unpark[p]] \in Record
        BY <1>4 DEF Unpark
      <3>2. \/ leased' = leased
            \/ leased[unpark[p]].state = "waiting" /\ leased' = Restored(unpark[p])
        BY <1>4 DEF Unpark
      <3>3. leased \in [Task -> Record] /\ \A t \in Task : leased[t].state # "none" => t \in submitted
        OBVIOUS
      <3>4. CASE leased[unpark[p]].state = "waiting" /\ leased' = Restored(unpark[p])
        <4>1. [leased[unpark[p]] EXCEPT !.state = "leased"] \in Record
          BY <3>1 DEF Record
        <4>2. leased' = [leased EXCEPT ![unpark[p]] = [leased[unpark[p]] EXCEPT !.state = "leased"]]
          BY <3>4 DEF Restored
        <4> HIDE DEF TypeInv, TypeOK, OnlySubmitted
        <4> QED  BY <3>1, <3>3, <3>4, <4>1, <4>2
      <3> QED  BY <3>2, <3>3, <3>4
    <2> QED  BY <1>4, <2>1 DEF Unpark, Section
  <1>5. CASE ReclaimSkip(p)
    BY <1>5 DEF ReclaimSkip, Section
  <1>6. CASE ReclaimClaim(p)
    <2> DEFINE t == unpark[p]
    <2>1. t \in submitted /\ t \in Task /\ HasLease(t)
      BY <1>6 DEF ReclaimClaim
    <2>2. LeaseRef(t) \in FileRef /\ LeaseRef(t).id = t /\ Found(LeaseRef(t))
      BY <2>1 DEF LeaseRef, FileRef, Found
    <2>3. RenameToScratch(LeaseRef(t), "claim")
      BY <1>6 DEF ReclaimClaim
    <2>4. /\ scratch' \subseteq Scratch /\ leased' \in [Task -> Record] /\ names' \in Nat
          /\ \A s \in scratch' : s.id \in submitted /\ s.rec.state # "none"
          /\ \A u \in Task : leased'[u].state # "none" => HasLease(u)
      BY <2>1, <2>2, <2>3, RenameType
    <2>5. /\ job' \in [Proc -> Job] /\ job'[p].ref.id = t
          /\ \A q \in Proc : q # p => job'[q] = job[q]
      BY <1>6, <2>1 DEF ReclaimClaim, Job, FileRef, Record
    <2> QED  BY <1>6, <2>1, <2>4, <2>5 DEF ReclaimClaim, Section
  <1> QED  BY <1>1, <1>2, <1>3, <1>4, <1>5, <1>6 DEF Elicit

\* So does every step of crash recovery.
LEMMA RecoverType == \A p \in Proc : TypeInv /\ Recover(p) => TypeInv'
  <1> SUFFICES ASSUME TypeInv, NEW p \in Proc, Recover(p) PROVE TypeInv'
    OBVIOUS
  <1> USE DEF TypeInv, TypeOK, OnlySubmitted, ScratchHasRecord, HasLease,
              fileVars, procVars, faultVars
  <1>1. CASE ScanStart(p)
    <2>1. \A t \in Task : LeaseRef(t) \in FileRef /\ LeaseRef(t).id = t
      BY DEF LeaseRef, FileRef
    <2>2. \A s \in scratch : ScratchRef(s) \in FileRef /\ ScratchRef(s).id = s.id
      BY DEF ScratchRef, FileRef, Scratch
    <2>3. todo' \in [Proc -> SUBSET FileRef]
          /\ \A ref \in todo'[p] : ref.id \in submitted
          /\ \A q \in Proc : q # p => todo'[q] = todo[q]
      BY <1>1, <2>1, <2>2 DEF ScanStart
    <2> QED  BY <1>1, <2>3 DEF ScanStart, Section
  <1>2. CASE ScanRead(p)
    <2>1. PICK ref \in todo[p] :
            /\ todo' = [todo EXCEPT ![p] = @ \ {ref}]
            /\ IF Found(ref) /\ Content(ref).state # "waiting" /\ Content(ref).expired
               THEN /\ job' = [job EXCEPT ![p] =
                              [ref |-> ref, attempts |-> Content(ref).attempts,
                               pass |-> "first"]]
                    /\ pc' = [pc EXCEPT ![p] = "scanned"]
               ELSE UNCHANGED <<job, pc>>
      BY <1>2 DEF ScanRead
    <2>2. ref \in FileRef /\ ref.id \in submitted /\ ref.id \in Task
      OBVIOUS
    <2>3. todo' \in [Proc -> SUBSET FileRef]
          /\ \A q \in Proc : \A r \in todo'[q] : r.id \in submitted
      BY <2>1
    <2>4. CASE Found(ref) /\ Content(ref).state # "waiting" /\ Content(ref).expired
      <3>1. Content(ref) \in Record
        BY <2>2, <2>4, ContentType
      <3>2. /\ job' \in [Proc -> Job] /\ job'[p].ref.id = ref.id
            /\ \A q \in Proc : q # p => job'[q] = job[q]
        BY <2>1, <2>2, <2>4, <3>1 DEF Job, Record
      <3> QED  BY <1>2, <2>1, <2>2, <2>3, <2>4, <3>2 DEF ScanRead, Section
    <2>5. CASE ~(Found(ref) /\ Content(ref).state # "waiting" /\ Content(ref).expired)
      BY <1>2, <2>1, <2>3, <2>5 DEF ScanRead
    <2> QED  BY <2>4, <2>5
  <1>3. CASE ScanClaim(p)
    <2> DEFINE ref == job[p].ref
    <2>1. ref \in FileRef /\ ref.id \in submitted /\ ref.id \in Task
      BY <1>3 DEF ScanClaim, Job
    <2>2. CASE Found(ref)
      <3>1. RenameToScratch(ref, "claim")
        BY <1>3, <2>2 DEF ScanClaim
      <3>2. /\ scratch' \subseteq Scratch /\ leased' \in [Task -> Record] /\ names' \in Nat
            /\ \A s \in scratch' : s.id \in submitted /\ s.rec.state # "none"
            /\ \A u \in Task : leased'[u].state # "none" => HasLease(u)
        BY <2>1, <2>2, <3>1, RenameType
      <3>3. job' = [job EXCEPT ![p].ref = [kind |-> "claim", id |-> ref.id, name |-> names]]
        BY <1>3, <2>2 DEF ScanClaim
      <3>4. /\ job' \in [Proc -> Job] /\ job'[p].ref.id = ref.id
            /\ \A q \in Proc : q # p => job'[q] = job[q]
        BY <2>1, <3>3 DEF Job, FileRef
      <3>5. pc' = [pc EXCEPT ![p] = "claimed"]
        BY <1>3, <2>2 DEF ScanClaim
      <3> QED  BY <1>3, <2>1, <3>2, <3>4, <3>5 DEF ScanClaim, Section
    <2>3. CASE ~Found(ref)
      <3>1. job' \in [Proc -> Job] /\ \A q \in Proc : q # p => job'[q] = job[q]
        BY <1>3, <2>3, FreeJobType DEF ScanClaim, FreeJob
      <3> QED  BY <1>3, <2>3, <3>1 DEF ScanClaim, Section
    <2> QED  BY <2>2, <2>3
  <1>4. CASE RecoverWrite(p)
    <2> DEFINE t == job[p].ref.id
    <2>1. t \in submitted /\ t \in Task /\ job[p].attempts \in Nat
      BY <1>4 DEF RecoverWrite, Job
    <2>2. queue' = queue \/ queue' = QueueWith(t, job[p].attempts, FALSE)
      BY <1>4 DEF RecoverWrite
    <2>3. queue' \subseteq QueueFile /\ IsFiniteSet(queue')
          /\ \A f \in queue' : f.id \in submitted
      <3>1. FALSE \in BOOLEAN /\ submitted \cup {t} = submitted
        BY <2>1
      <3>2. /\ QueueWith(t, job[p].attempts, FALSE) \subseteq QueueFile
            /\ IsFiniteSet(QueueWith(t, job[p].attempts, FALSE))
            /\ \A f \in QueueWith(t, job[p].attempts, FALSE) : f.id \in submitted \cup {t}
        BY <2>1, <3>1, QueueWithSubmitted
      <3> HIDE DEF t
      <3> QED  BY <2>2, <3>1, <3>2
    <2>4. dead' \subseteq Task
      BY <1>4, <2>1 DEF RecoverWrite
    <2> QED  BY <1>4, <2>3, <2>4 DEF RecoverWrite, Section
  <1>5. CASE RecoverUnlink(p)
    <2>1. job' \in [Proc -> Job] /\ \A q \in Proc : q # p => job'[q] = job[q]
      BY <1>5, FreeJobType DEF RecoverUnlink, FreeJob
    <2>2. scratch' \subseteq scratch
      BY <1>5 DEF RecoverUnlink
    <2>3. /\ pc' \in [Proc -> Section] /\ pc'[p] \in {"scan", "claims", "idle"}
          /\ \A q \in Proc : q # p => pc'[q] = pc[q]
      BY <1>5 DEF RecoverUnlink, Section
    <2>4. /\ unpark' \in [Proc -> Task \cup {None}]
          /\ \A q \in Proc : q # p => unpark'[q] = unpark[q]
      BY <1>5 DEF RecoverUnlink
    <2> QED  BY <1>5, <2>1, <2>2, <2>3, <2>4 DEF RecoverUnlink
  <1>6. CASE RecoverThrows(p)
    <2>1. job' \in [Proc -> Job] /\ \A q \in Proc : q # p => job'[q] = job[q]
      BY <1>6, FreeJobType DEF RecoverThrows, FreeJob
    <2>2. unpark' \in [Proc -> Task \cup {None}] /\ recovered' \in [Proc -> BOOLEAN]
          /\ \A q \in Proc : q # p => unpark'[q] = unpark[q]
      BY <1>6 DEF RecoverThrows
    <2>3. todo' = [todo EXCEPT ![p] = {}] /\ pc' = [pc EXCEPT ![p] = "idle"]
          /\ throws' \in 0 .. MaxThrows
      BY <1>6, FaultAssumption DEF RecoverThrows
    <2> QED  BY <1>6, <2>1, <2>2, <2>3 DEF RecoverThrows, Section
  <1>7. CASE ClaimsStart(p)
    <2>1. \A s \in scratch : ScratchRef(s) \in FileRef /\ ScratchRef(s).id = s.id
      BY DEF ScratchRef, FileRef, Scratch
    <2>2. todo' \in [Proc -> SUBSET FileRef]
          /\ \A ref \in todo'[p] : ref.id \in submitted
          /\ \A q \in Proc : q # p => todo'[q] = todo[q]
      BY <1>7, <2>1 DEF ClaimsStart
    <2> QED  BY <1>7, <2>2 DEF ClaimsStart, Section
  <1>8. CASE ClaimTake(p)
    <2>1. PICK ref \in todo[p] :
            /\ todo' = [todo EXCEPT ![p] = @ \ {ref}]
            /\ IF Found(ref)
               THEN /\ RenameToScratch(ref, "process")
                    /\ job' = [job EXCEPT ![p] =
                         [ref |-> [kind |-> "process", id |-> ref.id, name |-> names],
                          attempts |-> Content(ref).attempts, pass |-> "second"]]
                    /\ pc' = [pc EXCEPT ![p] =
                         IF Content(ref).state = "waiting" THEN "restore" ELSE "claimed"]
               ELSE UNCHANGED <<scratch, leased, names, job, pc>>
      BY <1>8 DEF ClaimTake
    <2>2. ref \in FileRef /\ ref.id \in submitted /\ ref.id \in Task
      OBVIOUS
    <2>3. todo' \in [Proc -> SUBSET FileRef]
          /\ \A q \in Proc : \A r \in todo'[q] : r.id \in submitted
      BY <2>1
    <2>4. CASE Found(ref)
      <3>1. /\ scratch' \subseteq Scratch /\ leased' \in [Task -> Record] /\ names' \in Nat
            /\ \A s \in scratch' : s.id \in submitted /\ s.rec.state # "none"
            /\ \A u \in Task : leased'[u].state # "none" => HasLease(u)
        BY <2>1, <2>2, <2>4, RenameType
      <3>2. Content(ref) \in Record
        BY <2>2, <2>4, ContentType
      <3>3. job' = [job EXCEPT ![p] =
                      [ref |-> [kind |-> "process", id |-> ref.id, name |-> names],
                       attempts |-> Content(ref).attempts, pass |-> "second"]]
        BY <2>1, <2>4
      <3>4. /\ job' \in [Proc -> Job] /\ job'[p].ref.id = ref.id
            /\ \A q \in Proc : q # p => job'[q] = job[q]
        BY <2>2, <3>2, <3>3 DEF Job, FileRef, Record
      <3>5. /\ pc' \in [Proc -> Section] /\ pc'[p] \in {"restore", "claimed"}
            /\ \A q \in Proc : q # p => pc'[q] = pc[q]
        BY <2>1, <2>4 DEF Section
      <3> QED  BY <1>8, <2>2, <2>3, <3>1, <3>4, <3>5 DEF ClaimTake
    <2>5. CASE ~Found(ref)
      BY <1>8, <2>1, <2>3, <2>5 DEF ClaimTake
    <2> QED  BY <2>4, <2>5
  <1>9. CASE ClaimRestore(p)
    <2> DEFINE ref == job[p].ref
    <2>1. ref \in FileRef /\ ref.id \in submitted /\ ref.id \in Task
      BY <1>9 DEF ClaimRestore, Job
    <2>2. scratch' \subseteq scratch
      BY <1>9 DEF ClaimRestore
    <2>3. /\ leased' \in [Task -> Record]
          /\ \A t \in Task : leased'[t].state # "none" => t \in submitted
      <3>1. CASE Found(ref)
        <4>1. Content(ref) \in Record
          BY <2>1, <3>1, ContentType
        <4>2. leased' = [leased EXCEPT ![ref.id] = Content(ref)]
          BY <1>9, <3>1 DEF ClaimRestore
        <4> QED  BY <2>1, <4>1, <4>2
      <3>2. CASE ~Found(ref)
        BY <1>9, <3>2 DEF ClaimRestore
      <3> QED  BY <3>1, <3>2
    <2>4. job' \in [Proc -> Job] /\ \A q \in Proc : q # p => job'[q] = job[q]
      BY <1>9, FreeJobType DEF ClaimRestore, FreeJob
    <2> QED  BY <1>9, <2>2, <2>3, <2>4 DEF ClaimRestore, Section
  <1>10. CASE ClaimsDone(p)
    BY <1>10 DEF ClaimsDone, Section
  <1> QED  BY <1>1, <1>2, <1>3, <1>4, <1>5, <1>6, <1>7, <1>8, <1>9, <1>10 DEF Recover

\* So do the start and the crash of a daemon.
LEMMA LifecycleType == \A p \in Proc : TypeInv /\ (StartDaemon(p) \/ Crash(p)) => TypeInv'
  <1> SUFFICES ASSUME TypeInv, NEW p \in Proc, StartDaemon(p) \/ Crash(p) PROVE TypeInv'
    OBVIOUS
  <1> USE DEF TypeInv, TypeOK, OnlySubmitted, ScratchHasRecord, HasLease,
              fileVars, procVars, faultVars
  <1>1. CASE StartDaemon(p)
    BY <1>1 DEF StartDaemon, Section
  <1>2. CASE Crash(p)
    <2>1. job' \in [Proc -> Job] /\ \A q \in Proc : q # p => job'[q] = job[q]
      BY <1>2, FreeJobType DEF Crash, FreeJob
    <2>2. crashes' \in 0 .. MaxCrashes
      BY <1>2, FaultAssumption DEF Crash
    <2> QED  BY <1>2, <2>1, <2>2 DEF Crash, Section
  <1> QED  BY <1>1, <1>2

\* So does every step.
LEMMA StepType == TypeInv /\ [Next]_vars => TypeInv'
  <1> SUFFICES ASSUME TypeInv, [Next]_vars PROVE TypeInv'
    OBVIOUS
  <1>1. CASE Environment
    BY <1>1, EnvironmentType
  <1>2. ASSUME NEW p \in Proc,
               Tick(p) \/ Elicit(p) \/ Recover(p) \/ StartDaemon(p) \/ Crash(p)
        PROVE  TypeInv'
    BY <1>2, TickType, ElicitType, RecoverType, LifecycleType
  <1>3. CASE UNCHANGED vars
    BY <1>3 DEF vars, fileVars, procVars, faultVars, TypeInv, TypeOK, OnlySubmitted,
                ScratchHasRecord, HasLease
  <1> QED  BY <1>1, <1>2, <1>3 DEF Next

\* Every file, every reference of a directory listing and every local of the
\* queue and lease code stays well formed, and nothing but an accepted id is
\* ever found in one.
THEOREM TypeInvariant == Spec => []TypeOK
  <1>1. Spec => []TypeInv
    BY InitType, StepType, PTL DEF Spec
  <1>2. TypeInv => TypeOK
    BY DEF TypeInv
  <1> QED  BY <1>1, <1>2, PTL

-----------------------------------------------------------------------------
(* No accepted task is lost. *)

\* A task whose lease or claim is about to be unlinked is already archived,
\* removed, or back in the queue under a backoff that has not passed.
Settled(t) ==
    \/ t \in removed \cup completed \cup dead
    \/ \E f \in queue : f.id = t /\ ~f.eligible

Pinned(p, t) == \/ pc[p] = "archived" /\ session[p] = t
                \/ pc[p] = "written" /\ job[p].ref.id = t

Backed == \A p \in Proc : \A t \in submitted : Pinned(p, t) => Settled(t)

Kept(t) == \/ \E f \in queue : f.id = t
           \/ HasLease(t)
           \/ \E s \in scratch : s.id = t
           \/ t \in completed \cup dead \cup removed

AllKept == \A t \in submitted : Kept(t)

SafeInv == TypeInv /\ Backed /\ AllKept

\* No process enters the section before an unlink.
NoNewPin == \A p \in Proc : \A t \in submitted : Pinned(p, t)' => Pinned(p, t)

\* A task every copy of which is kept is not lost.
LEMMA AllKeptIsNeverLost == AllKept => NeverLost
  BY DEF AllKept, Kept, NeverLost, QueuedIds, ScratchIds, HasLease

\* What a step has to show: whoever is about to unlink stays settled, and every
\* accepted task keeps a file.
LEMMA StepSafe ==
    ASSUME SafeInv, submitted' = submitted, NoNewPin,
           \A t \in submitted : (\E p \in Proc : Pinned(p, t)) /\ Settled(t) => Settled(t)',
           \A t \in submitted : Kept(t) => Kept(t)'
    PROVE  Backed' /\ AllKept'
  <1>1. Backed'
    <2> SUFFICES ASSUME NEW p \in Proc, NEW t \in submitted, Pinned(p, t)'
                 PROVE  Settled(t)'
      BY DEF Backed
    <2>1. Pinned(p, t)
      BY DEF NoNewPin
    <2>2. Settled(t)
      BY <2>1 DEF SafeInv, Backed
    <2> QED  BY <2>1, <2>2
  <1>2. AllKept'
    BY DEF SafeInv, AllKept
  <1> QED  BY <1>1, <1>2

\* The steps that touch nothing but leases, scratch files and process state.
LEMMA LeaseStepSafe ==
    ASSUME SafeInv, UNCHANGED <<submitted, removed, queue, completed, dead>>, NoNewPin,
           \A t \in submitted : HasLease(t) \/ (\E s \in scratch : s.id = t)
             => Kept(t)'
    PROVE  Backed' /\ AllKept'
  <1>1. \A t \in submitted : Settled(t) => Settled(t)'
    BY DEF Settled
  <1>2. \A t \in submitted : Kept(t) => Kept(t)'
    <2> SUFFICES ASSUME NEW t \in submitted, Kept(t) PROVE Kept(t)'
      OBVIOUS
    <2>1. CASE HasLease(t) \/ (\E s \in scratch : s.id = t)
      BY <2>1
    <2>2. CASE (\E f \in queue : f.id = t) \/ t \in completed \cup dead \cup removed
      BY <2>2 DEF Kept
    <2> QED  BY <2>1, <2>2 DEF Kept
  <1> QED  BY <1>1, <1>2, StepSafe

\* The steps of completeTask and of recovery that write a retry or an archive.
LEMMA WriteStepSafe ==
    ASSUME SafeInv, NEW p \in Proc, NEW t \in submitted, NEW a \in Nat,
           UNCHANGED <<submitted, removed, leased, scratch>>,
           completed \subseteq completed', dead \subseteq dead',
           \/ queue' = QueueWith(t, a, FALSE)
           \/ queue' = queue /\ t \in completed' \cup dead',
           \A q \in Proc : \A u \in submitted : Pinned(q, u)' => Pinned(q, u) \/ u = t
    PROVE  Backed' /\ AllKept'
  <1>1. Settled(t)' /\ \A f \in queue : f.id # t => f \in queue'
    <2>1. CASE queue' = QueueWith(t, a, FALSE)
      <3>1. queue \subseteq QueueFile /\ IsFiniteSet(queue) /\ t \in Task /\ FALSE \in BOOLEAN
        BY DEF SafeInv, TypeInv, TypeOK
      <3>2. /\ \E f \in QueueWith(t, a, FALSE) : f.id = t /\ f.eligible = FALSE
            /\ \A f \in queue : f.id # t => f \in QueueWith(t, a, FALSE)
        BY <3>1, QueueWithType
      <3>3. \E f \in queue' : f.id = t /\ ~f.eligible
        BY <2>1, <3>2
      <3> QED  BY <2>1, <3>2, <3>3 DEF Settled
    <2>2. CASE queue' = queue /\ t \in completed' \cup dead'
      BY <2>2 DEF Settled
    <2> QED  BY <2>1, <2>2
  <1>2. \A u \in submitted : u # t /\ Settled(u) => Settled(u)'
    BY <1>1 DEF Settled
  <1>3. \A u \in submitted : Kept(u)'
    <2>1. ASSUME NEW u \in submitted PROVE Kept(u)'
      <3>1. Kept(u)
        BY DEF SafeInv, AllKept
      <3>2. CASE u = t
        BY <1>1, <3>2 DEF Settled, Kept
      <3>3. CASE u # t
        BY <1>1, <3>1, <3>3 DEF Kept, HasLease
      <3> QED  BY <3>2, <3>3
    <2> QED  BY <2>1
  <1>4. Backed'
    <2> SUFFICES ASSUME NEW q \in Proc, NEW u \in submitted, Pinned(q, u)'
                 PROVE  Settled(u)'
      BY DEF Backed
    <2>1. CASE u = t
      BY <1>1, <2>1
    <2>2. CASE u # t
      BY <1>2, <2>2 DEF SafeInv, Backed
    <2> QED  BY <2>1, <2>2
  <1> QED  BY <1>3, <1>4 DEF AllKept

\* A claim by rename moves a task between leased/ and the scratch files.
LEMMA RenameKeeps ==
    ASSUME SafeInv, NEW ref \in FileRef, ref.id \in submitted, Found(ref),
           NEW kind \in {"claim", "process"}, RenameToScratch(ref, kind)
    PROVE  \A u \in submitted : HasLease(u) \/ (\E s \in scratch : s.id = u) => Kept(u)'
  <1>1. /\ ref.id \in {s.id : s \in scratch'}
        /\ \A t \in Task : t # ref.id => leased'[t] = leased[t]
        /\ \A s \in scratch : s.id # ref.id => s \in scratch'
    BY RenameType DEF SafeInv
  <1>2. submitted \subseteq Task
    BY DEF SafeInv, TypeInv, TypeOK
  <1> QED  BY <1>1, <1>2 DEF Kept, HasLease

\* Nothing is lost before anything was queued.
LEMMA InitSafe == Init => SafeInv
  BY InitType DEF Init, SafeInv, Backed, Pinned, AllKept

\* What the user and the clock do loses no task.
LEMMA EnvironmentSafe == SafeInv /\ Environment => Backed' /\ AllKept'
  <1> SUFFICES ASSUME SafeInv, NEW t \in Task,
                      \/ Enqueue(t) \/ RemovePending(t) \/ BackoffElapses(t)
                      \/ LeaseExpires(t) \/ ScratchExpires(t) \/ GrowsStale(t) \/ Answer(t)
               PROVE  Backed' /\ AllKept'
    BY DEF Environment
  <1> USE DEF fileVars, procVars, faultVars
  <1>1. CASE Enqueue(t)
    <2>1. queue \subseteq QueueFile /\ IsFiniteSet(queue) /\ TRUE \in BOOLEAN /\ 0 \in Nat
      BY DEF SafeInv, TypeInv, TypeOK
    <2>2. /\ \E f \in QueueWith(t, 0, TRUE) : f.id = t /\ f.eligible = TRUE
          /\ \A f \in queue : f.id # t => f \in QueueWith(t, 0, TRUE)
      BY <2>1, QueueWithType
    <2>3. /\ t \notin submitted /\ submitted' = submitted \cup {t}
          /\ \E f \in queue' : f.id = t
          /\ \A f \in queue : f.id # t => f \in queue'
      BY <1>1, <2>2 DEF Enqueue
    <2>4. UNCHANGED <<removed, completed, dead, leased, scratch, pc, session, job>>
      BY <1>1 DEF Enqueue
    <2>5. \A p \in Proc : ~Pinned(p, t)
      BY <2>3, TaskAssumption DEF SafeInv, TypeInv, OnlySubmitted, Pinned
    <2>6. \A u \in submitted : Settled(u) => Settled(u)'
      BY <2>3, <2>4 DEF Settled
    <2>7. AllKept'
      BY <2>3, <2>4 DEF SafeInv, AllKept, Kept, HasLease
    <2>8. Backed'
      BY <2>3, <2>4, <2>5, <2>6 DEF SafeInv, Backed, Pinned
    <2> QED  BY <2>7, <2>8
  <1>2. CASE RemovePending(t)
    <2>1. PICK f \in queue : f.id = t /\ queue' = queue \ {f}
      BY <1>2 DEF RemovePending
    <2>2. /\ removed' = removed \cup {t}
          /\ UNCHANGED <<submitted, completed, dead, leased, scratch, pc, session, job>>
      BY <1>2 DEF RemovePending
    <2>3. \A u \in submitted : Settled(u) => Settled(u)'
      BY <2>1, <2>2 DEF Settled
    <2>4. \A u \in submitted : Kept(u) => Kept(u)'
      BY <2>1, <2>2 DEF Kept, HasLease
    <2>5. NoNewPin
      BY <2>2 DEF NoNewPin, Pinned
    <2> QED  BY <2>2, <2>3, <2>4, <2>5, StepSafe
  <1>3. CASE BackoffElapses(t)
    <2>1. PICK f \in queue :
            f.id = t /\ queue' = (queue \ {f}) \cup {[f EXCEPT !.eligible = TRUE]}
      BY <1>3 DEF BackoffElapses
    <2>2. [f EXCEPT !.eligible = TRUE].id = t
      BY <2>1 DEF SafeInv, TypeInv, TypeOK, QueueFile
    <2>3. UNCHANGED <<submitted, removed, completed, dead, leased, scratch, pc, session, job>>
      BY <1>3 DEF BackoffElapses
    <2>4. \A p \in Proc : ~Pinned(p, t)
      BY <1>3 DEF BackoffElapses, Pinned
    <2>5. \A u \in submitted : u # t /\ Settled(u) => Settled(u)'
      BY <2>1, <2>3 DEF Settled
    <2>6. \A u \in submitted : Kept(u) => Kept(u)'
      BY <2>1, <2>2, <2>3 DEF Kept, HasLease
    <2>7. NoNewPin
      BY <2>3 DEF NoNewPin, Pinned
    <2> QED  BY <2>3, <2>4, <2>5, <2>6, <2>7, StepSafe
  <1>4. CASE LeaseExpires(t)
    <2>1. \A u \in Task : leased'[u].state = leased[u].state
      BY <1>4 DEF LeaseExpires, SafeInv, TypeInv, TypeOK, Record
    <2>2. submitted \subseteq Task
          /\ UNCHANGED <<submitted, removed, queue, completed, dead, scratch, pc, session, job>>
      BY <1>4 DEF LeaseExpires, SafeInv, TypeInv, TypeOK
    <2>3. NoNewPin
      BY <2>2 DEF NoNewPin, Pinned
    <2>4. \A u \in submitted : HasLease(u) \/ (\E s \in scratch : s.id = u) => Kept(u)'
      BY <2>1, <2>2 DEF Kept, HasLease
    <2> QED  BY <2>2, <2>3, <2>4, LeaseStepSafe
  <1>5. CASE ScratchExpires(t)
    <2>1. PICK s \in scratch :
            scratch' = (scratch \ {s}) \cup {[s EXCEPT !.rec.expired = TRUE]}
      BY <1>5 DEF ScratchExpires
    <2>2. [s EXCEPT !.rec.expired = TRUE].id = s.id
      BY DEF SafeInv, TypeInv, TypeOK, Scratch
    <2>3. UNCHANGED <<submitted, removed, queue, completed, dead, leased, pc, session, job>>
      BY <1>5 DEF ScratchExpires
    <2>4. NoNewPin
      BY <2>3 DEF NoNewPin, Pinned
    <2>5. \A u \in submitted : HasLease(u) \/ (\E z \in scratch : z.id = u) => Kept(u)'
      BY <2>1, <2>2, <2>3 DEF Kept, HasLease
    <2> QED  BY <2>3, <2>4, <2>5, LeaseStepSafe
  <1>6. CASE GrowsStale(t) \/ Answer(t)
    <2>1. UNCHANGED <<submitted, removed, queue, completed, dead, leased, scratch,
                     pc, session, job>>
      BY <1>6 DEF GrowsStale, Answer
    <2>2. NoNewPin
      BY <2>1 DEF NoNewPin, Pinned
    <2>3. \A u \in submitted : HasLease(u) \/ (\E s \in scratch : s.id = u) => Kept(u)'
      BY <2>1 DEF Kept, HasLease
    <2> QED  BY <2>1, <2>2, <2>3, LeaseStepSafe
  <1> QED  BY <1>1, <1>2, <1>3, <1>4, <1>5, <1>6

\* No step of the tick loses a task.
LEMMA TickSafe == \A p \in Proc : SafeInv /\ Tick(p) => Backed' /\ AllKept'
  <1> SUFFICES ASSUME SafeInv, NEW p \in Proc, Tick(p) PROVE Backed' /\ AllKept'
    OBVIOUS
  <1> USE DEF fileVars, procVars, faultVars
  <1>1. CASE DequeueClaim(p)
    <2>1. PICK f \in queue : f.eligible /\ queue' = queue \ {f} /\ leased' = LeaseFrom(f)
      BY <1>1 DEF DequeueClaim
    <2>2. /\ UNCHANGED <<submitted, removed, completed, dead, scratch, session>>
          /\ pc' = [pc EXCEPT ![p] = "leasing"]
          /\ \A q \in Proc : q # p => job'[q] = job[q]
      BY <1>1 DEF DequeueClaim, SafeInv, TypeInv, TypeOK
    <2>3. f.id \in Task /\ leased \in [Task -> Record] /\ submitted \subseteq Task
      BY DEF SafeInv, TypeInv, TypeOK, QueueFile
    <2>4. NoNewPin
      BY <2>2 DEF NoNewPin, Pinned, SafeInv, TypeInv, TypeOK
    <2>5. \A t \in submitted : Settled(t) => Settled(t)'
      BY <2>1, <2>2 DEF Settled
    <2>6. leased'[f.id].state = "raw" /\ \A t \in Task : t # f.id => leased'[t] = leased[t]
      BY <2>1, <2>3 DEF LeaseFrom
    <2>7. \A t \in submitted : Kept(t) => Kept(t)'
      BY <2>1, <2>2, <2>3, <2>6 DEF Kept, HasLease
    <2> QED  BY <2>2, <2>4, <2>5, <2>7, StepSafe
  <1>2. CASE LeaseWrite(p)
    <2> DEFINE t == job[p].ref.id
    <2>1. t \in Task /\ leased \in [Task -> Record] /\ submitted \subseteq Task
      BY <1>2 DEF LeaseWrite, SafeInv, TypeInv, TypeOK, OnlySubmitted
    <2>2. UNCHANGED <<submitted, removed, queue, completed, dead, scratch>>
      BY <1>2 DEF LeaseWrite
    <2>3. NoNewPin
      BY <1>2 DEF LeaseWrite, FreeJob, NoNewPin, Pinned, SafeInv, TypeInv, TypeOK
    <2>4. leased'[t].state = "leased" /\ \A u \in Task : u # t => leased'[u] = leased[u]
      BY <1>2, <2>1 DEF LeaseWrite
    <2>5. \A u \in submitted : HasLease(u) \/ (\E s \in scratch : s.id = u) => Kept(u)'
      BY <2>1, <2>2, <2>4 DEF Kept, HasLease
    <2> QED  BY <2>2, <2>3, <2>5, LeaseStepSafe
  <1>3. CASE LeaseWriteThrows(p)
    <2>1. UNCHANGED <<submitted, removed, queue, completed, dead, leased, scratch>>
      BY <1>3 DEF LeaseWriteThrows
    <2>2. NoNewPin
      BY <1>3 DEF LeaseWriteThrows, FreeJob, NoNewPin, Pinned, SafeInv, TypeInv, TypeOK
    <2> QED  BY <2>1, <2>2, LeaseStepSafe DEF Kept, HasLease
  <1>4. ASSUME NEW ok \in BOOLEAN, Finish(p, ok) PROVE Backed' /\ AllKept'
    <2> DEFINE t == session[p]
    <2>1. t \in submitted /\ t \in Task /\ leased[t].attempts \in Nat
      BY <1>4 DEF Finish, SafeInv, TypeInv, TypeOK, OnlySubmitted, Record
    <2>2. /\ UNCHANGED <<submitted, removed, leased, scratch, session, job>>
          /\ completed \subseteq completed' /\ dead \subseteq dead'
          /\ pc' = [pc EXCEPT ![p] = "archived"]
      BY <1>4 DEF Finish
    <2>3. \/ queue' = QueueWith(t, leased[t].attempts, FALSE)
          \/ queue' = queue /\ t \in completed' \cup dead'
      BY <1>4 DEF Finish
    <2>4. \A q \in Proc : \A u \in submitted : Pinned(q, u)' => Pinned(q, u) \/ u = t
      BY <2>2 DEF Pinned, SafeInv, TypeInv, TypeOK
    <2> HIDE DEF t
    <2> QED  BY <2>1, <2>2, <2>3, <2>4, WriteStepSafe
  <1>5. CASE FinishThrows(p)
    <2>1. UNCHANGED <<submitted, removed, queue, completed, dead, leased, scratch>>
      BY <1>5 DEF FinishThrows
    <2>2. NoNewPin
      BY <1>5 DEF FinishThrows, FreeJob, NoNewPin, Pinned, SafeInv, TypeInv, TypeOK
    <2> QED  BY <2>1, <2>2, LeaseStepSafe DEF Kept, HasLease
  <1>6. CASE CompleteUnlink(p)
    <2> DEFINE t == session[p]
    <2>1. t \in submitted /\ t \in Task /\ Pinned(p, t)
      BY <1>6 DEF CompleteUnlink, Pinned, SafeInv, TypeInv, TypeOK, OnlySubmitted
    <2>2. Settled(t)
      BY <2>1 DEF SafeInv, Backed
    <2>3. /\ UNCHANGED <<submitted, removed, queue, completed, dead, scratch>>
          /\ leased' = [leased EXCEPT ![t] = NoFile]
      BY <1>6 DEF CompleteUnlink
    <2>4. NoNewPin
      BY <1>6 DEF CompleteUnlink, NoNewPin, Pinned, SafeInv, TypeInv, TypeOK
    <2>5. \A u \in submitted : HasLease(u) \/ (\E s \in scratch : s.id = u) => Kept(u)'
      BY <2>1, <2>2, <2>3 DEF Kept, HasLease, Settled, SafeInv, TypeInv, TypeOK
    <2> QED  BY <2>3, <2>4, <2>5, LeaseStepSafe
  <1>7. CASE LeaseRenameThrows(p)
    <2>1. PICK f \in queue : queue' = queue \ {f} /\ removed' = removed \cup {f.id}
      BY <1>7 DEF LeaseRenameThrows
    <2>2. UNCHANGED <<submitted, completed, dead, leased, scratch, pc, session, job>>
      BY <1>7 DEF LeaseRenameThrows
    <2>3. \A u \in submitted : Settled(u) => Settled(u)'
      BY <2>1, <2>2 DEF Settled
    <2>4. \A u \in submitted : Kept(u) => Kept(u)'
      BY <2>1, <2>2 DEF Kept, HasLease
    <2>5. NoNewPin
      BY <2>2 DEF NoNewPin, Pinned
    <2> QED  BY <2>2, <2>3, <2>4, <2>5, StepSafe
  <1> QED  BY <1>1, <1>2, <1>3, <1>4, <1>5, <1>6, <1>7 DEF Tick

\* No step of a question does.
LEMMA ElicitSafe == \A p \in Proc : SafeInv /\ Elicit(p) => Backed' /\ AllKept'
  <1> SUFFICES ASSUME SafeInv, NEW p \in Proc, Elicit(p) PROVE Backed' /\ AllKept'
    OBVIOUS
  <1> USE DEF fileVars, procVars, faultVars
  <1>1. CASE Ask(p)
    <2>1. UNCHANGED <<submitted, removed, queue, completed, dead, leased, scratch>>
      BY <1>1 DEF Ask
    <2>2. NoNewPin
      BY <1>1 DEF Ask, FreeJob, NoNewPin, Pinned, SafeInv, TypeInv, TypeOK
    <2> QED  BY <2>1, <2>2, LeaseStepSafe DEF Kept, HasLease
  <1>2. CASE Park(p)
    <2>1. UNCHANGED <<submitted, removed, queue, completed, dead, scratch>>
      BY <1>2 DEF Park
    <2>2. NoNewPin
      BY <1>2 DEF Park, FreeJob, NoNewPin, Pinned, SafeInv, TypeInv, TypeOK
    <2>3. \A u \in Task : HasLease(u) => HasLease(u)'
      BY <1>2 DEF Park, HasLease, Restored, SafeInv, TypeInv, TypeOK, Record
    <2>4. \A u \in submitted : HasLease(u) \/ (\E s \in scratch : s.id = u) => Kept(u)'
      BY <2>1, <2>3 DEF Kept, SafeInv, TypeInv, TypeOK
    <2> QED  BY <2>1, <2>2, <2>4, LeaseStepSafe
  <1>3. ASSUME NEW t \in Task, ExpireHandoff(p, t) PROVE Backed' /\ AllKept'
    <2>1. UNCHANGED <<submitted, removed, queue, completed, dead, leased, scratch>>
      BY <1>3 DEF ExpireHandoff
    <2>2. NoNewPin
      BY <1>3 DEF ExpireHandoff, NoNewPin, Pinned
    <2> QED  BY <2>1, <2>2, LeaseStepSafe DEF Kept, HasLease
  <1>4. CASE Unpark(p)
    <2>1. UNCHANGED <<submitted, removed, queue, completed, dead, scratch>>
      BY <1>4 DEF Unpark
    <2>2. NoNewPin
      BY <1>4 DEF Unpark, FreeJob, NoNewPin, Pinned, SafeInv, TypeInv, TypeOK
    <2>3. \A u \in Task : HasLease(u) => HasLease(u)'
      <3>1. leased' = leased \/ leased' = Restored(unpark[p])
        BY <1>4 DEF Unpark
      <3>2. leased \in [Task -> Record]
        BY DEF SafeInv, TypeInv, TypeOK
      <3>3. CASE leased' = leased
        BY <3>3 DEF HasLease
      <3>4. CASE leased' = [leased EXCEPT ![unpark[p]].state = "leased"]
        BY <3>2, <3>4 DEF HasLease
      <3> QED  BY <3>1, <3>3, <3>4 DEF Restored
    <2>4. \A u \in submitted : HasLease(u) \/ (\E s \in scratch : s.id = u) => Kept(u)'
      BY <2>1, <2>3 DEF Kept, SafeInv, TypeInv, TypeOK
    <2> QED  BY <2>1, <2>2, <2>4, LeaseStepSafe
  <1>5. CASE ReclaimSkip(p)
    <2>1. UNCHANGED <<submitted, removed, queue, completed, dead, leased, scratch>>
      BY <1>5 DEF ReclaimSkip
    <2>2. NoNewPin
      BY <1>5 DEF ReclaimSkip, FreeJob, NoNewPin, Pinned, SafeInv, TypeInv, TypeOK
    <2> QED  BY <2>1, <2>2, LeaseStepSafe DEF Kept, HasLease
  <1>6. CASE ReclaimClaim(p)
    <2> DEFINE t == unpark[p]
    <2>1. t \in submitted /\ t \in Task /\ HasLease(t)
      BY <1>6 DEF ReclaimClaim, SafeInv, TypeInv, TypeOK, OnlySubmitted
    <2>2. LeaseRef(t) \in FileRef /\ LeaseRef(t).id = t /\ Found(LeaseRef(t))
      BY <2>1 DEF LeaseRef, FileRef, Found
    <2>3. /\ RenameToScratch(LeaseRef(t), "claim")
          /\ UNCHANGED <<submitted, removed, queue, completed, dead>>
      BY <1>6 DEF ReclaimClaim
    <2>4. NoNewPin
      BY <1>6 DEF ReclaimClaim, NoNewPin, Pinned, SafeInv, TypeInv, TypeOK
    <2>5. \A u \in submitted : HasLease(u) \/ (\E s \in scratch : s.id = u) => Kept(u)'
      BY <2>1, <2>2, <2>3, RenameKeeps
    <2> QED  BY <2>3, <2>4, <2>5, LeaseStepSafe
  <1> QED  BY <1>1, <1>2, <1>3, <1>4, <1>5, <1>6 DEF Elicit

\* No step of crash recovery does.
LEMMA RecoverSafe == \A p \in Proc : SafeInv /\ Recover(p) => Backed' /\ AllKept'
  <1> SUFFICES ASSUME SafeInv, NEW p \in Proc, Recover(p) PROVE Backed' /\ AllKept'
    OBVIOUS
  <1> USE DEF fileVars, procVars, faultVars
  <1>1. CASE ScanStart(p)
    <2>1. UNCHANGED <<submitted, removed, queue, completed, dead, leased, scratch>>
      BY <1>1 DEF ScanStart
    <2>2. NoNewPin
      BY <1>1 DEF ScanStart, FreeJob, NoNewPin, Pinned, SafeInv, TypeInv, TypeOK
    <2> QED  BY <2>1, <2>2, LeaseStepSafe DEF Kept, HasLease
  <1>2. CASE ScanRead(p)
    <2>1. UNCHANGED <<submitted, removed, queue, completed, dead, leased, scratch>>
      BY <1>2 DEF ScanRead
    <2>2. /\ session' = session /\ \A q \in Proc : q # p => pc'[q] = pc[q] /\ job'[q] = job[q]
          /\ pc'[p] \in {"scan", "scanned"}
      BY <1>2 DEF ScanRead, SafeInv, TypeInv, TypeOK
    <2>3. NoNewPin
      BY <2>2 DEF NoNewPin, Pinned
    <2> QED  BY <2>1, <2>3, LeaseStepSafe DEF Kept, HasLease
  <1>3. CASE ScanClaim(p)
    <2> DEFINE ref == job[p].ref
    <2>1. ref \in FileRef /\ ref.id \in submitted
      BY <1>3 DEF ScanClaim, Job, SafeInv, TypeInv, TypeOK, OnlySubmitted
    <2>2. UNCHANGED <<submitted, removed, queue, completed, dead, session>>
      BY <1>3 DEF ScanClaim
    <2>3. /\ pc'[p] \in {"scan", "claimed"}
          /\ \A q \in Proc : q # p => pc'[q] = pc[q] /\ job'[q] = job[q]
      BY <1>3 DEF ScanClaim, FreeJob, SafeInv, TypeInv, TypeOK
    <2>4. NoNewPin
      BY <2>2, <2>3 DEF NoNewPin, Pinned
    <2>5. \A u \in submitted : HasLease(u) \/ (\E s \in scratch : s.id = u) => Kept(u)'
      <3>1. CASE Found(ref)
        <4>1. RenameToScratch(ref, "claim")
          BY <1>3, <3>1 DEF ScanClaim
        <4> QED  BY <2>1, <3>1, <4>1, RenameKeeps
      <3>2. CASE ~Found(ref)
        BY <1>3, <3>2 DEF ScanClaim, Kept, HasLease
      <3> QED  BY <3>1, <3>2
    <2> QED  BY <2>2, <2>4, <2>5, LeaseStepSafe
  <1>4. CASE RecoverWrite(p)
    <2> DEFINE t == job[p].ref.id
    <2>1. t \in submitted /\ job[p].attempts \in Nat
      BY <1>4 DEF RecoverWrite, Job, SafeInv, TypeInv, TypeOK, OnlySubmitted
    <2>2. /\ UNCHANGED <<submitted, removed, leased, scratch, session, job>>
          /\ completed \subseteq completed' /\ dead \subseteq dead'
          /\ pc' = [pc EXCEPT ![p] = "written"]
      BY <1>4 DEF RecoverWrite
    <2>3. \/ queue' = QueueWith(t, job[p].attempts, FALSE)
          \/ queue' = queue /\ t \in completed' \cup dead'
      BY <1>4 DEF RecoverWrite
    <2>4. \A q \in Proc : \A u \in submitted : Pinned(q, u)' => Pinned(q, u) \/ u = t
      BY <2>2 DEF Pinned, SafeInv, TypeInv, TypeOK
    <2> HIDE DEF t
    <2> QED  BY <2>1, <2>2, <2>3, <2>4, WriteStepSafe
  <1>5. CASE RecoverUnlink(p)
    <2> DEFINE t == job[p].ref.id
    <2>1. t \in submitted /\ Pinned(p, t)
      BY <1>5 DEF RecoverUnlink, Pinned, SafeInv, TypeInv, TypeOK, OnlySubmitted
    <2>2. Settled(t)
      BY <2>1 DEF SafeInv, Backed
    <2>3. /\ UNCHANGED <<submitted, removed, queue, completed, dead, leased, session>>
          /\ scratch' = {s \in scratch : ScratchRef(s) # job[p].ref}
      BY <1>5 DEF RecoverUnlink
    <2>4. /\ pc'[p] \in {"scan", "claims", "idle"}
          /\ \A q \in Proc : q # p => pc'[q] = pc[q] /\ job'[q] = job[q]
      BY <1>5 DEF RecoverUnlink, FreeJob, SafeInv, TypeInv, TypeOK
    <2>5. NoNewPin
      BY <2>3, <2>4 DEF NoNewPin, Pinned
    <2>6. \A s \in scratch : s.id # t => s \in scratch'
      BY <2>3 DEF ScratchRef
    <2>7. \A u \in submitted : HasLease(u) \/ (\E s \in scratch : s.id = u) => Kept(u)'
      BY <2>2, <2>3, <2>6 DEF Kept, HasLease, Settled
    <2> QED  BY <2>3, <2>5, <2>7, LeaseStepSafe
  <1>6. CASE RecoverThrows(p)
    <2>1. UNCHANGED <<submitted, removed, queue, completed, dead, leased, scratch>>
      BY <1>6 DEF RecoverThrows
    <2>2. NoNewPin
      BY <1>6 DEF RecoverThrows, FreeJob, NoNewPin, Pinned, SafeInv, TypeInv, TypeOK
    <2> QED  BY <2>1, <2>2, LeaseStepSafe DEF Kept, HasLease
  <1>7. CASE ClaimsStart(p)
    <2>1. UNCHANGED <<submitted, removed, queue, completed, dead, leased, scratch>>
      BY <1>7 DEF ClaimsStart
    <2>2. NoNewPin
      BY <1>7 DEF ClaimsStart, FreeJob, NoNewPin, Pinned, SafeInv, TypeInv, TypeOK
    <2> QED  BY <2>1, <2>2, LeaseStepSafe DEF Kept, HasLease
  <1>8. CASE ClaimTake(p)
    <2>1. PICK ref \in todo[p] :
            /\ Found(ref) => RenameToScratch(ref, "process")
            /\ ~Found(ref) => UNCHANGED <<scratch, leased>>
            /\ \A q \in Proc : q # p => pc'[q] = pc[q] /\ job'[q] = job[q]
            /\ pc'[p] \in {"claims", "restore", "claimed"}
      BY <1>8 DEF ClaimTake, SafeInv, TypeInv, TypeOK
    <2>2. ref \in FileRef /\ ref.id \in submitted
      BY DEF SafeInv, TypeInv, TypeOK, OnlySubmitted
    <2>3. UNCHANGED <<submitted, removed, queue, completed, dead, session>>
      BY <1>8 DEF ClaimTake
    <2>4. NoNewPin
      BY <2>1, <2>3 DEF NoNewPin, Pinned
    <2>5. \A u \in submitted : HasLease(u) \/ (\E s \in scratch : s.id = u) => Kept(u)'
      <3>1. CASE Found(ref)
        BY <2>1, <2>2, <3>1, RenameKeeps
      <3>2. CASE ~Found(ref)
        BY <2>1, <2>3, <3>2 DEF Kept, HasLease
      <3> QED  BY <3>1, <3>2
    <2> QED  BY <2>3, <2>4, <2>5, LeaseStepSafe
  <1>9. CASE ClaimRestore(p)
    <2> DEFINE ref == job[p].ref
    <2>1. ref \in FileRef /\ ref.id \in submitted /\ ref.id \in Task
      BY <1>9 DEF ClaimRestore, Job, SafeInv, TypeInv, TypeOK, OnlySubmitted
    <2>2. UNCHANGED <<submitted, removed, queue, completed, dead, session>>
      BY <1>9 DEF ClaimRestore
    <2>3. NoNewPin
      BY <1>9 DEF ClaimRestore, FreeJob, NoNewPin, Pinned, SafeInv, TypeInv, TypeOK
    <2>4. \A u \in submitted : HasLease(u) \/ (\E s \in scratch : s.id = u) => Kept(u)'
      <3>1. CASE Found(ref)
        <4>1. Content(ref).state # "none"
          BY <2>1, <3>1, ContentType DEF SafeInv, TypeInv
        <4>2. leased' = [leased EXCEPT ![ref.id] = Content(ref)]
              /\ scratch' = {s \in scratch : ScratchRef(s) # ref}
          BY <1>9, <3>1 DEF ClaimRestore
        <4>3. leased \in [Task -> Record] /\ submitted \subseteq Task
          BY DEF SafeInv, TypeInv, TypeOK
        <4>4. leased'[ref.id].state # "none"
              /\ \A u \in Task : u # ref.id => leased'[u] = leased[u]
          BY <2>1, <4>1, <4>2, <4>3
        <4>5. \A s \in scratch : s.id # ref.id => s \in scratch'
          BY <4>2 DEF ScratchRef
        <4> QED  BY <4>3, <4>4, <4>5 DEF Kept, HasLease
      <3>2. CASE ~Found(ref)
        BY <1>9, <3>2 DEF ClaimRestore, Kept, HasLease
      <3> QED  BY <3>1, <3>2
    <2> QED  BY <2>2, <2>3, <2>4, LeaseStepSafe
  <1>10. CASE ClaimsDone(p)
    <2>1. UNCHANGED <<submitted, removed, queue, completed, dead, leased, scratch>>
      BY <1>10 DEF ClaimsDone
    <2>2. NoNewPin
      BY <1>10 DEF ClaimsDone, FreeJob, NoNewPin, Pinned, SafeInv, TypeInv, TypeOK
    <2> QED  BY <2>1, <2>2, LeaseStepSafe DEF Kept, HasLease
  <1> QED  BY <1>1, <1>2, <1>3, <1>4, <1>5, <1>6, <1>7, <1>8, <1>9, <1>10 DEF Recover

\* Neither does a start or a crash.
LEMMA LifecycleSafe == \A p \in Proc : 
    SafeInv /\ (StartDaemon(p) \/ Crash(p)) => Backed' /\ AllKept'
  <1> SUFFICES ASSUME SafeInv, NEW p \in Proc, (StartDaemon(p) \/ Crash(p)) PROVE Backed' /\ AllKept'
    OBVIOUS
  <1> USE DEF fileVars, procVars, faultVars
  <1>1. CASE StartDaemon(p)
    <2>1. UNCHANGED <<submitted, removed, queue, completed, dead, leased, scratch>>
      BY <1>1 DEF StartDaemon
    <2>2. NoNewPin
      BY <1>1 DEF StartDaemon, FreeJob, NoNewPin, Pinned, SafeInv, TypeInv, TypeOK
    <2> QED  BY <2>1, <2>2, LeaseStepSafe DEF Kept, HasLease
  <1>2. CASE Crash(p)
    <2>1. UNCHANGED <<submitted, removed, queue, completed, dead, leased, scratch>>
      BY <1>2 DEF Crash
    <2>2. NoNewPin
      BY <1>2 DEF Crash, FreeJob, NoNewPin, Pinned, SafeInv, TypeInv, TypeOK
    <2> QED  BY <2>1, <2>2, LeaseStepSafe DEF Kept, HasLease
  <1> QED  BY <1>1, <1>2

\* No step does.
LEMMA NextSafe == SafeInv /\ [Next]_vars => SafeInv'
  <1> SUFFICES ASSUME SafeInv, [Next]_vars PROVE SafeInv'
    OBVIOUS
  <1>1. TypeInv'
    BY StepType DEF SafeInv
  <1>2. CASE Environment
    BY <1>1, <1>2, EnvironmentSafe DEF SafeInv
  <1>3. ASSUME NEW p \in Proc,
               Tick(p) \/ Elicit(p) \/ Recover(p) \/ StartDaemon(p) \/ Crash(p)
        PROVE  SafeInv'
    BY <1>1, <1>3, TickSafe, ElicitSafe, RecoverSafe, LifecycleSafe DEF SafeInv
  <1>4. CASE UNCHANGED vars
    <2>1. Backed' /\ AllKept'
      BY <1>4 DEF vars, fileVars, procVars, faultVars, SafeInv, Backed, Pinned, Settled,
                  AllKept, Kept, HasLease
    <2> QED  BY <1>1, <2>1 DEF SafeInv
  <1> QED  BY <1>2, <1>3, <1>4 DEF Next

\* However many daemons share the queue directory, whatever they do at the same
\* time and wherever they die or fail to write, the queue and lease code keeps a
\* file for every accepted task that no operator removed.
THEOREM NoTaskLost == Spec => []NeverLost
  <1>1. Spec => []SafeInv
    BY InitSafe, NextSafe, PTL DEF Spec
  <1>2. SafeInv => NeverLost
    BY AllKeptIsNeverLost DEF SafeInv
  <1> QED  BY <1>1, <1>2, PTL

-----------------------------------------------------------------------------
(* The retry budget.  A record travels through listings, `job` and scratch   *)
(* files, so the invariant also says which scratch file a name stands for.   *)

\* The name in a reference is old, and a scratch file of that name has its id.
RefFits(ref) ==
    ref.kind # "lease" =>
        /\ ref.name < names
        /\ \A s \in scratch : s.name = ref.name => s.id = ref.id

NamesFit ==
    /\ \A s \in scratch : s.name < names
    /\ \A s, z \in scratch : s.name = z.name => s.id = z.id
    /\ \A p \in Proc : \A ref \in todo[p] : RefFits(ref)
    /\ \A p \in Proc : pc[p] \in {"scanned", "restore"} => RefFits(job[p].ref)

\* A task that is about to be leased has an attempt left.
LeasingFits ==
    \A p \in Proc : pc[p] = "leasing" => job[p].attempts < Budget[job[p].ref.id]

BudgetInv == TypeInv /\ AttemptsWithinBudget /\ NamesFit /\ LeasingFits

\* What a read finds is within the budget of the id it was listed under.
LEMMA ContentWithinBudget ==
    ASSUME BudgetInv, NEW ref \in FileRef, ref.id \in Task, Found(ref), RefFits(ref)
    PROVE  Content(ref).attempts <= Budget[ref.id] /\ Content(ref).attempts \in Nat
  <1>1. CASE ref.kind = "lease"
    BY <1>1 DEF BudgetInv, TypeInv, TypeOK, Content, AttemptsWithinBudget, Record
  <1>2. CASE ref.kind # "lease"
    <2> DEFINE s == CHOOSE z \in scratch : z.name = ref.name
    <2>1. s \in scratch /\ s.name = ref.name
      BY <1>2 DEF Found
    <2>2. s.id = ref.id /\ Content(ref) = s.rec
      BY <1>2, <2>1 DEF RefFits, Content
    <2> HIDE DEF s
    <2> QED  BY <2>1, <2>2 DEF BudgetInv, TypeInv, TypeOK, AttemptsWithinBudget, Scratch, Record
  <1> QED  BY <1>1, <1>2

\* A queue file that is written with an attempt left keeps the queue within budget.
LEMMA QueueWithinBudget ==
    ASSUME AttemptsWithinBudget, NEW t \in Task, NEW a \in Nat, NEW e \in BOOLEAN,
           MayRetry(t, a)
    PROVE  \A f \in QueueWith(t, a, e) : f.attempts < Budget[f.id]
  BY DEF QueueWith, MayRetry, AttemptsWithinBudget

\* Renaming to a new scratch name keeps files, names and listings in order.
LEMMA RenameFits ==
    ASSUME BudgetInv, NEW ref \in FileRef, ref.id \in Task, Found(ref), RefFits(ref),
           NEW kind \in {"claim", "process"}, RenameToScratch(ref, kind)
    PROVE  /\ \A t \in Task : leased'[t].attempts <= Budget[t]
           /\ \A s \in scratch' : s.rec.attempts <= Budget[s.id]
           /\ \A s \in scratch' : s.name < names'
           /\ \A s, z \in scratch' : s.name = z.name => s.id = z.id
           /\ \A r \in FileRef : RefFits(r) => RefFits(r)'
           /\ \A k, n : n = names => RefFits([kind |-> k, id |-> ref.id, name |-> n])'
  <1> DEFINE new == [name |-> names, kind |-> kind, id |-> ref.id, rec |-> Content(ref)]
  <1>1. /\ scratch' \subseteq scratch \cup {new} /\ names' = names + 1
        /\ leased' = leased \/ leased' = [leased EXCEPT ![ref.id] = NoFile]
    BY DEF RenameToScratch
  <1>2. new.name = names /\ new.id = ref.id /\ new.rec.attempts <= Budget[ref.id]
    BY ContentWithinBudget
  <1>3. names \in Nat /\ scratch \subseteq Scratch /\ leased \in [Task -> Record]
    BY DEF BudgetInv, TypeInv, TypeOK
  <1>4. \A s \in scratch : s.name < names /\ s.name \in Nat
    BY <1>3 DEF BudgetInv, NamesFit, Scratch
  <1>5. \A s \in scratch' : s \in scratch \/ s = new
    BY <1>1
  <1> HIDE DEF new
  <1>6. \A t \in Task : leased'[t].attempts <= Budget[t]
    BY <1>1, <1>3, BudgetAssumption DEF NoFile, BudgetInv, AttemptsWithinBudget
  <1>7. \A s \in scratch' : s.rec.attempts <= Budget[s.id]
    BY <1>2, <1>5 DEF BudgetInv, AttemptsWithinBudget
  <1>8. \A s \in scratch' : s.name < names'
    BY <1>1, <1>2, <1>3, <1>4, <1>5
  <1>9. \A s, z \in scratch' : s.name = z.name => s.id = z.id
    BY <1>2, <1>3, <1>4, <1>5 DEF BudgetInv, NamesFit
  <1>10. \A r \in FileRef : RefFits(r) => RefFits(r)'
    BY <1>1, <1>2, <1>3, <1>5 DEF RefFits, FileRef
  <1>11. \A k, n : n = names => RefFits([kind |-> k, id |-> ref.id, name |-> n])'
    BY <1>1, <1>2, <1>3, <1>4, <1>5 DEF RefFits
  <1> QED  BY <1>6, <1>7, <1>8, <1>9, <1>10, <1>11

\* So a rename leaves the invariant as it is, if the process that made it goes on
\* with the new name, or with a name it had.
LEMMA RenameBudget ==
    ASSUME BudgetInv, TypeInv', NEW p \in Proc, NEW ref \in FileRef, ref.id \in Task,
           Found(ref), RefFits(ref),
           NEW kind \in {"claim", "process"}, RenameToScratch(ref, kind), queue' = queue,
           \A q \in Proc : \A r \in todo'[q] : r \in todo[q],
           \A q \in Proc : q # p => pc'[q] = pc[q] /\ job'[q] = job[q],
           pc'[p] # "leasing", pc'[p] # "scanned",
           pc'[p] = "restore" =>
             \E n : n = names /\ job'[p].ref = [kind |-> kind, id |-> ref.id, name |-> n]
    PROVE  BudgetInv'
  <1>1. /\ \A t \in Task : leased'[t].attempts <= Budget[t]
        /\ \A s \in scratch' : s.rec.attempts <= Budget[s.id]
        /\ \A s \in scratch' : s.name < names'
        /\ \A s, z \in scratch' : s.name = z.name => s.id = z.id
        /\ \A r \in FileRef : RefFits(r) => RefFits(r)'
        /\ \A k, n : n = names => RefFits([kind |-> k, id |-> ref.id, name |-> n])'
    BY RenameFits
  <1>2. AttemptsWithinBudget'
    BY <1>1 DEF BudgetInv, AttemptsWithinBudget
  <1>3. LeasingFits'
    BY DEF BudgetInv, LeasingFits
  <1>4. /\ \A q \in Proc : \A r \in todo[q] : r \in FileRef
        /\ \A q \in Proc : job[q].ref \in FileRef
    BY DEF BudgetInv, TypeInv, TypeOK, Job
  <1>5. \A q \in Proc : \A r \in todo'[q] : RefFits(r)'
    BY <1>1, <1>4 DEF BudgetInv, NamesFit
  <1>6. ASSUME NEW q \in Proc, pc'[q] \in {"scanned", "restore"}, NEW r, r = job'[q].ref
        PROVE  RefFits(r)'
    <2>1. CASE q = p
      BY <1>1, <1>6, <2>1
    <2>2. CASE q # p
      <3>1. r \in FileRef /\ RefFits(r)
        BY <1>4, <1>6, <2>2 DEF BudgetInv, NamesFit
      <3> QED  BY <1>1, <3>1
    <2> QED  BY <2>1, <2>2
  <1>7. NamesFit'
    BY <1>1, <1>5, <1>6 DEF NamesFit
  <1> QED  BY <1>2, <1>3, <1>7 DEF BudgetInv

\* What leaves the scratch files and their names alone leaves listings in order.
LEMMA SameNames ==
    ASSUME BudgetInv, UNCHANGED <<scratch, names>>,
           \A p \in Proc : \A ref \in todo'[p] : ref \in todo[p],
           \A p \in Proc : pc'[p] \in {"scanned", "restore"} =>
                             pc[p] = pc'[p] /\ job'[p] = job[p]
    PROVE  NamesFit'
  <1>1. \A ref : RefFits(ref) => RefFits(ref)'
    BY DEF RefFits
  <1> QED  BY <1>1 DEF BudgetInv, NamesFit

\* The budget after a step that moves no record.
LEMMA SameRecords ==
    ASSUME BudgetInv, TypeInv', UNCHANGED <<queue, leased, scratch, names>>,
           \A p \in Proc : \A ref \in todo'[p] : ref \in todo[p],
           \A p \in Proc : pc'[p] \in {"scanned", "restore", "leasing"} =>
                             pc[p] = pc'[p] /\ job'[p] = job[p]
    PROVE  BudgetInv'
  <1>1. NamesFit'
    BY SameNames
  <1>2. AttemptsWithinBudget'
    BY DEF BudgetInv, AttemptsWithinBudget
  <1>3. LeasingFits'
    BY DEF BudgetInv, LeasingFits
  <1> QED  BY <1>1, <1>2, <1>3 DEF BudgetInv

\* A new listing names files that are there.
LEMMA ListingBudget ==
    ASSUME BudgetInv, TypeInv', NEW p \in Proc, UNCHANGED <<queue, leased, scratch, names, job>>,
           \A ref \in todo'[p] : RefFits(ref),
           \A q \in Proc : q # p => todo'[q] = todo[q],
           NEW at \in {"scan", "claims"}, pc' = [pc EXCEPT ![p] = at]
    PROVE  BudgetInv'
  <1> pc \in [Proc -> Section]
    BY DEF BudgetInv, TypeInv, TypeOK
  <1>1. \A ref : RefFits(ref) => RefFits(ref)'
    BY DEF RefFits
  <1>2. NamesFit'
    BY <1>1 DEF BudgetInv, NamesFit
  <1>3. AttemptsWithinBudget' /\ LeasingFits'
    BY DEF BudgetInv, AttemptsWithinBudget, LeasingFits
  <1> QED  BY <1>2, <1>3 DEF BudgetInv

\* A scratch file less is no harm.
LEMMA FewerRecords ==
    ASSUME BudgetInv, TypeInv', NEW p \in Proc, UNCHANGED <<queue, names, todo>>,
           scratch' \subseteq scratch, \A t \in Task : leased'[t].attempts <= Budget[t],
           \A q \in Proc : q # p => job'[q] = job[q] /\ pc'[q] = pc[q],
           pc'[p] \in {"scan", "claims", "idle"}
    PROVE  BudgetInv'
  <1>1. \A ref : RefFits(ref) => RefFits(ref)'
    BY DEF RefFits
  <1>2. NamesFit'
    BY <1>1 DEF BudgetInv, NamesFit
  <1>3. AttemptsWithinBudget' /\ LeasingFits'
    BY DEF BudgetInv, AttemptsWithinBudget, LeasingFits
  <1> QED  BY <1>2, <1>3 DEF BudgetInv

\* A new task starts with no attempt; the clock counts none.
LEMMA EnvironmentBudget == BudgetInv /\ TypeInv' /\ Environment => BudgetInv'
  <1> SUFFICES ASSUME BudgetInv, TypeInv', NEW t \in Task,
                      \/ Enqueue(t) \/ RemovePending(t) \/ BackoffElapses(t)
                      \/ LeaseExpires(t) \/ ScratchExpires(t) \/ GrowsStale(t) \/ Answer(t)
               PROVE  BudgetInv'
    BY DEF Environment
  <1> USE DEF procVars, fileVars
  <1>1. LeasingFits' /\ UNCHANGED <<names, todo, pc, job>>
    BY DEF Enqueue, RemovePending, BackoffElapses, LeaseExpires, ScratchExpires, GrowsStale, Answer,
           BudgetInv, LeasingFits
  <1>2. CASE Enqueue(t)
    <2>1. MayRetry(t, 0) /\ 0 \in Nat /\ TRUE \in BOOLEAN
      BY BudgetAssumption DEF MayRetry
    <2>2. \A f \in QueueWith(t, 0, TRUE) : f.attempts < Budget[f.id]
      BY <2>1, QueueWithinBudget DEF BudgetInv
    <2>3. AttemptsWithinBudget'
      BY <1>2, <2>2 DEF Enqueue, BudgetInv, AttemptsWithinBudget
    <2>4. NamesFit'
      BY <1>1, <1>2, SameNames DEF Enqueue
    <2> QED  BY <1>1, <2>3, <2>4 DEF BudgetInv
  <1>3. CASE RemovePending(t)
    <2>1. AttemptsWithinBudget'
      BY <1>3 DEF RemovePending, BudgetInv, AttemptsWithinBudget
    <2>2. NamesFit'
      BY <1>1, <1>3, SameNames DEF RemovePending
    <2> QED  BY <1>1, <2>1, <2>2 DEF BudgetInv
  <1>4. CASE BackoffElapses(t)
    <2>1. PICK f \in queue : queue' = (queue \ {f}) \cup {[f EXCEPT !.eligible = TRUE]}
      BY <1>4 DEF BackoffElapses
    <2>2. f \in QueueFile /\ f.attempts < Budget[f.id]
      BY DEF BudgetInv, TypeInv, TypeOK, AttemptsWithinBudget
    <2>3. \A g \in queue' : g.attempts < Budget[g.id]
      BY <2>1, <2>2 DEF QueueFile, BudgetInv, AttemptsWithinBudget
    <2>4. AttemptsWithinBudget'
      BY <1>4, <2>3 DEF BackoffElapses, BudgetInv, AttemptsWithinBudget
    <2>5. NamesFit'
      BY <1>1, <1>4, SameNames DEF BackoffElapses
    <2> QED  BY <1>1, <2>4, <2>5 DEF BudgetInv
  <1>5. CASE LeaseExpires(t)
    <2>1. \A u \in Task : leased'[u].attempts = leased[u].attempts
      BY <1>5 DEF LeaseExpires, BudgetInv, TypeInv, TypeOK, Record
    <2>2. AttemptsWithinBudget'
      BY <1>5, <2>1 DEF LeaseExpires, BudgetInv, AttemptsWithinBudget
    <2>3. NamesFit'
      BY <1>1, <1>5, SameNames DEF LeaseExpires
    <2> QED  BY <1>1, <2>2, <2>3 DEF BudgetInv
  <1>6. CASE ScratchExpires(t)
    <2>1. PICK s \in scratch :
            scratch' = (scratch \ {s}) \cup {[s EXCEPT !.rec.expired = TRUE]}
      BY <1>6 DEF ScratchExpires
    <2> DEFINE new == [s EXCEPT !.rec.expired = TRUE]
    <2>2. new.id = s.id /\ new.name = s.name /\ new.rec.attempts = s.rec.attempts
      BY DEF BudgetInv, TypeInv, TypeOK, Scratch, Record
    <2> HIDE DEF new
    <2>3. \A z \in scratch' : \E y \in scratch :
            z.id = y.id /\ z.name = y.name /\ z.rec.attempts = y.rec.attempts
      BY <2>1, <2>2 DEF new
    <2>4. AttemptsWithinBudget'
      BY <1>6, <2>3 DEF ScratchExpires, BudgetInv, AttemptsWithinBudget
    <2>5. NamesFit'
      <3>1. \A ref : RefFits(ref) => RefFits(ref)'
        BY <1>1, <2>3 DEF RefFits
      <3> QED  BY <1>1, <2>3, <3>1 DEF BudgetInv, NamesFit
    <2> QED  BY <1>1, <2>4, <2>5 DEF BudgetInv
  <1>7. CASE GrowsStale(t) \/ Answer(t)
    BY <1>7, SameRecords DEF GrowsStale, Answer
  <1> QED  BY <1>2, <1>3, <1>4, <1>5, <1>6, <1>7

\* An attempt is counted when the lease is written, from one that was left.
LEMMA TickBudget == \A p \in Proc : BudgetInv /\ TypeInv' /\ Tick(p) => BudgetInv'
  <1> SUFFICES ASSUME BudgetInv, TypeInv', NEW p \in Proc, Tick(p) PROVE BudgetInv'
    OBVIOUS
  <1> USE DEF procVars, fileVars
  <1> job \in [Proc -> Job] /\ pc \in [Proc -> Section] /\ leased \in [Task -> Record]
    BY DEF BudgetInv, TypeInv, TypeOK
  <1>1. CASE DequeueClaim(p)
    <2>1. PICK f \in queue :
            /\ queue' = queue \ {f} /\ leased' = LeaseFrom(f)
            /\ job' = [job EXCEPT ![p] =
                 [ref |-> LeaseRef(f.id), attempts |-> f.attempts, pass |-> "first"]]
      BY <1>1 DEF DequeueClaim
    <2>2. f.attempts < Budget[f.id] /\ f.attempts \in Nat /\ f.id \in Task
      BY DEF BudgetInv, AttemptsWithinBudget, TypeInv, TypeOK, QueueFile
    <2>3. \A t \in Task : leased'[t].attempts <= Budget[t]
      <3>1. /\ leased'[f.id].attempts = f.attempts
            /\ \A t \in Task : t # f.id => leased'[t] = leased[t]
        BY <2>1, <2>2 DEF LeaseFrom
      <3>2. f.attempts <= Budget[f.id]
        BY <2>2, BudgetAssumption
      <3> QED  BY <3>1, <3>2 DEF BudgetInv, AttemptsWithinBudget
    <2>4. AttemptsWithinBudget'
      BY <1>1, <2>1, <2>3 DEF DequeueClaim, BudgetInv, AttemptsWithinBudget
    <2>5. /\ \A q \in Proc : q # p => job'[q] = job[q] /\ pc'[q] = pc[q]
          /\ job'[p].attempts = f.attempts /\ job'[p].ref.id = f.id /\ pc'[p] = "leasing"
      BY <1>1, <2>1 DEF DequeueClaim, LeaseRef
    <2>6. LeasingFits'
      BY <2>2, <2>5 DEF BudgetInv, LeasingFits
    <2>7. NamesFit'
      BY <1>1, <2>5, SameNames DEF DequeueClaim
    <2> QED  BY <2>4, <2>6, <2>7 DEF BudgetInv
  <1>2. CASE LeaseWrite(p)
    <2> DEFINE t == job[p].ref.id
    <2>1. t \in Task /\ job[p].attempts \in Nat /\ job[p].attempts < Budget[t]
      BY <1>2, TaskAssumption DEF LeaseWrite, Job, BudgetInv, TypeInv, OnlySubmitted, TypeOK, LeasingFits
    <2>2. \A u \in Task : leased'[u].attempts <= Budget[u]
      <3>1. /\ leased'[t].attempts = job[p].attempts + 1
            /\ \A u \in Task : u # t => leased'[u] = leased[u]
        BY <1>2, <2>1 DEF LeaseWrite, NextAttempt
      <3>2. job[p].attempts + 1 <= Budget[t]
        BY <2>1, BudgetAssumption
      <3> HIDE DEF t
      <3> QED  BY <3>1, <3>2 DEF BudgetInv, AttemptsWithinBudget
    <2>3. AttemptsWithinBudget'
      BY <1>2, <2>2 DEF LeaseWrite, BudgetInv, AttemptsWithinBudget
    <2>4. /\ \A q \in Proc : q # p => job'[q] = job[q] /\ pc'[q] = pc[q]
          /\ pc'[p] = "idle"
      BY <1>2 DEF LeaseWrite, FreeJob
    <2>5. LeasingFits'
      BY <2>4 DEF BudgetInv, LeasingFits
    <2>6. NamesFit'
      BY <1>2, <2>4, SameNames DEF LeaseWrite
    <2> QED  BY <2>3, <2>5, <2>6 DEF BudgetInv
  <1>3. CASE LeaseWriteThrows(p)
    <2>1. /\ \A q \in Proc : q # p => job'[q] = job[q] /\ pc'[q] = pc[q]
          /\ pc'[p] = "idle"
      BY <1>3 DEF LeaseWriteThrows, FreeJob
    <2> QED  BY <1>3, <2>1, SameRecords DEF LeaseWriteThrows
  <1>4. ASSUME NEW ok \in BOOLEAN, Finish(p, ok) PROVE BudgetInv'
    <2> DEFINE t == session[p]
    <2>1. t \in Task /\ leased[t].attempts \in Nat
      BY <1>4 DEF Finish, Record, BudgetInv, TypeInv, TypeOK
    <2>2. \/ queue' = queue
          \/ MayRetry(t, leased[t].attempts) /\ queue' = QueueWith(t, leased[t].attempts, FALSE)
      BY <1>4 DEF Finish
    <2>3. \A f \in queue' : f.attempts < Budget[f.id]
      <3>1. CASE queue' = queue
        BY <3>1 DEF BudgetInv, AttemptsWithinBudget
      <3>2. CASE MayRetry(t, leased[t].attempts) /\ queue' = QueueWith(t, leased[t].attempts, FALSE)
        <4>1. FALSE \in BOOLEAN /\ AttemptsWithinBudget
          BY DEF BudgetInv
        <4> HIDE DEF t
        <4> QED  BY <2>1, <3>2, <4>1, QueueWithinBudget
      <3> QED  BY <2>2, <3>1, <3>2
    <2>4. AttemptsWithinBudget'
      BY <1>4, <2>3 DEF Finish, BudgetInv, AttemptsWithinBudget
    <2>5. UNCHANGED <<scratch, names, todo, job>> /\ pc' = [pc EXCEPT ![p] = "archived"]
      BY <1>4 DEF Finish
    <2>6. LeasingFits'
      BY <2>5 DEF BudgetInv, LeasingFits
    <2>7. NamesFit'
      BY <2>5, SameNames
    <2> QED  BY <2>4, <2>6, <2>7 DEF BudgetInv
  <1>5. CASE FinishThrows(p)
    BY <1>5, SameRecords DEF FinishThrows
  <1>6. CASE CompleteUnlink(p)
    <2>1. \A t \in Task : leased'[t].attempts <= Budget[t]
      <3>1. \A t \in Task : leased'[t] = leased[t] \/ leased'[t] = NoFile
        BY <1>6 DEF CompleteUnlink
      <3>2. \A t \in Task : NoFile.attempts <= Budget[t]
        BY BudgetAssumption DEF NoFile
      <3> QED  BY <3>1, <3>2 DEF BudgetInv, AttemptsWithinBudget
    <2>2. AttemptsWithinBudget'
      BY <1>6, <2>1 DEF CompleteUnlink, BudgetInv, AttemptsWithinBudget
    <2>3. UNCHANGED <<scratch, names, todo, job>> /\ pc' = [pc EXCEPT ![p] = "idle"]
      BY <1>6 DEF CompleteUnlink
    <2>4. LeasingFits'
      BY <2>3 DEF BudgetInv, LeasingFits
    <2>5. NamesFit'
      BY <2>3, SameNames
    <2> QED  BY <2>2, <2>4, <2>5 DEF BudgetInv
  <1>7. CASE LeaseRenameThrows(p)
    <2>1. AttemptsWithinBudget'
      BY <1>7 DEF LeaseRenameThrows, BudgetInv, AttemptsWithinBudget
    <2>2. LeasingFits'
      BY <1>7 DEF LeaseRenameThrows, BudgetInv, LeasingFits
    <2>3. NamesFit'
      BY <1>7, SameNames DEF LeaseRenameThrows
    <2> QED  BY <2>1, <2>2, <2>3 DEF BudgetInv
  <1> QED  BY <1>1, <1>2, <1>3, <1>4, <1>5, <1>6, <1>7 DEF Tick

\* A question parks and takes back a record as it is.
LEMMA ElicitBudget == \A p \in Proc : BudgetInv /\ TypeInv' /\ Elicit(p) => BudgetInv'
  <1> SUFFICES ASSUME BudgetInv, TypeInv', NEW p \in Proc, Elicit(p) PROVE BudgetInv'
    OBVIOUS
  <1> USE DEF procVars, fileVars
  <1> job \in [Proc -> Job] /\ pc \in [Proc -> Section] /\ leased \in [Task -> Record]
    BY DEF BudgetInv, TypeInv, TypeOK
  <1>1. CASE Ask(p)
    BY <1>1, SameRecords DEF Ask
  <1>2. CASE Park(p)
    <2>1. \A t \in Task : leased'[t].attempts = leased[t].attempts
      BY <1>2 DEF Park, Record
    <2>2. AttemptsWithinBudget'
      BY <1>2, <2>1 DEF Park, BudgetInv, AttemptsWithinBudget
    <2>3. LeasingFits'
      BY <1>2 DEF Park, BudgetInv, LeasingFits
    <2>4. NamesFit'
      BY <1>2, SameNames DEF Park
    <2> QED  BY <2>2, <2>3, <2>4 DEF BudgetInv
  <1>3. ASSUME NEW t \in Task, ExpireHandoff(p, t) PROVE BudgetInv'
    BY <1>3, SameRecords DEF ExpireHandoff
  <1>4. CASE Unpark(p)
    <2>1. \A t \in Task : leased'[t].attempts = leased[t].attempts
      BY <1>4 DEF Unpark, Restored, Record
    <2>2. AttemptsWithinBudget'
      BY <1>4, <2>1 DEF Unpark, BudgetInv, AttemptsWithinBudget
    <2>3. /\ UNCHANGED <<scratch, names, todo, job>>
          /\ pc' = pc \/ pc' = [pc EXCEPT ![p] = "reclaim"]
      BY <1>4 DEF Unpark
    <2>4. LeasingFits'
      BY <2>3 DEF BudgetInv, LeasingFits
    <2>5. NamesFit'
      BY <2>3, SameNames
    <2> QED  BY <2>2, <2>4, <2>5 DEF BudgetInv
  <1>5. CASE ReclaimSkip(p)
    <2>1. pc' = [pc EXCEPT ![p] = "idle"]
      BY <1>5 DEF ReclaimSkip
    <2> QED  BY <1>5, <2>1, SameRecords DEF ReclaimSkip
  <1>6. CASE ReclaimClaim(p)
    <2> DEFINE t == unpark[p]
    <2>1. /\ RenameToScratch(LeaseRef(t), "claim") /\ HasLease(t)
          /\ pc' = [pc EXCEPT ![p] = "claimed"] /\ UNCHANGED <<queue, todo>>
          /\ \A q \in Proc : q # p => job'[q] = job[q]
      BY <1>6 DEF ReclaimClaim
    <2>2. t \in Task
      BY <1>6 DEF ReclaimClaim, BudgetInv, TypeInv, TypeOK, OnlySubmitted
    <2>3. LeaseRef(t) \in FileRef /\ LeaseRef(t).id = t /\ Found(LeaseRef(t)) /\ RefFits(LeaseRef(t))
      BY <2>1, <2>2 DEF LeaseRef, FileRef, Found, RefFits
    <2> QED  BY <2>1, <2>2, <2>3, RenameBudget
  <1> QED  BY <1>1, <1>2, <1>3, <1>4, <1>5, <1>6 DEF Elicit

\* Recovery passes on the attempts it read, and re-enqueues only if one is left.
LEMMA RecoverBudget == \A p \in Proc : BudgetInv /\ TypeInv' /\ Recover(p) => BudgetInv'
  <1> SUFFICES ASSUME BudgetInv, TypeInv', NEW p \in Proc, Recover(p) PROVE BudgetInv'
    OBVIOUS
  <1> USE DEF procVars, fileVars
  <1> job \in [Proc -> Job] /\ pc \in [Proc -> Section] /\ leased \in [Task -> Record]
    BY DEF BudgetInv, TypeInv, TypeOK
  <1> /\ todo \in [Proc -> SUBSET FileRef] /\ \A q \in Proc : \A ref \in todo[q] : ref.id \in Task
    BY DEF BudgetInv, TypeInv, TypeOK, OnlySubmitted
  <1>1. CASE ScanStart(p)
    <2>1. \A ref \in todo'[p] : RefFits(ref)
      BY <1>1 DEF ScanStart, LeaseRef, ScratchRef, RefFits, BudgetInv, NamesFit
    <2>2. /\ UNCHANGED <<queue, leased, scratch, names, job>>
          /\ pc' = [pc EXCEPT ![p] = "scan"]
          /\ \A q \in Proc : q # p => todo'[q] = todo[q]
      BY <1>1 DEF ScanStart
    <2> QED  BY <2>1, <2>2, ListingBudget
  <1>2. CASE ScanRead(p)
    <2>1. PICK ref \in todo[p] :
            /\ todo' = [todo EXCEPT ![p] = @ \ {ref}]
            /\ \/ UNCHANGED <<job, pc>>
               \/ /\ job'[p].ref = ref /\ pc' = [pc EXCEPT ![p] = "scanned"]
                  /\ \A q \in Proc : q # p => job'[q] = job[q]
      <3>1. PICK ref \in todo[p] :
              /\ todo' = [todo EXCEPT ![p] = @ \ {ref}]
              /\ \/ UNCHANGED <<job, pc>>
                 \/ /\ job' = [job EXCEPT ![p] = [ref |-> ref, attempts |-> Content(ref).attempts,
                                                  pass |-> "first"]]
                    /\ pc' = [pc EXCEPT ![p] = "scanned"]
        BY <1>2 DEF ScanRead
      <3> DEFINE read == [ref |-> ref, attempts |-> Content(ref).attempts, pass |-> "first"]
      <3>2. read.ref = ref
        OBVIOUS
      <3> HIDE DEF read
      <3>3. ASSUME job' = [job EXCEPT ![p] = read]
            PROVE  job'[p].ref = ref /\ \A q \in Proc : q # p => job'[q] = job[q]
        BY <3>2, <3>3
      <3> QED  BY <3>1, <3>3 DEF read
    <2>2. UNCHANGED <<queue, leased, scratch, names>>
      BY <1>2 DEF ScanRead
    <2>3. \A r : RefFits(r) => RefFits(r)'
      BY <2>2 DEF RefFits
    <2>4. NamesFit'
      BY <2>1, <2>2, <2>3 DEF BudgetInv, NamesFit
    <2>5. LeasingFits'
      BY <2>1 DEF BudgetInv, LeasingFits
    <2>6. AttemptsWithinBudget'
      BY <2>2 DEF BudgetInv, AttemptsWithinBudget
    <2> QED  BY <2>4, <2>5, <2>6 DEF BudgetInv
  <1>3. CASE ScanClaim(p)
    <2> DEFINE ref == job[p].ref
    <2>1. ref \in FileRef /\ ref.id \in Task /\ RefFits(ref)
      BY <1>3 DEF ScanClaim, Job, BudgetInv, TypeInv, TypeOK, OnlySubmitted, NamesFit
    <2>2. \A q \in Proc : q # p => job'[q] = job[q] /\ pc'[q] = pc[q]
      BY <1>3 DEF ScanClaim, FreeJob
    <2>3. CASE Found(ref)
      <3>1. RenameToScratch(ref, "claim") /\ pc'[p] = "claimed" /\ UNCHANGED <<queue, todo>>
        BY <1>3, <2>3 DEF ScanClaim
      <3> HIDE DEF ref
      <3> QED  BY <2>1, <2>2, <2>3, <3>1, RenameBudget
    <2>4. CASE ~Found(ref)
      <3>1. UNCHANGED <<queue, leased, scratch, names, todo>> /\ pc'[p] = "scan"
        BY <1>3, <2>4 DEF ScanClaim
      <3> QED  BY <2>2, <3>1, SameRecords
    <2> QED  BY <2>3, <2>4
  <1>4. CASE RecoverWrite(p)
    <2> DEFINE t == job[p].ref.id
    <2>1. t \in Task /\ job[p].attempts \in Nat
      BY <1>4 DEF RecoverWrite, Job, BudgetInv, TypeInv, TypeOK, OnlySubmitted
    <2>2. \/ queue' = queue
          \/ MayRetry(t, job[p].attempts) /\ queue' = QueueWith(t, job[p].attempts, FALSE)
      BY <1>4 DEF RecoverWrite
    <2>3. \A f \in queue' : f.attempts < Budget[f.id]
      <3>1. CASE queue' = queue
        BY <3>1 DEF BudgetInv, AttemptsWithinBudget
      <3>2. CASE MayRetry(t, job[p].attempts) /\ queue' = QueueWith(t, job[p].attempts, FALSE)
        <4>1. FALSE \in BOOLEAN /\ AttemptsWithinBudget
          BY DEF BudgetInv
        <4> HIDE DEF t
        <4> QED  BY <2>1, <3>2, <4>1, QueueWithinBudget
      <3> QED  BY <2>2, <3>1, <3>2
    <2>4. AttemptsWithinBudget'
      BY <1>4, <2>3 DEF RecoverWrite, BudgetInv, AttemptsWithinBudget
    <2>5. UNCHANGED <<scratch, names, todo, job>> /\ pc' = [pc EXCEPT ![p] = "written"]
      BY <1>4 DEF RecoverWrite
    <2>6. LeasingFits'
      BY <2>5 DEF BudgetInv, LeasingFits
    <2>7. NamesFit'
      BY <2>5, SameNames
    <2> QED  BY <2>4, <2>6, <2>7 DEF BudgetInv
  <1>5. CASE RecoverUnlink(p)
    <2>1. /\ scratch' \subseteq scratch /\ UNCHANGED <<queue, leased, names, todo>>
          /\ pc'[p] \in {"scan", "claims", "idle"}
          /\ \A q \in Proc : q # p => job'[q] = job[q] /\ pc'[q] = pc[q]
      BY <1>5 DEF RecoverUnlink, FreeJob
    <2>2. \A t \in Task : leased'[t].attempts <= Budget[t]
      BY <2>1 DEF BudgetInv, AttemptsWithinBudget
    <2> QED  BY <2>1, <2>2, FewerRecords
  <1>6. CASE RecoverThrows(p)
    <2>1. /\ \A q \in Proc : q # p => job'[q] = job[q] /\ pc'[q] = pc[q]
          /\ pc'[p] = "idle" /\ \A q \in Proc : todo'[q] \subseteq todo[q]
      BY <1>6 DEF RecoverThrows, FreeJob
    <2> QED  BY <1>6, <2>1, SameRecords DEF RecoverThrows
  <1>7. CASE ClaimsStart(p)
    <2>1. \A ref \in todo'[p] : RefFits(ref)
      BY <1>7 DEF ClaimsStart, ScratchRef, RefFits, BudgetInv, NamesFit
    <2>2. /\ UNCHANGED <<queue, leased, scratch, names, job>>
          /\ pc' = [pc EXCEPT ![p] = "claims"]
          /\ \A q \in Proc : q # p => todo'[q] = todo[q]
      BY <1>7 DEF ClaimsStart
    <2> QED  BY <2>1, <2>2, ListingBudget
  <1>8. CASE ClaimTake(p)
    <2>1. PICK ref \in todo[p] :
            /\ todo' = [todo EXCEPT ![p] = @ \ {ref}]
            /\ \/ /\ Found(ref) /\ RenameToScratch(ref, "process")
                  /\ \E n : n = names /\ job'[p].ref = [kind |-> "process", id |-> ref.id, name |-> n]
                  /\ \A q \in Proc : q # p => job'[q] = job[q] /\ pc'[q] = pc[q]
                  /\ pc'[p] \in {"restore", "claimed"}
               \/ UNCHANGED <<scratch, leased, names, job, pc>>
      <3>1. PICK ref \in todo[p] :
              /\ todo' = [todo EXCEPT ![p] = @ \ {ref}]
              /\ IF Found(ref)
                 THEN /\ RenameToScratch(ref, "process")
                      /\ job' = [job EXCEPT ![p] =
                           [ref |-> [kind |-> "process", id |-> ref.id, name |-> names],
                            attempts |-> Content(ref).attempts, pass |-> "second"]]
                      /\ pc' = [pc EXCEPT ![p] =
                           IF Content(ref).state = "waiting" THEN "restore" ELSE "claimed"]
                 ELSE UNCHANGED <<scratch, leased, names, job, pc>>
        BY <1>8 DEF ClaimTake
      <3>2. CASE ~Found(ref)
        BY <3>1, <3>2
      <3>3. CASE Found(ref)
        <4>1. /\ job'[p].ref = [kind |-> "process", id |-> ref.id, name |-> names]
              /\ \A q \in Proc : q # p => job'[q] = job[q] /\ pc'[q] = pc[q]
              /\ pc'[p] \in {"restore", "claimed"}
          BY <3>1, <3>3
        <4> QED  BY <3>1, <3>3, <4>1
      <3> QED  BY <3>2, <3>3
    <2>2. ref \in FileRef /\ ref.id \in Task /\ RefFits(ref) /\ UNCHANGED queue
      BY <1>8 DEF ClaimTake, BudgetInv, NamesFit
    <2>3. \A q \in Proc : \A r \in todo'[q] : r \in todo[q]
      BY <2>1
    <2>4. CASE Found(ref) /\ RenameToScratch(ref, "process")
               /\ \E n : n = names /\ job'[p].ref = [kind |-> "process", id |-> ref.id, name |-> n]
               /\ (\A q \in Proc : q # p => job'[q] = job[q] /\ pc'[q] = pc[q])
               /\ pc'[p] \in {"restore", "claimed"}
      BY <2>2, <2>3, <2>4, RenameBudget
    <2>5. CASE UNCHANGED <<scratch, leased, names, job, pc>>
      BY <2>2, <2>3, <2>5, SameRecords
    <2> QED  BY <2>1, <2>4, <2>5
  <1>9. CASE ClaimRestore(p)
    <2> DEFINE ref == job[p].ref
    <2>1. ref \in FileRef /\ ref.id \in Task /\ RefFits(ref)
      BY <1>9 DEF ClaimRestore, Job, BudgetInv, TypeInv, TypeOK, OnlySubmitted, NamesFit
    <2>2. /\ \A q \in Proc : q # p => job'[q] = job[q] /\ pc'[q] = pc[q]
          /\ pc'[p] = "claims" /\ UNCHANGED <<queue, names, todo>> /\ scratch' \subseteq scratch
      BY <1>9 DEF ClaimRestore, FreeJob
    <2>3. \A t \in Task : leased'[t].attempts <= Budget[t]
      <3>1. CASE Found(ref)
        <4>1. Content(ref).attempts <= Budget[ref.id]
          BY <2>1, <3>1, ContentWithinBudget
        <4>2. leased' = [leased EXCEPT ![ref.id] = Content(ref)]
          BY <1>9, <3>1 DEF ClaimRestore
        <4> QED  BY <4>1, <4>2 DEF BudgetInv, AttemptsWithinBudget
      <3>2. CASE ~Found(ref)
        BY <1>9, <3>2 DEF ClaimRestore, BudgetInv, AttemptsWithinBudget
      <3> QED  BY <3>1, <3>2
    <2> QED  BY <2>2, <2>3, FewerRecords
  <1>10. CASE ClaimsDone(p)
    <2>1. pc' = [pc EXCEPT ![p] = "idle"]
      BY <1>10 DEF ClaimsDone
    <2> QED  BY <1>10, <2>1, SameRecords DEF ClaimsDone
  <1> QED  BY <1>1, <1>2, <1>3, <1>4, <1>5, <1>6, <1>7, <1>8, <1>9, <1>10 DEF Recover

\* No step spends more than the budget, a crash or a start least of all.
LEMMA NextBudget == BudgetInv /\ [Next]_vars => BudgetInv'
  <1> SUFFICES ASSUME BudgetInv, [Next]_vars PROVE BudgetInv'
    OBVIOUS
  <1>1. TypeInv'
    BY StepType DEF BudgetInv
  <1>2. CASE Environment
    BY <1>1, <1>2, EnvironmentBudget
  <1>3. ASSUME NEW p \in Proc, Tick(p) \/ Elicit(p) \/ Recover(p) PROVE BudgetInv'
    BY <1>1, <1>3, TickBudget, ElicitBudget, RecoverBudget
  <1>4. ASSUME NEW p \in Proc, StartDaemon(p) \/ Crash(p) PROVE BudgetInv'
    <2> pc \in [Proc -> Section] /\ job \in [Proc -> Job] /\ todo \in [Proc -> SUBSET FileRef]
      BY DEF BudgetInv, TypeInv, TypeOK
    <2>1. /\ UNCHANGED <<queue, leased, scratch, names>>
          /\ \A q \in Proc : todo'[q] \subseteq todo[q]
          /\ \A q \in Proc : q # p => pc'[q] = pc[q] /\ job'[q] = job[q]
          /\ pc'[p] \in {"idle", "down"}
      BY <1>4 DEF StartDaemon, Crash, FreeJob, fileVars
    <2> QED  BY <1>1, <2>1, SameRecords
  <1>5. CASE UNCHANGED vars
    BY <1>1, <1>5, SameRecords DEF vars, fileVars, procVars
  <1> QED  BY <1>2, <1>3, <1>4, <1>5 DEF Next

\* However often a task is retried, recovered, parked and taken back, by however
\* many daemons, and wherever they die: the attempts its file carries never pass
\* maxAttempts, and what is in the queue has one left (leaseTask, completeTask,
\* recoverExpiredLeases).
THEOREM BudgetKept == Spec => []AttemptsWithinBudget
  <1>1. Init => BudgetInv
    <2>1. Init => TypeInv
      BY InitType
    <2>2. Init => AttemptsWithinBudget
      BY BudgetAssumption DEF Init, AttemptsWithinBudget, NoFile
    <2>3. Init => NamesFit /\ LeasingFits
      BY DEF Init, NamesFit, LeasingFits
    <2> QED  BY <2>1, <2>2, <2>3 DEF BudgetInv
  <1>2. BudgetInv => AttemptsWithinBudget
    BY DEF BudgetInv
  <1> QED  BY <1>1, <1>2, NextBudget, PTL DEF Spec
=============================================================================
