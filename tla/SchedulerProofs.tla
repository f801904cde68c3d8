--------------------------- MODULE SchedulerProofs ---------------------------
(* Proofs about Scheduler for any tasks, entries, attempts and number of runs  *)
(* at a time.                                                                  *)
EXTENDS Scheduler, FiniteSetTheorems, SequenceTheorems, TLAPS

--------------------------------------------------------------------------------
(* The invariant *)

Busy(r) == run[r].at # "free"
Starting == {"gate", "shell", "builtin"}

\* A run is what it was begun as: its key, its trigger and where it can stand.
RunOK ==
  \A r \in Slot :
    /\ Pulling(r) => Busy(r) /\ run[r].id \in Entry
    /\ Busy(r) => /\ run[r].key = overlapKeyOf(run[r].id)
                  /\ ~Pulling(r) => run[r].id \in Sched
                  /\ run[r].at = "done" => Pulling(r)
                  /\ run[r].at \in {"sleep", "shell", "builtin"} => ~Pulling(r)
                  /\ run[r].at = "session" => run[r].tries >= 1
                  /\ run[r].born <= stops

\* The overlap guard: keys of guarded runs are distinct, and are those in flight.
KeysDistinct == \A r, s \in Slot : Guarded(r) /\ Guarded(s) /\ run[r].key = run[s].key => r = s
KeysInFlight == \A k \in Id : k \in inFlight <=> \E r \in Slot : Guarded(r) /\ run[r].key = k
Counted == idle = Cardinality({r \in Slot : Executing(r)})
Mutex ==
  /\ dequeuing <=> \E r \in Slot : Pulling(r)
  /\ \A r, s \in Slot : Pulling(r) /\ Pulling(s) => r = s
Books == KeysDistinct /\ KeysInFlight /\ alerted \subseteq inFlight /\ Counted /\ Mutex

\* Versions only grow: what is registered is the last one, no run or list is ahead
\* of it, and stop() leaves no run of before with its registration.
Versions ==
  /\ \A t \in Sched : regs[t] >= 1 /\ reg[t] \in {0, regs[t]}
  /\ \A s \in starting : s[1] \in Starters /\ s[2] >= 1 /\ s[2] <= regs[s[1]]
  /\ \A r \in Slot : Busy(r) /\ ~Pulling(r) =>
       /\ run[r].ver >= 1 /\ run[r].ver <= regs[run[r].id]
       /\ run[r].born < stops => reg[run[r].id] # run[r].ver

\* A version that was started is registered only while its run is on, and one
\* that waits at the gate was not.
Started(t, v) == \E i \in DOMAIN shots[t] : shots[t][i] = v
On(t) == \E r \in Slot : Guarded(r) /\ run[r].id = t
Polled == OneShot \ Starters
OneShots ==
  \A t \in Polled :
    /\ \A i, j \in DOMAIN shots[t] : shots[t][i] = shots[t][j] => i = j
    /\ \A i \in DOMAIN shots[t] : shots[t][i] <= regs[t]
    /\ reg[t] # 0 /\ Started(t, reg[t]) => On(t)
    /\ \A r \in Slot : run[r].at = "gate" /\ run[r].id = t => ~Started(t, run[r].ver)

\* An entry is in one place: once in the queue, or in a run, or finished; and its
\* run has had a session unless it ended at the gate.
Places ==
  /\ \A i, j \in DOMAIN queue : queue[i] = queue[j] => i = j
  /\ \A i \in DOMAIN queue : settled[queue[i]] = "no"
  /\ \A r \in Slot : Pulling(r) =>
       /\ \A i \in DOMAIN queue : queue[i] # run[r].id
       /\ settled[run[r].id] = "no"
       /\ run[r].at = "session" => run[r].id \in ran
       /\ run[r].at = "done" => run[r].status \in {"budget", "cwd"} \/ run[r].id \in ran

Inv == TypeOK /\ RunOK /\ Books /\ Versions /\ OneShots /\ Places

--------------------------------------------------------------------------------
(* Lemmas on one state *)

LEMMA FreeIsFree == HasFree => FreeSlot \in Slot /\ run[FreeSlot].at = "free"
  BY DEF HasFree, FreeSlot

LEMMA KeyIsId == \A id \in Id : overlapKeyOf(id) \in Id
  BY EntryAssumption DEF Id, overlapKeyOf

LEMMA IdKinds == Sched \cap Entry = {} /\ \A t \in Sched : t \in Id /\ overlapKeyOf(t) = t
  BY EntryAssumption DEF overlapKeyOf, Id

LEMMA BusyIsRun == ASSUME TypeOK, NEW r \in Slot, Busy(r) PROVE run[r] \in Run
  BY DEF TypeOK, Busy, Free

LEMMA Fields ==
  ASSUME TypeOK, NEW r \in Slot, Busy(r)
  PROVE run[r].id \in Id /\ run[r].key \in Id /\ run[r].born \in Nat /\ run[r].ver \in Nat
  BY BusyIsRun DEF Run

LEMMA GuardedIsBusy ==
  ASSUME TypeOK, NEW r \in Slot, Guarded(r) \/ Pulling(r)
  PROVE Busy(r)
  <1>1. run[r] \in Run \cup {Free}
    BY DEF TypeOK
  <1> QED BY <1>1 DEF Guarded, Pulling, Busy, Run, Free

\* Whose run is guarded is in flight.
LEMMA GuardedInFlight ==
  ASSUME TypeOK, RunOK, KeysInFlight, NEW r \in Slot, Guarded(r)
  PROVE run[r].key \in inFlight /\ run[r].key = overlapKeyOf(run[r].id)
  <1>1. Busy(r)
    BY GuardedIsBusy
  <1> QED BY <1>1, Fields DEF RunOK, KeysInFlight

LEMMA OnInFlight ==
  ASSUME TypeOK, RunOK, KeysInFlight, NEW t \in Sched, On(t)
  PROVE t \in inFlight
  BY GuardedInFlight, IdKinds DEF On

Executors == {r \in Slot : Executing(r)}

LEMMA ExecutorsFinite == IsFiniteSet(Executors) /\ Cardinality(Executors) \in Nat
  BY BoundAssumption, FS_Subset, FS_CardinalityType DEF Executors

--------------------------------------------------------------------------------
(* Lemmas on one step: what it need not disturb *)

Gone(r) == run'[r].at = "free" /\ run'[r].trigger = "none"
Same(r) ==
  /\ Busy(r) /\ Busy(r)'
  /\ run'[r].id = run[r].id /\ run'[r].key = run[r].key /\ run'[r].trigger = run[r].trigger
  /\ run'[r].ver = run[r].ver /\ run'[r].born = run[r].born
  /\ run'[r].at # "gate"
  /\ run'[r].at = "session" => run'[r].tries >= 1
  /\ run'[r].at = "done" => Pulling(r)
  /\ run'[r].at \in {"sleep", "shell", "builtin"} => ~Pulling(r)
Kept(r) == run'[r] = run[r] \/ Gone(r) \/ Same(r)

LEMMA KeptRunOK ==
  ASSUME RunOK, UNCHANGED stops, \A r \in Slot : Kept(r)
  PROVE RunOK'
  BY DEF RunOK, Kept, Same, Gone, Busy, Pulling

LEMMA KeptVersions ==
  ASSUME Versions, RunOK, UNCHANGED stops, UNCHANGED regs, starting' \subseteq starting,
         \A t \in Sched : reg'[t] = 0 \/ reg'[t] = reg[t], \A r \in Slot : Kept(r)
  PROVE Versions'
  <1>1. ASSUME NEW r \in Slot, Busy(r)', ~Pulling(r)'
        PROVE /\ Busy(r) /\ ~Pulling(r) /\ run'[r].ver = run[r].ver
              /\ run'[r].id = run[r].id /\ run[r].id \in Sched /\ run'[r].born = run[r].born
    BY <1>1 DEF RunOK, Kept, Same, Gone, Busy, Pulling
  <1>2. ASSUME NEW r \in Slot, Busy(r)', ~Pulling(r)'
        PROVE /\ run'[r].ver >= 1 /\ run'[r].ver <= regs'[run'[r].id]
              /\ run'[r].born < stops' => reg'[run'[r].id] # run'[r].ver
    BY <1>1, <1>2 DEF Versions
  <1> QED BY <1>2 DEF Versions

LEMMA KeptOneShots ==
  ASSUME OneShots, UNCHANGED shots, UNCHANGED regs,
         \A t \in Sched : reg'[t] = 0 \/ reg'[t] = reg[t],
         \A r \in Slot : Kept(r),
         \A t \in Polled : On(t) => On(t)' \/ reg'[t] = 0
  PROVE OneShots'
  <1> SUFFICES ASSUME NEW t \in Polled
               PROVE  /\ \A i, j \in DOMAIN shots[t]' : shots[t]'[i] = shots[t]'[j] => i = j
                      /\ \A i \in DOMAIN shots[t]' : shots[t]'[i] <= regs[t]'
                      /\ reg[t]' # 0 /\ Started(t, reg[t])' => On(t)'
                      /\ \A r \in Slot : run'[r].at = "gate" /\ run'[r].id = t
                                           => ~Started(t, run[r].ver)'
    BY DEF OneShots, Polled
  <1>1. t \in Sched
    BY SchedAssumption DEF Polled
  <1>2. shots'[t] = shots[t] /\ \A v : Started(t, v)' <=> Started(t, v)
    BY DEF Started
  <1>3. ASSUME NEW r \in Slot, run'[r].at = "gate" PROVE run'[r] = run[r]
    BY <1>3 DEF Kept, Gone, Same
  <1> QED BY <1>1, <1>2, <1>3 DEF OneShots, Started

LEMMA KeptDistinct ==
  ASSUME KeysDistinct, \A r \in Slot : Kept(r), \A r \in Slot : Guarded(r)' => Guarded(r)
  PROVE KeysDistinct'
  BY DEF KeysDistinct, Kept, Gone, Same, Guarded

LEMMA KeptInFlight ==
  ASSUME KeysInFlight, \A r \in Slot : Kept(r), UNCHANGED inFlight,
         \A r \in Slot : Guarded(r)' <=> Guarded(r)
  PROVE KeysInFlight'
  BY DEF KeysInFlight, Kept, Gone, Same, Guarded

LEMMA KeptMutex ==
  ASSUME Mutex, UNCHANGED dequeuing, \A r \in Slot : Pulling(r)' <=> Pulling(r)
  PROVE Mutex'
  BY DEF Mutex

LEMMA KeptPlaces ==
  ASSUME Places, UNCHANGED queue, UNCHANGED settled, ran \subseteq ran',
         \A r \in Slot : Kept(r),
         \A r \in Slot : Pulling(r) /\ Pulling(r)' =>
            /\ run'[r].at = "session" => run[r].id \in ran'
            /\ run'[r].at = "done" => run'[r].status \in {"budget", "cwd"} \/ run[r].id \in ran'
  PROVE Places'
  <1>1. ASSUME NEW r \in Slot, Pulling(r)' PROVE Pulling(r) /\ run'[r].id = run[r].id
    BY <1>1 DEF Kept, Gone, Same, Pulling
  <1> QED BY <1>1 DEF Places

\* A task starts to execute, or is over, and the idle detector hears of it.
LEMMA Joins ==
  ASSUME Counted, NEW r \in Slot, ~Executing(r), Executors' = Executors \cup {r}, idle' = idle + 1
  PROVE Counted'
  BY ExecutorsFinite, FS_AddElement DEF Counted, Executors

LEMMA Leaves ==
  ASSUME Counted, NEW r \in Slot, Executing(r), Executors' = Executors \ {r}, Leave
  PROVE Counted'
  <1>1. r \in Executors
    BY DEF Executors
  <1>2. Cardinality(Executors \ {r}) = Cardinality(Executors) - 1
    BY <1>1, ExecutorsFinite, FS_RemoveElement
  <1>3. Cardinality(Executors) # 0
    BY <1>1, ExecutorsFinite, FS_EmptySet
  <1> QED BY <1>2, <1>3, ExecutorsFinite DEF Counted, Executors, Leave

LEMMA Stays ==
  ASSUME Counted, Executors' = Executors, idle' = idle
  PROVE Counted'
  BY DEF Counted, Executors

--------------------------------------------------------------------------------
(* A run begins *)

LEMMA EnterType ==
  ASSUME TypeOK, HasFree, NEW id \in Id, NEW trigger \in Trigger, NEW ver \in Nat,
         NEW at \in Starting, Enter(id, trigger, ver, at)
  PROVE run' \in [Slot -> Run \cup {Free}]
  <1> DEFINE new == [at |-> at, id |-> id, key |-> overlapKeyOf(id), trigger |-> trigger,
                     ver |-> ver, tries |-> 0, born |-> stops, signal |-> stops,
                     status |-> "none"]
  <1>1. new \in Run
    BY KeyIsId DEF TypeOK, Run, Status, Starting
  <1>2. run' = [run EXCEPT ![FreeSlot] = new]
    BY DEF Enter
  <1> QED BY <1>1, <1>2, FreeIsFree DEF TypeOK

\* In the slot f, which was free, is now a run of id.
New(f, id, trigger, ver, at) ==
  /\ ~Busy(f) /\ ~Pulling(f)
  /\ \A r \in Slot : r # f => run'[r] = run[r]
  /\ run'[f].at = at /\ run'[f].id = id /\ run'[f].key = overlapKeyOf(id)
  /\ run'[f].trigger = trigger /\ run'[f].ver = ver /\ run'[f].born = stops

LEMMA Entered ==
  ASSUME TypeOK, HasFree, NEW id, NEW trigger, NEW ver, NEW at, Enter(id, trigger, ver, at)
  PROVE FreeSlot \in Slot /\ New(FreeSlot, id, trigger, ver, at)
  <1>1. FreeSlot \in Slot /\ run[FreeSlot] = Free
    BY FreeIsFree DEF TypeOK, Run
  <1>2. /\ \A r \in Slot : r # FreeSlot => run'[r] = run[r]
        /\ run'[FreeSlot] = [at |-> at, id |-> id, key |-> overlapKeyOf(id),
                             trigger |-> trigger, ver |-> ver, tries |-> 0, born |-> stops,
                             signal |-> stops, status |-> "none"]
    BY <1>1 DEF Enter, TypeOK
  <1> QED BY <1>1, <1>2 DEF New, Busy, Pulling, Free

LEMMA NewRunOK ==
  ASSUME RunOK, stops \in Nat, UNCHANGED stops, NEW f \in Slot, NEW id, NEW trigger, NEW ver,
         NEW at \in Starting, New(f, id, trigger, ver, at),
         IF trigger = "pull" THEN id \in Entry /\ at = "gate" ELSE id \in Sched
  PROVE RunOK'
  BY DEF RunOK, New, Busy, Pulling, Starting

LEMMA NewVersions ==
  ASSUME Versions, RunOK, UNCHANGED stops, UNCHANGED regs, starting' \subseteq starting,
         stops \in Nat, \A t \in Sched : reg'[t] = 0 \/ reg'[t] = reg[t],
         NEW f \in Slot, NEW id, NEW trigger, NEW ver, NEW at, New(f, id, trigger, ver, at),
         trigger # "pull" => id \in Sched /\ ver >= 1 /\ ver <= regs[id]
  PROVE Versions'
  <1>1. ASSUME NEW r \in Slot, Busy(r)', ~Pulling(r)'
        PROVE /\ run'[r].ver >= 1 /\ run'[r].ver <= regs'[run'[r].id]
              /\ run'[r].born < stops' => reg'[run'[r].id] # run'[r].ver
    <2>1. CASE r = f
      BY <1>1, <2>1 DEF New, Pulling
    <2>2. CASE r # f
      BY <1>1, <2>2 DEF New, Pulling, Busy, Versions, RunOK
    <2> QED BY <2>1, <2>2
  <1> QED BY <1>1 DEF Versions

\* The key of the new run joins those in flight.
LEMMA NewKeys ==
  ASSUME TypeOK, RunOK, KeysDistinct, KeysInFlight, NEW f \in Slot, NEW id \in Id, NEW trigger,
         NEW ver, NEW at \in {"gate", "shell"}, New(f, id, trigger, ver, at),
         overlapKeyOf(id) \notin inFlight, inFlight' = inFlight \cup {overlapKeyOf(id)}
  PROVE KeysDistinct' /\ KeysInFlight'
  <1>1. ASSUME NEW r \in Slot, r # f
        PROVE /\ Guarded(r)' <=> Guarded(r)
              /\ run'[r].key = run[r].key
              /\ Guarded(r) => run[r].key \in inFlight
    BY <1>1, GuardedInFlight DEF New, Guarded
  <1>2. Guarded(f)' /\ ~Guarded(f) /\ run'[f].key = overlapKeyOf(id)
    BY DEF New, Guarded, Busy
  <1>3. KeysDistinct'
    BY <1>1, <1>2 DEF KeysDistinct
  <1>4. KeysInFlight'
    BY <1>1, <1>2 DEF KeysInFlight
  <1> QED BY <1>3, <1>4

\* A builtin is not among the guarded.
LEMMA NewUnguarded ==
  ASSUME KeysDistinct, KeysInFlight, NEW f \in Slot, NEW id, NEW trigger,
         NEW ver, New(f, id, trigger, ver, "builtin"), UNCHANGED inFlight
  PROVE KeysDistinct' /\ KeysInFlight'
  <1>1. \A r \in Slot : /\ Guarded(r)' <=> Guarded(r)
                        /\ Guarded(r) => run'[r].key = run[r].key
    BY DEF New, Guarded, Busy
  <1>2. KeysDistinct'
    BY <1>1 DEF KeysDistinct
  <1>3. KeysInFlight'
    BY <1>1 DEF KeysInFlight
  <1> QED BY <1>2, <1>3

LEMMA NewMutex ==
  ASSUME Mutex, UNCHANGED dequeuing, NEW f \in Slot, NEW id, NEW trigger, NEW ver, NEW at,
         New(f, id, trigger, ver, at), trigger # "pull"
  PROVE Mutex'
  <1>1. \A r \in Slot : Pulling(r)' <=> Pulling(r)
    BY DEF New, Pulling
  <1> QED BY <1>1, KeptMutex

LEMMA NewPlaces ==
  ASSUME Places, UNCHANGED queue, UNCHANGED settled, UNCHANGED ran, NEW f \in Slot, NEW id,
         NEW trigger, NEW ver, NEW at, New(f, id, trigger, ver, at), trigger # "pull"
  PROVE Places'
  <1>1. ASSUME NEW r \in Slot, Pulling(r)' PROVE Pulling(r) /\ run'[r] = run[r]
    BY <1>1 DEF New, Pulling
  <1> QED BY <1>1 DEF Places

LEMMA ShotType ==
  ASSUME shots \in [Sched -> Seq(Nat)], NEW t \in Sched, NEW ver \in Nat, Shot(t, ver)
  PROVE shots' \in [Sched -> Seq(Nat)]
  BY DEF Shot

\* What Shot leaves of the starts of a task.
LEMMA ShotAppends ==
  ASSUME shots \in [Sched -> Seq(Nat)], NEW t \in Sched, NEW ver \in Nat, Shot(t, ver), t \in OneShot
  PROVE /\ DOMAIN shots'[t] = 1 .. Len(shots[t]) + 1 /\ DOMAIN shots[t] = 1 .. Len(shots[t])
        /\ Len(shots[t]) \in Nat
        /\ \A i \in 1 .. Len(shots[t]) : shots'[t][i] = shots[t][i]
        /\ shots'[t][Len(shots[t]) + 1] = ver
        /\ \A s \in Sched : s # t => shots'[s] = shots[s]
  <1>1. shots[t] \in Seq(Nat) /\ shots'[t] = Append(shots[t], ver)
    BY DEF Shot
  <1>2. Append(shots[t], ver) \in Seq(Nat) /\ Len(Append(shots[t], ver)) = Len(shots[t]) + 1
    BY <1>1
  <1>3. DOMAIN shots[t] = 1 .. Len(shots[t]) /\ Len(shots[t]) \in Nat
    BY <1>1, LenProperties
  <1>4. DOMAIN shots'[t] = 1 .. Len(shots[t]) + 1
    BY <1>1, <1>2, LenProperties
  <1>5. /\ \A i \in 1 .. Len(shots[t]) : shots'[t][i] = shots[t][i]
        /\ shots'[t][Len(shots[t]) + 1] = ver
    BY <1>1
  <1>6. \A s \in Sched : s # t => shots'[s] = shots[s]
    BY DEF Shot
  <1> QED BY <1>3, <1>4, <1>5, <1>6

LEMMA NewGateOneShots ==
  ASSUME OneShots, UNCHANGED shots, UNCHANGED regs, UNCHANGED reg,
         NEW f \in Slot, NEW id, NEW trigger, NEW ver, New(f, id, trigger, ver, "gate"),
         id \in Polled => ~Started(id, ver)
  PROVE OneShots'
  <1> SUFFICES ASSUME NEW t \in Polled
               PROVE  /\ \A i, j \in DOMAIN shots[t]' : shots[t]'[i] = shots[t]'[j] => i = j
                      /\ \A i \in DOMAIN shots[t]' : shots[t]'[i] <= regs[t]'
                      /\ reg[t]' # 0 /\ Started(t, reg[t])' => On(t)'
                      /\ \A r \in Slot : run'[r].at = "gate" /\ run'[r].id = t
                                           => ~Started(t, run[r].ver)'
    BY DEF OneShots, Polled
  <1>1. \A v : Started(t, v)' <=> Started(t, v)
    BY DEF Started
  <1>2. On(t) => On(t)'
    BY DEF On, New, Guarded, Busy
  <1>3. ASSUME NEW r \in Slot, run'[r].at = "gate", run'[r].id = t
        PROVE ~Started(t, run[r].ver)'
    <2>1. CASE r = f
      BY <1>1, <1>3, <2>1 DEF New, Started
    <2>2. CASE r # f
      BY <1>1, <1>3, <2>2 DEF New, OneShots, Started
    <2> QED BY <2>1, <2>2
  <1> QED BY <1>1, <1>2, <1>3 DEF OneShots, Started

\* A start of t under a version that was not started before.
LEMMA ShotOneShots ==
  ASSUME OneShots, shots \in [Sched -> Seq(Nat)], regs \in [Sched -> Nat],
         UNCHANGED regs, \A s \in Sched : reg'[s] = 0 \/ reg'[s] = reg[s],
         NEW t \in Sched, NEW ver \in Nat, Shot(t, ver), ver <= regs[t],
         t \in Polled => ~Started(t, ver) /\ (On(t)' \/ reg'[t] = 0),
         \A s \in Polled : s # t /\ On(s) => On(s)',
         \A r \in Slot : run'[r].at = "gate" => run'[r] = run[r] /\ (t \in Polled => run[r].id # t)
  PROVE OneShots'
  <1> SUFFICES ASSUME NEW s \in Polled
               PROVE  /\ \A i, j \in DOMAIN shots'[s] : shots'[s][i] = shots'[s][j] => i = j
                      /\ \A i \in DOMAIN shots'[s] : shots'[s][i] <= regs'[s]
                      /\ reg'[s] # 0 /\ Started(s, reg[s])' => On(s)'
                      /\ \A r \in Slot : run'[r].at = "gate" /\ run'[r].id = s
                                           => ~Started(s, run[r].ver)'
    BY DEF OneShots, Polled
  <1>1. s \in Sched /\ s \in OneShot
    BY SchedAssumption DEF Polled
  <1>2. CASE s # t
    <2>1. shots'[s] = shots[s]
      BY <1>1, <1>2 DEF Shot
    <2>2. \A v : Started(s, v)' <=> Started(s, v)
      BY <2>1 DEF Started
    <2>3. reg'[s] # 0 /\ Started(s, reg[s])' => On(s)'
      <3>1. ASSUME reg'[s] # 0, Started(s, reg[s])' PROVE reg[s] # 0 /\ Started(s, reg[s])
        BY <1>1, <2>1, <3>1 DEF Started
      <3> QED BY <1>2, <3>1 DEF OneShots
    <2>4. ASSUME NEW r \in Slot, run'[r].at = "gate", run'[r].id = s
          PROVE ~Started(s, run[r].ver)'
      <3>1. run[r].at = "gate" /\ run[r].id = s /\ run'[r].ver = run[r].ver
        BY <2>4
      <3>2. ~Started(s, run[r].ver)
        BY <3>1 DEF OneShots
      <3> QED BY <2>1, <3>1, <3>2 DEF Started
    <2> QED BY <1>1, <2>1, <2>3, <2>4 DEF OneShots
  <1>3. CASE s = t
    <2> DEFINE n == Len(shots[t])
    <2>1. /\ DOMAIN shots'[t] = 1 .. n + 1 /\ DOMAIN shots[t] = 1 .. n /\ n \in Nat
          /\ \A i \in 1 .. n : shots'[t][i] = shots[t][i]
          /\ shots'[t][n + 1] = ver
      BY <1>1, <1>3, ShotAppends
    <2> HIDE DEF n
    <2>2. \A i \in 1 .. n : shots[t][i] # ver
      BY <1>3, <2>1 DEF Started
    <2>3. /\ \A i, j \in 1 .. n : shots[t][i] = shots[t][j] => i = j
          /\ \A i \in 1 .. n : shots[t][i] <= regs[t]
      BY <1>3, <2>1 DEF OneShots
    <2>4. ASSUME NEW i \in 1 .. n + 1, NEW j \in 1 .. n + 1, shots'[t][i] = shots'[t][j]
          PROVE  i = j
      <3>1. i \in 1 .. n \/ i = n + 1
        BY <2>1
      <3>2. j \in 1 .. n \/ j = n + 1
        BY <2>1
      <3> QED BY <2>1, <2>2, <2>3, <2>4, <3>1, <3>2
    <2>5. ASSUME NEW i \in 1 .. n + 1 PROVE shots'[t][i] <= regs'[t]
      <3>1. i \in 1 .. n \/ i = n + 1
        BY <2>1
      <3> QED BY <2>1, <2>3, <3>1
    <2> QED BY <1>3, <2>1, <2>4, <2>5
  <1> QED BY <1>2, <1>3

\* Of the registry and the list of fireOnStart, what a start relies on.
StartFacts(t, trigger, ver) ==
  /\ trigger \in {"cron", "start"} /\ ver \in Nat
  /\ ver >= 1 /\ ver <= regs[t]
  /\ t \in Polled => ver = reg[t]

\* What the triggers leave alone beyond StartOrSkip.
TriggerRest ==
  /\ UNCHANGED <<regs, dequeuing, queue, later, settled, ran, stops>>
  /\ starting' \subseteq starting /\ fires' \in Nat

LEMMA BeginStep ==
  ASSUME Inv, NEW t \in Sched, NEW trigger, NEW ver, StartFacts(t, trigger, ver),
         t \notin inFlight, Begin(t, trigger, ver), TriggerRest
  PROVE Inv'
  <1> DEFINE f == FreeSlot
  <1>0. TypeOK /\ RunOK /\ Books /\ Versions /\ OneShots /\ Places
    BY DEF Inv
  <1>1. t \in Id /\ overlapKeyOf(t) = t
    BY IdKinds
  <1>2. trigger \in Trigger /\ trigger # "pull" /\ ver \in Nat /\ ver >= 1 /\ ver <= regs[t]
    BY DEF StartFacts, Trigger
  <1>3. /\ UNCHANGED regs /\ UNCHANGED dequeuing /\ UNCHANGED queue /\ UNCHANGED later
        /\ UNCHANGED settled /\ UNCHANGED ran /\ UNCHANGED stops
        /\ starting' \subseteq starting /\ fires' \in Nat
    BY DEF TriggerRest
  <1>4. /\ stops \in Nat /\ regs \in [Sched -> Nat] /\ shots \in [Sched -> Seq(Nat)]
        /\ idle \in Nat /\ reg \in [Sched -> Nat]
    BY <1>0 DEF TypeOK
  <1>5. ~On(t)
    BY <1>0, OnInFlight DEF Books
  <1>6. \A r \in Slot : run[r].at = "gate" => run[r].id # t
    BY <1>5 DEF On, Guarded
  <1>7. t \in Polled => ~Started(t, ver)
    <2>1. ASSUME t \in Polled PROVE reg[t] = ver
      BY <2>1 DEF StartFacts
    <2> QED BY <1>0, <1>2, <1>5, <2>1 DEF OneShots
  <1>a. CASE Exec[t] = "agent"
    <2>1. /\ HasFree /\ Enter(t, trigger, ver, "gate") /\ inFlight' = inFlight \cup {t}
          /\ UNCHANGED reg /\ UNCHANGED alerted /\ UNCHANGED idle /\ UNCHANGED shots
      BY <1>a DEF Begin
    <2>2. f \in Slot /\ New(f, t, trigger, ver, "gate")
      BY <1>0, <2>1, Entered
    <2>3. run' \in [Slot -> Run \cup {Free}]
      BY <1>0, <1>1, <1>2, <2>1, EnterType DEF Starting
    <2> HIDE DEF f
    <2>4. TypeOK'
      BY <1>0, <1>1, <1>3, <2>1, <2>3 DEF TypeOK
    <2>5. RunOK'
      BY <1>0, <1>2, <1>3, <1>4, <2>2, NewRunOK DEF Starting
    <2>6. KeysDistinct' /\ KeysInFlight' /\ (alerted \subseteq inFlight)'
      BY <1>0, <1>1, <2>1, <2>2, NewKeys DEF Books
    <2>7. Executors' = Executors
      BY <2>2 DEF New, Executors, Executing, Busy
    <2>8. Counted' /\ Mutex'
      BY <1>0, <1>2, <1>3, <2>1, <2>2, <2>7, Stays, NewMutex DEF Books
    <2>9. Versions'
      BY <1>0, <1>2, <1>3, <1>4, <2>1, <2>2, NewVersions
    <2>10. OneShots'
      BY <1>0, <1>3, <1>7, <2>1, <2>2, NewGateOneShots
    <2>11. Places'
      BY <1>0, <1>2, <1>3, <2>2, NewPlaces
    <2> QED BY <2>4, <2>5, <2>6, <2>8, <2>9, <2>10, <2>11 DEF Inv, Books
  <1>b. CASE Exec[t] = "shell"
    <2>1. /\ HasFree /\ Enter(t, trigger, ver, "shell") /\ inFlight' = inFlight \cup {t}
          /\ UNCHANGED reg /\ UNCHANGED alerted /\ idle' = idle + 1 /\ Shot(t, ver)
      BY <1>b DEF Begin
    <2>2. f \in Slot /\ New(f, t, trigger, ver, "shell")
      BY <1>0, <2>1, Entered
    <2>3. run' \in [Slot -> Run \cup {Free}]
      BY <1>0, <1>1, <1>2, <2>1, EnterType DEF Starting
    <2> HIDE DEF f
    <2>4. TypeOK'
      <3>1. shots' \in [Sched -> Seq(Nat)]
        BY <1>2, <1>4, <2>1, ShotType
      <3> QED BY <1>0, <1>1, <1>3, <2>1, <2>3, <3>1 DEF TypeOK
    <2>5. RunOK'
      BY <1>0, <1>2, <1>3, <1>4, <2>2, NewRunOK DEF Starting
    <2>6. KeysDistinct' /\ KeysInFlight' /\ (alerted \subseteq inFlight)'
      BY <1>0, <1>1, <2>1, <2>2, NewKeys DEF Books
    <2>7. ~Executing(f) /\ Executors' = Executors \cup {f}
      BY <2>2 DEF New, Executors, Executing, Busy
    <2>8. Counted' /\ Mutex'
      BY <1>0, <1>2, <1>3, <2>1, <2>2, <2>7, Joins, NewMutex DEF Books
    <2>9. Versions'
      BY <1>0, <1>2, <1>3, <1>4, <2>1, <2>2, NewVersions
    <2>10. OneShots'
      <3>1. On(t)' /\ \A s \in Polled : On(s) => On(s)'
        BY <2>2 DEF On, New, Guarded, Busy
      <3>2. \A r \in Slot : run'[r].at = "gate" => run'[r] = run[r] /\ run[r].id # t
        BY <1>6, <2>2 DEF New
      <3> QED BY <1>0, <1>2, <1>3, <1>4, <1>7, <2>1, <3>1, <3>2, ShotOneShots
    <2>11. Places'
      BY <1>0, <1>2, <1>3, <2>2, NewPlaces
    <2> QED BY <2>4, <2>5, <2>6, <2>8, <2>9, <2>10, <2>11 DEF Inv, Books
  <1>c. CASE Exec[t] = "builtin"
    <2>1. /\ HasFree /\ Enter(t, trigger, ver, "builtin") /\ UNCHANGED inFlight
          /\ alerted' = alerted \ {t} /\ UNCHANGED idle /\ Shot(t, ver)
          /\ IF t \in OneShot THEN AutoDisable(t) ELSE UNCHANGED reg
      BY <1>c DEF Begin
    <2>2. f \in Slot /\ New(f, t, trigger, ver, "builtin")
      BY <1>0, <2>1, Entered
    <2>3. run' \in [Slot -> Run \cup {Free}]
      BY <1>0, <1>1, <1>2, <2>1, EnterType DEF Starting
    <2>4. /\ reg' \in [Sched -> Nat] /\ \A s \in Sched : reg'[s] = 0 \/ reg'[s] = reg[s]
          /\ t \in OneShot => reg'[t] = 0
      BY <1>4, <2>1 DEF AutoDisable
    <2> HIDE DEF f
    <2>5. TypeOK'
      <3>1. shots' \in [Sched -> Seq(Nat)]
        BY <1>2, <1>4, <2>1, ShotType
      <3> QED BY <1>0, <1>1, <1>3, <2>1, <2>3, <2>4, <3>1 DEF TypeOK
    <2>6. RunOK'
      BY <1>0, <1>2, <1>3, <1>4, <2>2, NewRunOK DEF Starting
    <2>7. KeysDistinct' /\ KeysInFlight' /\ (alerted \subseteq inFlight)'
      BY <1>0, <2>1, <2>2, NewUnguarded DEF Books
    <2>8. Executors' = Executors
      BY <2>2 DEF New, Executors, Executing, Busy
    <2>9. Counted' /\ Mutex'
      BY <1>0, <1>2, <1>3, <2>1, <2>2, <2>8, Stays, NewMutex DEF Books
    <2>10. Versions'
      BY <1>0, <1>2, <1>3, <1>4, <2>2, <2>4, NewVersions
    <2>11. OneShots'
      <3>1. \A s \in Polled : On(s) => On(s)'
        BY <2>2 DEF On, New, Guarded, Busy
      <3>2. \A r \in Slot : run'[r].at = "gate" => run'[r] = run[r] /\ run[r].id # t
        BY <1>6, <2>2 DEF New
      <3> QED BY <1>0, <1>2, <1>3, <1>4, <1>7, <2>1, <2>4, <3>1, <3>2, ShotOneShots DEF Polled
    <2>12. Places'
      BY <1>0, <1>2, <1>3, <2>2, NewPlaces
    <2> QED BY <2>5, <2>6, <2>7, <2>9, <2>10, <2>11, <2>12 DEF Inv, Books
  <1> QED BY <1>a, <1>b, <1>c, SchedAssumption

--------------------------------------------------------------------------------
(* Steps that touch no run *)

RunsSame == UNCHANGED <<run, inFlight, idle, dequeuing, shots>>

LEMMA RunsSameKept ==
  ASSUME RunsSame
  PROVE /\ \A r \in Slot : Kept(r) /\ (Guarded(r)' <=> Guarded(r)) /\ (Pulling(r)' <=> Pulling(r))
        /\ \A t : On(t)' <=> On(t)
  BY DEF RunsSame, Kept, Guarded, Pulling, On

LEMMA RunsSameBooks ==
  ASSUME Books, RunsSame, alerted' \subseteq inFlight
  PROVE Books'
  <1>1. KeysDistinct' /\ KeysInFlight'
    BY DEF RunsSame, Books, KeysDistinct, KeysInFlight, Guarded
  <1>2. Counted'
    BY DEF RunsSame, Books, Counted, Executing
  <1>3. Mutex'
    BY DEF RunsSame, Books, Mutex, Pulling
  <1>4. alerted' \subseteq inFlight'
    BY DEF RunsSame
  <1> QED BY <1>1, <1>2, <1>3, <1>4 DEF Books

\* Only the registry may lose tasks, the alerts change and the clocks go on.
LEMMA QuietStep ==
  ASSUME Inv, RunsSame, UNCHANGED <<regs, queue, settled, ran, stops>>,
         reg' \in [Sched -> Nat], \A t \in Sched : reg'[t] = 0 \/ reg'[t] = reg[t],
         alerted' \subseteq inFlight, later' \in SUBSET Entry,
         starting' \subseteq starting, fires' \in Nat
  PROVE Inv'
  <1>0. TypeOK /\ RunOK /\ Books /\ Versions /\ OneShots /\ Places
    BY DEF Inv
  <1>1. /\ UNCHANGED regs /\ UNCHANGED queue /\ UNCHANGED settled /\ UNCHANGED ran
        /\ UNCHANGED stops /\ UNCHANGED run /\ UNCHANGED inFlight /\ UNCHANGED idle
        /\ UNCHANGED dequeuing /\ UNCHANGED shots
    BY DEF RunsSame
  <1>2. TypeOK'
    BY <1>0, <1>1 DEF TypeOK
  <1>3. RunOK'
    BY <1>0, <1>1, RunsSameKept, KeptRunOK
  <1>4. Books'
    BY <1>0, RunsSameBooks
  <1>5. Versions'
    BY <1>0, <1>1, RunsSameKept, KeptVersions
  <1>6. OneShots'
    BY <1>0, <1>1, RunsSameKept, KeptOneShots
  <1>7. Places'
    BY <1>0, <1>1 DEF Places, Pulling
  <1> QED BY <1>2, <1>3, <1>4, <1>5, <1>6, <1>7 DEF Inv

--------------------------------------------------------------------------------
(* Triggers *)

LEMMA StartOrSkipStep ==
  ASSUME Inv, NEW t \in Sched, NEW trigger, NEW ver, StartFacts(t, trigger, ver),
         StartOrSkip(t, trigger, ver), TriggerRest
  PROVE Inv'
  <1>0. TypeOK /\ t \in Id /\ alerted \subseteq inFlight
    BY IdKinds DEF Inv, Books
  <1>1. CASE t \in inFlight /\ Overlap(t)
    <2>1. RunsSame /\ alerted' \subseteq inFlight /\ reg' = reg
      BY <1>0, <1>1 DEF Overlap, RunsSame, TriggerRest
    <2> QED BY <1>0, <2>1, QuietStep DEF TriggerRest, TypeOK
  <1>2. CASE t \notin inFlight /\ Begin(t, trigger, ver)
    BY <1>2, BeginStep
  <1>3. CASE t \notin inFlight /\ NotRun(t)
    <2>1. RunsSame /\ alerted' \subseteq inFlight
      BY <1>0, <1>3 DEF NotRun, RunsSame, TriggerRest
    <2>2. reg' \in [Sched -> Nat] /\ \A s \in Sched : reg'[s] = 0 \/ reg'[s] = reg[s]
      <3>1. reg \in [Sched -> Nat]
        BY <1>0 DEF TypeOK
      <3>2. CASE AutoDisable(t)
        BY <3>1, <3>2 DEF AutoDisable
      <3>3. CASE UNCHANGED reg
        BY <3>1, <3>3
      <3> QED BY <1>3, <3>2, <3>3 DEF NotRun
    <2> QED BY <1>0, <2>1, <2>2, QuietStep DEF TriggerRest, TypeOK
  <1> QED BY <1>1, <1>2, <1>3 DEF StartOrSkip

LEMMA FireStep == ASSUME Inv, NEW t \in Sched, Fire(t) PROVE Inv'
  <1>1. StartOrSkip(t, "cron", reg[t]) /\ TriggerRest
    <2>1. fires \in Nat
      BY DEF Inv, TypeOK
    <2> QED BY <2>1 DEF Fire, TriggerRest
  <1>2. StartFacts(t, "cron", reg[t])
    <2>1. reg[t] \in Nat /\ regs[t] \in Nat /\ reg[t] # 0
      BY DEF Inv, TypeOK, Fire
    <2> QED BY <2>1 DEF StartFacts, Inv, Versions
  <1> QED BY <1>1, <1>2, StartOrSkipStep

LEMMA StartNextStep == ASSUME Inv, StartNext PROVE Inv'
  <1>1. PICK s \in starting : /\ starting' = starting \ {s}
                              /\ \/ StartOrSkip(s[1], "start", s[2])
                                 \/ UNCHANGED <<reg, run, inFlight, alerted, idle, shots>>
    BY DEF StartNext
  <1>2. UNCHANGED <<regs, dequeuing, queue, later, settled, ran, stops, fires>>
    BY DEF StartNext
  <1>3. TypeOK /\ alerted \subseteq inFlight
    BY DEF Inv, Books
  <1>4. TriggerRest
    BY <1>1, <1>2, <1>3 DEF TriggerRest, TypeOK
  <1>5. CASE StartOrSkip(s[1], "start", s[2])
    <2>1. s[1] \in Sched /\ s[2] \in Nat
      BY <1>3 DEF TypeOK
    <2>2. StartFacts(s[1], "start", s[2])
      BY <2>1 DEF StartFacts, Inv, Versions, Polled
    <2> QED BY <1>4, <1>5, <2>1, <2>2, StartOrSkipStep
  <1>6. CASE UNCHANGED <<reg, run, inFlight, alerted, idle, shots>>
    <2>1. RunsSame /\ reg' = reg /\ alerted' = alerted
      BY <1>2, <1>6 DEF RunsSame
    <2> QED BY <1>2, <1>3, <1>4, <2>1, QuietStep DEF TriggerRest, TypeOK
  <1> QED BY <1>1, <1>5, <1>6

--------------------------------------------------------------------------------
(* The pull tick *)

LEMMA Removed ==
  ASSUME NEW q \in Seq(Entry), NEW i \in DOMAIN q
  PROVE /\ RemoveAt(q, i) \in Seq(Entry) /\ Len(q) \in Nat /\ i \in 1 .. Len(q)
        /\ Len(RemoveAt(q, i)) = Len(q) - 1
        /\ \A k \in 1 .. Len(q) - 1 : RemoveAt(q, i)[k] = IF k < i THEN q[k] ELSE q[k + 1]
  <1> DEFINE a == SubSeq(q, 1, i - 1)
             b == SubSeq(q, i + 1, Len(q))
  <1>1. Len(q) \in Nat /\ DOMAIN q = 1 .. Len(q) /\ \A k \in 1 .. Len(q) : q[k] \in Entry
    BY LenProperties, ElementOfSeq
  <1>2. i \in 1 .. Len(q) /\ i \in Int /\ i - 1 \in Int /\ i + 1 \in Int /\ Len(q) \in Int
    BY <1>1
  <1>3. /\ a \in Seq(Entry) /\ Len(a) = i - 1
        /\ \A k \in 1 .. i - 1 : a[k] = q[k]
    <2>1. \A k \in 1 .. i - 1 : q[k] \in Entry
      BY <1>1, <1>2
    <2> QED BY <1>2, <2>1, SubSeqProperties
  <1>4. /\ b \in Seq(Entry) /\ Len(b) = Len(q) - i
        /\ \A k \in 1 .. Len(q) - i : b[k] = q[k + i]
    <2>1. \A k \in i + 1 .. Len(q) : q[k] \in Entry
      BY <1>1, <1>2
    <2>2. /\ b \in Seq(Entry)
          /\ Len(b) = IF i + 1 <= Len(q) THEN Len(q) - (i + 1) + 1 ELSE 0
          /\ \A k \in 1 .. Len(q) - (i + 1) + 1 : b[k] = q[(i + 1) + k - 1]
      BY <1>2, <2>1, SubSeqProperties
    <2> HIDE DEF b
    <2>3. Len(b) = Len(q) - i
      <3>1. CASE i + 1 <= Len(q)
        BY <1>1, <1>2, <2>2, <3>1
      <3>2. CASE ~(i + 1 <= Len(q))
        <4>1. i = Len(q)
          BY <1>1, <1>2, <3>2
        <4> QED BY <1>1, <2>2, <3>2, <4>1
      <3> QED BY <3>1, <3>2
    <2>4. ASSUME NEW k \in 1 .. Len(q) - i PROVE b[k] = q[k + i]
      <3>1. (i + 1) + k - 1 = k + i /\ k \in 1 .. Len(q) - (i + 1) + 1
        BY <1>1, <1>2
      <3> QED BY <2>2, <3>1
    <2> QED BY <2>2, <2>3, <2>4
  <1> HIDE DEF a, b
  <1>5. /\ a \o b \in Seq(Entry) /\ Len(a \o b) = Len(a) + Len(b)
        /\ \A k \in 1 .. Len(a) + Len(b) : (a \o b)[k] = IF k <= Len(a) THEN a[k] ELSE b[k - Len(a)]
    BY <1>3, <1>4, ConcatProperties
  <1>6. Len(a) + Len(b) = Len(q) - 1
    BY <1>1, <1>2, <1>3, <1>4
  <1>7. ASSUME NEW k \in 1 .. Len(q) - 1 PROVE (a \o b)[k] = IF k < i THEN q[k] ELSE q[k + 1]
    <2>1. CASE k < i
      <3>1. k \in 1 .. i - 1
        BY <1>1, <1>2, <2>1
      <3> QED BY <1>3, <1>5, <1>6, <2>1, <3>1
    <2>2. CASE ~(k < i)
      <3>1. ~(k <= Len(a)) /\ k - Len(a) \in 1 .. Len(q) - i /\ (k - Len(a)) + i = k + 1
        BY <1>1, <1>2, <1>3, <2>2
      <3> QED BY <1>4, <1>5, <1>6, <2>2, <3>1
    <2> QED BY <2>1, <2>2
  <1> QED BY <1>1, <1>2, <1>5, <1>6, <1>7 DEF RemoveAt, a, b

\* The entries of the queue are distinct and unfinished.
QueueOK(q) ==
  /\ \A i, j \in DOMAIN q : q[i] = q[j] => i = j
  /\ \A i \in DOMAIN q : settled[q[i]] = "no"

LEMMA Taken ==
  ASSUME NEW q \in Seq(Entry), QueueOK(q), NEW i \in DOMAIN q
  PROVE /\ QueueOK(RemoveAt(q, i)) /\ RemoveAt(q, i) \in Seq(Entry)
        /\ \A k \in DOMAIN RemoveAt(q, i) :
             RemoveAt(q, i)[k] # q[i] /\ \E j \in DOMAIN q : RemoveAt(q, i)[k] = q[j]
  <1> DEFINE rest == RemoveAt(q, i)
  <1>1. /\ rest \in Seq(Entry) /\ Len(q) \in Nat /\ i \in 1 .. Len(q)
        /\ Len(rest) = Len(q) - 1
        /\ \A k \in 1 .. Len(q) - 1 : rest[k] = IF k < i THEN q[k] ELSE q[k + 1]
    BY Removed
  <1> HIDE DEF rest
  <1>2. DOMAIN rest = 1 .. Len(q) - 1 /\ DOMAIN q = 1 .. Len(q)
    BY <1>1, LenProperties
  <1> DEFINE old(k) == IF k < i THEN k ELSE k + 1
  <1>3. \A k \in DOMAIN rest : rest[k] = q[old(k)] /\ old(k) \in DOMAIN q /\ old(k) # i
    BY <1>1, <1>2
  <1>4. \A k, l \in DOMAIN rest : old(k) = old(l) => k = l
    BY <1>1, <1>2
  <1> HIDE DEF old
  <1> QED BY <1>1, <1>3, <1>4 DEF QueueOK, rest

LEMMA Appended ==
  ASSUME NEW q \in Seq(Entry), QueueOK(q), NEW e \in Entry, settled[e] = "no",
         \A k \in DOMAIN q : q[k] # e
  PROVE /\ QueueOK(Append(q, e)) /\ Append(q, e) \in Seq(Entry)
        /\ \A k \in DOMAIN Append(q, e) :
             Append(q, e)[k] = e \/ \E j \in DOMAIN q : Append(q, e)[k] = q[j]
  <1>1. Len(q) \in Nat /\ DOMAIN q = 1 .. Len(q)
    BY LenProperties
  <1>2. /\ Append(q, e) \in Seq(Entry) /\ DOMAIN Append(q, e) = 1 .. Len(q) + 1
        /\ \A k \in 1 .. Len(q) : Append(q, e)[k] = q[k]
        /\ Append(q, e)[Len(q) + 1] = e
    BY <1>1
  <1>3. ASSUME NEW k \in 1 .. Len(q) + 1 PROVE k \in 1 .. Len(q) \/ k = Len(q) + 1
    BY <1>1
  <1>4. ASSUME NEW i \in 1 .. Len(q) + 1, NEW j \in 1 .. Len(q) + 1,
               Append(q, e)[i] = Append(q, e)[j]
        PROVE  i = j
    BY <1>1, <1>2, <1>3, <1>4 DEF QueueOK
  <1>5. ASSUME NEW i \in 1 .. Len(q) + 1
        PROVE  /\ settled[Append(q, e)[i]] = "no"
               /\ Append(q, e)[i] = e \/ \E j \in DOMAIN q : Append(q, e)[i] = q[j]
    BY <1>1, <1>2, <1>3 DEF QueueOK
  <1> QED BY <1>2, <1>4, <1>5 DEF QueueOK

LEMMA PullTickStep == ASSUME Inv, PullTick PROVE Inv'
  <1>0. TypeOK /\ RunOK /\ Books /\ Versions /\ OneShots /\ Places
    BY DEF Inv
  <1>1. PICK i \in DOMAIN queue :
          /\ later' = later \ {queue[i]}
          /\ IF overlapKeyOf(queue[i]) \in inFlight
             THEN /\ PutBack(queue[i], RemoveAt(queue, i))
                  /\ alerted' = alerted \cup {overlapKeyOf(queue[i])}
                  /\ UNCHANGED <<run, inFlight, dequeuing>>
             ELSE /\ HasFree
                  /\ queue' = RemoveAt(queue, i) /\ UNCHANGED settled
                  /\ dequeuing' = TRUE
                  /\ inFlight' = inFlight \cup {overlapKeyOf(queue[i])}
                  /\ Enter(queue[i], "pull", 0, "gate")
                  /\ UNCHANGED alerted
    BY DEF PullTick, Ripe
  <1>2. /\ UNCHANGED reg /\ UNCHANGED regs /\ UNCHANGED idle /\ UNCHANGED shots /\ UNCHANGED ran
        /\ UNCHANGED starting /\ UNCHANGED stops /\ UNCHANGED fires /\ ~dequeuing
    BY DEF PullTick
  <1> DEFINE e == queue[i]
             rest == RemoveAt(queue, i)
  <1>3. e \in Entry /\ e \in Id
    BY <1>0, <1>1, ElementOfSeq, LenProperties DEF TypeOK, Id
  <1>4. queue \in Seq(Entry) /\ QueueOK(queue)
    BY <1>0 DEF TypeOK, Places, QueueOK
  <1>5. /\ QueueOK(rest) /\ rest \in Seq(Entry)
        /\ \A k \in DOMAIN rest : rest[k] # e /\ \E j \in DOMAIN queue : rest[k] = queue[j]
    BY <1>4, Taken
  <1>6. settled[e] = "no"
    BY <1>4 DEF QueueOK
  <1>7. /\ later' = later \ {e}
        /\ \/ /\ overlapKeyOf(e) \in inFlight
              /\ PutBack(e, rest)
              /\ alerted' = alerted \cup {overlapKeyOf(e)}
              /\ UNCHANGED <<run, inFlight, dequeuing>>
           \/ /\ overlapKeyOf(e) \notin inFlight
              /\ HasFree
              /\ queue' = rest /\ UNCHANGED settled
              /\ dequeuing' = TRUE
              /\ inFlight' = inFlight \cup {overlapKeyOf(e)}
              /\ Enter(e, "pull", 0, "gate")
              /\ UNCHANGED alerted
    BY <1>1
  <1> HIDE DEF e, rest
  <1>a. CASE /\ overlapKeyOf(e) \in inFlight
             /\ PutBack(e, rest)
             /\ alerted' = alerted \cup {overlapKeyOf(e)}
             /\ UNCHANGED <<run, inFlight, dequeuing>>
    <2>1. RunsSame /\ alerted' \subseteq inFlight /\ queue' = Append(rest, e) /\ UNCHANGED settled
          /\ UNCHANGED run /\ UNCHANGED inFlight /\ UNCHANGED dequeuing
      BY <1>0, <1>2, <1>a DEF RunsSame, Books, PutBack
    <2>2. /\ QueueOK(queue') /\ queue' \in Seq(Entry)
          /\ \A k \in DOMAIN queue' : \E j \in DOMAIN queue : queue'[k] = queue[j]
      <3>1. /\ QueueOK(queue') /\ queue' \in Seq(Entry)
            /\ \A k \in DOMAIN queue' : queue'[k] = e \/ \E j \in DOMAIN rest : queue'[k] = rest[j]
        BY <1>3, <1>5, <1>6, <2>1, Appended
      <3> QED BY <1>1, <1>5, <3>1 DEF e
    <2>3. TypeOK'
      BY <1>0, <1>2, <1>7, <2>1, <2>2 DEF TypeOK
    <2>4. RunOK' /\ Versions' /\ OneShots'
      BY <1>0, <1>2, <2>1, RunsSameKept, KeptRunOK, KeptVersions, KeptOneShots
    <2>5. Books'
      BY <1>0, <2>1, RunsSameBooks
    <2>6. Places'
      BY <1>0, <1>2, <2>1, <2>2 DEF Places, QueueOK, Pulling
    <2> QED BY <2>3, <2>4, <2>5, <2>6 DEF Inv
  <1>b. CASE /\ overlapKeyOf(e) \notin inFlight
             /\ HasFree
             /\ queue' = rest /\ UNCHANGED settled
             /\ dequeuing' = TRUE
             /\ inFlight' = inFlight \cup {overlapKeyOf(e)}
             /\ Enter(e, "pull", 0, "gate")
             /\ UNCHANGED alerted
    <2> DEFINE f == FreeSlot
    <2>2. f \in Slot /\ New(f, e, "pull", 0, "gate")
      BY <1>0, <1>b, Entered
    <2>3. run' \in [Slot -> Run \cup {Free}]
      BY <1>0, <1>3, <1>b, EnterType DEF Starting, Trigger
    <2> HIDE DEF f
    <2>4. TypeOK'
      BY <1>0, <1>2, <1>3, <1>5, <1>7, <1>b, <2>3, KeyIsId DEF TypeOK
    <2>5. RunOK'
      BY <1>0, <1>2, <1>3, <2>2, NewRunOK DEF Starting, TypeOK
    <2>6. KeysDistinct' /\ KeysInFlight' /\ (alerted \subseteq inFlight)'
      BY <1>0, <1>3, <1>b, <2>2, NewKeys DEF Books
    <2>7. Executors' = Executors
      BY <2>2 DEF New, Executors, Executing, Busy
    <2>8. Counted'
      BY <1>0, <1>2, <2>7, Stays DEF Books
    <2>9. Mutex'
      BY <1>0, <1>2, <1>b, <2>2 DEF Books, Mutex, New, Pulling
    <2>10. Versions'
      BY <1>0, <1>2, <2>2, NewVersions DEF TypeOK
    <2>11. OneShots'
      <3>1. e \notin Polled
        BY <1>3, SchedAssumption, IdKinds DEF Polled
      <3> QED BY <1>0, <1>2, <2>2, <3>1, NewGateOneShots
    <2>12. Places'
      <3>1. \A r \in Slot : ~Pulling(r)
        BY <1>0, <1>2 DEF Books, Mutex
      <3>2. ASSUME NEW r \in Slot, Pulling(r)'
            PROVE run'[r].id = e /\ run'[r].at = "gate"
        BY <2>2, <3>1, <3>2 DEF New, Pulling
      <3> QED BY <1>0, <1>2, <1>5, <1>6, <1>b, <3>2 DEF Places, QueueOK
    <2> QED BY <2>4, <2>5, <2>6, <2>8, <2>9, <2>10, <2>11, <2>12 DEF Inv, Books
  <1> QED BY <1>7, <1>a, <1>b

--------------------------------------------------------------------------------
(* The steps of a run *)

\* Of a step of r: the other slots are as they were.
LEMMA OneSlot ==
  ASSUME TypeOK, NEW r \in Slot, NEW new, run' = [run EXCEPT ![r] = new]
  PROVE run'[r] = new /\ \A s \in Slot : s # r => run'[s] = run[s]
  BY DEF TypeOK

LEMMA OneSlotType ==
  ASSUME TypeOK, NEW r \in Slot, NEW new \in Run \cup {Free}, run' = [run EXCEPT ![r] = new]
  PROVE run' \in [Slot -> Run \cup {Free}]
  BY DEF TypeOK

\* The slot is given back, by a run that is not pulled or one that is finalised.
LEMMA FreedSlot ==
  ASSUME TypeOK, NEW r \in Slot, run' = [run EXCEPT ![r] = Free]
  PROVE /\ run' \in [Slot -> Run \cup {Free}] /\ Gone(r) /\ ~Guarded(r)' /\ ~Pulling(r)'
        /\ ~Executing(r)' /\ \A s \in Slot : s # r => run'[s] = run[s]
  <1>1. run'[r] = Free /\ \A s \in Slot : s # r => run'[s] = run[s]
    BY OneSlot
  <1>2. run' \in [Slot -> Run \cup {Free}]
    BY OneSlotType
  <1> QED BY <1>1, <1>2 DEF Gone, Guarded, Pulling, Executing, Free

\* What End makes of its run.
Ended(r, status) ==
  /\ ~Guarded(r)' /\ ~Executing(r)'
  /\ Gone(r) \/ Same(r)
  /\ Pulling(r)' <=> Pulling(r)
  /\ Pulling(r) => run'[r].at = "done" /\ run'[r].status = status
  /\ \A s \in Slot : s # r => run'[s] = run[s]

LEMMA EndedSlot ==
  ASSUME TypeOK, NEW r \in Slot, Guarded(r), NEW status \in Status, End(r, status)
  PROVE run' \in [Slot -> Run \cup {Free}] /\ Ended(r, status)
  <1>1. run[r] \in Run /\ Busy(r)
    BY BusyIsRun, GuardedIsBusy
  <1>2. CASE Pulling(r)
    <2> DEFINE new == [run[r] EXCEPT !.at = "done", !.status = status]
    <2>1. /\ new \in Run /\ new.at = "done" /\ new.status = status /\ new.id = run[r].id
          /\ new.key = run[r].key /\ new.trigger = run[r].trigger /\ new.ver = run[r].ver
          /\ new.born = run[r].born
      BY <1>1 DEF Run
    <2>2. run' = [run EXCEPT ![r] = new]
      BY <1>2 DEF End
    <2>3. run'[r] = new /\ \A s \in Slot : s # r => run'[s] = run[s]
      BY <2>2, OneSlot
    <2>4. run' \in [Slot -> Run \cup {Free}]
      BY <2>1, <2>2, OneSlotType
    <2> HIDE DEF new
    <2>5. Same(r)
      BY <1>1, <1>2, <2>1, <2>3 DEF Same, Busy
    <2> QED BY <1>2, <2>1, <2>3, <2>4, <2>5 DEF Ended, Guarded, Executing, Pulling
  <1>3. CASE ~Pulling(r)
    <2>1. run' = [run EXCEPT ![r] = Free]
      BY <1>3 DEF End
    <2> QED BY <1>3, <2>1, FreedSlot DEF Ended
  <1> QED BY <1>2, <1>3

\* A run ends: it had a session, or is refused one.
LEMMA EndStep ==
  ASSUME Inv, NEW r \in Slot, Guarded(r), NEW status \in Status, End(r, status),
         UNCHANGED world, UNCHANGED shots, UNCHANGED ran, idle' \in Nat,
         IF Executing(r) THEN Leave ELSE UNCHANGED idle,
         Pulling(r) => status \in {"budget", "cwd"} \/ run[r].id \in ran
  PROVE Inv'
  <1>0. TypeOK /\ RunOK /\ Books /\ Versions /\ OneShots /\ Places
    BY DEF Inv
  <1>1. run' \in [Slot -> Run \cup {Free}] /\ Ended(r, status)
    BY <1>0, EndedSlot
  <1>2. /\ UNCHANGED regs /\ UNCHANGED dequeuing /\ UNCHANGED queue /\ UNCHANGED later
        /\ UNCHANGED settled /\ UNCHANGED starting /\ UNCHANGED stops /\ UNCHANGED fires
    BY DEF world
  <1>3. /\ inFlight' = inFlight \ {run[r].key} /\ alerted' = alerted \ {run[r].key}
        /\ IF run[r].id \in OneShot THEN AutoDisable(run[r].id) ELSE UNCHANGED reg
    BY DEF End
  <1>4. Busy(r) /\ run[r].id \in Id
    BY <1>0, GuardedIsBusy, Fields
  <1>5. /\ reg' \in [Sched -> Nat] /\ \A t \in Sched : reg'[t] = 0 \/ reg'[t] = reg[t]
        /\ run[r].id \in OneShot => reg'[run[r].id] = 0
    <2>1. reg \in [Sched -> Nat]
      BY <1>0 DEF TypeOK
    <2>2. CASE run[r].id \in OneShot
      BY <1>3, <2>1, <2>2, SchedAssumption DEF AutoDisable
    <2>3. CASE run[r].id \notin OneShot
      BY <1>3, <2>1, <2>3
    <2> QED BY <2>2, <2>3
  <1>6. \A s \in Slot : /\ Kept(s)
                        /\ Guarded(s)' <=> Guarded(s) /\ s # r
                        /\ Pulling(s)' <=> Pulling(s)
    BY <1>1 DEF Ended, Kept, Guarded, Pulling
  <1>7. TypeOK'
    BY <1>0, <1>1, <1>2, <1>3, <1>5 DEF TypeOK
  <1>8. RunOK'
    BY <1>0, <1>2, <1>6, KeptRunOK
  <1>9. KeysDistinct' /\ KeysInFlight' /\ (alerted \subseteq inFlight)'
    <2>1. KeysDistinct'
      BY <1>0, <1>6, KeptDistinct DEF Books
    <2>2. \A s \in Slot : s # r => run'[s] = run[s]
      BY <1>1 DEF Ended
    <2>3. KeysInFlight'
      BY <1>0, <1>3, <1>6, <2>2 DEF Books, KeysDistinct, KeysInFlight
    <2> QED BY <1>0, <1>3, <2>1, <2>3 DEF Books
  <1>10. Counted'
    <2>1. Executors' = Executors \ {r}
      BY <1>1 DEF Ended, Executors, Executing
    <2>2. CASE Executing(r)
      BY <1>0, <2>1, <2>2, Leaves DEF Books
    <2>3. CASE ~Executing(r)
      <3>1. Executors' = Executors
        BY <2>1, <2>3 DEF Executors
      <3> QED BY <1>0, <2>3, <3>1, Stays DEF Books
    <2> QED BY <2>2, <2>3
  <1>11. Mutex'
    BY <1>0, <1>2, <1>6, KeptMutex DEF Books
  <1>12. Versions'
    BY <1>0, <1>2, <1>5, <1>6, KeptVersions
  <1>13. OneShots'
    <2>1. ASSUME NEW t \in Polled, On(t) PROVE On(t)' \/ reg'[t] = 0
      <3>1. PICK s \in Slot : Guarded(s) /\ run[s].id = t
        BY <2>1 DEF On
      <3>2. CASE s = r
        BY <1>5, <3>1, <3>2 DEF Polled
      <3>3. CASE s # r
        BY <1>1, <1>6, <3>1, <3>3 DEF On, Ended
      <3> QED BY <3>2, <3>3
    <2> QED BY <1>0, <1>2, <1>5, <1>6, <2>1, KeptOneShots
  <1>14. Places'
    <2>1. ASSUME NEW s \in Slot, Pulling(s)'
          PROVE /\ run'[s].at = "session" => run[s].id \in ran'
                /\ run'[s].at = "done" => run'[s].status \in {"budget", "cwd"} \/ run[s].id \in ran'
      <3>1. CASE s = r
        BY <1>1, <1>6, <2>1, <3>1 DEF Ended
      <3>2. CASE s # r
        BY <1>0, <1>1, <1>6, <2>1, <3>2 DEF Ended, Places
      <3> QED BY <3>1, <3>2
    <2> QED BY <1>0, <1>2, <1>6, <2>1, KeptPlaces
  <1> QED BY <1>7, <1>8, <1>9, <1>10, <1>11, <1>12, <1>13, <1>14 DEF Inv, Books

\* A run goes on in its slot, at an await where it executes.
LEMMA GoesOn ==
  ASSUME Inv, NEW r \in Slot, Guarded(r), Same(r), run' \in [Slot -> Run \cup {Free}],
         \A s \in Slot : s # r => run'[s] = run[s], Executing(r)',
         UNCHANGED world, UNCHANGED reg, UNCHANGED inFlight, UNCHANGED alerted,
         ran \subseteq ran', ran' \in SUBSET Entry, idle' \in Nat,
         IF Executing(r) THEN UNCHANGED idle ELSE idle' = idle + 1,
         shots' \in [Sched -> Seq(Nat)], OneShots',
         Pulling(r) => run[r].id \in ran'
  PROVE Inv'
  <1>0. TypeOK /\ RunOK /\ Books /\ Versions /\ OneShots /\ Places
    BY DEF Inv
  <1>1. /\ UNCHANGED regs /\ UNCHANGED dequeuing /\ UNCHANGED queue /\ UNCHANGED later
        /\ UNCHANGED settled /\ UNCHANGED starting /\ UNCHANGED stops /\ UNCHANGED fires
    BY DEF world
  <1>2. \A s \in Slot : /\ Kept(s)
                        /\ Guarded(s)' <=> Guarded(s)
                        /\ Pulling(s)' <=> Pulling(s)
    BY DEF Kept, Guarded, Pulling, Executing, Same
  <1>3. TypeOK'
    BY <1>0, <1>1 DEF TypeOK
  <1>4. RunOK' /\ Versions'
    BY <1>0, <1>1, <1>2, KeptRunOK, KeptVersions
  <1>5. KeysDistinct' /\ KeysInFlight' /\ (alerted \subseteq inFlight)' /\ Mutex'
    BY <1>0, <1>1, <1>2, KeptDistinct, KeptInFlight, KeptMutex DEF Books
  <1>6. Counted'
    <2>1. CASE Executing(r)
      <3>1. Executors' = Executors
        BY <2>1 DEF Executors, Executing
      <3> QED BY <1>0, <2>1, <3>1, Stays DEF Books
    <2>2. CASE ~Executing(r)
      <3>1. Executors' = Executors \cup {r}
        BY <2>2 DEF Executors, Executing
      <3> QED BY <1>0, <2>2, <3>1, Joins DEF Books
    <2> QED BY <2>1, <2>2
  <1>7. Places'
    <2>1. ASSUME NEW s \in Slot, Pulling(s)'
          PROVE /\ run'[s].at = "session" => run[s].id \in ran'
                /\ run'[s].at = "done" => run'[s].status \in {"budget", "cwd"} \/ run[s].id \in ran'
      <3>1. CASE s = r
        BY <1>2, <2>1, <3>1
      <3>2. CASE s # r
        BY <1>0, <1>2, <2>1, <3>2 DEF Places
      <3> QED BY <3>1, <3>2
    <2> QED BY <1>0, <1>1, <1>2, <2>1, KeptPlaces
  <1> QED BY <1>3, <1>4, <1>5, <1>6, <1>7 DEF Inv, Books

LEMMA BudgetPassStep == ASSUME Inv, NEW r \in Slot, BudgetPass(r) PROVE Inv'
  <1>0. TypeOK /\ RunOK /\ Books /\ Versions /\ OneShots /\ Places
    BY DEF Inv
  <1>1. /\ run[r].at = "gate" /\ idle' = idle + 1
        /\ UNCHANGED world /\ UNCHANGED reg /\ UNCHANGED inFlight /\ UNCHANGED alerted
        /\ IF Pulling(r)
           THEN ran' = ran \cup {run[r].id} /\ UNCHANGED shots
           ELSE Shot(run[r].id, run[r].ver) /\ UNCHANGED ran
    BY DEF BudgetPass
  <1>2. Guarded(r) /\ ~Executing(r) /\ Busy(r)
    BY <1>1 DEF Guarded, Executing, Busy
  <1>3. run[r] \in Run
    BY <1>0, <1>2, BusyIsRun
  <1> DEFINE new == [run[r] EXCEPT !.at = "session", !.tries = 1, !.signal = stops]
  <1>4. /\ new \in Run /\ new.at = "session" /\ new.tries >= 1 /\ new.id = run[r].id /\ new.key = run[r].key
        /\ new.trigger = run[r].trigger /\ new.ver = run[r].ver /\ new.born = run[r].born
    <2>1. new \in Run
      BY <1>0, <1>3 DEF Run, TypeOK
    <2>2. new.at = "session" /\ new.tries = 1
      BY <1>3 DEF Run
    <2>3. /\ new.id = run[r].id /\ new.key = run[r].key /\ new.trigger = run[r].trigger
          /\ new.ver = run[r].ver /\ new.born = run[r].born
      BY <1>3 DEF Run
    <2> QED BY <2>1, <2>2, <2>3
  <1>5. run' = [run EXCEPT ![r] = new]
    BY DEF BudgetPass
  <1>6. run'[r] = new /\ \A s \in Slot : s # r => run'[s] = run[s]
    BY <1>0, <1>5, OneSlot
  <1>7. run' \in [Slot -> Run \cup {Free}]
    BY <1>0, <1>4, <1>5, OneSlotType
  <1> HIDE DEF new
  <1>8. Same(r) /\ Executing(r)' /\ Guarded(r)'
    BY <1>2, <1>4, <1>6 DEF Same, Busy, Executing, Guarded
  <1>9. shots' \in [Sched -> Seq(Nat)] /\ OneShots' /\ ran \subseteq ran' /\ ran' \in SUBSET Entry
    <2>1. shots \in [Sched -> Seq(Nat)] /\ regs \in [Sched -> Nat] /\ ran \subseteq Entry
          /\ UNCHANGED regs
      BY <1>0, <1>1 DEF TypeOK, world
    <2>2. \A t : On(t) => On(t)'
      BY <1>6, <1>8 DEF On, Same, Guarded
    <2>3. CASE Pulling(r)
      <3>1. run[r].id \in Entry
        BY <1>0, <2>3 DEF RunOK
      <3>2. \A s \in Slot : Kept(s)
        BY <1>6, <1>8 DEF Kept
      <3> QED BY <1>0, <1>1, <2>1, <2>2, <2>3, <3>1, <3>2, KeptOneShots
    <2>4. CASE ~Pulling(r)
      <3>a. run[r].id \in Sched /\ run[r].ver \in Nat
        BY <1>0, <1>2, <2>4, Fields DEF RunOK
      <3>b. PICK t \in Sched, ver \in Nat : t = run[r].id /\ ver = run[r].ver
        BY <3>a
      <3>1. t \in Sched /\ ver \in Nat /\ ver <= regs[t] /\ Shot(t, ver) /\ UNCHANGED ran
        BY <1>0, <1>1, <1>2, <2>4, <3>b DEF Versions
      <3>2. t \in Polled => ~Started(t, ver)
        BY <1>0, <1>1, <3>b DEF OneShots
      <3>3. On(t)'
        BY <1>8, <3>b DEF On, Same
      <3>4. ASSUME NEW s \in Slot, run'[s].at = "gate" PROVE run'[s] = run[s] /\ run[s].id # t
        <4>1. s # r
          BY <1>4, <1>6, <3>4
        <4>2. Guarded(s) /\ run'[s] = run[s]
          BY <1>6, <3>4, <4>1 DEF Guarded
        <4>3. run[s].key = overlapKeyOf(run[s].id) /\ run[r].key = overlapKeyOf(t)
          BY <1>0, <1>2, <3>b, <4>2, GuardedInFlight DEF Books
        <4> QED BY <1>0, <1>2, <3>b, <4>1, <4>2, <4>3 DEF Books, KeysDistinct
      <3>5. shots' \in [Sched -> Seq(Nat)]
        BY <2>1, <3>1, ShotType
      <3>6. OneShots'
        BY <1>0, <1>1, <2>1, <2>2, <3>1, <3>2, <3>3, <3>4, ShotOneShots
      <3> QED BY <2>1, <3>1, <3>5, <3>6
    <2> QED BY <2>3, <2>4
  <1>10. idle' \in Nat
    BY <1>0, <1>1 DEF TypeOK
  <1> QED BY <1>1, <1>2, <1>6, <1>7, <1>8, <1>9, <1>10, GoesOn

\* A change of at, and of tries, that keeps a run executing.
LEMMA Continues ==
  ASSUME Inv, NEW r \in Slot, Executing(r), ~Pulling(r) \/ run[r].at = "session",
         NEW new \in Run, run' = [run EXCEPT ![r] = new],
         new.at \in {"session", "sleep"}, new.at = "sleep" => ~Pulling(r), new.tries >= 1, new.id = run[r].id,
         new.key = run[r].key, new.trigger = run[r].trigger, new.ver = run[r].ver,
         new.born = run[r].born,
         UNCHANGED world, UNCHANGED reg, UNCHANGED inFlight, UNCHANGED alerted, UNCHANGED idle,
         UNCHANGED shots, UNCHANGED ran
  PROVE Inv'
  <1>0. TypeOK /\ OneShots /\ Places
    BY DEF Inv
  <1>1. Guarded(r) /\ Busy(r)
    BY DEF Guarded, Executing, Busy
  <1>2. run'[r] = new /\ \A s \in Slot : s # r => run'[s] = run[s]
    BY <1>0, OneSlot
  <1>3. run' \in [Slot -> Run \cup {Free}]
    BY <1>0, OneSlotType
  <1>4. Same(r) /\ Executing(r)'
    BY <1>1, <1>2 DEF Same, Busy, Executing
  <1>5. OneShots'
    <2>1. \A s \in Slot : Kept(s)
      BY <1>2, <1>4 DEF Kept
    <2>2. \A t : On(t) => On(t)'
      BY <1>2, <1>4 DEF On, Same, Guarded, Executing
    <2>3. UNCHANGED regs
      BY DEF world
    <2> QED BY <1>0, <2>1, <2>2, <2>3, KeptOneShots
  <1>6. Pulling(r) => run[r].id \in ran
    BY <1>0 DEF Places
  <1>7. shots' \in [Sched -> Seq(Nat)] /\ ran' \in SUBSET Entry /\ idle' \in Nat
    BY <1>0 DEF TypeOK
  <1> QED BY <1>1, <1>2, <1>3, <1>4, <1>5, <1>6, <1>7, GoesOn

LEMMA LeaveType == ASSUME Inv, Leave PROVE idle' \in Nat
  BY DEF Inv, TypeOK, Leave

\* A builtin is over, or a pulled entry is finalised.
LEMMA Frees ==
  ASSUME Inv, NEW r \in Slot, run' = [run EXCEPT ![r] = Free], ~Guarded(r), ~Executing(r),
         UNCHANGED reg, UNCHANGED regs, UNCHANGED inFlight, UNCHANGED alerted, UNCHANGED idle,
         UNCHANGED shots, UNCHANGED starting, UNCHANGED stops
  PROVE /\ run' \in [Slot -> Run \cup {Free}] /\ RunOK' /\ Versions' /\ OneShots'
        /\ KeysDistinct' /\ KeysInFlight' /\ (alerted \subseteq inFlight)' /\ Counted'
        /\ Gone(r) /\ ~Pulling(r)' /\ \A s \in Slot : s # r => run'[s] = run[s]
  <1>0. TypeOK /\ RunOK /\ Books /\ Versions /\ OneShots /\ Places
    BY DEF Inv
  <1>1. /\ run' \in [Slot -> Run \cup {Free}] /\ Gone(r) /\ ~Guarded(r)' /\ ~Pulling(r)'
        /\ ~Executing(r)' /\ \A s \in Slot : s # r => run'[s] = run[s]
    BY <1>0, FreedSlot
  <1>2. \A s \in Slot : Kept(s) /\ (Guarded(s)' <=> Guarded(s)) /\ (Executing(s)' <=> Executing(s))
    BY <1>1 DEF Kept, Guarded, Executing
  <1>3. RunOK' /\ Versions'
    BY <1>0, <1>2, KeptRunOK, KeptVersions
  <1>4. OneShots'
    <2>1. \A t : On(t) => On(t)'
      BY <1>1, <1>2 DEF On
    <2> QED BY <1>0, <1>2, <2>1, KeptOneShots
  <1>5. KeysDistinct' /\ KeysInFlight' /\ (alerted \subseteq inFlight)'
    BY <1>0, <1>2, KeptDistinct, KeptInFlight DEF Books
  <1>6. Counted'
    <2>1. Executors' = Executors
      BY <1>2 DEF Executors
    <2> QED BY <1>0, <2>1, Stays DEF Books
  <1> QED BY <1>1, <1>3, <1>4, <1>5, <1>6

LEMMA FreesStep ==
  ASSUME Inv, NEW r \in Slot, run' = [run EXCEPT ![r] = Free], ~Guarded(r), ~Executing(r),
         ~Pulling(r), UNCHANGED world,
         UNCHANGED reg, UNCHANGED inFlight, UNCHANGED alerted, UNCHANGED idle,
         UNCHANGED shots, UNCHANGED ran
  PROVE Inv'
  <1>0. TypeOK /\ Books /\ Places
    BY DEF Inv
  <1>1. /\ UNCHANGED regs /\ UNCHANGED dequeuing /\ UNCHANGED queue /\ UNCHANGED later
        /\ UNCHANGED settled /\ UNCHANGED starting /\ UNCHANGED stops /\ UNCHANGED fires
    BY DEF world
  <1>2. /\ run' \in [Slot -> Run \cup {Free}] /\ RunOK' /\ Versions' /\ OneShots'
        /\ KeysDistinct' /\ KeysInFlight' /\ (alerted \subseteq inFlight)' /\ Counted'
        /\ Gone(r) /\ ~Pulling(r)' /\ \A s \in Slot : s # r => run'[s] = run[s]
    BY <1>1, Frees
  <1>3. TypeOK'
    BY <1>0, <1>1, <1>2 DEF TypeOK
  <1>4. \A s \in Slot : Kept(s) /\ (Pulling(s)' <=> Pulling(s)) /\ (Pulling(s) => run'[s] = run[s])
    BY <1>2 DEF Kept, Pulling
  <1>5. Mutex'
    BY <1>0, <1>1, <1>4, KeptMutex DEF Books
  <1>6. Places'
    BY <1>0, <1>1, <1>4, KeptPlaces DEF Places
  <1> QED BY <1>2, <1>3, <1>5, <1>6 DEF Inv, Books

LEMMA PullEndStep == ASSUME Inv, NEW r \in Slot, PullEnd(r) PROVE Inv'
  <1>0. TypeOK /\ RunOK /\ Books /\ Places
    BY DEF Inv
  <1>1. /\ run[r].at = "done" /\ Finalise(r) /\ dequeuing' = FALSE
        /\ run' = [run EXCEPT ![r] = Free]
        /\ UNCHANGED reg /\ UNCHANGED regs /\ UNCHANGED inFlight /\ UNCHANGED alerted
        /\ UNCHANGED idle /\ UNCHANGED queue /\ UNCHANGED later /\ UNCHANGED shots
        /\ UNCHANGED ran /\ UNCHANGED starting /\ UNCHANGED stops /\ UNCHANGED fires
    BY DEF PullEnd
  <1>2. Busy(r) /\ ~Guarded(r) /\ ~Executing(r)
    BY <1>1 DEF Busy, Guarded, Executing
  <1>3. Pulling(r) /\ run[r].id \in Entry
    BY <1>0, <1>1, <1>2 DEF RunOK
  <1>4. /\ run' \in [Slot -> Run \cup {Free}] /\ RunOK' /\ Versions' /\ OneShots'
        /\ KeysDistinct' /\ KeysInFlight' /\ (alerted \subseteq inFlight)' /\ Counted'
        /\ Gone(r) /\ ~Pulling(r)' /\ \A s \in Slot : s # r => run'[s] = run[s]
    BY <1>1, <1>2, Frees
  <1>5. /\ settled' \in [Entry -> {"no", "succeeded", "failed"}]
        /\ \A e \in Entry : e # run[r].id => settled'[e] = settled[e]
    BY <1>0, <1>3, <1>1 DEF TypeOK, Finalise
  <1>6. TypeOK'
    BY <1>0, <1>1, <1>4, <1>5 DEF TypeOK
  <1>7. \A s \in Slot : ~Pulling(s)'
    BY <1>0, <1>3, <1>4 DEF Books, Mutex, Pulling
  <1>8. Mutex'
    BY <1>1, <1>7 DEF Mutex
  <1>9. Places'
    <2>1. \A i \in DOMAIN queue : queue[i] # run[r].id /\ settled[queue[i]] = "no"
      BY <1>0, <1>3 DEF Places
    <2>2. \A i \in DOMAIN queue : queue[i] \in Entry
      BY <1>0, LenProperties, ElementOfSeq DEF TypeOK
    <2> QED BY <1>0, <1>1, <1>5, <1>7, <2>1, <2>2 DEF Places
  <1> QED BY <1>4, <1>6, <1>8, <1>9 DEF Inv, Books

LEMMA StepOfRun == ASSUME Inv, NEW r \in Slot, RunStep(r) PROVE Inv'
  <1>0. TypeOK /\ RunOK /\ Books /\ Versions /\ OneShots /\ Places
    BY DEF Inv
  <1>1. CASE BudgetPass(r)
    BY <1>1, BudgetPassStep
  <1>2. CASE NoSession(r)
    <2>1. run[r].at = "gate" /\ UNCHANGED world /\ UNCHANGED idle /\ UNCHANGED shots /\ UNCHANGED ran
      BY <1>2 DEF NoSession
    <2>2. PICK status \in {"budget", "cwd"} : End(r, status)
      BY <1>2 DEF NoSession
    <2>3. Guarded(r) /\ ~Executing(r) /\ status \in Status /\ idle' \in Nat
      BY <1>0, <2>1 DEF Guarded, Executing, Status, TypeOK
    <2> QED BY <2>1, <2>2, <2>3, EndStep
  <1>3. CASE SessionOk(r) \/ SessionFails(r)
    <2>1. /\ run[r].at = "session" /\ UNCHANGED world /\ UNCHANGED shots /\ UNCHANGED ran /\ Leave
      BY <1>3 DEF SessionOk, SessionFails
    <2>2. PICK status \in {"success", "error"} : End(r, status)
      BY <1>3 DEF SessionOk, SessionFails
    <2>3. Guarded(r) /\ Executing(r) /\ status \in Status
      BY <2>1 DEF Guarded, Executing, Status
    <2>4. Pulling(r) => run[r].id \in ran
      BY <1>0, <2>1 DEF Places
    <2> QED BY <2>1, <2>2, <2>3, <2>4, LeaveType, EndStep
  <1>4. CASE Backoff(r)
    <2>1. /\ run[r].at = "session" /\ run[r].tries < Tries(r)
          /\ UNCHANGED world /\ UNCHANGED reg /\ UNCHANGED inFlight /\ UNCHANGED alerted
          /\ UNCHANGED idle /\ UNCHANGED shots /\ UNCHANGED ran
      BY <1>4 DEF Backoff
    <2>2. Busy(r) /\ Executing(r) /\ run[r] \in Run
      BY <1>0, <2>1, BusyIsRun DEF Busy, Executing
    <2>3. run[r].tries >= 1 /\ run[r].tries \in Nat
      BY <1>0, <2>1, <2>2 DEF RunOK, Run
    <2>4. ~Pulling(r)
      BY <2>1, <2>3 DEF Tries
    <2> DEFINE new == [run[r] EXCEPT !.at = "sleep"]
    <2>5. /\ new \in Run /\ new.at = "sleep" /\ new.tries >= 1 /\ new.id = run[r].id
          /\ new.key = run[r].key /\ new.trigger = run[r].trigger /\ new.ver = run[r].ver
          /\ new.born = run[r].born
      BY <2>2, <2>3 DEF Run
    <2>6. run' = [run EXCEPT ![r] = new]
      BY <1>4 DEF Backoff
    <2> HIDE DEF new
    <2> QED BY <2>1, <2>2, <2>4, <2>5, <2>6, Continues
  <1>5. CASE Wake(r)
    <2>1. run[r].at = "sleep" /\ UNCHANGED world /\ UNCHANGED shots /\ UNCHANGED ran
      BY <1>5 DEF Wake
    <2>2. Busy(r) /\ Executing(r) /\ Guarded(r) /\ run[r] \in Run
      BY <1>0, <2>1, BusyIsRun DEF Busy, Executing, Guarded
    <2>3. ~Pulling(r)
      BY <1>0, <2>1, <2>2 DEF RunOK
    <2>4. CASE stopped(r)
      <3>1. End(r, "error") /\ Leave
        BY <1>5, <2>4 DEF Wake
      <3> QED BY <2>1, <2>2, <2>3, <3>1, LeaveType, EndStep DEF Status
    <2>5. CASE ~stopped(r)
      <3> DEFINE new == [run[r] EXCEPT !.at = "session", !.tries = @ + 1]
      <3>1. run' = [run EXCEPT ![r] = new]
        BY <1>5, <2>5 DEF Wake
      <3>2. /\ UNCHANGED reg /\ UNCHANGED inFlight /\ UNCHANGED alerted /\ UNCHANGED idle
        BY <1>5, <2>5 DEF Wake
      <3>3. /\ new \in Run /\ new.at = "session" /\ new.tries >= 1 /\ new.id = run[r].id
            /\ new.key = run[r].key /\ new.trigger = run[r].trigger /\ new.ver = run[r].ver
            /\ new.born = run[r].born
        <4>1. run[r].tries \in Nat /\ run[r].tries + 1 \in Nat /\ run[r].tries + 1 >= 1
          BY <2>2 DEF Run
        <4>2. new.at = "session" /\ new.tries = run[r].tries + 1
          BY <2>2 DEF Run
        <4>3. new \in Run
          BY <2>2, <4>1 DEF Run
        <4>4. /\ new.id = run[r].id /\ new.key = run[r].key /\ new.trigger = run[r].trigger
              /\ new.ver = run[r].ver /\ new.born = run[r].born
          BY <2>2 DEF Run
        <4> QED BY <4>1, <4>2, <4>3, <4>4
      <3> HIDE DEF new
      <3> QED BY <2>1, <2>2, <2>3, <3>1, <3>2, <3>3, Continues
    <2> QED BY <2>4, <2>5
  <1>6. CASE ShellEnds(r)
    <2>1. /\ run[r].at = "shell" /\ UNCHANGED world /\ UNCHANGED shots /\ UNCHANGED ran
          /\ End(r, "success") /\ Leave
      BY <1>6 DEF ShellEnds
    <2>2. Busy(r) /\ Executing(r) /\ Guarded(r)
      BY <2>1 DEF Busy, Executing, Guarded
    <2>3. ~Pulling(r)
      BY <1>0, <2>1, <2>2 DEF RunOK
    <2> QED BY <2>1, <2>2, <2>3, LeaveType, EndStep DEF Status
  <1>7. CASE BuiltinEnds(r)
    <2>1. /\ run[r].at = "builtin" /\ UNCHANGED world /\ UNCHANGED reg /\ UNCHANGED inFlight
          /\ UNCHANGED alerted /\ UNCHANGED idle /\ UNCHANGED shots /\ UNCHANGED ran
          /\ run' = [run EXCEPT ![r] = Free]
      BY <1>7 DEF BuiltinEnds
    <2>2. Busy(r) /\ ~Executing(r) /\ ~Guarded(r)
      BY <2>1 DEF Busy, Executing, Guarded
    <2>3. ~Pulling(r)
      BY <1>0, <2>1, <2>2 DEF RunOK
    <2> QED BY <2>1, <2>2, <2>3, FreesStep DEF world
  <1>8. CASE PullEnd(r)
    BY <1>8, PullEndStep
  <1> QED BY <1>1, <1>2, <1>3, <1>4, <1>5, <1>6, <1>7, <1>8 DEF RunStep

--------------------------------------------------------------------------------
(* The control surface, the producers and the end *)

LEMMA RegisterStep == ASSUME Inv, NEW t \in Sched, Register(t) PROVE Inv'
  <1>0. TypeOK /\ RunOK /\ Books /\ Versions /\ OneShots /\ Places
    BY DEF Inv
  <1>1. /\ UNCHANGED run /\ UNCHANGED inFlight /\ UNCHANGED alerted /\ UNCHANGED idle
        /\ UNCHANGED dequeuing /\ UNCHANGED settled /\ UNCHANGED shots /\ UNCHANGED ran
        /\ UNCHANGED starting /\ UNCHANGED fires /\ UNCHANGED queue /\ UNCHANGED later
        /\ UNCHANGED stops
    BY DEF Register, calls
  <1>2. reg \in [Sched -> Nat] /\ regs \in [Sched -> Nat]
    BY <1>0 DEF TypeOK
  <1>3. /\ regs' \in [Sched -> Nat] /\ reg' \in [Sched -> Nat]
        /\ regs'[t] = regs[t] + 1 /\ reg'[t] = regs[t] + 1
        /\ \A s \in Sched : s # t => regs'[s] = regs[s] /\ reg'[s] = reg[s]
    BY <1>2 DEF Register
  <1>4. TypeOK'
    BY <1>0, <1>1, <1>3 DEF TypeOK
  <1>5. RunsSame /\ alerted' \subseteq inFlight
    BY <1>0, <1>1 DEF RunsSame, Books
  <1>6. RunOK' /\ Books'
    BY <1>0, <1>1, <1>5, RunsSameKept, KeptRunOK, RunsSameBooks
  <1>7. Versions'
    <2>1. \A s \in Sched : regs'[s] >= 1 /\ reg'[s] \in {0, regs'[s]}
      BY <1>0, <1>2, <1>3 DEF Versions
    <2>2. ASSUME NEW s \in starting
          PROVE s[1] \in Starters /\ s[2] >= 1 /\ s[2] <= regs'[s[1]]
      <3>1. s[1] \in Sched /\ s[2] \in Nat /\ s[2] >= 1 /\ s[2] <= regs[s[1]] /\ s[1] \in Starters
        BY <1>0 DEF TypeOK, Versions
      <3> QED BY <1>2, <1>3, <3>1
    <2>3. ASSUME NEW r \in Slot, Busy(r), ~Pulling(r)
          PROVE /\ run[r].ver >= 1 /\ run[r].ver <= regs'[run[r].id]
                /\ run[r].born < stops => reg'[run[r].id] # run[r].ver
      <3>1. run[r].id \in Sched /\ run[r].ver \in Nat
        BY <1>0, <2>3, Fields DEF RunOK
      <3> QED BY <1>0, <1>2, <1>3, <2>3, <3>1 DEF Versions
    <2> QED BY <1>1, <2>1, <2>2, <2>3 DEF Versions, Busy, Pulling
  <1>8. OneShots'
    <2> SUFFICES ASSUME NEW s \in Polled
                 PROVE  /\ \A i, j \in DOMAIN shots[s] : shots[s][i] = shots[s][j] => i = j
                        /\ \A i \in DOMAIN shots[s] : shots[s][i] <= regs'[s]
                        /\ reg'[s] # 0 /\ Started(s, reg[s])' => On(s)
                        /\ \A r \in Slot : run[r].at = "gate" /\ run[r].id = s
                                             => ~Started(s, run[r].ver)
      BY <1>1 DEF OneShots, Polled, Started, On, Guarded
    <2>1. s \in Sched /\ regs[s] \in Nat
      BY <1>2, SchedAssumption DEF Polled
    <2>2. \A i \in DOMAIN shots[s] : shots[s][i] \in Nat /\ shots[s][i] <= regs[s]
      <3>1. shots[s] \in Seq(Nat)
        BY <1>0, <2>1 DEF TypeOK
      <3> QED BY <1>0, <3>1, LenProperties, ElementOfSeq DEF OneShots
    <2>3. CASE s = t
      <3>1. \A i \in DOMAIN shots[s] : shots[s][i] # reg'[s] /\ shots[s][i] <= regs'[s]
        BY <1>3, <2>1, <2>2, <2>3
      <3>2. ~Started(s, reg[s])'
        BY <1>1, <3>1 DEF Started
      <3> QED BY <1>0, <3>1, <3>2 DEF OneShots
    <2>4. CASE s # t
      <3>1. reg'[s] = reg[s] /\ regs'[s] = regs[s] /\ (Started(s, reg[s])' <=> Started(s, reg[s]))
        BY <1>1, <1>3, <2>1, <2>4 DEF Started
      <3> QED BY <1>0, <3>1 DEF OneShots
    <2> QED BY <2>3, <2>4
  <1>9. Places'
    BY <1>0, <1>1 DEF Places, Pulling
  <1> QED BY <1>4, <1>6, <1>7, <1>8, <1>9 DEF Inv

LEMMA AcceptStep == ASSUME Inv, NEW e \in Entry, Accept(e) PROVE Inv'
  <1>0. TypeOK /\ RunOK /\ Books /\ Versions /\ OneShots /\ Places
    BY DEF Inv
  <1>1. /\ UNCHANGED run /\ UNCHANGED inFlight /\ UNCHANGED alerted /\ UNCHANGED idle
        /\ UNCHANGED dequeuing /\ UNCHANGED settled /\ UNCHANGED shots /\ UNCHANGED ran
        /\ UNCHANGED starting /\ UNCHANGED fires /\ UNCHANGED reg /\ UNCHANGED regs
        /\ UNCHANGED stops
    BY DEF Accept, calls
  <1>2. /\ queue' = Append(queue, e) /\ later' \in SUBSET Entry /\ settled[e] = "no"
        /\ \A r \in Slot : run[r].id # e
    BY <1>0 DEF Accept, TypeOK
  <1>3. queue \in Seq(Entry) /\ QueueOK(queue)
    BY <1>0 DEF TypeOK, Places, QueueOK
  <1>4. \A k \in DOMAIN queue : queue[k] # e
    BY DEF Accept, Queued, ToSet
  <1>5. /\ QueueOK(queue') /\ queue' \in Seq(Entry)
        /\ \A k \in DOMAIN queue' : queue'[k] = e \/ \E j \in DOMAIN queue : queue'[k] = queue[j]
    BY <1>2, <1>3, <1>4, Appended
  <1>6. TypeOK'
    BY <1>0, <1>1, <1>2, <1>5 DEF TypeOK
  <1>7. RunsSame /\ alerted' \subseteq inFlight
    BY <1>0, <1>1 DEF RunsSame, Books
  <1>8. RunOK' /\ Books' /\ Versions' /\ OneShots'
    BY <1>0, <1>1, <1>7, RunsSameKept, KeptRunOK, RunsSameBooks, KeptVersions, KeptOneShots
  <1>9. Places'
    BY <1>0, <1>1, <1>2, <1>5 DEF Places, QueueOK, Pulling
  <1> QED BY <1>6, <1>8, <1>9 DEF Inv

LEMMA StopStep == ASSUME Inv, Stop PROVE Inv'
  <1>0. TypeOK /\ RunOK /\ Books /\ Versions /\ OneShots /\ Places
    BY DEF Inv
  <1>1. /\ UNCHANGED run /\ UNCHANGED inFlight /\ UNCHANGED alerted /\ UNCHANGED idle
        /\ UNCHANGED dequeuing /\ UNCHANGED settled /\ UNCHANGED shots /\ UNCHANGED ran
        /\ UNCHANGED starting /\ UNCHANGED fires /\ UNCHANGED queue /\ UNCHANGED later
        /\ UNCHANGED regs
    BY DEF Stop, calls
  <1>2. stops = 0 /\ stops' = 1 /\ reg' \in [Sched -> Nat] /\ \A t \in Sched : reg'[t] = 0
    BY DEF Stop
  <1>3. TypeOK'
    BY <1>0, <1>1, <1>2 DEF TypeOK
  <1>4. RunOK'
    <2>1. \A r \in Slot : Busy(r) => run[r].born \in Nat
      BY <1>0, Fields
    <2> QED BY <1>0, <1>1, <1>2, <2>1 DEF RunOK, Busy, Pulling
  <1>5. RunsSame /\ alerted' \subseteq inFlight
    BY <1>0, <1>1 DEF RunsSame, Books
  <1>6. Books' /\ OneShots'
    BY <1>0, <1>1, <1>2, <1>5, RunsSameKept, RunsSameBooks, KeptOneShots
  <1>7. Versions'
    <2>1. ASSUME NEW r \in Slot, Busy(r), ~Pulling(r) PROVE reg'[run[r].id] # run[r].ver
      <3>1. run[r].id \in Sched /\ run[r].ver >= 1
        BY <1>0, <2>1 DEF RunOK, Versions
      <3> QED BY <1>2, <3>1
    <2> QED BY <1>0, <1>1, <1>2, <2>1 DEF Versions, Busy, Pulling
  <1>8. Places'
    BY <1>0, <1>1 DEF Places, Pulling
  <1> QED BY <1>3, <1>4, <1>6, <1>7, <1>8 DEF Inv

LEMMA UnregisterStep == ASSUME Inv, NEW t \in Sched, Unregister(t) PROVE Inv'
  <1>1. RunsSame /\ UNCHANGED <<alerted, later, starting, fires>>
        /\ UNCHANGED <<regs, queue, settled, ran, stops>>
    BY DEF Unregister, calls, RunsSame
  <1>2. reg \in [Sched -> Nat] /\ alerted \subseteq inFlight
    BY DEF Inv, TypeOK, Books
  <1>3. reg' \in [Sched -> Nat] /\ \A s \in Sched : reg'[s] = 0 \/ reg'[s] = reg[s]
    BY <1>2 DEF Unregister
  <1> QED BY <1>1, <1>2, <1>3, QuietStep DEF Inv, TypeOK

LEMMA ElapseStep == ASSUME Inv, NEW e \in Entry, Elapse(e) PROVE Inv'
  <1>1. RunsSame /\ UNCHANGED <<alerted, reg, starting, fires>>
        /\ UNCHANGED <<regs, queue, settled, ran, stops>> /\ later' = later \ {e}
    BY DEF Elapse, calls, RunsSame
  <1>2. reg \in [Sched -> Nat] /\ alerted \subseteq inFlight
    BY DEF Inv, TypeOK, Books
  <1> QED BY <1>1, <1>2, QuietStep DEF Inv, TypeOK

--------------------------------------------------------------------------------
(* The invariant holds *)

LEMMA InitInv == Init => Inv
  <1> SUFFICES ASSUME Init PROVE Inv
    OBVIOUS
  <1>1. /\ \A r \in Slot : run[r] = Free /\ run[r].at = "free" /\ run[r].trigger = "none"
        /\ \A r \in Slot : ~Guarded(r) /\ ~Pulling(r) /\ ~Busy(r) /\ ~Executing(r)
    BY DEF Init, Free, Guarded, Pulling, Busy, Executing
  <1>2. TypeOK
    <2>1. /\ reg \in [Sched -> Nat] /\ regs \in [Sched -> Nat]
          /\ run \in [Slot -> Run \cup {Free}] /\ settled \in [Entry -> {"no", "succeeded", "failed"}]
          /\ inFlight \in SUBSET Id /\ alerted \in SUBSET Id /\ idle \in Nat
          /\ dequeuing \in BOOLEAN /\ later \in SUBSET Entry /\ ran \in SUBSET Entry
          /\ stops \in Nat /\ fires \in Nat
      BY DEF Init
    <2>2. queue \in Seq(Entry) /\ shots \in [Sched -> Seq(Nat)]
      BY EmptySeq DEF Init
    <2>3. starting \in SUBSET (Sched \X Nat)
      BY SchedAssumption DEF Init
    <2> QED BY <2>1, <2>2, <2>3 DEF TypeOK
  <1>3. RunOK
    BY <1>1 DEF RunOK
  <1>4. Books
    <2>1. Counted
      <3>1. {r \in Slot : Executing(r)} = {}
        BY <1>1
      <3> QED BY <3>1, FS_EmptySet DEF Init, Counted
    <2> QED BY <1>1, <2>1 DEF Init, Books, KeysDistinct, KeysInFlight, Mutex
  <1>5. Versions
    BY <1>1, SchedAssumption DEF Init, Versions
  <1>6. OneShots
    BY <1>1, SchedAssumption DEF Init, OneShots, Polled, Started
  <1>7. Places
    BY <1>1 DEF Init, Places
  <1> QED BY <1>2, <1>3, <1>4, <1>5, <1>6, <1>7 DEF Inv

LEMMA StutterInv == Inv /\ UNCHANGED vars => Inv'
  <1> SUFFICES ASSUME Inv, UNCHANGED vars PROVE Inv'
    OBVIOUS
  <1>1. RunsSame /\ UNCHANGED <<alerted, reg, starting, fires, later>>
        /\ UNCHANGED <<regs, queue, settled, ran, stops>>
    BY DEF vars, RunsSame
  <1> QED BY <1>1, QuietStep DEF Inv, TypeOK, Books

LEMMA NextInv == Inv /\ [Next]_vars => Inv'
  <1> SUFFICES ASSUME Inv, [Next]_vars PROVE Inv'
    OBVIOUS
  <1>1. CASE UNCHANGED vars
    BY <1>1, StutterInv
  <1>2. ASSUME NEW t \in Sched, Fire(t) \/ Register(t) \/ Unregister(t) PROVE Inv'
    BY <1>2, FireStep, RegisterStep, UnregisterStep
  <1>3. CASE StartNext \/ PullTick \/ Stop
    BY <1>3, StartNextStep, PullTickStep, StopStep
  <1>4. ASSUME NEW e \in Entry, Accept(e) \/ Elapse(e) PROVE Inv'
    BY <1>4, AcceptStep, ElapseStep
  <1>5. ASSUME NEW r \in Slot, RunStep(r) PROVE Inv'
    BY <1>5, StepOfRun
  <1> QED BY <1>1, <1>2, <1>3, <1>4, <1>5 DEF Next

LEMMA Invariance == Spec => []Inv
  BY InitInv, NextInv, PTL DEF Spec

--------------------------------------------------------------------------------
(* Theorems *)

\* Every variable has its type in every reachable state.
THEOREM TypeCorrect == Spec => []TypeOK
  <1>1. Inv => TypeOK
    BY DEF Inv
  <1> QED BY <1>1, Invariance, PTL

\* The overlap guard: cron, the session start and the resume of a task's own
\* answered question never run it side by side.
THEOREM NeverOverlaps == Spec => []NoOverlap
  <1>1. Inv => NoOverlap
    <2> SUFFICES ASSUME Inv, NEW r \in Slot, NEW s \in Slot, Guarded(r), Guarded(s),
                        Work(run[r].id) = Work(run[s].id)
                 PROVE  r = s
      BY DEF NoOverlap
    <2>1. run[r].key = Work(run[r].id) /\ run[s].key = Work(run[s].id)
      BY GuardedInFlight DEF Inv, Books, Work, overlapKeyOf
    <2> QED BY <2>1 DEF Inv, Books, KeysDistinct
  <1> QED BY <1>1, Invariance, PTL

\* The idle count, the keys in flight, the alerts and the pull mutex are what the
\* runs make them, on every path out of a run.
THEOREM BooksAlwaysExact == Spec => []BooksExact
  <1>1. Inv => BooksExact
    <2> SUFFICES ASSUME Inv PROVE BooksExact
      OBVIOUS
    <2>1. TypeOK /\ RunOK /\ Books
      BY DEF Inv
    <2>2. inFlight = {run[r].key : r \in {s \in Slot : Guarded(s)}}
      <3>1. \A k \in inFlight : \E r \in Slot : Guarded(r) /\ run[r].key = k
        BY <2>1 DEF Books, KeysInFlight, TypeOK
      <3>2. \A r \in Slot : Guarded(r) => run[r].key \in inFlight
        BY <2>1, GuardedInFlight DEF Books
      <3> QED BY <3>1, <3>2
    <2> QED BY <2>1, <2>2 DEF BooksExact, Books, Counted, Mutex
  <1> QED BY <1>1, Invariance, PTL

\* A one-shot that only cron polls is started once under each registration.
THEOREM OneShotsOnce == Spec => []OneShotOnce
  <1>1. Inv => OneShotOnce
    BY DEF Inv, OneShots, OneShotOnce, Polled
  <1> QED BY <1>1, Invariance, PTL

\* An entry of the queue is finished once, from its run, and not while it is in
\* the queue; it has had a session unless the gate or its cwd kept it from it.
THEOREM EntriesSettled == Spec => EntrySettled
  <1> DEFINE A == \A e \in Entry : settled[e] = "no" /\ settled'[e] # "no" =>
                    /\ e \notin Queued
                    /\ \E r \in Slot : /\ run[r].id = e /\ run[r].at = "done"
                                       /\ run[r].status \in {"budget", "cwd"} \/ e \in ran
  <1>1. Inv /\ [Next]_vars => [A]_vars
    <2> SUFFICES ASSUME Inv, Next, NEW e \in Entry, settled[e] = "no", settled'[e] # "no"
                 PROVE  /\ e \notin Queued
                        /\ \E r \in Slot : /\ run[r].id = e /\ run[r].at = "done"
                                           /\ run[r].status \in {"budget", "cwd"} \/ e \in ran
      OBVIOUS
    <2>0. TypeOK /\ RunOK /\ Places
      BY DEF Inv
    <2>1. UNCHANGED settled \/ \E r \in Slot : PullEnd(r)
      <3>1. ASSUME NEW t \in Sched, Fire(t) \/ Register(t) \/ Unregister(t)
            PROVE UNCHANGED settled
        BY <3>1 DEF Fire, Register, Unregister, calls
      <3>2. CASE StartNext \/ Stop
        BY <3>2 DEF StartNext, Stop, calls
      <3>3. CASE PullTick
        BY <3>3 DEF PullTick, PutBack
      <3>4. ASSUME NEW x \in Entry, Accept(x) \/ Elapse(x) PROVE UNCHANGED settled
        BY <3>4 DEF Accept, Elapse, calls
      <3>5. ASSUME NEW r \in Slot, RunStep(r) PROVE UNCHANGED settled \/ PullEnd(r)
        BY <3>5 DEF RunStep, BudgetPass, NoSession, SessionOk, SessionFails, Backoff, Wake,
                    ShellEnds, BuiltinEnds, world
      <3> QED BY <3>1, <3>2, <3>3, <3>4, <3>5 DEF Next
    <2>2. PICK r \in Slot : PullEnd(r)
      BY <2>1
    <2>3. run[r].at = "done" /\ Busy(r) /\ Pulling(r)
      BY <2>0, <2>2 DEF PullEnd, Busy, RunOK
    <2>4. run[r].id = e
      BY <2>0, <2>2 DEF PullEnd, Finalise, TypeOK
    <2>5. e \notin Queued
      BY <2>0, <2>3, <2>4 DEF Places, Queued, ToSet
    <2> QED BY <2>0, <2>3, <2>4, <2>5 DEF Places
  <1> QED BY <1>1, Invariance, PTL DEF Spec, EntrySettled

LEMMA EnterKeeps ==
  ASSUME TypeOK, HasFree, NEW id, NEW trigger, NEW ver, NEW at, Enter(id, trigger, ver, at),
         NEW r \in Slot, Busy(r)
  PROVE run'[r] = run[r]
  BY Entered DEF New

LEMMA StartKeeps ==
  ASSUME TypeOK, NEW t \in Sched, NEW trigger, NEW ver, StartOrSkip(t, trigger, ver),
         NEW r \in Slot, Busy(r)
  PROVE run'[r] = run[r]
  <1>1. CASE Overlap(t) \/ NotRun(t)
    BY <1>1 DEF Overlap, NotRun
  <1>2. CASE Begin(t, trigger, ver)
    <2>1. HasFree /\ \E at \in Starting : Enter(t, trigger, ver, at)
      BY <1>2, SchedAssumption DEF Begin, Starting
    <2> QED BY <2>1, EnterKeeps
  <1> QED BY <1>1, <1>2 DEF StartOrSkip

\* No run makes another attempt after the stop() that it saw, not even one that
\* captured the signal of the controller stop() put in its place.
THEOREM StopEndsRetries == Spec => NoRetryAfterStop
  <1> DEFINE A == \A r \in Slot : run[r].at = "sleep" /\ run'[r].at = "session"
                                    => run[r].born = stops
  <1>1. Inv /\ [Next]_vars => [A]_vars
    <2> SUFFICES ASSUME Inv, Next, NEW r \in Slot, run[r].at = "sleep", run'[r].at = "session"
                 PROVE  run[r].born = stops
      OBVIOUS
    <2>0. TypeOK /\ RunOK /\ Versions
      BY DEF Inv
    <2>1. Busy(r) /\ ~Pulling(r) /\ run[r].id \in Sched /\ run[r].born <= stops
          /\ run[r].born \in Nat /\ stops \in Nat
      BY <2>0, Fields DEF RunOK, Busy, TypeOK
    <2>2. Wake(r)
      <3>1. run'[r] # run[r]
        OBVIOUS
      <3>2. ASSUME NEW t \in Sched, Fire(t) \/ Register(t) \/ Unregister(t) PROVE FALSE
        BY <2>0, <2>1, <3>1, <3>2, StartKeeps DEF Fire, Register, Unregister, calls
      <3>3. ASSUME StartNext PROVE FALSE
        <4>1. PICK s \in starting : StartOrSkip(s[1], "start", s[2]) \/ UNCHANGED run
          BY <3>3 DEF StartNext
        <4>2. s[1] \in Sched
          BY <2>0 DEF TypeOK
        <4> QED BY <2>0, <2>1, <3>1, <4>1, <4>2, StartKeeps
      <3>4. ASSUME PullTick PROVE FALSE
        BY <2>0, <2>1, <3>1, <3>4, EnterKeeps DEF PullTick
      <3>5. ASSUME Stop PROVE FALSE
        BY <3>1, <3>5 DEF Stop, calls
      <3>6. ASSUME NEW e \in Entry, Accept(e) \/ Elapse(e) PROVE FALSE
        BY <3>1, <3>6 DEF Accept, Elapse, calls
      <3>7. ASSUME NEW s \in Slot, RunStep(s) PROVE s = r
        BY <2>0, <3>1, <3>7 DEF TypeOK, RunStep, BudgetPass, NoSession, SessionOk, SessionFails,
             Backoff, Wake, ShellEnds, BuiltinEnds, PullEnd, End
      <3>8. RunStep(r)
        BY <3>2, <3>3, <3>4, <3>5, <3>6, <3>7 DEF Next
      <3> QED BY <3>8 DEF RunStep, BudgetPass, NoSession, SessionOk, SessionFails,
                Backoff, ShellEnds, BuiltinEnds, PullEnd
    <2>3. ~stopped(r)
      <3>1. ASSUME stopped(r) PROVE FALSE
        <4>1. run' = [run EXCEPT ![r] = Free]
          BY <2>1, <2>2, <3>1 DEF Wake, End
        <4> QED BY <2>0, <4>1, OneSlot DEF Free
      <3> QED BY <3>1
    <2> QED BY <2>0, <2>1, <2>3 DEF stopped, isCancelled, Versions
  <1> QED BY <1>1, Invariance, PTL DEF Spec, NoRetryAfterStop
================================================================================
