--------------------------- MODULE DaemonLockProofs ---------------------------
(***************************************************************************)
(* Proofs for every number of processes and PIDs and every number of kills *)
(* and failed writes: when starts do not overlap, the lock file is enough  *)
(* and at most one daemon runs; and starts that do overlap never all give  *)
(* up in favour of each other.                                             *)
(***************************************************************************)
EXTENDS DaemonLock, TLAPS

\* The running daemon is the one the lock file names.
OwnerOnFile ==
    \A p \in Proc : pc[p] = "running" => lock.creator = p /\ lock.pid = pid[p]

HasPid == \A p \in Proc : pc[p] # "down" => pid[p] # 0

OneStarter == \A p, q \in Proc : pc[p] \in Starting /\ pc[q] \in Starting => p = q

\* A start that has read the file of a running daemon holds its PID; one that
\* has passed the check has no running daemon beside it.
StarterKnows ==
    \A p, q \in Proc : pc[q] = "running" =>
        /\ pc[p] = "judge" => seen[p] = pid[q]
        /\ pc[p] \notin {"clear", "reopen", "write", "undo"}

WritesOwnFile == \A p \in Proc : pc[p] = "write" => lock.creator = p

LockInv == TypeOK /\ OwnerOnFile /\ HasPid /\ OneStarter /\ StarterKnows /\ WritesOwnFile

-----------------------------------------------------------------------------
\* Nobody holds the lock before anybody started.
LEMMA InitLock == Init => LockInv
  BY FaultAssumption DEF Init, LockInv, TypeOK, OwnerOnFile, HasPid, OneStarter, StarterKnows,
     WritesOwnFile, Stage, Starting

\* Every step keeps the types.
LEMMA StepType == TypeOK /\ [Next]_vars => TypeOK'
  <1> SUFFICES ASSUME TypeOK, [Next]_vars PROVE TypeOK'
    OBVIOUS
  <1> USE PidAssumption, FaultAssumption DEF TypeOK, Goto, world, Stage, Starting, LockFile, NoLock
  <1>1. ASSUME NEW p \in Proc, Start(p) PROVE TypeOK'
    BY <1>1 DEF Start
  <1>2. ASSUME NEW p \in Proc, WriteThrows(p) PROVE TypeOK'
    BY <1>2 DEF WriteThrows
  <1>3. ASSUME NEW p \in Proc, Release(p) PROVE TypeOK'
    BY <1>3 DEF Release
  <1>4. ASSUME NEW p \in Proc, Exit(p) PROVE TypeOK'
    BY <1>4 DEF Exit
  <1>5. ASSUME NEW p \in Proc, Kill(p) PROVE TypeOK'
    BY <1>5 DEF Kill
  <1>6. ASSUME NEW p \in Proc, OpenExclusive(p) PROVE TypeOK'
    BY <1>6 DEF OpenExclusive
  <1>7. ASSUME NEW p \in Proc, ReadOwner(p) PROVE TypeOK'
    BY <1>7 DEF ReadOwner
  <1>8. ASSUME NEW p \in Proc, Judge(p) PROVE TypeOK'
    BY <1>8 DEF Judge
  <1>9. ASSUME NEW p \in Proc, ClearStale(p) PROVE TypeOK'
    BY <1>9 DEF ClearStale
  <1>10. ASSUME NEW p \in Proc, Reopen(p) PROVE TypeOK'
    BY <1>10 DEF Reopen
  <1>11. ASSUME NEW p \in Proc, WritePid(p) PROVE TypeOK'
    BY <1>11 DEF WritePid
  <1>12. ASSUME NEW p \in Proc, UndoOpen(p) PROVE TypeOK'
    BY <1>12 DEF UndoOpen
  <1>13. ASSUME NEW n \in Pid, ForeignStart(n) \/ ForeignExit(n) PROVE TypeOK'
    BY <1>13 DEF ForeignStart, ForeignExit
  <1>14. CASE UNCHANGED vars
    BY <1>14 DEF vars
  <1> QED  BY <1>1, <1>2, <1>3, <1>4, <1>5, <1>6, <1>7, <1>8, <1>9, <1>10, <1>11, <1>12, <1>13, <1>14 DEF Next, Acquire

\* Whether starts overlap is fixed for a behaviour.
LEMMA Rigid == [Next]_vars => overlap' = overlap
  BY DEF Next, Acquire, Start, WriteThrows, Release, Exit, Kill, OpenExclusive, ReadOwner, Judge,
     ClearStale, Reopen, WritePid, UndoOpen, ForeignStart, ForeignExit, vars, world

\* When starts do not overlap, every step keeps the lock invariant.
LEMMA StepLock == ~overlap /\ LockInv /\ [Next]_vars => LockInv'
  <1> SUFFICES ASSUME ~overlap, LockInv, [Next]_vars PROVE LockInv'
    OBVIOUS
  <1>0. TypeOK'
    BY StepType DEF LockInv
  <1> USE PidAssumption, ProcAssumption
      DEF LockInv, OwnerOnFile, HasPid, OneStarter, StarterKnows, WritesOwnFile, Goto, world
  <1>1. ASSUME NEW p \in Proc, Start(p) PROVE LockInv'
    BY <1>0, <1>1 DEF Start, TypeOK, Starting
  <1>2. ASSUME NEW p \in Proc, WriteThrows(p) PROVE LockInv'
    BY <1>0, <1>2 DEF WriteThrows, TypeOK, Starting
  <1>3. ASSUME NEW p \in Proc, Release(p) PROVE LockInv'
    BY <1>0, <1>3 DEF Release, TypeOK, Starting
  <1>4. ASSUME NEW p \in Proc, Exit(p) PROVE LockInv'
    BY <1>0, <1>4 DEF Exit, TypeOK, Starting
  <1>5. ASSUME NEW p \in Proc, Kill(p) PROVE LockInv'
    BY <1>0, <1>5 DEF Kill, TypeOK, Starting
  <1>6. ASSUME NEW p \in Proc, OpenExclusive(p) PROVE LockInv'
    BY <1>0, <1>6 DEF OpenExclusive, TypeOK, Starting, Exists, NoLock
  <1>7. ASSUME NEW p \in Proc, ReadOwner(p) PROVE LockInv'
    BY <1>0, <1>7 DEF ReadOwner, TypeOK, Starting
  <1>8. ASSUME NEW p \in Proc, Judge(p) PROVE LockInv'
    BY <1>0, <1>8 DEF Judge, TypeOK, Starting, Refuses, Alive
  <1>9. ASSUME NEW p \in Proc, ClearStale(p) PROVE LockInv'
    BY <1>0, <1>9 DEF ClearStale, TypeOK, Starting
  <1>10. ASSUME NEW p \in Proc, Reopen(p) PROVE LockInv'
    BY <1>0, <1>10 DEF Reopen, TypeOK, Starting, Exists, NoLock
  <1>11. ASSUME NEW p \in Proc, WritePid(p) PROVE LockInv'
    BY <1>0, <1>11 DEF WritePid, TypeOK, Starting
  <1>12. ASSUME NEW p \in Proc, UndoOpen(p) PROVE LockInv'
    BY <1>0, <1>12 DEF UndoOpen, TypeOK, Starting
  <1>13. ASSUME NEW n \in Pid, ForeignStart(n) \/ ForeignExit(n) PROVE LockInv'
    BY <1>0, <1>13 DEF ForeignStart, ForeignExit
  <1>14. CASE UNCHANGED vars
    BY <1>0, <1>14 DEF vars
  <1> QED  BY <1>1, <1>2, <1>3, <1>4, <1>5, <1>6, <1>7, <1>8, <1>9, <1>10, <1>11, <1>12, <1>13, <1>14 DEF Next, Acquire

\* As long as no two starts overlap, acquireDaemonLock lets one daemon run: the
\* PID in the file is the running daemon's, and a start that finds it alive gives
\* up, whatever PIDs the kernel reuses and wherever a process is killed.
THEOREM OneDaemon == Spec => []SingleIfSerial
  <1> DEFINE Inv == ~overlap => LockInv
  <1>1. Init => Inv
    BY InitLock
  <1>2. Inv /\ [Next]_vars => Inv'
    BY Rigid, StepLock
  <1>3. Inv => SingleIfSerial
    BY DEF LockInv, OwnerOnFile, SingleIfSerial, SingleDaemon
  <1>4. QED
    BY <1>1, <1>2, <1>3, PTL DEF Spec

\* Every variable has its type in every reachable state.
THEOREM TypeInvariant == Spec => []TypeOK
  <1>1. Init => TypeOK
    BY InitLock DEF LockInv
  <1> QED BY <1>1, StepType, PTL DEF Spec

-----------------------------------------------------------------------------
(* Who is refused, and for whom; here starts may overlap. *)

Calm == crashes = 0 /\ ~recycle

\* Live processes have PIDs of their own.
UniquePids ==
    /\ \A p \in Proc : pc[p] # "down" => pid[p] # 0
    /\ \A p, q \in Proc : pc[p] # "down" /\ pc[q] # "down" /\ pid[p] = pid[q] => p = q

\* The process that created the file has not finished with it, and a PID in the
\* file is that of a daemon that runs.
CreatorLives ==
    Exists => /\ pc[lock.creator] \in {"write", "undo", "running"}
              /\ lock.pid # 0 => pc[lock.creator] = "running" /\ lock.pid = pid[lock.creator]

\* Whoever has the PID that a start has read is a daemon that runs or just stopped.
SeenWasRunning ==
    \A p, q \in Proc : seen[p] # 0 /\ pc[q] # "down" /\ pid[q] = seen[p] =>
        q # p /\ pc[q] \in {"running", "exiting"}

Unforged == foreign = {} /\ UniquePids /\ CreatorLives /\ SeenWasRunning
RivalInv == TypeOK /\ (Calm => Unforged)

LEMMA InitRival == Init => RivalInv
  <1> SUFFICES ASSUME Init PROVE RivalInv
    OBVIOUS
  <1>1. TypeOK
    BY InitLock DEF LockInv
  <1> QED BY <1>1 DEF Init, RivalInv, Unforged, UniquePids, CreatorLives, SeenWasRunning, Exists

\* Kills are counted and the kernel's habits fixed.
LEMMA CalmBefore == TypeOK /\ [Next]_vars /\ Calm' => Calm
  BY FaultAssumption DEF TypeOK, Calm, Next, Acquire, Start, WriteThrows, Release, Exit, Kill,
     OpenExclusive, ReadOwner, Judge, ClearStale, Reopen, WritePid, UndoOpen, ForeignStart,
     ForeignExit, vars, world

LEMMA StepRival == RivalInv /\ [Next]_vars => RivalInv'
  <1> SUFFICES ASSUME RivalInv, [Next]_vars, Calm' PROVE Unforged'
    BY StepType DEF RivalInv
  <1>0. TypeOK /\ TypeOK' /\ Calm /\ Unforged
    BY StepType, CalmBefore DEF RivalInv
  <1> USE PidAssumption, ProcAssumption
      DEF Unforged, UniquePids, CreatorLives, SeenWasRunning, Goto, world, Exists, NoLock
  <1>1. ASSUME NEW p \in Proc, Start(p) PROVE Unforged'
    BY <1>0, <1>1 DEF Start, TypeOK, LockFile, Alive, Calm
  <1>2. ASSUME NEW p \in Proc, WriteThrows(p) PROVE Unforged'
    BY <1>0, <1>2 DEF WriteThrows, TypeOK, LockFile
  <1>3. ASSUME NEW p \in Proc, Release(p) PROVE Unforged'
    BY <1>0, <1>3 DEF Release, TypeOK, LockFile
  <1>4. ASSUME NEW p \in Proc, Exit(p) PROVE Unforged'
    BY <1>0, <1>4 DEF Exit, TypeOK, LockFile
  <1>5. ASSUME NEW p \in Proc, Kill(p) PROVE Unforged'
    BY <1>0, <1>5 DEF Kill, TypeOK, Calm
  <1>6. ASSUME NEW p \in Proc, OpenExclusive(p) PROVE Unforged'
    BY <1>0, <1>6 DEF OpenExclusive, TypeOK, LockFile
  <1>7. ASSUME NEW p \in Proc, ReadOwner(p) PROVE Unforged'
    BY <1>0, <1>7 DEF ReadOwner, TypeOK, LockFile
  <1>8. ASSUME NEW p \in Proc, Judge(p) PROVE Unforged'
    BY <1>0, <1>8 DEF Judge, TypeOK, LockFile
  <1>9. ASSUME NEW p \in Proc, ClearStale(p) PROVE Unforged'
    BY <1>0, <1>9 DEF ClearStale, TypeOK, LockFile
  <1>10. ASSUME NEW p \in Proc, Reopen(p) PROVE Unforged'
    BY <1>0, <1>10 DEF Reopen, TypeOK, LockFile
  <1>11. ASSUME NEW p \in Proc, WritePid(p) PROVE Unforged'
    BY <1>0, <1>11 DEF WritePid, TypeOK, LockFile
  <1>12. ASSUME NEW p \in Proc, UndoOpen(p) PROVE Unforged'
    BY <1>0, <1>12 DEF UndoOpen, TypeOK, LockFile
  <1>13. ASSUME NEW n \in Pid, ForeignStart(n) \/ ForeignExit(n) PROVE Unforged'
    BY <1>0, <1>13 DEF ForeignStart, ForeignExit, Calm
  <1>14. CASE UNCHANGED vars
    BY <1>0, <1>14 DEF vars
  <1> QED  BY <1>1, <1>2, <1>3, <1>4, <1>5, <1>6, <1>7, <1>8, <1>9, <1>10, <1>11, <1>12, <1>13, <1>14 DEF Next, Acquire

\* Without a kill and without reused PIDs, a start gives up only for another daemon
\* that runs, is about to or has just stopped.
THEOREM RefusedOnlyForRival == Spec => RefusedForRival
  <1> DEFINE A == \A p \in Proc :
                    pc[p] \in {"judge", "reopen"} /\ pc'[p] = "exiting" /\ crashes = 0 /\ ~recycle =>
                      \E q \in Proc \ {p} : pc[q] \in {"write", "undo", "running", "exiting"}
  <1>1. RivalInv /\ [Next]_vars => [A]_vars
    <2> SUFFICES ASSUME RivalInv, Next, NEW p \in Proc,
                        pc[p] \in {"judge", "reopen"}, pc'[p] = "exiting", crashes = 0, ~recycle
                 PROVE  \E q \in Proc \ {p} : pc[q] \in {"write", "undo", "running", "exiting"}
      OBVIOUS
    <2>0. TypeOK /\ Unforged
      BY DEF RivalInv, Calm
    <2>1. Judge(p) \/ Reopen(p)
      <3>1. pc \in [Proc -> Stage] /\ pc'[p] # pc[p]
        BY <2>0 DEF TypeOK
      <3>2. ASSUME NEW n \in Pid, ForeignStart(n) \/ ForeignExit(n) PROVE FALSE
        BY <3>1, <3>2 DEF ForeignStart, ForeignExit
      <3>3. ASSUME NEW q \in Proc, Start(q) \/ WriteThrows(q) \/ Release(q) \/ Exit(q) \/ Kill(q)
            PROVE FALSE
        BY <3>1, <3>3 DEF Start, WriteThrows, Release, Exit, Kill, Goto
      <3>4. ASSUME NEW q \in Proc, Acquire(q) PROVE Judge(p) \/ Reopen(p)
        BY <3>1, <3>4 DEF Acquire, OpenExclusive, ReadOwner, Judge, ClearStale, Reopen, WritePid,
           UndoOpen, Goto
      <3> QED BY <3>2, <3>3, <3>4 DEF Next
    <2>2. CASE Judge(p)
      <3>1. seen[p] # 0 /\ Alive(seen[p])
        BY <2>0, <2>2 DEF Judge, Goto, Refuses, TypeOK
      <3>2. PICK q \in Proc : pc[q] # "down" /\ pid[q] = seen[p]
        BY <2>0, <3>1 DEF Alive, Unforged
      <3> QED BY <2>0, <3>1, <3>2 DEF Unforged, SeenWasRunning
    <2>3. CASE Reopen(p)
      <3>1. Exists /\ pc[p] = "reopen"
        BY <2>0, <2>3 DEF Reopen, Goto, TypeOK
      <3>2. lock.creator \in Proc
        BY <2>0, <3>1 DEF TypeOK, LockFile, Exists
      <3> QED BY <2>0, <3>1, <3>2 DEF Unforged, CreatorLives
    <2> QED BY <2>1, <2>2, <2>3
  <1> QED BY <1>1, InitRival, StepRival, PTL DEF Spec, RefusedForRival
=============================================================================
