------------------------------ MODULE DaemonLock ------------------------------
(***************************************************************************)
(* The single-instance guard of the daemon (agent/daemon-instance.lock.ts) *)
(* as startDaemon (agent/daemon.ts) uses it: a lock file created with      *)
(* O_EXCL that holds the owner's PID.  Every file call is awaited, so      *)
(* daemons that start at the same time interleave call by call, and any of *)
(* them can be killed in between.                                          *)
(***************************************************************************)
EXTENDS Naturals

CONSTANTS
    Proc,        \* process slots that run `afk daemon start`
    Pid,         \* process ids the kernel hands out
    MaxCrashes,  \* bound: kills in a behaviour
    MaxThrows    \* bound: failed writes in a behaviour

ASSUME PidAssumption == Pid \subseteq Nat \ {0}
ASSUME ProcAssumption == "nobody" \notin Proc
ASSUME FaultAssumption == MaxCrashes \in Nat /\ MaxThrows \in Nat

VARIABLES
    lock,        \* the file daemon.lock: who created it, the PID it holds
    pc,          \* the awaited call a process is at
    pid,         \* the PID of the process in a slot, 0 when there is none
    seen,        \* ownerPid as tryOpen read it, 0 for null
    foreign,     \* PIDs of live processes that are no daemons
    overlap,     \* in this behaviour two starts may be under way at the same time
    recycle,     \* ... the kernel reuses a PID that a lock file still names
    crashes, throws

world == <<overlap, recycle>>
vars == <<lock, pc, pid, seen, foreign, world, crashes, throws>>

-----------------------------------------------------------------------------
NoLock == [creator |-> "nobody", pid |-> 0]   \* no file at the lock path
LockFile == [creator : Proc, pid : Pid \cup {0}]

\* Inside acquireDaemonLock: the calls of tryOpen, then the write of the PID.
Starting == {"open", "read", "judge", "clear", "reopen", "write", "undo"}
Stage == {"down", "running", "exiting"} \cup Starting

Exists == lock # NoLock

\* process.kill(n, 0): success and EPERM mean alive, ESRCH means gone.
Alive(n) == n \in foreign \/ \E p \in Proc : pc[p] # "down" /\ pid[p] = n

\* A PID that was read and is alive refuses the start; no PID never does.
NeverRefuses(n) == FALSE                                   \* mutant
EmptyRefuses(n) == n = 0 \/ Alive(n)                       \* mutant
Refuses(n) == n # 0 /\ Alive(n)

Goto(p, stage) == pc' = [pc EXCEPT ![p] = stage]

-----------------------------------------------------------------------------
Init ==
    /\ lock = NoLock
    /\ pc = [p \in Proc |-> "down"]
    /\ pid = [p \in Proc |-> 0]
    /\ seen = [p \in Proc |-> 0]
    /\ foreign = {}
    /\ overlap \in BOOLEAN /\ recycle \in BOOLEAN
    /\ crashes = 0 /\ throws = 0

\* The service manager or an operator starts a process that calls startDaemon.
Start(p) ==
    /\ pc[p] = "down"
    /\ overlap \/ \A q \in Proc : pc[q] \notin Starting
    /\ \E n \in Pid :
         /\ ~Alive(n)
         /\ recycle \/ (n # lock.pid /\ \A q \in Proc : seen[q] # n)
         /\ pid' = [pid EXCEPT ![p] = n]
    /\ Goto(p, "open")
    /\ UNCHANGED <<lock, seen, foreign, crashes, throws, world>>

\* The kernel gives a free PID to some other program; its table is never full.
ForeignStart(n) ==
    /\ recycle /\ ~Alive(n) /\ \E m \in Pid \ {n} : ~Alive(m)
    /\ foreign' = foreign \cup {n}
    /\ UNCHANGED <<lock, pc, pid, seen, crashes, throws, world>>

ForeignExit(n) ==
    /\ n \in foreign
    /\ foreign' = foreign \ {n}
    /\ UNCHANGED <<lock, pc, pid, seen, crashes, throws, world>>

\* tryOpen: open(path, 'wx'), an empty file when it succeeds.
OpenExclusive(p) ==
    /\ pc[p] = "open"
    /\ IF Exists
       THEN Goto(p, "read") /\ lock' = lock
       ELSE Goto(p, "write") /\ lock' = [creator |-> p, pid |-> 0]
    /\ UNCHANGED <<pid, seen, foreign, crashes, throws, world>>

\* readFile: a file that vanished, or holds no PID, leaves ownerPid null.
ReadOwner(p) ==
    /\ pc[p] = "read"
    /\ seen' = [seen EXCEPT ![p] = lock.pid]
    /\ Goto(p, "judge")
    /\ UNCHANGED <<lock, pid, foreign, crashes, throws, world>>

\* A live owner: DaemonAlreadyRunningError.
Judge(p) ==
    /\ pc[p] = "judge"
    /\ Goto(p, IF Refuses(seen[p]) THEN "exiting" ELSE "clear")
    /\ UNCHANGED <<lock, pid, seen, foreign, crashes, throws, world>>

KeepsStale(p) ==                                           \* mutant
    /\ pc[p] = "clear"
    /\ Goto(p, "reopen")
    /\ UNCHANGED <<lock, pid, seen, foreign, world, crashes, throws>>

\* unlink(path): by now it may be another file than the one that was read.
ClearStale(p) ==
    /\ pc[p] = "clear"
    /\ lock' = NoLock
    /\ Goto(p, "reopen")
    /\ UNCHANGED <<pid, seen, foreign, crashes, throws, world>>

\* One retry of open(path, 'wx'); EEXIST now is DaemonAlreadyRunningError.
Reopen(p) ==
    /\ pc[p] = "reopen"
    /\ IF Exists
       THEN Goto(p, "exiting") /\ lock' = lock
       ELSE Goto(p, "write") /\ lock' = [creator |-> p, pid |-> 0]
    /\ UNCHANGED <<pid, seen, foreign, crashes, throws, world>>

WritesByPath(p) ==                                         \* mutant
    /\ pc[p] = "write"
    /\ lock' = [lock EXCEPT !.pid = pid[p]]
    /\ Goto(p, "running")
    /\ UNCHANGED <<pid, seen, foreign, crashes, throws, world>>

\* The PID goes through the handle: to the file p created, linked or not.
WritePid(p) ==
    /\ pc[p] = "write"
    /\ lock' = IF lock.creator = p THEN [lock EXCEPT !.pid = pid[p]] ELSE lock
    /\ Goto(p, "running")
    /\ UNCHANGED <<pid, seen, foreign, crashes, throws, world>>

\* writeFile throws (a full disk): the handle is closed, the file is next.
WriteThrows(p) ==
    /\ pc[p] = "write" /\ throws < MaxThrows
    /\ throws' = throws + 1
    /\ Goto(p, "undo")
    /\ UNCHANGED <<lock, pid, seen, foreign, crashes, world>>

\* ... unlink(path), and the error is thrown on.
UndoOpen(p) ==
    /\ pc[p] = "undo"
    /\ lock' = NoLock
    /\ Goto(p, "exiting")
    /\ UNCHANGED <<pid, seen, foreign, crashes, throws, world>>

\* stop(), or a startup error after the lock: release is the last await.
Release(p) ==
    /\ pc[p] = "running"
    /\ lock' = NoLock
    /\ Goto(p, "exiting")
    /\ UNCHANGED <<pid, seen, foreign, crashes, throws, world>>

Exit(p) ==
    /\ pc[p] = "exiting"
    /\ Goto(p, "down")
    /\ pid' = [pid EXCEPT ![p] = 0]
    /\ seen' = [seen EXCEPT ![p] = 0]
    /\ UNCHANGED <<lock, foreign, crashes, throws, world>>

\* SIGKILL: no cleanup runs, the lock file stays as it is.
Kill(p) ==
    /\ pc[p] # "down" /\ crashes < MaxCrashes
    /\ crashes' = crashes + 1
    /\ Goto(p, "down")
    /\ pid' = [pid EXCEPT ![p] = 0]
    /\ seen' = [seen EXCEPT ![p] = 0]
    /\ UNCHANGED <<lock, foreign, throws, world>>

Acquire(p) ==
    \/ OpenExclusive(p) \/ ReadOwner(p) \/ Judge(p) \/ ClearStale(p)
    \/ Reopen(p) \/ WritePid(p) \/ UndoOpen(p)

Next ==
    \/ \E p \in Proc : \/ Start(p) \/ Acquire(p) \/ WriteThrows(p)
                       \/ Release(p) \/ Exit(p) \/ Kill(p)
    \/ \E n \in Pid : ForeignStart(n) \/ ForeignExit(n)

Spec == Init /\ [][Next]_vars

\* Restart=always: the service manager starts the daemon again whenever it is
\* down; the awaited file calls return.
Fairness == \A p \in Proc : WF_vars(Start(p)) /\ WF_vars(Acquire(p)) /\ WF_vars(Exit(p))
FairSpec == Spec /\ Fairness

-----------------------------------------------------------------------------
TypeOK ==
    /\ lock \in LockFile \cup {NoLock}
    /\ pc \in [Proc -> Stage]
    /\ pid \in [Proc -> Pid \cup {0}]
    /\ seen \in [Proc -> Pid \cup {0}]
    /\ foreign \subseteq Pid /\ overlap \in BOOLEAN /\ recycle \in BOOLEAN
    /\ crashes \in 0 .. MaxCrashes /\ throws \in 0 .. MaxThrows

\* Two daemons never run at the same time: what acquireDaemonLock is for.
SingleDaemon == \A p, q \in Proc : pc[p] = "running" /\ pc[q] = "running" => p = q

\* It keeps that promise when no two starts are under way together, whatever is
\* killed, fails or reuses a PID in between.
SingleIfSerial == ~overlap => SingleDaemon

\* Unless something was killed, a start is only refused in favour of another
\* daemon that runs, is about to, or has just stopped: concurrent starts cannot
\* talk each other out of it.
RefusedForRival ==
    [][\A p \in Proc :
         pc[p] \in {"judge", "reopen"} /\ pc'[p] = "exiting" /\ crashes = 0 /\ ~recycle =>
           \E q \in Proc \ {p} : pc[q] \in {"write", "undo", "running", "exiting"}]_vars

\* A crash never blocks future starts for good: whenever no daemon runs, one
\* will, stale and empty lock files included, unless PIDs are reused.
StartsAgain ==
    ~recycle /\ (\A p \in Proc : pc[p] # "running") ~> \E p \in Proc : pc[p] = "running"
=============================================================================
