--------------------------- MODULE PeerInboxProofs ---------------------------
(* Proofs about PeerInbox for every finite set of messages, every capacity and *)
(* any number of crashes, swaps and accepts: its type, that an inbox whose     *)
(* passes do not overlap is the mailbox of PeerMailbox, and that in a life     *)
(* nothing interrupts a message is seen once unless recovery unclaims it.      *)
EXTENDS PeerInbox, FiniteSetTheorems, TLAPS

-----------------------------------------------------------------------------
(* The invariant *)

Settled == injected \cup dropped \cup old
Active(r) == pass[r].at # "off"
\* What the scan still holds: names it has listed, and the one it is working on.
Work == pass["scan"].todo \cup {pass["scan"].msg}
Claiming == pass["accept"].at \notin {"off", "next"}

\* Only what was sent is anywhere, and retention picks what has done its duty.
Known ==
    /\ pending \cup delivered \cup torn \cup held \subseteq sent
    /\ buffer \cup pass["scan"].got \cup Settled \subseteq sent
    /\ \A r \in Reader : pass[r].todo \subseteq sent /\ pass[r].msg \in sent \cup {None}
    /\ acked \subseteq injected
    /\ pruning \subseteq injected \cup old

\* One reader at a time, none during a recovery; while a session is being swapped
\* or recovered nothing is buffered and whoever still reads is stale.
OneReader == \A r, s \in Reader : Active(r) /\ Active(s) => r = s
RecAlone == rec.at \notin {"off", "wait"} => \A r \in Reader : ~Active(r)
Quiet ==
    \/ ~watched \/ rec.at # "off" \/ reclaiming # {}
    \/ \E r \in Reader : Active(r) /\ pass[r].stale
    => buffer = {} /\ \A r \in Reader : Active(r) => pass[r].stale

\* A file is in one place of its life, and a claim is out of reach of the others.
HeldAlone == held \cap (pending \cup delivered \cup torn) = {}
DroppedGone == dropped \cap (pending \cup held \cup delivered \cup torn) = {}
BufferAlone == buffer \cap (pending \cup held \cup dropped) = {}
GotAlone ==
    Active("scan") /\ ~pass["scan"].stale =>
        pass["scan"].got \cap (pending \cup held \cup dropped \cup Work) = {}
ScanAlone ==
    Active("scan") =>
        /\ Work \cap (buffer \cup reclaiming \cup held) = {}
        /\ pass["scan"].msg \notin pass["scan"].todo
AcceptAlone ==
    Claiming => pass["accept"].msg \notin buffer \cup reclaiming \cup held

\* What the file calls already made have established for the next one.
Stages ==
    \A r \in Reader : LET m == pass[r].msg IN
        /\ At(r, "residue") => m \in delivered \cup Settled
        /\ At(r, "clear") => m \notin delivered
        /\ At(r, "peek") \/ At(r, "hold") => m \notin delivered \cup torn
        /\ At(r, "copy") => m \in torn \cup Settled
        /\ At(r, "unlink") => m \in delivered \cup Settled
        /\ At(r, "read") => m \notin pending
DropSafe == rec.at = "drop" => rec.msg \in pending

Apart ==
    /\ OneReader /\ RecAlone /\ Quiet
    /\ HeldAlone /\ DroppedGone /\ BufferAlone
    /\ GotAlone /\ ScanAlone /\ AcceptAlone
    /\ Stages /\ DropSafe /\ NeverLost

Inv == TypeOK /\ Known /\ (overlap = "none" => Apart)

-----------------------------------------------------------------------------
LEMMA FiniteCard == \A S \in SUBSET Msg : Cardinality(S) \in Nat
  BY MsgAssumption, FS_Subset, FS_CardinalityType

LEMMA PassUpdate ==
  ASSUME pass \in [Reader -> PassType], NEW r \in Reader, NEW v \in PassType
  PROVE [pass EXCEPT ![r] = v] \in [Reader -> PassType]
  OBVIOUS

LEMMA IdleType == Idle \in PassType
  BY DEF Idle, Begun, PassType, Stage

LEMMA GotoType ==
  ASSUME TypeOK, NEW r \in Reader, NEW stage \in Stage, Goto(r, stage)
  PROVE pass' \in [Reader -> PassType]
  <1> DEFINE v == [pass[r] EXCEPT !.at = stage]
  <1>1. v \in PassType
    BY DEF TypeOK, PassType
  <1>2. pass' = [pass EXCEPT ![r] = v]
    BY DEF Goto
  <1> QED BY <1>1, <1>2, PassUpdate DEF TypeOK

LEMMA NextFileType ==
  ASSUME TypeOK, NEW r \in Reader, NextFile(r)
  PROVE pass' \in [Reader -> PassType]
  <1> DEFINE u == [pass[r] EXCEPT !.at = "next"]
             v == [u EXCEPT !.msg = None]
             w == [pass EXCEPT ![r] = u]
  <1>1. u \in PassType
    BY DEF TypeOK, PassType, Stage
  <1>2. v \in PassType
    BY <1>1 DEF PassType
  <1>3. w \in [Reader -> PassType] /\ w[r] = u
    BY <1>1 DEF TypeOK
  <1>4. pass' = [w EXCEPT ![r] = v]
    BY <1>3 DEF NextFile
  <1> QED BY <1>2, <1>3, <1>4

LEMMA TypeStep ==
  ASSUME TypeOK, [Next]_vars PROVE TypeOK'
  <1> USE DEF TypeOK, Reader, Stage, PassType, RecType, vars, files, memory, session,
      history, world
  <1>1. ASSUME NEW m \in Msg, Send(m) PROVE TypeOK'
    BY <1>1 DEF Send
  <1>2. ASSUME NEW m \in Msg, GrowOld(m) PROVE TypeOK'
    BY <1>2 DEF GrowOld
  <1>3. ASSUME NEW m \in Msg, DropHeld(m) PROVE TypeOK'
    BY <1>3 DEF DropHeld
  <1>4. ASSUME StartWatching PROVE TypeOK'
    BY <1>4 DEF StartWatching
  <1>5. ASSUME NEW mode \in {"accept", "hold"}, StartScan(mode) PROVE TypeOK'
    <2>1. pass' \in [Reader -> PassType]
      <3> DEFINE v == Begun("next", mode, Capacity - Cardinality(buffer), pending)
      <3>1. v \in PassType
        BY FiniteCard, BoundAssumption DEF Begun
      <3> QED BY <1>5, <3>1, PassUpdate DEF StartScan
    <2> QED BY <1>5, <2>1 DEF StartScan
  <1>6. ASSUME NEW m \in Msg, Take(m) PROVE TypeOK'
    BY <1>6 DEF Take, Orphan, At
  <1>7. ASSUME ClearResidue PROVE TypeOK'
    <2>1. pass' \in [Reader -> PassType]
      BY <1>7, NextFileType DEF ClearResidue
    <2> QED BY <1>7, <2>1 DEF ClearResidue
  <1>8. ASSUME ClearTorn PROVE TypeOK'
    BY <1>8 DEF ClearTorn, Goto, At
  <1>9. ASSUME Peek PROVE TypeOK'
    BY <1>9 DEF Peek, NextFile, Goto, At
  <1>10. ASSUME Hold PROVE TypeOK'
    <2>1. pass' \in [Reader -> PassType]
      BY <1>10, NextFileType DEF Hold
    <2> QED BY <1>10, <2>1 DEF Hold, Renamed
  <1>11. ASSUME EndScan PROVE TypeOK'
    BY <1>11 DEF EndScan, Idle, Begun,
        Current, At
  <1>12. ASSUME NEW c \in SUBSET Msg, StartAccept(c) PROVE TypeOK'
    <2>1. pass' \in [Reader -> PassType]
      <3>1. Begun("next", "accept", 0, c) \in PassType
        BY DEF Begun
      <3> QED BY <1>12, <3>1, PassUpdate DEF StartAccept
    <2> QED BY <1>12, <2>1 DEF StartAccept
  <1>13. ASSUME NEW m \in Msg, Release(m) PROVE TypeOK'
    BY <1>13 DEF Release, Renamed, Current, At
  <1>14. ASSUME EndAccept PROVE TypeOK'
    BY <1>14 DEF EndAccept, Idle, Begun,
        Current, At
  <1>15. ASSUME NEW r \in Reader, Link(r) PROVE TypeOK'
    <2>1. pass' \in [Reader -> PassType]
      BY <1>15, NextFileType, GotoType, IdleType, PassUpdate DEF Link
    <2> QED BY <1>15, <2>1 DEF Link
  <1>16. ASSUME NEW r \in Reader, Copied(r) PROVE TypeOK'
    BY <1>16 DEF Copied, Goto, At
  <1>17. ASSUME NEW r \in Reader, UnlinkPending(r) PROVE TypeOK'
    BY <1>17 DEF UnlinkPending, Goto, At
  <1>18. ASSUME NEW r \in Reader, ReadReceipt(r) PROVE TypeOK'
    <2>1. pass' \in [Reader -> PassType]
      <3>1. CASE NextFile(r) \/ pass' = [pass EXCEPT ![r] = Idle]
        BY <3>1, NextFileType, IdleType, PassUpdate
      <3>2. CASE ~(NextFile(r) \/ pass' = [pass EXCEPT ![r] = Idle])
        BY <1>18, <3>2 DEF ReadReceipt
      <3> QED BY <3>1, <3>2
    <2> QED BY <1>18, <2>1 DEF ReadReceipt
  <1>19. ASSUME RecoverList PROVE TypeOK'
    BY <1>19 DEF RecoverList, MayRecover, At
  <1>20. ASSUME RecoverAcks PROVE TypeOK'
    BY <1>20 DEF RecoverAcks
  <1>21. ASSUME NEW m \in Msg, RecoverRead(m) PROVE TypeOK'
    BY <1>21 DEF RecoverRead
  <1>22. ASSUME RecoverStat PROVE TypeOK'
    BY <1>22 DEF RecoverStat, Duplicate
  <1>23. ASSUME RecoverDrop PROVE TypeOK'
    BY <1>23 DEF RecoverDrop, TakenBack
  <1>24. ASSUME RecoverMove PROVE TypeOK'
    <2>1. rec' \in RecType
      BY <1>24 DEF RecoverMove
    <2>2. pending' \in SUBSET Msg /\ delivered' \in SUBSET Msg
      BY <1>24 DEF RecoverMove, MoveBack, Renamed
    <2> QED BY <1>24, <2>1, <2>2 DEF RecoverMove, TakenBack
  <1>25. ASSUME RecoverEnd PROVE TypeOK'
    BY <1>25 DEF RecoverEnd, Resting
  <1>26. ASSUME NEW m \in Msg, Consume(m) PROVE TypeOK'
    BY <1>26 DEF Consume, Uninterrupted
  <1>27. ASSUME NEW m \in Msg, AckWritten(m) PROVE TypeOK'
    BY <1>27 DEF AckWritten
  <1>28. ASSUME NEW m \in Msg, Reclaim(m) PROVE TypeOK'
    BY <1>28 DEF Reclaim, MoveBack, Renamed
  <1>29. ASSUME NEW m \in Msg, PruneOne(m) PROVE TypeOK'
    BY <1>29 DEF PruneOne
  <1>30. ASSUME PruneStart PROVE TypeOK'
    BY <1>30 DEF PruneStart, Prunable
  <1>31. ASSUME Swap PROVE TypeOK'
    <2>1. \A r \in Reader : [pass[r] EXCEPT !.stale = TRUE] \in PassType
      OBVIOUS
    <2>2. pass' \in [Reader -> PassType]
      BY <1>31, <2>1, IdleType DEF Swap
    <2>3. here' \in BOOLEAN /\ watched' \in BOOLEAN
      BY <1>31 DEF Swap
    <2>4. swaps' \in Nat
      BY <1>31 DEF Swap
    <2> QED BY <1>31, <2>2, <2>3, <2>4 DEF Swap
  <1>32. ASSUME Crash PROVE TypeOK'
    <2>1. pass' \in [Reader -> PassType]
      BY <1>32, IdleType DEF Crash
    <2>2. rec' \in RecType
      BY <1>32 DEF Crash, Resting
    <2>3. here' \in BOOLEAN /\ watched' \in BOOLEAN
      BY <1>32 DEF Crash
    <2>4. crashes' \in Nat
      BY <1>32 DEF Crash
    <2> QED BY <1>32, <2>1, <2>2, <2>3, <2>4 DEF Crash
  <1>33. CASE UNCHANGED vars
    BY <1>33 DEF At
  <1> QED BY <1>1, <1>2, <1>3, <1>4, <1>5, <1>6, <1>7, <1>8, <1>9, <1>10, <1>11, <1>12,
      <1>13, <1>14, <1>15, <1>16, <1>17, <1>18, <1>19, <1>20, <1>21, <1>22, <1>23, <1>24,
      <1>25, <1>26, <1>27, <1>28, <1>29, <1>30, <1>31, <1>32, <1>33 DEF Next, ScanStep,
      AcceptStep, ClaimStep, RecoverStep

LEMMA KnownStep == ASSUME TypeOK, Known, [Next]_vars PROVE Known'
  <1> USE DEF TypeOK, Reader, Stage, PassType, RecType, vars, files, memory, session,
      history, world, Known, Settled
  <1>1. ASSUME NEW m \in Msg, Send(m) PROVE Known'
    BY <1>1 DEF Send
  <1>2. ASSUME NEW m \in Msg, GrowOld(m) PROVE Known'
    BY <1>2 DEF GrowOld
  <1>3. ASSUME NEW m \in Msg, DropHeld(m) PROVE Known'
    BY <1>3 DEF DropHeld
  <1>4. ASSUME StartWatching PROVE Known'
    BY <1>4 DEF StartWatching
  <1>5. ASSUME NEW mode \in {"accept", "hold"}, StartScan(mode) PROVE Known'
    BY <1>5 DEF StartScan, MayClaim, Idle, Begun, At
  <1>6. ASSUME NEW m \in Msg, Take(m) PROVE Known'
    BY <1>6 DEF Take, Orphan, At
  <1>7. ASSUME ClearResidue PROVE Known'
    BY <1>7 DEF ClearResidue, NextFile, At
  <1>8. ASSUME ClearTorn PROVE Known'
    BY <1>8 DEF ClearTorn, Goto, At
  <1>9. ASSUME Peek PROVE Known'
    BY <1>9 DEF Peek, NextFile, Goto, At
  <1>10. ASSUME Hold PROVE Known'
    BY <1>10 DEF Hold, NextFile, Renamed, At
  <1>11. ASSUME EndScan PROVE Known'
    BY <1>11 DEF EndScan, Idle, Begun, Current, At
  <1>12. ASSUME NEW c \in SUBSET Msg, StartAccept(c) PROVE Known'
    BY <1>12 DEF StartAccept, MayClaim, Idle, Begun, At
  <1>13. ASSUME NEW m \in Msg, Release(m) PROVE Known'
    BY <1>13 DEF Release, Renamed, Current, At
  <1>14. ASSUME EndAccept PROVE Known'
    BY <1>14 DEF EndAccept, Idle, Begun, Current, At
  <1>15. ASSUME NEW r \in Reader, Link(r) PROVE Known'
    BY <1>15 DEF Link, Current, Idle, Begun, NextFile, Goto, At
  <1>16. ASSUME NEW r \in Reader, Copied(r) PROVE Known'
    BY <1>16 DEF Copied, Goto, At
  <1>17. ASSUME NEW r \in Reader, UnlinkPending(r) PROVE Known'
    BY <1>17 DEF UnlinkPending, Goto, At
  <1>18. ASSUME NEW r \in Reader, ReadReceipt(r) PROVE Known'
    BY <1>18 DEF ReadReceipt, Current, Idle, Begun, NextFile, At
  <1>19. ASSUME RecoverList PROVE Known'
    BY <1>19 DEF RecoverList, MayRecover, At
  <1>20. ASSUME RecoverAcks PROVE Known'
    BY <1>20 DEF RecoverAcks
  <1>21. ASSUME NEW m \in Msg, RecoverRead(m) PROVE Known'
    BY <1>21 DEF RecoverRead
  <1>22. ASSUME RecoverStat PROVE Known'
    BY <1>22 DEF RecoverStat, Duplicate
  <1>23. ASSUME RecoverDrop PROVE Known'
    BY <1>23 DEF RecoverDrop, TakenBack
  <1>24. ASSUME RecoverMove PROVE Known'
    BY <1>24 DEF RecoverMove, MoveBack, Renamed
  <1>25. ASSUME RecoverEnd PROVE Known'
    BY <1>25 DEF RecoverEnd, Resting
  <1>26. ASSUME NEW m \in Msg, Consume(m) PROVE Known'
    BY <1>26 DEF Consume, Uninterrupted
  <1>27. ASSUME NEW m \in Msg, AckWritten(m) PROVE Known'
    BY <1>27 DEF AckWritten
  <1>28. ASSUME NEW m \in Msg, Reclaim(m) PROVE Known'
    BY <1>28 DEF Reclaim, MoveBack, Renamed
  <1>29. ASSUME NEW m \in Msg, PruneOne(m) PROVE Known'
    BY <1>29 DEF PruneOne
  <1>30. ASSUME PruneStart PROVE Known'
    BY <1>30 DEF PruneStart, Prunable
  <1>31. ASSUME Swap PROVE Known'
    BY <1>31 DEF Swap, At, Idle, Begun
  <1>32. ASSUME Crash PROVE Known'
    BY <1>32 DEF Crash, Idle, Begun, Resting
  <1>33. CASE UNCHANGED vars
    BY <1>33 DEF At
  <1> QED BY <1>1, <1>2, <1>3, <1>4, <1>5, <1>6, <1>7, <1>8, <1>9, <1>10, <1>11, <1>12,
      <1>13, <1>14, <1>15, <1>16, <1>17, <1>18, <1>19, <1>20, <1>21, <1>22, <1>23, <1>24,
      <1>25, <1>26, <1>27, <1>28, <1>29, <1>30, <1>31, <1>32, <1>33 DEF Next, ScanStep,
      AcceptStep, ClaimStep, RecoverStep

\* Which passes overlap is a matter of the whole behaviour.
LEMMA OverlapKept == [Next]_vars => overlap' = overlap
  BY DEF Next, vars, files, memory, session, history, world, ScanStep, AcceptStep,
      ClaimStep, RecoverStep,
    Send, GrowOld, DropHeld, StartWatching, StartScan, Take, ClearResidue, ClearTorn,
        Peek, Hold, EndScan, StartAccept, Release, EndAccept, Link, Copied, UnlinkPending,
        ReadReceipt, RecoverList, RecoverAcks, RecoverRead, RecoverStat, RecoverDrop,
        RecoverMove, RecoverEnd, Consume, AckWritten, Reclaim, PruneOne, PruneStart, Swap,
        Crash

\* Four operations decide what becomes of a message, the others move it about.
LEMMA HistoryKept ==
  [Next]_vars =>
    \/ \E m \in Msg : Send(m) \/ GrowOld(m) \/ DropHeld(m) \/ Consume(m)
    \/ UNCHANGED <<sent, injected, dropped, old>>
  BY DEF Next, vars, files, memory, session, history, world, ScanStep, AcceptStep,
      ClaimStep, RecoverStep,
    StartWatching, StartScan, Take, ClearResidue, ClearTorn, Peek, Hold, EndScan,
        StartAccept, Release, EndAccept, Link, Copied, UnlinkPending, ReadReceipt,
        RecoverList, RecoverAcks, RecoverRead, RecoverStat, RecoverDrop, RecoverMove,
        RecoverEnd, AckWritten, Reclaim, PruneOne, PruneStart, Swap, Crash

\* One action at a time; where the solver needs it, one part of Apart at a time.
LEMMA ApartStep ==
  ASSUME TypeOK, Known, overlap = "none", Apart, [Next]_vars PROVE Apart'
  <1> USE DEF TypeOK, Reader, Stage, PassType, RecType, vars, files, memory, session,
      history, world, Known, Settled, Apart, OneReader, RecAlone, Quiet, HeldAlone,
      DroppedGone, BufferAlone, GotAlone, ScanAlone, AcceptAlone, Stages, DropSafe, NeverLost,
      Work, Claiming, Active, OnDisk, At
  <1>1. ASSUME NEW m \in Msg, Send(m) PROVE Apart'
    <2>1. OneReader' /\ RecAlone' /\ Quiet'
      BY <1>1 DEF Send
    <2>2. HeldAlone' /\ DroppedGone'
      BY <1>1 DEF Send
    <2>3. BufferAlone'
      BY <1>1 DEF Send
    <2>4. GotAlone'
      BY <1>1 DEF Send
    <2>5. ScanAlone'
      BY <1>1, MsgAssumption DEF Send
    <2>6. AcceptAlone'
      BY <1>1 DEF Send
    <2>7. Stages' /\ DropSafe'
      BY <1>1, MsgAssumption DEF Send
    <2>8. NeverLost'
      BY <1>1 DEF Send
    <2> QED BY <2>1, <2>2, <2>3, <2>4, <2>5, <2>6, <2>7, <2>8
  <1>2. ASSUME NEW m \in Msg, GrowOld(m) PROVE Apart'
    BY <1>2 DEF GrowOld
  <1>3. ASSUME NEW m \in Msg, DropHeld(m) PROVE Apart'
    BY <1>3 DEF DropHeld
  <1>4. ASSUME StartWatching PROVE Apart'
    BY <1>4 DEF StartWatching
  <1>5. ASSUME NEW mode \in {"accept", "hold"}, StartScan(mode) PROVE Apart'
    <2>1. OneReader' /\ RecAlone' /\ Quiet'
      BY <1>5 DEF StartScan, MayClaim, Begun
    <2>2. HeldAlone' /\ DroppedGone'
      BY <1>5 DEF StartScan, MayClaim, Begun
    <2>3. BufferAlone'
      BY <1>5 DEF StartScan, MayClaim, Begun
    <2>4. GotAlone'
      BY <1>5 DEF StartScan, MayClaim, Begun
    <2>5. ScanAlone'
      BY <1>5, MsgAssumption DEF StartScan, MayClaim, Begun
    <2>6. AcceptAlone'
      BY <1>5 DEF StartScan, MayClaim, Begun
    <2>7. Stages' /\ DropSafe'
      BY <1>5, MsgAssumption DEF StartScan, MayClaim, Begun
    <2>8. NeverLost'
      BY <1>5 DEF StartScan, MayClaim, Begun
    <2> QED BY <2>1, <2>2, <2>3, <2>4, <2>5, <2>6, <2>7, <2>8
  <1>6. ASSUME NEW m \in Msg, Take(m) PROVE Apart'
    BY <1>6 DEF Take, Orphan
  <1>7. ASSUME ClearResidue PROVE Apart'
    BY <1>7 DEF ClearResidue, NextFile
  <1>8. ASSUME ClearTorn PROVE Apart'
    BY <1>8 DEF ClearTorn, Goto
  <1>9. ASSUME Peek PROVE Apart'
    BY <1>9 DEF Peek, NextFile, Goto
  <1>10. ASSUME Hold PROVE Apart'
    <2>1. OneReader' /\ RecAlone' /\ Quiet'
      BY <1>10 DEF Hold, NextFile, Renamed
    <2>2. HeldAlone' /\ DroppedGone'
      BY <1>10 DEF Hold, NextFile, Renamed
    <2>3. BufferAlone'
      BY <1>10 DEF Hold, NextFile, Renamed
    <2>4. GotAlone'
      BY <1>10 DEF Hold, NextFile, Renamed
    <2>5. ScanAlone'
      BY <1>10, MsgAssumption DEF Hold, NextFile, Renamed
    <2>6. AcceptAlone'
      BY <1>10 DEF Hold, NextFile, Renamed
    <2>7. Stages' /\ DropSafe'
      BY <1>10, MsgAssumption DEF Hold, NextFile, Renamed
    <2>8. NeverLost'
      BY <1>10 DEF Hold, NextFile, Renamed
    <2> QED BY <2>1, <2>2, <2>3, <2>4, <2>5, <2>6, <2>7, <2>8
  <1>11. ASSUME EndScan PROVE Apart'
    BY <1>11 DEF EndScan, Idle, Begun, Current
  <1>12. ASSUME NEW c \in SUBSET Msg, StartAccept(c) PROVE Apart'
    BY <1>12 DEF StartAccept, MayClaim, Idle, Begun
  <1>13. ASSUME NEW m \in Msg, Release(m) PROVE Apart'
    BY <1>13 DEF Release, Renamed, Current
  <1>14. ASSUME EndAccept PROVE Apart'
    BY <1>14 DEF EndAccept, Idle, Begun, Current
  <1>15. ASSUME NEW r \in Reader, Link(r) PROVE Apart'
    BY <1>15 DEF Link, Current, Idle, Begun, NextFile, Goto
  <1>16. ASSUME NEW r \in Reader, Copied(r) PROVE Apart'
    BY <1>16 DEF Copied, Goto
  <1>17. ASSUME NEW r \in Reader, UnlinkPending(r) PROVE Apart'
    BY <1>17 DEF UnlinkPending, Goto
  <1>18. ASSUME NEW r \in Reader, ReadReceipt(r) PROVE Apart'
    BY <1>18 DEF ReadReceipt, Current, Idle, Begun, NextFile
  <1>19. ASSUME RecoverList PROVE Apart'
    BY <1>19 DEF RecoverList, MayRecover
  <1>20. ASSUME RecoverAcks PROVE Apart'
    BY <1>20 DEF RecoverAcks
  <1>21. ASSUME NEW m \in Msg, RecoverRead(m) PROVE Apart'
    BY <1>21 DEF RecoverRead
  <1>22. ASSUME RecoverStat PROVE Apart'
    BY <1>22 DEF RecoverStat, Duplicate
  <1>23. ASSUME RecoverDrop PROVE Apart'
    BY <1>23 DEF RecoverDrop, TakenBack
  <1>24. ASSUME RecoverMove PROVE Apart'
    BY <1>24 DEF RecoverMove, MoveBack, Renamed
  <1>25. ASSUME RecoverEnd PROVE Apart'
    BY <1>25 DEF RecoverEnd, Resting
  <1>26. ASSUME NEW m \in Msg, Consume(m) PROVE Apart'
    BY <1>26 DEF Consume, Uninterrupted
  <1>27. ASSUME NEW m \in Msg, AckWritten(m) PROVE Apart'
    BY <1>27 DEF AckWritten
  <1>28. ASSUME NEW m \in Msg, Reclaim(m) PROVE Apart'
    <2>1. OneReader' /\ RecAlone' /\ Quiet'
      BY <1>28 DEF Reclaim, MoveBack, Renamed
    <2>2. HeldAlone' /\ DroppedGone'
      BY <1>28 DEF Reclaim, MoveBack, Renamed
    <2>3. BufferAlone'
      BY <1>28 DEF Reclaim, MoveBack, Renamed
    <2>4. GotAlone'
      BY <1>28 DEF Reclaim, MoveBack, Renamed
    <2>5. ScanAlone'
      BY <1>28, MsgAssumption DEF Reclaim, MoveBack, Renamed
    <2>6. AcceptAlone'
      BY <1>28 DEF Reclaim, MoveBack, Renamed
    <2>7. Stages' /\ DropSafe'
      BY <1>28, MsgAssumption DEF Reclaim, MoveBack, Renamed
    <2>8. NeverLost'
      BY <1>28 DEF Reclaim, MoveBack, Renamed
    <2> QED BY <2>1, <2>2, <2>3, <2>4, <2>5, <2>6, <2>7, <2>8
  <1>29. ASSUME NEW m \in Msg, PruneOne(m) PROVE Apart'
    BY <1>29 DEF PruneOne
  <1>30. ASSUME PruneStart PROVE Apart'
    BY <1>30 DEF PruneStart, Prunable
  <1>31. ASSUME Swap PROVE Apart'
    BY <1>31 DEF Swap, Idle, Begun
  <1>32. ASSUME Crash PROVE Apart'
    BY <1>32 DEF Crash, Idle, Begun, Resting
  <1>33. CASE UNCHANGED vars
    BY <1>33
  <1> QED BY <1>1, <1>2, <1>3, <1>4, <1>5, <1>6, <1>7, <1>8, <1>9, <1>10, <1>11, <1>12,
      <1>13, <1>14, <1>15, <1>16, <1>17, <1>18, <1>19, <1>20, <1>21, <1>22, <1>23, <1>24,
      <1>25, <1>26, <1>27, <1>28, <1>29, <1>30, <1>31, <1>32, <1>33 DEF Next, ScanStep,
      AcceptStep, ClaimStep, RecoverStep

-----------------------------------------------------------------------------
(* The theorems *)

LEMMA Initially == Init => Inv
  <1> SUFFICES ASSUME Init PROVE Inv
    OBVIOUS
  <1>1. TypeOK
    BY IdleType DEF Init, TypeOK, Resting, RecType
  <1>2. Known
    BY DEF Init, Known, Settled, Idle, Begun, Reader
  <1>3. Apart
    BY DEF Init, Idle, Begun, Resting, At, Reader, Apart, OneReader, RecAlone, Quiet,
        HeldAlone, DroppedGone, BufferAlone, GotAlone, ScanAlone, AcceptAlone, Stages,
        DropSafe, NeverLost, Work, Claiming, Active, OnDisk, Settled
  <1> QED BY <1>1, <1>2, <1>3 DEF Inv

LEMMA Inductive == Inv /\ [Next]_vars => Inv'
  <1> SUFFICES ASSUME Inv, [Next]_vars PROVE Inv'
    OBVIOUS
  <1>1. TypeOK' /\ Known'
    BY TypeStep, KnownStep DEF Inv
  <1>2. ASSUME overlap' = "none" PROVE Apart'
    <2>1. overlap = "none"
      BY <1>2, OverlapKept
    <2> QED BY <2>1, ApartStep DEF Inv
  <1> QED BY <1>1, <1>2 DEF Inv

\* What the code declares: the files, the passes and the counters have their types.
THEOREM TypeCorrect == Spec => []TypeOK
  <1>1. Inv => TypeOK
    BY DEF Inv
  <1> QED BY <1>1, Initially, Inductive, PTL DEF Spec

\* Claims, holds, recoveries, reclaims, retention, swaps and crashes never take an
\* unseen message off the disk, as long as passes over the inbox do not overlap.
THEOREM KeptWhileApart == Spec => [](overlap = "none" => NeverLost)
  <1>1. Inv => (overlap = "none" => NeverLost)
    BY DEF Inv, Apart
  <1> QED BY <1>1, Initially, Inductive, PTL DEF Spec

LEMMA MailboxStep == Inv /\ Inv' /\ [Next]_vars => [Box!Next]_(Box!vars)
  <1> SUFFICES ASSUME Inv, Inv', [Next]_vars PROVE Box!Next \/ UNCHANGED Box!vars
    OBVIOUS
  <1>1. CASE overlap # "none"
    BY <1>1, OverlapKept DEF Box!Next, Box!Unreliable
  <1>2. CASE overlap = "none"
    <2> DEFINE waits == (OnDisk \cap sent) \ Settled
    <2>1. overlap' = "none"
      BY <1>2, OverlapKept
    <2>2. waits = sent \ Settled /\ waits' = (sent \ Settled)'
      BY <1>2, <2>1 DEF Inv, Apart, NeverLost, Settled, OnDisk
    <2>3. ASSUME NEW m \in Msg, Send(m) PROVE Box!Queue(m)
      BY <2>1, <2>2, <2>3, <1>2 DEF Send, Settled, Inv, Known, world, Box!Queue
    <2>4. ASSUME NEW m \in Msg, GrowOld(m) PROVE Box!Lapse(m) \/ UNCHANGED Box!vars
      BY <2>1, <2>2, <2>4, <1>2 DEF GrowOld, Settled, world, Box!Lapse, Box!vars
    <2>5. ASSUME NEW m \in Msg, DropHeld(m) PROVE Box!Refuse(m) \/ UNCHANGED Box!vars
      BY <2>1, <2>2, <2>5, <1>2 DEF DropHeld, Settled, Inv, Known, world, Box!Refuse,
          Box!vars
    <2>6. ASSUME NEW m \in Msg, Consume(m) PROVE Box!See(m) \/ UNCHANGED Box!vars
      BY <2>1, <2>2, <2>6, <1>2
      DEF Consume, Settled, Inv, Known, Apart, BufferAlone, world, Box!See, Box!vars
    <2>7. CASE UNCHANGED <<sent, injected, dropped, old>>
      BY <2>1, <2>2, <2>7, <1>2 DEF Settled, Box!vars
    <2> QED BY <2>3, <2>4, <2>5, <2>6, <2>7, HistoryKept DEF Box!Next
  <1> QED BY <1>1, <1>2

\* A message that was queued waits until the session has seen it, its operator has
\* refused it or a day has passed, if the inbox's passes do not overlap; otherwise
\* nothing is promised.  This is the whole of Spec's safety in the terms of PeerMailbox.
THEOREM InboxIsMailbox == Spec => Mailbox
  <1>1. Init => Box!Init
    BY DEF Init, OnDisk, Box!Init
  <1> QED BY <1>1, Initially, Inductive, MailboxStep, PTL DEF Spec, Mailbox, Box!Spec
-----------------------------------------------------------------------------
(* Seen once: a life of the process without a swap and with one accept, in    *)
(* which recovery, the scan and the accept may all be under way.              *)

Receipts == delivered \cup torn
Scanned == pass["scan"].msg
Chosen == pass["accept"].todo

\* What may still be claimed: it is in pending/, or the accept can put it there.
Claimable(m) == m \in pending \/ (m \in held /\ (accepts = 0 \/ m \in Chosen))
\* What was claimed: the pass that did so has it, or the buffer, or a turn.
Claimed == pass["scan"].got \cup buffer \cup injected
\* Between the link (or the copy) and the reading of the receipt.
InClaim(r) == pass[r].at \in {"copy", "unlink", "read"}

\* No swap, so nothing is reclaimed.
NoReclaim == reclaiming = {}

\* A file of a message is in pending/ or in held/, and one that was claimed is in neither
\* for good: from the claim's link on its receipt keeps others off, or it is
\* gone, or the scan is about to hold it.  So until recovery takes a claim back.
ClaimOnce ==
    /\ pending \cap (held \cup Chosen) \subseteq undone
    /\ pass["scan"].got \cap buffer \subseteq undone
    /\ (pass["scan"].got \cup buffer) \cap injected \subseteq undone
    /\ \A m \in (Claimed \cup pruning) \ undone : ~Claimable(m)
    /\ \A r \in Reader : InClaim(r) /\ pass[r].msg \notin undone =>
         /\ pass[r].msg \notin Claimed
         /\ At(r, "read") => ~Claimable(pass[r].msg)
         /\ \/ pass[r].msg \in Receipts \/ ~Claimable(pass[r].msg)
            \/ At("scan", "hold") /\ Scanned = pass[r].msg
    /\ InClaim("scan") /\ Scanned \notin undone => Scanned \notin held
    /\ InClaim("scan") /\ InClaim("accept") /\ Scanned \notin undone =>
         Scanned # pass["accept"].msg

\* A held file that can be accepted has no receipt, and the accept takes each name once.
AcceptOnce ==
    /\ \A m \in (held \cap Receipts) \ undone : accepts # 0 /\ m \notin Chosen
    /\ Active("accept") => accepts # 0
    /\ Claiming => pass["accept"].msg \notin Chosen
    /\ ~Active("accept") => Chosen = {}

\* Before the accept only the scan leaves receipts, of what it is claiming.
ScanFirst ==
    accepts = 0 =>
        /\ \A m \in (Receipts \cap (pending \cup pass["scan"].todo)) \ undone :
             Scanned = m /\ pass["scan"].at \in {"copy", "unlink"}
        /\ pass["scan"].at \in {"peek", "hold", "link"} /\ Scanned \notin undone =>
             Scanned \notin Receipts
        /\ At("scan", "clear") => Scanned \in undone
        /\ Active("scan") => Scanned \notin pass["scan"].todo

OneLife == NoReclaim /\ ClaimOnce /\ AcceptOnce /\ ScanFirst
OnceInv == accepts <= 1 => again \subseteq undone /\ (Uninterrupted => OneLife)

\* The facts about one life, kept by each step of it.
LEMMA LifeStep ==
  ASSUME TypeOK, Known, Uninterrupted, Uninterrupted', accepts' <= 1,
         OneLife, [Next]_vars
  PROVE  OneLife' /\ again' \subseteq again \cup undone
  <1> USE MsgAssumption DEF TypeOK, Reader, Stage, PassType, RecType, vars, files, memory,
      session, history, world, Known, Settled, OneLife, NoReclaim, ClaimOnce, AcceptOnce, ScanFirst,
      Receipts, Scanned, Chosen, Claimable, Claimed, InClaim, Claiming, Active, At, Uninterrupted
  <1>1. ASSUME NEW m \in Msg, Send(m) PROVE OneLife' /\ again' \subseteq again \cup undone
    BY <1>1 DEF Send
  <1>2. ASSUME NEW m \in Msg, GrowOld(m) PROVE OneLife' /\ again' \subseteq again \cup undone
    BY <1>2 DEF GrowOld
  <1>3. ASSUME NEW m \in Msg, DropHeld(m) PROVE OneLife' /\ again' \subseteq again \cup undone
    BY <1>3 DEF DropHeld
  <1>4. ASSUME StartWatching PROVE OneLife' /\ again' \subseteq again \cup undone
    BY <1>4 DEF StartWatching
  <1>5. ASSUME NEW mode \in {"accept", "hold"}, StartScan(mode) PROVE OneLife' /\ again' \subseteq again \cup undone
    BY <1>5 DEF StartScan, MayClaim, Begun
  <1>6. ASSUME NEW m \in Msg, Take(m) PROVE OneLife' /\ again' \subseteq again \cup undone
    BY <1>6 DEF Take, Orphan
  <1>7. ASSUME ClearResidue PROVE OneLife' /\ again' \subseteq again \cup undone
    BY <1>7 DEF ClearResidue, NextFile
  <1>8. ASSUME ClearTorn PROVE OneLife' /\ again' \subseteq again \cup undone
    BY <1>8 DEF ClearTorn, Goto
  <1>9. ASSUME Peek PROVE OneLife' /\ again' \subseteq again \cup undone
    BY <1>9 DEF Peek, NextFile, Goto
  <1>10. ASSUME Hold PROVE OneLife' /\ again' \subseteq again \cup undone
    BY <1>10 DEF Hold, NextFile, Renamed
  <1>11. ASSUME EndScan PROVE OneLife' /\ again' \subseteq again \cup undone
    BY <1>11 DEF EndScan, Idle, Begun, Current
  <1>12. ASSUME NEW c \in SUBSET Msg, StartAccept(c) PROVE OneLife' /\ again' \subseteq again \cup undone
    BY <1>12 DEF StartAccept, MayClaim, Begun
  <1>13. ASSUME NEW m \in Msg, Release(m) PROVE OneLife' /\ again' \subseteq again \cup undone
    BY <1>13 DEF Release, Renamed, Current
  <1>14. ASSUME EndAccept PROVE OneLife' /\ again' \subseteq again \cup undone
    BY <1>14 DEF EndAccept, Idle, Begun, Current
  <1>15. ASSUME NEW r \in Reader, Link(r) PROVE OneLife' /\ again' \subseteq again \cup undone
    BY <1>15 DEF Link, Current, Idle, Begun, NextFile, Goto
  <1>16. ASSUME NEW r \in Reader, Copied(r) PROVE OneLife' /\ again' \subseteq again \cup undone
    BY <1>16 DEF Copied, Goto
  <1>17. ASSUME NEW r \in Reader, UnlinkPending(r) PROVE OneLife' /\ again' \subseteq again \cup undone
    BY <1>17 DEF UnlinkPending, Goto
  <1>18. ASSUME NEW r \in Reader, ReadReceipt(r) PROVE OneLife' /\ again' \subseteq again \cup undone
    BY <1>18 DEF ReadReceipt, Current, Idle, Begun, NextFile
  <1>19. ASSUME RecoverList PROVE OneLife' /\ again' \subseteq again \cup undone
    BY <1>19 DEF RecoverList, MayRecover
  <1>20. ASSUME RecoverAcks PROVE OneLife' /\ again' \subseteq again \cup undone
    BY <1>20 DEF RecoverAcks
  <1>21. ASSUME NEW m \in Msg, RecoverRead(m) PROVE OneLife' /\ again' \subseteq again \cup undone
    BY <1>21 DEF RecoverRead
  <1>22. ASSUME RecoverStat PROVE OneLife' /\ again' \subseteq again \cup undone
    BY <1>22 DEF RecoverStat, Duplicate
  <1>23. ASSUME RecoverDrop PROVE OneLife' /\ again' \subseteq again \cup undone
    BY <1>23 DEF RecoverDrop, TakenBack
  <1>24. ASSUME RecoverMove PROVE OneLife' /\ again' \subseteq again \cup undone
    BY <1>24 DEF RecoverMove, TakenBack, MoveBack, Renamed
  <1>25. ASSUME RecoverEnd PROVE OneLife' /\ again' \subseteq again \cup undone
    BY <1>25 DEF RecoverEnd, Resting
  <1>26. ASSUME NEW m \in Msg, Consume(m) PROVE OneLife' /\ again' \subseteq again \cup undone
    BY <1>26 DEF Consume
  <1>27. ASSUME NEW m \in Msg, AckWritten(m) PROVE OneLife' /\ again' \subseteq again \cup undone
    BY <1>27 DEF AckWritten
  <1>28. ASSUME NEW m \in Msg, Reclaim(m) PROVE OneLife' /\ again' \subseteq again \cup undone
    BY <1>28 DEF Reclaim
  <1>29. ASSUME NEW m \in Msg, PruneOne(m) PROVE OneLife' /\ again' \subseteq again \cup undone
    BY <1>29 DEF PruneOne
  <1>30. ASSUME PruneStart PROVE OneLife' /\ again' \subseteq again \cup undone
    BY <1>30 DEF PruneStart, Prunable
  <1>31. ASSUME Swap PROVE OneLife' /\ again' \subseteq again \cup undone
    BY <1>31 DEF Swap
  <1>32. ASSUME Crash PROVE OneLife' /\ again' \subseteq again \cup undone
    BY <1>32 DEF Crash
  <1>33. CASE UNCHANGED vars
    BY <1>33
  <1> QED BY <1>1, <1>2, <1>3, <1>4, <1>5, <1>6, <1>7, <1>8, <1>9, <1>10, <1>11, <1>12,
      <1>13, <1>14, <1>15, <1>16, <1>17, <1>18, <1>19, <1>20, <1>21, <1>22, <1>23,
      <1>24, <1>25, <1>26, <1>27, <1>28, <1>29, <1>30, <1>31, <1>32, <1>33 DEF Next,
      ScanStep, AcceptStep, ClaimStep, RecoverStep

\* Crashes, swaps and accepts are only counted up, and a turn alone adds to `again`.
LEMMA LivesGrow ==
  ASSUME TypeOK, [Next]_vars
  PROVE  /\ accepts \in Nat /\ accepts' \in Nat /\ accepts <= accepts'
         /\ Uninterrupted' => Uninterrupted
         /\ again' = again \/ Uninterrupted'
         /\ undone \subseteq undone'
  <1> DEFINE Counted == UNCHANGED <<again, swaps, crashes, accepts>> /\ undone \subseteq undone'
  <1> USE DEF vars, files, memory, session, history, world
  <1>0. accepts \in Nat /\ swaps \in Nat /\ crashes \in Nat
    BY DEF TypeOK
  <1>1. UNCHANGED vars => Counted
    OBVIOUS
  <1>2. ASSUME NEW m \in Msg PROVE Send(m) \/ GrowOld(m) \/ DropHeld(m) \/ AckWritten(m)
                                    \/ Reclaim(m) \/ PruneOne(m) => Counted
    BY DEF Send, GrowOld, DropHeld, AckWritten, Reclaim, PruneOne
  <1>3. StartWatching \/ PruneStart \/ (\E mode \in {"accept", "hold"} : StartScan(mode))
          => Counted
    BY DEF StartWatching, PruneStart, StartScan
  <1>4. ASSUME NEW m \in Msg PROVE Take(m) => Counted
    BY DEF Take
  <1>5. ClearResidue \/ ClearTorn \/ Peek \/ Hold \/ EndScan => Counted
    BY DEF ClearResidue, ClearTorn, Peek, Hold, EndScan
  <1>6. ASSUME NEW m \in Msg PROVE Release(m) \/ EndAccept => Counted
    BY DEF Release, EndAccept
  <1>7. ASSUME NEW r \in Reader PROVE ClaimStep(r) => Counted
    BY DEF ClaimStep, Link, Copied, UnlinkPending, ReadReceipt
  <1>8. ASSUME NEW m \in Msg PROVE RecoverRead(m) => Counted
    BY DEF RecoverRead
  <1>9. RecoverList \/ RecoverAcks \/ RecoverStat \/ RecoverDrop \/ RecoverMove \/ RecoverEnd
          => Counted
    BY DEF RecoverList, RecoverAcks, RecoverStat, RecoverDrop, RecoverMove, RecoverEnd,
       TakenBack
  <1>10. ASSUME NEW m \in Msg, Consume(m)
         PROVE  UNCHANGED <<swaps, crashes, accepts, undone>> /\ (again' = again \/ Uninterrupted)
    BY <1>10 DEF Consume
  <1>11. ASSUME NEW chosen \in SUBSET Msg, StartAccept(chosen)
         PROVE  accepts' = accepts + 1 /\ UNCHANGED <<again, swaps, crashes, undone>>
    BY <1>11 DEF StartAccept
  <1>12. Swap => swaps' = swaps + 1 /\ UNCHANGED <<again, crashes, accepts, undone>>
    BY DEF Swap
  <1>13. Crash => crashes' = crashes + 1 /\ UNCHANGED <<again, swaps, accepts, undone>>
    BY DEF Crash
  <1>14. \/ Counted
         \/ UNCHANGED <<swaps, crashes, accepts, undone>> /\ (again' = again \/ Uninterrupted)
         \/ accepts' = accepts + 1 /\ UNCHANGED <<again, swaps, crashes, undone>>
         \/ swaps' = swaps + 1 /\ UNCHANGED <<again, crashes, accepts, undone>>
         \/ crashes' = crashes + 1 /\ UNCHANGED <<again, swaps, accepts, undone>>
    BY <1>1, <1>2, <1>3, <1>4, <1>5, <1>6, <1>7, <1>8, <1>9, <1>10, <1>11, <1>12, <1>13
    DEF Next, ScanStep, AcceptStep, RecoverStep
  <1> QED BY <1>0, <1>14 DEF Uninterrupted

LEMMA OnceStep == Inv /\ OnceInv /\ [Next]_vars => OnceInv'
  <1> SUFFICES ASSUME Inv, OnceInv, [Next]_vars, accepts' <= 1
               PROVE  again' \subseteq undone' /\ (Uninterrupted' => OneLife')
    BY DEF OnceInv
  <1>1. /\ accepts \in Nat /\ accepts' \in Nat /\ accepts <= accepts'
        /\ Uninterrupted' => Uninterrupted
        /\ again' = again \/ Uninterrupted'
        /\ undone \subseteq undone'
    BY LivesGrow DEF Inv
  <1>2. again \subseteq undone /\ (Uninterrupted => OneLife)
    BY <1>1 DEF OnceInv
  <1>3. CASE Uninterrupted'
    <2>1. OneLife' /\ again' \subseteq again \cup undone
      BY <1>1, <1>2, <1>3, LifeStep DEF Inv
    <2> QED BY <1>1, <1>2, <2>1
  <1> QED BY <1>1, <1>2, <1>3

\* In one life of the process with one /inbox accept, however its recovery, its scans and
\* that accept overlap, a message enters a second turn only if recovery has taken its claim
\* back: of two claimers one only gets past the exclusive link of claimPending, and nothing
\* else puts a claimed message where it can be claimed again.
THEOREM SeenAtMostOnce == Spec => []SeenOnce
  <1>1. Init => OnceInv
    BY DEF Init, OnceInv, OneLife, NoReclaim, ClaimOnce, AcceptOnce, ScanFirst, Idle, Begun, Resting,
       Receipts, Scanned, Chosen, Claimable, Claimed, InClaim, Claiming, Active, At, Reader
  <1>2. OnceInv => SeenOnce
    BY DEF OnceInv, SeenOnce
  <1> QED BY <1>1, <1>2, Initially, Inductive, OnceStep, PTL DEF Spec
=============================================================================
