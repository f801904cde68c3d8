------------------------------ MODULE PeerInbox ------------------------------
(***************************************************************************)
(* One session's peer inbox: the files of agent/peer/inbox-store.ts and    *)
(* the reader in cli/commands/interactive/peer-inbox-notifier.ts that      *)
(* claims, buffers and injects them.  Every file call is awaited, so the   *)
(* reader's passes (scan, /inbox accept, recovery, retention, reclaim) and *)
(* its acks interleave call by call; the process may crash in between and  *)
(* /resume may swap the session out and back in.                           *)
(***************************************************************************)
EXTENDS Integers, FiniteSets

CONSTANTS
    Msg,          \* messages peers send to this session
    None,         \* no message
    Capacity,     \* MAX_PENDING_INJECTIONS
    Overlaps,     \* which passes over the inbox may overlap: see MayClaim
    MaxCrashes,   \* bound: crashes of the reading process
    MaxSwaps,     \* bound: /resume swaps
    MaxAccepts,   \* bound: /inbox accept commands
    MaxOld,       \* bound: messages that live to be a day old
    MaxLife       \* bound: messages and accepts where `overlap` is "life"

ASSUME MsgAssumption == None \notin Msg /\ IsFiniteSet(Msg)
ASSUME OverlapAssumption == Overlaps \subseteq {"none", "life", "all"}
ASSUME BoundAssumption ==
    Capacity \in Nat \ {0} /\ {MaxCrashes, MaxSwaps, MaxAccepts, MaxOld, MaxLife} \subseteq Nat

VARIABLES
    \* files: pending/, delivered/, half-copied receipts, held/, delivered/acked/
    pending, delivered, torn, held, acked,
    \* memory: the injection buffer, acks and reclaims that were fired and forgotten
    buffer, acking, reclaiming,
    here,         \* the process shows this session
    watched,      \* watchedId is this session
    swaps,        \* how often /resume swapped: the generation counter, never reset
    pass,         \* the scan and the accept under way
    rec,          \* the recovery pass under way
    pruning,      \* receipts a retention sweep is about to unlink
    sent, injected, again, dropped, old,  \* history: what became of each message
    undone,       \* history: claims that a recovery pass has taken back
    links,        \* the file system has hard links
    overlap,      \* which passes over the inbox overlap in this behaviour
    crashes, accepts

files == <<pending, delivered, torn, held, acked>>
memory == <<buffer, acking, reclaiming>>
session == <<here, watched, swaps>>
history == <<sent, injected, again, dropped, old, undone>>
world == <<links, overlap, crashes, accepts>>
vars == <<files, memory, session, pass, rec, pruning, history, world>>

-----------------------------------------------------------------------------
Reader == {"scan", "accept"}
Begun(at, mode, room, todo) ==
    [at |-> at, stale |-> FALSE, mode |-> mode, room |-> room, todo |-> todo, msg |-> None, got |-> {}]
Idle == Begun("off", "accept", 0, {})
Resting == [at |-> "off", todo |-> {}, acks |-> {}, msg |-> None]

Stage == {"off", "next", "residue", "clear", "peek", "hold", "link", "copy", "unlink", "read"}
PassType == [at : Stage, stale : BOOLEAN, mode : {"accept", "hold"}, room : Int,
             todo : SUBSET Msg, msg : Msg \cup {None}, got : SUBSET Msg]
RecType == [at : {"off", "wait", "acks", "next", "stat", "drop", "move"},
            todo : SUBSET Msg, acks : SUBSET Msg, msg : Msg \cup {None}]

\* isCurrent: no swap since the pass began; `stale` stands for an older generation.
Current(r) == ~pass[r].stale

\* rename(2) leaves both names when they are links to one file.
Renamed(m, src, dst) == IF links /\ m \in dst THEN src ELSE src \ {m}

At(r, stage) == pass[r].at = stage
Goto(r, stage) == pass' = [pass EXCEPT ![r].at = stage]
NextFile(r) == pass' = [pass EXCEPT ![r].at = "next", ![r].msg = None]

\* The code lets all passes overlap ("all"): a tick fires recovery without awaiting it and
\* scans at once.  To see what depends on it, a behaviour may also keep the passes apart
\* ("none"); one of "life" overlaps as the code does, and nothing interrupts its process.
MayClaim(r) ==
    overlap = "none" =>
        /\ rec.at = "off" /\ reclaiming = {}
        /\ \A o \in Reader : At(o, "off")
MayRecover == overlap = "none" => \A r \in Reader : At(r, "off")
MayInterrupt == overlap # "life"
RoomInLife == overlap = "life" => Cardinality(sent) + accepts < MaxLife
\* The process that began is still there, and so is the session it shows.
Uninterrupted == crashes = 0 /\ swaps = 0

Init ==
    /\ pending = {} /\ delivered = {} /\ torn = {} /\ held = {} /\ acked = {}
    /\ buffer = {} /\ acking = {} /\ reclaiming = {}
    /\ here = TRUE /\ watched = FALSE /\ swaps = 0
    /\ pass = [r \in Reader |-> Idle]
    /\ rec = Resting /\ pruning = {}
    /\ sent = {} /\ injected = {} /\ again = {} /\ dropped = {} /\ old = {}
    /\ undone = {}
    /\ links \in BOOLEAN /\ overlap \in Overlaps
    /\ crashes = 0 /\ accepts = 0

-----------------------------------------------------------------------------
\* sendToSession, writeEnvelope: written beside the inbox and renamed into it.
Send(m) ==
    /\ m \notin sent /\ RoomInLife
    /\ sent' = sent \cup {m}
    /\ pending' = pending \cup {m}
    /\ UNCHANGED <<delivered, torn, held, acked, memory, session, pass, rec, pruning,
                   injected, again, dropped, old, undone, world>>

\* UNACKED_RETENTION_MAX_AGE_MS passes; claims and holds keep a file's mtime.
GrowOld(m) ==
    /\ m \in sent \ old /\ Cardinality(old) < MaxOld
    /\ old' = old \cup {m}
    /\ UNCHANGED <<files, memory, session, pass, rec, pruning, sent, injected, again, dropped, undone, world>>

\* /inbox drop.
DropHeld(m) ==
    /\ m \in held
    /\ held' = held \ {m}
    /\ dropped' = dropped \cup {m}
    /\ UNCHANGED <<pending, delivered, torn, acked, memory, session, pass, rec, pruning,
                   sent, injected, again, old, undone, world>>

-----------------------------------------------------------------------------
(* tick: watch, recover, scan, prune. *)

WatchOnly ==                                               \* mutant
    /\ here /\ ~watched /\ rec.at = "off"
    /\ watched' = TRUE
    /\ UNCHANGED <<files, memory, here, swaps, pass, rec, pruning, history, world>>

\* The tick notices a session it does not watch; recovery is fired, not awaited.
StartWatching ==
    /\ here /\ ~watched /\ rec.at = "off"
    /\ watched' = TRUE
    /\ rec' = [rec EXCEPT !.at = "wait"]
    /\ UNCHANGED <<files, memory, here, swaps, pass, pruning, history, world>>

\* scan: listPending; one at a time (`scanning`).
StartScan(mode) ==
    /\ here /\ watched /\ At("scan", "off") /\ MayClaim("scan")
    /\ pending # {}
    /\ pass' = [pass EXCEPT !["scan"] =
                  Begun("next", mode, Capacity - Cardinality(buffer), pending)]
    /\ UNCHANGED <<files, memory, session, rec, pruning, history, world>>

Orphan(m) == IF m \in delivered THEN "residue"
             ELSE IF m \in torn THEN "clear" ELSE "peek"

\* processPendingFile: checkOrphanPending reads the receipt of the next file.
Take(m) ==
    /\ At("scan", "next") /\ m \in pass["scan"].todo
    /\ pass["scan"].mode = "accept" => Cardinality(pass["scan"].got) < pass["scan"].room
    /\ pass' = [pass EXCEPT !["scan"].todo = @ \ {m}, !["scan"].msg = m, !["scan"].at = Orphan(m)]
    /\ UNCHANGED <<files, memory, session, rec, pruning, history, world>>

\* A valid receipt: the pending file is residue of a crash.
ClearResidue ==
    /\ At("scan", "residue")
    /\ pending' = pending \ {pass["scan"].msg}
    /\ NextFile("scan")
    /\ UNCHANGED <<delivered, torn, held, acked, memory, session, rec, pruning, history, world>>

\* clearDeliveredReceipt, before the pending file is held.
ClearTorn ==
    /\ At("scan", "clear")
    /\ delivered' = delivered \ {pass["scan"].msg}
    /\ torn' = torn \ {pass["scan"].msg}
    /\ Goto("scan", "hold")
    /\ UNCHANGED <<pending, held, acked, memory, session, rec, pruning, history, world>>

\* peekPending, then mode hold or the sender's wake budget.
Peek ==
    /\ At("scan", "peek")
    /\ \/ pass["scan"].msg \notin pending /\ NextFile("scan")
       \/ pass["scan"].msg \in pending /\ Goto("scan", "hold")
       \/ /\ pass["scan"].msg \in pending /\ pass["scan"].mode = "accept"
          /\ Goto("scan", "link")
    /\ UNCHANGED <<files, memory, session, rec, pruning, history, world>>

\* holdPending.
Hold ==
    /\ At("scan", "hold")
    /\ LET m == pass["scan"].msg IN
         IF m \in pending
         THEN held' = held \cup {m} /\ pending' = Renamed(m, pending, held)
         ELSE UNCHANGED <<held, pending>>
    /\ NextFile("scan")
    /\ UNCHANGED <<delivered, torn, acked, memory, session, rec, pruning, history, world>>

\* scanOnce takes what the pass claimed, unless a swap fired meanwhile.
EndScan ==
    /\ At("scan", "next")
    /\ \/ pass["scan"].todo = {}
       \/ pass["scan"].mode = "accept" /\ Cardinality(pass["scan"].got) >= pass["scan"].room
    /\ buffer' = IF Current("scan") THEN buffer \cup pass["scan"].got ELSE buffer
    /\ pass' = [pass EXCEPT !["scan"] = Idle]
    /\ UNCHANGED <<files, acking, reclaiming, session, rec, pruning, history, world>>

-----------------------------------------------------------------------------
(* claimPending, for the scan and for /inbox accept. *)

LinkOverwrites(r) ==                                       \* mutant
    /\ At(r, "link")
    /\ LET m == pass[r].msg IN
         IF r = "accept" /\ ~Current(r)
         THEN pass' = [pass EXCEPT ![r] = Idle] /\ UNCHANGED <<delivered, torn>>
         ELSE IF m \notin pending THEN NextFile(r) /\ UNCHANGED <<delivered, torn>>
         ELSE /\ delivered' = delivered \cup {m} /\ torn' = torn \ {m}
              /\ Goto(r, "unlink")
    /\ UNCHANGED <<pending, held, acked, memory, session, rec, pruning, history, world>>

\* link(pending, delivered), or an exclusive copy where links are not supported;
\* null when another claimer won or the source is gone.
Link(r) ==
    /\ At(r, "link")
    /\ LET m == pass[r].msg IN
         IF r = "accept" /\ ~Current(r)
         THEN pass' = [pass EXCEPT ![r] = Idle] /\ UNCHANGED <<delivered, torn>>
         ELSE IF m \notin pending \/ m \in delivered \cup torn
         THEN NextFile(r) /\ UNCHANGED <<delivered, torn>>
         ELSE IF links
         THEN delivered' = delivered \cup {m} /\ torn' = torn /\ Goto(r, "unlink")
         ELSE torn' = torn \cup {m} /\ delivered' = delivered /\ Goto(r, "copy")
    /\ UNCHANGED <<pending, held, acked, memory, session, rec, pruning, history, world>>

\* The copy is complete; one whose name is gone by now goes nowhere.
Copied(r) ==
    /\ At(r, "copy")
    /\ torn' = torn \ {pass[r].msg}
    /\ delivered' = IF pass[r].msg \in torn THEN delivered \cup {pass[r].msg} ELSE delivered
    /\ Goto(r, "unlink")
    /\ UNCHANGED <<pending, held, acked, memory, session, rec, pruning, history, world>>

UnlinkPending(r) ==
    /\ At(r, "unlink")
    /\ pending' = pending \ {pass[r].msg}
    /\ Goto(r, "read")
    /\ UNCHANGED <<delivered, torn, held, acked, memory, session, rec, pruning, history, world>>

\* The claim is what the receipt says: the scan keeps it for the end of its pass,
\* the accept buffers it at once.
ReadReceipt(r) ==
    /\ At(r, "read")
    /\ LET m == pass[r].msg
           claimed == m \in delivered IN
         IF r = "scan"
         THEN /\ pass' = [pass EXCEPT ![r].at = "next", ![r].msg = None, ![r].got = IF claimed THEN @ \cup {m} ELSE @]
              /\ buffer' = buffer
         ELSE IF ~Current(r)
         THEN pass' = [pass EXCEPT ![r] = Idle] /\ buffer' = buffer
         ELSE /\ NextFile(r)
              /\ buffer' = IF claimed THEN buffer \cup {m} ELSE buffer
    /\ UNCHANGED <<files, acking, reclaiming, session, rec, pruning, history, world>>

-----------------------------------------------------------------------------
(* forceAccept: /inbox accept. *)

StartAccept(chosen) ==
    /\ here /\ watched /\ At("accept", "off") /\ MayClaim("accept")
    /\ accepts < MaxAccepts /\ RoomInLife /\ chosen \subseteq held /\ chosen # {}
    /\ accepts' = accepts + 1
    /\ pass' = [pass EXCEPT !["accept"] = Begun("next", "accept", 0, chosen)]
    /\ UNCHANGED <<files, memory, session, rec, pruning, history, links, overlap, crashes>>

\* releaseHeld; the claim follows.
Release(m) ==
    /\ At("accept", "next") /\ Current("accept") /\ m \in pass["accept"].todo
    /\ IF m \in held
       THEN /\ held' = Renamed(m, held, pending) /\ pending' = pending \cup {m}
            /\ pass' = [pass EXCEPT !["accept"].todo = @ \ {m}, !["accept"].msg = m, !["accept"].at = "link"]
       ELSE /\ pass' = [pass EXCEPT !["accept"].todo = @ \ {m}]
            /\ UNCHANGED <<held, pending>>
    /\ UNCHANGED <<delivered, torn, acked, memory, session, rec, pruning, history, world>>

EndAccept ==
    /\ At("accept", "next") /\ (~Current("accept") \/ pass["accept"].todo = {})
    /\ pass' = [pass EXCEPT !["accept"] = Idle]
    /\ UNCHANGED <<files, memory, session, rec, pruning, history, world>>

-----------------------------------------------------------------------------
(* consumeEnvelopes and the ack it fires. *)

Consume(m) ==
    /\ m \in buffer
    /\ buffer' = buffer \ {m}
    /\ acking' = acking \cup {m}
    /\ injected' = injected \cup {m}
    /\ again' = IF m \in injected /\ Uninterrupted THEN again \cup {m} ELSE again
    /\ UNCHANGED <<files, reclaiming, session, pass, rec, pruning, sent, dropped, old, undone,
                   world>>

AckEarly(m) ==                                             \* mutant
    /\ m \in acking \cup buffer
    /\ acking' = acking \ {m}
    /\ acked' = acked \cup {m}
    /\ UNCHANGED <<pending, delivered, torn, held, buffer, reclaiming, session, pass, rec, pruning, history, world>>

\* writeInjectionAck.  Nobody waits for it: one that fails is one that never comes.
AckWritten(m) ==
    /\ m \in acking
    /\ acking' = acking \ {m}
    /\ acked' = acked \cup {m}
    /\ UNCHANGED <<pending, delivered, torn, held, buffer, reclaiming, session, pass, rec, pruning, history, world>>

-----------------------------------------------------------------------------
(* recoverUnackedDelivered. *)

\* readdir(delivered) ...
RecoverList ==
    /\ rec.at = "wait" /\ MayRecover
    /\ rec' = [rec EXCEPT !.at = "acks", !.todo = delivered \cup torn]
    /\ UNCHANGED <<files, memory, session, pass, pruning, history, world>>

\* ... then readdir(acked).
RecoverAcks ==
    /\ rec.at = "acks"
    /\ rec' = [rec EXCEPT !.at = "next", !.acks = acked]
    /\ UNCHANGED <<files, memory, session, pass, pruning, history, world>>

\* The receipt is read: it must have no ack, exist and parse.
RecoverRead(m) ==
    /\ rec.at = "next" /\ m \in rec.todo
    /\ rec' = [rec EXCEPT !.todo = @ \ {m}, 
                          !.msg = IF m \in delivered \ rec.acks THEN m ELSE None,
                          !.at = IF m \in delivered \ rec.acks THEN "stat" ELSE "next"]
    /\ UNCHANGED <<files, memory, session, pass, pruning, history, world>>

AlwaysDrop == "drop"                                       \* mutant
\* stat(pending): with both names there, the receipt is the one to go.
Duplicate == IF rec.msg \in pending THEN "drop" ELSE "move"

RecoverStat ==
    /\ rec.at = "stat"
    /\ rec' = [rec EXCEPT !.at = Duplicate]
    /\ UNCHANGED <<files, memory, session, pass, pruning, history, world>>

\* The history of a life that nothing has interrupted yet.
TakenBack(receipts) == IF Uninterrupted THEN undone \cup ({rec.msg} \cap receipts) ELSE undone

RecoverDrop ==
    /\ rec.at = "drop"
    /\ delivered' = delivered \ {rec.msg} /\ torn' = torn \ {rec.msg}
    /\ rec' = [rec EXCEPT !.at = "next", !.msg = None]
    /\ undone' = TakenBack(delivered \cup torn)
    /\ UNCHANGED <<pending, held, acked, memory, session, pass, pruning, sent, injected, again,
                   dropped, old, world>>

\* rename(delivered, pending), for recovery and for reclaimDelivered.
MoveBack(m) ==
    IF m \in delivered
    THEN /\ delivered' = Renamed(m, delivered, pending)
         /\ pending' = pending \cup {m}
    ELSE UNCHANGED <<delivered, pending>>

RecoverMove ==
    /\ rec.at = "move"
    /\ MoveBack(rec.msg)
    /\ rec' = [rec EXCEPT !.at = "next", !.msg = None]
    /\ undone' = TakenBack(delivered)
    /\ UNCHANGED <<torn, held, acked, memory, session, pass, pruning, sent, injected, again,
                   dropped, old, world>>

RecoverEnd ==
    /\ rec.at = "next" /\ rec.todo = {}
    /\ rec' = Resting
    /\ UNCHANGED <<files, memory, session, pass, pruning, history, world>>

-----------------------------------------------------------------------------
(* pruneDeliveredReceipts: the directories are read, then receipts unlinked. *)

\* Old enough, and no pending source: acked receipts after about an hour, others
\* after a day.
Prunable == {m \in delivered \cup torn : m \notin pending /\ (m \in acked \/ m \in old)}

PruneStart ==
    /\ here /\ watched /\ pruning = {}
    /\ pruning' = Prunable
    /\ pruning' # {}
    /\ UNCHANGED <<files, memory, session, pass, rec, history, world>>

PruneOne(m) ==
    /\ m \in pruning
    /\ pruning' = pruning \ {m}
    /\ delivered' = delivered \ {m} /\ torn' = torn \ {m}
    /\ UNCHANGED <<pending, held, acked, memory, session, pass, rec, history, world>>

-----------------------------------------------------------------------------
\* resetForNewSession, as /resume leaves this session or comes back to it.
Swap ==
    /\ swaps < MaxSwaps /\ MayInterrupt
    /\ swaps' = swaps + 1 /\ here' = ~here /\ watched' = FALSE
    /\ reclaiming' = reclaiming \cup buffer
    /\ buffer' = {}
    /\ pass' = [r \in Reader |-> IF At(r, "off") THEN Idle ELSE [pass[r] EXCEPT !.stale = TRUE]]
    /\ UNCHANGED <<files, acking, rec, pruning, history, world>>

\* reclaim: one rename per buffered envelope, not awaited by the swap.
Reclaim(m) ==
    /\ m \in reclaiming
    /\ reclaiming' = reclaiming \ {m}
    /\ MoveBack(m)
    /\ UNCHANGED <<torn, held, acked, buffer, acking, session, pass, rec, pruning, history, world>>

\* The process dies and the session is resumed in a new one: files survive.
Crash ==
    /\ crashes < MaxCrashes /\ MayInterrupt
    /\ crashes' = crashes + 1
    /\ buffer' = {} /\ acking' = {} /\ reclaiming' = {}
    /\ here' = TRUE /\ watched' = FALSE
    /\ pass' = [r \in Reader |-> Idle] /\ rec' = Resting /\ pruning' = {}
    /\ UNCHANGED <<files, swaps, history, links, overlap, accepts>>

-----------------------------------------------------------------------------
ScanStep ==
    \/ \E m \in Msg : Take(m)
    \/ ClearResidue \/ ClearTorn \/ Peek \/ Hold \/ EndScan
AcceptStep == \E m \in Msg : Release(m) \/ EndAccept
ClaimStep(r) == Link(r) \/ Copied(r) \/ UnlinkPending(r) \/ ReadReceipt(r)
RecoverStep ==
    \/ RecoverList \/ RecoverAcks \/ RecoverStat \/ RecoverDrop \/ RecoverMove \/ RecoverEnd
    \/ \E m \in Msg : RecoverRead(m)

Next ==
    \/ \E m \in Msg : Send(m) \/ GrowOld(m) \/ DropHeld(m)
    \/ StartWatching
    \/ \E mode \in {"accept", "hold"} : StartScan(mode)
    \/ \E chosen \in SUBSET Msg : StartAccept(chosen)
    \/ ScanStep \/ AcceptStep \/ RecoverStep
    \/ \E r \in Reader : ClaimStep(r)
    \/ \E m \in Msg : Consume(m) \/ AckWritten(m) \/ Reclaim(m) \/ PruneOne(m)
    \/ PruneStart \/ Swap \/ Crash

Spec == Init /\ [][Next]_vars

\* The poll ticks, file calls return, and turns consume the buffer.
Fairness ==
    /\ WF_vars(StartWatching) /\ WF_vars(StartScan("accept"))
    /\ WF_vars(ScanStep) /\ WF_vars(AcceptStep) /\ WF_vars(RecoverStep)
    /\ \A r \in Reader : WF_vars(ClaimStep(r))
    /\ \A m \in Msg : WF_vars(Consume(m)) /\ WF_vars(Reclaim(m))
FairSpec == Spec /\ Fairness

-----------------------------------------------------------------------------
TypeOK ==
    /\ {pending, delivered, torn, held, acked} \subseteq SUBSET Msg
    /\ {buffer, acking, reclaiming, pruning} \subseteq SUBSET Msg
    /\ {sent, injected, again, dropped, old, undone} \subseteq SUBSET Msg
    /\ {here, watched, links} \subseteq BOOLEAN /\ overlap \in Overlaps
    /\ swaps \in Nat /\ crashes \in Nat /\ accepts \in Nat
    /\ pass \in [Reader -> PassType]
    /\ rec \in RecType
    /\ acking \cup acked \subseteq injected

\* A readable file from which the message can still be delivered.
OnDisk == pending \cup held \cup delivered

\* At-least-once: whatever crashes, swaps and races there are, a message that was queued
\* is on disk until a turn has seen it or the operator has dropped it, for a day.
NeverLost == sent \ (injected \cup dropped \cup old) \subseteq OnDisk

\* Within one life of the process, without a swap and with one /inbox accept, a message
\* enters a second turn only if that life's own recovery took its claim back: the scan and
\* the accept never both claim it, retention and holds never free it.  (Recovery does, when
\* it lists a claim that has no ack yet.  And a file that the scan puts back into held/
\* while the accept claims it is there for a second accept.)
SeenOnce == accepts <= 1 => again \subseteq undone

\* What the inbox is for, as an abstract mailbox: it is one, and a sound one while
\* its passes do not overlap.
Box == INSTANCE PeerMailbox WITH
    waiting <- (OnDisk \cap sent) \ (injected \cup dropped \cup old),
    seen <- injected,
    refused <- dropped \ injected,
    lapsed <- old \ (injected \cup dropped),
    sound <- overlap = "none"
Mailbox == Box!Spec

\* If the session stays and its passes do not overlap, every message is seen, or held
\* for its operator, or a day old.  That includes one that a crash caught between its
\* claim and its turn: recoverUnackedDelivered takes it out of delivered/ again, as
\* inbox-store.ts:25-32 says.  (The header of the notifier, lines 21-23, and
\* docs/peer-messaging.md:137 say that such a message is lost.)
Arrives ==
    \A m \in Msg : m \in sent ~> m \in injected \cup held \cup dropped \cup old \/ overlap # "none" \/ ~here
=============================================================================
