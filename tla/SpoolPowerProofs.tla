-------------------------- MODULE SpoolPowerProofs --------------------------
(***************************************************************************)
(* Theorems about the spool of Spool when power losses are the only        *)
(* failures: recovery never refuses it, no event is in it twice, and it    *)
(* implements EvidenceLog.                                                 *)
(***************************************************************************)
EXTENDS SpoolCloseProofs

(* At most one log has no close record, and a running writer has it open.  *)
OpenLogInv ==
    /\ \A s, t \in OpenLogs : s = t
    /\ pc # "down" => OpenLogs \subseteq {openSeg}

(* The line append() is about to sync is the only one that is not. *)
LagInv == pc = "fsync" => Len(log[openSeg]) = synced[openSeg] + 1

PowerInv == CloseInv /\ DurableInv /\ OpenLogInv /\ LagInv /\ pc # "refused"

-----------------------------------------------------------------------------
(* What recovery can deal with. *)

LEMMA PowerAloneIsHonest == PowerAlone => HonestFiles /\ ClosesAreSafe
BY DEF PowerAlone, HonestFiles, ClosesAreSafe

(* Whole lines, perhaps with a torn one behind them, can be repaired. *)
LEMMA SoundIsRepairable ==
    ASSUME NEW f \in Seq(Pieces), Sound(f)
    PROVE  Repairable(f)
<1>1. CASE Intact(f)
    <2>1. Len(f) \in 0..Len(f)
        OBVIOUS
    <2> QED BY <1>1, <2>1 DEF Repairable, RepairPoint
<1>2. CASE ~Intact(f)
    <2>1. \A i \in 1..Len(f) : i # Len(f) => Valid(f, i)
        BY DEF Sound, Whole
    <2>2. PICK i \in 1..Len(f) : ~Valid(f, i)
        BY <1>2 DEF Intact
    <2> DEFINE n == Len(f) - 1
    <2>3. n \in 0..Len(f) /\ n < Len(f) /\ (n + 1)..(Len(f) - 1) = {}
        BY <2>2
    <2>4. \A j \in 1..n : Valid(f, j)
        BY <2>1
    <2> HIDE DEF n
    <2> QED BY <1>2, <2>3, <2>4 DEF Repairable, RepairPoint
<1> QED BY <1>1, <1>2

LEMMA NothingToRefuse ==
    ASSUME DurableInv, OpenLogInv
    PROVE  ~RecoverRefuses
<1>1. ~(Cardinality(OpenLogs) > 1)
    <2>1. CASE OpenLogs = {}
        BY <2>1, FS_EmptySet
    <2>2. CASE OpenLogs # {}
        <3>1. PICK s \in OpenLogs : OpenLogs = {s}
            BY <2>2 DEF OpenLogInv
        <3>2. Cardinality(OpenLogs) = 1
            BY <3>1, FS_Singleton
        <3> QED BY <3>2
    <2> QED BY <2>1, <2>2
<1>2. \A s \in OpenLogs : Repairable(log[s])
    <2>1. SUFFICES ASSUME NEW s \in OpenLogs PROVE Repairable(log[s])
        OBVIOUS
    <2>2. s \in Segs /\ log[s] \in Seq(Pieces)
        BY DEF DurableInv, Typed, TypeOK, OpenLogs
    <2> QED BY <2>2, SoundIsRepairable DEF DurableInv, DiskInv
<1> QED BY <1>1, <1>2 DEF RecoverRefuses

-----------------------------------------------------------------------------
(* The open log. *)

LEMMA OpenLogStays ==
    ASSUME OpenLogInv, OpenLogs' \subseteq OpenLogs, openSeg' = openSeg, pc # "down"
    PROVE  OpenLogInv'
BY DEF OpenLogInv

LEMMA OpenLogWriter ==
    ASSUME PowerAlone, PowerInv, WriterStep
    PROVE  OpenLogInv'
<1> USE DEF PowerInv
<1>1. TypeOK
    BY DEF CloseInv, Typed
<1>2. ASSUME NEW b \in Bodies, AppendStep(b) PROVE OpenLogInv'
    <2>1. CASE AppendWrites(b) \/ AppendRaises(b)
        <3>1. /\ Writing(b) /\ close' = close /\ openSeg' = Segment
              /\ exists' \subseteq exists \cup {Segment}
            BY <2>1 DEF AppendWrites, AppendRaises, EntrySet, Minted
        <3>2. OpenLogs \subseteq {Segment}
            <4>1. pc # "down"
                BY <3>1 DEF Writing, Appendable
            <4>2. OpenLogs \subseteq {openSeg} /\ OpenLogs \subseteq Segs
                BY <1>1, <4>1 DEF OpenLogInv, OpenLogs, TypeOK
            <4> QED BY <4>2 DEF Segment, NoSeg, Segs
        <3> QED BY <3>1, <3>2 DEF OpenLogInv, OpenLogs
    <2>2. CASE RotationCheckRaises(b) \/ RotationRaises(b)
        BY <2>2, OpenLogStays
           DEF RotationCheckRaises, RotationRaises, Appendable, disk, memory, OpenLogs
    <2>3. CASE Rotates(b)
        <3>1. \A s \in Segs \ {openSeg} : close'[s] = close[s]
            BY <1>1, <2>3 DEF Rotates, PublishClose, TypeOK
        <3>2. exists' = exists /\ openSeg' = openSeg /\ pc # "down"
            BY <2>3 DEF Rotates, PublishClose, Appendable
        <3> QED BY <1>1, <3>1, <3>2 DEF OpenLogInv, OpenLogs, TypeOK
    <2> QED BY <1>2, <2>1, <2>2, <2>3 DEF AppendStep
<1>3. CASE AppendReturns
    BY <1>3, OpenLogStays DEF AppendReturns, OpenLogs
<1>4. CASE FsyncFails \/ DirSyncFails
    BY <1>4 DEF FsyncFails, DirSyncFails, PowerAlone
<1>5. CASE CloseSegment
    <2>1. \A s \in Segs \ {openSeg} : close'[s] = close[s]
        BY <1>1, <1>5 DEF CloseSegment, PublishClose, TypeOK
    <2>2. exists' = exists /\ openSeg' = openSeg /\ pc # "down"
        BY <1>5 DEF CloseSegment, PublishClose
    <2> QED BY <1>1, <2>1, <2>2 DEF OpenLogInv, OpenLogs, TypeOK
<1>6. CASE DiscardEmptyLog
    <2>1. exists' = exists \ {openSeg} /\ close' = close /\ pc # "down"
        BY <1>6 DEF DiscardEmptyLog, EntrySet
    <2> QED BY <2>1 DEF OpenLogInv, OpenLogs
<1>7. CASE CloseReturns
    <2>1. exists' = exists /\ close' = close /\ pc = "dirsync"
        BY <1>7 DEF CloseReturns
    <2>2. close[openSeg] # <<>>
        BY <2>1 DEF CloseInv, WriterInv
    <2> QED BY <2>1, <2>2 DEF OpenLogInv, OpenLogs
<1> QED BY <1>2, <1>3, <1>4, <1>5, <1>6, <1>7 DEF WriterStep

LEMMA PowerNext ==
    ASSUME PowerAlone
    PROVE  PowerInv /\ [Next]_vars => PowerInv'
<1> SUFFICES ASSUME PowerInv, [Next]_vars PROVE PowerInv'
    OBVIOUS
<1> USE DEF PowerInv
<1>1. CloseInv' /\ DurableInv'
    BY PowerAloneIsHonest, CloseNext, DurableNext
<1>2. TypeOK /\ TypeOK'
    BY <1>1 DEF CloseInv, Typed
<1>3. CASE Tick \/ UNCHANGED vars
    BY <1>1, <1>3 DEF Tick, vars, disk, memory, OpenLogInv, OpenLogs, LagInv
<1>4. CASE WriterStep
    <2>1. LagInv' /\ pc' # "refused"
        <3>1. ASSUME NEW b \in Bodies, AppendWrites(b) PROVE LagInv' /\ pc' # "refused"
            <4>1. Writing(b) /\ synced' = synced /\ openSeg' = Segment /\ pc' = "fsync"
                BY <3>1 DEF AppendWrites, Minted
            <4>2. Segment \in Segs /\ pc # "fsync"
                BY <4>1 DEF Writing, Appendable
            <4>3. PICK f \in Seq(Pieces) : f = log[Segment] /\ Len(f) = synced[Segment]
                BY <1>2, <4>2 DEF CloseInv, DiskLagsInv, TypeOK
            <4>4. \E piece : log' = [log EXCEPT ![Segment] = Append(f, piece)]
                BY <3>1, <4>3 DEF AppendWrites
            <4>5. PICK piece : log'[Segment] = Append(f, piece)
                BY <1>2, <4>2, <4>4 DEF TypeOK
            <4> QED BY <4>1, <4>3, <4>5 DEF LagInv
        <3>2. CASE pc' # "fsync" /\ pc' # "refused"
            BY <3>2 DEF LagInv
        <3>3. CASE ~\E b \in Bodies : AppendWrites(b)
            <4>1. pc' \notin {"fsync", "refused"}
                BY <1>4, <3>3
                   DEF WriterStep, AppendStep, AppendRaises, RotationCheckRaises, RotationRaises,
                       Rotates, PublishClose, AppendReturns, FsyncFails, CloseSegment,
                       DiscardEmptyLog, CloseReturns, DirSyncFails, Appendable, memory
            <4> QED BY <3>2, <4>1
        <3> QED BY <3>1, <3>3
    <2> QED BY <1>1, <1>4, <2>1, OpenLogWriter
<1>5. CASE Kill
    BY <1>5 DEF Kill, PowerAlone
<1>6. CASE PowerLoss
    <2>1. /\ exists' = exists /\ pc' = "down"
          /\ \A s \in Segs : \/ close'[s] = close[s]
                             \/ pc = "dirsync" /\ s = openSeg /\ close'[s] = <<>>
        BY <1>6, PowerLossEffect
    <2>2. \A s \in OpenLogs' : s \in OpenLogs \/ (pc = "dirsync" /\ s = openSeg)
        BY <1>2, <2>1 DEF OpenLogs, TypeOK
    <2> QED BY <1>1, <2>1, <2>2 DEF OpenLogInv, LagInv
<1>7. CASE Recover
    <2>1. CASE RecoverNothing
        BY <1>1, <2>1 DEF RecoverNothing, OpenLogInv, OpenLogs, LagInv, disk
    <2>2. ASSUME NEW s \in Segs, RecoverOpenLog(s) PROVE PowerInv'
        <3>1. PICK n \in 0..Len(log[s]) :
                  /\ exists' = IF n = 0 THEN exists \ {s} ELSE exists
                  /\ openSeg' = IF n = 0 THEN NoSeg ELSE s
            BY <2>2 DEF RecoverOpenLog, EntrySet
        <3>2. close' = close /\ OpenLogs = {s} /\ pc' = "idle"
            BY <2>2 DEF RecoverOpenLog
        <3>3. OpenLogs' \subseteq {openSeg'}
            BY <3>1, <3>2 DEF OpenLogs
        <3> QED BY <1>1, <3>2, <3>3 DEF OpenLogInv, LagInv
    <2> QED BY <1>7, <2>1, <2>2, NothingToRefuse DEF Recover
<1> QED BY <1>3, <1>4, <1>5, <1>6, <1>7 DEF Next, Crash

LEMMA PowerInit == Init => PowerInv
BY CloseInit, DurableInit DEF PowerInv, OpenLogInv, OpenLogs, LagInv, Init

(* Whatever a power loss leaves of a spool, at whatever moment, recovery   *)
(* can deal with: it never refuses a spool its own writer wrote.           *)
THEOREM RecoveryRefusesNoPowerLoss == Spec => []RecoveryNeverRefuses
<1> DEFINE Inv == PowerAlone => PowerInv
<1>1. Init => Inv
    BY PowerInit
<1>2. Inv /\ [Next]_vars => Inv'
    <2> SUFFICES ASSUME Inv, [Next]_vars, PowerAlone' PROVE PowerInv'
        OBVIOUS
    <2>1. PowerAlone
        BY DEF PowerAlone, Next, vars
    <2> QED BY <2>1, PowerNext
<1>3. Inv => RecoveryNeverRefuses
    BY DEF PowerInv, RecoveryNeverRefuses
<1> QED BY <1>1, <1>2, <1>3, PTL DEF Spec

-----------------------------------------------------------------------------
(***************************************************************************)
(* Why no event is in the spool twice.  A body that is in a log was        *)
(* acknowledged, or its append() died with the program, so that nobody     *)
(* appends it again; or its append() is just syncing it.                   *)
(***************************************************************************)

BodyAt(f, i, b) == f[i].ev # <<>> /\ f[i].ev[Len(f[i].ev)] = b

Settled == {"acked", "lost"}

LinesInv ==
    \A s \in Segs : \A i \in 1..Len(log[s]) : \A b \in Bodies :
        BodyAt(log[s], i, b) =>
            \/ fate[b] \in Settled
            \/ pc = "fsync" /\ s = openSeg /\ i = Len(log[s]) /\ b = task

UniqueInv ==
    \A s, t \in Segs : \A i \in 1..Len(log[s]), j \in 1..Len(log[t]) : \A b \in Bodies :
        BodyAt(log[s], i, b) /\ BodyAt(log[t], j, b) => s = t /\ i = j

TaskInv ==
    pc \in {"append", "fsync", "dirsync"} /\ task # NoBody => fate[task] \notin Settled

EventInv == LinesInv /\ UniqueInv /\ TaskInv

(* The lines after a step are lines of before, or torn ones. *)
OldLines ==
    \A s \in Segs :
        /\ Len(log[s]) \in Nat /\ Len(log'[s]) \in Nat /\ Len(log'[s]) <= Len(log[s])
        /\ \A i \in 1..Len(log'[s]) : log'[s][i] \in {log[s][i], Torn}

(* A step that adds no line and settles what is being synced, if anything. *)
LEMMA LinesKept ==
    ASSUME LinesInv, UniqueInv, OldLines,
           \A b \in Bodies : fate[b] \in Settled => fate'[b] \in Settled,
           pc = "fsync" => fate'[task] \in Settled
    PROVE  LinesInv' /\ UniqueInv'
<1>1. ASSUME NEW s \in Segs, NEW i \in 1..Len(log'[s]), NEW b \in Bodies,
             BodyAt(log'[s], i, b)
      PROVE  i \in 1..Len(log[s]) /\ BodyAt(log[s], i, b)
    <2>1. i \in 1..Len(log[s]) /\ log'[s][i] \in {log[s][i], Torn}
        BY DEF OldLines
    <2>2. log'[s][i] # Torn
        BY <1>1 DEF BodyAt, Torn
    <2> QED BY <1>1, <2>1, <2>2 DEF BodyAt
<1>2. LinesInv'
    BY <1>1 DEF LinesInv
<1>3. UniqueInv'
    BY <1>1 DEF UniqueInv
<1> QED BY <1>2, <1>3

LEMMA SameLogs == ASSUME TypeOK, log' = log PROVE OldLines
BY DEF OldLines, TypeOK

(* What append() writes was in no log before. *)
LEMMA NewLine ==
    ASSUME PowerAlone, PowerInv, EventInv, NEW b \in Bodies, AppendWrites(b)
    PROVE  EventInv'
<1> USE DEF PowerInv
<1>1. TypeOK
    BY DEF CloseInv, Typed
<1>2. /\ Writing(b) /\ openSeg' = Segment /\ pc' = "fsync" /\ task' = b /\ fate' = fate
    BY DEF AppendWrites, Minted
<1>3. Segment \in Segs /\ pc \in {"idle", "append"} /\ fate[b] \notin Settled
    BY <1>2, BodiesAssumption DEF Writing, Appendable, EventInv, TaskInv, Settled
<1>4. PICK f \in Seq(Pieces) : f = log[Segment]
    BY <1>1, <1>3 DEF TypeOK
<1> DEFINE ev == Append(last, b)
           piece == [ev |-> ev, nl |-> TRUE]
<1>5. WriteOutcomes(ev) = {piece}
    BY DEF WriteOutcomes, PowerAlone
<1>6. log' = [log EXCEPT ![Segment] = Append(f, piece)]
    BY <1>4, <1>5 DEF AppendWrites
<1>7. ev # <<>> /\ ev[Len(ev)] = b /\ ev \in Chains
    <2>1. PICK l \in Seq(Bodies) : l = last
        BY <1>1 DEF TypeOK, Chains
    <2>2. Append(l, b) \in Seq(Bodies) /\ Len(Append(l, b)) = Len(l) + 1
        OBVIOUS
    <2>3. Append(l, b)[Len(l) + 1] = b /\ Append(l, b) # <<>>
        OBVIOUS
    <2> QED BY <2>1, <2>2, <2>3 DEF Chains
<1>8. piece \in Pieces /\ piece.ev = ev
    BY <1>7 DEF Pieces
<1> HIDE DEF ev, piece
<1>9. /\ log'[Segment] = Append(f, piece)
      /\ \A s \in Segs \ {Segment} : log'[s] = log[s]
    BY <1>1, <1>3, <1>6 DEF TypeOK
<1>10. /\ Len(log'[Segment]) = Len(f) + 1 /\ Len(f) \in Nat
       /\ log'[Segment][Len(f) + 1] = piece
       /\ \A i \in 1..Len(f) : log'[Segment][i] = f[i]
    BY <1>8, <1>9
<1>11. \A s \in Segs : \A i \in 1..Len(log'[s]) :
          \/ i \in 1..Len(log[s]) /\ log'[s][i] = log[s][i]
          \/ s = Segment /\ i = Len(f) + 1 /\ log'[s][i] = piece
    BY <1>4, <1>9, <1>10
<1>12. ASSUME NEW s \in Segs, NEW i \in 1..Len(log'[s]), NEW c \in Bodies,
              BodyAt(log'[s], i, c)
       PROVE  \/ i \in 1..Len(log[s]) /\ BodyAt(log[s], i, c) /\ fate[c] \in Settled
              \/ s = Segment /\ i = Len(f) + 1 /\ c = b
    <2>1. CASE i \in 1..Len(log[s]) /\ log'[s][i] = log[s][i]
        BY <1>3, <1>12, <2>1 DEF BodyAt, EventInv, LinesInv
    <2>2. CASE s = Segment /\ i = Len(f) + 1 /\ log'[s][i] = piece
        BY <1>7, <1>8, <1>12, <2>2 DEF BodyAt
    <2> QED BY <1>11, <2>1, <2>2
<1>13. LinesInv'
    BY <1>2, <1>10, <1>12 DEF LinesInv
<1>14. UniqueInv'
    <2>1. SUFFICES ASSUME NEW s \in Segs, NEW t \in Segs, NEW i \in 1..Len(log'[s]),
                          NEW j \in 1..Len(log'[t]), NEW c \in Bodies,
                          BodyAt(log'[s], i, c), BodyAt(log'[t], j, c)
                   PROVE  s = t /\ i = j
        BY DEF UniqueInv
    <2>2. CASE c = b
        BY <1>3, <1>12, <2>1, <2>2
    <2>3. CASE c # b
        BY <1>12, <2>1, <2>3 DEF EventInv, UniqueInv
    <2> QED BY <2>2, <2>3
<1>15. TaskInv'
    BY <1>2, <1>3 DEF TaskInv
<1> QED BY <1>13, <1>14, <1>15 DEF EventInv

(* Losing what was not synced, and repairing a log, adds no line. *)
LEMMA LossIsOld ==
    ASSUME PowerAlone, TypeOK, NEW s \in Segs, NEW g \in LossOutcomes(s)
    PROVE  /\ Len(g) \in Nat /\ Len(g) <= Len(log[s])
           /\ \A i \in 1..Len(g) : g[i] \in {log[s][i], Torn}
<1>1. PICK f \in Seq(Pieces) : f = log[s]
    BY DEF TypeOK
<1>2. PICK k \in Nat : k = synced[s]
    BY DEF TypeOK
<1>3. "cut" \notin faults
    BY DEF PowerAlone
<1>4. CASE g = f
    BY <1>1, <1>4
<1>5. ASSUME NEW n \in k..(Len(f) - 1),
             g = SubSeq(f, 1, n) \/ g = Append(SubSeq(f, 1, n), Torn)
      PROVE  /\ Len(g) \in Nat /\ Len(g) <= Len(f)
             /\ \A i \in 1..Len(g) : g[i] \in {f[i], Torn}
    <2>1. n \in Nat /\ n < Len(f) /\ n <= Len(f)
        OBVIOUS
    <2>2. PICK h \in Seq(Pieces) :
              h = SubSeq(f, 1, n) /\ Len(h) = n /\ \A i \in 1..n : h[i] = f[i]
        BY <2>1, PrefixType
    <2>3. /\ Len(Append(h, Torn)) = n + 1 /\ Append(h, Torn)[n + 1] = Torn
          /\ \A i \in 1..n : Append(h, Torn)[i] = f[i]
        BY <2>2, PiecesClosed
    <2>4. CASE g = h
        BY <2>1, <2>2, <2>4
    <2>5. CASE g = Append(h, Torn)
        BY <2>1, <2>3, <2>5
    <2> QED BY <1>5, <2>2, <2>4, <2>5
<1>6. \/ g = f
      \/ \E n \in k..(Len(f) - 1) : g = SubSeq(f, 1, n) \/ g = Append(SubSeq(f, 1, n), Torn)
    BY <1>1, <1>2, <1>3 DEF LossOutcomes
<1> QED BY <1>1, <1>4, <1>5, <1>6

LEMMA EventWriter ==
    ASSUME PowerAlone, PowerInv, EventInv, WriterStep
    PROVE  EventInv'
<1> USE DEF PowerInv
<1>1. TypeOK /\ PcOK
    BY DEF CloseInv, Typed
<1> USE DEF EventInv
<1>2. ASSUME NEW b \in Bodies, AppendStep(b) PROVE EventInv'
    <2>1. CASE AppendWrites(b)
        BY <2>1, NewLine
    <2>2. CASE AppendRaises(b) \/ RotationCheckRaises(b) \/ RotationRaises(b)
        <3>1. log' = log /\ fate[b] \notin Settled /\ pc # "fsync" /\ Raised(b) /\ pc' = "idle"
            BY <2>2, BodiesAssumption
               DEF AppendRaises, RotationCheckRaises, RotationRaises, Writing, Appendable,
                   TaskInv, Settled, disk, memory
        <3>2. \A c \in Bodies : fate[c] \in Settled => fate'[c] \in Settled
            BY <1>1, <3>1 DEF Raised, TypeOK
        <3>3. LinesInv' /\ UniqueInv'
            BY <1>1, <3>1, <3>2, LinesKept, SameLogs
        <3> QED BY <3>1, <3>3 DEF TaskInv
    <2>3. CASE Rotates(b)
        <3>1. /\ UNCHANGED <<log, fate>> /\ pc = "idle" /\ pc' = "dirsync" /\ task' = b
              /\ fate[b] \notin Settled
            BY <2>3 DEF Rotates, PublishClose, Appendable, Settled
        <3>2. LinesInv' /\ UniqueInv'
            BY <1>1, <3>1, LinesKept, SameLogs
        <3> QED BY <3>1, <3>2 DEF TaskInv
    <2> QED BY <1>2, <2>1, <2>2, <2>3 DEF AppendStep
<1>3. CASE AppendReturns
    <2>1. log' = log /\ pc = "fsync" /\ fate' = [fate EXCEPT ![task] = "acked"] /\ pc' = "idle"
        BY <1>3 DEF AppendReturns
    <2>2. /\ \A c \in Bodies : fate[c] \in Settled => fate'[c] \in Settled
          /\ fate'[task] \in Settled
        BY <1>1, <2>1 DEF Settled, TypeOK, PcOK
    <2>3. LinesInv' /\ UniqueInv'
        BY <1>1, <2>1, <2>2, LinesKept, SameLogs
    <2> QED BY <2>1, <2>3 DEF TaskInv
<1>4. CASE FsyncFails \/ DirSyncFails
    BY <1>4 DEF FsyncFails, DirSyncFails, PowerAlone
<1>5. CASE CloseSegment \/ DiscardEmptyLog \/ CloseReturns
    <2>1. UNCHANGED <<log, fate>> /\ pc # "fsync"
        BY <1>5 DEF CloseSegment, PublishClose, DiscardEmptyLog, CloseReturns
    <2>2. LinesInv' /\ UniqueInv'
        BY <1>1, <2>1, LinesKept, SameLogs
    <2>3. TaskInv'
        BY <1>5, <2>1
           DEF CloseSegment, PublishClose, DiscardEmptyLog, CloseReturns, TaskInv
    <2> QED BY <2>2, <2>3
<1> QED BY <1>2, <1>3, <1>4, <1>5 DEF WriterStep

LEMMA EventNext ==
    ASSUME PowerAlone, PowerInv, EventInv, [Next]_vars
    PROVE  EventInv'
<1> USE DEF PowerInv, EventInv
<1>1. TypeOK /\ PcOK
    BY DEF CloseInv, Typed
<1>2. CASE Tick \/ UNCHANGED vars
    BY <1>2 DEF Tick, vars, disk, memory, LinesInv, UniqueInv, TaskInv
<1>3. CASE Kill
    BY <1>3 DEF Kill, PowerAlone
<1>4. CASE PowerLoss
    <2>1. /\ \A s \in exists : log'[s] \in LossOutcomes(s)
          /\ \A s \in Segs \ exists : log'[s] = <<>>
        BY <1>4, PowerLossEffect
    <2>2. OldLines
        <3>1. SUFFICES ASSUME NEW s \in Segs
                       PROVE  /\ Len(log[s]) \in Nat /\ Len(log'[s]) \in Nat
                              /\ Len(log'[s]) <= Len(log[s])
                              /\ \A i \in 1..Len(log'[s]) : log'[s][i] \in {log[s][i], Torn}
            BY DEF OldLines
        <3>2. Len(log[s]) \in Nat
            BY <1>1 DEF TypeOK
        <3>3. CASE s \in exists
            BY <1>1, <2>1, <3>2, <3>3, LossIsOld
        <3>4. CASE s \notin exists
            BY <2>1, <3>2, <3>4
        <3> QED BY <3>3, <3>4
    <2>3. fate' = [b \in Bodies |->
                      IF b = task \/ fate[b] = "failed" THEN "lost" ELSE fate[b]]
          /\ pc' = "down"
        BY <1>4 DEF PowerLoss, Dies
    <2>4. /\ \A b \in Bodies : fate[b] \in Settled => fate'[b] \in Settled
          /\ pc = "fsync" => fate'[task] \in Settled
        BY <1>1, <2>3 DEF Settled, PcOK
    <2>5. LinesInv' /\ UniqueInv'
        BY <2>2, <2>4, LinesKept
    <2> QED BY <2>3, <2>5 DEF TaskInv
<1>5. CASE RecoverNothing
    <2>1. UNCHANGED <<log, fate>> /\ pc = "down" /\ pc' = "idle"
        BY <1>5 DEF RecoverNothing, disk
    <2>2. LinesInv' /\ UniqueInv'
        BY <1>1, <2>1, LinesKept, SameLogs
    <2> QED BY <2>1, <2>2 DEF TaskInv
<1>6. ASSUME NEW s \in Segs, RecoverOpenLog(s) PROVE EventInv'
    <2>1. fate' = fate /\ pc = "down" /\ pc' = "idle"
        BY <1>6 DEF RecoverOpenLog
    <2>2. PICK n \in 0..Len(log[s]) : log' = [log EXCEPT ![s] = SubSeq(@, 1, n)]
        BY <1>6 DEF RecoverOpenLog
    <2>3. PICK f \in Seq(Pieces) : f = log[s]
        BY <1>1 DEF TypeOK
    <2>4. /\ Len(SubSeq(f, 1, n)) = n
          /\ \A i \in 1..n : SubSeq(f, 1, n)[i] = f[i]
        BY <2>2, <2>3, PrefixType
    <2>5. log'[s] = SubSeq(f, 1, n) /\ \A t \in Segs \ {s} : log'[t] = log[t]
        BY <1>1, <2>2, <2>3 DEF TypeOK
    <2>6. \A t \in Segs : Len(log[t]) \in Nat
        BY <1>1 DEF TypeOK
    <2>7. OldLines
        BY <2>2, <2>3, <2>4, <2>5, <2>6 DEF OldLines
    <2>8. LinesInv' /\ UniqueInv'
        BY <2>1, <2>7, LinesKept
    <2> QED BY <2>1, <2>8 DEF TaskInv
<1> QED BY <1>2, <1>3, <1>4, <1>5, <1>6, EventWriter, NothingToRefuse DEF Next, Crash, Recover

LEMMA EventInit == Init => EventInv
BY DEF Init, EventInv, LinesInv, UniqueInv, TaskInv

LEMMA EventInvImpliesUnique ==
    ASSUME TypeOK, UniqueInv
    PROVE  EventsAreUnique
<1> SUFFICES ASSUME NEW s \in Segs, NEW t \in Segs,
                    NEW i \in 1..Len(log[s]), NEW j \in 1..Len(log[t])
             PROVE  /\ log[s][i].ev # <<>> /\ log[t][j].ev # <<>>
                    /\ log[s][i].ev[Len(log[s][i].ev)] = log[t][j].ev[Len(log[t][j].ev)]
                    => s = t /\ i = j
    BY DEF EventsAreUnique
<1>1. log[s][i].ev \in Seq(Bodies)
    <2>1. log[s] \in Seq(Pieces)
        BY DEF TypeOK
    <2>2. log[s][i] \in Pieces
        BY <2>1
    <2> QED BY <2>2 DEF Pieces, Chains
<1>2. log[s][i].ev # <<>> => log[s][i].ev[Len(log[s][i].ev)] \in Bodies
    BY <1>1
<1> QED BY <1>2 DEF UniqueInv, BodyAt

(* However often power fails, a program that retries every append() that   *)
(* raised, and forgets those that died with it, never has an event in its  *)
(* spool twice.                                                            *)
THEOREM EventsAreNeverDoubled == Spec => []EventsAreUnique
<1> DEFINE Inv == PowerAlone => PowerInv /\ EventInv
<1>1. Init => Inv
    BY PowerInit, EventInit
<1>2. Inv /\ [Next]_vars => Inv'
    <2> SUFFICES ASSUME Inv, [Next]_vars, PowerAlone' PROVE PowerInv' /\ EventInv'
        OBVIOUS
    <2>1. PowerAlone
        BY DEF PowerAlone, Next, vars
    <2> QED BY <2>1, PowerNext, EventNext
<1>3. Inv => EventsAreUnique
    <2>1. CASE PowerAlone
        BY <2>1, EventInvImpliesUnique DEF PowerInv, CloseInv, Typed, EventInv
    <2>2. CASE ~PowerAlone
        BY <2>2 DEF EventsAreUnique
    <2> QED BY <2>1, <2>2
<1> QED BY <1>1, <1>2, <1>3, PTL DEF Spec
=============================================================================
