-------------------------- MODULE SpoolCloseProofs --------------------------
(***************************************************************************)
(* Theorems about the close records of Spool and about what recovery finds *)
(* after power losses, for any bodies, days and bounds.                    *)
(***************************************************************************)
EXTENDS SpoolProofs, FiniteSetTheorems

(* What verify_spool asks of the record of s, and of those before it. *)
ClosedOK(s) ==
    /\ s \in exists /\ Intact(log[s]) /\ log[s] # <<>>
    /\ close[s][Len(close[s])] = [seg |-> s, ev |-> LastEvent(log[s])]
    /\ \A k \in 1..Len(close[s]) : close[close[s][k].seg] = SubSeq(close[s], 1, k)
    /\ \A t \in Segs \ {s} : Len(close[t]) # Len(close[s])

RecordsInv == \A s \in Segs : close[s] # <<>> => s <= minted /\ ClosedOK(s)

(* The writer has no closed segment open, but for the record it has just   *)
(* published, which is the last one.                                       *)
WriterInv ==
    /\ dirSynced = exists
    /\ \A s \in exists : s <= minted
    /\ openSeg <= minted
    /\ pc \in {"down", "append", "refused"} => openSeg = NoSeg
    /\ openSeg # NoSeg /\ pc # "dirsync" => close[openSeg] = <<>>
    /\ pc = "dirsync" =>
           openSeg \in Segs /\ close[openSeg] # <<>> /\ IsLastClose(close[openSeg])

(* As long as only power losses happen, the disk lags behind by a line at  *)
(* most, or else by a close record.                                        *)
DiskLagsInv ==
    \A s \in Segs :
        /\ (pc = "fsync" /\ s = openSeg) \/ synced[s] = Len(log[s])
        /\ \/ closeSynced[s] = close[s]
           \/ pc = "dirsync" /\ s = openSeg /\ closeSynced[s] = <<>>

CloseInv == Typed /\ RecordsInv /\ WriterInv /\ (PowerAlone => DiskLagsInv)

-----------------------------------------------------------------------------
(* Close records. *)

(* Steps that leave records, and the logs they are about, as they are. *)
LEMMA RecordsKept ==
    ASSUME RecordsInv, close' = close, minted <= minted', minted \in Nat, minted' \in Nat,
           Segs \subseteq Nat,
           \A s \in Segs : close[s] # <<>> => (s \in exists => s \in exists') /\ log'[s] = log[s]
    PROVE  RecordsInv'
<1> SUFFICES ASSUME NEW s \in Segs, close'[s] # <<>>
             PROVE  s <= minted' /\ ClosedOK(s)'
    BY DEF RecordsInv
<1>1. s <= minted /\ ClosedOK(s) /\ s \in Nat /\ close[s] # <<>>
    BY DEF RecordsInv
<1>2. s \in exists' /\ log'[s] = log[s]
    BY <1>1 DEF ClosedOK
<1> QED BY <1>1, <1>2 DEF ClosedOK, Signed

(* What a record says of its predecessors concerns other segments than an  *)
(* open one.                                                               *)
LEMMA Predecessors ==
    ASSUME TypeOK, RecordsInv, NEW s \in Segs, close[s] # <<>>,
           NEW k \in 1..Len(close[s])
    PROVE  /\ close[s][k].seg \in Segs
           /\ Len(close[close[s][k].seg]) = k
           /\ close[close[s][k].seg] # <<>>
<1>1. PICK c \in Seq(Links) : c = close[s]
    BY DEF TypeOK
<1>2. c[k] \in Links
    BY <1>1
<1>3. close[c[k].seg] = SubSeq(c, 1, k)
    BY <1>1 DEF RecordsInv, ClosedOK
<1>4. k \in Nat /\ k <= Len(c) /\ Len(SubSeq(c, 1, k)) = k /\ k # 0
    BY <1>1
<1> QED BY <1>1, <1>2, <1>3, <1>4 DEF Links

(* A new record follows the last one, and no record is as long. *)
LEMMA PublishKeepsRecords ==
    ASSUME TypeOK, TypeOK', RecordsInv, NEW b, PublishClose(b),
           openSeg \in Segs, openSeg <= minted, close[openSeg] = <<>>
    PROVE  /\ RecordsInv'
           /\ close'[openSeg] # <<>>
           /\ \A s \in Segs : Len(close'[s]) <= Len(close'[openSeg])
           /\ \A s \in Segs \ {openSeg} : close'[s] = close[s]
<1>1. PICK c \in CloseRecords :
          IsLastClose(c) /\ close' = [close EXCEPT ![openSeg] = Append(c, Signed(openSeg))]
    BY DEF PublishClose
<1>2. c \in Seq(Links)
    <2>1. \A s \in Segs : close[s] \in Seq(Links)
        BY DEF TypeOK
    <2> QED BY <2>1 DEF CloseRecords
<1>3. Signed(openSeg) \in Links
    <2>1. log[openSeg] \in Seq(Pieces)
        BY DEF TypeOK
    <2> QED BY <2>1, LastEventType DEF Signed, Links
<1> DEFINE d == Append(c, Signed(openSeg))
<1>4. /\ d \in Seq(Links) /\ Len(d) = Len(c) + 1 /\ Len(c) \in Nat /\ d # <<>>
      /\ d[Len(d)] = Signed(openSeg)
      /\ \A k \in 1..Len(c) : SubSeq(d, 1, k) = SubSeq(c, 1, k) /\ d[k] = c[k]
      /\ SubSeq(d, 1, Len(d)) = d
    BY <1>2, <1>3
<1> HIDE DEF d
<1>5. close'[openSeg] = d /\ \A s \in Segs \ {openSeg} : close'[s] = close[s]
    BY <1>1 DEF TypeOK, d
<1>6. \A s \in Segs : Len(close[s]) \in Nat /\ Len(close[s]) <= Len(c)
    BY <1>1 DEF TypeOK, IsLastClose
<1>7. UNCHANGED <<log, exists, minted>>
    BY DEF PublishClose
<1>8. ASSUME NEW k \in 1..Len(c)
      PROVE  c[k].seg \in Segs \ {openSeg} /\ close[c[k].seg] = SubSeq(c, 1, k)
    <2>1. PICK u \in Segs : c = close[u] /\ close[u] # <<>>
        <3>1. c # <<>>
            BY <1>8
        <3> QED BY <3>1 DEF CloseRecords
    <2>2. /\ c[k].seg \in Segs /\ close[c[k].seg] # <<>>
        BY <2>1, Predecessors
    <2>3. close[c[k].seg] = SubSeq(c, 1, k)
        BY <2>1 DEF RecordsInv, ClosedOK
    <2> QED BY <2>2, <2>3
<1>9. ASSUME NEW s \in Segs, close'[s] # <<>>
      PROVE  s <= minted' /\ ClosedOK(s)'
    <2>1. CASE s = openSeg
        <3>1. s \in exists' /\ Intact(log'[s]) /\ log'[s] # <<>>
            BY <1>7, <2>1 DEF PublishClose, LogReads
        <3>2. close'[s][Len(close'[s])] = [seg |-> s, ev |-> LastEvent(log'[s])]
            BY <1>4, <1>5, <1>7, <2>1 DEF Signed
        <3>3. \A k \in 1..Len(close'[s]) : close'[close'[s][k].seg] = SubSeq(close'[s], 1, k)
            <4>1. SUFFICES ASSUME NEW k \in 1..Len(d) PROVE close'[d[k].seg] = SubSeq(d, 1, k)
                BY <1>5, <2>1
            <4>2. CASE k = Len(d)
                BY <1>4, <1>5, <4>2 DEF Signed
            <4>3. CASE k # Len(d)
                <5>1. k \in 1..Len(c)
                    BY <1>4, <4>3
                <5> QED BY <1>4, <1>5, <1>8, <5>1
            <4> QED BY <4>2, <4>3
        <3>4. \A t \in Segs \ {s} : Len(close'[t]) # Len(close'[s])
            BY <1>4, <1>5, <1>6, <2>1
        <3> QED BY <1>7, <2>1, <3>1, <3>2, <3>3, <3>4 DEF ClosedOK
    <2>2. CASE s # openSeg
        <3>1. close'[s] = close[s] /\ close[s] # <<>> /\ ClosedOK(s) /\ s <= minted
            BY <1>5, <1>9, <2>2 DEF RecordsInv
        <3>2. \A k \in 1..Len(close[s]) : close'[close[s][k].seg] = SubSeq(close[s], 1, k)
            <4>1. SUFFICES ASSUME NEW k \in 1..Len(close[s])
                           PROVE  close'[close[s][k].seg] = close[close[s][k].seg]
                BY <3>1 DEF ClosedOK
            <4>2. close[s][k].seg \in Segs \ {openSeg}
                BY <3>1, Predecessors
            <4> QED BY <1>5, <4>2
        <3>3. \A t \in Segs \ {s} : Len(close'[t]) # Len(close[s])
            <4>1. SUFFICES ASSUME NEW t \in Segs \ {s} PROVE Len(close'[t]) # Len(close[s])
                OBVIOUS
            <4>2. CASE t = openSeg
                BY <1>4, <1>5, <1>6, <4>2
            <4>3. CASE t # openSeg
                BY <1>5, <3>1, <4>3 DEF ClosedOK
            <4> QED BY <4>2, <4>3
        <3> QED BY <1>7, <3>1, <3>2, <3>3 DEF ClosedOK
    <2> QED BY <2>1, <2>2
<1>10. \A s \in Segs : Len(close'[s]) <= Len(close'[openSeg])
    <2>1. SUFFICES ASSUME NEW s \in Segs PROVE Len(close'[s]) <= Len(d)
        BY <1>5
    <2> QED BY <1>4, <1>5, <1>6
<1> QED BY <1>4, <1>5, <1>9, <1>10 DEF RecordsInv

-----------------------------------------------------------------------------
(* CloseInv is inductive. *)

LEMMA CloseInit == Init => CloseInv
<1> SUFFICES ASSUME Init PROVE CloseInv
    OBVIOUS
<1>1. Typed
    BY TypedInit
<1>2. RecordsInv
    BY DEF Init, RecordsInv
<1>3. WriterInv
    BY DEF Init, WriterInv, NoSeg
<1>4. DiskLagsInv
    BY DEF Init, DiskLagsInv
<1> QED BY <1>1, <1>2, <1>3, <1>4 DEF CloseInv

(* The segment append() writes to is not closed. *)
LEMMA WritingIsOpen ==
    ASSUME TypeOK, RecordsInv, WriterInv, NEW b \in Bodies, Writing(b)
    PROVE  /\ Segment \in Segs /\ close[Segment] = <<>>
           /\ pc \in {"idle", "append"}
<1>1. Segment \in Segs /\ pc \in {"idle", "append"}
    BY DEF Writing, Appendable
<1>2. CASE openSeg = NoSeg
    <2>1. Segment = minted + 1 /\ ~(Segment <= minted)
        BY <1>2, BoundsAssumption DEF Segment, TypeOK
    <2> QED BY <1>1, <2>1 DEF RecordsInv
<1>3. CASE openSeg # NoSeg
    BY <1>1, <1>3 DEF Segment, WriterInv
<1> QED BY <1>1, <1>2, <1>3

(* A record is published by a writer whose open segment has none. *)
LEMMA ClosePublish ==
    ASSUME CloseInv, Typed', NEW b, PublishClose(b), openSeg \in Segs, pc = "idle",
           UNCHANGED faults
    PROVE  CloseInv'
<1> USE DEF CloseInv
<1>1. TypeOK /\ TypeOK' /\ close[openSeg] = <<>> /\ openSeg <= minted
    BY DEF Typed, WriterInv, NoSeg, Segs
<1>2. /\ RecordsInv'
      /\ close'[openSeg] # <<>>
      /\ \A s \in Segs : Len(close'[s]) <= Len(close'[openSeg])
      /\ \A s \in Segs \ {openSeg} : close'[s] = close[s]
    BY <1>1, PublishKeepsRecords
<1>3. /\ UNCHANGED <<log, synced, exists, dirSynced, closeSynced, openSeg, minted>>
      /\ pc' = "dirsync"
    BY DEF PublishClose
<1>4. WriterInv'
    BY <1>2, <1>3 DEF WriterInv, IsLastClose
<1>5. PowerAlone' => DiskLagsInv'
    BY <1>1, <1>2, <1>3 DEF DiskLagsInv, PowerAlone
<1> QED BY <1>2, <1>4, <1>5

LEMMA CloseAppend ==
    ASSUME ClosesAreSafe, CloseInv, NEW b \in Bodies, AppendStep(b), UNCHANGED faults
    PROVE  CloseInv'
<1>1. Typed /\ Typed'
    BY TypedAppend DEF CloseInv
<1>2. TypeOK /\ TypeOK' /\ Segs \subseteq Nat /\ minted \in Nat /\ minted' \in Nat
    <2>1. TypeOK /\ TypeOK' /\ Segs \subseteq Nat
        BY <1>1 DEF Typed, Segs
    <2>2. minted \in 0..MaxSegs /\ minted' \in 0..MaxSegs
        BY <2>1 DEF TypeOK
    <2> QED BY <2>1, <2>2, BoundsAssumption
<1> USE DEF CloseInv
<1>3. CASE AppendWrites(b) \/ AppendRaises(b)
    <2>1. Writing(b) /\ Minted /\ UNCHANGED <<close, closeSynced>>
        BY <1>3 DEF AppendWrites, AppendRaises
    <2>2. Segment \in Segs /\ close[Segment] = <<>> /\ pc \in {"idle", "append"}
        BY <1>2, <2>1, WritingIsOpen
    <2>3. /\ openSeg' = Segment /\ Segment <= minted' /\ minted <= minted'
        BY <1>2, <2>1, <2>2 DEF Minted, Segment, WriterInv
    <2>4. \A s \in Segs \ {Segment} : log'[s] = log[s]
        BY <1>2, <1>3 DEF AppendWrites, AppendRaises, TypeOK
    <2>5. /\ dirSynced' = exists' /\ exists \subseteq exists'
          /\ exists' \subseteq exists \cup {Segment}
        BY <1>3 DEF AppendWrites, AppendRaises, EntrySet, ClosesAreSafe, WriterInv
    <2>6. RecordsInv'
        BY <1>2, <2>1, <2>2, <2>3, <2>4, <2>5, RecordsKept
    <2>7. WriterInv'
        <3>1. \A s \in exists' : s <= minted'
            <4>1. SUFFICES ASSUME NEW s \in exists' PROVE s <= minted'
                OBVIOUS
            <4>2. CASE s \in exists
                <5>1. s \in Nat /\ s <= minted
                    BY <1>2, <4>2 DEF WriterInv, TypeOK
                <5> QED BY <1>2, <2>3, <5>1
            <4> QED BY <2>3, <2>5, <4>2
        <3>2. pc' \in {"idle", "fsync"}
            BY <1>3 DEF AppendWrites, AppendRaises
        <3> QED BY <2>1, <2>2, <2>3, <2>5, <3>1, <3>2 DEF WriterInv
    <2>8. ASSUME PowerAlone' PROVE DiskLagsInv'
        <3>1. PowerAlone /\ DiskLagsInv
            BY <2>8 DEF PowerAlone
        <3>2. UNCHANGED synced /\ closeSynced' = closeSynced
            BY <1>3 DEF AppendWrites, AppendRaises
        <3>3. \A s \in Segs : synced[s] = Len(log[s]) /\ closeSynced[s] = close[s]
            BY <2>2, <3>1 DEF DiskLagsInv
        <3>4. CASE AppendWrites(b)
            BY <2>1, <2>3, <2>4, <3>2, <3>3, <3>4 DEF AppendWrites, DiskLagsInv
        <3>5. CASE AppendRaises(b)
            BY <2>1, <3>2, <3>3, <3>5 DEF AppendRaises, DiskLagsInv
        <3> QED BY <1>3, <3>4, <3>5
    <2> QED BY <1>1, <2>6, <2>7, <2>8
<1>4. CASE RotationCheckRaises(b) \/ RotationRaises(b)
    <2>1. UNCHANGED <<disk, memory, minted, faults>>
        BY <1>4 DEF RotationCheckRaises, RotationRaises
    <2>2. RecordsInv'
        BY <1>2, <2>1, RecordsKept DEF disk
    <2> QED BY <1>1, <2>1, <2>2 DEF WriterInv, DiskLagsInv, IsLastClose, PowerAlone, disk, memory
<1>5. CASE Rotates(b)
    <2>1. PublishClose(b) /\ openSeg \in Segs /\ pc = "idle"
        BY <1>2, <1>5 DEF Rotates, RotationChecked, Appendable, TypeOK
    <2> QED BY <1>1, <2>1, ClosePublish
<1> QED BY <1>3, <1>4, <1>5 DEF AppendStep

LEMMA CloseWriter ==
    ASSUME ClosesAreSafe, CloseInv, WriterStep, UNCHANGED faults
    PROVE  CloseInv'
<1>1. Typed /\ Typed'
    BY TypedWriter DEF CloseInv
<1>2. TypeOK /\ TypeOK' /\ Segs \subseteq Nat /\ minted \in Nat /\ PcOK
    <2>1. TypeOK /\ TypeOK' /\ Segs \subseteq Nat /\ PcOK
        BY <1>1 DEF Typed, Segs
    <2>2. minted \in 0..MaxSegs
        BY <2>1 DEF TypeOK
    <2> QED BY <2>1, <2>2, BoundsAssumption
<1> USE DEF CloseInv
<1>3. ASSUME NEW b \in Bodies, AppendStep(b) PROVE CloseInv'
    BY <1>3, CloseAppend
<1>4. CASE AppendReturns
    <2>1. /\ UNCHANGED <<log, close, closeSynced, exists, dirSynced, openSeg, minted>>
          /\ pc = "fsync" /\ pc' = "idle" /\ openSeg \in Segs
        BY <1>2, <1>4 DEF AppendReturns, PcOK
    <2>2. RecordsInv'
        BY <1>2, <2>1, RecordsKept
    <2>3. WriterInv'
        BY <2>1 DEF WriterInv
    <2>4. PowerAlone' => DiskLagsInv'
        <3>1. synced' = [synced EXCEPT ![openSeg] = Len(log[openSeg])]
            BY <1>4 DEF AppendReturns
        <3> QED BY <1>2, <2>1, <3>1 DEF DiskLagsInv, PowerAlone, TypeOK
    <2> QED BY <1>1, <2>2, <2>3, <2>4
<1>5. CASE FsyncFails
    <2>1. UNCHANGED <<disk, openSeg, minted>> /\ pc = "fsync" /\ pc' = "idle" /\ ~PowerAlone
        BY <1>5 DEF FsyncFails, PowerAlone
    <2>2. RecordsInv'
        BY <1>2, <2>1, RecordsKept DEF disk
    <2> QED BY <1>1, <2>1, <2>2 DEF WriterInv, PowerAlone, disk
<1>6. CASE CloseSegment
    <2>1. PublishClose(NoBody) /\ openSeg \in Segs /\ pc = "idle"
        BY <1>2, <1>6 DEF CloseSegment, TypeOK
    <2> QED BY <1>1, <2>1, ClosePublish
<1>7. CASE DiscardEmptyLog
    <2>1. /\ UNCHANGED <<log, synced, close, closeSynced, pc, minted>>
          /\ pc = "idle" /\ openSeg' = NoSeg /\ close[openSeg] = <<>>
          /\ exists' = exists \ {openSeg} /\ dirSynced' = exists'
        BY <1>7 DEF DiscardEmptyLog, EntrySet, ClosesAreSafe, WriterInv
    <2>2. RecordsInv'
        BY <1>2, <2>1, RecordsKept
    <2>3. WriterInv'
        BY <1>2, <2>1 DEF WriterInv, NoSeg
    <2>4. PowerAlone' => DiskLagsInv'
        BY <2>1 DEF DiskLagsInv, PowerAlone
    <2> QED BY <1>1, <2>2, <2>3, <2>4
<1>8. CASE CloseReturns
    <2>1. /\ UNCHANGED <<log, synced, close, exists, minted>>
          /\ pc = "dirsync" /\ openSeg' = NoSeg /\ pc' \in {"idle", "append"}
          /\ closeSynced' = close /\ dirSynced' = exists
        BY <1>8 DEF CloseReturns
    <2>2. RecordsInv'
        BY <1>2, <2>1, RecordsKept
    <2>3. WriterInv'
        BY <1>2, <2>1 DEF WriterInv, NoSeg
    <2>4. PowerAlone' => DiskLagsInv'
        BY <2>1 DEF DiskLagsInv, PowerAlone
    <2> QED BY <1>1, <2>2, <2>3, <2>4
<1>9. CASE DirSyncFails
    BY <1>9 DEF DirSyncFails, ClosesAreSafe
<1> QED BY <1>3, <1>4, <1>5, <1>6, <1>7, <1>8, <1>9 DEF WriterStep

(* With power losses alone, a synced log is left as it is. *)
LEMMA SyncedIsKept ==
    ASSUME TypeOK, NEW s \in Segs, synced[s] = Len(log[s])
    PROVE  LossOutcomes(s) = {log[s]}
<1>1. PICK f \in Seq(Pieces) : f = log[s]
    BY DEF TypeOK
<1>2. synced[s]..(Len(f) - 1) = {}
    BY <1>1
<1> QED BY <1>1, <1>2 DEF LossOutcomes

(* What a power loss does when power losses are all that happens: every    *)
(* segment but the one in the writer's hands is untouched; its last line   *)
(* or its close record may be gone.                                        *)
LEMMA PowerLossEffect ==
    ASSUME CloseInv, PowerAlone, PowerLoss
    PROVE  /\ exists' = exists /\ dirSynced' = exists'
           /\ UNCHANGED <<minted, acked>>
           /\ pc' = "down" /\ openSeg' = NoSeg
           /\ closeSynced' = close'
           /\ \A s \in Segs : synced'[s] = Len(log'[s])
           /\ \A s \in exists : log'[s] \in LossOutcomes(s)
           /\ \A s \in Segs \ exists : log'[s] = <<>>
           /\ \A s \in exists : log'[s] = log[s] \/ (pc = "fsync" /\ s = openSeg)
           /\ \A s \in Segs : \/ close'[s] = close[s]
                              \/ pc = "dirsync" /\ s = openSeg /\ close'[s] = <<>>
<1> USE DEF CloseInv
<1>1. TypeOK
    BY DEF Typed
<1>2. exists' = exists /\ dirSynced' = exists'
    BY DEF PowerLoss, WriterInv
<1>3. UNCHANGED <<minted, acked>> /\ pc' = "down" /\ openSeg' = NoSeg /\ closeSynced' = close'
    BY DEF PowerLoss, Dies
<1>4. /\ \A s \in Segs : synced'[s] = Len(log'[s])
      /\ \A s \in exists : s \in Segs => log'[s] \in LossOutcomes(s)
      /\ \A s \in Segs \ exists : log'[s] = <<>>
    BY <1>2 DEF PowerLoss
<1>5. \A s \in Segs : close'[s] \in {close[s], closeSynced[s]}
    BY DEF PowerLoss
<1>6. exists \subseteq Segs
    BY <1>1 DEF TypeOK
<1>7. \A s \in exists : log'[s] = log[s] \/ (pc = "fsync" /\ s = openSeg)
    BY <1>1, <1>4, <1>6, SyncedIsKept DEF DiskLagsInv
<1>8. \A s \in Segs : \/ close'[s] = close[s]
                      \/ pc = "dirsync" /\ s = openSeg /\ close'[s] = <<>>
    BY <1>5 DEF DiskLagsInv
<1> QED BY <1>2, <1>3, <1>4, <1>6, <1>7, <1>8

(* No record refers to the last one, so losing that one hurts no other. *)
LEMMA LastRecordLost ==
    ASSUME TypeOK, RecordsInv, openSeg \in Segs, IsLastClose(close[openSeg]),
           close[openSeg] # <<>>,
           NEW s \in Segs \ {openSeg}, close[s] # <<>>, NEW k \in 1..Len(close[s])
    PROVE  close[s][k].seg \in Segs \ {openSeg}
<1>1. close[s][k].seg \in Segs /\ Len(close[close[s][k].seg]) = k
    BY Predecessors
<1>2. Len(close[s]) \in Nat /\ Len(close[openSeg]) \in Nat
    BY DEF TypeOK
<1>3. Len(close[s]) < Len(close[openSeg])
    <2>1. Len(close[s]) <= Len(close[openSeg])
        BY DEF IsLastClose
    <2>2. Len(close[s]) # Len(close[openSeg])
        BY DEF RecordsInv, ClosedOK
    <2> QED BY <1>2, <2>1, <2>2
<1> QED BY <1>1, <1>2, <1>3

LEMMA CloseCrash ==
    ASSUME ClosesAreSafe, CloseInv, Crash, UNCHANGED faults
    PROVE  CloseInv'
<1>1. Typed /\ Typed'
    BY TypedCrash DEF CloseInv
<1>2. TypeOK /\ TypeOK' /\ Segs \subseteq Nat /\ minted \in Nat
    <2>1. TypeOK /\ TypeOK' /\ Segs \subseteq Nat
        BY <1>1 DEF Typed, Segs
    <2>2. minted \in 0..MaxSegs
        BY <2>1 DEF TypeOK
    <2> QED BY <2>1, <2>2, BoundsAssumption
<1> USE DEF CloseInv
<1>3. CASE Kill
    <2>1. UNCHANGED <<disk, minted>> /\ pc' = "down" /\ openSeg' = NoSeg /\ ~PowerAlone
        BY <1>3 DEF Kill, Dies, PowerAlone
    <2>2. RecordsInv'
        BY <1>2, <2>1, RecordsKept DEF disk
    <2> QED BY <1>1, <1>2, <2>1, <2>2 DEF WriterInv, PowerAlone, NoSeg, disk
<1>4. CASE PowerLoss
    <2>1. PowerAlone /\ DiskLagsInv
        BY <1>4 DEF PowerLoss, ClosesAreSafe
    <2>2. /\ exists' = exists /\ dirSynced' = exists' /\ minted' = minted
          /\ pc' = "down" /\ openSeg' = NoSeg /\ closeSynced' = close'
          /\ \A s \in Segs : synced'[s] = Len(log'[s])
          /\ \A s \in exists : log'[s] = log[s] \/ (pc = "fsync" /\ s = openSeg)
          /\ \A s \in Segs : \/ close'[s] = close[s]
                             \/ pc = "dirsync" /\ s = openSeg /\ close'[s] = <<>>
        BY <1>4, <2>1, PowerLossEffect
    <2>3. \A s \in exists : close[s] # <<>> => log'[s] = log[s]
        BY <1>2, <2>2 DEF WriterInv, TypeOK, NoSeg, Segs
    <2>4. RecordsInv'
        <3>1. CASE close' = close
            <4>1. \A s \in Segs : close[s] # <<>> => s \in exists
                BY DEF RecordsInv, ClosedOK
            <4> QED BY <1>2, <2>2, <2>3, <3>1, <4>1, RecordsKept
        <3>2. CASE close' # close
            <4>1. /\ pc = "dirsync" /\ close'[openSeg] = <<>> /\ openSeg \in Segs
                  /\ \A s \in Segs \ {openSeg} : close'[s] = close[s]
                <5>1. \E s \in Segs : close'[s] # close[s]
                    <6>1. /\ close = [s \in Segs |-> close[s]]
                          /\ close' = [s \in Segs |-> close'[s]]
                        BY <1>2 DEF TypeOK
                    <6> HIDE DEF CloseInv
                    <6> QED BY <3>2, <6>1, Zenon
                <5> QED BY <2>2, <5>1
            <4>2. close[openSeg] # <<>> /\ IsLastClose(close[openSeg])
                BY <4>1 DEF WriterInv
            <4>3. SUFFICES ASSUME NEW s \in Segs, close'[s] # <<>>
                           PROVE  s <= minted' /\ ClosedOK(s)'
                BY DEF RecordsInv
            <4>4. s # openSeg /\ close'[s] = close[s] /\ close[s] # <<>>
                BY <4>1, <4>3
            <4>5. s <= minted /\ ClosedOK(s)
                BY <4>4 DEF RecordsInv
            <4>6. s \in exists' /\ log'[s] = log[s]
                BY <2>2, <2>3, <4>4, <4>5 DEF ClosedOK
            <4>7. \A k \in 1..Len(close[s]) : close'[close[s][k].seg] = SubSeq(close[s], 1, k)
                <5>1. SUFFICES ASSUME NEW k \in 1..Len(close[s])
                               PROVE  close'[close[s][k].seg] = close[close[s][k].seg]
                    BY <4>5 DEF ClosedOK
                <5>2. close[s][k].seg \in Segs \ {openSeg}
                    BY <1>2, <4>1, <4>2, <4>4, LastRecordLost
                <5> QED BY <4>1, <5>2
            <4>8. \A t \in Segs \ {s} : Len(close'[t]) # Len(close[s])
                <5>1. SUFFICES ASSUME NEW t \in Segs \ {s}
                               PROVE  Len(close'[t]) # Len(close[s])
                    OBVIOUS
                <5>2. CASE t = openSeg
                    <6>1. PICK c \in Seq(Links) : c = close[s]
                        BY <1>2 DEF TypeOK
                    <6>2. Len(c) # 0
                        BY <4>4, <6>1
                    <6> QED BY <4>1, <5>2, <6>1, <6>2
                <5>3. CASE t # openSeg
                    BY <4>1, <4>5, <5>3 DEF ClosedOK
                <5> QED BY <5>2, <5>3
            <4> QED BY <2>2, <4>4, <4>5, <4>6, <4>7, <4>8 DEF ClosedOK
        <3> QED BY <3>1, <3>2
    <2>5. WriterInv'
        BY <1>2, <2>2 DEF WriterInv, NoSeg
    <2>6. DiskLagsInv'
        BY <2>2 DEF DiskLagsInv
    <2> QED BY <1>1, <2>4, <2>5, <2>6
<1> QED BY <1>3, <1>4 DEF Crash

LEMMA CloseRecover ==
    ASSUME ClosesAreSafe, CloseInv, Recover, UNCHANGED faults
    PROVE  CloseInv'
<1>1. Typed /\ Typed'
    BY TypedRecover DEF CloseInv
<1>2. TypeOK /\ TypeOK' /\ Segs \subseteq Nat /\ minted \in Nat
    <2>1. TypeOK /\ TypeOK' /\ Segs \subseteq Nat
        BY <1>1 DEF Typed, Segs
    <2>2. minted \in 0..MaxSegs
        BY <2>1 DEF TypeOK
    <2> QED BY <2>1, <2>2, BoundsAssumption
<1> USE DEF CloseInv
<1>3. CASE RecoverNothing \/ RecoverRefuses
    <2>1. /\ UNCHANGED <<disk, openSeg, minted>> /\ pc = "down" /\ openSeg = NoSeg
          /\ pc' \in {"idle", "refused"}
        BY <1>3 DEF RecoverNothing, RecoverRefuses, WriterInv
    <2>2. RecordsInv'
        BY <1>2, <2>1, RecordsKept DEF disk
    <2> QED BY <1>1, <2>1, <2>2 DEF WriterInv, DiskLagsInv, PowerAlone, disk
<1>4. ASSUME NEW s \in Segs, RecoverOpenLog(s) PROVE CloseInv'
    <2>1. PICK n \in 0..Len(log[s]) :
              /\ log' = [log EXCEPT ![s] = SubSeq(@, 1, n)]
              /\ synced' = [synced EXCEPT ![s] = IF n = Len(log[s]) THEN @ ELSE n]
              /\ EntrySet(IF n = 0 THEN exists \ {s} ELSE exists)
              /\ openSeg' = IF n = 0 THEN NoSeg ELSE s
        BY <1>4 DEF RecoverOpenLog
    <2>2. /\ s \in exists /\ close[s] = <<>> /\ s <= minted
          /\ UNCHANGED <<close, closeSynced, minted>> /\ pc = "down" /\ pc' = "idle"
        BY <1>4 DEF RecoverOpenLog, OpenLogs, WriterInv
    <2>3. /\ dirSynced' = exists' /\ exists' \subseteq exists
          /\ \A t \in exists : t # s => t \in exists'
        BY <2>1 DEF EntrySet, ClosesAreSafe, WriterInv
    <2>4. \A t \in Segs \ {s} : log'[t] = log[t] /\ synced'[t] = synced[t]
        BY <1>2, <2>1 DEF TypeOK
    <2>5. RecordsInv'
        <3>1. \A t \in Segs : close[t] # <<>> =>
                  (t \in exists => t \in exists') /\ log'[t] = log[t]
            BY <2>2, <2>3, <2>4
        <3> QED BY <1>2, <2>2, <3>1, RecordsKept
    <2>6. WriterInv'
        <3>1. openSeg' \in {NoSeg, s} /\ openSeg' <= minted
            BY <1>2, <2>1, <2>2 DEF NoSeg
        <3> QED BY <2>2, <2>3, <3>1 DEF WriterInv
    <2>7. PowerAlone' => DiskLagsInv'
        <3>1. SUFFICES ASSUME PowerAlone, DiskLagsInv PROVE DiskLagsInv'
            BY DEF PowerAlone
        <3>2. \A t \in Segs : synced[t] = Len(log[t]) /\ closeSynced[t] = close[t]
            BY <2>2, <3>1 DEF DiskLagsInv
        <3>3. synced'[s] = Len(log'[s])
            <4>1. PICK f \in Seq(Pieces) : f = log[s]
                BY <1>2 DEF TypeOK
            <4>2. synced'[s] = n /\ log'[s] = SubSeq(f, 1, n)
                BY <1>2, <2>1, <3>2, <4>1 DEF TypeOK
            <4> QED BY <2>1, <4>1, <4>2, PrefixType
        <3> QED BY <2>2, <2>4, <3>2, <3>3 DEF DiskLagsInv
    <2> QED BY <1>1, <2>5, <2>6, <2>7
<1> QED BY <1>3, <1>4 DEF Recover

LEMMA CloseNext ==
    ASSUME ClosesAreSafe
    PROVE  CloseInv /\ [Next]_vars => CloseInv'
<1> SUFFICES ASSUME CloseInv, [Next]_vars PROVE CloseInv'
    OBVIOUS
<1>1. Typed' /\ UNCHANGED faults
    BY TypedNext DEF CloseInv, Next, vars
<1>2. CASE Tick \/ UNCHANGED vars
    <2>1. UNCHANGED <<disk, memory, minted>>
        BY <1>2 DEF Tick, vars
    <2>2. TypeOK /\ Segs \subseteq Nat
        BY DEF CloseInv, Typed, Segs
    <2>3. minted \in Nat
        <3>1. minted \in 0..MaxSegs
            BY <2>2 DEF TypeOK
        <3> QED BY <3>1, BoundsAssumption
    <2>4. RecordsInv'
        BY <2>1, <2>2, <2>3, RecordsKept DEF CloseInv, disk
    <2> QED BY <1>1, <2>1, <2>4
            DEF CloseInv, WriterInv, IsLastClose, DiskLagsInv, PowerAlone, disk, memory
<1> QED BY <1>1, <1>2, CloseWriter, CloseCrash, CloseRecover DEF Next

LEMMA CloseInvImpliesVerification == CloseInv => ClosedSegmentsVerify
BY DEF CloseInv, RecordsInv, ClosedOK, ClosedSegmentsVerify

(* Where what is signed cannot be lost, every closed segment always passes *)
(* verify_spool, and the close records are one chain from segment zero.    *)
THEOREM ClosedSegmentsAlwaysVerify == Spec => []ClosedSegmentsVerify
<1> DEFINE Inv == ClosesAreSafe => CloseInv
<1>1. Init => Inv
    BY CloseInit
<1>2. Inv /\ [Next]_vars => Inv'
    <2> SUFFICES ASSUME Inv, [Next]_vars, ClosesAreSafe' PROVE CloseInv'
        OBVIOUS
    <2>1. ClosesAreSafe
        BY DEF ClosesAreSafe, PowerAlone, Next, vars
    <2> QED BY <2>1, CloseNext
<1>3. Inv => ClosedSegmentsVerify
    BY CloseInvImpliesVerification DEF ClosedSegmentsVerify
<1> QED BY <1>1, <1>2, <1>3, PTL DEF Spec

(* A step changes neither the record of a closed segment nor its log. *)
ClosedKept ==
    \A s \in Segs : close[s] # <<>> /\ close'[s] # <<>> =>
        close'[s] = close[s] /\ log'[s] = log[s]

LEMMA CloseInvKeepsClosed ==
    ASSUME ClosesAreSafe, CloseInv, [Next]_vars
    PROVE  ClosedKept
<1> USE DEF CloseInv
<1>1. TypeOK /\ PcOK
    BY DEF Typed
<1>2. ASSUME NEW b \in Bodies, AppendStep(b) PROVE ClosedKept
    <2>1. CASE AppendWrites(b)
        <3>1. close[Segment] = <<>> /\ Segment \in Segs
            BY <1>1, <2>1, WritingIsOpen DEF AppendWrites
        <3>2. close' = close /\ \A s \in Segs \ {Segment} : log'[s] = log[s]
            BY <1>1, <2>1, <3>1 DEF AppendWrites, TypeOK
        <3> QED BY <3>1, <3>2 DEF ClosedKept
    <2>2. CASE AppendRaises(b) \/ RotationCheckRaises(b) \/ RotationRaises(b)
        BY <2>2 DEF AppendRaises, RotationCheckRaises, RotationRaises, disk, ClosedKept
    <2>3. CASE Rotates(b)
        <3>1. close[openSeg] = <<>>
            BY <2>3 DEF Rotates, RotationChecked, Appendable, WriterInv
        <3>2. log' = log /\ \A s \in Segs \ {openSeg} : close'[s] = close[s]
            BY <1>1, <2>3 DEF Rotates, PublishClose, TypeOK
        <3> QED BY <3>1, <3>2 DEF ClosedKept
    <2> QED BY <1>2, <2>1, <2>2, <2>3 DEF AppendStep
<1>3. CASE AppendReturns \/ FsyncFails \/ DiscardEmptyLog \/ CloseReturns \/ DirSyncFails
    BY <1>3 DEF AppendReturns, FsyncFails, DiscardEmptyLog, CloseReturns, DirSyncFails,
                disk, ClosedKept
<1>4. CASE CloseSegment
    <2>1. close[openSeg] = <<>>
        BY <1>4 DEF CloseSegment, WriterInv
    <2>2. log' = log /\ \A s \in Segs \ {openSeg} : close'[s] = close[s]
        BY <1>1, <1>4 DEF CloseSegment, PublishClose, TypeOK
    <2> QED BY <2>1, <2>2 DEF ClosedKept
<1>5. CASE Kill \/ RecoverNothing \/ RecoverRefuses \/ Tick \/ UNCHANGED vars
    BY <1>5 DEF Kill, RecoverNothing, RecoverRefuses, Tick, vars, disk, ClosedKept
<1>6. CASE PowerLoss
    <2>1. PowerAlone
        BY <1>6 DEF PowerLoss, ClosesAreSafe
    <2>2. /\ \A s \in exists : log'[s] = log[s] \/ (pc = "fsync" /\ s = openSeg)
          /\ \A s \in Segs : \/ close'[s] = close[s]
                             \/ pc = "dirsync" /\ s = openSeg /\ close'[s] = <<>>
        BY <1>6, <2>1, PowerLossEffect
    <2>3. \A s \in Segs : close[s] # <<>> =>
              s \in exists /\ ~(pc = "fsync" /\ s = openSeg)
        <3>1. \A s \in Segs : close[s] # <<>> => s \in exists
            BY DEF RecordsInv, ClosedOK
        <3>2. pc = "fsync" => close[openSeg] = <<>>
            BY <1>1 DEF WriterInv, PcOK, NoSeg, Segs
        <3> QED BY <3>1, <3>2
    <2> QED BY <2>2, <2>3 DEF ClosedKept
<1>7. ASSUME NEW t \in Segs, RecoverOpenLog(t) PROVE ClosedKept
    <2>1. close[t] = <<>> /\ close' = close /\ \A s \in Segs \ {t} : log'[s] = log[s]
        BY <1>1, <1>7 DEF RecoverOpenLog, OpenLogs, TypeOK
    <2> QED BY <2>1 DEF ClosedKept
<1> QED BY <1>2, <1>3, <1>4, <1>5, <1>6, <1>7 DEF Next, WriterStep, Crash, Recover

(* Once its record is in place, a segment is never written to again, and   *)
(* the record is never replaced, where what is signed cannot be lost.      *)
THEOREM ClosedSegmentsStayClosed == Spec => ClosedStaysClosed
<1> DEFINE Inv == ClosesAreSafe => CloseInv
           Kept == ClosesAreSafe => \A s \in Segs : close[s] # <<>> /\ close'[s] # <<>> =>
                       close'[s] = close[s] /\ log'[s] = log[s]
<1>1. Init => Inv
    BY CloseInit
<1>2. Inv /\ [Next]_vars => Inv'
    <2> SUFFICES ASSUME Inv, [Next]_vars, ClosesAreSafe' PROVE CloseInv'
        OBVIOUS
    <2>1. ClosesAreSafe
        BY DEF ClosesAreSafe, PowerAlone, Next, vars
    <2> QED BY <2>1, CloseNext
<1>3. Inv /\ [Next]_vars => [Kept]_vars
    BY CloseInvKeepsClosed DEF ClosedKept
<1> QED BY <1>1, <1>2, <1>3, PTL DEF Spec, ClosedStaysClosed

=============================================================================
