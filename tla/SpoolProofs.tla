---------------------------- MODULE SpoolProofs ----------------------------
(***************************************************************************)
(* Theorems about Spool, for any bodies, days, bounds and faults.          *)
(***************************************************************************)
EXTENDS Spool, TLAPS

(* Where the writer has a task or a segment in hand, it is a real one. *)
PcOK ==
    /\ pc = "append" => task \in Bodies
    /\ pc = "fsync" => task \in Bodies /\ openSeg \in Segs

Typed == TypeOK /\ PcOK

-----------------------------------------------------------------------------
(* Lemmas on logs. *)

LEMMA PiecesClosed ==
    /\ Torn \in Pieces
    /\ \A ev \in Chains : [ev |-> ev, nl |-> TRUE] \in Pieces
                           /\ [ev |-> ev, nl |-> FALSE] \in Pieces
BY DEF Torn, Pieces, Chains

LEMMA LastEventType ==
    ASSUME NEW f \in Seq(Pieces)
    PROVE  LastEvent(f) \in Chains
<1>1. CASE f = <<>>
    BY <1>1 DEF LastEvent, Chains
<1>2. CASE f # <<>>
    <2>1. f[Len(f)] \in Pieces
        BY <1>2
    <2> QED BY <1>2, <2>1 DEF LastEvent, Pieces
<1> QED BY <1>1, <1>2

(* Recovery and power losses keep prefixes. *)
LEMMA PrefixType ==
    ASSUME NEW f \in Seq(Pieces), NEW n \in Nat, n <= Len(f)
    PROVE  /\ SubSeq(f, 1, n) \in Seq(Pieces)
           /\ Len(SubSeq(f, 1, n)) = n
           /\ \A i \in 1..n : SubSeq(f, 1, n)[i] = f[i]
<1>1. \A i \in 1..n : f[i] \in Pieces
    OBVIOUS
<1> QED BY <1>1

LEMMA CutType ==
    ASSUME NEW piece \in Pieces
    PROVE  [piece EXCEPT !.nl = FALSE] \in Pieces
BY DEF Pieces

(* A power loss leaves a sequence of whole, torn or newline-less writes. *)
LEMMA LossOutcomesType ==
    ASSUME TypeOK, NEW s \in Segs
    PROVE  LossOutcomes(s) \subseteq Seq(Pieces)
<1>1. PICK f \in Seq(Pieces) : f = log[s]
    BY DEF TypeOK
<1>2. PICK k \in Nat : k = synced[s]
    BY DEF TypeOK
<1>3. ASSUME NEW n \in k..(Len(f) - 1)
      PROVE  /\ SubSeq(f, 1, n) \in Seq(Pieces)
             /\ Append(SubSeq(f, 1, n), Torn) \in Seq(Pieces)
             /\ Append(SubSeq(f, 1, n), [f[n + 1] EXCEPT !.nl = FALSE]) \in Seq(Pieces)
    <2>1. n \in Nat /\ n <= Len(f) /\ n + 1 \in 1..Len(f)
        BY <1>3
    <2>2. SubSeq(f, 1, n) \in Seq(Pieces)
        BY <2>1, PrefixType
    <2>3. f[n + 1] \in Pieces
        BY <2>1
    <2>4. [f[n + 1] EXCEPT !.nl = FALSE] \in Pieces
        BY <2>3, CutType
    <2> QED BY <2>2, <2>4, PiecesClosed
<1> QED BY <1>1, <1>2, <1>3 DEF LossOutcomes

-----------------------------------------------------------------------------
(* Every variable keeps its type, whatever goes wrong. *)

LEMMA TypedInit == Init => Typed
<1>1. Init => TypeOK
    BY BoundsAssumption DEF Init, TypeOK, Chains, NoSeg
<1>2. Init => PcOK
    BY DEF Init, PcOK
<1> QED BY <1>1, <1>2 DEF Typed

LEMMA PublishCloseType ==
    ASSUME Typed, NEW b \in Bodies \cup {NoBody}, openSeg \in Segs, PublishClose(b), UNCHANGED faults
    PROVE  Typed'
<1> USE DEF Typed, TypeOK, PcOK
<1>1. LastEvent(log[openSeg]) \in Chains
    BY LastEventType
<1>2. Signed(openSeg) \in Links
    BY <1>1 DEF Signed, Links
<1>3. CloseRecords \subseteq Seq(Links)
    <2>1. <<>> \in Seq(Links)
        OBVIOUS
    <2>2. \A s \in Segs : close[s] \in Seq(Links)
        OBVIOUS
    <2> HIDE DEF Typed, TypeOK
    <2> QED BY <2>1, <2>2 DEF CloseRecords
<1>4. close' \in [Segs -> Seq(Links)]
    <2>1. PICK c \in Seq(Links) :
              close' = [close EXCEPT ![openSeg] = Append(c, Signed(openSeg))]
        BY <1>3 DEF PublishClose
    <2>2. Append(c, Signed(openSeg)) \in Seq(Links)
        BY <1>2, <2>1
    <2> QED BY <2>1, <2>2
<1> QED BY <1>4 DEF PublishClose

(* append() assigns a segment and raises or writes. *)
LEMMA TypedAppend ==
    ASSUME Typed, NEW b \in Bodies, AppendStep(b), UNCHANGED faults
    PROVE  Typed'
<1> USE DEF Typed, TypeOK, PcOK
<1>1. CASE AppendWrites(b)
    <2>1. Segment \in Segs /\ openSeg' = Segment
        BY <1>1 DEF AppendWrites, Writing, Minted
    <2>2. minted' \in 0..MaxSegs
        BY <1>1, BoundsAssumption DEF AppendWrites, Writing, Minted, Segment, Segs
    <2>3. exists' \subseteq Segs /\ dirSynced' \subseteq Segs
        BY <1>1, <2>1 DEF AppendWrites, EntrySet
    <2>4. Append(last, b) \in Chains
        BY DEF Chains
    <2>5. WriteOutcomes(Append(last, b)) \subseteq Pieces
        BY <2>4, PiecesClosed DEF WriteOutcomes
    <2>6. log' \in [Segs -> Seq(Pieces)]
        <3>1. PICK piece \in Pieces : log' = [log EXCEPT ![Segment] = Append(@, piece)]
            BY <1>1, <2>5 DEF AppendWrites
        <3>2. Append(log[Segment], piece) \in Seq(Pieces)
            BY <2>1
        <3> QED BY <3>1, <3>2
    <2> QED BY <1>1, <2>1, <2>2, <2>3, <2>6 DEF AppendWrites
<1>2. CASE AppendRaises(b)
    <2>1. Segment \in Segs /\ openSeg' = Segment
        BY <1>2 DEF AppendRaises, Writing, Minted
    <2>2. minted' \in 0..MaxSegs
        BY <1>2, BoundsAssumption DEF AppendRaises, Writing, Minted, Segment, Segs
    <2>3. exists' \subseteq Segs /\ dirSynced' \subseteq Segs
        BY <1>2, <2>1 DEF AppendRaises, EntrySet
    <2> QED BY <1>2, <2>1, <2>2, <2>3 DEF AppendRaises, Raised
<1>3. CASE RotationCheckRaises(b)
    BY <1>3 DEF RotationCheckRaises, Raised, disk, memory
<1>4. CASE RotationRaises(b)
    BY <1>4 DEF RotationRaises, Raised, disk, memory
<1>5. CASE Rotates(b)
    <2>1. openSeg \in Segs
        BY <1>5 DEF Rotates, RotationChecked
    <2>2. PublishClose(b)
        BY <1>5 DEF Rotates
    <2> QED BY <2>1, <2>2, PublishCloseType
<1> QED BY <1>1, <1>2, <1>3, <1>4, <1>5 DEF AppendStep

(* Closing, and what the writer does between two calls. *)
LEMMA TypedWriter ==
    ASSUME Typed, WriterStep, UNCHANGED faults
    PROVE  Typed'
<1> USE DEF Typed, TypeOK, PcOK
<1>1. ASSUME NEW b \in Bodies, AppendStep(b) PROVE Typed'
    BY <1>1, TypedAppend
<1>2. CASE AppendReturns
    <2>1. openSeg \in Segs /\ task \in Bodies
        BY <1>2 DEF AppendReturns
    <2>2. last' \in Chains
        BY <1>2, <2>1 DEF AppendReturns, Chains
    <2>3. [seg |-> openSeg, ev |-> last'] \in Links
        BY <2>1, <2>2 DEF Links
    <2>4. Len(log[openSeg]) \in Nat
        BY <2>1
    <2> QED BY <1>2, <2>1, <2>2, <2>3, <2>4 DEF AppendReturns
<1>3. CASE FsyncFails
    BY <1>3, BoundsAssumption DEF FsyncFails, Raised, OneMoreFailure, disk
<1>4. CASE CloseSegment
    <2>1. openSeg \in Segs /\ PublishClose(NoBody)
        BY <1>4 DEF CloseSegment
    <2> QED BY <2>1, PublishCloseType
<1>5. CASE DiscardEmptyLog
    BY <1>5 DEF DiscardEmptyLog, EntrySet, Chains
<1>6. CASE CloseReturns
    BY <1>6 DEF CloseReturns, Chains
<1>7. CASE DirSyncFails
    BY <1>7, BoundsAssumption DEF DirSyncFails, OneMoreFailure, disk
<1> QED BY <1>1, <1>2, <1>3, <1>4, <1>5, <1>6, <1>7 DEF WriterStep

LEMMA TypedCrash ==
    ASSUME Typed, Crash, UNCHANGED faults
    PROVE  Typed'
<1> USE DEF Typed, TypeOK, PcOK
<1>1. ASSUME Dies
      PROVE  /\ pc' = "down" /\ task' = NoBody /\ openSeg' = NoSeg /\ last' \in Chains
             /\ failures' \in 0..MaxFailures
             /\ fate' \in [Bodies -> {"fresh", "failed", "acked", "lost"}]
             /\ minted' = minted /\ clock' = clock /\ acked' = acked
    BY <1>1, BoundsAssumption DEF Dies, OneMoreFailure, Chains
<1>2. CASE Kill
    BY <1>1, <1>2 DEF Kill, disk
<1>3. CASE PowerLoss
    <2>1. Dies
        BY <1>3 DEF PowerLoss
    <2>2. exists' \subseteq Segs /\ dirSynced' \subseteq Segs
        BY <1>3 DEF PowerLoss
    <2>3. log' \in [Segs -> Seq(Pieces)]
        <3>1. <<>> \in Seq(Pieces)
            OBVIOUS
        <3>2. /\ \E S : log' \in [Segs -> S]
              /\ \A s \in Segs : log'[s] \in LossOutcomes(s) \cup {<<>>}
            BY <1>3 DEF PowerLoss
        <3>3. \A s \in Segs : LossOutcomes(s) \subseteq Seq(Pieces)
            BY LossOutcomesType
        <3>4. \A s \in Segs : log'[s] \in Seq(Pieces)
            BY <3>1, <3>2, <3>3
        <3> QED BY <3>2, <3>4
    <2>4. synced' \in [Segs -> Nat]
        BY <1>3, <2>3 DEF PowerLoss
    <2>5. close' \in [Segs -> Seq(Links)] /\ closeSynced' = close'
        <3>1. /\ \E S : close' \in [Segs -> S]
              /\ \A s \in Segs : close'[s] \in {close[s], closeSynced[s]}
            BY <1>3 DEF PowerLoss
        <3>2. \A s \in Segs : close[s] \in Seq(Links) /\ closeSynced[s] \in Seq(Links)
            OBVIOUS
        <3>3. \A s \in Segs : close'[s] \in Seq(Links)
            BY <3>1, <3>2
        <3>4. closeSynced' = close'
            BY <1>3 DEF PowerLoss
        <3> QED BY <3>1, <3>3, <3>4
    <2> QED BY <1>1, <2>1, <2>2, <2>3, <2>4, <2>5
<1> QED BY <1>2, <1>3 DEF Crash

LEMMA TypedRecover ==
    ASSUME Typed, Recover, UNCHANGED faults
    PROVE  Typed'
<1> USE DEF Typed, TypeOK, PcOK
<1>1. CASE RecoverNothing
    BY <1>1 DEF RecoverNothing, disk
<1>2. CASE RecoverRefuses
    BY <1>2 DEF RecoverRefuses, disk
<1>3. ASSUME NEW s \in Segs, RecoverOpenLog(s) PROVE Typed'
    <2>1. PICK n \in 0..Len(log[s]) :
              /\ log' = [log EXCEPT ![s] = SubSeq(@, 1, n)]
              /\ synced' = [synced EXCEPT ![s] = IF n = Len(log[s]) THEN @ ELSE n]
              /\ EntrySet(IF n = 0 THEN exists \ {s} ELSE exists)
              /\ openSeg' = IF n = 0 THEN NoSeg ELSE s
              /\ last' = LastEvent(log'[s])
        BY <1>3 DEF RecoverOpenLog
    <2>2. SubSeq(log[s], 1, n) \in Seq(Pieces)
        BY PrefixType
    <2>3. log' \in [Segs -> Seq(Pieces)] /\ log'[s] = SubSeq(log[s], 1, n)
        BY <2>1, <2>2
    <2>4. last' \in Chains
        BY <2>1, <2>2, <2>3, LastEventType
    <2>5. synced' \in [Segs -> Nat] /\ openSeg' \in Segs \cup {NoSeg}
        BY <2>1
    <2>6. exists' \subseteq Segs /\ dirSynced' \subseteq Segs
        BY <2>1 DEF EntrySet
    <2> QED BY <1>3, <2>3, <2>4, <2>5, <2>6 DEF RecoverOpenLog
<1> QED BY <1>1, <1>2, <1>3 DEF Recover

LEMMA TypedNext == Typed /\ [Next]_vars => Typed'
<1> SUFFICES ASSUME Typed, [Next]_vars PROVE Typed'
    OBVIOUS
<1>0. UNCHANGED faults
    BY DEF Next, vars
<1>1. CASE Tick
    BY <1>0, <1>1 DEF Tick, Typed, TypeOK, PcOK, disk, memory
<1>2. CASE UNCHANGED vars
    BY <1>2 DEF vars, Typed, TypeOK, PcOK, disk, memory
<1> QED BY <1>0, <1>1, <1>2, TypedWriter, TypedCrash, TypedRecover DEF Next

(* No step, of the writer or against it, leaves a variable ill-typed. *)
THEOREM TypeCorrect == Spec => []TypeOK
<1>1. Typed => TypeOK
    BY DEF Typed
<1> QED BY <1>1, TypedInit, TypedNext, PTL DEF Spec

-----------------------------------------------------------------------------
(***************************************************************************)
(* Why an acknowledged event survives.  Kills, power losses and failing    *)
(* directory syncs leave every log a run of whole lines, perhaps with one  *)
(* torn line behind it, which lies past every acknowledged event; and what *)
(* the writer remembers of the open log is what the log says.              *)
(***************************************************************************)

Whole(f, i) == Valid(f, i) /\ f[i].nl /\ Len(f[i].ev) = i
Clean(f) == \A i \in 1..Len(f) : Whole(f, i)
Sound(f) == \A i \in 1..Len(f) : Whole(f, i) \/ (i = Len(f) /\ f[i] = Torn)

DiskInv ==
    /\ dirSynced = exists
    /\ \A s \in Segs :
           /\ Sound(log[s])
           /\ synced[s] <= Len(log[s])
           /\ IF s \in exists THEN s <= minted ELSE log[s] = <<>>

AckedInv ==
    \A a \in acked : /\ Len(a.ev) \in 1..synced[a.seg]
                     /\ log[a.seg][Len(a.ev)].ev = a.ev

MemoryInv ==
    /\ openSeg <= minted
    /\ openSeg = NoSeg => last = <<>>
    /\ pc \in {"down", "append"} => openSeg = NoSeg
    /\ pc \in {"idle", "dirsync"} /\ openSeg # NoSeg =>
           Clean(log[openSeg]) /\ last = LastEvent(log[openSeg])
    /\ pc = "fsync" =>
           /\ log[openSeg] # <<>> /\ openSeg \in exists
           /\ Clean(log[openSeg]) /\ LastEvent(log[openSeg]) = Append(last, task)

DurableInv == Typed /\ DiskInv /\ AckedInv /\ MemoryInv

-----------------------------------------------------------------------------
(* Lemmas on sound logs. *)

LEMMA CleanLength ==
    ASSUME NEW f \in Seq(Pieces), Clean(f)
    PROVE  Len(LastEvent(f)) = Len(f)
<1>1. CASE f = <<>>
    BY <1>1 DEF LastEvent
<1>2. CASE f # <<>>
    <2>1. Len(f) \in 1..Len(f)
        BY <1>2
    <2> QED BY <1>2, <2>1 DEF LastEvent, Clean, Whole
<1> QED BY <1>1, <1>2

(* append() extends the chain of a clean log. *)
LEMMA CleanAppend ==
    ASSUME NEW f \in Seq(Pieces), Clean(f), NEW b \in Bodies
    PROVE  LET g == Append(f, [ev |-> Append(LastEvent(f), b), nl |-> TRUE])
           IN  Clean(g) /\ g # <<>> /\ LastEvent(g) = Append(LastEvent(f), b)
<1> DEFINE ev == Append(LastEvent(f), b)
           piece == [ev |-> ev, nl |-> TRUE]
           g == Append(f, piece)
<1>1. LastEvent(f) \in Chains /\ ev \in Chains
    BY LastEventType DEF Chains
<1>2. piece \in Pieces /\ piece.ev = ev /\ piece.nl
    BY <1>1, PiecesClosed
<1>3. Len(ev) = Len(f) + 1
    BY <1>1, CleanLength DEF Chains
<1> HIDE DEF piece
<1>4. /\ Len(g) = Len(f) + 1 /\ Len(f) \in Nat /\ g[Len(f) + 1] = piece
      /\ \A i \in 1..Len(f) : g[i] = f[i]
    BY <1>2
<1> HIDE DEF g
<1>5. ASSUME NEW i \in 1..Len(f) PROVE Whole(g, i)
    <2>1. Whole(f, i)
        BY <1>5 DEF Clean
    <2>2. g[i] = f[i] /\ (i # 1 => g[i - 1] = f[i - 1])
        BY <1>4, <1>5
    <2>3. Before(g, i) = Before(f, i)
        BY <2>2 DEF Before
    <2> QED BY <2>1, <2>2, <2>3 DEF Whole, Valid
<1>6. Whole(g, Len(f) + 1)
    <2>1. Before(g, Len(f) + 1) = LastEvent(f)
        <3>1. CASE f = <<>>
            BY <3>1 DEF Before, LastEvent
        <3>2. CASE f # <<>>
            <4>1. Len(f) \in 1..Len(f) /\ Len(f) + 1 # 1 /\ (Len(f) + 1) - 1 = Len(f)
                BY <3>2
            <4> QED BY <1>4, <3>2, <4>1 DEF Before, LastEvent
        <3> QED BY <3>1, <3>2
    <2> QED BY <1>2, <1>3, <1>4, <2>1 DEF Whole, Valid
<1>7. Clean(g)
    <2>1. \A i \in 1..Len(g) : i \in 1..Len(f) \/ i = Len(f) + 1
        BY <1>4
    <2> QED BY <1>5, <1>6, <2>1 DEF Clean
<1>8. g # <<>> /\ LastEvent(g) = ev
    BY <1>2, <1>4 DEF LastEvent
<1> QED BY <1>7, <1>8 DEF g, piece

(* A proper prefix of a sound log is clean, and a torn line behind it is   *)
(* what soundness allows.                                                  *)
LEMMA SoundPrefix ==
    ASSUME NEW f \in Seq(Pieces), Sound(f), NEW n \in Nat, n < Len(f)
    PROVE  Clean(SubSeq(f, 1, n)) /\ Sound(Append(SubSeq(f, 1, n), Torn))
<1> DEFINE g == SubSeq(f, 1, n)
           h == Append(g, Torn)
<1>1. g \in Seq(Pieces) /\ Len(g) = n /\ \A i \in 1..n : g[i] = f[i]
    BY PrefixType
<1> HIDE DEF g
<1>2. Len(h) = n + 1 /\ h[n + 1] = Torn /\ \A i \in 1..n : h[i] = f[i]
    BY <1>1, PiecesClosed
<1> HIDE DEF h
<1>3. ASSUME NEW i \in 1..n PROVE Whole(g, i) /\ Whole(h, i)
    <2>1. Whole(f, i)
        BY DEF Sound
    <2>2. i # 1 => i - 1 \in 1..n
        OBVIOUS
    <2>3. Before(g, i) = Before(f, i) /\ Before(h, i) = Before(f, i)
        BY <1>1, <1>2, <2>2 DEF Before
    <2> QED BY <1>1, <1>2, <2>1, <2>3 DEF Whole, Valid
<1>4. Clean(g)
    BY <1>1, <1>3 DEF Clean
<1>5. \A i \in 1..Len(h) : i \in 1..n \/ i = n + 1
    BY <1>2
<1> QED BY <1>2, <1>3, <1>4, <1>5 DEF Sound, g, h

LEMMA CleanIsSound == ASSUME NEW f, Clean(f) PROVE Sound(f)
BY DEF Clean, Sound

(* A power loss keeps a sound log sound, and the synced writes as they were. *)
LEMMA LossIsSound ==
    ASSUME HonestFiles, TypeOK, NEW s \in Segs, Sound(log[s]),
           synced[s] <= Len(log[s]), NEW g \in LossOutcomes(s)
    PROVE  /\ g \in Seq(Pieces) /\ Sound(g) /\ synced[s] <= Len(g)
           /\ \A i \in 1..synced[s] : g[i] = log[s][i]
<1>1. PICK f \in Seq(Pieces) : f = log[s]
    BY DEF TypeOK
<1>2. PICK k \in Nat : k = synced[s]
    BY DEF TypeOK
<1>3. g \in Seq(Pieces)
    BY LossOutcomesType
<1>4. \/ g = f
      \/ \E n \in k..(Len(f) - 1) :
             g = SubSeq(f, 1, n) \/ g = Append(SubSeq(f, 1, n), Torn)
    BY <1>1, <1>2 DEF LossOutcomes, HonestFiles
<1>5. CASE g = f
    BY <1>1, <1>2, <1>3, <1>5
<1>6. ASSUME NEW n \in k..(Len(f) - 1),
             g = SubSeq(f, 1, n) \/ g = Append(SubSeq(f, 1, n), Torn)
      PROVE  Sound(g) /\ k <= Len(g) /\ \A i \in 1..k : g[i] = f[i]
    <2>1. n \in Nat /\ n < Len(f) /\ n <= Len(f) /\ k <= n
        OBVIOUS
    <2>2. Clean(SubSeq(f, 1, n)) /\ Sound(Append(SubSeq(f, 1, n), Torn))
        BY <1>1, <2>1, SoundPrefix
    <2>3. PICK p \in Seq(Pieces) : p = SubSeq(f, 1, n) /\ Len(p) = n /\ \A i \in 1..n : p[i] = f[i]
        BY <2>1, PrefixType
    <2>4. \A i \in 1..k : i \in 1..n
        BY <2>1
    <2>5. CASE g = p
        BY <2>1, <2>2, <2>3, <2>4, <2>5, CleanIsSound
    <2>6. CASE g = Append(p, Torn)
        <3>1. Len(g) = n + 1 /\ \A i \in 1..n : g[i] = p[i]
            BY <2>3, <2>6, PiecesClosed
        <3> QED BY <2>1, <2>2, <2>3, <2>4, <2>6, <3>1
    <2> QED BY <1>6, <2>3, <2>5, <2>6
<1> QED BY <1>1, <1>2, <1>3, <1>4, <1>5, <1>6

(* Recovery leaves a sound log clean and drops no event of it. *)
LEMMA RepairIsClean ==
    ASSUME NEW f \in Seq(Pieces), Sound(f), NEW n \in 0..Len(f), RepairPoint(f, n)
    PROVE  /\ Clean(SubSeq(f, 1, n))
           /\ \A i \in 1..Len(f) : f[i].ev # <<>> => i <= n
<1>1. \A i \in 1..Len(f) : f[i] = Torn => ~Valid(f, i) /\ f[i].ev = <<>>
    <2>1. ASSUME NEW i \in 1..Len(f), f[i] = Torn, Valid(f, i) PROVE FALSE
        <3>1. PICK b \in Bodies : <<>> = Append(Before(f, i), b)
            BY <2>1 DEF Valid, Torn
        <3>2. Before(f, i) \in Chains
            <4>1. i # 1 => f[i - 1] \in Pieces
                OBVIOUS
            <4> QED BY <4>1 DEF Before, Pieces, Chains
        <3> QED BY <3>1, <3>2 DEF Chains
    <2> QED BY <2>1 DEF Torn
<1>2. CASE Intact(f)
    <2>1. n = Len(f) /\ SubSeq(f, 1, n) = f
        BY <1>2 DEF RepairPoint
    <2>2. Clean(f)
        BY <1>1, <1>2 DEF Intact, Sound, Clean
    <2>3. Clean(SubSeq(f, 1, n))
        BY <2>1, <2>2
    <2>4. \A i \in 1..Len(f) : i <= n
        BY <2>1
    <2> QED BY <2>3, <2>4
<1>3. CASE ~Intact(f)
    <2>1. PICK i \in 1..Len(f) : ~Valid(f, i)
        BY <1>3 DEF Intact
    <2>2. i = Len(f) /\ f[i] = Torn /\ f[i].ev = <<>>
        BY <1>1, <2>1 DEF Sound, Whole
    <2>3. n < Len(f) /\ \A j \in (n + 1)..(Len(f) - 1) : ~f[j].nl
        BY <1>3 DEF RepairPoint
    <2>4. \A j \in 1..(Len(f) - 1) : f[j].nl
        BY DEF Sound, Whole
    <2>5. n = Len(f) - 1
        <3>1. SUFFICES ASSUME n < Len(f) - 1 PROVE FALSE
            BY <2>3
        <3>2. n + 1 \in (n + 1)..(Len(f) - 1) /\ n + 1 \in 1..(Len(f) - 1)
            BY <3>1
        <3> QED BY <2>3, <2>4, <3>2
    <2>6. Clean(SubSeq(f, 1, n))
        BY <2>3, SoundPrefix
    <2>7. \A j \in 1..Len(f) : f[j].ev # <<>> => j <= n
        BY <2>2, <2>5
    <2> QED BY <2>6, <2>7
<1> QED BY <1>2, <1>3

-----------------------------------------------------------------------------
(* The invariant holds at the start and through every step. *)

LEMMA DurableInit == Init => DurableInv
<1> SUFFICES ASSUME Init PROVE DurableInv
    OBVIOUS
<1>1. Typed
    BY TypedInit
<1>2. Sound(<<>>)
    BY DEF Sound
<1>3. DiskInv
    BY <1>2 DEF Init, DiskInv
<1>4. AckedInv /\ MemoryInv
    BY DEF Init, AckedInv, MemoryInv, NoSeg
<1> QED BY <1>1, <1>3, <1>4 DEF DurableInv

(* append() past its rotation check: the log it writes to is clean, and    *)
(* the event continues it.                                                 *)
LEMMA WritingIsClean ==
    ASSUME DurableInv, NEW b \in Bodies, Writing(b)
    PROVE  /\ Segment \in Segs /\ Clean(log[Segment]) /\ last = LastEvent(log[Segment])
           /\ Segment = openSeg \/ Segment = minted + 1
           /\ Segment \in exists => Segment <= minted
<1> USE DEF DurableInv, Typed, TypeOK
<1>1. Segment \in Segs
    BY DEF Writing
<1>2. CASE openSeg = NoSeg
    <2>1. Segment = minted + 1 /\ last = <<>>
        BY <1>2 DEF Segment, MemoryInv
    <2>2. Segment \notin exists /\ log[Segment] = <<>>
        BY <1>1, <2>1 DEF DiskInv
    <2> QED BY <1>1, <2>1, <2>2 DEF Clean, LastEvent
<1>3. CASE openSeg # NoSeg
    <2>1. Segment = openSeg
        BY <1>3 DEF Segment
    <2>2. pc = "idle"
        BY <1>3 DEF Writing, Appendable, MemoryInv
    <2> QED BY <1>1, <1>3, <2>1, <2>2 DEF MemoryInv
<1> QED BY <1>2, <1>3

LEMMA DurableAppend ==
    ASSUME HonestFiles, DurableInv, NEW b \in Bodies, AppendStep(b), UNCHANGED faults
    PROVE  DurableInv'
<1>1. Typed /\ Typed'
    BY TypedAppend DEF DurableInv
<1> USE DEF DurableInv
<1>2. TypeOK /\ TypeOK'
    BY <1>1 DEF Typed
<1>3. ASSUME Writing(b), Minted,
             EntrySet(exists) \/ EntrySet(exists \cup {Segment})
      PROVE  /\ openSeg' = Segment /\ openSeg' <= minted' /\ minted <= minted'
             /\ dirSynced' = exists'
             /\ \A s \in Segs : s \in exists => s \in exists'
             /\ \A s \in Segs : s \in exists' => s <= minted'
    <2>1. openSeg' = Segment /\ openSeg' <= minted' /\ minted <= minted'
        BY <1>2, <1>3 DEF Minted, Segment, TypeOK, MemoryInv, Segs, NoSeg
    <2>2. dirSynced' = exists' /\ exists' \in {exists, exists \cup {Segment}}
        BY <1>3 DEF EntrySet, HonestFiles
    <2>3. \A s \in Segs : s \in exists => s <= minted
        BY DEF DiskInv
    <2>4. \A s \in Segs : s <= minted => s <= minted'
        BY <1>2, <2>1 DEF TypeOK, Segs
    <2> QED BY <2>1, <2>2, <2>3, <2>4
<1>4. CASE AppendWrites(b)
    <2>1. PICK f \in Seq(Pieces) : f = log[Segment] /\ Clean(f) /\ last = LastEvent(f)
        BY <1>2, <1>4, WritingIsClean DEF AppendWrites, TypeOK
    <2> DEFINE g == Append(f, [ev |-> Append(last, b), nl |-> TRUE])
    <2>2. Clean(g) /\ g # <<>> /\ LastEvent(g) = Append(last, b)
        BY <2>1, CleanAppend
    <2>3. Segment \in Segs /\ openSeg' = Segment
        BY <1>3, <1>4, WritingIsClean DEF AppendWrites
    <2>4. log' = [log EXCEPT ![Segment] = g]
        BY <1>4, <2>1 DEF AppendWrites, WriteOutcomes, HonestFiles
    <2>5. Segment \in exists'
        BY <1>4 DEF AppendWrites, EntrySet
    <2>6. /\ log'[Segment] = g
          /\ \A s \in Segs : s # Segment => log'[s] = log[s]
        BY <1>2, <2>3, <2>4 DEF TypeOK
    <2>7. /\ Len(f) <= Len(g)
          /\ \A i \in 1..Len(f) : g[i] = f[i]
        <3>1. Append(last, b) \in Chains
            BY <1>2 DEF TypeOK, Chains
        <3> QED BY <2>1, <3>1, PiecesClosed
    <2> HIDE DEF g
    <2>8. DiskInv'
        <3>1. dirSynced' = exists'
            BY <1>3, <1>4 DEF AppendWrites
        <3>2. ASSUME NEW s \in Segs
              PROVE  Sound(log'[s]) /\ synced'[s] <= Len(log'[s])
            <4>1. synced' = synced /\ synced[s] \in Nat
                BY <1>2, <1>4 DEF AppendWrites, TypeOK
            <4>2. CASE s = Segment
                <5>1. synced[s] <= Len(f)
                    BY <2>1, <4>2 DEF DiskInv
                <5>2. synced[s] <= Len(g)
                    BY <1>2, <2>1, <2>7, <4>1, <5>1, <2>6, <2>3 DEF TypeOK
                <5> QED BY <2>2, <2>6, <4>1, <4>2, <5>2, CleanIsSound
            <4>3. CASE s # Segment
                BY <2>6, <4>1, <4>3 DEF DiskInv
            <4> QED BY <4>2, <4>3
        <3>3. ASSUME NEW s \in Segs
              PROVE  IF s \in exists' THEN s <= minted' ELSE log'[s] = <<>>
            <4>1. s \in exists' => s <= minted'
                BY <1>3, <1>4 DEF AppendWrites
            <4>2. s \notin exists' => s # Segment /\ s \notin exists
                BY <1>3, <1>4, <2>5 DEF AppendWrites
            <4> QED BY <2>6, <4>1, <4>2 DEF DiskInv
        <3> QED BY <3>1, <3>2, <3>3 DEF DiskInv
    <2>9. AckedInv'
        <3>1. SUFFICES ASSUME NEW a \in acked
                       PROVE  /\ Len(a.ev) \in 1..synced[a.seg]
                              /\ log'[a.seg][Len(a.ev)].ev = a.ev
            BY <1>4 DEF AppendWrites, AckedInv
        <3>2. /\ Len(a.ev) \in 1..synced[a.seg] /\ log[a.seg][Len(a.ev)].ev = a.ev
              /\ a.seg \in Segs
            BY <1>2 DEF AckedInv, TypeOK, Links
        <3>3. CASE a.seg = Segment
            <4>1. synced[a.seg] <= Len(f) /\ synced[a.seg] \in Nat
                BY <1>2, <2>1, <3>2, <3>3 DEF DiskInv, TypeOK
            <4>2. Len(a.ev) \in 1..Len(f)
                BY <2>1, <3>2, <4>1
            <4> QED BY <2>1, <2>6, <2>7, <3>2, <3>3, <4>2
        <3>4. CASE a.seg # Segment
            BY <2>6, <3>2, <3>4
        <3> QED BY <3>3, <3>4
    <2>10. MemoryInv'
        <3>1. pc' = "fsync" /\ task' = b /\ last' = last
            BY <1>4 DEF AppendWrites
        <3>2. openSeg' <= minted' /\ openSeg' # NoSeg
            BY <1>3, <1>4, <2>3 DEF AppendWrites, Segs, NoSeg
        <3> QED BY <2>2, <2>3, <2>5, <2>6, <3>1, <3>2 DEF MemoryInv
    <2> QED BY <1>1, <2>8, <2>9, <2>10
<1>5. CASE AppendRaises(b)
    <2>1. /\ Clean(log[Segment]) /\ last = LastEvent(log[Segment])
          /\ Segment \in Segs
        BY <1>5, WritingIsClean DEF AppendRaises
    <2>2. /\ openSeg' = Segment /\ openSeg' <= minted' /\ dirSynced' = exists'
          /\ \A s \in Segs : s \in exists => s \in exists'
          /\ \A s \in Segs : s \in exists' => s <= minted'
        BY <1>3, <1>5 DEF AppendRaises
    <2>3. UNCHANGED <<log, synced, acked, last>> /\ pc' = "idle"
        BY <1>5 DEF AppendRaises
    <2>4. DiskInv' /\ AckedInv'
        BY <2>2, <2>3 DEF DiskInv, AckedInv
    <2>5. MemoryInv'
        BY <2>1, <2>2, <2>3 DEF MemoryInv, Segs, NoSeg
    <2> QED BY <1>1, <2>4, <2>5
<1>6. CASE RotationCheckRaises(b) \/ RotationRaises(b)
    <2>1. UNCHANGED <<disk, memory, minted, acked>>
        BY <1>6 DEF RotationCheckRaises, RotationRaises
    <2> QED BY <1>1, <2>1 DEF DiskInv, AckedInv, MemoryInv, disk, memory
<1>7. CASE Rotates(b)
    <2>1. PublishClose(b) /\ pc = "idle"
        BY <1>7 DEF Rotates, Appendable
    <2> QED BY <1>1, <2>1 DEF PublishClose, DiskInv, AckedInv, MemoryInv
<1> QED BY <1>4, <1>5, <1>6, <1>7 DEF AppendStep

LEMMA DurableWriter ==
    ASSUME HonestFiles, DurableInv, WriterStep, UNCHANGED faults
    PROVE  DurableInv'
<1>1. Typed /\ Typed'
    BY TypedWriter DEF DurableInv
<1>2. TypeOK
    BY <1>1 DEF Typed
<1> USE DEF DurableInv
<1>3. ASSUME NEW b \in Bodies, AppendStep(b) PROVE DurableInv'
    BY <1>3, DurableAppend
<1>4. CASE AppendReturns
    <2>1. openSeg \in Segs /\ task \in Bodies /\ pc = "fsync"
        BY <1>1, <1>4 DEF AppendReturns, Typed, PcOK
    <2>2. PICK f \in Seq(Pieces) :
              /\ f = log[openSeg] /\ f # <<>> /\ Clean(f) /\ LastEvent(f) = last'
        BY <1>2, <1>4, <2>1 DEF AppendReturns, MemoryInv, TypeOK
    <2>3. Len(last') = Len(f) /\ Len(f) \in 1..Len(f)
        BY <2>2, CleanLength
    <2>4. f[Len(f)].ev = last'
        BY <2>2 DEF LastEvent
    <2>5. synced' = [synced EXCEPT ![openSeg] = Len(f)]
        BY <1>4, <2>2 DEF AppendReturns
    <2>6. /\ synced'[openSeg] = Len(f) /\ synced[openSeg] <= Len(f)
          /\ \A s \in Segs : s # openSeg => synced'[s] = synced[s]
        BY <1>2, <2>1, <2>2, <2>5 DEF TypeOK, DiskInv
    <2>7. DiskInv'
        <3>1. UNCHANGED <<log, exists, dirSynced, minted>>
            BY <1>4 DEF AppendReturns
        <3>2. \A s \in Segs : synced'[s] <= Len(log[s])
            <4>1. Len(f) <= Len(f)
                BY <2>3
            <4> QED BY <2>2, <2>6, <4>1 DEF DiskInv
        <3> QED BY <3>1, <3>2 DEF DiskInv
    <2>8. AckedInv'
        <3>1. SUFFICES ASSUME NEW a \in acked'
                       PROVE  /\ Len(a.ev) \in 1..synced'[a.seg]
                              /\ log[a.seg][Len(a.ev)].ev = a.ev
            BY <1>4 DEF AppendReturns, AckedInv
        <3>2. CASE a \in acked
            <4>1. /\ Len(a.ev) \in 1..synced[a.seg] /\ log[a.seg][Len(a.ev)].ev = a.ev
                  /\ a.seg \in Segs /\ synced[a.seg] \in Nat
                BY <1>2, <3>2 DEF AckedInv, TypeOK, Links
            <4>2. CASE a.seg = openSeg
                <5>1. synced[a.seg] <= Len(f) /\ synced'[a.seg] = Len(f)
                    BY <2>6, <4>2
                <5> QED BY <4>1, <5>1
            <4>3. CASE a.seg # openSeg
                BY <2>6, <4>1, <4>3
            <4> QED BY <4>2, <4>3
        <3>3. CASE a = [seg |-> openSeg, ev |-> last']
            <4>1. a.seg = openSeg /\ a.ev = last'
                BY <3>3
            <4> QED BY <2>2, <2>3, <2>4, <2>6, <4>1
        <3> QED BY <1>4, <3>2, <3>3 DEF AppendReturns
    <2>9. MemoryInv'
        BY <1>4, <2>1, <2>2 DEF AppendReturns, MemoryInv, Segs, NoSeg
    <2> QED BY <1>1, <2>7, <2>8, <2>9
<1>5. CASE FsyncFails
    BY <1>5 DEF FsyncFails, HonestFiles
<1>6. CASE CloseSegment
    BY <1>1, <1>6 DEF CloseSegment, PublishClose, DiskInv, AckedInv, MemoryInv
<1>7. CASE DiscardEmptyLog
    <2>1. dirSynced' = exists' /\ exists' = exists \ {openSeg} /\ log[openSeg] = <<>>
        BY <1>7 DEF DiscardEmptyLog, EntrySet, HonestFiles
    <2>2. UNCHANGED <<log, synced, acked, minted, pc>> /\ openSeg' = NoSeg /\ last' = <<>>
        BY <1>7 DEF DiscardEmptyLog
    <2>3. DiskInv'
        BY <2>1, <2>2 DEF DiskInv
    <2>4. AckedInv' /\ MemoryInv'
        BY <1>2, <1>7, <2>2 DEF AckedInv, MemoryInv, DiscardEmptyLog, TypeOK, NoSeg
    <2> QED BY <1>1, <2>3, <2>4
<1>8. CASE CloseReturns
    <2>1. UNCHANGED <<log, synced, exists, minted, acked>> /\ dirSynced' = exists
        BY <1>8 DEF CloseReturns
    <2>2. openSeg' = NoSeg /\ last' = <<>> /\ pc' \in {"idle", "append"}
        BY <1>8 DEF CloseReturns
    <2>3. DiskInv' /\ AckedInv'
        BY <2>1 DEF DiskInv, AckedInv
    <2>4. MemoryInv'
        BY <1>2, <2>1, <2>2 DEF MemoryInv, TypeOK, NoSeg
    <2> QED BY <1>1, <2>3, <2>4
<1>9. CASE DirSyncFails
    BY <1>1, <1>9 DEF DirSyncFails, DiskInv, AckedInv, MemoryInv, disk
<1> QED BY <1>3, <1>4, <1>5, <1>6, <1>7, <1>8, <1>9 DEF WriterStep

LEMMA DurableCrash ==
    ASSUME HonestFiles, DurableInv, Crash, UNCHANGED faults
    PROVE  DurableInv'
<1>1. Typed /\ Typed'
    BY TypedCrash DEF DurableInv
<1>2. TypeOK /\ TypeOK'
    BY <1>1 DEF Typed
<1> USE DEF DurableInv
<1>3. ASSUME Dies PROVE MemoryInv' /\ UNCHANGED <<minted, acked>>
    BY <1>2, <1>3 DEF Dies, MemoryInv, TypeOK, NoSeg
<1>4. CASE Kill
    BY <1>1, <1>3, <1>4 DEF Kill, DiskInv, AckedInv, disk
<1>5. CASE PowerLoss
    <2>1. MemoryInv' /\ UNCHANGED <<minted, acked>>
        BY <1>3, <1>5 DEF PowerLoss
    <2>2. exists' = exists /\ dirSynced' = exists'
        BY <1>5 DEF PowerLoss, DiskInv
    <2>3. \A s \in Segs : IF s \in exists THEN log'[s] \in LossOutcomes(s) ELSE log'[s] = <<>>
        BY <1>5, <2>2 DEF PowerLoss
    <2>4. \A s \in Segs : synced'[s] = Len(log'[s])
        BY <1>5 DEF PowerLoss
    <2>5. ASSUME NEW s \in Segs
          PROVE  /\ Sound(log'[s]) /\ synced[s] <= Len(log'[s])
                 /\ \A i \in 1..synced[s] : log'[s][i] = log[s][i]
        <3>1. CASE s \in exists
            BY <1>2, <2>3, <3>1, LossIsSound DEF DiskInv
        <3>2. CASE s \notin exists
            <4>1. log'[s] = <<>> /\ log[s] = <<>>
                BY <2>3, <3>2 DEF DiskInv
            <4>2. synced[s] <= Len(log[s]) /\ Sound(log[s])
                BY DEF DiskInv
            <4> QED BY <4>1, <4>2
        <3> QED BY <3>1, <3>2
    <2>6. DiskInv'
        <3>1. \A s \in Segs : synced'[s] <= Len(log'[s])
            BY <1>2, <2>4 DEF TypeOK
        <3> QED BY <2>1, <2>2, <2>3, <2>5, <3>1 DEF DiskInv
    <2>7. AckedInv'
        <3>1. SUFFICES ASSUME NEW a \in acked
                       PROVE  /\ Len(a.ev) \in 1..synced'[a.seg]
                              /\ log'[a.seg][Len(a.ev)].ev = a.ev
            BY <2>1 DEF AckedInv
        <3>2. /\ Len(a.ev) \in 1..synced[a.seg] /\ log[a.seg][Len(a.ev)].ev = a.ev
              /\ a.seg \in Segs /\ synced[a.seg] \in Nat
            BY <1>2 DEF AckedInv, TypeOK, Links
        <3>3. /\ synced[a.seg] <= Len(log'[a.seg])
              /\ log'[a.seg][Len(a.ev)] = log[a.seg][Len(a.ev)]
            BY <2>5, <3>2
        <3>4. synced'[a.seg] = Len(log'[a.seg]) /\ Len(log'[a.seg]) \in Nat
            BY <1>2, <2>4, <3>2 DEF TypeOK
        <3> QED BY <3>2, <3>3, <3>4
    <2> QED BY <1>1, <2>1, <2>6, <2>7
<1> QED BY <1>4, <1>5 DEF Crash

LEMMA DurableRecover ==
    ASSUME HonestFiles, DurableInv, Recover, UNCHANGED faults
    PROVE  DurableInv'
<1>1. Typed /\ Typed'
    BY TypedRecover DEF DurableInv
<1>2. TypeOK
    BY <1>1 DEF Typed
<1> USE DEF DurableInv
<1>3. CASE RecoverNothing
    BY <1>1, <1>3 DEF RecoverNothing, DiskInv, AckedInv, MemoryInv, disk
<1>4. CASE RecoverRefuses
    BY <1>1, <1>4 DEF RecoverRefuses, DiskInv, AckedInv, MemoryInv, disk
<1>5. ASSUME NEW s \in Segs, RecoverOpenLog(s) PROVE DurableInv'
    <2>1. PICK f \in Seq(Pieces) : f = log[s]
        BY <1>2 DEF TypeOK
    <2>2. PICK n \in 0..Len(f) :
              /\ RepairPoint(f, n)
              /\ log' = [log EXCEPT ![s] = SubSeq(f, 1, n)]
              /\ synced' = [synced EXCEPT ![s] = IF n = Len(f) THEN @ ELSE n]
              /\ EntrySet(IF n = 0 THEN exists \ {s} ELSE exists)
              /\ openSeg' = IF n = 0 THEN NoSeg ELSE s
              /\ last' = LastEvent(log'[s])
        BY <1>5, <2>1 DEF RecoverOpenLog
    <2>3. PICK g \in Seq(Pieces) :
              g = SubSeq(f, 1, n) /\ Len(g) = n /\ \A i \in 1..n : g[i] = f[i]
        <3>1. n \in Nat /\ n <= Len(f)
            OBVIOUS
        <3> QED BY <3>1, PrefixType
    <2>4. Clean(g) /\ \A i \in 1..Len(f) : f[i].ev # <<>> => i <= n
        BY <1>5, <2>1, <2>2, <2>3, RepairIsClean DEF DiskInv
    <2>5. log'[s] = g /\ \A t \in Segs : t # s => log'[t] = log[t]
        BY <1>2, <2>2, <2>3 DEF TypeOK
    <2>6. /\ synced'[s] = IF n = Len(f) THEN synced[s] ELSE n
          /\ \A t \in Segs : t # s => synced'[t] = synced[t]
        BY <1>2, <2>2 DEF TypeOK
    <2>7. /\ s \in exists /\ s <= minted /\ dirSynced' = exists'
          /\ exists' = IF n = 0 THEN exists \ {s} ELSE exists
          /\ UNCHANGED <<minted, acked>> /\ pc' = "idle"
        <3>1. s \in exists
            BY <1>5 DEF RecoverOpenLog, OpenLogs
        <3> QED BY <1>5, <2>2, <3>1 DEF RecoverOpenLog, DiskInv, EntrySet, HonestFiles
    <2>8. DiskInv'
        <3>1. synced[s] <= Len(f) /\ synced'[s] <= Len(g)
            BY <2>1, <2>3, <2>6 DEF DiskInv
        <3>2. n = 0 => g = <<>>
            BY <2>3
        <3> QED BY <2>4, <2>5, <2>6, <2>7, <3>1, <3>2, CleanIsSound DEF DiskInv
    <2>9. AckedInv'
        <3>1. SUFFICES ASSUME NEW a \in acked
                       PROVE  /\ Len(a.ev) \in 1..synced'[a.seg]
                              /\ log'[a.seg][Len(a.ev)].ev = a.ev
            BY <2>7 DEF AckedInv
        <3>2. /\ Len(a.ev) \in 1..synced[a.seg] /\ log[a.seg][Len(a.ev)].ev = a.ev
              /\ a.seg \in Segs /\ synced[a.seg] \in Nat /\ a.ev \in Chains
            BY <1>2 DEF AckedInv, TypeOK, Links
        <3>3. CASE a.seg = s
            <4>1. synced[s] <= Len(f)
                BY <2>1 DEF DiskInv
            <4>2. Len(a.ev) \in 1..Len(f)
                BY <3>2, <3>3, <4>1
            <4>3. f[Len(a.ev)].ev = a.ev /\ a.ev # <<>>
                BY <2>1, <3>2, <3>3, <4>2 DEF Chains
            <4>4. Len(a.ev) \in 1..n
                BY <2>4, <4>2, <4>3
            <4>5. Len(a.ev) \in 1..synced'[s]
                BY <2>6, <3>2, <3>3, <4>4
            <4> QED BY <2>3, <2>5, <3>3, <4>3, <4>4, <4>5
        <3>4. CASE a.seg # s
            BY <2>5, <2>6, <3>2, <3>4
        <3> QED BY <3>3, <3>4
    <2>10. MemoryInv'
        <3>1. openSeg' \in {NoSeg, s} /\ openSeg' <= minted
            BY <1>2, <2>2, <2>7 DEF TypeOK, NoSeg
        <3>2. openSeg' = NoSeg => last' = <<>>
            <4>1. openSeg' = NoSeg => n = 0
                BY <2>2 DEF NoSeg, Segs
            <4> QED BY <2>2, <2>3, <2>5, <4>1 DEF LastEvent
        <3> QED BY <2>2, <2>4, <2>5, <2>7, <3>1, <3>2 DEF MemoryInv
    <2> QED BY <1>1, <2>8, <2>9, <2>10
<1> QED BY <1>3, <1>4, <1>5 DEF Recover

LEMMA DurableNext ==
    ASSUME HonestFiles
    PROVE  DurableInv /\ [Next]_vars => DurableInv'
<1> SUFFICES ASSUME DurableInv, [Next]_vars PROVE DurableInv'
    OBVIOUS
<1>1. Typed'
    BY TypedNext DEF DurableInv
<1>2. CASE Tick
    BY <1>1, <1>2 DEF Tick, DurableInv, DiskInv, AckedInv, MemoryInv, disk, memory
<1>3. CASE UNCHANGED vars
    BY <1>1, <1>3 DEF vars, DurableInv, DiskInv, AckedInv, MemoryInv, disk, memory
<1> QED BY <1>2, <1>3, DurableWriter, DurableCrash, DurableRecover DEF Next

LEMMA DurableImpliesSurvival == DurableInv => AckedEventsSurvive
<1> SUFFICES ASSUME DurableInv, NEW a \in acked
             PROVE  LET f == log[a.seg]
                    IN  /\ Len(a.ev) \in 1..Len(f) /\ f[Len(a.ev)].ev = a.ev
                        /\ \A i \in 1..Len(a.ev) : Valid(f, i)
    BY DEF AckedEventsSurvive
<1> USE DEF DurableInv, Typed, TypeOK
<1>1. /\ a.seg \in Segs /\ a.ev \in Chains /\ synced[a.seg] \in Nat
      /\ Len(a.ev) \in 1..synced[a.seg] /\ log[a.seg][Len(a.ev)].ev = a.ev
    BY DEF AckedInv, Links
<1>2. PICK f \in Seq(Pieces) : f = log[a.seg] /\ Sound(f) /\ synced[a.seg] <= Len(f)
    BY <1>1 DEF DiskInv
<1>3. Len(a.ev) \in 1..Len(f)
    BY <1>1, <1>2
<1>4. ASSUME NEW i \in 1..Len(a.ev) PROVE Valid(f, i)
    <2>1. i \in 1..Len(f) /\ (i = Len(f) => i = Len(a.ev))
        BY <1>3
    <2>2. CASE f[i] = Torn /\ i = Len(f)
        <3>1. a.ev = <<>>
            BY <1>1, <1>2, <2>1, <2>2 DEF Torn
        <3> QED BY <1>3, <3>1
    <2> QED BY <1>2, <2>1, <2>2 DEF Sound, Whole
<1> QED BY <1>1, <1>2, <1>3, <1>4

(* Whatever kills, power losses and failing directory syncs do, and in     *)
(* whatever order, an acknowledged event stays readable at its place, as   *)
(* long as writes and syncs of a log do what they report.                  *)
THEOREM AckedEventsAreDurable == Spec => []AckedEventsAreKept
<1> DEFINE Inv == HonestFiles => DurableInv
<1>1. Init => Inv
    BY DurableInit
<1>2. Inv /\ [Next]_vars => Inv'
    <2> SUFFICES ASSUME Inv, [Next]_vars, HonestFiles' PROVE DurableInv'
        OBVIOUS
    <2>1. HonestFiles
        BY DEF HonestFiles, Next, vars
    <2> QED BY <2>1, DurableNext
<1>3. Inv => AckedEventsAreKept
    BY DurableImpliesSurvival DEF AckedEventsAreKept
<1> QED BY <1>1, <1>2, <1>3, PTL DEF Spec
=============================================================================
