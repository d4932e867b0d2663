------------------------------- MODULE Spool -------------------------------
(***************************************************************************)
(* The evidence spool of one writer (packages/sdk-python/src/oathon/       *)
(* spool.py): the EvidenceWriter, its directory segments/ and the kernel   *)
(* between them.  The writer dies and restarts, the machine loses power,   *)
(* writes and syncs fail; "faults" says which of these may happen.         *)
(*                                                                         *)
(* An event's event_hash covers its body, its sequence and its prev_hash,  *)
(* so the hash of an event is represented by the bodies of the chain that  *)
(* ends with it: "sequence" is its length minus one, "prev_hash" all but   *)
(* its last element.  A close record is represented likewise by the chain  *)
(* of close records that ends with it (segment_sequence and                *)
(* prev_segment_close_hash).  Hashes are assumed not to collide.           *)
(***************************************************************************)
EXTENDS Naturals, Sequences, FiniteSets

CONSTANTS
    Bodies,        \* the partial events the program builds and appends
    NoBody,        \* no append in progress
    Days,          \* the UTC days the clock may show
    OccurredDay,   \* the day of a body's occurred_at
    MaxSegs,       \* bound: segment ids the writer may mint
    MaxLines,      \* bound: writes to one log
    MaxFailures,   \* bound: kills, power losses and failed syncs
    FaultSets      \* what may go wrong together, among:
                   \*   kill     the process dies, the page cache survives
                   \*   power    unsynced data may be lost, wholly or in part
                   \*   cut      ... and the loss may take only a line's newline
                   \*   short    write() stores a prefix of the line
                   \*   fsync    fsync() of a log fails
                   \*   dirsync  fsync() of the directory fails
                   \*   dirent   a power loss undoes a creation or an unlink
                   \*            that no sync of the directory followed

Segs == 1..MaxSegs
NoSeg == 0
AllFaults == {"kill", "power", "cut", "short", "fsync", "dirsync", "dirent"}

ASSUME BodiesAssumption == NoBody \notin Bodies
ASSUME DaysAssumption == Days \subseteq Nat /\ OccurredDay \in [Bodies -> Days]
ASSUME BoundsAssumption == MaxSegs \in Nat /\ MaxLines \in Nat /\ MaxFailures \in Nat
ASSUME FaultsAssumption == FaultSets \subseteq SUBSET AllFaults

VARIABLES
    faults,        \* what may go wrong in this behaviour
    log,           \* what a reader of <id>.log sees: the writes, in order
    synced,        \* how many of them are on the disk for certain
    exists,        \* the logs in the directory
    dirSynced,     \* the logs in the directory on the disk
    close,         \* the chain of the record in <id>.close.json; <<>>: no file
    closeSynced,   \* the same, on the disk
    pc,            \* where the writer is
    task,          \* the body append() is called with
    openSeg,       \* _open_segment_id
    last,          \* the chain of _last_event; <<>>: None
    minted,        \* segment ids minted so far
    clock,         \* the UTC day clock_ns shows
    fate,          \* what the program knows of each body
    acked,         \* history: where append() returned, [seg, ev]
    failures       \* how much went wrong so far

disk == <<log, synced, exists, dirSynced, close, closeSynced>>
memory == <<pc, task, openSeg, last>>
vars == <<faults, disk, memory, minted, clock, fate, acked, failures>>

Chains == Seq(Bodies)
Pieces == [ev : Chains, nl : BOOLEAN]
Links == [seg : Segs, ev : Chains]

TypeOK ==
    /\ faults \in FaultSets
    /\ log \in [Segs -> Seq(Pieces)]
    /\ synced \in [Segs -> Nat]
    /\ exists \subseteq Segs
    /\ dirSynced \subseteq Segs
    /\ close \in [Segs -> Seq(Links)]
    /\ closeSynced \in [Segs -> Seq(Links)]
    /\ pc \in {"down", "idle", "append", "fsync", "dirsync", "refused"}
    /\ task \in Bodies \cup {NoBody}
    /\ openSeg \in Segs \cup {NoSeg}
    /\ last \in Chains
    /\ minted \in 0..MaxSegs
    /\ clock \in Days
    /\ fate \in [Bodies -> {"fresh", "failed", "acked", "lost"}]
    /\ acked \subseteq Links
    /\ failures \in 0..MaxFailures

-----------------------------------------------------------------------------
(* Reading a log. *)

(* What one write() left: an event, whose newline may be missing, or a     *)
(* fragment no reader can parse, which stands for the chain <<>>.          *)
Torn == [ev |-> <<>>, nl |-> FALSE]

Before(f, i) == IF i = 1 THEN <<>> ELSE f[i - 1].ev

(* A write that did not end its line is one line with the next write, which *)
(* no parser accepts.  The last line of a file needs no newline.           *)
Valid(f, i) ==
    /\ \E b \in Bodies : f[i].ev = Append(Before(f, i), b)
    /\ i < Len(f) => f[i].nl

Intact(f) == \A i \in 1..Len(f) : Valid(f, i)

(* Mutant of RepairPoint: the truncation offset is one line short. *)
RepairPointOneShort(f, n) ==
    n = IF Intact(f) THEN Len(f) ELSE IF Len(f) > 1 THEN Len(f) - 2 ELSE 0

(* Recovery keeps the first n writes: all of an intact log, or all but the *)
(* last line when only that one is invalid.                                *)
RepairPoint(f, n) ==
    IF Intact(f)
    THEN n = Len(f)
    ELSE /\ n < Len(f)
         /\ \A i \in 1..n : Valid(f, i)
         /\ \A i \in (n + 1)..(Len(f) - 1) : ~f[i].nl

Repairable(f) == \E n \in 0..Len(f) : RepairPoint(f, n)

LastEvent(f) == IF f = <<>> THEN <<>> ELSE f[Len(f)].ev

LogReads(s) == s \in exists /\ Intact(log[s])

(* Mutant of IsLastClose: the records are sorted the wrong way round. *)
IsFirstClose(c) == c \in {close[s] : s \in Segs} /\ \A s \in Segs : Len(c) <= Len(close[s])

(* The last record of the writer in segment_sequence order, if any. *)
CloseRecords == {close[s] : s \in Segs} \cup {<<>>}
IsLastClose(c) == \A s \in Segs : Len(close[s]) <= Len(c)

(* Mutant of OpenLogs: recovery does not look for close records. *)
AllLogs == exists

OpenLogs == {s \in exists : close[s] = <<>>}

(* Entries are as good as on the disk unless "dirent" may undo them. *)
EntrySet(logs) ==
    /\ exists' = logs
    /\ dirSynced' = IF "dirent" \in faults THEN dirSynced ELSE logs

-----------------------------------------------------------------------------
(* append() *)

Appendable(b) == pc = "idle" /\ fate[b] \in {"fresh", "failed"}

RotationChecked == openSeg # NoSeg /\ last # <<>>
RotationDue ==
    /\ RotationChecked
    /\ clock > OccurredDay[Head(Head(log[openSeg]).ev)]

(* Mutant of Segment: the last segment id is used again. *)
SegmentReused ==
    IF openSeg # NoSeg THEN openSeg ELSE IF minted = 0 THEN 1 ELSE minted

(* append(b) is past its rotation check, with the segment it writes to. *)
Segment == IF openSeg = NoSeg THEN minted + 1 ELSE openSeg
Writing(b) ==
    /\ \/ pc = "append" /\ task = b
       \/ Appendable(b) /\ (RotationChecked => LogReads(openSeg) /\ ~RotationDue)
    /\ Segment \in Segs

(* Mutant of Minted: two ids are minted for one segment. *)
MintedTwice ==
    /\ openSeg' = Segment
    /\ minted' = IF openSeg = NoSeg THEN minted + 2 ELSE minted

Minted ==
    /\ openSeg' = Segment
    /\ minted' = IF openSeg = NoSeg THEN minted + 1 ELSE minted

Raised(b) == fate' = [fate EXCEPT ![b] = "failed"]

OneMoreFailure == failures < MaxFailures /\ failures' = failures + 1

(* The event does not validate, or the file cannot be opened or written;   *)
(* O_CREAT may have created it.                                            *)
AppendRaises(b) ==
    /\ Writing(b)
    /\ Minted
    /\ EntrySet(exists) \/ EntrySet(exists \cup {Segment})
    /\ pc' = "idle" /\ task' = NoBody
    /\ Raised(b)
    /\ UNCHANGED <<log, synced, close, closeSynced, last, clock, acked, failures>>

(* What os.write, whose result nobody looks at, stores of a line. *)
WriteOutcomes(ev) ==
    {[ev |-> ev, nl |-> TRUE]}
        \cup IF "short" \in faults THEN {[ev |-> ev, nl |-> FALSE], Torn} ELSE {}

AppendWrites(b) ==
    /\ Writing(b)
    /\ Len(log[Segment]) < MaxLines
    /\ Minted
    /\ EntrySet(exists \cup {Segment})
    /\ \E piece \in WriteOutcomes(Append(last, b)) :
           log' = [log EXCEPT ![Segment] = Append(@, piece)]
    /\ pc' = "fsync" /\ task' = b
    /\ UNCHANGED <<synced, close, closeSynced, last, clock, fate, acked, failures>>

(* Mutant of AppendReturns: an error after the fsync, with the event there. *)
AppendReturnsUnheard ==
    /\ pc = "fsync"
    /\ synced' = [synced EXCEPT ![openSeg] = Len(log[openSeg])]
    /\ last' = Append(last, task)
    /\ Raised(task)
    /\ pc' = "idle" /\ task' = NoBody
    /\ UNCHANGED <<log, exists, dirSynced, close, closeSynced, openSeg, minted,
                   clock, acked, failures>>

(* os.fsync returns, and append() acknowledges the event. *)
AppendReturns ==
    /\ pc = "fsync"
    /\ synced' = [synced EXCEPT ![openSeg] = Len(log[openSeg])]
    /\ last' = Append(last, task)
    /\ acked' = acked \cup {[seg |-> openSeg, ev |-> last']}
    /\ fate' = [fate EXCEPT ![task] = "acked"]
    /\ pc' = "idle" /\ task' = NoBody
    /\ UNCHANGED <<log, exists, dirSynced, close, closeSynced, openSeg, minted,
                   clock, failures>>

(* os.fsync fails: the line stays where it is, _last_event where it was. *)
FsyncFails ==
    /\ "fsync" \in faults
    /\ pc = "fsync"
    /\ Raised(task)
    /\ OneMoreFailure
    /\ pc' = "idle" /\ task' = NoBody
    /\ UNCHANGED <<disk, openSeg, last, minted, clock, acked>>

(* _first_event_locked cannot read the log. *)
RotationCheckRaises(b) ==
    /\ Appendable(b)
    /\ RotationChecked /\ ~LogReads(openSeg)
    /\ Raised(b)
    /\ UNCHANGED <<disk, memory, minted, clock, acked, failures>>

-----------------------------------------------------------------------------
(* Closing a segment *)

(* Mutant of Signed: the record is about the events before the last. *)
SignedOneShort(s) == [seg |-> s, ev |-> Before(log[s], Len(log[s]))]

Signed(s) == [seg |-> s, ev |-> LastEvent(log[s])]

(* _close_locked up to os.replace; b is the body whose append() rotates. *)
PublishClose(b) ==
    /\ LogReads(openSeg) /\ log[openSeg] # <<>>
    /\ \E c \in CloseRecords :
           /\ IsLastClose(c)
           /\ close' = [close EXCEPT ![openSeg] = Append(c, Signed(openSeg))]
    /\ pc' = "dirsync" /\ task' = b
    /\ UNCHANGED <<log, synced, exists, dirSynced, closeSynced, openSeg, last,
                   minted, clock, fate, acked, failures>>

Rotates(b) ==
    /\ Appendable(b)
    /\ RotationChecked /\ LogReads(openSeg) /\ RotationDue
    /\ PublishClose(b)

(* The record does not validate, or its temporary file cannot be written.  *)
RotationRaises(b) ==
    /\ Appendable(b)
    /\ RotationChecked /\ LogReads(openSeg) /\ RotationDue
    /\ Raised(b)
    /\ UNCHANGED <<disk, memory, minted, clock, acked, failures>>

CloseSegment ==
    /\ pc = "idle" /\ openSeg # NoSeg
    /\ PublishClose(NoBody)

(* close_segment() on a log that was created and never written. *)
DiscardEmptyLog ==
    /\ pc = "idle" /\ openSeg # NoSeg
    /\ openSeg \in exists /\ log[openSeg] = <<>>
    /\ EntrySet(exists \ {openSeg})
    /\ openSeg' = NoSeg /\ last' = <<>>
    /\ UNCHANGED <<log, synced, close, closeSynced, pc, task, minted, clock, fate,
                   acked, failures>>

(* _fsync_dir returns; a rotating append() goes on. *)
CloseReturns ==
    /\ pc = "dirsync"
    /\ closeSynced' = close /\ dirSynced' = exists
    /\ openSeg' = NoSeg /\ last' = <<>>
    /\ pc' = IF task = NoBody THEN "idle" ELSE "append"
    /\ UNCHANGED <<log, synced, exists, close, task, minted, clock, fate, acked,
                   failures>>

(* _fsync_dir fails: the record is there, and the segment still open in    *)
(* the writer's memory.                                                    *)
DirSyncFails ==
    /\ "dirsync" \in faults
    /\ pc = "dirsync"
    /\ fate' = [b \in Bodies |-> IF b = task THEN "failed" ELSE fate[b]]
    /\ OneMoreFailure
    /\ pc' = "idle" /\ task' = NoBody
    /\ UNCHANGED <<disk, openSeg, last, minted, clock, acked>>

-----------------------------------------------------------------------------
(* Crashes and recovery *)

(* A partial event whose append() did not return is gone with the process. *)
Dies ==
    /\ OneMoreFailure
    /\ pc' = "down" /\ task' = NoBody /\ openSeg' = NoSeg /\ last' = <<>>
    /\ fate' = [b \in Bodies |->
                   IF b = task \/ fate[b] = "failed" THEN "lost" ELSE fate[b]]
    /\ UNCHANGED <<minted, clock, acked>>

Kill ==
    /\ "kill" \in faults
    /\ pc \notin {"down", "refused"}
    /\ Dies
    /\ UNCHANGED disk

(* What a power loss may leave of a log: the synced writes and a prefix of *)
(* the others, the last of which may be torn.                              *)
LossOutcomes(s) ==
    LET f == log[s]
        Lost == synced[s]..(Len(f) - 1)
    IN  {f} \cup {SubSeq(f, 1, n) : n \in Lost}
            \cup {Append(SubSeq(f, 1, n), Torn) : n \in Lost}
            \cup {Append(SubSeq(f, 1, n), [f[n + 1] EXCEPT !.nl = FALSE]) :
                     n \in IF "cut" \in faults THEN Lost ELSE {}}

PowerLoss ==
    /\ "power" \in faults
    /\ pc # "refused"
    /\ Dies
    /\ exists' \in {e \in SUBSET (exists \cup dirSynced) : exists \cap dirSynced \subseteq e}
    /\ dirSynced' = exists'
    /\ log' \in {f \in [Segs -> UNION {LossOutcomes(s) \cup {<<>>} : s \in Segs}] :
                    \A s \in Segs : IF s \in exists' THEN f[s] \in LossOutcomes(s)
                                                     ELSE f[s] = <<>>}
    /\ synced' = [s \in Segs |-> Len(log'[s])]
    /\ close' \in {c \in [Segs -> {close[s] : s \in Segs} \cup {closeSynced[s] : s \in Segs}] :
                      \A s \in Segs : c[s] \in {close[s], closeSynced[s]}}
    /\ closeSynced' = close'

(* _recover() of a new EvidenceWriter; minted ids are never minted again. *)
RecoverNothing ==
    /\ pc = "down"
    /\ OpenLogs = {}
    /\ pc' = "idle"
    /\ UNCHANGED <<disk, task, openSeg, last, minted, clock, fate, acked, failures>>

RecoverOpenLog(s) ==
    /\ pc = "down"
    /\ OpenLogs = {s}
    /\ \E n \in 0..Len(log[s]) :
           /\ RepairPoint(log[s], n)
           /\ log' = [log EXCEPT ![s] = SubSeq(@, 1, n)]
           /\ synced' = [synced EXCEPT ![s] = IF n = Len(log[s]) THEN @ ELSE n]
           /\ EntrySet(IF n = 0 THEN exists \ {s} ELSE exists)
           /\ openSeg' = IF n = 0 THEN NoSeg ELSE s
           /\ last' = LastEvent(log'[s])
    /\ pc' = "idle"
    /\ UNCHANGED <<close, closeSynced, task, minted, clock, fate, acked, failures>>

(* SpoolCorruptionError: this spool has no writer any more. *)
RecoverRefuses ==
    /\ pc = "down"
    /\ \/ Cardinality(OpenLogs) > 1
       \/ \E s \in OpenLogs : ~Repairable(log[s])
    /\ pc' = "refused"
    /\ UNCHANGED <<disk, task, openSeg, last, minted, clock, fate, acked, failures>>

(* The clock may also go back. *)
Tick ==
    /\ clock' \in Days
    /\ UNCHANGED <<disk, memory, minted, fate, acked, failures>>

-----------------------------------------------------------------------------
Init ==
    /\ faults \in FaultSets
    /\ log = [s \in Segs |-> <<>>] /\ synced = [s \in Segs |-> 0]
    /\ exists = {} /\ dirSynced = {}
    /\ close = [s \in Segs |-> <<>>] /\ closeSynced = [s \in Segs |-> <<>>]
    /\ pc = "down" /\ task = NoBody /\ openSeg = NoSeg /\ last = <<>>
    /\ minted = 0
    /\ clock \in Days
    /\ fate = [b \in Bodies |-> "fresh"]
    /\ acked = {}
    /\ failures = 0

AppendStep(b) ==
    \/ AppendWrites(b) \/ AppendRaises(b)
    \/ RotationCheckRaises(b) \/ RotationRaises(b) \/ Rotates(b)

WriterStep ==
    \/ \E b \in Bodies : AppendStep(b)
    \/ AppendReturns \/ FsyncFails
    \/ CloseSegment \/ DiscardEmptyLog \/ CloseReturns \/ DirSyncFails

Crash == Kill \/ PowerLoss

Recover == RecoverNothing \/ RecoverRefuses \/ \E s \in Segs : RecoverOpenLog(s)

Next ==
    /\ WriterStep \/ Crash \/ Recover \/ Tick
    /\ UNCHANGED faults

Spec == Init /\ [][Next]_vars

-----------------------------------------------------------------------------
(* Properties.  Each promise is made for the failures that cannot break it. *)

(* Writes and syncs of a log do what they report. *)
HonestFiles == faults \cap {"cut", "short", "fsync", "dirent"} = {}

PowerAlone == faults \subseteq {"power"}

(* What is signed was either synced or cannot be lost, and a record that is *)
(* in place is not taken for missing.                                      *)
ClosesAreSafe ==
    faults \cap {"cut", "dirsync", "dirent"} = {} /\ ("power" \in faults => PowerAlone)

(* ADR-006, INV-019: an event append() returned stays in its segment's     *)
(* log, at its sequence, behind an intact chain, through every crash and   *)
(* recovery.                                                               *)
AckedEventsSurvive ==
    \A a \in acked :
        LET f == log[a.seg]
        IN  /\ Len(a.ev) \in 1..Len(f)
            /\ f[Len(a.ev)].ev = a.ev
            /\ \A i \in 1..Len(a.ev) : Valid(f, i)

(* The same, for all failures but those of the log's own writes and syncs. *)
AckedEventsAreKept == HonestFiles => AckedEventsSurvive

(* verify_spool: the log of a closed segment is intact and ends with the   *)
(* event its record signs, and the records chain from segment zero, one   *)
(* for each segment_sequence (INV-006, INV-023).                          *)
ClosedSegmentsVerify ==
    ClosesAreSafe => \A s \in Segs : close[s] # <<>> =>
        /\ s \in exists /\ Intact(log[s]) /\ log[s] # <<>>
        /\ close[s][Len(close[s])] = [seg |-> s, ev |-> LastEvent(log[s])]
        /\ \A k \in 1..Len(close[s]) : close[close[s][k].seg] = SubSeq(close[s], 1, k)
        /\ \A t \in Segs \ {s} : Len(close[t]) # Len(close[s])

(* INV-001, SEGMENT-006: nothing is written to a segment, nor to its close *)
(* record, once the record is in place.                                    *)
ClosedStaysClosed ==
    [][ClosesAreSafe => \A s \in Segs : close[s] # <<>> /\ close'[s] # <<>> =>
           close'[s] = close[s] /\ log'[s] = log[s]]_vars

(* INV-005 and the crash model of spool.py: what a crash leaves, recovery  *)
(* can deal with.                                                          *)
RecoveryNeverRefuses == PowerAlone => pc # "refused"

(* EVENT-001: a program that appends an event again whenever append()      *)
(* raised, as long as it lives, leaves no two copies of it in the spool.   *)
EventsAreUnique ==
    PowerAlone => \A s, t \in Segs : \A i \in 1..Len(log[s]), j \in 1..Len(log[t]) :
        LET e == log[s][i].ev
            f == log[t][j].ev
        IN  e # <<>> /\ f # <<>> /\ e[Len(e)] = f[Len(f)] => s = t /\ i = j

-----------------------------------------------------------------------------
(* The refinement: what a power loss now would leave, at the least. *)

(* The last synced line; a torn one is as good as none. *)
DurableChain(s) ==
    LET n == synced[s]
    IN  IF n = 0 THEN <<>>
        ELSE IF log[s][n] = Torn THEN Before(log[s], n) ELSE log[s][n].ev

DurableCloses ==
    CHOOSE c \in {closeSynced[s] : s \in Segs} \cup {<<>>} :
        \A s \in Segs : Len(closeSynced[s]) <= Len(c)

DurablyOpen == {s \in Segs : closeSynced[s] = <<>> /\ DurableChain(s) # <<>>}

SealedSegments ==
    LET chain == DurableCloses IN [k \in 1..Len(chain) |-> chain[k].ev]

OpenTail == IF DurablyOpen = {} THEN <<>>
                                ELSE DurableChain(CHOOSE s \in DurablyOpen : TRUE)

Place(s) == IF closeSynced[s] = <<>> THEN Len(DurableCloses) + 1 ELSE Len(closeSynced[s])

EL == INSTANCE EvidenceLog WITH
          sealed <- IF PowerAlone THEN SealedSegments ELSE <<>>,
          tail <- IF PowerAlone THEN OpenTail ELSE <<>>,
          acknowledged <- IF PowerAlone THEN {<<Place(a.seg), Len(a.ev)>> : a \in acked} ELSE {}

(* With power losses alone, the spool on the disk is an append-only        *)
(* sequence of segments (INV-001): nothing recorded is altered, reordered  *)
(* or dropped, nothing is recorded after a seal, and an event is durable   *)
(* when append() returns.                                                  *)
ImplementsEvidenceLog == EL!Spec
=============================================================================
