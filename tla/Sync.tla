-------------------------------- MODULE Sync --------------------------------
(***************************************************************************)
(* SpoolSyncer.sync() (sync.py) between the spool of one writer and the    *)
(* evidence store (Ingest): what a pass reads while the writer goes on,    *)
(* requests and answers that are lost, late or delivered twice, restarts   *)
(* on both sides.  The spool is what Spool shows a reader: per segment a   *)
(* chain of events and a close, the last of which may not be synced yet.   *)
(***************************************************************************)
EXTENDS Ingest

CONSTANTS
    Syncers,       \* the processes that run sync() on the spool
    Configured,    \* for each, what an operator may configure it with: the
                   \* writer's authorization <<a>>, or <<>> for none
    Garbled,       \* a sync-state.json that loads_strict does not parse
    MaxInFlight,   \* bound: requests under way
    MaxFailures,   \* bound: abandoned passes, power losses, restarts
    Faults         \* what may go wrong, among:
                   \*   unsynced  a power loss removes a line or a close that
                   \*             was written, maybe read, and not synced
                   \*   reuse     a body is recorded again in a later segment
                   \*   state     a power loss empties sync-state.json
                   \*   persist   the store fails to write its file
                   \*   rename    ... or to make the new file durable

ASSUME ConfiguredAssumption == Configured \in [Syncers -> SUBSET Options]
ASSUME SyncBoundsAssumption == MaxInFlight \in Nat /\ MaxFailures \in Nat
ASSUME SyncFaultsAssumption ==
    Faults \subseteq {"unsynced", "reuse", "state", "persist", "rename"}

VARIABLES
    lines,         \* the chain of each segment's log
    unsynced,      \* what is not synced yet: the last line, the last close
    closed,        \* the close record of each segment
    state,         \* sync-state.json
    pc,            \* where each syncer is
    loaded,        \* the state a pass has loaded
    batch,         \* the batch it builds and sends
    net,           \* requests under way
    mem,           \* the store in the server's memory
    disk,          \* the store a restart of the server finds
    failures

spool == <<lines, unsynced, closed>>
client == <<state, pc, loaded, batch>>
vars == <<spool, client, net, mem, disk, failures>>

NoState == [acked |-> [s \in Segs |-> 0], closes |-> {}, authSent |-> FALSE]
NoBatch == [auths |-> <<>>, slice |-> [s \in Segs |-> NoSlice],
            closes |-> [s \in Segs |-> NoClose]]

(* acked[s]: acked_sequences plus one. *)
States == [acked : [Segs -> Nat], closes : SUBSET Segs, authSent : BOOLEAN]

TypeOK ==
    /\ lines \in [Segs -> Chains]
    /\ unsynced \in {"nothing", "line", "close"}
    /\ closed \in [Segs -> Closes \cup {NoClose}]
    /\ state = Garbled \/ state \in States
    /\ pc \in [Syncers -> {"idle", "read", "sent", "answered"}]
    /\ loaded \in [Syncers -> States]
    /\ batch \in [Syncers -> Batches]
    /\ net \subseteq Batches
    /\ mem \in Stores
    /\ disk \in Stores
    /\ failures \in 0..MaxFailures

OneMoreFailure == failures < MaxFailures /\ failures' = failures + 1

-----------------------------------------------------------------------------
(* The writer, as far as readers of its files see it. *)

OpenSegs == {s \in Segs : lines[s] # <<>> /\ closed[s] = NoClose}
FreeSegs == {s \in Segs : \A t \in Segs : t >= s => lines[t] = <<>>}

(* The open segment, or else the next one. *)
Target(s) == IF OpenSegs # {} THEN s \in OpenSegs
                              ELSE s \in FreeSegs /\ \A t \in FreeSegs : s <= t

Recorded == UNION {ToSet(lines[s]) : s \in Segs}

WriterWrites(s, b) ==
    /\ unsynced = "nothing"
    /\ Target(s)
    /\ b \notin ToSet(lines[s])
    /\ IF b \in Recorded THEN "reuse" \in Faults /\ OneMoreFailure ELSE UNCHANGED failures
    /\ lines' = [lines EXCEPT ![s] = Append(@, b)]
    /\ unsynced' = "line"
    /\ UNCHANGED <<closed, client, net, mem, disk>>

(* The record is signed at whatever the clock of the machine says and      *)
(* renamed into place; the directory is not synced yet.                    *)
WriterCloses(s, day) ==
    /\ unsynced = "nothing"
    /\ s \in OpenSegs
    /\ closed' = [closed EXCEPT ![s] = [ev |-> lines[s], day |-> day]]
    /\ unsynced' = "close"
    /\ UNCHANGED <<lines, client, net, mem, disk, failures>>

(* fsync() of the log, or of the directory. *)
WriterSyncs ==
    /\ unsynced # "nothing"
    /\ unsynced' = "nothing"
    /\ UNCHANGED <<lines, closed, client, net, mem, disk, failures>>

-----------------------------------------------------------------------------
(* sync() *)

(* Mutant of Pending: the event after the acknowledged one is left out. *)
PendingSkipsOne(st, s) ==
    IF Len(lines[s]) > st.acked[s] + 1 THEN [after |-> st.acked[s] + 1, chain |-> lines[s]]
                                       ELSE NoSlice

(* Mutant of Pending: the acknowledged event is sent again. *)
PendingResends(st, s) ==
    IF Len(lines[s]) > st.acked[s] THEN [after |-> st.acked[s] - 1, chain |-> lines[s]]
                                   ELSE NoSlice

Pending(st, s) ==
    IF Len(lines[s]) > st.acked[s] THEN [after |-> st.acked[s], chain |-> lines[s]]
                                   ELSE NoSlice

(* The state is loaded and the logs are read, *)
SyncReadsLogs(p) ==
    /\ pc[p] = "idle"
    /\ state # Garbled
    /\ pc' = [pc EXCEPT ![p] = "read"]
    /\ loaded' = [loaded EXCEPT ![p] = state]
    /\ batch' = [batch EXCEPT ![p] =
                    [NoBatch EXCEPT !.slice = [s \in Segs |-> Pending(state, s)]]]
    /\ UNCHANGED <<spool, state, net, mem, disk, failures>>

(* and then, log by log, the close records, of which the last may be newer *)
(* than the log that was read.                                             *)
PendingCloses(p, seen) ==
    [s \in Segs |-> IF s \in seen /\ s \notin loaded[p].closes THEN closed[s] ELSE NoClose]

WithCloses(p, seen, auth) ==
    LET closes == PendingCloses(p, seen)
        signing == ~loaded[p].authSent \/ \E s \in Segs : closes[s] # NoClose
    IN  [batch[p] EXCEPT !.closes = closes, !.auths = IF signing THEN auth ELSE <<>>]

(* Segments whose log was there when the pass listed them. *)
Listed(p) == {s \in Segs : loaded[p].acked[s] > 0 \/ batch[p].slice[s] # NoSlice}

(* The syncer has the authorization its operator configured it with, or    *)
(* none: closes go out without one, too.                                   *)
SyncSends(p, auth) ==
    /\ pc[p] = "read"
    /\ LET b == WithCloses(p, Listed(p), auth) IN
           /\ b # NoBatch
           /\ Cardinality(net \cup {b}) <= MaxInFlight
           /\ batch' = [batch EXCEPT ![p] = b]
           /\ net' = net \cup {b}
    /\ pc' = [pc EXCEPT ![p] = "sent"]
    /\ UNCHANGED <<spool, state, loaded, mem, disk, failures>>

Ends(p) ==
    /\ pc' = [pc EXCEPT ![p] = "idle"]
    /\ loaded' = [loaded EXCEPT ![p] = NoState]
    /\ batch' = [batch EXCEPT ![p] = NoBatch]

SyncHasNothingToDo(p) ==
    /\ pc[p] = "read"
    /\ \E auth \in Configured[p] : WithCloses(p, Listed(p), auth) = NoBatch
    /\ Ends(p)
    /\ UNCHANGED <<spool, state, net, mem, disk, failures>>

(* Mutant of Acknowledging: the closes are read again, not taken from the  *)
(* batch.                                                                  *)
AcknowledgingAllCloses(st, b) ==
    [acked |-> [s \in Segs |-> IF b.slice[s] = NoSlice THEN st.acked[s]
                                                       ELSE Len(b.slice[s].chain)],
     closes |-> {s \in Segs : closed[s] # NoClose}, authSent |-> TRUE]

(* Mutant of Acknowledging: the closes sent are not acknowledged. *)
AcknowledgingNoCloses(st, b) ==
    [acked |-> [s \in Segs |-> IF b.slice[s] = NoSlice THEN st.acked[s]
                                                       ELSE Len(b.slice[s].chain)],
     closes |-> st.closes, authSent |-> TRUE]

(* The transport has returned: what was sent is acknowledged. *)
Acknowledging(st, b) ==
    [acked |-> [s \in Segs |-> IF b.slice[s] = NoSlice THEN st.acked[s]
                                                       ELSE Len(b.slice[s].chain)],
     closes |-> st.closes \cup {s \in Segs : b.closes[s] # NoClose},
     authSent |-> st.authSent \/ b.auths # <<>>]

SyncSaves(p) ==
    /\ pc[p] = "answered"
    /\ state' = Acknowledging(loaded[p], batch[p])
    /\ Ends(p)
    /\ UNCHANGED <<spool, net, mem, disk, failures>>

(* The pass raises, times out or dies; its request may still be under way. *)
SyncAbandons(p) ==
    /\ pc[p] # "idle"
    /\ Ends(p)
    /\ UNCHANGED <<spool, state, net, mem, disk, failures>>

-----------------------------------------------------------------------------
(* The server *)

Waiting(p, b) == pc[p] = "sent" /\ batch[p] = b

Returns(b) ==
    \/ UNCHANGED <<pc, loaded, batch>>                       \* the answer is lost
    \/ \E p \in Syncers : /\ Waiting(p, b)
                          /\ pc' = [pc EXCEPT ![p] = "answered"]
                          /\ UNCHANGED <<loaded, batch>>

Raises(b) ==
    \/ UNCHANGED <<pc, loaded, batch>>
    \/ \E p \in Syncers : Waiting(p, b) /\ Ends(p)

(* The request is taken from the net, or is delivered again later. *)
Request(b) ==
    /\ b \in net
    /\ net' \in {net, net \ {b}}
    /\ UNCHANGED <<spool, state>>

IngestReplays(b) ==
    /\ Request(b)
    /\ Replays(mem, b)
    /\ Returns(b)
    /\ UNCHANGED <<mem, disk, failures>>

IngestRefuses(b) ==
    /\ Request(b)
    /\ ~Replays(mem, b) /\ ~Accepts(mem, b)
    /\ Raises(b)
    /\ UNCHANGED <<mem, disk, failures>>

IngestCommits(b) ==
    /\ Request(b)
    /\ ~Replays(mem, b) /\ Accepts(mem, b) /\ ~AssertionFails(mem, b)
    /\ mem' = Committed(mem, b)
    /\ disk' \in {mem'} \cup IF "rename" \in Faults THEN {disk} ELSE {}
    /\ Returns(b)
    /\ UNCHANGED failures

(* commit() has changed the memory when _persist raises. *)
PersistFails(b) ==
    /\ "persist" \in Faults
    /\ Request(b)
    /\ ~Replays(mem, b) /\ Accepts(mem, b) /\ ~AssertionFails(mem, b)
    /\ mem' = Committed(mem, b)
    /\ Raises(b)
    /\ OneMoreFailure
    /\ UNCHANGED disk

CommitAsserts(b) ==
    /\ Request(b)
    /\ ~Replays(mem, b) /\ Accepts(mem, b) /\ AssertionFails(mem, b)
    /\ mem' = PartlyCommitted(mem, b)
    /\ Raises(b)
    /\ UNCHANGED <<disk, failures>>

RequestIsLost(b) ==
    /\ b \in net
    /\ net' = net \ {b}
    /\ UNCHANGED <<spool, client, mem, disk, failures>>

-----------------------------------------------------------------------------
(* Failures of a machine *)

ServerRestarts ==
    /\ OneMoreFailure
    /\ mem' = disk
    /\ UNCHANGED <<spool, client, net, disk>>

LosesUnsynced ==
    \/ /\ unsynced = "line"
       /\ lines' = [s \in Segs |-> IF s \in OpenSegs THEN Front(lines[s]) ELSE lines[s]]
       /\ UNCHANGED closed
    \/ /\ unsynced = "close"
       /\ closed' = [s \in Segs |-> IF \A t \in Segs : t > s => closed[t] = NoClose
                                    THEN NoClose ELSE closed[s]]
       /\ UNCHANGED lines

(* The writer's machine loses power, and with it what was not synced. *)
ClientLosesPower ==
    /\ OneMoreFailure
    /\ pc' = [p \in Syncers |-> "idle"]
    /\ loaded' = [p \in Syncers |-> NoState]
    /\ batch' = [p \in Syncers |-> NoBatch]
    /\ \/ UNCHANGED <<lines, closed>>
       \/ "unsynced" \in Faults /\ LosesUnsynced
    /\ unsynced' = "nothing"
    /\ state' \in {state} \cup IF "state" \in Faults /\ state # NoState THEN {Garbled} ELSE {}
    /\ UNCHANGED <<net, mem, disk>>

-----------------------------------------------------------------------------
Init ==
    /\ lines = [s \in Segs |-> <<>>] /\ unsynced = "nothing"
    /\ closed = [s \in Segs |-> NoClose]
    /\ state = NoState
    /\ pc = [p \in Syncers |-> "idle"]
    /\ loaded = [p \in Syncers |-> NoState]
    /\ batch = [p \in Syncers |-> NoBatch]
    /\ net = {}
    /\ mem = EmptyStore /\ disk = EmptyStore
    /\ failures = 0

Writer ==
    \/ \E s \in Segs : (\E b \in Bodies : WriterWrites(s, b)) \/ (\E d \in Days : WriterCloses(s, d))
    \/ WriterSyncs

Pass(p) ==
    \/ SyncReadsLogs(p) \/ (\E auth \in Configured[p] : SyncSends(p, auth))
    \/ SyncHasNothingToDo(p) \/ SyncSaves(p) \/ SyncAbandons(p)

Server(b) ==
    \/ IngestReplays(b) \/ IngestRefuses(b) \/ IngestCommits(b)
    \/ PersistFails(b) \/ CommitAsserts(b)

Next ==
    \/ Writer
    \/ \E p \in Syncers : Pass(p)
    \/ \E b \in net : Server(b) \/ RequestIsLost(b)
    \/ ServerRestarts \/ ClientLosesPower

Spec == Init /\ [][Next]_vars

(* A pass is run again and again by a syncer that has its authorization,   *)
(* and its requests do not linger for ever; an unanswered one times out,   *)
(* and not every pass dies at the same place.                              *)
Exchange(p) == Server(batch[p]) /\ Waiting(p, batch[p]) /\ pc'[p] = "answered"

Fairness ==
    /\ WF_vars(\E b \in net : RequestIsLost(b))
    /\ WF_vars(WriterSyncs)
    /\ \A p \in Syncers :
           /\ WF_vars(SyncReadsLogs(p)) /\ WF_vars(SyncHasNothingToDo(p))
           /\ SF_vars(\E auth \in Configured[p] \ {<<>>} : SyncSends(p, auth))
           /\ SF_vars(Exchange(p))
           /\ SF_vars(SyncSaves(p))
           /\ WF_vars(pc[p] = "sent" /\ SyncAbandons(p))

FairSpec == Spec /\ Fairness

-----------------------------------------------------------------------------
(* Properties *)

(* sync() may forget what it has acknowledged: the server has it on disk,  *)
(* event by event and close by close, as the spool has it.                 *)
AckedIsStored ==
    state # Garbled =>
        \A s \in Segs :
            /\ state.acked[s] <= Len(lines[s])
            /\ IsPrefix(SubSeq(lines[s], 1, state.acked[s]), disk.chain[s])
            /\ s \in state.closes => disk.closed[s] = closed[s]

(* INV-008, API-006: one logical copy.  Whatever was delivered twice, late *)
(* or out of order, the store holds prefixes of the spool's chains, and a  *)
(* close only with the whole segment it signs.                             *)
OneLogicalCopy ==
    \A s \in Segs :
        /\ IsPrefix(mem.chain[s], lines[s])
        /\ mem.closed[s] # NoClose => /\ mem.closed[s] = closed[s]
                                      /\ mem.closed[s].ev = mem.chain[s]

(* sync(): "Safe to call repeatedly and after any failure".  No request of *)
(* this writer, however old, is ever a conflict or a gap for the server.   *)
RequestsFit ==
    \A b \in net : ~EventConflict(mem, b) /\ ~Gap(mem, b) /\ ~CloseConflict(mem, b)

(* API-008: every stored event and close came with a batch that was        *)
(* accepted as a whole.                                                    *)
AllOrNothing ==
    \A s \in Segs :
        /\ \A k \in 1..Len(mem.chain[s]) :
               \E b \in mem.answered : k \in Carried(b, s)
        /\ mem.closed[s] # NoClose => \E b \in mem.answered : b.closes[s] = mem.closed[s]

(* API-010, API-011: what the server has on disk only grows. *)
StoreOnlyGrows ==
    [][/\ \A s \in Segs : /\ IsPrefix(disk.chain[s], disk'.chain[s])
                          /\ disk.closed[s] # NoClose => disk'.closed[s] = disk.closed[s]
       /\ disk.answered \subseteq disk'.answered]_vars

(* The evidence reaches the server whatever was lost on the way: once the  *)
(* writer rests, every event and close is stored and acknowledged.         *)
AllAcked ==
    /\ state # Garbled
    /\ \A s \in Segs :
           /\ state.acked[s] = Len(lines[s])
           /\ closed[s] # NoClose => s \in state.closes
EvidenceArrives == <>[](AllAcked /\ disk.chain = lines /\ disk.closed = closed)

(* Whatever goes wrong, on either side: a close the server has on disk or  *)
(* in memory verifies against the whole chain it has for the segment       *)
(* (INV-006): no failure makes a report claim more than was signed.        *)
StoredClosesVerify ==
    \A st \in {mem, disk} : \A s \in Segs :
        st.closed[s] # NoClose => st.closed[s].ev = st.chain[s] /\ st.auths # <<>>

(* A close signed within the window of the authorization it is sent with   *)
(* does not fail for want of one (CRYPTOGRAPHY 9b).                        *)
CoveredClosesVerify ==
    \A b \in net : \A s \in NewCloses(mem, b) :
        b.closes[s].ev = ChainWith(mem, b, s)
        /\ (\E i \in DOMAIN b.auths : b.closes[s].day \in b.auths[i].from..b.auths[i].to)
        => CloseVerifies(mem, b, s)
=============================================================================
