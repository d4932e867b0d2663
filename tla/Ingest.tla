------------------------------- MODULE Ingest -------------------------------
(***************************************************************************)
(* The evidence store of one organization and ingest_batch (ingest.py,     *)
(* store.py): what a batch of a SpoolSyncer does to the store.             *)
(*                                                                         *)
(* Events are hash chains as in Spool: the event of sequence k - 1 of a    *)
(* segment is the prefix of length k of the segment's chain, its event_id  *)
(* the last body of that prefix.  A batch carries, for each segment, the   *)
(* events after + 1 .. Len(chain) of a chain, in order, since sync() sends *)
(* whatever follows the acknowledged position.                             *)
(***************************************************************************)
EXTENDS Naturals, Sequences, FiniteSets, SequencesExt

CONSTANTS
    Bodies,        \* event_ids with what their hash covers
    MaxSegs,       \* bound: segments of the writer
    Days,          \* the values of a close's signed_at
    NoClose        \* no close record

Segs == 1..MaxSegs

ASSUME MaxSegsAssumption == MaxSegs \in Nat
ASSUME DaysAreNaturals == Days \subseteq Nat

Chains == Seq(Bodies)
Closes == [ev : Chains, day : Days]
Auths == [from : Days, to : Days]              \* not_before, not_after
Slices == [after : Nat, chain : Chains]
NoSlice == [after |-> 0, chain |-> <<>>]

(* A syncer sends the authorization it has, or none. *)
Options == {<<>>} \cup {<<a>> : a \in Auths}
Batches ==
    [auths : Options, slice : [Segs -> Slices],
     closes : [Segs -> Closes \cup {NoClose}]]

(* "answered" holds the batches with an idempotency record: the key of a   *)
(* batch is the digest of its content.                                     *)
Stores ==
    [chain : [Segs -> Chains], closed : [Segs -> Closes \cup {NoClose}],
     auths : Seq(Auths), answered : SUBSET Batches]

EmptyStore ==
    [chain |-> [s \in Segs |-> <<>>], closed |-> [s \in Segs |-> NoClose],
     auths |-> <<>>, answered |-> {}]

-----------------------------------------------------------------------------
(* Events *)

Carried(b, s) == (b.slice[s].after + 1)..Len(b.slice[s].chain)
EventId(b, s, k) == b.slice[s].chain[k]

Stored(st, id) == \E t \in Segs : id \in ToSet(st.chain[t])

(* The store has this very event, event_hash and all. *)
Holds(st, b, s, k) ==
    /\ k <= Len(st.chain[s])
    /\ SubSeq(st.chain[s], 1, k) = SubSeq(b.slice[s].chain, 1, k)

New(st, b, s) == {k \in Carried(b, s) : ~Stored(st, EventId(b, s, k))}

(* evidence_conflict: an event_id with another event_hash, or new events   *)
(* for a closed segment.                                                   *)
EventConflict(st, b) ==
    \E s \in Segs :
        \/ \E k \in Carried(b, s) : Stored(st, EventId(b, s, k)) /\ ~Holds(st, b, s, k)
        \/ New(st, b, s) # {} /\ st.closed[s] # NoClose

(* missing_predecessor: the new events do not continue the segment's tip. *)
Continues(st, b, s) ==
    LET tip == st.chain[s]
        chain == b.slice[s].chain
    IN  IsPrefix(tip, chain) /\ New(st, b, s) = (Len(tip) + 1)..Len(chain)

Gap(st, b) == \E s \in Segs : New(st, b, s) # {} /\ ~Continues(st, b, s)

-----------------------------------------------------------------------------
(* Closes *)

KnownAuths(st, b) ==
    IF ToSet(b.auths) \subseteq ToSet(st.auths) THEN st.auths ELSE st.auths \o b.auths

NewCloses(st, b) == {s \in Segs : b.closes[s] # NoClose /\ st.closed[s] = NoClose}

CloseConflict(st, b) ==
    \E s \in Segs : b.closes[s] # NoClose /\ st.closed[s] \notin {NoClose, b.closes[s]}

(* Mutant of ChainWith: the events of the batch without the stored ones. *)
ChainOfBatch(st, b, s) ==
    IF New(st, b, s) = {} THEN st.chain[s]
    ELSE SubSeq(b.slice[s].chain, b.slice[s].after + 1, Len(b.slice[s].chain))

ChainWith(st, b, s) == IF New(st, b, s) = {} THEN st.chain[s] ELSE b.slice[s].chain

(* The first authorization of the writer's key, whatever its window. *)
CoveringAuth(auths) == auths[1]

(* Mutant of CloseVerifies: the close is not compared with the chain. *)
CloseIsSigned(st, b, s) ==
    LET auth == CoveringAuth(KnownAuths(st, b))
    IN  b.closes[s].day \in auth.from..auth.to

CloseVerifies(st, b, s) ==
    LET auth == CoveringAuth(KnownAuths(st, b))
    IN  /\ b.closes[s].ev = ChainWith(st, b, s)
        /\ b.closes[s].day \in auth.from..auth.to

(* missing_predecessor, unauthorized_close or invalid_close. *)
BadClose(st, b) ==
    \E s \in NewCloses(st, b) :
        \/ ChainWith(st, b, s) = <<>>
        \/ KnownAuths(st, b) = <<>>
        \/ ~CloseVerifies(st, b, s)

-----------------------------------------------------------------------------
(* ingest_batch *)

Replays(st, b) == b \in st.answered

Accepts(st, b) ==
    ~(EventConflict(st, b) \/ Gap(st, b) \/ CloseConflict(st, b) \/ BadClose(st, b))

(* commit() asserts that an event_id is new, one event after the other,    *)
(* while validation compared each with the store alone: the first event of *)
(* the batch whose event_id an earlier one of the batch has.               *)
Earlier(s, k, t, j) == t < s \/ (t = s /\ j < k)
Repeats(st, b, s, k) ==
    \E t \in Segs : \E j \in New(st, b, t) :
        Earlier(s, k, t, j) /\ EventId(b, t, j) = EventId(b, s, k)

AssertionFails(st, b) == \E s \in Segs : \E k \in New(st, b, s) : Repeats(st, b, s, k)

(* What the AssertionError leaves: the events before the repeated one. *)
PartlyCommitted(st, b) ==
    [st EXCEPT !.chain = [s \in Segs |->
        LET Kept == {k \in New(st, b, s) :
                        \A t \in Segs : \A j \in New(st, b, t) :
                            Repeats(st, b, t, j) => Earlier(t, j, s, k)}
        IN  IF Kept = {} THEN st.chain[s]
            ELSE SubSeq(b.slice[s].chain, 1, Len(st.chain[s]) + Cardinality(Kept))]]

(* Mutant of Committed: the outcome is not recorded under its key. *)
CommittedUnrecorded(st, b) ==
    [PartlyCommitted(st, b) EXCEPT
        !.closed = [s \in Segs |-> IF s \in NewCloses(st, b) THEN b.closes[s]
                                                             ELSE st.closed[s]],
        !.auths = KnownAuths(st, b)]

Committed(st, b) ==
    [chain |-> [s \in Segs |-> ChainWith(st, b, s)],
     closed |-> [s \in Segs |-> IF s \in NewCloses(st, b) THEN b.closes[s] ELSE st.closed[s]],
     auths |-> KnownAuths(st, b),
     answered |-> st.answered \cup {b}]
=============================================================================
