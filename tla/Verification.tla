---------------------------- MODULE Verification ----------------------------
(***************************************************************************)
(* The verifiers of recorded evidence: verify.py, keyring.py, the report   *)
(* of engine.py, verify_spool of spool.py, verify_bundle of bundle.py, and *)
(* the independent verifiers in Go and for the browser.                    *)
(*                                                                         *)
(* They are judged on what is left of an honest history, parts of which    *)
(* may be lost or damaged.  Every event and every close of that history is *)
(* told by its place, <<segment, sequence>> or its segment, and that place *)
(* stands for its hash; "intact" says that its content still has that hash *)
(* and its signature.                                                      *)
(***************************************************************************)
EXTENDS Naturals, FiniteSets, SequencesExt

CONSTANTS
    Writers,
    MaxSegs,       \* bound: segments of a writer
    MaxEvents,     \* bound: events of a segment
    MaxKeys,       \* bound: signing keys of the organization
    Days           \* days a close may be signed on

ASSUME WritersAssumption == IsFiniteSet(Writers)
ASSUME VerificationBounds ==
    MaxSegs \in Nat /\ MaxEvents \in Nat /\ MaxKeys \in Nat \ {0} /\ Days \subseteq Nat

(* A segment, by its writer and its segment_sequence once it is closed. *)
Segs == [writer : Writers, number : 0..(MaxSegs - 1)]
Keys == 1..MaxKeys

Events == [seg : Segs, sequence : 0..(MaxEvents - 1), intact : BOOLEAN]
Closes == [seg : Segs, count : 1..MaxEvents, day : Days, intact : BOOLEAN]
Auths == [writer : Writers, from : Days, to : Days, signer : Keys]

(* Rotations carry the signature of key "old", recoveries that of "new". *)
KeyRecords == [kind : {"genesis", "rotation", "recovery"}, old : Keys, new : Keys]

(* What a verifier is given: "anchors" are the segments for whose close, as *)
(* it was signed, there is a receipt, "certs" says that the certificates of *)
(* the timestamping authority are there.                                    *)
Evidence ==
    [events : SUBSET Events, closes : SUBSET Closes, auths : Seq(Auths), keys : Seq(KeyRecords),
     anchors : SUBSET Segs, certs : BOOLEAN]

None == <<>>
Hash(e) == <<e.seg, e.sequence>>
PrevHash(e) == IF e.sequence = 0 THEN None ELSE <<e.seg, e.sequence - 1>>

(* The digest of an altered record is that of no record. *)
Digest(c) == <<c.seg, c.intact>>
PrevDigest(c) ==
    IF c.seg.number = 0 THEN None ELSE <<[c.seg EXCEPT !.number = @ - 1], TRUE>>

-----------------------------------------------------------------------------
(* Chains *)

(* Mutant of EventVerifies: the hash is not computed again. *)
EventTaken(e) == e.sequence \in Nat
EventVerifies(e) == e.intact

(* verify_chain of verify.py; the first sequence may be any. *)
ChainVerifies(chain) ==
    /\ chain # <<>>
    /\ \A i \in DOMAIN chain :
           /\ EventVerifies(chain[i])
           /\ chain[i].seg = chain[1].seg
           /\ chain[i].sequence = chain[1].sequence + i - 1
           /\ IF i = 1 THEN chain[1].sequence = 0 => PrevHash(chain[1]) = None
                       ELSE PrevHash(chain[i]) = Hash(chain[i - 1])

(* Mutant of PairwiseChainVerifies: every chain must begin at zero. *)
ZeroChainVerifies(chain) ==
    /\ chain # <<>>
    /\ \A i \in DOMAIN chain : EventVerifies(chain[i]) /\ chain[i].sequence = i - 1

(* verifyChain in Go and JavaScript: each event against the one before. *)
PairwiseChainVerifies(chain) ==
    /\ chain # <<>>
    /\ \A i \in DOMAIN chain : EventVerifies(chain[i])
    /\ chain[1].sequence = 0 => PrevHash(chain[1]) = None
    /\ \A i \in 2..Len(chain) :
           /\ chain[i].seg = chain[i - 1].seg
           /\ chain[i].sequence = chain[i - 1].sequence + 1
           /\ PrevHash(chain[i]) = Hash(chain[i - 1])

(* Mutant of CloseMatches: the last sequence is taken for the count. *)
CloseMatchesShort(c, chain) ==
    c.intact /\ c.count = chain[Len(chain)].sequence

(* verify_segment_close: the close against the chain. *)
CloseMatches(c, chain) ==
    /\ c.intact
    /\ Hash(chain[1]) = <<c.seg, 0>>
    /\ Hash(chain[Len(chain)]) = <<c.seg, c.count - 1>>
    /\ c.count = Len(chain)
    /\ \A i \in DOMAIN chain : chain[i].seg = c.seg

Covers(a, c) == a.writer = c.seg.writer /\ c.day \in a.from..a.to

CloseVerifies(c, chain, a, keyset) ==
    /\ a.signer \in keyset
    /\ Covers(a, c)
    /\ ChainVerifies(chain)
    /\ CloseMatches(c, chain)

(* verifySegmentClose in Go and JavaScript. *)
PairwiseCloseVerifies(c, chain, a, keyset) ==
    /\ a.signer \in keyset
    /\ Covers(a, c)
    /\ PairwiseChainVerifies(chain)
    /\ CloseMatches(c, chain)

-----------------------------------------------------------------------------
(* The closes of one writer, in segment_sequence order *)

(* verify_segment_sequence of verify.py; the first sequence may be any. *)
SequenceVerifies(closes) ==
    /\ closes # <<>>
    /\ \A i \in DOMAIN closes :
           /\ closes[i].seg.writer = closes[1].seg.writer
           /\ closes[i].seg.number = closes[1].seg.number + i - 1
           /\ IF i = 1 THEN closes[1].seg.number = 0 => PrevDigest(closes[1]) = None
                       ELSE PrevDigest(closes[i]) = Digest(closes[i - 1])

(* verifySegmentSequence in Go and JavaScript. *)
SequenceFromZeroVerifies(closes) ==
    /\ closes # <<>>
    /\ \A i \in DOMAIN closes :
           /\ closes[i].seg.number = i - 1
           /\ PrevDigest(closes[i]) = IF i = 1 THEN None ELSE Digest(closes[i - 1])

-----------------------------------------------------------------------------
(* The key history of the organization *)

KeysetOf(records) == {records[i].new : i \in DOMAIN records}

(* Mutant of KeyHistoryVerifies: the old key of a rotation may be unknown. *)
AnyKeyHistoryVerifies(records) ==
    /\ records # <<>> /\ records[1].kind = "genesis"
    /\ \A i \in 2..Len(records) : records[i].kind # "genesis"

(* build_org_keyring does not raise.  A recovery is signed by its new key. *)
KeyHistoryVerifies(records) ==
    /\ records # <<>> /\ records[1].kind = "genesis"
    /\ \A i \in 2..Len(records) :
           /\ records[i].kind # "genesis"
           /\ records[i].kind = "rotation" =>
                  records[i].old \in KeysetOf(SubSeq(records, 1, i - 1))

(* buildKeyring of the web page: the same walk, but nobody asks whether    *)
(* there is a record at all.                                               *)
WebKeyHistoryVerifies(records) == records = <<>> \/ KeyHistoryVerifies(records)

ContinuityBreaks(records) == {i \in DOMAIN records : records[i].kind = "recovery"}

-----------------------------------------------------------------------------
(* Grouping and sorting *)

(* The elements of a set in the order of their keys, which differ. *)
InOrder(set, key) ==
    [i \in 1..Cardinality(set) |->
        CHOOSE x \in set : Cardinality({y \in set : key[y] < key[x]}) = i - 1]

BySequence(events) == InOrder(events, [e \in events |-> e.sequence])
ByNumber(closes) == InOrder(closes, [c \in closes |-> c.seg.number])

Chain(ev, s) == BySequence({e \in ev.events : e.seg = s})

HeldSegs(ev) == {e.seg : e \in ev.events}
ClosedSegs(ev) == {c.seg : c \in ev.closes}
CloseOf(ev, s) == CHOOSE c \in ev.closes : c.seg = s
ClosesOf(ev, w) == ByNumber({c \in ev.closes : c.seg.writer = w})

OfWriter(a, c) == a.writer = c.seg.writer
First(auths, c) == auths[SelectInSeq(auths, LAMBDA a : OfWriter(a, c))]
Latest(auths, c) == auths[SelectLastInSeq(auths, LAMBDA a : OfWriter(a, c))]
Authorized(auths, c) == \E i \in DOMAIN auths : OfWriter(auths[i], c)

-----------------------------------------------------------------------------
(* verification_report of engine.py, over what a store holds; the store     *)
(* trusts the keys of the organization's history.                          *)

ReportedClosed(ev, s) ==
    LET c == CloseOf(ev, s)
    IN  /\ Authorized(ev.auths, c)
        /\ CloseVerifies(c, Chain(ev, s), First(ev.auths, c), KeysetOf(ev.keys))

(* The closes of segments no event of which is held are left out. *)
ReportedCloses(ev, w) ==
    ByNumber({c \in ev.closes : c.seg.writer = w /\ c.seg \in HeldSegs(ev)})

MissingNumbers(closes) ==
    IF closes = <<>> THEN {}
    ELSE (closes[1].seg.number..closes[Len(closes)].seg.number)
             \ {closes[i].seg.number : i \in DOMAIN closes}

Continuity(closes) ==
    \A i \in 2..Len(closes) :
        /\ closes[i].seg.number = closes[i - 1].seg.number + 1
        /\ PrevDigest(closes[i]) = Digest(closes[i - 1])

Complete(ev) ==
    /\ \A s \in HeldSegs(ev) :
           /\ ChainVerifies(Chain(ev, s))
           /\ s \in ClosedSegs(ev) => ReportedClosed(ev, s)
    /\ \A w \in Writers :
           LET closes == ReportedCloses(ev, w)
           IN  MissingNumbers(closes) = {} /\ Continuity(closes)

-----------------------------------------------------------------------------
(* verify_spool of spool.py, with the authorization and the key set *)

SpoolVerifies(ev, w, a) ==
    /\ \A c \in ev.closes : c.seg.writer = w =>
           CloseVerifies(c, Chain(ev, c.seg), a, KeysetOf(ev.keys))
    /\ ClosesOf(ev, w) # <<>> => SequenceVerifies(ClosesOf(ev, w))
    /\ \A s \in HeldSegs(ev) \ ClosedSegs(ev) : s.writer = w => ChainVerifies(Chain(ev, s))

-----------------------------------------------------------------------------
(* verify_bundle of bundle.py *)

UnverifiedCloses(ev) ==
    {c \in ev.closes : ~Authorized(ev.auths, c) \/ c.seg \notin HeldSegs(ev)}

(* Mutant of FromZero: a run may begin anywhere. *)
FromAnywhere(closes) ==
    \A i \in DOMAIN closes : closes[i].seg.number = closes[1].seg.number + i - 1

FromZero(closes) == \A i \in DOMAIN closes : closes[i].seg.number = i - 1
PartialWriters(ev) == {w \in Writers : ~FromZero(ClosesOf(ev, w))}

(* Mutant of ReceiptVerifies: any close of the segment will do. *)
ReceiptTaken(ev, s) == s \in ClosedSegs(ev)

(* verify_anchor_receipt: the receipt is over the very bytes of the close. *)
ReceiptVerifies(ev, s) == Digest(CloseOf(ev, s)) = <<s, TRUE>>

AnchorsVerify(ev) ==
    \A s \in ev.anchors : s \in ClosedSegs(ev) /\ (ev.certs => ReceiptVerifies(ev, s))

Unanchored(ev) == ClosedSegs(ev) \ ev.anchors

(* It returns a summary instead of raising. *)
BundleVerifies(ev) ==
    /\ KeyHistoryVerifies(ev.keys)
    /\ \A i \in DOMAIN ev.auths : ev.auths[i].signer \in KeysetOf(ev.keys)
    /\ \A s \in HeldSegs(ev) : ChainVerifies(Chain(ev, s))
    /\ \A c \in ev.closes \ UnverifiedCloses(ev) :
           CloseVerifies(c, Chain(ev, c.seg), Latest(ev.auths, c), KeysetOf(ev.keys))
    /\ \A w \in Writers \ PartialWriters(ev) :
           ClosesOf(ev, w) # <<>> => SequenceVerifies(ClosesOf(ev, w))
    /\ AnchorsVerify(ev)

(* The summary discloses no gap but segments without a receipt. *)
NothingDisclosed(ev) == UnverifiedCloses(ev) = {} /\ PartialWriters(ev) = {}

(* verifyBundle of the web page: every line of the result is VERIFIED; it  *)
(* counts receipts and looks at none.                                      *)
WebVerifies(ev) ==
    /\ WebKeyHistoryVerifies(ev.keys)
    /\ \A i \in DOMAIN ev.auths : ev.auths[i].signer \in KeysetOf(ev.keys)
    /\ \A s \in HeldSegs(ev) : PairwiseChainVerifies(Chain(ev, s))
    /\ \A c \in ev.closes :
           /\ Authorized(ev.auths, c) /\ c.seg \in HeldSegs(ev)
           /\ PairwiseCloseVerifies(c, Chain(ev, c.seg), First(ev.auths, c), KeysetOf(ev.keys))
    /\ \A w \in Writers : ClosesOf(ev, w) # <<>> => SequenceFromZeroVerifies(ClosesOf(ev, w))
=============================================================================
