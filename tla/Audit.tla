------------------------------- MODULE Audit -------------------------------
(***************************************************************************)
(* An organization records evidence; a copy of it (a store, a spool, a     *)
(* bundle) is handed over, loses parts or is damaged, and is then verified *)
(* by the verifiers of module Verification.                                *)
(***************************************************************************)
EXTENDS Verification

CONSTANTS
    MaxRecorded,   \* bound: events recorded in all
    MaxAuths,      \* bound: authorizations issued
    MaxAnchors,    \* bound: closes stamped
    StampedKeys,   \* bound: keys of a history with stamped closes
    RenewedKeys,   \* bound: keys of a history with renewed authorizations
    MaxDamage      \* bound: parts lost or damaged

ASSUME AuditBounds ==
    {MaxRecorded, MaxAuths, MaxAnchors, StampedKeys, RenewedKeys, MaxDamage} \subseteq Nat

VARIABLES
    truth,         \* what was recorded
    held,          \* what the verifiers get
    handed,        \* the copy has been made
    damage         \* parts of it lost or damaged so far

vars == <<truth, held, handed, damage>>

Nothing ==
    [events |-> {}, closes |-> {}, auths |-> <<>>, keys |-> <<>>, anchors |-> {}, certs |-> TRUE]

TypeOK ==
    /\ truth \in Evidence /\ held \in Evidence
    /\ handed \in BOOLEAN
    /\ damage \in 0..MaxDamage

EventsOf(ev, s) == {e \in ev.events : e.seg = s}
Numbers(ev, w) == {c.seg.number : c \in {d \in ev.closes : d.seg.writer = w}}
OpenSeg(w) == [writer |-> w, number |-> Cardinality(Numbers(truth, w))]
ActiveKey == truth.keys[Len(truth.keys)].new

-----------------------------------------------------------------------------
(* Recording *)

Record(w) ==
    LET n == Cardinality(EventsOf(truth, OpenSeg(w)))
    IN  /\ OpenSeg(w) \in Segs /\ n < MaxEvents
        /\ Cardinality(truth.events) < MaxRecorded
        /\ truth' = [truth EXCEPT !.events =
                        @ \cup {[seg |-> OpenSeg(w), sequence |-> n, intact |-> TRUE]}]

(* Mutant of Close: the count is that of the next sequence. *)
CloseOneMore(w, day) ==
    LET n == Cardinality(EventsOf(truth, OpenSeg(w)))
    IN  /\ n > 0
        /\ truth' = [truth EXCEPT !.closes =
                        @ \cup {[seg |-> OpenSeg(w), count |-> n + 1, day |-> day,
                                 intact |-> TRUE]}]

(* The record is signed at whatever the clock of the writer says. *)
Close(w, day) ==
    LET n == Cardinality(EventsOf(truth, OpenSeg(w)))
    IN  /\ n > 0
        /\ truth' = [truth EXCEPT !.closes =
                        @ \cup {[seg |-> OpenSeg(w), count |-> n, day |-> day,
                                 intact |-> TRUE]}]

Authorize(w) ==
    /\ Len(truth.auths) < MaxAuths
    /\ truth.auths # <<>> => Len(truth.keys) <= RenewedKeys
    /\ \E from, to \in Days :
           /\ from <= to
           /\ truth' = [truth EXCEPT !.auths =
                  Append(@, [writer |-> w, from |-> from, to |-> to, signer |-> ActiveKey])]

(* By the active key, or without it. *)
NewKey(kind) ==
    /\ ActiveKey + 1 \in Keys
    /\ truth.anchors # {} => Len(truth.keys) < StampedKeys
    /\ Len(truth.auths) > 1 => Len(truth.keys) < RenewedKeys
    /\ truth' = [truth EXCEPT !.keys =
                    Append(@, [kind |-> kind, old |-> ActiveKey, new |-> ActiveKey + 1])]

(* A receipt is verified before it is kept. *)
Anchor(s) ==
    /\ Cardinality(truth.anchors) < MaxAnchors /\ Len(truth.keys) <= StampedKeys
    /\ s \notin truth.anchors
    /\ truth' = [truth EXCEPT !.anchors = @ \cup {s}]

Recording ==
    /\ ~handed
    /\ \/ \E w \in Writers : Record(w) \/ Authorize(w) \/ \E day \in Days : Close(w, day)
       \/ \E kind \in {"rotation", "recovery"} : NewKey(kind)
       \/ \E s \in ClosedSegs(truth) : Anchor(s)
    /\ UNCHANGED <<held, handed, damage>>

HandOver ==
    /\ ~handed
    /\ handed' = TRUE
    /\ held' = truth
    /\ UNCHANGED <<truth, damage>>

-----------------------------------------------------------------------------
(* Loss and damage *)

LoseEvent == \E e \in held.events : held' = [held EXCEPT !.events = @ \ {e}]
LoseClose == \E c \in held.closes : held' = [held EXCEPT !.closes = @ \ {c}]

AlterEvent ==
    \E e \in held.events :
        /\ e.intact
        /\ held' = [held EXCEPT !.events = (@ \ {e}) \cup {[e EXCEPT !.intact = FALSE]}]

AlterClose ==
    \E c \in held.closes :
        /\ c.intact
        /\ held' = [held EXCEPT !.closes = (@ \ {c}) \cup {[c EXCEPT !.intact = FALSE]}]

LoseSegment ==
    \E s \in HeldSegs(held) :
        held' = [held EXCEPT !.events = @ \ EventsOf(held, s),
                             !.closes = {c \in @ : c.seg # s},
                             !.anchors = @ \ {s}]

LoseAuth == \E i \in DOMAIN held.auths : held' = [held EXCEPT !.auths = RemoveAt(@, i)]
LoseKey == \E i \in DOMAIN held.keys : held' = [held EXCEPT !.keys = RemoveAt(@, i)]
LoseAnchor == \E s \in held.anchors : held' = [held EXCEPT !.anchors = @ \ {s}]
(* Certificates matter to receipts alone. *)
LoseCerts == held.certs /\ held.anchors # {} /\ held' = [held EXCEPT !.certs = FALSE]

Damage ==
    /\ handed /\ damage < MaxDamage
    /\ damage' = damage + 1
    /\ \/ LoseEvent \/ LoseClose \/ LoseSegment \/ LoseAuth \/ LoseKey
       \/ LoseAnchor \/ LoseCerts \/ AlterEvent \/ AlterClose
    /\ UNCHANGED <<truth, handed>>

-----------------------------------------------------------------------------
Init ==
    /\ truth = [Nothing EXCEPT !.keys = <<[kind |-> "genesis", old |-> 1, new |-> 1]>>]
    /\ held = Nothing
    /\ handed = FALSE
    /\ damage = 0

Next == Recording \/ HandOver \/ Damage

Spec == Init /\ [][Next]_vars

-----------------------------------------------------------------------------
(* Properties *)

(* Every close is covered, whichever authorization a verifier picks. *)
AllCover(ev) ==
    \A c \in ev.closes :
        /\ Authorized(ev.auths, c)
        /\ \A i \in DOMAIN ev.auths : OfWriter(ev.auths[i], c) => Covers(ev.auths[i], c)

(* What was recorded and arrives whole is verified by every verifier, at   *)
(* any time, after any rotation or recovery of the organization's key: no  *)
(* honest history is refused (INV-012, KEY-007).                           *)
WholeEvidenceVerifies ==
    handed /\ held = truth /\ AllCover(held) =>
        /\ Complete(held)
        /\ BundleVerifies(held) /\ NothingDisclosed(held)
        /\ WebVerifies(held)
        /\ \A w \in Writers : \A i \in DOMAIN held.auths :
               held.auths[i].writer = w => SpoolVerifies(held, w, held.auths[i])

(* A closed segment of which anything is held is there as it was signed,   *)
(* nothing held is altered, and events are missing at the ends of an open  *)
(* segment alone.                                                          *)
SegmentsAreWhole(ev) ==
    /\ \A e \in ev.events : e.intact
    /\ \A c \in ev.closes : c.seg \in HeldSegs(ev) =>
           c.intact /\ EventsOf(ev, c.seg) = EventsOf(truth, c.seg)
    /\ \A e, f \in ev.events : \A n \in e.sequence..f.sequence :
           e.seg = f.seg => \E g \in ev.events : g.seg = e.seg /\ g.sequence = n

(* INV-014: a report that says "complete" hides no damage and no hole      *)
(* between two closed segments of a writer.                                *)
CompleteReportsAreSound ==
    handed /\ Complete(held) =>
        /\ SegmentsAreWhole(held)
        /\ \A c, d \in held.closes : \A n \in c.seg.number..d.seg.number :
               c.seg \in HeldSegs(held) /\ d.seg \in HeldSegs(held)
               /\ c.seg.writer = d.seg.writer => n \in Numbers(held, c.seg.writer)

(* BUNDLE-004, INV-014: a bundle that verifies and discloses nothing has   *)
(* all of its closed segments, from the first one of each writer on, each  *)
(* under an authorization of a key of the organization's history.          *)
BundlesAreSound ==
    handed /\ BundleVerifies(held) /\ NothingDisclosed(held) =>
        /\ SegmentsAreWhole(held)
        /\ \A c \in held.closes :
               /\ EventsOf(held, c.seg) = EventsOf(truth, c.seg)
               /\ \A n \in 0..c.seg.number : n \in Numbers(held, c.seg.writer)
               /\ \E i \in DOMAIN held.auths :
                      /\ Covers(held.auths[i], c)
                      /\ held.auths[i].signer \in KeysetOf(held.keys)

(* Where a writer has several authorizations, it does not matter which of  *)
(* them a verifier picks.                                                  *)
PicksAgree(ev) ==
    \A c \in ev.closes :
        Authorized(ev.auths, c) => Covers(First(ev.auths, c), c) = Covers(Latest(ev.auths, c), c)

(* INV-002: given the same artifacts the Python, Go and web verifiers come *)
(* to the same verdict on chains, on close chains that begin at zero and,  *)
(* if every receipt verifies and the picked authorizations agree, on       *)
(* bundles with a key history: the web page fails one when the Python      *)
(* verifier raises or discloses a gap other than missing receipts.         *)
(* Without any key record the Python verifier raises and the web page does *)
(* not: it verifies open segments, but nothing that a key has signed.      *)
VerifiersAgree ==
    handed =>
        /\ \A s \in HeldSegs(held) :
               ChainVerifies(Chain(held, s)) = PairwiseChainVerifies(Chain(held, s))
        /\ \A w \in Writers :
               FromZero(ClosesOf(held, w)) =>
                   SequenceVerifies(ClosesOf(held, w)) =
                       SequenceFromZeroVerifies(ClosesOf(held, w))
        /\ held.keys = <<>> =>
               /\ ~BundleVerifies(held)
               /\ WebVerifies(held) => held.auths = <<>> /\ held.closes = {}
        /\ held.keys # <<>> /\ PicksAgree(held) /\ AnchorsVerify(held)
               => WebVerifies(held) = (BundleVerifies(held) /\ NothingDisclosed(held))

(* ANCHOR-007, INV-014: in a bundle that verifies and has the certificates *)
(* of its timestamping authority, a segment that is not disclosed as       *)
(* unanchored has the close that was stamped, even if its events are gone, *)
(* and what is held of its events is all of them; no stamped close is lost *)
(* unnoticed.                                                              *)
AnchoredSegmentsAreGenuine ==
    handed /\ held.certs /\ held.anchors # {} /\ BundleVerifies(held) =>
        \A s \in held.anchors \cup (ClosedSegs(held) \ Unanchored(held)) :
            /\ CloseOf(truth, s) \in held.closes
            /\ s \in HeldSegs(held) /\ CloseOf(held, s) \notin UnverifiedCloses(held) =>
                   EventsOf(held, s) = EventsOf(truth, s)

(* KEY-006, INV-021: where an accepted key history lacks a record, the     *)
(* next one it has is a disclosed break of continuity.                     *)
KeyGapsAreDisclosed ==
    handed /\ KeyHistoryVerifies(held.keys) =>
        \A i \in 2..Len(held.keys) :
            held.keys[i].old # held.keys[i - 1].new => i \in ContinuityBreaks(held.keys)

(* INV-023, SEGMENT-010: verification detects a missing closed segment of  *)
(* a writer's history.                                                     *)
MissingSegmentsAreDetected ==
    handed /\ Complete(held) =>
        \A c \in held.closes : \A n \in 0..c.seg.number :
            c.seg \in HeldSegs(held) => n \in Numbers(held, c.seg.writer)
=============================================================================
