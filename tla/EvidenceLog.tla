---------------------------- MODULE EvidenceLog ----------------------------
(***************************************************************************)
(* What the spool of one writer promises, without files, caches or crashes *)
(* (spool.py, ADR-006, INV-001, SEGMENT-005): an append-only sequence of   *)
(* sealed segments followed by one open segment, of which the acknowledged *)
(* events are a part for ever.  Spool refines it.                          *)
(***************************************************************************)
EXTENDS Naturals, Sequences

CONSTANT Bodies          \* the events a program may record

VARIABLES
    sealed,              \* the closed segments, in closing order
    tail,                \* the events of the open segment
    acknowledged         \* <<segment, position>> of the acknowledged events

vars == <<sealed, tail, acknowledged>>

Here == <<Len(sealed) + 1, Len(tail)>>     \* the last recorded event

Init == sealed = <<>> /\ tail = <<>> /\ acknowledged = {}

(* An event becomes durable; its writer may die before it hears of it. *)
Record(b, heard) ==
    /\ tail' = Append(tail, b)
    /\ acknowledged' = IF heard THEN acknowledged \cup {Here'} ELSE acknowledged
    /\ UNCHANGED sealed

(* The open segment, which is never empty, is sealed as it stands. *)
Seal ==
    /\ tail # <<>>
    /\ sealed' = Append(sealed, tail)
    /\ tail' = <<>>
    /\ UNCHANGED acknowledged

Next == Seal \/ \E b \in Bodies, heard \in BOOLEAN : Record(b, heard)

Spec == Init /\ [][Next]_vars
=============================================================================
