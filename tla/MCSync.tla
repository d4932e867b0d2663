------------------------------- MODULE MCSync -------------------------------
(* Instances of Sync for TLC. *)
EXTENDS Sync

CONSTANTS b1, b2, b3, p1, p2

MCBodies == {b1, b2, b3}
MCTwoBodies == {b1, b2}
MCOneBody == {b1}
MCOneSyncer == {p1}
MCTwoSyncers == {p1, p2}

MCSymmetry == Permutations(MCTwoBodies)

MCOneDay == {1}
MCTwoDays == 1..2
MCFirst == <<[from |-> 1, to |-> 1]>>
MCSecond == <<[from |-> 2, to |-> 2]>>
MCOneAuth == [p \in MCOneSyncer |-> {MCFirst}]
MCRenewal == [p \in MCOneSyncer |-> {MCFirst, MCSecond}]
MCOneOfTwo == [p \in MCTwoSyncers |-> {IF p = p1 THEN MCFirst ELSE <<>>}]
=============================================================================
