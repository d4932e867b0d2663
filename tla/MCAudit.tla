------------------------------ MODULE MCAudit ------------------------------
(* Instances of Audit for TLC. *)
EXTENDS Findings

CONSTANT w1

MCOneWriter == {w1}
MCOneDay == {1}
MCTwoDays == 1..2
=============================================================================
