------------------------------ MODULE MCSpool ------------------------------
(* Instances of Spool for TLC: three bodies, the last of a later day. *)
EXTENDS Spool

CONSTANTS b1, b2, b3

MCBodies == {b1, b2, b3}
MCDays == 1..2
MCOccurredDay == [b \in MCBodies |-> IF b = b3 THEN 2 ELSE 1]

(* Power losses alone; crashes of every kind; broken logs. *)
MCFaultSets == {{"power"}, {"kill", "power", "dirsync"}, {"kill", "short", "fsync"}}
MCFailingSync == {{"power", "fsync"}}
=============================================================================
