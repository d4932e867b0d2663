---------------------------- MODULE MCIdentity ----------------------------
(* Instances of Identity for TLC: two processes of one agent, one of another. *)
EXTENDS Identity

CONSTANTS p1, p2, p3, a1, a2

MCProcs == {p1, p2, p3}
MCAgents == {a1, a2}
MCAgentOf == [p \in MCProcs |-> IF p = p3 THEN a2 ELSE a1]
=============================================================================
