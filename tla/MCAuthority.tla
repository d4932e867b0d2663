---------------------------- MODULE MCAuthority ----------------------------
(* Instances of Authority for TLC. *)
EXTENDS Authority

CONSTANTS o1, o2, o3, refund, wipe, amount, urgent

MCOps == {o1, o2, o3}
MCActions == {refund, wipe}
MCPaths == {amount, urgent}
MCTimes == 1..3
MCRevocations == {2, Never}
MCSymmetry == Permutations(MCOps)

Number(n) == [kind |-> "number", v |-> n]
True == [kind |-> "bool", v |-> 1]
Params(x, y) == [p \in MCPaths |-> IF p = amount THEN x ELSE y]

MCStudiedInputs ==
    [action : {refund}, params : {Params(Number(1), Null), Params(Number(2), Null)}]
        \cup [action : {wipe}, params : {Params(Null, Null)}]
MCInputs ==
    MCStudiedInputs \cup [action : {refund}, params : {Params(Null, Number(1)), Params(True, True)}]

Comparison(a, p, op, x) == [action |-> a, path |-> p, op |-> op, operand |-> x]

(* Refunds up to 2, one a day, and above 1 with an approval. *)
Usual ==
    [permitted |-> <<[action |-> refund, fields |-> {amount}]>>, forbidden |-> {wipe},
     constraints |-> {Comparison(refund, amount, "lte", {Number(2)})},
     counts |-> {[action |-> refund, limit |-> 1]},
     triggers |-> {[action |-> refund, all |-> {Comparison(AnyAction, amount, "gt", {Number(1)})}]},
     from |-> 1, to |-> 4]

(* Every way to list the fields of refunds, one constraint and one trigger, *)
(* in force for one instant.                                                *)
MCConditions ==
    {Comparison(a, p, op, x) :
        a \in {refund, AnyAction}, p \in MCPaths, op \in {"eq", "neq", "in", "lte", "gt"},
        x \in {{Number(1)}, {True}, {Number(1), True}}}

MCVariants ==
    {[Usual EXCEPT !.permitted = p, !.forbidden = f, !.constraints = {c}, !.triggers = t,
                   !.from = 2, !.to = 3] :
        p \in UNION {[1..n -> [action : {refund}, fields : SUBSET MCPaths]] : n \in 0..2},
        f \in {{wipe}, {refund}},
        c \in MCConditions,
        t \in {{}} \cup {{[action |-> refund, all |-> {Comparison(AnyAction, amount, "eq", {x})}]} :
                         x \in {Number(1), True}}}

MCStudied == {Usual}
MCIssued == MCStudied \cup MCVariants
=============================================================================
