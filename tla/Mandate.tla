------------------------------ MODULE Mandate ------------------------------
(***************************************************************************)
(* The authority part of a mandate: what validate.py accepts, what an      *)
(* EvidenceWriter extracts from the parameters of an action (spool.py,     *)
(* pointer.py), and how comparisons and approval triggers are evaluated    *)
(* over the extracted values (authority.py).                               *)
(*                                                                         *)
(* A JSON scalar is told by its kind and a number; numbers are integers.   *)
(* The operand of a comparison is the set of the scalars it lists, one     *)
(* unless the operator is "in".                                            *)
(***************************************************************************)
EXTENDS Naturals, FiniteSets, SequencesExt

CONSTANTS
    Actions,       \* action names
    AnyAction,     \* a constraint without "action"
    Paths          \* JSON pointers into the parameters of an action

ASSUME AnyActionAssumption == AnyAction \notin Actions

Scalars == [kind : {"null", "bool", "number", "text"}, v : Nat]
Null == [kind |-> "null", v |-> 0]

Orderings == {"lt", "lte", "gt", "gte"}
Operators == {"eq", "neq", "in"} \cup Orderings

Entries == [action : Actions, fields : SUBSET Paths]
Comparisons ==
    [action : Actions \cup {AnyAction}, path : Paths, op : Operators, operand : SUBSET Scalars]
Counts == [action : Actions \cup {AnyAction}, limit : Nat]
Triggers == [action : Actions, all : SUBSET Comparisons]

(* "from" and "to" are validity.not_before and validity.not_after. *)
Mandates ==
    [permitted : Seq(Entries), forbidden : SUBSET Actions, constraints : SUBSET Comparisons,
     counts : SUBSET Counts, triggers : SUBSET Triggers, from : Nat, to : Nat]

PermittedActions(m) == {m.permitted[i].action : i \in DOMAIN m.permitted}

(* An action may have several entries. *)
FirstEntry(m, a) == m.permitted[SelectInSeq(m.permitted, LAMBDA e : e.action = a)]
LastEntry(m, a) == m.permitted[SelectLastInSeq(m.permitted, LAMBDA e : e.action = a)]

-----------------------------------------------------------------------------
(* validate_object(_, "mandate") *)

(* What the schema asks of an operand, and MANDATE-015 of that of "in". *)
OperandValid(c) ==
    /\ c.op # "in" => Cardinality(c.operand) = 1
    /\ c.op = "in" => c.operand # {} /\ Cardinality({x.kind : x \in c.operand}) = 1
                                     /\ Null \notin c.operand
    /\ c.op \in Orderings => \A x \in c.operand : x.kind = "number"

(* Mutant of PathValid: the path may be any. *)
AnyPathValid(m, c, a) == a = AnyAction \/ a \in PermittedActions(m)

(* MANDATE-014, for a comparison about action a. *)
PathValid(m, c, a) ==
    a # AnyAction => a \in PermittedActions(m) /\ c.path \in LastEntry(m, a).fields

MandateValid(m) ==
    /\ PermittedActions(m) \cap m.forbidden = {}
    /\ \A c \in m.constraints : OperandValid(c) /\ PathValid(m, c, c.action)
    /\ \A k \in m.counts : k.action \in PermittedActions(m) \cup {AnyAction}
    /\ \A t \in m.triggers :
           t.all # {} /\ \A c \in t.all : OperandValid(c) /\ PathValid(m, c, t.action)
    /\ m.from < m.to

(* mandate_status *)
MandateStatus(m, at) ==
    IF at < m.from THEN "not_yet_valid" ELSE IF at >= m.to THEN "expired" ELSE "active"

-----------------------------------------------------------------------------
(* extract_evaluation_metadata; a pointer that leads nowhere gives null. *)

(* Mutant of Extracted: every parameter is recorded. *)
ExtractedAll(m, a, params) == params

Extracted(m, a, params) ==
    IF a \in PermittedActions(m) THEN [p \in FirstEntry(m, a).fields |-> params[p]] ELSE <<>>

-----------------------------------------------------------------------------
(* Comparisons *)

(* Python's ==, for which True is 1. *)
Same(x, y) ==
    x.v = y.v /\ (x.kind = y.kind \/ {x.kind, y.kind} = {"bool", "number"})

Relates(op, x, operand) ==
    \/ op \in {"eq", "in"} /\ \E y \in operand : Same(x, y)
    \/ op = "neq" /\ \A y \in operand : ~Same(x, y)
    \/ \E y \in operand : \/ op = "lt" /\ x.v < y.v
                          \/ op = "lte" /\ x.v <= y.v
                          \/ op = "gt" /\ x.v > y.v
                          \/ op = "gte" /\ x.v >= y.v

(* An absent value, or one that has no order. *)
Incomparable(op, x) == x = Null \/ (op \in Orderings /\ x.kind # "number")

Compare(op, x, operand) ==
    IF Incomparable(op, x) THEN "unknown"
    ELSE IF Relates(op, x, operand) THEN "satisfied" ELSE "violated"

(* _eval_comparison, over the evaluation_metadata of an event. *)
Eval(c, em) ==
    IF c.path \in DOMAIN em THEN Compare(c.op, em[c.path], c.operand) ELSE "unknown"

Results(t, em) == {Eval(c, em) : c \in t.all}
TriggersOf(m, a) == {t \in m.triggers : t.action = a}

(* Mutant of ApprovalRequired: what cannot be evaluated does not fire. *)
ApprovalRequiredIfKnown(m, a, em) ==
    IF \E t \in TriggersOf(m, a) : Results(t, em) = {"satisfied"} THEN "yes" ELSE "no"

(* approval_required, for the program that is about to act. *)
ApprovalRequired(m, a, em) ==
    IF \E t \in TriggersOf(m, a) : "unknown" \in Results(t, em) THEN "unknown"
    ELSE IF \E t \in TriggersOf(m, a) : Results(t, em) = {"satisfied"} THEN "yes" ELSE "no"
=============================================================================
