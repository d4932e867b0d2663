----------------------------- MODULE Authority -----------------------------
(***************************************************************************)
(* evaluate_operation (authority.py) over an evidence set that grows event *)
(* by event: several writers record requests, executions and approvals of  *)
(* operations under one mandate, stamped by clocks nobody vouches for, and *)
(* an auditor who holds all or a part of them classifies every operation,  *)
(* the events of each sorted by (occurred_at, event_id) as cli.py does.    *)
(***************************************************************************)
EXTENDS Mandate

CONSTANTS
    Ops,           \* operation_ids
    Issued,        \* the mandates an operator writes
    Inputs,        \* actions with their parameters
    Studied,       \* bound: only under these mandates, which are not revoked,
    StudiedInputs, \* more than one event is recorded, with these inputs
    Times,         \* occurred_at
    DayLength,     \* instants of a UTC day
    Never,         \* no revocation
    Revocations,   \* when the mandate may be revoked, Never included
    MaxEvents      \* bound: events recorded

ASSUME AuthorityAssumption ==
    /\ Issued \subseteq Mandates /\ Studied \subseteq Issued
    /\ StudiedInputs \subseteq Inputs
    /\ Inputs \subseteq [action : Actions, params : [Paths -> Scalars]]
    /\ Times \subseteq Nat /\ DayLength \in Nat \ {0} /\ Never \notin Nat
    /\ Never \in Revocations /\ Revocations \subseteq Times \cup {Never}
    /\ MaxEvents \in Nat \ {0}

VARIABLES
    mandate,       \* the mandate, which validates
    evidence,      \* the events recorded
    revoked        \* when the mandate is revoked, or Never

vars == <<mandate, evidence, revoked>>

Types == {"action_requested", "action_executed", "approval_granted", "approval_denied"}

(* The action of requests and executions; an approval has none. *)
None == <<>>
IsMetadata(em) ==
    em = <<>> \/ \E entry \in ToSet(mandate.permitted) : em \in [entry.fields -> Scalars]

TypeOK ==
    /\ mandate \in Mandates
    /\ \A e \in evidence :
           /\ e.id \in 1..MaxEvents /\ e.op \in Ops /\ e.type \in Types /\ e.at \in Times
           /\ e.data # None => e.data.action \in Actions /\ IsMetadata(e.data.em)
    /\ \A e, f \in evidence : e.id = f.id => e = f
    /\ revoked \in Revocations

Day(e) == e.at \div DayLength
Before(e, f) == e.at < f.at \/ (e.at = f.at /\ e.id < f.id)
Of(ev, op, type) == {e \in ev : e.op = op /\ e.type = type}

-----------------------------------------------------------------------------
(* evaluate_operation *)

(* The first execution, or else the first request. *)
Primary(ev, op) ==
    LET executions == Of(ev, op, "action_executed")
        acts == IF executions # {} THEN executions ELSE Of(ev, op, "action_requested")
    IN  CHOOSE e \in acts : \A f \in acts : f = e \/ Before(e, f)

Executed(ev, op) == Of(ev, op, "action_executed") # {}
HasPrimary(ev, op) == Executed(ev, op) \/ Of(ev, op, "action_requested") # {}

(* The executions of the same action on the same day. *)
Peers(ev, e) ==
    {f \in ev : /\ f.type = "action_executed"
                /\ f.data.action = e.data.action
                /\ Day(f) = Day(e)}

(* Mutant of Position: the executions of the day are counted, later ones   *)
(* included.                                                               *)
PositionLast(peers, e) == Cardinality(peers) - 1

(* The index of e, from 0, among its peers sorted with Before. *)
Position(peers, e) == Cardinality({f \in peers : Before(f, e)})

(* Mutant of Tied: no tie is noticed. *)
NotTied(peers, e) == FALSE

(* The peer sorted just before e, if there is one, is of the same instant. *)
Tied(peers, e) == \E f \in peers : Before(f, e) /\ f.at = e.at

(* The mandate is in force. *)
InForce(e) ==
    e.at >= mandate.from /\ e.at < mandate.to /\ ~(revoked # Never /\ revoked <= e.at)

Unauthorized(e) ==
    \/ ~InForce(e)
    \/ e.data.action \in mandate.forbidden
    \/ e.data.action \notin PermittedActions(mandate)

Applies(c, e) == c.action \in {AnyAction, e.data.action}

(* Mutant of OverLimit: the limit itself may be exceeded by one. *)
OverLimitByOne(pos, limit) == pos > limit

OverLimit(pos, limit) == pos >= limit

CountVerdicts(ev, e) ==
    LET peers == Peers(ev, e)
    IN  {IF Tied(peers, e) THEN "ambiguous" ELSE "outside" :
            k \in {l \in mandate.counts :
                      Applies(l, e) /\ OverLimit(Position(peers, e), l.limit)}}

ConstraintVerdicts(e) ==
    LET results == {Eval(c, e.data.em) : c \in {d \in mandate.constraints : Applies(d, e)}}
    IN  (IF "violated" \in results THEN {"outside"} ELSE {})
            \cup IF "unknown" \in results THEN {"ambiguous"} ELSE {}

Granted(ev, e) == \E g \in Of(ev, e.op, "approval_granted") : g.at <= e.at
Denied(ev, op) == Of(ev, op, "approval_denied") # {}

(* Mutant of Absent: a missing approval counts against the operation,      *)
(* whether or not the evidence is complete.                                *)
AbsentAlways(complete) == {"outside"}

Absent(complete) == IF complete THEN {"outside"} ELSE {"ambiguous"}

ApprovalVerdicts(ev, e, complete) ==
    LET results == {Results(t, e.data.em) : t \in TriggersOf(mandate, e.data.action)}
    IN  (IF \E r \in results : "unknown" \in r THEN {"ambiguous"} ELSE {})
            \cup IF {"satisfied"} \notin results THEN {}
                 ELSE IF Denied(ev, e.op) THEN {"outside"}
                 ELSE IF Granted(ev, e) THEN {} ELSE Absent(complete)

Verdicts(ev, op, complete) ==
    LET e == Primary(ev, op)
    IN  (IF Unauthorized(e) THEN {"outside"} ELSE {})
            \cup ConstraintVerdicts(e)
            \cup IF Executed(ev, op)
                 THEN CountVerdicts(ev, e) \cup ApprovalVerdicts(ev, e, complete)
                 ELSE {}

Determination(ev, op, complete) ==
    IF ~HasPrimary(ev, op) THEN "ambiguous"
    ELSE IF "outside" \in Verdicts(ev, op, complete) THEN "outside"
    ELSE IF "ambiguous" \in Verdicts(ev, op, complete) THEN "ambiguous"
    ELSE "within"

-----------------------------------------------------------------------------
(* Recording *)

NextId == Cardinality(evidence) + 1

Record(op, type, at, data) ==
    /\ NextId <= IF mandate \in Studied THEN MaxEvents ELSE 1
    /\ evidence' = evidence \cup
           {[id |-> NextId, op |-> op, type |-> type, at |-> at, data |-> data]}
    /\ UNCHANGED <<mandate, revoked>>

(* The parameters themselves are recorded as a digest alone. *)
ActionData(input) ==
    [action |-> input.action, params |-> input.params,
     em |-> Extracted(mandate, input.action, input.params)]

Act(op, type) ==
    \E at \in Times, i \in IF mandate \in Studied THEN StudiedInputs ELSE Inputs :
        Record(op, type, at, ActionData(i))
Request(op) == Act(op, "action_requested")
Execute(op) == Act(op, "action_executed")

Approve(op) ==
    \E at \in Times, type \in {"approval_granted", "approval_denied"} :
        Record(op, type, at, None)

Init ==
    /\ mandate \in {m \in Issued : MandateValid(m)}
    /\ evidence = {}
    /\ revoked \in IF mandate \in Studied THEN {Never} ELSE Revocations

Next == \E op \in Ops : Request(op) \/ Execute(op) \/ Approve(op)

Spec == Init /\ [][Next]_vars

-----------------------------------------------------------------------------
(* Properties *)

(* max_count_per_utc_day, AUTH-008: whatever part of the evidence is held  *)
(* and however the clocks of its writers tie, no more operations of a day  *)
(* are within authority than the mandate lets execute.                     *)
LimitIsKept ==
    \A ev \in SUBSET evidence : \A e \in {f \in ev : f.type = "action_executed"} :
        \A k \in {l \in mandate.counts : Applies(l, e)} :
            Cardinality({op \in Ops :
                /\ Executed(ev, op) /\ Primary(ev, op).data.action = e.data.action
                /\ Day(Primary(ev, op)) = Day(e)
                /\ Determination(ev, op, TRUE) = "within"}) <= k.limit

(* What changes when the ids of the events of an instant are exchanged: of *)
(* an operation with one execution or one request, nothing at all, unless  *)
(* another execution of the action ties with its own; then it may become   *)
(* ambiguous, or be so no more, but what was within is not outside.        *)
(* AUTH-008 asks for more, see BoundaryExecutionsAreAmbiguous.             *)
Renamed(p) == {[e EXCEPT !.id = p[e.id]] : e \in evidence}
Ids == {e.id : e \in evidence}
Exchanges ==
    {p \in Bijection(Ids, Ids) : \A e, f \in evidence : p[e.id] = f.id => e.at = f.at}
SinglePrimary(op) ==
    \/ Cardinality(Of(evidence, op, "action_executed")) = 1
    \/ ~Executed(evidence, op) /\ Cardinality(Of(evidence, op, "action_requested")) = 1

Ties(e) == \E f \in Peers(evidence, e) \ {e} : f.at = e.at

TieOrderNeverAccuses ==
    \A op \in {o \in Ops : SinglePrimary(o)}, complete \in BOOLEAN, p \in Exchanges :
        /\ Determination(evidence, op, complete) = "within" =>
               Determination(Renamed(p), op, complete) # "outside"
        /\ ~Ties(Primary(evidence, op)) =>
               Determination(Renamed(p), op, complete) = Determination(evidence, op, complete)

(* AUTH-008: where an execution is within the limit of the day or beyond   *)
(* it depends on the clocks of its instant alone, so it is not within.     *)
BoundaryExecutionsAreAmbiguous ==
    \A op \in {o \in Ops : Executed(evidence, o)} :
        LET e == Primary(evidence, op)
            before == {f \in Peers(evidence, e) : f.at < e.at}
            upTo == {f \in Peers(evidence, e) : f.at <= e.at}
        IN  (\E k \in mandate.counts :
                 Applies(k, e) /\ k.limit \in (Cardinality(before) + 1)..(Cardinality(upTo) - 1))
            => Determination(evidence, op, TRUE) # "within"

(* AUTH-009: losing evidence accuses nobody.  An operation that the whole  *)
(* evidence puts within authority is not outside it on the part that is    *)
(* left, as long as that part is known to be one and has the operation's   *)
(* own requests and executions.                                            *)
LostEvidenceNeverAccuses ==
    \A op \in Ops : Determination(evidence, op, TRUE) = "within" =>
        \A ev \in SUBSET evidence :
            (\A type \in {"action_requested", "action_executed"} :
                 Of(ev, op, type) = Of(evidence, op, type))
                => Determination(ev, op, FALSE) # "outside"

(* What others do later rewrites no classification: an event changes the   *)
(* determination of no other operation whose own execution or request is   *)
(* of an earlier instant, wherever it comes among the rest.                *)
VerdictsAreStable ==
    [][\A e \in evidence' \ evidence : \A op \in Ops \ {e.op}, complete \in BOOLEAN :
           (HasPrimary(evidence, op) => Primary(evidence, op).at < e.at) =>
               Determination(evidence', op, complete) = Determination(evidence, op, complete)]_vars

(* No false alarm (AUTH-001 to AUTH-007): an agent that acts once, while   *)
(* mandate_status says "active" and no revocation stands, within its       *)
(* actions, its constraints and its daily limit, and waits for an approval *)
(* when approval_required asks it to, is within authority.                 *)
MayAct(e) ==
    LET required == ApprovalRequired(mandate, e.data.action, e.data.em)
    IN  \/ required = "no"
        \/ required = "yes" /\ ~Denied(evidence, e.op) /\
               \E g \in Of(evidence, e.op, "approval_granted") : g.at <= e.at

Obedient(op) ==
    LET executions == Of(evidence, op, "action_executed")
    IN  /\ Cardinality(executions) = 1
        /\ \A e \in executions :
               /\ MandateStatus(mandate, e.at) = "active"
               /\ revoked = Never \/ e.at < revoked
               /\ e.data.action \in PermittedActions(mandate)
               /\ \A c \in mandate.constraints : Applies(c, e) => Eval(c, e.data.em) = "satisfied"
               /\ \A k \in mandate.counts : Applies(k, e) =>
                      Cardinality({f \in evidence : f.type = "action_executed" /\ Day(f) = Day(e)})
                          <= k.limit
               /\ MayAct(e)

ObedientOperationsAreWithin ==
    \A op \in Ops : Obedient(op) => Determination(evidence, op, TRUE) = "within"

(* MANDATE-014: under a mandate that validates and lists each action once, *)
(* what a comparison about an action needs is extracted from every event   *)
(* of that action: only parameters that are absent or have no order leave  *)
(* it open.                                                                *)
ListsActionsOnce ==
    \A i, j \in DOMAIN mandate.permitted :
        mandate.permitted[i].action = mandate.permitted[j].action => i = j

About(a) ==
    {c \in mandate.constraints : c.action = a} \cup UNION {t.all : t \in TriggersOf(mandate, a)}

ValidMandatesAreEvaluable ==
    ListsActionsOnce =>
        \A e \in {f \in evidence : f.data # None} : \A c \in About(e.data.action) :
            Eval(c, e.data.em) = "unknown" => Incomparable(c.op, e.data.params[c.path])
=============================================================================
