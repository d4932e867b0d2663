------------------------------ MODULE Findings ------------------------------
(***************************************************************************)
(* cmd_verify_bundle of cli.py: the operations of a bundle that verifies   *)
(* are judged by evaluate_operation of module Authority, with a coverage   *)
(* flag taken from the bundle's summary.  The copies are those of Audit.   *)
(***************************************************************************)
EXTENDS Audit

(* A mandate under which refunds need an approval. *)
Approved ==
    [permitted |-> <<[action |-> "refund", fields |-> {"amount"}]>>, forbidden |-> {},
     constraints |-> {}, counts |-> {},
     triggers |-> {[action |-> "refund",
                    all |-> {[action |-> "any", path |-> "amount", op |-> "gt",
                              operand |-> {[kind |-> "number", v |-> 0]}]}]},
     from |-> 1, to |-> 3]

A == INSTANCE Authority WITH
         Actions <- {"refund"}, AnyAction <- "any", Paths <- {"amount"}, Ops <- {"o"},
         Issued <- {Approved}, Studied <- {}, Inputs <- {}, StudiedInputs <- {},
         Times <- {1, 2}, DayLength <- 3, Never <- "never", Revocations <- {"never"},
         MaxEvents <- 2, mandate <- Approved, evidence <- {}, revoked <- "never"

(* The approval of an operation, and its execution afterwards. *)
Approval == [id |-> 1, op |-> "o", type |-> "approval_granted", at |-> 1, data |-> <<>>]
Execution ==
    [id |-> 2, op |-> "o", type |-> "action_executed", at |-> 2,
     data |-> [action |-> "refund", params |-> <<>>,
               em |-> [p \in {"amount"} |-> [kind |-> "number", v |-> 1]]]]

(* The operation's events in a copy, were they recorded at places p and q. *)
OperationEvents(ev, p, q) ==
    LET places == {Hash(e) : e \in ev.events}
    IN  (IF p \in places THEN {Approval} ELSE {})
            \cup IF q \in places THEN {Execution} ELSE {}

(* Mutant of Coverage: partial close chains do not count. *)
CoverageOfCloses(ev) == UnverifiedCloses(ev) = {}

Coverage(ev) == UnverifiedCloses(ev) = {} /\ PartialWriters(ev) = {}

Finding(ev, p, q) == A!Determination(OperationEvents(ev, p, q), "o", Coverage(ev))

(* AUTH-009: a lost approval accuses nobody.  Wherever an organization has *)
(* recorded the approval and the execution of an operation, and the        *)
(* approval is lost, a bundle that verifies puts the operation outside     *)
(* authority only if it has no close of the approval's segment nor of a    *)
(* later one of its writer: neither closes without events nor holes in the *)
(* chain of closes nor truncated segments lead to it.                      *)
AccusationsAreGrounded ==
    LET lost == {e \in truth.events :
                    /\ \A f \in held.events : Hash(f) # Hash(e)
                    /\ \E c \in held.closes :
                           c.seg.writer = e.seg.writer /\ c.seg.number >= e.seg.number}
    IN  handed /\ lost # {} /\ BundleVerifies(held) =>
            \A e \in lost, f \in truth.events :
                e # f => Finding(held, Hash(e), Hash(f)) # "outside"
=============================================================================
