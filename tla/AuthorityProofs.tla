-------------------------- MODULE AuthorityProofs --------------------------
(***************************************************************************)
(* Theorems about evaluate_operation (Authority), for any mandate that     *)
(* validates, any operations, clocks and any part of the evidence.         *)
(***************************************************************************)
EXTENDS Authority, TLAPS, FiniteSetTheorems, WellFoundedInduction

-----------------------------------------------------------------------------
(* Finite sets. *)

(* Every nonempty set of naturals has a least element. *)
LEMMA Least ==
    ASSUME NEW T \in SUBSET Nat, T # {}
    PROVE  \E x \in T : \A y \in T : x <= y
<1>1. PICK x \in T : \A y \in T : <<y, x>> \notin OpToRel(<, Nat)
    BY NatLessThanWellFounded, WFMin
<1>2. \A y \in T : ~(y < x)
    BY <1>1 DEF OpToRel
<1> QED BY <1>2

(* Fewer events, fewer or as many of any kind. *)
LEMMA PartsAreSmaller ==
    ASSUME NEW S, IsFiniteSet(S), NEW T, NEW U, T \subseteq U, U \subseteq S
    PROVE  /\ IsFiniteSet(T) /\ IsFiniteSet(U)
           /\ Cardinality(T) \in Nat /\ Cardinality(U) \in Nat
           /\ Cardinality(T) <= Cardinality(U)
<1>1. IsFiniteSet(U)
    BY FS_Subset
<1>2. IsFiniteSet(T) /\ Cardinality(T) <= Cardinality(U)
    BY <1>1, FS_Subset
<1> QED BY <1>1, <1>2, FS_CardinalityType

(* Without the induction theorems that take an operator: the images of the *)
(* elements of a finite set under a function.                              *)
LEMMA ImagesAreFewer ==
    ASSUME NEW S, IsFiniteSet(S), NEW f, DOMAIN f = S, f = [x \in S |-> f[x]]
    PROVE  LET T == {f[x] : x \in S}
           IN  /\ IsFiniteSet(T) /\ Cardinality(T) \in Nat /\ Cardinality(S) \in Nat
               /\ Cardinality(T) <= Cardinality(S)
<1> DEFINE T == {f[x] : x \in S}
<1>1. f \in Surjection(S, T)
    BY DEF Surjection
<1> HIDE DEF T
<1>2. IsFiniteSet(T) /\ Cardinality(T) <= Cardinality(S)
    BY <1>1, FS_Surjection
<1> QED BY <1>2, FS_CardinalityType DEF T

(* Elements that a function tells apart. *)
LEMMA NoMoreThanImages ==
    ASSUME NEW S, NEW T, IsFiniteSet(T), NEW f \in [S -> T],
           \A x, y \in S : f[x] = f[y] => x = y
    PROVE  /\ IsFiniteSet(S)
           /\ Cardinality(S) \in Nat /\ Cardinality(T) \in Nat
           /\ Cardinality(S) <= Cardinality(T)
<1>1. f \in Injection(S, T)
    BY DEF Injection, IsInjective
<1> QED BY <1>1, FS_Injection, FS_CardinalityType

-----------------------------------------------------------------------------
(* Events, ordered by (occurred_at, event_id). *)

(* Events that (occurred_at, event_id) puts in order. *)
Ordered(ev) ==
    /\ IsFiniteSet(ev)
    /\ \A e \in ev : e.at \in Nat /\ e.id \in Nat
    /\ \A e, f \in ev : e.id = f.id => e = f

LEMMA PartsOrdered ==
    ASSUME NEW ev, Ordered(ev), NEW part, part \subseteq ev
    PROVE  Ordered(part)
BY FS_Subset DEF Ordered

LEMMA BeforeOrders ==
    ASSUME NEW ev, Ordered(ev)
    PROVE  /\ \A e \in ev : ~Before(e, e)
           /\ \A e, f \in ev : e = f \/ Before(e, f) \/ Before(f, e)
           /\ \A e, f \in ev : Before(e, f) => ~Before(f, e)
           /\ \A e, f, g \in ev : Before(e, f) /\ Before(f, g) => Before(e, g)
BY DEF Ordered, Before

(* There is a first of them. *)
LEMMA FirstExists ==
    ASSUME NEW ev, Ordered(ev), ev # {}
    PROVE  \E e \in ev : \A f \in ev : f = e \/ Before(e, f)
<1> DEFINE Ats == {e.at : e \in ev}
<1>1. PICK a \in Ats : \A b \in Ats : a <= b
    <2>1. Ats \in SUBSET Nat /\ Ats # {}
        BY DEF Ordered
    <2> HIDE DEF Ats
    <2> QED BY <2>1, Least
<1> DEFINE FirstIds == {e.id : e \in {f \in ev : f.at = a}}
<1>2. PICK i \in FirstIds : \A j \in FirstIds : i <= j
    <2>1. FirstIds \in SUBSET Nat /\ FirstIds # {}
        BY <1>1 DEF Ordered
    <2> HIDE DEF FirstIds
    <2> QED BY <2>1, Least
<1>3. PICK e \in ev : e.at = a /\ e.id = i
    BY <1>2
<1>4. ASSUME NEW f \in ev
      PROVE  f = e \/ Before(e, f)
    <2>1. a <= f.at /\ (f.at = a => i <= f.id) /\ f.at \in Nat /\ f.id \in Nat
        BY <1>1, <1>2 DEF Ordered
    <2>2. e.at \in Nat /\ e.id \in Nat /\ (f.id = e.id => f = e)
        BY DEF Ordered
    <2> QED BY <1>3, <2>1, <2>2 DEF Before
<1> QED BY <1>4

-----------------------------------------------------------------------------
(* evaluate_operation *)

Acts(ev, op) ==
    IF Executed(ev, op) THEN Of(ev, op, "action_executed") ELSE Of(ev, op, "action_requested")

LEMMA PrimaryIs ==
    ASSUME NEW ev, Ordered(ev), NEW op, HasPrimary(ev, op)
    PROVE  /\ Primary(ev, op) \in Acts(ev, op) /\ Primary(ev, op) \in ev
           /\ Primary(ev, op).op = op
           /\ Executed(ev, op) => Primary(ev, op).type = "action_executed"
           /\ \A f \in Acts(ev, op) : f = Primary(ev, op) \/ Before(Primary(ev, op), f)
<1>1. Acts(ev, op) # {} /\ Acts(ev, op) \subseteq ev
    BY DEF HasPrimary, Executed, Acts, Of
<1>2. Ordered(Acts(ev, op))
    BY <1>1, PartsOrdered
<1>3. \E e \in Acts(ev, op) : \A f \in Acts(ev, op) : f = e \/ Before(e, f)
    BY <1>1, <1>2, FirstExists
<1>4. Primary(ev, op) =
          CHOOSE e \in Acts(ev, op) : \A f \in Acts(ev, op) : f = e \/ Before(e, f)
    BY DEF Primary, Acts, Executed
<1>5. /\ Primary(ev, op) \in Acts(ev, op)
      /\ \A f \in Acts(ev, op) : f = Primary(ev, op) \/ Before(Primary(ev, op), f)
    BY <1>3, <1>4
<1> QED BY <1>1, <1>5 DEF Acts, Of

LEMMA PeersAreEvents ==
    ASSUME NEW ev, Ordered(ev), NEW e
    PROVE  /\ Peers(ev, e) \subseteq ev /\ IsFiniteSet(Peers(ev, e))
           /\ IsFiniteSet({f \in Peers(ev, e) : Before(f, e)})
           /\ Position(Peers(ev, e), e) \in Nat
<1>1. {f \in Peers(ev, e) : Before(f, e)} \subseteq Peers(ev, e) /\ Peers(ev, e) \subseteq ev
    BY DEF Peers
<1>2. IsFiniteSet(ev)
    BY DEF Ordered
<1> QED BY <1>1, <1>2, PartsAreSmaller DEF Position

(* What is within authority has no verdict against it. *)
LEMMA WithinIs ==
    ASSUME NEW ev, NEW op, NEW complete
    PROVE  Determination(ev, op, complete) = "within" <=>
               HasPrimary(ev, op) /\ "outside" \notin Verdicts(ev, op, complete)
                   /\ "ambiguous" \notin Verdicts(ev, op, complete)
BY DEF Determination

LEMMA OutsideIs ==
    ASSUME NEW ev, NEW op, NEW complete
    PROVE  Determination(ev, op, complete) = "outside" <=>
               HasPrimary(ev, op) /\ "outside" \in Verdicts(ev, op, complete)
BY DEF Determination

(* The count speaks up when, and only when, a limit is exceeded. *)
LEMMA CountVerdictsAre ==
    ASSUME NEW ev, NEW e
    PROVE  LET peers == Peers(ev, e)
               exceeded == \E k \in mandate.counts :
                               Applies(k, e) /\ OverLimit(Position(peers, e), k.limit)
           IN  /\ "outside" \in CountVerdicts(ev, e) <=> exceeded /\ ~Tied(peers, e)
               /\ "ambiguous" \in CountVerdicts(ev, e) <=> exceeded /\ Tied(peers, e)
<1> DEFINE peers == Peers(ev, e)
           over == {l \in mandate.counts : Applies(l, e) /\ OverLimit(Position(peers, e), l.limit)}
           v == IF Tied(peers, e) THEN "ambiguous" ELSE "outside"
<1>1. CountVerdicts(ev, e) = {v : k \in over}
    BY DEF CountVerdicts
<1>2. over # {} <=> \E k \in mandate.counts :
                        Applies(k, e) /\ OverLimit(Position(peers, e), k.limit)
    OBVIOUS
<1> HIDE DEF over
<1>3. \A x : x \in CountVerdicts(ev, e) <=> over # {} /\ x = v
    BY <1>1
<1> QED BY <1>2, <1>3

-----------------------------------------------------------------------------
(* Recording *)

IsEvent(e) == e = [id |-> e.id, op |-> e.op, type |-> e.type, at |-> e.at, data |-> e.data]

EvidenceInv ==
    /\ TypeOK
    /\ IsFiniteSet(evidence)
    /\ \A e \in evidence : e.id <= Cardinality(evidence)
    /\ MandateValid(mandate) /\ mandate \in Issued
    /\ \A e \in evidence : e.data # None => \E i \in Inputs : e.data = ActionData(i)
    /\ \A e \in evidence : IsEvent(e)

LEMMA EvidenceOrdered ==
    ASSUME EvidenceInv
    PROVE  Ordered(evidence)
<1>1. Times \subseteq Nat /\ 1..MaxEvents \subseteq Nat
    BY AuthorityAssumption
<1>2. /\ IsFiniteSet(evidence) /\ \A e, f \in evidence : e.id = f.id => e = f
      /\ \A e \in evidence : e.id \in 1..MaxEvents /\ e.at \in Times
    BY DEF EvidenceInv, TypeOK
<1> QED BY <1>1, <1>2 DEF Ordered

LEMMA SelectedEntry ==
    ASSUME NEW m \in Mandates, NEW a \in PermittedActions(m)
    PROVE  \E i \in 1..Len(m.permitted) : /\ FirstEntry(m, a) = m.permitted[i]
                                          /\ m.permitted[i].action = a
<1> DEFINE I == {i \in 1..Len(m.permitted) : m.permitted[i].action = a}
<1>1. m.permitted \in Seq(Entries)
    BY DEF Mandates
<1>2. I \in SUBSET Nat /\ I # {}
    BY <1>1 DEF PermittedActions
<1>3. SelectInSeq(m.permitted, LAMBDA e : e.action = a) = Min(I)
    BY <1>2 DEF SelectInSeq
<1> HIDE DEF I
<1>4. Min(I) \in I
    BY <1>2, Least DEF Min
<1> QED BY <1>3, <1>4 DEF FirstEntry, I

LEMMA MetadataTyped ==
    ASSUME mandate \in Mandates, NEW i \in Inputs
    PROVE  ActionData(i).action \in Actions /\ IsMetadata(ActionData(i).em)
<1>1. i.action \in Actions /\ i.params \in [Paths -> Scalars]
    BY AuthorityAssumption
<1>2. ASSUME i.action \in PermittedActions(mandate)
      PROVE  IsMetadata(Extracted(mandate, i.action, i.params))
    <2>1. mandate.permitted \in Seq(Entries)
        BY DEF Mandates
    <2>2. PICK k \in 1..Len(mandate.permitted) :
              FirstEntry(mandate, i.action) = mandate.permitted[k]
        BY <1>2, SelectedEntry
    <2> DEFINE entry == mandate.permitted[k]
    <2>3. entry \in ToSet(mandate.permitted) /\ entry \in Entries
        BY <2>1 DEF ToSet
    <2>4. [p \in entry.fields |-> i.params[p]] \in [entry.fields -> Scalars]
        BY <1>1, <2>3 DEF Entries
    <2>5. Extracted(mandate, i.action, i.params) = [p \in entry.fields |-> i.params[p]]
        BY <1>2, <2>2 DEF Extracted
    <2> QED BY <2>3, <2>4, <2>5 DEF IsMetadata
<1>3. i.action \notin PermittedActions(mandate) =>
          IsMetadata(Extracted(mandate, i.action, i.params))
    BY DEF Extracted, IsMetadata
<1> QED BY <1>1, <1>2, <1>3 DEF ActionData

(* Every step records one event, under a new id. *)
LEMMA NextRecords ==
    ASSUME EvidenceInv, Next
    PROVE  \E op \in Ops, type \in Types, at \in Times : \E data :
               /\ Record(op, type, at, data)
               /\ data = None \/ \E i \in Inputs : data = ActionData(i)
<1>1. \A i \in IF mandate \in Studied THEN StudiedInputs ELSE Inputs : i \in Inputs
    BY AuthorityAssumption
<1>2. ASSUME NEW op \in Ops, NEW type \in {"action_requested", "action_executed"}, Act(op, type)
      PROVE  \E at \in Times : \E i \in Inputs : Record(op, type, at, ActionData(i))
    BY <1>1, <1>2 DEF Act
<1>3. ASSUME NEW op \in Ops, Approve(op)
      PROVE  \E at \in Times, type \in {"approval_granted", "approval_denied"} :
                 Record(op, type, at, None)
    BY <1>3 DEF Approve
<1> QED BY <1>2, <1>3 DEF Next, Request, Execute, Types

LEMMA EvidenceStep ==
    ASSUME EvidenceInv, [Next]_vars
    PROVE  EvidenceInv'
<1>1. CASE UNCHANGED vars
    BY <1>1 DEF vars, EvidenceInv, TypeOK, IsMetadata, ActionData, IsEvent
<1>2. CASE Next
    <2>0. PICK op \in Ops, type \in Types, at \in Times : \E data :
              /\ Record(op, type, at, data)
              /\ data = None \/ \E i \in Inputs : data = ActionData(i)
        BY <1>2, NextRecords
    <2>1. PICK data : /\ Record(op, type, at, data)
                      /\ data = None \/ \E i \in Inputs : data = ActionData(i)
        BY <2>0
    <2> DEFINE new == [id |-> NextId, op |-> op, type |-> type, at |-> at, data |-> data]
    <2>2. evidence' = evidence \cup {new} /\ mandate' = mandate /\ revoked' = revoked
        BY <2>1 DEF Record
    <2>3. /\ new.id = NextId /\ new.op \in Ops /\ new.type \in Types /\ new.at \in Times
          /\ new.data = data /\ IsEvent(new)
        BY DEF IsEvent
    <2> HIDE DEF new
    <2>4. Cardinality(evidence) \in Nat /\ IsFiniteSet(evidence)
        BY FS_CardinalityType DEF EvidenceInv
    <2>5. NextId \in 1..MaxEvents /\ NextId = Cardinality(evidence) + 1
        BY <2>1, <2>4, AuthorityAssumption DEF Record, NextId
    <2>6. \A e \in evidence : e.id <= Cardinality(evidence) /\ e.id \in Nat
        BY DEF EvidenceInv, TypeOK
    <2>7. new \notin evidence /\ \A e \in evidence : e.id # new.id
        BY <2>3, <2>4, <2>5, <2>6
    <2>8. IsFiniteSet(evidence') /\ Cardinality(evidence') = Cardinality(evidence) + 1
        BY <2>2, <2>4, <2>7, FS_AddElement
    <2>9. \A e \in evidence' : e.id <= Cardinality(evidence')
        BY <2>2, <2>3, <2>4, <2>5, <2>6, <2>8
    <2>10. data # None => data.action \in Actions /\ IsMetadata(data.em)
        BY <2>1, MetadataTyped DEF EvidenceInv, TypeOK
    <2>11. TypeOK'
        BY <2>2, <2>3, <2>5, <2>7, <2>10 DEF EvidenceInv, TypeOK, IsMetadata
    <2>12. \A e \in evidence' : e.data # None => \E i \in Inputs : e.data = ActionData(i)
        BY <2>1, <2>2, <2>3 DEF EvidenceInv
    <2>13. \A e \in evidence' : IsEvent(e)
        BY <2>2, <2>3 DEF EvidenceInv
    <2> QED BY <2>2, <2>8, <2>9, <2>11, <2>12, <2>13 DEF EvidenceInv, ActionData, IsEvent
<1> QED BY <1>1, <1>2

LEMMA EvidenceInit == Init => EvidenceInv
<1>1. IsFiniteSet({}) /\ Issued \subseteq Mandates
    BY FS_EmptySet, AuthorityAssumption
<1>2. Init => revoked \in Revocations
    BY AuthorityAssumption DEF Init
<1> QED BY <1>1, <1>2 DEF Init, EvidenceInv, TypeOK

(* Events keep their shapes and their own ids. *)
THEOREM AuthorityTypeCorrect == Spec => []TypeOK
<1>1. EvidenceInv /\ [Next]_vars => EvidenceInv'
    BY EvidenceStep
<1>2. EvidenceInv => TypeOK
    BY DEF EvidenceInv
<1> QED BY <1>1, <1>2, EvidenceInit, PTL DEF Spec

-----------------------------------------------------------------------------
(* What later events leave alone. *)

(* The verdicts about an operation depend on its own events, and on the    *)
(* executions that come before its primary event.                          *)
LEMMA VerdictsDependOn ==
    ASSUME NEW ev, NEW other, NEW op, NEW complete,
           Ordered(ev), Ordered(other),
           \A type \in Types : Of(other, op, type) = Of(ev, op, type),
           HasPrimary(ev, op) =>
               {f \in Peers(other, Primary(ev, op)) : Before(f, Primary(ev, op))} =
                   {f \in Peers(ev, Primary(ev, op)) : Before(f, Primary(ev, op))}
    PROVE  Determination(other, op, complete) = Determination(ev, op, complete)
<1> DEFINE e == Primary(ev, op)
<1>1. /\ Of(other, op, "action_executed") = Of(ev, op, "action_executed")
      /\ Of(other, op, "action_requested") = Of(ev, op, "action_requested")
      /\ Of(other, op, "approval_granted") = Of(ev, op, "approval_granted")
      /\ Of(other, op, "approval_denied") = Of(ev, op, "approval_denied")
    BY DEF Types
<1>2. /\ Executed(other, op) <=> Executed(ev, op)
      /\ HasPrimary(other, op) <=> HasPrimary(ev, op)
    BY <1>1 DEF Executed, HasPrimary
<1>3. Primary(other, op) = e
    BY <1>1 DEF Primary
<1>4. ASSUME HasPrimary(ev, op)
      PROVE  Verdicts(other, op, complete) = Verdicts(ev, op, complete)
    <2>1. e.op = op
        BY <1>4, PrimaryIs
    <2> DEFINE earlier(s) == {f \in Peers(s, e) : Before(f, e)}
    <2>2. earlier(other) = earlier(ev)
        BY <1>4
    <2>3. /\ Position(Peers(other, e), e) = Position(Peers(ev, e), e)
          /\ Tied(Peers(other, e), e) <=> Tied(Peers(ev, e), e)
        <3>1. \A s : Position(Peers(s, e), e) = Cardinality(earlier(s))
            BY DEF Position
        <3>2. \A s : Tied(Peers(s, e), e) <=> \E f \in earlier(s) : f.at = e.at
            BY DEF Tied
        <3> HIDE DEF earlier, e
        <3> QED BY <2>2, <3>1, <3>2
    <2> HIDE DEF e, earlier
    <2>4. CountVerdicts(other, e) = CountVerdicts(ev, e)
        BY <2>3 DEF CountVerdicts
    <2>5. /\ Denied(other, e.op) <=> Denied(ev, e.op)
          /\ Granted(other, e) <=> Granted(ev, e)
        BY <1>1, <2>1 DEF Denied, Granted
    <2>6. ApprovalVerdicts(other, e, complete) = ApprovalVerdicts(ev, e, complete)
        BY <2>5 DEF ApprovalVerdicts
    <2> QED BY <1>2, <1>3, <2>4, <2>6 DEF Verdicts, e
<1> QED BY <1>2, <1>4 DEF Determination

LEMMA LaterEventsLeaveVerdicts ==
    ASSUME NEW ev, Ordered(ev), NEW new, Ordered(ev \cup {new}),
           NEW op, op # new.op, HasPrimary(ev, op) => Primary(ev, op).at < new.at,
           NEW complete
    PROVE  Determination(ev \cup {new}, op, complete) = Determination(ev, op, complete)
<1> DEFINE all == ev \cup {new}
<1>1. \A type \in Types : Of(all, op, type) = Of(ev, op, type)
    BY DEF Of
<1>2. ASSUME HasPrimary(ev, op)
      PROVE  {f \in Peers(all, Primary(ev, op)) : Before(f, Primary(ev, op))} =
                 {f \in Peers(ev, Primary(ev, op)) : Before(f, Primary(ev, op))}
    <2>1. Primary(ev, op) \in ev
        BY <1>2, PrimaryIs
    <2>2. ~Before(new, Primary(ev, op))
        <3>1. Primary(ev, op).at \in Nat /\ new.at \in Nat /\ Primary(ev, op).at < new.at
            BY <1>2, <2>1 DEF Ordered
        <3> QED BY <3>1 DEF Before
    <2> QED BY <2>2 DEF Peers
<1> HIDE DEF all
<1>3. Ordered(all)
    BY DEF all
<1>4. Determination(all, op, complete) = Determination(ev, op, complete)
    BY <1>1, <1>2, <1>3, VerdictsDependOn
<1> QED BY <1>4 DEF all

(* Every step: an event changes the determination of no other operation    *)
(* whose own act is of an earlier instant.                                 *)
LEMMA StableStep ==
    ASSUME EvidenceInv, EvidenceInv', [Next]_vars,
           NEW e \in evidence' \ evidence, NEW op \in Ops \ {e.op}, NEW complete \in BOOLEAN,
           HasPrimary(evidence, op) => Primary(evidence, op).at < e.at
    PROVE  Determination(evidence', op, complete) = Determination(evidence, op, complete)
<1>1. Next
    BY DEF vars
<1>2. evidence' = evidence \cup {e}
    BY <1>1, NextRecords DEF Record
<1>3. Ordered(evidence)
    BY EvidenceOrdered
<1>4. PICK later : later = evidence'
    OBVIOUS
<1>5. Ordered(later)
    <2>1. Ordered(evidence)'
        BY EvidenceOrdered, PTL
    <2> QED BY <1>4, <2>1 DEF Ordered
<1>6. Determination(later, op, complete) = Determination(evidence, op, complete)
    BY <1>2, <1>3, <1>4, <1>5, LaterEventsLeaveVerdicts
<1> QED BY <1>4, <1>6

(* What others do later rewrites no classification: an event changes the   *)
(* determination of no other operation whose own execution or request is   *)
(* of an earlier instant.                                                  *)
THEOREM ClassificationsAreStable == Spec => VerdictsAreStable
<1>1. EvidenceInv /\ [Next]_vars => EvidenceInv'
    BY EvidenceStep
<1>2. EvidenceInv /\ EvidenceInv' /\ [Next]_vars =>
          \A e \in evidence' \ evidence : \A op \in Ops \ {e.op}, complete \in BOOLEAN :
              (HasPrimary(evidence, op) => Primary(evidence, op).at < e.at) =>
                  Determination(evidence', op, complete) = Determination(evidence, op, complete)
    BY StableStep
<1> QED BY <1>1, <1>2, EvidenceInit, PTL DEF Spec, VerdictsAreStable

-----------------------------------------------------------------------------
(* Verdicts *)

LEMMA VerdictsAre ==
    ASSUME NEW ev, NEW op, NEW complete
    PROVE  LET e == Primary(ev, op)
           IN  /\ "outside" \in Verdicts(ev, op, complete) <=>
                      \/ Unauthorized(e) \/ "outside" \in ConstraintVerdicts(e)
                      \/ Executed(ev, op) /\ \/ "outside" \in CountVerdicts(ev, e)
                                             \/ "outside" \in ApprovalVerdicts(ev, e, complete)
               /\ "ambiguous" \in Verdicts(ev, op, complete) <=>
                      \/ "ambiguous" \in ConstraintVerdicts(e)
                      \/ Executed(ev, op) /\ \/ "ambiguous" \in CountVerdicts(ev, e)
                                             \/ "ambiguous" \in ApprovalVerdicts(ev, e, complete)
BY DEF Verdicts

(* Some approval trigger fires. *)
Fires(e) == \E t \in TriggersOf(mandate, e.data.action) : Results(t, e.data.em) = {"satisfied"}

LEMMA ApprovalVerdictsAre ==
    ASSUME NEW ev, NEW e, NEW complete \in BOOLEAN
    PROVE  /\ "outside" \in ApprovalVerdicts(ev, e, complete) <=>
                  Fires(e) /\ (Denied(ev, e.op) \/ (~Granted(ev, e) /\ complete))
           /\ "ambiguous" \in ApprovalVerdicts(ev, e, complete) <=>
                  \/ \E t \in TriggersOf(mandate, e.data.action) :
                         "unknown" \in Results(t, e.data.em)
                  \/ Fires(e) /\ ~Denied(ev, e.op) /\ ~Granted(ev, e) /\ ~complete
<1> DEFINE results == {Results(t, e.data.em) : t \in TriggersOf(mandate, e.data.action)}
           open == IF \E r \in results : "unknown" \in r THEN {"ambiguous"} ELSE {}
           fired == IF {"satisfied"} \notin results THEN {}
                    ELSE IF Denied(ev, e.op) THEN {"outside"}
                    ELSE IF Granted(ev, e) THEN {} ELSE Absent(complete)
<1>1. ApprovalVerdicts(ev, e, complete) = open \cup fired
    BY DEF ApprovalVerdicts
<1>2. {"satisfied"} \in results <=> Fires(e)
    BY DEF Fires
<1>3. (\E r \in results : "unknown" \in r) <=>
          \E t \in TriggersOf(mandate, e.data.action) : "unknown" \in Results(t, e.data.em)
    OBVIOUS
<1>4. Absent(complete) = IF complete THEN {"outside"} ELSE {"ambiguous"}
    BY DEF Absent
<1> HIDE DEF results
<1> QED BY <1>1, <1>2, <1>3, <1>4

LEMMA LimitsTyped ==
    ASSUME TypeOK
    PROVE  \A k \in mandate.counts : k.limit \in Nat
BY DEF TypeOK, Mandates, Counts

LEMMA WithinIsUnderLimits ==
    ASSUME NEW ev, NEW op, NEW complete \in BOOLEAN,
           Determination(ev, op, complete) = "within", Executed(ev, op)
    PROVE  \A k \in mandate.counts : Applies(k, Primary(ev, op)) =>
               ~OverLimit(Position(Peers(ev, Primary(ev, op)), Primary(ev, op)), k.limit)
<1> DEFINE e == Primary(ev, op)
<1>1. "outside" \notin Verdicts(ev, op, complete) /\ "ambiguous" \notin Verdicts(ev, op, complete)
    BY WithinIs
<1>2. "outside" \notin CountVerdicts(ev, e) /\ "ambiguous" \notin CountVerdicts(ev, e)
    BY <1>1, VerdictsAre
<1> HIDE DEF e
<1>3. ~\E k \in mandate.counts : Applies(k, e) /\ OverLimit(Position(Peers(ev, e), e), k.limit)
    BY <1>2, CountVerdictsAre
<1> QED BY <1>3 DEF e

-----------------------------------------------------------------------------
(* Parts of the evidence *)

LEMMA LostStep ==
    ASSUME EvidenceInv
    PROVE  LostEvidenceNeverAccuses
<1> SUFFICES ASSUME NEW op \in Ops, Determination(evidence, op, TRUE) = "within",
                    NEW ev \in SUBSET evidence,
                    \A type \in {"action_requested", "action_executed"} :
                        Of(ev, op, type) = Of(evidence, op, type)
             PROVE  Determination(ev, op, FALSE) # "outside"
    BY DEF LostEvidenceNeverAccuses
<1> DEFINE e == Primary(evidence, op)
<1>1. Ordered(evidence) /\ Ordered(ev) /\ TypeOK
    BY EvidenceOrdered, PartsOrdered DEF EvidenceInv
<1>2. /\ Executed(ev, op) <=> Executed(evidence, op)
      /\ Primary(ev, op) = e
    BY DEF Executed, Primary
<1>3. /\ HasPrimary(evidence, op)
      /\ "outside" \notin Verdicts(evidence, op, TRUE)
      /\ "ambiguous" \notin Verdicts(evidence, op, TRUE)
    BY WithinIs
<1>4. e.op = op
    BY <1>1, <1>3, PrimaryIs
<1>5. /\ ~Unauthorized(e) /\ "outside" \notin ConstraintVerdicts(e)
      /\ Executed(evidence, op) => "outside" \notin ApprovalVerdicts(evidence, e, TRUE)
    BY <1>3, VerdictsAre
<1>6. ASSUME Executed(evidence, op)
      PROVE  "outside" \notin CountVerdicts(ev, e)
    <2>1. \A k \in mandate.counts :
              Applies(k, e) => ~OverLimit(Position(Peers(evidence, e), e), k.limit)
        BY <1>6, WithinIsUnderLimits
    <2> HIDE DEF e
    <2>2. /\ Position(Peers(ev, e), e) <= Position(Peers(evidence, e), e)
          /\ Position(Peers(ev, e), e) \in Nat /\ Position(Peers(evidence, e), e) \in Nat
        <3> DEFINE earlier(s) == {f \in Peers(s, e) : Before(f, e)}
        <3>1. earlier(ev) \subseteq earlier(evidence) /\ earlier(evidence) \subseteq evidence
            BY DEF Peers
        <3>2. IsFiniteSet(evidence)
            BY <1>1 DEF Ordered
        <3>3. \A s : Position(Peers(s, e), e) = Cardinality(earlier(s))
            BY DEF Position
        <3> HIDE DEF earlier
        <3> QED BY <3>1, <3>2, <3>3, PartsAreSmaller
    <2>3. \A k \in mandate.counts : k.limit \in Nat
        BY <1>1, LimitsTyped
    <2>4. ~\E k \in mandate.counts : Applies(k, e) /\ OverLimit(Position(Peers(ev, e), e), k.limit)
        BY <2>1, <2>2, <2>3 DEF OverLimit
    <2> QED BY <2>4, CountVerdictsAre
<1>7. ASSUME Executed(evidence, op)
      PROVE  "outside" \notin ApprovalVerdicts(ev, e, FALSE)
    <2>1. "outside" \notin ApprovalVerdicts(evidence, e, TRUE)
        BY <1>5, <1>7
    <2> HIDE DEF e
    <2>2. Denied(ev, e.op) => Denied(evidence, e.op)
        BY DEF Denied, Of
    <2>3. ~(Fires(e) /\ Denied(evidence, e.op))
        BY <2>1, ApprovalVerdictsAre
    <2> QED BY <2>2, <2>3, ApprovalVerdictsAre
<1> HIDE DEF e
<1>8. "outside" \notin Verdicts(ev, op, FALSE)
    BY <1>2, <1>5, <1>6, <1>7, VerdictsAre
<1> QED BY <1>8, OutsideIs

(* AUTH-009: losing evidence accuses nobody, whatever part of it is lost.  *)
THEOREM LosingEvidenceAccusesNobody == Spec => []LostEvidenceNeverAccuses
<1>1. EvidenceInv /\ [Next]_vars => EvidenceInv'
    BY EvidenceStep
<1>2. EvidenceInv => LostEvidenceNeverAccuses
    BY LostStep
<1> QED BY <1>1, <1>2, EvidenceInit, PTL DEF Spec

-----------------------------------------------------------------------------
(* Operations that keep to the mandate *)

(* With its own execution, the executions before it do not reach a limit   *)
(* that those of the day keep.                                             *)
LEMMA KeptLimitIsNotExceeded ==
    ASSUME NEW ev, Ordered(ev), NEW e \in ev, e.type = "action_executed", NEW limit \in Nat,
           Cardinality({f \in ev : f.type = "action_executed" /\ Day(f) = Day(e)}) <= limit
    PROVE  Position(Peers(ev, e), e) < limit
<1> DEFINE earlier == {f \in Peers(ev, e) : Before(f, e)}
           day == {f \in ev : f.type = "action_executed" /\ Day(f) = Day(e)}
<1>1. /\ earlier \cup {e} \subseteq day /\ day \subseteq ev /\ e \notin earlier
      /\ earlier \subseteq ev
    BY BeforeOrders DEF Peers
<1>2. Position(Peers(ev, e), e) = Cardinality(earlier) /\ Cardinality(day) <= limit
    BY DEF Position
<1>3. IsFiniteSet(ev)
    BY DEF Ordered
<1> HIDE DEF earlier, day
<1>4. IsFiniteSet(earlier) /\ Cardinality(earlier) \in Nat
    BY <1>1, <1>3, FS_Subset, FS_CardinalityType
<1>5. Cardinality(earlier \cup {e}) = Cardinality(earlier) + 1
    BY <1>1, <1>4, FS_AddElement
<1>6. Cardinality(earlier \cup {e}) <= Cardinality(day) /\ Cardinality(day) \in Nat
    BY <1>1, <1>3, PartsAreSmaller
<1> QED BY <1>2, <1>4, <1>5, <1>6

LEMMA ActiveIsInForce ==
    ASSUME EvidenceInv, NEW e \in evidence,
           MandateStatus(mandate, e.at) = "active", revoked = Never \/ e.at < revoked
    PROVE  InForce(e)
<1>1. mandate.from \in Nat /\ mandate.to \in Nat
    BY DEF EvidenceInv, TypeOK, Mandates
<1>2. e.at \in Nat /\ (revoked # Never => revoked \in Nat)
    BY AuthorityAssumption DEF EvidenceInv, TypeOK
<1>3. e.at >= mandate.from /\ e.at < mandate.to
    <2>1. ~(e.at < mandate.from) /\ ~(e.at >= mandate.to)
        BY DEF MandateStatus
    <2> QED BY <1>1, <1>2, <2>1
<1>4. ~(revoked # Never /\ revoked <= e.at)
    BY <1>2
<1> QED BY <1>3, <1>4 DEF InForce

LEMMA ObedientStep ==
    ASSUME EvidenceInv, NEW op \in Ops, Obedient(op)
    PROVE  Determination(evidence, op, TRUE) = "within"
<1> DEFINE e == Primary(evidence, op)
<1>1. Executed(evidence, op) /\ HasPrimary(evidence, op)
    <2>1. Cardinality(Of(evidence, op, "action_executed")) = 1
        BY DEF Obedient
    <2>2. Of(evidence, op, "action_executed") # {}
        BY <2>1, FS_EmptySet
    <2> QED BY <2>2 DEF Executed, HasPrimary
<1>2. Ordered(evidence)
    BY EvidenceOrdered
<1>3. e \in Of(evidence, op, "action_executed") /\ e \in evidence /\ e.type = "action_executed"
    BY <1>1, <1>2, PrimaryIs DEF Acts
<1> HIDE DEF e
<1>4. /\ MandateStatus(mandate, e.at) = "active"
      /\ revoked = Never \/ e.at < revoked
      /\ e.data.action \in PermittedActions(mandate)
      /\ \A c \in mandate.constraints : Applies(c, e) => Eval(c, e.data.em) = "satisfied"
      /\ \A k \in mandate.counts : Applies(k, e) =>
             Cardinality({f \in evidence : f.type = "action_executed" /\ Day(f) = Day(e)})
                 <= k.limit
      /\ MayAct(e)
    BY <1>3 DEF Obedient
<1>5. ~Unauthorized(e)
    <2>1. InForce(e)
        BY <1>3, <1>4, ActiveIsInForce
    <2>2. PermittedActions(mandate) \cap mandate.forbidden = {}
        BY DEF EvidenceInv, MandateValid
    <2> QED BY <1>4, <2>1, <2>2 DEF Unauthorized
<1>6. ConstraintVerdicts(e) = {}
    BY <1>4 DEF ConstraintVerdicts
<1>7. "outside" \notin CountVerdicts(evidence, e) /\ "ambiguous" \notin CountVerdicts(evidence, e)
    <2>1. ASSUME NEW k \in mandate.counts, Applies(k, e)
          PROVE  ~OverLimit(Position(Peers(evidence, e), e), k.limit)
        <3>1. k.limit \in Nat
            BY LimitsTyped DEF EvidenceInv
        <3>2. Position(Peers(evidence, e), e) < k.limit
            BY <1>2, <1>3, <1>4, <2>1, <3>1, KeptLimitIsNotExceeded
        <3>3. Position(Peers(evidence, e), e) \in Nat
            BY <1>2, PeersAreEvents
        <3> QED BY <3>1, <3>2, <3>3 DEF OverLimit
    <2> QED BY <2>1, CountVerdictsAre
<1>8. /\ "outside" \notin ApprovalVerdicts(evidence, e, TRUE)
      /\ "ambiguous" \notin ApprovalVerdicts(evidence, e, TRUE)
    <2>1. \/ ApprovalRequired(mandate, e.data.action, e.data.em) = "no"
          \/ /\ ApprovalRequired(mandate, e.data.action, e.data.em) = "yes"
             /\ ~Denied(evidence, e.op) /\ Granted(evidence, e)
        BY <1>4 DEF MayAct, Granted
    <2>2. /\ ~\E t \in TriggersOf(mandate, e.data.action) :
                 "unknown" \in Results(t, e.data.em)
          /\ Fires(e) => ~Denied(evidence, e.op) /\ Granted(evidence, e)
        BY <2>1 DEF ApprovalRequired, Fires
    <2> QED BY <2>2, ApprovalVerdictsAre
<1>9. /\ "outside" \notin Verdicts(evidence, op, TRUE)
      /\ "ambiguous" \notin Verdicts(evidence, op, TRUE)
    BY <1>5, <1>6, <1>7, <1>8, VerdictsAre DEF e
<1> QED BY <1>1, <1>9, WithinIs

(* AUTH-001 to AUTH-007: an agent that keeps to its mandate, as far as it  *)
(* can see, is within authority.                                           *)
THEOREM KeepingToTheMandateIsWithin == Spec => []ObedientOperationsAreWithin
<1>1. EvidenceInv /\ [Next]_vars => EvidenceInv'
    BY EvidenceStep
<1>2. EvidenceInv => ObedientOperationsAreWithin
    BY ObedientStep DEF ObedientOperationsAreWithin
<1> QED BY <1>1, <1>2, EvidenceInit, PTL DEF Spec

-----------------------------------------------------------------------------
(* Daily limits *)

(* No two executions of a day have the same index. *)
LEMMA PositionsDiffer ==
    ASSUME NEW ev, Ordered(ev), NEW peers, peers \subseteq ev,
           NEW e \in peers, NEW f \in peers, Before(e, f)
    PROVE  /\ Position(peers, e) \in Nat /\ Position(peers, f) \in Nat
           /\ Position(peers, e) < Position(peers, f)
<1> DEFINE before(g) == {h \in peers : Before(h, g)}
<1>1. before(e) \cup {e} \subseteq before(f)
    BY BeforeOrders
<1>2. e \notin before(e)
    BY BeforeOrders
<1>3. before(e) \subseteq ev /\ before(f) \subseteq ev
    OBVIOUS
<1>4. \A g : Position(peers, g) = Cardinality(before(g))
    BY DEF Position
<1>5. IsFiniteSet(ev)
    BY DEF Ordered
<1> HIDE DEF before
<1>6. IsFiniteSet(before(e)) /\ IsFiniteSet(before(f))
    BY <1>3, <1>5, FS_Subset
<1>7. Cardinality(before(e)) \in Nat /\ Cardinality(before(f)) \in Nat
    BY <1>6, FS_CardinalityType
<1>8. Cardinality(before(e) \cup {e}) = Cardinality(before(e)) + 1
    BY <1>2, <1>6, FS_AddElement
<1>9. Cardinality(before(e) \cup {e}) <= Cardinality(before(f))
    BY <1>1, <1>6, FS_Subset
<1> QED BY <1>4, <1>7, <1>8, <1>9

LEMMA LimitStep ==
    ASSUME EvidenceInv
    PROVE  LimitIsKept
<1> SUFFICES ASSUME NEW ev \in SUBSET evidence, NEW e \in ev, e.type = "action_executed",
                    NEW k \in mandate.counts, Applies(k, e)
             PROVE  Cardinality({op \in Ops :
                        /\ Executed(ev, op) /\ Primary(ev, op).data.action = e.data.action
                        /\ Day(Primary(ev, op)) = Day(e)
                        /\ Determination(ev, op, TRUE) = "within"}) <= k.limit
    BY DEF LimitIsKept
<1> DEFINE within == {op \in Ops :
               /\ Executed(ev, op) /\ Primary(ev, op).data.action = e.data.action
               /\ Day(Primary(ev, op)) = Day(e)
               /\ Determination(ev, op, TRUE) = "within"}
           peers == Peers(ev, e)
           index == [op \in within |-> Position(peers, Primary(ev, op))]
<1>1. Ordered(ev) /\ k.limit \in Nat
    BY EvidenceOrdered, PartsOrdered, LimitsTyped DEF EvidenceInv
<1>2. ASSUME NEW op \in within
      PROVE  /\ Primary(ev, op) \in peers /\ Primary(ev, op).op = op
             /\ Position(peers, Primary(ev, op)) \in 0..(k.limit - 1)
    <2> DEFINE p == Primary(ev, op)
    <2>1. /\ Executed(ev, op) /\ HasPrimary(ev, op)
          /\ p.data.action = e.data.action /\ Day(p) = Day(e)
          /\ Determination(ev, op, TRUE) = "within"
        BY DEF HasPrimary
    <2>2. p \in ev /\ p.op = op /\ p.type = "action_executed"
        BY <1>1, <2>1, PrimaryIs
    <2>3. \A j \in mandate.counts : Applies(j, p) => ~OverLimit(Position(Peers(ev, p), p), j.limit)
        BY <2>1, WithinIsUnderLimits
    <2> HIDE DEF p
    <2>4. Peers(ev, p) = peers /\ p \in peers
        BY <2>1, <2>2 DEF Peers
    <2>5. Applies(k, p)
        BY <2>1 DEF Applies
    <2>6. ~OverLimit(Position(peers, p), k.limit) /\ Position(peers, p) \in Nat
        <3>1. Position(Peers(ev, p), p) \in Nat
            BY <1>1, PeersAreEvents
        <3> HIDE DEF peers
        <3> QED BY <2>3, <2>4, <2>5, <3>1
    <2> HIDE DEF peers
    <2>7. Position(peers, p) \in 0..(k.limit - 1)
        BY <1>1, <2>6 DEF OverLimit
    <2> QED BY <2>2, <2>4, <2>7 DEF p
<1>3. peers \subseteq ev
    BY DEF Peers
<1> HIDE DEF within, peers
<1>4. ASSUME NEW x \in within, NEW y \in within, index[x] = index[y]
      PROVE  x = y
    <2>1. Primary(ev, x) = Primary(ev, y) \/ Before(Primary(ev, x), Primary(ev, y))
              \/ Before(Primary(ev, y), Primary(ev, x))
        BY <1>1, <1>2, <1>3, BeforeOrders
    <2>2. Position(peers, Primary(ev, x)) = Position(peers, Primary(ev, y))
        BY <1>4
    <2>3. ~Before(Primary(ev, x), Primary(ev, y)) /\ ~Before(Primary(ev, y), Primary(ev, x))
        BY <1>1, <1>2, <1>3, <2>2, PositionsDiffer
    <2>4. Primary(ev, x) = Primary(ev, y)
        BY <2>1, <2>3
    <2> QED BY <1>2, <2>4
<1>5. index \in [within -> 0..(k.limit - 1)]
    BY <1>2
<1> HIDE DEF index
<1>6. IsFiniteSet(0..(k.limit - 1)) /\ Cardinality(0..(k.limit - 1)) = k.limit
    <2>1. k.limit \in Nat /\ 0 \in Int /\ k.limit - 1 \in Int
        BY <1>1
    <2>2. PICK n \in Int : n = k.limit - 1
        BY <2>1
    <2>3. IsFiniteSet(0..n) /\ Cardinality(0..n) = IF 0 > n THEN 0 ELSE n - 0 + 1
        BY FS_Interval
    <2>4. (IF 0 > n THEN 0 ELSE n - 0 + 1) = k.limit
        BY <2>1, <2>2
    <2> QED BY <2>2, <2>3, <2>4
<1>7. Cardinality(within) <= Cardinality(0..(k.limit - 1))
    <2>1. \A x, y \in within : index[x] = index[y] => x = y
        BY <1>4
    <2> QED BY <1>5, <1>6, <2>1, NoMoreThanImages
<1> QED BY <1>6, <1>7 DEF within

(* max_count_per_utc_day, AUTH-008: whatever part of the evidence is held, *)
(* and however its clocks tie, no more operations of a day are within      *)
(* authority than the mandate lets execute.                                *)
THEOREM DailyLimitsAreKept == Spec => []LimitIsKept
<1>1. EvidenceInv /\ [Next]_vars => EvidenceInv'
    BY EvidenceStep
<1>2. EvidenceInv => LimitIsKept
    BY LimitStep
<1> QED BY <1>1, <1>2, EvidenceInit, PTL DEF Spec

-----------------------------------------------------------------------------
(* Extraction *)

(* Of an action that is listed once, validation and extraction read the    *)
(* same entry.                                                             *)
LEMMA OneEntry ==
    ASSUME mandate \in Mandates, ListsActionsOnce, NEW a \in PermittedActions(mandate)
    PROVE  FirstEntry(mandate, a) = LastEntry(mandate, a)
<1> DEFINE I == {i \in 1..Len(mandate.permitted) : mandate.permitted[i].action = a}
<1>1. mandate.permitted \in Seq(Entries)
    BY DEF Mandates
<1>2. PICK i \in 1..Len(mandate.permitted) : mandate.permitted[i].action = a
    BY <1>1 DEF PermittedActions
<1>3. \A j \in I : j = i
    BY <1>1, <1>2 DEF ListsActionsOnce
<1>4. I = {i} /\ i \in Nat
    BY <1>2, <1>3
<1>5. /\ SelectInSeq(mandate.permitted, LAMBDA e : e.action = a) = Min(I)
      /\ SelectLastInSeq(mandate.permitted, LAMBDA e : e.action = a) = Max(I)
    BY <1>4 DEF SelectInSeq, SelectLastInSeq
<1> HIDE DEF I
<1>6. Min(I) = i /\ Max(I) = i
    BY <1>4 DEF Min, Max
<1> QED BY <1>5, <1>6 DEF FirstEntry, LastEntry

LEMMA EvaluableStep ==
    ASSUME EvidenceInv
    PROVE  ValidMandatesAreEvaluable
<1> SUFFICES ASSUME ListsActionsOnce, NEW e \in evidence, e.data # None,
                    NEW c \in About(e.data.action), Eval(c, e.data.em) = "unknown"
             PROVE  Incomparable(c.op, e.data.params[c.path])
    BY DEF ValidMandatesAreEvaluable
<1>1. PICK i \in Inputs : e.data = ActionData(i)
    BY DEF EvidenceInv
<1> DEFINE a == i.action
           em == Extracted(mandate, a, i.params)
<1>2. e.data.action = a /\ e.data.params = i.params /\ e.data.em = em
    BY <1>1 DEF ActionData
<1>3. a \in Actions /\ a # AnyAction /\ mandate \in Mandates /\ MandateValid(mandate)
    BY AuthorityAssumption, AnyActionAssumption DEF EvidenceInv, TypeOK
<1>4. PathValid(mandate, c, a)
    <2>1. CASE c \in mandate.constraints /\ c.action = a
        BY <1>3, <2>1 DEF MandateValid
    <2>2. CASE \E t \in TriggersOf(mandate, a) : c \in t.all
        BY <1>3, <2>2 DEF MandateValid, TriggersOf
    <2> QED BY <1>2, <2>1, <2>2 DEF About
<1>5. a \in PermittedActions(mandate) /\ c.path \in LastEntry(mandate, a).fields
    BY <1>3, <1>4 DEF PathValid
<1>6. c.path \in FirstEntry(mandate, a).fields
    BY <1>3, <1>5, OneEntry
<1>7. em = [p \in FirstEntry(mandate, a).fields |-> i.params[p]]
    BY <1>5 DEF Extracted
<1>8. c.path \in DOMAIN em /\ em[c.path] = i.params[c.path]
    BY <1>6, <1>7
<1> HIDE DEF em, a
<1>9. Compare(c.op, i.params[c.path], c.operand) = "unknown"
    BY <1>2, <1>8 DEF Eval
<1> QED BY <1>2, <1>9 DEF Compare

(* MANDATE-014: what a valid mandate that lists each action once compares  *)
(* is extracted from every event of the action.                            *)
THEOREM ValidMandatesCanBeEvaluated == Spec => []ValidMandatesAreEvaluable
<1>1. EvidenceInv /\ [Next]_vars => EvidenceInv'
    BY EvidenceStep
<1>2. EvidenceInv => ValidMandatesAreEvaluable
    BY EvaluableStep
<1> QED BY <1>1, <1>2, EvidenceInit, PTL DEF Spec

-----------------------------------------------------------------------------
(* Exchanged event_ids *)

(* An event and what is left of it under another id. *)
LEMMA RenamedEvent ==
    ASSUME NEW e, IsEvent(e), NEW i
    PROVE  LET r == [e EXCEPT !.id = i]
           IN  /\ r.id = i /\ r.op = e.op /\ r.type = e.type
               /\ r.at = e.at /\ r.data = e.data
BY DEF IsEvent

(* Of an operation with one execution, or none and one request, that event *)
(* is the primary one.                                                     *)
LEMMA SingleIsPrimary ==
    ASSUME NEW ev, Ordered(ev), NEW op, NEW e, Acts(ev, op) = {e}
    PROVE  Primary(ev, op) = e
<1>1. HasPrimary(ev, op)
    BY DEF Acts, HasPrimary, Executed
<1> QED BY <1>1, PrimaryIs

LEMMA SingleActs ==
    ASSUME EvidenceInv, NEW op, SinglePrimary(op)
    PROVE  \E e : Acts(evidence, op) = {e}
<1>1. \A type : IsFiniteSet(Of(evidence, op, type))
    BY FS_Subset DEF Of, EvidenceInv
<1>2. CASE Cardinality(Of(evidence, op, "action_executed")) = 1
    <2>1. PICK e : Of(evidence, op, "action_executed") = {e}
        BY <1>1, <1>2, FS_Singleton
    <2> QED BY <2>1 DEF Acts, Executed
<1>3. CASE ~Executed(evidence, op) /\ Cardinality(Of(evidence, op, "action_requested")) = 1
    <2>1. PICK e : Of(evidence, op, "action_requested") = {e}
        BY <1>1, <1>3, FS_Singleton
    <2> QED BY <1>3, <2>1 DEF Acts
<1> QED BY <1>2, <1>3 DEF SinglePrimary

(* Renaming is one-to-one, and renamed events are ordered too. *)
LEMMA RenamedOrdered ==
    ASSUME EvidenceInv, NEW p \in Exchanges
    PROVE  Ordered(Renamed(p))
<1> DEFINE r == [e \in evidence |-> [e EXCEPT !.id = p[e.id]]]
<1>1. \A e \in evidence : IsEvent(e) /\ e.id \in Ids /\ e.at \in Nat
    BY EvidenceOrdered DEF EvidenceInv, Ids, Ordered
<1>2. /\ \A i \in Ids : p[i] \in Ids
      /\ \A i, j \in Ids : p[i] = p[j] => i = j
    BY DEF Exchanges, Bijection, Injection, IsInjective
<1>3. \A i \in Ids : i \in Nat
    BY EvidenceOrdered DEF Ids, Ordered
<1>4. \A e, f \in evidence : e.id = f.id => e = f
    BY DEF EvidenceInv, TypeOK
<1>5. \A e \in evidence : r[e].id = p[e.id] /\ r[e].at = e.at
    BY <1>1, RenamedEvent
<1>6. Renamed(p) = {r[e] : e \in evidence}
    BY DEF Renamed
<1>7. IsFiniteSet(evidence) /\ DOMAIN r = evidence /\ r = [e \in evidence |-> r[e]]
    BY DEF EvidenceInv
<1> HIDE DEF r
<1>8. IsFiniteSet(Renamed(p))
    BY <1>6, <1>7, ImagesAreFewer
<1>9. \A e \in Renamed(p) : e.at \in Nat /\ e.id \in Nat
    BY <1>1, <1>2, <1>3, <1>5, <1>6
<1>10. \A e, f \in evidence : r[e].id = r[f].id => e = f
    BY <1>1, <1>2, <1>4, <1>5
<1> QED BY <1>6, <1>8, <1>9, <1>10 DEF Ordered

(* No execution of the same instant precedes the renamed one, so all that  *)
(* do are of earlier instants, and preceded it under its own id as well.   *)
LEMMA UntiedPositions ==
    ASSUME EvidenceInv, NEW p \in Exchanges, NEW e \in evidence,
           NEW f, f = [e EXCEPT !.id = p[e.id]], ~Tied(Peers(Renamed(p), f), f)
    PROVE  /\ Position(Peers(Renamed(p), f), f) \in Nat
           /\ Position(Peers(evidence, e), e) \in Nat
           /\ Position(Peers(Renamed(p), f), f) <= Position(Peers(evidence, e), e)
<1> DEFINE earlier == {g \in Peers(evidence, e) : Before(g, e)}
           renamed == {g \in Peers(Renamed(p), f) : Before(g, f)}
           r == [g \in earlier |-> [g EXCEPT !.id = p[g.id]]]
           images == {r[g] : g \in earlier}
<1>1. \A g \in evidence : IsEvent(g) /\ g.at \in Nat
    BY EvidenceOrdered DEF EvidenceInv, Ordered
<1>2. f.at = e.at /\ f.data = e.data
    BY <1>1, RenamedEvent
<1>3. ASSUME NEW g \in renamed
      PROVE  g \in images
    <2>1. PICK h \in evidence : g = [h EXCEPT !.id = p[h.id]]
        BY DEF Peers, Renamed
    <2>2. g.type = h.type /\ g.at = h.at /\ g.data = h.data
        BY <1>1, <2>1, RenamedEvent
    <2>3. h \in Peers(evidence, e)
        BY <1>2, <2>2 DEF Peers, Day
    <2>4. g.at # f.at
        BY DEF Tied
    <2>5. g.at < f.at
        BY <2>4 DEF Before
    <2>6. Before(h, e)
        BY <1>2, <2>2, <2>5 DEF Before
    <2>7. h \in earlier
        BY <2>3, <2>6
    <2>8. r[h] = g
        BY <2>1, <2>7
    <2> QED BY <2>7, <2>8
<1>4. earlier \subseteq evidence
    BY DEF Peers
<1>5. IsFiniteSet(evidence)
    BY DEF EvidenceInv
<1>6. /\ Position(Peers(evidence, e), e) = Cardinality(earlier)
      /\ Position(Peers(Renamed(p), f), f) = Cardinality(renamed)
    BY DEF Position
<1>7. DOMAIN r = earlier /\ r = [g \in earlier |-> r[g]]
    OBVIOUS
<1> HIDE DEF earlier, renamed, r
<1>8. IsFiniteSet(earlier)
    BY <1>4, <1>5, FS_Subset
<1>9. /\ IsFiniteSet(images) /\ Cardinality(images) \in Nat /\ Cardinality(earlier) \in Nat
      /\ Cardinality(images) <= Cardinality(earlier)
    BY <1>7, <1>8, ImagesAreFewer
<1> HIDE DEF images
<1>10. renamed \subseteq images
    BY <1>3
<1>11. Cardinality(renamed) \in Nat /\ Cardinality(renamed) <= Cardinality(images)
    BY <1>9, <1>10, FS_Subset, FS_CardinalityType
<1> QED BY <1>6, <1>9, <1>11

(* No other execution of the action is of that instant, so the events that *)
(* precede it are the same, under whatever ids.                            *)
LEMMA UntiedCounts ==
    ASSUME EvidenceInv, NEW p \in Exchanges, NEW e \in evidence,
           NEW f, f = [e EXCEPT !.id = p[e.id]], ~Ties(e)
    PROVE  CountVerdicts(Renamed(p), f) = CountVerdicts(evidence, e)
<1> DEFINE earlier == {g \in Peers(evidence, e) : Before(g, e)}
           renamed == {g \in Peers(Renamed(p), f) : Before(g, f)}
           r == [g \in earlier |-> [g EXCEPT !.id = p[g.id]]]
<1>1. Ordered(evidence) /\ Ordered(Renamed(p)) /\ \A g \in evidence : IsEvent(g)
    BY EvidenceOrdered, RenamedOrdered DEF EvidenceInv
<1>2. f.at = e.at /\ f.data = e.data /\ f.id = p[e.id] /\ f \in Renamed(p) /\ e.at \in Nat
    BY <1>1, RenamedEvent DEF Renamed, Ordered
<1>3. \A g \in earlier : g \in evidence /\ g # e /\ g.at < e.at
    <2> SUFFICES ASSUME NEW g \in earlier
                 PROVE  g \in evidence /\ g # e /\ g.at < e.at
        OBVIOUS
    <2>1. g \in evidence /\ g \in Peers(evidence, e) /\ Before(g, e)
        BY DEF Peers
    <2>2. g # e
        BY <1>1, <2>1, BeforeOrders
    <2>3. g.at # e.at
        BY <2>1, <2>2 DEF Ties
    <2> QED BY <2>1, <2>2, <2>3 DEF Before
<1>4. ~Tied(Peers(evidence, e), e)
    <2>1. \A g \in Peers(evidence, e) : Before(g, e) => g.at < e.at
        BY <1>3
    <2> QED BY <1>1, <1>2, <2>1 DEF Tied
<1>5. ~Tied(Peers(Renamed(p), f), f)
    <2> SUFFICES ASSUME NEW g \in Peers(Renamed(p), f), Before(g, f), g.at = f.at
                 PROVE  FALSE
        BY DEF Tied
    <2>1. PICK h \in evidence : g = [h EXCEPT !.id = p[h.id]]
        BY DEF Peers, Renamed
    <2>2. g.type = h.type /\ g.at = h.at /\ g.data = h.data
        BY <1>1, <2>1, RenamedEvent
    <2>3. h \in Peers(evidence, e)
        BY <1>2, <2>2 DEF Peers, Day
    <2>4. h = e
        BY <1>2, <2>2, <2>3 DEF Ties
    <2> QED BY <1>1, <1>2, <2>1, <2>4, BeforeOrders
<1>6. ASSUME NEW g \in earlier
      PROVE  r[g] \in renamed /\ r[g].id = p[g.id]
    <2>1. g \in evidence /\ g.at < e.at /\ g \in Peers(evidence, e)
        BY <1>3
    <2>2. r[g].type = g.type /\ r[g].at = g.at /\ r[g].data = g.data /\ r[g].id = p[g.id]
        BY <1>1, <2>1, RenamedEvent
    <2>3. r[g] \in Renamed(p)
        BY <2>1 DEF Renamed
    <2>4. r[g] \in Peers(Renamed(p), f)
        BY <1>2, <2>1, <2>2, <2>3 DEF Peers, Day
    <2> QED BY <1>2, <2>1, <2>2, <2>4 DEF Before
<1>7. \A g, h \in earlier : r[g] = r[h] => g = h
    <2>1. \A i, j \in Ids : p[i] = p[j] => i = j
        BY DEF Exchanges, Bijection, Injection, IsInjective
    <2>2. \A g, h \in evidence : g.id = h.id => g = h
        BY <1>1 DEF Ordered
    <2>3. \A g \in earlier : g \in evidence /\ g.id \in Ids
        BY <1>3 DEF Ids
    <2> HIDE DEF earlier, r
    <2> QED BY <1>6, <2>1, <2>2, <2>3
<1>8. r \in [earlier -> renamed]
    BY <1>6
<1>9. /\ IsFiniteSet(renamed)
      /\ Position(Peers(Renamed(p), f), f) = Cardinality(renamed)
      /\ Position(Peers(evidence, e), e) = Cardinality(earlier)
    BY <1>1, PeersAreEvents DEF Position
<1> HIDE DEF earlier, renamed, r
<1>10. /\ Cardinality(earlier) <= Cardinality(renamed)
       /\ Cardinality(earlier) \in Nat /\ Cardinality(renamed) \in Nat
    BY <1>7, <1>8, <1>9, NoMoreThanImages
<1>11. Cardinality(renamed) <= Cardinality(earlier)
    BY <1>5, <1>9, UntiedPositions
<1>12. Position(Peers(Renamed(p), f), f) = Position(Peers(evidence, e), e)
    BY <1>9, <1>10, <1>11
<1>13. \A k : Applies(k, f) <=> Applies(k, e)
    BY <1>2 DEF Applies
<1> QED BY <1>4, <1>5, <1>12, <1>13 DEF CountVerdicts

LEMMA TieStep ==
    ASSUME EvidenceInv
    PROVE  TieOrderNeverAccuses
<1> SUFFICES ASSUME NEW op \in Ops, SinglePrimary(op), NEW complete \in BOOLEAN,
                    NEW p \in Exchanges
             PROVE  /\ Determination(evidence, op, complete) = "within" =>
                           Determination(Renamed(p), op, complete) # "outside"
                    /\ ~Ties(Primary(evidence, op)) =>
                           Determination(Renamed(p), op, complete) =
                               Determination(evidence, op, complete)
    BY DEF TieOrderNeverAccuses
<1>1. PICK e : Acts(evidence, op) = {e}
    BY SingleActs
<1>2. PICK f : f = [e EXCEPT !.id = p[e.id]]
    OBVIOUS
<1>3. e \in evidence /\ e.op = op /\ (\A g \in evidence : IsEvent(g))
    BY <1>1 DEF Acts, Of, EvidenceInv
<1>4. f.op = e.op /\ f.at = e.at /\ f.data = e.data
    BY <1>2, <1>3, RenamedEvent
<1> DEFINE r(g) == [g EXCEPT !.id = p[g.id]]
<1>5. ASSUME NEW type
      PROVE  Of(Renamed(p), op, type) = {r(g) : g \in Of(evidence, op, type)}
    <2>1. \A g \in evidence : r(g).op = g.op /\ r(g).type = g.type
        BY <1>3, RenamedEvent
    <2>2. Renamed(p) = {r(g) : g \in evidence}
        BY DEF Renamed
    <2> HIDE DEF r
    <2> QED BY <2>1, <2>2 DEF Of
<1>6. /\ Executed(Renamed(p), op) <=> Executed(evidence, op)
      /\ Denied(Renamed(p), op) <=> Denied(evidence, op)
    <2> HIDE DEF r
    <2>1. ASSUME NEW type
          PROVE  Of(Renamed(p), op, type) = {} <=> Of(evidence, op, type) = {}
        <3>1. Of(Renamed(p), op, type) = {r(g) : g \in Of(evidence, op, type)}
            BY <1>5
        <3>2. \A g \in Of(evidence, op, type) : r(g) \in Of(Renamed(p), op, type)
            BY <3>1
        <3>3. \A h \in Of(Renamed(p), op, type) : \E g \in Of(evidence, op, type) : h = r(g)
            BY <3>1
        <3> QED BY <3>2, <3>3
    <2> QED BY <2>1 DEF Executed, Denied
<1>7. Granted(Renamed(p), f) <=> Granted(evidence, e)
    <2>1. \A g \in Of(evidence, op, "approval_granted") : r(g).at = g.at
        BY <1>3, RenamedEvent DEF Of
    <2> HIDE DEF r
    <2>2. Of(Renamed(p), op, "approval_granted") =
              {r(g) : g \in Of(evidence, op, "approval_granted")}
        BY <1>5
    <2> QED BY <1>3, <1>4, <2>1, <2>2 DEF Granted
<1>8. Acts(Renamed(p), op) = {f}
    <2>1. Acts(Renamed(p), op) = {r(g) : g \in Acts(evidence, op)}
        BY <1>5, <1>6 DEF Acts
    <2> QED BY <1>1, <1>2, <2>1
<1>9. Primary(evidence, op) = e /\ Primary(Renamed(p), op) = f
    BY <1>1, <1>8, EvidenceOrdered, RenamedOrdered, SingleIsPrimary
<1>10. /\ Unauthorized(f) <=> Unauthorized(e)
       /\ ConstraintVerdicts(f) = ConstraintVerdicts(e)
    BY <1>4 DEF Unauthorized, InForce, ConstraintVerdicts, Applies
<1>11. ApprovalVerdicts(Renamed(p), f, complete) = ApprovalVerdicts(evidence, e, complete)
    BY <1>3, <1>4, <1>6, <1>7 DEF ApprovalVerdicts
<1>12. HasPrimary(evidence, op) /\ HasPrimary(Renamed(p), op)
    BY <1>1, <1>8 DEF Acts, HasPrimary, Executed
<1>13. ASSUME Determination(evidence, op, complete) = "within"
       PROVE  Determination(Renamed(p), op, complete) # "outside"
    <2>1. ASSUME Executed(evidence, op)
          PROVE  "outside" \notin CountVerdicts(Renamed(p), f)
        <3>1. SUFFICES ASSUME ~Tied(Peers(Renamed(p), f), f), NEW k \in mandate.counts,
                              Applies(k, f)
                       PROVE  ~OverLimit(Position(Peers(Renamed(p), f), f), k.limit)
            BY CountVerdictsAre
        <3>2. Applies(k, e)
            BY <1>4, <3>1 DEF Applies
        <3>3. ~OverLimit(Position(Peers(evidence, e), e), k.limit)
            BY <1>9, <1>13, <2>1, <3>2, WithinIsUnderLimits
        <3>4. k.limit \in Nat
            BY LimitsTyped DEF EvidenceInv
        <3>5. /\ Position(Peers(Renamed(p), f), f) \in Nat
              /\ Position(Peers(evidence, e), e) \in Nat
              /\ Position(Peers(Renamed(p), f), f) <= Position(Peers(evidence, e), e)
            BY <1>2, <1>3, <3>1, UntiedPositions
        <3> QED BY <3>3, <3>4, <3>5 DEF OverLimit
    <2>2. /\ ~Unauthorized(e) /\ "outside" \notin ConstraintVerdicts(e)
          /\ Executed(evidence, op) => "outside" \notin ApprovalVerdicts(evidence, e, complete)
        BY <1>9, <1>13, WithinIs, VerdictsAre
    <2>3. "outside" \notin Verdicts(Renamed(p), op, complete)
        BY <1>6, <1>9, <1>10, <1>11, <2>1, <2>2, VerdictsAre
    <2> QED BY <2>3, OutsideIs
<1>14. ASSUME ~Ties(Primary(evidence, op))
       PROVE  Determination(Renamed(p), op, complete) = Determination(evidence, op, complete)
    <2>1. CountVerdicts(Renamed(p), f) = CountVerdicts(evidence, e)
        BY <1>2, <1>3, <1>9, <1>14, UntiedCounts
    <2>2. Verdicts(Renamed(p), op, complete) = Verdicts(evidence, op, complete)
        BY <1>6, <1>9, <1>10, <1>11, <2>1 DEF Verdicts
    <2> QED BY <1>12, <2>2 DEF Determination
<1> QED BY <1>13, <1>14

(* However the event_ids of the events of an instant are exchanged, they   *)
(* decide nothing about an execution that ties with none of its action,    *)
(* and put nothing outside authority that was within it.                   *)
THEOREM EventIdsAccuseNobody == Spec => []TieOrderNeverAccuses
<1>1. EvidenceInv /\ [Next]_vars => EvidenceInv'
    BY EvidenceStep
<1>2. EvidenceInv => TieOrderNeverAccuses
    BY TieStep
<1> QED BY <1>1, <1>2, EvidenceInit, PTL DEF Spec
=============================================================================
