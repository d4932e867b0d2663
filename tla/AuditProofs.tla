---------------------------- MODULE AuditProofs ----------------------------
(***************************************************************************)
(* Theorems about what the verifiers say of what is left of an honest      *)
(* history (Audit, Findings), for any number of writers, segments, events, *)
(* keys, authorizations and receipts, and any damage.                      *)
(***************************************************************************)
EXTENDS Findings, TLAPS, FiniteSetTheorems, SequenceTheorems, WellFoundedInduction

-----------------------------------------------------------------------------
(* Sets in the order of their keys. *)

(* Every nonempty set of naturals has a least element. *)
LEMMA Least ==
    ASSUME NEW T \in SUBSET Nat, T # {}
    PROVE  \E x \in T : \A y \in T : x <= y
<1>1. PICK x \in T : \A y \in T : <<y, x>> \notin OpToRel(<, Nat)
    BY NatLessThanWellFounded, WFMin
<1>2. \A y \in T : ~(y < x)
    BY <1>1 DEF OpToRel
<1> QED BY <1>2

(* Keys that tell the elements of a set apart. *)
IsKey(key, set) ==
    key \in [set -> Nat] /\ \A x, y \in set : key[x] = key[y] => x = y

LEMMA UpTo ==
    ASSUME NEW n \in Nat
    PROVE  IsFiniteSet(0..(n - 1)) /\ Cardinality(0..(n - 1)) = n
<1>1. PICK m \in Int : m = n - 1
    OBVIOUS
<1>2. IsFiniteSet(0..m) /\ Cardinality(0..m) = IF 0 > m THEN 0 ELSE m - 0 + 1
    BY FS_Interval
<1>3. (IF 0 > m THEN 0 ELSE m - 0 + 1) = n
    BY <1>1
<1> QED BY <1>1, <1>2, <1>3

(* How many elements of a set have smaller keys. *)
Rank(set, key) == [x \in set |-> Cardinality({y \in set : key[y] < key[x]})]

LEMMA RanksDiffer ==
    ASSUME NEW set, IsFiniteSet(set), NEW key, IsKey(key, set)
    PROVE  /\ Rank(set, key) \in [set -> 0..(Cardinality(set) - 1)]
           /\ \A x, y \in set : key[x] < key[y] => Rank(set, key)[x] < Rank(set, key)[y]
           /\ \A x, y \in set : Rank(set, key)[x] = Rank(set, key)[y] => x = y
<1> DEFINE below(x) == {y \in set : key[y] < key[x]}
<1>1. \A x \in set : key[x] \in Nat
    BY DEF IsKey
<1>2. \A x \in set : below(x) \subseteq set /\ x \notin below(x)
    BY <1>1
<1>3. \A x, y \in set : key[x] < key[y] => below(x) \cup {x} \subseteq below(y)
    BY <1>1
<1>4. \A x \in set : Rank(set, key)[x] = Cardinality(below(x))
    BY DEF Rank
<1> HIDE DEF below
<1>5. ASSUME NEW x \in set
      PROVE  /\ IsFiniteSet(below(x)) /\ Cardinality(below(x)) \in Nat
             /\ Cardinality(below(x) \cup {x}) = Cardinality(below(x)) + 1
    BY <1>2, FS_Subset, FS_CardinalityType, FS_AddElement
<1>6. ASSUME NEW x \in set
      PROVE  Cardinality(below(x)) \in 0..(Cardinality(set) - 1)
    <2>1. below(x) \cup {x} \subseteq set
        BY <1>2
    <2>2. Cardinality(below(x) \cup {x}) <= Cardinality(set) /\ Cardinality(set) \in Nat
        BY <2>1, FS_Subset, FS_CardinalityType
    <2> QED BY <1>5, <2>2
<1>7. ASSUME NEW x \in set, NEW y \in set, key[x] < key[y]
      PROVE  Cardinality(below(x)) < Cardinality(below(y))
    <2>1. below(x) \cup {x} \subseteq below(y) /\ IsFiniteSet(below(y))
        BY <1>3, <1>5, <1>7
    <2>2. Cardinality(below(x) \cup {x}) <= Cardinality(below(y))
        BY <2>1, FS_Subset
    <2>3. /\ Cardinality(below(x)) \in Nat /\ Cardinality(below(y)) \in Nat
          /\ Cardinality(below(x) \cup {x}) = Cardinality(below(x)) + 1
        BY <1>5
    <2> QED BY <2>2, <2>3
<1>8. ASSUME NEW x \in set, NEW y \in set, Cardinality(below(x)) = Cardinality(below(y))
      PROVE  x = y
    <2> DEFINE a == Cardinality(below(x))
               b == Cardinality(below(y))
    <2>0. a \in Nat /\ b \in Nat /\ a = b /\ (key[x] < key[y] => a < b) /\ (key[y] < key[x] => b < a)
        BY <1>5, <1>7, <1>8
    <2> HIDE DEF a, b
    <2>1. ~(key[x] < key[y]) /\ ~(key[y] < key[x])
        BY <2>0
    <2>2. key[x] = key[y]
        BY <1>1, <2>1
    <2> QED BY <2>2 DEF IsKey
<1> QED BY <1>4, <1>6, <1>7, <1>8 DEF Rank

(* InOrder lists every element of the set once, by ascending key. *)
LEMMA InOrderSorts ==
    ASSUME NEW set, IsFiniteSet(set), NEW key, IsKey(key, set),
           NEW s, s = InOrder(set, key)
    PROVE  /\ Cardinality(set) \in Nat /\ s \in Seq(set) /\ Len(s) = Cardinality(set)
           /\ \A i \in 1..Len(s) : s[i] \in set
           /\ \A x \in set : \E i \in 1..Len(s) : s[i] = x
           /\ \A i, j \in 1..Len(s) : i < j => key[s[i]] < key[s[j]]
<1> DEFINE n == Cardinality(set)
           rank == Rank(set, key)
<1>1. n \in Nat
    BY FS_CardinalityType
<1>2. /\ rank \in [set -> 0..(n - 1)]
      /\ \A x, y \in set : key[x] < key[y] => rank[x] < rank[y]
      /\ \A x, y \in set : rank[x] = rank[y] => x = y
    BY RanksDiffer
<1>3. \A x \in set : rank[x] = Cardinality({y \in set : key[y] < key[x]})
    BY DEF Rank
<1>4. s = [i \in 1..n |-> CHOOSE x \in set : Cardinality({y \in set : key[y] < key[x]}) = i - 1]
    BY DEF InOrder
<1>5. \A x \in set : key[x] \in Nat
    BY DEF IsKey
<1> HIDE DEF n, rank
<1>6. \A r \in 0..(n - 1) : \E x \in set : rank[x] = r
    <2>1. rank \in Injection(set, 0..(n - 1))
        BY <1>2 DEF Injection, IsInjective
    <2>2. IsFiniteSet(0..(n - 1)) /\ Cardinality(0..(n - 1)) = Cardinality(set)
        BY <1>1, UpTo DEF n
    <2>3. rank \in Surjection(set, 0..(n - 1))
        BY <2>1, <2>2, FS_Injection
    <2> QED BY <2>3 DEF Surjection
<1>7. ASSUME NEW i \in 1..n
      PROVE  s[i] \in set /\ rank[s[i]] = i - 1
    <2>1. i - 1 \in 0..(n - 1)
        BY <1>1
    <2>2. \E x \in set : Cardinality({y \in set : key[y] < key[x]}) = i - 1
        BY <1>3, <1>6, <2>1
    <2>3. s[i] = CHOOSE x \in set : Cardinality({y \in set : key[y] < key[x]}) = i - 1
        BY <1>4
    <2>4. s[i] \in set /\ Cardinality({y \in set : key[y] < key[s[i]]}) = i - 1
        BY <2>2, <2>3
    <2> QED BY <1>3, <2>4
<1>8. s \in Seq(set) /\ Len(s) = n
    <2>1. DOMAIN s = 1..n /\ s = [i \in 1..n |-> s[i]]
        BY <1>4
    <2>2. s \in [1..n -> set]
        BY <1>7, <2>1
    <2> QED BY <1>1, <2>2
<1>9. ASSUME NEW x \in set
      PROVE  \E i \in 1..n : s[i] = x
    <2>1. rank[x] \in 0..(n - 1)
        BY <1>2
    <2>2. PICK i \in 1..n : i - 1 = rank[x]
        BY <1>1, <2>1
    <2> QED BY <1>2, <1>7, <2>2
<1>10. ASSUME NEW i \in 1..n, NEW j \in 1..n, i < j
       PROVE  key[s[i]] < key[s[j]]
    <2>1. s[i] \in set /\ s[j] \in set /\ rank[s[i]] = i - 1 /\ rank[s[j]] = j - 1
        BY <1>7
    <2>2. rank[s[i]] < rank[s[j]]
        BY <1>10, <2>1
    <2>3. ~(key[s[j]] < key[s[i]])
        BY <1>1, <1>2, <1>10, <2>1
    <2>4. key[s[i]] # key[s[j]]
        BY <1>1, <1>10, <2>1 DEF IsKey
    <2> QED BY <1>5, <2>1, <2>3, <2>4
<1>11. \A x \in set : \E i \in 1..Len(s) : s[i] = x
    BY <1>8, <1>9
<1>12. \A i \in 1..Len(s) : s[i] \in set
    BY <1>7, <1>8
<1>13. \A i, j \in 1..Len(s) : i < j => key[s[i]] < key[s[j]]
    BY <1>8, <1>10
<1> QED BY <1>1, <1>8, <1>11, <1>12, <1>13 DEF n

(* Of keys that are 0, 1, ..., n - 1, the one in place i is i - 1. *)
LEMMA DenseInOrder ==
    ASSUME NEW set, IsFiniteSet(set), NEW key, IsKey(key, set),
           NEW s, s = InOrder(set, key),
           NEW n \in Nat, {key[x] : x \in set} = 0..(n - 1)
    PROVE  Len(s) = n /\ \A i \in 1..n : s[i] \in set /\ key[s[i]] = i - 1
<1>1. \A x \in set : key[x] \in 0..(n - 1)
    OBVIOUS
<1>2. \A k \in 0..(n - 1) : \E x \in set : key[x] = k
    OBVIOUS
<1>3. \A x, y \in set : key[x] = key[y] => x = y
    BY DEF IsKey
<1>4. key \in [set -> 0..(n - 1)]
    BY <1>1 DEF IsKey
<1>5. key \in Bijection(set, 0..(n - 1))
    BY <1>2, <1>3, <1>4 DEF Bijection, Injection, Surjection, IsInjective
<1>6. Cardinality(set) = n
    <2>1. ExistsBijection(set, 0..(n - 1))
        BY <1>5 DEF ExistsBijection
    <2> QED BY <2>1, UpTo, FS_Bijection
<1>7. /\ Len(s) = n
      /\ \A i \in 1..n : s[i] \in set
      /\ \A x \in set : \E i \in 1..n : s[i] = x
      /\ \A i, j \in 1..n : i < j => key[s[i]] < key[s[j]]
    BY <1>6, InOrderSorts
<1>8. ASSUME NEW x \in set
      PROVE  Rank(set, key)[x] = key[x]
    <2> DEFINE below == {y \in set : key[y] < key[x]}
               restricted == [y \in below |-> key[y]]
    <2>1. key[x] \in Nat /\ key[x] <= n - 1
        BY <1>1
    <2>2. restricted \in [below -> 0..(key[x] - 1)]
        BY <1>1, <2>1
    <2>3. \A y, z \in below : restricted[y] = restricted[z] => y = z
        BY <1>3
    <2>4. \A k \in 0..(key[x] - 1) : \E y \in below : restricted[y] = k
        <3> SUFFICES ASSUME NEW k \in 0..(key[x] - 1)
                     PROVE  \E y \in below : restricted[y] = k
            OBVIOUS
        <3>1. k \in 0..(n - 1) /\ k < key[x]
            BY <2>1
        <3>2. PICK y \in set : key[y] = k
            BY <1>2, <3>1
        <3> QED BY <3>1, <3>2
    <2> HIDE DEF restricted
    <2>5. restricted \in Bijection(below, 0..(key[x] - 1))
        BY <2>2, <2>3, <2>4 DEF Bijection, Injection, Surjection, IsInjective
    <2>6. IsFiniteSet(below)
        BY FS_Subset
    <2> HIDE DEF below
    <2>7. Cardinality(below) = key[x]
        <3>1. ExistsBijection(below, 0..(key[x] - 1))
            BY <2>5 DEF ExistsBijection
        <3> QED BY <2>1, <2>6, <3>1, UpTo, FS_Bijection
    <2> QED BY <2>7 DEF Rank, below
<1>9. ASSUME NEW i \in 1..n
      PROVE  s[i] \in set /\ key[s[i]] = i - 1
    <2>1. i - 1 \in 0..(n - 1)
        OBVIOUS
    <2>2. PICK x \in set : key[x] = i - 1
        BY <1>2, <2>1
    <2>3. \E z \in set : Cardinality({y \in set : key[y] < key[z]}) = i - 1
        BY <1>8, <2>2 DEF Rank
    <2>4. s[i] = CHOOSE z \in set : Cardinality({y \in set : key[y] < key[z]}) = i - 1
        BY <1>6 DEF InOrder
    <2>5. s[i] \in set /\ Cardinality({y \in set : key[y] < key[s[i]]}) = i - 1
        BY <2>3, <2>4
    <2> QED BY <1>8, <2>5 DEF Rank
<1> QED BY <1>7, <1>9

-----------------------------------------------------------------------------
(* Chains: the events of one segment by sequence, all sequences different. *)

OfSegment(events, s) ==
    /\ IsFiniteSet(events)
    /\ \A e \in events : e.seg = s /\ e.sequence \in Nat
    /\ \A e, f \in events : e.sequence = f.sequence => e = f

LEMMA ChainSorts ==
    ASSUME NEW events, NEW s, OfSegment(events, s), NEW chain, chain = BySequence(events)
    PROVE  /\ chain \in Seq(events)
           /\ \A i \in 1..Len(chain) : chain[i] \in events
           /\ \A e \in events : \E i \in 1..Len(chain) : chain[i] = e
           /\ \A i, j \in 1..Len(chain) : i < j => chain[i].sequence < chain[j].sequence
           /\ chain = <<>> <=> events = {}
           /\ Len(chain) \in Nat /\ DOMAIN chain = 1..Len(chain)
<1> DEFINE key == [e \in events |-> e.sequence]
<1>1. IsFiniteSet(events) /\ IsKey(key, events)
    BY DEF OfSegment, IsKey
<1>2. chain = InOrder(events, key) /\ \A e \in events : key[e] = e.sequence
    BY DEF BySequence
<1> HIDE DEF key
<1>3. /\ chain \in Seq(events)
      /\ \A i \in 1..Len(chain) : chain[i] \in events
      /\ \A e \in events : \E i \in 1..Len(chain) : chain[i] = e
      /\ \A i, j \in 1..Len(chain) : i < j => key[chain[i]] < key[chain[j]]
    BY <1>1, <1>2, InOrderSorts
<1>4. \A i, j \in 1..Len(chain) : i < j => chain[i].sequence < chain[j].sequence
    BY <1>2, <1>3
<1>5. chain = <<>> <=> events = {}
    BY <1>3
<1> QED BY <1>3, <1>4, <1>5

(* A chain that verifies, in either way, has intact events whose sequences *)
(* follow one another.                                                     *)
Consecutive(chain) ==
    \A i \in 1..Len(chain) : chain[i].intact /\ chain[i].sequence = chain[1].sequence + i - 1

LEMMA ChainVerifiesIs ==
    ASSUME NEW events, NEW s, OfSegment(events, s), NEW chain, chain = BySequence(events)
    PROVE  ChainVerifies(chain) <=> events # {} /\ Consecutive(chain)
<1>1. /\ \A i \in 1..Len(chain) : chain[i] \in events
      /\ chain = <<>> <=> events = {}
      /\ chain \in Seq(events) /\ Len(chain) \in Nat /\ DOMAIN chain = 1..Len(chain)
    BY ChainSorts
<1>2. \A i \in 1..Len(chain) : chain[i].seg = s /\ chain[i].sequence \in Nat
    BY <1>1 DEF OfSegment
<1>3. chain # <<>> => 1 \in 1..Len(chain)
    BY <1>1
<1>4. ASSUME ChainVerifies(chain)
      PROVE  events # {} /\ Consecutive(chain)
    BY <1>1, <1>4 DEF ChainVerifies, Consecutive, EventVerifies
<1>5. ASSUME events # {}, Consecutive(chain)
      PROVE  ChainVerifies(chain)
    <2>1. chain # <<>> /\ 1 \in 1..Len(chain)
        BY <1>1, <1>3, <1>5
    <2>2. ASSUME NEW i \in 1..Len(chain), i # 1
          PROVE  PrevHash(chain[i]) = Hash(chain[i - 1])
        <3>1. i - 1 \in 1..Len(chain)
            BY <1>1, <2>2
        <3>2. chain[i].sequence = chain[1].sequence + i - 1
            BY <1>5 DEF Consecutive
        <3>3. chain[i - 1].sequence = chain[1].sequence + (i - 1) - 1
            BY <1>5, <3>1 DEF Consecutive
        <3>4. chain[1].sequence \in Nat /\ chain[i].seg = s /\ chain[i - 1].seg = s
            BY <1>2, <2>1, <3>1
        <3>5. chain[i].sequence # 0 /\ chain[i].sequence - 1 = chain[i - 1].sequence
            BY <1>1, <2>2, <3>2, <3>3, <3>4
        <3> QED BY <3>4, <3>5 DEF PrevHash, Hash
    <2>3. chain[1].sequence = 0 => PrevHash(chain[1]) = None
        BY DEF PrevHash
    <2>4. \A i \in 1..Len(chain) :
              /\ chain[i].intact /\ chain[i].seg = chain[1].seg
              /\ chain[i].sequence = chain[1].sequence + i - 1
        BY <1>2, <1>5, <2>1 DEF Consecutive
    <2> QED BY <1>1, <2>1, <2>2, <2>3, <2>4 DEF ChainVerifies, EventVerifies
<1> QED BY <1>4, <1>5

(* Comparing each event with the one before comes to the same.             *)
LEMMA PairwiseVerifiesIs ==
    ASSUME NEW events, NEW s, OfSegment(events, s), NEW chain, chain = BySequence(events)
    PROVE  PairwiseChainVerifies(chain) <=> events # {} /\ Consecutive(chain)
<1>1. /\ \A i \in 1..Len(chain) : chain[i] \in events
      /\ chain = <<>> <=> events = {}
      /\ chain \in Seq(events) /\ Len(chain) \in Nat /\ DOMAIN chain = 1..Len(chain)
    BY ChainSorts
<1>2. \A i \in 1..Len(chain) : chain[i].seg = s /\ chain[i].sequence \in Nat
    BY <1>1 DEF OfSegment
<1>3. ASSUME PairwiseChainVerifies(chain)
      PROVE  events # {} /\ Consecutive(chain)
    <2>1. /\ events # {} /\ 1 \in 1..Len(chain)
          /\ \A i \in 1..Len(chain) : chain[i].intact
          /\ \A i \in 2..Len(chain) : chain[i].sequence = chain[i - 1].sequence + 1
        BY <1>1, <1>3 DEF PairwiseChainVerifies, EventVerifies
    <2> DEFINE Wrong == {i \in 1..Len(chain) : chain[i].sequence # chain[1].sequence + i - 1}
    <2>2. Wrong = {}
        <3> SUFFICES ASSUME Wrong # {}
                     PROVE  FALSE
            OBVIOUS
        <3>1. PICK i \in Wrong : \A j \in Wrong : i <= j
            <4>1. Wrong \in SUBSET Nat
                OBVIOUS
            <4> HIDE DEF Wrong
            <4> QED BY <4>1, Least
        <3>2. i \in 1..Len(chain) /\ chain[i].sequence # chain[1].sequence + i - 1
            OBVIOUS
        <3>3. chain[1].sequence \in Nat
            BY <1>2, <2>1
        <3>4. i # 1
            BY <3>2, <3>3
        <3>5. i \in 2..Len(chain) /\ i - 1 \in 1..Len(chain)
            BY <1>1, <3>2, <3>4
        <3>6. i - 1 \notin Wrong
            BY <3>1, <3>2
        <3>7. chain[i - 1].sequence = chain[1].sequence + (i - 1) - 1
            BY <3>5, <3>6
        <3>8. chain[i].sequence = chain[i - 1].sequence + 1
            BY <2>1, <3>5
        <3> QED BY <3>2, <3>3, <3>7, <3>8
    <2> QED BY <2>1, <2>2 DEF Consecutive
<1>4. ASSUME events # {}, Consecutive(chain)
      PROVE  PairwiseChainVerifies(chain)
    <2>1. ChainVerifies(chain)
        BY <1>4, ChainVerifiesIs
    <2>2. /\ chain # <<>> /\ 1 \in 1..Len(chain)
          /\ \A i \in 1..Len(chain) : EventVerifies(chain[i])
          /\ chain[1].sequence = 0 => PrevHash(chain[1]) = None
        BY <1>1, <2>1 DEF ChainVerifies
    <2>3. ASSUME NEW i \in 2..Len(chain)
          PROVE  /\ chain[i].seg = chain[i - 1].seg
                 /\ chain[i].sequence = chain[i - 1].sequence + 1
                 /\ PrevHash(chain[i]) = Hash(chain[i - 1])
        <3>1. i \in 1..Len(chain) /\ i - 1 \in 1..Len(chain) /\ i # 1
            BY <1>1
        <3>2. PrevHash(chain[i]) = Hash(chain[i - 1])
            BY <1>1, <2>1, <3>1 DEF ChainVerifies
        <3>3. /\ chain[i].sequence = chain[1].sequence + i - 1
              /\ chain[i - 1].sequence = chain[1].sequence + (i - 1) - 1
            BY <1>4, <3>1 DEF Consecutive
        <3>4. chain[1].sequence \in Nat /\ chain[i].seg = s /\ chain[i - 1].seg = s
            BY <1>2, <2>2, <3>1
        <3> QED BY <3>1, <3>2, <3>3, <3>4
    <2> QED BY <1>1, <2>2, <2>3 DEF PairwiseChainVerifies
<1> QED BY <1>3, <1>4

(* Between two events of a chain that verifies nothing is missing. *)
LEMMA VerifiedChainsAreWhole ==
    ASSUME NEW events, NEW s, OfSegment(events, s), ChainVerifies(BySequence(events))
    PROVE  /\ \A e \in events : e.intact
           /\ \A e, f \in events : \A n \in e.sequence..f.sequence :
                  \E g \in events : g.sequence = n
<1>1. PICK chain : chain = BySequence(events)
    OBVIOUS
<1>2. /\ \A i \in 1..Len(chain) : chain[i] \in events
      /\ \A e \in events : \E i \in 1..Len(chain) : chain[i] = e
      /\ Len(chain) \in Nat
    BY <1>1, ChainSorts
<1>3. Consecutive(chain)
    BY <1>1, ChainVerifiesIs
<1>4. ASSUME NEW e \in events, NEW f \in events, NEW n \in e.sequence..f.sequence
      PROVE  \E g \in events : g.sequence = n
    <2>1. PICK i \in 1..Len(chain) : chain[i] = e
        BY <1>2
    <2>2. PICK j \in 1..Len(chain) : chain[j] = f
        BY <1>2
    <2>3. /\ e.sequence = chain[1].sequence + i - 1
          /\ f.sequence = chain[1].sequence + j - 1
        BY <1>3, <2>1, <2>2 DEF Consecutive
    <2>4. chain[1].sequence \in Nat /\ 1 \in 1..Len(chain)
        BY <1>2, <2>1 DEF OfSegment
    <2>5. PICK a \in Nat : a = chain[1].sequence
        BY <2>4
    <2>6. PICK m \in Nat : m = Len(chain)
        BY <1>2
    <2>7. n \in (a + i - 1)..(a + j - 1) /\ i \in 1..m /\ j \in 1..m
        BY <2>1, <2>2, <2>3, <2>5, <2>6
    <2>8. PICK k \in 1..m : a + k - 1 = n
        <3>1. n - a + 1 \in 1..m /\ a + (n - a + 1) - 1 = n
            BY <2>7
        <3> QED BY <3>1
    <2> QED BY <1>2, <1>3, <2>5, <2>6, <2>8 DEF Consecutive
<1> QED BY <1>2, <1>3, <1>4 DEF Consecutive

(* A close that verifies has its events, all and no others. *)
LEMMA VerifiedClosesAreWhole ==
    ASSUME NEW events, NEW c, OfSegment(events, c.seg), c.count \in Nat,
           ChainVerifies(BySequence(events)), CloseMatches(c, BySequence(events))
    PROVE  /\ c.intact
           /\ \A e \in events : e.intact /\ e.sequence \in 0..(c.count - 1)
           /\ \A n \in 0..(c.count - 1) : \E e \in events : e.sequence = n
<1>1. PICK chain : chain = BySequence(events)
    OBVIOUS
<1>2. /\ \A i \in 1..Len(chain) : chain[i] \in events
      /\ \A e \in events : \E i \in 1..Len(chain) : chain[i] = e
      /\ Len(chain) \in Nat
    BY <1>1, ChainSorts
<1>3. Consecutive(chain)
    BY <1>1, ChainVerifiesIs
<1>4. c.intact /\ Len(chain) = c.count /\ chain[1].sequence = 0
    BY <1>1 DEF CloseMatches, Hash
<1>5. \A i \in 1..c.count : chain[i] \in events /\ chain[i].intact /\ chain[i].sequence = i - 1
    BY <1>2, <1>3, <1>4 DEF Consecutive
<1>6. \A e \in events : e.intact /\ e.sequence \in 0..(c.count - 1)
    BY <1>2, <1>4, <1>5
<1>7. ASSUME NEW n \in 0..(c.count - 1)
      PROVE  \E e \in events : e.sequence = n
    <2>1. n + 1 \in 1..c.count /\ (n + 1) - 1 = n
        OBVIOUS
    <2> QED BY <1>5, <2>1
<1> QED BY <1>4, <1>6, <1>7

(* Intact events 0, 1, ..., n - 1 of a segment verify, and so does a close *)
(* that counts them.                                                       *)
LEMMA WholeChainsVerify ==
    ASSUME NEW events, NEW s, OfSegment(events, s), events # {},
           \A e \in events : e.intact,
           NEW n \in Nat, {e.sequence : e \in events} = 0..(n - 1)
    PROVE  /\ ChainVerifies(BySequence(events)) /\ PairwiseChainVerifies(BySequence(events))
           /\ \A c : c.intact /\ c.seg = s /\ c.count = n => CloseMatches(c, BySequence(events))
<1> DEFINE key == [e \in events |-> e.sequence]
<1>1. PICK chain : chain = BySequence(events)
    OBVIOUS
<1>2. IsFiniteSet(events) /\ IsKey(key, events) /\ chain = InOrder(events, key)
    BY <1>1 DEF OfSegment, IsKey, BySequence
<1>3. {key[e] : e \in events} = 0..(n - 1) /\ \A e \in events : key[e] = e.sequence
    OBVIOUS
<1> HIDE DEF key
<1>4. Len(chain) = n /\ \A i \in 1..n : chain[i] \in events /\ key[chain[i]] = i - 1
    BY <1>2, <1>3, DenseInOrder
<1>5. \A i \in 1..n : chain[i].intact /\ chain[i].seg = s /\ chain[i].sequence = i - 1
    BY <1>3, <1>4 DEF OfSegment
<1>6. chain # <<>> /\ DOMAIN chain = 1..Len(chain)
    BY <1>1, ChainSorts
<1>7. n >= 1 /\ 1 \in 1..n /\ n \in 1..n
    <2>1. PICK e \in events : TRUE
        OBVIOUS
    <2>2. e.sequence \in 0..(n - 1)
        OBVIOUS
    <2> QED BY <2>2
<1>8. Consecutive(chain)
    BY <1>4, <1>5, <1>7 DEF Consecutive
<1>9. ChainVerifies(chain) /\ PairwiseChainVerifies(chain)
    BY <1>1, <1>8, ChainVerifiesIs, PairwiseVerifiesIs
<1>10. ASSUME NEW c, c.intact, c.seg = s, c.count = n
       PROVE  CloseMatches(c, chain)
    BY <1>4, <1>5, <1>6, <1>7, <1>10 DEF CloseMatches, Hash
<1> QED BY <1>1, <1>9, <1>10

-----------------------------------------------------------------------------
(* The closes of one writer by segment_sequence, all numbers different. *)

OfOneWriter(closes, w) ==
    /\ IsFiniteSet(closes)
    /\ \A c \in closes : c.seg \in Segs /\ c.seg.writer = w
    /\ \A c, d \in closes : c.seg = d.seg => c = d

LEMMA ClosesSort ==
    ASSUME NEW closes, NEW w, OfOneWriter(closes, w), NEW list, list = ByNumber(closes)
    PROVE  /\ list \in Seq(closes)
           /\ \A i \in 1..Len(list) : list[i] \in closes
           /\ \A c \in closes : \E i \in 1..Len(list) : list[i] = c
           /\ \A i, j \in 1..Len(list) : i < j => list[i].seg.number < list[j].seg.number
           /\ list = <<>> <=> closes = {}
           /\ Len(list) \in Nat /\ DOMAIN list = 1..Len(list)
           /\ \A n \in Nat : {c.seg.number : c \in closes} = 0..(n - 1) =>
                  Len(list) = n /\ \A i \in 1..n : list[i].seg.number = i - 1
<1> DEFINE key == [c \in closes |-> c.seg.number]
<1>1. \A c \in closes : c.seg.number \in Nat
    BY VerificationBounds DEF OfOneWriter, Segs
<1>2. \A c, d \in closes : c.seg.number = d.seg.number => c = d
    <2>1. \A c, d \in closes : c.seg.number = d.seg.number => c.seg = d.seg
        BY DEF OfOneWriter, Segs
    <2> QED BY <2>1 DEF OfOneWriter
<1>3. IsFiniteSet(closes) /\ IsKey(key, closes)
    BY <1>1, <1>2 DEF OfOneWriter, IsKey
<1>4. list = InOrder(closes, key) /\ (\A c \in closes : key[c] = c.seg.number)
      /\ {key[c] : c \in closes} = {c.seg.number : c \in closes}
    BY DEF ByNumber
<1> HIDE DEF key
<1>5. /\ list \in Seq(closes)
      /\ \A i \in 1..Len(list) : list[i] \in closes
      /\ \A c \in closes : \E i \in 1..Len(list) : list[i] = c
      /\ \A i, j \in 1..Len(list) : i < j => key[list[i]] < key[list[j]]
    BY <1>3, <1>4, InOrderSorts
<1>6. \A i, j \in 1..Len(list) : i < j => list[i].seg.number < list[j].seg.number
    BY <1>4, <1>5
<1>7. list = <<>> <=> closes = {}
    BY <1>5
<1>8. ASSUME NEW n \in Nat, {c.seg.number : c \in closes} = 0..(n - 1)
      PROVE  Len(list) = n /\ \A i \in 1..n : list[i].seg.number = i - 1
    <2>1. {key[c] : c \in closes} = 0..(n - 1)
        BY <1>4, <1>8
    <2>2. Len(list) = n /\ \A i \in 1..n : list[i] \in closes /\ key[list[i]] = i - 1
        BY <1>3, <1>4, <2>1, DenseInOrder
    <2>3. ASSUME NEW i \in 1..n
          PROVE  list[i].seg.number = i - 1
        <3>1. list[i] \in closes /\ key[list[i]] = i - 1
            BY <2>2
        <3>2. key[list[i]] = list[i].seg.number
            BY <1>4, <3>1
        <3> QED BY <3>1, <3>2
    <2>4. Len(list) = n
        BY <2>2
    <2> QED BY <2>3, <2>4
<1>9. \A n \in Nat : {c.seg.number : c \in closes} = 0..(n - 1) =>
          Len(list) = n /\ \A i \in 1..n : list[i].seg.number = i - 1
    BY <1>8
<1>10. Len(list) \in Nat /\ DOMAIN list = 1..Len(list)
    BY <1>5
<1> QED BY ONLY <1>5, <1>6, <1>7, <1>9, <1>10

(* A list of closes has every close once, by ascending number.             *)
LEMMA ListedCloses ==
    ASSUME NEW closes, NEW w, OfOneWriter(closes, w), NEW list, list = ByNumber(closes)
    PROVE  /\ Len(list) \in Nat /\ DOMAIN list = 1..Len(list)
           /\ list = <<>> <=> closes = {}
           /\ \A i \in 1..Len(list) : list[i] \in closes
           /\ \A c \in closes : \E i \in 1..Len(list) : list[i] = c
           /\ \A i, j \in 1..Len(list) : i < j => list[i].seg.number < list[j].seg.number
<1>1. /\ \A i \in 1..Len(list) : list[i] \in closes
      /\ \A c \in closes : \E i \in 1..Len(list) : list[i] = c
      /\ \A i, j \in 1..Len(list) : i < j => list[i].seg.number < list[j].seg.number
    BY ClosesSort
<1>2. /\ list = <<>> <=> closes = {}
      /\ Len(list) \in Nat /\ DOMAIN list = 1..Len(list)
    BY ClosesSort
<1> QED BY ONLY <1>1, <1>2

(* A chain of closes from number 0 on is judged alike.                     *)
LEMMA CloseChainsAgree ==
    ASSUME NEW closes, NEW w, OfOneWriter(closes, w), NEW list, list = ByNumber(closes)
    PROVE  /\ FromZero(list) => (SequenceVerifies(list) <=> SequenceFromZeroVerifies(list))
           /\ SequenceFromZeroVerifies(list) => FromZero(list)
<1>1. /\ \A i \in 1..Len(list) : list[i] \in closes
      /\ list = <<>> <=> closes = {}
      /\ Len(list) \in Nat /\ DOMAIN list = 1..Len(list)
    BY ClosesSort
<1>2. \A i \in 1..Len(list) : list[i].seg.writer = w
    BY <1>1 DEF OfOneWriter
<1>3. SequenceFromZeroVerifies(list) => FromZero(list)
    BY DEF SequenceFromZeroVerifies, FromZero
<1>4. ASSUME FromZero(list), list # <<>>
      PROVE  SequenceVerifies(list) <=> SequenceFromZeroVerifies(list)
    <2>1. 1 \in 1..Len(list) /\ list[1].seg.number = 0 /\ PrevDigest(list[1]) = None
        <3>1. list \in Seq(closes) /\ 1 \in 1..Len(list)
            BY <1>1, <1>4, ClosesSort
        <3>2. list[1].seg.number = 1 - 1
            BY <1>1, <1>4, <3>1 DEF FromZero
        <3>3. list[1].seg.number = 0
            BY <3>2
        <3> QED BY <3>1, <3>3 DEF PrevDigest
    <2>2. \A i \in 1..Len(list) : list[i].seg.number = i - 1 /\ i - 1 = 0 + i - 1
        BY <1>1, <1>4 DEF FromZero
    <2>3. \A i \in 1..Len(list) : list[i].seg.writer = list[1].seg.writer
        BY <1>2, <2>1
    <2>4. SequenceVerifies(list) <=>
              \A i \in 1..Len(list) : i # 1 => PrevDigest(list[i]) = Digest(list[i - 1])
        BY <1>1, <1>4, <2>1, <2>2, <2>3 DEF SequenceVerifies
    <2>5. SequenceFromZeroVerifies(list) <=>
              \A i \in 1..Len(list) : i # 1 => PrevDigest(list[i]) = Digest(list[i - 1])
        BY <1>1, <1>4, <2>1, <2>2 DEF SequenceFromZeroVerifies
    <2> QED BY <2>4, <2>5
<1>5. list = <<>> => ~SequenceVerifies(list) /\ ~SequenceFromZeroVerifies(list)
    BY DEF SequenceVerifies, SequenceFromZeroVerifies
<1> QED BY <1>3, <1>4, <1>5

-----------------------------------------------------------------------------
(* The history that was recorded, and its copies. *)

KeyOrder(keys) ==
    /\ \A i \in DOMAIN keys : keys[i].kind # "genesis" => keys[i].new = keys[i].old + 1
    /\ \A i, j \in DOMAIN keys : i < j => keys[i].new < keys[j].new

(* Segments are recorded and closed one after the other, events within a   *)
(* segment too.                                                            *)
EventsInOrder(t) ==
    /\ IsFiniteSet(t.events)
    /\ \A e \in t.events : e.intact
    /\ \A s \in Segs : {e.sequence : e \in EventsOf(t, s)} = 0..(Cardinality(EventsOf(t, s)) - 1)

ClosesInOrder(t) ==
    /\ IsFiniteSet(t.closes)
    /\ \A c \in t.closes : /\ c.intact /\ c.seg \in HeldSegs(t)
                           /\ c.count = Cardinality(EventsOf(t, c.seg))
    /\ \A c, d \in t.closes : c.seg = d.seg => c = d
    /\ \A w \in Writers : Numbers(t, w) = 0..(Cardinality(Numbers(t, w)) - 1)
    /\ t.anchors \subseteq ClosedSegs(t)

KeysInOrder(t) ==
    /\ t.keys # <<>> /\ t.keys[1].kind = "genesis"
    /\ \A i \in DOMAIN t.keys : t.keys[i].new = i
    /\ \A i \in 2..Len(t.keys) : t.keys[i].kind # "genesis" /\ t.keys[i].old = i - 1
    /\ \A i \in DOMAIN t.auths : t.auths[i].signer \in KeysetOf(t.keys)

History(t) == t \in Evidence /\ EventsInOrder(t) /\ ClosesInOrder(t) /\ KeysInOrder(t)

(* What is held was recorded, whole or altered, and once.                  *)
CopiedEvents(h, t) ==
    /\ IsFiniteSet(h.events)
    /\ \A e \in h.events : \E f \in t.events : f.seg = e.seg /\ f.sequence = e.sequence
    /\ \A e, f \in h.events : e.seg = f.seg /\ e.sequence = f.sequence => e = f

CopiedCloses(h, t) ==
    /\ IsFiniteSet(h.closes)
    /\ \A c \in h.closes : \E d \in t.closes : d.seg = c.seg /\ d.count = c.count /\ d.day = c.day
    /\ \A c, d \in h.closes : c.seg = d.seg => c = d

CopyOf(h, t) ==
    /\ h \in Evidence
    /\ CopiedEvents(h, t) /\ CopiedCloses(h, t)
    /\ h.anchors \subseteq t.anchors
    /\ KeyOrder(h.keys)

AuditInv ==
    /\ History(truth) /\ CopyOf(held, truth)
    /\ handed \in BOOLEAN /\ damage \in 0..MaxDamage
    /\ ~handed => held = Nothing

-----------------------------------------------------------------------------
(* Recording *)

LEMMA EvidenceFields ==
    ASSUME NEW t \in Evidence
    PROVE  /\ t.events \subseteq Events /\ t.closes \subseteq Closes
           /\ t.auths \in Seq(Auths) /\ t.keys \in Seq(KeyRecords)
           /\ t.anchors \subseteq Segs /\ t.certs \in BOOLEAN
BY DEF Evidence

(* Events that are recorded differ in their places. *)
LEMMA RecordedEventsDiffer ==
    ASSUME NEW t, History(t), NEW e \in t.events, NEW f \in t.events,
           e.seg = f.seg, e.sequence = f.sequence
    PROVE  e = f
<1>1. e \in Events /\ f \in Events
    BY EvidenceFields DEF History
<1>2. e.intact = TRUE /\ f.intact = TRUE
    BY <1>1 DEF History, EventsInOrder, Events
<1> QED BY <1>1, <1>2 DEF Events

(* The segment that a writer records is not closed. *)
LEMMA OpenIsNotClosed ==
    ASSUME History(truth), NEW w \in Writers
    PROVE  /\ IsFiniteSet(Numbers(truth, w)) /\ Cardinality(Numbers(truth, w)) \in Nat
           /\ \A c \in truth.closes : c.seg # OpenSeg(w)
<1>1. \A c \in truth.closes : c.seg \in Segs
    BY EvidenceFields DEF History, Closes
<1>2. Numbers(truth, w) \subseteq 0..(MaxSegs - 1)
    BY <1>1 DEF Numbers, Segs
<1>3. IsFiniteSet(Numbers(truth, w)) /\ Cardinality(Numbers(truth, w)) \in Nat
    <2>1. IsFiniteSet(0..(MaxSegs - 1))
        BY UpTo, VerificationBounds
    <2> QED BY <1>2, <2>1, FS_Subset, FS_CardinalityType
<1>4. ASSUME NEW c \in truth.closes, c.seg = OpenSeg(w)
      PROVE  FALSE
    <2>1. c.seg.writer = w /\ c.seg.number = Cardinality(Numbers(truth, w))
        BY <1>4 DEF OpenSeg
    <2>2. c.seg.number \in Numbers(truth, w)
        BY <2>1 DEF Numbers
    <2>3. c.seg.number \in 0..(Cardinality(Numbers(truth, w)) - 1)
        BY <2>2 DEF History, ClosesInOrder
    <2> QED BY <1>3, <2>1, <2>3
<1> QED BY <1>3, <1>4

LEMMA EventsFinite ==
    ASSUME NEW t, IsFiniteSet(t.events), NEW s
    PROVE  IsFiniteSet(EventsOf(t, s)) /\ Cardinality(EventsOf(t, s)) \in Nat
BY FS_Subset, FS_CardinalityType DEF EventsOf

LEMMA RecordKeeps ==
    ASSUME History(truth), NEW w \in Writers, Record(w)
    PROVE  History(truth')
<1>1. PICK t : t = truth'
    OBVIOUS
<1> DEFINE s == OpenSeg(w)
           n == Cardinality(EventsOf(truth, s))
           new == [seg |-> s, sequence |-> n, intact |-> TRUE]
<1>2. s \in Segs /\ n < MaxEvents /\ n \in Nat
    BY EventsFinite DEF Record, History, EventsInOrder
<1>3. new \in Events
    BY <1>2, VerificationBounds DEF Events
<1>4. /\ t.events = truth.events \cup {new} /\ t.closes = truth.closes /\ t.auths = truth.auths
      /\ t.keys = truth.keys /\ t.anchors = truth.anchors /\ t \in Evidence
    BY <1>1, <1>3 DEF Record, History, Evidence
<1>5. /\ EventsOf(t, s) = EventsOf(truth, s) \cup {new}
      /\ \A x \in Segs \ {s} : EventsOf(t, x) = EventsOf(truth, x)
    BY <1>4 DEF EventsOf
<1>6. new.sequence = n /\ new.intact /\ new.seg = s
    OBVIOUS
<1>7. {e.sequence : e \in EventsOf(truth, s)} = 0..(n - 1)
    BY <1>2 DEF History, EventsInOrder
<1> HIDE DEF s, n, new
<1>8. new \notin EventsOf(truth, s)
    <2>1. n \notin 0..(n - 1)
        BY <1>2
    <2> QED BY <1>6, <1>7, <2>1
<1>9. Cardinality(EventsOf(t, s)) = n + 1
    <2>1. IsFiniteSet(EventsOf(truth, s))
        BY EventsFinite DEF History, EventsInOrder
    <2> QED BY <1>5, <1>8, <2>1, FS_AddElement DEF n
<1>10. {e.sequence : e \in EventsOf(t, s)} = 0..n
    <2>1. {e.sequence : e \in EventsOf(t, s)} = {e.sequence : e \in EventsOf(truth, s)} \cup {n}
        BY <1>5, <1>6
    <2> QED BY <1>2, <1>7, <2>1
<1>11. EventsInOrder(t)
    <2>1. IsFiniteSet(t.events)
        BY <1>4, FS_AddElement DEF History, EventsInOrder
    <2>2. \A e \in t.events : e.intact
        BY <1>4, <1>6 DEF History, EventsInOrder
    <2>3. ASSUME NEW x \in Segs
          PROVE  {e.sequence : e \in EventsOf(t, x)} = 0..(Cardinality(EventsOf(t, x)) - 1)
        <3>1. CASE x = s
            <4>1. n = (n + 1) - 1
                BY <1>2
            <4> QED BY <1>9, <1>10, <3>1, <4>1
        <3>2. CASE x # s
            BY <1>5, <3>2 DEF History, EventsInOrder
        <3> QED BY <3>1, <3>2
    <2> QED BY <2>1, <2>2, <2>3 DEF EventsInOrder
<1>12. ClosesInOrder(t)
    <2>1. \A c \in truth.closes : c.seg # s /\ c.seg \in Segs
        BY OpenIsNotClosed, EvidenceFields DEF History, Closes, s
    <2>2. \A c \in t.closes : /\ c.intact /\ c.seg \in HeldSegs(t)
                              /\ c.count = Cardinality(EventsOf(t, c.seg))
        BY <1>4, <1>5, <2>1 DEF History, ClosesInOrder, HeldSegs
    <2>3. \A x \in Writers : Numbers(t, x) = Numbers(truth, x)
        BY <1>4 DEF Numbers
    <2>4. ClosedSegs(t) = ClosedSegs(truth)
        BY <1>4 DEF ClosedSegs
    <2>5. /\ IsFiniteSet(t.closes) /\ \A c, d \in t.closes : c.seg = d.seg => c = d
          /\ t.anchors \subseteq ClosedSegs(t)
        BY <1>4, <2>4 DEF History, ClosesInOrder
    <2>6. \A x \in Writers : Numbers(t, x) = 0..(Cardinality(Numbers(t, x)) - 1)
        BY <2>3 DEF History, ClosesInOrder
    <2> QED BY <2>2, <2>5, <2>6 DEF ClosesInOrder
<1>13. KeysInOrder(t)
    BY <1>4 DEF History, KeysInOrder
<1> QED BY <1>1, <1>4, <1>11, <1>12, <1>13 DEF History

LEMMA CloseKeeps ==
    ASSUME History(truth), NEW w \in Writers, NEW day \in Days, Close(w, day)
    PROVE  History(truth')
<1>1. PICK t : t = truth'
    OBVIOUS
<1> DEFINE s == OpenSeg(w)
           n == Cardinality(EventsOf(truth, s))
           k == Cardinality(Numbers(truth, w))
           new == [seg |-> s, count |-> n, day |-> day, intact |-> TRUE]
<1>2. n > 0 /\ n \in Nat /\ k \in Nat /\ IsFiniteSet(EventsOf(truth, s))
    BY EventsFinite, OpenIsNotClosed DEF Close, History, EventsInOrder
<1>3. PICK e \in EventsOf(truth, s) : TRUE
    <2>1. EventsOf(truth, s) # {}
        BY <1>2, FS_EmptySet
    <2> QED BY <2>1
<1>4. e \in Events /\ e.seg = s /\ s \in Segs
    BY <1>3, EvidenceFields DEF History, EventsOf, Events
<1>5. {f.sequence : f \in EventsOf(truth, s)} = 0..(n - 1)
    BY <1>4 DEF History, EventsInOrder
<1>6. n \in 1..MaxEvents
    <2>1. n - 1 \in 0..(n - 1)
        BY <1>2
    <2>2. PICK f \in EventsOf(truth, s) : f.sequence = n - 1
        BY <1>5, <2>1
    <2>3. f.sequence \in 0..(MaxEvents - 1)
        BY EvidenceFields DEF History, EventsOf, Events
    <2> QED BY <1>2, <2>2, <2>3, VerificationBounds
<1>7. new \in Closes
    BY <1>4, <1>6 DEF Closes
<1>8. /\ t.closes = truth.closes \cup {new} /\ t.events = truth.events /\ t.auths = truth.auths
      /\ t.keys = truth.keys /\ t.anchors = truth.anchors /\ t \in Evidence
    BY <1>1, <1>7 DEF Close, History, Evidence
<1>9. new.seg = s /\ new.count = n /\ new.intact /\ s.writer = w /\ s.number = k
    BY DEF OpenSeg
<1>10. \A c \in truth.closes : c.seg # s
    BY OpenIsNotClosed
<1>11. \A x : EventsOf(t, x) = EventsOf(truth, x)
    BY <1>8 DEF EventsOf
<1>12. HeldSegs(t) = HeldSegs(truth) /\ s \in HeldSegs(t)
    BY <1>3, <1>4, <1>8 DEF HeldSegs, EventsOf
<1>13. n = Cardinality(EventsOf(t, s))
    BY <1>11
<1> HIDE DEF s, n, new
<1>14. ASSUME NEW x \in Writers
       PROVE  Numbers(t, x) = 0..(Cardinality(Numbers(t, x)) - 1)
    <2>1. Numbers(truth, x) = 0..(Cardinality(Numbers(truth, x)) - 1)
        BY DEF History, ClosesInOrder
    <2>2. CASE x # w
        <3>1. Numbers(t, x) = Numbers(truth, x)
            BY <1>8, <1>9, <2>2 DEF Numbers
        <3> QED BY <2>1, <3>1
    <2>3. CASE x = w
        <3>1. Numbers(t, w) = Numbers(truth, w) \cup {k}
            BY <1>8, <1>9 DEF Numbers
        <3>2. k \notin Numbers(truth, w) /\ Numbers(truth, w) = 0..(k - 1)
            BY <1>2, <2>1, <2>3
        <3>3. IsFiniteSet(Numbers(truth, w))
            BY OpenIsNotClosed
        <3>4. Cardinality(Numbers(t, w)) = k + 1
            BY <3>1, <3>2, <3>3, FS_AddElement
        <3>5. Numbers(t, w) = 0..k /\ k = (k + 1) - 1
            BY <1>2, <3>1, <3>2
        <3> QED BY <2>3, <3>4, <3>5
    <2> QED BY <2>2, <2>3
<1>15. ClosesInOrder(t)
    <2>1. IsFiniteSet(t.closes)
        BY <1>8, FS_AddElement DEF History, ClosesInOrder
    <2>2. \A c \in t.closes : /\ c.intact /\ c.seg \in HeldSegs(t)
                              /\ c.count = Cardinality(EventsOf(t, c.seg))
        BY <1>8, <1>9, <1>11, <1>12, <1>13 DEF History, ClosesInOrder
    <2>3. \A c, d \in t.closes : c.seg = d.seg => c = d
        BY <1>8, <1>9, <1>10 DEF History, ClosesInOrder
    <2>4. t.anchors \subseteq ClosedSegs(t)
        BY <1>8 DEF History, ClosesInOrder, ClosedSegs
    <2> QED BY <1>14, <2>1, <2>2, <2>3, <2>4 DEF ClosesInOrder
<1>16. EventsInOrder(t)
    BY <1>8, <1>11 DEF History, EventsInOrder
<1>17. KeysInOrder(t)
    BY <1>8 DEF History, KeysInOrder
<1> QED BY <1>1, <1>8, <1>15, <1>16, <1>17 DEF History

(* A step that leaves the events and the closes alone. *)
LEMMA RecordedStays ==
    ASSUME History(truth), NEW t \in Evidence,
           t.events = truth.events, t.closes = truth.closes, t.anchors \subseteq ClosedSegs(truth)
    PROVE  EventsInOrder(t) /\ ClosesInOrder(t)
<1>1. (\A s : EventsOf(t, s) = EventsOf(truth, s)) /\ \A w : Numbers(t, w) = Numbers(truth, w)
    BY DEF EventsOf, Numbers
<1>2. ClosedSegs(t) = ClosedSegs(truth) /\ HeldSegs(t) = HeldSegs(truth)
    BY DEF ClosedSegs, HeldSegs
<1> QED BY <1>1, <1>2 DEF History, EventsInOrder, ClosesInOrder

LEMMA ActiveKeyIs ==
    ASSUME History(truth)
    PROVE  /\ Len(truth.keys) \in Nat \ {0} /\ DOMAIN truth.keys = 1..Len(truth.keys)
           /\ ActiveKey = Len(truth.keys) /\ ActiveKey \in Keys /\ ActiveKey \in KeysetOf(truth.keys)
<1>1. truth.keys \in Seq(KeyRecords) /\ truth.keys # <<>>
    BY EvidenceFields DEF History, KeysInOrder
<1>2. Len(truth.keys) \in Nat \ {0} /\ DOMAIN truth.keys = 1..Len(truth.keys)
    BY <1>1
<1>3. truth.keys[Len(truth.keys)] \in KeyRecords
    BY <1>1, <1>2
<1>4. truth.keys[Len(truth.keys)].new = Len(truth.keys)
    BY <1>2 DEF History, KeysInOrder
<1> QED BY <1>2, <1>3, <1>4 DEF ActiveKey, KeyRecords, KeysetOf

LEMMA AuthorizeKeeps ==
    ASSUME History(truth), NEW w \in Writers, Authorize(w)
    PROVE  History(truth')
<1>1. PICK t : t = truth'
    OBVIOUS
<1>2. PICK a \in Auths : a.signer = ActiveKey /\ t = [truth EXCEPT !.auths = Append(@, a)]
    BY <1>1, ActiveKeyIs DEF Authorize, Auths
<1>3. truth \in Evidence /\ truth.auths \in Seq(Auths)
    BY EvidenceFields DEF History
<1>4. Append(truth.auths, a) \in Seq(Auths)
    BY <1>3
<1>5. /\ t \in Evidence /\ t.events = truth.events /\ t.closes = truth.closes
      /\ t.anchors = truth.anchors /\ t.keys = truth.keys /\ t.auths = Append(truth.auths, a)
    BY <1>2, <1>3, <1>4 DEF Evidence
<1>6. EventsInOrder(t) /\ ClosesInOrder(t)
    BY <1>5, RecordedStays DEF History, ClosesInOrder
<1>7. ASSUME NEW i \in DOMAIN t.auths
      PROVE  t.auths[i].signer \in KeysetOf(t.keys)
    <2>1. i \in 1..(Len(truth.auths) + 1)
        BY <1>3, <1>5
    <2>2. CASE i \in DOMAIN truth.auths
        BY <1>3, <1>5, <2>2 DEF History, KeysInOrder
    <2>3. CASE i = Len(truth.auths) + 1
        BY <1>2, <1>3, <1>5, <2>3, ActiveKeyIs
    <2> QED BY <1>3, <2>1, <2>2, <2>3
<1>8. KeysInOrder(t)
    BY <1>5, <1>7 DEF History, KeysInOrder
<1> QED BY <1>1, <1>5, <1>6, <1>8 DEF History

LEMMA NewKeyKeeps ==
    ASSUME History(truth), NEW kind \in {"rotation", "recovery"}, NewKey(kind)
    PROVE  History(truth')
<1>1. PICK t : t = truth'
    OBVIOUS
<1> DEFINE n == Len(truth.keys)
           record == [kind |-> kind, old |-> n, new |-> n + 1]
<1>2. n \in Nat \ {0} /\ DOMAIN truth.keys = 1..n /\ ActiveKey = n /\ n \in Keys
    BY ActiveKeyIs
<1>3. t = [truth EXCEPT !.keys = Append(@, record)] /\ n + 1 \in Keys
    BY <1>1, <1>2 DEF NewKey
<1>4. truth \in Evidence /\ truth.keys \in Seq(KeyRecords) /\ truth.keys # <<>>
    BY EvidenceFields DEF History, KeysInOrder
<1>5. record \in KeyRecords
    BY <1>2, <1>3 DEF KeyRecords
<1>6. Append(truth.keys, record) \in Seq(KeyRecords)
    BY <1>4, <1>5
<1>7. /\ t \in Evidence /\ t.events = truth.events /\ t.closes = truth.closes
      /\ t.anchors = truth.anchors /\ t.auths = truth.auths /\ t.keys = Append(truth.keys, record)
    BY <1>3, <1>4, <1>6 DEF Evidence
<1>8. EventsInOrder(t) /\ ClosesInOrder(t)
    BY <1>7, RecordedStays DEF History, ClosesInOrder
<1>9. record.kind = kind /\ record.old = n /\ record.new = n + 1
    OBVIOUS
<1> HIDE DEF record
<1>10. /\ DOMAIN t.keys = 1..(n + 1) /\ Len(t.keys) = n + 1 /\ t.keys # <<>>
       /\ \A i \in 1..n : t.keys[i] = truth.keys[i]
       /\ t.keys[n + 1] = record
    BY <1>2, <1>4, <1>5, <1>7
<1> HIDE DEF n
<1>11. \A i \in 1..(n + 1) : i \in 1..n \/ i = n + 1
    BY <1>2
<1>12. KeysetOf(truth.keys) \subseteq KeysetOf(t.keys)
    BY <1>2, <1>10, <1>11 DEF KeysetOf
<1>13. t.keys[1].kind = "genesis" /\ \A i \in DOMAIN t.keys : t.keys[i].new = i
    <2>1. 1 \in 1..n
        BY <1>2
    <2> QED BY <1>2, <1>9, <1>10, <1>11, <2>1 DEF History, KeysInOrder
<1>14. ASSUME NEW i \in 2..Len(t.keys)
       PROVE  t.keys[i].kind # "genesis" /\ t.keys[i].old = i - 1
    <2>1. CASE i \in 1..n
        <3>1. i \in 2..Len(truth.keys)
            BY <1>2, <2>1 DEF n
        <3> QED BY <1>10, <2>1, <3>1 DEF History, KeysInOrder
    <2>2. CASE i = n + 1
        BY <1>2, <1>9, <1>10, <2>2
    <2> QED BY <1>2, <1>10, <2>1, <2>2
<1>15. \A i \in DOMAIN t.auths : t.auths[i].signer \in KeysetOf(t.keys)
    BY <1>7, <1>12 DEF History, KeysInOrder
<1>16. KeysInOrder(t)
    BY <1>10, <1>13, <1>14, <1>15 DEF KeysInOrder
<1> QED BY <1>1, <1>7, <1>8, <1>16 DEF History

LEMMA AnchorKeeps ==
    ASSUME History(truth), NEW s \in ClosedSegs(truth), Anchor(s)
    PROVE  History(truth')
<1>1. PICK t : t = truth'
    OBVIOUS
<1>2. truth \in Evidence /\ s \in Segs
    BY EvidenceFields DEF History, ClosedSegs, Closes
<1>3. /\ t \in Evidence /\ t.events = truth.events /\ t.closes = truth.closes
      /\ t.anchors = truth.anchors \cup {s} /\ t.keys = truth.keys /\ t.auths = truth.auths
    BY <1>1, <1>2 DEF Anchor, Evidence
<1>4. EventsInOrder(t) /\ ClosesInOrder(t)
    BY <1>3, RecordedStays DEF History, ClosesInOrder
<1>5. KeysInOrder(t)
    BY <1>3 DEF History, KeysInOrder
<1> QED BY <1>1, <1>3, <1>4, <1>5 DEF History

LEMMA RecordingKeeps ==
    ASSUME History(truth), Recording
    PROVE  History(truth')
BY RecordKeeps, CloseKeeps, AuthorizeKeeps, NewKeyKeeps, AnchorKeeps DEF Recording

-----------------------------------------------------------------------------
(* Loss and damage *)

LEMMA NothingIsCopy ==
    ASSUME NEW t
    PROVE  CopyOf(Nothing, t)
<1>1. <<>> \in Seq(Auths) /\ <<>> \in Seq(KeyRecords)
    OBVIOUS
<1>2. Nothing \in Evidence
    BY <1>1 DEF Nothing, Evidence
<1>3. Nothing.events = {} /\ Nothing.closes = {} /\ Nothing.anchors = {} /\ Nothing.keys = <<>>
    BY DEF Nothing
<1> QED BY <1>2, <1>3, FS_EmptySet DEF CopyOf, CopiedEvents, CopiedCloses, KeyOrder

LEMMA HistoryIsCopy ==
    ASSUME NEW t, History(t)
    PROVE  CopyOf(t, t)
<1>1. CopiedEvents(t, t)
    BY RecordedEventsDiffer DEF CopiedEvents, History, EventsInOrder
<1>2. CopiedCloses(t, t)
    BY DEF CopiedCloses, History, ClosesInOrder
<1>3. KeyOrder(t.keys)
    <2>1. t.keys \in Seq(KeyRecords) /\ DOMAIN t.keys = 1..Len(t.keys) /\ Len(t.keys) \in Nat
        BY EvidenceFields DEF History
    <2>2. \A i, j \in DOMAIN t.keys : i < j => t.keys[i].new < t.keys[j].new
        BY DEF History, KeysInOrder
    <2>3. ASSUME NEW i \in DOMAIN t.keys, t.keys[i].kind # "genesis"
          PROVE  t.keys[i].new = t.keys[i].old + 1
        <3>1. i # 1
            BY <2>3 DEF History, KeysInOrder
        <3>2. i \in 2..Len(t.keys)
            BY <2>1, <3>1
        <3>3. t.keys[i].old = i - 1 /\ t.keys[i].new = i
            BY <3>2 DEF History, KeysInOrder
        <3> QED BY <3>2, <3>3
    <2> QED BY <2>2, <2>3 DEF KeyOrder
<1> QED BY <1>1, <1>2, <1>3 DEF CopyOf, History

(* Fewer events and closes, or altered ones in the place of others.        *)
LEMMA DamagedEvents ==
    ASSUME NEW h, CopiedEvents(h, truth), NEW g, IsFiniteSet(g.events),
           \A e \in g.events : \E f \in h.events : f.seg = e.seg /\ f.sequence = e.sequence,
           \A e, f \in g.events : e.seg = f.seg /\ e.sequence = f.sequence => e = f
    PROVE  CopiedEvents(g, truth)
BY DEF CopiedEvents

LEMMA RemovedKeepsOrder ==
    ASSUME NEW keys \in Seq(KeyRecords), KeyOrder(keys), NEW i \in DOMAIN keys
    PROVE  RemoveAt(keys, i) \in Seq(KeyRecords) /\ KeyOrder(RemoveAt(keys, i))
<1> DEFINE rest == SubSeq(keys, 1, i - 1) \o SubSeq(keys, i + 1, Len(keys))
           old(j) == IF j < i THEN j ELSE j + 1
<1>1. RemoveAt(keys, i) = rest
    BY DEF RemoveAt
<1>2. i \in 1..Len(keys) /\ Len(keys) \in Nat
    OBVIOUS
<1>3. /\ rest \in Seq(KeyRecords) /\ Len(rest) = Len(keys) - 1
      /\ \A j \in 1..(Len(keys) - 1) : rest[j] = keys[old(j)]
    <2>1. PICK n \in Nat : n = Len(keys)
        BY <1>2
    <2>2. PICK a : a = SubSeq(keys, 1, i - 1)
        OBVIOUS
    <2>3. PICK b : b = SubSeq(keys, i + 1, n)
        OBVIOUS
    <2>4. a \in Seq(KeyRecords) /\ Len(a) = i - 1 /\ \A j \in 1..(i - 1) : a[j] = keys[j]
        BY <1>2, <2>1, <2>2
    <2>5. b \in Seq(KeyRecords) /\ Len(b) = n - i /\ \A j \in 1..(n - i) : b[j] = keys[i + j]
        BY <1>2, <2>1, <2>3
    <2>6. rest = a \o b
        BY <2>1, <2>2, <2>3
    <2> HIDE DEF rest
    <2>7. /\ rest \in Seq(KeyRecords) /\ Len(rest) = Len(a) + Len(b)
          /\ \A j \in 1..(Len(a) + Len(b)) :
                 rest[j] = IF j <= Len(a) THEN a[j] ELSE b[j - Len(a)]
        BY <2>4, <2>5, <2>6, ConcatProperties
    <2>8. ASSUME NEW j \in 1..(n - 1)
          PROVE  rest[j] = keys[old(j)]
        <3>1. j \in 1..(Len(a) + Len(b)) /\ j \in Nat /\ i \in Nat /\ n \in Nat
            BY <1>2, <2>1, <2>4, <2>5
        <3>2. CASE j < i
            <4>1. j <= Len(a) /\ j \in 1..(i - 1)
                BY <2>4, <3>1, <3>2
            <4> QED BY <2>4, <2>7, <3>1, <3>2, <4>1
        <3>3. CASE ~(j < i)
            <4>1. ~(j <= Len(a)) /\ j - Len(a) \in 1..(n - i) /\ i + (j - Len(a)) = j + 1
                BY <2>4, <3>1, <3>3
            <4>2. rest[j] = b[j - Len(a)]
                BY <2>7, <3>1, <4>1
            <4>3. b[j - Len(a)] = keys[j + 1]
                BY <2>5, <4>1
            <4> QED BY <3>3, <4>2, <4>3
        <3> QED BY <3>2, <3>3
    <2>9. Len(rest) = n - 1
        BY <1>2, <2>1, <2>4, <2>5, <2>7
    <2> QED BY <2>1, <2>7, <2>8, <2>9
<1> HIDE DEF rest
<1>4. DOMAIN rest = 1..(Len(keys) - 1)
    BY <1>2, <1>3
<1>5. \A j \in 1..(Len(keys) - 1) : old(j) \in DOMAIN keys
    BY <1>2
<1>6. \A j, k \in 1..(Len(keys) - 1) : j < k => old(j) < old(k)
    BY <1>2
<1> HIDE DEF old
<1>7. \A j \in DOMAIN rest : rest[j].kind # "genesis" => rest[j].new = rest[j].old + 1
    BY <1>3, <1>4, <1>5 DEF KeyOrder
<1>8. \A j, k \in DOMAIN rest : j < k => rest[j].new < rest[k].new
    BY <1>3, <1>4, <1>5, <1>6 DEF KeyOrder
<1> QED BY <1>1, <1>3, <1>7, <1>8 DEF KeyOrder

LEMMA DamagedCloses ==
    ASSUME NEW h, CopiedCloses(h, truth), NEW g, IsFiniteSet(g.closes),
           \A c \in g.closes : \E d \in h.closes : /\ d.seg = c.seg /\ d.count = c.count
                                                   /\ d.day = c.day,
           \A c, d \in g.closes : c.seg = d.seg => c = d
    PROVE  CopiedCloses(g, truth)
<1>1. ASSUME NEW c \in g.closes
      PROVE  \E d \in truth.closes : d.seg = c.seg /\ d.count = c.count /\ d.day = c.day
    <2>1. PICK d \in h.closes : d.seg = c.seg /\ d.count = c.count /\ d.day = c.day
        OBVIOUS
    <2>2. PICK b \in truth.closes : b.seg = d.seg /\ b.count = d.count /\ b.day = d.day
        BY DEF CopiedCloses
    <2> QED BY <2>1, <2>2
<1> QED BY <1>1 DEF CopiedCloses

LEMMA LessIsCopy ==
    ASSUME CopyOf(held, truth), NEW h \in Evidence,
           h.events \subseteq held.events, h.closes \subseteq held.closes,
           h.anchors \subseteq held.anchors, KeyOrder(h.keys)
    PROVE  CopyOf(h, truth)
<1>1. IsFiniteSet(h.events) /\ IsFiniteSet(h.closes)
    BY FS_Subset DEF CopyOf, CopiedEvents, CopiedCloses
<1>2. CopiedEvents(h, truth)
    BY <1>1 DEF CopyOf, CopiedEvents
<1>3. CopiedCloses(h, truth)
    BY <1>1 DEF CopyOf, CopiedCloses
<1> QED BY <1>2, <1>3 DEF CopyOf

LEMMA LossKeeps ==
    ASSUME CopyOf(held, truth),
           \/ LoseEvent \/ LoseClose \/ LoseSegment \/ LoseAuth \/ LoseKey
           \/ LoseAnchor \/ LoseCerts
    PROVE  CopyOf(held', truth)
<1>1. PICK h : h = held'
    OBVIOUS
<1>2. /\ held \in Evidence /\ held.auths \in Seq(Auths) /\ held.keys \in Seq(KeyRecords)
      /\ KeyOrder(held.keys)
    BY EvidenceFields DEF CopyOf
<1>3. CASE LoseEvent \/ LoseClose \/ LoseAnchor \/ LoseCerts \/ LoseSegment
    <2>1. /\ h \in Evidence
          /\ h.events \subseteq held.events /\ h.closes \subseteq held.closes
          /\ h.anchors \subseteq held.anchors /\ h.keys = held.keys
        <3>1. CASE LoseEvent
            BY <1>1, <1>2, <3>1 DEF LoseEvent, Evidence
        <3>2. CASE LoseClose
            BY <1>1, <1>2, <3>2 DEF LoseClose, Evidence
        <3>3. CASE LoseAnchor
            BY <1>1, <1>2, <3>3 DEF LoseAnchor, Evidence
        <3>4. CASE LoseCerts
            BY <1>1, <1>2, <3>4 DEF LoseCerts, Evidence
        <3>5. CASE LoseSegment
            BY <1>1, <1>2, <3>5 DEF LoseSegment, Evidence
        <3> QED BY <1>3, <3>1, <3>2, <3>3, <3>4, <3>5
    <2> QED BY <1>1, <1>2, <2>1, LessIsCopy
<1>4. CASE LoseAuth
    <2>1. PICK i \in DOMAIN held.auths : h = [held EXCEPT !.auths = RemoveAt(@, i)]
        BY <1>1, <1>4 DEF LoseAuth
    <2>2. RemoveAt(held.auths, i) \in Seq(Auths)
        <3>1. RemoveAt(held.auths, i) =
                  SubSeq(held.auths, 1, i - 1) \o SubSeq(held.auths, i + 1, Len(held.auths))
            BY DEF RemoveAt
        <3>2. /\ SubSeq(held.auths, 1, i - 1) \in Seq(Auths)
              /\ SubSeq(held.auths, i + 1, Len(held.auths)) \in Seq(Auths)
            BY <1>2
        <3> QED BY <3>1, <3>2, ConcatProperties
    <2>3. /\ h \in Evidence /\ h.events = held.events /\ h.closes = held.closes
          /\ h.anchors = held.anchors /\ h.keys = held.keys
        BY <1>2, <2>1, <2>2 DEF Evidence
    <2> QED BY <1>1, <1>2, <2>3, LessIsCopy
<1>5. CASE LoseKey
    <2>1. PICK i \in DOMAIN held.keys : h = [held EXCEPT !.keys = RemoveAt(@, i)]
        BY <1>1, <1>5 DEF LoseKey
    <2>2. RemoveAt(held.keys, i) \in Seq(KeyRecords) /\ KeyOrder(RemoveAt(held.keys, i))
        BY <1>2, RemovedKeepsOrder
    <2>3. /\ h \in Evidence /\ h.events = held.events /\ h.closes = held.closes
          /\ h.anchors = held.anchors /\ h.keys = RemoveAt(held.keys, i)
        BY <1>2, <2>1, <2>2 DEF Evidence
    <2> QED BY <1>1, <2>2, <2>3, LessIsCopy
<1> QED BY <1>3, <1>4, <1>5

LEMMA AlterEventKeeps ==
    ASSUME CopyOf(held, truth), AlterEvent
    PROVE  CopyOf(held', truth)
<1>1. PICK h : h = held'
    OBVIOUS
<1>2. PICK e \in held.events :
          h = [held EXCEPT !.events = (@ \ {e}) \cup {[e EXCEPT !.intact = FALSE]}]
    BY <1>1 DEF AlterEvent
<1>3. PICK a : a = [e EXCEPT !.intact = FALSE]
    OBVIOUS
<1>4. held \in Evidence /\ e \in Events
    BY EvidenceFields DEF CopyOf
<1>5. a \in Events /\ a.seg = e.seg /\ a.sequence = e.sequence
    BY <1>3, <1>4 DEF Events
<1>6. /\ h \in Evidence /\ h.events = (held.events \ {e}) \cup {a} /\ h.closes = held.closes
      /\ h.anchors = held.anchors /\ h.keys = held.keys
    BY <1>2, <1>3, <1>4, <1>5 DEF Evidence
<1>7. IsFiniteSet(h.events)
    <2>1. IsFiniteSet(held.events)
        BY DEF CopyOf, CopiedEvents
    <2>2. IsFiniteSet(held.events \ {e})
        BY <2>1, FS_Subset
    <2> QED BY <1>6, <2>2, FS_AddElement
<1>8. \A g \in h.events : \E f \in held.events : f.seg = g.seg /\ f.sequence = g.sequence
    BY <1>5, <1>6
<1>9. \A f, g \in h.events : f.seg = g.seg /\ f.sequence = g.sequence => f = g
    BY <1>5, <1>6 DEF CopyOf, CopiedEvents
<1>10. CopiedEvents(h, truth)
    BY <1>7, <1>8, <1>9, DamagedEvents DEF CopyOf
<1> QED BY <1>1, <1>6, <1>10 DEF CopyOf, CopiedCloses

LEMMA AlterCloseKeeps ==
    ASSUME CopyOf(held, truth), AlterClose
    PROVE  CopyOf(held', truth)
<1>1. PICK h : h = held'
    OBVIOUS
<1>2. PICK c \in held.closes :
          h = [held EXCEPT !.closes = (@ \ {c}) \cup {[c EXCEPT !.intact = FALSE]}]
    BY <1>1 DEF AlterClose
<1>3. PICK a : a = [c EXCEPT !.intact = FALSE]
    OBVIOUS
<1>4. held \in Evidence /\ c \in Closes
    BY EvidenceFields DEF CopyOf
<1>5. a \in Closes /\ a.seg = c.seg /\ a.count = c.count /\ a.day = c.day
    BY <1>3, <1>4 DEF Closes
<1>6. /\ h \in Evidence /\ h.closes = (held.closes \ {c}) \cup {a} /\ h.events = held.events
      /\ h.anchors = held.anchors /\ h.keys = held.keys
    BY <1>2, <1>3, <1>4, <1>5 DEF Evidence
<1>7. IsFiniteSet(h.closes)
    <2>1. IsFiniteSet(held.closes)
        BY DEF CopyOf, CopiedCloses
    <2>2. IsFiniteSet(held.closes \ {c})
        BY <2>1, FS_Subset
    <2> QED BY <1>6, <2>2, FS_AddElement
<1>8. \A d \in h.closes : \E b \in held.closes : /\ b.seg = d.seg /\ b.count = d.count
                                                 /\ b.day = d.day
    BY <1>5, <1>6
<1>9. \A b, d \in h.closes : b.seg = d.seg => b = d
    BY <1>5, <1>6 DEF CopyOf, CopiedCloses
<1>10. CopiedCloses(h, truth)
    BY <1>7, <1>8, <1>9, DamagedCloses DEF CopyOf
<1> QED BY <1>1, <1>6, <1>10 DEF CopyOf, CopiedEvents

LEMMA AuditInit == Init => AuditInv
<1> SUFFICES ASSUME Init
             PROVE  AuditInv
    OBVIOUS
<1> DEFINE genesis == [kind |-> "genesis", old |-> 1, new |-> 1]
<1>1. PICK t : t = truth
    OBVIOUS
<1>2. genesis \in KeyRecords /\ <<genesis>> \in Seq(KeyRecords) /\ <<>> \in Seq(Auths)
    <2>1. 1 \in Keys
        BY VerificationBounds DEF Keys
    <2>2. genesis \in KeyRecords
        BY <2>1 DEF KeyRecords
    <2> HIDE DEF genesis
    <2> QED BY <2>2
<1>3. /\ t.events = {} /\ t.closes = {} /\ t.auths = <<>> /\ t.anchors = {}
      /\ t.keys = <<genesis>>
    BY <1>1 DEF Init, Nothing
<1>4. t \in Evidence
    BY <1>1, <1>2 DEF Init, Nothing, Evidence
<1>5. (\A s : EventsOf(t, s) = {}) /\ \A w : Numbers(t, w) = {}
    BY <1>3 DEF EventsOf, Numbers
<1>6. 0..(0 - 1) = {} /\ Cardinality({}) = 0 /\ IsFiniteSet({})
    BY FS_EmptySet
<1>7. EventsInOrder(t) /\ ClosesInOrder(t)
    BY <1>3, <1>5, <1>6 DEF EventsInOrder, ClosesInOrder
<1>8. KeysInOrder(t)
    BY <1>3 DEF KeysInOrder
<1>9. History(truth) /\ CopyOf(held, truth)
    BY <1>1, <1>4, <1>7, <1>8, NothingIsCopy DEF History, Init
<1>10. MaxDamage \in Nat
    BY AuditBounds
<1>11. handed = FALSE /\ held = Nothing /\ damage \in 0..MaxDamage
    BY <1>10 DEF Init
<1> QED BY <1>9, <1>11 DEF AuditInv

LEMMA AuditStep ==
    ASSUME AuditInv, [Next]_vars
    PROVE  AuditInv'
<1>1. CASE UNCHANGED vars
    BY <1>1 DEF vars, AuditInv
<1>2. CASE Recording
    <2>1. handed = FALSE /\ held = Nothing /\ UNCHANGED <<held, handed, damage>>
        BY <1>2 DEF Recording, AuditInv
    <2>2. History(truth')
        BY <1>2, RecordingKeeps DEF AuditInv
    <2>3. CopyOf(held', truth')
        BY <2>1, NothingIsCopy
    <2> QED BY <2>1, <2>2, <2>3 DEF AuditInv
<1>3. CASE HandOver
    <2>1. held' = truth /\ truth' = truth /\ handed' = TRUE /\ damage' = damage
        BY <1>3 DEF HandOver
    <2>2. CopyOf(held', truth')
        BY <2>1, HistoryIsCopy DEF AuditInv
    <2> QED BY <2>1, <2>2 DEF AuditInv
<1>4. CASE Damage
    <2>1. /\ handed /\ handed' = handed /\ truth' = truth
          /\ damage' = damage + 1 /\ damage < MaxDamage
        BY <1>4 DEF Damage
    <2>2. CopyOf(held', truth')
        BY <1>4, <2>1, LossKeeps, AlterEventKeeps, AlterCloseKeeps DEF Damage, AuditInv
    <2>3. damage' \in 0..MaxDamage
        BY <2>1, AuditBounds DEF AuditInv
    <2> QED BY <2>1, <2>2, <2>3 DEF AuditInv
<1> QED BY <1>1, <1>2, <1>3, <1>4 DEF Next

(* Histories and copies keep their shapes. *)
THEOREM AuditTypeCorrect == Spec => []TypeOK
<1>1. AuditInv /\ [Next]_vars => AuditInv'
    BY AuditStep
<1>2. AuditInv => TypeOK
    BY DEF AuditInv, TypeOK, History, CopyOf
<1> QED BY <1>1, <1>2, AuditInit, PTL DEF Spec

-----------------------------------------------------------------------------
(* The organization's keys *)

LEMMA KeyGapsStep ==
    ASSUME AuditInv
    PROVE  KeyGapsAreDisclosed
<1> SUFFICES ASSUME KeyHistoryVerifies(held.keys), NEW i \in 2..Len(held.keys),
                    held.keys[i].old # held.keys[i - 1].new
             PROVE  i \in ContinuityBreaks(held.keys)
    BY DEF KeyGapsAreDisclosed
<1>1. PICK keys \in Seq(KeyRecords) : keys = held.keys /\ KeyOrder(keys)
    BY EvidenceFields DEF AuditInv, CopyOf
<1>2. /\ i \in 2..Len(keys) /\ i \in DOMAIN keys /\ i - 1 \in DOMAIN keys
      /\ Len(keys) \in Nat /\ DOMAIN keys = 1..Len(keys)
    BY <1>1
<1>3. \A j \in DOMAIN keys : keys[j] \in KeyRecords /\ keys[j].new \in Nat /\ keys[j].old \in Nat
    <2>1. \A j \in DOMAIN keys : keys[j] \in KeyRecords
        BY <1>1
    <2>2. \A k \in Keys : k \in Nat
        BY VerificationBounds DEF Keys
    <2> QED BY <2>1, <2>2 DEF KeyRecords
<1>4. /\ keys[i].kind # "genesis"
      /\ keys[i].kind = "rotation" => keys[i].old \in KeysetOf(SubSeq(keys, 1, i - 1))
    BY <1>1, <1>2 DEF KeyHistoryVerifies
<1>5. keys[i].kind \in {"rotation", "recovery"}
    BY <1>2, <1>3, <1>4 DEF KeyRecords
<1>6. keys[i].new = keys[i].old + 1 /\ keys[i - 1].new < keys[i].new
    BY <1>1, <1>2, <1>4 DEF KeyOrder
<1>7. ASSUME keys[i].old \in KeysetOf(SubSeq(keys, 1, i - 1))
      PROVE  FALSE
    <2>1. PICK part : part = SubSeq(keys, 1, i - 1)
        OBVIOUS
    <2>2. Len(part) = i - 1 /\ DOMAIN part = 1..(i - 1) /\ \A j \in 1..(i - 1) : part[j] = keys[j]
        BY <1>1, <1>2, <2>1
    <2>3. PICK j \in 1..(i - 1) : keys[j].new = keys[i].old
        BY <1>7, <2>1, <2>2 DEF KeysetOf
    <2>4. j \in DOMAIN keys /\ (j = i - 1 \/ j < i - 1)
        BY <1>2
    <2>5. keys[j].new <= keys[i - 1].new
        BY <1>1, <1>2, <1>3, <2>4 DEF KeyOrder
    <2>6. keys[i].old = keys[i - 1].new
        BY <1>2, <1>3, <1>6, <2>3, <2>5
    <2> QED BY <1>1, <2>6
<1> QED BY <1>1, <1>2, <1>4, <1>5, <1>7 DEF ContinuityBreaks

(* KEY-006, INV-021: where an accepted key history lacks a record, the     *)
(* next one it has is a disclosed break of continuity.                     *)
THEOREM KeyGapsAreAlwaysDisclosed == Spec => []KeyGapsAreDisclosed
<1>1. AuditInv /\ [Next]_vars => AuditInv'
    BY AuditStep
<1>2. AuditInv => KeyGapsAreDisclosed
    BY KeyGapsStep
<1> QED BY <1>1, <1>2, AuditInit, PTL DEF Spec

-----------------------------------------------------------------------------
(* What verifies was not damaged. *)

LEMMA HeldInSegments ==
    ASSUME NEW t, CopyOf(held, t), NEW s
    PROVE  OfSegment(EventsOf(held, s), s) /\ Chain(held, s) = BySequence(EventsOf(held, s))
<1>1. held.events \subseteq Events
    BY EvidenceFields DEF CopyOf
<1>2. \A e \in EventsOf(held, s) : e.seg = s /\ e.sequence \in Nat
    BY <1>1, VerificationBounds DEF EventsOf, Events
<1>3. IsFiniteSet(EventsOf(held, s))
    BY EventsFinite DEF CopyOf, CopiedEvents
<1>4. \A e, f \in EventsOf(held, s) : e.sequence = f.sequence => e = f
    BY <1>2 DEF EventsOf, CopyOf, CopiedEvents
<1> QED BY <1>2, <1>3, <1>4 DEF OfSegment, Chain, EventsOf

LEMMA HeldCloses ==
    ASSUME NEW t, CopyOf(held, t)
    PROVE  /\ \A c \in held.closes : c \in Closes /\ CloseOf(held, c.seg) = c
           /\ \A w : OfOneWriter({c \in held.closes : c.seg.writer = w}, w)
           /\ \A w : OfOneWriter({c \in held.closes :
                                      c.seg.writer = w /\ c.seg \in HeldSegs(held)}, w)
<1>1. \A c \in held.closes : c \in Closes
    BY EvidenceFields DEF CopyOf
<1>2. \A c, d \in held.closes : c.seg = d.seg => c = d
    BY DEF CopyOf, CopiedCloses
<1>3. \A c \in held.closes : CloseOf(held, c.seg) = c
    BY <1>2 DEF CloseOf
<1>4. ASSUME NEW part, part \subseteq held.closes, NEW w, \A c \in part : c.seg.writer = w
      PROVE  OfOneWriter(part, w)
    <2>1. IsFiniteSet(part)
        BY <1>4, FS_Subset DEF CopyOf, CopiedCloses
    <2> QED BY <1>1, <1>2, <1>4, <2>1 DEF OfOneWriter, Closes
<1>5. \A w : OfOneWriter({c \in held.closes : c.seg.writer = w}, w)
    BY <1>4
<1>6. \A w : OfOneWriter({c \in held.closes : c.seg.writer = w /\ c.seg \in HeldSegs(held)}, w)
    BY <1>4
<1> QED BY <1>1, <1>3, <1>5, <1>6

(* An intact event or close is the one that was recorded.                  *)
LEMMA IntactIsRecorded ==
    ASSUME History(truth), CopyOf(held, truth)
    PROVE  /\ \A e \in held.events : e.intact => e \in truth.events
           /\ \A c \in held.closes : c.intact => c \in truth.closes
<1>1. /\ held.events \subseteq Events /\ truth.events \subseteq Events
      /\ held.closes \subseteq Closes /\ truth.closes \subseteq Closes
    BY EvidenceFields DEF CopyOf, History
<1>2. ASSUME NEW e \in held.events, e.intact
      PROVE  e \in truth.events
    <2>1. PICK f \in truth.events : f.seg = e.seg /\ f.sequence = e.sequence
        BY DEF CopyOf, CopiedEvents
    <2>2. f.intact = TRUE /\ e.intact = TRUE
        BY <1>1, <1>2 DEF History, EventsInOrder, Events
    <2>3. e = f
        BY <1>1, <2>1, <2>2 DEF Events
    <2> QED BY <2>3
<1>3. ASSUME NEW c \in held.closes, c.intact
      PROVE  c \in truth.closes
    <2>1. PICK d \in truth.closes : d.seg = c.seg /\ d.count = c.count /\ d.day = c.day
        BY DEF CopyOf, CopiedCloses
    <2>2. d.intact = TRUE /\ c.intact = TRUE
        BY <1>1, <1>3 DEF History, ClosesInOrder, Closes
    <2>3. c = d
        BY <1>1, <2>1, <2>2 DEF Closes
    <2> QED BY <2>3
<1> QED BY <1>2, <1>3

LEMMA VerifiedSegmentIsWhole ==
    ASSUME History(truth), CopyOf(held, truth), NEW c \in held.closes,
           ChainVerifies(Chain(held, c.seg)), CloseMatches(c, Chain(held, c.seg))
    PROVE  c.intact /\ EventsOf(held, c.seg) = EventsOf(truth, c.seg)
<1> DEFINE s == c.seg
<1>1. OfSegment(EventsOf(held, s), s) /\ Chain(held, s) = BySequence(EventsOf(held, s))
    BY HeldInSegments
<1>2. c \in Closes /\ c.count \in Nat /\ s \in Segs
    BY HeldCloses, VerificationBounds DEF Closes
<1>3. /\ c.intact
      /\ \A e \in EventsOf(held, s) : e.intact /\ e.sequence \in 0..(c.count - 1)
      /\ \A n \in 0..(c.count - 1) : \E e \in EventsOf(held, s) : e.sequence = n
    BY <1>1, <1>2, VerifiedClosesAreWhole
<1>4. c \in truth.closes
    BY <1>3, IntactIsRecorded
<1>5. {e.sequence : e \in EventsOf(truth, s)} = 0..(c.count - 1)
    BY <1>2, <1>4 DEF History, EventsInOrder, ClosesInOrder
<1> HIDE DEF s
<1>6. EventsOf(held, s) \subseteq EventsOf(truth, s)
    BY <1>3, IntactIsRecorded DEF EventsOf
<1>7. ASSUME NEW f \in EventsOf(truth, s)
      PROVE  f \in EventsOf(held, s)
    <2>1. f.sequence \in 0..(c.count - 1)
        BY <1>5
    <2>2. PICK e \in EventsOf(held, s) : e.sequence = f.sequence
        BY <1>3, <2>1
    <2>3. e \in truth.events /\ f \in truth.events /\ e.seg = f.seg
        BY <1>6, <2>2 DEF EventsOf
    <2>4. e = f
        BY <2>2, <2>3, RecordedEventsDiffer
    <2> QED BY <2>4
<1> QED BY <1>3, <1>6, <1>7 DEF s

LEMMA VerifiedSegmentsAreWhole ==
    ASSUME History(truth), CopyOf(held, truth),
           \A s \in HeldSegs(held) : ChainVerifies(Chain(held, s)),
           \A c \in held.closes : c.seg \in HeldSegs(held) => CloseMatches(c, Chain(held, c.seg))
    PROVE  SegmentsAreWhole(held)
<1>1. \A e \in held.events : e \in EventsOf(held, e.seg) /\ e.seg \in HeldSegs(held)
    BY DEF EventsOf, HeldSegs
<1>2. ASSUME NEW s \in HeldSegs(held)
      PROVE  /\ \A e \in EventsOf(held, s) : e.intact
             /\ \A e, f \in EventsOf(held, s) : \A n \in e.sequence..f.sequence :
                    \E g \in EventsOf(held, s) : g.sequence = n
    <2>1. OfSegment(EventsOf(held, s), s) /\ Chain(held, s) = BySequence(EventsOf(held, s))
        BY HeldInSegments
    <2>2. ChainVerifies(BySequence(EventsOf(held, s)))
        BY <2>1
    <2> QED BY <2>1, <2>2, VerifiedChainsAreWhole
<1>3. \A e \in held.events : e.intact
    BY <1>1, <1>2
<1>4. \A c \in held.closes : c.seg \in HeldSegs(held) =>
          c.intact /\ EventsOf(held, c.seg) = EventsOf(truth, c.seg)
    BY VerifiedSegmentIsWhole
<1>5. ASSUME NEW e \in held.events, NEW f \in held.events, NEW n \in e.sequence..f.sequence,
             e.seg = f.seg
      PROVE  \E g \in held.events : g.seg = e.seg /\ g.sequence = n
    <2>1. e \in EventsOf(held, e.seg) /\ f \in EventsOf(held, e.seg) /\ e.seg \in HeldSegs(held)
        BY <1>1, <1>5
    <2>2. PICK g \in EventsOf(held, e.seg) : g.sequence = n
        BY <1>2, <2>1
    <2> QED BY <2>2 DEF EventsOf
<1> QED BY <1>3, <1>4, <1>5 DEF SegmentsAreWhole

LEMMA CompleteStep ==
    ASSUME AuditInv
    PROVE  CompleteReportsAreSound
<1> SUFFICES ASSUME Complete(held)
             PROVE  /\ SegmentsAreWhole(held)
                    /\ \A c, d \in held.closes : \A n \in c.seg.number..d.seg.number :
                           c.seg \in HeldSegs(held) /\ d.seg \in HeldSegs(held)
                           /\ c.seg.writer = d.seg.writer => n \in Numbers(held, c.seg.writer)
    BY DEF CompleteReportsAreSound
<1>1. History(truth) /\ CopyOf(held, truth)
    BY DEF AuditInv
<1>2. \A s \in HeldSegs(held) : ChainVerifies(Chain(held, s))
    BY DEF Complete
<1>3. ASSUME NEW c \in held.closes, c.seg \in HeldSegs(held)
      PROVE  CloseMatches(c, Chain(held, c.seg))
    <2>1. CloseOf(held, c.seg) = c /\ c.seg \in ClosedSegs(held)
        BY <1>1, HeldCloses DEF ClosedSegs
    <2>2. ReportedClosed(held, c.seg)
        BY <1>3, <2>1 DEF Complete
    <2> QED BY <2>1, <2>2 DEF ReportedClosed, CloseVerifies
<1>4. SegmentsAreWhole(held)
    BY <1>1, <1>2, <1>3, VerifiedSegmentsAreWhole
<1>5. ASSUME NEW c \in held.closes, NEW d \in held.closes, NEW n \in c.seg.number..d.seg.number,
             c.seg \in HeldSegs(held), d.seg \in HeldSegs(held), c.seg.writer = d.seg.writer
      PROVE  n \in Numbers(held, c.seg.writer)
    <2> DEFINE w == c.seg.writer
               closes == {b \in held.closes : b.seg.writer = w /\ b.seg \in HeldSegs(held)}
    <2>1. w \in Writers /\ OfOneWriter(closes, w) /\ c \in closes /\ d \in closes
        BY <1>1, <1>5, HeldCloses DEF Closes, Segs
    <2>2. PICK list : list = ByNumber(closes) /\ list = ReportedCloses(held, w)
        BY DEF ReportedCloses
    <2>3. MissingNumbers(list) = {}
        BY <2>1, <2>2 DEF Complete
    <2>4. \A b \in closes : b.seg.number \in Nat
        BY <2>1, VerificationBounds DEF OfOneWriter, Segs
    <2>5. \A b \in closes : b.seg.number \in Numbers(held, w)
        BY DEF Numbers
    <2> HIDE DEF closes, w
    <2>6. /\ Len(list) \in Nat /\ DOMAIN list = 1..Len(list)
          /\ list = <<>> <=> closes = {}
          /\ \A i \in 1..Len(list) : list[i] \in closes
          /\ \A b \in closes : \E i \in 1..Len(list) : list[i] = b
          /\ \A i, j \in 1..Len(list) : i < j => list[i].seg.number < list[j].seg.number
        BY <2>1, <2>2, ListedCloses
    <2>7. PICK m \in Nat : m = Len(list)
        BY <2>6
    <2>8. /\ \A i \in 1..m : list[i] \in closes
          /\ \A b \in closes : \E i \in 1..m : list[i] = b
          /\ \A i, j \in 1..m : i < j => list[i].seg.number < list[j].seg.number
          /\ DOMAIN list = 1..m /\ list # <<>>
        BY <2>1, <2>6, <2>7
    <2>9. PICK i \in 1..m : list[i] = c
        BY <2>1, <2>8
    <2>10. PICK j \in 1..m : list[j] = d
        BY <2>1, <2>8
    <2>11. 1 \in 1..m /\ m \in 1..m /\ m \in Nat
        BY <2>7, <2>9
    <2>12. \A k \in 1..m : list[k].seg.number \in Nat
        BY <2>4, <2>8
    <2>13. list[1].seg.number <= list[i].seg.number
        <3>1. i = 1 \/ 1 < i
            BY <2>11
        <3> QED BY <2>8, <2>11, <2>12, <3>1
    <2>14. list[j].seg.number <= list[m].seg.number
        <3>1. j = m \/ j < m
            BY <2>11
        <3> QED BY <2>8, <2>11, <2>12, <3>1
    <2>15. n \in list[1].seg.number..list[m].seg.number
        <3>1. n \in list[i].seg.number..list[j].seg.number
            BY <2>9, <2>10
        <3> QED BY <2>11, <2>12, <2>13, <2>14, <3>1
    <2>16. n \in {list[k].seg.number : k \in DOMAIN list}
        BY <2>3, <2>7, <2>8, <2>15 DEF MissingNumbers
    <2>17. \E k \in 1..m : list[k] \in closes /\ n = list[k].seg.number
        BY <2>8, <2>16
    <2> QED BY <2>5, <2>17 DEF w
<1> QED BY <1>4, <1>5

(* INV-014: a report that says "complete" hides no damage and no hole      *)
(* between two closed segments of a writer.                                *)
THEOREM CompleteReportsHideNothing == Spec => []CompleteReportsAreSound
<1>1. AuditInv /\ [Next]_vars => AuditInv'
    BY AuditStep
<1>2. AuditInv => CompleteReportsAreSound
    BY CompleteStep
<1> QED BY <1>1, <1>2, AuditInit, PTL DEF Spec

-----------------------------------------------------------------------------
(* The authorization a verifier picks for a close is one of its writer.    *)

LEMMA Greatest ==
    ASSUME NEW n \in Nat, NEW T \in SUBSET (1..n), T # {}
    PROVE  \E x \in T : \A y \in T : x >= y
<1> DEFINE mirror == {n - x : x \in T}
<1>1. \A x \in T : x \in 1..n /\ n - x \in Nat
    OBVIOUS
<1>0. mirror \in SUBSET Nat /\ mirror # {}
    BY <1>1
<1> HIDE DEF mirror
<1>2. PICK m \in mirror : \A y \in mirror : m <= y
    BY <1>0, Least
<1>3. PICK x \in T : m = n - x
    BY DEF mirror
<1>4. ASSUME NEW y \in T
      PROVE  x >= y
    <2>1. n - y \in mirror
        BY DEF mirror
    <2>2. n - x <= n - y
        BY <1>2, <1>3, <2>1
    <2> QED BY <1>1, <2>2
<1> QED BY <1>4

LEMMA PickedAuths ==
    ASSUME NEW auths \in Seq(Auths), NEW c, Authorized(auths, c)
    PROVE  /\ \E i \in DOMAIN auths : First(auths, c) = auths[i] /\ OfWriter(auths[i], c)
           /\ \E i \in DOMAIN auths : Latest(auths, c) = auths[i] /\ OfWriter(auths[i], c)
<1> DEFINE I == {i \in 1..Len(auths) : OfWriter(auths[i], c)}
<1>1. DOMAIN auths = 1..Len(auths) /\ Len(auths) \in Nat
    OBVIOUS
<1>2. I # {} /\ I \in SUBSET Nat /\ I \in SUBSET (1..Len(auths))
    BY <1>1 DEF Authorized
<1>3. First(auths, c) = auths[Min(I)]
    BY <1>2 DEF First, SelectInSeq
<1>4. Latest(auths, c) = auths[Max(I)]
    BY <1>2 DEF Latest, SelectLastInSeq
<1>5. Min(I) \in I
    <2> HIDE DEF I
    <2>1. \E x \in I : \A y \in I : x <= y
        BY <1>2, Least
    <2> QED BY <2>1 DEF Min
<1>6. Max(I) \in I
    <2> HIDE DEF I
    <2>1. \E x \in I : \A y \in I : x >= y
        BY <1>1, <1>2, Greatest
    <2> QED BY <2>1 DEF Max
<1> QED BY <1>1, <1>3, <1>4, <1>5, <1>6

-----------------------------------------------------------------------------
(* Bundles *)

(* A bundle that verifies and discloses nothing has every close of each of *)
(* its writers from number 0 on.                                           *)
LEMMA ClosesFromZero ==
    ASSUME NEW closes, NEW w, OfOneWriter(closes, w), FromZero(ByNumber(closes)),
           NEW c \in closes, NEW n \in 0..c.seg.number
    PROVE  \E d \in closes : d.seg.number = n
<1>1. PICK list : list = ByNumber(closes)
    OBVIOUS
<1>2. /\ Len(list) \in Nat /\ DOMAIN list = 1..Len(list)
      /\ \A i \in 1..Len(list) : list[i] \in closes
      /\ \A d \in closes : \E i \in 1..Len(list) : list[i] = d
    BY <1>1, ListedCloses
<1>3. \A i \in 1..Len(list) : list[i].seg.number = i - 1
    BY <1>1, <1>2 DEF FromZero
<1>4. PICK i \in 1..Len(list) : list[i] = c
    BY <1>2
<1>5. c.seg.number = i - 1
    BY <1>3, <1>4
<1>6. n + 1 \in 1..Len(list) /\ (n + 1) - 1 = n
    BY <1>2, <1>5
<1> QED BY <1>2, <1>3, <1>6

LEMMA BundleStep ==
    ASSUME AuditInv
    PROVE  BundlesAreSound
<1> SUFFICES ASSUME BundleVerifies(held), NothingDisclosed(held)
             PROVE  /\ SegmentsAreWhole(held)
                    /\ \A c \in held.closes :
                           /\ EventsOf(held, c.seg) = EventsOf(truth, c.seg)
                           /\ \A n \in 0..c.seg.number : n \in Numbers(held, c.seg.writer)
                           /\ \E i \in DOMAIN held.auths :
                                  /\ Covers(held.auths[i], c)
                                  /\ held.auths[i].signer \in KeysetOf(held.keys)
    BY DEF BundlesAreSound
<1>1. History(truth) /\ CopyOf(held, truth) /\ held \in Evidence
    BY DEF AuditInv, CopyOf
<1>2. \A s \in HeldSegs(held) : ChainVerifies(Chain(held, s))
    BY DEF BundleVerifies
<1>3. UnverifiedCloses(held) = {} /\ PartialWriters(held) = {}
    BY DEF NothingDisclosed
<1>4. ASSUME NEW c \in held.closes
      PROVE  /\ Authorized(held.auths, c) /\ c.seg \in HeldSegs(held)
             /\ CloseVerifies(c, Chain(held, c.seg), Latest(held.auths, c), KeysetOf(held.keys))
    <2>1. Authorized(held.auths, c) /\ c.seg \in HeldSegs(held)
        BY <1>3 DEF UnverifiedCloses
    <2>2. c \in held.closes \ UnverifiedCloses(held)
        BY <1>3
    <2> QED BY <2>1, <2>2 DEF BundleVerifies
<1>5. \A c \in held.closes : CloseMatches(c, Chain(held, c.seg))
    BY <1>4 DEF CloseVerifies
<1>6. SegmentsAreWhole(held)
    BY <1>1, <1>2, <1>5, VerifiedSegmentsAreWhole
<1>7. ASSUME NEW c \in held.closes
      PROVE  EventsOf(held, c.seg) = EventsOf(truth, c.seg)
    BY <1>4, <1>6 DEF SegmentsAreWhole
<1>8. ASSUME NEW c \in held.closes, NEW n \in 0..c.seg.number
      PROVE  n \in Numbers(held, c.seg.writer)
    <2> DEFINE w == c.seg.writer
               closes == {d \in held.closes : d.seg.writer = w}
    <2>1. OfOneWriter(closes, w) /\ c \in closes /\ w \in Writers
        BY <1>1, HeldCloses DEF Closes, Segs
    <2>2. FromZero(ByNumber(closes))
        <3>1. FromZero(ClosesOf(held, w))
            BY <1>3, <2>1 DEF PartialWriters
        <3> QED BY <3>1 DEF ClosesOf
    <2>3. Numbers(held, w) = {d.seg.number : d \in closes}
        BY DEF Numbers
    <2> HIDE DEF closes, w
    <2>4. \E d \in closes : d.seg.number = n
        BY <2>1, <2>2, ClosesFromZero
    <2> QED BY <2>3, <2>4 DEF w
<1>9. ASSUME NEW c \in held.closes
      PROVE  \E i \in DOMAIN held.auths :
                 /\ Covers(held.auths[i], c)
                 /\ held.auths[i].signer \in KeysetOf(held.keys)
    <2>1. held.auths \in Seq(Auths)
        BY <1>1, EvidenceFields
    <2>2. PICK i \in DOMAIN held.auths : Latest(held.auths, c) = held.auths[i]
        BY <1>4, <2>1, PickedAuths
    <2> QED BY <1>4, <2>2 DEF CloseVerifies
<1> QED BY <1>6, <1>7, <1>8, <1>9

(* BUNDLE-004, INV-014: a bundle that verifies and discloses nothing has   *)
(* all of its closed segments, from the first one of each writer on, each  *)
(* under an authorization of a key of the organization's history.          *)
THEOREM VerifiedBundlesAreSound == Spec => []BundlesAreSound
<1>1. AuditInv /\ [Next]_vars => AuditInv'
    BY AuditStep
<1>2. AuditInv => BundlesAreSound
    BY BundleStep
<1> QED BY <1>1, <1>2, AuditInit, PTL DEF Spec

-----------------------------------------------------------------------------
(* The verifiers beside each other. *)

LEMMA ChainsAgree ==
    ASSUME NEW t, CopyOf(held, t), NEW s
    PROVE  /\ ChainVerifies(Chain(held, s)) <=> PairwiseChainVerifies(Chain(held, s))
           /\ ChainVerifies(Chain(held, s)) = PairwiseChainVerifies(Chain(held, s))
<1>1. OfSegment(EventsOf(held, s), s) /\ Chain(held, s) = BySequence(EventsOf(held, s))
    BY HeldInSegments
<1>2. ChainVerifies(Chain(held, s)) <=> PairwiseChainVerifies(Chain(held, s))
    BY <1>1, ChainVerifiesIs, PairwiseVerifiesIs
<1>3. ChainVerifies(Chain(held, s)) \in BOOLEAN
    BY DEF ChainVerifies
<1>4. PairwiseChainVerifies(Chain(held, s)) \in BOOLEAN
    BY DEF PairwiseChainVerifies
<1> QED BY <1>2, <1>3, <1>4

LEMMA ClosesAgree ==
    ASSUME NEW t, CopyOf(held, t), NEW w
    PROVE  /\ FromZero(ClosesOf(held, w)) =>
                  SequenceVerifies(ClosesOf(held, w)) = SequenceFromZeroVerifies(ClosesOf(held, w))
           /\ SequenceFromZeroVerifies(ClosesOf(held, w)) => FromZero(ClosesOf(held, w))
           /\ ClosesOf(held, w) = <<>> => FromZero(ClosesOf(held, w))
<1>1. PICK closes : closes = {c \in held.closes : c.seg.writer = w}
    OBVIOUS
<1>2. PICK list : list = ByNumber(closes)
    OBVIOUS
<1>3. OfOneWriter(closes, w) /\ list = ClosesOf(held, w)
    BY <1>1, <1>2, HeldCloses DEF ClosesOf
<1>4. /\ FromZero(list) => (SequenceVerifies(list) <=> SequenceFromZeroVerifies(list))
      /\ SequenceFromZeroVerifies(list) => FromZero(list)
    BY <1>2, <1>3, CloseChainsAgree
<1>5. SequenceVerifies(list) \in BOOLEAN
    BY DEF SequenceVerifies
<1>6. SequenceFromZeroVerifies(list) \in BOOLEAN
    BY DEF SequenceFromZeroVerifies
<1>7. list = <<>> => FromZero(list)
    BY DEF FromZero
<1> QED BY <1>3, <1>4, <1>5, <1>6, <1>7

(* Without a key record, one verifier raises and the other finds nothing   *)
(* to hold against what no key has signed.                                 *)
LEMMA BundlesWithoutKeys ==
    ASSUME held \in Evidence, held.keys = <<>>
    PROVE  /\ ~BundleVerifies(held)
           /\ WebVerifies(held) => held.auths = <<>> /\ held.closes = {}
<1>1. ~BundleVerifies(held)
    BY DEF BundleVerifies, KeyHistoryVerifies
<1>2. ASSUME WebVerifies(held)
      PROVE  held.auths = <<>> /\ held.closes = {}
    <2>1. KeysetOf(held.keys) = {}
        <3>1. DOMAIN held.keys = {}
            OBVIOUS
        <3> QED BY <3>1 DEF KeysetOf
    <2>2. DOMAIN held.auths = {}
        BY <1>2, <2>1 DEF WebVerifies
    <2>3. held.auths = <<>>
        BY <1>2, <2>2 DEF Evidence
    <2>4. held.closes = {}
        BY <1>2, <2>2 DEF WebVerifies, Authorized
    <2> QED BY <2>3, <2>4
<1> QED BY <1>1, <1>2

(* Receipts that verify, and authorizations of which it does not matter    *)
(* which one is picked.                                                    *)
LEMMA BundlesAgree ==
    ASSUME NEW t, CopyOf(held, t), held.keys # <<>>, PicksAgree(held), AnchorsVerify(held)
    PROVE  WebVerifies(held) <=> BundleVerifies(held) /\ NothingDisclosed(held)
<1> DEFINE keyset == KeysetOf(held.keys)
           Disclosed(c) == ~Authorized(held.auths, c) \/ c.seg \notin HeldSegs(held)
           Python(c) == CloseVerifies(c, Chain(held, c.seg), Latest(held.auths, c), keyset)
           Web(c) == PairwiseCloseVerifies(c, Chain(held, c.seg), First(held.auths, c), keyset)
<1>1. \A s : ChainVerifies(Chain(held, s)) <=> PairwiseChainVerifies(Chain(held, s))
    BY ChainsAgree
<1>2. held.auths \in Seq(Auths)
    BY EvidenceFields DEF CopyOf
<1>3. ASSUME \A i \in DOMAIN held.auths : held.auths[i].signer \in keyset,
             NEW c \in held.closes, ~Disclosed(c)
      PROVE  Python(c) <=> Web(c)
    <2>1. First(held.auths, c).signer \in keyset /\ Latest(held.auths, c).signer \in keyset
        BY <1>2, <1>3, PickedAuths
    <2>2. Covers(First(held.auths, c), c) <=> Covers(Latest(held.auths, c), c)
        BY <1>3 DEF PicksAgree
    <2>3. ChainVerifies(Chain(held, c.seg)) <=> PairwiseChainVerifies(Chain(held, c.seg))
        BY <1>1
    <2> QED BY <2>1, <2>2, <2>3 DEF CloseVerifies, PairwiseCloseVerifies
<1>4. UnverifiedCloses(held) = {c \in held.closes : Disclosed(c)}
    BY DEF UnverifiedCloses
<1>5. \A w \in Writers : w \in PartialWriters(held) <=> ~FromZero(ClosesOf(held, w))
    BY DEF PartialWriters
<1>6. PartialWriters(held) \subseteq Writers
    BY DEF PartialWriters
<1>7. BundleVerifies(held) <=>
          /\ KeyHistoryVerifies(held.keys)
          /\ \A i \in DOMAIN held.auths : held.auths[i].signer \in keyset
          /\ \A s \in HeldSegs(held) : ChainVerifies(Chain(held, s))
          /\ \A c \in held.closes \ UnverifiedCloses(held) : Python(c)
          /\ \A w \in Writers \ PartialWriters(held) :
                 ClosesOf(held, w) # <<>> => SequenceVerifies(ClosesOf(held, w))
    BY DEF BundleVerifies
<1>8. WebVerifies(held) <=>
          /\ KeyHistoryVerifies(held.keys)
          /\ \A i \in DOMAIN held.auths : held.auths[i].signer \in keyset
          /\ \A s \in HeldSegs(held) : PairwiseChainVerifies(Chain(held, s))
          /\ \A c \in held.closes : ~Disclosed(c) /\ Web(c)
          /\ \A w \in Writers :
                 ClosesOf(held, w) # <<>> => SequenceFromZeroVerifies(ClosesOf(held, w))
    BY DEF WebVerifies, WebKeyHistoryVerifies
<1> HIDE DEF keyset, Disclosed, Python, Web
<1>9. ASSUME WebVerifies(held)
      PROVE  BundleVerifies(held) /\ NothingDisclosed(held)
    <2>1. UnverifiedCloses(held) = {}
        BY <1>4, <1>8, <1>9
    <2>2. \A w \in Writers : FromZero(ClosesOf(held, w))
        BY <1>8, <1>9, ClosesAgree
    <2>3. PartialWriters(held) = {}
        BY <1>5, <1>6, <2>2
    <2>4. \A w \in Writers : ClosesOf(held, w) # <<>> => SequenceVerifies(ClosesOf(held, w))
        BY <1>8, <1>9, <2>2, ClosesAgree
    <2>5. \A c \in held.closes : Python(c)
        BY <1>3, <1>8, <1>9
    <2>6. \A s \in HeldSegs(held) : ChainVerifies(Chain(held, s))
        BY <1>1, <1>8, <1>9
    <2> QED BY <1>7, <1>8, <1>9, <2>1, <2>3, <2>4, <2>5, <2>6 DEF NothingDisclosed
<1>10. ASSUME BundleVerifies(held), NothingDisclosed(held)
       PROVE  WebVerifies(held)
    <2>1. UnverifiedCloses(held) = {} /\ PartialWriters(held) = {}
        BY <1>10 DEF NothingDisclosed
    <2>2. \A c \in held.closes : ~Disclosed(c) /\ Web(c)
        BY <1>3, <1>4, <1>7, <1>10, <2>1
    <2>3. \A w \in Writers : FromZero(ClosesOf(held, w))
        BY <1>5, <2>1
    <2>4. \A w \in Writers : ClosesOf(held, w) # <<>> => SequenceVerifies(ClosesOf(held, w))
        BY <1>7, <1>10, <2>1
    <2>5. \A w \in Writers :
              ClosesOf(held, w) # <<>> => SequenceFromZeroVerifies(ClosesOf(held, w))
        BY <2>3, <2>4, ClosesAgree
    <2>6. \A s \in HeldSegs(held) : PairwiseChainVerifies(Chain(held, s))
        BY <1>1, <1>7, <1>10
    <2> QED BY <1>7, <1>8, <1>10, <2>2, <2>5, <2>6
<1> QED BY <1>9, <1>10

LEMMA AgreeStep ==
    ASSUME AuditInv
    PROVE  VerifiersAgree
<1>1. CopyOf(held, truth)
    BY DEF AuditInv
<1>2. \A s \in HeldSegs(held) :
          ChainVerifies(Chain(held, s)) = PairwiseChainVerifies(Chain(held, s))
    BY <1>1, ChainsAgree
<1>3. \A w \in Writers :
          FromZero(ClosesOf(held, w)) =>
              SequenceVerifies(ClosesOf(held, w)) = SequenceFromZeroVerifies(ClosesOf(held, w))
    BY <1>1, ClosesAgree
<1>4. ASSUME held.keys # <<>>, PicksAgree(held), AnchorsVerify(held)
      PROVE  WebVerifies(held) = (BundleVerifies(held) /\ NothingDisclosed(held))
    <2>1. WebVerifies(held) <=> BundleVerifies(held) /\ NothingDisclosed(held)
        BY <1>1, <1>4, BundlesAgree
    <2>2. WebVerifies(held) \in BOOLEAN
        BY DEF WebVerifies
    <2>3. (BundleVerifies(held) /\ NothingDisclosed(held)) \in BOOLEAN
        OBVIOUS
    <2> QED BY <2>1, <2>2, <2>3
<1>5. held.keys = <<>> =>
          /\ ~BundleVerifies(held)
          /\ WebVerifies(held) => held.auths = <<>> /\ held.closes = {}
    BY <1>1, BundlesWithoutKeys DEF CopyOf
<1> QED BY <1>2, <1>3, <1>4, <1>5 DEF VerifiersAgree

(* INV-002: given the same artifacts, however damaged, the Python, Go and  *)
(* web verifiers come to the same verdict on chains and close chains, and  *)
(* on bundles with a key history whose receipts verify; without one, the   *)
(* web page verifies nothing that a key has signed.                        *)
THEOREM VerifiersAlwaysAgree == Spec => []VerifiersAgree
<1>1. AuditInv /\ [Next]_vars => AuditInv'
    BY AuditStep
<1>2. AuditInv => VerifiersAgree
    BY AgreeStep
<1> QED BY <1>1, <1>2, AuditInit, PTL DEF Spec

-----------------------------------------------------------------------------
(* Anchored segments *)

LEMMA RecordedClose ==
    ASSUME History(truth), NEW c \in truth.closes
    PROVE  CloseOf(truth, c.seg) = c
BY DEF History, ClosesInOrder, CloseOf

LEMMA AnchoredStep ==
    ASSUME AuditInv
    PROVE  AnchoredSegmentsAreGenuine
<1> SUFFICES ASSUME held.certs, BundleVerifies(held),
                    NEW s \in held.anchors \cup (ClosedSegs(held) \ Unanchored(held))
             PROVE  /\ CloseOf(truth, s) \in held.closes
                    /\ s \in HeldSegs(held) /\ CloseOf(held, s) \notin UnverifiedCloses(held) =>
                           EventsOf(held, s) = EventsOf(truth, s)
    BY DEF AnchoredSegmentsAreGenuine
<1>1. History(truth) /\ CopyOf(held, truth)
    BY DEF AuditInv
<1>2. s \in held.anchors
    BY DEF Unanchored
<1>3. s \in ClosedSegs(held) /\ ReceiptVerifies(held, s)
    BY <1>2 DEF BundleVerifies, AnchorsVerify
<1>4. PICK c \in held.closes : c.seg = s /\ CloseOf(held, s) = c
    BY <1>1, <1>3, HeldCloses DEF ClosedSegs
<1>5. c.intact
    <2>1. c.intact = TRUE
        BY <1>3, <1>4 DEF ReceiptVerifies, Digest
    <2> QED BY <2>1
<1>6. c \in truth.closes /\ CloseOf(truth, s) = c
    BY <1>1, <1>4, <1>5, IntactIsRecorded, RecordedClose
<1>7. ASSUME s \in HeldSegs(held), CloseOf(held, s) \notin UnverifiedCloses(held)
      PROVE  EventsOf(held, s) = EventsOf(truth, s)
    <2>1. CloseVerifies(c, Chain(held, s), Latest(held.auths, c), KeysetOf(held.keys))
        BY <1>4, <1>7 DEF BundleVerifies
    <2>2. ChainVerifies(Chain(held, s)) /\ CloseMatches(c, Chain(held, s))
        BY <2>1 DEF CloseVerifies
    <2> QED BY <1>1, <1>4, <2>2, VerifiedSegmentIsWhole
<1> QED BY <1>4, <1>6, <1>7

(* ANCHOR-007, INV-014: what a bundle that verifies does not disclose as   *)
(* unanchored has the close that was stamped, and all of its events if it  *)
(* has any; no stamped close is lost unnoticed.                            *)
THEOREM StampedSegmentsAreGenuine == Spec => []AnchoredSegmentsAreGenuine
<1>1. AuditInv /\ [Next]_vars => AuditInv'
    BY AuditStep
<1>2. AuditInv => AnchoredSegmentsAreGenuine
    BY AnchoredStep
<1> QED BY <1>1, <1>2, AuditInit, PTL DEF Spec

-----------------------------------------------------------------------------
(* What arrives whole verifies. *)

LEMMA WholeSegmentsVerify ==
    ASSUME History(truth), CopyOf(held, truth), held = truth, NEW s \in HeldSegs(held)
    PROVE  /\ ChainVerifies(Chain(held, s)) /\ PairwiseChainVerifies(Chain(held, s))
           /\ \A c \in held.closes : c.seg = s => CloseMatches(c, Chain(held, s))
<1> DEFINE events == EventsOf(held, s)
           n == Cardinality(events)
<1>1. OfSegment(events, s) /\ Chain(held, s) = BySequence(events)
    BY HeldInSegments
<1>2. events # {}
    BY DEF HeldSegs, EventsOf
<1>3. \A e \in events : e.intact
    BY DEF EventsOf, History, EventsInOrder
<1>4. s \in Segs
    BY EvidenceFields DEF History, HeldSegs, Events
<1>5. n \in Nat /\ {e.sequence : e \in events} = 0..(n - 1)
    <2>1. IsFiniteSet(events)
        BY <1>1 DEF OfSegment
    <2> QED BY <1>4, <2>1, FS_CardinalityType DEF History, EventsInOrder
<1>6. \A c \in held.closes : c.seg = s => c.intact /\ c.count = n
    BY DEF History, ClosesInOrder
<1> HIDE DEF events, n
<1>7. /\ ChainVerifies(BySequence(events)) /\ PairwiseChainVerifies(BySequence(events))
      /\ \A c : c.intact /\ c.seg = s /\ c.count = n => CloseMatches(c, BySequence(events))
    BY <1>1, <1>2, <1>3, <1>5, WholeChainsVerify
<1> QED BY <1>1, <1>6, <1>7

LEMMA NumbersFinite ==
    ASSUME NEW t \in Evidence, NEW w
    PROVE  IsFiniteSet(Numbers(t, w)) /\ Cardinality(Numbers(t, w)) \in Nat
<1>1. Numbers(t, w) \subseteq 0..(MaxSegs - 1)
    BY EvidenceFields DEF Numbers, Closes, Segs
<1>2. IsFiniteSet(0..(MaxSegs - 1))
    BY UpTo, VerificationBounds
<1> QED BY <1>1, <1>2, FS_Subset, FS_CardinalityType

LEMMA WholeClosesVerify ==
    ASSUME History(truth), CopyOf(held, truth), held = truth, NEW w \in Writers
    PROVE  /\ ReportedCloses(held, w) = ClosesOf(held, w)
           /\ MissingNumbers(ClosesOf(held, w)) = {} /\ Continuity(ClosesOf(held, w))
           /\ FromZero(ClosesOf(held, w))
           /\ ClosesOf(held, w) # <<>> =>
                  SequenceVerifies(ClosesOf(held, w)) /\ SequenceFromZeroVerifies(ClosesOf(held, w))
<1>1. PICK closes : closes = {c \in held.closes : c.seg.writer = w}
    OBVIOUS
<1>2. PICK list : list = ByNumber(closes)
    OBVIOUS
<1>3. OfOneWriter(closes, w) /\ list = ClosesOf(held, w)
    BY <1>1, <1>2, HeldCloses DEF ClosesOf
<1>4. ReportedCloses(held, w) = ClosesOf(held, w)
    <2>1. {c \in held.closes : c.seg.writer = w /\ c.seg \in HeldSegs(held)} = closes
        BY <1>1 DEF History, ClosesInOrder
    <2> QED BY <1>2, <1>3, <2>1 DEF ReportedCloses
<1>5. PICK n \in Nat : {c.seg.number : c \in closes} = 0..(n - 1)
    <2>1. Cardinality(Numbers(truth, w)) \in Nat
        BY NumbersFinite DEF History
    <2>2. Numbers(truth, w) = 0..(Cardinality(Numbers(truth, w)) - 1)
        BY DEF History, ClosesInOrder
    <2>3. Numbers(truth, w) = {c.seg.number : c \in closes}
        BY <1>1 DEF Numbers
    <2> QED BY <2>1, <2>2, <2>3
<1>6. Len(list) = n /\ \A i \in 1..n : list[i].seg.number = i - 1
    <2>1. \A k \in Nat : {c.seg.number : c \in closes} = 0..(k - 1) =>
              Len(list) = k /\ \A i \in 1..k : list[i].seg.number = i - 1
        BY <1>2, <1>3, ClosesSort
    <2> QED BY <1>5, <2>1
<1>7. /\ DOMAIN list = 1..n
      /\ \A i \in 1..n : list[i] \in closes
    BY <1>2, <1>3, <1>6, ListedCloses
<1>8. \A i \in 1..n : list[i].intact = TRUE /\ list[i].seg = [writer |-> w, number |-> i - 1]
    <2> SUFFICES ASSUME NEW i \in 1..n
                 PROVE  list[i].intact = TRUE /\ list[i].seg = [writer |-> w, number |-> i - 1]
        OBVIOUS
    <2>1. list[i] \in held.closes /\ list[i].seg.writer = w
        BY <1>1, <1>7
    <2>2. list[i] \in Closes /\ list[i].intact
        BY <2>1, HeldCloses DEF History, ClosesInOrder
    <2>3. list[i].seg \in Segs /\ list[i].intact \in BOOLEAN
        BY <2>2 DEF Closes
    <2>4. list[i].seg.number = i - 1
        BY <1>6
    <2> QED BY <2>1, <2>2, <2>3, <2>4 DEF Segs
<1>9. FromZero(list)
    BY <1>6, <1>7 DEF FromZero
<1>10. ASSUME NEW i \in 2..n
       PROVE  /\ i \in 1..n /\ i - 1 \in 1..n
              /\ PrevDigest(list[i]) = Digest(list[i - 1])
              /\ list[i].seg.number = list[i - 1].seg.number + 1
    <2>1. i \in 1..n /\ i - 1 \in 1..n /\ i - 1 # 0
        OBVIOUS
    <2>2. /\ list[i].seg = [writer |-> w, number |-> i - 1]
          /\ list[i - 1].seg = [writer |-> w, number |-> (i - 1) - 1] /\ list[i - 1].intact = TRUE
        BY <1>8, <2>1
    <2>3. PrevDigest(list[i]) = <<[writer |-> w, number |-> (i - 1) - 1], TRUE>>
        <3>1. list[i].seg.number = i - 1 /\ list[i].seg.number # 0
            BY <2>1, <2>2
        <3>2. [list[i].seg EXCEPT !.number = @ - 1] = [writer |-> w, number |-> (i - 1) - 1]
            BY <2>2
        <3> QED BY <3>1, <3>2 DEF PrevDigest
    <2>4. Digest(list[i - 1]) = <<[writer |-> w, number |-> (i - 1) - 1], TRUE>>
        BY <2>2 DEF Digest
    <2>5. list[i].seg.number = i - 1 /\ list[i - 1].seg.number = (i - 1) - 1
        BY <2>2
    <2>6. list[i].seg.number = list[i - 1].seg.number + 1
        BY <2>1, <2>5
    <2> QED BY <2>1, <2>3, <2>4, <2>6
<1>11. Continuity(list)
    BY <1>6, <1>10 DEF Continuity
<1>12. ASSUME list # <<>>
       PROVE  n >= 1 /\ 1 \in 1..n /\ n \in 1..n /\ list[1].seg.number = 0
    <2>1. n # 0
        <3>1. list = <<>> <=> closes = {}
            BY <1>2, <1>3, ListedCloses
        <3>2. PICK c \in closes : TRUE
            BY <1>12, <3>1
        <3>3. c.seg.number \in 0..(n - 1)
            BY <1>5, <3>2
        <3> QED BY <3>3
    <2>2. n >= 1 /\ 1 \in 1..n /\ n \in 1..n
        BY <2>1
    <2> QED BY <1>6, <2>2
<1>13. MissingNumbers(list) = {}
    <2>1. CASE list = <<>>
        BY <2>1 DEF MissingNumbers
    <2>2. CASE list # <<>>
        <3>1. list[1].seg.number = 0 /\ list[n].seg.number = n - 1
            BY <1>6, <1>12, <2>2
        <3>2. \A k \in 0..(n - 1) : k \in {list[i].seg.number : i \in 1..n}
            <4> SUFFICES ASSUME NEW k \in 0..(n - 1)
                         PROVE  \E i \in 1..n : list[i].seg.number = k
                OBVIOUS
            <4>1. k + 1 \in 1..n /\ (k + 1) - 1 = k
                OBVIOUS
            <4> QED BY <1>6, <4>1
        <3> QED BY <1>6, <1>7, <2>2, <3>1, <3>2 DEF MissingNumbers
    <2> QED BY <2>1, <2>2
<1>14. ASSUME list # <<>>
       PROVE  SequenceFromZeroVerifies(list)
    <2>1. PrevDigest(list[1]) = None
        BY <1>12, <1>14 DEF PrevDigest
    <2>2. \A i \in 1..n : PrevDigest(list[i]) = IF i = 1 THEN None ELSE Digest(list[i - 1])
        <3> SUFFICES ASSUME NEW i \in 1..n
                     PROVE  PrevDigest(list[i]) = IF i = 1 THEN None ELSE Digest(list[i - 1])
            OBVIOUS
        <3>1. i = 1 \/ i \in 2..n
            OBVIOUS
        <3> QED BY <1>10, <2>1, <3>1
    <2> QED BY <1>6, <1>7, <1>14, <2>2 DEF SequenceFromZeroVerifies
<1>15. list # <<>> => SequenceVerifies(list)
    BY <1>2, <1>3, <1>9, <1>14, CloseChainsAgree
<1> QED BY <1>3, <1>4, <1>9, <1>11, <1>13, <1>14, <1>15

LEMMA WholeKeysVerify ==
    ASSUME History(truth)
    PROVE  KeyHistoryVerifies(truth.keys)
<1>1. PICK keys \in Seq(KeyRecords) : keys = truth.keys
    BY EvidenceFields DEF History
<1>2. /\ keys # <<>> /\ keys[1].kind = "genesis"
      /\ \A i \in DOMAIN keys : keys[i].new = i
      /\ \A i \in 2..Len(keys) : keys[i].kind # "genesis" /\ keys[i].old = i - 1
    BY <1>1 DEF History, KeysInOrder
<1>3. ASSUME NEW i \in 2..Len(keys)
      PROVE  keys[i].old \in KeysetOf(SubSeq(keys, 1, i - 1))
    <2>1. i - 1 \in 1..Len(keys) /\ i - 1 \in 1..(i - 1) /\ i - 1 \in Nat
        OBVIOUS
    <2>2. /\ DOMAIN SubSeq(keys, 1, i - 1) = 1..(i - 1)
          /\ SubSeq(keys, 1, i - 1)[i - 1] = keys[i - 1]
        BY <2>1
    <2>3. keys[i - 1].new = i - 1
        BY <1>2, <2>1
    <2> QED BY <1>2, <2>1, <2>2, <2>3 DEF KeysetOf
<1> QED BY <1>1, <1>2, <1>3 DEF KeyHistoryVerifies

LEMMA WholeStep ==
    ASSUME AuditInv
    PROVE  WholeEvidenceVerifies
<1> SUFFICES ASSUME held = truth, AllCover(held)
             PROVE  /\ Complete(held)
                    /\ BundleVerifies(held) /\ NothingDisclosed(held)
                    /\ WebVerifies(held)
                    /\ \A w \in Writers : \A i \in DOMAIN held.auths :
                           held.auths[i].writer = w => SpoolVerifies(held, w, held.auths[i])
    BY DEF WholeEvidenceVerifies
<1> DEFINE keyset == KeysetOf(held.keys)
<1>1. History(truth) /\ CopyOf(held, truth) /\ held \in Evidence
    BY DEF AuditInv, CopyOf
<1>2. \A s \in HeldSegs(held) :
          ChainVerifies(Chain(held, s)) /\ PairwiseChainVerifies(Chain(held, s))
    BY <1>1, WholeSegmentsVerify
<1>3. ASSUME NEW c \in held.closes
      PROVE  /\ Authorized(held.auths, c) /\ c.seg \in HeldSegs(held)
             /\ CloseOf(held, c.seg) = c
             /\ \A i \in DOMAIN held.auths :
                    OfWriter(held.auths[i], c) =>
                        /\ CloseVerifies(c, Chain(held, c.seg), held.auths[i], keyset)
                        /\ PairwiseCloseVerifies(c, Chain(held, c.seg), held.auths[i], keyset)
    <2>1. Authorized(held.auths, c)
        BY DEF AllCover
    <2>2. c.seg \in HeldSegs(held)
        BY <1>1 DEF History, ClosesInOrder
    <2>3. CloseOf(held, c.seg) = c
        BY <1>1, HeldCloses
    <2>4. ASSUME NEW i \in DOMAIN held.auths, OfWriter(held.auths[i], c)
          PROVE  held.auths[i].signer \in keyset /\ Covers(held.auths[i], c)
        BY <1>1, <2>4 DEF AllCover, History, KeysInOrder
    <2>5. CloseMatches(c, Chain(held, c.seg))
        BY <1>1, <2>2, WholeSegmentsVerify
    <2> QED BY <1>2, <2>1, <2>2, <2>3, <2>4, <2>5 DEF CloseVerifies, PairwiseCloseVerifies
<1>4. ASSUME NEW c \in held.closes
      PROVE  /\ CloseVerifies(c, Chain(held, c.seg), First(held.auths, c), keyset)
             /\ PairwiseCloseVerifies(c, Chain(held, c.seg), First(held.auths, c), keyset)
             /\ CloseVerifies(c, Chain(held, c.seg), Latest(held.auths, c), keyset)
    <2>1. held.auths \in Seq(Auths) /\ Authorized(held.auths, c)
        BY <1>1, <1>3, EvidenceFields
    <2>2. /\ \E i \in DOMAIN held.auths :
                 First(held.auths, c) = held.auths[i] /\ OfWriter(held.auths[i], c)
          /\ \E i \in DOMAIN held.auths :
                 Latest(held.auths, c) = held.auths[i] /\ OfWriter(held.auths[i], c)
        BY <2>1, PickedAuths
    <2> QED BY <1>3, <2>2
<1>5. KeyHistoryVerifies(held.keys)
    BY <1>1, WholeKeysVerify
<1>6. \A i \in DOMAIN held.auths : held.auths[i].signer \in keyset
    BY <1>1 DEF History, KeysInOrder
<1>7. ASSUME NEW s \in ClosedSegs(held)
      PROVE  ReportedClosed(held, s) /\ ReceiptVerifies(held, s)
    <2>1. PICK c \in held.closes : c.seg = s /\ CloseOf(held, s) = c
        BY <1>3 DEF ClosedSegs
    <2>2. ReportedClosed(held, s)
        BY <1>3, <1>4, <2>1 DEF ReportedClosed
    <2>3. c.intact /\ c.intact \in BOOLEAN
        BY <1>1, HeldCloses DEF History, ClosesInOrder, Closes
    <2> QED BY <2>1, <2>2, <2>3 DEF ReceiptVerifies, Digest
<1> HIDE DEF keyset
<1>8. Complete(held)
    BY <1>1, <1>2, <1>7, WholeClosesVerify DEF Complete
<1>9. UnverifiedCloses(held) = {}
    BY <1>3 DEF UnverifiedCloses
<1>10. PartialWriters(held) = {}
    <2>1. \A w \in Writers : FromZero(ClosesOf(held, w))
        BY <1>1, WholeClosesVerify
    <2> QED BY <2>1 DEF PartialWriters
<1>11. AnchorsVerify(held)
    BY <1>1, <1>7 DEF AnchorsVerify, History, ClosesInOrder
<1>12. \A w \in Writers :
           ClosesOf(held, w) # <<>> =>
               SequenceVerifies(ClosesOf(held, w)) /\ SequenceFromZeroVerifies(ClosesOf(held, w))
    BY <1>1, WholeClosesVerify
<1>13. BundleVerifies(held)
    BY <1>2, <1>4, <1>5, <1>6, <1>11, <1>12 DEF BundleVerifies, keyset
<1>14. WebVerifies(held)
    BY <1>2, <1>3, <1>4, <1>5, <1>6, <1>12 DEF WebVerifies, WebKeyHistoryVerifies, keyset
<1>15. ASSUME NEW w \in Writers, NEW i \in DOMAIN held.auths, held.auths[i].writer = w
       PROVE  SpoolVerifies(held, w, held.auths[i])
    <2>1. \A c \in held.closes : c.seg.writer = w =>
              CloseVerifies(c, Chain(held, c.seg), held.auths[i], keyset)
        BY <1>3, <1>15 DEF OfWriter
    <2>2. \A s \in HeldSegs(held) \ ClosedSegs(held) : ChainVerifies(Chain(held, s))
        BY <1>2
    <2> QED BY <1>12, <2>1, <2>2 DEF SpoolVerifies, keyset
<1> QED BY <1>8, <1>9, <1>10, <1>13, <1>14, <1>15 DEF NothingDisclosed

(* What was recorded and arrives whole is verified by every verifier, at   *)
(* any time, after any rotation or recovery of the organization's key: no  *)
(* honest history is refused (INV-012, KEY-007).                           *)
THEOREM HonestEvidenceVerifies == Spec => []WholeEvidenceVerifies
<1>1. AuditInv /\ [Next]_vars => AuditInv'
    BY AuditStep
<1>2. AuditInv => WholeEvidenceVerifies
    BY WholeStep
<1> QED BY <1>1, <1>2, AuditInit, PTL DEF Spec

-----------------------------------------------------------------------------
(* Accusations *)

(* Of an operation whose approval is not held nothing outside authority is *)
(* found unless coverage is claimed.                                       *)
LEMMA UncoveredFindings ==
    ASSUME NEW events, events \in {{}, {Execution}}
    PROVE  A!Determination(events, "o", FALSE) # "outside"
<1>1. CASE events = {}
    <2>1. ~A!HasPrimary(events, "o")
        BY <1>1 DEF A!HasPrimary, A!Executed, A!Of
    <2> QED BY <2>1 DEF A!Determination
<1>2. CASE events = {Execution}
    <2>1. /\ Execution.op = "o" /\ Execution.type = "action_executed" /\ Execution.at = 2
          /\ Execution.data.action = "refund"
        BY DEF Execution
    <2>2. A!Of(events, "o", "action_executed") = {Execution}
        BY <1>2, <2>1 DEF A!Of
    <2>3. A!Executed(events, "o")
        BY <2>2 DEF A!Executed
    <2>4. A!Primary(events, "o") = Execution
        <3>1. A!Primary(events, "o") =
                  CHOOSE e \in {Execution} : \A f \in {Execution} : f = e \/ A!Before(e, f)
            BY <2>2 DEF A!Primary
        <3> QED BY <3>1
    <2>5. /\ Approved.permitted = <<[action |-> "refund", fields |-> {"amount"}]>>
          /\ Approved.forbidden = {} /\ Approved.constraints = {} /\ Approved.counts = {}
          /\ Approved.from = 1 /\ Approved.to = 3
        BY DEF Approved
    <2>6. ~A!Unauthorized(Execution)
        <3>1. A!InForce(Execution)
            BY <2>1, <2>5 DEF A!InForce
        <3>2. "refund" \in A!PermittedActions(Approved)
            <4>1. 1 \in DOMAIN Approved.permitted /\ Approved.permitted[1].action = "refund"
                BY <2>5
            <4> QED BY <4>1 DEF A!PermittedActions
        <3> QED BY <2>1, <2>5, <3>1, <3>2 DEF A!Unauthorized
    <2>7. "outside" \notin A!ConstraintVerdicts(Execution)
        BY <2>5 DEF A!ConstraintVerdicts
    <2>8. "outside" \notin A!CountVerdicts(events, Execution)
        BY <2>5 DEF A!CountVerdicts
    <2>9. "outside" \notin A!ApprovalVerdicts(events, Execution, FALSE)
        <3>1. ~A!Denied(events, Execution.op)
            BY <1>2, <2>1 DEF A!Denied, A!Of
        <3>2. A!Absent(FALSE) = {"ambiguous"}
            BY DEF A!Absent
        <3> QED BY <3>1, <3>2 DEF A!ApprovalVerdicts
    <2>10. "outside" \notin A!Verdicts(events, "o", FALSE)
        BY <2>3, <2>4, <2>6, <2>7, <2>8, <2>9 DEF A!Verdicts
    <2> QED BY <2>10 DEF A!Determination
<1> QED BY <1>1, <1>2

LEMMA AccusationStep ==
    ASSUME AuditInv
    PROVE  AccusationsAreGrounded
<1> SUFFICES ASSUME handed, BundleVerifies(held),
                    NEW e \in truth.events, \A h \in held.events : Hash(h) # Hash(e),
                    NEW c \in held.closes,
                    c.seg.writer = e.seg.writer, c.seg.number >= e.seg.number,
                    NEW f \in truth.events
             PROVE  Finding(held, Hash(e), Hash(f)) # "outside"
    BY DEF AccusationsAreGrounded
<1>1. truth.events \subseteq Events /\ held.closes \subseteq Closes
    BY EvidenceFields DEF AuditInv, History, CopyOf
<1>2. ~Coverage(held)
    <2> SUFFICES ASSUME Coverage(held)
                 PROVE  FALSE
        OBVIOUS
    <2>1. \A d \in held.closes :
              /\ EventsOf(held, d.seg) = EventsOf(truth, d.seg)
              /\ \A n \in 0..d.seg.number : n \in Numbers(held, d.seg.writer)
        BY BundleStep DEF BundlesAreSound, Coverage, NothingDisclosed
    <2>2. e.seg \in Segs /\ c.seg \in Segs
        BY <1>1 DEF Events, Closes
    <2>3. e.seg.number \in 0..c.seg.number
        BY <2>2, VerificationBounds DEF Segs
    <2>4. PICK d \in held.closes : d.seg.writer = e.seg.writer /\ d.seg.number = e.seg.number
        BY <2>1, <2>3 DEF Numbers
    <2>5. d.seg = e.seg
        <3>1. d.seg \in Segs
            BY <1>1 DEF Closes
        <3> QED BY <2>2, <2>4, <3>1 DEF Segs
    <2>6. e \in EventsOf(truth, d.seg)
        BY <2>5 DEF EventsOf
    <2>7. e \in held.events
        BY <2>1, <2>6 DEF EventsOf
    <2> QED BY <2>7
<1>3. OperationEvents(held, Hash(e), Hash(f)) \in {{}, {Execution}}
    <2>1. Hash(e) \notin {Hash(h) : h \in held.events}
        OBVIOUS
    <2> QED BY <2>1 DEF OperationEvents
<1>4. Coverage(held) = FALSE
    BY <1>2 DEF Coverage
<1> QED BY <1>3, <1>4, UncoveredFindings DEF Finding

(* AUTH-009: a lost approval accuses nobody, wherever an organization has  *)
(* recorded the approval and the execution of an operation, if a close of  *)
(* the approval's segment or of a later one is there.                      *)
THEOREM AccusationsAreAlwaysGrounded == Spec => []AccusationsAreGrounded
<1>1. AuditInv /\ [Next]_vars => AuditInv'
    BY AuditStep
<1>2. AuditInv => AccusationsAreGrounded
    BY AccusationStep
<1> QED BY <1>1, <1>2, AuditInit, PTL DEF Spec
=============================================================================
