----------------------------- MODULE SyncProofs -----------------------------
(***************************************************************************)
(* Theorems about Sync and Ingest, for any bodies, segments, syncers,      *)
(* authorizations and bounds, and as many faults as each promise bears.    *)
(***************************************************************************)
EXTENDS Sync, TLAPS, FiniteSetTheorems

-----------------------------------------------------------------------------
(* Prefixes of chains. *)

LEMMA PrefixIs ==
    ASSUME NEW S, NEW u \in Seq(S), NEW v \in Seq(S)
    PROVE  IsPrefix(u, v) <=> Len(u) <= Len(v) /\ \A i \in 1..Len(u) : u[i] = v[i]
BY DEF IsPrefix

LEMMA PrefixOf ==
    ASSUME NEW S, NEW u \in Seq(S), NEW n \in 0..Len(u)
    PROVE  /\ SubSeq(u, 1, n) \in Seq(S) /\ Len(SubSeq(u, 1, n)) = n
           /\ \A i \in 1..n : SubSeq(u, 1, n)[i] = u[i]
OBVIOUS

LEMMA EmptyPrefix ==
    ASSUME NEW S, NEW u \in Seq(S)
    PROVE  IsPrefix(<<>>, u)
<1>1. <<>> \in Seq(S) /\ Len(u) \in Nat
    OBVIOUS
<1>2. Len(<<>>) = 0
    OBVIOUS
<1>3. \A i \in 1..0 : FALSE
    OBVIOUS
<1>4. ASSUME NEW e \in Seq(S), Len(e) = 0
      PROVE  IsPrefix(e, u)
    <2>1. Len(e) <= Len(u)
        BY <1>1, <1>4
    <2>2. \A i \in 1..Len(e) : e[i] = u[i]
        BY <1>3, <1>4
    <2> QED BY <2>1, <2>2, PrefixIs
<1> QED BY <1>1, <1>2, <1>4

LEMMA PrefixReflexive ==
    ASSUME NEW S, NEW u \in Seq(S)
    PROVE  IsPrefix(u, u)
BY PrefixIs

LEMMA PrefixTransitive ==
    ASSUME NEW S, NEW u \in Seq(S), NEW v \in Seq(S), NEW w \in Seq(S),
           IsPrefix(u, v), IsPrefix(v, w)
    PROVE  IsPrefix(u, w)
BY PrefixIs

LEMMA ElementsOf ==
    ASSUME NEW S, NEW u \in Seq(S)
    PROVE  ToSet(u) = {u[i] : i \in 1..Len(u)} /\ ToSet(u) \subseteq S
BY DEF ToSet

LEMMA FrontIs ==
    ASSUME NEW S, NEW u \in Seq(S), u # <<>>
    PROVE  /\ Front(u) \in Seq(S) /\ Len(Front(u)) = Len(u) - 1
           /\ \A i \in 1..Len(Front(u)) : Front(u)[i] = u[i]
<1>1. Len(u) \in Nat \ {0}
    OBVIOUS
<1>2. Len(u) - 1 \in 0..Len(u)
    BY <1>1
<1> QED BY <1>2, PrefixOf DEF Front

LEMMA AtMostOne ==
    ASSUME NEW S, NEW u \in {<<>>} \cup {<<a>> : a \in S}
    PROVE  u \in Seq(S)
<1>1. CASE u = <<>>
    BY <1>1
<1>2. CASE u # <<>>
    <2>1. PICK a \in S : u = <<a>>
        BY <1>2
    <2> QED BY <2>1
<1> QED BY <1>1, <1>2

LEMMA Joined ==
    ASSUME NEW S, NEW u \in Seq(S), NEW v \in Seq(S)
    PROVE  u \o v \in Seq(S) /\ (u # <<>> => u \o v # <<>>)
<1>1. u \o v \in Seq(S) /\ Len(u \o v) = Len(u) + Len(v)
    OBVIOUS
<1> QED BY <1>1

LEMMA PartOfInterval ==
    ASSUME NEW m \in Nat, NEW n \in Nat, m < n, NEW K \in SUBSET ((m + 1)..n)
    PROVE  Cardinality(K) \in Nat /\ m + Cardinality(K) \in m..n
<1>1. m + 1 \in Int /\ n \in Int /\ ~(m + 1 > n)
    OBVIOUS
<1>2. IsFiniteSet((m + 1)..n) /\ Cardinality((m + 1)..n) = n - (m + 1) + 1
    BY <1>1, FS_Interval
<1>3. IsFiniteSet(K) /\ Cardinality(K) <= Cardinality((m + 1)..n)
    BY <1>2, FS_Subset
<1>4. Cardinality(K) \in Nat
    BY <1>3, FS_CardinalityType
<1> QED BY <1>2, <1>3, <1>4

-----------------------------------------------------------------------------
(* What the operations of the store do to it. *)

LEMMA AuthsKnown ==
    ASSUME NEW st \in Stores, NEW b \in Batches
    PROVE  /\ KnownAuths(st, b) \in Seq(Auths)
           /\ st.auths # <<>> => KnownAuths(st, b) # <<>>
<1>1. st.auths \in Seq(Auths) /\ b.auths \in {<<>>} \cup {<<a>> : a \in Auths}
    BY DEF Stores, Batches, Options
<1>2. b.auths \in Seq(Auths)
    BY <1>1, AtMostOne
<1> QED BY <1>1, <1>2, Joined DEF KnownAuths

(* The new events of a segment are those behind the tip. *)
LEMMA NewEvents ==
    ASSUME NEW st \in Stores, NEW b \in Batches, ~Gap(st, b), NEW s \in Segs,
           New(st, b, s) # {}
    PROVE  /\ IsPrefix(st.chain[s], b.slice[s].chain)
           /\ New(st, b, s) = (Len(st.chain[s]) + 1)..Len(b.slice[s].chain)
           /\ Len(st.chain[s]) < Len(b.slice[s].chain)
           /\ b.slice[s].after <= Len(st.chain[s])
<1>1. /\ st.chain[s] \in Seq(Bodies) /\ b.slice[s].chain \in Seq(Bodies)
      /\ b.slice[s].after \in Nat
    BY DEF Stores, Batches, Slices, Chains
<1>2. Continues(st, b, s)
    BY DEF Gap
<1>3. New(st, b, s) \subseteq Carried(b, s)
    BY DEF New
<1> QED BY <1>1, <1>2, <1>3 DEF Continues, Carried

LEMMA CommittedIs ==
    ASSUME NEW st \in Stores, NEW b \in Batches, ~Gap(st, b)
    PROVE  /\ Committed(st, b) \in Stores
           /\ \A s \in Segs :
                  /\ Committed(st, b).chain[s] = ChainWith(st, b, s)
                  /\ ChainWith(st, b, s) \in Seq(Bodies)
                  /\ IsPrefix(st.chain[s], ChainWith(st, b, s))
                  /\ Committed(st, b).closed[s] =
                         IF s \in NewCloses(st, b) THEN b.closes[s] ELSE st.closed[s]
           /\ Committed(st, b).auths = KnownAuths(st, b)
           /\ Committed(st, b).answered = st.answered \cup {b}
<1>1. ASSUME NEW s \in Segs
      PROVE  ChainWith(st, b, s) \in Seq(Bodies) /\ IsPrefix(st.chain[s], ChainWith(st, b, s))
    <2>1. st.chain[s] \in Seq(Bodies) /\ b.slice[s].chain \in Seq(Bodies)
        BY DEF Stores, Batches, Slices, Chains
    <2> QED BY <2>1, NewEvents, PrefixReflexive DEF ChainWith
<1>2. \A s \in Segs : (IF s \in NewCloses(st, b) THEN b.closes[s] ELSE st.closed[s])
                          \in Closes \cup {NoClose}
    BY DEF Stores, Batches
<1>3. KnownAuths(st, b) \in Seq(Auths) /\ st.answered \cup {b} \in SUBSET Batches
    BY AuthsKnown DEF Stores
<1>4. Committed(st, b) \in Stores
    BY <1>1, <1>2, <1>3 DEF Committed, Stores, Chains
<1> QED BY <1>1, <1>4 DEF Committed

(* The events a repeated event_id leaves to be committed. *)
KeptEvents(st, b, s) ==
    {k \in New(st, b, s) :
        \A t \in Segs : \A j \in New(st, b, t) : Repeats(st, b, t, j) => Earlier(t, j, s, k)}

LEMMA PartlyCommittedIs ==
    ASSUME NEW st \in Stores, NEW b \in Batches, ~Gap(st, b)
    PROVE  /\ PartlyCommitted(st, b) \in Stores
           /\ PartlyCommitted(st, b).closed = st.closed
           /\ PartlyCommitted(st, b).auths = st.auths
           /\ PartlyCommitted(st, b).answered = st.answered
           /\ \A s \in Segs :
                  /\ IsPrefix(st.chain[s], PartlyCommitted(st, b).chain[s])
                  /\ IsPrefix(PartlyCommitted(st, b).chain[s], ChainWith(st, b, s))
                  /\ New(st, b, s) = {} => PartlyCommitted(st, b).chain[s] = st.chain[s]
<1> DEFINE Chain(s) == IF KeptEvents(st, b, s) = {} THEN st.chain[s]
                       ELSE SubSeq(b.slice[s].chain, 1,
                                   Len(st.chain[s]) + Cardinality(KeptEvents(st, b, s)))
<1>1. PartlyCommitted(st, b) = [st EXCEPT !.chain = [s \in Segs |-> Chain(s)]]
    BY DEF PartlyCommitted, KeptEvents
<1>2. ASSUME NEW s \in Segs
      PROVE  /\ Chain(s) \in Seq(Bodies)
             /\ IsPrefix(st.chain[s], Chain(s))
             /\ IsPrefix(Chain(s), ChainWith(st, b, s))
             /\ New(st, b, s) = {} => Chain(s) = st.chain[s]
    <2>1. st.chain[s] \in Seq(Bodies) /\ b.slice[s].chain \in Seq(Bodies)
        BY DEF Stores, Batches, Slices, Chains
    <2>2. KeptEvents(st, b, s) \subseteq New(st, b, s)
        BY DEF KeptEvents
    <2>3. CASE KeptEvents(st, b, s) = {}
        BY <2>1, <2>3, CommittedIs, PrefixReflexive
    <2>4. CASE KeptEvents(st, b, s) # {}
        <3> DEFINE u == st.chain[s]
                   v == b.slice[s].chain
                   n == Cardinality(KeptEvents(st, b, s))
        <3>1. /\ IsPrefix(u, v) /\ New(st, b, s) = (Len(u) + 1)..Len(v) /\ Len(u) < Len(v)
              /\ New(st, b, s) # {}
            BY <2>2, <2>4, NewEvents
        <3>2. Len(u) \in Nat /\ Len(v) \in Nat
            BY <2>1
        <3>4. n \in Nat /\ Len(u) + n \in Len(u)..Len(v)
            BY <2>2, <3>1, <3>2, PartOfInterval
        <3>5. Len(u) + n \in 0..Len(v) /\ Len(u) <= Len(u) + n
            BY <3>2, <3>4
        <3>6. Chain(s) = SubSeq(v, 1, Len(u) + n) /\ ChainWith(st, b, s) = v
            BY <2>4, <3>1 DEF ChainWith
        <3> HIDE DEF u, v, n, Chain
        <3>7. u \in Seq(Bodies) /\ v \in Seq(Bodies)
            BY <2>1 DEF u, v
        <3>8. /\ Chain(s) \in Seq(Bodies) /\ Len(Chain(s)) = Len(u) + n
              /\ \A i \in 1..(Len(u) + n) : Chain(s)[i] = v[i]
            BY <3>5, <3>6, <3>7, PrefixOf
        <3>9. IsPrefix(u, Chain(s)) /\ IsPrefix(Chain(s), v)
            BY <3>1, <3>2, <3>5, <3>7, <3>8, PrefixIs
        <3> QED BY <3>1, <3>6, <3>8, <3>9 DEF u
    <2> QED BY <2>3, <2>4
<1> HIDE DEF Chain
<1>3. PartlyCommitted(st, b) \in Stores
    BY <1>1, <1>2 DEF Stores, Chains
<1>4. /\ PartlyCommitted(st, b).closed = st.closed
      /\ PartlyCommitted(st, b).auths = st.auths
      /\ PartlyCommitted(st, b).answered = st.answered
      /\ \A s \in Segs : PartlyCommitted(st, b).chain[s] = Chain(s)
    BY <1>1 DEF Stores
<1> QED BY <1>2, <1>3, <1>4

-----------------------------------------------------------------------------
(* Types. *)

LEMMA NothingTyped == NoState \in States /\ NoBatch \in Batches /\ EmptyStore \in Stores
<1>1. <<>> \in Seq(Bodies) /\ <<>> \in Seq(Auths)
    OBVIOUS
<1>2. NoState \in States
    BY DEF NoState, States
<1>3. NoSlice \in Slices
    BY <1>1 DEF NoSlice, Slices, Chains
<1>4. NoBatch \in Batches
    BY <1>3 DEF NoBatch, Batches, Options
<1>5. EmptyStore \in Stores
    BY <1>1 DEF EmptyStore, Stores, Chains
<1> QED BY <1>2, <1>4, <1>5

ClientTyped ==
    /\ pc \in [Syncers -> {"idle", "read", "sent", "answered"}]
    /\ loaded \in [Syncers -> States]
    /\ batch \in [Syncers -> Batches]

LEMMA EndsTyped ==
    ASSUME ClientTyped, NEW p \in Syncers, Ends(p)
    PROVE  ClientTyped'
BY NothingTyped DEF ClientTyped, Ends

LEMMA OutcomesTyped ==
    ASSUME ClientTyped, NEW b, Returns(b) \/ Raises(b)
    PROVE  ClientTyped'
<1>1. ASSUME UNCHANGED <<pc, loaded, batch>>
      PROVE  ClientTyped'
    BY <1>1 DEF ClientTyped
<1>2. ASSUME NEW p \in Syncers, pc' = [pc EXCEPT ![p] = "answered"], UNCHANGED <<loaded, batch>>
      PROVE  ClientTyped'
    BY <1>2 DEF ClientTyped
<1> QED BY <1>1, <1>2, EndsTyped DEF Returns, Raises

LEMMA SendsTyped ==
    ASSUME TypeOK, NEW p \in Syncers, NEW seen, NEW auth \in Options
    PROVE  /\ PendingCloses(p, seen) \in [Segs -> Closes \cup {NoClose}]
           /\ WithCloses(p, seen, auth) \in Batches
           /\ WithCloses(p, seen, auth).closes = PendingCloses(p, seen)
           /\ WithCloses(p, seen, auth).slice = batch[p].slice
<1>1. PendingCloses(p, seen) \in [Segs -> Closes \cup {NoClose}]
    BY DEF PendingCloses, TypeOK
<1>2. batch[p] \in Batches /\ <<>> \in Options
    BY DEF TypeOK, Options
<1> QED BY <1>1, <1>2 DEF WithCloses, Batches

LEMMA PendingTyped ==
    ASSUME TypeOK, state # Garbled
    PROVE  [NoBatch EXCEPT !.slice = [s \in Segs |-> Pending(state, s)]] \in Batches
<1>1. \A s \in Segs : state.acked[s] \in Nat /\ lines[s] \in Chains
    BY DEF TypeOK, States
<1>2. NoSlice \in Slices /\ NoBatch \in Batches
    BY NothingTyped DEF NoSlice, Slices, Chains
<1>3. [s \in Segs |-> Pending(state, s)] \in [Segs -> Slices]
    BY <1>1, <1>2 DEF Pending, Slices
<1> QED BY <1>2, <1>3 DEF Batches

LEMMA AcknowledgingTyped ==
    ASSUME NEW st \in States, NEW b \in Batches
    PROVE  /\ Acknowledging(st, b) \in States
           /\ \A s \in Segs : Acknowledging(st, b).acked[s] =
                  IF b.slice[s] = NoSlice THEN st.acked[s] ELSE Len(b.slice[s].chain)
           /\ Acknowledging(st, b).closes = st.closes \cup {s \in Segs : b.closes[s] # NoClose}
<1> DEFINE acked == [s \in Segs |-> IF b.slice[s] = NoSlice THEN st.acked[s]
                                                           ELSE Len(b.slice[s].chain)]
           closes == st.closes \cup {s \in Segs : b.closes[s] # NoClose}
           authSent == st.authSent \/ b.auths # <<>>
<1>1. \A s \in Segs : st.acked[s] \in Nat /\ Len(b.slice[s].chain) \in Nat
    BY DEF States, Batches, Slices, Chains
<1>2. acked \in [Segs -> Nat]
    BY <1>1
<1>3. closes \in SUBSET Segs
    BY DEF States
<1>4. Acknowledging(st, b) = [acked |-> acked, closes |-> closes, authSent |-> authSent]
    BY DEF Acknowledging
<1>5. authSent \in BOOLEAN
    OBVIOUS
<1>6. \A s \in Segs : acked[s] = IF b.slice[s] = NoSlice THEN st.acked[s]
                                                        ELSE Len(b.slice[s].chain)
    OBVIOUS
<1> HIDE DEF acked, closes, authSent
<1>7. Acknowledging(st, b) \in States
    BY <1>2, <1>3, <1>4, <1>5 DEF States
<1> QED BY <1>4, <1>6, <1>7 DEF closes

LEMMA OneMoreTyped ==
    ASSUME failures \in 0..MaxFailures, OneMoreFailure \/ UNCHANGED failures
    PROVE  failures' \in 0..MaxFailures
BY SyncBoundsAssumption DEF OneMoreFailure

LEMMA WriterTyped ==
    ASSUME TypeOK, Writer
    PROVE  TypeOK'
<1>1. ASSUME NEW s \in Segs, NEW b \in Bodies, WriterWrites(s, b)
      PROVE  TypeOK'
    <2>1. lines[s] \in Seq(Bodies)
        BY DEF TypeOK, Chains
    <2>2. Append(lines[s], b) \in Chains
        BY <2>1 DEF Chains
    <2>3. lines' \in [Segs -> Chains]
        BY <1>1, <2>2 DEF WriterWrites, TypeOK
    <2>4. failures' \in 0..MaxFailures
        BY <1>1, OneMoreTyped DEF WriterWrites, TypeOK
    <2> QED BY <1>1, <2>3, <2>4 DEF WriterWrites, TypeOK, client
<1>2. ASSUME NEW s \in Segs, NEW d \in Days, WriterCloses(s, d)
      PROVE  TypeOK'
    <2>1. [ev |-> lines[s], day |-> d] \in Closes
        BY DEF TypeOK, Closes
    <2> QED BY <1>2, <2>1 DEF WriterCloses, TypeOK, client
<1>3. CASE WriterSyncs
    BY <1>3 DEF WriterSyncs, TypeOK, client
<1> QED BY <1>1, <1>2, <1>3 DEF Writer

LEMMA PassTyped ==
    ASSUME TypeOK, NEW p \in Syncers, Pass(p)
    PROVE  TypeOK'
<1> USE DEF spool
<1>0. ClientTyped
    BY DEF TypeOK, ClientTyped
<1>1. CASE SyncReadsLogs(p)
    BY <1>1, PendingTyped DEF SyncReadsLogs, TypeOK
<1>2. ASSUME NEW auth \in Options, SyncSends(p, auth)
      PROVE  TypeOK'
    BY <1>2, SendsTyped DEF SyncSends, TypeOK
<1>3. CASE SyncHasNothingToDo(p)
    BY <1>0, <1>3, EndsTyped DEF SyncHasNothingToDo, TypeOK, ClientTyped
<1>4. CASE SyncSaves(p)
    BY <1>0, <1>4, EndsTyped, AcknowledgingTyped DEF SyncSaves, TypeOK, ClientTyped
<1>5. CASE SyncAbandons(p)
    BY <1>0, <1>5, EndsTyped DEF SyncAbandons, TypeOK, ClientTyped
<1> QED BY <1>1, <1>2, <1>3, <1>4, <1>5, ConfiguredAssumption DEF Pass

(* What every step of the server leaves to be shown. *)
LEMMA ServerTyped ==
    ASSUME TypeOK, NEW b \in net, Server(b)
    PROVE  TypeOK'
<1> USE DEF spool
<1>1. ClientTyped'
    BY OutcomesTyped DEF Server, IngestReplays, IngestRefuses, IngestCommits, PersistFails,
           CommitAsserts, TypeOK, ClientTyped
<1>2. b \in Batches /\ mem \in Stores /\ disk \in Stores
    BY DEF TypeOK
<1>3. Accepts(mem, b) => Committed(mem, b) \in Stores /\ PartlyCommitted(mem, b) \in Stores
    BY <1>2, CommittedIs, PartlyCommittedIs DEF Accepts
<1>4. mem' \in Stores /\ disk' \in Stores
    BY <1>2, <1>3 DEF Server, IngestReplays, IngestRefuses, IngestCommits, PersistFails,
           CommitAsserts
<1>5. failures' \in 0..MaxFailures
    BY OneMoreTyped DEF Server, IngestReplays, IngestRefuses, IngestCommits, PersistFails,
           CommitAsserts, TypeOK
<1>6. Request(b)
    BY DEF Server, IngestReplays, IngestRefuses, IngestCommits, PersistFails, CommitAsserts
<1> QED BY <1>1, <1>4, <1>5, <1>6 DEF Request, TypeOK, ClientTyped

LEMMA TypeInit == Init => TypeOK
<1>1. <<>> \in Chains /\ 0 \in 0..MaxFailures
    BY SyncBoundsAssumption DEF Chains
<1> QED BY <1>1, NothingTyped DEF Init, TypeOK

LEMMA TypeStep ==
    ASSUME TypeOK, [Next]_vars
    PROVE  TypeOK'
<1> USE DEF spool, client
<1>1. ASSUME NEW b \in net, RequestIsLost(b)
      PROVE  TypeOK'
    BY <1>1 DEF RequestIsLost, TypeOK
<1>2. CASE ServerRestarts
    BY <1>2, OneMoreTyped DEF ServerRestarts, TypeOK
<1>3. CASE ClientLosesPower
    <2>1. \A s \in Segs : s \in OpenSegs => lines[s] # <<>> /\ Front(lines[s]) \in Chains
        BY FrontIs DEF OpenSegs, TypeOK, Chains
    <2>2. lines' \in [Segs -> Chains] /\ closed' \in [Segs -> Closes \cup {NoClose}]
        BY <1>3, <2>1 DEF ClientLosesPower, LosesUnsynced, TypeOK
    <2>3. failures' \in 0..MaxFailures
        BY <1>3, OneMoreTyped DEF ClientLosesPower, TypeOK
    <2>4. state' = Garbled \/ state' \in States
        BY <1>3 DEF ClientLosesPower, TypeOK
    <2> QED BY <1>3, <2>2, <2>3, <2>4, NothingTyped DEF ClientLosesPower, TypeOK
<1>4. CASE UNCHANGED vars
    BY <1>4 DEF vars, TypeOK
<1> QED BY <1>1, <1>2, <1>3, <1>4, WriterTyped, PassTyped, ServerTyped DEF Next

(* Whatever fails on either side, the files, the requests under way and    *)
(* the store keep their shapes.                                            *)
THEOREM SyncTypeCorrect == Spec => []TypeOK
<1>1. TypeOK /\ [Next]_vars => TypeOK'
    BY TypeStep
<1> QED BY <1>1, TypeInit, PTL DEF Spec

-----------------------------------------------------------------------------
(* The store only grows. *)

(* Everything st has, and every close, is in later. *)
Extends(later, st) ==
    /\ \A s \in Segs : /\ IsPrefix(st.chain[s], later.chain[s])
                       /\ st.closed[s] # NoClose => later.closed[s] = st.closed[s]
    /\ st.answered \subseteq later.answered

LEMMA ExtendsItself ==
    ASSUME NEW st \in Stores
    PROVE  Extends(st, st)
BY PrefixReflexive DEF Extends, Stores, Chains

LEMMA ExtendsTransitive ==
    ASSUME NEW st1 \in Stores, NEW st2 \in Stores, NEW st3 \in Stores,
           Extends(st2, st1), Extends(st3, st2)
    PROVE  Extends(st3, st1)
<1>1. \A s \in Segs : st1.chain[s] \in Seq(Bodies) /\ st2.chain[s] \in Seq(Bodies)
                      /\ st3.chain[s] \in Seq(Bodies)
    BY DEF Stores, Chains
<1>2. \A s \in Segs : IsPrefix(st1.chain[s], st3.chain[s])
    BY <1>1, PrefixTransitive DEF Extends
<1> QED BY <1>2 DEF Extends

LEMMA CommitsExtend ==
    ASSUME NEW st \in Stores, NEW b \in Batches, Accepts(st, b)
    PROVE  Extends(Committed(st, b), st) /\ Extends(PartlyCommitted(st, b), st)
<1>1. ~Gap(st, b)
    BY DEF Accepts
<1> QED BY <1>1, CommittedIs, PartlyCommittedIs DEF Extends, NewCloses

(* The memory of the server changes by a commit, the whole of which or     *)
(* nothing reaches the disk.                                               *)
LEMMA ServerStores ==
    ASSUME TypeOK, NEW b \in net, Server(b)
    PROVE  /\ mem \in Stores /\ disk \in Stores /\ b \in Batches
           /\ \/ mem' = mem /\ disk' = disk
              \/ /\ Accepts(mem, b) /\ ~AssertionFails(mem, b)
                 /\ mem' = Committed(mem, b)
                 /\ disk' = mem' \/ (disk' = disk /\ {"persist", "rename"} \cap Faults # {})
              \/ /\ Accepts(mem, b) /\ AssertionFails(mem, b)
                 /\ mem' = PartlyCommitted(mem, b) /\ disk' = disk
           /\ UNCHANGED <<lines, unsynced, closed, state>>
           /\ net' \subseteq net
<1>1. mem \in Stores /\ disk \in Stores /\ b \in Batches
    BY DEF TypeOK
<1>2. Request(b)
    BY DEF Server, IngestReplays, IngestRefuses, IngestCommits, PersistFails, CommitAsserts
<1>3. UNCHANGED <<lines, unsynced, closed, state>> /\ net' \subseteq net
    BY <1>2 DEF Request, spool
<1>4. \/ mem' = mem /\ disk' = disk
      \/ /\ Accepts(mem, b) /\ ~AssertionFails(mem, b)
         /\ mem' = Committed(mem, b)
         /\ disk' = mem' \/ (disk' = disk /\ {"persist", "rename"} \cap Faults # {})
      \/ /\ Accepts(mem, b) /\ AssertionFails(mem, b)
         /\ mem' = PartlyCommitted(mem, b) /\ disk' = disk
    <2>1. CASE IngestReplays(b) \/ IngestRefuses(b)
        BY <2>1 DEF IngestReplays, IngestRefuses
    <2>2. CASE IngestCommits(b)
        BY <2>2 DEF IngestCommits
    <2>3. CASE PersistFails(b)
        BY <2>3 DEF PersistFails
    <2>4. CASE CommitAsserts(b)
        BY <2>4 DEF CommitAsserts
    <2> QED BY <2>1, <2>2, <2>3, <2>4 DEF Server
<1> QED BY <1>1, <1>3, <1>4

(* Steps of the writer, of a pass and of its machine leave the store alone. *)
LEMMA OthersStore ==
    ASSUME Writer \/ (\E p \in Syncers : Pass(p)) \/ (\E b \in net : RequestIsLost(b))
           \/ ClientLosesPower \/ UNCHANGED vars
    PROVE  mem' = mem /\ disk' = disk
BY DEF Writer, WriterWrites, WriterSyncs, WriterCloses, Pass, SyncReadsLogs, SyncSends,
       SyncHasNothingToDo, SyncSaves, SyncAbandons, RequestIsLost, ClientLosesPower, vars

(* What a restart of the server finds is a state its memory went through. *)
BehindInv == TypeOK /\ Extends(mem, disk)

LEMMA StoreStep ==
    ASSUME BehindInv, [Next]_vars
    PROVE  BehindInv' /\ Extends(disk', disk)
<1>1. TypeOK' /\ mem \in Stores /\ disk \in Stores /\ mem' \in Stores /\ disk' \in Stores
    BY TypeStep DEF BehindInv, TypeOK
<1>2. ASSUME mem' = mem, disk' = disk
      PROVE  Extends(mem', disk') /\ Extends(disk', disk)
    BY <1>1, <1>2, ExtendsItself DEF BehindInv
<1>3. ASSUME NEW b \in net, Server(b)
      PROVE  Extends(mem', disk') /\ Extends(disk', disk)
    <2>1. Extends(mem', mem)
        BY <1>1, <1>3, ServerStores, CommitsExtend, ExtendsItself DEF BehindInv
    <2>2. Extends(mem', disk)
        BY <1>1, <2>1, ExtendsTransitive DEF BehindInv
    <2>3. disk' = disk \/ disk' = mem'
        BY <1>3, ServerStores DEF BehindInv
    <2> QED BY <1>1, <2>2, <2>3, ExtendsItself
<1>4. ASSUME ServerRestarts
      PROVE  Extends(mem', disk') /\ Extends(disk', disk)
    BY <1>1, <1>4, ExtendsItself DEF ServerRestarts
<1>5. Extends(mem', disk') /\ Extends(disk', disk)
    BY <1>2, <1>3, <1>4, OthersStore DEF Next
<1> QED BY <1>1, <1>5 DEF BehindInv

LEMMA BehindInit == Init => BehindInv
BY TypeInit, NothingTyped, ExtendsItself DEF Init, BehindInv

(* Whatever is lost, delivered twice or late, and wherever the server      *)
(* fails: no event, close or idempotency record it has on disk ever goes   *)
(* or changes (API-010, API-011).                                          *)
THEOREM StoredEvidenceStays == Spec => StoreOnlyGrows
<1> DEFINE Grows == /\ \A s \in Segs :
                           /\ IsPrefix(disk.chain[s], disk'.chain[s])
                           /\ disk.closed[s] # NoClose => disk'.closed[s] = disk.closed[s]
                    /\ disk.answered \subseteq disk'.answered
<1>1. BehindInv /\ [Next]_vars => BehindInv' /\ [Grows]_vars
    BY StoreStep DEF Extends
<1> QED BY <1>1, BehindInit, PTL DEF Spec, StoreOnlyGrows

-----------------------------------------------------------------------------
(* The closes in the store verify. *)

ClosesVerify(st) ==
    \A s \in Segs : st.closed[s] # NoClose => st.closed[s].ev = st.chain[s] /\ st.auths # <<>>

LEMMA CommitsVerify ==
    ASSUME NEW st \in Stores, NEW b \in Batches, Accepts(st, b), ClosesVerify(st)
    PROVE  ClosesVerify(Committed(st, b)) /\ ClosesVerify(PartlyCommitted(st, b))
<1>1. ~Gap(st, b) /\ ~EventConflict(st, b) /\ ~BadClose(st, b)
    BY DEF Accepts
<1>2. \A s \in Segs : st.closed[s] # NoClose => New(st, b, s) = {}
    BY <1>1 DEF EventConflict
<1>3. ClosesVerify(PartlyCommitted(st, b))
    BY <1>1, <1>2, PartlyCommittedIs DEF ClosesVerify
<1>4. ASSUME NEW s \in Segs, Committed(st, b).closed[s] # NoClose
      PROVE  /\ Committed(st, b).closed[s].ev = Committed(st, b).chain[s]
             /\ Committed(st, b).auths # <<>>
    <2>1. CASE s \in NewCloses(st, b)
        BY <1>1, <2>1, CommittedIs DEF BadClose, CloseVerifies
    <2>2. CASE s \notin NewCloses(st, b)
        <3>1. st.closed[s] # NoClose /\ Committed(st, b).closed[s] = st.closed[s]
            BY <1>1, <1>4, <2>2, CommittedIs
        <3>2. Committed(st, b).chain[s] = st.chain[s]
            BY <1>1, <1>2, <3>1, CommittedIs DEF ChainWith
        <3> QED BY <1>1, <3>1, <3>2, CommittedIs, AuthsKnown DEF ClosesVerify
    <2> QED BY <2>1, <2>2
<1> QED BY <1>3, <1>4 DEF ClosesVerify

(* Whatever goes wrong on either side, a close the server has, in memory   *)
(* or on disk, signs the whole chain it has for the segment and came with  *)
(* an authorization (INV-006).                                             *)
THEOREM StoredClosesAlwaysVerify == Spec => []StoredClosesVerify
<1> DEFINE VerifyInv == TypeOK /\ ClosesVerify(mem) /\ ClosesVerify(disk)
<1>1. Init => VerifyInv
    BY TypeInit DEF Init, ClosesVerify, EmptyStore
<1>2. ASSUME VerifyInv, [Next]_vars
      PROVE  VerifyInv'
    <2>1. TypeOK'
        BY <1>2, TypeStep
    <2>2. ASSUME mem' = mem, disk' = disk
          PROVE  ClosesVerify(mem') /\ ClosesVerify(disk')
        BY <1>2, <2>2
    <2>3. ASSUME NEW b \in net, Server(b)
          PROVE  ClosesVerify(mem') /\ ClosesVerify(disk')
        <3>1. ClosesVerify(mem')
            BY <1>2, <2>3, ServerStores, CommitsVerify
        <3>2. disk' = disk \/ disk' = mem'
            BY <1>2, <2>3, ServerStores
        <3> QED BY <1>2, <3>1, <3>2
    <2>4. ASSUME ServerRestarts
          PROVE  ClosesVerify(mem') /\ ClosesVerify(disk')
        BY <1>2, <2>4 DEF ServerRestarts
    <2>5. ClosesVerify(mem') /\ ClosesVerify(disk')
        BY <1>2, <2>2, <2>3, <2>4, OthersStore DEF Next
    <2>6. ClosesVerify(mem)' /\ ClosesVerify(disk)'
        BY <2>5 DEF ClosesVerify
    <2> QED BY <2>1, <2>6
<1>3. VerifyInv => StoredClosesVerify
    BY DEF ClosesVerify, StoredClosesVerify
<1> QED BY <1>1, <1>2, <1>3, PTL DEF Spec

-----------------------------------------------------------------------------
(* The batches of a pass and of requests under way. *)

InFlight == net \cup {batch[p] : p \in Syncers}

(* What the first half of a pass reads. *)
ReadBatch == [NoBatch EXCEPT !.slice = [s \in Segs |-> Pending(state, s)]]

LEMMA InFlightTyped ==
    ASSUME TypeOK
    PROVE  InFlight \subseteq Batches
BY DEF TypeOK, InFlight

LEMMA EndsBatches ==
    ASSUME TypeOK, NEW p \in Syncers, Ends(p) \/ UNCHANGED batch
    PROVE  \A q \in Syncers : batch'[q] \in {batch[q], NoBatch}
BY DEF TypeOK, Ends

(* A batch in flight was in flight, or is empty, or has just been read or  *)
(* completed by a pass.                                                    *)
LEMMA BatchesStep ==
    ASSUME TypeOK, [Next]_vars, NEW b, b \in InFlight'
    PROVE  \/ b \in InFlight \/ b = NoBatch
           \/ state # Garbled /\ b = ReadBatch /\ UNCHANGED <<lines, closed, disk, mem>>
           \/ /\ UNCHANGED <<lines, closed, disk, mem>>
              /\ \E p \in Syncers, auth \in Options :
                     b = WithCloses(p, Listed(p), auth)
<1> DEFINE Read == state # Garbled /\ b = ReadBatch /\ UNCHANGED <<lines, closed, disk, mem>>
           Completed == /\ UNCHANGED <<lines, closed, disk, mem>>
                        /\ \E p \in Syncers, auth \in Options :
                               b = WithCloses(p, Listed(p), auth)
<1>0. b \in net' \/ \E q \in Syncers : b = batch'[q]
    BY DEF InFlight
<1>1. ASSUME net' \subseteq net, \A q \in Syncers : batch'[q] \in {batch[q], NoBatch}
      PROVE  b \in InFlight \/ b = NoBatch
    BY <1>0, <1>1 DEF InFlight
<1>2. CASE Writer \/ (\E c \in net : RequestIsLost(c)) \/ ServerRestarts \/ UNCHANGED vars
    <2>1. net' \subseteq net /\ batch' = batch
        BY <1>2 DEF Writer, WriterWrites, WriterSyncs, WriterCloses, RequestIsLost,
               ServerRestarts, vars, client
    <2> QED BY <1>1, <2>1
<1>3. CASE ClientLosesPower
    BY <1>1, <1>3 DEF ClientLosesPower
<1>4. ASSUME NEW c \in net, Server(c)
      PROVE  b \in InFlight \/ b = NoBatch
    <2>1. UNCHANGED <<pc, loaded, batch>> \/ UNCHANGED batch
          \/ \E q \in Syncers : Ends(q)
        BY <1>4 DEF Server, IngestReplays, IngestRefuses, IngestCommits, PersistFails,
               CommitAsserts, Returns, Raises
    <2>2. \A q \in Syncers : batch'[q] \in {batch[q], NoBatch}
        BY <2>1, EndsBatches
    <2> QED BY <1>1, <1>4, <2>2, ServerStores
<1>5. ASSUME NEW p \in Syncers, Pass(p)
      PROVE  b \in InFlight \/ b = NoBatch \/ Read \/ Completed
    <2>1. CASE SyncReadsLogs(p)
        <3>1. /\ state # Garbled /\ UNCHANGED <<lines, closed, disk, mem>> /\ net' = net
              /\ batch' = [batch EXCEPT ![p] = ReadBatch]
            BY <2>1 DEF SyncReadsLogs, spool, ReadBatch
        <3>2. \A q \in Syncers : batch'[q] \in {batch[q], ReadBatch}
            BY <3>1 DEF TypeOK
        <3> QED BY <1>0, <3>1, <3>2 DEF InFlight
    <2>2. ASSUME NEW auth \in Options, SyncSends(p, auth)
          PROVE  b \in InFlight \/ Completed
        <3> DEFINE w == WithCloses(p, Listed(p), auth)
        <3>1. /\ UNCHANGED <<lines, closed, disk, mem>> /\ net' = net \cup {w}
              /\ batch' = [batch EXCEPT ![p] = w]
            BY <2>2 DEF SyncSends, spool
        <3> HIDE DEF w
        <3>2. \A q \in Syncers : batch'[q] \in {batch[q], w}
            BY <3>1 DEF TypeOK
        <3>3. b \in InFlight \/ b = w
            BY <1>0, <3>1, <3>2 DEF InFlight
        <3> QED BY <3>1, <3>3 DEF w
    <2>3. CASE SyncHasNothingToDo(p) \/ SyncSaves(p) \/ SyncAbandons(p)
        BY <1>1, <2>3, EndsBatches DEF SyncHasNothingToDo, SyncSaves, SyncAbandons
    <2> QED BY <1>5, <2>1, <2>2, <2>3, ConfiguredAssumption DEF Pass
<1> QED BY <1>2, <1>3, <1>4, <1>5 DEF Next

(* What the writer and its machine do to the spool. *)
LEMMA SpoolStep ==
    ASSUME TypeOK, [Next]_vars
    PROVE  \/ UNCHANGED <<lines, closed>>
           \/ \E s \in Segs, b \in Bodies : WriterWrites(s, b)
           \/ \E s \in Segs, d \in Days : WriterCloses(s, d)
           \/ "unsynced" \in Faults /\ ClientLosesPower
<1>1. CASE Writer
    BY <1>1 DEF Writer, WriterSyncs
<1>2. ASSUME NEW b \in net, Server(b)
      PROVE  UNCHANGED <<lines, closed>>
    BY <1>2, ServerStores
<1>3. CASE UNCHANGED vars
    BY <1>3 DEF vars, spool
<1>4. CASE (\E b \in net : RequestIsLost(b)) \/ ServerRestarts \/ ClientLosesPower
    BY <1>4 DEF RequestIsLost, ServerRestarts, ClientLosesPower, spool
<1>5. ASSUME NEW p \in Syncers, Pass(p)
      PROVE  UNCHANGED <<lines, closed>>
    BY <1>5 DEF Pass, SyncReadsLogs, SyncSends, SyncHasNothingToDo, SyncSaves, SyncAbandons, spool
<1> QED BY <1>1, <1>2, <1>3, <1>4, <1>5 DEF Next

(* What a batch carries, and the store may hold, is what the spool has. *)
SpoolInv == \A s \in Segs : closed[s] # NoClose => closed[s].ev = lines[s] /\ lines[s] # <<>>

BatchOfSpool(b) ==
    \A s \in Segs : /\ IsPrefix(b.slice[s].chain, lines[s])
                    /\ b.closes[s] # NoClose => b.closes[s] = closed[s]

StoreOfSpool(st) ==
    \A s \in Segs :
        /\ IsPrefix(st.chain[s], lines[s])
        /\ st.closed[s] # NoClose => st.closed[s] = closed[s] /\ st.closed[s].ev = st.chain[s]

CopyInv ==
    /\ TypeOK
    /\ SpoolInv
    /\ \A b \in InFlight : BatchOfSpool(b)
    /\ StoreOfSpool(mem) /\ StoreOfSpool(disk)

SpoolGrows ==
    \A s \in Segs : /\ IsPrefix(lines[s], lines'[s])
                    /\ closed[s] # NoClose => closed'[s] = closed[s] /\ lines'[s] = lines[s]

LEMMA ChainTypes ==
    ASSUME TypeOK
    PROVE  /\ \A s \in Segs : lines[s] \in Seq(Bodies)
           /\ \A st \in Stores : \A s \in Segs : st.chain[s] \in Seq(Bodies)
           /\ \A b \in Batches : \A s \in Segs : b.slice[s].chain \in Seq(Bodies)
BY DEF TypeOK, Stores, Batches, Slices, Chains

LEMMA Appended ==
    ASSUME NEW S, NEW u \in Seq(S), NEW e \in S
    PROVE  /\ Append(u, e) \in Seq(S) /\ Append(u, e) # <<>> /\ IsPrefix(u, Append(u, e))
           /\ Len(Append(u, e)) = Len(u) + 1 /\ Append(u, e)[Len(u) + 1] = e
           /\ \A i \in 1..Len(u) : Append(u, e)[i] = u[i]
<1>1. /\ Append(u, e) \in Seq(S) /\ Len(Append(u, e)) = Len(u) + 1
      /\ Append(u, e)[Len(u) + 1] = e
      /\ \A i \in 1..Len(u) : Append(u, e)[i] = u[i]
    OBVIOUS
<1> DEFINE v == Append(u, e)
<1> HIDE DEF v
<1>2. v \in Seq(S) /\ Len(v) = Len(u) + 1 /\ \A i \in 1..Len(u) : v[i] = u[i]
    BY <1>1 DEF v
<1>3. v # <<>> /\ IsPrefix(u, v)
    BY <1>2, PrefixIs
<1> QED BY <1>1, <1>3 DEF v

LEMMA SpoolKept ==
    ASSUME TypeOK, SpoolInv, [Next]_vars, "unsynced" \notin Faults
    PROVE  SpoolInv' /\ SpoolGrows
<1>0. \A s \in Segs : lines[s] \in Seq(Bodies) /\ IsPrefix(lines[s], lines[s])
    BY ChainTypes, PrefixReflexive
<1>1. CASE UNCHANGED <<lines, closed>>
    BY <1>0, <1>1 DEF SpoolInv, SpoolGrows
<1>2. ASSUME NEW s \in Segs, NEW b \in Bodies, WriterWrites(s, b)
      PROVE  SpoolInv' /\ SpoolGrows
    <2>1. closed' = closed /\ lines' = [lines EXCEPT ![s] = Append(@, b)]
        BY <1>2 DEF WriterWrites
    <2>2. s \in Nat /\ s <= s
        BY DEF Segs
    <2>3. closed[s] = NoClose
        <3>1. CASE s \in OpenSegs
            BY <3>1 DEF OpenSegs
        <3>2. CASE s \in FreeSegs
            BY <2>2, <3>2 DEF FreeSegs, SpoolInv
        <3> QED BY <1>2, <3>1, <3>2 DEF WriterWrites, Target
    <2>4. lines'[s] = Append(lines[s], b) /\ \A r \in Segs \ {s} : lines'[r] = lines[r]
        BY <2>1 DEF TypeOK
    <2>5. IsPrefix(lines[s], Append(lines[s], b))
        BY <1>0, Appended
    <2> QED BY <1>0, <2>1, <2>3, <2>4, <2>5 DEF SpoolInv, SpoolGrows
<1>3. ASSUME NEW s \in Segs, NEW d \in Days, WriterCloses(s, d)
      PROVE  SpoolInv' /\ SpoolGrows
    <2>1. /\ lines' = lines /\ closed' = [closed EXCEPT ![s] = [ev |-> lines[s], day |-> d]]
          /\ lines[s] # <<>> /\ closed[s] = NoClose
        BY <1>3 DEF WriterCloses, OpenSegs
    <2>2. closed'[s].ev = lines[s] /\ \A r \in Segs \ {s} : closed'[r] = closed[r]
        BY <2>1 DEF TypeOK
    <2> QED BY <1>0, <2>1, <2>2 DEF SpoolInv, SpoolGrows
<1> QED BY <1>1, <1>2, <1>3, SpoolStep

LEMMA CopiesKept ==
    ASSUME TypeOK, TypeOK', SpoolInv, SpoolGrows
    PROVE  /\ \A b \in Batches : BatchOfSpool(b) => BatchOfSpool(b)'
           /\ \A st \in Stores : StoreOfSpool(st) => StoreOfSpool(st)'
<1>1. /\ \A s \in Segs : lines[s] \in Seq(Bodies) /\ lines'[s] \in Seq(Bodies)
      /\ \A st \in Stores : \A s \in Segs : st.chain[s] \in Seq(Bodies)
      /\ \A b \in Batches : \A s \in Segs : b.slice[s].chain \in Seq(Bodies)
    BY ChainTypes DEF TypeOK, Chains
<1>2. \A s \in Segs, u \in Seq(Bodies) : IsPrefix(u, lines[s]) => IsPrefix(u, lines'[s])
    BY <1>1, PrefixTransitive DEF SpoolGrows
<1>3. ASSUME NEW b \in Batches, BatchOfSpool(b)
      PROVE  BatchOfSpool(b)'
    BY <1>1, <1>2, <1>3 DEF BatchOfSpool, SpoolGrows
<1>4. ASSUME NEW st \in Stores, StoreOfSpool(st)
      PROVE  StoreOfSpool(st)'
    BY <1>1, <1>2, <1>4 DEF StoreOfSpool, SpoolGrows
<1> QED BY <1>3, <1>4

LEMMA BatchesOfSpool ==
    ASSUME TypeOK
    PROVE  /\ BatchOfSpool(NoBatch)
           /\ state # Garbled => BatchOfSpool(ReadBatch)
           /\ \A p \in Syncers, auth \in Options :
                  BatchOfSpool(batch[p]) => BatchOfSpool(WithCloses(p, Listed(p), auth))
<1>1. \A s \in Segs : lines[s] \in Seq(Bodies) /\ IsPrefix(<<>>, lines[s])
                      /\ IsPrefix(lines[s], lines[s])
    BY ChainTypes, PrefixReflexive, EmptyPrefix
<1>2. BatchOfSpool(NoBatch)
    BY <1>1 DEF BatchOfSpool, NoBatch, NoSlice
<1>3. BatchOfSpool(ReadBatch)
    <2>1. /\ \A s \in Segs : ReadBatch.slice[s].chain \in {<<>>, lines[s]}
          /\ \A s \in Segs : ReadBatch.closes[s] = NoClose
        BY DEF NoBatch, NoSlice, ReadBatch, Pending
    <2> QED BY <1>1, <2>1 DEF BatchOfSpool
<1>4. ASSUME NEW p \in Syncers, NEW auth \in Options, BatchOfSpool(batch[p])
      PROVE  BatchOfSpool(WithCloses(p, Listed(p), auth))
    <2> DEFINE w == WithCloses(p, Listed(p), auth)
    <2>1. w.slice = batch[p].slice /\ w.closes = PendingCloses(p, Listed(p))
        BY SendsTyped
    <2>2. \A s \in Segs : PendingCloses(p, Listed(p))[s] \in {NoClose, closed[s]}
        BY DEF PendingCloses
    <2> HIDE DEF w
    <2>3. BatchOfSpool(w)
        BY <1>4, <2>1, <2>2 DEF BatchOfSpool
    <2> QED BY <2>3 DEF w
<1> QED BY <1>2, <1>3, <1>4

LEMMA CommitsOfSpool ==
    ASSUME TypeOK, NEW st \in Stores, NEW b \in Batches, Accepts(st, b), StoreOfSpool(st),
           BatchOfSpool(b)
    PROVE  StoreOfSpool(Committed(st, b)) /\ StoreOfSpool(PartlyCommitted(st, b))
<1>1. ~Gap(st, b) /\ ~EventConflict(st, b) /\ ~BadClose(st, b)
    BY DEF Accepts
<1>2. \A s \in Segs : IsPrefix(ChainWith(st, b, s), lines[s])
    BY DEF ChainWith, StoreOfSpool, BatchOfSpool
<1>3. \A s \in Segs : st.closed[s] # NoClose => New(st, b, s) = {}
    BY <1>1 DEF EventConflict
<1>4. \A s \in Segs : IsPrefix(PartlyCommitted(st, b).chain[s], lines[s])
    <2> SUFFICES ASSUME NEW s \in Segs
                 PROVE  IsPrefix(PartlyCommitted(st, b).chain[s], lines[s])
        OBVIOUS
    <2>1. /\ PartlyCommitted(st, b).chain[s] \in Seq(Bodies) /\ lines[s] \in Seq(Bodies)
          /\ ChainWith(st, b, s) \in Seq(Bodies)
        BY <1>1, ChainTypes, PartlyCommittedIs, CommittedIs
    <2>2. IsPrefix(PartlyCommitted(st, b).chain[s], ChainWith(st, b, s))
        BY <1>1, PartlyCommittedIs
    <2> QED BY <1>2, <2>1, <2>2, PrefixTransitive
<1>5. StoreOfSpool(PartlyCommitted(st, b))
    BY <1>1, <1>3, <1>4, PartlyCommittedIs DEF StoreOfSpool
<1>6. ASSUME NEW s \in Segs, Committed(st, b).closed[s] # NoClose
      PROVE  /\ Committed(st, b).closed[s] = closed[s]
             /\ Committed(st, b).closed[s].ev = Committed(st, b).chain[s]
    <2>1. CASE s \in NewCloses(st, b)
        BY <1>1, <2>1, CommittedIs DEF BadClose, CloseVerifies, NewCloses, BatchOfSpool
    <2>2. CASE s \notin NewCloses(st, b)
        <3>1. st.closed[s] # NoClose /\ Committed(st, b).closed[s] = st.closed[s]
            BY <1>1, <1>6, <2>2, CommittedIs
        <3> QED BY <1>1, <1>3, <3>1, CommittedIs DEF ChainWith, StoreOfSpool
    <2> QED BY <2>1, <2>2
<1>7. StoreOfSpool(Committed(st, b))
    BY <1>1, <1>2, <1>6, CommittedIs DEF StoreOfSpool
<1> QED BY <1>5, <1>7

LEMMA CopyInit == Init => CopyInv
<1> SUFFICES ASSUME Init
             PROVE  CopyInv
    OBVIOUS
<1>1. TypeOK
    BY TypeInit
<1>2. SpoolInv
    BY DEF Init, SpoolInv
<1>3. InFlight \subseteq {NoBatch}
    BY DEF Init, InFlight
<1>4. StoreOfSpool(EmptyStore)
    <2>1. IsPrefix(<<>>, <<>>)
        BY DEF IsPrefix
    <2> QED BY <2>1 DEF Init, StoreOfSpool, EmptyStore
<1> QED BY <1>1, <1>2, <1>3, <1>4, BatchesOfSpool DEF CopyInv, Init

LEMMA CopyStep ==
    ASSUME CopyInv, [Next]_vars, "unsynced" \notin Faults
    PROVE  CopyInv'
<1>1. TypeOK /\ TypeOK' /\ SpoolInv /\ SpoolInv' /\ SpoolGrows
    BY TypeStep, SpoolKept DEF CopyInv
<1>2. ASSUME NEW b, b \in InFlight'
      PROVE  BatchOfSpool(b)'
    <2>1. BatchOfSpool(b) /\ b \in Batches
        <3>1. b \in Batches
            BY <1>1, <1>2 DEF TypeOK, InFlight
        <3>2. \A p \in Syncers : BatchOfSpool(batch[p])
            BY DEF CopyInv, InFlight
        <3> QED BY <1>1, <1>2, <3>1, <3>2, BatchesStep, BatchesOfSpool DEF CopyInv
    <2> QED BY <1>1, <2>1, CopiesKept
<1>3. StoreOfSpool(mem') /\ StoreOfSpool(disk')
    <2>1. ASSUME NEW b \in net, Server(b)
          PROVE  StoreOfSpool(mem') /\ StoreOfSpool(disk')
        <3>1. BatchOfSpool(b)
            BY DEF CopyInv, InFlight
        <3>2. StoreOfSpool(mem')
            BY <1>1, <2>1, <3>1, ServerStores, CommitsOfSpool DEF CopyInv
        <3>3. disk' = disk \/ disk' = mem'
            BY <1>1, <2>1, ServerStores
        <3> QED BY <3>2, <3>3 DEF CopyInv
    <2>2. ASSUME ServerRestarts
          PROVE  StoreOfSpool(mem') /\ StoreOfSpool(disk')
        BY <2>2 DEF ServerRestarts, CopyInv
    <2>3. ASSUME mem' = mem, disk' = disk
          PROVE  StoreOfSpool(mem') /\ StoreOfSpool(disk')
        BY <2>3 DEF CopyInv
    <2> QED BY <2>1, <2>2, <2>3, OthersStore DEF Next
<1>4. StoreOfSpool(mem)' /\ StoreOfSpool(disk)'
    <2>1. mem' \in Stores /\ disk' \in Stores
        BY <1>1 DEF TypeOK
    <2>2. PICK m \in Stores : m = mem'
        BY <2>1
    <2>3. PICK d \in Stores : d = disk'
        BY <2>1
    <2>4. StoreOfSpool(m)' /\ StoreOfSpool(d)'
        BY <1>1, <1>3, <2>2, <2>3, CopiesKept
    <2> QED BY <2>2, <2>3, <2>4 DEF StoreOfSpool
<1> QED BY <1>1, <1>2, <1>4 DEF CopyInv

(* Unless a pass reads a line that a power loss takes, the store holds one *)
(* logical copy of the spool, whatever is delivered twice, late or out of  *)
(* order and wherever the server fails (INV-008, API-006).                 *)
THEOREM OneLogicalCopyAlways ==
    ASSUME "unsynced" \notin Faults
    PROVE  Spec => []OneLogicalCopy
<1>1. CopyInv /\ [Next]_vars => CopyInv'
    BY CopyStep
<1>2. CopyInv => OneLogicalCopy
    BY DEF CopyInv, StoreOfSpool, OneLogicalCopy
<1> QED BY <1>1, <1>2, CopyInit, PTL DEF Spec

-----------------------------------------------------------------------------
(* What sync() acknowledges. *)

(* The events of b follow what the disk of the server has, and its closes  *)
(* are those of the spool.                                                 *)
BatchFits(b) ==
    \A s \in Segs : /\ b.slice[s].after <= Len(disk.chain[s])
                    /\ b.slice[s] = NoSlice \/ b.slice[s].after < Len(b.slice[s].chain)
                    /\ b.closes[s] # NoClose => b.closes[s] = closed[s]

(* The server has all of b on disk, *)
StoredOnDisk(b) ==
    \A s \in Segs : /\ Len(b.slice[s].chain) <= Len(disk.chain[s])
                    /\ b.closes[s] # NoClose => disk.closed[s] = b.closes[s]

(* or what a state says is acknowledged. *)
AckedOnDisk(st) ==
    \A s \in Segs : /\ st.acked[s] <= Len(disk.chain[s])
                    /\ s \in st.closes => closed[s] # NoClose /\ disk.closed[s] = closed[s]

AckInv ==
    /\ BehindInv
    /\ \A b \in InFlight : BatchFits(b)
    /\ \A b \in mem.answered : StoredOnDisk(b)
    /\ \A p \in Syncers : /\ pc[p] = "answered" => StoredOnDisk(batch[p])
                          /\ AckedOnDisk(loaded[p])
    /\ state # Garbled => AckedOnDisk(state)

LEMMA ClosesStay ==
    ASSUME TypeOK, [Next]_vars, "unsynced" \notin Faults
    PROVE  \A s \in Segs : closed[s] # NoClose => closed'[s] = closed[s]
<1>1. ASSUME NEW s \in Segs, NEW d \in Days, WriterCloses(s, d)
      PROVE  \A r \in Segs : closed[r] # NoClose => closed'[r] = closed[r]
    BY <1>1 DEF WriterCloses, OpenSegs, TypeOK
<1>2. ASSUME UNCHANGED closed
      PROVE  \A r \in Segs : closed[r] # NoClose => closed'[r] = closed[r]
    BY <1>2
<1>3. (\E s \in Segs, b \in Bodies : WriterWrites(s, b)) => UNCHANGED closed
    BY DEF WriterWrites
<1> QED BY <1>1, <1>2, <1>3, SpoolStep

LEMMA ChainsGrow ==
    ASSUME BehindInv, [Next]_vars
    PROVE  \A s \in Segs : /\ Len(disk.chain[s]) \in Nat /\ Len(disk'.chain[s]) \in Nat
                           /\ Len(disk.chain[s]) <= Len(disk'.chain[s])
<1>1. Extends(disk', disk) /\ disk \in Stores /\ disk' \in Stores
    BY StoreStep, TypeStep DEF BehindInv, TypeOK
<1>2. \A s \in Segs : disk.chain[s] \in Seq(Bodies) /\ disk'.chain[s] \in Seq(Bodies)
    BY <1>1 DEF Stores, Chains
<1> QED BY <1>1, <1>2, PrefixIs DEF Extends

(* Nothing that was on disk has to be looked at again. *)
LEMMA OnDiskStays ==
    ASSUME BehindInv, [Next]_vars, "unsynced" \notin Faults
    PROVE  /\ \A b \in Batches : BatchFits(b) => BatchFits(b)'
           /\ \A b \in Batches : StoredOnDisk(b) => StoredOnDisk(b)'
           /\ \A st \in States : AckedOnDisk(st) => AckedOnDisk(st)'
<1>1. \A s \in Segs : /\ Len(disk.chain[s]) \in Nat /\ Len(disk'.chain[s]) \in Nat
                      /\ Len(disk.chain[s]) <= Len(disk'.chain[s])
                      /\ closed[s] # NoClose => closed'[s] = closed[s]
                      /\ disk.closed[s] # NoClose => disk'.closed[s] = disk.closed[s]
    BY ChainsGrow, ClosesStay, StoreStep DEF BehindInv, Extends
<1>2. \A b \in Batches : \A s \in Segs : b.slice[s].after \in Nat /\ Len(b.slice[s].chain) \in Nat
    BY DEF Batches, Slices, Chains
<1>3. \A st \in States : \A s \in Segs : st.acked[s] \in Nat
    BY DEF States
<1>4. ASSUME NEW b \in Batches, BatchFits(b)
      PROVE  BatchFits(b)'
    BY <1>1, <1>2, <1>4 DEF BatchFits
<1>5. ASSUME NEW b \in Batches, StoredOnDisk(b)
      PROVE  StoredOnDisk(b)'
    <2>1. \A s \in Segs : Len(b.slice[s].chain) <= Len(disk'.chain[s])
        <3> SUFFICES ASSUME NEW s \in Segs
                     PROVE  Len(b.slice[s].chain) <= Len(disk'.chain[s])
            OBVIOUS
        <3>1. Len(b.slice[s].chain) <= Len(disk.chain[s]) /\ Len(b.slice[s].chain) \in Nat
            BY <1>2, <1>5 DEF StoredOnDisk
        <3>2. /\ Len(disk.chain[s]) \in Nat /\ Len(disk'.chain[s]) \in Nat
              /\ Len(disk.chain[s]) <= Len(disk'.chain[s])
            BY <1>1
        <3>3. \A x, y, z \in Nat : x <= y /\ y <= z => x <= z
            OBVIOUS
        <3> QED BY <3>1, <3>2, <3>3, Zenon
    <2>2. \A s \in Segs : b.closes[s] # NoClose => disk'.closed[s] = b.closes[s]
        BY <1>1, <1>5 DEF StoredOnDisk
    <2> QED BY <2>1, <2>2 DEF StoredOnDisk
<1>6. ASSUME NEW st \in States, AckedOnDisk(st)
      PROVE  AckedOnDisk(st)'
    BY <1>1, <1>3, <1>6 DEF AckedOnDisk
<1> QED BY <1>4, <1>5, <1>6

LEMMA BatchesFit ==
    ASSUME TypeOK
    PROVE  /\ BatchFits(NoBatch)
           /\ state # Garbled /\ AckedOnDisk(state) => BatchFits(ReadBatch)
           /\ \A p \in Syncers, auth \in Options :
                  BatchFits(batch[p]) => BatchFits(WithCloses(p, Listed(p), auth))
<1>1. \A s \in Segs : Len(disk.chain[s]) \in Nat
    BY DEF TypeOK, Stores, Chains
<1>2. BatchFits(NoBatch)
    BY <1>1 DEF BatchFits, NoBatch, NoSlice
<1>3. ASSUME state # Garbled, AckedOnDisk(state)
      PROVE  BatchFits(ReadBatch)
    <2>1. \A s \in Segs : state.acked[s] \in Nat /\ Len(lines[s]) \in Nat
        BY <1>3 DEF TypeOK, States, Chains
    <2>2. /\ \A s \in Segs : ReadBatch.slice[s] = Pending(state, s)
          /\ \A s \in Segs : ReadBatch.closes[s] = NoClose
        BY DEF NoBatch, ReadBatch
    <2>3. ASSUME NEW s \in Segs
          PROVE  /\ Pending(state, s).after <= Len(disk.chain[s])
                 /\ \/ Pending(state, s) = NoSlice
                    \/ Pending(state, s).after < Len(Pending(state, s).chain)
        BY <1>1, <1>3, <2>1 DEF Pending, NoSlice, AckedOnDisk
    <2> QED BY <2>2, <2>3 DEF BatchFits
<1>4. ASSUME NEW p \in Syncers, NEW auth \in Options, BatchFits(batch[p])
      PROVE  BatchFits(WithCloses(p, Listed(p), auth))
    <2> DEFINE w == WithCloses(p, Listed(p), auth)
    <2>1. w.slice = batch[p].slice /\ w.closes = PendingCloses(p, Listed(p))
        BY SendsTyped
    <2>2. \A s \in Segs : PendingCloses(p, Listed(p))[s] \in {NoClose, closed[s]}
        BY DEF PendingCloses
    <2> HIDE DEF w
    <2>3. BatchFits(w)
        BY <1>4, <2>1, <2>2 DEF BatchFits
    <2> QED BY <2>3 DEF w
<1> QED BY <1>2, <1>3, <1>4

(* A commit that the disk has stores all of the batch: what was not new    *)
(* the server had already.                                                 *)
LEMMA CommitStores ==
    ASSUME NEW st \in Stores, NEW b \in Batches, Accepts(st, b),
           \A s \in Segs : b.slice[s] = NoSlice \/ b.slice[s].after < Len(b.slice[s].chain),
           disk' = Committed(st, b)
    PROVE  StoredOnDisk(b)'
<1>1. ~Gap(st, b) /\ ~EventConflict(st, b) /\ ~CloseConflict(st, b)
    BY DEF Accepts
<1> SUFFICES ASSUME NEW s \in Segs
             PROVE  /\ Len(b.slice[s].chain) <= Len(disk'.chain[s])
                    /\ b.closes[s] # NoClose => disk'.closed[s] = b.closes[s]
    BY DEF StoredOnDisk
<1>2. /\ disk'.chain[s] = ChainWith(st, b, s) /\ disk'.chain[s] \in Seq(Bodies)
      /\ disk'.closed[s] = IF s \in NewCloses(st, b) THEN b.closes[s] ELSE st.closed[s]
    BY <1>1, CommittedIs
<1>3. /\ st.chain[s] \in Seq(Bodies) /\ b.slice[s].chain \in Seq(Bodies)
      /\ b.slice[s].after \in Nat
    BY DEF Stores, Batches, Slices, Chains
<1>4. CASE New(st, b, s) # {}
    <2>1. disk'.chain[s] = b.slice[s].chain
        BY <1>2, <1>4 DEF ChainWith
    <2>2. Len(b.slice[s].chain) <= Len(disk'.chain[s])
        BY <1>3, <2>1
    <2> QED BY <1>1, <1>2, <2>2 DEF CloseConflict, NewCloses
<1>5. CASE New(st, b, s) = {}
    <2>1. Len(b.slice[s].chain) <= Len(st.chain[s])
        <3>1. CASE b.slice[s] = NoSlice
            BY <1>3, <3>1 DEF NoSlice
        <3>2. CASE b.slice[s] # NoSlice
            <4>1. Len(b.slice[s].chain) \in Carried(b, s)
                BY <1>3, <3>2 DEF Carried
            <4>2. Holds(st, b, s, Len(b.slice[s].chain))
                BY <1>1, <1>5, <4>1 DEF New, EventConflict
            <4> QED BY <4>2 DEF Holds
        <3> QED BY <3>1, <3>2
    <2>2. disk'.chain[s] = st.chain[s]
        BY <1>2, <1>5 DEF ChainWith
    <2> QED BY <1>1, <1>2, <2>1, <2>2 DEF CloseConflict, NewCloses
<1> QED BY <1>4, <1>5

(* How a pass gets to an answer, a loaded state and a new state. *)
LEMMA PassStep ==
    ASSUME TypeOK, [Next]_vars, NEW q \in Syncers
    PROVE  /\ pc'[q] = "answered" =>
                  \/ pc[q] = "answered" /\ batch'[q] = batch[q]
                  \/ \E b \in net : /\ IngestReplays(b) \/ IngestCommits(b)
                                    /\ batch'[q] = b
           /\ \/ loaded'[q] = loaded[q] \/ loaded'[q] = NoState
              \/ state # Garbled /\ loaded'[q] = state
<1> DEFINE Answered == pc'[q] = "answered" =>
                           \/ pc[q] = "answered" /\ batch'[q] = batch[q]
                           \/ \E b \in net : /\ IngestReplays(b) \/ IngestCommits(b)
                                             /\ batch'[q] = b
           Loaded == \/ loaded'[q] = loaded[q] \/ loaded'[q] = NoState
                     \/ state # Garbled /\ loaded'[q] = state
<1>1. ASSUME UNCHANGED <<pc, loaded, batch>>
      PROVE  Answered /\ Loaded
    BY <1>1
<1>2. ASSUME NEW p \in Syncers, Ends(p)
      PROVE  Answered /\ Loaded
    <2>1. CASE p = q
        BY <1>2, <2>1 DEF Ends, TypeOK
    <2>2. CASE p # q
        BY <1>2, <2>2 DEF Ends, TypeOK
    <2> QED BY <2>1, <2>2
<1>3. ASSUME NEW b \in net, Returns(b), IngestReplays(b) \/ IngestCommits(b)
      PROVE  Answered /\ Loaded
    <2>1. ASSUME NEW p \in Syncers, Waiting(p, b), pc' = [pc EXCEPT ![p] = "answered"],
                 UNCHANGED <<loaded, batch>>
          PROVE  Answered /\ Loaded
        <3>1. CASE p = q
            BY <1>3, <2>1, <3>1 DEF Waiting
        <3>2. CASE p # q
            BY <2>1, <3>2 DEF TypeOK
        <3> QED BY <3>1, <3>2
    <2> QED BY <1>1, <1>3, <2>1 DEF Returns
<1>4. ASSUME NEW b \in net, Server(b)
      PROVE  Answered /\ Loaded
    <2>1. CASE IngestReplays(b) \/ IngestCommits(b)
        BY <1>3, <2>1 DEF IngestReplays, IngestCommits
    <2>2. CASE Raises(b)
        BY <1>1, <1>2, <2>2 DEF Raises
    <2> QED BY <1>4, <2>1, <2>2 DEF Server, IngestRefuses, PersistFails, CommitAsserts
<1>5. ASSUME NEW p \in Syncers, Pass(p)
      PROVE  Answered /\ Loaded
    <2>1. CASE SyncReadsLogs(p)
        BY <2>1 DEF SyncReadsLogs, TypeOK
    <2>2. ASSUME NEW auth \in Options, SyncSends(p, auth)
          PROVE  Answered /\ Loaded
        <3>1. /\ pc' = [pc EXCEPT ![p] = "sent"] /\ loaded' = loaded
              /\ batch' = [batch EXCEPT ![p] = batch'[p]]
            BY <2>2 DEF SyncSends, TypeOK
        <3>2. CASE p = q
            BY <3>1, <3>2 DEF TypeOK
        <3>3. CASE p # q
            BY <3>1, <3>3 DEF TypeOK
        <3> QED BY <3>2, <3>3
    <2>3. CASE SyncHasNothingToDo(p) \/ SyncSaves(p) \/ SyncAbandons(p)
        BY <1>2, <2>3 DEF SyncHasNothingToDo, SyncSaves, SyncAbandons
    <2> QED BY <1>5, <2>1, <2>2, <2>3, ConfiguredAssumption DEF Pass
<1>6. CASE ClientLosesPower
    BY <1>6 DEF ClientLosesPower
<1>7. CASE Writer \/ (\E b \in net : RequestIsLost(b)) \/ ServerRestarts \/ UNCHANGED vars
    BY <1>1, <1>7 DEF Writer, WriterWrites, WriterSyncs, WriterCloses, RequestIsLost,
       ServerRestarts, vars, client
<1> QED BY <1>4, <1>5, <1>6, <1>7 DEF Next

LEMMA StateStep ==
    ASSUME TypeOK, [Next]_vars
    PROVE  \/ state' = state \/ state' = Garbled
           \/ /\ UNCHANGED <<disk, closed>>
              /\ \E p \in Syncers : /\ pc[p] = "answered"
                                    /\ state' = Acknowledging(loaded[p], batch[p])
<1>1. ASSUME NEW p \in Syncers, Pass(p)
      PROVE  \/ state' = state
             \/ /\ UNCHANGED <<disk, closed>>
                /\ pc[p] = "answered" /\ state' = Acknowledging(loaded[p], batch[p])
    BY <1>1 DEF Pass, SyncReadsLogs, SyncSends, SyncHasNothingToDo, SyncSaves, SyncAbandons, spool
<1>2. ASSUME NEW b \in net, Server(b)
      PROVE  state' = state
    BY <1>2, ServerStores
<1>3. CASE ClientLosesPower
    BY <1>3 DEF ClientLosesPower
<1>4. CASE Writer \/ (\E b \in net : RequestIsLost(b)) \/ ServerRestarts \/ UNCHANGED vars
    BY <1>4 DEF Writer, WriterWrites, WriterSyncs, WriterCloses, RequestIsLost,
       ServerRestarts, vars, client
<1> QED BY <1>1, <1>2, <1>3, <1>4 DEF Next

LEMMA AckInit == Init => AckInv
<1> SUFFICES ASSUME Init
             PROVE  AckInv
    OBVIOUS
<1>1. BehindInv /\ TypeOK
    BY BehindInit, TypeInit
<1>2. \A s \in Segs : Len(disk.chain[s]) = 0
    BY DEF Init, EmptyStore
<1>3. InFlight \subseteq {NoBatch} /\ mem.answered = {}
    BY DEF Init, InFlight, EmptyStore
<1>4. AckedOnDisk(NoState)
    BY <1>2 DEF AckedOnDisk, NoState
<1> QED BY <1>1, <1>3, <1>4, BatchesFit DEF AckInv, Init

LEMMA AckStep ==
    ASSUME AckInv, [Next]_vars, {"persist", "rename", "unsynced"} \cap Faults = {}
    PROVE  AckInv'
<1>1. TypeOK /\ BehindInv /\ BehindInv' /\ TypeOK' /\ InFlight \subseteq Batches
    BY StoreStep, InFlightTyped DEF AckInv, BehindInv
<1>2. \A p \in Syncers : loaded[p] \in States /\ batch[p] \in Batches /\ batch[p] \in InFlight
    BY <1>1 DEF TypeOK, InFlight
<1>3. ASSUME NEW b, b \in InFlight'
      PROVE  BatchFits(b)'
    <2>1. b \in Batches
        BY <1>1, <1>3 DEF TypeOK, InFlight
    <2>2. BatchFits(b)
        BY <1>1, <1>2, <1>3, BatchesStep, BatchesFit DEF AckInv
    <2> QED BY <1>1, <2>1, <2>2, OnDiskStays
<1>4. \A b \in mem.answered : b \in Batches /\ StoredOnDisk(b)'
    <2>1. mem.answered \subseteq Batches
        BY <1>1 DEF TypeOK, Stores
    <2> QED BY <1>1, <2>1, OnDiskStays DEF AckInv
<1>5. ASSUME NEW b \in net, IngestCommits(b)
      PROVE  StoredOnDisk(b)' /\ mem'.answered = mem.answered \cup {b}
    <2>1. b \in InFlight /\ mem \in Stores /\ b \in Batches
        BY <1>1 DEF InFlight, TypeOK
    <2>2. /\ Accepts(mem, b) /\ mem' = Committed(mem, b) /\ disk' = mem'
        BY <1>5 DEF IngestCommits
    <2>3. \A s \in Segs : b.slice[s] = NoSlice \/ b.slice[s].after < Len(b.slice[s].chain)
        BY <2>1 DEF AckInv, BatchFits
    <2>4. ~Gap(mem, b)
        BY <2>2 DEF Accepts
    <2> QED BY <2>1, <2>2, <2>3, <2>4, CommitStores, CommittedIs
<1>6. \A b \in mem'.answered : StoredOnDisk(b)'
    <2>1. ASSUME NEW b \in net, Server(b)
          PROVE  mem'.answered = mem.answered \/ IngestCommits(b)
        <3>1. mem \in Stores /\ b \in Batches
            BY <1>1 DEF TypeOK
        <3>2. CASE CommitAsserts(b)
            BY <3>1, <3>2, PartlyCommittedIs DEF CommitAsserts, Accepts
        <3>3. CASE IngestReplays(b) \/ IngestRefuses(b)
            BY <3>3 DEF IngestReplays, IngestRefuses
        <3> QED BY <2>1, <3>2, <3>3 DEF Server, PersistFails
    <2>2. ServerRestarts => mem'.answered \subseteq mem.answered
        BY DEF ServerRestarts, AckInv, BehindInv, Extends
    <2> QED BY <1>4, <1>5, <2>1, <2>2, OthersStore DEF Next
<1>7. ASSUME NEW p \in Syncers, pc'[p] = "answered"
      PROVE  StoredOnDisk(batch[p])'
    <2>1. CASE pc[p] = "answered" /\ batch'[p] = batch[p]
        <3>1. StoredOnDisk(batch[p]) /\ batch[p] \in Batches
            BY <1>2, <2>1 DEF AckInv
        <3>2. PICK b \in Batches : b = batch[p] /\ StoredOnDisk(b)
            BY <3>1
        <3>3. StoredOnDisk(b)'
            BY <1>1, <3>2, OnDiskStays
        <3> QED BY <2>1, <3>2, <3>3 DEF StoredOnDisk
    <2>2. ASSUME NEW b \in net, IngestReplays(b) \/ IngestCommits(b), batch'[p] = b
          PROVE  StoredOnDisk(batch[p])'
        <3>1. StoredOnDisk(b)'
            BY <1>4, <1>5, <2>2 DEF IngestReplays, Replays
        <3> QED BY <2>2, <3>1 DEF StoredOnDisk
    <2> QED BY <1>1, <1>7, <2>1, <2>2, PassStep
<1>8. AckedOnDisk(NoState)
    BY <1>1, ChainsGrow DEF AckedOnDisk, NoState
<1>9. \A p \in Syncers : AckedOnDisk(loaded[p])'
    <2> SUFFICES ASSUME NEW p \in Syncers
                 PROVE  AckedOnDisk(loaded[p])'
        OBVIOUS
    <2>1. loaded'[p] \in States /\ AckedOnDisk(loaded'[p])
        BY <1>1, <1>8, PassStep DEF TypeOK, AckInv
    <2>2. PICK st \in States : st = loaded'[p] /\ AckedOnDisk(st)
        BY <2>1
    <2>3. AckedOnDisk(st)'
        BY <1>1, <2>2, OnDiskStays
    <2> QED BY <2>2, <2>3 DEF AckedOnDisk
<1>10. ASSUME state' # Garbled
       PROVE  AckedOnDisk(state)'
    <2>1. CASE state' = state
        <3>1. PICK st \in States : st = state' /\ AckedOnDisk(st)
            BY <1>1, <1>10, <2>1 DEF TypeOK, AckInv
        <3>2. AckedOnDisk(st)'
            BY <1>1, <3>1, OnDiskStays
        <3> QED BY <3>1, <3>2 DEF AckedOnDisk
    <2>2. ASSUME UNCHANGED <<disk, closed>>, NEW p \in Syncers, pc[p] = "answered",
                 state' = Acknowledging(loaded[p], batch[p])
          PROVE  AckedOnDisk(state)'
        <3>1. AckedOnDisk(loaded[p]) /\ StoredOnDisk(batch[p]) /\ BatchFits(batch[p])
            BY <1>2, <2>2 DEF AckInv
        <3>2. \A s \in Segs : state'.acked[s] <= Len(disk.chain[s])
            BY <1>2, <2>2, <3>1, AcknowledgingTyped DEF AckedOnDisk, StoredOnDisk
        <3>3. ASSUME NEW s \in Segs, s \in state'.closes
              PROVE  closed[s] # NoClose /\ disk.closed[s] = closed[s]
            <4>1. s \in loaded[p].closes \/ batch[p].closes[s] # NoClose
                BY <1>2, <2>2, <3>3, AcknowledgingTyped
            <4> QED BY <3>1, <4>1 DEF AckedOnDisk, StoredOnDisk, BatchFits
        <3> QED BY <2>2, <3>2, <3>3 DEF AckedOnDisk
    <2> QED BY <1>1, <1>10, <2>1, <2>2, StateStep
<1> QED BY <1>1, <1>3, <1>6, <1>7, <1>9, <1>10 DEF AckInv

(* As long as the store can save its file and a pass reads only what       *)
(* stays, sync() may forget what it has acknowledged: the server has it on *)
(* disk, event by event as the spool has it, whatever is lost, delivered   *)
(* twice or late, also if event_ids are used again or the state is lost.   *)
THEOREM AcknowledgedIsStored ==
    ASSUME {"persist", "rename", "unsynced"} \cap Faults = {}
    PROVE  Spec => []AckedIsStored
<1> DEFINE Inv == CopyInv /\ AckInv
<1>1. Init => Inv
    BY CopyInit, AckInit
<1>2. Inv /\ [Next]_vars => Inv'
    BY CopyStep, AckStep
<1>3. ASSUME Inv
      PROVE  AckedIsStored
    <2> SUFFICES ASSUME state # Garbled, NEW s \in Segs
                 PROVE  /\ state.acked[s] <= Len(lines[s])
                        /\ IsPrefix(SubSeq(lines[s], 1, state.acked[s]), disk.chain[s])
                        /\ s \in state.closes => disk.closed[s] = closed[s]
        BY DEF AckedIsStored
    <2> DEFINE n == state.acked[s]
               u == disk.chain[s]
               v == lines[s]
    <2>1. u \in Seq(Bodies) /\ v \in Seq(Bodies) /\ n \in Nat
        BY <1>3, ChainTypes DEF CopyInv, TypeOK, States
    <2>2. IsPrefix(u, v) /\ n <= Len(u) /\ (s \in state.closes => disk.closed[s] = closed[s])
        BY <1>3 DEF CopyInv, StoreOfSpool, AckInv, AckedOnDisk
    <2> HIDE DEF n, u, v
    <2>3. Len(u) <= Len(v) /\ \A i \in 1..Len(u) : u[i] = v[i]
        BY <2>1, <2>2, PrefixIs
    <2>4. n <= Len(v) /\ n \in 0..Len(v)
        BY <2>1, <2>2, <2>3
    <2>5. /\ SubSeq(v, 1, n) \in Seq(Bodies) /\ Len(SubSeq(v, 1, n)) = n
          /\ \A i \in 1..n : SubSeq(v, 1, n)[i] = v[i]
        BY <2>1, <2>4, PrefixOf
    <2>6. \A i \in 1..n : SubSeq(v, 1, n)[i] = u[i]
        BY <2>1, <2>2, <2>3, <2>5
    <2>7. IsPrefix(SubSeq(v, 1, n), u)
        BY <2>1, <2>2, <2>5, <2>6, PrefixIs
    <2> QED BY <2>2, <2>4, <2>7 DEF n, u, v
<1> HIDE DEF Inv
<1> QED BY <1>1, <1>2, <1>3, PTL DEF Spec

-----------------------------------------------------------------------------
(* Event_ids that are never used again. *)

DistinctIn(chain) ==
    \A s, t \in Segs : \A i \in 1..Len(chain[s]), j \in 1..Len(chain[t]) :
        chain[s][i] = chain[t][j] => s = t /\ i = j

BatchChain(b) == [s \in Segs |-> b.slice[s].chain]

(* Every stored event and close came with an answered batch. *)
BroughtWhole(st) ==
    \A s \in Segs :
        /\ \A k \in 1..Len(st.chain[s]) : \E b \in st.answered : k \in Carried(b, s)
        /\ st.closed[s] # NoClose => \E b \in st.answered : b.closes[s] = st.closed[s]

WholeInv ==
    /\ TypeOK
    /\ DistinctIn(lines)
    /\ \A b \in InFlight : DistinctIn(BatchChain(b))
    /\ BroughtWhole(mem) /\ BroughtWhole(disk)

LEMMA PrefixesDistinct ==
    ASSUME NEW c, NEW d, DistinctIn(c),
           \A s \in Segs : c[s] \in Seq(Bodies) /\ d[s] \in Seq(Bodies) /\ IsPrefix(d[s], c[s])
    PROVE  DistinctIn(d)
<1> SUFFICES ASSUME NEW s \in Segs, NEW t \in Segs, NEW i \in 1..Len(d[s]),
                    NEW j \in 1..Len(d[t]), d[s][i] = d[t][j]
             PROVE  s = t /\ i = j
    BY DEF DistinctIn
<1>1. c[s] \in Seq(Bodies) /\ d[s] \in Seq(Bodies) /\ IsPrefix(d[s], c[s])
    OBVIOUS
<1>2. i \in 1..Len(c[s]) /\ c[s][i] = d[s][i]
    BY <1>1, PrefixIs
<1>3. c[t] \in Seq(Bodies) /\ d[t] \in Seq(Bodies) /\ IsPrefix(d[t], c[t])
    OBVIOUS
<1>4. j \in 1..Len(c[t]) /\ c[t][j] = d[t][j]
    BY <1>3, PrefixIs
<1> QED BY <1>2, <1>4 DEF DistinctIn

(* commit() finds every event_id new. *)
LEMMA NothingRepeats ==
    ASSUME NEW st \in Stores, NEW b \in Batches, DistinctIn(BatchChain(b))
    PROVE  ~AssertionFails(st, b)
<1> SUFFICES ASSUME NEW s \in Segs, NEW t \in Segs, NEW k \in New(st, b, s),
                    NEW j \in New(st, b, t), Earlier(s, k, t, j),
                    b.slice[t].chain[j] = b.slice[s].chain[k]
             PROVE  FALSE
    BY DEF AssertionFails, Repeats, EventId
<1>1. /\ b.slice[s].after \in Nat /\ Len(b.slice[s].chain) \in Nat
      /\ b.slice[t].after \in Nat /\ Len(b.slice[t].chain) \in Nat
    BY DEF Batches, Slices, Chains
<1>2. k \in 1..Len(b.slice[s].chain) /\ j \in 1..Len(b.slice[t].chain)
    BY <1>1 DEF New, Carried
<1>3. s = t /\ j = k
    BY <1>2 DEF DistinctIn, BatchChain
<1>4. s \in Nat /\ k \in Nat
    BY <1>2 DEF Segs
<1> QED BY <1>3, <1>4 DEF Earlier

LEMMA WritesDistinct ==
    ASSUME TypeOK, DistinctIn(lines), NEW s \in Segs, NEW b \in Bodies, WriterWrites(s, b),
           "reuse" \notin Faults
    PROVE  DistinctIn(lines')
<1>1. b \notin Recorded /\ lines' = [lines EXCEPT ![s] = Append(@, b)]
    BY DEF WriterWrites
<1>2. \A t \in Segs : lines[t] \in Seq(Bodies) /\ Len(lines[t]) \in Nat
    BY ChainTypes
<1>3. \A t \in Segs : \A i \in 1..Len(lines[t]) : lines[t][i] # b
    BY <1>1, <1>2, ElementsOf DEF Recorded
<1>4. /\ Len(lines'[s]) = Len(lines[s]) + 1 /\ lines'[s][Len(lines[s]) + 1] = b
      /\ \A i \in 1..Len(lines[s]) : lines'[s][i] = lines[s][i]
    BY <1>1, <1>2, Appended DEF TypeOK
<1>5. \A t \in Segs \ {s} : lines'[t] = lines[t]
    BY <1>1 DEF TypeOK
<1>6. \A t \in Segs : \A i \in 1..Len(lines'[t]) :
          \/ i \in 1..Len(lines[t]) /\ lines'[t][i] = lines[t][i]
          \/ t = s /\ i = Len(lines[s]) + 1 /\ lines'[t][i] = b
    BY <1>2, <1>4, <1>5
<1> HIDE DEF DistinctIn
<1> QED BY <1>3, <1>6 DEF DistinctIn

LEMMA LinesDistinct ==
    ASSUME TypeOK, [Next]_vars, DistinctIn(lines), "reuse" \notin Faults
    PROVE  DistinctIn(lines)'
<1>1. \A s \in Segs : lines[s] \in Seq(Bodies) /\ lines'[s] \in Seq(Bodies)
    BY TypeStep, ChainTypes DEF TypeOK, Chains
<1>2. (\E s \in Segs, b \in Bodies : WriterWrites(s, b)) => DistinctIn(lines')
    BY WritesDistinct
<1>3. ASSUME ClientLosesPower
      PROVE  DistinctIn(lines')
    <2>1. \A s \in Segs : IsPrefix(lines'[s], lines[s])
        <3> SUFFICES ASSUME NEW s \in Segs
                     PROVE  IsPrefix(lines'[s], lines[s])
            OBVIOUS
        <3>1. lines'[s] = lines[s] \/ (lines[s] # <<>> /\ lines'[s] = Front(lines[s]))
            <4>1. \/ lines' = lines
                  \/ lines' = [r \in Segs |-> IF r \in OpenSegs THEN Front(lines[r])
                                                                ELSE lines[r]]
                BY <1>3 DEF ClientLosesPower, LosesUnsynced
            <4>2. s \in OpenSegs => lines[s] # <<>>
                BY DEF OpenSegs
            <4>3. CASE s \in OpenSegs
                BY <4>1, <4>2, <4>3
            <4>4. CASE s \notin OpenSegs
                BY <4>1, <4>4
            <4> QED BY <4>3, <4>4
        <3>2. CASE lines'[s] = lines[s]
            BY <1>1, <3>2, PrefixReflexive
        <3>3. CASE lines[s] # <<>> /\ lines'[s] = Front(lines[s])
            <4>1. /\ Len(lines'[s]) = Len(lines[s]) - 1 /\ Len(lines[s]) \in Nat
                  /\ \A i \in 1..Len(lines'[s]) : lines'[s][i] = lines[s][i]
                BY <1>1, <3>3, FrontIs
            <4> QED BY <1>1, <4>1, PrefixIs
        <3> QED BY <3>1, <3>2, <3>3
    <2> QED BY <1>1, <2>1, PrefixesDistinct
<1>4. (\E s \in Segs, d \in Days : WriterCloses(s, d)) => UNCHANGED lines
    BY DEF WriterCloses
<1>5. DistinctIn(lines')
    BY <1>2, <1>3, <1>4, SpoolStep
<1> QED BY <1>5 DEF DistinctIn

LEMMA BatchesDistinct ==
    ASSUME TypeOK, DistinctIn(lines)
    PROVE  /\ DistinctIn(BatchChain(NoBatch))
           /\ DistinctIn(BatchChain(ReadBatch))
           /\ \A p \in Syncers, auth \in Options :
                  BatchChain(WithCloses(p, Listed(p), auth)) = BatchChain(batch[p])
<1>1. \A s \in Segs : /\ <<>> \in Seq(Bodies) /\ lines[s] \in Seq(Bodies)
                      /\ IsPrefix(<<>>, lines[s]) /\ IsPrefix(lines[s], lines[s])
    BY ChainTypes, PrefixReflexive, EmptyPrefix
<1>2. ASSUME NEW b \in {NoBatch, ReadBatch}, NEW s \in Segs
      PROVE  BatchChain(b)[s] \in {<<>>, lines[s]}
    BY <1>2 DEF BatchChain, NoBatch, NoSlice, ReadBatch, Pending
<1>3. \A b \in {NoBatch, ReadBatch} : DistinctIn(BatchChain(b))
    <2> SUFFICES ASSUME NEW b \in {NoBatch, ReadBatch}
                 PROVE  DistinctIn(BatchChain(b))
        OBVIOUS
    <2> DEFINE c == BatchChain(b)
    <2>1. \A s \in Segs : c[s] \in {<<>>, lines[s]}
        BY <1>2
    <2> HIDE DEF c
    <2>2. DistinctIn(c)
        BY <1>1, <2>1, PrefixesDistinct
    <2> QED BY <2>2 DEF c
<1> QED BY <1>3, SendsTyped DEF BatchChain

LEMMA CommitsWhole ==
    ASSUME NEW st \in Stores, NEW b \in Batches, Accepts(st, b), BroughtWhole(st)
    PROVE  BroughtWhole(Committed(st, b))
<1>1. ~Gap(st, b)
    BY DEF Accepts
<1> SUFFICES ASSUME NEW s \in Segs
             PROVE  /\ \A k \in 1..Len(ChainWith(st, b, s)) :
                           \E a \in st.answered \cup {b} : k \in Carried(a, s)
                    /\ Committed(st, b).closed[s] # NoClose =>
                           \E a \in st.answered \cup {b} :
                               a.closes[s] = Committed(st, b).closed[s]
    BY <1>1, CommittedIs DEF BroughtWhole
<1>2. \A k \in 1..Len(st.chain[s]) : \E a \in st.answered : k \in Carried(a, s)
    BY DEF BroughtWhole
<1>3. ASSUME NEW k \in 1..Len(ChainWith(st, b, s))
      PROVE  \E a \in st.answered \cup {b} : k \in Carried(a, s)
    <2>1. CASE New(st, b, s) = {}
        BY <1>2, <1>3, <2>1 DEF ChainWith
    <2>2. CASE New(st, b, s) # {}
        <3>1. /\ New(st, b, s) = (Len(st.chain[s]) + 1)..Len(b.slice[s].chain)
              /\ Len(st.chain[s]) \in Nat /\ Len(b.slice[s].chain) \in Nat
              /\ k \in 1..Len(b.slice[s].chain)
            <4>1. Len(st.chain[s]) \in Nat /\ Len(b.slice[s].chain) \in Nat
                BY DEF Stores, Batches, Slices, Chains
            <4>2. ChainWith(st, b, s) = b.slice[s].chain
                BY <2>2 DEF ChainWith
            <4> QED BY <1>1, <1>3, <2>2, <4>1, <4>2, NewEvents
        <3>2. k \in 1..Len(st.chain[s]) \/ k \in New(st, b, s)
            BY <3>1
        <3> QED BY <1>2, <3>2 DEF New
    <2> QED BY <2>1, <2>2
<1>4. Committed(st, b).closed[s] # NoClose =>
          \E a \in st.answered \cup {b} : a.closes[s] = Committed(st, b).closed[s]
    BY <1>1, CommittedIs DEF BroughtWhole
<1> QED BY <1>3, <1>4

LEMMA WholeInit == Init => WholeInv
<1> SUFFICES ASSUME Init
             PROVE  WholeInv
    OBVIOUS
<1>1. TypeOK
    BY TypeInit
<1>2. \A s \in Segs : Len(lines[s]) = 0 /\ Len(EmptyStore.chain[s]) = 0
    BY DEF Init, EmptyStore
<1>3. \A i \in 1..0 : FALSE
    OBVIOUS
<1>4. DistinctIn(lines)
    BY <1>2, <1>3 DEF DistinctIn
<1>5. InFlight \subseteq {NoBatch}
    BY DEF Init, InFlight
<1>6. BroughtWhole(EmptyStore)
    <2>1. \A s \in Segs : EmptyStore.closed[s] = NoClose
        BY DEF EmptyStore
    <2> QED BY <1>2, <1>3, <2>1 DEF BroughtWhole
<1> QED BY <1>1, <1>4, <1>5, <1>6, BatchesDistinct DEF WholeInv, Init

LEMMA WholeStep ==
    ASSUME WholeInv, [Next]_vars, "reuse" \notin Faults
    PROVE  WholeInv'
<1>1. TypeOK /\ TypeOK' /\ DistinctIn(lines) /\ DistinctIn(lines)'
    BY TypeStep, LinesDistinct DEF WholeInv
<1>2. ASSUME NEW b, b \in InFlight'
      PROVE  DistinctIn(BatchChain(b))
    <2>1. \A p \in Syncers : DistinctIn(BatchChain(batch[p]))
        BY DEF WholeInv, InFlight
    <2> QED BY <1>1, <1>2, <2>1, BatchesStep, BatchesDistinct DEF WholeInv
<1>3. ASSUME NEW b \in net, Server(b)
      PROVE  BroughtWhole(mem') /\ BroughtWhole(disk')
    <2>1. mem \in Stores /\ b \in Batches /\ DistinctIn(BatchChain(b))
        BY <1>1 DEF TypeOK, WholeInv, InFlight
    <2>2. ~AssertionFails(mem, b)
        BY <2>1, NothingRepeats
    <2>3. BroughtWhole(mem')
        BY <1>1, <1>3, <2>1, <2>2, ServerStores, CommitsWhole DEF WholeInv
    <2>4. disk' = disk \/ disk' = mem'
        BY <1>1, <1>3, ServerStores
    <2> QED BY <2>3, <2>4 DEF WholeInv
<1>4. ASSUME ServerRestarts
      PROVE  BroughtWhole(mem') /\ BroughtWhole(disk')
    BY <1>4 DEF ServerRestarts, WholeInv
<1>5. ASSUME mem' = mem, disk' = disk
      PROVE  BroughtWhole(mem') /\ BroughtWhole(disk')
    BY <1>5 DEF WholeInv
<1>6. BroughtWhole(mem') /\ BroughtWhole(disk')
    BY <1>3, <1>4, <1>5, OthersStore DEF Next
<1>7. BroughtWhole(mem)' /\ BroughtWhole(disk)'
    BY <1>6 DEF BroughtWhole
<1>8. \A b \in InFlight' : DistinctIn(BatchChain(b))'
    BY <1>2 DEF DistinctIn, BatchChain
<1> QED BY <1>1, <1>7, <1>8 DEF WholeInv

(* Unless a program records an event_id twice, every stored event and      *)
(* close came with a batch that was accepted as a whole, wherever the      *)
(* server or the writer fails (API-008).                                   *)
THEOREM BatchesAreAllOrNothing ==
    ASSUME "reuse" \notin Faults
    PROVE  Spec => []AllOrNothing
<1>1. WholeInv /\ [Next]_vars => WholeInv'
    BY WholeStep
<1>2. WholeInv => AllOrNothing
    BY DEF WholeInv, BroughtWhole, AllOrNothing
<1> QED BY <1>1, <1>2, WholeInit, PTL DEF Spec

-----------------------------------------------------------------------------
(* No request of this writer is a conflict or a gap. *)

(* Of a chain of the spool, the server has the events up to its tip. *)
LEMMA StoredUpToTip ==
    ASSUME TypeOK, DistinctIn(lines), StoreOfSpool(mem), NEW b \in Batches, BatchOfSpool(b),
           NEW s \in Segs, NEW k \in 1..Len(b.slice[s].chain)
    PROVE  /\ Stored(mem, EventId(b, s, k)) <=> k <= Len(mem.chain[s])
           /\ k <= Len(mem.chain[s]) => Holds(mem, b, s, k)
<1>1. \A t \in Segs : /\ mem.chain[t] \in Seq(Bodies) /\ lines[t] \in Seq(Bodies)
                      /\ IsPrefix(mem.chain[t], lines[t])
    BY ChainTypes DEF TypeOK, StoreOfSpool
<1>2. b.slice[s].chain \in Seq(Bodies) /\ IsPrefix(b.slice[s].chain, lines[s])
    BY ChainTypes DEF BatchOfSpool
<1>3. k \in 1..Len(lines[s]) /\ EventId(b, s, k) = lines[s][k] /\ k \in Nat
    BY <1>1, <1>2, PrefixIs DEF EventId
<1>4. ASSUME NEW t \in Segs, NEW j \in 1..Len(mem.chain[t]), mem.chain[t][j] = EventId(b, s, k)
      PROVE  t = s /\ j = k
    <2>1. j \in 1..Len(lines[t]) /\ lines[t][j] = mem.chain[t][j]
        BY <1>1, PrefixIs
    <2> QED BY <1>3, <1>4, <2>1 DEF DistinctIn
<1>5. Stored(mem, EventId(b, s, k)) <=>
          \E t \in Segs : \E j \in 1..Len(mem.chain[t]) : mem.chain[t][j] = EventId(b, s, k)
    <2>1. \A t \in Segs : ToSet(mem.chain[t]) = {mem.chain[t][j] : j \in 1..Len(mem.chain[t])}
        BY <1>1, ElementsOf
    <2> QED BY <2>1 DEF Stored
<1>6. k <= Len(mem.chain[s]) => mem.chain[s][k] = EventId(b, s, k)
    <2>1. Len(mem.chain[s]) \in Nat
        BY <1>1
    <2> QED BY <1>1, <1>3, <2>1, PrefixIs
<1>7. Stored(mem, EventId(b, s, k)) <=> k <= Len(mem.chain[s])
    <2>1. Len(mem.chain[s]) \in Nat
        BY <1>1
    <2>2. k <= Len(mem.chain[s]) <=> k \in 1..Len(mem.chain[s])
        BY <1>3, <2>1
    <2> QED BY <1>4, <1>5, <1>6, <2>2
<1>8. ASSUME k <= Len(mem.chain[s])
      PROVE  Holds(mem, b, s, k)
    <2> DEFINE u == mem.chain[s]
               v == b.slice[s].chain
               w == lines[s]
    <2>1. /\ u \in Seq(Bodies) /\ v \in Seq(Bodies) /\ w \in Seq(Bodies)
          /\ IsPrefix(u, w) /\ IsPrefix(v, w) /\ k <= Len(u) /\ k <= Len(v) /\ k \in Nat
        BY <1>1, <1>2, <1>3, <1>8
    <2> HIDE DEF u, v, w
    <2>2. k \in 0..Len(u) /\ k \in 0..Len(v)
        BY <2>1
    <2>3. \A i \in 1..k : u[i] = v[i]
        <3>1. \A i \in 1..Len(u) : u[i] = w[i]
            BY <2>1, PrefixIs
        <3>2. \A i \in 1..Len(v) : v[i] = w[i]
            BY <2>1, PrefixIs
        <3>3. \A i \in 1..k : i \in 1..Len(u) /\ i \in 1..Len(v)
            BY <2>1
        <3> QED BY <3>1, <3>2, <3>3
    <2>4. SubSeq(u, 1, k) = SubSeq(v, 1, k)
        BY <2>1, <2>2, <2>3, PrefixOf
    <2> QED BY <1>8, <2>4 DEF Holds, u, v
<1> QED BY <1>7, <1>8

LEMMA RequestFits ==
    ASSUME TypeOK, DistinctIn(lines), SpoolInv, StoreOfSpool(mem),
           NEW b \in Batches, BatchOfSpool(b),
           \A s \in Segs : b.slice[s].after <= Len(mem.chain[s])
    PROVE  ~EventConflict(mem, b) /\ ~Gap(mem, b) /\ ~CloseConflict(mem, b)
<1>1. ~CloseConflict(mem, b)
    BY DEF CloseConflict, StoreOfSpool, BatchOfSpool
<1>2. ASSUME NEW s \in Segs
      PROVE  /\ \A k \in Carried(b, s) : Stored(mem, EventId(b, s, k)) => Holds(mem, b, s, k)
             /\ New(mem, b, s) # {} => mem.closed[s] = NoClose
             /\ New(mem, b, s) # {} => Continues(mem, b, s)
    <2> DEFINE u == mem.chain[s]
               v == b.slice[s].chain
               w == lines[s]
    <2>1. /\ u \in Seq(Bodies) /\ v \in Seq(Bodies) /\ w \in Seq(Bodies)
          /\ IsPrefix(u, w) /\ IsPrefix(v, w)
        BY ChainTypes DEF TypeOK, StoreOfSpool, BatchOfSpool
    <2>2. b.slice[s].after \in Nat /\ b.slice[s].after <= Len(u)
        BY DEF Batches, Slices
    <2>3. Len(u) \in Nat /\ Len(v) \in Nat
        BY <2>1
    <2>4. Carried(b, s) \subseteq 1..Len(v)
        BY <2>2, <2>3 DEF Carried
    <2>5. \A k \in Carried(b, s) : Stored(mem, EventId(b, s, k)) <=> k <= Len(u)
        BY <2>4, StoredUpToTip
    <2>6. \A k \in Carried(b, s) : Stored(mem, EventId(b, s, k)) => Holds(mem, b, s, k)
        BY <2>4, StoredUpToTip
    <2>7. New(mem, b, s) = {k \in Carried(b, s) : ~(k <= Len(u))}
        BY <2>5 DEF New
    <2>8. New(mem, b, s) = (Len(u) + 1)..Len(v)
        <3> DEFINE a == b.slice[s].after
        <3>1. Carried(b, s) = (a + 1)..Len(v)
            BY DEF Carried
        <3> HIDE DEF a, u, v
        <3>2. a \in Nat /\ a <= Len(u)
            BY <2>2 DEF a
        <3> QED BY <2>3, <2>7, <3>1, <3>2
    <2>9. ASSUME New(mem, b, s) # {}
          PROVE  mem.closed[s] = NoClose /\ Continues(mem, b, s)
        <3>1. Len(u) < Len(v)
            BY <2>3, <2>8, <2>9
        <3>2. IsPrefix(u, v) /\ u # w
            <4> HIDE DEF u, v, w
            <4> QED BY <2>1, <3>1, PrefixIs
        <3>3. mem.closed[s] = NoClose
            BY <3>2 DEF StoreOfSpool, SpoolInv
        <3> QED BY <2>8, <3>2, <3>3 DEF Continues
    <2> QED BY <2>6, <2>9
<1> QED BY <1>1, <1>2 DEF EventConflict, Gap

(* As long as the store works, the program uses each event_id once and a   *)
(* pass reads only what stays: no request, however old or often repeated,  *)
(* is a conflict or a gap for the server, also after the state was lost    *)
(* ("Safe to call repeatedly and after any failure").                      *)
THEOREM RequestsAlwaysFit ==
    ASSUME Faults \subseteq {"state"}
    PROVE  Spec => []RequestsFit
<1> DEFINE Inv == CopyInv /\ AckInv /\ WholeInv
<1>1. Init => Inv
    BY CopyInit, AckInit, WholeInit
<1>2. Inv /\ [Next]_vars => Inv'
    BY CopyStep, AckStep, WholeStep
<1>3. ASSUME Inv
      PROVE  RequestsFit
    <2> SUFFICES ASSUME NEW b \in net
                 PROVE  ~EventConflict(mem, b) /\ ~Gap(mem, b) /\ ~CloseConflict(mem, b)
        BY DEF RequestsFit
    <2>1. /\ TypeOK /\ DistinctIn(lines) /\ SpoolInv /\ StoreOfSpool(mem)
          /\ b \in Batches /\ BatchOfSpool(b) /\ BatchFits(b) /\ Extends(mem, disk)
        BY <1>3 DEF CopyInv, AckInv, WholeInv, BehindInv, InFlight, TypeOK
    <2>2. ASSUME NEW s \in Segs
          PROVE  b.slice[s].after <= Len(mem.chain[s])
        <3>1. disk.chain[s] \in Seq(Bodies) /\ mem.chain[s] \in Seq(Bodies)
            BY <2>1, ChainTypes DEF TypeOK
        <3>2. /\ IsPrefix(disk.chain[s], mem.chain[s]) /\ b.slice[s].after \in Nat
              /\ b.slice[s].after <= Len(disk.chain[s])
            BY <2>1 DEF Extends, BatchFits, Batches, Slices
        <3>3. Len(disk.chain[s]) <= Len(mem.chain[s])
            BY <3>1, <3>2, PrefixIs
        <3> QED BY <3>1, <3>2, <3>3
    <2> QED BY <2>1, <2>2, RequestFits
<1> HIDE DEF Inv
<1> QED BY <1>1, <1>2, <1>3, PTL DEF Spec
=============================================================================
