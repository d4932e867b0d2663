-------------------------- MODULE SpoolRefinement --------------------------
(***************************************************************************)
(* Spool implements EvidenceLog when power losses are the only failures.   *)
(*                                                                         *)
(* What is sealed is the chain of the last close record on the disk, what  *)
(* is open the synced events of the one log without a record on the disk.  *)
(* append() records when its fsync returns, or when a power loss spares    *)
(* the line it was syncing; close_segment() seals when the directory sync  *)
(* returns, or when a power loss spares the record it had published.       *)
(***************************************************************************)
EXTENDS SpoolPowerProofs

Places == {<<Place(a.seg), Len(a.ev)>> : a \in acked}

(* The chain that ends with the n-th write of a log. *)
ChainOf(f, n) ==
    IF n = 0 THEN <<>> ELSE IF f[n] = Torn THEN Before(f, n) ELSE f[n].ev

LEMMA DurableChainIs ==
    /\ \A s \in Segs : DurableChain(s) = ChainOf(log[s], synced[s])
    /\ \A s \in Segs : DurableChain(s)' = ChainOf(log'[s], synced'[s])
BY DEF DurableChain, ChainOf

(* The longest of the records f, if any. *)
Longest(f, c) ==
    /\ c \in {f[s] : s \in Segs} \cup {<<>>}
    /\ \A s \in Segs : Len(f[s]) <= Len(c)

LongestInv == \E c : Longest(closeSynced, c)

(* A record that is being published is not on the disk yet. *)
DirLagInv == pc = "dirsync" => closeSynced[openSeg] = <<>>

RefInv == PowerInv /\ LongestInv /\ DirLagInv

-----------------------------------------------------------------------------
(* Lemmas on choices, chains and records. *)

LEMMA ChooseOnly ==
    ASSUME NEW S, NEW x, S = {x}
    PROVE  (CHOOSE y \in S : TRUE) = x
OBVIOUS

LEMMA SameFront ==
    ASSUME NEW S, NEW u \in Seq(S), NEW v \in Seq(S), NEW x, NEW y,
           Append(u, x) = Append(v, y)
    PROVE  u = v
<1>1. Len(u) = Len(v)
    <2>1. Len(Append(u, x)) = Len(u) + 1 /\ Len(Append(v, y)) = Len(v) + 1
        OBVIOUS
    <2> QED BY <2>1
<1>2. \A i \in 1..Len(u) : Append(u, x)[i] = u[i] /\ Append(v, y)[i] = v[i]
    BY <1>1
<1> QED BY <1>1, <1>2

LEMMA ChooseLongest ==
    ASSUME NEW f \in [Segs -> Seq(Links)], NEW c, Longest(f, c),
           \A s, t \in Segs : s # t /\ f[s] # <<>> => Len(f[t]) # Len(f[s])
    PROVE  (CHOOSE d \in {f[s] : s \in Segs} \cup {<<>>} : \A s \in Segs : Len(f[s]) <= Len(d)) = c
<1>1. ASSUME NEW d, Longest(f, d)
      PROVE  d = c
    <2>1. \A s \in Segs : f[s] \in Seq(Links)
        OBVIOUS
    <2>2. c \in Seq(Links) /\ d \in Seq(Links)
        <3>1. <<>> \in Seq(Links)
            OBVIOUS
        <3> QED BY <1>1, <2>1, <3>1 DEF Longest
    <2>3. c # <<>> => Len(c) > 0
        BY <2>2
    <2>4. d # <<>> => Len(d) > 0
        BY <2>2
    <2>5. CASE c = <<>>
        <3>1. d # <<>> => Len(d) <= Len(<<>>)
            BY <1>1, <2>5 DEF Longest
        <3> QED BY <2>2, <2>4, <2>5, <3>1
    <2>6. CASE d = <<>>
        <3>1. c # <<>> => Len(c) <= Len(<<>>)
            BY <1>1, <2>6 DEF Longest
        <3> QED BY <2>2, <2>3, <2>6, <3>1
    <2>7. CASE c # <<>> /\ d # <<>>
        <3>1. PICK s \in Segs : c = f[s]
            BY <2>7 DEF Longest
        <3>2. PICK t \in Segs : d = f[t]
            BY <1>1, <2>7 DEF Longest
        <3>3. Len(c) = Len(d)
            <4>1. Len(c) <= Len(d) /\ Len(d) <= Len(c)
                BY <1>1, <3>1, <3>2 DEF Longest
            <4> QED BY <2>2, <4>1
        <3> QED BY <2>7, <3>1, <3>2, <3>3
    <2> QED BY <2>5, <2>6, <2>7
<1> DEFINE P(d) == \A s \in Segs : Len(f[s]) <= Len(d)
           S == {f[s] : s \in Segs} \cup {<<>>}
<1>2. c \in S /\ P(c) /\ \A d \in S : P(d) => d = c
    BY <1>1 DEF Longest
<1> HIDE DEF P, S
<1>3. (CHOOSE d \in S : P(d)) = c
    BY <1>2
<1> QED BY <1>3 DEF P, S

(* On the disk as in the directory, no two records are equally long. *)
LEMMA DistinctRecords ==
    ASSUME CloseInv, PowerAlone
    PROVE  /\ \A s, t \in Segs : s # t /\ close[s] # <<>> => Len(close[t]) # Len(close[s])
           /\ \A s, t \in Segs : s # t /\ closeSynced[s] # <<>> =>
                  Len(closeSynced[t]) # Len(closeSynced[s])
<1>1. \A s, t \in Segs : s # t /\ close[s] # <<>> => Len(close[t]) # Len(close[s])
    BY DEF CloseInv, RecordsInv, ClosedOK
<1>2. ASSUME NEW s \in Segs, NEW t \in Segs, s # t, closeSynced[s] # <<>>
      PROVE  Len(closeSynced[t]) # Len(closeSynced[s])
    <2>1. closeSynced[s] = close[s] /\ closeSynced[t] \in {close[t], <<>>}
        BY <1>2 DEF CloseInv, DiskLagsInv
    <2>2. PICK c \in Seq(Links) : c = close[s]
        BY DEF CloseInv, Typed, TypeOK
    <2>3. Len(c) # Len(<<>>)
        BY <1>2, <2>1, <2>2
    <2> QED BY <1>1, <1>2, <2>1, <2>2, <2>3
<1> QED BY <1>1, <1>2

LEMMA DurableClosesIs ==
    ASSUME CloseInv, PowerAlone, NEW c, Longest(closeSynced, c)
    PROVE  DurableCloses = c /\ c \in Seq(Links)
<1>1. closeSynced \in [Segs -> Seq(Links)]
    BY DEF CloseInv, Typed, TypeOK
<1>2. \A s \in Segs : closeSynced[s] \in Seq(Links)
    BY <1>1
<1>3. c \in Seq(Links)
    <2>1. <<>> \in Seq(Links)
        OBVIOUS
    <2> QED BY <1>2, <2>1 DEF Longest
<1>4. \A s, t \in Segs : s # t /\ closeSynced[s] # <<>> => Len(closeSynced[t]) # Len(closeSynced[s])
    BY DistinctRecords
<1>5. DurableCloses = c
    BY <1>1, <1>4, ChooseLongest DEF DurableCloses
<1> QED BY <1>3, <1>5

LEMMA SameChain ==
    ASSUME NEW f, NEW g, NEW n \in Nat, \A i \in 1..n : f[i] = g[i]
    PROVE  ChainOf(f, n) = ChainOf(g, n)
BY DEF ChainOf, Before

LEMMA CleanChain ==
    ASSUME NEW f \in Seq(Pieces), Clean(f), NEW n \in 0..Len(f)
    PROVE  ChainOf(f, n) = IF n = 0 THEN <<>> ELSE f[n].ev
<1>1. CASE n = 0
    BY <1>1 DEF ChainOf
<1>2. CASE n # 0
    <2>1. n \in 1..Len(f)
        BY <1>2
    <2>2. PICK b \in Bodies : f[n].ev = Append(Before(f, n), b)
        BY <2>1 DEF Clean, Whole, Valid
    <2>3. Len(f[n].ev) = n
        BY <2>1 DEF Clean, Whole
    <2>4. f[n] # Torn
        BY <1>2, <2>3 DEF Torn
    <2> QED BY <1>2, <2>4 DEF ChainOf
<1> QED BY <1>1, <1>2

(* Losing or repairing a torn last line changes nothing. *)
LEMMA TornChain ==
    ASSUME NEW f \in Seq(Pieces), f # <<>>, f[Len(f)] = Torn,
           NEW g \in Seq(Pieces), Clean(g), Len(g) = Len(f) - 1,
           \A i \in 1..Len(g) : g[i] = f[i]
    PROVE  ChainOf(f, Len(f)) = ChainOf(g, Len(g))
<1>1. ChainOf(f, Len(f)) = Before(f, Len(f))
    BY DEF ChainOf
<1>2. Len(g) \in 0..Len(g)
    OBVIOUS
<1>3. ChainOf(g, Len(g)) = IF Len(g) = 0 THEN <<>> ELSE g[Len(g)].ev
    BY <1>2, CleanChain
<1>4. Len(g) # 0 => f[Len(f) - 1] = g[Len(g)]
    OBVIOUS
<1> QED BY <1>1, <1>3, <1>4 DEF Before

-----------------------------------------------------------------------------
(* The parts of the abstract state. *)

(* Where the only durably open segment is s, its chain is the open tail. *)
LEMMA OpenTailIs ==
    ASSUME NEW s \in Segs
    PROVE  /\ DurablyOpen \subseteq {s} =>
                  OpenTail = IF closeSynced[s] = <<>> THEN DurableChain(s) ELSE <<>>
           /\ DurablyOpen' = {} => OpenTail' = <<>>
           /\ DurablyOpen' \subseteq {s} =>
                  OpenTail' = IF closeSynced'[s] = <<>> THEN DurableChain(s)' ELSE <<>>
<1>1. DurablyOpen \subseteq {s} =>
          OpenTail = IF closeSynced[s] = <<>> THEN DurableChain(s) ELSE <<>>
    <2>1. CASE DurablyOpen = {}
        <3>1. closeSynced[s] # <<>> \/ DurableChain(s) = <<>>
            BY <2>1 DEF DurablyOpen
        <3> QED BY <2>1, <3>1 DEF OpenTail
    <2>2. CASE DurablyOpen = {s}
        <3>1. closeSynced[s] = <<>> /\ (CHOOSE t \in DurablyOpen : TRUE) = s
            <4>1. s \in DurablyOpen
                BY <2>2
            <4> QED BY <2>2, <4>1, ChooseOnly DEF DurablyOpen
        <3> QED BY <2>2, <3>1 DEF OpenTail
    <2> QED BY <2>1, <2>2
<1>2. DurablyOpen' = {} => OpenTail' = <<>>
    BY DEF OpenTail
<1>3. DurablyOpen' \subseteq {s} =>
          OpenTail' = IF closeSynced'[s] = <<>> THEN DurableChain(s)' ELSE <<>>
    <2>1. CASE DurablyOpen' = {}
        <3>1. closeSynced'[s] # <<>> \/ DurableChain(s)' = <<>>
            BY <2>1 DEF DurablyOpen
        <3> QED BY <2>1, <3>1 DEF OpenTail
    <2>2. CASE DurablyOpen' = {s}
        <3>1. closeSynced'[s] = <<>> /\ (CHOOSE t \in DurablyOpen' : TRUE) = s
            <4>1. s \in DurablyOpen'
                BY <2>2
            <4> QED BY <2>2, <4>1, ChooseOnly DEF DurablyOpen
        <3> QED BY <2>2, <3>1 DEF OpenTail
    <2> QED BY <2>1, <2>2
<1> QED BY <1>1, <1>2, <1>3

(* A segment with durable events and no record in the directory is open.   *)
LEMMA DurablyOpenIsOpen ==
    ASSUME PowerInv, NEW s \in Segs, close[s] = <<>>, synced[s] # 0
    PROVE  s \in OpenLogs
<1>1. log[s] # <<>>
    <2>1. synced[s] <= Len(log[s]) /\ synced[s] \in Nat
        BY DEF PowerInv, DurableInv, DiskInv, Typed, TypeOK
    <2> QED BY <2>1
<1> QED BY <1>1 DEF PowerInv, DurableInv, DiskInv, OpenLogs

(* A step that leaves what is on the disk for certain as it is.            *)
Stutters ==
    /\ closeSynced' = closeSynced /\ acked' = acked
    /\ \A s \in Segs : DurableChain(s)' = DurableChain(s)

LEMMA StutterStep ==
    ASSUME Stutters
    PROVE  UNCHANGED <<SealedSegments, OpenTail, Places>>
<1>1. DurableCloses' = DurableCloses
    BY DEF Stutters, DurableCloses
<1>2. SealedSegments' = SealedSegments
    BY <1>1 DEF SealedSegments
<1>3. DurablyOpen' = DurablyOpen /\ DurablyOpen \subseteq Segs
    BY DEF Stutters, DurablyOpen
<1>4. OpenTail' = OpenTail
    <2>1. DurablyOpen # {} => (CHOOSE s \in DurablyOpen : TRUE) \in Segs
        BY <1>3
    <2> QED BY <1>3, <2>1 DEF OpenTail, Stutters
<1>5. \A s : Place(s)' = Place(s)
    BY <1>1 DEF Stutters, Place
<1>6. Places' = Places
    BY <1>5 DEF Places, Stutters
<1> QED BY <1>2, <1>4, <1>6

(* The synced line of an append() becomes durable, whoever hears of it.    *)
LEMMA RecordStep ==
    ASSUME PowerAlone, RefInv, pc = "fsync", closeSynced' = closeSynced,
           NEW s \in Segs, s = openSeg, DurableChain(s)' = Append(last, task),
           \A u \in Segs \ {s} : DurableChain(u)' = DurableChain(u)
    PROVE  /\ OpenTail' = Append(OpenTail, task) /\ task \in Bodies
           /\ SealedSegments' = SealedSegments
           /\ \A u : Place(u)' = Place(u)
           /\ Place(s) = Len(SealedSegments) + 1
<1>1. TypeOK /\ PcOK /\ CloseInv /\ DurableInv /\ PowerInv /\ OpenLogInv /\ LagInv
    BY DEF RefInv, PowerInv, CloseInv, Typed
<1>2. task \in Bodies
    BY <1>1 DEF PcOK
<1>3. \A u \in Segs : closeSynced[u] = close[u]
    BY <1>1 DEF CloseInv, DiskLagsInv
<1>4. close[s] = <<>>
    BY <1>1 DEF CloseInv, WriterInv, NoSeg, Segs
<1>5. DurableChain(s) = last
    <2>1. PICK f \in Seq(Pieces) :
              /\ f = log[s] /\ f # <<>> /\ Clean(f)
              /\ LastEvent(f) = Append(last, task)
        BY <1>1 DEF DurableInv, MemoryInv, TypeOK
    <2>2. PICK n \in Nat : n = synced[s] /\ Len(f) = n + 1
        BY <1>1, <2>1 DEF LagInv, TypeOK
    <2>3. PICK b \in Bodies : f[n + 1].ev = Append(Before(f, n + 1), b)
        <3>1. n + 1 \in 1..Len(f)
            BY <2>2
        <3> QED BY <2>1, <3>1 DEF Clean, Whole, Valid
    <2>4. Append(Before(f, n + 1), b) = Append(last, task)
        BY <2>1, <2>2, <2>3 DEF LastEvent
    <2>5. Before(f, n + 1) = IF n = 0 THEN <<>> ELSE f[n].ev
        BY DEF Before
    <2>6. Before(f, n + 1) \in Seq(Bodies) /\ last \in Seq(Bodies)
        <3>1. n # 0 => f[n] \in Pieces
            BY <2>2
        <3>2. n # 0 => f[n].ev \in Seq(Bodies)
            BY <3>1 DEF Pieces, Chains
        <3>3. <<>> \in Seq(Bodies)
            OBVIOUS
        <3>4. last \in Seq(Bodies)
            BY <1>1 DEF TypeOK, Chains
        <3> QED BY <2>5, <3>2, <3>3, <3>4
    <2>7. Before(f, n + 1) = last
        <3>1. \A u, v \in Seq(Bodies) : \A x, y : Append(u, x) = Append(v, y) => u = v
            BY SameFront
        <3> QED BY <2>4, <2>6, <3>1, Zenon
    <2>8. ChainOf(f, n) = IF n = 0 THEN <<>> ELSE f[n].ev
        <3>1. n \in 0..Len(f)
            BY <2>2
        <3> QED BY <2>1, <3>1, CleanChain
    <2> QED BY <2>1, <2>2, <2>5, <2>7, <2>8, DurableChainIs
<1>6. ASSUME NEW u \in Segs, u # s, closeSynced[u] = <<>>
      PROVE  DurableChain(u) = <<>>
    <2>1. synced[u] # 0 => u \in OpenLogs
        BY <1>1, <1>3, <1>6, DurablyOpenIsOpen
    <2>2. synced[u] = 0
        BY <1>1, <1>6, <2>1 DEF OpenLogInv
    <2> QED BY <2>2 DEF DurableChain
<1>7. DurablyOpen \subseteq {s} /\ DurablyOpen' \subseteq {s}
    BY <1>6 DEF DurablyOpen
<1>8. OpenTail = last /\ OpenTail' = Append(last, task)
    BY <1>3, <1>4, <1>5, <1>7, OpenTailIs
<1>9. DurableCloses' = DurableCloses
    BY DEF DurableCloses
<1>10. Place(s) = Len(SealedSegments) + 1
    <2>1. DurableCloses \in Seq(Links)
        BY <1>1, DurableClosesIs DEF RefInv, LongestInv
    <2>2. Len(SealedSegments) = Len(DurableCloses)
        BY <2>1 DEF SealedSegments
    <2> QED BY <1>3, <1>4, <2>2 DEF Place
<1>11. SealedSegments' = SealedSegments /\ \A u : Place(u)' = Place(u)
    BY <1>9 DEF SealedSegments, Place
<1> QED BY <1>2, <1>8, <1>10, <1>11

LEMMA SequenceGrows ==
    ASSUME NEW S, NEW n \in Nat, NEW e, NEW g, NEW h, NEW x \in S,
           g = [k \in 1..n |-> e[k]], h = [k \in 1..(n + 1) |-> e[k]],
           \A k \in 1..n : e[k] \in S, e[n + 1] = x
    PROVE  h = Append(g, x)
<1>1. g \in Seq(S) /\ Len(g) = n
    OBVIOUS
<1>2. \A k \in 1..(n + 1) : e[k] \in S
    OBVIOUS
<1>3. h \in Seq(S) /\ Len(h) = n + 1
    BY <1>2
<1>4. Append(g, x) \in Seq(S) /\ Len(Append(g, x)) = n + 1
    BY <1>1
<1>5. \A k \in 1..(n + 1) : h[k] = Append(g, x)[k]
    BY <1>1
<1> QED BY <1>3, <1>4, <1>5

(* The record the writer has published follows those on the disk. *)
LEMMA PublishedRecord ==
    ASSUME PowerAlone, RefInv, pc = "dirsync", NEW s \in Segs, s = openSeg
    PROVE  LET d == close[s]
               n == Len(d) - 1
           IN  /\ d \in Seq(Links) /\ n \in Nat /\ Len(d) = n + 1
               /\ Longest(close, d) /\ Longest(closeSynced, SubSeq(d, 1, n))
               /\ d[n + 1].ev = LastEvent(log[s]) /\ log[s] # <<>>
<1>1. TypeOK /\ CloseInv /\ RecordsInv /\ WriterInv /\ DiskLagsInv /\ DirLagInv
    BY DEF RefInv, PowerInv, CloseInv, Typed
<1>2. PICK d \in Seq(Links) : d = close[s]
    BY <1>1 DEF TypeOK
<1>3. d # <<>> /\ IsLastClose(d) /\ ClosedOK(s)
    BY <1>1, <1>2 DEF WriterInv, RecordsInv
<1>4. PICK n \in Nat : n = Len(d) - 1 /\ Len(d) = n + 1
    BY <1>2, <1>3
<1>5. /\ \A t \in Segs : Len(close[t]) \in Nat /\ Len(close[t]) <= n + 1
      /\ \A t \in Segs \ {s} : Len(close[t]) <= n
      /\ \A t \in Segs \ {s} : closeSynced[t] = close[t]
      /\ closeSynced[s] = <<>>
    <2>1. \A t \in Segs : Len(close[t]) \in Nat
        BY <1>1 DEF TypeOK
    <2>2. \A t \in Segs : Len(close[t]) <= n + 1
        BY <1>3, <1>4 DEF IsLastClose
    <2>3. \A t \in Segs \ {s} : Len(close[t]) # n + 1
        BY <1>2, <1>3, <1>4 DEF ClosedOK
    <2>4. \A t \in Segs \ {s} : Len(close[t]) <= n
        BY <2>1, <2>2, <2>3
    <2> QED BY <1>1, <2>1, <2>2, <2>4 DEF DiskLagsInv, DirLagInv
<1> DEFINE c == SubSeq(d, 1, n)
<1>6. c \in Seq(Links) /\ Len(c) = n
    BY <1>4
<1> HIDE DEF c
<1>7. c \in {closeSynced[t] : t \in Segs} \cup {<<>>}
    <2>1. CASE n = 0
        BY <1>6, <2>1
    <2>2. CASE n # 0
        <3>1. n \in 1..Len(close[s])
            <4>1. n \in 1..(n + 1)
                BY <2>2
            <4> QED BY <1>2, <1>4, <4>1
        <3>2. close[s][n].seg \in Segs /\ Len(close[close[s][n].seg]) = n
            BY <1>1, <1>2, <1>3, <3>1, Predecessors
        <3>3. close[close[s][n].seg] = c
            BY <1>2, <1>3, <3>1 DEF ClosedOK, c
        <3>4. close[s][n].seg # s
            BY <1>2, <1>4, <3>2
        <3> QED BY <1>5, <3>2, <3>3, <3>4
    <2> QED BY <2>1, <2>2
<1>8. \A t \in Segs : Len(closeSynced[t]) <= n
    <2>1. SUFFICES ASSUME NEW t \in Segs PROVE Len(closeSynced[t]) <= n
        OBVIOUS
    <2>2. CASE t = s
        <3>1. closeSynced[t] = <<>> /\ Len(<<>>) = 0
            BY <1>5, <2>2
        <3> QED BY <3>1
    <2>3. CASE t # s
        BY <1>5, <2>3
    <2> QED BY <2>2, <2>3
<1>9. Longest(closeSynced, c)
    BY <1>6, <1>7, <1>8 DEF Longest
<1>10. Longest(close, d)
    BY <1>2, <1>4, <1>5 DEF Longest
<1>11. d[n + 1].ev = LastEvent(log[s]) /\ log[s] # <<>>
    BY <1>2, <1>3, <1>4 DEF ClosedOK
<1> QED BY <1>2, <1>4, <1>9, <1>10, <1>11 DEF c

(* A published record reaches the disk. *)
LEMMA SealStep ==
    ASSUME PowerAlone, RefInv, pc = "dirsync", closeSynced' = close, acked' = acked,
           \A u \in Segs : DurableChain(u)' = DurableChain(u)
    PROVE  /\ OpenTail # <<>> /\ OpenTail' = <<>>
           /\ SealedSegments' = Append(SealedSegments, OpenTail)
           /\ Places' = Places
           /\ LongestInv'
<1>1. /\ TypeOK /\ CloseInv /\ RecordsInv /\ WriterInv /\ DiskLagsInv /\ DurableInv
      /\ OpenLogInv /\ PowerInv /\ DirLagInv
    BY DEF RefInv, PowerInv, CloseInv, Typed
<1>2. PICK s \in Segs : s = openSeg /\ close[s] # <<>> /\ closeSynced[s] = <<>>
    BY <1>1 DEF WriterInv, DirLagInv
<1>3. PICK d \in Seq(Links), n \in Nat :
          /\ d = close[s] /\ n = Len(d) - 1 /\ Len(d) = n + 1
          /\ Longest(close, d) /\ Longest(closeSynced, SubSeq(d, 1, n))
          /\ d[n + 1].ev = LastEvent(log[s]) /\ log[s] # <<>>
    BY <1>2, PublishedRecord
<1> DEFINE c == SubSeq(d, 1, n)
<1>4. DurableCloses = c /\ Len(c) = n /\ \A k \in 1..n : c[k] = d[k]
    <2>1. DurableCloses = c
        BY <1>1, <1>3, DurableClosesIs
    <2> QED BY <1>3, <2>1
<1>5. DurableCloses' = d
    <2>1. close \in [Segs -> Seq(Links)]
        BY <1>1 DEF TypeOK
    <2>2. \A t, u \in Segs : t # u /\ close[t] # <<>> => Len(close[u]) # Len(close[t])
        BY <1>1, DistinctRecords
    <2>3. DurableCloses' = CHOOSE e \in {close[t] : t \in Segs} \cup {<<>>} :
                               \A t \in Segs : Len(close[t]) <= Len(e)
        BY DEF DurableCloses
    <2> QED BY <1>3, <2>1, <2>2, <2>3, ChooseLongest
<1>6. ASSUME NEW u \in Segs, u # s, close[u] = <<>>
      PROVE  synced[u] = 0 /\ DurableChain(u) = <<>>
    <2>1. u \notin OpenLogs
        BY <1>1, <1>2, <1>6 DEF OpenLogInv
    <2>2. synced[u] = 0
        BY <1>1, <1>6, <2>1, DurablyOpenIsOpen
    <2> QED BY <2>2 DEF DurableChain
<1>7. /\ DurableChain(s) = LastEvent(log[s]) /\ LastEvent(log[s]) \in Chains
      /\ LastEvent(log[s]) # <<>>
    <2>1. PICK f \in Seq(Pieces) : f = log[s] /\ f # <<>> /\ Clean(f)
        BY <1>1, <1>2, <1>3 DEF DurableInv, MemoryInv, TypeOK, NoSeg, Segs
    <2>2. synced[s] = Len(f) /\ Len(f) # 0 /\ Len(f) \in 0..Len(f)
        BY <1>1, <2>1 DEF DiskLagsInv
    <2>3. DurableChain(s) = LastEvent(f)
        BY <2>1, <2>2, CleanChain, DurableChainIs DEF LastEvent
    <2>4. Len(LastEvent(f)) = Len(f) /\ LastEvent(f) \in Chains
        BY <2>1, CleanLength, LastEventType
    <2>5. LastEvent(f) # <<>>
        BY <2>2, <2>4
    <2> QED BY <2>1, <2>3, <2>4, <2>5
<1>8. OpenTail = LastEvent(log[s]) /\ OpenTail' = <<>>
    <2>1. \A u \in Segs : u # s => closeSynced[u] = close[u]
        BY <1>1, <1>2 DEF DiskLagsInv
    <2>2. DurablyOpen \subseteq {s}
        BY <1>6, <2>1 DEF DurablyOpen
    <2>3. DurablyOpen' = {}
        BY <1>2, <1>6 DEF DurablyOpen
    <2> QED BY <1>2, <1>7, <2>2, <2>3, OpenTailIs
<1>9. SealedSegments' = Append(SealedSegments, OpenTail)
    <2> DEFINE e == [k \in 1..(n + 1) |-> d[k].ev]
               x == LastEvent(log[s])
    <2>1. SealedSegments = [k \in 1..n |-> e[k]]
        BY <1>4 DEF SealedSegments
    <2>2. SealedSegments' = [k \in 1..(n + 1) |-> e[k]]
        BY <1>3, <1>5 DEF SealedSegments
    <2>3. x \in Chains /\ e[n + 1] = x /\ OpenTail = x
        BY <1>3, <1>7, <1>8
    <2>4. \A k \in 1..n : e[k] \in Chains
        <3>1. \A k \in 1..n : d[k] \in Links
            BY <1>3
        <3> QED BY <3>1 DEF Links
    <2> HIDE DEF e, x
    <2>5. SealedSegments' = Append(SealedSegments, x)
        BY <2>1, <2>2, <2>3, <2>4, SequenceGrows
    <2> QED BY <2>3, <2>5
<1>10. ASSUME NEW a \in acked
       PROVE  Place(a.seg)' = Place(a.seg)
    <2>1. a.seg \in Segs /\ synced[a.seg] # 0
        BY <1>1 DEF DurableInv, AckedInv, TypeOK, Links
    <2>2. CASE a.seg = s
        BY <1>2, <1>3, <1>4, <1>5, <2>2 DEF Place
    <2>3. CASE a.seg # s
        <3>1. close[a.seg] # <<>> /\ closeSynced[a.seg] = close[a.seg]
            BY <1>1, <1>2, <1>6, <2>1, <2>3 DEF DiskLagsInv
        <3> QED BY <3>1 DEF Place
    <2> QED BY <2>2, <2>3
<1>11. Places' = Places
    BY <1>10 DEF Places
<1>12. LongestInv'
    BY <1>3 DEF LongestInv, Longest
<1> QED BY <1>7, <1>8, <1>9, <1>11, <1>12

-----------------------------------------------------------------------------
(* Every step of the spool is a step of EvidenceLog, or none. *)

Seals ==
    /\ OpenTail # <<>> /\ OpenTail' = <<>>
    /\ SealedSegments' = Append(SealedSegments, OpenTail)
    /\ Places' = Places

Records(b, heard) ==
    /\ OpenTail' = Append(OpenTail, b)
    /\ Places' = IF heard THEN Places \cup {<<Len(SealedSegments') + 1, Len(OpenTail')>>}
                          ELSE Places
    /\ SealedSegments' = SealedSegments

AbstractStep ==
    \/ UNCHANGED <<SealedSegments, OpenTail, Places>>
    \/ Seals
    \/ \E b \in Bodies, heard \in BOOLEAN : Records(b, heard)

LEMMA StuttersRefine ==
    ASSUME LongestInv, Stutters
    PROVE  AbstractStep /\ LongestInv'
BY StutterStep DEF AbstractStep, LongestInv, Stutters

LEMMA SameFilesStutter ==
    ASSUME UNCHANGED <<log, synced, closeSynced, acked>>
    PROVE  Stutters
BY DEF Stutters, DurableChain

LEMMA AppendWritesStutters ==
    ASSUME PowerInv, NEW b \in Bodies, AppendWrites(b)
    PROVE  Stutters
<1>1. TypeOK /\ DiskInv
    BY DEF PowerInv, DurableInv, Typed
<1>2. /\ UNCHANGED <<synced, closeSynced, acked>> /\ Segment \in Segs
      /\ \E piece : log' = [log EXCEPT ![Segment] = Append(@, piece)]
    BY DEF AppendWrites, Writing
<1>3. ASSUME NEW s \in Segs
      PROVE  ChainOf(log'[s], synced[s]) = ChainOf(log[s], synced[s])
    <2>1. PICK f \in Seq(Pieces) : f = log[s]
        BY <1>1 DEF TypeOK
    <2>2. synced[s] \in Nat /\ synced[s] <= Len(f)
        BY <1>1, <2>1 DEF TypeOK, DiskInv
    <2>3. log'[s] = f \/ \E piece : log'[s] = Append(f, piece)
        BY <1>1, <1>2, <2>1 DEF TypeOK
    <2>4. \A i \in 1..synced[s] : log'[s][i] = f[i]
        <3>1. SUFFICES ASSUME NEW piece, log'[s] = Append(f, piece), NEW i \in 1..synced[s]
                       PROVE  log'[s][i] = f[i]
            BY <2>3
        <3>2. i \in 1..Len(f)
            BY <2>2
        <3>3. Append(f, piece)[i] = f[i]
            BY <3>2
        <3> QED BY <3>1, <3>3
    <2> QED BY <2>1, <2>2, <2>4, SameChain
<1> QED BY <1>2, <1>3, DurableChainIs DEF Stutters

LEMMA RecoveryStutters ==
    ASSUME PowerAlone, PowerInv, NEW s \in Segs, RecoverOpenLog(s)
    PROVE  Stutters
<1>1. TypeOK /\ DiskInv /\ DiskLagsInv
    BY DEF PowerInv, CloseInv, DurableInv, Typed
<1>2. PICK f \in Seq(Pieces) : f = log[s] /\ Sound(f) /\ synced[s] = Len(f)
    BY <1>1 DEF TypeOK, DiskInv, DiskLagsInv, RecoverOpenLog
<1>3. PICK n \in 0..Len(f) :
          /\ RepairPoint(f, n)
          /\ log' = [log EXCEPT ![s] = SubSeq(f, 1, n)]
          /\ synced' = [synced EXCEPT ![s] = IF n = Len(f) THEN @ ELSE n]
    BY <1>2 DEF RecoverOpenLog
<1>4. UNCHANGED <<closeSynced, acked>>
    BY DEF RecoverOpenLog
<1>5. PICK g \in Seq(Pieces) :
          g = SubSeq(f, 1, n) /\ Len(g) = n /\ \A i \in 1..n : g[i] = f[i]
    <2>1. n \in Nat /\ n <= Len(f)
        OBVIOUS
    <2> QED BY <2>1, PrefixType
<1>6. /\ log'[s] = g /\ synced'[s] = n
      /\ \A u \in Segs \ {s} : log'[u] = log[u] /\ synced'[u] = synced[u]
    BY <1>1, <1>2, <1>3, <1>5 DEF TypeOK
<1>7. Clean(g)
    <2>1. Clean(SubSeq(f, 1, n))
        BY <1>2, <1>3, RepairIsClean
    <2> QED BY <1>5, <2>1
<1>8. ChainOf(g, n) = ChainOf(f, Len(f))
    <2>1. CASE n = Len(f)
        <3>1. n \in Nat
            OBVIOUS
        <3>2. ChainOf(g, n) = ChainOf(f, n)
            BY <1>5, <3>1, SameChain
        <3> QED BY <2>1, <3>2
    <2>2. CASE n # Len(f)
        <3>1. n < Len(f) /\ Len(f) \in 1..Len(f) /\ Len(f) \in Nat /\ f # <<>>
            BY <2>2
        <3>2. ~Intact(f) /\ \A i \in (n + 1)..(Len(f) - 1) : ~f[i].nl
            BY <1>3, <2>2 DEF RepairPoint
        <3>3. n = Len(f) - 1
            <4>1. SUFFICES ASSUME n < Len(f) - 1 PROVE FALSE
                BY <3>1
            <4>2. n + 1 \in 1..Len(f) /\ n + 1 # Len(f) /\ n + 1 \in (n + 1)..(Len(f) - 1)
                BY <3>1, <4>1
            <4> QED BY <1>2, <3>2, <4>2 DEF Sound, Whole
        <3>4. f[Len(f)] = Torn
            <4>1. \E i \in 1..Len(f) : ~Valid(f, i)
                BY <3>2 DEF Intact
            <4> QED BY <1>2, <4>1 DEF Sound, Whole
        <3> QED BY <1>5, <1>7, <3>1, <3>3, <3>4, TornChain
    <2> QED BY <2>1, <2>2
<1> QED BY <1>2, <1>4, <1>6, <1>8, DurableChainIs DEF Stutters

(* A power loss takes the line being synced, tears it, or spares it. *)
LEMMA LossOfLine ==
    ASSUME PowerAlone, PowerInv, pc = "fsync", NEW s \in Segs, s = openSeg,
           NEW g \in LossOutcomes(s)
    PROVE  \/ ChainOf(g, Len(g)) = ChainOf(log[s], synced[s])
           \/ ChainOf(g, Len(g)) = Append(last, task)
<1>1. TypeOK /\ MemoryInv /\ LagInv
    BY DEF PowerInv, DurableInv, Typed
<1>2. PICK f \in Seq(Pieces), k \in Nat :
          /\ f = log[s] /\ k = synced[s] /\ Len(f) = k + 1
          /\ Clean(f) /\ LastEvent(f) = Append(last, task)
    BY <1>1 DEF TypeOK, MemoryInv, LagInv
<1>3. PICK h \in Seq(Pieces) :
          h = SubSeq(f, 1, k) /\ Len(h) = k /\ \A i \in 1..k : h[i] = f[i]
    <2>1. k <= Len(f)
        BY <1>2
    <2> QED BY <2>1, PrefixType
<1>4. Clean(h)
    <2>1. k < Len(f)
        BY <1>2
    <2> QED BY <1>2, <1>3, <2>1, CleanIsSound, SoundPrefix
<1>5. k..(Len(f) - 1) = {k}
    BY <1>2
<1>6. g = f \/ g = h \/ g = Append(h, Torn)
    BY <1>2, <1>3, <1>5 DEF LossOutcomes, PowerAlone
<1>7. ChainOf(h, k) = ChainOf(f, k)
    BY <1>3, SameChain
<1>8. CASE g = f
    <2>1. Len(f) \in 0..Len(f) /\ Len(f) # 0 /\ f # <<>>
        BY <1>2
    <2>2. ChainOf(f, Len(f)) = f[Len(f)].ev
        BY <1>2, <2>1, CleanChain
    <2> QED BY <1>2, <1>8, <2>1, <2>2 DEF LastEvent
<1>9. CASE g = h
    BY <1>2, <1>3, <1>7, <1>9
<1>10. CASE g = Append(h, Torn)
    <2>1. /\ g \in Seq(Pieces) /\ Len(g) = k + 1 /\ g[k + 1] = Torn /\ g # <<>>
          /\ \A i \in 1..k : h[i] = g[i]
        BY <1>3, <1>10, PiecesClosed
    <2>2. ChainOf(g, Len(g)) = ChainOf(h, Len(h))
        <3>1. g[Len(g)] = Torn /\ Len(h) = Len(g) - 1 /\ \A i \in 1..Len(h) : h[i] = g[i]
            BY <1>3, <2>1
        <3> QED BY <1>4, <2>1, <3>1, TornChain
    <2> QED BY <1>2, <1>3, <1>7, <2>2
<1> QED BY <1>6, <1>8, <1>9, <1>10

LEMMA AppendReturnsRecords ==
    ASSUME PowerAlone, RefInv, AppendReturns
    PROVE  AbstractStep /\ LongestInv'
<1>1. TypeOK /\ PcOK /\ DurableInv
    BY DEF RefInv, PowerInv, DurableInv, Typed
<1>2. PICK s \in Segs : s = openSeg
    BY <1>1 DEF AppendReturns, PcOK
<1>3. /\ UNCHANGED <<log, closeSynced>> /\ pc = "fsync" /\ last' = Append(last, task)
      /\ acked' = acked \cup {[seg |-> s, ev |-> last']}
      /\ synced' = [synced EXCEPT ![s] = Len(log[s])]
    BY <1>2 DEF AppendReturns
<1>4. DurableChain(s)' = Append(last, task) /\ Len(last') \in Nat
    <2>1. PICK f \in Seq(Pieces) :
              f = log[s] /\ f # <<>> /\ Clean(f) /\ LastEvent(f) = Append(last, task)
        BY <1>1, <1>2, <1>3 DEF DurableInv, MemoryInv, TypeOK
    <2>2. Len(f) \in 0..Len(f) /\ Len(f) # 0
        BY <2>1
    <2>3. ChainOf(f, Len(f)) = Append(last, task)
        BY <2>1, <2>2, CleanChain DEF LastEvent
    <2>4. synced'[s] = Len(f) /\ log'[s] = f
        BY <1>1, <1>3, <2>1 DEF TypeOK
    <2>5. Len(last') = Len(f)
        BY <1>3, <2>1, CleanLength
    <2> QED BY <2>1, <2>3, <2>4, <2>5, DurableChainIs
<1>5. \A u \in Segs \ {s} : DurableChain(u)' = DurableChain(u)
    BY <1>1, <1>3, DurableChainIs DEF TypeOK
<1>6. /\ OpenTail' = Append(OpenTail, task) /\ task \in Bodies
      /\ SealedSegments' = SealedSegments
      /\ \A u : Place(u)' = Place(u)
      /\ Place(s) = Len(SealedSegments) + 1
    BY <1>2, <1>3, <1>4, <1>5, RecordStep
<1>7. OpenTail' = last'
    <2>1. closeSynced[s] = <<>>
        BY <1>2, <1>3 DEF RefInv, PowerInv, CloseInv, DiskLagsInv, WriterInv, NoSeg, Segs
    <2>2. \A u \in Segs \ {s} : closeSynced[u] = <<>> => DurableChain(u) = <<>>
        <3>1. SUFFICES ASSUME NEW u \in Segs \ {s}, closeSynced[u] = <<>>, synced[u] # 0
                       PROVE  FALSE
            BY DEF DurableChain
        <3>2. close[u] = <<>>
            BY <1>3, <3>1 DEF RefInv, PowerInv, CloseInv, DiskLagsInv
        <3>3. u \in OpenLogs
            BY <3>1, <3>2, DurablyOpenIsOpen DEF RefInv
        <3> QED BY <1>2, <1>3, <3>3 DEF RefInv, PowerInv, OpenLogInv
    <2>3. DurablyOpen' \subseteq {s}
        BY <1>3, <1>5, <2>2 DEF DurablyOpen
    <2> QED BY <1>3, <1>4, <2>1, <2>3, OpenTailIs
<1>8. Places' = Places \cup {<<Len(SealedSegments') + 1, Len(OpenTail')>>}
    <2>1. Places' = {<<Place(a.seg), Len(a.ev)>> : a \in acked'}
        BY <1>6 DEF Places
    <2> DEFINE x == [seg |-> s, ev |-> last']
    <2>2. x.seg = s /\ x.ev = last' /\ acked' = acked \cup {x}
        BY <1>3
    <2> HIDE DEF x
    <2>3. Places' = Places \cup {<<Place(x.seg), Len(x.ev)>>}
        BY <2>1, <2>2 DEF Places
    <2> QED BY <1>6, <1>7, <2>2, <2>3
<1>9. Records(task, TRUE) /\ LongestInv'
    BY <1>3, <1>6, <1>8 DEF Records, RefInv, LongestInv
<1> QED BY <1>6, <1>9 DEF AbstractStep

LEMMA PowerLossRefines ==
    ASSUME PowerAlone, RefInv, PowerLoss, UNCHANGED faults
    PROVE  AbstractStep /\ LongestInv'
<1>1. /\ TypeOK /\ TypeOK' /\ PcOK /\ CloseInv /\ DurableInv /\ DiskLagsInv /\ PowerInv
      /\ DirLagInv
    <2>1. CloseInv'
        BY PowerAloneIsHonest, CloseCrash DEF RefInv, PowerInv, Crash
    <2> QED BY <2>1 DEF RefInv, PowerInv, CloseInv, Typed
<1>2. /\ exists' = exists /\ acked' = acked /\ closeSynced' = close'
      /\ \A s \in Segs : synced'[s] = Len(log'[s])
      /\ \A s \in exists : log'[s] \in LossOutcomes(s)
      /\ \A s \in Segs \ exists : log'[s] = <<>>
      /\ \A s \in exists : log'[s] = log[s] \/ (pc = "fsync" /\ s = openSeg)
      /\ \A s \in Segs : \/ close'[s] = close[s]
                         \/ pc = "dirsync" /\ s = openSeg /\ close'[s] = <<>>
    BY <1>1, PowerLossEffect
<1>3. ASSUME NEW s \in Segs, ~(pc = "fsync" /\ s = openSeg)
      PROVE  DurableChain(s)' = DurableChain(s)
    <2>1. log'[s] = log[s]
        <3>1. s \notin exists => log[s] = <<>>
            BY <1>1 DEF DurableInv, DiskInv
        <3> QED BY <1>2, <1>3, <3>1
    <2>2. synced'[s] = synced[s]
        BY <1>1, <1>2, <1>3, <2>1 DEF DiskLagsInv
    <2> QED BY <2>1, <2>2, DurableChainIs
<1>4. /\ close = [s \in Segs |-> close[s]] /\ close' = [s \in Segs |-> close'[s]]
      /\ closeSynced = [s \in Segs |-> closeSynced[s]]
    BY <1>1 DEF TypeOK
<1>5. CASE pc # "dirsync"
    <2>1. \A s \in Segs : closeSynced[s] = close'[s]
        BY <1>1, <1>2, <1>5 DEF DiskLagsInv
    <2>2. closeSynced' = closeSynced
        BY <1>2, <1>4, <2>1, Zenon
    <2>3. CASE pc # "fsync"
        BY <1>2, <1>3, <2>2, <2>3, StuttersRefine DEF Stutters, RefInv
    <2>4. CASE pc = "fsync"
        <3>1. PICK s \in Segs : s = openSeg /\ s \in exists
            BY <1>1, <2>4 DEF PcOK, DurableInv, MemoryInv
        <3>2. log'[s] \in LossOutcomes(s) /\ synced'[s] = Len(log'[s])
            BY <1>2, <3>1
        <3>3. \/ ChainOf(log'[s], synced'[s]) = ChainOf(log[s], synced[s])
              \/ ChainOf(log'[s], synced'[s]) = Append(last, task)
            BY <1>1, <2>4, <3>1, <3>2, LossOfLine
        <3>4. CASE DurableChain(s)' = DurableChain(s)
            BY <1>2, <1>3, <2>2, <3>1, <3>4, StuttersRefine DEF Stutters, RefInv
        <3>5. CASE DurableChain(s)' = Append(last, task)
            <4>1. /\ OpenTail' = Append(OpenTail, task) /\ task \in Bodies
                  /\ SealedSegments' = SealedSegments
                  /\ \A u : Place(u)' = Place(u)
                BY <1>3, <2>2, <2>4, <3>1, <3>5, RecordStep
            <4>2. Places' = Places
                BY <1>2, <4>1 DEF Places
            <4>3. Records(task, FALSE) /\ LongestInv'
                BY <2>2, <4>1, <4>2 DEF Records, RefInv, LongestInv
            <4> QED BY <4>1, <4>3 DEF AbstractStep
        <3> QED BY <3>3, <3>4, <3>5, DurableChainIs
    <2> QED BY <2>3, <2>4
<1>6. CASE pc = "dirsync"
    <2>1. PICK s \in Segs : s = openSeg /\ closeSynced[s] = <<>>
        BY <1>1, <1>6 DEF CloseInv, WriterInv, DirLagInv
    <2>2. \A u \in Segs \ {s} : close'[u] = close[u] /\ closeSynced[u] = close[u]
        BY <1>1, <1>2, <2>1 DEF DiskLagsInv
    <2>3. CASE close'[s] = close[s]
        <3>1. close' = close
            BY <1>4, <2>2, <2>3, Zenon
        <3>2. Seals /\ LongestInv'
            BY <1>2, <1>3, <1>6, <3>1, SealStep DEF Seals
        <3> QED BY <3>2 DEF AbstractStep
    <2>4. CASE close'[s] = <<>>
        <3>1. closeSynced' = closeSynced
            <4>1. \A u \in Segs : closeSynced[u] = close'[u]
                BY <2>1, <2>2, <2>4
            <4> QED BY <1>2, <1>4, <4>1, Zenon
        <3> QED BY <1>2, <1>3, <1>6, <3>1, StuttersRefine DEF Stutters, RefInv
    <2> QED BY <1>2, <2>1, <2>3, <2>4
<1> QED BY <1>5, <1>6

LEMMA StepRefines ==
    ASSUME PowerAlone, RefInv, [Next]_vars
    PROVE  AbstractStep /\ LongestInv'
<1>1. PowerInv /\ LongestInv
    BY DEF RefInv
<1>2. ASSUME UNCHANGED <<log, synced, closeSynced, acked>>
      PROVE  AbstractStep /\ LongestInv'
    BY <1>1, <1>2, SameFilesStutter, StuttersRefine
<1>3. CASE Tick \/ UNCHANGED vars
    BY <1>2, <1>3 DEF Tick, vars, disk
<1>4. ASSUME NEW b \in Bodies, AppendStep(b) PROVE AbstractStep /\ LongestInv'
    <2>1. CASE AppendWrites(b)
        BY <1>1, <2>1, AppendWritesStutters, StuttersRefine
    <2>2. CASE AppendRaises(b) \/ RotationCheckRaises(b) \/ RotationRaises(b) \/ Rotates(b)
        BY <1>2, <2>2
           DEF AppendRaises, RotationCheckRaises, RotationRaises, Rotates, PublishClose, disk
    <2> QED BY <1>4, <2>1, <2>2 DEF AppendStep
<1>5. CASE AppendReturns
    BY <1>5, AppendReturnsRecords
<1>6. CASE FsyncFails \/ CloseSegment \/ DiscardEmptyLog \/ DirSyncFails
    BY <1>2, <1>6 DEF FsyncFails, CloseSegment, PublishClose, DiscardEmptyLog, DirSyncFails, disk
<1>7. CASE CloseReturns
    <2>1. pc = "dirsync" /\ closeSynced' = close /\ UNCHANGED <<log, synced, acked>>
        BY <1>7 DEF CloseReturns
    <2>2. \A u \in Segs : DurableChain(u)' = DurableChain(u)
        BY <2>1, DurableChainIs
    <2> QED BY <2>1, <2>2, SealStep DEF AbstractStep, Seals
<1>8. CASE Kill \/ RecoverNothing \/ RecoverRefuses
    BY <1>2, <1>8 DEF Kill, Dies, RecoverNothing, RecoverRefuses, disk
<1>9. CASE PowerLoss
    BY <1>9, PowerLossRefines DEF Next, vars
<1>10. ASSUME NEW s \in Segs, RecoverOpenLog(s) PROVE AbstractStep /\ LongestInv'
    BY <1>1, <1>10, RecoveryStutters, StuttersRefine
<1> QED BY <1>3, <1>4, <1>5, <1>6, <1>7, <1>8, <1>9, <1>10 DEF Next, WriterStep, Crash, Recover

LEMMA DirLagNext ==
    ASSUME PowerAlone, RefInv, [Next]_vars
    PROVE  DirLagInv'
<1>1. TypeOK /\ CloseInv /\ WriterInv /\ DiskLagsInv /\ DirLagInv
    BY DEF RefInv, PowerInv, CloseInv, Typed
<1>2. ASSUME NEW b, PublishClose(b), pc = "idle", openSeg # NoSeg
      PROVE  DirLagInv'
    <2>1. openSeg \in Segs /\ close[openSeg] = <<>>
        BY <1>1, <1>2 DEF TypeOK, WriterInv
    <2>2. closeSynced[openSeg] = <<>>
        BY <1>1, <1>2, <2>1 DEF DiskLagsInv
    <2> QED BY <1>2, <2>2 DEF PublishClose, DirLagInv
<1>3. CASE Tick \/ UNCHANGED vars
    BY <1>1, <1>3 DEF Tick, vars, disk, memory, DirLagInv
<1>4. ASSUME NEW b \in Bodies, AppendStep(b) PROVE DirLagInv'
    <2>1. CASE Rotates(b)
        BY <1>2, <2>1 DEF Rotates, RotationChecked, Appendable
    <2>2. CASE AppendWrites(b) \/ AppendRaises(b)
        BY <2>2 DEF AppendWrites, AppendRaises, DirLagInv
    <2>3. CASE RotationCheckRaises(b) \/ RotationRaises(b)
        BY <2>3 DEF RotationCheckRaises, RotationRaises, Appendable, memory, DirLagInv
    <2> QED BY <1>4, <2>1, <2>2, <2>3 DEF AppendStep
<1>5. CASE CloseSegment
    BY <1>2, <1>5 DEF CloseSegment
<1>6. CASE AppendReturns \/ FsyncFails \/ CloseReturns \/ DirSyncFails
    BY <1>6 DEF AppendReturns, FsyncFails, CloseReturns, DirSyncFails, DirLagInv
<1>7. CASE DiscardEmptyLog
    BY <1>7 DEF DiscardEmptyLog, DirLagInv
<1>8. CASE Crash \/ Recover
    BY <1>8 DEF Crash, Kill, PowerLoss, Dies, Recover, RecoverNothing, RecoverRefuses,
                RecoverOpenLog, DirLagInv
<1> QED BY <1>3, <1>4, <1>5, <1>6, <1>7, <1>8 DEF Next, WriterStep

LEMMA RefInit == Init => RefInv
<1> SUFFICES ASSUME Init PROVE RefInv
    OBVIOUS
<1>1. PowerInv /\ DirLagInv
    BY PowerInit DEF Init, DirLagInv
<1>2. Longest(closeSynced, <<>>)
    BY DEF Init, Longest
<1> QED BY <1>1, <1>2 DEF RefInv, LongestInv

(* The spool promises what EvidenceLog promises, through any power losses: *)
(* what was sealed or recorded is never altered, reordered or dropped, and *)
(* what append() acknowledged stays where it was acknowledged.             *)
THEOREM SpoolImplementsEvidenceLog == Spec => ImplementsEvidenceLog
<1> DEFINE Inv == PowerAlone => RefInv
<1>1. Init => Inv
    BY RefInit
<1>2. Inv /\ [Next]_vars => Inv'
    <2> SUFFICES ASSUME Inv, [Next]_vars, PowerAlone' PROVE RefInv'
        OBVIOUS
    <2>1. PowerAlone
        BY DEF PowerAlone, Next, vars
    <2> QED BY <2>1, PowerNext, StepRefines, DirLagNext DEF RefInv
<1>3. Init => EL!Init
    <2> SUFFICES ASSUME Init PROVE EL!Init
        OBVIOUS
    <2>1. CloseInv /\ Longest(closeSynced, <<>>)
        BY CloseInit DEF Init, Longest
    <2>2. PowerAlone => SealedSegments = <<>>
        <3>1. PowerAlone => DurableCloses = <<>>
            BY <2>1, DurableClosesIs
        <3> QED BY <3>1 DEF SealedSegments
    <2>3. OpenTail = <<>>
        <3>1. DurablyOpen = {}
            BY DEF Init, DurablyOpen, DurableChain
        <3> QED BY <3>1 DEF OpenTail
    <2>4. acked = {}
        BY DEF Init
    <2> QED BY <2>2, <2>3, <2>4 DEF EL!Init
<1>4. Inv /\ [Next]_vars => [EL!Next]_EL!vars
    <2> SUFFICES ASSUME Inv, [Next]_vars PROVE [EL!Next]_EL!vars
        OBVIOUS
    <2>1. PowerAlone' = PowerAlone
        BY DEF PowerAlone, Next, vars
    <2>2. CASE ~PowerAlone
        BY <2>1, <2>2 DEF EL!vars
    <2>3. CASE PowerAlone
        <3>1. AbstractStep
            BY <2>3, StepRefines
        <3>2. CASE UNCHANGED <<SealedSegments, OpenTail, Places>>
            BY <2>1, <2>3, <3>2 DEF EL!vars, Places
        <3>3. CASE Seals
            BY <2>1, <2>3, <3>3 DEF EL!Next, EL!Seal, Seals, Places
        <3>4. ASSUME NEW b \in Bodies, NEW heard \in BOOLEAN, Records(b, heard)
              PROVE  EL!Next
            <4>1. EL!Record(b, heard)
                BY <2>1, <2>3, <3>4 DEF EL!Record, EL!Here, Records, Places
            <4> QED BY <4>1 DEF EL!Next
        <3> QED BY <3>1, <3>2, <3>3, <3>4 DEF AbstractStep
    <2> QED BY <2>2, <2>3
<1> QED BY <1>1, <1>2, <1>3, <1>4, PTL DEF Spec, ImplementsEvidenceLog, EL!Spec
=============================================================================
