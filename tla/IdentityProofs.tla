--------------------------- MODULE IdentityProofs ---------------------------
(***************************************************************************)
(* Theorems about Identity, for any processes, agents and bounds, and      *)
(* whatever fails.                                                         *)
(***************************************************************************)
EXTENDS Identity, TLAPS

(* What the two files say, now and after a power loss: the identity may    *)
(* still vanish, but what stays of it is whole, unless a write was short.  *)
FilesInv ==
    /\ onDisk["writer"] \subseteq {Missing, file["writer"]}
    /\ file["writer"] \in Mints => file["key"] \in {file["writer"], Garbled}
    /\ file["writer"] # Missing => onDisk["key"] = {file["key"]}
    /\ "short" \notin faults =>
           \A f \in Files : file[f] # Garbled /\ Garbled \notin onDisk[f]

(* writer.json can have come from this identity alone. *)
Owns(g) == g.id \in Mints /\ g.key = g.id /\ file["writer"] \in {g.id, Garbled}

(* One process mints at a time, and replaces nothing that counts; those    *)
(* that have loaded already have its identity.                             *)
MintInv ==
    \A p \in Procs : Minting(p) =>
        /\ \A q \in Procs \ {p} : ~Minting(q) /\ (pc[q] = "up" => mine[q] = mine[p])
        /\ mine[p].id \in Mints /\ mine[p].key = mine[p].id
        /\ turn[p] = 1 \/ pc[p] = "replace" => file["writer"] = Missing
        /\ turn[p] = 2 \/ pc[p] = "sync" => file["key"] \in {mine[p].id, Garbled}
        /\ turn[p] = 2 => onDisk["key"] = {file["key"]}
        /\ turn[p] = 2 /\ pc[p] = "sync" => file["writer"] \in {mine[p].id, Garbled}
        /\ kept = {}
        /\ Reliable \subseteq {mine[p]}
        /\ "power" \in faults \/ turn[p] = 1 \/ pc[p] = "replace" => Reliable = {}

UpInv ==
    \A p \in Procs : pc[p] = "up" =>
        /\ Owns(mine[p])
        /\ kept \subseteq {mine[p]}

KeptInv == \A g \in kept : Owns(g) /\ onDisk["writer"] = {file["writer"]}

GivenInv ==
    /\ \A g \in Reliable : Owns(g) /\ ("power" \in faults => onDisk["writer"] = {file["writer"]})
    /\ \A g, h \in Reliable : g = h

(* Without kills and failed syncs, an unsynced writer.json has its process. *)
Orderly == faults \cap {"kill", "dirsync"} = {}
SyncedInv ==
    /\ Orderly /\ "power" \in faults
    /\ file["writer"] # Missing
    /\ \A p \in Procs : ~(pc[p] = "sync" /\ turn[p] = 2)
    => onDisk["writer"] = {file["writer"]}

IdentityInv ==
    /\ TypeOK /\ FilesInv /\ MintInv /\ UpInv /\ KeptInv /\ GivenInv /\ SyncedInv

USE DEF Files, Contents, Mints, Nothing

-----------------------------------------------------------------------------
(* The initial states. *)

LEMMA InitInv == Init => IdentityInv
<1> SUFFICES ASSUME Init PROVE IdentityInv
    OBVIOUS
<1>1. TypeOK
    BY MintsAssumption DEF Init, TypeOK, Identities, NoIdentity
<1>2. FilesInv
    BY ContentsAssumption DEF Init, FilesInv
<1>3. MintInv /\ UpInv /\ KeptInv /\ GivenInv /\ SyncedInv
    BY DEF Init, MintInv, UpInv, KeptInv, GivenInv, SyncedInv, Minting, Reliable
<1> QED BY <1>1, <1>2, <1>3 DEF IdentityInv

(* A loaded identity is that of whoever has one already. *)
LEMMA LoadsInv ==
    ASSUME IdentityInv, NEW p \in Procs, Loads(p)
    PROVE  IdentityInv'
<1> DEFINE g == [id |-> file["writer"], key |-> file["key"]]
<1> USE DEF IdentityInv
<1>1. /\ pc[p] = "none"
      /\ file["writer"] \in Mints /\ file["key"] \in Mints
      /\ pc' = [pc EXCEPT ![p] = "up"]
      /\ mine' = [mine EXCEPT ![p] = g] /\ given' = given \cup {g}
      /\ settled' = IF NobodyMints THEN settled \cup {g} ELSE settled
      /\ UNCHANGED <<faults, file, onDisk, turn, minted, kept, failures>>
    BY DEF Loads, TypeOK
<1>2. file["key"] = file["writer"]
    BY <1>1, ContentsAssumption DEF FilesInv
<1>3. g \in Identities /\ Owns(g)
    BY <1>1, <1>2 DEF Identities, Owns
<1>4. \A h \in Identities : Owns(h) => h = g
    BY <1>1, <1>2, ContentsAssumption DEF Identities, Owns
<1>5. TypeOK'
    BY <1>1, <1>3 DEF TypeOK
<1>6. FilesInv' /\ KeptInv'
    BY <1>1 DEF FilesInv, KeptInv, Owns
<1>7. Reliable' \subseteq Reliable \cup {g}
    BY <1>1 DEF Reliable
<1>8. ASSUME NEW q \in Procs, Minting(q)
      PROVE  /\ turn[q] = 2 /\ pc[q] = "sync" /\ g = mine[q]
             /\ "power" \in faults => Reliable' = Reliable
    <2>1. turn[q] = 2 /\ pc[q] = "sync"
        BY <1>1, <1>8, ContentsAssumption DEF MintInv, Minting, TypeOK
    <2>2. Owns(mine[q])
        BY <1>8, <2>1 DEF MintInv, Owns
    <2>3. mine[q] \in Identities
        BY DEF TypeOK
    <2>4. ~NobodyMints
        BY <1>8 DEF NobodyMints
    <2> QED BY <1>1, <1>4, <2>1, <2>2, <2>3, <2>4 DEF Reliable
<1>9. MintInv'
    <2> SUFFICES ASSUME NEW q \in Procs, Minting(q)' PROVE MintInv!(q)!2'
        BY DEF MintInv
    <2>1. q # p /\ Minting(q) /\ mine'[q] = mine[q] /\ pc'[q] = pc[q]
        BY <1>1 DEF Minting, TypeOK
    <2>2. turn[q] = 2 /\ pc[q] = "sync" /\ g = mine[q]
        BY <1>8, <2>1
    <2>3. \A t \in Procs \ {q} : ~Minting(t)' /\ (pc'[t] = "up" => mine'[t] = mine'[q])
        <3> SUFFICES ASSUME NEW t \in Procs \ {q}
                     PROVE  ~Minting(t)' /\ (pc'[t] = "up" => mine'[t] = mine'[q])
            OBVIOUS
        <3>1. CASE t = p
            BY <1>1, <2>1, <2>2, <3>1 DEF Minting, TypeOK
        <3>2. CASE t # p
            BY <1>1, <2>1, <3>2 DEF MintInv, Minting, TypeOK
        <3> QED BY <3>1, <3>2
    <2>4. Reliable' \subseteq {mine'[q]} /\ ("power" \in faults => Reliable' = {})
        BY <1>7, <1>8, <2>1, <2>2 DEF MintInv
    <2> QED BY <1>1, <2>1, <2>2, <2>3, <2>4 DEF MintInv
<1>10. UpInv'
    <2>1. kept \subseteq {g}
        BY <1>4 DEF KeptInv, TypeOK
    <2>2. \A q \in Procs : pc'[q] = "up" => (pc[q] = "up" /\ mine'[q] = mine[q]) \/ mine'[q] = g
        BY <1>1 DEF TypeOK
    <2> QED BY <1>1, <1>3, <2>1, <2>2 DEF UpInv, Owns
<1>11. SyncedInv'
    BY <1>1 DEF SyncedInv, Orderly, TypeOK
<1>12. GivenInv'
    <2>1. \A h \in Reliable : h = g
        BY <1>4 DEF GivenInv, TypeOK, Reliable
    <2>2. "power" \in faults /\ NobodyMints /\ Orderly => onDisk["writer"] = {file["writer"]}
        BY <1>1, ContentsAssumption DEF SyncedInv, Minting, NobodyMints
    <2>3. ASSUME "power" \in faults, Reliable' # {}
          PROVE  onDisk["writer"] = {file["writer"]}
        <3>1. CASE NobodyMints /\ Orderly
            BY <2>2, <2>3, <3>1
        <3>2. CASE ~(NobodyMints /\ Orderly)
            BY <1>1, <2>3, <3>2 DEF Reliable, GivenInv, Orderly
        <3> QED BY <3>1, <3>2
    <2> QED BY <1>1, <1>3, <1>7, <2>1, <2>3 DEF Owns, GivenInv
<1> QED BY <1>5, <1>6, <1>9, <1>10, <1>11, <1>12

(* Minting begins when nobody has an identity. *)
LEMMA MintKeepsInv ==
    ASSUME IdentityInv, NEW p \in Procs, Mint(p)
    PROVE  IdentityInv'
<1> DEFINE n == Len(minted) + 1
<1> USE DEF IdentityInv
<1>1. /\ pc[p] = "none" /\ \A q \in Procs : ~Minting(q)
      /\ file["writer"] = Missing
      /\ n \in Mints /\ minted' = Append(minted, AgentOf[p])
      /\ pc' = [pc EXCEPT ![p] = "replace"] /\ turn' = [turn EXCEPT ![p] = 1]
      /\ mine' = [mine EXCEPT ![p] = [id |-> n, key |-> n]]
      /\ UNCHANGED <<faults, file, onDisk, given, settled, kept, failures>>
    BY MintsAssumption DEF Mint, NobodyMints, Exists, Fresh, TypeOK
<1>2. \A g : ~Owns(g)
    BY <1>1, ContentsAssumption DEF Owns
<1>3. kept = {} /\ Reliable = {} /\ \A q \in Procs : pc[q] # "up"
    BY <1>2 DEF KeptInv, GivenInv, UpInv
<1>4. \A q \in Procs : pc[q] = "none"
    BY <1>1, <1>3 DEF TypeOK, Minting
<1>5. TypeOK'
    <2>1. PICK m \in Seq(Agents) : m = minted
        BY DEF TypeOK
    <2>2. Append(m, AgentOf[p]) \in Seq(Agents) /\ Len(Append(m, AgentOf[p])) = n
        BY <2>1, AgentsAssumption
    <2>3. minted' \in Seq(Agents) /\ Len(minted') \in 0..MaxMints
        BY <1>1, <2>1, <2>2, MintsAssumption
    <2> QED BY <1>1, <2>3 DEF TypeOK, Identities
<1>6. FilesInv' /\ KeptInv' /\ GivenInv' /\ SyncedInv' /\ Reliable' = {}
    BY <1>1, <1>3 DEF FilesInv, KeptInv, GivenInv, SyncedInv, Orderly, Reliable
<1>7. UpInv'
    BY <1>1, <1>4 DEF UpInv, TypeOK
<1>8. MintInv'
    <2>1. \A q \in Procs \ {p} : pc'[q] = "none"
        BY <1>1, <1>4 DEF TypeOK
    <2>2. mine'[p] = [id |-> n, key |-> n] /\ turn'[p] = 1 /\ pc'[p] = "replace"
        BY <1>1 DEF TypeOK
    <2> QED BY <1>1, <1>3, <1>6, <2>1, <2>2 DEF MintInv, Minting
<1> QED BY <1>5, <1>6, <1>7, <1>8

(* Either file is replaced while the spool has no readable identity. *)
LEMMA ReplacesInv ==
    ASSUME IdentityInv, NEW p \in Procs, Replaces(p)
    PROVE  IdentityInv'
<1> USE DEF IdentityInv
<1>1. PICK data \in {Data(p)} \cup IF "short" \in faults THEN {Garbled} ELSE {} :
          /\ file' = [file EXCEPT ![Stored(p)] = data]
          /\ onDisk' = [onDisk EXCEPT ![Stored(p)] = @ \cup {data}]
    BY DEF Replaces
<1>2. /\ pc[p] = "replace" /\ pc' = [pc EXCEPT ![p] = "sync"]
      /\ UNCHANGED <<faults, turn, mine, minted, given, settled, kept, failures>>
    BY DEF Replaces
<1>3. /\ \A q \in Procs : pc[q] # "up" /\ (q # p => pc[q] = "none")
      /\ mine[p].id \in Mints /\ mine[p].key = mine[p].id
      /\ file["writer"] = Missing
      /\ turn[p] = 2 => file["key"] \in {mine[p].id, Garbled} /\ onDisk["key"] = {file["key"]}
      /\ kept = {} /\ Reliable = {}
    <2>1. /\ mine[p].id \in Mints /\ mine[p].key = mine[p].id
          /\ file["writer"] = Missing
          /\ turn[p] = 2 => file["key"] \in {mine[p].id, Garbled} /\ onDisk["key"] = {file["key"]}
          /\ kept = {} /\ Reliable = {}
          /\ \A q \in Procs \ {p} : ~Minting(q)
        BY <1>2 DEF MintInv, Minting
    <2>2. \A q \in Procs : pc[q] # "up"
        <3>1. \A g : ~Owns(g)
            BY <2>1, ContentsAssumption DEF Owns
        <3> QED BY <3>1 DEF UpInv
    <2>3. \A q \in Procs : pc[q] \in {"none", "replace", "sync", "up"}
        BY DEF TypeOK
    <2>4. \A q \in Procs : q # p => pc[q] = "none"
        BY <2>1, <2>2, <2>3 DEF Minting
    <2> QED BY ONLY <2>1, <2>2, <2>4
<1>4. data \in {mine[p].id, Garbled} /\ ("short" \notin faults => data # Garbled)
    BY <1>1, <1>3, ContentsAssumption DEF Data
<1>5. turn[p] \in 1..2 /\ Stored(p) = IF turn[p] = 1 THEN "key" ELSE "writer"
    BY DEF TypeOK, Stored
<1>6. /\ file' = [file EXCEPT ![Stored(p)] = data]
      /\ file'["writer"] = IF turn[p] = 1 THEN Missing ELSE data
      /\ file'["key"] = IF turn[p] = 1 THEN data ELSE file["key"]
      /\ onDisk'["writer"] = IF turn[p] = 1 THEN onDisk["writer"] ELSE onDisk["writer"] \cup {data}
      /\ onDisk'["key"] = IF turn[p] = 1 THEN onDisk["key"] \cup {data} ELSE onDisk["key"]
    BY <1>1, <1>3, <1>5 DEF TypeOK
<1>7. TypeOK'
    BY <1>1, <1>2, <1>3, <1>4, <1>5 DEF TypeOK
<1>8. onDisk["writer"] \subseteq {Missing}
    BY <1>3 DEF FilesInv
<1>9. FilesInv'
    <2>1. onDisk'["writer"] \subseteq {Missing, file'["writer"]}
        BY <1>6, <1>8
    <2>2. file'["writer"] \in Mints => file'["key"] \in {file'["writer"], Garbled}
        BY <1>3, <1>4, <1>5, <1>6, ContentsAssumption
    <2>3. file'["writer"] # Missing => onDisk'["key"] = {file'["key"]}
        BY <1>3, <1>5, <1>6
    <2>4. "short" \notin faults => \A f \in Files : file'[f] # Garbled /\ Garbled \notin onDisk'[f]
        BY <1>4, <1>6, <1>3, ContentsAssumption DEF FilesInv
    <2> QED BY <1>2, <2>1, <2>2, <2>3, <2>4 DEF FilesInv
<1>10. KeptInv' /\ GivenInv' /\ Reliable' = {}
    BY <1>2, <1>3 DEF KeptInv, GivenInv, Reliable
<1>11. \A q \in Procs : IF q = p THEN pc'[q] = "sync" ELSE pc'[q] = "none"
    BY <1>2, <1>3 DEF TypeOK
<1>12. UpInv'
    BY <1>11 DEF UpInv
<1>13. SyncedInv'
    <2>1. turn[p] = 2 => pc'[p] = "sync" /\ turn'[p] = 2
        BY <1>2, <1>11
    <2>2. turn[p] = 1 => file'["writer"] = Missing
        BY <1>6
    <2> QED BY <1>5, <2>1, <2>2 DEF SyncedInv
<1>14. MintInv'
    <2>1. turn'[p] = turn[p] /\ mine'[p] = mine[p] /\ pc'[p] = "sync"
        BY <1>2, <1>11
    <2>2. turn[p] = 1 => file'["writer"] = Missing
        BY <1>6
    <2>3. file'["key"] \in {mine[p].id, Garbled}
        BY <1>3, <1>4, <1>5, <1>6
    <2>4. turn[p] = 2 => onDisk'["key"] = {file'["key"]} /\ file'["writer"] \in {mine[p].id, Garbled}
        BY <1>3, <1>4, <1>6
    <2> QED BY <1>2, <1>3, <1>10, <1>11, <2>1, <2>2, <2>3, <2>4 DEF MintInv, Minting
<1> QED BY <1>7, <1>9, <1>10, <1>12, <1>13, <1>14

(* The directory sync makes what is there certain. *)
LEMMA StoresKeyInv ==
    ASSUME IdentityInv, NEW p \in Procs, StoresKey(p)
    PROVE  IdentityInv'
<1> USE DEF IdentityInv
<1>1. /\ pc[p] = "sync" /\ turn[p] = 1
      /\ onDisk' = [f \in Files |-> {file[f]}]
      /\ turn' = [turn EXCEPT ![p] = 2] /\ pc' = [pc EXCEPT ![p] = "replace"]
      /\ UNCHANGED <<faults, file, mine, minted, given, settled, kept, failures>>
    BY DEF StoresKey, Durable
<1>2. /\ \A q \in Procs : pc[q] # "up" /\ (q # p => pc[q] = "none")
      /\ mine[p].id \in Mints /\ mine[p].key = mine[p].id
      /\ file["writer"] = Missing /\ file["key"] \in {mine[p].id, Garbled}
      /\ kept = {} /\ Reliable = {}
    <2>1. /\ mine[p].id \in Mints /\ mine[p].key = mine[p].id
          /\ file["writer"] = Missing /\ file["key"] \in {mine[p].id, Garbled}
          /\ kept = {} /\ Reliable = {}
          /\ \A q \in Procs \ {p} : ~Minting(q)
        BY <1>1 DEF MintInv, Minting
    <2>2. \A q \in Procs : pc[q] # "up"
        <3>1. \A g : ~Owns(g)
            BY <2>1, ContentsAssumption DEF Owns
        <3> QED BY <3>1 DEF UpInv
    <2>3. \A q \in Procs : pc[q] \in {"none", "replace", "sync", "up"}
        BY DEF TypeOK
    <2>4. \A q \in Procs : q # p => pc[q] = "none"
        BY <2>1, <2>2, <2>3 DEF Minting
    <2> QED BY ONLY <2>1, <2>2, <2>4
<1>3. onDisk'["writer"] = {file["writer"]} /\ onDisk'["key"] = {file["key"]}
    BY <1>1
<1>4. TypeOK'
    BY <1>1 DEF TypeOK
<1>5. FilesInv'
    BY <1>1, <1>2, <1>3, ContentsAssumption DEF FilesInv
<1>6. KeptInv' /\ GivenInv' /\ SyncedInv' /\ Reliable' = {}
    BY <1>1, <1>2, <1>3 DEF KeptInv, GivenInv, SyncedInv, Reliable
<1>7. \A q \in Procs : IF q = p THEN pc'[q] = "replace" /\ turn'[q] = 2 ELSE pc'[q] = "none"
    BY <1>1, <1>2 DEF TypeOK
<1>8. UpInv'
    BY <1>7 DEF UpInv
<1>9. MintInv'
    BY <1>1, <1>2, <1>3, <1>6, <1>7 DEF MintInv, Minting
<1> QED BY <1>4, <1>5, <1>6, <1>8, <1>9

LEMMA StoresIdInv ==
    ASSUME IdentityInv, NEW p \in Procs, StoresId(p)
    PROVE  IdentityInv'
<1> USE DEF IdentityInv
<1>1. /\ pc[p] = "sync" /\ turn[p] = 2
      /\ onDisk' = [f \in Files |-> {file[f]}]
      /\ given' = given \cup {mine[p]} /\ settled' = settled \cup {mine[p]}
      /\ kept' = kept \cup {mine[p]}
      /\ pc' = [pc EXCEPT ![p] = "up"]
      /\ UNCHANGED <<faults, file, turn, mine, minted, failures>>
    BY DEF StoresId, Durable
<1>2. /\ \A q \in Procs \ {p} : ~Minting(q) /\ (pc[q] = "up" => mine[q] = mine[p])
      /\ mine[p].id \in Mints /\ mine[p].key = mine[p].id
      /\ file["key"] \in {mine[p].id, Garbled} /\ file["writer"] \in {mine[p].id, Garbled}
      /\ kept = {} /\ Reliable \subseteq {mine[p]}
    BY <1>1 DEF MintInv, Minting
<1>3. onDisk'["writer"] = {file["writer"]} /\ onDisk'["key"] = {file["key"]}
    BY <1>1
<1>4. Owns(mine[p])'
    BY <1>1, <1>2 DEF Owns
<1>5. TypeOK'
    BY <1>1 DEF TypeOK
<1>6. FilesInv'
    BY <1>1, <1>2, <1>3, ContentsAssumption DEF FilesInv
<1>7. Reliable' \subseteq {mine[p]}
    BY <1>1, <1>2 DEF Reliable
<1>8. KeptInv' /\ GivenInv' /\ SyncedInv'
    BY <1>1, <1>2, <1>3, <1>4, <1>7 DEF KeptInv, GivenInv, SyncedInv, Owns
<1>9. \A q \in Procs : ~Minting(q)' /\ (pc'[q] = "up" => mine'[q] = mine[p])
    BY <1>1, <1>2 DEF Minting, TypeOK
<1>10. UpInv' /\ MintInv'
    BY <1>1, <1>2, <1>4, <1>9 DEF UpInv, MintInv
<1> QED BY <1>5, <1>6, <1>8, <1>10

-----------------------------------------------------------------------------
(* Failures. *)

(* A power loss takes an identity that somebody has only when a process    *)
(* was killed, or a sync failed, between its rename and its sync.          *)
LEMMA PowerLossInv ==
    ASSUME IdentityInv, PowerLoss
    PROVE  IdentityInv'
<1> USE DEF IdentityInv
<1>1. /\ "power" \in faults
      /\ pc' = [p \in Procs |-> "none"]
      /\ file' \in [Files -> Contents] /\ \A n \in Files : file'[n] \in onDisk[n]
      /\ onDisk' = [f \in Files |-> {file'[f]}]
      /\ UNCHANGED <<faults, turn, mine, minted, given, settled, kept>>
    BY DEF PowerLoss
<1>2. failures' \in 0..MaxFailures
    BY MintsAssumption DEF PowerLoss, OneMoreFailure, TypeOK
<1>3. TypeOK'
    BY <1>1, <1>2 DEF TypeOK
<1>4. file'["writer"] \in {Missing, file["writer"]} /\ file'["key"] \in onDisk["key"]
    BY <1>1 DEF FilesInv
<1>5. onDisk'["writer"] = {file'["writer"]} /\ onDisk'["key"] = {file'["key"]}
    BY <1>1
<1>6. FilesInv'
    <2>1. file'["writer"] \in Mints => file'["key"] \in {file'["writer"], Garbled}
        BY <1>4, ContentsAssumption DEF FilesInv
    <2>2. "short" \notin faults => \A f \in Files : file'[f] # Garbled
        BY <1>1 DEF FilesInv
    <2> QED BY <1>1, <1>5, <2>1, <2>2 DEF FilesInv
<1>7. MintInv' /\ UpInv'
    BY <1>1 DEF MintInv, UpInv, Minting
<1>8. KeptInv'
    <2>1. ASSUME NEW g \in kept PROVE file'["writer"] = file["writer"]
        BY <1>1 DEF KeptInv
    <2> QED BY <1>1, <1>5, <2>1 DEF KeptInv, Owns
<1>9. GivenInv'
    <2>1. ASSUME NEW g \in Reliable PROVE file'["writer"] = file["writer"]
        BY <1>1, <2>1 DEF GivenInv
    <2>2. Reliable' = Reliable
        BY <1>1 DEF Reliable
    <2> QED BY <1>1, <1>5, <2>1, <2>2 DEF GivenInv, Owns
<1>10. SyncedInv'
    BY <1>5 DEF SyncedInv
<1> QED BY <1>3, <1>6, <1>7, <1>8, <1>9, <1>10

(* A process that ends leaves the files alone; only a kill or a failed     *)
(* sync ends one between the rename of writer.json and the sync.           *)
LEMMA EndsInv ==
    ASSUME IdentityInv, NEW p \in Procs, Ends(p),
           \/ pc[p] = "replace" \/ "dirsync" \in faults \/ "kill" \in faults
    PROVE  IdentityInv'
<1> USE DEF IdentityInv
<1>1. /\ pc' = [pc EXCEPT ![p] = "none"]
      /\ UNCHANGED <<faults, file, onDisk, turn, mine, minted, given, settled, kept>>
    BY DEF Ends
<1>2. failures' \in 0..MaxFailures
    BY MintsAssumption DEF Ends, OneMoreFailure, TypeOK
<1>3. TypeOK'
    BY <1>1, <1>2 DEF TypeOK
<1>4. \A q \in Procs : (pc'[q] = pc[q] /\ q # p) \/ pc'[q] = "none"
    BY <1>1 DEF TypeOK
<1>5. FilesInv' /\ KeptInv' /\ GivenInv' /\ Reliable' = Reliable
    BY <1>1 DEF FilesInv, KeptInv, GivenInv, Owns, Reliable
<1>6. UpInv'
    BY <1>1, <1>4 DEF UpInv, Owns
<1>7. MintInv'
    <2> SUFFICES ASSUME NEW q \in Procs, Minting(q)' PROVE MintInv!(q)!2'
        BY DEF MintInv
    <2>1. q # p /\ pc'[q] = pc[q] /\ Minting(q)
        BY <1>4 DEF Minting
    <2>2. \A t \in Procs \ {q} : ~Minting(t)' /\ (pc'[t] = "up" => mine'[t] = mine'[q])
        BY <1>1, <1>4, <2>1 DEF MintInv, Minting
    <2> QED BY <1>1, <1>5, <2>1, <2>2 DEF MintInv
<1>8. SyncedInv'
    <2>1. Orderly /\ "power" \in faults => pc[p] = "replace"
        BY DEF Orderly
    <2>2. pc[p] = "replace" => \A q \in Procs : ~(pc[q] = "sync" /\ turn[q] = 2)
        BY DEF MintInv, Minting
    <2> QED BY <1>1, <2>1, <2>2 DEF SyncedInv, Orderly
<1> QED BY <1>3, <1>5, <1>6, <1>7, <1>8

-----------------------------------------------------------------------------
LEMMA StepInv == IdentityInv /\ [Next]_vars => IdentityInv'
<1> SUFFICES ASSUME IdentityInv, [Next]_vars PROVE IdentityInv'
    OBVIOUS
<1>1. ASSUME NEW p \in Procs, Constructor(p) PROVE IdentityInv'
    <2>1. CASE ReplaceRaises(p)
        BY <2>1, EndsInv DEF ReplaceRaises
    <2>2. CASE DirSyncRaises(p)
        BY <2>2, EndsInv DEF DirSyncRaises
    <2> QED BY <1>1, <2>1, <2>2, LoadsInv, MintKeepsInv, ReplacesInv, StoresKeyInv,
               StoresIdInv DEF Constructor
<1>2. ASSUME NEW p \in Procs, Kill(p) PROVE IdentityInv'
    BY <1>2, EndsInv DEF Kill
<1>3. CASE UNCHANGED vars
    BY <1>3 DEF vars, IdentityInv, TypeOK, FilesInv, MintInv, UpInv, KeptInv, GivenInv,
                SyncedInv, Owns, Minting, Orderly, Reliable
<1> QED BY <1>1, <1>2, <1>3, PowerLossInv DEF Next

LEMMA Invariance == Spec => []IdentityInv
BY InitInv, StepInv, PTL DEF Spec

-----------------------------------------------------------------------------
(* Whatever a crash leaves of writer.json has its key, unless a write was  *)
(* short.                                                                  *)
THEOREM RestartsAreSafe == Spec => []RestartsSucceed
<1>1. IdentityInv => RestartsSucceed
    BY DEF IdentityInv, TypeOK, FilesInv, RestartsSucceed
<1> QED BY <1>1, Invariance, PTL

(* SEGMENT-009, for any number of processes, kills, failed syncs, short    *)
(* writes and power losses: what a minting constructor returned stays the  *)
(* identity of the spool,                                                  *)
THEOREM MintingIsOnceForAll == Spec => []MintedIdentityIsKept
<1>1. IdentityInv => MintedIdentityIsKept
    BY DEF IdentityInv, UpInv, MintedIdentityIsKept
<1> QED BY <1>1, Invariance, PTL

(* all constructors return the same one without power losses, and, when    *)
(* neither kills nor failed syncs add to these, all but those that load    *)
(* while another process mints.                                            *)
THEOREM IdentityIsUnique == Spec => []OneIdentity
<1>1. IdentityInv => OneIdentity
    BY DEF IdentityInv, GivenInv, OneIdentity
<1> QED BY <1>1, Invariance, PTL

THEOREM IdentityTypeCorrect == Spec => []TypeOK
BY Invariance, PTL DEF IdentityInv
=============================================================================
