------------------------------ MODULE Identity ------------------------------
(***************************************************************************)
(* The identity of a spool (_load_or_mint_identity and _atomic_write_json  *)
(* of spool.py): the first EvidenceWriter on a directory mints a writer_id *)
(* and a key and stores them in writer_key.json and writer.json; later     *)
(* ones, after a crash or beside a writer that is still there, load them.  *)
(*                                                                         *)
(* Every minting draws a fresh writer_id and a fresh seed, told together   *)
(* by the number of the minting.  Nothing locks the directory: a process   *)
(* loads whatever is in place while another is still minting.  Only that   *)
(* two of them mint at once is left out: replicas have spools of their own *)
(* (SEGMENT-004).  What else goes wrong is chosen at the start, once for a *)
(* behaviour.                                                              *)
(***************************************************************************)
EXTENDS Naturals, Sequences

CONSTANTS
    Procs,         \* the processes that construct an EvidenceWriter
    Agents,        \* org_id and agent_id
    AgentOf,       \* those a process passes
    Missing,       \* no such file
    Garbled,       \* a file that loads_strict does not parse
    MaxMints,      \* bound: identities minted
    MaxFailures    \* bound: kills, errors and power losses

Mints == 1..MaxMints
Nothing == 0
Files == {"key", "writer"}
Contents == Mints \cup {Missing, Garbled}

(* What may go wrong:                                                      *)
(*   kill     a process dies, what it wrote stays                          *)
(*   power    renames that no sync of the directory followed may be undone *)
(*   short    write() stores a prefix of a file                            *)
(*   dirsync  fsync() of the directory fails                               *)
AllFaults == {"kill", "power", "short", "dirsync"}

ASSUME AgentsAssumption == AgentOf \in [Procs -> Agents]
ASSUME MintsAssumption == MaxMints \in Nat /\ MaxFailures \in Nat
ASSUME ContentsAssumption == Missing \notin Nat /\ Garbled \notin Nat /\ Missing # Garbled

VARIABLES
    faults,        \* what may go wrong in this behaviour
    file,          \* writer_key.json and writer.json, as a reader sees them
    onDisk,        \* what a power loss may leave of each
    pc,            \* where the constructor of each process is
    turn,          \* which of the two files it stores
    mine,          \* writer_id and key of a process
    minted,        \* who minted each identity
    given,         \* history: identities of the constructors that returned
    settled,       \* history: ... those that returned while nobody minted
    kept,          \* history: ... those that minted
    failures

vars == <<faults, file, onDisk, pc, turn, mine, minted, given, settled, kept, failures>>

Identities == [id : Mints \cup {Nothing}, key : Mints \cup {Nothing}]
NoIdentity == [id |-> Nothing, key |-> Nothing]

TypeOK ==
    /\ faults \in SUBSET AllFaults
    /\ file \in [Files -> Contents]
    /\ onDisk \in [Files -> SUBSET Contents]
    /\ pc \in [Procs -> {"none", "replace", "sync", "up"}]
    /\ turn \in [Procs -> 1..2]
    /\ mine \in [Procs -> Identities]
    /\ minted \in Seq(Agents) /\ Len(minted) \in 0..MaxMints
    /\ given \subseteq Identities
    /\ settled \subseteq Identities
    /\ kept \subseteq Identities
    /\ failures \in 0..MaxFailures

-----------------------------------------------------------------------------
(* _load_or_mint_identity *)

Minting(p) == pc[p] \in {"replace", "sync"}
NobodyMints == \A q \in Procs : ~Minting(q)

(* Mutant of Exists: a writer.json that does not parse is taken for none. *)
ExistsReadable == file["writer"] \in Mints

Exists == file["writer"] # Missing

(* A garbled file, a missing key or another agent's spool: the constructor *)
(* raises, and nothing changes.  The writer.json it finds may be one that  *)
(* another process has renamed and not synced yet; loading syncs nothing.  *)
Loads(p) ==
    /\ pc[p] = "none"
    /\ Exists
    /\ file["writer"] \in Mints /\ file["key"] \in Mints
    /\ minted[file["writer"]] = AgentOf[p]
    /\ mine' = [mine EXCEPT ![p] = [id |-> file["writer"], key |-> file["key"]]]
    /\ given' = given \cup {mine'[p]}
    /\ settled' = IF NobodyMints THEN settled \cup {mine'[p]} ELSE settled
    /\ pc' = [pc EXCEPT ![p] = "up"]
    /\ UNCHANGED <<faults, file, onDisk, turn, minted, kept, failures>>

(* Mutant of Fresh: the numbers begin at nothing. *)
FreshFromZero == Len(minted)

Fresh == Len(minted) + 1

Mint(p) ==
    /\ pc[p] = "none"
    /\ NobodyMints
    /\ ~Exists
    /\ Len(minted) < MaxMints
    /\ minted' = Append(minted, AgentOf[p])
    /\ mine' = [mine EXCEPT ![p] = [id |-> Fresh, key |-> Fresh]]
    /\ pc' = [pc EXCEPT ![p] = "replace"]
    /\ turn' = [turn EXCEPT ![p] = 1]
    /\ UNCHANGED <<faults, file, onDisk, given, settled, kept, failures>>

-----------------------------------------------------------------------------
(* _atomic_write_json *)

(* Mutant of Stored: writer.json is written before the key. *)
StoredIdFirst(p) == IF turn[p] = 1 THEN "writer" ELSE "key"

(* The file whose turn it is, and what goes into it. *)
Stored(p) == IF turn[p] = 1 THEN "key" ELSE "writer"
Data(p) == IF Stored(p) = "key" THEN mine[p].key ELSE mine[p].id

(* The temporary file is written and synced, and takes the file's place. *)
Replaces(p) ==
    /\ pc[p] = "replace"
    /\ \E data \in {Data(p)} \cup IF "short" \in faults THEN {Garbled} ELSE {} :
           /\ file' = [file EXCEPT ![Stored(p)] = data]
           /\ onDisk' = [onDisk EXCEPT ![Stored(p)] = @ \cup {data}]
    /\ pc' = [pc EXCEPT ![p] = "sync"]
    /\ UNCHANGED <<faults, turn, mine, minted, given, settled, kept, failures>>

(* Mutant of Durable: the directory is not synced. *)
NotDurable == onDisk

Durable == [f \in Files |-> {file[f]}]

(* _fsync_dir returns; the other file is next, *)
StoresKey(p) ==
    /\ pc[p] = "sync" /\ turn[p] = 1
    /\ onDisk' = Durable
    /\ turn' = [turn EXCEPT ![p] = 2]
    /\ pc' = [pc EXCEPT ![p] = "replace"]
    /\ UNCHANGED <<faults, file, mine, minted, given, settled, kept, failures>>

(* or the constructor returns. *)
StoresId(p) ==
    /\ pc[p] = "sync" /\ turn[p] = 2
    /\ onDisk' = Durable
    /\ given' = given \cup {mine[p]}
    /\ settled' = settled \cup {mine[p]}
    /\ kept' = kept \cup {mine[p]}
    /\ pc' = [pc EXCEPT ![p] = "up"]
    /\ UNCHANGED <<faults, file, turn, mine, minted, failures>>

-----------------------------------------------------------------------------
(* Failures *)

OneMoreFailure == failures < MaxFailures /\ failures' = failures + 1

Ends(p) ==
    /\ OneMoreFailure
    /\ pc' = [pc EXCEPT ![p] = "none"]
    /\ UNCHANGED <<faults, file, onDisk, turn, mine, minted, given, settled, kept>>

(* The temporary file cannot be opened, written, synced or renamed. *)
ReplaceRaises(p) == pc[p] = "replace" /\ Ends(p)

DirSyncRaises(p) == "dirsync" \in faults /\ pc[p] = "sync" /\ Ends(p)

Kill(p) == "kill" \in faults /\ pc[p] # "none" /\ Ends(p)

PowerLoss ==
    /\ "power" \in faults
    /\ OneMoreFailure
    /\ pc' = [p \in Procs |-> "none"]
    /\ file' \in {f \in [Files -> Contents] : \A n \in Files : f[n] \in onDisk[n]}
    /\ onDisk' = [f \in Files |-> {file'[f]}]
    /\ UNCHANGED <<faults, turn, mine, minted, given, settled, kept>>

-----------------------------------------------------------------------------
Init ==
    /\ faults \in SUBSET AllFaults
    /\ file = [f \in Files |-> Missing]
    /\ onDisk = [f \in Files |-> {Missing}]
    /\ pc = [p \in Procs |-> "none"]
    /\ turn = [p \in Procs |-> 1]
    /\ mine = [p \in Procs |-> NoIdentity]
    /\ minted = <<>>
    /\ given = {} /\ settled = {} /\ kept = {}
    /\ failures = 0

Constructor(p) ==
    \/ Loads(p) \/ Mint(p)
    \/ Replaces(p) \/ StoresKey(p) \/ StoresId(p)
    \/ ReplaceRaises(p) \/ DirSyncRaises(p)

Next == (\E p \in Procs : Constructor(p) \/ Kill(p)) \/ PowerLoss

Spec == Init /\ [][Next]_vars

-----------------------------------------------------------------------------
(* Properties *)

(* The constructor may be called again after any failure but a short       *)
(* write: whatever it left, writer.json has the key it was minted with     *)
(* beside it, so the spool is never locked out of its own identity         *)
(* (INV-005) and the closes of its writer_id fit one authorization.        *)
RestartsSucceed ==
    "short" \notin faults /\ file["writer"] # Missing => file["key"] = file["writer"]

(* SEGMENT-009: a restarted process reuses the writer_id of the spool.     *)
(* Without power losses all constructors that ever return have the same    *)
(* identity.  With them a loading constructor, which syncs nothing, may    *)
(* return one that is not stored yet: as long as no process is killed and  *)
(* no sync fails, only one that loaded while another process minted;       *)
(* otherwise only those that minted are sure to keep what they returned.   *)
Reliable ==
    IF "power" \notin faults THEN given
    ELSE IF faults \cap {"kill", "dirsync"} = {} THEN settled ELSE kept
OneIdentity == \A i, j \in Reliable : i = j

(* ... and whatever fails: the identity a minting constructor returned is  *)
(* that of every writer there is from then on.                             *)
MintedIdentityIsKept == \A p \in Procs : pc[p] = "up" => kept \subseteq {mine[p]}
=============================================================================
