# Verification of Oathon

TLA+ models of the Oathon evidence protocol as the reference SDK implements it
(`packages/sdk-python/src/oathon`), with the Go and web verifiers beside it,
TLC configurations that check them on small instances, and TLAPS proofs that
the properties hold on all of them. Paths below are relative to the repository; `spool.py` and the like
are files of `packages/sdk-python/src/oathon`.

## 1. The system

An agent records what it does as *events*. Each is hashed with its predecessor
(`prev_hash`) into the chain of a *segment*; a segment that is closed gets a
signed *close record*, and the close records of a writer chain as well. A spool
on the agent's disk is synchronized to a server; what the server, or a bundle,
holds is verified offline and judged against a signed mandate.

| component | state | operations |
|---|---|---|
| Evidence writer (`spool.py`) | `segments/<id>.log`, `<id>.close.json`; in memory `_open_segment_id`, `_last_event` | `append`, rotation at UTC midnight, `close_segment`, `_recover`, `verify_spool` |
| Writer identity (`spool.py`) | `writer.json`, `writer_key.json` | `_load_or_mint_identity`, `_atomic_write_json` |
| Sync client (`sync.py`) | `sync-state.json`: acknowledged sequence per segment, acknowledged closes and authorizations | `sync()`: load state, read logs, read closes, send one batch, save state |
| Ingestion (`ingest.py`) | none of its own | `ingest_batch`: replay by idempotency key, duplicate, conflict, gap, authorization, close; one commit |
| Store (`store.py`) | events, closes, authorizations, idempotency records; one JSON file | reads, `commit`, `_persist`, reload |
| Verification (`verify.py`) | none | events, chains, closes, close chains |
| Report (`engine.py`) | none | `verification_report`: per segment and per writer, `complete` |
| Bundles (`bundle.py`) | a directory | `write_bundle`, `verify_bundle` |
| Key history (`keyring.py`) | none | `build_org_keyring`: genesis, rotations, recoveries |
| Go and web verifiers | none | the checks of `verify.py`, `keyring.py`, `bundle.py` again |
| Mandates (`validate.py`, `pointer.py`, extraction in `spool.py`) | none | what a mandate may ask, what an event records for it |
| Authority (`authority.py`) | none | `evaluate_operation`, `approval_required` |
| Authority findings (`cli.py`) | none | the operations of a bundle judged, with a coverage flag |
| Anchoring (`anchor.py`) | none | requests, receipts over a close, their verification |
| Crypto, key tools, ids, JSON | none | conversions, one document or one command at a time |

How they interact: the writer and the syncer share files and no lock; the
syncer calls the server through a transport that may lose, repeat or delay; the
server commits to memory and then to a file; verifiers read whatever they get.

What is hard about it, and hardly tested:

* crashes and power losses at every point of append, close, rotation, recovery,
  including what the page cache held; failing `write`, `fsync` and directory
  syncs; a program that retries an append that raised;
* a syncer that reads logs while the writer goes on, and close records after
  the logs; two syncers; lost answers, late and repeated requests; restarts of
  the server between memory and file;
* evidence that arrives incomplete or damaged, verified by four
  implementations that should agree;
* an identity made of two files, either of which a crash may leave out, and
  which later processes read while nobody may have synced it;
* what a mandate asks, what was extracted from an action under it, and what is
  evaluated long after: three pieces of code that must mean the same;
* a daily limit over operations of several writers whose clocks tie, and
  approvals judged on part of the evidence.

What makes each component correct, in the words of the properties: the spool
loses no acknowledged event and never touches or mis-signs a closed segment;
synchronization yields one logical copy and acknowledges nothing that is not
stored; a verdict of "complete" hides no damage and honest evidence is never
refused; a determination is stable, keeps limits, and accuses nobody because
evidence is missing; no crash locks a spool out of its identity, nor replaces
one that a minting constructor returned; a valid mandate can be evaluated; a receipt vouches for the close it stamps.
`PROJECT.json` lists every hazard with its line.

## 2. Modules

```
EvidenceLog  <--refines--  Spool                                MCSpool
Identity                                                        MCIdentity
Ingest       <--EXTENDS--  Sync                                 MCSync
Verification <--EXTENDS--  Audit     <--EXTENDS--  Findings     MCAudit
Mandate      <--EXTENDS--  Authority <--INSTANCE-- Findings     MCAuthority

Spool     <-- SpoolProofs <-- SpoolCloseProofs <-- SpoolPowerProofs <-- SpoolRefinement
Identity  <-- IdentityProofs         Sync     <-- SyncProofs
Authority <-- AuthorityProofs        Findings <-- AuditProofs
```

**Spool** is the `EvidenceWriter` and the file system below it. An event stands
for its hash: it is the sequence of bodies of the chain that ends with it, so
`sequence` is its length minus one and `prev_hash` its front. A close record
is likewise the chain of close records that ends with it. Hashes do not
collide. A log is the sequence of `write()`s a reader sees, each with its
newline or not, or a torn fragment; `synced` counts those on the disk for
certain; `exists/dirSynced` and `close/closeSynced` are directory entries as
seen and as durable.

| Spool | code |
|---|---|
| `AppendWrites`, `AppendReturns` | `append` up to `os.write`; `os.fsync` and the return, between which the process may die |
| `AppendRaises`, `FsyncFails`, `RotationCheckRaises`, `RotationRaises` | its `EvidenceError`s, at the point where they leave state behind |
| `Rotates`, `CloseSegment`, `DiscardEmptyLog` | `_maybe_rotate_locked`, `close_segment` through `_close_locked` |
| `CloseReturns`, `DirSyncFails` | `_fsync_dir` after `os.replace` |
| `RecoverNothing`, `RecoverOpenLog`, `RecoverRefuses` | `_recover` with `_read_log(repair_tail=True)` |
| `Kill`, `PowerLoss`, `Tick` | process, machine, clock |

`faults` is chosen once, from `FaultSets`, among `kill`, `power`, `cut`,
`short`, `fsync`, `dirsync` and `dirent`; each promise says for which of them
it is made:

| promise | holds for |
|---|---|
| `AckedEventsAreKept` | all but `cut`, `short`, `fsync`, `dirent` (`HonestFiles`) |
| `ClosedSegmentsVerify`, `ClosedStaysClosed` | all but `cut`, `dirsync`, `dirent`, and `power` with any other (`ClosesAreSafe`) |
| `RecoveryNeverRefuses`, `EventsAreUnique`, `ImplementsEvidenceLog` | power losses alone (`PowerAlone`) |

A body is appended again after it raised, as long as the program lives.

**Identity** is the construction of an `EvidenceWriter` on a directory, by
several processes of two agents. A minting is told by its number, which stands
for a fresh `writer_id` and a fresh key; `file` is what a reader of the two files sees,
`onDisk` what a power loss may leave. `Mint`, `Replaces`, `StoresKey`,
`StoresId` are the steps of the minting constructor, `Loads` that of any other,
which reads `writer.json` as soon as the minting one has renamed it, synced or
not; `ReplaceRaises`, `DirSyncRaises`, `Kill`, `PowerLoss` what may come
between. `OneIdentity` is therefore graded by what may fail (`Reliable`):

| `faults` | constructors that have one identity |
|---|---|
| no `power` | all that return |
| `power` without `kill` and `dirsync` | all but those that load while another process mints |
| `power` with one of them | those that mint |

In the second line a power loss between `os.replace` and `_fsync_dir` takes
`writer.json` from under a constructor that loaded it, in the third the renames
a dead or failed process left unsynced; either time the next start mints again.

**EvidenceLog** is what a spool promises, without files or crashes: sealed
segments, an open tail, acknowledged places. `Spool!ImplementsEvidenceLog`
maps the *durable* part of the disk to it (`EL == INSTANCE ... WITH`), so a
step that loses, alters or reorders durable evidence, or acknowledges what is
not durable, is a step the abstract log does not have.

**Ingest** is `ingest_batch` with the store: operators on a store and a batch
(`EventConflict`, `Gap`, `CloseConflict`, `BadClose`, `Accepts`, `Committed`,
and `AssertionFails`/`PartlyCommitted` for the assertion inside `commit`).
**Sync** composes it with the syncers, the network and the spool as a reader
sees it (a chain per segment and a close, the last of which perhaps not synced).
A batch has at most one authorization, the one its syncer was constructed with,
or none: `Configured` says what an operator may give each syncer.

| Sync | code |
|---|---|
| `SyncReadsLogs`, `SyncSends` / `SyncHasNothingToDo`, `SyncSaves`, `SyncAbandons` | the stages of `sync()`, which other actors may interleave; close records are read at the second |
| `IngestReplays`, `IngestRefuses`, `IngestCommits`, `PersistFails`, `CommitAsserts` | the outcomes of `ingest_batch` |
| `RequestIsLost`, `Returns`, `Raises` | the transport, which also delivers late and again |
| `ServerRestarts`, `ClientLosesPower` | reload of the file; the syncer's memory is gone |
| `WriterWrites`, `WriterCloses`, `WriterSyncs` | the writer, reduced to what the files show: a line or a close record in place, then its `fsync` or `_fsync_dir` |

`mem` is the store in memory, `disk` the file a restart finds. The reading of
all logs is one step and that of all closes another; a close carries the day it
was signed, an authorization its window. `Faults` adds lines and closes lost
after they were read (`unsynced`), events recorded again (`reuse`), an emptied
`sync-state.json` (`state`), a `_persist` that raises (`persist`) or whose
rename is undone (`rename`).

**Verification** holds every verifier as an operator on `Evidence`, a set of
events, closes and anchored segments with lists of authorizations and key records: `Complete`
(report), `SpoolVerifies`, `BundleVerifies` with `NothingDisclosed`,
`WebVerifies`, and the pairwise chain checks that Go and the web page share.
`WebKeyHistoryVerifies` is the page's `buildKeyring`, which unlike
`build_org_keyring` accepts a history without records.
A record is told by its place; `intact` says that content, hash and signature
still belong together. Sorting is `InOrder`, which puts an element at the place
that as many smaller keys give it; the keys (`sequence`, `segment_sequence`)
differ within what is sorted. **Audit** lets an organization record a history
(`Record`, `Close`, `Authorize`, `NewKey`, `Anchor`), hand a copy over (`HandOver`) and
lose or damage parts of it (`Damage`); the verdicts on `held` are compared with
`truth`. **Findings** is what `cmd_verify_bundle` makes of a bundle that
verifies: an operation whose approval and execution were recorded at two places
of the history is judged by `Authority!Determination` on what the copy has
of it, under the coverage flag computed from the same copy.

**Mandate** has the mandate as `validate.py` sees it (`MandateValid`:
permitted and forbidden actions, comparisons, counts, triggers, window), what
`extract_evaluation_metadata` takes from the parameters of an action
(`Extracted`), the comparisons (`Compare`, with Python's equality of `True` and
1 and the refusal to order anything but numbers) and `ApprovalRequired`. A JSON
scalar is a kind and a number. **Authority** is `evaluate_operation` over an
evidence set that grows by one event at a time, stamped by clocks nobody
vouches for; events of one instant are ordered by id. Each event carries the
metadata extracted when it was built, as `build_action_event` has it. `Peers`,
`Position`, `Tied` are `_count_position`, whose sorted list shows in two ways
only: how many peers come before an execution, and whether the nearest of them
is of its instant; `CountVerdicts`,
`ConstraintVerdicts` and `ApprovalVerdicts` follow the parts of the function.

The MC modules give the constants their values. Operators named "Mutant of"
are defects a code change could introduce; PROJECT.json pairs each property
with one that breaks it.

## 3. Runs

Passing:

| run | instance | states | shows |
|---|---|---|---|
| `Spool_faults` | 3 bodies (one of the next day), 3 segments, 4 writes a log, 2 failures; power losses alone, or kills, power losses and failed directory syncs, or kills, short writes and failed fsyncs | 756 154 | the promises of the table above |
| `Identity` | 3 processes of 2 agents, 4 mintings, 3 failures, every set of faults | 205 987 | no crash locks a spool out of its identity, later writers have the one a minting constructor returned, and constructors agree as far as the table of section 2 says |
| `Sync_one` | 2 bodies, 2 segments, 2 requests in flight, 1 failure, fair | 118 804 | what is acknowledged is what is stored, one logical copy, no spurious conflict or gap, batches whole, file append-only, and everything recorded arrives |
| `Sync_two` | two syncers on one spool, one without an authorization, 2 bodies, 1 segment, 1 request in flight, 1 failure | 1 469 304 | acknowledged is stored and one copy, although they overwrite each other's state |
| `Sync_hostile` | every fault of Sync, 2 bodies, 2 segments, 1 request in flight, 2 failures | 1 063 997 | the store never holds a close that does not match its events, its file only grows |
| `Audit_damage` | one writer, 3 segments of up to 2 events and 3 in all, 3 keys, 2 authorizations (of at most 2 keys), 1 receipt (under 1 key), 2 damages | 600 255 | honest evidence verifies, verdicts hide no damage, verifiers agree, receipts vouch for their closes, key gaps are disclosed, findings accuse nobody over a lost approval |
| `Authority` | 1 040 variants of a mandate with one event each, and one mandate with 3 operations, 3 events, 3 instants on 2 days, limit 1 | 147 257 | the limit holds across operations, ids move no operation from within to outside, lost evidence accuses nobody, obedience is recognised, valid mandates are evaluable, verdicts are stable |

Violations, where the code does not do what a document or comment says
(`findings` in PROJECT.json quotes the lines):

| run | what happens |
|---|---|
| `Spool_failed_fsync` | after a failed fsync the line stays in the log while `_last_event` does not know it; the next append repeats the sequence, is acknowledged, and is truncated by the next recovery |
| `Sync_persist` | `commit` records its outcome in memory before `_persist` raises; the retry is answered from memory, the syncer acknowledges, and a restart has lost the events |
| `Sync_renewal` | the first authorization of a writer key is tried alone, so a close covered by a renewed one is refused |
| `Audit_first_segment` | the report looks for missing segments from the first close it holds, so a lost first segment leaves it "complete" |
| `Authority_boundary` | of two executions that tie at the limit of a day, the one with the smaller `event_id` is "within"; AUTH-008 (SPEC.md:128) makes events ambiguous whose side of the boundary depends on the clocks |

Two more divergences were met that no run shows. `verify_bundle` keeps the last
authorization of a writer key alone (bundle.py:130), so after a renewal a close
from before it fails the whole bundle although the bundle has the authorization
that covers it (spec/bundle-format-v0.1.md:55-57 asks for a covering one);
`WholeEvidenceVerifies` and `VerifiersAgree` leave such bundles out (`AllCover`,
`PicksAgree`). And the `in` operator uses Python's equality, for which `True` is
1, where MANDATE-015 (SPEC.md:117) wants strict equality; `Same` in Mandate does
as the code does.

Failures behind the conditions of the promises, each a hazard in PROJECT.json:
Spool `cut` (a line that lost only its newline is kept and glued to the next
one), `short` (the result of `os.write` is ignored, the fragment is
acknowledged), `dirent` (the entry of a new log is not synced), `dirsync` (a
failed directory sync leaves a segment closed on disk and open in memory),
`kill` with `power` (a recovered line that no fsync covers is signed, then
lost); Sync `rename`, `unsynced`, `reuse`, `state`; Identity `power`, alone for
a constructor that loads during a mint, with `kill` or `dirsync` for any that
loads (it syncs nothing, so it may return an identity that a power loss takes
away, and the next one mints another);
Findings, where the approval was in the open segment of a writer or all later
closes are lost too: a bundle does not know what it lacks there and puts the
operation outside.

### Why these bounds

Spool: three bodies in three segments are enough for a close with a predecessor
and a successor, a rotation between two appends, and a torn line behind an
acknowledged one; two failures are enough for a recovery to be interrupted and
repeated. Sync: two segments give an open one behind a closed one; two events
give a batch that holds a stored event and a new one; two requests in flight
give an old request that arrives after a new one; two syncers already meet in
one segment with two events and a close, and one failure is what a pass that was
abandoned, a restart or a power loss needs to meet the other's request. Audit: three segments have a
first, an inner and a last one to lose, two events a segment whose end or
beginning is lost, three in all make one such segment and another or three
shorter ones, three keys a record missing inside the history, two authorizations one picked
first and another picked last; one receipt is enough to outlive its
close. Identity: four mintings and three failures let a second minting overwrite a
key, fail and be followed by a third; a third process is of another agent.
Authority: three executions are the fewest that have a tie at, and one beyond, a limit of
one; an approval, an execution and a competing execution fit as well. The
variants of the mandate matter to single events only, so they get one, while
the mandate that is studied with three has one condition of each kind. Failures,
requests, events and damages are bounded by guards with named constants.
Deadlock is checked except where the system rests: after the last event
(Authority), failure or minting (Identity) or damage (Audit), or with an unreadable state (Sync_hostile).

### Fairness

Only `Sync_one` uses `FairSpec`, whose syncer has its authorization (without
one, closes are refused for good: test_unauthorized_close_rejected); no liveness is claimed of the spool, whose
program may stop. `sync()` is called again and again (sync.py:68-69 invites
that), so its first steps are weakly fair; a stage that a crash or a failing transport
can interrupt again and again is strongly fair: among infinitely many passes
one gets through. An exchange with the server that is attempted for ever
is answered eventually (`Exchange`: the server's answer reaches the pass that
waits for it, unless the server refuses the request); a pass that waits times out; requests do not linger in the
network for ever. The writer's fsync, of a log or of a directory, returns. Nothing is assumed of the
program, which may record or close whenever it likes, nor of failures, which
are bounded in number.

## 4. Proofs

Every invariant and action property of the passing runs, and the refinement of
`EvidenceLog`, is also a theorem: for every value of the constants that the
`ASSUME`s of the modules allow (any numbers of writers, segments, events, keys,
syncers, requests, operations and failures), not for the instances of section 3
alone. TLC evaluates the `ASSUME`s in every run, and has checked the inductive
invariants below on instances of the runs before they were proved. Only
liveness (`EvidenceArrives`) stays with TLC.

### Spool

| theorem | states | where |
|---|---|---|
| `TypeCorrect` | `TypeOK`, under every fault | `SpoolProofs` |
| `AckedEventsAreDurable` | `AckedEventsAreKept` | `SpoolProofs` |
| `ClosedSegmentsAlwaysVerify` | `ClosedSegmentsVerify` | `SpoolCloseProofs` |
| `ClosedSegmentsStayClosed` | `ClosedStaysClosed` | `SpoolCloseProofs` |
| `RecoveryRefusesNoPowerLoss` | `RecoveryNeverRefuses` | `SpoolPowerProofs` |
| `EventsAreNeverDoubled` | `EventsAreUnique` | `SpoolPowerProofs` |
| `SpoolImplementsEvidenceLog` | `ImplementsEvidenceLog` | `SpoolRefinement` |

They hold for any `FaultSets`; each property says for which `faults` it
promises something (the table of section 2), and each excluded fault is a
counterexample.

* `AckedEventsSurvive` is not inductive: a step from a state whose unsynced
  tail is arbitrary could truncate an acknowledged event. `DurableInv` adds that
  every log is a run of whole lines with at most one torn line at its end
  (`Sound`), that every acknowledged event lies within the synced part
  (`AckedInv`), and that the writer's `_last_event` and open segment are what
  the log says, the log being clean while it is idle (`MemoryInv`).
* `CloseInv`: every record signs the log beside it and continues the record
  before it (`RecordsInv`); the writer never has a closed segment open but for
  the one it has just published, which is the last (`WriterInv`); where power is
  lost, nothing but the line and the record in hand differ between cache and
  disk (`DiskLagsInv`). A second close of a segment, or a record signed over a
  line that may still go, breaks one of them.
* `PowerInv` adds to both that at most one log has no record, and that it is
  the writer's: recovery never meets two open logs. `EventInv` ties the lines to
  what the program knows of its bodies (`fate`): a body that has a line is
  settled, or is the one being synced; so a retry never writes it twice.
* The refinement maps the records on the disk to the sealed segments, the
  longest chain of them being the sequence of the abstract log (`LongestInv`),
  and the synced part of the open log to its tail. A lemma per action shows the
  abstract step: `fsync` records and acknowledges, the directory sync of a close
  seals, a power loss or a recovery may record lines or stutters, all else
  stutters.

### Identity

`RestartsAreSafe`, `MintingIsOnceForAll`, `IdentityIsUnique` and
`IdentityTypeCorrect` follow from `IdentityInv`: `FilesInv` relates the files to
what is on the disk (a `writer.json` that is there has its key beside it,
already synced), `MintInv` says that a minting process is alone and has nothing
before it that counts, `UpInv`, `KeptInv` and `GivenInv` that identities
somebody has are the one in the files, synced where it must be, `SyncedInv` that
in orderly behaviours an unsynced `writer.json` still has its process.

### Sync

`SyncProofs`, for any number of syncers on one spool, of requests under way and
of repeated deliveries:

| theorem | states | for `Faults` without |
|---|---|---|
| `SyncTypeCorrect` | `TypeOK` | (any) |
| `StoredEvidenceStays` | `StoreOnlyGrows` | (any) |
| `StoredClosesAlwaysVerify` | `StoredClosesVerify` | (any) |
| `OneLogicalCopyAlways` | `OneLogicalCopy` | `unsynced` |
| `AcknowledgedIsStored` | `AckedIsStored` | `persist`, `rename`, `unsynced` |
| `BatchesAreAllOrNothing` | `AllOrNothing` | `reuse` |
| `RequestsAlwaysFit` | `RequestsFit` | all but `state` |

The condition is a hypothesis on the constant `Faults`. It is exact: with any
one of the excluded faults TLC finds the property violated on a small instance,
`Sync_persist` being one of these. The runs check the same properties with
fewer faults.

* `BehindInv`: the file on the server is behind the memory, chain by chain.
* `CopyInv`: every batch under way, and the store in memory and on disk, is a
  part of the spool: a prefix of each segment, and the closes of the spool.
* `AckInv`: as much of each chain as `sync-state.json`, a state somebody has
  loaded, or an answer under way acknowledges is on the server's disk, and so is
  each close; with `CopyInv` it is the spool's own chain and close. Every request under
  way starts no later than its sender's acknowledged sequence
  (`BatchFits`). The second part is what the property lacks: without it a
  request could be accepted whose answer acknowledges what lies before it.
* `WholeInv`: every stored event and close is carried by an answered batch, and
  no segment repeats an event_id.
* `RequestsFit` follows from the three together.

### Authority

`AuthorityProofs`, for any mandates, inputs, operations, clocks and numbers of
events: `AuthorityTypeCorrect`, `ClassificationsAreStable`
(`VerdictsAreStable`), `DailyLimitsAreKept` (`LimitIsKept`),
`EventIdsAccuseNobody` (`TieOrderNeverAccuses`), `LosingEvidenceAccusesNobody`
(`LostEvidenceNeverAccuses`), `KeepingToTheMandateIsWithin`
(`ObedientOperationsAreWithin`), `ValidMandatesCanBeEvaluated`
(`ValidMandatesAreEvaluable`). `EvidenceInv` says that the evidence is finite,
that ids are counted up, that the mandate validates, and that what an event
has of its parameters was extracted under it; the rest is about
`Determination`. Operations within authority have different executions as their
primaries, each with fewer than `limit` peers before it and none tied with it,
so their positions are different numbers below the limit; an event of a later
instant than a primary is not before it, so it changes neither its position nor
its ties; an exchange of ids within an instant
changes the position of an execution only if it is tied, and whichever of the
tied ones is over the limit is ambiguous, not outside.
The `ASSUME` has `Never \in Revocations` because the initial states of a
mandate that is studied have it.

### Verification, Audit, Findings

`AuditProofs`, for any writers, histories and damage:

| theorem | states |
|---|---|
| `AuditTypeCorrect` | `TypeOK` |
| `HonestEvidenceVerifies` | `WholeEvidenceVerifies` |
| `CompleteReportsHideNothing` | `CompleteReportsAreSound` |
| `VerifiedBundlesAreSound` | `BundlesAreSound` |
| `VerifiersAlwaysAgree` | `VerifiersAgree` |
| `StampedSegmentsAreGenuine` | `AnchoredSegmentsAreGenuine` |
| `KeyGapsAreAlwaysDisclosed` | `KeyGapsAreDisclosed` |
| `AccusationsAreAlwaysGrounded` | `AccusationsAreGrounded` |

`VerifiersAgree` compares bundle verdicts where every receipt verifies and the
first and last authorization of a writer key cover the same closes (`PicksAgree`),
on bundles with key records; without any `verify_bundle` raises, while the web
page still says VERIFIED of open segments, and what is proved is that it then
accepts no authorization and no close (`BundlesWithoutKeys`).

They rest on a small theory of sorting. `RanksDiffer` and `InOrderSorts` show
that `InOrder` lists each element once by ascending key, `DenseInOrder` that
the element with key `i - 1` is at place `i` when the keys are
`0, ..., n - 1`. `ChainVerifiesIs` and `PairwiseVerifiesIs` bring both chain
checks to one condition (`Consecutive`), which is why Python, Go and JavaScript
agree; `VerifiedClosesAreWhole` and `WholeChainsVerify` say what a chain that
matches its close has, and that an intact one passes. The inductive invariant
`AuditInv` has three parts: the history is in order (`History`: events, closes
and numbers of each writer without holes, each close counting its events, each
key record naming the one before it), the copy is of it (`CopyOf`: every event
and close has its original, none is doubled, receipts were issued, keys ascend),
and before the hand-over there is none.

### How the proofs deal with the prover

Induction over naturals is needed in a few places (positions in a list, least
counterexamples). The library's induction theorems take an operator as their
parameter, which no prover here instantiates, so the proofs take the least
element of a set of counterexamples (`Least`, from the well-foundedness of `<`
on the naturals). `SortSeq`, `SelectSeq` and permutations are recursive or
opaque to the provers; the models that could sort with them say what the sorted
list is instead (`InOrder`, `Position`, `Tied`, `Exchanges`).


## 5. Not modelled

* In Sync, a writer that is killed between the rename of a close record and the
  sync of its directory: the next one goes on to a new segment with the close
  still unsynced. Spool has this step (`Kill` before `CloseReturns`).
* Two processes that mint an identity on one directory at once, or append to
  one spool: SEGMENT-004 gives replicas spools of their own, and nothing locks.
* Schemas other than what a mandate may ask of its operands, canonical JSON,
  hashing and signatures: taken as correct and collision-free; a damaged record
  is one whose hash or signature fails.
* Manifests and assertions in bundles, and the signatures of mandates and
  revocations: a manifest says that files did not change since it was written, and
  Audit's damage is of the kind that happens before.
* Requests to a timestamping authority, nonces and certificate chains: nothing
  in the repository sends or stores them.
* In Findings, operations whose mandate the bundle lacks (they are skipped), and
  several revocations of a mandate (cli.py:135 keeps the last one listed).
* Building partial events, key ceremonies, the command line, samples, vectors,
  the HTML page around the web verifier: no state of their own.

## 6. Plan

What is left:

1. The hazards without a property (PROJECT.json gives the reason with each).
2. An abstract specification of synchronization (one logical copy that grows
   batch by batch) with Sync shown to implement it.
3. `Findings` with several revocations of a mandate.
