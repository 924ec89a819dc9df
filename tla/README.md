# RadishMemory in TLA+

RadishMemory keeps a personal library of texts and of memories derived from them. The texts
(*sources*) are versions in *lineages*; an encrypted library keeps the canonical facts in SQLite
and each body as a sealed object in a directory next to it. This directory holds TLA+ modules of
that system, TLC configurations that check small instances, and proofs for TLAPS.

    tlc -config MCSourceVault.cfg MCSourceVault        # model checking
    tlapm SourceVaultProofs.tla                         # proofs, and so for every *Proofs.tla

`PROJECT.json` maps every definition that models code to the lines it models, lists the hazards
the properties are aimed at, and names for every property a *mutant*: a definition changed the way
a plausible bug would change the code, under which the property fails.

## 1. Inventory

| Component (crate) | State | Operations | Modules |
|---|---|---|---|
| Object directory (`source-vault/filesystem*.rs`) | `staging/` and `objects/`, file contents, what of them is synced | publish, recover, retire, clean up, inspect, inventory | ObjectDirectory |
| Vault coordinators (`source-vault/{capture,abandonment,deletion,reconciliation}.rs`) | none of their own while idle | capture, abandon, delete, reconcile | SourceVault |
| Encrypted capture database (`sqlite/{encrypted_capture,capture_abandonment,object_deletion}.rs`) | attempts, references, deletion rows, schema version | decide, prepare, commit, begin and finish of an abandonment or a deletion, checks at open | SourceVault |
| Deletion execution and evidence (`sqlite/{deletion_store,deletion_actions}.rs`, `application/encrypted/write.rs`) | requests, plans, attempts, component results, evidence, `deletion_state` | prepare, register, execute, store evidence, find unfinished | DeletionExecution, LegacyDeletion |
| Legacy deletion adoption (`sqlite/legacy_deletion.rs`) | unfinished deletions of the plain library | inventory, validate the resumption, adopt, execute in the vault | LegacyDeletion |
| Sources and capture facts (`sqlite/source_*.rs`) | artifacts, fragments, lineage tips, origin bindings, audit | insert a version, advance the tip, decide a capture, list versions | LocalLibrary, SourceVault |
| Application library (`application/*.rs`) | none of its own | capture, history, search, export, deletion, recovery | LocalLibrary, VaultReading, DeletionExecution |
| Memory store, core invariants (`sqlite/memory_store.rs`, `core/invariants.rs`) | proposals, decisions, records, state events | propose, decide, materialize, supersede, append an event | MemoryLibrary |
| Derived recall index (`sqlite/derived_index.rs`) | tips, projection and recall rows | update, verify, rebuild | MemoryLibrary, VaultReading |
| Reader and maintenance (`source-vault/{reader,maintenance}.rs`, `sqlite/object_read.rs`) | a session with its lock, key and answers | open, search, export, snapshot, verify, rebuild | VaultReading |
| Key bootstrap and provider (`source-vault/{bootstrap,provider}.rs`, `sqlite/source_vault_key.rs`) | slots of the system key store, key profile | initialize, load | KeyBootstrap |
| Body migration (`source-vault/body_migration.rs`, `sqlite/source_vault_migration.rs`) | per body planned, prepared, referenced, retired | inventory, publish, reference, read back, retire, resume | BodyMigration, BodyHome |
| Schema migrations (`sqlite/migration.rs`, `lib.rs`, `vault_session.rs`) | tables, migration history, `user_version` | look, migrate, validate, open | SchemaMigration |
| Desktop host (`apps/radishmemory-desktop`: worker, controller, backend, ui) | worker and window state, retained original requests, dialogs | commands, snapshots, retry, resume, abandon, close | DesktopHost |
| File entry (`file-entry/src/lib.rs`) | the user's files, a temporary file | read one snapshot, publish one export | UserFiles, FileSnapshot, FileExport, FileEntry |
| Canonical model (`core/*.rs`) | none | validation of values and of facts against each other | the modules above, for facts |
| Envelope and cryptography, Windows file system, desktop shell, fixture runner | | encodings, bindings, one-off input and output, evaluation | not modelled, see section 8 |

How they interact. The window sends one command at a time to the worker thread, which owns the
library and answers with a snapshot. The worker calls the application library. A plain (schema 6)
library keeps its SQLite connection open and works in IMMEDIATE transactions, with reads outside
of any transaction. The encrypted library opens a session on the vault for each operation. A
session holds an exclusive SQLite lock from open to close, so two operations never overlap, but
nothing is held between two sessions: another process may work on the same library in between.
Inside a session the coordinator alternates SQLite transactions with file operations; there is no
transaction over both. SQLite runs with `synchronous=FULL`; files are durable only after a sync of
the file and of the directory that names it. The key is in the system key store, a third place
without a common transaction. A library goes from plain to encrypted in two maintenance calls: key
bootstrap (schema 7), then the migration of the bodies (schema 8 and later).

What is hard here, and hardly reached by a test:

* an error, a kill or a loss of power between any two steps of a coordinator or of the migration,
  followed by any order of retries, other captures, abandonments, deletions and reconciliations;
* the order of syncs and commits, which matters only when power is lost;
* a value read in one session, statement or system call and used in a later one: an abandonment
  target, the closure of a deletion, the latest evidence, the schema version, a lineage tip, the
  observation of a file, what a window shows;
* two processes that prepare, execute or recover deletions of the same lineage, initialize the key,
  migrate the schema, or export to the same target;
* the partial failure of a deletion of ten components, each with its own transaction, and its
  adoption by a library that knows only what was recorded;
* long histories of legal memory operations whose records must all still load;
* that a retirement, a migration, a repair or a blocked window can always be carried to its end.

What makes the components correct: a reference always resolves to a complete object; a body is
never without a durable home; one key seals all bodies; a terminal state means that no file is
left, on the disk either; the library opens again after every failure; competing captures never
fork a lineage; a retired source never comes back; evidence is true and forms one chain; a
deletion covers the whole lineage; every active memory loads, and derived rows equal what a
rebuild would make; a window acts only on what it shows and loses no original request; a snapshot
of a file is the file at one moment, and an export never overwrites.

## 2. Modules

| Module | Models |
|---|---|
| `ObjectDirectory` | the two directories: what the system sees (`stage`, `obj`, `whole`) and what would survive a loss of power (`stageDisk`, `objDisk`, `wholeDisk`); one operator per file operation |
| `SourceVault` | extends it with the SQLite side and the four coordinators |
| `BodyMigration` | extends `ObjectDirectory` with the migration of inline bodies; implements `BodyHome` |
| `BodyHome` | abstract: a body moves inline, both, object, and readiness comes last |
| `DeletionExecution` | requests, execution attempts and evidence, with several hosts |
| `LegacyDeletion` | deletions begun in the plain library and finished in the vault |
| `LocalLibrary` | the plain library with several processes, each statement of a read a step |
| `MemoryLibrary` | memory history, supersession, deletion closure and the derived index |
| `VaultReading` | sessions that read, export, verify and rebuild |
| `KeyBootstrap` | creation and loading of the key over the system key store |
| `SchemaMigration` | plain opens, key bootstrap and vault sessions that migrate one file |
| `DesktopHost` | window, worker, channels, retained requests, dialogs |
| `UserFiles`, `FileSnapshot`, `FileExport`, `FileEntry` | the user's files with other programs at work; reading one, exporting to one, both together |
| `SourceVaultProofs`, `DeletionExecutionProofs`, `LegacyDeletionProofs`, `MemoryLibraryProofs`, `DesktopHostProofs`, `LocalLibraryProofs` (with `BodyMigration`), `FileEntryProofs` (with `VaultReading`), `KeyBootstrapProofs` (with `SchemaMigration` as an instance) | inductive invariants and theorems |
| `MC...` | instances for TLC: the values of the constants and the symmetry, no definition of the model |

`SourceVault` and `BodyMigration` compose with `ObjectDirectory` by extending it, `FileSnapshot` and
`FileExport` with `UserFiles`, and `FileEntry` interleaves these two over the same files. The other modules meet in the durable states they share: a module
that uses another's protocol takes its durable steps as atomic actions and says so in its header
(`DesktopHost` the calls of the library, `VaultReading` captures and deletions, `LegacyDeletion`
the migration).

### ObjectDirectory and SourceVault

A file is identified with its attempt id: `stage` is the set of attempts with an entry in
`staging/`, `obj[s]` the attempt linked at the object path of source `s`, and `whole` the attempts
whose content is complete. An envelope authenticates exactly when it is complete and at the path of
its own attempt; cryptography is not modelled further. `DirPowerLoss` keeps any mixture of synced
and unsynced directory entries the file system may leave, and may truncate what was not synced.

`SourceVault` has the columns that matter as functions from sources or lineages (`row`, `tok`,
`ref`, `art`, `tip`, `del`, `plan`, `results`, `evid`, `schema`) and the running coordinator as
`pc`, `kind`, `cur`, `job`, `again`, `todo`. Every file operation and every transaction is an
action; what the code checks before it is the guard. Checks made at open (`verify_structure`,
`authenticate_all`, `verify_facts`) are `OpenLibrary`, the guard of every coordinator's first step
and of the steps at which the code makes the checks again. `Fail` is possible at every step and
leaves everything as it is; `PowerLoss` also applies `DirPowerLoss`, at any time.

A request to capture is identified with the source it creates and a deletion with its lineage.
`execute_source_lineage_deletion` reads the latest evidence, executes and stores evidence in three
sessions. `ResumeDelete` therefore does not look at the evidence: a host that read it before another
one completed the deletion executes once more, and its late evidence is refused (`StoreEvidence`
does not replace completed evidence, the call ends as `Fail`). What each host carries from one
session to the next, and the chain of receipts, are the subject of `DeletionExecution`. A new lineage has a
fresh identifier, so the check that a lineage is unused is stated for the lineage; the code looks at
its tips.

In this model a committed source never has a staging entry left, because a capture recovers its
attempt once more before it commits; reconciliation is modelled in full and finds nothing to
remove.

### DeletionExecution

`execute_source_lineage_deletion` opens three sessions: it reads the latest evidence, executes the
request, and stores the evidence. A host's `pc` says which of them comes next or is open, and
`lock` is the host whose session is open. Within the execution session each component is an action
(it succeeds, or its transaction is rolled back and the failure recorded), the last being the
minimal audit that writes `deletion_state`. `Refuse` is an error or a refused check, after which
the host keeps the request, as the desktop backend does; `Crash` loses what the host had in memory,
and `Recover` is the search for unfinished requests after a restart. The evidence chain is a
sequence of receipts `[ordinal, previous, completed]`; `store_evidence` compares the results and
`checked_at` of the caller with the latest attempt and the previous evidence with the latest one.
One lineage is modelled; the retirement of its files is one step (`RetireObjects`), being the
subject of `SourceVault`.

### BodyMigration and BodyHome

The migration makes a row per body (`planned`), then per body: seal and publish an object
(`prepared`), write the reference (`referenced`), read the object back, remove the inline body
(`retired`). Publication and recovery are the file operations of `ObjectDirectory`, one action
each. A call that finds a migration in progress repeats the checks of the beginning
(`VerifyStructure`, `InspectAll`) and goes on at the row that is left. `home` maps rows and inline
bodies to the state of `BodyHome`: everything about files, checkpoints and tokens is stuttering
there.

### LegacyDeletion

Components of a plain deletion are transactions of their own that remove fragments, proposals,
records and bodies; a result row is all that explains an absent row later. Actions: store a
request, run a component or fail it, end the process, migrate, call the request again in the vault
(`validate_resume`), execute there. Five components that touch none of the rows in question are one.
A request has one executor at a time, which may end and be followed by another; the migration of the
bodies is one step (`BodyMigration` has its steps); times, and the check of a result's times in
`legacy_component_proof`, are left out, and the frozen closures that `validate_resume` compares first
are those of the request by construction.

### LocalLibrary

Rows are never removed, so a source is its index. Captures and requests are transactions, one step
each, and so is the execution of a request, whose components are in `LegacyDeletion`. A read use case
(list, versions, search, and the reads of an update or a deletion) is a chain of steps with no
transaction around them, and another process may commit between any two: one SELECT (the bindings,
the tips, the count of the versions, the version rows, the MATCH query), the loading of one source,
`Catalog::load_with`, and `verify_catalog`. The SELECTs inside the last three are not told apart.
Paging is left out, and the export of the plain library, which loads one source, is no action.

`since` is not in the code: it remembers which versions were current when a call began, so that
`AnswersAreOfTheCall` can compare the whole answer with the time of the call.

### MemoryLibrary

Each transaction is an action; its guards are the checks of `memory_store.rs` and of
`core/invariants.rs`. What a loader checks is `RecordLoads(m)`; that no legal sequence of transactions
makes an active record fail it is `EveryRecordLoads`. Tips, projection and recall rows are
variables updated by each transaction as the code does it, and compared with the rebuild
(`DerivedExact`). A proposal is compared with the open proposals when it is looked for duplicates; a
closed one need not be found, since its content and digest are redacted by the execution.

### VaultReading

A session is a record: the operation, the step, the key it loaded, what it has read (`got`). The
trouble that can come from outside (a damaged object, an exchanged key, drifted rows) is drawn
from a budget. An object carries the key that sealed it: with an exchanged key an empty library can
be captured into, and then it is that key which opens it. A snapshot lists the lineages, the versions of one of
them if there is one, the pending capture and the unfinished deletions. Abandonments and evidence are not in
this module, so a deletion is unfinished until its last step, not until its evidence; the read-back
after a capture's commit decides only what is reported.

### KeyBootstrap

The calls of the key store are steps: read the slot (with the check of its label, two calls of the
provider), write the key, write the label. A slot is empty or holds a key, a corrupt value is not
told apart from a failing call. The SQLite
lock is held across initialization. Outside the program slots may be emptied or replaced, and the
database may be lost or restored.

### SchemaMigration

The three writes of each of the twelve migrations are steps inside the transaction of one writer.
The plain open migrates from the version that it read before its transaction; CREATE TABLE and
the primary key of the history then fail for the slower process. This module is proved about
(section 5) and has no run.

### DesktopHost

Two channels with at most one element each, the worker's memory (`eng`), the library reduced to
what its calls can return (`disk`), and the window (`ui`, `dialog`, `asking`). Each command of the
worker is an operator from memory and disk to the set of outcomes; failing calls may have taken
effect or not.

### UserFiles, FileSnapshot, FileExport, FileEntry

A file is identified by the order of its creation and observed by its length and its number of
changes. Between any two steps other programs may write, replace or remove. A step is a system call,
with these exceptions, which are one step each: the calls by which `verify_exact_file` opens, reads
and observes a file, the check of the destination and of the temporary path before the link, the
last read of a snapshot and the observation after it, and the check that a temporary file is the
export's own together with its removal. That the last one has no window is harmless to what is checked
only because other programs are assumed not to put files under the temporary names (`Temps` and
`Edited` are disjoint).
In `FileEntry` a read and several exports run at once; its instance selects the export's own target
for reading, so that an export is one of the things that happen to a file being read.

## 3. Runs

| Run | Question |
|---|---|
| `vault` | do SQLite and the directory stay consistent, does nothing retired come back, whatever fails and whatever is tried next, and does a decided abandonment or deletion end once failures stop? |
| `deletion_two_hosts` | is the closure complete and the chain of receipts true and linear when two hosts race, fail and crash? |
| `deletion_projection` | does `deletion_state` agree with the evidence? no (section 4) |
| `legacy_deletion` | are the histories that the plain library can leave adopted, is nothing deleted left or brought back, and does every interrupted request complete in the vault? |
| `body_migration` | is a body ever without a durable home, can every interrupted migration be resumed, does it end, does it implement `BodyHome`? |
| `key_bootstrap` | can two keys ever seal bodies of one library, or the program replace a key, and is the checkpoint reached despite kills? |
| `memory_library` | does every active record load after any history of competing proposals, supersession and deletion, and do the incrementally kept rows equal a rebuild? |
| `memory_unknown_start` | the first with an unknown valid time: no (section 4) |
| `local_library` | are lineages whole, receipts true, and answers what was so during the call, with two processes? |
| `vault_reading` | is what a session reads one library state, does nothing but an active source leave, and are drifted rows repaired? |
| `desktop_host` | is nothing unfinished overlooked, nothing acted on but what was shown, no original request lost, and every block lifted by the offered recovery? |
| `file_entry` | is the target whole or not ours, a leftover reported, and a returned snapshot the file at one moment? |

Bounds. Each instance is chosen so that the cases named here occur together.

* `vault`: three sources of one lineage, `s1` and two competing updates of it, so that an update, a
  lost race and a deletion of several versions occur; three attempt ids, so that a capture can be
  sealed again after a loss of power. A capture that needs a new attempt id when none is left does
  not start: that is the bound `AttemptsLeft`. No symmetry, which would not be sound for a temporal
  property. Failures and losses of power are not bounded.
* `deletion_*`: three of the ten components, one that erases (it reports `not_found` the second
  time), one that retains, and the audit: the order and the roles are what the properties tell
  apart. Two hosts, two requests, two objects, so that a closure can be outdated by one object. Up
  to three attempts per request (`MaxAttempts`; two are enough for `deletion_projection`). There is
  one value of `checked_at`, the worst case: the comparison of times then tells no attempts apart.
* `legacy_deletion`: one source and two records of which one supersedes the other, the case in which
  a closure reaches from one to the other; two requests that overlap or not, two attempts each, one
  failing component, one process end.
* `body_migration`: two bodies, so that one is at rest while the other moves, and three attempts:
  one has to be sealed again. Failures and losses of power are not bounded.
* `key_bootstrap`: three processes, two of them on one device; three keys, two failing calls, three
  changes from outside, the number that a lost database plus a lost and a restored slot needs.
* `memory_library`: at most two stored sources (`MaxSources`), two versions of one lineage or one
  version of each of two; three proposals and three records in at most two memory lineages: a chain
  of three, or a fork that must be refused; three decisions in all (`MaxDecisions`), of which some
  defer; one instant, on which every comparison of times is a tie.
* `local_library`: three sources in two lineages, two contents, two processes, one failing
  component: an update, a second file with the same content, and a deletion during each read.
* `vault_reading`: two processes and two sources, one trouble of each kind (crash, damaged object,
  exchanged key, drift, failing export).
* `desktop_host`: from a plain library (schema 6) through key preparation and migration; two
  captures, so that a second version or an unrelated source occurs, and two faults.
* `file_entry`: two exporters with two temporary names, bodies of two chunks (the limit of a read),
  one edit by another program and one fault.

A library at rest, or one that has reached a bound, has nothing that must happen next, so deadlock
is checked only in `vault_reading`, whose processes can always ask again.

Fairness. A call that runs takes its next step, as straight-line code on one thread: weak fairness
of the running operation in every live specification. What else is assumed:

* `SourceVault.LiveSpec`: the user, to whom the host shows an unfinished abandonment or deletion at
  each start and after each error, retries it: strong fairness of `RetryAbandon` and
  `ResumeDelete`, strong because other operations may come in between. I/O errors, kills and
  failing components stop at some time. The property excepts the one state that fails closed by
  design: a torn staging file.
* `BodyMigration.LiveSpec`: the migration is called again while it is not complete, and failures
  stop; excepted are a torn staging file and the bound on attempts.
* `KeyBootstrap.LiveSpec`: a process that can initialize does so; the number of kills is bounded.
* `LegacyDeletion.FairSpec`: the original request is called again in the vault (strong fairness of
  `BeginDeletion`, because requests exclude each other).
* `VaultReading.FairSpec`: the user keeps asking for a rebuild, which the library offers whenever
  its facts do not verify.
* `DesktopHost.RecoverySpec`: worker and window run (`LiveSpec`, which assumes nothing of the user),
  and the user does what the window offers: opens, retries, resumes, confirms an abandonment and, when a
  held request cannot succeed, closes and starts again.

## 4. Findings

### `deletion_state` is not a projection of the evidence

`docs/schema/m0-canonical-schema.md:70` says that `deletion_state` is a projection computed from
the request and its evidence. The run `deletion_projection` shows that it is not when two hosts
execute the same request. Host A reads that there is no evidence; host B executes the request,
stores completed evidence and forgets it; A, which does not look at the evidence again, executes
once more and a component fails. `deletion_state` goes from `deleted` to `failed`. A's evidence is
refused since its `previous` is outdated, the request is not listed as unfinished since its latest
evidence is completed, and a retry returns that evidence. Yet `deletion_in_progress` now refuses
every capture and every deletion in the library. What does hold with two hosts: the
receipt stays true (`CompletedMeansGone`) and the chain linear (`ReceiptsFormChain`), checked in
`deletion_two_hosts`, and `deletion_state` follows the last audited attempt (`StateFollowsAudit`,
proved as `StateIsAudited`).

The library is expected to be opened by several instances: the acceptance plan has such cases
(`docs/evaluation/phase1-source-vault-native-acceptance.md:91-101`), and an idle window holds no
lock (`docs/implementation/phase1-source-vault-host.md:169`).

### An unknown valid time makes superseded records unreadable

`docs/schema/m0-canonical-schema.md:326` asks that the effective time of a supersession agree with
the start of the new record when that is known, and `validate_memory_supersession` compares only
then. `validate_stored_supersession_cause` (`memory_store.rs:1188`), which the loaders use,
compares always. The run `memory_unknown_start` accepts a proposal without a known start that
supersedes a record: the transaction commits, and afterwards neither of the two records loads, nor
does the catalog, on which verify, search and rebuild depend. `memory_library` therefore gives
every proposal a known start (`Starts`).

## 5. Proofs

`SourceVaultProofs` proves for every set of sources, lineages and attempts what the run `vault`
checks on its instance, liveness excepted. The assumptions are those of `ConstantsAssumption` and
of `ObjectDirectory`: the sentinels are not members of the sets they extend, and lineage and
superseded version are functions of the source.

The properties are not inductive. A capture may commit because the file was synced five steps
earlier; nothing in `ReferencesResolve` says so. The inductive invariant `Inv` adds, in named parts:

* *Tokens*: no two rows share an attempt id, and every id in a row, a directory or on the disk was
  drawn;
* *Entries*: every directory entry, seen or on the disk, belongs to the row whose id it carries, and
  what is linked as an object is complete;
* *Files*: which files a row's state allows;
* *Rows*, *Versions*, *Evidence*: what the states of the tables imply for each other, for tips and
  for the outcome of an execution;
* *Control*: what `pc`, `kind`, `cur` and `job` say about the row being worked on;
* *Progress*: how far the files of the current source are written and synced at each `pc`.

There is one lemma per action (or per group of actions that disturb the same parts), then `InvInit`
and `InvNext`, and the theorems follow from `Invariance`: `TypeCorrect`, `ReferencesAlwaysResolve`,
`RetirementIsFinal`, `LibraryAlwaysOpens`, `TornFilesArePending`, `CapturesDoNotCompete`,
`CompletedEvidenceIsTrue`, and the action properties `RetiredNeverReturns` and `NoOrphanedAttempt`.
`CompletedEvidenceIsTrue` is about rows and files: no version is active, each checkpoint is final and
no file is left, even while a host with an older evidence executes again. It says nothing of
`deletion_state`, which can then go back to `failed` (section 4).

`DeletionExecutionProofs` proves for every set of hosts, requests and objects, every number of
components and of attempts, what the run `deletion_two_hosts` checks. The assumption is
`ExecutionAssumption`: there is a component and a value of `checked_at`, the components that erase
come before the audit, and the sentinels are no hosts or requests.

The properties speak of receipts and states; that they hold depends on what a host remembers from
one session to the next while others work. The inductive invariant adds:

* *Sessions*: the lock is held exactly by the host whose `pc` is inside a session, and a host that
  executes has a registered request and an attempt;
* *Ownership*: the one registered request covers exactly what is there, and nothing is active;
* *Attempts*: a request that was attempted is registered and retired, and what a recorded result
  says was removed is not there;
* *Running*: the attempt that runs has results for exactly the components before `next`, and
  `has_failed` says whether one of them failed;
* *Carried*: a host about to store evidence has results of a whole attempt, and the evidence it read
  before is in the chain and not completed. With the comparison in `store_evidence` this gives that
  nothing is ever appended after completed evidence;
* *AuditedState*: `StateFollowsAudit` without a CHOOSE: the last audited attempt exists.

The theorems are `ExecutionTypeCorrect`, `OneRequestWins`, `ClosureIsComplete`, `ReceiptsAreTrue`,
`ChainIsLinear`, `CompletionIsTrue`, `StateIsAudited` and, for the action property,
`HistoryNeverChanges`.

The second part of `LocalLibraryProofs` proves for every set of bodies and attempts what the run
`body_migration` checks, liveness excepted (`MigrationInvariance`), and that the migration implements `BodyHome`. The assumptions are those of
`ObjectDirectory` and that `NoBody` is no source. An inline body is removed because its object was
found; that it is found after a loss of power as well rests on syncs made many steps, or several
interrupted calls, before. The inductive invariant has the parts *Tokens* (an attempt id belongs to
one body), *Entries* (every entry is the attempt of a body, an object is linked only when its file is
on the disk), *Rows* (the rows agree, and a reference means a durable object), *Control* and
*Progress* (what the running call works on, and how far its files are). The theorems are
`MigrationTypeCorrect`, `BodiesAreNeverLost`, `TornFilesArePrepared`, `InterruptedCallsResume`,
`NoAttemptLeftBehind` and `MigrationImplementsBodyHome`; the last one shows for each action the step
of `BodyHome` that it maps to, or that it maps to a stutter.

The second part of `KeyBootstrapProofs` proves for any number of processes and any schema versions
(`SchemaAssumption`, a hypothesis of each theorem: what the three kinds of opening support, and in
which order) that the file is one version whole at every commit (`DatabaseIsOneVersion`) and never
an earlier one (`VersionOnlyRises`). What a process saw before its transaction may be outdated; the
invariant says that it is at most the version of the file (*Seen*), that at most the process inside
the transaction writes (*Locked*), and which of the three writes of a migration are made at each step
(*Progress*).

`MemoryLibraryProofs` proves every safety property of the run `memory_library` for any number of
sources, proposals, decisions and memories. The assumptions are those of `LibraryAssumption`: the
set of memory identifiers is finite, which bounds the two breadth-first searches, and an identifier
is no source. The invariant `Inv` has one part per table: versions without gaps (*SourcesOK*),
proposals whose targets are stored and whose citations are active while they are (*ProposalsOK*),
decision chains without a common result (*DecisionsOK*), records that agree with their proposal,
their acceptance, their events and what they supersede, in both directions (*RecordsOK*), activity
that closing removes from dependents first (*ActiveOK*), lineages with a first version and at most
one confirmed record (*LineagesOK*), and the derived rows, those that recall may hold at any time
(*RecallOK*) and, while none was lost, each row as a rebuild would write it (*RowsExact*).
`FollowsVersions` compares a new record with its targets only; that a lineage does not fork rests on
its first version being taken and on the confirmed record being unique. The theorems are
`HistoryAlwaysWellFormed`, `DerivedAlwaysExact`, `RecallAlwaysRestsOnActive`,
`ResolvedClosureAlwaysAccepted`, and `EveryRecordAlwaysLoads`, the last under the hypothesis
`NoTime \notin Starts`, without which it is false (section 4). `CloseDerived` takes the code's check
as a guard, so `DerivedAlwaysExact` alone would not say that a closing is ever accepted:
`ClosingIsNeverRolledBack` proves that the check succeeds after every accepted closure, and
`LibraryAlwaysVerifies` that verify fails only after derived rows were lost and a rebuild is then
accepted (both with known starts).

Two facts need an induction, over the steps of the searches `Ancestors` and `ResolveMemories`. It is
done on the set of the steps at which a claim fails: `NoFirstFailure`, from the library's theorem that
`<` is well founded on the naturals, says that the set is empty. That the search of a closure has
enough steps is a counting argument (`ResolvedIsClosed`): a step that adds nothing ends it, and it
cannot add a record more often than there are memories.

`KeyBootstrapProofs` proves `OneKeyAlways` and `ProgramNeverReplacesKey` for any processes, devices,
keys, failures and changes from outside (`HostAssumption`). The key store has no transaction, so the
invariant says what a running call has found (*Found*), that only one call runs (*Locked*), and that,
while nothing outside has interfered, what it read in its slot is still there (*Undisturbed*).

The second part of `FileEntryProofs`, about `VaultReading`, proves `SessionsReadOneState` and
`OnlyActiveIsExported` for any hosts and sources (`ReadingAssumption`: the sources are finitely many,
and a query is no source). Everything rests on the lock: *Locked* says that it is held by exactly the
host whose session runs, *Shape* what a session carries at each step, and *Current* that its answers
are those of the library as it is.

`FileEntryProofs` proves all four properties of the run `file_entry` for any names, exporters,
contents and number of edits and faults (`FilesAssumption`): `TargetAlwaysWhole`,
`AnswersMeanCleaned`, `NothingOfOthersTouched` and `SnapshotsAreMoments`. Here there is no lock. The
invariant says that the temporary name of a running export leads to its own file or nowhere and that
no other name leads to that file before the link (*Own*), that running exports keep apart (*Apart*),
and that while the observed file has not changed since, what was read is a prefix of it (*Reading*).

`LegacyDeletionProofs` proves `GenuineHistoriesAreAccepted` and `DeletedIsGone` for any sources,
proposals and records, any citations and supersessions, and any number of requests, attempts,
failures and crashes (`LegacyAssumption`: every record comes from a proposal of its own, and the
bounds are numbers). `validate_resume` judges the rows that an unfinished deletion left by the results it
stored, possibly before the library was migrated; that it refuses no genuine history is a statement
about all of them. The invariant `Inv` says what requests have to do with each other (*Closures*: the
rows of a request are closed and only those are, no row belongs to two requests, what depends on a
target belongs to its request or an older one), what is missing of a row (*Remains*: only what a
stored result of its request explains, nothing of an active row, nothing of the vault before the
migration), and where an executor stands in its attempt (*Underway*). `OldestIsAdopted` follows from
it: what a younger request depends on was completed by the older ones. The receipt of a body names the
first attempt that removed it; that there is a first one is the well-foundedness of `<`.

`LocalLibraryProofs` proves all four properties of the run `local_library` for any processes,
contents and number of sources, lineages and failing components (`HostsAssumption`,
`BytesAssumption`: there are contents, none of them the sentinel for a removed body). `LineageWhole`
counts versions, which no single step preserves. `Inv` says it row by row instead: a version belongs
to one row (*OneOfEach*), below it all smaller ones are there (*Dense*), each supersedes the one
before (*Chained*), a lineage is active or closed as a whole (*AllOrNone*) and an active one has a tip
(*HasTip*); the count follows by a bijection of versions and rows. Of a process that is between
two statements it needs only that the version it resolved is a row of its lineage and that a lineage
it has closed gains no version (*Knows*); everything else it read may be outdated, and the checks inside the
transactions are what makes that harmless. The theorems are `LibraryAlwaysSound`,
`ReceiptsAreAlwaysTrue`, `AnswersAlwaysOfTheCall` and `ClosedLineagesStayClosed`.

For the answers the transactions do not help, since a read has none. What it has found so far is
related to the moment of the call instead (*Remembers*, one part per use case: `ListKnown`,
`VersionsKnown`, `SearchKnown`), and every step of another process keeps that relation because rows
only become closed and lineages only gain versions (`RowsEvolve`, `RemembersStays`). A list that read
the tips before a version was captured shows the superseded version only if it was current when the call
began; a lineage that stays open is in the list because a summary that does not fit ends the call with
an error instead of being left out. The code verifies
its tables before it commits, which the model has as a guard: `CapturesPassTheirOwnChecks` and
`RequestsPassTheirOwnChecks` prove that this guard holds whenever the checks before it did, so the
properties do not hold merely because the model refuses to commit.

`DesktopHostProofs` proves `ShownIsAlwaysTrue`, `CommandsMeanWhatWasShown`, `OriginalsAreKept` and
`ClosingIsSettled` for any requests, any schema the host starts on and any number of failures, panics
and kills (`DesktopAssumption`: the sentinels are no requests). The window acts on a copy of the
worker's state. The invariant says when the copy is exact (*InStep*: whenever the worker runs and no
answer is on its way; only then can a command be sent), what the worker's memory says of the disk
(*EngineSound*: the capture it keeps is the only one that can be pending or be the target of an
abandonment, and no unfinished deletion is unknown to it), and that the snapshot does not change under an open confirmation (*Waiting*).

Proved, and for that reason not repeated in a run: the type invariants of `SourceVault`, `BodyMigration`,
`DeletionExecution` and `SchemaMigration`, `TornFileIsPending`, `OnePendingCapture`, `EvidenceIsTrue`,
`AttemptReplacedOnlyWhenGone`, `OneRequestOwnsLineage`, `ReceiptMatchesAttempt`, `StateFollowsAudit`,
`HistoryIsFinal`, `TornFileIsPrepared`, `NoFileOrphaned`, and the two of `SchemaMigration`.

Every invariant and every safety action property of a passing run is stated by a theorem, the
refinement of `BodyHome` included. Model-checked only: the liveness properties
`RetirementCompletes`, `MigrationCompletes`, `CheckpointReached`, `BlocksAreLifted`,
`EveryRequestCompletes` and `DriftIsRepaired`, since liveness under fairness is out of the prover's
reach, and the two counterexamples of section 4.

## 6. Corners the model makes visible

* A torn staging file (power lost before its sync) closes the library until it is dealt with by
  hand. This is documented behaviour (`phase1-source-vault-capture.md`,
  `phase1-source-vault-abandonment.md`, `phase1-source-vault-filesystem.md`); `LibraryOpens` says
  that nothing else does, and `TornFileIsPending` that it can only be the pending capture's.
* An execution that ended with every source deleted may be left without evidence. The request is
  then still unfinished and the retry executes it again (`ResumeDelete`, `Recover`).
* A host keeps a prepared deletion that the library will always refuse (its closure changed, or
  another host deleted the lineage) and refuses other changes until it is restarted.
* That block is lifted by what the window offers (`BlocksAreLifted`), closing and starting again
  included; nothing shorter lifts it.
* A torn staging file during the migration of the bodies stops the migration for good. The inline
  body is still there (`TornFileIsPrepared`, `NoBodyLost`).
* A plain open that saw schema 6 returns without another look. Its connection remains usable after
  another process has gone on to schema 7; closing such connections before a maintenance call is
  the host's duty (`phase1-source-vault-key-bootstrap.md`).
* `list_source_versions_with` of the plain library reads the tip and the version rows in two
  statements outside of a transaction. When another process commits a version in between, the list
  contains it and marks the version before it as current. Nothing stored is wrong and the next read
  is right.
* The observation of a file (identity, length, times) is as fine as the clock of the file system;
  two edits within a tick of it are outside the model of `UserFiles`.

## 7. Plan

What the runs check of safety is proved. Open are the three hazards that `PROJECT.json` lists with a
note instead of a property; and, should the code change, the runs come first: an action that changes
shows in its run, then in the lemma of that action, and the parts of the invariant it disturbs
are named there.

## 8. Not modelled

* Cryptography, envelope encoding and canonical JSON: pure functions with test vectors. An envelope
  authenticates exactly when it is complete and at the path of its attempt.
* Identity checks of files (links, replaced inodes, case folding, a replaced database file) and the
  Windows file system: they guard against changes of the directories themselves.
* Ranking and paging: left to SQLite; what may be in an answer is modelled.
* Paths, profile, picker, logging and layout of the window: sequential input and output.
* The adapters of the macOS and Windows key stores: `KeyBootstrap` has the rules that all three
  share, read from the Linux one.
* The fixture runner (`apps/radishmemory-m0`): a sequential driver that evaluates the loop in memory.
* Sync and gateway: described in the documents, not in the code.
