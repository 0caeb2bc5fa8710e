# A TLA+ model of AI-CONTEXT

AI-CONTEXT (`src/tools/`) keeps a person's AI memory under their own control:
sources are imported into staging, a reviewer approves what becomes canonical
memory, a router selects what a bundle may disclose, and the whole workspace
can be stored encrypted, archived, indexed and signed.  These modules model the
parts in which steps, not formulas, decide whether that is safe.

Tools: `tlc -workers 2 -config <run>.cfg <module>` for a run, `tlapm
<module>.tla` for the proofs.  `PROJECT.json` lists the runs, which lines of
code each definition stands for, and which change of the code each property
catches (the operators marked "Mutant").

## The system

    sources --import--> staging/observations --propose, review, apply--> memory
    memory --routing--> bundle        workspace --archive / indexes / encrypted store

Every part is a command-line tool over files.  There are no locks and no daemon: a
command reads files, computes, and replaces each file it changes by `os.replace`,
one after the other.  What can go wrong therefore happens between two
replacements (a crash), between a read and a write (another command), or over a
long sequence of legal commands.

| Component | State it keeps | Operations | Interacts with | Hard | Correct when |
|---|---|---|---|---|---|
| Curation (`curation*.py`, `validate_curation*.py`) | `curation/*.jsonl` (candidates, decisions, conflicts, applications, mutations, supersession, tombstones, suggestions), `curation/policy.json`, `memory/records.jsonl` | propose, llm-import, conflicts, review, apply, confidence, verify, supersede, tombstone, retention-policy, enforce-retention | writes the memory that routing, indexes and archives read | four-file transaction, crashes, re-review, re-apply, mutation in place under an audit chain | nothing enters memory unapproved; receipts resolve; the chain explains every row; retired memory stays retired |
| Encrypted storage (`storage*.py`) | `manifest.json`, `objects/`, `rotation.json`, `receipts/pending-deletions/`, `receipts/deletions.jsonl`, `receipts/key-events.jsonl` | init, put, get, list, delete, rotate-key, resume-rotation, attest-key-destruction, validate | key files outside the store | journals for deletion and rotation, crash and resume, two processes on one store | it is a map that only put and delete change; removals are on record; receipts are true; no object needs a destroyed key |
| Disclosure routing (`routing*.py`, `validate_routing.py`, `validate_bundle_readonly.py`) | `routing/policy.json`, bundles and diagnostics written next to it | bundle, explain, profile and policy commands | reads memory and applications, re-validates curation | transitive dependencies under the exclusion rules of three layers; validates what curation wrote | a bundle holds only what every layer permits and all that its records require, and there is none when that cannot be had |
| Import (`ai_context*.py`, `provider_import.py`, `evidence_import.py`, adapters, `validate_evidence.py`) | `receipts/imports.jsonl`, `receipts/snapshots/`, `staging/observations.jsonl`, `evidence/content/`, `content-index.json` | init, import, provider and evidence import, validate | feeds curation | a source that its owner edits meanwhile, several files per import, repetition of a half-done import | a row says what the hashed source says; every receipt has its rows; an interrupted import is completed by repeating it |
| Restore archives (`restore*.py`) | `.aicr` archives, a new workspace directory | export-archive, validate-archive, restore-archive, migrate-archive | reads the whole workspace, writes a new one | preflight against a workspace that changes; a restore that dies half-way | what is exported undisturbed restores; a restored workspace is whole and governed |
| Derived indexes (`indexes*.py`) | `indexes/`, `.gitignore` | build, validate, search | read memory, never write it | a snapshot while others write; replacement of a directory by two renames | a search answers from the memory as it is, or fails; an index is never lost |
| Interoperability (`interop.py`, `rust/`) | none | canonicalise, identity, sign, verify | bundles | pure functions | both implementations agree |
| User interface (`ux*.py`) | none | dispatch, guided review | all of the above | none of its own | it calls what the commands call |
| Release tooling, Lean formalization | none at run time | | | | |

The hazards of this code, each at its line and with the properties that would
catch it, are in `PROJECT.json` under `hazards`.

## Curation (`Curation`, `MCCuration`, `CurationProofs`, `CurationRecords`)

`disk` is the set of JSONL files as one record, a file per field; `retention` is
`curation/policy.json`.  Everything else is what a running command holds:
`staged` (the contents it is about to write), `todo` (the files it has still to
replace, in the code's order), `backup` and `atomic` (the apply transaction and
what it puts back), `sweep` (the rows `enforce-retention` has read and has still
to visit).  The row the sweep is at is the one it has read that is on disk no more
(`Underway`), because it has just been given a date; the loop goes on when it is done
with that row.

A command is one action that makes every check and stages its result, and then one
`Write` per `os.replace`.  `Crash` may strike between any two of them; `Rollback` is
an exception inside `_atomic_jsonl_transaction`, after which the files already
replaced are put back, the last one first, one by one.  `enforce-retention` is one
action per row it visits, with the rows it has read at the beginning, as the code
does, and it finishes with a row before it looks at the next.  The policy is written
in place: `SetRetention` may leave half of it (`Torn`), and every command that reads
the policy, `retention-policy` itself included, refuses from then on.  A `conflicts`
row is appended whenever the code looks conflicts up, also
by a review or an apply that is then refused (`RecordConflicts`).

What is abstracted:

- A hash stands for what is hashed: ids and `sha256` fields are equal when the
  hashed fields are.  A memory's id is the proposal, the expiry it was given and
  the first memory it supersedes, so an id is a sequence, the newest proposal
  first.  `previous_*_id` links are revision numbers.
- Actors, notes, tags, parent ids and generator versions are left out; so are
  explicit ids, dates and expiry in the JSON a local model returns.
- Time: `last_verified` is a counter, and which expiry dates have passed is left
  open (`Expire` and `Keep` are both possible).  Retention is one period for all
  record types, and `allow_policy_auto_expire` is on.
- Unknown ids in `--supersedes` are not enumerated; the sweep visits rows in any
  order; commands do not overlap in time: no lock is taken anywhere, so with overlap
  a lost update is certain and there is no promise to check.
- Files are replaced in the order the program replaces them: a power failure that
  reorders renames is not modelled.

Runs (all with `CHECK_DEADLOCK FALSE`: a command line at rest is a legal end, and the
bounds on candidates, decisions and mutations stop an instance):

| Run | Shows | Bounds and why they suffice |
|---|---|---|
| `CurationConflicts` | `AuditIntact`, `ConflictsResolved`, `RevocationRespected` | 2 candidates with 2 decisions each, approving or rejecting, over 2 contents, one with a key of its own and one to which a review may give the same key; local-model revisions: approve, apply, reject or approve again, apply again, with and without superseding the other |
| `CurationLifecycle` | `AuditIntact`, `ProvenanceKept`, `NoResurrection`, `SweepDatesEveryRow` | every mutating command, 2 candidates, 3 mutations per memory, one retention period or none: any three mutations of a row in any order, a re-application after each; a row is dated and expires in one pass or in two, a twin row is applied under another policy.  A sweep starts only with room for the mutations it may add, two for a row without a date (`SweepBound`) |
| `CurationCrash` | `Authority`, `ReceiptsNeverDangle`, `OneApplicationPerDecision`, `NoResurrection` | 2 crashes or failures: a crash, a repetition, a crash of the repetition; a rollback that is itself cut off |
| `CurationReapplied` | finding: `RouterAccepts` is violated | 1 candidate, 2 decisions |

`NoResurrection` excepts a rollback: a failed apply puts back the active rows that
it had itself superseded a moment before.

Two things the model shows that no property claims.  Nothing mends half a policy.  And
superseding a tombstoned memory
overwrites its lifecycle state (`curation.py:237`), where `docs/CURATION.md:211` says
that it stays tombstoned.  The row stays retired, which is what `NoResurrection` says.

### Proofs

`CurationProofs` proves, for every value of the constants (any contents, keys,
proposals and bounds, `ConstantsAssumption` alone assumed):

- `TypeCorrect`: `Spec => []TypeOK`.  The work is in the revisions: the last of a
  nonempty bounded set of decisions or mutations exists (`GreatestElement`, by
  well-founded induction on the gap to the bound), so the next revision is one
  more than a number within the bound.
- `MemoryIsAuthorised`: `Spec => []Authority`.  `Authority` is not inductive:
  rows reach the disk from the copies a command has staged, from the backup of a
  transaction and from a sweep's stale rows, and the decisions that authorise them
  are themselves files that get replaced.  `AuthorityInv` says all four sources are
  authorised by the decisions now on disk, that no staged copy drops a candidate or
  a decision, and that the apply transaction (whose backup may be put back) leaves
  reviews alone.  The proof is one lemma per command; apply's uses the approval it
  read in the same step.

`CurationRecords` builds on it.  Its theorems, under the same assumption alone:

| Theorem | States | Rests on |
|---|---|---|
| `MemoryStaysValid`, `DecisionsAppliedOnce`, `ReferencesResolve` | `[]ProvenanceKept`, `[]OneApplicationPerDecision`, `[]ReceiptsNeverDangle` | `RecordsInv` |
| `NothingResurrected`, `LastWordCounts`, `SweepLeavesNoneUndated` | the action properties `NoResurrection`, `RevocationRespected`, `SweepDatesEveryRow` | `RecordsInv` |
| `AuditStaysIntact` | `[](faults = 0 => AuditIntact)` | `AuditInv` |
| `NoContradictionUnseen` | `[]ConflictsResolved` | `ConflictsInv` |

- `RecordsInv`.  That references resolve at this moment says nothing about the next
  replacement: what is needed is that the files are sound after every prefix of the
  replacements a command has still to make.  `View(disk, staged, todo, n)` is the
  disk after the next n of them, and `StaysSound` says all these views are sound.
  A rollback goes the other way: `ApplyUnderway` says that the disk is the backup
  with the first files of `ApplyOrder` replaced, and that every such mixture is
  sound.  So the proof shows that the order of the files in each command is right,
  forwards and backwards.  `NoneRevived`, `Approvals` and `SweepFits` are the parts
  the action properties need: staged rows revive nothing, a staged new row has the
  last word of its reviewer, a sweep has still to visit every undated active row.
- `AuditInv`.  A crash in the middle of a command leaves a memory without the
  mutation that explains it (`Spec` allows it and `validate_curation` reports it), so
  the theorem is about workspaces in which nothing has failed, and about those at
  rest; `CurationConflicts` and `CurationLifecycle` check it with `MaxFaults = 0`.
  The invariant says that what is staged is audited (decisions and mutations numbered
  without gaps, mutations chained, the first from a row an application wrote, the last
  to the row that is there), and that a file with no replacement to come is as staged.
- `ConflictsInv` needs no such restriction.  A memory is written before the
  application that gives it its key, and a rollback puts back rows that were
  superseded a moment before; so the invariant says of the memory that is there,
  staged or backed up that two active rows of contrary content are settled by an
  application whose decision resolved the conflict, reading the keys from the
  applications of the disk and of the staged files.

## Encrypted storage (`Storage`, `ObjectStore`, `MCStorage`, `StorageProofs`, `StorageAlone`)

The files of the store are the variables `manifest`, `objects`, `rotation`,
`pending`, `deletions`, `attested`.  `op[p]` is what process `p` holds: the step
it is at and the values it has read.  There is one action per file a
command replaces or removes and one for the reads and checks before it, so that
another process, or a crash, can come between a check and the write that relies on
it.  `append_jsonl_unique` is two steps (`ReadLog`, `AppendReceipt`): the file is
replaced by what was read before.

| Command | Steps |
|---|---|
| put | `OpenPut` (live-state check), `SealPut` (pending check, encryption), `WritePut` |
| delete | `OpenDelete`, `JournalDelete`, `CheckDelete`, `Unlink`, `ReadLog`, `AppendReceipt`, `ClearPending` |
| rotate-key | `BeginRotation`, `WriteJournal`, `LoadRotation`, (`ReadObject`, `RewriteObject`)*, `CommitManifest`, `RemoveJournal` |
| resume-rotation | `ResumeRotation`, `LoadRotation`, then as above, or `CheckCommitted`, `RemoveJournal` |
| attest-key-destruction | `AttestKeyDestruction` |

`Fail` is a `StorageError`: the command ends and what it wrote stays.  `Crash` ends
a command at any step.  With `Overlap` processes interleave freely; without it a
command starts when the others have ended, which is how one user works, and is the
setting in which the stronger properties are claimed.

What is abstracted: an encryption is a record of key and data with an id of its
own (the code hashes a fresh nonce); a receipt's reason and time, which make the
id of a receipt, are left out; the check of the live state at the beginning of
a command is one step (the code reads the manifest, then the journal, then
compares the key); objects of a rotation are visited in any order; key files are
always available.  `get`, `list` and `validate` change nothing and appear as
properties.  Not modelled: the plaintext `FilesystemBackend`, `keygen`, and a
crash inside `init`.

`ObjectStore` states what the store promises: a map that put and delete alone
change; from the beginning of a deletion its path takes no new data until the
data is gone and the deletion recorded; nothing changes while a rotation is in
progress.  `Storage!KeepsPromise` is that specification under the mapping
"contents are the data of the objects, doomed are the paths with a pending
journal, sealed is the presence of `rotation.json`".  That a rotation re-encrypts
every object, in many steps and over several crashes, without changing the map is
the point of the refinement.

| Run | Shows | Bounds and why they suffice |
|---|---|---|
| `StorageCrash` | `StoreValidates`, `RemovalRecorded`, `DestroyedKeysUnused`, `KeepsPromise` | one process, 2 paths, 3 keys (two rotations), 2 values, 5 encryptions, 2 crashes: a crash of a command and of its repetition |
| `StorageOverlap` | `ReceiptMeansGone` | 2 processes that overlap freely, 2 paths, 2 keys, 1 crash |
| `StorageResume` | `RotationCompletes`, `DeletionCompletes` | 2 crashes, among rotations and deletions in any order |
| `StorageStuckDeletion` | finding: `PendingResumable` is violated | 1 crash |

A command starts only when the bound on encryptions leaves room for all it may
encrypt (`RoomFor`), so that no run stops inside a command because of the bound;
`CHECK_DEADLOCK FALSE` since a store at rest is a legal end.  Paths, keys, data and
processes are interchangeable in the safety runs (symmetry); the liveness runs use
none.

Documentation and code disagree on the order of a deletion.  `docs/STORAGE.md:195` says
that `delete` "emits an `AI-CONTEXT/STORAGE-DELETION` receipt before removing the primary
ciphertext object"; the code removes the object (`storage.py:380`) and then appends the
receipt (`storage.py:384`).  What it writes before the removal is the pending journal,
which embeds the receipt (`storage.py:369-376`).  The documented order would not do: after
a crash between receipt and removal, `validate_deletion_receipts` (`storage.py:592`) would
refuse the store, which is how `ReceiptMeansGone` fails when the two are exchanged.  What
the sentence is for, that nothing is removed without a record, is `RemovalRecorded`: the
receipt is in `deletions.jsonl` or in the pending journal.

Fairness (`FairSpec`): weak fairness of the steps of each process (a command that
runs is not suspended for ever), and strong fairness of repeating a delete that is
pending and of resuming a rotation, because the messages of the program tell the
user to do exactly that.  Crashes are bounded, so they end.

### Proofs

`StorageProofs` proves, for every set of processes, paths, keys and values, with and
without overlap:

- `StorageTypeCorrect`: `Spec => []TypeOK`, by the step a process is at
  (`OperationCases`).
- `ReceiptsMeanGone`: `Spec => []ReceiptMeansGone`.  The property is not inductive: a
  process may hold an encrypted object that is not yet written, and a receipt, or
  a whole copy of the receipts file, that it is about to write.  `GoneInv` adds: an
  object id held for writing is new, it occurs in no file and in no receipt any
  process carries, and two processes hold different ones (`HeldAreNew`,
  `HeldDiffer`, `SeenAreMade`); what a process is about to record is true already
  (`ClaimsHold`); a receipt is for the path it is handled at (`PathsAgree`).
  `StepKeepsGone` reduces every action to what it writes, what it takes up and
  what it claims.

`StorageAlone` assumes `~ Overlap`, one command at a time, which is the setting in
which the code makes these promises and in which `StorageCrash` checks them; crashes
stay unrestricted.  For every set of processes, paths, keys and data:

- `RemovalAlwaysRecorded`, `StoreAlwaysValidates`, `DestroyedKeysNeverUsed`:
  `[]RemovalRecorded`, `[]StoreValidates`, `[]DestroyedKeysUnused`.
- `StoreKeepsPromise`: `Spec => KeepsPromise`.  Every step is a step of
  `ObjectStore` or a stutter: `WritePut` puts, `JournalDelete` dooms, `Unlink` erases
  the data and `ClearPending` finishes the deletion, writing and removing the journal of a rotation
  seal and unseal, and everything else, every `RewriteObject` among it, stutters.

`AloneInv` has three parts.  `OneRuns`: at most one process is not idle.
`DiskFits`: the active key is not retired and what was attested is, a pending receipt
that names the object at its path names its key, and (`KeysFit`) during a rotation every object
is listed in its journal and under the old or the new key, otherwise under the active
one.  `HeldFits`: what the running command has read is still so, in particular
that a rotation's journal names every object and that what is not on its list any
more is under the new key.  None of this survives a second process, which is why
only `ReceiptMeansGone` is claimed with overlap.

## Disclosure routing (`Routing`, `MCRouting`, `RoutingProofs`)

One behaviour is one call of `plan_bundle`.  `input` is all it is called with and
reads (records, profile, target, global policy, applications, tags and task); it
is chosen in `Init` and never changes.  The steps are those of the code, because
its searches are what can go wrong:

| Phase | Actions | Code |
|---|---|---|
| `select` | `Select` (every record that no rule excludes and the selectors match) | `plan_bundle`, `exclusion_reason`, `_direct_selector` |
| `resolve` | `ResolveGraph` | `dependency_graph`, `_resolve_endpoint`, `_semantic_key_map` |
| `validate` | `EnterRoot`, `FollowAcyclic`, `FollowSimple`, `Leave` | `_validate_dependency_paths`: `longest` and `walk`, their recursion as `stack` |
| `expand` | `StartExpansion`, `Follow`, `Dequeue`, `Finish` | `_expand_dependencies` |

Any of them may `Fail`, which is a `RoutingError`: no bundle is written.

What is abstracted:

- The code sorts roots and edges by memory id.  An id is a hash, so any order is
  possible and the model takes roots and edges in any order.
- Words, tags, paths and keys are members of small sets; which words a text has, and
  which paths a content, is given with the record.  `tag_matches` and
  `task_matches` of the diagnostics are left out.
- Malformed input is left out: `Input` holds what `validate_memory_record`,
  `normalize_profile` and `normalize_routing_policy` let through.  The receipts of
  curation that the router checks first are `RouterAccepts` in `Curation`.
- Confidence is in tenths.  `StepBudget` stands for the 10000 or more steps of the
  walk over simple paths.
- What `plan_bundle` reads it reads in one step.  `validate_bundle` plans again and
  compares, and is not modelled.

The properties compare the searches with definitions that have none: `Steps` and
`SimplePaths` are the ends of walks and the simple paths of each length,
`Plannable` says that no rule, path or endpoint stands against any required
memory, and `Permitted` states what each layer allows on its own, without the
merging and the exemptions of the code.

- `OnlyPermitted`: whatever way a record comes in, every layer permits it.
- `BundleIffPlannable`: the call fails exactly when there is a cause, in every order
  of the searches.
- `ClosureIsExact`: the bundle is the closure under required dependencies.
- `DiagnosticsExact`: `dependency_of` and `dependency_depth` are those of the
  shortest paths.

| Run | Shows | Bounds and why they suffice |
|---|---|---|
| `Routing` | `TypeOK`, `OnlyPermitted`, `BundleIffPlannable`, `ClosureIsExact`, `DiagnosticsExact` | about 21000 calls: up to 3 dependencies between 3 facts and the relationship records, in every shape (chain, fork, diamond's join, cycle, double edge, dependency of a relationship record), depth limits 0 to 2, cycles forbidden or tolerated with a budget of 3 steps, a blocked record, a second root; each single rule of each layer against a selected memory, a dependency and a relationship record; endpoints by id and by key, missing or ambiguous; tasks with aliases |

Deadlock is checked: a call ends only in `done` or `failed` (`Terminated`).  `TypeOK`
is run here because it also bounds the walk: no search takes more steps than its
budget, however it is interrupted.

Known limit: a relationship record that is added to a bundle because both its ends
are there is not expanded in its turn (`routing.py:454`), so its own dependencies may
be missing; `docs/ROUTING.md:236` warns that omitting a required dependency silently
could hand the model incomplete context.  `ClosureIsExact` states what the code does: the closure of what is selected.

### Proofs

`RoutingProofs` proves, for every set of memories and every input that the
validators let through:

- `RoutingTypeCorrect`: `Spec => []TypeOK`; the input does not change.
- `DisclosureIsPermitted`: `Spec => []OnlyPermitted`.  A memory enters `selected` in
  `Select` or `Follow`, behind a call of `exclusion_reason`;
  `NotExcludedMeansPermitted` shows that what it does not exclude every layer
  permits: the least of two ceilings bounds both, and merged exclusions contain
  each.  For a relationship record the two readings of `metadata_only` must agree
  with the condition under which the record is disclosed.
- `BundlesAreClosures`, `DiagnosticsAreExact`, `BundlesIffPlannable`:
  `[]ClosureIsExact`, `[]DiagnosticsExact`, `[]BundleIffPlannable`.

The last three are about definitions by recursion over the length of a walk (`Steps`,
`SimplePaths`), which are recursive functions on a bounded interval; that they satisfy
their equations follows from `IterationExists`, an instance of induction over the
naturals.  `NothingFreshAfterAll` shows, by counting, that a shortest walk
has fewer dependencies than there are memories, so that `Distances` knows every
required memory.

- `RouteInv` is what each phase leaves to the next; its core is `ExpansionInv` of
  the breadth-first search.  What has been reached has its distance as its depth
  (`DepthsFit`), the queue is in the order of distances and at most one step apart
  (`QueueFits`), nothing is selected or explained without a dependency that needs it
  (`NothingElse`), and a dependency of a reached memory is still `Open` or is
  `Settled`: its target is reached, nothing blocks it, both ends are explained no
  deeper than they should be.  With an empty queue nothing is open, and by induction
  on the distance everything required is reached.
- `SearchInv` adds the depth-first searches.  With `fail_on_cycle`, `AcyclicInv`: what
  `memo` says of a memory is the length of its longest walk, a frame's `longest` is that
  of the dependencies it has done with, and the frames are joined by dependencies; an
  edge back into the stack is then a walk without end (`CycleIsEndless`), so that
  refusing it is right whatever the limit.  Where cycles are tolerated, `SimpleInv`:
  the stack is one simple path, and every simple path is either `Ahead` of it (it
  leaves the stack's path by a dependency that is left) or has been walked;
  `steps` is the number of those that have been walked (`WalkFits`).  Each step moves
  at most one path from the one side to the other (`PushAhead`, `RevisitAhead`,
  `LeftAhead`), so the budget is exceeded exactly when there are more paths than it
  allows.

## Import (`Import`, `MCImport`, `ImportProofs`)

The three importers are one machine with different adapters.  `source` and `head`
are what belongs to somebody else: the files of the source and the last commit of its
repository.  `Edit` and `Commit` may happen between any two steps of an import.
`disk` (snapshots, contents, observations, receipts) and `index`
(`content-index.json`) are the workspace's files, `op` is the import that runs.

| Step | Code |
|---|---|
| `Begin` | the source is hashed, the receipt id follows from it |
| `ReadHead`, `ReadStatus` | `git_snapshot_metadata`: HEAD, then the status |
| `List`, (`ReadFile` or `SkipFile`)* | the walk over the tree or the members of the archive; each file is read on its own; what an adapter leaves out makes the parse partial.  A listed file that is gone is left out in silence by the adapters that look before they read (`SkipFile`); the others, and a file that goes after the look, end in an error (`Reject`) |
| `CheckSource` | the second hash; `Unchanged` or the import is refused |
| `AppendRows`* | `append_jsonl_unique`, one file after the other in `Order`: observations before the receipt, for evidence the snapshot and the contents first |
| `RebuildIndex` | `content-index.json`, written in place |
| `Reject`, `Crash` | an error; the death of the process, which may leave half an index |

`parses` and `unfinished` are history: what each receipt id was given to, and which
imports were begun and not repeated to their end.

What is abstracted: a hash is the hashed value; a line is a member of a small set
and in a chat or mail file a message; how JSON, HTML, MIME or a document spells its
text is left out; `gemini` stands for `gemini`, `grok` and `plugin`, which read one
file.  Symbolic links out of the source, zip limits and malformed messages are left
out.  Three choices of the adapters are simplified, on which no property depends:

- `ParsedKinds`: the Drive adapter also skips the members of an archive that are no
  documents, without a warning (`evidence_import.py:173`), and the core adapter takes a
  lone mailbox for text; neither is among the sources.
- `WarnsOf`: the ways in which a repository parse becomes partial
  (`evidence_adapters.py:542-546`, `:557-561`, `:577`) are one.
- `OneFile`: the preference among several files of one provider
  (`provider_import.py:96-123`) is left out: the sources hold one such file or none.

| Property | Says |
|---|---|
| `ReceiptsBacked` | a receipt never precedes the rows it accounts for, whatever crashes |
| `EvidenceResolves` | an evidence row's content and snapshot are there at every moment |
| `RowsOfTheSource` | what was read one file at a time is what the hash says, if the source was edited at most once (an edit that is undone between the two hashes is not seen: the code cannot tell) |
| `ExactIsComplete` | a parse that is called exact left out nothing its adapter looks at |
| `CleanUnlessCommitted` | `git_clean_head` evidence is the commit it names, unless a commit was made between the questions to git |
| `ImportsValidate` | when every import that was begun has been repeated to its end, `ai_context.py validate` and `validate_evidence.py` accept the workspace |
| `RepetitionAccepted` | an import is never refused for what an earlier one left, although the clock has moved |

Run `Import`: 4 sources (a checkout in two states, one with an ignored and an oversized
file, one with a binary one; a conversation export with a repeated message; an archive
with mail, a conversation and a Drive root), 5 adapters, 2 receipts, 2 edits, 1 crash, 2
clock readings.  Two receipts are a repetition or two different imports; a second
edit is what undoes the first; `CHECK_DEADLOCK FALSE` since a workspace at rest and
the bounds are legal ends.

Known limits, each a state of the model that its properties leave out: one receipt id
is given to different parses when a source is renamed or imported with another
`--chunk-lines` or file limit (`OneParseEach` is the precondition of `ImportsValidate`;
validate then reports that the observation count differs); the core importer counts a
message that is listed twice, which is stored once.  Imports that overlap each other
are not modelled.

### Proofs

`ImportProofs` proves all seven properties and the type invariant, for every set of
sources, adapters and limits and any number of edits and crashes, from
`ConstantsAssumption` alone.  `ImportReceiptsBacked`, `ImportEvidenceResolves` and
`ImportRepetitionAccepted` rest on `IInv`: a receipt enters the disk only
at the end of `Order`; `IInv` therefore says of a running import that the files it has
already passed in `Order` hold the rows it staged, that the staged rows are those of
its receipt, and that one receipt id has one receipt on disk, which a repetition
takes up as it is (`Existing`).

- `ImportRowsOfTheSource`, `ImportExactIsComplete`, `ImportCleanUnlessCommitted` rest
  on `ReadInv`.  A source that changed once was read partly before and partly after;
  the invariant keeps both apart.  What has been listed or read is a file of the
  hashed source or of the present one (`MayRead`, `Traced`); what git said of HEAD
  and of the status is so while nobody commits (`GitSaid`); and every file that was
  there to look at is still to be read, or was read, or was read as what replaced it,
  or is gone (`Covered`).  When the second hash agrees, the two sources are one.  `Covered`
  needs that a path names one file, which the assumption states for directories
  (an archive may hold two members of one name, and the adapters read both).
- `CompletedImportsValidate` rests on `WholeInv`: every observation is of a parse that
  was made and has its receipt or an import that is unfinished, a receipt of evidence
  counts the contents of a parse and has its snapshot, and the content index is that
  of the observations unless an evidence import is unfinished.

## Derived indexes (`Indexes`, `Retrieval`, `MCIndexes`, `IndexesProofs`)

`memory` is what the indexes are derived from, `index` the directory in place (an
inode and the memory it was built from), `left` the kinds of directory dead or failed
builds left, `gitignore` the rules of the workspace.  Any number of processes build
and search.

| Command | Steps |
|---|---|
| build | `BeginBuild`, `IgnorePrivate`, `ReadMemory`, `RereadForBuild`, `WriteFiles`, `CheckMemory`, `LookForIndex`, `MoveAside`, `Publish`, or `FailToPublish` and `PutBack`, `Clean` |
| search | `BeginSearch`, `OpenIndex`, `ReadFile` four times by path, `SameIndex`, `ReadMemory`, `RereadForSearch`, `AnswerSearch` |

`Change` is any other command that replaces the memory, `Refuse` an error, `Crash`
the death of a process.  The projections (vectors, graph, inverted index) are
operators of the memory; a hash is the hashed value, a word a token.  The pattern
of tokens, the floats of a vector beyond its counts, and queries of vector and graph,
which are only validated, are left out.

`Retrieval` is the promise of a search and has no index: an answer computed from the
memory as it is at one moment of the search, or an error.  `AnswersFromMemory` is
that specification (`Retrieves == INSTANCE Retrieval`).  That four files are read by
their paths while builds exchange the directory, that inode numbers are reused, and
that a slow build may publish an older index over a newer one, is why it is not
obvious: the comparison of fingerprints at the end has to catch all of it.

| Property | Says |
|---|---|
| `AnswersFromMemory` | `Indexes` implements `Retrieval` |
| `IndexKept` | unless a process dies, an index that was ever published is in place or in the hands of a build that will publish or put it back |
| `PrivateIgnored` | git never sees a directory of private projections, also not one a dead build left |
| `GraphClosed` | edges join nodes, memory nodes are the active memories, a relationship is an edge or has a reason not to be |

Run `Indexes`: 2 processes (two builds, two searches, one of each), 2 memories (a fact
superseded by another, a relationship whose end is named by key, an unresolved one), 2
queries, 3 inodes (so that one is reused), 2 changes of the memory (there and back), 1
crash or failed rename.

Known limits: a build that was slow publishes over a newer index
(`indexes.py:434-438`); the next search refuses it.  A build that fails while another
put its own index in place leaves its `.indexes-old-*` directory behind, ignored by
git.

### Proofs

`IndexesProofs` proves all of it for every memory, query and number of processes:
`IndexesTypeCorrect`, `IndexesKept`, `IndexesPrivateIgnored`, `IndexesGraphClosed`,
`IndexesAnswersFromMemory`.  `IInv` ties each search to what it asked (`Asking`), says
that the memory a search compares with was current after it was asked (`Refreshed`),
that the rules are written before a build makes a directory (`RulesWritten`), and
`IndexKept`.  The refinement is one lemma per action (`StepRefines`): a step of the
index is a stutter, `AnswerSearch` is `Tell`.  `FreshSearch` shows that a search whose
files and fingerprints agree computes the answer of the memory itself;
`GraphIsClosed` is a lemma about the graph projection alone.

## Archives (`Archives`, `MCArchives`, `ArchivesProofs`)

A workspace is a function from the names of its files to their rows, so that a
file that is not there can be told from an empty one.  `workspace` holds one for each
path, `archive` one for each output, `origin` says which archive a workspace was
restored from.

| Command | Steps |
|---|---|
| export | `BeginExport`, `CheckWorkspace`, `CountMembers`, `RecheckWorkspace`, (`ListGroup`, (`ReadFile` or `SkipFile`)*, `Classify`)*, `LookForOutput`, `SaveArchive` |
| restore | `BeginRestore`, `OpenArchive`, `WriteFiles`, `ValidateRestored`, `Publish` |
| any other command | `BeginCommand`, (`StageFile`, `ReplaceFile`)*, `CrashCommand` |

`Refuse` is an error and `Crash` the death of an export or a restore.  The other
command is an import, an application or a mutation, with its files in its
order; dead, it leaves a temporary file, which a full export meets.  A file that is
written in place (the content index, the policy) is half written (`Torn`) between the two
steps, for an export that runs meanwhile as after a crash.  A minimum export leaves
out a temporary file that is gone when it looks for it (`SkipFile`); gone after that, and
in a full export, it is an error.  What the readers
of an archive check (hashes, class, version, layout) and what the validators of a
workspace relate are operators.

What is abstracted: what is imported is one row, named alike in every file that
tells of it; a memory is its candidate and a version; policies and profiles are one
file that no command changes; the limits on bytes and compression of members, the
wording of the manifest, and `migrate-archive`, which only reports, are left out.

| Property | Says |
|---|---|
| `QuietExportRestores` | what an export collects while no command runs is an archive that restores: both classes are closed under what the validators look up |
| `QuietExportAccepted` | such an export is not refused, unless a dead command left a file under `memory/` |
| `ReexportSame` | an archive restored and exported again in its class holds the same files, but for the enrichment, which a minimum export leaves out |
| `RestoredGoverned` | a restored workspace is whole and valid, wherever the archive came from: torn by a command, made elsewhere, altered |
| `DestinationsKept` | no restore touches a workspace that is there |

Run `Archives`: 2 paths, 1 output, 2 processes, 1 other command, 2 transfers, 1 crash, and
8 archives made elsewhere (altered, of a later version, of the wrong class, consistent
but ungoverned).  Two transfers are an export and a restore in sequence or in overlap,
two exports, or two restores to one path.  `MaxMembers` is 16: the largest workspace
without temporary files just fits, and one with a temporary file or more does not.  The paths and the
processes are interchangeable (symmetry); `CHECK_DEADLOCK FALSE` as above.

Known limits, seen in the model: a dead command's temporary file under `memory/` stops
every full export until it is removed, and those under `curation/`, `receipts/` and
`staging/` are archived with the rest; two overlapping exports to one output keep the
second; an export that an import overlaps may hold a core observation without its
receipt and restores, because restore does not run the core `validate`; a minimum
restore with evidence observations cannot be exported in full; members are counted
only in the first of the two passes; the reader does not compare an archive's paths
with its class.

### Proofs

`ArchivesProofs` proves, for every archive that is brought and every overlap:
`ArchivesTypeCorrect`, `ArchivesRestoredGoverned`, `ArchivesDestinationsKept`,
`ArchivesQuietExportRestores`, `ArchivesQuietExportAccepted`, and
`ArchivesReexportSame` under a hypothesis.  `IInv` says of a
restore that passed its validation that what it staged is governed, and of a running
command that it writes only its own files and that the workspace it changes is no
longer counted as restored.  The two theorems about quiet
exports rest on `QuietInv`: what an undisturbed export has listed, read and counted is
what the workspace holds, group by group (`ListedBefore`, `FirstIn`), the members are
within the limit, and the rows collected so far are closed.  `ArchivesReexportSame`
assumes `ClassesMeantFirst`: what can be restored of the archives made elsewhere has
the files of its class.  Without it the property is false, because the reader does not
compare an archive's paths with its class; the archives of the run meet it, and
`ClassInv` shows that those this program makes do, an overlapped export included.

## Proved, model-checked, not modelled

Proved for every instance: forty theorems, the type invariant of each of the six
state machines and every safety and action property that the runs expect to hold.
Hypotheses beyond the assumptions on the constants are `~ Overlap`, one storage command
at a time (`StorageAlone`), and `ClassesMeantFirst` (`ArchivesReexportSame`); the audit
theorem of curation speaks of the states no fault has touched (`faults = 0`), and the
runs that check the property allow none.  Except for `Routing`, the type invariants are
not repeated in the runs.

Model-checked on the instances above only: everything temporal under fairness
(`RotationCompletes`, `DeletionCompletes`), since TLAPS here has no liveness
or ENABLED.

Not modelled:

- Bundle and route validation plans again and compares: a pure function.
- Interoperability: canonical JSON, repository identity and signed receipts are pure
  functions of bytes; that two implementations agree is a property of encodings,
  which the models abstract.
- User interface: dispatch to the commands modelled here, and a guided review.
- Release tooling works on this repository, not on a workspace.
- Lean formalization: not executed.
- Commands of curation that overlap each other, and imports that do: without locks a
  lost update is certain, and neither code nor documentation promises otherwise.

## Findings

Two runs end in a counterexample on purpose: each checks one sentence of the
project's own documentation or messages against what the code does.  They are listed,
with the sentence and the line, in `PROJECT.json` under `findings`.

## Plan

What is left, in this order:

1. An abstract specification of curation (memory as a set of approved claims that
   only grow and retire) that `Curation` implements; the refinement mapping.
2. The validation of a bundle against a workspace that has changed since, over
   `Routing`.
