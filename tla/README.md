# Duro Ledger: a verification development

Duro keeps two things: **artifacts**, bytes under their SHA-256 digest in a
directory tree, and **events**, rows of one append-only PostgreSQL table. It has
no daemon. Every command is a process of its own, so all concurrency is between
processes that share a file system, a database, or both. What is hard is what
survives when a process, the host, a connection or the server stops half way,
and what a caller may conclude from the answer it got.

The TLA+ modules here are translated from the code under `src/`. TLC checks them
on small instances, and TLAPS proves every safety property that a passing run
checks, and both refinements, for every value of the constants.

## Inventory

| component | state | operations | what is hard | what must hold |
|---|---|---|---|---|
| Content store, ingestion (`pkg/cas`) | directories `ROOT/sha256/aa/bb`, blobs, staging files in `ROOT/.tmp` | `Open`, `Write`, `WriteFile`, `Verify` | every file-system call can fail; a put depends on directories another put created; power loss keeps only what was synced; the deduplicating put trusts a file it did not write | what was reported stored survives; what is published is whole; nothing is replaced; nothing is left behind; a retry succeeds |
| Copying and counting (`hashingCopy`) | a buffer, a hash, an `int64` counter | the loop behind every put, get and verification | a reader may return data with its error; the counter must not wrap; a write may be cut short | a digest is of the whole source; the count is the bytes written; the loop ends |
| Content store, retrieval (`pkg/cas`, `pkg/artifact`) | a staging file beside the destination | `GetToFile`, `GetToWriter` | the destination appears after it was looked at; the blob is damaged under the read; power goes between link and sync | only verified bytes are published; nothing is overwritten; success is for good |
| Event ledger, append (`pkg/postgres`, `python/duro`) | table `public.events`; one transaction per call | `Store.Append`, `append_event` | the acknowledgement of COMMIT is lost; the server ends the session before or after the commit record | the outcome reported is true and stays true |
| Artifact put (`pkg/artifact`) | none of its own | `Put` | two commits in two stores, with anything between them | no event without its bytes; `PutError` is true; a put repeated on evidence is not recorded twice |
| Initialization and provisioning (`pkg/postgres`, `duro init`) | the table, role grants, an advisory lock | `Initialize`, `ProvisionWriter`, `ProvisionReader` | several at once; each statement sees what others committed; grants half done | racing initializers never collide; success is true; no partial grants; provisioned roles are restrained |
| Event ledger, read by id (`pkg/postgres`) | none | `Store.Get` | an error of the query must not pass for a missing record | what a receipt names is found |
| Event ledger, read whole (readers of `public.events`) | the reader's view | a rebuild: everything read again, in id order, from one snapshot | ids become visible out of order | every event gets into a later rebuild; none is lost from one to the next |
| Input rules (`pkg/event`, `python/duro`, the CHECK constraints) | none | `Validate`, `rawJSONFlag`, the Python checks | three languages must agree on what is blank, on lengths in bytes, on what was left out | a pre-check refuses nothing the table takes and leaves it only what it says it leaves |
| Identifiers (`ValidID`, `ValidDigest`, `ParseIdentity`) | none | the checks of ids and identities | positions counted by hand; one spelling for one artifact | printed ids are accepted, and nothing but them; one digest has one identity |
| Command line (`cmd/duro`) | exit code, stdout, stderr | `init`, `event put/get`, `artifact put/get` | checks come before side effects; printing can fail after both commits; the shell knows only exit code and stderr | a refused command touches nothing; what is reported is true and stays true |

How they interact: `Put` calls `WriteFile` and then `Append`; the command line
calls everything; `duro init` calls the three provisioning functions in order.
Different processes meet only in the file system and in PostgreSQL.

`PROJECT.json` lists the hazards line by line, with the properties that cover
them.

## Modules

| module | models | lines of code |
|---|---|---|
| `ContentStore` | ingestion, one action per file-system call, over a file system with crashes | `cas.go` |
| `BlobContract` | what the store promises its callers | `cas.go`, contract |
| `HashingCopy` | the loop that copies, hashes and counts | `cas.go` |
| `Retrieval` | the two gets | `cas.go`, `artifact.go` |
| `CommitOutcome` | the two classifications of a failed COMMIT | `store.go`, `__init__.py` |
| `EventLedger` | the two writers, the connection and the server's sessions | `store.go`, `__init__.py`, `schema.sql` |
| `LedgerContract` | what an append promises its caller | `store.go`, contract |
| `Projector` | a reader that rebuilds beside the writers of `EventLedger` | `schema.sql`, `store_test.go` |
| `InputRules` | the two pre-checks and the table's constraints, and an append through them | `event.go`, `__init__.py`, `schema.sql`, `main.go` |
| `Identifiers` | event ids and artifact identities, character by character | `event.go`, `cas.go` |
| `CommandLine` | the four data commands over `ArtifactPut` and the two contracts | `main.go`, `store.go` |
| `ArtifactPut` | `Put` over `BlobContract` and `LedgerContract` | `artifact.go` |
| `Provisioning` | `duro init`: Initialize and the two provisionings | `store.go`, `main.go` |
| `ContentStore_proofs`, `HashingCopy_proofs`, `Retrieval_proofs`, `ArtifactPut_proofs`, `Provisioning_proofs`, `CommandLine_proofs` | theorems about the module named | |
| `EventLedger_proofs`, `InputRules_proofs` | theorems about the module named, and about `Projector` and `Identifiers` | |
| `MC...` | small instances | |

`ArtifactPut` INSTANCEs the two contracts and conjoins their actions with its
own. `ContentStore` and `EventLedger` are each checked to refine the contract
that `ArtifactPut` relies on (property `KeepsContract` of both), so the
composition rests on the code of all three; both refinements are also theorems. `CommandLine` INSTANCEs
`ArtifactPut` and the contracts in turn, so that a whole `duro artifact put` is
one behaviour from its arguments to its exit code. `Projector` EXTENDS
`EventLedger`: it reads the rows that the two concrete writers commit. Of
`ContentStore`, `Retrieval` and `Provisioning`, which share no state, each is
checked by itself.

### ContentStore

The file system is modelled where durability is decided. A name is *visible*
once created (`dirs`, `file`) and *durable* once the directory that holds it was
fsynced (`durable`); bytes are durable once their inode was (`synced`).
`CrashLosing` keeps the durable names, drops any set of the others with all that
is below them, and gives unsynced inodes any bytes. `"/"` stands for all
ancestors of the store root.

A process goes through `pc`: `Open` is `OpenMkdir`, `OpenMkTmp` and one
`OpenSync` per directory of the two chains; a put is `Begin` (open, stat,
CreateTemp), `Copy`, `FsyncTemp`, `SizeMismatch` or `MkShards`, `LinkFresh` or
`LinkExists`, `VerifyOk` or `VerifyCorrupt`, `SyncBlob`, one `SyncChain` per
directory from the leaf to the root, and `Unwind`, which is the deferred
`os.Remove` together with the return; a put on its way out knows whether it was
refused (`unwindFail`) or stopped by an error (`unwindErr`), so that a refusal
cannot pass for a fault of the environment. `StepFails` is an error of any call,
`Kill` the end of the process. `want` is None for `Write`, which has no size to
compare.

Abstracted: permissions and `Chmod`; symbolic links above the root
(`EvalSymlinks`); `MkdirAll` and `Verify` are one step each, because the only
thing that could happen inside them, other creators of the same directories and
damage from outside, can as well happen just before or after. After a power
loss a staging name that was already removed does not come back.

### HashingCopy

One action per part of the loop: `Fill` is the `Read`, which may return fewer
bytes than asked, none, or data together with an error; `Count` is the overflow
guard; `Drain` the `io.MultiWriter`, which gives the destination its bytes
before the hash; `Advance` looks at the error of the read last. Data is its
number of bytes: `written` and `hashed` can only differ by what a failed write
left out. `Add` wraps at `MaxInt` as `int64` does. `ContentStore`'s `Copy` and
`Retrieval`'s copying use the result.

### Retrieval

A get reads its blob in two parts, so that damage can come between them. Its
bytes are good only if both parts were. `dest` says whose copy a destination
holds; `durable` and `synced` are as above. What puts and outside damage do to
the blob is one environment action.

### EventLedger, CommitOutcome

Each call is a dialogue of BEGIN, INSERT and COMMIT with a session of its own
over a connection that can break between any two messages (`link`, `request`,
`reply`). The server side is external: it draws ids, rejects rows, writes the
commit record (`owner`) before it answers, ends sessions with an error message
before or after the commit record, or crashes. A lost connection loses the
answer, the statement, or neither: a COMMIT in flight can still arrive after the
client returned. `Lang` says which writer a call uses: both follow the same
steps (psycopg sends BEGIN with the first statement) and differ in the
classification, `ClassifyCommitErr` against `CommitOutcomePy`. `Shown` is the
translation of the severity field that PostgreSQL applies and both functions
read; the German catalog is used.

Abstracted: the event itself (an id stands for the row); the pool's internal
retries of a bad connection while beginning; `synchronous_commit` is on, so a
commit record survives a crash. The answers `ROLLBACK` and `ErrTxDone` are
inputs of the classification that `Append` cannot produce.

### Projector

A rebuild is one read-only repeatable-read transaction with one query for all
rows in ascending id order, as `readIDs` of the store's tests has it
(`TestSnapshotReadAndCommitOrderInversion`; the program's README tells readers
of the ledger to do the same). Its single query has one snapshot by definition;
rebuilds of several queries are PostgreSQL's business and are not modelled. What
can go wrong is between rebuilds: the events a query sees are the commit records
of `EventLedger`, in the order in which the server writes them, so an id that was
drawn first can be committed last, by a call whose client is already gone.
`AbortRead` is a lost connection; the next rebuild starts from nothing. The
reader changes no variable of `EventLedger`.

### InputRules and Identifiers

A text is a sequence of code points, with -1 for what no UTF-8 encodes; a JSON
text is its kind, its size as written and as `jsonb::text`, and whether jsonb
can hold it. `GoAccepts`, `PyAccepts` and `TableAccepts` are three separate
translations, with the white-space sets as they are spelled out in each
language; how the types `text` and `jsonb` behave is external. An append is
`Refuse`, or `Send` and then `Decide`. `cli` is the Go writer behind
`rawJSONFlag` and the command's own check of an empty type.

`Identifiers` translates `ValidID`, `ValidDigest`, `ParseIdentity` and
`FormatIdentity` over sequences of characters. What a caller passes is a valid
text with some characters changed, added or removed (`Edit`). What PostgreSQL
prints for a uuid is `Printed`; `Digits` takes the digits from where `Printed`
puts them (`Spot`), so that a text is compared with the print of its own digits.

### CommandLine

Each invocation goes through the `stage`s of its command in the order of its
`run...` function: `ParseArgs`, `Validate`, one `Open` for the store root and
one for the database, the call, `PrintResult`, exit. `given` is what its
arguments are worth (`help`, `usage`, `malformed`, `fine`). Calls of `put` go
through `ArtifactPut` and the contracts, so a commit can come after the process
is gone; `EventGet` and `ArtifactGet` read the two stores. `touched` records
what was opened, `stdout` how much was written, `stderr` the kind of the one
message, `exit` the code. Usage texts are left out of `stderr`. `owed` marks the
gets that ask for what an earlier invocation had printed. `runInit` is in
`Provisioning`.

### ArtifactPut

`pc`, `digest` and `result` of each put beside the contracts' variables. `Link`
and `Written` are `Publish` and `Promise` of the blob contract, `Appended` and
`AppendFails` the returns of the ledger contract, `Observe` its commit, which
can happen while the put waits, after it was killed, and after it was told
"unknown". `Reject` is everything that fails before `WriteFile`. `Purpose`
says which puts are attempts at recording the same thing. The caller's policy
(`MayBegin`: repeat only on evidence that no earlier attempt left an event) is
external; it is what `PutError` is for.

### Provisioning

Each init is one shell that runs its command line any number of times.
`Initialize` is `Start`, `TakeLock`, `LookUp`, then `Create` and `CommitInit` or
`Compare`; a provisioning is `CheckRole`, one `Grant` per statement and
`CommitGrants`. What is committed (`table`, `usage`, `insert`, `select`,
`member`, `powerful`) is what every statement sees, as under READ COMMITTED. The
comparison of table descriptors is one predicate, and so is the authority that
disqualifies a role; the walk over memberships is kept (`Reach`). `StepFails` is
an error or a kill, `AckLost` a commit whose answer is lost. A GRANT waits for
another transaction's to end; that PostgreSQL may fail it when the other commits
is left to `StepFails`, which can come at any step. A table of another
program can appear whenever there is none (`ForeignCreate`); `ForeignRaces` says
whether that may also happen between a look-up and the CREATE TABLE that follows
it, the window of the finding below.

## Runs

| run | instance | shows |
|---|---|---|
| `store_crash` | 2 processes, 2 contents and digests under one shard directory, 3 inodes, 1 orphan | `AckedSurvive`, `PublishedIntact`, `TempsAccounted`, `NeverReplaced` |
| `store_damage` | the same, contents of equal length, 1 damaged path, no orphan | `VerifiedBeforeReuse`; the store refines `BlobContract` |
| `store_retry` | 1 process, 1 content, 3 inodes, damage and orphans, fairness | `RetrySucceeds` |
| `copy_count` | counter up to 7, buffer of 3, sources of 0 to 9 bytes, fairness | `CounterExact`, `SumOfWhole`, `CopyEnds` |
| `ledger_commit` | a Go call, a Python call and a projector, 2 ids, fairness | `OutcomeTruth`, `CallsReturn`, `TransactionsEnd`; both writers refine `LedgerContract`; `CaughtUp` |
| `ledger_translated` | the same, translated severities | violates `OutcomeTruth` (finding) |
| `put_two_stores` | 3 attempts at one put and another put, 2 digests, 4 ids | `EventsNameStoredBlobs`, `ResultTruth`, `ObservedOnce` |
| `input_verdicts` | texts of up to 3 code points from 3 writers, all pairs of JSON arguments; an id and an identity with up to 2 edits | `NoFalseRefusal`, `WritersAgree`, `ServerDecidesOnly`, `StoredContract`, `IdIsCanonical`, `OneSpelling` |
| `cli_triples` | every 3 invocations of the data commands, 2 digests, 2 ids | `RefusedTouchesNothing`, `ExitZeroTrue`, `StderrTrue`, `ReadsBack` |
| `get_race` | 2 gets to one destination and a stream, 1 blob | `PublishedVerified`, `SuccessKept`, `StagingRemoved`, `NeverClobbered` |
| `init_race` | 2 command lines, a writer, a reader and a group, role changes, fairness | `InitTruth`, `GrantsTogether`, `RolesRestrained`, `RerunSucceeds` |
| `init_foreign` | 2 command lines, foreign tables at any moment | violates `InitializedMeansContract` (finding) |

`cli_triples`, `get_race` and `init_race` also check the type invariant of their
module; those of the other state machines are theorems (below).

Every property also has a mutant: a change of one definition that a plausible
bug would make, under which TLC finds the property violated. The mutants stand
in the modules next to what they change.

### Bounds, and why they are enough

- Two processes and two digests that share the directory `aa` and have leaves of
  their own: each put creates directories the other depends on, and both race
  for one digest when the contents are equal. A third process adds no new pair.
- Three inodes: two staging files and a published blob (or an orphan) at once.
  When all are taken `Begin` waits; with two processes and one orphan, room
  comes back when a put returns.
- `MaxOrphans`: staging files left by lost processes or failed removals. They
  only occupy inodes, so one is enough. In `store_damage` it is 0: there a kill
  waits until the process has no staging file, and an error or a power loss
  still ends a put anywhere.
- `MaxTampered`: damaged digest paths at a time.
- `copy_count`: what matters is a source that fits the counter exactly, one byte
  more, and a read that crosses the limit; 7, 3 and 0..9 have all of them.
- `ledger_*`: two ids for two calls; ids that were drawn and rolled back are
  not drawn again, so after a roll-back the other call may find none left and
  be rejected, which the server may do in any case. Calls are used once; a
  retry is another call, so these runs stop (`CHECK_DEADLOCK FALSE`). Two ids
  are enough for a commit order that is not the id order.
- `input_verdicts`: one code point on each side of every boundary (white space
  in each language's definition, U+0000, one to four bytes, no UTF-8); limits of
  6 bytes and 8 bytes in place of 255 and 1 MiB, with texts and objects below,
  at and above them; a digest of four characters in place of 64, which is only
  ever compared with its own length. Two edits reach every pair of positions.
  Each of these behaviours is a single append or a single text, so it stops
  (`CHECK_DEADLOCK FALSE`).
- `cli_triples`: three invocations are a put, another that interferes, and the
  get that reads back; each runs once, so the run stops.
- `put_two_stores`: three attempts are a put, a retry, and a retry of that or of
  the first; any number of them are covered by the proof of `RecordedOnce`.
- `get_race`: one digest; gets of different digests meet only at a destination,
  where what differs is whose copy it is. Gets are used once.
- `init_*`: bob, the reader of one command line, is the writer of the other,
  and can become a member of alice, the first writer, directly or through a
  group that can gain authority. In `init_race` `ForeignRaces` is FALSE:
  another program creates the table at any moment except inside the window that
  `init_foreign` is about.

Symmetry is used for processes, attempts at one put, inodes, digests and ids where
no constant tells them apart, and never with a liveness property.

### Fairness

- `store_retry`: weak fairness of `Advance` (a running call goes on) and of
  `Call` (the caller keeps putting). Errors, kills, crashes and damage are in no
  fairness condition; the property assumes that they stop.
- `copy_count`: weak fairness of the loop, and strong fairness of a read that
  brings data or an error: `io.Reader` discourages returning nothing for ever,
  and without that `hashingCopy` would not end.
- `ledger_commit`: weak fairness of the client's and of the server's own steps.
  Nobody has to call and nothing has to break. Neither writer sets a timeout: a
  peer that vanishes without a reset is seen only as fast as the kernel sees
  it, and that a broken connection is reported in the end is the assumption
  behind `CallsReturn`. Weak fairness of the projector's own steps; `CaughtUp`
  assumes that its rebuilds stop being cut off.
- `init_race`: strong fairness of an init's own steps, since PostgreSQL's lock
  queues are first come, first served; weak fairness of starting again.

## What is proved

Every theorem holds for all values of the constants that satisfy the module's
assumptions: any number of processes, calls, readers, invocations and
administrators, any sets of digests, ids, roles and texts. The method is always
the same. The property is strengthened to an inductive invariant whose conjuncts
say what each actor has established by the place it has come to; TLC checked
each of these invariants on the module's instances before it was proved; then
there is one lemma per conjunct, with one step per action.

`ContentStore_proofs` (`ContentAssumption`, `LayoutAssumption`,
`FileAssumption`: a digest function without collisions, a tree of directories, a
finite set of inodes):

- `TypeCorrect`: `Spec => []TypeOK`. The last three conjuncts of `TypeOK` tie
  `tmp`, `got` and `cursor` to `pc`; every later proof needs them.
- `Durability`: `Spec => []AckedSurvive`. The invariant is strengthened to
  `DurabilityInv`, which says how far each process has come: the directories
  that `Open` made durable stay so, and a put whose cursor stands at a directory
  has made durable the names below it. The step that matters is the last
  `SyncChain`: only then are all names of `Path(d)` durable, whoever created
  them. A crash keeps them because it drops only names that are not durable and
  what is below those.
- `NoReplacement`: `Spec => NeverReplaced`. From `Durability`: a crash cannot
  drop a digest that was acknowledged, and no other action changes a digest
  path that holds something.
- `Integrity`: `Spec => []PublishedIntact`. `IntegrityInv` adds that the staging
  file of a put holds exactly the content read and, from the `check` on, is
  synced; that every published inode is synced; and that no inode is free and
  in use, so that recycling one never changes a blob.
- `StagingAccounted`: `Spec => []TempsAccounted`, step by step.
- `Reuse`: `Spec => []VerifiedBeforeReuse`. `ReuseInv` is `IntegrityInv` with
  `DamageLasts` (a damaged path holds a file that is not intact, so nothing heals
  it under a put) and `Unharmed` (what was damaged when a put began is still
  damaged, and a put past its verification is not about such a path).
- `Refinement`: `Spec => KeepsContract`. From `StoreInv`, which is
  `DurabilityInv` and `IntegrityInv` together: `LinkFresh` maps to `Publish` of a
  good blob, the return of a put (`Unwind`) to `Promise` of one that is there, a
  crash to `PowerLoss` of digests never promised, damage to `Damage`, and every
  other step to a stutter, because names and bytes that a caller sees change
  nowhere else.

`HashingCopy_proofs`, for every width of the counter, every buffer that fits it
and any sources (`CopyAssumption`): `TypeCorrect` and, from one inductive
invariant that relates `written`, `hashed` and `n` to `taken` by the place in
the loop, `CountsWritten` (`CounterExact`) and `DigestOfWhole` (`SumOfWhole`).
The guard is what makes `Add` exact: it holds before every addition that the
counter can represent the sum.

`Retrieval_proofs` (`GetAssumption`: the names used for "nobody's" and "nothing"
name nothing else): `TypeCorrect`, `VerifiedOnly` (`PublishedVerified`),
`SuccessIsKept` (`SuccessKept`), `StagingCleaned` (`StagingRemoved`) and
`NothingClobbered` (`NeverClobbered`), all from `GetInv`: `StagingInv` (where a
staging file exists, by `pc`), `SyncedInv` (a copy is synced after its last byte
and before the sum is compared), `PublishedInv` (a destination holds the synced,
verified copy of a get that aimed at it) and `SuccessInv`, which has success
for good already during the deferred removal. A power loss keeps `PublishedInv`
because what was linked had been synced, and `SuccessInv` because the directory
was synced before the return.

`EventLedger_proofs`, for any mix of writers (`LedgerAssumption`: each call has a
language, and None is not a value of anything else):

- `TypeCorrect`: `Spec => []TypeOK`.
- `OutcomesTrue`: `Spec => []OutcomeTruth`, assuming `~Translated`; without that
  assumption it is false (finding `ledger_translated`). `OutcomeTruth` says
  nothing of what is on its way, so it is strengthened to `LedgerInv`:
  `IdsApart` (a pending row is in one session only and becomes an event only of
  that session's call), `RequestsInStep` (the server is never asked for what the
  client has not come to) and `KnowledgeTrue` (before COMMIT is sent, on an
  answer that will be classified as a refusal, and after a denial there is no
  event, no commit record and no COMMIT on its way). The two lemmas on the
  classification, `TeardownUnknown` and `NoAnswerUnknown`, are where both
  writers' rules enter.
- `Refinement`: `Spec => KeepsContract`, under the same assumption. A commit
  record maps to the contract's `Commit`, a return to `Succeed`, `Deny` or
  `Shrug`, everything else to a stutter.
- About `Projector`: `RebuildsGrow`, that no rebuild loses an event an earlier one
  had, from `RebuildInv` (what is read is in the ledger, and what was read before
  is in it), which needs that commit records are never taken back. Since a
  reader's step leaves `EventLedger` unchanged, the theorems above hold beside
  readers as well.

`InputRules_proofs`, for texts of any length, any JSON arguments and any limits
(`InputAssumption`): `ClientsNotStricter` (`NoFalseRefusal`), `WritersEqual`
(`WritersAgree`), `ServerDecidesTheRest` (`ServerDecidesOnly`) and
`StoredMeetsContract` (`StoredContract`). They rest on `SameSpaces` (the three
white-space sets are equal) and `TableImpliesPreCheck` (what the table would
store passes every writer's pre-check). About `Identifiers`, for texts over any
characters after any number of edits (`TextAssumption`: a text is a sequence):

- `IdentityIsUnique` (`OneSpelling`). A prefix that was cut off can be put back
  (`PrefixBack`), and what passes `ValidDigest` is unchanged by lowering it.
- `ReceiptsPass` (`IdIsCanonical`). `Printed` is five groups joined by dashes;
  `PrintedAt` turns that into what stands at each of the 36 places, group by
  group (`NextGroup`), and `Places` shows that the positions counted from either
  side are inverse to each other. `ValidID` then says of each character what
  `Printed` says of it.

`ArtifactPut_proofs`, for any `Purpose` (`PutAssumption`): `TypeCorrect`,
`EventsAfterBytes` (`EventsNameStoredBlobs`), `ResultsTrue` (`ResultTruth`) and
`RecordedOnce` (`ObservedOnce`), all from `PutInv`: promised bytes are there, an
append starts or reports only behind a promise, a put has an event only from its
append on and none after a denial, its result is what the ledger reported, and of
any two attempts at one thing that have begun one had returned evidence
(`RepeatedOnEvidence`): so no two of them have an event, however many there are. With the two theorems
`Refinement` both halves that the composition relies on are proved, the ledger
down to its messages and the store down to its file-system calls.

`Provisioning_proofs`, for any command lines, memberships and role changes
(`RolesAssumption`):

- `TypeCorrect`: `Spec => []TypeOK`, which has the advisory lock held exactly
  while `Initialize` is at work.
- `InitTruthful` (`InitTruth`), assuming `~ForeignRaces`; without it, it is false
  (finding `init_foreign`). `RacersApart` is what holds in any case: no two
  inits meet at CREATE TABLE, and success means that the grants were made. The
  lock is the reason (`OneCreates`: an uncommitted table belongs to the init
  that holds it), and `TableKnown` says what an init knows of the table by
  where it is.
- `GrantsWhole` (`GrantsTogether`), because a transaction's grants come together.
- `Restrained` (`RolesRestrained`), from `ChecksHold`: for a command since whose
  start no administrator changed roles, what its checks found is still so. That
  its reader does not reach its own writer rests on the order of the two in
  `runInit`: when the reader is checked, the writer's INSERT is committed
  (`GrantsMade`). A writer that another command commits between the check and the
  GRANTs is not seen, and not claimed: `store.go:391-396` leaves concurrent
  changes of authority to the administrators.

All but `TypeCorrect` come from `ProvisionInv`.

`CommandLine_proofs` (`CommandAssumption`: an id is not a digest, and None is not
a value of anything else): `TypeCorrect`, `NothingTouched`
(`RefusedTouchesNothing`), `ExitZero` (`ExitZeroTrue`), `StderrStaysTrue`
(`StderrTrue`) and `PrintedReadsBack` (`ReadsBack`), from `CommandInv`. The lemma
`StoreSteps` takes apart what a step does to the two stores: at most one step of
the put or of a contract. `LedgerInStep` and `PutsInStep` then follow the stores
by the command that runs; `ResultsInStep` says that `Put` returns what the
ledger reported, `ShellInStep` that the shell is told what the library returned,
`OwedThere` that what a get is owed is in the ledger, or promised by the store,
where nothing takes it away.

### Only model-checked

- Liveness: `RetrySucceeds`, `CopyEnds`, `CallsReturn`, `TransactionsEnd`,
  `CaughtUp` and `RerunSucceeds`. They rest on fairness, and so on ENABLED of
  composed actions, which TLAPS does not handle.
- The two properties of the `violation` runs are false; where they become true
  is the assumption of `OutcomesTrue` and of `InitTruthful`.

## Findings

- `ledger_translated`: the severity that is compared with `FATAL` and `PANIC` is
  the translated one (`store.go:544`, `__init__.py:124`). With a server whose
  `lc_messages` is German a `PANIK` with SQLSTATE XX000 is taken for a rejection
  although the event may be committed.
- `init_foreign`: `Initialize` looks for the table and creates it `IF NOT
  EXISTS` in two statements (`store.go:148-156`). A table that another program
  commits in between is accepted unseen, and loses its PUBLIC grants.

Two more places where the code differs from its documentation were met while
modelling. The models follow the code in both; no run is about them.

- `store.go:41` documents `OutcomeNotCommitted` for a failed validation, and
  `Append` returns the bare validation error (`store.go:460`), which carries no
  outcome: in `EventLedger` such a call ends "invalid".
- `src/README.md:430-433` says of a plain message with exit 1 that nothing was
  recorded. An artifact put whose result cannot be written to stdout
  (`main.go:506`) exits that way with its event committed: `PrintResult` in
  `CommandLine`.

## Not modelled, and why

- Usage texts, the wording of messages, and the layout of the JSON output.
- Reading flags and their defaults in the environment: `given` in `CommandLine`
  is the verdict on what was read.
- `Has` and `Path`: reads without a change of state, and operators here.
- Permissions, symbolic links, and names on case-insensitive file systems.
- Test support (`internal/pgtest`), which starts a PostgreSQL for the tests.

## Plan

The instances above are about as large as TLC explores in minutes, and every
safety property they check is a theorem. What is left is to join the theorems
that now stand beside each other.

1. A composition of `ArtifactPut` with the concrete `EventLedger` and
   `ContentStore` in place of their contracts. The two theorems called
   `Refinement` say what it would show of safety, each with the other half
   stuttering; a theorem over a product of the three next-state relations would
   say it of their interleaving.
2. `CommandLine` maps each of its steps to at most one step of `ArtifactPut`
   (the lemma `StoreSteps`); with the callers' policy left out of `MayBegin`,
   this could be stated as a refinement of its own.
