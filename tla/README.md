# Research Registry: TLA+ specifications and proofs

Research Registry stores research evidence: sources and their versions,
evidence spans, claims with revisions and reviews, reports. One Python package
(`src/src/research_registry/`, the root of the short paths below) serves it over
MCP, HTTP and a CLI, on SQLite (a personal registry) or PostgreSQL (a shared
one), with source bodies in a content-addressed directory beside the database.
Several processes run against one database: server workers, the CLI, a replaying
capture queue, maintenance jobs. What is hard about it is what those processes
do to each other, what a crash or a failed commit leaves, and what a retried
request does.

This directory models the parts where that matters, checks the models with TLC
on small instances and proves with TLAPS, for every instance, the safety
properties that the passing runs check. `PROJECT.json` lists the components, the runs, a mutant for
every property, the source lines behind every definition, the findings, the
hazards and the theorems.

## Inventory

| component | state it keeps | operations | correct when | modules |
|---|---|---|---|---|
| blob store (`ingestion/blobs.py`) | final files named by hash, stage files | stage, finalize (new or reused), rollback_finalize, discard | a final file is complete; a rollback removes only what the call created | `BlobStore` |
| v2 deposit (`application/deposit.py`) | `v2_idempotency`, records of all kinds | deposit, dry run | all or nothing; one effect per key; a success is durable; no row without its blob | `Deposit`, `DepositLedger` |
| source versions (`application/source_versions.py`) | `source_versions`, `content_objects` | prepare, create_or_reuse | a version key names one content for ever | `Deposit` |
| claims and review (`application/review.py`, `domain/claims.py`) | `claims`, `claim_revisions`, `review_events`, v1 columns | review, supersede, contest, reject, approve | linear history; informed decisions; mirror agrees with events | `ClaimReview` |
| refresh and capture (`application/refresh.py`) | `refresh_queue`, reservations, versions, evidence | capture, enqueue, dismiss, re-anchor | one open entry per record and reason; a key is completed or given back; no change is silent | `RefreshCapture` |
| evidence selectors (`domain/evidence.py`, `ingestion/reanchor.py`) | the selector and state of an evidence span | resolve, validate, re-anchor | evidence is where its selector says, and is accepted only where it is unique | `Anchoring` |
| source ingestion (`ingestion/git.py`) | none of its own: it reads a repository | capture a file, find it by its blob | what a capture concludes is true of a commit the branch was at | `GitSource` |
| persistence (`persistence/`) | connections, transactions | unit of work, row locks, unique keys | commit or rollback, no lock outlives its transaction | part of each |
| capture queue (`capture_queue.py`) | a JSON-lines file, a lock file | enqueue, flush, replay | nothing queued is lost; what was delivered is not delivered twice | `CaptureQueue`, `Outbox` |
| migrations (`migration_runner.py`) | `schema_migrations`, the schema | migrate, dry run, adoption of the embedded schema | each migration once, in order, resumable | `Migration` |
| v1 to v2 backfill (`application/migrate_v2.py`) | runs, checkpoints, errors, v2 rows | run in batches, resume, rescan | every v1 row once, whatever interrupts it | `Backfill` |
| backup and restore (`backup.py`) | archives, manifests | backup, verify, restore | a manifest describes one state; what was reported stays | `Backup` |
| search (`retrieval/`) | the projection tables | rebuild, query in pages | the projection follows the rows; pages lose nothing | `Backfill`, `Retrieval` |
| fetch and recall (`application/fetch.py`) | none | a get with its parts | what is shown together belongs together | `Retrieval` |
| v1 service (`service.py`) | v1 tables, visibility, the projection | create, publish, set_index_state, refresh, import | a published report opens; v2 records stay private | `Records` |
| front ends (`app.py`, `mcp_tools.py`, `mcp/`, `web_v2.py`) | none | pages, API, tools | nobody is shown what it may not see | `FrontEnds` |
| local manager and installer (`local_manager.py`, `codex_install.py`, `local_personal.py`) | `config.toml`, a state file, backups, the plugin, skill links | init, up, repair, uninstall, install-codex, uninstall-codex | what is the user's is kept, wherever a command is cut short | `Installer` |
| web and DOI adapters, helpers, data audit, contracts, evaluation | little or none | network I/O, files, reports | outside of these models | |

The actors interact through files and rows only: rows (with the locks of a
transaction), the blob directory, the queue file, configuration files, and the
answers that clients get or lose. There are no callbacks and no shared memory
between requests.

Hard behaviours, by where they bite (all of them, with lines, under `hazards`):

* a blob is finalized inside a transaction, its cleanup runs after the
  transaction has released its locks (`deposit.py:209`);
* commits whose acknowledgement is lost, crashes between finalize and commit;
* a retry that overtakes its own first attempt;
* a reviewer that waits for a row lock and decides on what it read before;
* one logical operation in several transactions: a capture (reserve, store,
  re-anchor, complete), a v1 bundle, a backfill, a get;
* an append-only file that is rewritten by a flush, with a crash in between;
* reads that decide on a write before anything is locked: a publication, a
  creation by key, a rebuild of the search projection;
* schema changes that a database commits in the middle of a transaction;
* a backup of a database that others write to, at a path that others use;
* commands that edit a user's files one after the other, without a transaction.

## Modules

| module | models | proofs |
|---|---|---|
| `BlobStore` | the blob directory, one action per operation of `blobs.py` | |
| `DepositLedger` | abstract: a key is spent once on one body, its versions become visible with the receipt | |
| `Deposit` | `ResearchDepositService.deposit` and `SourceVersionService.create_or_reuse`; extends `BlobStore`, implements `DepositLedger` | `DepositProofs` |
| `ClaimReview` | `ResearchReviewService.review`, the claim revisions of a deposit, the retained v1 approval | `ReviewProofs` |
| `Outbox` | abstract: what is put into a queue is held until it is stored | |
| `CaptureQueue` | `CaptureQueue.enqueue`, `flush` and both replays; implements `Outbox` | `QueueProofs` |
| `RefreshCapture` | `ResearchRefreshService`, `SourceCaptureCoordinator`, the refresh queue | `RefreshProofs` |
| `Records` | the calls of the v1 service and what they leave in the projection | `LibraryProofs` |
| `FrontEnds` | what every page, route and tool shows; extends `Records` | `LibraryProofs` |
| `Retrieval` | v2 search in pages and v2 get in parts, while the tables change | `LibraryProofs` |
| `Anchoring` | selectors: resolution, validation, re-anchoring | `RefreshProofs` |
| `GitSource` | capturing a file of a Git repository while Git goes on in it | `CatalogProofs` |
| `Migration` | `MigrationRunner.migrate` and the embedded legacy schema | `MaintenanceProofs` |
| `Backup` | backup, verify and restore; composed with `Migration` by EXTENDS | `MaintenanceProofs` |
| `Backfill` | `run_v2_backfill`, the dual projection of v1 writes, the search index | `BackfillProofs` |
| `Installer` | the commands that set a machine up and take it down | `MaintenanceProofs` |
| `MCDeposit`, `MCReview`, `MCQueue`, `MCRefresh`, `MCLibrary`, `MCReading`, `MCAnchoring`, `MCGit`, `MCMaintenance`, `MCUpgrade` | instances of the module each extends | |
| `Catalog` | `RefreshCapture`, `FrontEnds`, `Retrieval`, `Anchoring` and `GitSource` side by side; they share no state, and one of them moves in each behaviour | `CatalogProofs` |
| `Host` | `Backup` and, at its place `Desk`, `Installer` | `MaintenanceProofs` |
| `MCCatalog`, `MCHost` | one run each of `Catalog` and `Host`, with the instances of their parts | |

### Deposit

Each process runs one call at a time; `pc[p]` is where it is: `stage` (files
are written before any transaction), `begin` (waiting for the transaction),
`check` (idempotency), `prepare` (one source version after the other), `write`
(all other records: one step, since they live and die with the transaction),
`finalize` (renames, then the commit), `undo` and `discard` (the exception
handlers and the `finally`). Rows of an open transaction are in `newKey`,
`newVersions`, `newContents` and move to `receipt`, `versions`, `contents` at
the commit. `setting`, chosen in `Init`, says which database there is and which
calls each process may make: on SQLite a deposit takes the write lock at its
start and a capture at its first write; on PostgreSQL transactions overlap and
only an equal unique key makes one wait. Every step can fail; a commit can fail,
or succeed without the caller hearing of it; a process can crash anywhere and
leave its stage files (`stale`) and finalized blobs (`orphans`).

A blob is its hash. How hashes, version keys and request hashes are computed is
not modelled: two bodies are the same request if they are the same value.

### ClaimReview

A client composes a request from what it has just read (`Compose`) and sends
it, possibly again (`Retry`), possibly under a key that it used for something
else. A call begins its transaction when its key is free (`Begin`), or is
answered from the receipt (`Replay`). `Query` and `Lock` are separate because
PostgreSQL takes a statement's snapshot before it waits for the row lock: what
the statement's subquery on `review_events` returns is from before the wait,
the locked row is read again after it. `Apply` is the commit of everything the
handler wrote: the revision and pointer, the event, the v1 columns, the
receipt. The decisions on claims alone compare the pointer again in their
`UPDATE` (`PointerAsRead`); a request for a refresh and a deposit that moves the
pointer do not, and what keeps them on the revision that they read is the row
lock. The `backend` is chosen in `Init` and never changes.

`revs[t]` is a sequence, so a revision's number is its place. An entity
(evidence, source version, report) is a target that has one revision for ever.
Abstracted: the text of claims, reviewer identities, access control (a caller
who may not see a target is refused before the first read), refuting evidence
in the conflict state, and the refresh-queue rows of `request_refresh` (they are
in `RefreshCapture`), and the columns of a source, which follow its newest
version. The reads of `RegistryService._v2_review_target` are one
step: they only decide what the request expects.

### CaptureQueue

The file is a sequence of lines; a line is the entries whose whole text it
contains and whether it is one JSON object. An append that is cut short leaves
a fragment, or a line without newline that the next append continues. Waiting
for the flock is the same as not having begun, so a call starts when it is
free. `Read` takes the whole file into `work`, the current entry first; each
entry ends in `kept` (skipped or failed) or nowhere (flushed); `Rewrite` is the
`os.replace`, since nothing sees the temporary file before. A process crash is
modelled, not a power loss: what was written before it stays written.

A legacy bundle is replayed as a chain of `Parts` records, the shortest form
of question, session, excerpts, claims and report in which a later record needs
an earlier one. Each is created by a request that looks its dedupe key up
(`Check`) and inserts (`Create`); the two are separate because two such
transactions may overlap, and then the unique index refuses the second. A
request that its client has given up, by the timeout of 20 seconds or by dying,
is in `late` until the server executes it or it proves lost. A v2 envelope is
one deposit in the same process, which `Deposit` models in detail; here it is
one step that either finds its receipt or commits. Abstracted: the question
status at the end of a bundle, records shared between bundles (a source or a
question with the same text), retry counts, and the two remaining forms of the
lock, for Windows and for platforms that have none.

### RefreshCapture

A capture is four transactions: `Reserve` the idempotency key, `Store` what the
source holds now as a version, re-anchor the evidence of the version that was
the latest before (`Visit`, `Resolve`, `InsertEntry`, `Reanchor`,
`CommitCapture`), and `Complete` the key. `Look` and `Store` are separate: what
the coordinator takes for the previous version was read in a connection of its
own. A version that exists already is only `Verified`. An enqueue request does
all of it in one transaction. `Fail` is an error the handler catches (it
releases the key), `FailUnhandled` and `Crash` are not; both leave what the
earlier transactions committed, and the history variables `leaked` and `missed`
say what that was, so that the properties can hold everywhere else. Insertion of
a queue entry is `INSERT ... ON CONFLICT DO NOTHING` against the partial unique
index: another open transaction with the same entry makes one wait
(`EntryFree`), a committed one is read back (`Conflict`, `ReadEntry`).
Reviewers dismiss entries, deposits cite evidence, and the source changes
whenever it likes.

One source is modelled; a version is named by what it holds, since its version
key is. Left out: plan mode and run records (one transaction that inserts),
source access checks, captures within one second, which the columns cannot
order.

### Records and FrontEnds

`Records` has the calls of the v1 service as lists of transactions. `Seek` and
`Create`, `CheckPublication` and `Publish` are two steps each, because a
transaction locks nothing before its first `INSERT` or `UPDATE`. A creation with a
dedupe key finds the earlier row or is refused by the unique index; sources are
found by their locator and questions by their prompt. A publication walks the
graph from a question to its reports, their claims, excerpts and sources, and
refuses records that v2 deposits or reviews own. `docs` is the search
projection: what it says of a record is what was true at its last rebuild.
`FrontEnds` adds no state: it is what each page, API route, tool and
deep-research tool shows each reader, as a set of ids. A reader has the
administrator's token or not and a key or none. Left out: topics, follow-up
questions, a default key of a deployment, argument validation, HTML and
transport. `_assert_publish_graph_ready` only refuses, which is a call that
breaks before its updates.

### Retrieval

The library is one claim of a report on a question, its revisions, and the
evidence that versions of one source hold; other actors write it (`Others`) at
most `MaxWrites` times. A search page is three steps (`Query` the projection,
`Relate` along the tables, `Answer` from both): exact and lexical matches are
constants, candidates and their order, the expansion along relationships,
filters, weights, the size limit of an answer and the cursor are the code's. A
get is `ReadRecord`, then one step per part it includes, then `Bound`, which cuts
the lists in the code's order when the answer is too large.

### Anchoring

A text is a short sequence of characters with two kinds of line end; positions
count from 0. `ResolveExact` is the resolver of each selector type (quotation
with or without offsets and context, ranges of characters and of lines, JSON
pointers with their escapes), `Validate` what a deposit makes of it, and
`Recapture` changes the text and re-anchors, with the selector that
`_reanchored_selector` writes. The properties compare with definitions that are
written from what a selector means, not from the code: `Places`, `TrueLine`, and
`ValuesAt`, which reads a JSON pointer from left to right as keys with their
escapes and decimal indexes, where the code cuts it at its slashes, unescapes the
tokens and parses them. The instance has objects whose keys need escapes or are
empty, a list of eleven items, and all pointers of up to four characters, of
which one is a digit of another script (`OtherDigits`), as `str.isdigit` and
`int` take it.

### GitSource

The reader takes no lock of Git's: `LookBranch` and `ReadBranch` are
`current_commit`; for each object `LookLoose`, `ReadLoose`, `ListPacks`,
`ReadIndex`, `LookPack` and `ReadData` are one look at the file system each.
`Descend` and `Conclude` are the walk of `resolve_blob`, `Scan` that of
`find_blob_paths`, `Relocate` and `DecideRelocated` the branch of
`_capture_source` that looks for the blob elsewhere in the commit. What Git does
meanwhile is external: a commit writes its objects before the branch, `pack-refs`
the packed line before it deletes the file, a repack the new pack before the
index and then the data of the old one go. Objects in `Elsewhere` are in an
alternate or were left out of the clone. Left out: how a pack encodes objects,
limits on sizes (a reader may give up at any step), pruning of objects that
nothing reaches.

### Migration and Backup

A build is a sequence of checksums, and migrators of different builds work on
one database. A migrator takes the migration lock, begins a transaction,
validates the ledger, brings an embedded legacy schema up to date or adopts it,
and applies each pending migration with its ledger row. `executescript` commits
what is open on SQLite and then runs statement by statement (`UpdateAndCommit`,
`CreateMeta`, `CreateTable`), which is the only place where a crash leaves a
half-made schema (`torn`). `Backup` extends `Migration` and shares its tables:
`Inventory` reads table by table without a transaction, `Copy` is the online
backup, `Compare`, `WriteManifest` and `Report` follow; restore copies an archive
to a free path, verified or not. Two clients may be given one path. Left out: how
migration bundles are loaded and hashed, columns, the read-only plan and verify
commands, platforms without flock, and the plan for PostgreSQL, which is text
for an operator.

### Backfill

A phase goes through the rows of one kind by id, in batches; a batch and the
checkpoint behind it are one transaction (`Fetch`, `Write`). `Open` starts a run
or resumes one, `Reset` begins a rescan, `Interrupt` ends it anywhere. What a row
becomes in v2 is deterministic, so v2 is the set of `<<phase, item>>` projected.
Clients write v1 rows beside it (`Begin`, `Read`, `Commit`), which project
themselves when the backfill is complete, and every write rebuilds the search
index by reading the documents before the DELETE that locks. Left out: warnings
and counts, review events and refresh entries that a row brings along, documents
of source versions and evidence.

### Installer

Each command is the sequence of files it writes, and may `Break` between any two
or inside a truncating write, which leaves an empty file. `config.toml` is the
user's own content (a revision number), the key in the managed block, and
whether the user configured the server himself. Between steps the user edits it,
puts links of his own where the skills go, or installs another release.
`plan.claimed` is history: that he claimed the server name while `uninstall-codex`
ran. Left
out: ports, images and compose files, incomplete markers, file modes, commands
that only report, and two commands at a time.

## Runs

| run | instance | shows |
|---|---|---|
| `deposit` | 2 processes, 2 keys, 2 versions, 2 hashes, fairness. On PostgreSQL, a deposit of two versions with one content, its dry run, the same key for another body, and a capture of the same content; the same on SQLite; one process with bodies of two new blobs | types, no dangling version, one effect per key, files accounted for, refinement of `DepositLedger`, every call ends although transactions wait for each other |
| `deposit_race` | 2 processes, SQLite, two new blobs | **violation** of `NoDanglingVersion` |
| `review` | 2 processes, 2 keys, both databases; three groups of clients: reviewers and deposits on a claim, refresh requests beside them, or a published claim and an entity | history, effects on the revision that was named, informed decisions, single effect, mirror, rejected revisions |
| `review_stale` | 2 reviewers, PostgreSQL, one claim | **violation** of `InformedClaimDecisions` |
| `review_retained` | 1 process through the v1 API | **violation** of `RetainedReviewTakesEffect` |
| `queue` | 2 processes, a bundle of 2 records for one backend and a v2 envelope for another, at most 2 lines when an enqueue begins, fairness | nothing lost, records stored once, refinement of `Outbox`, the flock is freed |
| `queue_split` | the same, the bundle's text has a U+2028 | **violation** of `EnqueuedIsListed` |
| `catalog` | `refresh`: 2 processes, 2 keys, both databases, captures that race, a source that changes, changes back, is gone or in several places, an enqueue and a dismissal. `library`: 2 writers on seven stages (a publication under suppression and deposit, two publications one after the other, a keyed report, one bundle created twice, two namespaces, a refresh, single creations) and 6 readers. `reading`: 3 searches and 4 gets, 2 writes. `anchors`: texts of up to 5 characters, every selector type, 2 captures. `git`: one file that is edited, moved, copied, removed or edited to a blob that is elsewhere, 1 commit, 2 packs, 2 captures | one open entry, keys accounted for, no silent change, what is cited is searchable; nothing private shown, published reports open, v2 records stay private; pages hold everything, parts belong together; evidence is where its selector says, and is unique; what a capture concludes of a repository is true |
| `refresh_lost` | 1 process, 2 keys, a capture fails and is repeated | **violation** of `CapturedIsReported` |
| `maintenance` | 2 migrators with 4 builds on 8 databases as found, on both programs; 2 clients that back up to one path and restore; at the `Desk`, 3 commands, 2 edits, 2 crashes | the ledger is true, migrations can be resumed, what is reported is kept, a manifest is one state, the user's content is kept |
| `dry_run` | 1 migrator, SQLite, the first embedded schema | **violation** of `DryRunLeavesNoTrace` |
| `upgrade` | 7 rows, batches of 1, on four kinds of place: interrupted and repeated runs beside a client (both databases), overlapping runs, two clients, adopted rows (5 of the rows each) | a rerun misses only late rows, errors are real, a claim shows with its evidence, the search index is current |

Each `Shape` is the conjunction of the type invariants of the modules of its run,
in `catalog` that of the part that moves.

Bounds. Two processes suffice for every race listed above: each is between one
call that acts and one that reads or holds something; no action has a guard
about more than one other process, and the proofs lift the safety properties to
any number. Two versions with one content are the
least for the stage-sharing path in `prepare`, two contents the least for a
deposit that fails between two finalizations. `MaxRevisions = 2` bounds only the
submission of deposits on a claim: supersede, contest and reject, and deposits
already submitted, still add revisions beyond it. The number of requests of a
client is bounded by its keys: each key is spent once. Symmetry is used in the
`review` run only, on processes and keys, which has no liveness property. Two
records in a bundle are the least for one that needs another, and two lines the
least for a torn line that a second append continues. `MaxLines` keeps enqueues
from repeating for ever; the same entry may be in the file twice.

`MaxEvidence = 4` leaves room for both quotations to be copied once and
captured again. `PageSize = 6` and `PartSize = 8` cut pages and answers in the
middle of the library; with `MaxListed = 3` a list is full before the library
is. Texts of 5 characters hold a quotation of 2 twice, overlapping, and a line
end. Batches of 1 put an interruption between any two rows. `MaxStarts = 3`
lets both migrators run and one come back after a crash; three commands are the
least for install, uninstall and a rerun of what was cut short.

Deadlock is not checked where clients may have spent their calls, which is
everywhere but in the runs of `Deposit` and `CaptureQueue`, whose calls may
begin again.

Fairness, in `Deposit!LiveSpec` and `CaptureQueue!LiveSpec`: weak fairness of
each process's steps, but of no start, no crash and no late request.
A running call is a thread that the system schedules; nothing obliges a client
to submit one, a process to crash, or a lock to be granted in any order. The
other modules state no fairness: a call in them may stop at every step, which
is what their safety properties are about.

## Proofs

TLAPS checks the proof modules. They assume nothing but the named assumptions
about the constants, which say what shape these have and which TLC evaluates for
each instance. Seven of them say more than a shape; that of `GitAssumption` is a bound,
the others hold for this code:

* `BackfillAssumption`: the v1 tables have foreign keys, so what a row needs is
  there before it is; a deposit refuses a supported claim without evidence, so an
  adopted one has a link.
* `MigrationAssumption`: the migrations that the embedded schema stands for
  (`Flat`) are the first ones and in every build, and one of them whose tables
  no start verifies creates none; later migrations create tables of their own;
  and a database is found with a ledger that is true of its tables.
* `BackupAssumption`: no archive and no manifest looks like a missing or a
  half-written file; an order to back up or to restore is one or the other.
* `ReadingAssumption`: no hit is larger than a page, since titles, summaries and
  queries are cut or refused above a length far below it, and a search asks for
  one hit or more.
* `AnchoringAssumption`: a submission is what the contract accepts
  (`SelectorWellFormed`, from the validators of `contracts/v2.py`), with a
  quotation that is not empty; the members and items of a JSON value are JSON
  values; and the digits of other scripts are neither a decimal digit of ASCII nor
  one of the two characters that a pointer gives a meaning.
* `GitAssumption`: the trees of a commit are at most three deep, and an entry names
  an object of its kind. The code goes as deep as a tree does; a deeper bound would
  need one more unfolding and no other argument. The initial pack counts, so
  `MaxPacks` is at least one.
* `RecordsAssumption`: what is there first is `WellFormed`, every record refers
  to records of its namespace and of the kinds the foreign keys name, and no
  kind has an id above its number of rows. Ids are random in the code; here
  they are numbered, and the clause says only that none is given out twice.

No set of processes, writers, clients, keys, versions or namespaces is assumed to
be finite (`Row` of a backfill is, as a table is).

`DepositProofs`. `AtMostOneEffect` is not inductive: that a receipt is absent
when a deposit commits depends on who may hold the key meanwhile. `KeyInv` adds
that (`KeysDistinct`) two open transactions never hold one key, which is the
unique index, and that (`KeyHeld`) the holder's key has no receipt.

* `RowsCorrect`: `RowInv` says the same of the version keys, and that a
  transaction which has prepared its snapshots sees the row of each of them. With
  it every step maps to a step of `DepositLedger` or to none
  (`LedgerImplemented`).
* `FilesStayAccounted`: what a call has still to finalize is staged, and only
  the call that made a file, or a crash or failure on record, answers for it.
* `DanglingOnlyBySharing`: `NoDanglingVersion` is false in general, as
  `deposit_race` shows. Where a request of several contents shares none of them
  with another process (`BlobsApart`), it holds: such a request alone undoes what
  it finalized, and for every other the file and its content row come and go
  together (`BlobInv`). `BlobsApart` is the condition that the settings of the
  run `deposit` meet.

`ReviewProofs`: every step either leaves the database alone or is a commit, and
leaves all other processes alone (`Frame`), so each property needs one argument
about `Apply`.

* `HistoryIsLinear`: no two transactions decide on one target (`RowHeld`), and
  one that decides has read the current pointer (`BaseFresh`). The unconditional
  pointer update of a deposit is safe for this reason alone.
* `EffectsOnNamed`: whatever a request reads, requests or decides is said of the
  revision that was current when it committed, also where the write does not
  compare again. It follows from `RowHeld` and `BaseFresh`; without the row lock a
  refresh request or a deposit breaks it.
* `RejectedNeverReviewed`: strengthened to all events, not only the latest
  (`NoApproval`).
* `MirrorIsCurrent`: an event that is no decision changes no effective state
  (`OnlyDecisionsCount`).
* `ReviewsApplyOnce`: an open transaction's key has no receipt and no second
  holder (`KeysOpen`).
* `DecisionsAreInformed`: what was read stays true until the commit, by the
  single writer of SQLite or by the row lock (`SeenFresh`). It is stated for
  the cases in which it is true; `review_stale` shows the remaining one.

`QueueProofs`: one inductive invariant (`TypeOK` and `IInv`) gives every safety
property and the refinement.

* `FlushOK`: while a process replays or rewrites, what it has in `work` and
  `kept` is in the file, and all of the file that is not in them is stored.
  It holds because the flock keeps the others at rest. `NothingIsLost` and the
  `Drop` steps of `QueueIsOutbox` follow; since these entries were read from
  readable lines, so does `AppendsDamage`.
* `ReplayOK` and `LateOK`: whoever asks for a part, now or in a request given
  up long ago, has seen the earlier parts stored, and the entry is in the file
  or stored. With the check of the unique index this gives `EachStoredOnce`.

Here the entries that split their line are any set, not the empty one of the
passing run.

`RefreshProofs`. `EntriesOK`: what a transaction has inserted and not committed
is open, in no queue and in no other transaction, by the single writer of SQLite
or the unique index of PostgreSQL; `OneOpenEntry` follows at each commit. `KeysOK`
ties a key in progress to the process whose reservation it is, and says that an
enqueue which writes has found its key free and shares it with nobody.
`SilentOK`: the evidence of deposits is anchored in the first version, and from the
moment this has a successor, all of it has its outcome, or one running capture
owes the outcomes of all of it, or a fault has cut it off.

On `Anchoring`, `AnchorInv` adds to the two properties what makes them inductive:
until the first capture, version, selector and verdict are those of the
submission; a capture changes positions and lines of a selector and nothing that
decides what it means (`SameMeaning`), and finds again only what is there once
(`FoundOnce`). The rest is about what the operators compute, for texts and
documents of any size:

* The search of `_unique_text_match`, position after position, lists every place in
  `Places` once (`FoundAll`), so that it resolves exactly when there is one
  (`UniqueMatch`).
* The bounds of a line and the line of a position, in newlines or in all that
  `str.splitlines` takes for one, agree (`LineEndIs`, `PlacesByLine`): so a
  quotation is on the named lines when it is between their bounds, and the lines
  that a capture writes for it resolve.
* A token has no slash and at most its own escapes, so that unescaping is the
  inverse of escaping (`EveryKeyReads`, `EveryTokenWrites`), and parsing digits the
  inverse of writing them, with neither a leading zero nor another script
  (`IndexOfDecimal`, `DecimalOfIndex`). With both, a walk from token to token is at
  the values that reading the pointer gives (`Walk`, `Agree`), and there is never
  more than one (`PointerOnce`).

The induction theorems of the library take an operator and cannot be used. What
they would give is proved here once, over sets: a function that is defined at each
number up to a bound by its values below exists and satisfies its equation
(`Recursion`), and a set that has each number whose predecessors it has, has all
(`UpTo`).

`MaintenanceProofs`, on `Migration`: whoever has the lock is alone in a
transaction, and `LedgerOK` says the same of what that transaction has done so
far as of what is committed; `ResumeOK` adds that the build of a transaction in
progress accepts it, and what a script still has to run (`ScriptOK`).
`DryRunsRollBack` is the part of the claim refuted by `dry_run` that is true. On
`Backup`: the composition refines `Migration`, so that the invariants of the
migration need no second proof; and a report stays true because a call owns what
it publishes (`OwnOK`) and what was reported is nobody's destination any more
(`ToldOK`), unless calls with one destination overlap. `Installer` runs apart from
both: between any two steps of a command (`DeskInv`), what `install-codex` is about
to take away is in the state file or in the plan that will be (`InstallOK`), what
`uninstall-codex` will forget is back in place or the user took the place himself
(`UninstallOK`), and a command whose copy of `config.toml` is not what is there was
overtaken by an edit (`ContentOK`). Two of its exceptions
were found by the proof: the user may claim the server name and give it up again
while `uninstall-codex` runs, and, after more commands than the run has, an `up`
backs up an emptied file after a block is in it again.

`BackfillProofs`. An item whose needs are met is never given up (`RealOK`), and
what a run has passed is handled (`HandledOK`), over any row numbers and batch
sizes. `OrderOK` and `LateOK` say that phases complete one after the other and
that what fits below a checkpoint is there, so that a complete backfill is one
undisturbed run but for late rows. `EvidenceOK`: a claim that has its pointer
and no link to its evidence is ahead of the run that links. `IndexOK`: a
document that is missing from the index was not read by a rebuild that has yet
to delete, or has deleted.

`LibraryProofs`. A call has what the rest of its transactions need (`Ready`),
which every list of transactions provides for itself, and what it has exists
(`HaveIn`); records only gain rows and change labels, so other calls are not
disturbed (`CallsStay`). A published report stays public with its graph
(`WholeIn`), because publications only widen what is public and a deposit relinks
private claims only; `PageInGraph` shows that the page needs nothing outside the
graph. `DocsIn` says where the projection may lag. For the readers it then
suffices that each of them reads with a key of its own and asks for private
records with the scope only (`Fair`, `ModesGranted`), and that evidence, the
newest session and report, and the owner of evidence are in one namespace.

Of `Retrieval`, `ResultsRanked` shows first that a search lists what is eligible,
each record once and the better one first: the keys are a strict order
(`BetterIsOrder`), so that every place is taken by one (`PlacesTaken`). `PagesInv`
follows a search from page to page: as long as nobody writes, the cursor is at the
end of what was answered, and that is a prefix of the list; a page makes progress,
since a hit fits into it (`FittingIs`). `PartsInv` follows a get: what was read of a
part is said of the tables as they are now, so that it is kept when these grow
(`HeldIsKept`), and when a part is read, nothing that is listed after it has been
(`OrderInv`). That the parts of a claim belong together depends on both. A list that
is shorter than its limit is whole (`FirstOfCut`).

`CatalogProofs`, on `GitSource`. `StoreOK`: the latest pack has all that the indexed ones have, so
that no repack or prune takes away what a commit stored (`NothingIsLost`).
`LookOK` carries this to the reader: an object that it has not found loose is in
a pack whose index it has still to read, and absent is only what was deleted under
it or never stored. `ResolveOK` says that the files at the path are those at the
rest of it below the tree where the walk is, `SearchOK` that the places of the blob
are those found so far and those below directories that are pending; both follow
name by name from what a tree holds (`AlongPath`, `PlacedStep`). `HeadsOK` says
that the branch was at whatever the reader takes it to be at. The files of a commit
are three unfoldings of its tree, not a recursion, so nothing is an induction.
`ShapeOK` is what the type invariant adds: a search ends when nothing is pending.

The compositions. A step of `Host` is a step of `Backup` or of `Installer` and
leaves the other alone, and so for the five parts of `Catalog`
(`HostImplementsParts`, `CatalogImplementsParts`). What is proved of a part
therefore holds of the whole that the run checks, the two `Shape`s included
(`HostTyped`, `CatalogTyped`).

Of the properties that hold, only `EveryCallEnds` and `LockIsFreed` are
model-checked and not proved: liveness under fairness is out of TLAPS's reach.

## Findings

1. `deposit_race`: a deposit that fails between two finalizations unlinks the
   blob it had finalized after its transaction released its locks. A capture of
   the same content can reuse the file and commit in between; its version then
   names a missing blob (`deposit.py:209`, against `source_versions.py:100`).
   The `deposit` run uses settings in which it cannot arise, because each
   body keeps to one content or only one process runs.
2. `review_stale`: on PostgreSQL a reviewer of a claim that waited for the row
   lock compares the review state of before the wait
   (`repositories.py:1369`). Two approvals of one unreviewed claim both succeed.
   The revision is compared correctly.
3. `review_retained`: a v1 approval derives its idempotency key from the record
   and the state it saw, so a second approval from the same state is taken for a
   replay, and the caller hears success (`service.py:1568`).
4. `queue_split`: `model_dump_json` leaves U+2028, U+2029 and U+0085 unescaped
   and `_list_pending_unlocked` splits lines with `str.splitlines`, which breaks
   at them: one such entry makes every later list and flush raise
   (`capture_queue.py:214`). Nothing is lost from the file (`NothingLost` does
   not depend on it), but nothing in it is delivered either until somebody
   repairs it. A torn append has the same effect; by `AppendsDamage` nothing but
   an append has.
5. `refresh_lost`: a capture commits the new version before it re-anchors the
   evidence of the previous one (`refresh.py:325`). If it fails in between, the
   repeated capture finds the version, records "same_immutable_version" and
   answers "captured": the old evidence is never re-anchored and nothing that
   cites it is queued. `NoSilentChange` holds everywhere else.
6. `dry_run`: on SQLite `executescript` commits the migrator's transaction
   (`service.py:2175`), so a dry run on an embedded schema older than version 4
   keeps what it did, for version 1 the dropped tables too; `docs/operations.md:113`
   says it rolls back.

### Observed besides

Read while modelling. No run checks these; where a model contains one, the
property that it would break is stated with that exception.

* Backfill. Nothing sets `resolved_at`, so one recorded error keeps every later
  run "incomplete". Overlapping backfills exclude each other by nothing
  (`OnlyLateRowsMissed` excepts them). Rows written while a backfill is
  incomplete are projected by the next rerun only, and on PostgreSQL a write
  that is open across a whole rerun is missed by it. `create_*` without a dedupe
  key duplicates rows.
* Search. Concurrent rebuilds on PostgreSQL, and `reindex` on SQLite, may drop the
  document of a row that another writer has just committed, until the next rebuild
  (`projection.py:95`): `rebuild_search_documents` reads before the DELETE that
  locks, and the verification does not see it. `SearchCurrent` excepts these rows
  and says that there is no other way to lose one. An offset cursor over a list
  that changes may repeat or skip. The freshness of a projected question depends
  on private sessions too.
* Refresh. A source that changes from A to B and back re-anchors the copies again
  and duplicates them, as do concurrent captures under different keys. Captures
  within one second are ordered by a random id. `failed` and `running` are
  never written as a status. On PostgreSQL a dismissal between the refused insert
  and the read that follows it ends in an error.
* v1 service. `publish` checks that its graph holds no v2 record and then updates
  it, with nothing locked in between (`service.py:1407`): a deposit or review that
  takes one of these records at that moment is published with it, which
  `docs/release-status.md:52` rules out. `NativeStaysPrivate` excepts these
  records and says that there is no other way. `publish` and `set_index_state`
  leave the projection as it was, and publishing again undoes a suppression. A
  report that is published without its cascade does not open. `create_report` that
  is retried after a crash before its last transaction never sets the question to
  "answered" (`service.py:936`). v1 creations attach private records to public
  parents (`docs/release-status.md:53` speaks of v2 only). A brief fails when one
  of its records is hidden meanwhile. The ids of private claims and sources are
  listed in a public report that links them.
* Fetch. A get that is too large loses `current_revision`, and the claim page then
  answers that there is none. A claim page may show parts of two revisions.
  Neighbours that the reader may not open take places among the related records.
  "Newer source version" also lists older ones, and `_source_versions` of the web
  pages compares with the next entry even when it is of another source. The
  review inbox takes the newest 200 of a kind before it filters.
* Selectors. `reanchor` counts newlines where `_line_bounds` uses `str.splitlines`
  (`AnchoredResolves` excepts texts with other separators). Offsets resolve
  without uniqueness, re-anchoring demands it. A superscript digit in a JSON
  pointer passes `isdigit` and fails in `int`; the decimal digits of other scripts
  pass both, and an index in them resolves although RFC 6901 has none
  (`domain/evidence.py`; `AnchoredOnce` excepts it). Selectors of pages and of DOM
  elements always stay unverified.
* Git. A file that Git deletes between the reader's look and its read counts as
  absent (`ingestion/git.py:766`), and so does an object of an alternate. The
  capture then looks for the blob of the previous version, and may report a file
  as moved, missing or ambiguous that is at its path (`CaptureIsTrue` excepts
  both).
* Installer. `config.toml` is written by truncation even when nothing changes; the
  `up` after a crash there saves the emptied file over the backup, and the backup
  of a second `up` holds a managed block, so that `--restore-codex-backup` leaves
  one (`docs/operations.md:161`; `ContentKept` excepts both truncations). A legacy
  block that comes back after it was captured is removed by the second install and
  not restored (`codex_install.py:360`, `docs/codex-plugin.md:82`). An install cut
  short between the payload and `plugin add` leaves the old plugin registered
  (`codex_install.py:456`). A truncated managed configuration makes every command
  refuse, as does a state file of a package root that has moved. `up` turns a
  personal configuration into a shared one, and `ensure_skill_links` replaces a
  link of the user. A crash between the issue of a key and its save leaves the key
  without a holder.

## Plan

Done: the models of all components with state of their own and of the capture
from Git, and the proofs of their safety properties. Left is what the components'
notes name as left out.

## Not modelled

* Source ingestion from the web and by DOI: the adapters return bytes or raise,
  which is the choice a stage or fetch step makes; the fetch policy is a predicate.
* Research helpers and local harnesses: clients that build requests and score
  answers.
* Data audit and locator checks: read-only reports and a predicate on strings.
* Contracts, release gates, evaluation: schemas and numbers, no state.
* Ranking of texts against a query is a constant of `Retrieval`; authentication
  of a token and argument validation refuse before any state is read; topics,
  question links, run records, API keys and namespaces as records have no
  operation that another one races with.

Every component that is modelled has the status "partly", since each leaves
something out; its note under `components` says what.
