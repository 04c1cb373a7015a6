------------------------------- MODULE Deposit -------------------------------
(***************************************************************************)
(* The v2 write path that couples database rows with blob files:           *)
(* ResearchDepositService.deposit (application/deposit.py) and             *)
(* SourceVersionService.create_or_reuse (application/source_versions.py),  *)
(* run by several processes against one database and one blob directory.   *)
(*                                                                         *)
(* A job is one call.  It stages the snapshot bodies of its request, opens *)
(* a transaction, looks its idempotency key up, prepares one source        *)
(* version after the other, writes its other records, finalizes the blobs  *)
(* that are new, and commits.  Every exception rolls the transaction back, *)
(* then a deposit removes the blobs it had finalized, then the stage files *)
(* are discarded; a crash does none of this.                               *)
(*                                                                         *)
(* Rows a transaction has written are kept apart (newKey, newVersions)     *)
(* until the commit.  On SQLite the write lock lets one transaction write  *)
(* at a time; on PostgreSQL they overlap and only the unique indexes make  *)
(* one wait for the other.                                                 *)
(***************************************************************************)
EXTENDS BlobStore, Sequences, FiniteSets

CONSTANTS
  Key, Body, NoBody,
  Version,          \* version identities: (source, version key)
  Items,            \* Items[b]: the snapshots of body b, <<version, hash>>
  Job,              \* the calls: [kind, key, body]
  NoJob,
  Setting           \* [backend, jobs]: a database, the calls each process makes

Kind == {"deposit", "validate", "capture"}

ASSUME DepositAssumption ==
  /\ Items \in [Body -> Seq(Version \X Hash)]
  /\ NoBody \notin Body
  /\ Job \subseteq [kind : Kind, key : Key, body : Body]
  /\ \A j \in Job : j.kind = "capture" => Len(Items[j.body]) = 1
  /\ NoJob \notin Job
  /\ Setting \subseteq [backend : {"sqlite", "postgres"},
                       jobs : [Proc -> SUBSET Job]]

VARIABLES
  setting,      \* the database and the clients, chosen once
  receipt,      \* committed v2_idempotency rows: key -> body
  contents,     \* committed content_objects rows (hashes)
  versions,     \* committed source_versions rows: <<version, hash>>
  pc,           \* where process p is in its call
  job,          \* its call
  item,         \* the snapshot it stages or prepares next
  newKey,       \* its transaction inserted the idempotency row
  newVersions,  \* source_versions rows its transaction inserted
  newContents,  \* content_objects rows its transaction inserted
  todo,         \* snapshots whose blob it has yet to finalize
  made,         \* hashes whose final file it created in this call
  reply,        \* how its last call ended
  effects,      \* history: committed deposits under each key
  orphans       \* history: hashes a failure may have left without a row

dbVars == <<receipt, contents, versions>>
txnVars == <<newKey, newVersions, newContents>>
blobWork == <<todo, made>>
history == <<effects, orphans>>
vars == <<setting, blobVars, dbVars, pc, job, item, txnVars, blobWork, reply, history>>

Rows == [b \in Body |-> {Items[b][i] : i \in DOMAIN Items[b]}]

Serialized == setting.backend = "sqlite"

\* The locations at which p's write transaction is open.
Open == {"check", "prepare", "write", "finalize"}
Busy == Open \cup {"stage", "begin", "undo", "discard"}
Outcome == {"none", "committed", "replayed", "validated", "captured",
            "conflict", "error"}

BodyOf(p) == job[p].body
ItemsOf(p) == Items[BodyOf(p)]
Snapshots(p) == DOMAIN ItemsOf(p)
HashAt(p, i) == ItemsOf(p)[i][2]

Init ==
  /\ setting \in Setting
  /\ BlobInit
  /\ receipt = [k \in Key |-> NoBody]
  /\ contents = {}
  /\ versions = {}
  /\ pc = [p \in Proc |-> "idle"]
  /\ job = [p \in Proc |-> NoJob]
  /\ item = [p \in Proc |-> 1]
  /\ newKey = [p \in Proc |-> FALSE]
  /\ newVersions = [p \in Proc |-> {}]
  /\ newContents = [p \in Proc |-> {}]
  /\ todo = [p \in Proc |-> {}]
  /\ made = [p \in Proc |-> {}]
  /\ reply = [p \in Proc |-> "none"]
  /\ effects = [k \in Key |-> 0]
  /\ orphans = {}

Goto(p, there) == pc' = [pc EXCEPT ![p] = there]

-----------------------------------------------------------------------------
(***************************************************************************)
(* Leaving a call                                                          *)
(***************************************************************************)

\* Variant: the rollback releases the key and forgets the version rows.
RollbackKeyOnly(p) ==
  /\ newKey' = [newKey EXCEPT ![p] = FALSE]
  /\ UNCHANGED <<newVersions, newContents>>

\* UnitOfWork.__exit__ and connect_database roll back and close: p's rows
\* are gone and its locks are free before any outer handler runs.
RollbackRows(p) ==
  /\ newKey' = [newKey EXCEPT ![p] = FALSE]
  /\ newVersions' = [newVersions EXCEPT ![p] = {}]
  /\ newContents' = [newContents EXCEPT ![p] = {}]

\* Variant: the handler does not ask whether the commit was started.
UndoAnyway(p, commitStarted) ==
  IF job[p].kind = "deposit" /\ made[p] # {} THEN "undo" ELSE "discard"

\* Variant: the handler leaves finalized blobs alone.
NeverUndo(p, commitStarted) == "discard"

\* Where an exception leads: a deposit that has not begun its commit undoes
\* its finalized blobs, every call then discards its stage files.
AfterException(p, commitStarted) ==
  IF /\ job[p].kind = "deposit" /\ ~commitStarted /\ made[p] # {}
    THEN "undo" ELSE "discard"

\* The call is over but for the handlers: its transaction is rolled back
\* (a no-op before it was opened) and the outcome is known.
Leave(p, outcome, commitStarted) ==
  /\ RollbackRows(p)
  /\ Goto(p, AfterException(p, commitStarted))
  /\ reply' = [reply EXCEPT ![p] = outcome]
  /\ todo' = [todo EXCEPT ![p] = {}]
  /\ UNCHANGED <<dbVars, job, item, effects>>

\* An exception that disturbs no file.
Fail(p, outcome) ==
  /\ Leave(p, outcome, FALSE)
  /\ UNCHANGED <<blobVars, made, orphans>>

-----------------------------------------------------------------------------
(***************************************************************************)
(* Staging, before the transaction                                         *)
(***************************************************************************)

Submit(p, j) ==
  /\ pc[p] = "idle"
  /\ j \in setting.jobs[p]
  /\ Goto(p, "stage")
  /\ job' = [job EXCEPT ![p] = j]
  /\ reply' = [reply EXCEPT ![p] = "none"]
  /\ UNCHANGED <<blobVars, dbVars, item, txnVars, blobWork, history>>

StageSnapshot(p) ==
  /\ pc[p] = "stage"
  /\ item[p] \in Snapshots(p)
  /\ StageBytes(p, item[p])
  /\ item' = [item EXCEPT ![p] = @ + 1]
  /\ UNCHANGED <<dbVars, pc, job, txnVars, blobWork, reply, history>>

Staged(p) ==
  /\ pc[p] = "stage"
  /\ item[p] \notin Snapshots(p)
  /\ Goto(p, "begin")
  /\ UNCHANGED <<blobVars, dbVars, job, item, txnVars, blobWork, reply, history>>

\* A write error, or a digest or size that contradicts the request.
StageFails(p) ==
  /\ pc[p] = "stage"
  /\ Fail(p, "error")

-----------------------------------------------------------------------------
(***************************************************************************)
(* The transaction                                                         *)
(***************************************************************************)

Others(p) == {q \in Proc \ {p} : pc[q] \in Open}

\* SQLite's write lock: a deposit takes it with BEGIN IMMEDIATE, a capture
\* with the first row it writes (a version, else the search projection).
HoldsWriteLock(q) ==
  \/ job[q].kind # "capture"
  \/ newVersions[q] # {}
  \/ pc[q] \in {"write", "finalize"}

WriteLockFree(p) == Serialized => \A q \in Others(p) : ~HoldsWriteLock(q)

NeedsWriteLock(p) ==
  \/ pc[p] = "begin" /\ job[p].kind # "capture"
  \/ pc[p] = "prepare" /\ item[p] \notin Snapshots(p)

\* A capture has no key to check.
Begin(p) ==
  /\ pc[p] = "begin"
  /\ NeedsWriteLock(p) => WriteLockFree(p)
  /\ Goto(p, IF job[p].kind = "capture" THEN "prepare" ELSE "check")
  /\ item' = [item EXCEPT ![p] = 1]
  /\ UNCHANGED <<blobVars, dbVars, job, txnVars, blobWork, reply, history>>

\* Variant: no busy timeout.
WaitForLock(p) == FALSE

\* SQLite gives up waiting for the write lock ("database is locked").
LockTimeout(p) ==
  /\ NeedsWriteLock(p)
  /\ ~WriteLockFree(p)
  /\ Fail(p, "error")

Spent(p) == receipt[job[p].key] # NoBody
SameRequest(p) == receipt[job[p].key] = BodyOf(p)

\* _existing_idempotency_result: the key belongs to another request, or the
\* stored receipt (for a dry run: a bare "validated") is the answer.
AnswerFromReceipt(p) ==
  /\ pc[p] = "check"
  /\ Spent(p)
  /\ Fail(p, IF ~SameRequest(p) THEN "conflict"
             ELSE IF job[p].kind = "validate" THEN "validated"
             ELSE "replayed")

\* Variant: no unique index on the idempotency key.
KeyNotIndexed(p) == TRUE

\* INSERT ... ON CONFLICT DO NOTHING waits while another transaction holds
\* an uncommitted row for the key.
KeyFree(p) == \A q \in Others(p) : newKey[q] => job[q].key # job[p].key

\* reserve_idempotency; a dry run reserves nothing.
ReserveKey(p) ==
  /\ pc[p] = "check"
  /\ ~Spent(p)
  /\ job[p].kind = "deposit" => KeyFree(p)
  /\ Goto(p, "prepare")
  /\ newKey' = [newKey EXCEPT ![p] = job[p].kind = "deposit"]
  /\ UNCHANGED <<blobVars, dbVars, job, item, newVersions, newContents,
                 blobWork, reply, history>>

\* What p's transaction reads: committed rows and its own.
SeenVersions(p) == versions \cup newVersions[p]
SeenContents(p) == contents \cup newContents[p]
PendingHash(p) == {HashAt(p, i) : i \in todo[p]}

\* A reused body must be readable, unless this call will finalize it.
BodyAvailable(p, h) == h \in PendingHash(p) \/ Readable(h)

\* Preparing snapshot i of p's request, whose row is <<v, h>>.
Preparing(p) == pc[p] = "prepare" /\ item[p] \in Snapshots(p)
KnownVersion(p, v) == \E row \in SeenVersions(p) : row[1] = v

\* Variant: no unique indexes on versions and content objects.
RowsNotIndexed(p, v, h) == TRUE

\* SQLite's write lock is free, and no other transaction holds an uncommitted
\* row that clashes on a unique index: (source, version key), or the content
\* hash.  (A deposit on PostgreSQL locks its source identities until it ends,
\* find_source: it waits for another deposit's version before it inserts.)
RowsFree(p, v, h) ==
  /\ WriteLockFree(p)
  /\ \A q \in Others(p) :
       /\ \A row \in newVersions[q] : row[1] # v
       /\ h \notin SeenContents(p) => h \notin newContents[q]

\* The version exists with the same content: its stage file is dropped.
ReuseVersion(p) ==
  LET row == ItemsOf(p)[item[p]] IN
  /\ Preparing(p)
  /\ row \in SeenVersions(p)
  /\ BodyAvailable(p, row[2])
  /\ Discard(p, item[p])
  /\ item' = [item EXCEPT ![p] = @ + 1]
  /\ UNCHANGED <<dbVars, pc, job, txnVars, blobWork, reply, history>>

\* A new version of content that is already an object.
ReuseContent(p) ==
  LET row == ItemsOf(p)[item[p]] IN
  /\ Preparing(p)
  /\ ~KnownVersion(p, row[1])
  /\ row[2] \in SeenContents(p)
  /\ BodyAvailable(p, row[2])
  /\ RowsFree(p, row[1], row[2])
  /\ Discard(p, item[p])
  /\ newVersions' = [newVersions EXCEPT ![p] = @ \cup {row}]
  /\ item' = [item EXCEPT ![p] = @ + 1]
  /\ UNCHANGED <<dbVars, pc, job, newKey, newContents, blobWork, reply, history>>

\* A new version of new content: its blob is finalized before the commit.
InsertContent(p) ==
  LET row == ItemsOf(p)[item[p]] IN
  /\ Preparing(p)
  /\ ~KnownVersion(p, row[1])
  /\ row[2] \notin SeenContents(p)
  /\ RowsFree(p, row[1], row[2])
  /\ newVersions' = [newVersions EXCEPT ![p] = @ \cup {row}]
  /\ newContents' = [newContents EXCEPT ![p] = @ \cup {row[2]}]
  /\ todo' = [todo EXCEPT ![p] = @ \cup {item[p]}]
  /\ item' = [item EXCEPT ![p] = @ + 1]
  /\ UNCHANGED <<blobVars, dbVars, pc, job, newKey, made, reply, history>>

\* Variant: a clash waits for ever.
WaitForever(p) ==
  LET row == ItemsOf(p)[item[p]] IN
  /\ Preparing(p)
  /\ \/ KnownVersion(p, row[1]) /\ row \notin SeenVersions(p)
     \/ row[2] \in SeenContents(p) /\ ~BodyAvailable(p, row[2])
  /\ Fail(p, "error")

\* SourceVersionConflict: the version key names other content.
\* ContentObjectMissing: the row exists, its file does not.
\* A clash with another transaction ends in a unique violation once that one
\* commits (a capture on SQLite may have read before it did), or in a
\* deadlock or timeout error.
PrepareFails(p) ==
  LET row == ItemsOf(p)[item[p]] IN
  /\ Preparing(p)
  /\ \/ KnownVersion(p, row[1]) /\ row \notin SeenVersions(p)
     \/ row[2] \in SeenContents(p) /\ ~BodyAvailable(p, row[2])
     \/ ~KnownVersion(p, row[1]) /\ ~RowsFree(p, row[1], row[2])
  /\ Fail(p, "error")

\* A reservation that waits for another one may be a deadlock victim.
ReserveFails(p) ==
  /\ pc[p] = "check"
  /\ ~Spent(p)
  /\ job[p].kind = "deposit" /\ ~KeyFree(p)
  /\ Fail(p, "error")

Prepared(p) ==
  /\ pc[p] = "prepare"
  /\ item[p] \notin Snapshots(p)
  /\ WriteLockFree(p)
  /\ Goto(p, "write")
  /\ UNCHANGED <<blobVars, dbVars, job, item, txnVars, blobWork, reply, history>>

\* Evidence, claims, report, pointers, search projection, audit row and the
\* completed receipt, all rows of p's own.  A dry run returns here, and its
\* transaction is rolled back with the rest.
WriteRecords(p) ==
  /\ pc[p] = "write"
  /\ job[p].kind # "validate"
  /\ Goto(p, "finalize")
  /\ UNCHANGED <<blobVars, dbVars, job, item, txnVars, blobWork, reply, history>>

ReturnValidated(p) ==
  /\ pc[p] = "write"
  /\ job[p].kind = "validate"
  /\ Fail(p, "validated")

\* A public source, a reference not found, a rejected anchor, an expected
\* revision that does not match, any SQL error: wherever the request is
\* refused inside the transaction, all of its rows are rolled back.
WriteFails(p) ==
  /\ pc[p] = "write"
  /\ Fail(p, "error")

FinalizeBlob(p, i) ==
  LET h == HashAt(p, i) IN
  /\ pc[p] = "finalize"
  /\ i \in todo[p]
  /\ Finalize(p, i, h)
  /\ todo' = [todo EXCEPT ![p] = @ \ {i}]
  /\ made' = [made EXCEPT ![p] = IF Reused(h) THEN @ ELSE @ \cup {h}]
  /\ UNCHANGED <<dbVars, pc, job, item, txnVars, reply, history>>

\* An I/O error or an integrity failure of one of the blobs.  A capture
\* never takes a finalized blob back.
FinalizeFails(p) ==
  /\ pc[p] = "finalize"
  /\ todo[p] # {}
  /\ Fail(p, "error")

\* finalize raises after the rename (chmod or fsync fail): the file has its
\* final name, but the deposit does not know that it made it.
FinalizeInterrupted(p, i) ==
  LET h == HashAt(p, i) IN
  /\ pc[p] = "finalize"
  /\ i \in todo[p]
  /\ ~Reused(h)
  /\ Finalize(p, i, h)
  /\ Leave(p, "error", FALSE)
  /\ orphans' = orphans \cup {h}
  /\ UNCHANGED made

\* The rows of p's transaction become visible at once.
CommitRows(p) ==
  /\ receipt' = IF newKey[p] THEN [receipt EXCEPT ![job[p].key] = BodyOf(p)]
                ELSE receipt
  /\ contents' = contents \cup newContents[p]
  /\ versions' = versions \cup newVersions[p]
  /\ effects' = IF newKey[p] THEN [effects EXCEPT ![job[p].key] = @ + 1]
                ELSE effects
  /\ RollbackRows(p)

Commit(p) ==
  /\ pc[p] = "finalize"
  /\ todo[p] = {}
  /\ CommitRows(p)
  /\ reply' = [reply EXCEPT
       ![p] = IF job[p].kind = "capture" THEN "captured" ELSE "committed"]
  /\ Goto(p, "discard")
  /\ UNCHANGED <<blobVars, job, item, todo, made, orphans>>

\* commit() raises.  Nothing was committed, and the finalized blobs stay.
CommitFails(p) ==
  /\ pc[p] = "finalize"
  /\ todo[p] = {}
  /\ Leave(p, "error", TRUE)
  /\ orphans' = orphans \cup made[p]
  /\ UNCHANGED <<blobVars, made>>

\* The server committed, but the connection broke before it could say so.
CommitUnacknowledged(p) ==
  /\ pc[p] = "finalize"
  /\ todo[p] = {}
  /\ ~Serialized
  /\ CommitRows(p)
  /\ reply' = [reply EXCEPT ![p] = "error"]
  /\ Goto(p, AfterException(p, TRUE))
  /\ UNCHANGED <<blobVars, job, item, todo, made, orphans>>

-----------------------------------------------------------------------------
(***************************************************************************)
(* The exception handlers, outside the transaction                         *)
(***************************************************************************)

UndoFinalize(p, h) ==
  /\ pc[p] = "undo"
  /\ h \in made[p]
  /\ RollbackFinalize(h)
  /\ made' = [made EXCEPT ![p] = @ \ {h}]
  /\ Goto(p, IF made[p] = {h} THEN "discard" ELSE "undo")
  /\ UNCHANGED <<dbVars, job, item, txnVars, todo, reply, history>>

\* rollback_finalize raises: the remaining blobs are not tried.
UndoFails(p) ==
  /\ pc[p] = "undo"
  /\ Goto(p, "discard")
  /\ orphans' = orphans \cup made[p]
  /\ made' = [made EXCEPT ![p] = {}]
  /\ UNCHANGED <<blobVars, dbVars, job, item, txnVars, todo, reply, effects>>

DiscardStages(p) ==
  /\ pc[p] = "discard"
  /\ DiscardAll(p)
  /\ made' = [made EXCEPT ![p] = {}]
  /\ item' = [item EXCEPT ![p] = 1]
  /\ Goto(p, "idle")
  /\ UNCHANGED <<dbVars, job, txnVars, todo, reply, history>>

\* The process dies: the database rolls its transaction back, its files stay.
Crash(p) ==
  /\ pc[p] \in Busy
  /\ RollbackRows(p)
  /\ LoseStages(p, {HashAt(p, i) : i \in stage[p]})
  /\ todo' = [todo EXCEPT ![p] = {}]
  /\ made' = [made EXCEPT ![p] = {}]
  /\ orphans' = orphans \cup made[p]
  /\ reply' = [reply EXCEPT ![p] = "none"]
  /\ item' = [item EXCEPT ![p] = 1]
  /\ Goto(p, "idle")
  /\ UNCHANGED <<dbVars, job, effects>>

-----------------------------------------------------------------------------
Stage(p) == StageSnapshot(p) \/ Staged(p) \/ StageFails(p)

CheckKey(p) == AnswerFromReceipt(p) \/ ReserveKey(p) \/ ReserveFails(p)

Prepare(p) ==
  \/ ReuseVersion(p) \/ ReuseContent(p) \/ InsertContent(p)
  \/ PrepareFails(p) \/ Prepared(p)

Write(p) == WriteRecords(p) \/ ReturnValidated(p) \/ WriteFails(p)

Finish(p) ==
  \/ \E i \in todo[p] : FinalizeBlob(p, i) \/ FinalizeInterrupted(p, i)
  \/ FinalizeFails(p)
  \/ Commit(p) \/ CommitFails(p) \/ CommitUnacknowledged(p)

Unwind(p) ==
  \/ \E h \in made[p] : UndoFinalize(p, h)
  \/ UndoFails(p) \/ DiscardStages(p)

Step(p) ==
  /\ \/ Stage(p) \/ Begin(p) \/ LockTimeout(p) \/ CheckKey(p) \/ Prepare(p)
     \/ Write(p) \/ Finish(p) \/ Unwind(p)
  /\ UNCHANGED setting

Next ==
  \E p \in Proc :
    \/ \E j \in Job : Submit(p, j) /\ UNCHANGED setting
    \/ Step(p)
    \/ Crash(p) /\ UNCHANGED setting

Spec == Init /\ [][Next]_vars

\* A process that runs a call keeps running it; nobody has to submit one.
LiveSpec == Spec /\ \A p \in Proc : WF_vars(Step(p))
-----------------------------------------------------------------------------
(***************************************************************************)
(* Properties                                                              *)
(***************************************************************************)

ShapeOK ==
  /\ files \subseteq Hash
  /\ stage \in [Proc -> SUBSET Nat]
  /\ stale \subseteq Hash
  /\ receipt \in [Key -> Body \cup {NoBody}]
  /\ contents \subseteq Hash
  /\ versions \subseteq Version \X Hash
  /\ pc \in [Proc -> Busy \cup {"idle"}]
  /\ job \in [Proc -> Job \cup {NoJob}]
  /\ item \in [Proc -> Nat \ {0}]
  /\ newKey \in [Proc -> BOOLEAN]
  /\ newVersions \in [Proc -> SUBSET (Version \X Hash)]
  /\ newContents \in [Proc -> SUBSET Hash]
  /\ todo \in [Proc -> SUBSET Nat]
  /\ made \in [Proc -> SUBSET Hash]
  /\ reply \in [Proc -> Outcome]
  /\ effects \in [Key -> Nat]
  /\ orphans \subseteq Hash

\* A call that runs has a job and works on snapshots of its request; one that
\* ended left no stage file behind.
CallOK(p) ==
  IF pc[p] = "idle"
    THEN stage[p] = {}
    ELSE /\ job[p] \in Job
         /\ stage[p] \cup todo[p] \subseteq Snapshots(p)

\* Only an open transaction has rows of its own and blobs to finalize.
TxnOK(p) ==
  pc[p] \notin Open =>
    ~newKey[p] /\ newVersions[p] = {} /\ newContents[p] = {} /\ todo[p] = {}

\* The shape of every reachable state, the calls and transactions in it.
TypeOK == ShapeOK /\ \A p \in Proc : CallOK(p) /\ TxnOK(p)

\* Every committed source version names a content object whose file can be
\* read ("never a dangling DB row", source_versions.py:103).
NoDanglingVersion ==
  \A row \in versions : row[2] \in contents /\ Readable(row[2])

\* However many calls race on a key, fail, crash and are retried, at most one
\* of them has an effect, and the receipt exists exactly when it has.
AtMostOneEffect ==
  \A k \in Key : effects[k] = IF receipt[k] = NoBody THEN 0 ELSE 1

\* A client that was told "committed" or "replayed" finds its own request
\* under its key, whatever happened since.
SuccessIsDurable ==
  \A p \in Proc :
    reply[p] \in {"committed", "replayed"} => SameRequest(p)

\* What a call has still to finalize is staged, also after the stage files of
\* its reused snapshots were dropped; and a final file has a committed row, or
\* belongs to a call in progress, or is one of the orphans that a crash, a
\* failed fsync, commit or cleanup left: a refused deposit takes its blobs back
\* (test_v2_deposit.py:792).
FilesAccounted ==
  /\ \A p \in Proc : todo[p] \subseteq stage[p]
  /\ files \subseteq contents \cup orphans \cup UNION {made[p] : p \in Proc}

\* Seen from outside the processes, a deposit is one atomic step of the
\* ledger, taken at its commit.
Ledger == INSTANCE DepositLedger
ImplementsLedger == Ledger!LedgerSpec

\* Every call ends: a wait for a lock ends with the lock or with an error.
EveryCallEnds == \A p \in Proc : pc[p] # "idle" ~> pc[p] = "idle"
==============================================================================
