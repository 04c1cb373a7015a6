------------------------------- MODULE Migration -------------------------------
(***************************************************************************)
(* Schema migrations: MigrationRunner.migrate (migration_runner.py) with   *)
(* the embedded legacy schema that it brings up to date and adopts         *)
(* (RegistryService._migrate_schema_legacy, _create_schema_legacy).        *)
(*                                                                         *)
(* Migrators of different builds of the program work on one database: the  *)
(* packaged migrations of a build are a sequence of checksums, and newer   *)
(* builds package more of them.  A migrator holds the migration lock (an   *)
(* flock beside the SQLite file, an advisory lock on PostgreSQL) and works *)
(* in one transaction - except that executescript, which creates the       *)
(* legacy schema, commits what is open on SQLite and then runs its         *)
(* statements one by one.                                                  *)
(*                                                                         *)
(* A schema is its tables, the version in schema_meta and the ledger       *)
(* schema_migrations; the columns that a migration adds to a table are not *)
(* told apart from the table.  Rows are counted, to see what happens to    *)
(* data.  Platforms without a file lock are left out.                      *)
(***************************************************************************)
EXTENDS Naturals, Sequences, FiniteSets

CONSTANTS
  Proc, NoOne, NoCall,
  Absent, Empty,     \* schema_meta is not there, or has no row
  Table,
  Id,                \* the migrations, 1 and up
  Flat,              \* the ones that the legacy schema represents
  Checked,           \* the ones whose tables every start verifies
  NonTransactional,
  Creates,           \* Creates[m]: the tables of migration m
  Predecessor,       \* tables of the first schema, which are dropped
  Build,             \* sequences of checksums
  Call,              \* [build, target, dry]
  Origin,            \* databases as they are found: [tables, meta, ledger]
  Place,             \* [backend, origin, calls, writes]
  MaxStarts          \* bound on the calls of all migrators

LegacyVersion == 4

Managed == UNION {Creates[m] : m \in Checked}
LegacyTables == UNION {Creates[m] : m \in Flat}

Ids(ledger) == {e[1] : e \in ledger}

\* Every migration that a build packages has one checksum there.
Checksum == UNION {{b[m] : m \in DOMAIN b} : b \in Build}

Schema ==
  [tables : SUBSET Table, meta : Nat \cup {Absent, Empty},
   ledger : SUBSET (Id \X Checksum)]

ASSUME MigrationAssumption ==
  /\ Id \subseteq Nat \ {0}
  /\ Flat \subseteq Id /\ Checked \subseteq Id
  /\ \A m \in Flat, n \in Id : n < m => n \in Flat
  /\ \A m \in Flat \ Checked : Creates[m] = {}
  /\ NonTransactional \subseteq Id
  /\ Creates \in [Id -> SUBSET Table]
  /\ Predecessor \subseteq Table
  /\ Call \subseteq [build : Build, target : Id, dry : BOOLEAN]
  /\ \A b \in Build : DOMAIN b \subseteq Id
  /\ \A b \in Build : Flat \subseteq DOMAIN b
  /\ \A c \in Call : c.target \in DOMAIN c.build
  /\ NoOne \notin Proc /\ NoCall \notin Call
  /\ Absent \notin Nat /\ Empty \notin Nat /\ Absent # Empty
  /\ MaxStarts \in Nat
  /\ \A m \in Id \ Flat : \A n \in Id \ {m} : Creates[m] \cap Creates[n] = {}
  /\ \A m \in Id \ Flat : Creates[m] \cap Predecessor = {}
  /\ Origin \subseteq Schema
  /\ \A d \in Origin :
       /\ \A e \in d.ledger : Creates[e[1]] \subseteq d.tables
       /\ \A m \in Id \ Flat :
            m \notin Ids(d.ledger) => Creates[m] \cap d.tables = {}
  /\ Place \subseteq
       [backend : {"sqlite", "postgres"}, origin : Origin,
        calls : [Proc -> SUBSET Call], writes : Nat]

VARIABLES
  place,     \* the database program, how it was found, who works on it
  schema,    \* committed: [tables, meta, ledger]
  rows,      \* committed: how many rows a table has
  lock,      \* the migration lock
  pc, call,
  work,      \* the schema as the lock holder's transaction sees it
  dropped,   \* tables that it has dropped
  script,    \* statements that executescript has still to run: tables
  starts,
  ran,       \* history: how often a migration was executed, in what is committed
  running,   \* the same for the open transaction
  torn       \* history: executescript was cut short

migrationVars == <<place, schema, rows, lock, pc, call, work, dropped, script,
                   starts, ran, running, torn>>
transaction == <<work, dropped, running>>

OnSqlite == place.backend = "sqlite"

-----------------------------------------------------------------------------
(***************************************************************************)
(* What a migrator verifies                                                *)
(***************************************************************************)

\* Managed tables that nothing accounts for.
Unexplained(s) ==
  s.ledger = {} /\ s.meta = Absent /\ s.tables \cap Managed # {}

InOrder(b, ledger) ==
  \A m \in Ids(ledger), n \in DOMAIN b : n < m => n \in Ids(ledger)

\* _validate_applied
Valid(b, s) ==
  /\ ~Unexplained(s)
  /\ \A e \in s.ledger : e[1] \in DOMAIN b /\ e[2] = b[e[1]]
  /\ InOrder(b, s.ledger)
  /\ \A m \in Ids(s.ledger) \cap Checked : Creates[m] \subseteq s.tables

Selected(c) == {m \in DOMAIN c.build : m <= c.target}
Pending(c, s) == Selected(c) \ Ids(s.ledger)

\* What the transaction executes: a dry run skips what cannot be rolled back.
Executable(c, s) == Pending(c, s) \ NonTransactional

\* Variant: what cannot be rolled back is always skipped.
NeverRefused(c, s) == FALSE

Refused(c, s) == ~c.dry /\ Pending(c, s) \cap NonTransactional # {}

\* ON CONFLICT DO NOTHING: an entry that exists stays as it is.
Record(ms, b, ledger) ==
  ledger \cup {<<m, b[m]>> : m \in ms \ Ids(ledger)}

Adopt(b, s) == [s EXCEPT !.ledger = Record(Flat, b, @)]

\* An embedded schema that is older than the last one.
Outdated(s) == s.meta \in Nat /\ s.meta < LegacyVersion

-----------------------------------------------------------------------------
MigrationInit ==
  /\ place \in Place
  /\ schema = place.origin
  /\ rows = [t \in Table |-> IF t \in place.origin.tables THEN 1 ELSE 0]
  /\ lock = NoOne
  /\ pc = [p \in Proc |-> "idle"]
  /\ call = [p \in Proc |-> NoCall]
  /\ work = place.origin
  /\ dropped = {}
  /\ script = {}
  /\ starts = 0
  /\ ran = [m \in Id |-> 0]
  /\ running = [m \in Id |-> 0]
  /\ torn = FALSE

Goto(p, there) == pc' = [pc EXCEPT ![p] = there]

\* What a commit of the open transaction makes of the rows.
Kept(r) == [t \in Table |-> IF t \in dropped THEN 0 ELSE r[t]]

Start(p, c) ==
  /\ pc[p] = "idle"
  /\ starts < MaxStarts
  /\ starts' = starts + 1
  /\ call' = [call EXCEPT ![p] = c]
  /\ Goto(p, "lock")
  /\ UNCHANGED <<place, schema, rows, lock, transaction, script, ran, torn>>

Acquire(p) ==
  /\ pc[p] = "lock"
  /\ lock = NoOne
  /\ lock' = p
  /\ Goto(p, "begin")
  /\ UNCHANGED <<place, schema, rows, call, transaction, script, starts, ran,
                 torn>>

\* BEGIN EXCLUSIVE on SQLite; the ledger is read and verified.
Begin(p) ==
  /\ pc[p] = "begin"
  /\ work' = schema
  /\ dropped' = {}
  /\ running' = ran
  /\ Goto(p, IF Valid(call[p].build, schema)
               THEN IF schema.ledger = {} THEN "bootstrap" ELSE "apply"
               ELSE "rollback")
  /\ UNCHANGED <<place, schema, rows, lock, call, script, starts, ran, torn>>

-----------------------------------------------------------------------------
(***************************************************************************)
(* _bootstrap_schema: a database that has no ledger yet                    *)
(***************************************************************************)

\* Nothing is there, or nothing that the program knows.
Fresh(p) ==
  /\ pc[p] = "bootstrap"
  /\ work.meta = Absent
  /\ Goto(p, "apply")
  /\ UNCHANGED <<place, schema, rows, lock, call, transaction, script, starts,
                 ran, torn>>

\* The ledger gets the migrations that the legacy schema stands for; then
\* everything is verified again.
AdoptLegacy(p) ==
  /\ pc[p] = "bootstrap"
  /\ work.meta # Absent /\ ~Outdated(work)
  /\ work' = Adopt(call[p].build, work)
  /\ Goto(p, IF Valid(call[p].build, work') THEN "apply" ELSE "rollback")
  /\ UNCHANGED <<place, schema, rows, lock, call, dropped, running, script,
                 starts, ran, torn>>

\* The first schema is dropped, later ones get the missing columns.
Updated(s) ==
  IF s.meta < 2
    THEN [tables |-> s.tables \ (Predecessor \cup LegacyTables),
          meta |-> Absent, ledger |-> s.ledger]
    ELSE [s EXCEPT !.meta = LegacyVersion]

DroppedBy(s) ==
  IF s.meta < 2 THEN s.tables \cap (Predecessor \cup LegacyTables) ELSE {}

\* On PostgreSQL all of this belongs to the transaction.
UpdateInTransaction(p) ==
  /\ pc[p] = "bootstrap"
  /\ ~OnSqlite
  /\ Outdated(work)
  /\ dropped' = DroppedBy(work)
  /\ work' = [Updated(work) EXCEPT
                !.tables = @ \cup LegacyTables, !.meta = LegacyVersion]
  /\ UNCHANGED <<place, schema, rows, lock, pc, call, running, script, starts,
                 ran, torn>>

\* On SQLite executescript commits what the transaction has done ...
UpdateAndCommit(p) ==
  /\ pc[p] = "bootstrap"
  /\ OnSqlite
  /\ Outdated(work)
  /\ schema' = Updated(work)
  /\ rows' = [t \in Table |-> IF t \in DroppedBy(work) THEN 0 ELSE rows[t]]
  /\ script' = LegacyTables \ Updated(work).tables
  /\ Goto(p, "script")
  /\ UNCHANGED <<place, lock, call, transaction, starts, ran, torn>>

\* ... and runs the script: the statement for schema_meta first, ...
CreateMeta(p) ==
  /\ pc[p] = "script"
  /\ schema.meta = Absent
  /\ schema' = [schema EXCEPT !.meta = Empty]
  /\ UNCHANGED <<place, rows, lock, pc, call, transaction, script, starts, ran,
                 torn>>

\* ... then the ones for tables that do not exist.
CreateTable(p, t) ==
  /\ pc[p] = "script"
  /\ schema.meta # Absent
  /\ t \in script
  /\ script' = script \ {t}
  /\ schema' = [schema EXCEPT !.tables = @ \cup {t}]
  /\ UNCHANGED <<place, rows, lock, pc, call, transaction, starts, ran, torn>>

\* After the first schema the script is run twice, and the second
\* executescript commits the version that the first call has written.
CommitMeta(p) ==
  /\ pc[p] = "script"
  /\ script = {}
  /\ schema.meta = Empty
  /\ schema' = [schema EXCEPT !.meta = LegacyVersion]
  /\ UNCHANGED <<place, rows, lock, pc, call, transaction, script, starts, ran,
                 torn>>

\* The next row that is written begins a transaction again.
EndScript(p) ==
  /\ pc[p] = "script"
  /\ script = {}
  /\ schema.meta = LegacyVersion
  /\ work' = schema
  /\ dropped' = {}
  /\ Goto(p, "bootstrap")
  /\ UNCHANGED <<place, schema, rows, lock, call, running, script, starts, ran,
                 torn>>

-----------------------------------------------------------------------------
(***************************************************************************)
(* The pending migrations                                                  *)
(***************************************************************************)

\* Variant: the SQL goes through executescript, which commits on SQLite.
ApplyByScript(p, m) ==
  /\ pc[p] = "apply"
  /\ ~Refused(call[p], work)
  /\ m \in Executable(call[p], work)
  /\ \A n \in Executable(call[p], work) : m <= n
  /\ work' = [work EXCEPT
                !.tables = @ \cup Creates[m],
                !.ledger = Record({m}, call[p].build, @)]
  /\ schema' = IF OnSqlite THEN [work' EXCEPT !.ledger = work.ledger]
                           ELSE schema
  /\ running' = [running EXCEPT ![m] = @ + 1]
  /\ UNCHANGED <<place, rows, lock, pc, call, dropped, script, starts, ran,
                 torn>>

\* _apply_migration and _record_migration, in the order of the identifiers.
Apply(p, m) ==
  /\ pc[p] = "apply"
  /\ ~Refused(call[p], work)
  /\ m \in Executable(call[p], work)
  /\ \A n \in Executable(call[p], work) : m <= n
  /\ work' = [work EXCEPT
                !.tables = @ \cup Creates[m],
                !.ledger = Record({m}, call[p].build, @)]
  /\ running' = [running EXCEPT ![m] = @ + 1]
  /\ UNCHANGED <<place, schema, rows, lock, pc, call, dropped, script, starts,
                 ran, torn>>

\* Variant: the transaction stays open.
CloseLeaves == UNCHANGED transaction

\* No transaction is open: what it would see is what is committed.
Close ==
  /\ work' = schema'
  /\ dropped' = {}
  /\ running' = ran'

Commit(p) ==
  /\ pc[p] = "apply"
  /\ ~call[p].dry
  /\ ~Refused(call[p], work)
  /\ Executable(call[p], work) = {}
  /\ schema' = work
  /\ rows' = Kept(rows)
  /\ ran' = running
  /\ Goto(p, "unlock")
  /\ Close
  /\ UNCHANGED <<place, lock, call, script, starts, torn>>

\* A dry run that is through, a refusal, or a verification that failed.
Rollback(p) ==
  /\ \/ pc[p] = "rollback"
     \/ pc[p] = "apply" /\ Refused(call[p], work)
     \/ pc[p] = "apply" /\ call[p].dry /\ Executable(call[p], work) = {}
  /\ Goto(p, "unlock")
  /\ UNCHANGED <<place, schema, rows, lock, call, script, starts, ran, torn>>
  /\ Close

Unlock(p) ==
  /\ pc[p] = "unlock"
  /\ lock' = NoOne
  /\ call' = [call EXCEPT ![p] = NoCall]
  /\ Goto(p, "idle")
  /\ UNCHANGED <<place, schema, rows, transaction, script, starts, ran, torn>>

-----------------------------------------------------------------------------
(***************************************************************************)
(* Faults, and those who use the database                                  *)
(***************************************************************************)

Tear(p) ==
  /\ torn' = (torn \/ (pc[p] = "script" /\ schema.meta # Absent /\ script # {}))
  /\ script' = IF pc[p] = "script" THEN {} ELSE script

\* An SQL error, or a lock that SQLite does not get in time.
Fail(p) ==
  /\ pc[p] \in {"begin", "bootstrap", "script", "apply"}
  /\ Tear(p)
  /\ Goto(p, "unlock")
  /\ UNCHANGED <<place, schema, rows, lock, call, starts, ran>>
  /\ Close

\* Both kinds of lock end with the process.
Crash(p) ==
  /\ pc[p] # "idle"
  /\ Tear(p)
  /\ lock' = IF lock = p THEN NoOne ELSE lock
  /\ call' = [call EXCEPT ![p] = NoCall]
  /\ Goto(p, "idle")
  /\ UNCHANGED <<place, schema, rows, starts, ran>>
  /\ IF lock = p THEN Close ELSE UNCHANGED transaction

\* Locations with an open transaction; on SQLite it is the only writer.
InTransaction == {"bootstrap", "apply", "rollback"}

\* The service or somebody else adds a row.
Write(t) ==
  /\ rows[t] < place.writes
  /\ t \in schema.tables \ dropped
  /\ OnSqlite => \A p \in Proc : pc[p] \notin InTransaction
  /\ rows' = [rows EXCEPT ![t] = @ + 1]
  /\ UNCHANGED <<place, schema, lock, pc, call, transaction, script, starts, ran,
                 torn>>

Bootstrap(p) ==
  \/ Fresh(p) \/ AdoptLegacy(p) \/ UpdateInTransaction(p) \/ UpdateAndCommit(p)
  \/ CreateMeta(p) \/ CommitMeta(p) \/ EndScript(p)
  \/ \E t \in script : CreateTable(p, t)

Migrate(p) ==
  \/ Acquire(p) \/ Begin(p) \/ Bootstrap(p)
  \/ \E m \in Id : Apply(p, m)
  \/ Commit(p) \/ Rollback(p) \/ Unlock(p)

MigrationNext ==
  \/ \E p \in Proc : \/ \E c \in place.calls[p] : Start(p, c)
                     \/ Migrate(p) \/ Fail(p) \/ Crash(p)
  \/ \E t \in Table : Write(t)

MigrationSpec == MigrationInit /\ [][MigrationNext]_migrationVars
-----------------------------------------------------------------------------
(***************************************************************************)
(* Properties                                                              *)
(***************************************************************************)

\* The shape of every reachable state; without a transaction there is
\* nothing uncommitted, and executescript runs under the lock.
MigrationTypeOK ==
  /\ place \in Place
  /\ schema \in Schema
  /\ rows \in [Table -> Nat]
  /\ lock \in Proc \cup {NoOne}
  /\ call \in [Proc -> Call \cup {NoCall}]
  /\ script \subseteq LegacyTables
  /\ \A p \in Proc :
       /\ pc[p] \in {"idle", "lock", "begin", "bootstrap", "script", "apply",
                     "rollback", "unlock"}
       /\ pc[p] = "idle" <=> call[p] = NoCall
       /\ lock = p <=> pc[p] \notin {"idle", "lock"}
  /\ script # {} => lock # NoOne /\ pc[lock] = "script"
  /\ (lock = NoOne \/ pc[lock] \in {"begin", "unlock"}) =>
       work = schema /\ dropped = {} /\ running = ran

\* Whatever races, fails or dies: what the ledger names is there, what it
\* does not name is not (a migration is never half there), and what it gained
\* was executed exactly once (test_concurrent_sqlite_migrators_apply_each_
\* migration_once).
LedgerIsTrue ==
  /\ \A m \in Ids(schema.ledger) : Creates[m] \subseteq schema.tables
  /\ \A m \in Id \ Flat :
       m \notin Ids(schema.ledger) => Creates[m] \cap schema.tables = {}
  /\ \A m \in Id : ran[m] <= 1
  /\ \A m \in Id \ Flat :
       ran[m] = 1 <=> m \in Ids(schema.ledger) \ Ids(place.origin.ledger)

\* A build can go on from s, once the legacy schema is up to date.
Resumes(b, s) ==
  /\ Valid(b, s)
  /\ s.ledger = {} /\ s.meta # Absent /\ ~Outdated(s) => Valid(b, Adopt(b, s))

\* A migration that failed or died can be started again: some build accepts
\* what it left, unless it left the legacy schema in the middle of
\* executescript on SQLite.
Resumable ==
  (\E b \in Build : Resumes(b, place.origin)) /\ ~torn /\ script = {} =>
    \E b \in Build : Resumes(b, schema)

\* "Dry-run applies transactional migrations and rolls them back"
\* (docs/operations.md:113): no step of a dry run changes what is committed.
DryRunLeavesNoTrace ==
  [][\A p \in Proc : lock = p /\ call[p].dry => schema' = schema]_migrationVars
===============================================================================
