--------------------------- MODULE MaintenanceProofs ---------------------------
(***************************************************************************)
(* Proofs about Migration and Backup, for any number of migrators, builds, *)
(* migrations, tables, databases as they are found, clients and paths.     *)
(***************************************************************************)
EXTENDS Host, TLAPS

-----------------------------------------------------------------------------
(***************************************************************************)
(* Operators                                                               *)
(***************************************************************************)

\* Recording migrations adds their identifiers.
LEMMA RecordIds ==
  ASSUME NEW ms, NEW b, NEW ledger
  PROVE  Ids(Record(ms, b, ledger)) = Ids(ledger) \cup ms
<1>1. \A m \in ms \ Ids(ledger) : m \in Ids(Record(ms, b, ledger))
  <2> SUFFICES ASSUME NEW m \in ms \ Ids(ledger)
               PROVE  \E e \in Record(ms, b, ledger) : e[1] = m
    BY DEF Ids
  <2>1. <<m, b[m]>> \in Record(ms, b, ledger) /\ <<m, b[m]>>[1] = m
    BY DEF Record
  <2>2. QED
    BY <2>1
<1>2. Ids(ledger) \subseteq Ids(Record(ms, b, ledger))
  BY DEF Ids, Record
<1>3. \A e \in Record(ms, b, ledger) : e[1] \in Ids(ledger) \cup ms
  BY DEF Ids, Record
<1>4. QED
  BY <1>1, <1>2, <1>3 DEF Ids

LEMMA NoIds == Ids({}) = {}
BY DEF Ids

\* What a build may record is a ledger.
LEMMA RecordType ==
  ASSUME NEW b \in Build, NEW ms \in SUBSET DOMAIN b,
         NEW ledger \in SUBSET (Id \X Checksum)
  PROVE  Record(ms, b, ledger) \in SUBSET (Id \X Checksum)
<1>1. \A m \in ms : b[m] \in Checksum
  BY DEF Checksum
<1>2. DOMAIN b \subseteq Id
  BY MigrationAssumption
<1>3. QED
  BY <1>1, <1>2 DEF Record

-----------------------------------------------------------------------------
(***************************************************************************)
(* The shape of the states                                                 *)
(***************************************************************************)

Location ==
  {"idle", "lock", "begin", "bootstrap", "script", "apply", "rollback", "unlock"}

\* MigrationTypeOK, and what the transaction of the lock holder sees.
MigratorsOK ==
  /\ place \in Place
  /\ schema \in Schema /\ work \in Schema
  /\ rows \in [Table -> Nat]
  /\ lock \in Proc \cup {NoOne}
  /\ pc \in [Proc -> Location]
  /\ call \in [Proc -> Call \cup {NoCall}]
  /\ script \subseteq LegacyTables
  /\ ran \in [Id -> Nat] /\ running \in [Id -> Nat]
  /\ torn \in BOOLEAN

LockOK ==
  /\ \A p \in Proc : pc[p] = "idle" <=> call[p] = NoCall
  /\ \A p \in Proc : lock = p <=> pc[p] \notin {"idle", "lock"}
  /\ script # {} => \E p \in Proc : lock = p /\ pc[p] = "script"
  /\ (\A p \in Proc : pc[p] \in {"idle", "lock", "begin", "unlock"}) =>
       work = schema /\ dropped = {} /\ running = ran

LEMMA MigrationShape == MigratorsOK /\ LockOK => MigrationTypeOK
<1> SUFFICES ASSUME MigratorsOK, LockOK
             PROVE  MigrationTypeOK
  OBVIOUS
<1>1. script # {} => lock # NoOne /\ pc[lock] = "script"
  BY MigrationAssumption DEF LockOK
<1>2. (lock = NoOne \/ pc[lock] \in {"begin", "unlock"}) =>
        \A p \in Proc : pc[p] \in {"idle", "lock", "begin", "unlock"}
  BY MigrationAssumption DEF LockOK, MigratorsOK
<1>3. QED
  BY <1>1, <1>2 DEF LockOK, MigratorsOK, MigrationTypeOK, Location

LEMMA MigratorsInit == MigrationInit => MigratorsOK /\ LockOK
<1> SUFFICES ASSUME MigrationInit
             PROVE  MigratorsOK /\ LockOK
  OBVIOUS
<1>1. place.origin \in Schema
  BY MigrationAssumption DEF MigrationInit
<1>2. QED
  BY <1>1, MigrationAssumption DEF MigrationInit, MigratorsOK, LockOK, Location

\* The steps of one migrator, and the lock holder's transaction.
Migrator(p) ==
  (\E c \in place.calls[p] : Start(p, c)) \/ Migrate(p) \/ Fail(p) \/ Crash(p)

LEMMA MigrationNextIs ==
  MigrationNext => (\E p \in Proc : Migrator(p)) \/ (\E t \in Table : Write(t))
BY DEF MigrationNext, Migrator

LEMMA LegacyType == LegacyTables \subseteq Table
BY MigrationAssumption DEF LegacyTables

LEMMA UpdatedType ==
  ASSUME NEW s \in Schema
  PROVE  Updated(s) \in Schema
BY DEF Schema, Updated, LegacyVersion

LEMMA MigratorStep ==
  ASSUME MigratorsOK, LockOK, NEW p \in Proc, Migrator(p)
  PROVE  MigratorsOK' /\ LockOK'
<1>1. CASE \E c \in place.calls[p] : Start(p, c)
  <2>1. PICK c \in place.calls[p] : Start(p, c)
    BY <1>1
  <2>2. c \in Call
    BY <2>1, MigrationAssumption DEF MigratorsOK
  <2>3. QED
    BY <2>1, <2>2, MigrationAssumption DEF Start, Goto, transaction, MigratorsOK, LockOK, Location
<1>2. CASE Acquire(p)
  BY <1>2, MigrationAssumption DEF Acquire, Goto, transaction, MigratorsOK, LockOK, Location
<1>3. CASE Begin(p)
  BY <1>3 DEF Begin, Goto, transaction, MigratorsOK, LockOK, Location
<1>4. CASE Fresh(p)
  BY <1>4 DEF Fresh, Goto, transaction, MigratorsOK, LockOK, Location
<1>5. CASE AdoptLegacy(p)
  <2>1. call[p].build \in Build /\ Flat \subseteq DOMAIN call[p].build
    BY <1>5, MigrationAssumption DEF AdoptLegacy, MigratorsOK, LockOK
  <2>2. Record(Flat, call[p].build, work.ledger) \in SUBSET (Id \X Checksum)
    BY <2>1, RecordType DEF MigratorsOK, Schema
  <2>3. work' \in Schema
    BY <1>5, <2>2 DEF AdoptLegacy, Adopt, MigratorsOK, Schema
  <2>4. QED
    BY <1>5, <2>3 DEF AdoptLegacy, Goto, MigratorsOK, LockOK, Location
<1>6. CASE UpdateInTransaction(p)
  <2>1. Updated(work) \in Schema
    BY UpdatedType DEF MigratorsOK
  <2>2. work' \in Schema
    BY <1>6, <2>1, LegacyType DEF UpdateInTransaction, Schema, LegacyVersion
  <2>3. QED
    BY <1>6, <2>2 DEF UpdateInTransaction, MigratorsOK, LockOK
<1>7. CASE UpdateAndCommit(p)
  <2>1. Updated(work) \in Schema
    BY UpdatedType DEF MigratorsOK
  <2>2. QED
    BY <1>7, <2>1 DEF UpdateAndCommit, Goto, transaction, MigratorsOK, LockOK, Location
<1>8. CASE CreateMeta(p)
  BY <1>8 DEF CreateMeta, Schema, Goto, transaction, MigratorsOK, LockOK, Location
<1>9. CASE CommitMeta(p)
  BY <1>9 DEF CommitMeta, Schema, LegacyVersion, Goto, transaction, MigratorsOK, LockOK, Location
<1>10. CASE \E t \in script : CreateTable(p, t)
  BY <1>10, LegacyType DEF CreateTable, Schema, Goto, transaction, MigratorsOK, LockOK, Location
<1>11. CASE EndScript(p)
  BY <1>11 DEF EndScript, Goto, transaction, MigratorsOK, LockOK, Location
<1>12. CASE \E m \in Id : Apply(p, m)
  <2>1. PICK m \in Id : Apply(p, m)
    BY <1>12
  <2>2. call[p].build \in Build
    BY <2>1, MigrationAssumption DEF Apply, MigratorsOK, LockOK
  <2>3. m \in DOMAIN call[p].build
    BY <2>1 DEF Apply, Executable, Pending, Selected
  <2>4. Record({m}, call[p].build, work.ledger) \in SUBSET (Id \X Checksum)
    BY <2>2, <2>3, RecordType DEF MigratorsOK, Schema
  <2>5. Creates[m] \subseteq Table
    BY MigrationAssumption
  <2>6. work' \in Schema
    BY <2>1, <2>4, <2>5 DEF Apply, MigratorsOK, Schema
  <2>7. QED
    BY <2>1, <2>6 DEF Apply, MigratorsOK, LockOK
<1>13. CASE Commit(p)
  BY <1>13 DEF Commit, Close, Kept, Goto, transaction, MigratorsOK, LockOK, Location
<1>14. CASE Rollback(p)
  BY <1>14 DEF Rollback, Close, Goto, transaction, MigratorsOK, LockOK, Location
<1>15. CASE Unlock(p)
  BY <1>15, MigrationAssumption DEF Unlock, Goto, transaction, MigratorsOK, LockOK, Location
<1>16. CASE Fail(p)
  BY <1>16 DEF Fail, Tear, Close, Goto, transaction, MigratorsOK, LockOK, Location
<1>17. CASE Crash(p)
  BY <1>17, MigrationAssumption DEF Crash, Tear, Close, Goto, transaction, MigratorsOK, LockOK, Location
<1> QED
  BY <1>1, <1>2, <1>3, <1>4, <1>5, <1>6, <1>7, <1>8, <1>9, <1>10, <1>11,
     <1>12, <1>13, <1>14, <1>15, <1>16, <1>17
  DEF Migrator, Migrate, Bootstrap

LEMMA ShapeStep ==
  MigratorsOK /\ LockOK /\ [MigrationNext]_migrationVars => MigratorsOK' /\ LockOK'
<1> SUFFICES ASSUME MigratorsOK, LockOK, [MigrationNext]_migrationVars
             PROVE  MigratorsOK' /\ LockOK'
  OBVIOUS
<1>1. ASSUME NEW t \in Table, Write(t)
      PROVE  MigratorsOK' /\ LockOK'
  BY <1>1 DEF Write, transaction, MigratorsOK, LockOK
<1>2. CASE UNCHANGED migrationVars
  BY <1>2 DEF migrationVars, transaction, MigratorsOK, LockOK
<1>3. QED
  BY <1>1, <1>2, MigratorStep, MigrationNextIs

\* Every migrator that does more than wait holds the lock, and without a
\* transaction nothing is uncommitted.
THEOREM MigrationTypeCorrect == MigrationSpec => []MigrationTypeOK
<1>1. MigrationSpec => [](MigratorsOK /\ LockOK)
  BY MigratorsInit, ShapeStep, PTL DEF MigrationSpec
<1>2. QED
  BY <1>1, MigrationShape, PTL

-----------------------------------------------------------------------------
(***************************************************************************)
(* The ledger                                                              *)
(***************************************************************************)

\* The ledger of s tells what s holds and what was executed.
Sound(s, executed) ==
  /\ \A m \in Ids(s.ledger) : Creates[m] \subseteq s.tables
  /\ \A m \in Id \ Flat : m \notin Ids(s.ledger) => Creates[m] \cap s.tables = {}
  /\ Ids(place.origin.ledger) \subseteq Ids(s.ledger)
  /\ \A m \in Id :
       /\ executed[m] \in {0, 1}
       /\ executed[m] = 1 => m \in Ids(s.ledger) \ Ids(place.origin.ledger)
  /\ \A m \in Id \ Flat :
       m \in Ids(s.ledger) \ Ids(place.origin.ledger) => executed[m] = 1

\* So does the one that the transaction has written, except when it is rolled
\* back; a database that gets the legacy schema has none.
LedgerOK ==
  /\ Sound(schema, ran)
  /\ \A p \in Proc :
       /\ pc[p] \in {"bootstrap", "apply"} => Sound(work, running)
       /\ pc[p] \in {"bootstrap", "script"} => schema.ledger = {} /\ running = ran
       /\ pc[p] = "bootstrap" => work.ledger = {}

LEMMA LedgerImplies == LedgerOK => LedgerIsTrue
BY DEF LedgerOK, Sound, LedgerIsTrue

LEMMA LedgerInit == MigrationInit => LedgerOK
<1> SUFFICES ASSUME MigrationInit
             PROVE  LedgerOK
  OBVIOUS
<1>1. place.origin \in Origin /\ place.origin \in Schema
  BY MigrationAssumption DEF MigrationInit
<1>2. \A m \in Ids(place.origin.ledger) : Creates[m] \subseteq place.origin.tables
  BY <1>1, MigrationAssumption DEF Ids
<1>3. \A m \in Id \ Flat :
        m \notin Ids(place.origin.ledger) => Creates[m] \cap place.origin.tables = {}
  BY <1>1, MigrationAssumption
<1>4. Sound(place.origin, [m \in Id |-> 0])
  BY <1>2, <1>3 DEF Sound
<1>5. QED
  BY <1>4 DEF MigrationInit, LedgerOK

\* The migrations that the legacy schema does not stand for have tables of
\* their own.
LEMMA LegacyApart ==
  ASSUME NEW m \in Id \ Flat
  PROVE  /\ Creates[m] \cap LegacyTables = {}
         /\ \A n \in Id : n # m => Creates[m] \cap Creates[n] = {}
BY MigrationAssumption DEF LegacyTables

\* Without a ledger, tables of the legacy schema may come and all may go.
LEMMA SoundChange ==
  ASSUME NEW s, NEW r, NEW executed, Sound(s, executed), s.ledger = {},
         r.ledger = {}, r.tables \subseteq s.tables \cup LegacyTables
  PROVE  Sound(r, executed)
<1>1. \A m \in Id \ Flat : Creates[m] \cap r.tables = {}
  BY LegacyApart, NoIds DEF Sound
<1>2. QED
  BY <1>1, NoIds DEF Sound

LEMMA UpdatedTables ==
  ASSUME NEW s \in Schema
  PROVE  Updated(s).tables \subseteq s.tables /\ Updated(s).ledger = s.ledger
BY DEF Updated, Schema

LEMMA SoundAdopt ==
  ASSUME NEW s \in Schema, NEW b \in Build, NEW executed, Sound(s, executed),
         s.ledger = {}, Valid(b, Adopt(b, s))
  PROVE  Sound(Adopt(b, s), executed)
<1>1. Adopt(b, s).tables = s.tables /\ Ids(Adopt(b, s).ledger) = Flat
  <2>1. Adopt(b, s).tables = s.tables /\ Adopt(b, s).ledger = Record(Flat, b, {})
    BY DEF Adopt, Schema
  <2>2. Ids(Record(Flat, b, {})) = Ids({}) \cup Flat
    BY RecordIds
  <2>3. QED
    BY <2>1, <2>2, NoIds
<1>2. \A m \in Flat : Creates[m] \subseteq s.tables
  BY <1>1, MigrationAssumption DEF Valid
<1>3. QED
  BY <1>1, <1>2, NoIds DEF Sound

LEMMA SoundApply ==
  ASSUME NEW s \in Schema, NEW r \in Schema, NEW m \in Id, NEW b, NEW executed,
         executed \in [Id -> Nat],
         Sound(s, executed), m \notin Ids(s.ledger),
         r.tables = s.tables \cup Creates[m], r.ledger = Record({m}, b, s.ledger)
  PROVE  Sound(r, [executed EXCEPT ![m] = executed[m] + 1])
<1>1. Ids(r.ledger) = Ids(s.ledger) \cup {m}
  BY RecordIds
<1>2. \A n \in Ids(r.ledger) : Creates[n] \subseteq r.tables
  BY <1>1 DEF Sound
<1>3. \A n \in Id \ Flat : n \notin Ids(r.ledger) => Creates[n] \cap r.tables = {}
  BY <1>1, LegacyApart DEF Sound
<1>4. executed[m] = 0 /\ m \notin Ids(place.origin.ledger)
  BY DEF Sound
<1> DEFINE now == [executed EXCEPT ![m] = executed[m] + 1]
<1>5. now[m] = 1 /\ \A n \in Id : n # m => now[n] = executed[n]
  BY <1>4
<1> HIDE DEF now
<1>6. /\ \A n \in Id : /\ now[n] \in {0, 1}
                       /\ now[n] = 1 => n \in Ids(r.ledger) \ Ids(place.origin.ledger)
      /\ \A n \in Id \ Flat :
           n \in Ids(r.ledger) \ Ids(place.origin.ledger) => now[n] = 1
  BY <1>1, <1>4, <1>5 DEF Sound
<1>7. Sound(r, now)
  BY <1>1, <1>2, <1>3, <1>6 DEF Sound
<1>8. QED
  BY <1>7 DEF now

LEMMA MigratorLedger ==
  ASSUME MigratorsOK, LockOK, LedgerOK, NEW p \in Proc, Migrator(p)
  PROVE  LedgerOK'
<1>l. \A q \in Proc : lock = q <=> pc[q] \notin {"idle", "lock"}
  BY DEF LockOK
<1>n. MigratorsOK'
  BY MigratorStep
<1>0. ASSUME UNCHANGED <<place, schema, ran>>
      PROVE  /\ Sound(schema, ran)'
             /\ UNCHANGED <<work, running>> => (Sound(work, running)' <=> Sound(work, running))
             /\ work' = schema /\ running' = ran => Sound(work, running)'
  BY <1>0 DEF LedgerOK, Sound
<1>1. CASE \E c \in place.calls[p] : Start(p, c)
  BY <1>1, <1>0, <1>l DEF Start, MigratorsOK, LockOK, Location, LedgerOK, Goto, transaction
<1>2. CASE Acquire(p)
  BY <1>2, <1>0, <1>l DEF Acquire, MigratorsOK, LockOK, Location, LedgerOK, Goto, transaction
<1>3. CASE Begin(p)
  <2>1. \A q \in Proc : q # p => pc[q] \notin {"bootstrap", "script", "apply"}
    BY <1>3, <1>l DEF Begin
  <2>2. /\ UNCHANGED <<place, schema, ran>> /\ work' = schema /\ running' = ran
        /\ pc' = [pc EXCEPT ![p] = pc'[p]]
        /\ pc'[p] # "script" /\ (pc'[p] = "bootstrap" => schema.ledger = {})
    BY <1>3 DEF Begin, Goto, MigratorsOK
  <2>3. QED
    BY <2>1, <2>2, <1>0 DEF MigratorsOK, LockOK, Location, LedgerOK, Goto
<1>4. CASE Fresh(p)
  BY <1>4, <1>0, <1>l DEF Fresh, MigratorsOK, LockOK, Location, LedgerOK, Goto, transaction
<1>5. CASE AdoptLegacy(p)
  <2>1. \A q \in Proc : q # p => pc[q] \notin {"bootstrap", "script", "apply"}
    BY <1>5, <1>l DEF AdoptLegacy
  <2>2. call[p].build \in Build
    BY <1>5, MigrationAssumption DEF AdoptLegacy, MigratorsOK, LockOK
  <2>3. Sound(work, running) /\ work.ledger = {} /\ work \in Schema
    BY <1>5 DEF AdoptLegacy, LedgerOK, MigratorsOK
  <2>4. pc'[p] = "apply" => Sound(work', running)
    BY <1>5, <2>2, <2>3, SoundAdopt DEF AdoptLegacy, Goto, MigratorsOK
  <2>5. pc'[p] \in {"apply", "rollback"} /\ UNCHANGED <<place, schema, ran, running>>
        /\ pc' = [pc EXCEPT ![p] = pc'[p]]
    BY <1>5 DEF AdoptLegacy, Goto, MigratorsOK
  <2>6. Sound(work, running)' <=> Sound(work', running)
    BY <2>5 DEF Sound
  <2>7. QED
    BY <2>1, <2>4, <2>5, <2>6, <1>0 DEF MigratorsOK, LockOK, Location, LedgerOK, Goto
<1>6. CASE UpdateInTransaction(p)
  <2>1. \A q \in Proc : q # p => pc[q] \notin {"bootstrap", "script", "apply"}
    BY <1>6, <1>l DEF UpdateInTransaction
  <2>2. Sound(work, running) /\ work.ledger = {} /\ work \in Schema
    BY <1>6 DEF UpdateInTransaction, LedgerOK, MigratorsOK
  <2>3. Updated(work) \in Schema /\ Updated(work).ledger = {}
        /\ Updated(work).tables \subseteq work.tables
    BY <2>2, UpdatedType, UpdatedTables
  <2>4. work'.ledger = {} /\ work'.tables \subseteq work.tables \cup LegacyTables
    BY <1>6, <2>3 DEF UpdateInTransaction, Schema
  <2>5. Sound(work', running)
    BY <2>2, <2>4, SoundChange
  <2>6. UNCHANGED <<place, schema, ran, running, pc>> /\ pc[p] = "bootstrap"
    BY <1>6 DEF UpdateInTransaction
  <2>7. Sound(work, running)' <=> Sound(work', running)
    BY <2>6 DEF Sound
  <2>8. QED
    BY <2>1, <2>4, <2>5, <2>6, <2>7, <1>0 DEF MigratorsOK, LockOK, Location, LedgerOK, Goto
<1>7. CASE UpdateAndCommit(p)
  <2>1. \A q \in Proc : q # p => pc[q] \notin {"bootstrap", "script", "apply"}
    BY <1>7, <1>l DEF UpdateAndCommit
  <2>2. Sound(work, running) /\ work.ledger = {} /\ work \in Schema /\ running = ran
    BY <1>7 DEF UpdateAndCommit, LedgerOK, MigratorsOK
  <2>3. schema'.ledger = {} /\ schema'.tables \subseteq work.tables
    BY <1>7, <2>2, UpdatedTables DEF UpdateAndCommit
  <2>4. Sound(schema', ran)
    BY <2>2, <2>3, SoundChange
  <2>5. UNCHANGED <<place, ran, running>> /\ pc' = [pc EXCEPT ![p] = "script"]
    BY <1>7 DEF UpdateAndCommit, Goto, transaction
  <2>6. Sound(schema, ran)' <=> Sound(schema', ran)
    BY <2>5 DEF Sound
  <2>7. QED
    BY <2>1, <2>2, <2>3, <2>4, <2>5, <2>6 DEF MigratorsOK, LockOK, Location, LedgerOK, Goto
<1>8. CASE CreateMeta(p)
  <2>1. \A q \in Proc : q # p => pc[q] \notin {"bootstrap", "script", "apply"}
    BY <1>8, <1>l DEF CreateMeta
  <2>2. Sound(schema, ran) /\ schema.ledger = {} /\ schema \in Schema /\ running = ran
        /\ pc[p] = "script"
    BY <1>8 DEF CreateMeta, LedgerOK, MigratorsOK
  <2>3. schema'.ledger = {} /\ schema'.tables \subseteq schema.tables \cup LegacyTables
    BY <1>8, <2>2 DEF CreateMeta, Schema, MigratorsOK
  <2>4. Sound(schema', ran)
    BY <2>2, <2>3, SoundChange
  <2>5. UNCHANGED <<place, ran, running, pc>>
    BY <1>8 DEF CreateMeta, transaction
  <2>6. Sound(schema, ran)' <=> Sound(schema', ran)
    BY <2>5 DEF Sound
  <2>7. QED
    BY <2>1, <2>2, <2>3, <2>4, <2>5, <2>6 DEF MigratorsOK, LockOK, Location, LedgerOK, Goto
<1>9. CASE CommitMeta(p)
  <2>1. \A q \in Proc : q # p => pc[q] \notin {"bootstrap", "script", "apply"}
    BY <1>9, <1>l DEF CommitMeta
  <2>2. Sound(schema, ran) /\ schema.ledger = {} /\ schema \in Schema /\ running = ran
        /\ pc[p] = "script"
    BY <1>9 DEF CommitMeta, LedgerOK, MigratorsOK
  <2>3. schema'.ledger = {} /\ schema'.tables \subseteq schema.tables \cup LegacyTables
    BY <1>9, <2>2 DEF CommitMeta, Schema, MigratorsOK
  <2>4. Sound(schema', ran)
    BY <2>2, <2>3, SoundChange
  <2>5. UNCHANGED <<place, ran, running, pc>>
    BY <1>9 DEF CommitMeta, transaction
  <2>6. Sound(schema, ran)' <=> Sound(schema', ran)
    BY <2>5 DEF Sound
  <2>7. QED
    BY <2>1, <2>2, <2>3, <2>4, <2>5, <2>6 DEF MigratorsOK, LockOK, Location, LedgerOK, Goto
<1>10. CASE \E t \in script : CreateTable(p, t)
  <2>1. \A q \in Proc : q # p => pc[q] \notin {"bootstrap", "script", "apply"}
    BY <1>10, <1>l DEF CreateTable
  <2>2. Sound(schema, ran) /\ schema.ledger = {} /\ schema \in Schema /\ running = ran
        /\ pc[p] = "script"
    BY <1>10 DEF CreateTable, LedgerOK, MigratorsOK
  <2>3. schema'.ledger = {} /\ schema'.tables \subseteq schema.tables \cup LegacyTables
    BY <1>10, <2>2 DEF CreateTable, Schema, MigratorsOK
  <2>4. Sound(schema', ran)
    BY <2>2, <2>3, SoundChange
  <2>5. UNCHANGED <<place, ran, running, pc>>
    BY <1>10 DEF CreateTable, transaction
  <2>6. Sound(schema, ran)' <=> Sound(schema', ran)
    BY <2>5 DEF Sound
  <2>7. QED
    BY <2>1, <2>2, <2>3, <2>4, <2>5, <2>6 DEF MigratorsOK, LockOK, Location, LedgerOK, Goto
<1>11. CASE EndScript(p)
  <2>1. \A q \in Proc : q # p => pc[q] \notin {"bootstrap", "script", "apply"}
    BY <1>11, <1>l DEF EndScript
  <2>2. /\ UNCHANGED <<place, schema, ran, running>> /\ work' = schema
        /\ pc[p] = "script" /\ pc' = [pc EXCEPT ![p] = "bootstrap"]
    BY <1>11 DEF EndScript, Goto
  <2>3. Sound(work, running)' <=> Sound(schema, running)
    BY <2>2 DEF Sound
  <2>4. QED
    BY <2>1, <2>2, <2>3, <1>0 DEF MigratorsOK, LockOK, Location, LedgerOK, Goto
<1>12. CASE \E m \in Id : Apply(p, m)
  <2>1. \A q \in Proc : q # p => pc[q] \notin {"bootstrap", "script", "apply"}
    BY <1>12, <1>l DEF Apply
  <2>2. PICK m \in Id : Apply(p, m)
    BY <1>12
  <2>3. Sound(work, running) /\ work \in Schema /\ work' \in Schema
    BY <2>2, <1>n DEF Apply, LedgerOK, MigratorsOK
  <2>4. /\ m \notin Ids(work.ledger)
        /\ work'.tables = work.tables \cup Creates[m]
        /\ work'.ledger = Record({m}, call[p].build, work.ledger)
    BY <2>2, <2>3 DEF Apply, Executable, Pending, Schema
  <2>5. Sound(work', [running EXCEPT ![m] = running[m] + 1])
    BY <2>3, <2>4, SoundApply DEF MigratorsOK
  <2>6. UNCHANGED <<place, schema, ran, pc>> /\ pc[p] = "apply"
        /\ running' = [running EXCEPT ![m] = running[m] + 1]
    BY <2>2 DEF Apply
  <2>7. Sound(work, running)' <=> Sound(work', running')
    BY <2>6 DEF Sound
  <2>8. QED
    BY <2>1, <2>5, <2>6, <2>7, <1>0 DEF MigratorsOK, LockOK, Location, LedgerOK, Goto
<1>13. CASE Commit(p)
  <2>1. \A q \in Proc : q # p => pc[q] \notin {"bootstrap", "script", "apply"}
    BY <1>13, <1>l DEF Commit
  <2>2. /\ schema' = work /\ ran' = running /\ UNCHANGED place
        /\ pc[p] = "apply" /\ pc' = [pc EXCEPT ![p] = "unlock"]
    BY <1>13 DEF Commit, Goto
  <2>3. Sound(schema, ran)' <=> Sound(work, running)
    BY <2>2 DEF Sound
  <2>4. QED
    BY <2>1, <2>2, <2>3 DEF MigratorsOK, LockOK, Location, LedgerOK, Goto
<1>14. CASE Rollback(p)
  <2>1. \A q \in Proc : q # p => pc[q] \notin {"bootstrap", "script", "apply"} \/ lock = q
    BY <1>l
  <2>2. UNCHANGED <<place, schema, ran>> /\ pc'[p] \in {"unlock", "idle"}
        /\ (lock = p \/ UNCHANGED transaction) /\ pc' = [pc EXCEPT ![p] = pc'[p]]
    BY <1>14, <1>l DEF Rollback, Goto, MigratorsOK, transaction
  <2>3. \A q \in Proc : pc'[q] \in {"bootstrap", "script", "apply"} =>
          q # p /\ pc[q] = pc'[q] /\ UNCHANGED transaction
    BY <2>1, <2>2, <1>l DEF MigratorsOK
  <2>4. QED
    BY <2>2, <2>3, <1>0 DEF LedgerOK, transaction
<1>15. CASE Unlock(p)
  <2>1. \A q \in Proc : q # p => pc[q] \notin {"bootstrap", "script", "apply"} \/ lock = q
    BY <1>l
  <2>2. UNCHANGED <<place, schema, ran>> /\ pc'[p] \in {"unlock", "idle"}
        /\ (lock = p \/ UNCHANGED transaction) /\ pc' = [pc EXCEPT ![p] = pc'[p]]
    BY <1>15, <1>l DEF Unlock, Goto, MigratorsOK, transaction
  <2>3. \A q \in Proc : pc'[q] \in {"bootstrap", "script", "apply"} =>
          q # p /\ pc[q] = pc'[q] /\ UNCHANGED transaction
    BY <2>1, <2>2, <1>l DEF MigratorsOK
  <2>4. QED
    BY <2>2, <2>3, <1>0 DEF LedgerOK, transaction
<1>16. CASE Fail(p)
  <2>1. \A q \in Proc : q # p => pc[q] \notin {"bootstrap", "script", "apply"} \/ lock = q
    BY <1>l
  <2>2. UNCHANGED <<place, schema, ran>> /\ pc'[p] \in {"unlock", "idle"}
        /\ (lock = p \/ UNCHANGED transaction) /\ pc' = [pc EXCEPT ![p] = pc'[p]]
    BY <1>16, <1>l DEF Fail, Goto, MigratorsOK, transaction
  <2>3. \A q \in Proc : pc'[q] \in {"bootstrap", "script", "apply"} =>
          q # p /\ pc[q] = pc'[q] /\ UNCHANGED transaction
    BY <2>1, <2>2, <1>l DEF MigratorsOK
  <2>4. QED
    BY <2>2, <2>3, <1>0 DEF LedgerOK, transaction
<1>17. CASE Crash(p)
  <2>1. \A q \in Proc : q # p => pc[q] \notin {"bootstrap", "script", "apply"} \/ lock = q
    BY <1>l
  <2>2. UNCHANGED <<place, schema, ran>> /\ pc'[p] \in {"unlock", "idle"}
        /\ (lock = p \/ UNCHANGED transaction) /\ pc' = [pc EXCEPT ![p] = pc'[p]]
    BY <1>17, <1>l DEF Crash, Goto, MigratorsOK, transaction
  <2>3. \A q \in Proc : pc'[q] \in {"bootstrap", "script", "apply"} =>
          q # p /\ pc[q] = pc'[q] /\ UNCHANGED transaction
    BY <2>1, <2>2, <1>l DEF MigratorsOK
  <2>4. QED
    BY <2>2, <2>3, <1>0 DEF LedgerOK, transaction
<1> QED
  BY <1>1, <1>2, <1>3, <1>4, <1>5, <1>6, <1>7, <1>8, <1>9, <1>10, <1>11,
     <1>12, <1>13, <1>14, <1>15, <1>16, <1>17
  DEF Migrator, Migrate, Bootstrap

LEMMA LedgerStep ==
  MigratorsOK /\ LockOK /\ LedgerOK /\ [MigrationNext]_migrationVars => LedgerOK'
<1> SUFFICES ASSUME MigratorsOK, LockOK, LedgerOK, [MigrationNext]_migrationVars
             PROVE  LedgerOK'
  OBVIOUS
<1>1. ASSUME NEW t \in Table, Write(t)
      PROVE  LedgerOK'
  BY <1>1 DEF Write, transaction, LedgerOK, Sound
<1>2. CASE UNCHANGED migrationVars
  BY <1>2 DEF migrationVars, transaction, LedgerOK, Sound
<1>3. QED
  BY <1>1, <1>2, MigratorLedger, MigrationNextIs

\* Whatever races, fails or dies, the ledger of the database tells what the
\* database holds, and what it gained was executed exactly once.
THEOREM LedgerStaysTrue == MigrationSpec => []LedgerIsTrue
<1>1. MigrationSpec => [](MigratorsOK /\ LockOK /\ LedgerOK)
  BY MigratorsInit, ShapeStep, LedgerInit, LedgerStep, PTL DEF MigrationSpec
<1>2. QED
  BY <1>1, LedgerImplies, PTL

-----------------------------------------------------------------------------
(***************************************************************************)
(* Starting again                                                          *)
(***************************************************************************)

\* What executescript leaves when it is cut short before its first table, or
\* has finished.
ScriptOK(s, todo) ==
  /\ s.meta = Absent => s.tables \cap Managed = {}
  /\ LegacyTables \subseteq s.tables \cup todo

ResumeOK ==
  /\ \A p \in Proc :
       /\ pc[p] = "apply" /\ ~call[p].dry => Valid(call[p].build, work)
       /\ pc[p] = "bootstrap" => ~Unexplained(work)
       /\ pc[p] = "script" => ScriptOK(schema, script)
  /\ Resumable

LEMMA ValidBare ==
  ASSUME NEW b, NEW s, s.ledger = {}, ~Unexplained(s)
  PROVE  Valid(b, s)
BY NoIds DEF Valid, InOrder

\* The legacy schema can be adopted when it is complete.
LEMMA ValidAdopt ==
  ASSUME NEW b \in Build, NEW s \in Schema, s.ledger = {}, s.meta # Absent,
         LegacyTables \subseteq s.tables
  PROVE  Valid(b, Adopt(b, s))
<1> DEFINE r == Adopt(b, s)
<1>1. r.tables = s.tables /\ r.meta = s.meta /\ r.ledger = Record(Flat, b, {})
  BY DEF Adopt, Schema
<1> HIDE DEF r
<1>2. Ids(Record(Flat, b, {})) = Ids({}) \cup Flat
  BY RecordIds
<1>3. Ids(r.ledger) = Flat
  BY <1>1, <1>2, NoIds
<1>4. \A e \in r.ledger : e[1] \in DOMAIN b /\ e[2] = b[e[1]]
  BY <1>1, NoIds, MigrationAssumption DEF Record
<1>5. InOrder(b, r.ledger)
  BY <1>3, MigrationAssumption DEF InOrder
<1>6. \A m \in Ids(r.ledger) \cap Checked : Creates[m] \subseteq r.tables
  BY <1>1, <1>3 DEF LegacyTables
<1>7. ~Unexplained(r)
  BY <1>1 DEF Unexplained
<1>8. QED
  BY <1>4, <1>5, <1>6, <1>7 DEF Valid, r

LEMMA ScriptResumes ==
  ASSUME NEW b \in Build, NEW s \in Schema, s.ledger = {},
         s.meta = Absent => s.tables \cap Managed = {},
         s.meta # Absent => LegacyTables \subseteq s.tables
  PROVE  Resumes(b, s)
<1>1. Valid(b, s)
  BY ValidBare DEF Unexplained
<1>2. QED
  BY <1>1, ValidAdopt DEF Resumes

LEMMA ValidApply ==
  ASSUME NEW c \in Call, NEW s, NEW r, NEW m \in Pending(c, s), Valid(c.build, s),
         \A n \in Pending(c, s) : m <= n,
         r.tables = s.tables \cup Creates[m],
         r.ledger = Record({m}, c.build, s.ledger)
  PROVE  Valid(c.build, r)
<1>0. /\ c.build \in Build /\ c.target \in Nat /\ DOMAIN c.build \subseteq Nat
      /\ m \in DOMAIN c.build /\ m \in Nat /\ m <= c.target
  BY MigrationAssumption DEF Pending, Selected
<1>1. Ids(r.ledger) = Ids(s.ledger) \cup {m}
  BY RecordIds
<1>2. \A e \in r.ledger : e[1] \in DOMAIN c.build /\ e[2] = c.build[e[1]]
  BY <1>0 DEF Valid, Record
<1>3. ASSUME NEW k \in Ids(r.ledger), NEW n \in DOMAIN c.build, n < k
      PROVE  n \in Ids(r.ledger)
  <2>1. CASE k \in Ids(s.ledger)
    BY <1>1, <1>3, <2>1 DEF Valid, InOrder
  <2>2. CASE k = m /\ n \notin Ids(s.ledger)
    <3>1. n \in Pending(c, s)
      BY <1>0, <1>3, <2>2 DEF Pending, Selected
    <3>2. QED
      BY <1>0, <1>3, <2>2, <3>1
  <2>3. QED
    BY <1>1, <2>1, <2>2
<1>4. \A k \in Ids(r.ledger) \cap Checked : Creates[k] \subseteq r.tables
  BY <1>1 DEF Valid
<1>5. r.ledger # {}
  BY <1>1, NoIds
<1>6. QED
  BY <1>2, <1>3, <1>4, <1>5 DEF Valid, InOrder, Unexplained

\* What is committed names the migration that was asked for.
LEMMA CommitResumes ==
  ASSUME NEW c \in Call, NEW s, Valid(c.build, s), Pending(c, s) = {}
  PROVE  Resumes(c.build, s)
<1>1. c.target \in Selected(c)
  <2>1. c.target \in DOMAIN c.build /\ c.target \in Nat
    BY MigrationAssumption
  <2>2. QED
    BY <2>1 DEF Selected
<1>2. s.ledger # {}
  BY <1>1, NoIds DEF Pending
<1>3. QED
  BY <1>2 DEF Resumes

\* The first schema leaves nothing that a later one manages.
LEMMA UpdateScript ==
  ASSUME NEW s \in Schema, NEW executed, Sound(s, executed), s.ledger = {}
  PROVE  ScriptOK(Updated(s), LegacyTables \ Updated(s).tables)
<1>1. CASE s.meta < 2
  <2>1. Updated(s).tables = s.tables \ (Predecessor \cup LegacyTables)
    BY <1>1 DEF Updated
  <2>2. \A m \in Checked : Creates[m] \cap Updated(s).tables = {}
    BY <2>1, MigrationAssumption, NoIds DEF Sound, LegacyTables
  <2>3. QED
    BY <2>2 DEF ScriptOK, Managed
<1>2. CASE ~(s.meta < 2)
  <2>1. Updated(s).meta = LegacyVersion /\ LegacyVersion # Absent
    BY <1>2, MigrationAssumption DEF Updated, Schema, LegacyVersion
  <2>2. QED
    BY <2>1 DEF ScriptOK
<1>3. QED
  BY <1>1, <1>2

LEMMA ResumeInit == MigrationInit => ResumeOK
BY DEF MigrationInit, ResumeOK, Resumable

LEMMA MigratorResume ==
  ASSUME MigratorsOK, LockOK, LedgerOK, ResumeOK, NEW p \in Proc, Migrator(p)
  PROVE  ResumeOK'
<1>l. \A q \in Proc : lock = q <=> pc[q] \notin {"idle", "lock"}
  BY DEF LockOK
<1>n. MigratorsOK'
  BY MigratorStep
<1>0. ASSUME UNCHANGED <<place, schema, script, torn>>
      PROVE  Resumable'
  BY <1>0 DEF ResumeOK, Resumable
<1>s. ASSUME ScriptOK(schema', script'), schema'.ledger = {}
      PROVE  Resumable'
  <2> SUFFICES ASSUME script' = {}, NEW b \in Build
               PROVE  Resumes(b, schema')
    BY DEF Resumable
  <2>1. schema' \in Schema
    BY <1>n DEF MigratorsOK
  <2>2. QED
    BY <1>s, <2>1, ScriptResumes DEF ScriptOK
<1>1. CASE \E c \in place.calls[p] : Start(p, c)
  <2>1. PICK c : Start(p, c)
    BY <1>1
  <2>2. QED
    BY <2>1, <1>0 DEF Start, transaction, ResumeOK, Goto, MigratorsOK
<1>2. CASE Acquire(p)
  BY <1>2, <1>0 DEF Acquire, transaction, ResumeOK, Goto, MigratorsOK
<1>3. CASE Begin(p)
  <2>1. \A q \in Proc : q # p => pc[q] \notin {"bootstrap", "script", "apply"}
    BY <1>3, <1>l DEF Begin
  <2>2. /\ UNCHANGED <<place, schema, script, torn, call>> /\ work' = schema
        /\ pc' = [pc EXCEPT ![p] = pc'[p]] /\ pc'[p] # "script"
        /\ pc'[p] \in {"apply", "bootstrap"} => Valid(call[p].build, schema)
    BY <1>3 DEF Begin, Goto, MigratorsOK
  <2>3. QED
    BY <2>1, <2>2, <1>0 DEF ResumeOK, Goto, MigratorsOK, Valid
<1>4. CASE Fresh(p)
  <2>1. \A q \in Proc : q # p => pc[q] \notin {"bootstrap", "script", "apply"}
    BY <1>4, <1>l DEF Fresh
  <2>2. work.ledger = {} /\ ~Unexplained(work)
    BY <1>4 DEF Fresh, LedgerOK, ResumeOK
  <2>3. Valid(call[p].build, work)
    BY <2>2, ValidBare
  <2>4. QED
    BY <1>4, <2>1, <2>3, <1>0 DEF Fresh, transaction, ResumeOK, Goto, MigratorsOK
<1>5. CASE AdoptLegacy(p)
  <2>1. \A q \in Proc : q # p => pc[q] \notin {"bootstrap", "script", "apply"}
    BY <1>5, <1>l DEF AdoptLegacy
  <2>2. /\ UNCHANGED <<place, schema, script, torn, call>>
        /\ pc' = [pc EXCEPT ![p] = pc'[p]] /\ pc'[p] \in {"apply", "rollback"}
        /\ pc'[p] = "apply" => Valid(call[p].build, work')
    BY <1>5 DEF AdoptLegacy, Goto, MigratorsOK
  <2>3. QED
    BY <2>1, <2>2, <1>0 DEF ResumeOK, Goto, MigratorsOK
<1>6. CASE UpdateInTransaction(p)
  <2>1. \A q \in Proc : q # p => pc[q] \notin {"bootstrap", "script", "apply"}
    BY <1>6, <1>l DEF UpdateInTransaction
  <2>2. Updated(work) \in Schema
    BY UpdatedType DEF MigratorsOK
  <2>3. work'.meta # Absent
    BY <1>6, <2>2, MigrationAssumption DEF UpdateInTransaction, Schema, LegacyVersion
  <2>4. ~Unexplained(work')
    BY <2>3 DEF Unexplained
  <2>5. pc[p] = "bootstrap" /\ UNCHANGED <<place, schema, script, torn, call, pc>>
    BY <1>6 DEF UpdateInTransaction
  <2>6. QED
    BY <2>1, <2>4, <2>5, <1>0 DEF ResumeOK, Goto, MigratorsOK
<1>7. CASE UpdateAndCommit(p)
  <2>1. \A q \in Proc : q # p => pc[q] \notin {"bootstrap", "script", "apply"}
    BY <1>7, <1>l DEF UpdateAndCommit
  <2>2. Sound(work, running) /\ work.ledger = {} /\ work \in Schema
    BY <1>7 DEF UpdateAndCommit, LedgerOK, MigratorsOK
  <2>3. ScriptOK(schema', script') /\ schema'.ledger = {}
    BY <1>7, <2>2, UpdateScript, UpdatedTables DEF UpdateAndCommit
  <2>4. UNCHANGED <<place, call>> /\ pc' = [pc EXCEPT ![p] = "script"]
    BY <1>7 DEF UpdateAndCommit, Goto
  <2>5. Resumable'
    BY <2>3, <1>s
  <2>6. QED
    BY <2>1, <2>3, <2>4, <2>5 DEF ResumeOK, Goto, MigratorsOK
<1>8. CASE CreateMeta(p)
  <2>1. \A q \in Proc : q # p => pc[q] \notin {"bootstrap", "script", "apply"}
    BY <1>8, <1>l DEF CreateMeta
  <2>2. schema.ledger = {} /\ schema \in Schema /\ ScriptOK(schema, script) /\ pc[p] = "script"
    BY <1>8 DEF CreateMeta, LedgerOK, ResumeOK, MigratorsOK
  <2>3. schema'.ledger = {} /\ ScriptOK(schema', script')
    BY <1>8, <2>2, MigrationAssumption DEF CreateMeta, ScriptOK, Schema, LegacyVersion
  <2>4. UNCHANGED <<place, call, pc>>
    BY <1>8 DEF CreateMeta
  <2>5. Resumable'
    BY <2>3, <1>s
  <2>6. QED
    BY <2>1, <2>2, <2>3, <2>4, <2>5 DEF ResumeOK, Goto, MigratorsOK
<1>9. CASE CommitMeta(p)
  <2>1. \A q \in Proc : q # p => pc[q] \notin {"bootstrap", "script", "apply"}
    BY <1>9, <1>l DEF CommitMeta
  <2>2. schema.ledger = {} /\ schema \in Schema /\ ScriptOK(schema, script) /\ pc[p] = "script"
    BY <1>9 DEF CommitMeta, LedgerOK, ResumeOK, MigratorsOK
  <2>3. schema'.ledger = {} /\ ScriptOK(schema', script')
    BY <1>9, <2>2, MigrationAssumption DEF CommitMeta, ScriptOK, Schema, LegacyVersion
  <2>4. UNCHANGED <<place, call, pc>>
    BY <1>9 DEF CommitMeta
  <2>5. Resumable'
    BY <2>3, <1>s
  <2>6. QED
    BY <2>1, <2>2, <2>3, <2>4, <2>5 DEF ResumeOK, Goto, MigratorsOK
<1>10. CASE \E t \in script : CreateTable(p, t)
  <2>1. \A q \in Proc : q # p => pc[q] \notin {"bootstrap", "script", "apply"}
    BY <1>10, <1>l DEF CreateTable
  <2>2. schema.ledger = {} /\ schema \in Schema /\ ScriptOK(schema, script) /\ pc[p] = "script"
    BY <1>10 DEF CreateTable, LedgerOK, ResumeOK, MigratorsOK
  <2>3. schema'.ledger = {} /\ ScriptOK(schema', script')
    BY <1>10, <2>2, MigrationAssumption DEF CreateTable, ScriptOK, Schema, LegacyVersion
  <2>4. UNCHANGED <<place, call, pc>>
    BY <1>10 DEF CreateTable
  <2>5. Resumable'
    BY <2>3, <1>s
  <2>6. QED
    BY <2>1, <2>2, <2>3, <2>4, <2>5 DEF ResumeOK, Goto, MigratorsOK
<1>11. CASE EndScript(p)
  <2>1. \A q \in Proc : q # p => pc[q] \notin {"bootstrap", "script", "apply"}
    BY <1>11, <1>l DEF EndScript
  <2>2. work'.meta # Absent
    BY <1>11, MigrationAssumption DEF EndScript, LegacyVersion
  <2>3. ~Unexplained(work')
    BY <2>2 DEF Unexplained
  <2>4. UNCHANGED <<place, schema, script, torn, call>> /\ pc' = [pc EXCEPT ![p] = "bootstrap"]
    BY <1>11 DEF EndScript, Goto
  <2>5. QED
    BY <2>1, <2>3, <2>4, <1>0 DEF ResumeOK, Goto, MigratorsOK
<1>12. CASE \E m \in Id : Apply(p, m)
  <2>1. \A q \in Proc : q # p => pc[q] \notin {"bootstrap", "script", "apply"}
    BY <1>12, <1>l DEF Apply
  <2>2. PICK m \in Id : Apply(p, m)
    BY <1>12
  <2>3. pc[p] = "apply" /\ UNCHANGED <<place, schema, script, torn, call, pc>>
    BY <2>2 DEF Apply
  <2>4. ASSUME ~call[p].dry
        PROVE  Valid(call[p].build, work')
    <3>1. call[p] \in Call /\ Valid(call[p].build, work)
      BY <2>3, <2>4, MigrationAssumption DEF ResumeOK, MigratorsOK, LockOK
    <3>2. Executable(call[p], work) = Pending(call[p], work)
      BY <2>2, <2>4 DEF Apply, Refused, Executable
    <3>3. /\ m \in Pending(call[p], work) /\ \A n \in Pending(call[p], work) : m <= n
          /\ work'.tables = work.tables \cup Creates[m]
          /\ work'.ledger = Record({m}, call[p].build, work.ledger)
      BY <2>2, <3>2 DEF Apply, MigratorsOK, Schema
    <3>4. QED
      BY <3>1, <3>3, ValidApply
  <2>5. QED
    BY <2>1, <2>3, <2>4, <1>0 DEF ResumeOK, Goto, MigratorsOK
<1>13. CASE Commit(p)
  <2>1. \A q \in Proc : q # p => pc[q] \notin {"bootstrap", "script", "apply"}
    BY <1>13, <1>l DEF Commit
  <2>2. /\ pc[p] = "apply" /\ ~call[p].dry /\ schema' = work
        /\ UNCHANGED <<place, call, script, torn>> /\ pc' = [pc EXCEPT ![p] = "unlock"]
    BY <1>13 DEF Commit, Goto
  <2>3. call[p] \in Call /\ Valid(call[p].build, work) /\ call[p].build \in Build
    BY <2>2, MigrationAssumption DEF ResumeOK, MigratorsOK, LockOK
  <2>4. Pending(call[p], work) = {}
    BY <1>13 DEF Commit, Refused, Executable
  <2>5. Resumes(call[p].build, schema')
    BY <2>2, <2>3, <2>4, CommitResumes
  <2>6. Resumable'
    BY <2>3, <2>5 DEF Resumable
  <2>7. QED
    BY <2>1, <2>2, <2>6 DEF ResumeOK, Goto, MigratorsOK
<1>14. CASE Rollback(p)
  <2>2. UNCHANGED <<place, schema>> /\ pc'[p] \in {"unlock", "idle"}
        /\ (lock = p \/ UNCHANGED transaction) /\ pc' = [pc EXCEPT ![p] = pc'[p]]
        /\ \A q \in Proc : q # p => call'[q] = call[q]
    BY <1>14, <1>l DEF Rollback, Goto, MigratorsOK, transaction
  <2>3. \A q \in Proc : pc'[q] \in {"bootstrap", "script", "apply"} =>
          q # p /\ pc[q] = pc'[q] /\ UNCHANGED transaction
    BY <1>l, <2>2 DEF MigratorsOK
  <2>4. UNCHANGED <<script, torn>>
    BY <1>14 DEF Rollback
  <2>5. QED
    BY <2>2, <2>3, <2>4, <1>0 DEF ResumeOK, transaction
<1>15. CASE Unlock(p)
  <2>2. UNCHANGED <<place, schema>> /\ pc'[p] \in {"unlock", "idle"}
        /\ (lock = p \/ UNCHANGED transaction) /\ pc' = [pc EXCEPT ![p] = pc'[p]]
        /\ \A q \in Proc : q # p => call'[q] = call[q]
    BY <1>15, <1>l DEF Unlock, Goto, MigratorsOK, transaction
  <2>3. \A q \in Proc : pc'[q] \in {"bootstrap", "script", "apply"} =>
          q # p /\ pc[q] = pc'[q] /\ UNCHANGED transaction
    BY <1>l, <2>2 DEF MigratorsOK
  <2>4. UNCHANGED <<script, torn>>
    BY <1>15 DEF Unlock
  <2>5. QED
    BY <2>2, <2>3, <2>4, <1>0 DEF ResumeOK, transaction
<1>16. CASE Fail(p)
  <2>2. UNCHANGED <<place, schema>> /\ pc'[p] \in {"unlock", "idle"}
        /\ (lock = p \/ UNCHANGED transaction) /\ pc' = [pc EXCEPT ![p] = pc'[p]]
        /\ \A q \in Proc : q # p => call'[q] = call[q]
    BY <1>16, <1>l DEF Fail, Goto, MigratorsOK, transaction
  <2>3. \A q \in Proc : pc'[q] \in {"bootstrap", "script", "apply"} =>
          q # p /\ pc[q] = pc'[q] /\ UNCHANGED transaction
    BY <1>l, <2>2 DEF MigratorsOK
  <2>4. CASE pc[p] = "script"
    <3>1. \A q \in Proc : pc'[q] \notin {"bootstrap", "script", "apply"}
      BY <1>l, <2>3, <2>4
    <3>2. CASE script = {}
      <4>1. UNCHANGED <<script, torn>>
        BY <1>16, <2>4, <3>2 DEF Fail, Tear, MigratorsOK
      <4>2. QED
        BY <2>2, <3>1, <4>1, <1>0 DEF ResumeOK
    <3>3. CASE script # {} /\ schema.meta # Absent
      <4>1. torn'
        BY <1>16, <2>4, <3>3 DEF Fail, Tear
      <4>2. QED
        BY <3>1, <4>1 DEF ResumeOK, Resumable
    <3>4. CASE schema.meta = Absent
      <4>1. ScriptOK(schema, script) /\ schema.ledger = {} /\ schema \in Schema
        BY <2>4 DEF ResumeOK, LedgerOK, MigratorsOK
      <4>2. \A b \in Build : Resumes(b, schema)
        BY <3>4, <4>1, ScriptResumes DEF ScriptOK
      <4>3. Resumable'
        BY <2>2, <4>2 DEF Resumable
      <4>4. QED
        BY <3>1, <4>3 DEF ResumeOK
    <3>5. QED
      BY <3>2, <3>3, <3>4
  <2>5. CASE pc[p] # "script"
    <3>1. UNCHANGED <<script, torn>>
      BY <1>16, <2>5 DEF Fail, Tear, MigratorsOK
    <3>2. QED
      BY <2>2, <2>3, <3>1, <1>0 DEF ResumeOK, transaction
  <2>6. QED
    BY <2>4, <2>5
<1>17. CASE Crash(p)
  <2>2. UNCHANGED <<place, schema>> /\ pc'[p] \in {"unlock", "idle"}
        /\ (lock = p \/ UNCHANGED transaction) /\ pc' = [pc EXCEPT ![p] = pc'[p]]
        /\ \A q \in Proc : q # p => call'[q] = call[q]
    BY <1>17, <1>l DEF Crash, Goto, MigratorsOK, transaction
  <2>3. \A q \in Proc : pc'[q] \in {"bootstrap", "script", "apply"} =>
          q # p /\ pc[q] = pc'[q] /\ UNCHANGED transaction
    BY <1>l, <2>2 DEF MigratorsOK
  <2>4. CASE pc[p] = "script"
    <3>1. \A q \in Proc : pc'[q] \notin {"bootstrap", "script", "apply"}
      BY <1>l, <2>3, <2>4
    <3>2. CASE script = {}
      <4>1. UNCHANGED <<script, torn>>
        BY <1>17, <2>4, <3>2 DEF Crash, Tear, MigratorsOK
      <4>2. QED
        BY <2>2, <3>1, <4>1, <1>0 DEF ResumeOK
    <3>3. CASE script # {} /\ schema.meta # Absent
      <4>1. torn'
        BY <1>17, <2>4, <3>3 DEF Crash, Tear
      <4>2. QED
        BY <3>1, <4>1 DEF ResumeOK, Resumable
    <3>4. CASE schema.meta = Absent
      <4>1. ScriptOK(schema, script) /\ schema.ledger = {} /\ schema \in Schema
        BY <2>4 DEF ResumeOK, LedgerOK, MigratorsOK
      <4>2. \A b \in Build : Resumes(b, schema)
        BY <3>4, <4>1, ScriptResumes DEF ScriptOK
      <4>3. Resumable'
        BY <2>2, <4>2 DEF Resumable
      <4>4. QED
        BY <3>1, <4>3 DEF ResumeOK
    <3>5. QED
      BY <3>2, <3>3, <3>4
  <2>5. CASE pc[p] # "script"
    <3>1. UNCHANGED <<script, torn>>
      BY <1>17, <2>5 DEF Crash, Tear, MigratorsOK
    <3>2. QED
      BY <2>2, <2>3, <3>1, <1>0 DEF ResumeOK, transaction
  <2>6. QED
    BY <2>4, <2>5
<1> QED
  BY <1>1, <1>2, <1>3, <1>4, <1>5, <1>6, <1>7, <1>8, <1>9, <1>10, <1>11,
     <1>12, <1>13, <1>14, <1>15, <1>16, <1>17
  DEF Migrator, Migrate, Bootstrap

LEMMA ResumeStep ==
  /\ MigratorsOK /\ LockOK /\ LedgerOK /\ ResumeOK
  /\ [MigrationNext]_migrationVars
  => ResumeOK'
<1> SUFFICES ASSUME MigratorsOK, LockOK, LedgerOK, ResumeOK,
                    [MigrationNext]_migrationVars
             PROVE  ResumeOK'
  OBVIOUS
<1>1. ASSUME NEW t \in Table, Write(t)
      PROVE  ResumeOK'
  BY <1>1 DEF Write, transaction, ResumeOK, Resumable
<1>2. CASE UNCHANGED migrationVars
  BY <1>2 DEF migrationVars, transaction, ResumeOK, Resumable
<1>3. QED
  BY <1>1, <1>2, MigratorResume, MigrationNextIs

\* A migration that failed or died can be started again, except when it was
\* interrupted in the middle of executescript.
THEOREM MigrationsResume == MigrationSpec => []Resumable
<1>1. MigrationSpec => [](MigratorsOK /\ LockOK /\ LedgerOK /\ ResumeOK)
  BY MigratorsInit, ShapeStep, LedgerInit, LedgerStep, ResumeInit, ResumeStep, PTL
  DEF MigrationSpec
<1>2. ResumeOK => Resumable
  BY DEF ResumeOK
<1>3. QED
  BY <1>1, <1>2, PTL

-----------------------------------------------------------------------------
(***************************************************************************)
(* Dry runs                                                                *)
(***************************************************************************)

ScriptsOnSqlite == \A p \in Proc : pc[p] = "script" => OnSqlite

LEMMA ScriptsStep ==
  MigratorsOK /\ ScriptsOnSqlite /\ [MigrationNext]_migrationVars => ScriptsOnSqlite'
<1> SUFFICES ASSUME MigratorsOK, ScriptsOnSqlite, [MigrationNext]_migrationVars
             PROVE  ScriptsOnSqlite'
  OBVIOUS
<1> USE DEF ScriptsOnSqlite, OnSqlite, transaction
<1>1. ASSUME NEW p \in Proc, Migrator(p)
      PROVE  ScriptsOnSqlite'
  <2>1. place' = place /\ \A q \in Proc : q # p => pc'[q] = pc[q]
    BY <1>1 DEF Migrator, Migrate, Bootstrap, Start, Acquire, Begin, Fresh, AdoptLegacy,
       UpdateInTransaction, UpdateAndCommit, CreateMeta, CommitMeta, EndScript,
       CreateTable, Apply, Commit, Rollback, Unlock, Fail, Crash, Goto, MigratorsOK
  <2>2. pc'[p] = "script" => pc[p] = "script" \/ OnSqlite
    BY <1>1 DEF Migrator, Migrate, Bootstrap, Start, Acquire, Begin, Fresh, AdoptLegacy,
       UpdateInTransaction, UpdateAndCommit, CreateMeta, CommitMeta, EndScript,
       CreateTable, Apply, Commit, Rollback, Unlock, Fail, Crash, Goto, MigratorsOK
  <2>3. QED
    BY <2>1, <2>2
<1>2. ASSUME NEW t \in Table, Write(t)
      PROVE  ScriptsOnSqlite'
  BY <1>2 DEF Write
<1>3. CASE UNCHANGED migrationVars
  BY <1>3 DEF migrationVars
<1>4. QED
  BY <1>1, <1>2, <1>3, MigrationNextIs

\* Where dry runs keep what they promise.
DryRunSafe ==
  \A p \in Proc :
    lock = p /\ call[p].dry /\ (~OnSqlite \/ schema.ledger # {}) => schema' = schema

LEMMA DryRunStep ==
  MigratorsOK /\ LockOK /\ LedgerOK /\ ScriptsOnSqlite /\ [MigrationNext]_migrationVars
    => DryRunSafe
<1> SUFFICES ASSUME MigratorsOK, LockOK, LedgerOK, ScriptsOnSqlite,
                    [MigrationNext]_migrationVars, NEW p \in Proc,
                    lock = p, call[p].dry, ~OnSqlite \/ schema.ledger # {}
             PROVE  schema' = schema
  BY DEF DryRunSafe
<1>1. pc[p] # "script" /\ (pc[p] = "bootstrap" => ~OnSqlite)
  BY DEF LedgerOK, ScriptsOnSqlite
<1>2. ASSUME NEW q \in Proc, Migrator(q)
      PROVE  schema' = schema
  <2>1. CASE q = p
    BY <1>1, <1>2, <2>1 DEF Migrator, Migrate, Bootstrap, Start, Acquire, Begin, Fresh,
       AdoptLegacy, UpdateInTransaction, UpdateAndCommit, CreateMeta, CommitMeta,
       EndScript, CreateTable, Apply, Commit, Rollback, Unlock, Fail, Crash
  <2>2. CASE q # p
    <3>1. pc[q] \in {"idle", "lock"}
      BY <2>2 DEF LockOK
    <3>2. QED
      BY <1>2, <3>1 DEF Migrator, Migrate, Bootstrap, Start, Acquire, Begin, Fresh,
         AdoptLegacy, UpdateInTransaction, UpdateAndCommit, CreateMeta, CommitMeta,
         EndScript, CreateTable, Apply, Commit, Rollback, Unlock, Fail, Crash
  <2>3. QED
    BY <2>1, <2>2
<1>3. QED
  BY <1>2, MigrationNextIs DEF Write, migrationVars

\* A dry run changes what is committed on SQLite only, and only a database that
\* has no ledger: everywhere else it is rolled back as documented.
THEOREM DryRunsRollBack == MigrationSpec => [][DryRunSafe]_migrationVars
<1>1. MigrationInit => ScriptsOnSqlite
  BY DEF MigrationInit, ScriptsOnSqlite
<1>2. QED
  BY <1>1, MigratorsInit, ShapeStep, LedgerInit, LedgerStep, ScriptsStep, DryRunStep, PTL
  DEF MigrationSpec

-----------------------------------------------------------------------------
(***************************************************************************)
(* Backups beside migrations                                               *)
(***************************************************************************)

\* Whatever is proved of the migrations holds while backups are taken.
THEOREM BackupImplementsMigration == Spec => MigrationSpec
<1>1. Init => MigrationInit
  BY DEF Init
<1>2. [Next]_vars => [MigrationNext]_migrationVars
  BY DEF Next, vars
<1>3. QED
  BY <1>1, <1>2, PTL DEF Spec, MigrationSpec

Stage ==
  {"idle", "inventory", "compare", "manifest", "verify", "cleanup", "restore",
   "restored"}
Request == [does : {"backup", "restore"}, from : Path, to : Path]
Real(m) == m \notin {NoFile, Partial}

ClientsOK ==
  /\ place \in Place
  /\ file \in [Path -> Copied \cup {NoFile, Partial}]
  /\ manifest \in [Path -> Manifest \cup {NoFile, Partial}]
  /\ at \in [Client -> Stage]
  /\ order \in [Client -> Request \cup {NoOrder}]
  /\ inventory \in [Client -> Inventoried]
  /\ unread \in [Client -> SUBSET Authoritative]
  /\ told \subseteq Path \X Path /\ shared \subseteq Path
  /\ \A c \in Client : at[c] # "idle" => order[c] \in Order[place][c]

LEMMA BackupShape == MigrationTypeOK /\ ClientsOK => TypeOK
BY DEF ClientsOK, TypeOK, Stage, Inventoried

LEMMA InventoryType ==
  ASSUME NEW copy \in Copied \cup {Partial}
  PROVE  InventoryOf(copy) \in Inventoried
BY BackupAssumption DEF InventoryOf, Copied, Inventoried

LEMMA SnapshotType == MigratorsOK => Snapshot \in Copied
BY DEF MigratorsOK, Snapshot, Content, Copied

LEMMA OrderType ==
  ASSUME place \in Place, NEW c \in Client, NEW o \in Order[place][c]
  PROVE  o \in Request /\ (o.does = "backup" <=> o.from = o.to)
BY BackupAssumption DEF Request

\* The steps of one client.
ClientStep(c) ==
  \/ Copy(c) \/ Compare(c) \/ WriteManifest(c) \/ Report(c) \/ Cleanup(c)
  \/ Restore(c) \/ ReportRestored(c) \/ BackupFails(c) \/ BackupDies(c)
  \/ \E t \in Authoritative : Inventory(c, t)

ClientBegins(c) ==
  \E o \in Order[place][c] :
    BeginBackup(c, o) \/ \E verify \in BOOLEAN : BeginRestore(c, o, verify)

LEMMA BackupNextIs ==
  BackupNext => \/ \E c \in Client : ClientStep(c) \/ ClientBegins(c)
                \/ \E n \in Nat : LoseBlob(n)
<1>1. \A n \in 1..Content(BlobTable) : n \in Nat
  OBVIOUS
<1>2. QED
  BY <1>1 DEF BackupNext, ClientStep, ClientBegins

LEMMA BackupInitOK == MigrationInit /\ BackupInit => ClientsOK
<1>1. InventoryOf(Partial) \in Inventoried
  BY InventoryType
<1>2. QED
  BY <1>1 DEF MigrationInit, BackupInit, ClientsOK, Stage

LEMMA ClientShape ==
  ASSUME MigratorsOK, ClientsOK, NEW c \in Client, ClientStep(c), UNCHANGED place
  PROVE  ClientsOK'
<1>0. InventoryOf(Partial) \in Inventoried
  BY InventoryType
<1>1. CASE \E t \in Authoritative : Inventory(c, t)
  <2>1. PICK t \in Authoritative : Inventory(c, t)
    BY <1>1
  <2>2. Content(t) \in Nat \cup {Missing}
    BY <2>1, BackupAssumption DEF MigratorsOK, Content
  <2>3. QED
    BY <2>1, <2>2 DEF Inventory, ClientsOK, Inventoried
<1>2. CASE Copy(c)
  <2>1. order[c] \in Request
    BY <1>2, OrderType DEF Copy, ClientsOK
  <2>2. QED
    BY <1>2, <2>1, SnapshotType DEF Copy, Move, ClientsOK, Stage, Request
<1>3. CASE Compare(c)
  BY <1>3 DEF Compare, Move, ClientsOK, Stage
<1>4. CASE WriteManifest(c)
  <2>1. order[c] \in Request
    BY <1>4, OrderType DEF WriteManifest, ClientsOK
  <2>2. [tables |-> inventory[c], sha |-> file[order[c].to]] \in Manifest
    BY <1>4, <2>1 DEF WriteManifest, ClientsOK, Manifest, Request
  <2>3. QED
    BY <1>4, <2>1, <2>2 DEF WriteManifest, Move, ClientsOK, Stage, Request
<1>5. CASE Report(c)
  <2>1. order[c] \in Request
    BY <1>5, OrderType DEF Report, ClientsOK
  <2>2. <<order[c].from, order[c].to>> \in Path \X Path
    BY <2>1 DEF Request
  <2>3. QED
    BY <1>5, <1>0, <2>2 DEF Report, End, Move, ClientsOK, Stage
<1>6. CASE ReportRestored(c)
  <2>1. order[c] \in Request
    BY <1>6, OrderType DEF ReportRestored, ClientsOK
  <2>2. <<order[c].from, order[c].to>> \in Path \X Path
    BY <2>1 DEF Request
  <2>3. QED
    BY <1>6, <1>0, <2>2 DEF ReportRestored, End, Move, ClientsOK, Stage
<1>7. CASE Cleanup(c)
  <2>1. order[c] \in Request
    BY <1>7, OrderType DEF Cleanup, ClientsOK
  <2>2. QED
    BY <1>7, <1>0, <2>1 DEF Cleanup, End, Move, ClientsOK, Stage, Request
<1>8. CASE Restore(c)
  <2>1. order[c] \in Request
    BY <1>8, OrderType DEF Restore, ClientsOK
  <2>2. QED
    BY <1>8, <2>1 DEF Restore, Move, ClientsOK, Stage, Request
<1>9. CASE BackupFails(c)
  BY <1>9 DEF BackupFails, Move, ClientsOK, Stage
<1>10. CASE BackupDies(c)
  <2>1. order[c] \in Request
    BY <1>10, OrderType DEF BackupDies, ClientsOK
  <2>2. /\ file' \in [Path -> Copied \cup {NoFile, Partial}]
        /\ manifest' \in [Path -> Manifest \cup {NoFile, Partial}]
    BY <1>10, <2>1 DEF BackupDies, ClientsOK, Request
  <2>3. QED
    BY <1>10, <1>0, <2>2 DEF BackupDies, End, Move, ClientsOK, Stage
<1> QED
  BY <1>1, <1>2, <1>3, <1>4, <1>5, <1>6, <1>7, <1>8, <1>9, <1>10
  DEF ClientStep

LEMMA BeginShape ==
  ASSUME ClientsOK, NEW c \in Client, ClientBegins(c), UNCHANGED place
  PROVE  ClientsOK'
<1>1. PICK o \in Order[place][c] :
        BeginBackup(c, o) \/ \E verify \in BOOLEAN : BeginRestore(c, o, verify)
  BY DEF ClientBegins
<1>2. o \in Request
  BY OrderType DEF ClientsOK
<1>3. shared' \subseteq Path
  BY <1>1, <1>2 DEF BeginBackup, BeginRestore, ClientsOK, Request
<1>4. CASE BeginBackup(c, o)
  <2>1. InventoryOf(Partial) \in Inventoried
    BY InventoryType
  <2>2. QED
    BY <1>2, <1>3, <1>4, <2>1 DEF BeginBackup, Move, ClientsOK, Stage
<1>5. CASE \E verify \in BOOLEAN : BeginRestore(c, o, verify)
  <2>1. manifest[o.from].tables \in Inventoried
    BY <1>2, <1>5 DEF BeginRestore, ClientsOK, Manifest, Request
  <2>2. QED
    BY <1>2, <1>3, <1>5, <2>1 DEF BeginRestore, Move, ClientsOK, Stage
<1>6. QED
  BY <1>1, <1>4, <1>5

-----------------------------------------------------------------------------
(***************************************************************************)
(* Archives and manifests                                                  *)
(***************************************************************************)

Busy(c) == at[c] # "idle"

\* Calls that overlap on a destination are known.
Exclusive ==
  \A c, d \in Client :
    Busy(c) /\ Busy(d) /\ order[c].to = order[d].to => c = d \/ order[c].to \in shared

\* What a client works on, and what it finds at a destination that is its own.
Progress(c) ==
  /\ at[c] \in {"inventory", "compare", "manifest", "verify"} =>
       order[c].does = "backup"
  /\ at[c] \in {"restore", "restored"} =>
       /\ order[c].does = "restore"
       /\ Real(manifest[order[c].from])
       /\ inventory[c] = manifest[order[c].from].tables

OwnOK(c) ==
  LET f == order[c].to IN
  Busy(c) /\ f \notin shared =>
    /\ at[c] \in {"inventory", "compare", "manifest"} => manifest[f] = NoFile
    /\ at[c] \in {"compare", "manifest", "verify"} => file[f] \in Copied
    /\ at[c] = "manifest" => InventoryOf(file[f]) = inventory[c]
    /\ order[c].does = "restore" => ~Real(manifest[f])

\* A reported archive or database is nobody's destination any more.
ToldOK ==
  \A r \in told : r[2] \notin shared =>
    /\ \A c \in Client : Busy(c) => order[c].to # r[2]
    /\ file[r[2]] # NoFile
    /\ r[1] = r[2] => Described(r[2]) /\ file[r[2]] # Partial
    /\ r[1] # r[2] =>
         Real(manifest[r[1]]) /\ InventoryOf(file[r[2]]) = manifest[r[1]].tables

ArchivesOK ==
  /\ Exclusive
  /\ \A c \in Client : Progress(c) /\ OwnOK(c)
  /\ ManifestIsOneState
  /\ ToldOK

LEMMA ArchivesImply == ArchivesOK => ReportedIsKept /\ ManifestIsOneState
BY DEF ArchivesOK, ToldOK, ReportedIsKept, Real

\* Files, manifests and inventories are told apart from none.
LEMMA Kinds ==
  /\ \A x \in Copied \cup Manifest : x # NoFile /\ x # Partial
  /\ NoFile # Partial
BY BackupAssumption

\* A client changes the files at its destination only, and no manifest that
\* is there.
LEMMA ClientFrame ==
  ASSUME ClientsOK, NEW c \in Client, ClientStep(c)
  PROVE  /\ order[c] \in Request /\ Busy(c)
         /\ order[c].does = "backup" <=> order[c].from = order[c].to
         /\ \A f \in Path : f # order[c].to =>
              file'[f] = file[f] /\ manifest'[f] = manifest[f]
         /\ \A f \in Path : Real(manifest[f]) => manifest'[f] = manifest[f]
         /\ \A d \in Client : d # c =>
              at'[d] = at[d] /\ order'[d] = order[d] /\ inventory'[d] = inventory[d]
         /\ shared' = shared
         /\ at'[c] = "idle" \/ order'[c] = order[c]
<1>1. Busy(c)
  BY DEF ClientStep, Copy, Compare, WriteManifest, Report, Cleanup, Restore,
     ReportRestored, BackupFails, BackupDies, Inventory, Busy
<1>2. order[c] \in Request /\ (order[c].does = "backup" <=> order[c].from = order[c].to)
  BY <1>1, OrderType DEF ClientsOK, Busy
<1> USE DEF ClientsOK, Move, Request, Real
<1>3. CASE Copy(c)
  BY <1>1, <1>2, <1>3 DEF Copy
<1>4. CASE Compare(c)
  BY <1>1, <1>2, <1>4 DEF Compare
<1>5. CASE WriteManifest(c)
  BY <1>1, <1>2, <1>5 DEF WriteManifest
<1>6. CASE Report(c) \/ ReportRestored(c)
  BY <1>1, <1>2, <1>6 DEF Report, ReportRestored, End
<1>7. CASE Cleanup(c)
  BY <1>1, <1>2, <1>7 DEF Cleanup, End
<1>8. CASE Restore(c)
  BY <1>1, <1>2, <1>8 DEF Restore
<1>9. CASE BackupFails(c)
  BY <1>1, <1>2, <1>9 DEF BackupFails
<1>10. CASE BackupDies(c)
  BY <1>1, <1>2, <1>10 DEF BackupDies, End
<1>11. CASE \E t \in Authoritative : Inventory(c, t)
  BY <1>1, <1>2, <1>11 DEF Inventory
<1>12. QED
  BY <1>3, <1>4, <1>5, <1>6, <1>7, <1>8, <1>9, <1>10, <1>11 DEF ClientStep

\* What a client does at a destination that is its own.
LEMMA OwnTransaction ==
  ASSUME MigratorsOK, ClientsOK, ArchivesOK, NEW c \in Client, ClientStep(c),
         order[c].to \notin shared
  PROVE  LET f == order[c].to IN
         /\ Busy(c)' =>
              /\ at'[c] \in {"inventory", "compare", "manifest"} => manifest'[f] = NoFile
              /\ at'[c] \in {"compare", "manifest", "verify"} => file'[f] \in Copied
              /\ at'[c] = "manifest" => InventoryOf(file'[f]) = inventory'[c]
              /\ order[c].does = "restore" => ~Real(manifest'[f])
         /\ Real(manifest'[f]) =>
              file'[f] = manifest'[f].sha /\ InventoryOf(file'[f]) = manifest'[f].tables
<1> DEFINE f == order[c].to
<1>1. /\ f \in Path /\ Busy(c) /\ Progress(c)
      /\ at[c] \in {"inventory", "compare", "manifest"} => manifest[f] = NoFile
      /\ at[c] \in {"compare", "manifest", "verify"} => file[f] \in Copied
      /\ at[c] = "manifest" => InventoryOf(file[f]) = inventory[c]
      /\ order[c].does = "restore" => ~Real(manifest[f])
      /\ Real(manifest[f]) =>
           file[f] = manifest[f].sha /\ InventoryOf(file[f]) = manifest[f].tables
      /\ at[c] \in Stage
  BY ClientFrame DEF ArchivesOK, OwnOK, ManifestIsOneState, Described, Real, Request, ClientsOK
<1> HIDE DEF f
<1> USE DEF Move, ClientsOK, Busy
<1>2. CASE Copy(c)
  <2>1. file'[f] = Snapshot /\ manifest' = manifest /\ at'[c] = "compare"
        /\ at[c] = "inventory"
    BY <1>1, <1>2 DEF Copy, f
  <2>2. QED
    BY <1>1, <2>1, SnapshotType DEF f, Real, Progress
<1>3. CASE Compare(c)
  <2>1. /\ UNCHANGED <<file, manifest, inventory>> /\ at[c] = "compare"
        /\ at'[c] \in {"manifest", "cleanup"}
        /\ at'[c] = "manifest" => InventoryOf(file[f]) = inventory[c]
    BY <1>3 DEF Compare, f
  <2>2. QED
    BY <1>1, <2>1 DEF f
<1>4. CASE WriteManifest(c)
  <2>1. /\ UNCHANGED file /\ at[c] = "manifest" /\ at'[c] = "verify"
        /\ manifest'[f] = [tables |-> inventory[c], sha |-> file[f]]
    BY <1>1, <1>4 DEF WriteManifest, f
  <2>2. QED
    BY <1>1, <2>1 DEF f, Progress
<1>5. CASE Report(c) \/ ReportRestored(c)
  <2>1. UNCHANGED <<file, manifest>> /\ at'[c] = "idle"
    BY <1>5 DEF Report, ReportRestored, End
  <2>2. QED
    BY <1>1, <2>1 DEF f
<1>6. CASE Cleanup(c)
  <2>1. /\ UNCHANGED manifest /\ at'[c] = "idle"
        /\ Real(manifest[f]) => file' = file
    BY <1>1, <1>6 DEF Cleanup, End, f, Real
  <2>2. QED
    BY <1>1, <2>1 DEF f
<1>7. CASE Restore(c)
  <2>1. UNCHANGED manifest /\ at[c] = "restore" /\ at'[c] = "restored"
    BY <1>7 DEF Restore
  <2>2. QED
    BY <1>1, <2>1 DEF f, Progress
<1>8. CASE BackupFails(c)
  <2>1. UNCHANGED <<file, manifest>> /\ at'[c] = "cleanup"
    BY <1>8 DEF BackupFails
  <2>2. QED
    BY <1>1, <2>1 DEF f
<1>9. CASE BackupDies(c)
  <2>1. at'[c] = "idle" /\ (Real(manifest'[f]) => file'[f] = file[f] /\ manifest' = manifest)
    BY <1>1, <1>9 DEF BackupDies, End, f, Real, Progress
  <2>2. QED
    BY <1>1, <2>1 DEF f
<1>10. CASE \E t \in Authoritative : Inventory(c, t)
  <2>1. UNCHANGED <<file, manifest>> /\ at[c] = "inventory" /\ at'[c] = "inventory"
    BY <1>10 DEF Inventory
  <2>2. QED
    BY <1>1, <2>1 DEF f
<1>11. QED
  BY <1>2, <1>3, <1>4, <1>5, <1>6, <1>7, <1>8, <1>9, <1>10 DEF ClientStep, f

LEMMA ProgressStep ==
  ASSUME ClientsOK, ArchivesOK, NEW c \in Client, ClientStep(c)
  PROVE  Progress(c)'
<1>1. /\ order[c] \in Request /\ Busy(c) /\ Progress(c) /\ order[c].from \in Path
      /\ \A f \in Path : Real(manifest[f]) => manifest'[f] = manifest[f]
      /\ at'[c] = "idle" \/ order'[c] = order[c]
  BY ClientFrame DEF ArchivesOK, Request
<1>2. at[c] \in {"restore", "restored"} => manifest'[order[c].from] = manifest[order[c].from]
  BY <1>1 DEF Progress
<1>3. CASE at'[c] \in {"inventory", "compare", "manifest", "verify"}
  <2>1. at[c] \in {"inventory", "compare", "manifest", "verify"} /\ order'[c] = order[c]
    BY <1>1, <1>3 DEF ClientStep, Copy, Compare, WriteManifest, Report, Cleanup, Restore,
       ReportRestored, BackupFails, BackupDies, Inventory, Move, End, ClientsOK
  <2>2. QED
    BY <1>1, <1>3, <2>1 DEF Progress
<1>4. CASE at'[c] \in {"restore", "restored"}
  <2>1. /\ at[c] \in {"restore", "restored"} /\ order'[c] = order[c]
        /\ inventory'[c] = inventory[c]
    BY <1>1, <1>4 DEF ClientStep, Copy, Compare, WriteManifest, Report, Cleanup, Restore,
       ReportRestored, BackupFails, BackupDies, Inventory, Move, End, ClientsOK
  <2>2. QED
    BY <1>1, <1>2, <1>4, <2>1 DEF Progress
<1>5. CASE at'[c] \notin {"inventory", "compare", "manifest", "verify", "restore", "restored"}
  BY <1>5 DEF Progress
<1>6. QED
  BY <1>3, <1>4, <1>5

\* What a report adds is there.
LEMMA ReportStep ==
  ASSUME ClientsOK, ArchivesOK, NEW c \in Client, ClientStep(c),
         NEW r \in told', r \notin told, r[2] \notin shared
  PROVE  /\ r[2] = order[c].to /\ UNCHANGED <<file, manifest>> /\ at'[c] = "idle"
         /\ file[r[2]] # NoFile
         /\ r[1] = r[2] => Described(r[2]) /\ file[r[2]] # Partial
         /\ r[1] # r[2] =>
              Real(manifest[r[1]]) /\ InventoryOf(file[r[2]]) = manifest[r[1]].tables
<1>1. /\ order[c] \in Request /\ (order[c].does = "backup" <=> order[c].from = order[c].to)
      /\ Progress(c) /\ OwnOK(c) /\ Busy(c)
  BY ClientFrame DEF ArchivesOK
<1>2. CASE Report(c)
  <2>1. /\ r = <<order[c].from, order[c].to>> /\ at[c] = "verify"
        /\ Verified(file[order[c].to], manifest[order[c].to])
        /\ UNCHANGED <<file, manifest>> /\ at'[c] = "idle"
    BY <1>2 DEF Report, End, Move, ClientsOK
  <2>2. order[c].from = order[c].to
    BY <1>1, <2>1 DEF Progress
  <2>3. file[order[c].to] \in Copied
    BY <1>1, <2>1 DEF OwnOK
  <2>4. Described(order[c].to)
    BY <2>1 DEF Verified, Described
  <2>5. QED
    BY <2>1, <2>2, <2>3, <2>4, Kinds
<1>3. CASE ReportRestored(c)
  <2>1. /\ r = <<order[c].from, order[c].to>> /\ at[c] = "restored"
        /\ file[order[c].to] # NoFile
        /\ InventoryOf(file[order[c].to]) = inventory[c]
        /\ UNCHANGED <<file, manifest>> /\ at'[c] = "idle"
    BY <1>3 DEF ReportRestored, End, Move, ClientsOK
  <2>2. QED
    BY <1>1, <2>1 DEF Progress
<1>4. QED
  <2>1. Report(c) \/ ReportRestored(c)
    BY DEF ClientStep, Copy, Compare, WriteManifest, Cleanup, Restore, BackupFails,
       BackupDies, Inventory
  <2>2. QED
    BY <1>2, <1>3, <2>1

LEMMA ToldStep ==
  ASSUME ClientsOK, ArchivesOK, NEW c \in Client, ClientStep(c)
  PROVE  ToldOK'
<1> USE DEF Real
<1>0. /\ Busy(c) /\ shared' = shared
      /\ \A f \in Path : f # order[c].to =>
           file'[f] = file[f] /\ manifest'[f] = manifest[f]
      /\ \A f \in Path : Real(manifest[f]) => manifest'[f] = manifest[f]
      /\ \A d \in Client : d # c => at'[d] = at[d] /\ order'[d] = order[d]
      /\ at'[c] = "idle" \/ order'[c] = order[c]
  BY ClientFrame
<1>1. \A d \in Client : Busy(d)' => Busy(d) /\ order'[d] = order[d]
  BY <1>0 DEF Busy
<1>t. told \subseteq Path \X Path
  BY DEF ClientsOK
<1> SUFFICES ASSUME NEW r \in told', r[2] \notin shared
             PROVE  /\ \A d \in Client : Busy(d)' => order'[d].to # r[2]
                    /\ file'[r[2]] # NoFile
                    /\ r[1] = r[2] => Described(r[2])' /\ file'[r[2]] # Partial
                    /\ r[1] # r[2] => /\ Real(manifest'[r[1]])
                                      /\ InventoryOf(file'[r[2]]) = manifest'[r[1]].tables
  BY <1>0 DEF ToldOK
<1>2. CASE r \in told
  <2>1. /\ \A d \in Client : Busy(d) => order[d].to # r[2]
        /\ file[r[2]] # NoFile
        /\ r[1] = r[2] => Described(r[2]) /\ file[r[2]] # Partial
        /\ r[1] # r[2] =>
             Real(manifest[r[1]]) /\ InventoryOf(file[r[2]]) = manifest[r[1]].tables
    BY <1>2 DEF ArchivesOK, ToldOK
  <2>2. r[1] \in Path /\ r[2] \in Path /\ order[c].to # r[2]
    BY <1>0, <1>2, <1>t, <2>1
  <2>3. file'[r[2]] = file[r[2]] /\ manifest'[r[2]] = manifest[r[2]]
    BY <1>0, <2>2
  <2>4. Described(r[2])' <=> Described(r[2])
    BY <2>3 DEF Described
  <2>5. Real(manifest[r[1]]) => manifest'[r[1]] = manifest[r[1]]
    BY <1>0, <2>2
  <2>6. QED
    BY <1>1, <2>1, <2>3, <2>4, <2>5
<1>3. CASE r \notin told
  <2>1. /\ r[2] = order[c].to /\ UNCHANGED <<file, manifest>> /\ at'[c] = "idle"
        /\ file[r[2]] # NoFile
        /\ r[1] = r[2] => Described(r[2]) /\ file[r[2]] # Partial
        /\ r[1] # r[2] =>
             Real(manifest[r[1]]) /\ InventoryOf(file[r[2]]) = manifest[r[1]].tables
    BY <1>3, ReportStep
  <2>2. \A d \in Client : Busy(d)' => order'[d].to # r[2]
    <3>1. \A d \in Client : Busy(d) /\ d # c => order[d].to # r[2]
      BY <1>0, <2>1 DEF ArchivesOK, Exclusive
    <3>2. QED
      BY <1>1, <2>1, <3>1 DEF Busy
  <2>3. Described(r[2])' <=> Described(r[2])
    BY <2>1 DEF Described
  <2>4. QED
    BY <2>1, <2>2, <2>3
<1>4. QED
  BY <1>2, <1>3

LEMMA ClientArchives ==
  ASSUME MigratorsOK, ClientsOK, ArchivesOK, NEW c \in Client, ClientStep(c)
  PROVE  ArchivesOK'
<1>0. /\ Busy(c) /\ shared' = shared /\ order[c] \in Request
      /\ \A f \in Path : f # order[c].to =>
           file'[f] = file[f] /\ manifest'[f] = manifest[f]
      /\ \A f \in Path : Real(manifest[f]) => manifest'[f] = manifest[f]
      /\ \A d \in Client : d # c =>
           at'[d] = at[d] /\ order'[d] = order[d] /\ inventory'[d] = inventory[d]
      /\ at'[c] = "idle" \/ order'[c] = order[c]
  BY ClientFrame
<1>1. \A d \in Client : Busy(d)' => Busy(d) /\ order'[d] = order[d]
  BY <1>0 DEF Busy
<1>2. Exclusive'
  BY <1>0, <1>1 DEF ArchivesOK, Exclusive
<1>3. ASSUME NEW d \in Client
      PROVE  Progress(d)'
  <2>1. CASE d = c
    BY <2>1, ProgressStep
  <2>2. CASE d # c
    <3>1. Progress(d) /\ (Busy(d) => order[d].from \in Path)
      BY OrderType DEF ArchivesOK, ClientsOK, Busy, Request
    <3>2. QED
      BY <1>0, <2>2, <3>1 DEF Progress, Busy
  <2>3. QED
    BY <2>1, <2>2
<1>4. ASSUME NEW d \in Client, Busy(d)', order'[d].to \notin shared'
      PROVE  OwnOK(d)'
  <2>1. CASE d = c
    BY <1>0, <1>1, <1>4, <2>1, OwnTransaction DEF OwnOK
  <2>2. CASE d # c
    <3>1. order[d].to \in Path /\ order[d].to # order[c].to
      BY <1>0, <1>1, <1>4, <2>2, OrderType DEF ArchivesOK, Exclusive, ClientsOK, Busy, Request
    <3>2. QED
      BY <1>0, <1>1, <1>4, <2>2, <3>1 DEF ArchivesOK, OwnOK, Busy
  <2>3. QED
    BY <2>1, <2>2
<1>5. ASSUME NEW f \in Path \ shared', Real(manifest'[f])
      PROVE  Described(f)'
  <2>1. CASE f = order[c].to
    BY <1>0, <1>5, <2>1, OwnTransaction DEF Described, Real
  <2>2. CASE f # order[c].to
    BY <1>0, <1>5, <2>2 DEF ArchivesOK, ManifestIsOneState, Described, Real
  <2>3. QED
    BY <2>1, <2>2
<1>6. ManifestIsOneState'
  BY <1>5 DEF ManifestIsOneState, Real
<1>7. \A d \in Client : OwnOK(d)'
  BY <1>4 DEF OwnOK
<1>8. QED
  BY <1>2, <1>3, <1>6, <1>7, ToldStep DEF ArchivesOK

\* A call that begins finds its destination free, or in use by another call.
LEMMA BeginArchives ==
  ASSUME ClientsOK, ArchivesOK, NEW c \in Client, ClientBegins(c)
  PROVE  ArchivesOK'
<1>1. PICK o \in Order[place][c] :
        BeginBackup(c, o) \/ \E verify \in BOOLEAN : BeginRestore(c, o, verify)
  BY DEF ClientBegins
<1>2. o \in Request /\ (o.does = "backup" <=> o.from = o.to)
  BY OrderType DEF ClientsOK
<1>3. /\ UNCHANGED <<file, manifest, told>> /\ ~Busy(c) /\ file[o.to] = NoFile
      /\ order' = [order EXCEPT ![c] = o]
      /\ shared' = IF InUse(o.to) THEN shared \cup {o.to} ELSE shared
      /\ \A d \in Client : d # c => at'[d] = at[d] /\ inventory'[d] = inventory[d]
  BY <1>1 DEF BeginBackup, BeginRestore, Move, Busy, ClientsOK
<1>4. \/ o.does = "backup" /\ at'[c] = "inventory" /\ manifest[o.to] = NoFile
      \/ /\ o.does = "restore" /\ at'[c] = "restore" /\ Real(manifest[o.from])
         /\ inventory'[c] = manifest[o.from].tables
  BY <1>1 DEF BeginBackup, BeginRestore, Move, Real, ClientsOK
<1>5. order'[c] = o /\ \A d \in Client : d # c => order'[d] = order[d]
  BY <1>3 DEF ClientsOK
<1>6. \A d \in Client : d # c => (Busy(d)' <=> Busy(d))
  BY <1>3 DEF Busy
<1>7. o.to \notin shared' => \A d \in Client : Busy(d) => order[d].to # o.to
  BY <1>3 DEF InUse, Busy
<1>8. shared \subseteq shared'
  BY <1>3
<1>9. Exclusive'
  BY <1>5, <1>6, <1>7, <1>8 DEF ArchivesOK, Exclusive
<1>10. ASSUME NEW d \in Client
       PROVE  Progress(d)'
  <2>1. CASE d = c
    BY <1>3, <1>4, <1>5, <2>1 DEF Progress
  <2>2. CASE d # c
    BY <1>3, <1>5, <2>2 DEF ArchivesOK, Progress
  <2>3. QED
    BY <2>1, <2>2
<1>11. o.to \notin shared' => ~Real(manifest[o.to])
  <2>1. CASE o.to \notin shared /\ Real(manifest[o.to])
    <3>1. o.to \in Path \ shared
      BY <1>2, <2>1 DEF Request
    <3>2. Described(o.to)
      BY <2>1, <3>1 DEF ArchivesOK, ManifestIsOneState, Real
    <3>3. manifest[o.to] \in Manifest
      BY <2>1, <3>1 DEF ClientsOK, Real
    <3>4. manifest[o.to].sha # NoFile
      BY <3>3, Kinds DEF Manifest
    <3>5. QED
      BY <1>3, <3>2, <3>4 DEF Described
  <2>2. QED
    BY <1>8, <2>1
<1>12. ASSUME NEW d \in Client
       PROVE  OwnOK(d)'
  <2>1. CASE d = c
    BY <1>3, <1>4, <1>5, <1>11, <2>1 DEF OwnOK
  <2>2. CASE d # c
    BY <1>3, <1>5, <1>6, <1>8, <2>2 DEF ArchivesOK, OwnOK
  <2>3. QED
    BY <2>1, <2>2
<1>13. ManifestIsOneState'
  BY <1>3, <1>8 DEF ArchivesOK, ManifestIsOneState, Described
<1>14. ToldOK'
  <2> SUFFICES ASSUME NEW r \in told, r[2] \notin shared'
               PROVE  /\ \A d \in Client : Busy(d)' => order'[d].to # r[2]
                      /\ file[r[2]] # NoFile
                      /\ r[1] = r[2] => Described(r[2]) /\ file[r[2]] # Partial
                      /\ r[1] # r[2] => /\ Real(manifest[r[1]])
                                        /\ InventoryOf(file[r[2]]) = manifest[r[1]].tables
    BY <1>3 DEF ToldOK, Described
  <2>1. r[2] \notin shared
    BY <1>8
  <2>2. r[2] # o.to
    BY <1>3, <2>1 DEF ArchivesOK, ToldOK
  <2>3. QED
    BY <1>5, <1>6, <2>1, <2>2 DEF ArchivesOK, ToldOK
<1>15. QED
  BY <1>9, <1>10, <1>12, <1>13, <1>14 DEF ArchivesOK

BackupOK == ClientsOK /\ ArchivesOK

LEMMA BackupStep ==
  MigratorsOK /\ BackupOK /\ [Next]_vars => BackupOK'
<1> SUFFICES ASSUME MigratorsOK, ClientsOK, ArchivesOK, [Next]_vars
             PROVE  ClientsOK' /\ ArchivesOK'
  BY DEF BackupOK
<1>1. ASSUME NEW c \in Client, ClientStep(c), UNCHANGED place
      PROVE  ClientsOK' /\ ArchivesOK'
  BY <1>1, ClientShape, ClientArchives
<1>2. ASSUME NEW c \in Client, ClientBegins(c), UNCHANGED place
      PROVE  ClientsOK' /\ ArchivesOK'
  BY <1>2, BeginShape, BeginArchives
<1>3. ASSUME UNCHANGED <<place, file, manifest, at, order, inventory, unread, told, shared>>
      PROVE  ClientsOK' /\ ArchivesOK'
  BY <1>3 DEF ClientsOK, ArchivesOK, Exclusive, Progress, OwnOK, ManifestIsOneState,
     ToldOK, Described, Busy
<1>4. CASE MigrationNext /\ UNCHANGED backupVars
  <2>1. UNCHANGED place
    BY <1>4 DEF MigrationNext, Migrate, Bootstrap, Start, Acquire, Begin, Fresh,
       AdoptLegacy, UpdateInTransaction, UpdateAndCommit, CreateMeta, CommitMeta,
       EndScript, CreateTable, Apply, Commit, Rollback, Unlock, Fail, Crash, Write
  <2>2. QED
    BY <1>3, <1>4, <2>1 DEF backupVars, clientVars
<1>5. CASE BackupNext /\ UNCHANGED migrationVars
  <2>1. UNCHANGED place
    BY <1>5 DEF migrationVars
  <2>2. ASSUME NEW n \in Nat, LoseBlob(n)
        PROVE  ClientsOK' /\ ArchivesOK'
    BY <1>3, <2>1, <2>2 DEF LoseBlob, clientVars
  <2>3. QED
    BY <1>1, <1>2, <1>5, <2>1, <2>2, BackupNextIs
<1>6. CASE UNCHANGED vars
  BY <1>3, <1>6 DEF vars, migrationVars, backupVars, clientVars
<1>7. QED
  BY <1>4, <1>5, <1>6 DEF Next

LEMMA BackupStart == Init => BackupOK
<1> SUFFICES ASSUME MigrationInit, BackupInit
             PROVE  ClientsOK /\ ArchivesOK
  BY DEF Init, BackupOK
<1>1. /\ \A c \in Client : at[c] = "idle"
      /\ \A f \in Path : manifest[f] = NoFile
      /\ told = {}
  BY DEF BackupInit
<1>2. QED
  BY <1>1, BackupInitOK DEF ArchivesOK, Exclusive, Progress, OwnOK, ManifestIsOneState,
     ToldOK, Busy

LEMMA BackupSafe == Spec => [](MigratorsOK /\ LockOK /\ BackupOK)
<1>1. Init => MigratorsOK /\ LockOK
  BY MigratorsInit DEF Init
<1>2. [Next]_vars => [MigrationNext]_migrationVars
  BY DEF Next, vars
<1>3. QED
  BY <1>1, <1>2, ShapeStep, BackupStart, BackupStep, PTL DEF Spec

\* The database, the files and the clients keep their shape.
THEOREM BackupTypeCorrect == Spec => []TypeOK
<1>1. MigratorsOK /\ LockOK /\ BackupOK => TypeOK
  BY MigrationShape, BackupShape DEF BackupOK
<1>2. QED
  BY <1>1, BackupSafe, PTL

\* What was reported as backed up or restored stays there, unless two calls
\* had its path in use at a time.
THEOREM ReportsAreKept == Spec => []ReportedIsKept
<1>1. BackupOK => ReportedIsKept
  BY ArchivesImply DEF BackupOK
<1>2. QED
  BY <1>1, BackupSafe, PTL

\* A manifest describes the archive beside it, which is one state of the
\* registry.
THEOREM ManifestsDescribe == Spec => []ManifestIsOneState
<1>1. BackupOK => ManifestIsOneState
  BY DEF BackupOK, ArchivesOK
<1>2. QED
  BY <1>1, BackupSafe, PTL

\* The migration theorems, beside backups.
THEOREM UpgradesBesideBackups == Spec => [](LedgerIsTrue /\ Resumable)
BY BackupImplementsMigration, LedgerStaysTrue, MigrationsResume, PTL


-----------------------------------------------------------------------------
(***************************************************************************)
(* The commands of Installer: what every one of them finds                 *)
(***************************************************************************)

Contents == [there : BOOLEAN, own : 0 .. MaxEdits + 1, block : 0 .. MaxKeys,
             users : BOOLEAN]
States == [there : BOOLEAN, block : 0 .. MaxKeys, links : [Link -> {0} \cup Root]]
Plans == [market : BOOLEAN, plugin : BOOLEAN, changed : BOOLEAN, old : States,
          record : States, claimed : BOOLEAN, free : SUBSET Link]
InitSteps == {"create", "fill", "check"}
InstallSteps ==
  InitSteps \cup {"plan", "payload", "strip", "remove", "unlink", "register", "add"}
SetUpSteps ==
  {"configure", "mend", "key", "save", "editor", "back up", "write", "link"}
RestoreSteps == {"unregister", "restore", "put back", "relink", "clear"}
TakeDownSteps == {"stop", "roll back", "take out", "remove", "unlink", "purge"}
Jobs == [cmd : Commands \cup {"none"},
         step : {"idle", "plan removal"} \cup InstallSteps \cup SetUpSteps
                  \cup RestoreSteps \cup TakeDownSteps,
         key : 0 .. MaxKeys, seen : Contents, plan : Plans]

DeskTyped ==
  /\ config \in Contents /\ saved \in Contents
  /\ managed \in [mode : {"none", "torn", "personal", "shared"}, key : 0 .. MaxKeys]
  /\ issued \in 0 .. MaxKeys /\ valid \subseteq 1 .. issued
  /\ links \in [Link -> {0, Foreign, Taken} \cup Root]
  /\ payload \in [Payload -> 0 .. MaxReleases]
  /\ record \in States
  /\ codex \in [market : BOOLEAN, plugin : [PluginFile -> 0 .. MaxReleases]]
  /\ release \in Root /\ root \in Root
  /\ job \in Jobs
  /\ edits \in 0 .. MaxEdits /\ breaks \in 0 .. MaxBreaks
  /\ wrote \in 0 .. edits + 1

\* Which command a step belongs to.
JobOK ==
  \/ job = NoJob
  \/ job.cmd = "init" /\ job.step \in InitSteps
  \/ job.cmd = "install codex" /\ job.step \in InstallSteps
  \/ job.cmd \in {"up", "repair"} /\ job.step \in SetUpSteps
  \/ job.cmd = "uninstall codex" /\ job.step \in {"plan removal"} \cup RestoreSteps
  \/ job.cmd \in {"uninstall", "restore backup", "purge"} /\ job.step \in TakeDownSteps

\* Where the last revision of the user's own content is.  A command that has
\* read config.toml and finds it changed was overtaken by an edit.
ReadBefore == {"back up", "write", "remove", "put back"}
ContentOK ==
  /\ config.own <= wrote /\ saved.own <= wrote
  /\ \A c \in {config, saved, job.seen} : ~c.there => c.own = 0
  /\ saved.own = wrote => config.own \in {0, wrote}
  /\ job.step \in ReadBefore /\ job.seen.own # config.own =>
       config.own = wrote /\ saved.own < wrote /\ job.seen.own < wrote
  /\ job.step = "write" /\ job.seen.there /\ job.seen # Upsert(job.seen, job.key) =>
       saved = job.seen

\* What install-codex is about to take away is in the state file, or will be.
InstallOK ==
  job.cmd = "install codex" =>
    /\ job.step = "payload" =>
         /\ config.block # 0 \/ record.block # 0 => job.plan.record.block # 0
         /\ \A l \in Link :
              /\ links[l] = root => job.plan.record.links[l] = root
              /\ record.links[l] # 0 => job.plan.record.links[l] # 0
    /\ job.step \in {"strip", "remove", "unlink"} =>
         /\ config.block # 0 => record.block # 0
         /\ \A l \in Link : links[l] = root => record.links[l] = root

\* What uninstall-codex will forget is restored, or the user has taken its place.
UninstallOK ==
  LET plan == job.plan
      forgets == plan.record.block = 0 /\ record.block # 0
  IN
  job.step \in RestoreSteps =>
    /\ plan.old = record
    /\ job.step \in {"unregister", "restore"} /\ forgets =>
         config.block # 0 \/ ~config.users \/ plan.claimed
    /\ job.step = "put back" => record.block # 0
    /\ job.step \in {"relink", "clear"} /\ forgets => config.block # 0 \/ plan.claimed
    /\ \A l \in Link : plan.record.links[l] = 0 /\ record.links[l] # 0 =>
         links[l] = record.links[l] \/ l \in plan.free

DeskInv == DeskTyped /\ JobOK /\ ContentOK /\ InstallOK /\ UninstallOK

-----------------------------------------------------------------------------
(***************************************************************************)
(* Shapes of the files and of the command that runs                        *)
(***************************************************************************)

Steps == {"idle", "plan removal"} \cup InstallSteps \cup SetUpSteps
           \cup RestoreSteps \cup TakeDownSteps

\* The bounds and the special values.
LEMMA Bounds ==
  /\ 0 \in 0 .. MaxKeys /\ 0 \in 0 .. MaxEdits + 1 /\ 0 \in 0 .. MaxReleases
  /\ Root = 1 .. MaxReleases /\ 0 \notin Root /\ 1 \in Root /\ Root \subseteq 0 .. MaxReleases
  /\ MaxKeys \in Nat /\ MaxEdits \in Nat /\ MaxBreaks \in Nat /\ MaxReleases \in Nat \ {0}
  /\ Foreign \notin Root /\ Taken \notin Root /\ Foreign # 0 /\ Taken # 0
  /\ PluginFile \subseteq Payload /\ Command \subseteq Commands
BY InstallerAssumption DEF Root, Payload

\* What is there at the start.
LEMMA Nothings ==
  /\ Blank \in Contents /\ Emptied \in Contents
  /\ NoRecord \in States /\ NoPlugin \in [PluginFile -> 0 .. MaxReleases]
  /\ NoPlan \in Plans /\ NoJob \in Jobs
  /\ NoJob.cmd = "none" /\ NoJob.step = "idle" /\ NoJob.seen = Blank /\ NoJob.plan = NoPlan
  /\ Blank.own = 0 /\ Blank.block = 0 /\ ~Blank.there /\ ~Blank.users
  /\ Emptied.own = 0 /\ Emptied.block = 0 /\ Emptied.there /\ ~Emptied.users
  /\ NoRecord.block = 0 /\ \A l \in Link : NoRecord.links[l] = 0
<1>1. /\ Blank \in Contents /\ Blank.own = 0 /\ Blank.block = 0 /\ ~Blank.there /\ ~Blank.users
  BY Bounds DEF Blank, Contents
<1>2. /\ Emptied \in Contents /\ Emptied.own = 0 /\ Emptied.block = 0 /\ Emptied.there /\ ~Emptied.users
  BY <1>1 DEF Emptied, Contents
<1>3. /\ NoRecord \in States /\ NoRecord.block = 0 /\ \A l \in Link : NoRecord.links[l] = 0
  BY Bounds DEF NoRecord, States
<1>4. NoPlugin \in [PluginFile -> 0 .. MaxReleases]
  BY Bounds DEF NoPlugin
<1>5. NoPlan \in Plans
  BY <1>3 DEF NoPlan, Plans
<1>6. /\ NoJob \in Jobs /\ NoJob.cmd = "none" /\ NoJob.step = "idle" /\ NoJob.seen = Blank
      /\ NoJob.plan = NoPlan
  BY <1>1, <1>5, Bounds DEF NoJob, Jobs
<1>7. QED
  BY <1>1, <1>2, <1>3, <1>4, <1>5, <1>6

\* On to another step of the command.
LEMMA Reached ==
  ASSUME job \in Jobs, NEW s \in Steps, Reach(s)
  PROVE  /\ job' \in Jobs /\ job'.step = s /\ job'.cmd = job.cmd /\ job'.key = job.key
         /\ job'.seen = job.seen /\ job'.plan = job.plan
BY DEF Reach, Jobs, Steps

\* The command has ended.
LEMMA Finished ==
  ASSUME Finish
  PROVE  /\ job' \in Jobs /\ job' = NoJob /\ job'.step = "idle" /\ job'.cmd = "none" /\ job'.seen = Blank
BY Nothings DEF Finish

\* On to another step, with config.toml as it was read.
LEMMA ReadInto ==
  ASSUME job \in Jobs, NEW s \in Steps, NEW c \in Contents,
         job' = [job EXCEPT !.seen = c, !.step = s]
  PROVE  /\ job' \in Jobs /\ job'.step = s /\ job'.cmd = job.cmd /\ job'.key = job.key
         /\ job'.seen = c /\ job'.plan = job.plan
BY DEF Jobs, Steps

\* On to another step, with a plan.
LEMMA Planned ==
  ASSUME job \in Jobs, NEW s \in Steps, NEW p \in Plans,
         job' = [job EXCEPT !.step = s, !.plan = p]
  PROVE  /\ job' \in Jobs /\ job'.step = s /\ job'.cmd = job.cmd /\ job'.key = job.key
         /\ job'.seen = job.seen /\ job'.plan = p
BY DEF Jobs, Steps

\* Putting a block in changes nothing of the user's.
LEMMA Upserted ==
  ASSUME NEW c \in Contents, NEW k \in 0 .. MaxKeys
  PROVE  /\ Upsert(c, k) \in Contents /\ Upsert(c, k).own = c.own /\ Upsert(c, k).block = k
         /\ Upsert(c, k).there /\ Upsert(c, k).users = c.users
BY DEF Upsert, Contents

\* Nor does taking it out: the file goes only when nothing else is in it.
LEMMA WithoutBlock ==
  ASSUME NEW c \in Contents
  PROVE  /\ Without(c) \in Contents /\ Without(c).own = c.own /\ Without(c).block = 0
         /\ Without(c).there => c.there
         /\ ~Without(c).there => Without(c).own = 0 \/ ~c.there
BY Nothings, Bounds DEF Without, Contents

\* The capture has what is there and what was captured before.
LEMMA CapturedIs ==
  ASSUME config \in Contents, record \in States, root \in Root
  PROVE  /\ Captured \in States
         /\ config.block # 0 \/ record.block # 0 => Captured.block # 0
         /\ \A l \in Link :
              /\ links[l] = root => Captured.links[l] = root
              /\ record.links[l] # 0 => Captured.links[l] # 0
<1>1. Captured.links = [l \in Link |-> IF Ours(l) THEN root ELSE record.links[l]]
  BY DEF Captured
<1>2. Captured.links \in [Link -> {0} \cup Root]
  BY <1>1 DEF States
<1>3. Captured.block = IF record.block = 0 THEN config.block ELSE record.block
  BY DEF Captured
<1>4. Captured.block \in 0 .. MaxKeys
  BY <1>3 DEF Contents, States
<1>5. Captured \in States
  BY <1>2, <1>4 DEF Captured, States
<1>6. QED
  BY <1>1, <1>3, <1>5, Bounds DEF Ours

\* uninstall-codex forgets what it can restore or finds in place.
LEMMA RemainingIs ==
  ASSUME config \in Contents, record \in States
  PROVE  /\ Remaining \in States
         /\ Remaining.block = IF config.block = 0 /\ config.users THEN record.block ELSE 0
         /\ \A l \in Link : Remaining.links[l] = 0 /\ record.links[l] # 0 =>
              links[l] \in {0, record.links[l]}
<1>1. Remaining.links = [l \in Link |-> IF links[l] \in {0, record.links[l]} THEN 0 ELSE record.links[l]]
  BY DEF Remaining
<1>2. Remaining.links \in [Link -> {0} \cup Root]
  BY <1>1 DEF States
<1>3. Remaining.block = IF config.block = 0 /\ config.users THEN record.block ELSE 0
  BY DEF Remaining
<1>4. Remaining.block \in 0 .. MaxKeys
  BY <1>3, Bounds DEF States
<1>5. Remaining \in States
  BY <1>2, <1>4 DEF Remaining, States
<1>6. QED
  BY <1>1, <1>3, <1>5

\* A command begins.
LEMMA Given ==
  ASSUME DeskTyped, JobOK, NEW c, NEW s \in Steps, Give(c, s)
  PROVE  /\ DeskTyped' /\ job'.cmd = c /\ job'.step = s /\ job'.seen = Blank
         /\ UNCHANGED machine /\ wrote' = wrote /\ job.step = "idle"
<1>1. /\ job' = [NoJob EXCEPT !.cmd = c, !.step = s, !.key = managed.key]
      /\ UNCHANGED <<machine, edits, breaks, wrote>> /\ c \in Command /\ job.step = "idle"
  BY DEF Give, Step
<1>2. managed.key \in 0 .. MaxKeys /\ c \in Commands
  BY <1>1, Bounds DEF DeskTyped
<1>3. job' \in Jobs /\ job'.cmd = c /\ job'.step = s /\ job'.seen = Blank
  BY <1>1, <1>2, Nothings DEF Jobs, Steps
<1>4. DeskTyped'
  BY <1>1, <1>3 DEF DeskTyped, machine
<1>5. QED
  BY <1>1, <1>3, <1>4

\* Only the command goes on.
LEMMA OnlyJob ==
  ASSUME DeskTyped, UNCHANGED <<machine, edits, breaks, wrote>>, job' \in Jobs
  PROVE  DeskTyped'
BY DEF DeskTyped, machine

\* The begin of each command.
LEMMA BeginTyped ==
  ASSUME DeskTyped, JobOK,
         \/ Up \/ Repair
         \/ \E c \in Command : Initialize(c) \/ Uninstall(c)
         \/ Give("uninstall codex", "plan removal")
  PROVE  /\ DeskTyped' /\ JobOK' /\ UNCHANGED <<config, saved, wrote>>
         /\ job'.step \in {"configure", "mend", "create", "check", "plan", "plan removal", "stop"}
         /\ job'.seen = Blank
<1>1. CASE Up \/ Repair
  <2>1. PICK c \in {"up", "repair"}, s \in {"configure", "mend"} : Give(c, s)
    BY <1>1 DEF Up, Repair
  <2>2. s \in Steps /\ s \in SetUpSteps
    BY DEF Steps, InitSteps, InstallSteps, SetUpSteps, RestoreSteps, TakeDownSteps
  <2>3. /\ DeskTyped' /\ job'.cmd = c /\ job'.step = s /\ job'.seen = Blank
        /\ UNCHANGED machine /\ wrote' = wrote
    BY <2>1, <2>2, Given
  <2>4. QED
    BY <2>2, <2>3 DEF JobOK, machine
<1>2. ASSUME NEW c \in Command, Initialize(c)
      PROVE  /\ DeskTyped' /\ JobOK' /\ UNCHANGED <<config, saved, wrote>>
             /\ job'.step \in {"create", "check", "plan"} /\ job'.seen = Blank
  <2>1. PICK s \in {"create", "check", "plan"} :
          Give(c, s) /\ (c = "init" => s # "plan") /\ c \in {"init", "install codex"}
    BY <1>2 DEF Initialize
  <2>2. s \in Steps /\ s \in InstallSteps /\ (s # "plan" => s \in InitSteps)
    BY DEF Steps, InitSteps, InstallSteps, SetUpSteps, RestoreSteps, TakeDownSteps
  <2>3. /\ DeskTyped' /\ job'.cmd = c /\ job'.step = s /\ job'.seen = Blank
        /\ UNCHANGED machine /\ wrote' = wrote
    BY <2>1, <2>2, Given
  <2>4. QED
    BY <2>1, <2>2, <2>3 DEF JobOK, machine
<1>3. ASSUME NEW c \in Command, Uninstall(c)
      PROVE  /\ DeskTyped' /\ JobOK' /\ UNCHANGED <<config, saved, wrote>>
             /\ job'.step = "stop" /\ job'.seen = Blank
  <2>1. Give(c, "stop") /\ c \in {"uninstall", "restore backup", "purge"}
    BY <1>3 DEF Uninstall
  <2>2. "stop" \in Steps /\ "stop" \in TakeDownSteps
    BY DEF Steps, TakeDownSteps
  <2>3. /\ DeskTyped' /\ job'.cmd = c /\ job'.step = "stop" /\ job'.seen = Blank
        /\ UNCHANGED machine /\ wrote' = wrote
    BY <2>1, <2>2, Given
  <2>4. QED
    BY <2>1, <2>2, <2>3 DEF JobOK, machine
<1>4. CASE Give("uninstall codex", "plan removal")
  <2>1. "plan removal" \in Steps
    BY DEF Steps
  <2>2. /\ DeskTyped' /\ job'.cmd = "uninstall codex" /\ job'.step = "plan removal"
        /\ job'.seen = Blank /\ UNCHANGED machine /\ wrote' = wrote
    BY <1>4, <2>1, Given
  <2>3. QED
    BY <2>2 DEF JobOK, machine
<1>5. QED
  BY <1>1, <1>2, <1>3, <1>4

\* The steps of init.
LEMMA ConfigTyped ==
  ASSUME DeskTyped, JobOK, CreateConfig \/ FillConfig \/ CheckRegistry
  PROVE  /\ DeskTyped' /\ JobOK' /\ UNCHANGED <<config, saved, wrote>>
         /\ job'.step \in {"fill", "check", "idle", "plan"}
         /\ job'.seen \in {job.seen, Blank}
<1>1. job \in Jobs /\ job.cmd \in {"init", "install codex"}
      /\ (job.step \in {"create", "fill", "check"})
  BY Nothings DEF CreateConfig, FillConfig, CheckRegistry, Step, DeskTyped, JobOK, Steps, InitSteps, InstallSteps, SetUpSteps, RestoreSteps, TakeDownSteps
<1>2. CASE CreateConfig
  <2>1. Reach("fill") /\ managed' = [mode |-> "torn", key |-> 0]
        /\ UNCHANGED <<config, saved, valid, issued, links, payload, record, codex, release, root,
                       edits, breaks, wrote>>
    BY <1>2 DEF CreateConfig, Quiet
  <2>2. job' \in Jobs /\ job'.step = "fill" /\ job'.cmd = job.cmd /\ job'.seen = job.seen
    BY <1>1, <2>1, Reached DEF Steps, InitSteps, InstallSteps, SetUpSteps, RestoreSteps, TakeDownSteps
  <2>3. DeskTyped'
    BY <2>1, <2>2, Bounds DEF DeskTyped
  <2>4. QED
    BY <1>1, <2>1, <2>2, <2>3 DEF JobOK, Steps, InitSteps, InstallSteps, SetUpSteps, RestoreSteps, TakeDownSteps
<1>3. CASE FillConfig
  <2>1. Reach("check") /\ managed' = [mode |-> "personal", key |-> 0]
        /\ UNCHANGED <<config, saved, valid, issued, links, payload, record, codex, release, root,
                       edits, breaks, wrote>>
    BY <1>3 DEF FillConfig, Quiet
  <2>2. job' \in Jobs /\ job'.step = "check" /\ job'.cmd = job.cmd /\ job'.seen = job.seen
    BY <1>1, <2>1, Reached DEF Steps, InitSteps, InstallSteps, SetUpSteps, RestoreSteps, TakeDownSteps
  <2>3. DeskTyped'
    BY <2>1, <2>2, Bounds DEF DeskTyped
  <2>4. QED
    BY <1>1, <2>1, <2>2, <2>3 DEF JobOK, Steps, InitSteps, InstallSteps, SetUpSteps, RestoreSteps, TakeDownSteps
<1>4. CASE CheckRegistry
  <2>1. UNCHANGED <<machine, edits, breaks, wrote>>
        /\ (IF job.cmd = "init" THEN Finish ELSE Reach("plan"))
    BY <1>4 DEF CheckRegistry, Quiet
  <2>2. CASE job.cmd = "init"
    BY <2>1, <2>2, Finished, OnlyJob DEF JobOK, machine
  <2>3. CASE job.cmd # "init"
    <3>1. job' \in Jobs /\ job'.step = "plan" /\ job'.cmd = job.cmd /\ job'.seen = job.seen
      BY <1>1, <2>1, <2>3, Reached DEF Steps, InitSteps, InstallSteps, SetUpSteps, RestoreSteps, TakeDownSteps
    <3>2. QED
      BY <1>1, <2>1, <2>3, <3>1, OnlyJob DEF JobOK, machine, Steps, InitSteps, InstallSteps, SetUpSteps, RestoreSteps, TakeDownSteps
  <2>4. QED
    BY <2>2, <2>3
<1>5. QED
  BY <1>2, <1>3, <1>4

\* From one step of a command to another of the same command.
Follows(t, s) ==
  /\ t \notin {"idle"} \cup InitSteps
  /\ \A T \in {InstallSteps, SetUpSteps, {"plan removal"} \cup RestoreSteps, TakeDownSteps} :
       t \in T => s \in T

LEMMA Went ==
  ASSUME JobOK, NEW t, NEW s, Step(t), Follows(t, s),
         job'.step = s, job'.cmd = job.cmd
  PROVE  JobOK'
<1>1. job.step = t /\ t # "idle" /\ t \notin InitSteps
  BY DEF Step, Follows
<1>2. /\ t \in InstallSteps => s \in InstallSteps
      /\ t \in SetUpSteps => s \in SetUpSteps
      /\ t \in {"plan removal"} \cup RestoreSteps => s \in {"plan removal"} \cup RestoreSteps
      /\ t \in TakeDownSteps => s \in TakeDownSteps
  BY DEF Follows
<1>3. job # NoJob
  BY <1>1, Nothings
<1>4. QED
  BY <1>1, <1>2, <1>3 DEF JobOK

LEMMA Follow ==
  /\ \A s \in {"key", "editor"} : Follows("configure", s) /\ Follows("mend", s)
  /\ Follows("key", "save") /\ Follows("save", "editor")
  /\ \A s \in {"link", "back up", "write"} : Follows("editor", s)
  /\ Follows("back up", "write") /\ Follows("write", "link")
  /\ Follows("plan", "payload") /\ Follows("payload", "strip")
  /\ \A s \in {"remove", "unlink"} : Follows("strip", s) /\ Follows("take out", s)
  /\ Follows("remove", "unlink") /\ Follows("register", "add")
  /\ Follows("plan removal", "unregister") /\ Follows("unregister", "restore")
  /\ \A s \in {"put back", "relink"} : Follows("restore", s)
  /\ Follows("put back", "relink") /\ Follows("relink", "clear")
  /\ \A s \in {"roll back", "take out"} : Follows("stop", s)
  /\ Follows("roll back", "unlink")
BY DEF Follows, InitSteps, InstallSteps, SetUpSteps, RestoreSteps, TakeDownSteps

LEMMA AllSteps ==
  Steps = {"idle", "plan removal", "create", "fill", "check", "plan", "payload", "strip", "remove",
           "unlink", "register", "add", "configure", "mend", "key", "save", "editor", "back up",
           "write", "link", "unregister", "restore", "put back", "relink", "clear", "stop",
           "roll back", "take out", "purge"}
BY DEF Steps, InitSteps, InstallSteps, SetUpSteps, RestoreSteps, TakeDownSteps

LEMMA Reaching ==
  ASSUME DeskTyped, JobOK, NEW t, NEW s \in Steps, Step(t), Follows(t, s), Reach(s)
  PROVE  /\ job' \in Jobs /\ JobOK' /\ job'.step = s /\ job'.cmd = job.cmd
         /\ job'.seen = job.seen /\ job'.plan = job.plan /\ job'.key = job.key
BY Reached, Went DEF DeskTyped

LEMMA Ending ==
  ASSUME Finish
  PROVE  /\ job' \in Jobs /\ JobOK' /\ job'.step = "idle" /\ job'.cmd = "none"
         /\ job'.seen = Blank
BY Finished DEF JobOK

-----------------------------------------------------------------------------
(***************************************************************************)
(* Steps that leave config.toml, its backup and the install state alone    *)
(***************************************************************************)

LEMMA MendTyped ==
  ASSUME DeskTyped, JobOK, Mend \/ KeepKey \/ Linked \/ KeepPlugin
  PROVE  /\ DeskTyped' /\ JobOK' /\ UNCHANGED <<config, saved, wrote>>
         /\ job'.step \in {"editor", "key", "save", "idle"} /\ job'.seen \in {job.seen, Blank}
<1>1. UNCHANGED <<machine, edits, breaks, wrote>>
  BY DEF Mend, KeepKey, Linked, KeepPlugin, Quiet
<1>2. CASE Mend
  <2>1. PICK s \in {"editor", "key"} : Step("mend") /\ Reach(s)
    BY <1>2 DEF Mend
  <2>2. s \in Steps /\ Follows("mend", s)
    BY AllSteps, Follow
  <2>3. QED
    BY <1>1, <2>1, <2>2, Reaching, OnlyJob DEF machine
<1>3. CASE KeepKey
  <2>1. Step("key") /\ Reach("save") /\ "save" \in Steps /\ Follows("key", "save")
    BY <1>3, AllSteps, Follow DEF KeepKey
  <2>2. QED
    BY <1>1, <2>1, Reaching, OnlyJob DEF machine
<1>4. CASE Linked \/ KeepPlugin
  <2>1. Finish
    BY <1>4 DEF Linked, KeepPlugin
  <2>2. QED
    BY <1>1, <2>1, Ending, OnlyJob DEF machine
<1>5. QED
  BY <1>2, <1>3, <1>4

LEMMA KeysTyped ==
  ASSUME DeskTyped, JobOK, IssueKey \/ SaveKey \/ \E start \in BOOLEAN : Configure(start)
  PROVE  /\ DeskTyped' /\ JobOK' /\ UNCHANGED <<config, saved, wrote>>
         /\ job'.step \in {"editor", "key", "save"} /\ job'.seen \in {job.seen, Blank}
<1>1. job \in Jobs /\ job.key \in 0 .. MaxKeys
  BY DEF DeskTyped, Jobs
<1>2. CASE IssueKey
  <2>1. /\ Step("key") /\ issued < MaxKeys /\ issued' = issued + 1
        /\ valid' = valid \cup {issued'}
        /\ job' = [job EXCEPT !.key = issued', !.step = "save"]
        /\ UNCHANGED <<config, saved, managed, links, payload, record, codex, release, root,
                       edits, breaks, wrote>>
    BY <1>2 DEF IssueKey, Quiet
  <2>2. issued' \in 0 .. MaxKeys /\ valid' \subseteq 1 .. issued'
    BY <2>1, Bounds DEF DeskTyped
  <2>3. "save" \in Steps
    BY AllSteps
  <2>4. /\ job' \in Jobs /\ job'.step = "save" /\ job'.cmd = job.cmd /\ job'.seen = job.seen
    BY <1>1, <2>1, <2>2, <2>3 DEF Jobs, Steps
  <2>5. JobOK'
    BY <2>1, <2>4, Went, Follow
  <2>6. DeskTyped'
    BY <2>1, <2>2, <2>4 DEF DeskTyped
  <2>7. QED
    BY <2>1, <2>4, <2>5, <2>6
<1>3. CASE SaveKey
  <2>1. /\ Step("save") /\ Reach("editor") /\ managed' = [managed EXCEPT !.key = job.key]
        /\ UNCHANGED <<config, saved, valid, issued, links, payload, record, codex, release, root,
                       edits, breaks, wrote>>
    BY <1>3 DEF SaveKey, Quiet
  <2>2. /\ job' \in Jobs /\ JobOK' /\ job'.step = "editor" /\ job'.seen = job.seen
    BY <2>1, Reaching, Follow, AllSteps
  <2>3. DeskTyped'
    BY <1>1, <2>1, <2>2 DEF DeskTyped
  <2>4. QED
    BY <2>1, <2>2, <2>3
<1>4. ASSUME NEW start \in BOOLEAN, Configure(start)
      PROVE  /\ DeskTyped' /\ JobOK' /\ UNCHANGED <<config, saved, wrote>>
             /\ job'.step \in {"editor", "key"} /\ job'.seen = job.seen
  <2>1. PICK s \in {"key", "editor"} : Reach(s)
    BY <1>4 DEF Configure
  <2>2. /\ Step("configure") /\ managed' = [mode |-> "shared", key |-> job.key]
        /\ UNCHANGED <<config, saved, valid, issued, links, payload, record, codex, release, root,
                       edits, breaks, wrote>>
    BY <1>4 DEF Configure, Quiet
  <2>3. /\ job' \in Jobs /\ JobOK' /\ job'.step = s /\ job'.seen = job.seen
    BY <2>1, <2>2, Reaching, Follow, AllSteps
  <2>4. DeskTyped'
    BY <1>1, <2>2, <2>3 DEF DeskTyped
  <2>5. QED
    BY <2>2, <2>3, <2>4
<1>5. QED
  BY <1>2, <1>3, <1>4

LEMMA RegisterTyped ==
  ASSUME DeskTyped, JobOK, \/ Register \/ AddPlugin \/ \E l \in Link : EnsureLink(l)
  PROVE  /\ DeskTyped' /\ JobOK' /\ UNCHANGED <<config, saved, wrote>>
         /\ job'.step \in {"add", "idle", "link"} /\ job'.seen \in {job.seen, Blank}
<1>1. CASE Register
  <2>1. /\ Step("register") /\ Reach("add") /\ codex' = [codex EXCEPT !.market = TRUE]
        /\ UNCHANGED <<config, saved, managed, valid, issued, links, payload, record, release, root,
                       edits, breaks, wrote>>
    BY <1>1 DEF Register, Quiet
  <2>2. /\ job' \in Jobs /\ JobOK' /\ job'.step = "add" /\ job'.seen = job.seen
    BY <2>1, Reaching, Follow, AllSteps
  <2>3. DeskTyped'
    BY <2>1, <2>2 DEF DeskTyped
  <2>4. QED
    BY <2>1, <2>2, <2>3
<1>2. CASE AddPlugin
  <2>1. /\ Finish /\ codex' = [codex EXCEPT !.plugin = [f \in PluginFile |-> payload[f]]]
        /\ UNCHANGED <<config, saved, managed, valid, issued, links, payload, record, release, root,
                       edits, breaks, wrote>>
    BY <1>2 DEF AddPlugin
  <2>2. /\ job' \in Jobs /\ JobOK' /\ job'.step = "idle" /\ job'.seen = Blank
    BY <2>1, Ending
  <2>3. [f \in PluginFile |-> payload[f]] \in [PluginFile -> 0 .. MaxReleases]
    BY Bounds DEF DeskTyped
  <2>4. DeskTyped'
    BY <2>1, <2>2, <2>3 DEF DeskTyped
  <2>5. QED
    BY <2>1, <2>2, <2>4
<1>3. ASSUME NEW l \in Link, EnsureLink(l)
      PROVE  /\ DeskTyped' /\ JobOK' /\ UNCHANGED <<config, saved, wrote>>
             /\ job'.step = "link" /\ job'.seen = job.seen
  <2>1. /\ Step("link") /\ job' = job /\ links' = [links EXCEPT ![l] = root]
        /\ UNCHANGED <<config, saved, managed, valid, issued, payload, record, codex, release, root,
                       edits, breaks, wrote>>
    BY <1>3 DEF EnsureLink, Quiet
  <2>2. DeskTyped'
    BY <2>1 DEF DeskTyped
  <2>3. QED
    BY <2>1, <2>2 DEF JobOK, Step
<1>4. QED
  BY <1>1, <1>2, <1>3

LEMMA UnlinkedTyped ==
  ASSUME DeskTyped, JobOK,
         \/ Unlinked({"install codex"}, "register")
         \/ Unlinked({"uninstall", "restore backup", "purge"}, "purge")
  PROVE  /\ DeskTyped' /\ JobOK' /\ UNCHANGED <<config, saved, wrote>>
         /\ job'.step \in {"register", "purge"} /\ job'.seen = job.seen
<1>1. UNCHANGED <<machine, edits, breaks, wrote>> /\ job \in Jobs
  BY DEF Unlinked, Quiet, DeskTyped
<1>2. CASE Unlinked({"install codex"}, "register")
  <2>1. job.cmd = "install codex" /\ Reach("register") /\ "register" \in Steps
    BY <1>2, AllSteps DEF Unlinked
  <2>2. /\ job' \in Jobs /\ job'.step = "register" /\ job'.cmd = job.cmd /\ job'.seen = job.seen
    BY <1>1, <2>1, Reached
  <2>3. "register" \in InstallSteps
    BY DEF InstallSteps
  <2>4. QED
    BY <1>1, <2>1, <2>2, <2>3, OnlyJob DEF JobOK, machine
<1>3. CASE Unlinked({"uninstall", "restore backup", "purge"}, "purge")
  <2>1. /\ job.cmd \in {"uninstall", "restore backup", "purge"} /\ Reach("purge") /\ "purge" \in Steps
    BY <1>3, AllSteps DEF Unlinked
  <2>2. /\ job' \in Jobs /\ job'.step = "purge" /\ job'.cmd = job.cmd /\ job'.seen = job.seen
    BY <1>1, <2>1, Reached
  <2>3. "purge" \in TakeDownSteps
    BY DEF TakeDownSteps
  <2>4. QED
    BY <1>1, <2>1, <2>2, <2>3, OnlyJob DEF JobOK, machine
<1>4. QED
  BY <1>2, <1>3

LEMMA TakeDownTyped ==
  ASSUME DeskTyped, JobOK, StopStack \/ Purge \/ RemoveRecord
  PROVE  /\ DeskTyped' /\ JobOK' /\ UNCHANGED <<config, saved, wrote>>
         /\ job'.step \in {"roll back", "take out", "idle"} /\ job'.seen \in {job.seen, Blank}
<1>1. CASE StopStack
  <2>1. PICK s \in {"roll back", "take out"} : Reach(s)
    BY <1>1 DEF StopStack
  <2>2. /\ Step("stop") /\ valid' \in {valid, {}}
        /\ UNCHANGED <<config, saved, managed, issued, links, payload, record, codex, release, root,
                       edits, breaks, wrote>>
    BY <1>1 DEF StopStack, Quiet
  <2>3. /\ job' \in Jobs /\ JobOK' /\ job'.step = s /\ job'.seen = job.seen
    BY <2>1, <2>2, Reaching, Follow, AllSteps
  <2>4. DeskTyped'
    BY <2>2, <2>3 DEF DeskTyped
  <2>5. QED
    BY <2>2, <2>3, <2>4
<1>2. CASE Purge
  <2>1. /\ Finish /\ managed' \in {managed, [mode |-> "none", key |-> 0]}
        /\ UNCHANGED <<config, saved, valid, issued, links, payload, record, codex, release, root,
                       edits, breaks, wrote>>
    BY <1>2 DEF Purge, Quiet
  <2>2. /\ job' \in Jobs /\ JobOK' /\ job'.step = "idle" /\ job'.seen = Blank
    BY <2>1, Ending
  <2>3. managed' \in [mode : {"none", "torn", "personal", "shared"}, key : 0 .. MaxKeys]
    BY <2>1, Bounds DEF DeskTyped
  <2>4. DeskTyped'
    BY <2>1, <2>2, <2>3 DEF DeskTyped
  <2>5. QED
    BY <2>1, <2>2, <2>4
<1>3. CASE RemoveRecord
  <2>1. /\ Finish /\ record' \in {NoRecord, job.plan.record}
        /\ UNCHANGED <<config, saved, managed, valid, issued, links, payload, codex, release, root,
                       edits, breaks, wrote>>
    BY <1>3 DEF RemoveRecord, Quiet
  <2>2. /\ job' \in Jobs /\ JobOK' /\ job'.step = "idle" /\ job'.seen = Blank
    BY <2>1, Ending
  <2>3. record' \in States
    BY <2>1, Nothings DEF DeskTyped, Jobs, Plans
  <2>4. DeskTyped'
    BY <2>1, <2>2, <2>3 DEF DeskTyped
  <2>5. QED
    BY <2>1, <2>2, <2>4
<1>4. QED
  BY <1>1, <1>2, <1>3

LEMMA UpgradeTyped ==
  ASSUME DeskTyped, JobOK, \E moved \in BOOLEAN : Upgrade(moved)
  PROVE  /\ DeskTyped' /\ JobOK' /\ UNCHANGED <<config, saved, wrote>>
         /\ job'.step = "idle" /\ job'.seen = job.seen
<1>1. /\ job.step = "idle" /\ release < MaxReleases /\ release' = release + 1
      /\ root' \in {root, release'}
      /\ UNCHANGED <<config, saved, managed, valid, issued, links, payload, record, codex, job, edits,
                     breaks, wrote>>
  BY DEF Upgrade, Step
<1>2. release' \in Root
  BY <1>1, Bounds DEF DeskTyped
<1>3. DeskTyped'
  BY <1>1, <1>2 DEF DeskTyped
<1>4. QED
  BY <1>1, <1>3 DEF JobOK

-----------------------------------------------------------------------------
(***************************************************************************)
(* A step that leaves config.toml and its backup alone, and after which    *)
(* nothing is half done                                                    *)
(***************************************************************************)

LEMMA Neutral ==
  ASSUME DeskInv, DeskTyped', JobOK', UNCHANGED <<config, saved, wrote>>,
         job'.seen \in {job.seen, Blank},
         job'.step \in {"configure", "mend", "create", "fill", "check", "plan", "plan removal", "stop",
                        "idle", "editor", "key", "save", "add", "link", "register", "purge",
                        "roll back", "take out"}
  PROVE  DeskInv'
<1>1. ContentOK'
  BY Nothings DEF DeskInv, ContentOK, ReadBefore
<1>2. InstallOK'
  BY DEF InstallOK
<1>3. UninstallOK'
  BY DEF UninstallOK, RestoreSteps
<1>4. QED
  BY <1>1, <1>2, <1>3 DEF DeskInv

LEMMA NeutralSteps ==
  ASSUME DeskInv,
         \/ Up \/ Repair \/ \E c \in Command : Initialize(c) \/ Uninstall(c)
         \/ Give("uninstall codex", "plan removal")
         \/ CreateConfig \/ FillConfig \/ CheckRegistry
         \/ Mend \/ KeepKey \/ Linked \/ KeepPlugin
         \/ IssueKey \/ SaveKey \/ \E start \in BOOLEAN : Configure(start)
         \/ Register \/ AddPlugin \/ \E l \in Link : EnsureLink(l)
         \/ Unlinked({"install codex"}, "register")
         \/ Unlinked({"uninstall", "restore backup", "purge"}, "purge")
         \/ StopStack \/ Purge \/ RemoveRecord
         \/ \E moved \in BOOLEAN : Upgrade(moved)
  PROVE  DeskInv' /\ UNCHANGED <<config, saved, wrote>>
<1>1. DeskTyped /\ JobOK
  BY DEF DeskInv
<1>2. /\ DeskTyped' /\ JobOK' /\ UNCHANGED <<config, saved, wrote>>
      /\ job'.seen \in {job.seen, Blank}
      /\ job'.step \in {"configure", "mend", "create", "fill", "check", "plan", "plan removal", "stop",
                        "idle", "editor", "key", "save", "add", "link", "register", "purge",
                        "roll back", "take out"}
  <2>1. CASE \/ Up \/ Repair \/ \E c \in Command : Initialize(c) \/ Uninstall(c)
             \/ Give("uninstall codex", "plan removal")
    BY <1>1, <2>1, BeginTyped
  <2>2. CASE CreateConfig \/ FillConfig \/ CheckRegistry
    BY <1>1, <2>2, ConfigTyped
  <2>3. CASE Mend \/ KeepKey \/ Linked \/ KeepPlugin
    BY <1>1, <2>3, MendTyped
  <2>4. CASE IssueKey \/ SaveKey \/ \E start \in BOOLEAN : Configure(start)
    BY <1>1, <2>4, KeysTyped
  <2>5. CASE Register \/ AddPlugin \/ \E l \in Link : EnsureLink(l)
    BY <1>1, <2>5, RegisterTyped
  <2>6. CASE \/ Unlinked({"install codex"}, "register")
             \/ Unlinked({"uninstall", "restore backup", "purge"}, "purge")
    BY <1>1, <2>6, UnlinkedTyped
  <2>7. CASE StopStack \/ Purge \/ RemoveRecord
    BY <1>1, <2>7, TakeDownTyped
  <2>8. CASE \E moved \in BOOLEAN : Upgrade(moved)
    BY <1>1, <2>8, UpgradeTyped
  <2>9. QED
    BY <2>1, <2>2, <2>3, <2>4, <2>5, <2>6, <2>7, <2>8
<1>3. QED
  BY <1>2, Neutral

-----------------------------------------------------------------------------
(***************************************************************************)
(* Steps that read or write config.toml, its backup or the install state   *)
(***************************************************************************)

LEMMA Naturally ==
  ASSUME DeskTyped
  PROVE  /\ wrote \in Nat /\ config.own \in Nat /\ saved.own \in Nat /\ job.seen.own \in Nat
         /\ config.block \in Nat
<1>1. wrote \in 0 .. edits + 1 /\ edits \in 0 .. MaxEdits
  BY DEF DeskTyped
<1>2. config \in Contents /\ saved \in Contents /\ job.seen \in Contents
  BY DEF DeskTyped, Jobs
<1>3. /\ config.own \in 0 .. MaxEdits + 1 /\ saved.own \in 0 .. MaxEdits + 1
      /\ job.seen.own \in 0 .. MaxEdits + 1 /\ config.block \in 0 .. MaxKeys
  BY <1>2 DEF Contents
<1>4. QED
  BY <1>1, <1>3, Bounds

LEMMA StepsApart ==
  ASSUME JobOK
  PROVE  /\ job.step \in SetUpSteps => job.cmd \in {"up", "repair"}
         /\ job.step \in RestoreSteps \cup {"plan removal"} => job.cmd = "uninstall codex"
         /\ job.step \in {"plan", "payload", "strip"} => job.cmd = "install codex"
         /\ job.step \in {"stop", "take out", "roll back"} =>
              job.cmd \in {"uninstall", "restore backup", "purge"}
         /\ job.step \in {"remove", "unlink"} =>
              job.cmd \in {"install codex", "uninstall", "restore backup", "purge"}
BY Nothings DEF JobOK, InitSteps, InstallSteps, SetUpSteps, RestoreSteps, TakeDownSteps

\* What a command has read is no later than what the user wrote.
LEMMA SeenOwn ==
  ASSUME DeskTyped, ContentOK, job.step \in ReadBefore
  PROVE  /\ job.seen \in Contents /\ job.seen.own <= wrote
         /\ saved.own = wrote => job.seen.own \in {0, wrote}
         /\ ~job.seen.there => job.seen.own = 0
<1>1. /\ job.seen \in Contents /\ config.own <= wrote /\ saved.own <= wrote
      /\ (~job.seen.there => job.seen.own = 0)
      /\ (job.seen.own # config.own =>
            config.own = wrote /\ saved.own < wrote /\ job.seen.own < wrote)
      /\ (saved.own = wrote => config.own \in {0, wrote})
  BY DEF ContentOK, DeskTyped, Jobs
<1>2. saved.own \in Nat /\ config.own \in Nat /\ job.seen.own \in Nat /\ wrote \in Nat
  BY <1>1, Bounds DEF DeskTyped, Contents
<1>3. QED
  BY <1>1, <1>2

LEMMA ReadEditorKeeps ==
  ASSUME DeskInv, ReadEditor
  PROVE  DeskInv'
<1>1. /\ Step("editor") /\ UNCHANGED <<machine, edits, breaks, wrote>> /\ job \in Jobs
      /\ DeskTyped /\ JobOK /\ config \in Contents
  BY DEF ReadEditor, Quiet, DeskInv, DeskTyped
<1>2. CASE job.key = 0
  <2>1. Reach("link") /\ "link" \in Steps /\ Follows("editor", "link")
    BY <1>2, AllSteps, Follow DEF ReadEditor
  <2>2. job' \in Jobs /\ JobOK' /\ job'.step = "link" /\ job'.seen = job.seen
    BY <1>1, <2>1, Reaching
  <2>3. DeskTyped'
    BY <1>1, <2>2, OnlyJob
  <2>4. QED
    BY <1>1, <2>2, <2>3, Neutral DEF machine
<1>3. CASE job.key # 0
  <2>1. PICK s \in {"back up", "write"} :
          /\ job' = [job EXCEPT !.seen = config, !.step = s]
          /\ s = "write" => ~config.there \/ config = Upsert(config, job.key)
    BY <1>3 DEF ReadEditor
  <2>2. s \in Steps /\ Follows("editor", s)
    BY AllSteps, Follow
  <2>3. /\ job' \in Jobs /\ job'.step = s /\ job'.cmd = job.cmd /\ job'.key = job.key
        /\ job'.seen = config
    BY <1>1, <2>1, <2>2, ReadInto
  <2>4. JobOK'
    BY <1>1, <2>2, <2>3, Went
  <2>5. DeskTyped'
    BY <1>1, <2>3, OnlyJob
  <2>6. ContentOK'
    <3>1. ContentOK /\ config' = config /\ saved' = saved /\ wrote' = wrote
      BY <1>1 DEF machine, DeskInv
    <3>2. Upsert(job.seen, job.key)' = Upsert(config, job.key)
      BY <2>3 DEF Upsert
    <3>3. QED
      BY <2>1, <2>3, <3>1, <3>2 DEF ContentOK, ReadBefore
  <2>7. job'.cmd \in {"up", "repair"}
    BY <1>1, <2>3, StepsApart DEF Step, SetUpSteps
  <2>8. InstallOK' /\ UninstallOK'
    BY <2>3, <2>7 DEF InstallOK, UninstallOK, RestoreSteps
  <2>9. QED
    BY <2>4, <2>5, <2>6, <2>8 DEF DeskInv
<1>4. QED
  BY <1>2, <1>3

LEMMA BackUpKeeps ==
  ASSUME DeskInv, BackUp
  PROVE  DeskInv'
<1>1. /\ Step("back up") /\ job.step = "back up" /\ saved' = job.seen /\ Reach("write")
      /\ DeskTyped /\ JobOK /\ ContentOK
      /\ UNCHANGED <<config, managed, valid, issued, links, payload, record, codex, release, root,
                     edits, breaks, wrote>>
  BY DEF BackUp, Quiet, DeskInv, Step
<1>2. /\ job' \in Jobs /\ JobOK' /\ job'.step = "write" /\ job'.cmd = job.cmd
      /\ job'.seen = job.seen
  BY <1>1, Reaching, AllSteps, Follow
<1>3. job.seen \in Contents /\ job.seen.own <= wrote /\ (~job.seen.there => job.seen.own = 0)
  BY <1>1, SeenOwn DEF ReadBefore
<1>4. DeskTyped'
  BY <1>1, <1>2, <1>3 DEF DeskTyped
<1>5. ContentOK'
  <2>1. /\ config' = config /\ saved' = job.seen /\ wrote' = wrote /\ job'.seen = job.seen
        /\ job'.step = "write" /\ config.own <= wrote
        /\ (~config.there => config.own = 0)
        /\ (job.seen.own # config.own => config.own = wrote /\ job.seen.own < wrote)
    BY <1>1, <1>2 DEF ContentOK, ReadBefore
  <2>2. job.seen.own \in Nat /\ wrote \in Nat
    <3>1. job.seen.own \in 0 .. MaxEdits + 1
      BY <1>3 DEF Contents
    <3>2. wrote \in 0 .. edits + 1 /\ edits \in 0 .. MaxEdits
      BY <1>1 DEF DeskTyped
    <3>3. QED
      BY <3>1, <3>2, Bounds
  <2>3. QED
    BY <1>3, <2>1, <2>2 DEF ContentOK, ReadBefore
<1>6. job'.cmd \in {"up", "repair"}
  BY <1>1, <1>2, StepsApart DEF SetUpSteps
<1>7. InstallOK' /\ UninstallOK'
  BY <1>2, <1>6 DEF InstallOK, UninstallOK, RestoreSteps
<1>8. QED
  BY <1>2, <1>4, <1>5, <1>7 DEF DeskInv

LEMMA WriteEditorKeeps ==
  ASSUME DeskInv, WriteEditor
  PROVE  DeskInv'
<1>1. /\ Step("write") /\ job.step = "write" /\ config' = Upsert(job.seen, job.key) /\ Reach("link")
      /\ DeskTyped /\ JobOK /\ ContentOK /\ job.key \in 0 .. MaxKeys
      /\ UNCHANGED <<saved, managed, valid, issued, links, payload, record, codex, release, root,
                     edits, breaks, wrote>>
  BY DEF WriteEditor, Quiet, DeskInv, Step, DeskTyped, Jobs
<1>2. /\ job' \in Jobs /\ JobOK' /\ job'.step = "link" /\ job'.seen = job.seen
  BY <1>1, Reaching, AllSteps, Follow
<1>3. /\ job.seen \in Contents /\ job.seen.own <= wrote
      /\ (saved.own = wrote => job.seen.own \in {0, wrote})
      /\ (~job.seen.there => job.seen.own = 0)
  BY <1>1, SeenOwn DEF ReadBefore
<1>4. config' \in Contents /\ config'.own = job.seen.own /\ config'.there
  BY <1>1, <1>3, Upserted
<1>5. DeskTyped'
  BY <1>1, <1>2, <1>4 DEF DeskTyped
<1>6. ContentOK'
  BY <1>1, <1>2, <1>3, <1>4 DEF ContentOK, ReadBefore
<1>7. InstallOK' /\ UninstallOK'
  BY <1>2 DEF InstallOK, UninstallOK, RestoreSteps
<1>8. QED
  BY <1>2, <1>5, <1>6, <1>7 DEF DeskInv

LEMMA PlanInstallKeeps ==
  ASSUME DeskInv, PlanInstall
  PROVE  DeskInv'
<1> DEFINE p == [NoPlan EXCEPT !.market = codex.market,
                      !.plugin = codex.plugin # NoPlugin,
                      !.changed = \E f \in PluginFile : payload[f] # release,
                      !.record = Captured]
<1>1. /\ Step("plan") /\ job.step = "plan" /\ job' = [job EXCEPT !.step = "payload", !.plan = p]
      /\ DeskTyped /\ JobOK /\ ContentOK /\ job \in Jobs
      /\ config \in Contents /\ record \in States /\ root \in Root
      /\ UNCHANGED <<machine, edits, breaks, wrote>>
  BY DEF PlanInstall, Quiet, DeskInv, Step, DeskTyped
<1>2. Captured \in States
  BY <1>1, CapturedIs
<1>3. p \in Plans /\ p.record = Captured
  BY <1>1, <1>2, Nothings DEF Plans, DeskTyped
<1> HIDE DEF p
<1>4. /\ job' \in Jobs /\ job'.step = "payload" /\ job'.cmd = job.cmd /\ job'.seen = job.seen
      /\ job'.plan = p
  BY <1>1, <1>3, Planned, AllSteps
<1>5. JobOK' /\ DeskTyped'
  BY <1>1, <1>4, Went, Follow, OnlyJob
<1>6. ContentOK'
  BY <1>1, <1>4 DEF ContentOK, ReadBefore, machine
<1>7. InstallOK'
  <2>1. /\ config.block # 0 \/ record.block # 0 => Captured.block # 0
        /\ \A l \in Link :
             /\ links[l] = root => Captured.links[l] = root
             /\ record.links[l] # 0 => Captured.links[l] # 0
    BY <1>1, CapturedIs
  <2>2. QED
    BY <1>1, <1>3, <1>4, <2>1 DEF InstallOK, machine
<1>8. UninstallOK'
  BY <1>4 DEF UninstallOK, RestoreSteps
<1>9. QED
  BY <1>5, <1>6, <1>7, <1>8 DEF DeskInv

LEMMA PayloadKeeps ==
  ASSUME DeskInv,
         \/ \E f \in Payload : WritePayload(f)
         \/ \E f \in Payload : RemovePayload(f)
         \/ RemovePlugin
  PROVE  DeskInv' /\ UNCHANGED <<config, saved, wrote>>
<1>1. /\ job' = job /\ DeskInv
      /\ UNCHANGED <<config, saved, managed, valid, issued, links, record, release, root,
                     edits, breaks, wrote>>
  BY DEF WritePayload, RemovePayload, RemovePlugin, Quiet
<1>2. payload' \in [Payload -> 0 .. MaxReleases] /\ codex' \in [market : BOOLEAN, plugin : [PluginFile -> 0 .. MaxReleases]]
  <2>1. /\ payload \in [Payload -> 0 .. MaxReleases] /\ release \in Root
        /\ codex \in [market : BOOLEAN, plugin : [PluginFile -> 0 .. MaxReleases]]
    BY DEF DeskInv, DeskTyped
  <2>2. ASSUME NEW f \in Payload, WritePayload(f)
        PROVE  payload' \in [Payload -> 0 .. MaxReleases] /\ codex' = codex
    <3>1. payload' = [payload EXCEPT ![f] = Wanted(f)] /\ codex' = codex
      BY <2>2 DEF WritePayload, Quiet
    <3>2. Wanted(f) \in 0 .. MaxReleases
      BY <2>1, Bounds DEF Wanted
    <3>3. QED
      BY <2>1, <3>1, <3>2
  <2>3. ASSUME NEW f \in Payload, RemovePayload(f)
        PROVE  payload' \in [Payload -> 0 .. MaxReleases] /\ codex' = codex
    BY <2>1, <2>3, Bounds DEF RemovePayload, Quiet
  <2>4. CASE RemovePlugin
    <3>1. payload' = payload /\ codex' = [codex EXCEPT !.plugin = NoPlugin]
      BY <2>4 DEF RemovePlugin, Quiet
    <3>2. QED
      BY <2>1, <3>1, Nothings
  <2>5. QED
    BY <2>1, <2>2, <2>3, <2>4
<1>3. DeskTyped'
  BY <1>1, <1>2 DEF DeskInv, DeskTyped
<1>4. JobOK' /\ ContentOK'
  BY <1>1 DEF DeskInv, JobOK, ContentOK, Upsert
<1>5. InstallOK'
  BY <1>1 DEF DeskInv, InstallOK
<1>6. UninstallOK'
  BY <1>1 DEF DeskInv, UninstallOK
<1>7. QED
  BY <1>1, <1>3, <1>4, <1>5, <1>6 DEF DeskInv

LEMMA WriteRecordKeeps ==
  ASSUME DeskInv, WriteRecord
  PROVE  DeskInv'
<1>1. /\ Step("payload") /\ job.step = "payload" /\ record' = job.plan.record /\ Reach("strip")
      /\ DeskTyped /\ JobOK /\ ContentOK /\ InstallOK /\ job \in Jobs
      /\ UNCHANGED <<config, saved, managed, valid, issued, links, payload, codex, release, root,
                     edits, breaks, wrote>>
  BY DEF WriteRecord, Quiet, DeskInv, Step, DeskTyped
<1>2. /\ job' \in Jobs /\ JobOK' /\ job'.step = "strip" /\ job'.cmd = job.cmd
      /\ job'.seen = job.seen
  BY <1>1, Reaching, AllSteps, Follow
<1>3. record' \in States
  BY <1>1 DEF Jobs, Plans
<1>4. DeskTyped'
  BY <1>1, <1>2, <1>3 DEF DeskTyped
<1>5. ContentOK'
  BY <1>1, <1>2 DEF ContentOK, ReadBefore
<1>6. InstallOK'
  BY <1>1, <1>2 DEF InstallOK
<1>7. UninstallOK'
  BY <1>2 DEF UninstallOK, RestoreSteps
<1>8. QED
  BY <1>2, <1>4, <1>5, <1>6, <1>7 DEF DeskInv

LEMMA ReadBlockKeeps ==
  ASSUME DeskInv, ReadBlock("strip") \/ ReadBlock("take out")
  PROVE  DeskInv'
<1>1. PICK t \in {"strip", "take out"} : ReadBlock(t)
  OBVIOUS
<1>2. /\ Step(t) /\ job.step = t /\ UNCHANGED <<machine, edits, breaks, wrote>> /\ job \in Jobs
      /\ DeskTyped /\ JobOK /\ ContentOK /\ InstallOK /\ config \in Contents
  BY <1>1 DEF ReadBlock, Quiet, DeskInv, DeskTyped, Step
<1>3. PICK s \in {"remove", "unlink"}, c \in {config, job.seen} :
        /\ job' \in Jobs /\ job'.step = s /\ job'.cmd = job.cmd /\ job'.seen = c
        /\ s = "remove" => c = config
  <2>1. CASE config.block = 0
    <3>1. Reach("unlink")
      BY <1>1, <2>1 DEF ReadBlock
    <3>2. QED
      BY <1>2, <3>1, Reached, AllSteps
  <2>2. CASE config.block # 0
    <3>1. job' = [job EXCEPT !.seen = config, !.step = "remove"]
      BY <1>1, <2>2 DEF ReadBlock
    <3>2. /\ job' \in Jobs /\ job'.step = "remove" /\ job'.cmd = job.cmd /\ job'.seen = config
      BY <1>2, <3>1, ReadInto, AllSteps
    <3>3. QED
      BY <3>2
  <2>3. QED
    BY <2>1, <2>2
<1>4. JobOK' /\ DeskTyped'
  BY <1>2, <1>3, Went, Follow, OnlyJob
<1>5. ContentOK'
  BY <1>2, <1>3 DEF ContentOK, ReadBefore, machine
<1>6. InstallOK'
  <2>1. t = "take out" => job.cmd # "install codex"
    BY <1>2, StepsApart
  <2>2. job.cmd = "install codex" =>
          /\ config.block # 0 => record.block # 0
          /\ \A l \in Link : links[l] = root => record.links[l] = root
    BY <1>2, <2>1 DEF InstallOK
  <2>3. QED
    BY <1>2, <1>3, <2>2 DEF InstallOK, machine
<1>7. UninstallOK'
  BY <1>3 DEF UninstallOK, RestoreSteps
<1>8. QED
  BY <1>4, <1>5, <1>6, <1>7 DEF DeskInv

LEMMA RemoveBlockKeeps ==
  ASSUME DeskInv, RemoveBlock
  PROVE  DeskInv'
<1>1. /\ Step("remove") /\ job.step = "remove" /\ config' = Without(job.seen) /\ Reach("unlink")
      /\ DeskTyped /\ JobOK /\ ContentOK /\ InstallOK
      /\ UNCHANGED <<saved, managed, valid, issued, links, payload, record, codex, release, root,
                     edits, breaks, wrote>>
  BY DEF RemoveBlock, Quiet, DeskInv, Step
<1>2. /\ job' \in Jobs /\ JobOK' /\ job'.step = "unlink" /\ job'.cmd = job.cmd
      /\ job'.seen = job.seen
  BY <1>1, Reaching, AllSteps, Follow
<1>3. /\ job.seen \in Contents /\ job.seen.own <= wrote
      /\ (saved.own = wrote => job.seen.own \in {0, wrote})
      /\ (~job.seen.there => job.seen.own = 0)
  BY <1>1, SeenOwn DEF ReadBefore
<1>4. /\ config' \in Contents /\ config'.own = job.seen.own /\ config'.block = 0
      /\ (~config'.there => config'.own = 0)
  BY <1>1, <1>3, WithoutBlock
<1>5. DeskTyped'
  BY <1>1, <1>2, <1>4 DEF DeskTyped
<1>6. ContentOK'
  BY <1>1, <1>2, <1>3, <1>4 DEF ContentOK, ReadBefore
<1>7. InstallOK'
  BY <1>1, <1>2, <1>4 DEF InstallOK
<1>8. UninstallOK'
  BY <1>2 DEF UninstallOK, RestoreSteps
<1>9. QED
  BY <1>2, <1>5, <1>6, <1>7, <1>8 DEF DeskInv

LEMMA UnlinkKeeps ==
  ASSUME DeskInv, NEW l \in Link, Unlink(l)
  PROVE  DeskInv'
<1>1. /\ job.step = "unlink" /\ job' = job /\ links' = [links EXCEPT ![l] = 0]
      /\ DeskTyped /\ JobOK /\ ContentOK /\ InstallOK /\ root \in Root
      /\ UNCHANGED <<config, saved, managed, valid, issued, payload, record, codex, release, root,
                     edits, breaks, wrote>>
  BY DEF Unlink, Quiet, DeskInv, Step, DeskTyped
<1>2. DeskTyped'
  BY <1>1 DEF DeskTyped
<1>3. JobOK' /\ ContentOK'
  BY <1>1 DEF JobOK, ContentOK, Upsert
<1>4. InstallOK'
  <2>1. \A k \in Link : links'[k] = root => links[k] = root
    BY <1>1, Bounds DEF DeskTyped
  <2>2. QED
    BY <1>1, <2>1 DEF InstallOK
<1>5. UninstallOK'
  BY <1>1 DEF UninstallOK, RestoreSteps
<1>6. QED
  BY <1>2, <1>3, <1>4, <1>5 DEF DeskInv

LEMMA PlanRemovalKeeps ==
  ASSUME DeskInv, PlanRemoval
  PROVE  DeskInv'
<1> DEFINE p == [NoPlan EXCEPT !.old = record, !.record = Remaining,
                      !.free = {l \in Link : links[l] = 0}]
<1>1. /\ Step("plan removal") /\ job' = [job EXCEPT !.step = "unregister", !.plan = p]
      /\ DeskTyped /\ JobOK /\ ContentOK /\ job \in Jobs
      /\ config \in Contents /\ record \in States
      /\ UNCHANGED <<machine, edits, breaks, wrote>>
  BY DEF PlanRemoval, Quiet, DeskInv, DeskTyped
<1>2. /\ Remaining \in States
      /\ Remaining.block = IF config.block = 0 /\ config.users THEN record.block ELSE 0
      /\ \A l \in Link : Remaining.links[l] = 0 /\ record.links[l] # 0 =>
           links[l] \in {0, record.links[l]}
  BY <1>1, RemainingIs
<1>3. /\ p \in Plans /\ p.old = record /\ p.record = Remaining
      /\ p.free = {l \in Link : links[l] = 0}
  BY <1>1, <1>2, Nothings DEF Plans
<1> HIDE DEF p
<1>4. /\ job' \in Jobs /\ job'.step = "unregister" /\ job'.cmd = job.cmd /\ job'.seen = job.seen
      /\ job'.plan = p
  BY <1>1, <1>3, Planned, AllSteps
<1>5. JobOK' /\ DeskTyped'
  BY <1>1, <1>4, Went, Follow, OnlyJob
<1>6. ContentOK'
  BY <1>1, <1>4 DEF ContentOK, ReadBefore, machine
<1>7. InstallOK'
  BY <1>4 DEF InstallOK
<1>8. UninstallOK'
  BY <1>1, <1>2, <1>3, <1>4 DEF UninstallOK, machine
<1>9. QED
  BY <1>5, <1>6, <1>7, <1>8 DEF DeskInv

\* The steps of uninstall-codex that only go on.
LEMMA RestoreGoesOn ==
  ASSUME DeskInv, RemoveMarket \/ ReadRestore \/ Relinked
  PROVE  DeskInv' /\ UNCHANGED <<config, saved, wrote>>
<1>1. /\ DeskTyped /\ JobOK /\ ContentOK /\ InstallOK /\ UninstallOK /\ job \in Jobs
      /\ config \in Contents
      /\ UNCHANGED <<config, saved, managed, valid, issued, links, payload, record, release, root,
                     edits, breaks, wrote>>
      /\ codex' \in [market : BOOLEAN, plugin : [PluginFile -> 0 .. MaxReleases]]
  BY DEF DeskInv, DeskTyped, RemoveMarket, ReadRestore, Relinked, Quiet, machine
<1>2. PICK s \in {"restore", "put back", "relink", "clear"} :
        /\ job' \in Jobs /\ JobOK' /\ job'.step = s /\ job'.plan = job.plan
        /\ job'.seen \in {config, job.seen} /\ (s = "put back" => job'.seen = config)
        /\ job.step \in RestoreSteps
        /\ s = "restore" => job.step = "unregister"
        /\ s \in {"put back", "relink"} => job.step = "restore"
        /\ s = "put back" => job.plan.old.block # 0
        /\ s = "relink" => job.plan.old.block = 0 \/ config.block # 0 \/ config.users
        /\ s = "clear" => job.step = "relink"
  <2>1. CASE RemoveMarket
    <3>1. Step("unregister") /\ Reach("restore") /\ job.step = "unregister"
      BY <2>1 DEF RemoveMarket, Step
    <3>2. QED
      BY <1>1, <3>1, Reaching, AllSteps, Follow DEF RestoreSteps
  <2>2. CASE Relinked
    <3>1. Step("relink") /\ Reach("clear") /\ job.step = "relink"
      BY <2>2 DEF Relinked, Step
    <3>2. QED
      BY <1>1, <3>1, Reaching, AllSteps, Follow DEF RestoreSteps
  <2>3. CASE ReadRestore
    <3>1. Step("restore") /\ job.step = "restore" /\ job.step \in RestoreSteps
      BY <2>3 DEF ReadRestore, Step, RestoreSteps
    <3>2. CASE job.plan.old.block # 0 /\ config.block = 0 /\ ~config.users
      <4>1. job' = [job EXCEPT !.seen = config, !.step = "put back"]
        BY <2>3, <3>2 DEF ReadRestore
      <4>2. /\ job' \in Jobs /\ job'.step = "put back" /\ job'.cmd = job.cmd
            /\ job'.seen = config /\ job'.plan = job.plan
        BY <1>1, <4>1, ReadInto, AllSteps
      <4>3. JobOK'
        BY <1>1, <3>1, <4>2, Went, Follow
      <4>4. QED
        BY <3>1, <3>2, <4>2, <4>3
    <3>3. CASE ~(job.plan.old.block # 0 /\ config.block = 0 /\ ~config.users)
      <4>1. Reach("relink")
        BY <2>3, <3>3 DEF ReadRestore
      <4>2. /\ job' \in Jobs /\ JobOK' /\ job'.step = "relink" /\ job'.seen = job.seen
            /\ job'.plan = job.plan
        BY <1>1, <3>1, <4>1, Reaching, AllSteps, Follow
      <4>3. QED
        BY <3>1, <3>3, <4>2
    <3>4. QED
      BY <3>2, <3>3
  <2>4. QED
    BY <2>1, <2>2, <2>3
<1>3. DeskTyped'
  BY <1>1, <1>2 DEF DeskTyped
<1>4. ContentOK'
  BY <1>1, <1>2 DEF ContentOK, ReadBefore
<1>5. InstallOK'
  BY <1>2 DEF InstallOK
<1>6. UninstallOK'
  <2>1. job.plan.old = record
    BY <1>1, <1>2 DEF UninstallOK
  <2>2. /\ job.step \in {"unregister", "restore"} /\ job.plan.record.block = 0 /\ record.block # 0 =>
             config.block # 0 \/ ~config.users \/ job.plan.claimed
        /\ job.step \in {"relink", "clear"} /\ job.plan.record.block = 0 /\ record.block # 0 =>
             config.block # 0 \/ job.plan.claimed
        /\ \A l \in Link : job.plan.record.links[l] = 0 /\ record.links[l] # 0 =>
             links[l] = record.links[l] \/ l \in job.plan.free
    BY <1>1, <1>2 DEF UninstallOK
  <2>3. /\ record' = record /\ config' = config /\ links' = links /\ job'.plan = job.plan
        /\ job'.step = s
    BY <1>1, <1>2
  <2>4. s = "restore" /\ job.plan.record.block = 0 /\ record.block # 0 =>
             config.block # 0 \/ ~config.users \/ job.plan.claimed
    BY <1>2, <2>2
  <2>5. s = "put back" => record.block # 0
    BY <1>2, <2>1
  <2>6. s \in {"relink", "clear"} /\ job.plan.record.block = 0 /\ record.block # 0 =>
          config.block # 0 \/ job.plan.claimed
    BY <1>2, <2>1, <2>2
  <2>7. QED
    BY <2>1, <2>2, <2>3, <2>4, <2>5, <2>6 DEF UninstallOK
<1>7. QED
  BY <1>1, <1>2, <1>3, <1>4, <1>5, <1>6 DEF DeskInv

LEMMA PutBackKeeps ==
  ASSUME DeskInv, PutBack
  PROVE  DeskInv'
<1>1. /\ Step("put back") /\ job.step = "put back" /\ Reach("relink")
      /\ config' = Upsert(job.seen, job.plan.old.block)
      /\ DeskTyped /\ JobOK /\ ContentOK /\ UninstallOK /\ job.plan.old \in States
      /\ UNCHANGED <<saved, managed, valid, issued, links, payload, record, codex, release, root,
                     edits, breaks, wrote>>
  BY DEF PutBack, Quiet, DeskInv, Step, DeskTyped, Jobs, Plans
<1>2. /\ job' \in Jobs /\ JobOK' /\ job'.step = "relink" /\ job'.cmd = job.cmd
      /\ job'.seen = job.seen /\ job'.plan = job.plan
  BY <1>1, Reaching, AllSteps, Follow
<1>3. /\ job.seen \in Contents /\ job.seen.own <= wrote
      /\ (saved.own = wrote => job.seen.own \in {0, wrote})
  BY <1>1, SeenOwn DEF ReadBefore
<1>4. job.plan.old.block \in 0 .. MaxKeys
  BY <1>1 DEF States
<1>5. /\ config' \in Contents /\ config'.own = job.seen.own /\ config'.there
      /\ config'.block = job.plan.old.block
  BY <1>1, <1>3, <1>4, Upserted
<1>6. DeskTyped'
  BY <1>1, <1>2, <1>5 DEF DeskTyped
<1>7. ContentOK'
  BY <1>1, <1>2, <1>3, <1>5 DEF ContentOK, ReadBefore
<1>8. InstallOK'
  BY <1>2 DEF InstallOK
<1>9. UninstallOK'
  <2>1. /\ job.plan.old = record /\ record.block # 0
        /\ \A l \in Link : job.plan.record.links[l] = 0 /\ record.links[l] # 0 =>
             links[l] = record.links[l] \/ l \in job.plan.free
    BY <1>1 DEF UninstallOK, RestoreSteps
  <2>2. QED
    BY <1>1, <1>2, <1>5, <2>1 DEF UninstallOK
<1>10. QED
  BY <1>2, <1>6, <1>7, <1>8, <1>9 DEF DeskInv

LEMMA RelinkKeeps ==
  ASSUME DeskInv, NEW l \in Link, Relink(l)
  PROVE  DeskInv'
<1>1. /\ job.step = "relink" /\ job' = job /\ links' = [links EXCEPT ![l] = job.plan.old.links[l]]
      /\ DeskTyped /\ JobOK /\ ContentOK /\ UninstallOK /\ job.plan.old = record /\ record \in States
      /\ UNCHANGED <<config, saved, managed, valid, issued, payload, record, codex, release, root,
                     edits, breaks, wrote>>
  BY DEF Relink, Quiet, DeskInv, Step, DeskTyped, UninstallOK, RestoreSteps
<1>2. job.plan.old.links[l] \in {0} \cup Root
  BY <1>1 DEF States
<1>3. DeskTyped'
  BY <1>1, <1>2 DEF DeskTyped
<1>4. JobOK' /\ ContentOK'
  BY <1>1 DEF JobOK, ContentOK, Upsert
<1>5. InstallOK'
  BY <1>1 DEF InstallOK
<1>6. UninstallOK'
  <2>1. links'[l] = record.links[l] /\ \A k \in Link \ {l} : links'[k] = links[k]
    BY <1>1 DEF DeskTyped
  <2>2. QED
    BY <1>1, <2>1 DEF UninstallOK
<1>7. QED
  BY <1>3, <1>4, <1>5, <1>6 DEF DeskInv

LEMMA RollBackKeeps ==
  ASSUME DeskInv, RollBack
  PROVE  DeskInv'
<1>1. /\ Step("roll back") /\ job.step = "roll back" /\ Reach("unlink") /\ config' = saved
      /\ DeskTyped /\ JobOK /\ ContentOK
      /\ UNCHANGED <<saved, managed, valid, issued, links, payload, record, codex, release, root,
                     edits, breaks, wrote>>
  BY DEF RollBack, Quiet, DeskInv, Step
<1>2. /\ job' \in Jobs /\ JobOK' /\ job'.step = "unlink" /\ job'.cmd = job.cmd
      /\ job'.seen = job.seen
  BY <1>1, Reaching, AllSteps, Follow
<1>3. DeskTyped'
  BY <1>1, <1>2 DEF DeskTyped
<1>4. ContentOK'
  BY <1>1, <1>2 DEF ContentOK, ReadBefore
<1>5. InstallOK'
  BY <1>1, <1>2, StepsApart DEF InstallOK
<1>6. UninstallOK'
  BY <1>2 DEF UninstallOK, RestoreSteps
<1>7. QED
  BY <1>2, <1>3, <1>4, <1>5, <1>6 DEF DeskInv

-----------------------------------------------------------------------------
(***************************************************************************)
(* Ends that were not planned, and what the user does                      *)
(***************************************************************************)

LEMMA BreakKeeps ==
  ASSUME DeskInv, Break
  PROVE  DeskInv'
<1>1. /\ job' = NoJob /\ breaks < MaxBreaks /\ breaks' = breaks + 1 /\ Truncate
      /\ DeskTyped /\ ContentOK
      /\ UNCHANGED <<valid, issued, links, payload, record, codex, release, root, edits, wrote>>
  BY DEF Break, DeskInv
<1>2. /\ config' \in {config, Emptied} /\ saved' \in {saved, Emptied}
      /\ managed' \in {managed, [mode |-> "torn", key |-> 0]}
  BY <1>1 DEF Truncate
<1>3. managed' \in [mode : {"none", "torn", "personal", "shared"}, key : 0 .. MaxKeys]
  BY <1>1, <1>2, Bounds DEF DeskTyped
<1>4. breaks' \in 0 .. MaxBreaks
  BY <1>1, Bounds DEF DeskTyped
<1>5. DeskTyped'
  BY <1>1, <1>2, <1>3, <1>4, Nothings DEF DeskTyped
<1>6. JobOK'
  BY <1>1 DEF JobOK
<1>7. ContentOK'
  <2>1. wrote' = wrote /\ wrote \in Nat /\ config.own \in Nat /\ saved.own \in Nat
    BY <1>1, Naturally
  <2>2. /\ config'.own \in {config.own, 0} /\ saved'.own \in {saved.own, 0}
        /\ (~config'.there => config'.own = 0) /\ (~saved'.there => saved'.own = 0)
    BY <1>1, <1>2, Nothings DEF ContentOK
  <2>3. /\ config'.own <= wrote /\ saved'.own <= wrote
        /\ (saved'.own = wrote => config'.own \in {0, wrote})
    BY <1>1, <2>1, <2>2 DEF ContentOK
  <2>4. job'.step = "idle" /\ job'.seen.own = 0
    BY <1>1, Nothings
  <2>5. QED
    BY <2>1, <2>2, <2>3, <2>4 DEF ContentOK, ReadBefore
<1>8. InstallOK' /\ UninstallOK'
  BY <1>1, Nothings DEF InstallOK, UninstallOK, RestoreSteps
<1>9. QED
  BY <1>5, <1>6, <1>7, <1>8 DEF DeskInv

LEMMA EditKeeps ==
  ASSUME DeskInv, NEW users \in BOOLEAN, Edit(users)
  PROVE  DeskInv'
<1>1. /\ edits < MaxEdits /\ edits' = edits + 1 /\ wrote' = wrote + 1
      /\ config' = [config EXCEPT !.there = TRUE, !.own = wrote', !.users = users]
      /\ job' = IF users /\ ~config.users /\ job.cmd = "uninstall codex"
                THEN [job EXCEPT !.plan.claimed = TRUE] ELSE job
      /\ DeskTyped /\ JobOK /\ ContentOK /\ InstallOK /\ UninstallOK
      /\ config \in Contents /\ job \in Jobs
      /\ UNCHANGED <<saved, managed, valid, issued, links, payload, record, codex, release, root, breaks>>
  BY DEF Edit, DeskInv, DeskTyped
<1>2. wrote \in Nat /\ wrote' \in 0 .. edits' + 1 /\ wrote' \in 0 .. MaxEdits + 1 /\ edits' \in 0 .. MaxEdits
  <2>1. wrote \in 0 .. edits + 1 /\ edits \in 0 .. MaxEdits
    BY <1>1 DEF DeskTyped
  <2>2. edits < MaxEdits /\ edits' = edits + 1 /\ wrote' = wrote + 1 /\ MaxEdits \in Nat
    BY <1>1, Bounds
  <2>3. QED
    BY <2>1, <2>2
<1>3. /\ config' \in Contents /\ config'.own = wrote + 1 /\ config'.there
      /\ config'.block = config.block /\ config'.users = users
  BY <1>1, <1>2 DEF Contents
<1>4. /\ job' \in Jobs /\ job'.step = job.step /\ job'.cmd = job.cmd /\ job'.key = job.key
      /\ job'.seen = job.seen /\ job'.plan.old = job.plan.old /\ job'.plan.record = job.plan.record
      /\ job'.plan.free = job.plan.free
      /\ job.plan.claimed => job'.plan.claimed
      /\ users /\ ~config.users /\ job.cmd = "uninstall codex" => job'.plan.claimed
  BY <1>1 DEF Jobs, Plans
<1>5. job = NoJob => job' = NoJob
  BY <1>1, Nothings
<1>6. JobOK'
  BY <1>1, <1>4, <1>5 DEF JobOK
<1>7. DeskTyped'
  BY <1>1, <1>2, <1>3, <1>4 DEF DeskTyped
<1>8. ContentOK'
  <2>1. saved.own \in Nat /\ config.own \in Nat /\ job.seen \in Contents /\ job.seen.own \in Nat
    BY <1>1, Naturally DEF DeskTyped, Jobs
  <2>2. saved.own <= wrote /\ config.own <= wrote
    BY <1>1 DEF ContentOK
  <2>3. job.step \in ReadBefore => job.seen.own <= wrote
    BY <1>1, SeenOwn
  <2>4. Upsert(job.seen, job.key)' = Upsert(job.seen, job.key)
    BY <1>4 DEF Upsert
  <2>5. QED
    <3>1. /\ config'.own <= wrote' /\ saved'.own <= wrote' /\ config'.own = wrote'
          /\ saved'.own # wrote' /\ saved'.own < wrote' /\ saved' = saved
      <4>1. /\ config'.own = wrote + 1 /\ saved' = saved /\ saved'.own = saved.own
            /\ wrote' = wrote + 1
        BY <1>1, <1>3
      <4>2. QED
        BY <1>2, <2>1, <2>2, <4>1
    <3>2. \A c \in {config', saved', job'.seen} : ~c.there => c.own = 0
      BY <1>1, <1>3, <1>4 DEF ContentOK
    <3>3. job'.step \in ReadBefore => job'.seen.own < wrote'
      <4>1. /\ job'.step = job.step /\ job'.seen.own = job.seen.own /\ wrote' = wrote + 1
        BY <1>1, <1>4
      <4>2. QED
        BY <1>2, <2>1, <2>3, <4>1
    <3>4. job'.step = "write" /\ job'.seen.there /\ job'.seen # Upsert(job.seen, job.key)' =>
            saved' = job'.seen
      BY <1>1, <1>4, <2>4 DEF ContentOK
    <3>5. Upsert(job.seen, job.key)' = Upsert(job'.seen, job'.key)
      BY DEF Upsert
    <3>6. QED
      BY <3>1, <3>2, <3>3, <3>4, <3>5 DEF ContentOK
<1>9. InstallOK'
  BY <1>1, <1>3, <1>4 DEF InstallOK
<1>10. UninstallOK'
  <2>1. job.step \in RestoreSteps => job.cmd = "uninstall codex"
    BY <1>1, StepsApart
  <2>2. QED
    BY <1>1, <1>3, <1>4, <2>1 DEF UninstallOK
<1>11. QED
  BY <1>6, <1>7, <1>8, <1>9, <1>10 DEF DeskInv

LEMMA OccupyKeeps ==
  ASSUME DeskInv, NEW l \in Link, NEW what \in {Foreign, Taken}, Occupy(l, what)
  PROVE  DeskInv'
<1>1. /\ edits < MaxEdits /\ links[l] = 0 /\ edits' = edits + 1 /\ links' = [links EXCEPT ![l] = what]
      /\ DeskTyped /\ JobOK /\ ContentOK /\ InstallOK /\ UninstallOK /\ root \in Root
      /\ UNCHANGED <<config, saved, managed, valid, issued, payload, record, codex, release, root, job,
                     breaks, wrote>>
  BY DEF Occupy, DeskInv, DeskTyped
<1>2. edits' \in 0 .. MaxEdits /\ wrote' \in 0 .. edits' + 1
  BY <1>1, Bounds DEF DeskTyped
<1>3. links' \in [Link -> {0, Foreign, Taken} \cup Root]
  BY <1>1 DEF DeskTyped
<1>4. DeskTyped'
  BY <1>1, <1>2, <1>3 DEF DeskTyped
<1>5. JobOK' /\ ContentOK'
  BY <1>1 DEF JobOK, ContentOK, Upsert
<1>6. links'[l] = what /\ \A k \in Link \ {l} : links'[k] = links[k]
  BY <1>1 DEF DeskTyped
<1>7. InstallOK'
  <2>1. \A k \in Link : links'[k] = root => links[k] = root
    BY <1>1, <1>6, Bounds
  <2>2. QED
    BY <1>1, <2>1 DEF InstallOK
<1>8. UninstallOK'
  <2>1. \A k \in Link : record.links[k] # 0 /\ links[k] = record.links[k] => links'[k] = record.links[k]
    BY <1>1, <1>6
  <2>2. QED
    BY <1>1, <2>1 DEF UninstallOK
<1>9. QED
  BY <1>4, <1>5, <1>7, <1>8 DEF DeskInv

-----------------------------------------------------------------------------
(***************************************************************************)
(* The invariant                                                           *)
(***************************************************************************)

LEMMA DeskBegins ==
  ASSUME InstallerInit
  PROVE  DeskInv
<1>1. config \in Contents /\ config.own \in {0, 1} /\ config.block = 0
      /\ (~config.there => config.own = 0)
  <2>1. 1 \in 0 .. MaxEdits + 1
    BY Bounds
  <2>2. CASE config = Blank
    BY <2>2, Nothings
  <2>3. CASE config = [Blank EXCEPT !.there = TRUE, !.own = 1]
    BY <2>1, <2>3, Nothings DEF Contents
  <2>4. QED
    BY <2>2, <2>3 DEF InstallerInit
<1>2. links = [l \in Link |-> 0] /\ links \in [Link -> {0, Foreign, Taken} \cup Root]
  BY DEF InstallerInit
<1>3. payload \in [Payload -> 0 .. MaxReleases]
  BY Bounds DEF InstallerInit
<1>4. codex \in [market : BOOLEAN, plugin : [PluginFile -> 0 .. MaxReleases]]
  BY Nothings DEF InstallerInit
<1>5. managed \in [mode : {"none", "torn", "personal", "shared"}, key : 0 .. MaxKeys]
  BY Bounds DEF InstallerInit
<1>6. wrote = config.own /\ edits = 0 /\ breaks = 0 /\ wrote \in 0 .. edits + 1
      /\ edits \in 0 .. MaxEdits /\ breaks \in 0 .. MaxBreaks
  BY <1>1, Bounds DEF InstallerInit
<1>7. /\ saved = Blank /\ record = NoRecord /\ job = NoJob /\ release = 1 /\ root = 1
      /\ valid = {} /\ issued = 0
  BY DEF InstallerInit
<1>8. DeskTyped
  BY <1>1, <1>2, <1>3, <1>4, <1>5, <1>6, <1>7, Nothings, Bounds DEF DeskTyped
<1>9. JobOK
  BY <1>7 DEF JobOK
<1>10. ContentOK
  BY <1>1, <1>6, <1>7, Nothings DEF ContentOK, ReadBefore
<1>11. InstallOK /\ UninstallOK
  BY <1>7, Nothings DEF InstallOK, UninstallOK, RestoreSteps
<1>12. QED
  BY <1>8, <1>9, <1>10, <1>11 DEF DeskInv

LEMMA DeskStep ==
  ASSUME DeskInv, [InstallerNext]_deskVars
  PROVE  DeskInv'
<1>1. CASE SetUp
  <2>1. CASE \/ Up \/ Repair \/ Mend \/ KeepKey \/ IssueKey \/ SaveKey \/ Linked
             \/ \E start \in BOOLEAN : Configure(start)
             \/ \E l \in Link : EnsureLink(l)
    BY <2>1, NeutralSteps
  <2>2. CASE ReadEditor
    BY <2>2, ReadEditorKeeps
  <2>3. CASE BackUp
    BY <2>3, BackUpKeeps
  <2>4. CASE WriteEditor
    BY <2>4, WriteEditorKeeps
  <2>5. QED
    BY <1>1, <2>1, <2>2, <2>3, <2>4 DEF SetUp
<1>2. CASE InstallCodex
  <2>1. CASE \/ \E c \in Command : Initialize(c)
             \/ CreateConfig \/ FillConfig \/ CheckRegistry
             \/ Unlinked({"install codex"}, "register")
             \/ Register \/ AddPlugin \/ KeepPlugin
    BY <2>1, NeutralSteps
  <2>2. CASE PlanInstall
    BY <2>2, PlanInstallKeeps
  <2>3. CASE WriteRecord
    BY <2>3, WriteRecordKeeps
  <2>4. CASE ReadBlock("strip")
    BY <2>4, ReadBlockKeeps
  <2>5. CASE RemoveBlock
    BY <2>5, RemoveBlockKeeps
  <2>6. CASE \E f \in Payload : WritePayload(f)
    BY <2>6, PayloadKeeps
  <2>7. CASE \E l \in Link : Unlink(l)
    BY <2>7, UnlinkKeeps
  <2>8. QED
    BY <1>2, <2>1, <2>2, <2>3, <2>4, <2>5, <2>6, <2>7 DEF InstallCodex
<1>3. CASE UninstallCodex
  <2>1. CASE Give("uninstall codex", "plan removal") \/ RemoveRecord
    BY <2>1, NeutralSteps
  <2>2. CASE PlanRemoval
    BY <2>2, PlanRemovalKeeps
  <2>3. CASE RemovePlugin \/ \E f \in Payload : RemovePayload(f)
    BY <2>3, PayloadKeeps
  <2>4. CASE RemoveMarket \/ ReadRestore \/ Relinked
    BY <2>4, RestoreGoesOn
  <2>5. CASE PutBack
    BY <2>5, PutBackKeeps
  <2>6. CASE \E l \in Link : Relink(l)
    BY <2>6, RelinkKeeps
  <2>7. QED
    BY <1>3, <2>1, <2>2, <2>3, <2>4, <2>5, <2>6 DEF UninstallCodex
<1>4. CASE TakeDown
  <2>1. CASE \/ \E c \in Command : Uninstall(c)
             \/ StopStack \/ Purge
             \/ Unlinked({"uninstall", "restore backup", "purge"}, "purge")
    BY <2>1, NeutralSteps
  <2>2. CASE RollBack
    BY <2>2, RollBackKeeps
  <2>3. CASE ReadBlock("take out")
    BY <2>3, ReadBlockKeeps
  <2>4. QED
    BY <1>4, <2>1, <2>2, <2>3 DEF TakeDown
<1>5. CASE User
  <2>1. CASE \E users \in BOOLEAN : Edit(users)
    BY <2>1, EditKeeps
  <2>2. CASE \E l \in Link, what \in {Foreign, Taken} : Occupy(l, what)
    BY <2>2, OccupyKeeps
  <2>3. CASE \E moved \in BOOLEAN : Upgrade(moved)
    BY <2>3, NeutralSteps
  <2>4. QED
    BY <1>5, <2>1, <2>2, <2>3 DEF User
<1>6. CASE Break
  BY <1>6, BreakKeeps
<1>7. CASE UNCHANGED deskVars
  <2>1. UNCHANGED <<config, saved, managed, valid, issued, links, payload, record, codex, release,
                    root, job, edits, breaks, wrote>>
    BY <1>7 DEF deskVars, machine
  <2>2. DeskTyped'
    BY <2>1 DEF DeskInv, DeskTyped
  <2>3. JobOK' /\ ContentOK'
    BY <2>1 DEF DeskInv, JobOK, ContentOK, Upsert
  <2>4. InstallOK' /\ UninstallOK'
    BY <2>1 DEF DeskInv, InstallOK, UninstallOK
  <2>5. QED
    BY <2>2, <2>3, <2>4 DEF DeskInv
<1>8. QED
  BY <1>1, <1>2, <1>3, <1>4, <1>5, <1>6, <1>7 DEF InstallerNext

\* Of every reachable state: which command a step belongs to, where the last
\* revision of the user's content is, what install-codex has recorded of what it
\* will take away, and what uninstall-codex may forget.
THEOREM DeskHolds == InstallerSpec => []DeskInv
<1>1. InstallerInit => DeskInv
  BY DeskBegins
<1>2. DeskInv /\ [InstallerNext]_deskVars => DeskInv'
  BY DeskStep
<1>3. QED
  BY <1>1, <1>2, PTL DEF InstallerSpec

-----------------------------------------------------------------------------
(***************************************************************************)
(* What is kept                                                            *)
(***************************************************************************)

LEMMA SameFiles ==
  ASSUME UNCHANGED <<config, saved, wrote, record, links>>
  PROVE  LegacyStep /\ OwnStep
BY DEF LegacyStep, OwnStep, OwnThere

\* The steps that do not write any of these files.
LEMMA OthersKeep ==
  ASSUME \/ Up \/ Repair \/ \E c \in Command : Initialize(c) \/ Uninstall(c)
         \/ Give("uninstall codex", "plan removal")
         \/ CreateConfig \/ FillConfig \/ CheckRegistry
         \/ Mend \/ KeepKey \/ Linked \/ KeepPlugin
         \/ IssueKey \/ SaveKey \/ \E start \in BOOLEAN : Configure(start)
         \/ Register \/ AddPlugin
         \/ Unlinked({"install codex"}, "register")
         \/ Unlinked({"uninstall", "restore backup", "purge"}, "purge")
         \/ StopStack \/ Purge \/ ReadEditor
         \/ PlanInstall \/ ReadBlock("strip") \/ ReadBlock("take out")
         \/ \E f \in Payload : WritePayload(f) \/ RemovePayload(f)
         \/ PlanRemoval \/ RemovePlugin \/ RemoveMarket \/ ReadRestore \/ Relinked
         \/ \E moved \in BOOLEAN : Upgrade(moved)
         \/ UNCHANGED deskVars
  PROVE  LegacyStep /\ OwnStep
<1>1. UNCHANGED <<config, saved, wrote, record, links>>
  <2>1. CASE \/ Up \/ Repair \/ \E c \in Command : Initialize(c) \/ Uninstall(c)
             \/ Give("uninstall codex", "plan removal")
    BY <2>1 DEF Up, Repair, Initialize, Uninstall, Give, machine
  <2>2. CASE \/ CreateConfig \/ FillConfig \/ CheckRegistry
             \/ Mend \/ KeepKey \/ Linked \/ KeepPlugin
             \/ IssueKey \/ SaveKey \/ \E start \in BOOLEAN : Configure(start)
    BY <2>2 DEF CreateConfig, FillConfig, CheckRegistry, Mend, KeepKey, Linked, KeepPlugin, IssueKey,
                SaveKey, Configure, Quiet, machine
  <2>3. CASE \/ Register \/ AddPlugin
             \/ Unlinked({"install codex"}, "register")
             \/ Unlinked({"uninstall", "restore backup", "purge"}, "purge")
             \/ StopStack \/ Purge \/ ReadEditor
             \/ PlanInstall \/ ReadBlock("strip") \/ ReadBlock("take out")
    BY <2>3 DEF Register, AddPlugin, Unlinked, StopStack, Purge, ReadEditor, PlanInstall, ReadBlock,
                Quiet, machine
  <2>4. CASE \/ \E f \in Payload : WritePayload(f) \/ RemovePayload(f)
             \/ PlanRemoval \/ RemovePlugin \/ RemoveMarket \/ ReadRestore \/ Relinked
             \/ \E moved \in BOOLEAN : Upgrade(moved)
             \/ UNCHANGED deskVars
    BY <2>4 DEF WritePayload, RemovePayload, PlanRemoval, RemovePlugin, RemoveMarket, ReadRestore,
                Relinked, Upgrade, deskVars, Quiet, machine
  <2>5. QED
    BY <2>1, <2>2, <2>3, <2>4
<1>2. QED
  BY <1>1, SameFiles

LEMMA LinksKeep ==
  ASSUME DeskInv, NEW l \in Link, EnsureLink(l) \/ Unlink(l) \/ Relink(l) \/ \E what \in {Foreign, Taken} : Occupy(l, what)
  PROVE  LegacyStep /\ OwnStep
<1>1. PICK x : /\ links' = [links EXCEPT ![l] = x]
               /\ UNCHANGED <<config, saved, wrote, record>>
               /\ \/ x \in {root, Foreign, Taken}
                  \/ x = 0 /\ Step("unlink") /\ links[l] = root
                  \/ Step("relink")
  BY DEF EnsureLink, Unlink, Relink, Occupy, Quiet, Ours
<1>2. /\ DeskTyped /\ JobOK /\ InstallOK /\ root \in Root /\ links \in [Link -> {0, Foreign, Taken} \cup Root]
  BY DEF DeskInv, DeskTyped
<1>3. OwnStep
  BY <1>1 DEF OwnStep, OwnThere
<1>4. ASSUME NEW k \in Link, links[k] # 0, links'[k] = 0, job.cmd = "install codex"
      PROVE  record.links[k] = links[k]
  <2>1. k = l /\ x = 0
    BY <1>1, <1>2, <1>4
  <2>2. job.step # "relink"
    BY <1>2, <1>4, StepsApart DEF RestoreSteps
  <2>3. job.step = "unlink" /\ links[l] = root
    BY <1>1, <1>2, <2>1, <2>2, Bounds DEF Step
  <2>4. QED
    BY <1>2, <1>4, <2>1, <2>3 DEF InstallOK
<1>5. LegacyStep
  BY <1>1, <1>4 DEF LegacyStep
<1>6. QED
  BY <1>3, <1>5

LEMMA RecordKeeps ==
  ASSUME DeskInv, WriteRecord \/ RemoveRecord
  PROVE  LegacyStep /\ OwnStep
<1>1. UNCHANGED <<config, saved, wrote, links>> /\ JobOK /\ InstallOK /\ UninstallOK
  BY DEF WriteRecord, RemoveRecord, Quiet, DeskInv
<1>2. OwnStep
  BY <1>1 DEF OwnStep, OwnThere
<1>3. CASE WriteRecord
  <2>1. job.step = "payload" /\ record' = job.plan.record /\ job.cmd = "install codex"
    BY <1>1, <1>3, StepsApart DEF WriteRecord, Step
  <2>2. /\ record.block # 0 => record'.block # 0
        /\ \A l \in Link : record.links[l] # 0 => record'.links[l] # 0
    BY <1>1, <2>1 DEF InstallOK
  <2>3. QED
    BY <1>1, <1>2, <2>2 DEF LegacyStep
<1>4. CASE RemoveRecord
  <2>1. /\ job.step = "clear" /\ job.step \in RestoreSteps
        /\ record' = IF Restored(job.plan.record) THEN NoRecord ELSE job.plan.record
    BY <1>4 DEF RemoveRecord, Step, RestoreSteps
  <2>2. /\ record'.block = 0 => job.plan.record.block = 0
        /\ \A l \in Link : record'.links[l] = 0 => job.plan.record.links[l] = 0
    BY <2>1 DEF Restored
  <2>3. /\ record.block # 0 /\ record'.block = 0 => config.block # 0 \/ job.plan.claimed
        /\ \A l \in Link : record.links[l] # 0 /\ record'.links[l] = 0 =>
             links[l] = record.links[l] \/ l \in job.plan.free
    BY <1>1, <2>1, <2>2 DEF UninstallOK
  <2>4. QED
    BY <1>1, <1>2, <2>3 DEF LegacyStep
<1>5. QED
  BY <1>3, <1>4

\* A file written from what was read has the user's content as it was read.
LEMMA WriteKeeps ==
  ASSUME DeskInv, WriteEditor \/ RemoveBlock \/ PutBack
  PROVE  LegacyStep /\ OwnStep
<1>1. /\ UNCHANGED <<saved, wrote, links, record>> /\ JobOK /\ InstallOK /\ DeskTyped
      /\ job.step \in {"write", "remove", "put back"}
  BY DEF WriteEditor, RemoveBlock, PutBack, Quiet, DeskInv, Step
<1>2. /\ config'.own = job.seen.own
  <2>1. job.seen \in Contents /\ job.key \in 0 .. MaxKeys /\ job.plan.old.block \in 0 .. MaxKeys
    BY <1>1 DEF DeskTyped, Jobs, Plans, States
  <2>2. /\ Upsert(job.seen, job.key).own = job.seen.own
        /\ Upsert(job.seen, job.plan.old.block).own = job.seen.own
        /\ Without(job.seen).own = job.seen.own
    BY <2>1, Upserted, WithoutBlock
  <2>3. config' \in {Upsert(job.seen, job.key), Upsert(job.seen, job.plan.old.block), Without(job.seen)}
    BY DEF WriteEditor, RemoveBlock, PutBack
  <2>4. QED
    BY <2>2, <2>3
<1>3. OwnStep
  BY <1>1, <1>2 DEF OwnStep, OwnThere, Overtaken
<1>4. job.cmd = "install codex" /\ config.block # 0 => record.block # 0
  <2>1. job.step = "write" => job.cmd # "install codex"
    BY <1>1, StepsApart DEF SetUpSteps
  <2>2. job.step = "put back" => job.cmd # "install codex"
    BY <1>1, StepsApart DEF RestoreSteps
  <2>3. QED
    BY <1>1, <2>1, <2>2 DEF InstallOK
<1>5. LegacyStep
  BY <1>1, <1>4 DEF LegacyStep
<1>6. QED
  BY <1>3, <1>5

LEMMA CopyKeeps ==
  ASSUME DeskInv, BackUp \/ RollBack
  PROVE  LegacyStep /\ OwnStep
<1>1. /\ UNCHANGED <<wrote, links, record>> /\ JobOK /\ ContentOK
  BY DEF BackUp, RollBack, Quiet, DeskInv
<1>2. CASE BackUp
  <2>1. /\ job.step = "back up" /\ Step("back up") /\ saved' = job.seen /\ config' = config
    BY <1>2 DEF BackUp, Step, Quiet
  <2>2. OwnStep
    BY <1>1, <2>1 DEF OwnStep, OwnThere, Overtaken, ContentOK
  <2>3. QED
    BY <1>1, <2>1, <2>2 DEF LegacyStep
<1>3. CASE RollBack
  <2>1. job.cmd # "install codex" /\ Step("roll back")
    BY <1>1, <1>3, StepsApart DEF RollBack, Step
  <2>2. QED
    BY <1>1, <2>1 DEF LegacyStep, OwnStep
<1>4. QED
  BY <1>2, <1>3

LEMMA BreakLoses ==
  ASSUME DeskInv, Break
  PROVE  LegacyStep /\ OwnStep
<1>1. /\ UNCHANGED <<wrote, links, record>> /\ JobOK /\ ContentOK /\ DeskTyped /\ Truncate
      /\ breaks' = breaks + 1
  BY DEF Break, DeskInv
<1>2. breaks' # breaks
  BY <1>1, Bounds DEF DeskTyped
<1>3. CASE UNCHANGED <<config, saved>>
  BY <1>1, <1>3 DEF LegacyStep, OwnStep, OwnThere
<1>4. CASE /\ \/ Step("write") \/ Step("roll back")
              \/ Step("remove") /\ job.cmd # "install codex"
           /\ config' = Emptied /\ saved' = saved
  <2>1. job.cmd # "install codex"
    BY <1>1, <1>4, StepsApart DEF Step, SetUpSteps
  <2>2. LegacyStep
    BY <1>1, <2>1 DEF LegacyStep
  <2>3. CASE Step("write") /\ job.seen # Upsert(job.seen, job.key)
    <3>1. /\ job.step = "write" /\ job.step \in ReadBefore
          /\ (job.seen.there => saved = job.seen)
          /\ (~job.seen.there => job.seen.own = 0)
      BY <1>1, <2>3 DEF ContentOK, Step, ReadBefore
    <3>2. OwnStep
      BY <1>1, <1>4, <3>1, Nothings DEF OwnStep, OwnThere, Overtaken
    <3>3. QED
      BY <2>2, <3>2
  <2>4. CASE ~(Step("write") /\ job.seen # Upsert(job.seen, job.key))
    BY <1>2, <1>4, <2>2, <2>4 DEF OwnStep, Unguarded
  <2>5. QED
    BY <2>3, <2>4
<1>5. CASE Step("back up") /\ saved' = Emptied /\ config' = config
  <2>1. OwnStep
    BY <1>1, <1>5 DEF OwnStep, OwnThere, Overtaken, ContentOK
  <2>2. QED
    BY <1>1, <1>5, <2>1 DEF LegacyStep
<1>6. QED
  BY <1>1, <1>3, <1>4, <1>5 DEF Truncate

LEMMA EditSaves ==
  ASSUME DeskInv, NEW users \in BOOLEAN, Edit(users)
  PROVE  LegacyStep /\ OwnStep
<1>1. /\ config' = [config EXCEPT !.there = TRUE, !.own = wrote', !.users = users]
      /\ UNCHANGED <<saved, links, record>> /\ config \in Contents
  BY DEF Edit, DeskInv, DeskTyped
<1>2. config'.own = wrote' /\ config'.block = config.block
  BY <1>1 DEF Contents
<1>3. QED
  BY <1>1, <1>2 DEF LegacyStep, OwnStep, OwnThere

LEMMA KeptByStep ==
  ASSUME DeskInv, [InstallerNext]_deskVars
  PROVE  LegacyStep /\ OwnStep
<1>1. CASE SetUp
  <2>1. CASE BackUp
    BY <2>1, CopyKeeps
  <2>2. CASE WriteEditor
    BY <2>2, WriteKeeps
  <2>3. CASE \E l \in Link : EnsureLink(l)
    BY <2>3, LinksKeep
  <2>4. QED
    BY <1>1, <2>1, <2>2, <2>3, OthersKeep DEF SetUp
<1>2. CASE InstallCodex
  <2>1. CASE WriteRecord
    BY <2>1, RecordKeeps
  <2>2. CASE RemoveBlock
    BY <2>2, WriteKeeps
  <2>3. CASE \E l \in Link : Unlink(l)
    BY <2>3, LinksKeep
  <2>4. QED
    BY <1>2, <2>1, <2>2, <2>3, OthersKeep DEF InstallCodex
<1>3. CASE UninstallCodex
  <2>1. CASE RemoveRecord
    BY <2>1, RecordKeeps
  <2>2. CASE PutBack
    BY <2>2, WriteKeeps
  <2>3. CASE \E l \in Link : Relink(l)
    BY <2>3, LinksKeep
  <2>4. QED
    BY <1>3, <2>1, <2>2, <2>3, OthersKeep DEF UninstallCodex
<1>4. CASE TakeDown
  <2>1. CASE RollBack
    BY <2>1, CopyKeeps
  <2>2. QED
    BY <1>4, <2>1, OthersKeep DEF TakeDown
<1>5. CASE User
  BY <1>5, EditSaves, LinksKeep, OthersKeep DEF User
<1>6. CASE Break
  BY <1>6, BreakLoses
<1>7. CASE UNCHANGED deskVars
  BY <1>7, OthersKeep
<1>8. QED
  BY <1>1, <1>2, <1>3, <1>4, <1>5, <1>6, <1>7 DEF InstallerNext

\* Wherever a command is cut short and whatever the user does in between, what
\* was in his files is in a file, or in the state file from which uninstall-codex
\* restores it, but for the exceptions that LegacyStep and OwnStep name.
THEOREM ContentsSurvive == InstallerSpec => ContentKept
<1>1. DeskInv /\ [InstallerNext]_deskVars => [LegacyStep /\ OwnStep]_deskVars
  BY KeptByStep
<1>2. QED
  BY <1>1, DeskHolds, PTL DEF InstallerSpec, ContentKept

\* The files, the state file and the command that runs keep their shape.
THEOREM InstallerTyped == InstallerSpec => []InstallerTypeOK
<1>1. DeskInv => InstallerTypeOK
  <2>1. SUFFICES ASSUME DeskTyped PROVE InstallerTypeOK
    BY DEF DeskInv
  <2>2. config \in Contents /\ saved \in Contents /\ record \in States /\ job \in Jobs
    BY <2>1 DEF DeskTyped
  <2>3. /\ job.cmd \in Commands \cup {"none"} /\ job.key \in 0 .. MaxKeys
        /\ job.plan.record \in States
    BY <2>2 DEF Jobs, Plans
  <2>4. managed.mode \in {"none", "torn", "personal", "shared"} /\ managed.key \in 0 .. MaxKeys
        /\ codex.market \in BOOLEAN /\ codex.plugin \in [PluginFile -> 0 .. MaxReleases]
        /\ DOMAIN payload = Payload
        /\ \A l \in Link : links[l] \in {0, Foreign, Taken} \cup Root
    BY <2>1 DEF DeskTyped
  <2>5. QED
    BY <2>1, <2>2, <2>3, <2>4 DEF InstallerTypeOK, DeskTyped, Contents, States
<1>2. QED
  BY <1>1, DeskHolds, PTL

-----------------------------------------------------------------------------
(***************************************************************************)
(* The machine                                                             *)
(***************************************************************************)

\* A machine takes only steps of its registry and steps of its commands, so
\* that whatever is proved of the two modules holds of Host.
THEOREM HostImplementsParts == HostSpec => Spec /\ InstallerSpec
<1>1. HostInit => Init /\ InstallerInit
  BY DEF HostInit
<1>2. [HostNext]_<<vars, deskVars>> => [Next]_vars /\ [InstallerNext]_deskVars
  BY DEF HostNext
<1>3. QED
  BY <1>1, <1>2, PTL DEF HostSpec, Spec, InstallerSpec

\* The registry, the files of a backup, the configuration of Codex and the
\* command that runs keep their shape (db.py, maintenance.py, installer.py).
THEOREM HostTyped == HostSpec => []Shape
<1>1. TypeOK /\ InstallerTypeOK => Shape
  BY DEF Shape
<1>2. QED
  BY <1>1, HostImplementsParts, BackupTypeCorrect, InstallerTyped, PTL
================================================================================
