-------------------------------- MODULE Backup ---------------------------------
(***************************************************************************)
(* Backup and restore of a SQLite registry (backup.py), while migrations   *)
(* and writers go on: this module composes both with Migration.            *)
(*                                                                         *)
(* backup_sqlite inventories the database table by table, one SELECT each  *)
(* and no transaction around them, copies it with the online backup (one   *)
(* snapshot), inventories the copy, compares, checks that the referenced   *)
(* blobs are on disk, and writes the manifest.  The archive, its manifest  *)
(* and a restored database are files at paths; two calls may be given the  *)
(* same path.                                                              *)
(*                                                                         *)
(* The content of a table is the number of its rows, and row n of BlobTable*)
(* refers to blob n.  Hashes are equal when what they hash is equal.       *)
(* Reads do not wait for a migrator, as in WAL mode; where they do, there  *)
(* are fewer behaviours.                                                   *)
(***************************************************************************)
EXTENDS Migration

CONSTANTS
  Client, Path, NoOrder, NoFile, Partial,
  Missing,         \* the inventory of a table that is not there
  Authoritative,   \* the tables of AUTHORITATIVE_BACKUP_TABLES
  BlobTable,
  Order,           \* per place and client: [does, from, to]
  MaxOrders,       \* bound on the calls of all clients
  MaxLosses        \* bound on the blobs that somebody else removes

\* Copies of the database, the inventories of some, and manifests.
Copied == [Table -> Nat \cup {Missing}]
Inventoried == [Authoritative -> Nat \cup {Missing}]
Manifest == [tables : Inventoried, sha : Copied \cup {Partial}]

ASSUME BackupAssumption ==
  /\ Authoritative \subseteq Table
  /\ BlobTable \in Authoritative
  /\ NoFile # Partial
  /\ \A x \in {NoFile, Partial} : x \notin Copied \cup Manifest
  /\ Missing \notin Nat
  /\ Order \in [Place -> [Client -> SUBSET [does : {"backup", "restore"},
                                            from : Path, to : Path]]]
  /\ \A d \in Place, c \in Client : NoOrder \notin Order[d][c]
  /\ \A d \in Place, c \in Client : \A o \in Order[d][c] :
       o.does = "backup" <=> o.from = o.to
  /\ MaxOrders \in Nat /\ MaxLosses \in Nat

VARIABLES
  file,       \* database files other than the live one: archives, restored
  manifest,   \* manifests: [tables, blobs, sha]
  lost,       \* blobs that are not on disk any more
  at,         \* where a client is
  order,      \* what it was asked for
  inventory,  \* the inventory that it has taken of its source
  unread,     \* tables that it has still to inventory
  told,       \* what was reported: archive <<to, to>>, restored <<from, to>>
  shared,     \* history: paths that two calls had in use at a time
  begun       \* calls so far

clientVars == <<at, order, inventory, unread>>
backupVars == <<file, manifest, lost, clientVars, told, shared, begun>>
vars == <<migrationVars, backupVars>>

-----------------------------------------------------------------------------
Content(t) == IF t \in schema.tables THEN rows[t] ELSE Missing

\* A copy of the database, and what an inventory says of a copy.
Snapshot == [t \in Table |-> Content(t)]

InventoryOf(copy) ==
  IF copy = Partial THEN [t \in Authoritative |-> Missing]
                    ELSE [t \in Authoritative |-> copy[t]]

BlobsOf(inv) ==
  IF inv[BlobTable] = Missing THEN {} ELSE 1..inv[BlobTable]

Healthy(inv) == BlobsOf(inv) \cap lost = {}

BackupInit ==
  /\ file = [f \in Path |-> NoFile]
  /\ manifest = [f \in Path |-> NoFile]
  /\ lost = {}
  /\ at = [c \in Client |-> "idle"]
  /\ order = [c \in Client |-> NoOrder]
  /\ inventory = [c \in Client |-> InventoryOf(Partial)]
  /\ unread = [c \in Client |-> {}]
  /\ told = {}
  /\ shared = {}
  /\ begun = 0

Move(c, there) == at' = [at EXCEPT ![c] = there]

\* The call is over, or its process is dead.
End(c) ==
  /\ Move(c, "idle")
  /\ order' = [order EXCEPT ![c] = NoOrder]
  /\ inventory' = [inventory EXCEPT ![c] = InventoryOf(Partial)]
  /\ unread' = [unread EXCEPT ![c] = {}]

InUse(f) == \E c \in Client : at[c] # "idle" /\ order[c].to = f

Begins ==
  /\ begun < MaxOrders
  /\ begun' = begun + 1

\* Variant: what exists is not looked for.
BeginBackupAnyway(c, o) ==
  /\ at[c] = "idle"
  /\ Begins
  /\ o.does = "backup"
  /\ order' = [order EXCEPT ![c] = o]
  /\ unread' = [unread EXCEPT ![c] = {t \in Authoritative : t \in schema.tables}]
  /\ inventory' = [inventory EXCEPT ![c] = InventoryOf(Partial)]
  /\ shared' = IF InUse(o.to) THEN shared \cup {o.to} ELSE shared
  /\ Move(c, "inventory")
  /\ UNCHANGED <<file, manifest, lost, told>>

\* Neither the destination nor the manifest may exist.
BeginBackup(c, o) ==
  /\ at[c] = "idle"
  /\ Begins
  /\ o.does = "backup"
  /\ file[o.to] = NoFile /\ manifest[o.to] = NoFile
  /\ order' = [order EXCEPT ![c] = o]
  /\ unread' = [unread EXCEPT ![c] = {t \in Authoritative : t \in schema.tables}]
  /\ inventory' = [inventory EXCEPT ![c] = InventoryOf(Partial)]
  /\ shared' = IF InUse(o.to) THEN shared \cup {o.to} ELSE shared
  /\ Move(c, "inventory")
  /\ UNCHANGED <<file, manifest, lost, told>>

\* sqlite_database_inventory: one table after the other.
Inventory(c, t) ==
  /\ at[c] = "inventory"
  /\ t \in unread[c] \cap schema.tables
  /\ inventory' = [inventory EXCEPT ![c][t] = Content(t)]
  /\ unread' = [unread EXCEPT ![c] = @ \ {t}]
  /\ UNCHANGED <<file, manifest, lost, at, order, told, shared, begun>>

\* The online backup: the whole database at one moment, into whatever file
\* is there.
Copy(c) ==
  /\ at[c] = "inventory"
  /\ unread[c] = {}
  /\ file' = [file EXCEPT ![order[c].to] = Snapshot]
  /\ Move(c, "compare")
  /\ UNCHANGED <<manifest, lost, order, inventory, unread, told, shared,
                 begun>>

\* Variant: the manifest gets the inventory of the source, uncompared.
CompareNothing(c) ==
  /\ at[c] = "compare"
  /\ Move(c, IF file[order[c].to] = NoFile THEN "cleanup" ELSE "manifest")
  /\ UNCHANGED <<file, manifest, lost, order, inventory, unread, told, shared,
                 begun>>

\* The copy must be what was inventoried, and its blobs on disk; from here on
\* both inventories are one.
Compare(c) ==
  /\ at[c] = "compare"
  /\ LET copy == file[order[c].to] IN
       Move(c, IF /\ copy # NoFile
                  /\ InventoryOf(copy) = inventory[c]
                  /\ Healthy(InventoryOf(copy))
               THEN "manifest" ELSE "cleanup")
  /\ UNCHANGED <<file, manifest, lost, order, inventory, unread, told, shared,
                 begun>>

\* The hash of the archive goes into a manifest that must not exist.
WriteManifest(c) ==
  /\ at[c] = "manifest"
  /\ file[order[c].to] # NoFile
  /\ manifest[order[c].to] = NoFile
  /\ manifest' = [manifest EXCEPT ![order[c].to] =
                    [tables |-> inventory[c], sha |-> file[order[c].to]]]
  /\ Move(c, "verify")
  /\ UNCHANGED <<file, lost, order, inventory, unread, told, shared, begun>>

\* verify_sqlite_backup: hash, inventory and blobs, against what m says.
Verified(copy, m) ==
  /\ copy # NoFile /\ m \notin {NoFile, Partial}
  /\ copy = m.sha
  /\ InventoryOf(copy) = m.tables
  /\ Healthy(m.tables)

Report(c) ==
  /\ at[c] = "verify"
  /\ Verified(file[order[c].to], manifest[order[c].to])
  /\ told' = told \cup {<<order[c].from, order[c].to>>}
  /\ End(c)
  /\ UNCHANGED <<file, manifest, lost, shared, begun>>

\* An archive without a manifest is removed, and the exception raised.
Cleanup(c) ==
  /\ at[c] = "cleanup"
  /\ file' = IF order[c].does = "restore" \/ manifest[order[c].to] = NoFile
               THEN [file EXCEPT ![order[c].to] = NoFile] ELSE file
  /\ End(c)
  /\ UNCHANGED <<manifest, lost, told, shared, begun>>

-----------------------------------------------------------------------------
\* A restore loads the manifest, and verifies the archive if it is asked to.
BeginRestore(c, o, verify) ==
  /\ at[c] = "idle"
  /\ Begins
  /\ o.does = "restore"
  /\ file[o.to] = NoFile
  /\ manifest[o.from] \notin {NoFile, Partial}
  /\ verify => Verified(file[o.from], manifest[o.from])
  /\ order' = [order EXCEPT ![c] = o]
  /\ inventory' = [inventory EXCEPT ![c] = manifest[o.from].tables]
  /\ shared' = IF InUse(o.to) THEN shared \cup {o.to} ELSE shared
  /\ Move(c, "restore")
  /\ UNCHANGED <<file, manifest, lost, unread, told>>

Restore(c) ==
  /\ at[c] = "restore"
  /\ file[order[c].from] # NoFile
  /\ file' = [file EXCEPT ![order[c].to] = file[order[c].from]]
  /\ Move(c, "restored")
  /\ UNCHANGED <<manifest, lost, order, inventory, unread, told, shared,
                 begun>>

\* What was restored must be what the manifest says.
ReportRestored(c) ==
  /\ at[c] = "restored"
  /\ file[order[c].to] # NoFile
  /\ InventoryOf(file[order[c].to]) = inventory[c]
  /\ told' = told \cup {<<order[c].from, order[c].to>>}
  /\ End(c)
  /\ UNCHANGED <<file, manifest, lost, shared, begun>>

-----------------------------------------------------------------------------
\* An error at any point, and every comparison that fails.
BackupFails(c) ==
  /\ at[c] \in {"inventory", "compare", "manifest", "verify", "restore",
                "restored"}
  /\ Move(c, "cleanup")
  /\ UNCHANGED <<file, manifest, lost, order, inventory, unread, told, shared,
                 begun>>

\* A file that is being written stays as it is: an empty database, or a
\* manifest that is no JSON.
BackupDies(c) ==
  /\ at[c] # "idle"
  /\ End(c)
  /\ \/ UNCHANGED <<file, manifest>>
     \/ /\ at[c] \in {"inventory", "restore"}
        /\ file[order[c].to] = NoFile
        /\ file' = [file EXCEPT ![order[c].to] = Partial]
        /\ UNCHANGED manifest
     \/ /\ at[c] = "manifest"
        /\ manifest[order[c].to] = NoFile
        /\ manifest' = [manifest EXCEPT ![order[c].to] = Partial]
        /\ UNCHANGED file
  /\ UNCHANGED <<lost, told, shared, begun>>

\* Somebody removes a blob of the live registry.
LoseBlob(n) ==
  /\ Cardinality(lost) < MaxLosses
  /\ n \notin lost
  /\ lost' = lost \cup {n}
  /\ UNCHANGED <<file, manifest, clientVars, told, shared, begun>>

BackupNext ==
  \/ \E c \in Client :
       \/ \E o \in Order[place][c] :
            \/ BeginBackup(c, o)
            \/ \E verify \in BOOLEAN : BeginRestore(c, o, verify)
       \/ \E t \in Authoritative : Inventory(c, t)
       \/ Copy(c) \/ Compare(c) \/ WriteManifest(c) \/ Report(c) \/ Cleanup(c)
       \/ Restore(c) \/ ReportRestored(c)
       \/ BackupFails(c) \/ BackupDies(c)
  \/ Content(BlobTable) # Missing /\ \E n \in 1..Content(BlobTable) : LoseBlob(n)

Init == MigrationInit /\ BackupInit

Next ==
  \/ MigrationNext /\ UNCHANGED backupVars
  \/ BackupNext /\ UNCHANGED migrationVars

Spec == Init /\ [][Next]_vars
-----------------------------------------------------------------------------
(***************************************************************************)
(* Properties                                                              *)
(***************************************************************************)

\* The manifest at f belongs to the archive at f.
Described(f) ==
  /\ manifest[f] \notin {NoFile, Partial}
  /\ file[f] = manifest[f].sha
  /\ InventoryOf(file[f]) = manifest[f].tables

\* The shape of every reachable state of the database and of the files.
TypeOK ==
  /\ MigrationTypeOK
  /\ DOMAIN file = Path /\ DOMAIN manifest = Path
  /\ told \subseteq Path \X Path /\ shared \subseteq Path
  /\ \A c \in Client :
       /\ at[c] \in {"idle", "inventory", "compare", "manifest", "verify",
                     "cleanup", "restore", "restored"}
       /\ at[c] # "idle" => order[c] \in Order[place][c]
       /\ unread[c] \subseteq Authoritative
       /\ DOMAIN inventory[c] = Authoritative

\* What was reported is there for ever, an archive with the manifest that
\* describes it, whatever later calls with the same destination do: they
\* refuse, or fail and clean up after themselves only ("without overwriting
\* files", backup.py:65).  A database that was reported as restored has the
\* tables that the manifest of its archive names, also when the archive was not
\* verified: an empty file passes for one if the manifest names no tables.  The
\* exception are calls that overlap: both may find the destination free.
ReportedIsKept ==
  \A r \in told : r[2] \notin shared =>
    /\ file[r[2]] # NoFile
    /\ IF r[1] = r[2]
         THEN Described(r[2]) /\ file[r[2]] # Partial
         ELSE /\ manifest[r[1]] \notin {NoFile, Partial}
              /\ InventoryOf(file[r[2]]) = manifest[r[1]].tables

\* A manifest describes one state of the registry, not tables from several:
\* a backup whose inventory was overtaken by a writer, or by a migration that
\* added tables, leaves no manifest.  It need not have been reported, a backup
\* may die before it verifies what it wrote.
ManifestIsOneState ==
  \A f \in Path \ shared :
    manifest[f] \notin {NoFile, Partial} => Described(f)
===============================================================================
