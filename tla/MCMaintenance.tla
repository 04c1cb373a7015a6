----------------------------- MODULE MCMaintenance -----------------------------
(***************************************************************************)
(* Instances of Backup and Migration.  Migration 1 stands for the flat     *)
(* ones, 2 to 5 for later bundles, of which 4 is not transactional;        *)
(* builds package two and more, and one disagrees on the second.  The      *)
(* places are the databases that migrators meet - none, embedded schemas   *)
(* of versions 1, 3 and 4 without a ledger, tables that nothing explains,  *)
(* registries with the first one and two migrations - and two that are     *)
(* backed up.                                                              *)
(***************************************************************************)
EXTENDS Backup, TLC

CONSTANTS p1, p2, c1, c2, f, g

Tables == {"runs", "claims", "keys", "versions", "stream"}

CreatedBy == <<{"claims", "keys"}, {"versions"}, {"stream"}, {}, {}>>

Older == <<"a", "b">>
Newer == <<"a", "b", "c">>
Newest == <<"a", "b", "c", "d", "e">>
Other == <<"a", "x">>
Builds == {Older, Newer, Newest, Other}

Do(build, target, dry) == [build |-> build, target |-> target, dry |-> dry]

Mine == {Do(Newer, 3, FALSE), Do(Newest, 5, TRUE)}
Theirs ==
  {Do(Older, 2, FALSE), Do(Other, 2, FALSE), Do(Newer, 1, FALSE),
   Do(Newest, 5, FALSE)}
Calls == Mine \cup Theirs

Found(tables, meta, ledger) ==
  [tables |-> tables, meta |-> meta, ledger |-> ledger]

Nothing == Found({}, Absent, {})
First == Found({"runs"}, 1, {})
FirstMixed == Found({"runs", "claims"}, 1, {})
Third == Found({"claims"}, 3, {})
Fourth == Found({"claims", "keys"}, 4, {})
Unknown == Found({"claims"}, Absent, {})
V1 == Found({"claims", "keys"}, 4, {<<1, "a">>})
V2 == Found({"claims", "keys", "versions"}, Absent, {<<1, "a">>, <<2, "b">>})
Origins == {Nothing, First, FirstMixed, Third, Fourth, Unknown, V1, V2}

At(backend, origin, first, second, writes) ==
  [backend |-> backend, origin |-> origin, writes |-> writes,
   calls |-> (p1 :> first @@ p2 :> second)]

Migrating ==
  {At(b, o, Mine, Theirs, 1) :
     b \in {"sqlite", "postgres"}, o \in Origins}

Still == At("sqlite", V2, {}, {}, 2)
Upgraded == At("sqlite", V1, {Do(Newer, 3, FALSE)}, {}, 1)
BackedUp == {Still, Upgraded}

AtDesk == At("sqlite", Nothing, {}, {}, 0)   \* see MCHost

Archive == [does |-> "backup", from |-> f, to |-> f]
RestoreIt == [does |-> "restore", from |-> f, to |-> g]

Orders ==
  [d \in Migrating \cup BackedUp \cup {AtDesk} |->
     CASE d = Still -> c1 :> {Archive, RestoreIt} @@ c2 :> {Archive}
       [] d = Upgraded -> c1 :> {Archive} @@ c2 :> {}
       [] OTHER -> [c \in {c1, c2} |-> {}]]

Places == Migrating \cup BackedUp \cup {AtDesk}

\* A dry run of a database with the first embedded schema.
DryPlaces == {At("sqlite", FirstMixed, {Do(Newest, 5, TRUE)}, {}, 0)}
NoOrders == [d \in DryPlaces |-> [c \in {c1, c2} |-> {}]]
================================================================================
