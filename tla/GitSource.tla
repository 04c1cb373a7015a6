------------------------------- MODULE GitSource -------------------------------
(***************************************************************************)
(* Capturing a file of a Git repository (GitSourceIngestor and             *)
(* _GitObjectReader, ingestion/git.py; the git_blob branch of              *)
(* _capture_source, application/refresh.py) while Git goes on in it.       *)
(*                                                                         *)
(* The reader takes no lock of Git's.  It reads the branch, then one       *)
(* object after the other - a file of its own, or in a pack - and if there *)
(* is no regular file at the path of the previous version, it looks        *)
(* through the whole commit for the blob of that version.  What Git does   *)
(* meanwhile is modelled from how Git orders its writes: a commit writes   *)
(* its objects before the branch, pack-refs the packed branch before it    *)
(* deletes the loose one, a repack the new pack before it deletes the      *)
(* index and then the data of the old one, and the loose objects.          *)
(*                                                                         *)
(* An object is its id.  How packs encode it (deltas, offsets) and the     *)
(* limits on sizes are left out: the reader may give up at any step.       *)
(***************************************************************************)
EXTENDS Naturals, Sequences, FiniteSets

CONSTANTS
  Object,       \* id -> [kind, tree] or [kind, at: name -> [mode, oid]]
  Elsewhere,    \* objects that Git has in an alternate, or left out of a clone
  FirstCommit, FirstPath,
  NoCommit, NoPack,
  MaxCommits, MaxPacks, MaxReads      \* bounds

OidsOf(kind) == {o \in DOMAIN Object : Object[o].kind = kind}
Commit == OidsOf("commit")

\* Trees are at most three deep.
Entries(t) == {Object[t].at[name] : name \in DOMAIN Object[t].at}
Below(trees) ==
  {e.oid : e \in {d \in UNION {Entries(t) : t \in trees} : d.mode = "tree"}}
TreesAt(c, depth) ==
  LET root == {Object[c].tree} IN
  IF depth = 0 THEN root
  ELSE IF depth = 1 THEN Below(root)
  ELSE Below(Below(root))

ASSUME GitAssumption ==
  /\ FirstCommit \in Commit
  /\ Elsewhere \subseteq DOMAIN Object
  /\ NoCommit \notin Commit /\ NoPack \notin Nat
  /\ \A o \in DOMAIN Object : Object[o].kind \in {"commit", "tree", "blob"}
  /\ \A c \in Commit :
       Object[c].tree \in OidsOf("tree") /\ Below(TreesAt(c, 2)) = {}
  /\ \A t \in OidsOf("tree") :
       /\ IsFiniteSet(DOMAIN Object[t].at)
       /\ \A e \in Entries(t) :
            \/ e.mode = "tree" /\ e.oid \in OidsOf("tree")
            \/ e.mode \in {"file", "link"} /\ e.oid \in OidsOf("blob")
  /\ {MaxCommits, MaxPacks, MaxReads} \subseteq Nat /\ MaxPacks > 0

VARIABLES
  branch,       \* [loose, packed]: the file of the branch, its line in packed-refs
  loose,        \* objects with a file of their own
  packs,        \* sequence of packs: [index, data, holds]
  commits,      \* how often the branch was moved
  fileVersions, \* source_versions: [commit, path, blob]
  capture,      \* the capture that runs
  reads,        \* captures begun
  answer,       \* what the latest one came to
  heads,        \* history: where the branch was since it began
  vanished      \* history: a file was gone between the look at it and its read

gitVars == <<branch, loose, packs, commits>>
captureVars == <<fileVersions, capture, reads, answer, heads, vanished>>
gitSourceVars == <<gitVars, captureVars>>

---------------------------------------------------------------------------
(* Git *)

Tip == IF branch.loose # NoCommit THEN branch.loose ELSE branch.packed
Packed == UNION {packs[n].holds : n \in {m \in DOMAIN packs : packs[m].index}}

\* Whatever a commit needs.
Reachable(c) ==
  LET trees == TreesAt(c, 0) \cup TreesAt(c, 1) \cup TreesAt(c, 2)
  IN {c} \cup trees \cup UNION {{e.oid : e \in Entries(t)} : t \in trees}

Stored(c) == Reachable(c) \ Elsewhere

MoveBranch(c) ==
  /\ c # Tip /\ commits < MaxCommits
  /\ loose' = loose \cup (Stored(c) \ Packed)
  /\ branch' = [branch EXCEPT !.loose = c]
  /\ commits' = commits + 1
  /\ heads' = heads \cup {c}
  /\ UNCHANGED <<packs, fileVersions, capture, reads, answer, vanished>>

PackBranch ==
  /\ branch.loose \notin {NoCommit, branch.packed}
  /\ branch' = [branch EXCEPT !.packed = branch.loose]
  /\ UNCHANGED <<loose, packs, commits, captureVars>>

DropLooseBranch ==
  /\ branch.loose # NoCommit /\ branch.loose = branch.packed
  /\ branch' = [branch EXCEPT !.loose = NoCommit]
  /\ UNCHANGED <<loose, packs, commits, captureVars>>

Repack ==
  /\ Len(packs) < MaxPacks
  /\ packs' = Append(packs, [index |-> TRUE, data |-> TRUE,
                             holds |-> loose \cup Packed])
  /\ UNCHANGED <<branch, loose, commits, captureVars>>

\* Of the packs before the latest.
DropIndex(n) ==
  /\ n < Len(packs) /\ packs[n].index
  /\ packs' = [packs EXCEPT ![n].index = FALSE]
  /\ UNCHANGED <<branch, loose, commits, captureVars>>
DropData(n) ==
  /\ n < Len(packs) /\ ~packs[n].index /\ packs[n].data
  /\ packs' = [packs EXCEPT ![n].data = FALSE]
  /\ UNCHANGED <<branch, loose, commits, captureVars>>

\* One after the other, but a reader looks at one object at a time.
PruneLoose ==
  /\ loose \cap Packed # {}
  /\ loose' = loose \ Packed
  /\ UNCHANGED <<branch, packs, commits, captureVars>>

---------------------------------------------------------------------------
(* The reader.  capture.at is where it is: at a file (branch, packed refs, *)
(* loose, index, data), between them (look, list), or at a conclusion      *)
(* (absent, decide, store); capture.doing is which of the three walks it   *)
(* does: "resolve" the path, "search" the blob, resolve "again".           *)

Idle == [at |-> "idle", doing |-> "resolve", commit |-> NoCommit, oid |-> NoCommit,
         path |-> <<>>, rest |-> <<>>, mode |-> "tree", dir |-> <<>>,
         pending |-> {}, found |-> {}, left |-> {}, pack |-> NoPack]

Previous == fileVersions[Len(fileVersions)]
NoAnswer == [outcome |-> "none"]
Answered(outcome) ==
  [outcome |-> outcome, commit |-> capture.commit, path |-> capture.path,
   blob |-> capture.oid, from |-> Previous.path, old |-> Previous.blob]

At(there) == capture' = [capture EXCEPT !.at = there]
QuietGit == UNCHANGED <<gitVars, fileVersions, reads, answer, heads>>
Ends(outcome) ==
  /\ capture' = Idle
  /\ answer' = Answered(outcome)
  /\ UNCHANGED <<gitVars, fileVersions, reads, heads>>

BeginCapture ==
  /\ capture.at = "idle" /\ reads < MaxReads
  /\ capture' = [Idle EXCEPT !.at = "branch"]
  /\ reads' = reads + 1
  /\ answer' = NoAnswer
  /\ heads' = {Tip}
  /\ vanished' = FALSE
  /\ UNCHANGED <<gitVars, fileVersions>>

\* A variant: packed-refs before the file of the branch.
LookPackedFirst ==
  /\ capture.at = "branch"
  /\ At(IF branch.packed # NoCommit THEN "packed_refs" ELSE "loose_branch")
  /\ QuietGit /\ UNCHANGED vanished

\* current_commit.
LookBranch ==
  /\ capture.at = "branch"
  /\ At(IF branch.loose # NoCommit THEN "loose_branch" ELSE "packed_refs")
  /\ QuietGit /\ UNCHANGED vanished

Resolving(doing, c, path) ==
  [capture EXCEPT !.at = "look", !.doing = doing, !.commit = c, !.oid = c,
                  !.path = path, !.rest = path]

ReadBranch ==
  LET c == IF capture.at = "loose_branch" THEN branch.loose ELSE branch.packed IN
  /\ capture.at \in {"loose_branch", "packed_refs"}
  /\ IF c # NoCommit
       THEN /\ capture' = Resolving("resolve", c, Previous.path)
            /\ QuietGit /\ UNCHANGED vanished
       ELSE Ends("not_found") /\ vanished' = TRUE

\* _GitObjectReader.read.
LookLoose ==
  /\ capture.at = "look"
  /\ At(IF capture.oid \in loose THEN "loose" ELSE "list")
  /\ QuietGit /\ UNCHANGED vanished

Vanishes ==
  /\ capture' = [capture EXCEPT !.at = "absent", !.pack = NoPack, !.left = {}]
  /\ vanished' = TRUE
  /\ QuietGit

Then(c) == capture' = c /\ QuietGit /\ UNCHANGED vanished

---------------------------------------------------------------------------
(* What it does with an object that it has read: resolve_blob and          *)
(* find_blob_paths.                                                        *)

Fetch(o) == [capture EXCEPT !.at = "look", !.oid = o]
AbsentHere == [capture EXCEPT !.at = "absent"]

Descend ==
  LET at == Object[capture.oid].at
      name == Head(capture.rest)
      last == Len(capture.rest) = 1
  IN IF \/ name \notin DOMAIN at
        \/ ~last /\ at[name].mode # "tree"
        \/ last /\ at[name].mode = "link"
       THEN AbsentHere
       ELSE [Fetch(at[name].oid) EXCEPT !.rest = Tail(capture.rest),
                                        !.mode = at[name].mode]

Conclude ==
  IF Object[capture.oid].kind = "blob" /\ capture.mode = "file"
    THEN [capture EXCEPT !.at = "store"] ELSE AbsentHere

\* Pending trees are taken in any order.
Visited(pending, found) ==
  IF pending = {} THEN [capture EXCEPT !.at = "decide", !.found = found]
  ELSE LET d == CHOOSE d \in pending : TRUE IN
       [Fetch(d[2]) EXCEPT !.dir = d[1], !.pending = pending \ {d},
                           !.found = found]

Scan ==
  LET at == Object[capture.oid].at
      Under(mode) == {name \in DOMAIN at : at[name].mode = mode}
      Here(name) == Append(capture.dir, name)
  IN Visited(capture.pending
               \cup {<<Here(name), at[name].oid>> : name \in Under("tree")},
             capture.found
               \cup {Here(name) : name \in {n \in Under("file") :
                                             at[n].oid = Previous.blob}})

Interpreted ==
  LET object == Object[capture.oid] IN
  CASE object.kind = "commit" ->
         [Fetch(object.tree) EXCEPT !.dir = <<>>, !.pending = {}, !.found = {}]
    [] object.kind # "commit" /\ capture.doing = "search" -> Scan
    [] object.kind # "commit" /\ capture.doing # "search" ->
         IF capture.rest = <<>> THEN Conclude ELSE Descend

---------------------------------------------------------------------------
(* Its files. *)

ReadLoose ==
  /\ capture.at = "loose"
  /\ IF capture.oid \in loose THEN Then(Interpreted) ELSE Vanishes

\* The listing of the pack directory, in the order of its names.
Indexed == {n \in DOMAIN packs : packs[n].index}

ListPacks ==
  /\ capture.at = "list"
  /\ Then([capture EXCEPT !.at = "index", !.left = Indexed])

ReadIndex(n) ==
  /\ capture.at = "index" /\ n \in capture.left
  /\ IF ~packs[n].index THEN Vanishes
     ELSE IF capture.oid \in packs[n].holds
       THEN Then([capture EXCEPT !.at = "pack", !.pack = n, !.left = {}])
       ELSE Then([capture EXCEPT !.left = @ \ {n}])

NotPacked ==
  /\ capture.at = "index" /\ capture.left = {}
  /\ Then(AbsentHere)

LookPack ==
  /\ capture.at = "pack"
  /\ IF packs[capture.pack].data
       THEN Then([capture EXCEPT !.at = "data"])
       ELSE Ends("invalid") /\ vanished' = TRUE

ReadData ==
  /\ capture.at = "data"
  /\ IF packs[capture.pack].data
       THEN Then([Interpreted EXCEPT !.pack = NoPack]) ELSE Vanishes

---------------------------------------------------------------------------
(* The capture (_capture_source). *)

\* except GitObjectNotFound: once.
Relocate ==
  /\ capture.at = "absent" /\ capture.doing = "resolve"
  /\ Then(Resolving("search", capture.commit, capture.path))

NotFound ==
  /\ capture.at = "absent" /\ capture.doing # "resolve"
  /\ Ends("not_found") /\ UNCHANGED vanished

DecideRelocated ==
  /\ capture.at = "decide"
  /\ IF Cardinality(capture.found) = 1
       THEN Then(Resolving("again", capture.commit,
                          CHOOSE p \in capture.found : TRUE))
       ELSE /\ Ends(IF capture.found = {} THEN "missing" ELSE "ambiguous")
            /\ UNCHANGED vanished

\* create_or_reuse under the key git:<commit>:<blob>.
StoreVersion ==
  /\ capture.at = "store"
  /\ fileVersions' =
       IF \E i \in DOMAIN fileVersions : /\ fileVersions[i].commit = capture.commit
                                      /\ fileVersions[i].blob = capture.oid
         THEN fileVersions
         ELSE Append(fileVersions, [commit |-> capture.commit, path |-> capture.path,
                                 blob |-> capture.oid])
  /\ capture' = Idle
  /\ answer' = Answered("captured")
  /\ UNCHANGED <<gitVars, reads, heads, vanished>>

\* A limit is exceeded, or an object is damaged.
GiveUp ==
  /\ capture.at \notin {"idle", "absent", "decide"}
  /\ Ends("given_up") /\ UNCHANGED vanished

---------------------------------------------------------------------------
\* The regular files of a commit, with their blobs: those of a tree, given what
\* is under the trees in it.
FilesIn(t, under) ==
  LET at == Object[t].at
      Names(mode) == {name \in DOMAIN at : at[name].mode = mode}
  IN {<<<<name>>, at[name].oid>> : name \in Names("file")}
       \cup (UNION {{<<<<d>> \o file[1], file[2]>> : file \in under[at[d].oid]} :
                      d \in Names("tree")})
Within(under) == [t \in OidsOf("tree") |-> FilesIn(t, under)]
NoFiles == [t \in OidsOf("tree") |-> {}]
InOne == Within(NoFiles)
InTwo == Within(InOne)
InThree == Within(InTwo)
FilesOf(c) == InThree[Object[c].tree]

\* As git clone leaves it.
GitInit ==
  /\ branch = [loose |-> NoCommit, packed |-> FirstCommit]
  /\ loose = {}
  /\ packs = <<[index |-> TRUE, data |-> TRUE, holds |-> Stored(FirstCommit)]>>
  /\ commits = 0
  /\ \E file \in {f \in FilesOf(FirstCommit) : f[1] = FirstPath} :
       fileVersions = <<[commit |-> FirstCommit, path |-> FirstPath,
                         blob |-> file[2]]>>
  /\ capture = Idle
  /\ reads = 0
  /\ answer = NoAnswer
  /\ heads = {FirstCommit}
  /\ vanished = FALSE

Git ==
  \/ \E c \in Commit : MoveBranch(c)
  \/ PackBranch \/ DropLooseBranch
  \/ Repack \/ PruneLoose
  \/ \E n \in DOMAIN packs : DropIndex(n) \/ DropData(n)

ReadObject ==
  \/ LookLoose \/ ReadLoose \/ ListPacks
  \/ \E n \in DOMAIN packs : ReadIndex(n)
  \/ NotPacked \/ LookPack \/ ReadData

CaptureFile ==
  \/ BeginCapture \/ LookBranch \/ ReadBranch
  \/ Relocate \/ NotFound \/ DecideRelocated \/ StoreVersion \/ GiveUp

GitNext == Git \/ ReadObject \/ CaptureFile
GitSpec == GitInit /\ [][GitNext]_gitSourceVars

GitTypeOK ==
  /\ branch \in [loose : Commit \cup {NoCommit}, packed : Commit \cup {NoCommit}]
  /\ Tip # NoCommit
  /\ loose \subseteq DOMAIN Object
  /\ Len(packs) <= MaxPacks
  /\ Stored(Tip) \subseteq loose \cup Packed
  /\ capture.oid \in DOMAIN Object \cup {NoCommit}
  /\ capture.at \in {"pack", "data"} <=> capture.pack # NoPack
  /\ capture.doing = "search" \/ capture.pending = {}

---------------------------------------------------------------------------
(* Properties. *)

IsFile(c, path) == \E f \in FilesOf(c) : f[1] = path
PathsOf(c, blob) == {f[1] : f \in {g \in FilesOf(c) : g[2] = blob}}

\* What a capture concludes is true of a commit that the branch was at while it
\* ran, whatever Git packs, repacks and prunes meanwhile: the version is the
\* file at its path; a source has moved, is missing or is in several places
\* only if there is no file at its path; and no object is taken for absent that
\* is there.  But a file of Git's that is deleted between the look at it and
\* its read counts as absent, and so does an object of an alternate.
CaptureIsTrue ==
  LET c == answer.commit
      partial == vanished \/ Reachable(c) \cap Elsewhere # {}
      moved == ~IsFile(c, answer.from) \/ partial
      places == PathsOf(c, answer.old)
  IN
  /\ answer.outcome \in {"captured", "missing", "ambiguous"} => c \in heads
  /\ answer.outcome = "captured" =>
       /\ <<answer.path, answer.blob>> \in FilesOf(c)
       /\ answer.path # answer.from =>
            moved /\ answer.blob = answer.old /\ places = {answer.path}
  /\ answer.outcome = "missing" => moved /\ places = {}
  /\ answer.outcome = "ambiguous" => moved /\ Cardinality(places) > 1
  /\ answer.outcome = "invalid" => vanished
  /\ answer.outcome = "not_found" => partial
================================================================================
