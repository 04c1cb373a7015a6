----------------------------- MODULE CatalogProofs -----------------------------
(***************************************************************************)
(* Proofs about GitSource: what a capture concludes of a repository is     *)
(* true, for every repository whose trees are at most three deep           *)
(* (GitAssumption), any number of packs and commits and every order of     *)
(* Git's writes and the reader's looks.  And about Catalog, of which it is *)
(* one part: what is proved of each part holds of the whole.               *)
(***************************************************************************)
EXTENDS Catalog, RefreshProofs, LibraryProofs, FunctionTheorems

Trees == OidsOf("tree")
EntryName == UNION {DOMAIN Object[t].at : t \in Trees}
Paths == {p \in Seq(EntryName) : Len(p) \in 1..3}

\* The files of a tree that lies that deep.
FilesAt(depth) ==
  IF depth = 0 THEN InThree ELSE IF depth = 1 THEN InTwo
  ELSE IF depth = 2 THEN InOne ELSE NoFiles

\* Where a blob is below a directory.
Placed(dir, t, blob) ==
  {dir \o f[1] : f \in {g \in FilesAt(Len(dir))[t] : g[2] = blob}}

---------------------------------------------------------------------------
(* The objects.  The latest pack has all that the others have, so what Git *)
(* stored once is in a file of its own or in that pack.                    *)

Pack == [index : BOOLEAN, data : BOOLEAN, holds : SUBSET DOMAIN Object]
LastPack == packs[Len(packs)]

StoreOK ==
  /\ packs \in Seq(Pack) /\ Len(packs) > 0
  /\ LastPack.index
  /\ \A n \in Indexed : packs[n].holds \subseteq LastPack.holds
  /\ loose \subseteq DOMAIN Object
  /\ \A c \in heads : Stored(c) \subseteq loose \cup LastPack.holds

\* The branch was at everything that a reader may take it to be at.
HeadsOK ==
  /\ branch \in [loose : Commit \cup {NoCommit}, packed : Commit]
  /\ heads \subseteq Commit
  /\ Tip \in heads
  /\ capture.at = "packed_refs" => branch.packed \in heads

---------------------------------------------------------------------------
(* The reader. *)

VersionShape == [commit : Commit, path : Paths, blob : DOMAIN Object]
AtObject == {"look", "loose", "list", "index", "pack", "data"}
AtBranch == {"branch", "loose_branch", "packed_refs"}
Concluding == {"absent", "decide", "store"}

ReaderOK ==
  /\ fileVersions \in Seq(VersionShape) /\ Len(fileVersions) > 0
  /\ vanished \in BOOLEAN
  /\ capture.at \in {"idle"} \cup AtBranch \cup AtObject \cup Concluding
  /\ capture = [at |-> capture.at, doing |-> capture.doing,
                commit |-> capture.commit, oid |-> capture.oid,
                path |-> capture.path, rest |-> capture.rest,
                mode |-> capture.mode, dir |-> capture.dir,
                pending |-> capture.pending, found |-> capture.found,
                left |-> capture.left, pack |-> capture.pack]
  /\ capture.at # "idle" => answer = NoAnswer

Partial(c) == vanished \/ Reachable(c) \cap Elsewhere # {}

\* What it looks for, and why.
PurposeOK ==
  capture.at \in AtObject \cup Concluding =>
    /\ capture.commit \in heads
    /\ capture.path \in Paths
    /\ capture.doing \in {"resolve", "search", "again"}
    /\ capture.doing # "again" => capture.path = Previous.path
    /\ capture.doing # "resolve" =>
         ~IsFile(capture.commit, Previous.path) \/ Partial(capture.commit)
    /\ capture.doing = "again" =>
         PathsOf(capture.commit, Previous.blob) = {capture.path}

\* The object is one that the commit needs, and as long as it is not found it is
\* in a pack whose index is yet to be read.
LookOK ==
  /\ capture.at \in AtObject => capture.oid \in Reachable(capture.commit)
  /\ capture.at = "list" /\ capture.oid \in Stored(capture.commit) =>
       capture.oid \in LastPack.holds
  /\ capture.at = "index" =>
       /\ capture.left \subseteq DOMAIN packs
       /\ capture.oid \in Stored(capture.commit) =>
            \E n \in capture.left : capture.oid \in packs[n].holds
  /\ capture.at \in {"pack", "data"} => capture.pack \in DOMAIN packs

\* Resolving: the files at the path are those at the rest of it below here.
Depth == Len(capture.path) - Len(capture.rest)

ResolveOK ==
  capture.at \in AtObject /\ capture.doing # "search" =>
    IF capture.oid = capture.commit THEN capture.rest = capture.path
    ELSE /\ capture.rest \in Seq(EntryName)
         /\ Depth \in 0..3
         /\ capture.rest # <<>> =>
              /\ capture.oid \in TreesAt(capture.commit, Depth) /\ Depth <= 2
              /\ \A b : <<capture.path, b>> \in FilesOf(capture.commit)
                          <=> <<capture.rest, b>> \in FilesAt(Depth)[capture.oid]
         /\ capture.rest = <<>> =>
              \A b : <<capture.path, b>> \in FilesOf(capture.commit)
                       <=> capture.mode = "file" /\ b = capture.oid

\* Searching: the blob is where it was found, or below a directory that is
\* still to be looked at.
Directories(c) ==
  {d \in Seq(EntryName) \X Trees : Len(d[1]) \in 0..2 /\ d[2] \in TreesAt(c, Len(d[1]))}

SearchOK ==
  /\ capture.at \in AtObject /\ capture.doing = "search"
  /\ capture.oid # capture.commit
  => /\ <<capture.dir, capture.oid>> \in Directories(capture.commit)
     /\ capture.pending \subseteq Directories(capture.commit)
     /\ IsFiniteSet(capture.found)
     /\ PathsOf(capture.commit, Previous.blob) =
          capture.found \cup Placed(capture.dir, capture.oid, Previous.blob)
            \cup (UNION {Placed(d[1], d[2], Previous.blob) : d \in capture.pending})

\* What it has concluded of the object.
ConclusionOK ==
  /\ capture.at = "absent" /\ capture.doing = "resolve" =>
       ~IsFile(capture.commit, Previous.path) \/ Partial(capture.commit)
  /\ capture.at = "absent" /\ capture.doing # "resolve" => Partial(capture.commit)
  /\ capture.at = "decide" =>
       /\ capture.doing = "search"
       /\ IsFiniteSet(capture.found)
       /\ capture.found = PathsOf(capture.commit, Previous.blob)
  /\ capture.at = "store" =>
       /\ capture.doing # "search"
       /\ \A b : <<capture.path, b>> \in FilesOf(capture.commit) <=> b = capture.oid

GitInv ==
  StoreOK /\ HeadsOK /\ ReaderOK /\ PurposeOK /\ LookOK /\ ResolveOK /\ SearchOK
    /\ ConclusionOK /\ CaptureIsTrue
---------------------------------------------------------------------------
(* Commits, trees and files. *)

LEMMA OneEntry ==
  ASSUME NEW t \in Trees, NEW n \in DOMAIN Object[t].at
  PROVE  LET e == Object[t].at[n] IN
         /\ e \in Entries(t)
         /\ \/ e.mode = "tree" /\ e.oid \in Trees
            \/ e.mode \in {"file", "link"} /\ e.oid \in OidsOf("blob")
         /\ e.mode = "tree" <=> e.oid \in Trees
<1>1. Object[t].at[n] \in Entries(t)
  BY DEF Entries
<1>2. QED
  BY <1>1, GitAssumption DEF Trees, OidsOf

LEMMA TreesOfCommit ==
  ASSUME NEW c \in Commit, NEW k \in 0..2
  PROVE  TreesAt(c, k) \subseteq Trees
<1>1. \A ts \in SUBSET Trees : Below(ts) \subseteq Trees
  <2> SUFFICES ASSUME NEW ts \in SUBSET Trees, NEW o \in Below(ts)
               PROVE  o \in Trees
    OBVIOUS
  <2>1. PICK t \in ts : \E e \in Entries(t) : e.mode = "tree" /\ o = e.oid
    BY DEF Below
  <2>2. PICK n \in DOMAIN Object[t].at : Object[t].at[n].mode = "tree" /\ o = Object[t].at[n].oid
    BY <2>1 DEF Entries
  <2>3. QED
    BY <2>2, OneEntry
<1>2. {Object[c].tree} \subseteq Trees
  BY GitAssumption DEF Trees
<1>3. QED
  BY <1>1, <1>2 DEF TreesAt

LEMMA EntryOfCommit ==
  ASSUME NEW c \in Commit, NEW k \in 0..2, NEW t \in TreesAt(c, k),
         NEW n \in DOMAIN Object[t].at
  PROVE  /\ t \in Reachable(c)
         /\ Object[t].at[n].oid \in Reachable(c)
         /\ Object[t].at[n].mode = "tree" => k <= 1 /\ Object[t].at[n].oid \in TreesAt(c, k + 1)
<1> DEFINE e == Object[t].at[n]
<1>1. e \in Entries(t)
  BY DEF Entries
<1>2. e.mode = "tree" => e.oid \in Below(TreesAt(c, k))
  BY <1>1 DEF Below
<1>3. Below(TreesAt(c, 2)) = {}
  BY GitAssumption
<1>4. k <= 1 => TreesAt(c, k + 1) = Below(TreesAt(c, k))
  BY DEF TreesAt
<1>5. k <= 1 \/ k = 2
  OBVIOUS
<1>6. e.mode = "tree" => k <= 1 /\ e.oid \in TreesAt(c, k + 1)
  BY <1>2, <1>3, <1>4, <1>5
<1>7. t \in TreesAt(c, 0) \cup TreesAt(c, 1) \cup TreesAt(c, 2)
  OBVIOUS
<1>8. t \in Reachable(c) /\ e.oid \in Reachable(c)
  BY <1>1, <1>7 DEF Reachable
<1>9. QED
  BY <1>6, <1>8

LEMMA ReachableTyped ==
  ASSUME NEW c \in Commit
  PROVE  /\ Reachable(c) \subseteq DOMAIN Object
         /\ c \in Reachable(c)
         /\ Object[c].tree \in TreesAt(c, 0)
         /\ Object[c].tree \in Reachable(c)
<1>1. \A t \in TreesAt(c, 0) \cup TreesAt(c, 1) \cup TreesAt(c, 2) : t \in Trees
  BY TreesOfCommit
<1>2. ASSUME NEW t \in Trees, NEW e \in Entries(t)
      PROVE  e.oid \in DOMAIN Object
  BY <1>2, GitAssumption DEF Trees, OidsOf
<1>3. Reachable(c) \subseteq DOMAIN Object
  BY <1>1, <1>2 DEF Reachable, Trees, OidsOf, Commit
<1>4. c \in Reachable(c) /\ Object[c].tree \in TreesAt(c, 0)
  BY DEF Reachable, TreesAt
<1>5. QED
  BY <1>3, <1>4 DEF Reachable

LEMMA Unfolding ==
  ASSUME NEW t \in Trees, NEW k \in 0..2
  PROVE  FilesAt(k)[t] = FilesIn(t, FilesAt(k + 1))
BY DEF FilesAt, InThree, InTwo, InOne, Within, Trees

\* What is in a tree, name by name.
IsIn(f, t, under) ==
  \E n \in DOMAIN Object[t].at :
    LET e == Object[t].at[n] IN
    \/ e.mode = "file" /\ f = <<<<n>>, e.oid>>
    \/ e.mode = "tree" /\ \E g \in under[e.oid] : f = <<<<n>> \o g[1], g[2]>>

LEMMA InTree ==
  ASSUME NEW t \in Trees, NEW under, NEW f
  PROVE  f \in FilesIn(t, under) <=> IsIn(f, t, under)
<1> DEFINE at == Object[t].at
           Names(mode) == {name \in DOMAIN at : at[name].mode = mode}
           Direct == {<<<<name>>, at[name].oid>> : name \in Names("file")}
           In(d) == {<<<<d>> \o file[1], file[2]>> : file \in under[at[d].oid]}
<1>1. FilesIn(t, under) = Direct \cup (UNION {In(d) : d \in Names("tree")})
  BY DEF FilesIn
<1>2. f \in Direct <=> \E n \in DOMAIN at : at[n].mode = "file" /\ f = <<<<n>>, at[n].oid>>
  OBVIOUS
<1>3. f \in UNION {In(d) : d \in Names("tree")} <=>
        \E n \in DOMAIN at : at[n].mode = "tree" /\ \E g \in under[at[n].oid] : f = <<<<n>> \o g[1], g[2]>>
  <2>1. \A d : f \in In(d) <=> \E g \in under[at[d].oid] : f = <<<<d>> \o g[1], g[2]>>
    OBVIOUS
  <2>2. \A d : d \in Names("tree") <=> d \in DOMAIN at /\ at[d].mode = "tree"
    OBVIOUS
  <2> HIDE DEF In, Names
  <2>3. f \in UNION {In(d) : d \in Names("tree")} <=> \E d \in Names("tree") : f \in In(d)
    OBVIOUS
  <2>4. QED
    BY <2>1, <2>2, <2>3
<1>4. QED
  BY <1>1, <1>2, <1>3 DEF IsIn

LEMMA NamesAreNames ==
  ASSUME NEW t \in Trees, NEW n \in DOMAIN Object[t].at
  PROVE  n \in EntryName
BY DEF EntryName

Located(f, depth) ==
  /\ f = <<f[1], f[2]>>
  /\ f[1] \in Seq(EntryName) /\ Len(f[1]) \in 1..(3 - depth)
  /\ f[2] \in OidsOf("blob")

LEMMA LocatedStep ==
  ASSUME NEW t \in Trees, NEW k \in 0..2,
         \A u \in Trees : \A g \in FilesAt(k + 1)[u] : Located(g, k + 1),
         NEW f \in FilesAt(k)[t]
  PROVE  Located(f, k)
<1>1. PICK n \in DOMAIN Object[t].at :
             LET e == Object[t].at[n] IN
             \/ e.mode = "file" /\ f = <<<<n>>, e.oid>>
             \/ e.mode = "tree" /\ \E g \in FilesAt(k + 1)[e.oid] : f = <<<<n>> \o g[1], g[2]>>
  <2>1. f \in FilesIn(t, FilesAt(k + 1))
    BY Unfolding
  <2>2. IsIn(f, t, FilesAt(k + 1))
    BY <2>1, InTree
  <2>3. QED
    BY <2>2 DEF IsIn
<1>2. n \in EntryName /\ <<n>> \in Seq(EntryName) /\ Len(<<n>>) = 1
  BY NamesAreNames
<1>3. CASE Object[t].at[n].mode = "file" /\ f = <<<<n>>, Object[t].at[n].oid>>
  <2>1. Object[t].at[n].oid \in OidsOf("blob")
    BY <1>3, OneEntry
  <2>2. QED
    BY <1>2, <1>3, <2>1 DEF Located
<1>4. ASSUME NEW g \in FilesAt(k + 1)[Object[t].at[n].oid], Object[t].at[n].mode = "tree",
             f = <<<<n>> \o g[1], g[2]>>
      PROVE  Located(f, k)
  <2>1. Located(g, k + 1)
    BY <1>4, OneEntry
  <2>2. <<n>> \o g[1] \in Seq(EntryName) /\ Len(<<n>> \o g[1]) = 1 + Len(g[1])
    BY <1>2, <2>1, ConcatProperties DEF Located
  <2>3. QED
    BY <1>4, <2>1, <2>2 DEF Located
<1>5. QED
  BY <1>1, <1>3, <1>4

LEMMA FilesLocated ==
  ASSUME NEW t \in Trees, NEW k \in 0..3, NEW f \in FilesAt(k)[t]
  PROVE  Located(f, k)
<1>1. \A u \in Trees : \A g \in FilesAt(3)[u] : Located(g, 3)
  BY DEF FilesAt, NoFiles, Trees
<1>2. \A u \in Trees : \A g \in FilesAt(2)[u] : Located(g, 2)
  <2>1. ASSUME NEW u \in Trees, NEW g \in FilesAt(2)[u]
        PROVE  Located(g, 2)
    <3>1. \A w \in Trees : \A h \in FilesAt(2 + 1)[w] : Located(h, 2 + 1)
      BY <1>1
    <3>2. QED
      BY <2>1, <3>1, LocatedStep
  <2>2. QED
    BY <2>1
<1>3. \A u \in Trees : \A g \in FilesAt(1)[u] : Located(g, 1)
  <2>1. ASSUME NEW u \in Trees, NEW g \in FilesAt(1)[u]
        PROVE  Located(g, 1)
    <3>1. \A w \in Trees : \A h \in FilesAt(1 + 1)[w] : Located(h, 1 + 1)
      BY <1>2
    <3>2. QED
      BY <2>1, <3>1, LocatedStep
  <2>2. QED
    BY <2>1
<1>4. \A u \in Trees : \A g \in FilesAt(0)[u] : Located(g, 0)
  <2>1. ASSUME NEW u \in Trees, NEW g \in FilesAt(0)[u]
        PROVE  Located(g, 0)
    <3>1. \A w \in Trees : \A h \in FilesAt(0 + 1)[w] : Located(h, 0 + 1)
      BY <1>3
    <3>2. QED
      BY <2>1, <3>1, LocatedStep
  <2>2. QED
    BY <2>1
<1>5. k = 0 \/ k = 1 \/ k = 2 \/ k = 3
  OBVIOUS
<1>6. QED
  BY <1>1, <1>2, <1>3, <1>4, <1>5
LEMMA OneThenRest ==
  ASSUME NEW n \in EntryName, NEW q \in Seq(EntryName)
  PROVE  LET p == <<n>> \o q IN
         /\ p \in Seq(EntryName) /\ p # <<>>
         /\ Head(p) = n /\ Tail(p) = q /\ Len(p) = 1 + Len(q)
<1>1. <<n>> \in Seq(EntryName) /\ Len(<<n>>) = 1 /\ <<n>>[1] = n
  OBVIOUS
<1>2. /\ <<n>> \o q \in Seq(EntryName)
      /\ Len(<<n>> \o q) = 1 + Len(q)
      /\ \A i \in 1..(1 + Len(q)) : (<<n>> \o q)[i] = IF i <= 1 THEN <<n>>[i] ELSE q[i - 1]
  BY <1>1, ConcatProperties
<1>3. Len(q) \in Nat
  OBVIOUS
<1>4. <<n>> \o q # <<>> /\ (<<n>> \o q)[1] = n
  BY <1>1, <1>2, <1>3
<1> DEFINE p == <<n>> \o q
<1>5. /\ p \in Seq(EntryName) /\ p # <<>> /\ p[1] = n /\ Len(p) = 1 + Len(q)
      /\ \A i \in 1..Len(q) : p[i + 1] = q[i]
  BY <1>1, <1>2, <1>3, <1>4
<1> HIDE DEF p
<1>6. Head(p) = n
  BY <1>5
<1>7. Tail(p) = q
  <2>1. Tail(p) \in Seq(EntryName) /\ Len(Tail(p)) = Len(q) /\ \A i \in 1..Len(Tail(p)) : Tail(p)[i] = p[i + 1]
    BY <1>3, <1>5, HeadTailProperties
  <2>2. \A i \in 1..Len(q) : Tail(p)[i] = q[i]
    BY <1>5, <2>1
  <2>3. QED
    BY <2>1, <2>2, SeqEqual
<1>8. QED
  BY <1>5, <1>6, <1>7 DEF p

LEMMA FirstAndRest ==
  ASSUME NEW p \in Seq(EntryName), p # <<>>
  PROVE  /\ Head(p) \in EntryName /\ Tail(p) \in Seq(EntryName)
         /\ Len(p) = 1 + Len(Tail(p))
         /\ p = <<Head(p)>> \o Tail(p)
         /\ Tail(p) = <<>> <=> Len(p) = 1
<1>1. /\ Head(p) \in EntryName /\ Tail(p) \in Seq(EntryName) /\ Len(p) = 1 + Len(Tail(p))
      /\ \A i \in 1..Len(Tail(p)) : Tail(p)[i] = p[i + 1]
      /\ Head(p) = p[1]
  BY HeadTailProperties
<1> DEFINE q == <<Head(p)>> \o Tail(p)
<1>2. <<Head(p)>> \in Seq(EntryName) /\ Len(<<Head(p)>>) = 1 /\ <<Head(p)>>[1] = Head(p)
  BY <1>1
<1>3. /\ q \in Seq(EntryName) /\ Len(q) = 1 + Len(Tail(p))
      /\ \A i \in 1..(1 + Len(Tail(p))) : q[i] = IF i <= 1 THEN <<Head(p)>>[i] ELSE Tail(p)[i - 1]
  BY <1>1, <1>2, ConcatProperties
<1>4. \A i \in 1..Len(p) : q[i] = p[i]
  <2>1. ASSUME NEW i \in 1..Len(p)
        PROVE  q[i] = p[i]
    <3>1. CASE i = 1
      BY <3>1, <1>1, <1>2, <1>3
    <3>2. CASE i # 1
      <4>1. i - 1 \in 1..Len(Tail(p)) /\ Len(Tail(p)) \in Nat
        BY <3>2, <1>1
      <4>2. q[i] = Tail(p)[i - 1] /\ Tail(p)[i - 1] = p[i - 1 + 1]
        BY <3>2, <4>1, <1>1, <1>3
      <4>3. QED
        BY <4>2
    <3>3. QED
      BY <3>1, <3>2
  <2>2. QED
    BY <2>1
<1>5. p = q
  BY <1>1, <1>3, <1>4, SeqEqual
<1>6. Tail(p) = <<>> <=> Len(Tail(p)) = 0
  BY <1>1, EmptySeq
<1>7. QED
  <2>1. Tail(p) = <<>> <=> Len(p) = 1
    BY <1>1, <1>6, LenProperties
  <2>2. QED
    BY <1>1, <1>5, <2>1 DEF q

\* The first name of a path decides, and then the others below it.
Leads(p, t, depth, b) ==
  LET at == Object[t].at
      n == Head(p)
  IN /\ n \in DOMAIN at
     /\ IF Len(p) = 1 THEN at[n].mode = "file" /\ b = at[n].oid
        ELSE at[n].mode = "tree" /\ <<Tail(p), b>> \in FilesAt(depth + 1)[at[n].oid]

LEMMA AlongPath ==
  ASSUME NEW t \in Trees, NEW k \in 0..2, NEW p \in Seq(EntryName), p # <<>>, NEW b
  PROVE  <<p, b>> \in FilesAt(k)[t] <=> Leads(p, t, k, b)
<1> DEFINE at == Object[t].at
<1>1. <<p, b>> \in FilesAt(k)[t] <=> IsIn(<<p, b>>, t, FilesAt(k + 1))
  BY Unfolding, InTree
<1>2. ASSUME IsIn(<<p, b>>, t, FilesAt(k + 1))
      PROVE  Leads(p, t, k, b)
  <2>1. PICK n \in DOMAIN at :
          \/ at[n].mode = "file" /\ <<p, b>> = <<<<n>>, at[n].oid>>
          \/ at[n].mode = "tree" /\ \E g \in FilesAt(k + 1)[at[n].oid] :
                                      <<p, b>> = <<<<n>> \o g[1], g[2]>>
    BY <1>2 DEF IsIn
  <2>2. CASE at[n].mode = "file" /\ <<p, b>> = <<<<n>>, at[n].oid>>
    <3>1. p = <<n>> /\ b = at[n].oid
      BY <2>2
    <3>2. Head(p) = n /\ Len(p) = 1
      BY <3>1
    <3>3. QED
      BY <2>2, <3>1, <3>2 DEF Leads
  <2>3. ASSUME NEW g \in FilesAt(k + 1)[at[n].oid], at[n].mode = "tree",
               <<p, b>> = <<<<n>> \o g[1], g[2]>>
        PROVE  Leads(p, t, k, b)
    <3>1. Located(g, k + 1)
      BY <2>3, OneEntry, FilesLocated
    <3>2. p = <<n>> \o g[1] /\ b = g[2] /\ g = <<g[1], g[2]>> /\ g[1] \in Seq(EntryName) /\ Len(g[1]) >= 1
      BY <2>3, <3>1 DEF Located
    <3>3. Head(p) = n /\ Tail(p) = g[1] /\ Len(p) = 1 + Len(g[1])
      BY <3>2, OneThenRest, NamesAreNames
    <3>4. Len(p) # 1 /\ <<Tail(p), b>> = g
      BY <3>2, <3>3
    <3>5. QED
      BY <2>3, <3>3, <3>4 DEF Leads
  <2>4. QED
    BY <2>1, <2>2, <2>3
<1>3. ASSUME Leads(p, t, k, b)
      PROVE  IsIn(<<p, b>>, t, FilesAt(k + 1))
  <2>1. p = <<Head(p)>> \o Tail(p) /\ (Tail(p) = <<>> <=> Len(p) = 1) /\ Head(p) \in DOMAIN at
    BY <1>3, FirstAndRest DEF Leads
  <2>2. CASE Len(p) = 1
    <3>1. p = <<Head(p)>>
      BY <2>2
    <3>2. at[Head(p)].mode = "file" /\ <<p, b>> = <<<<Head(p)>>, at[Head(p)].oid>>
      BY <1>3, <2>2, <3>1 DEF Leads
    <3>3. QED
      BY <2>1, <3>2 DEF IsIn
  <2>3. CASE Len(p) # 1
    <3>1. at[Head(p)].mode = "tree" /\ <<Tail(p), b>> \in FilesAt(k + 1)[at[Head(p)].oid]
      BY <1>3, <2>3 DEF Leads
    <3>2. <<p, b>> = <<<<Head(p)>> \o <<Tail(p), b>>[1], <<Tail(p), b>>[2]>>
      BY <2>1
    <3>3. QED
      BY <2>1, <3>1, <3>2 DEF IsIn
  <2>4. QED
    BY <2>2, <2>3
<1>4. QED
  BY <1>1, <1>2, <1>3
---------------------------------------------------------------------------
(* Where a blob is below a directory. *)

LEMMA PlacedStep ==
  ASSUME NEW dir \in Seq(EntryName), Len(dir) \in 0..2, NEW t \in Trees, NEW blob
  PROVE  LET at == Object[t].at IN
         Placed(dir, t, blob) =
           {Append(dir, n) : n \in {m \in DOMAIN at : at[m].mode = "file" /\ at[m].oid = blob}}
           \cup (UNION {Placed(Append(dir, n), at[n].oid, blob) :
                          n \in {m \in DOMAIN at : at[m].mode = "tree"}})
<1> DEFINE at == Object[t].at
           k == Len(dir)
           Here == {Append(dir, n) : n \in {m \in DOMAIN at : at[m].mode = "file" /\ at[m].oid = blob}}
           Deep(n) == Placed(Append(dir, n), at[n].oid, blob)
           Subtrees == {m \in DOMAIN at : at[m].mode = "tree"}
<1>0. k \in 0..2 /\ k + 1 \in 0..3
  <2>1. \A i \in 0..2 : i + 1 \in 0..3
    OBVIOUS
  <2>2. QED
    BY <2>1
<1>1. ASSUME NEW n \in DOMAIN at
      PROVE  /\ n \in EntryName /\ Append(dir, n) = dir \o <<n>>
             /\ Append(dir, n) \in Seq(EntryName) /\ Len(Append(dir, n)) = k + 1
             /\ \A q \in Seq(EntryName) : dir \o (<<n>> \o q) = Append(dir, n) \o q
  <2>1. n \in EntryName
    BY NamesAreNames
  <2>2. Append(dir, n) = dir \o <<n>> /\ Append(dir, n) \in Seq(EntryName) /\ Len(Append(dir, n)) = k + 1
    BY <2>1, AppendProperties, AppendIsConcat
  <2>3. ASSUME NEW q \in Seq(EntryName)
        PROVE  dir \o (<<n>> \o q) = (dir \o <<n>>) \o q
    <3>1. <<n>> \in Seq(EntryName)
      BY <2>1
    <3>2. QED
      BY <3>1, ConcatAssociative
  <2>4. QED
    BY <2>1, <2>2, <2>3
<1>2. ASSUME NEW x \in Placed(dir, t, blob)
      PROVE  x \in Here \/ \E n \in Subtrees : x \in Deep(n)
  <2>1. PICK f \in FilesAt(k)[t] : f[2] = blob /\ x = dir \o f[1]
    BY DEF Placed
  <2>2. f \in FilesIn(t, FilesAt(k + 1))
    BY Unfolding
  <2>3. IsIn(f, t, FilesAt(k + 1))
    BY <2>2, InTree
  <2>4. PICK n \in DOMAIN at :
          \/ at[n].mode = "file" /\ f = <<<<n>>, at[n].oid>>
          \/ at[n].mode = "tree" /\ \E g \in FilesAt(k + 1)[at[n].oid] : f = <<<<n>> \o g[1], g[2]>>
    BY <2>3 DEF IsIn
  <2>5. CASE at[n].mode = "file" /\ f = <<<<n>>, at[n].oid>>
    <3>1. f[1] = <<n>> /\ f[2] = at[n].oid
      BY <2>5
    <3>2. x = Append(dir, n) /\ at[n].oid = blob
      BY <1>1, <2>1, <3>1
    <3>3. QED
      BY <2>5, <3>2
  <2>6. ASSUME NEW g \in FilesAt(k + 1)[at[n].oid], at[n].mode = "tree", f = <<<<n>> \o g[1], g[2]>>
        PROVE  x \in Deep(n) /\ n \in Subtrees
    <3>1. Located(g, k + 1)
      <4>1. k + 1 \in 0..3
        BY <1>0
      <4>2. at[n].oid \in Trees
        BY <2>6, OneEntry
      <4>3. QED
        BY <2>6, <4>1, <4>2, FilesLocated
    <3>2. f[1] = <<n>> \o g[1] /\ f[2] = g[2]
      BY <2>6
    <3>3. x = Append(dir, n) \o g[1] /\ g[2] = blob
      BY <1>1, <2>1, <3>1, <3>2 DEF Located
    <3>4. Len(Append(dir, n)) = k + 1
      BY <1>1
    <3>5. QED
      BY <2>6, <3>3, <3>4 DEF Placed
  <2>7. QED
    BY <2>4, <2>5, <2>6
<1>3. ASSUME NEW n \in DOMAIN at, at[n].mode = "file", at[n].oid = blob
      PROVE  Append(dir, n) \in Placed(dir, t, blob)
  <2>1. IsIn(<<<<n>>, blob>>, t, FilesAt(k + 1))
    BY <1>3 DEF IsIn
  <2>2. <<<<n>>, blob>> \in FilesAt(k)[t]
    BY <2>1, InTree, Unfolding
  <2>3. <<<<n>>, blob>>[1] = <<n>> /\ <<<<n>>, blob>>[2] = blob
    OBVIOUS
  <2>4. dir \o <<<<n>>, blob>>[1] \in Placed(dir, t, blob)
    BY <2>2, <2>3 DEF Placed
  <2>5. QED
    BY <1>1, <2>3, <2>4
<1>4. ASSUME NEW n \in Subtrees, NEW x \in Deep(n)
      PROVE  x \in Placed(dir, t, blob)
  <2>1. Len(Append(dir, n)) = k + 1
    BY <1>1
  <2>2. PICK g \in FilesAt(k + 1)[at[n].oid] : g[2] = blob /\ x = Append(dir, n) \o g[1]
    BY <2>1 DEF Placed
  <2>3. Located(g, k + 1)
    <3>1. k + 1 \in 0..3
      BY <1>0
    <3>2. at[n].oid \in Trees
      BY OneEntry
    <3>3. QED
      BY <3>1, <3>2, FilesLocated
  <2> DEFINE f == <<<<n>> \o g[1], g[2]>>
  <2>4. IsIn(f, t, FilesAt(k + 1))
    BY DEF IsIn
  <2>5. f \in FilesAt(k)[t]
    <3> HIDE DEF f
    <3>1. f \in FilesIn(t, FilesAt(k + 1))
      BY <2>4, InTree
    <3>2. QED
      BY <3>1, Unfolding
  <2>6. f[1] = <<n>> \o g[1] /\ f[2] = blob
    BY <2>2
  <2>7. x = dir \o f[1]
    BY <1>1, <2>2, <2>3, <2>6 DEF Located
  <2> HIDE DEF f
  <2>8. QED
    BY <2>5, <2>6, <2>7 DEF Placed
<1>5. \A x : x \in UNION {Deep(n) : n \in Subtrees} <=> \E n \in Subtrees : x \in Deep(n)
  <2> HIDE DEF Deep, Subtrees
  <2>1. QED
    OBVIOUS
<1>6. \A x : x \in Placed(dir, t, blob) <=> x \in Here \/ x \in UNION {Deep(n) : n \in Subtrees}
  <2>1. \A x \in Here : x \in Placed(dir, t, blob)
    BY <1>3
  <2> HIDE DEF Here, Deep, Subtrees
  <2>2. \A x \in UNION {Deep(n) : n \in Subtrees} : x \in Placed(dir, t, blob)
    BY <1>4, <1>5
  <2>3. QED
    BY <1>2, <1>5, <2>1, <2>2
<1>7. QED
  BY <1>6

LEMMA FilesOfCommit ==
  ASSUME NEW c \in Commit, NEW f \in FilesOf(c)
  PROVE  f = <<f[1], f[2]>> /\ f[1] \in Paths /\ f[2] \in OidsOf("blob")
<1>1. Object[c].tree \in Trees /\ f \in FilesAt(0)[Object[c].tree]
  BY GitAssumption DEF Trees, FilesOf, FilesAt
<1>2. Located(f, 0)
  BY <1>1, FilesLocated
<1>3. QED
  BY <1>2 DEF Located, Paths

LEMMA PlacedFromRoot ==
  ASSUME NEW c \in Commit, NEW blob
  PROVE  PathsOf(c, blob) = Placed(<<>>, Object[c].tree, blob)
<1>1. Len(<<>>) = 0 /\ FilesAt(0)[Object[c].tree] = FilesOf(c)
  BY DEF FilesAt, FilesOf
<1>2. \A f \in FilesOf(c) : <<>> \o f[1] = f[1]
  BY FilesOfCommit, ConcatEmptySeq DEF Paths
<1>3. QED
  BY <1>1, <1>2 DEF Placed, PathsOf
---------------------------------------------------------------------------
(* What Git does. *)

LEMMA LatestIsPacked ==
  ASSUME StoreOK
  PROVE  Packed = LastPack.holds /\ Len(packs) \in DOMAIN packs /\ Len(packs) \in Nat
<1>1. Len(packs) \in DOMAIN packs /\ Len(packs) \in Nat
  BY LenProperties DEF StoreOK
<1>2. Len(packs) \in Indexed
  BY <1>1 DEF StoreOK, LastPack, Indexed
<1>3. Packed = UNION {packs[n].holds : n \in Indexed}
  BY DEF Packed, Indexed
<1>4. \A n \in Indexed : packs[n].holds \subseteq LastPack.holds
  BY DEF StoreOK
<1>5. LastPack = packs[Len(packs)]
  BY DEF LastPack
<1> HIDE DEF LastPack, Indexed
<1>6. UNION {packs[n].holds : n \in Indexed} = LastPack.holds
  BY <1>2, <1>4, <1>5
<1>7. QED
  BY <1>1, <1>3, <1>6

\* Git only adds: the packs keep what they hold.
Adds ==
  /\ \A n \in DOMAIN packs : n \in DOMAIN packs' /\ packs'[n].holds = packs[n].holds
  /\ LastPack.holds \subseteq LastPack'.holds
  /\ heads \subseteq heads'
  /\ UNCHANGED <<fileVersions, capture, reads, answer, vanished>>

LEMMA MoveAdds ==
  ASSUME StoreOK, HeadsOK, NEW c \in Commit, MoveBranch(c)
  PROVE  StoreOK' /\ HeadsOK' /\ Adds
<1>1. /\ loose' = loose \cup (Stored(c) \ LastPack.holds)
      /\ heads' = heads \cup {c} /\ packs' = packs
      /\ branch' = [branch EXCEPT !.loose = c]
      /\ UNCHANGED <<fileVersions, capture, reads, answer, vanished>>
  BY LatestIsPacked DEF MoveBranch
<1>2. LastPack' = LastPack /\ Indexed' = Indexed
  BY <1>1 DEF LastPack, Indexed
<1>3. Stored(c) \subseteq DOMAIN Object
  BY ReachableTyped DEF Stored
<1>4. StoreOK'
  <2>1. \A d \in heads' : Stored(d) \subseteq loose' \cup LastPack.holds
    BY <1>1 DEF StoreOK
  <2>2. loose' \subseteq DOMAIN Object
    BY <1>1, <1>3 DEF StoreOK
  <2> HIDE DEF LastPack, Indexed
  <2>3. QED
    BY <1>1, <1>2, <2>1, <2>2 DEF StoreOK
<1>5. HeadsOK'
  <2>1. branch'.loose = c /\ branch'.packed = branch.packed
    BY <1>1 DEF HeadsOK
  <2>2. Tip' = c
    BY <2>1, GitAssumption DEF Tip
  <2>3. branch' \in [loose : Commit \cup {NoCommit}, packed : Commit]
    BY <1>1 DEF HeadsOK
  <2>4. QED
    BY <1>1, <2>1, <2>2, <2>3 DEF HeadsOK
<1>6. QED
  BY <1>1, <1>2, <1>4, <1>5 DEF Adds

LEMMA BranchFilesAdd ==
  ASSUME StoreOK, HeadsOK, PackBranch \/ DropLooseBranch
  PROVE  StoreOK' /\ HeadsOK' /\ Adds
<1>1. /\ loose' = loose /\ packs' = packs /\ heads' = heads
      /\ UNCHANGED <<fileVersions, capture, reads, answer, vanished>>
  BY DEF PackBranch, DropLooseBranch, captureVars
<1>2. LastPack' = LastPack /\ Indexed' = Indexed
  BY <1>1 DEF LastPack, Indexed
<1>3. StoreOK'
  <2> HIDE DEF LastPack, Indexed
  <2>1. QED
    BY <1>1, <1>2 DEF StoreOK
<1>4. CASE PackBranch
  <2>1. branch' = [branch EXCEPT !.packed = branch.loose] /\ branch.loose # NoCommit
    BY <1>4 DEF PackBranch
  <2>2. branch'.loose = branch.loose /\ branch'.packed = branch.loose /\ branch.loose \in Commit
    BY <2>1 DEF HeadsOK
  <2>3. Tip' = branch.loose /\ Tip = branch.loose
    BY <2>1, <2>2 DEF Tip
  <2>4. branch' \in [loose : Commit \cup {NoCommit}, packed : Commit]
    BY <2>1, <2>2 DEF HeadsOK
  <2>5. HeadsOK'
    BY <1>1, <2>2, <2>3, <2>4 DEF HeadsOK
  <2>6. QED
    BY <1>1, <1>2, <1>3, <2>5 DEF Adds
<1>5. CASE DropLooseBranch
  <2>1. branch' = [branch EXCEPT !.loose = NoCommit] /\ branch.loose # NoCommit /\ branch.loose = branch.packed
    BY <1>5 DEF DropLooseBranch
  <2>2. branch'.loose = NoCommit /\ branch'.packed = branch.packed
    BY <2>1 DEF HeadsOK
  <2>3. Tip' = branch.packed /\ Tip = branch.packed
    BY <2>1, <2>2 DEF Tip
  <2>4. branch' \in [loose : Commit \cup {NoCommit}, packed : Commit]
    BY <2>1 DEF HeadsOK
  <2>5. HeadsOK'
    BY <1>1, <2>2, <2>3, <2>4 DEF HeadsOK
  <2>6. QED
    BY <1>1, <1>2, <1>3, <2>5 DEF Adds
<1>6. QED
  BY <1>4, <1>5

LEMMA RepackAdds ==
  ASSUME StoreOK, HeadsOK, Repack
  PROVE  StoreOK' /\ HeadsOK' /\ Adds
<1> DEFINE new == [index |-> TRUE, data |-> TRUE, holds |-> loose \cup LastPack.holds]
<1>1. /\ packs' = Append(packs, new) /\ loose' = loose /\ heads' = heads /\ branch' = branch
      /\ UNCHANGED <<fileVersions, capture, reads, answer, vanished>>
  BY LatestIsPacked DEF Repack, captureVars
<1>2. packs \in Seq(Pack) /\ LastPack \in Pack /\ Len(packs) \in Nat
  BY ElementOfSeq, LenProperties DEF StoreOK, LastPack
<1>3. new \in Pack
  BY <1>2 DEF Pack, StoreOK
<1>4. /\ packs' \in Seq(Pack) /\ Len(packs') = Len(packs) + 1
      /\ \A n \in 1..Len(packs) : packs'[n] = packs[n]
      /\ packs'[Len(packs) + 1] = new
  <2> HIDE DEF new
  <2>1. QED
    BY <1>1, <1>2, <1>3, AppendProperties
<1>5. DOMAIN packs = 1..Len(packs) /\ DOMAIN packs' = 1..(Len(packs) + 1)
  BY <1>2, <1>4, LenProperties
<1>6. LastPack' = new
  BY <1>4 DEF LastPack
<1>7. new.index /\ new.holds = loose \cup LastPack.holds
  OBVIOUS
<1>8. \A n \in Indexed' : packs'[n].holds \subseteq new.holds
  <2>1. ASSUME NEW n \in Indexed'
        PROVE  packs'[n].holds \subseteq new.holds
    <3>1. n \in 1..(Len(packs) + 1) /\ packs'[n].index
      BY <1>5 DEF Indexed
    <3>2. CASE n = Len(packs) + 1
      BY <3>2, <1>4
    <3>3. CASE n # Len(packs) + 1
      <4>1. n \in DOMAIN packs /\ packs'[n] = packs[n]
        BY <3>1, <3>3, <1>2, <1>4, <1>5
      <4>2. n \in Indexed
        BY <3>1, <4>1 DEF Indexed
      <4>3. packs[n].holds \subseteq LastPack.holds
        BY <4>2 DEF StoreOK
      <4>4. QED
        BY <4>1, <4>3, <1>7
    <3>4. QED
      BY <3>2, <3>3
  <2>2. QED
    BY <2>1
<1> HIDE DEF new
<1>9. StoreOK'
  <2>1. \A c \in heads : Stored(c) \subseteq loose \cup new.holds
    BY <1>7 DEF StoreOK
  <2>2. packs' \in Seq(Pack) /\ Len(packs') > 0
    BY <1>2, <1>4
  <2>3. loose' \subseteq DOMAIN Object
    BY <1>1 DEF StoreOK
  <2>4. QED
    BY <1>1, <1>6, <1>7, <1>8, <2>1, <2>2, <2>3 DEF StoreOK
<1>10. HeadsOK'
  BY <1>1 DEF HeadsOK, Tip
<1>11. \A n \in DOMAIN packs : n \in DOMAIN packs' /\ packs'[n].holds = packs[n].holds
  BY <1>2, <1>4, <1>5
<1>12. QED
  BY <1>1, <1>6, <1>7, <1>9, <1>10, <1>11 DEF Adds

LEMMA DropAdds ==
  ASSUME StoreOK, HeadsOK, NEW n \in DOMAIN packs, DropIndex(n) \/ DropData(n)
  PROVE  StoreOK' /\ HeadsOK' /\ Adds
<1>1. /\ n < Len(packs) /\ loose' = loose /\ heads' = heads /\ branch' = branch
      /\ packs' = [packs EXCEPT ![n].index = FALSE] \/ packs' = [packs EXCEPT ![n].data = FALSE]
      /\ UNCHANGED <<fileVersions, capture, reads, answer, vanished>>
  BY DEF DropIndex, DropData, captureVars
<1>2. packs \in Seq(Pack) /\ n \in 1..Len(packs) /\ packs[n] \in Pack /\ Len(packs) \in Nat
      /\ DOMAIN packs = 1..Len(packs)
  BY ElementOfSeq, LenProperties DEF StoreOK
<1>3. PICK p \in Pack : packs' = [packs EXCEPT ![n] = p] /\ p.holds = packs[n].holds
                           /\ (p.index => packs[n].index)
  <2>1. CASE packs' = [packs EXCEPT ![n].index = FALSE]
    <3>1. [packs[n] EXCEPT !.index = FALSE] \in Pack
      BY <1>2 DEF Pack
    <3>2. [packs[n] EXCEPT !.index = FALSE].holds = packs[n].holds /\ ~[packs[n] EXCEPT !.index = FALSE].index
      BY <1>2 DEF Pack
    <3>3. packs' = [packs EXCEPT ![n] = [packs[n] EXCEPT !.index = FALSE]]
      BY <2>1, <1>2
    <3>4. QED
      BY <3>1, <3>2, <3>3
  <2>2. CASE packs' = [packs EXCEPT ![n].data = FALSE]
    <3>1. [packs[n] EXCEPT !.data = FALSE] \in Pack
      BY <1>2 DEF Pack
    <3>2. /\ [packs[n] EXCEPT !.data = FALSE].holds = packs[n].holds
          /\ [packs[n] EXCEPT !.data = FALSE].index = packs[n].index
      BY <1>2 DEF Pack
    <3>3. packs' = [packs EXCEPT ![n] = [packs[n] EXCEPT !.data = FALSE]]
      BY <2>2, <1>2
    <3>4. QED
      BY <3>1, <3>2, <3>3
  <2>3. QED
    BY <1>1, <2>1, <2>2
<1>4. /\ packs' \in Seq(Pack) /\ Len(packs') = Len(packs)
      /\ \A j \in 1..Len(packs) : packs'[j] = IF j = n THEN p ELSE packs[j]
  BY <1>2, <1>3, ExceptSeq
<1>5. DOMAIN packs' = DOMAIN packs
  BY <1>2, <1>4, LenProperties
<1>6. LastPack' = LastPack
  BY <1>1, <1>2, <1>4 DEF LastPack
<1>7. \A j \in Indexed' : j \in Indexed /\ packs'[j].holds = packs[j].holds
  BY <1>2, <1>3, <1>4, <1>5 DEF Indexed
<1>8. StoreOK'
  <2>1. \A j \in Indexed' : packs'[j].holds \subseteq LastPack.holds
    BY <1>7 DEF StoreOK
  <2> HIDE DEF LastPack, Indexed
  <2>2. QED
    BY <1>1, <1>2, <1>4, <1>6, <2>1 DEF StoreOK
<1>9. HeadsOK'
  BY <1>1 DEF HeadsOK, Tip
<1>10. \A j \in DOMAIN packs : j \in DOMAIN packs' /\ packs'[j].holds = packs[j].holds
  BY <1>2, <1>3, <1>4, <1>5
<1>11. QED
  BY <1>1, <1>6, <1>8, <1>9, <1>10 DEF Adds

LEMMA PruneAdds ==
  ASSUME StoreOK, HeadsOK, PruneLoose
  PROVE  StoreOK' /\ HeadsOK' /\ Adds
<1>1. /\ loose' = loose \ LastPack.holds /\ packs' = packs /\ heads' = heads /\ branch' = branch
      /\ UNCHANGED <<fileVersions, capture, reads, answer, vanished>>
  BY LatestIsPacked DEF PruneLoose, captureVars
<1>2. LastPack' = LastPack /\ Indexed' = Indexed
  BY <1>1 DEF LastPack, Indexed
<1>3. StoreOK'
  <2> HIDE DEF LastPack, Indexed
  <2>1. QED
    BY <1>1, <1>2 DEF StoreOK
<1>4. HeadsOK'
  BY <1>1 DEF HeadsOK, Tip
<1>5. QED
  BY <1>1, <1>2, <1>3, <1>4 DEF Adds

LEMMA GitAdds ==
  ASSUME StoreOK, HeadsOK, Git
  PROVE  StoreOK' /\ HeadsOK' /\ Adds
BY MoveAdds, BranchFilesAdd, RepackAdds, DropAdds, PruneAdds DEF Git
LEMMA GitKeeps ==
  ASSUME GitInv, StoreOK', HeadsOK', Adds
  PROVE  GitInv'
<1>1. /\ fileVersions' = fileVersions /\ capture' = capture /\ answer' = answer
      /\ vanished' = vanished /\ heads \subseteq heads'
  BY DEF Adds
<1>2. Previous' = Previous /\ Depth' = Depth /\ \A c : Partial(c)' <=> Partial(c)
  BY <1>1 DEF Previous, Depth, Partial
<1>3. ReaderOK'
  BY <1>1 DEF GitInv, ReaderOK
<1>4. PurposeOK'
  BY <1>1, <1>2 DEF GitInv, PurposeOK
<1>5. LookOK'
  <2>1. capture'.at \in AtObject => capture'.oid \in Reachable(capture'.commit)
    BY <1>1 DEF GitInv, LookOK
  <2>2. capture'.at = "list" /\ capture'.oid \in Stored(capture'.commit) => capture'.oid \in LastPack'.holds
    BY <1>1 DEF GitInv, LookOK, Adds
  <2>3. capture'.at = "index" =>
          /\ capture'.left \subseteq DOMAIN packs'
          /\ capture'.oid \in Stored(capture'.commit) =>
               \E n \in capture'.left : capture'.oid \in packs'[n].holds
    <3>1. SUFFICES ASSUME capture.at = "index"
                   PROVE  /\ capture.left \subseteq DOMAIN packs'
                          /\ capture.oid \in Stored(capture.commit) =>
                               \E n \in capture.left : capture.oid \in packs'[n].holds
      BY <1>1
    <3>2. /\ capture.left \subseteq DOMAIN packs
          /\ capture.oid \in Stored(capture.commit) =>
               \E n \in capture.left : capture.oid \in packs[n].holds
      BY <3>1 DEF GitInv, LookOK
    <3>3. QED
      BY <3>2 DEF Adds
  <2>4. capture'.at \in {"pack", "data"} => capture'.pack \in DOMAIN packs'
    BY <1>1 DEF GitInv, LookOK, Adds
  <2>5. QED
    BY <2>1, <2>2, <2>3, <2>4 DEF LookOK
<1>6. ResolveOK'
  BY <1>1, <1>2 DEF GitInv, ResolveOK
<1>7. SearchOK'
  BY <1>1, <1>2 DEF GitInv, SearchOK
<1>8. ConclusionOK'
  BY <1>1, <1>2 DEF GitInv, ConclusionOK
<1>9. CaptureIsTrue'
  BY <1>1 DEF GitInv, CaptureIsTrue
<1>10. QED
  BY <1>3, <1>4, <1>5, <1>6, <1>7, <1>8, <1>9 DEF GitInv

---------------------------------------------------------------------------
(* What the reader does.  It leaves the repository alone. *)

Quiet == UNCHANGED <<branch, loose, packs, heads, fileVersions>>

LEMMA QuietKeeps ==
  ASSUME StoreOK, Quiet
  PROVE  /\ StoreOK' /\ LastPack' = LastPack /\ Indexed' = Indexed /\ Tip' = Tip
         /\ Previous' = Previous
<1>1. packs' = packs /\ loose' = loose /\ heads' = heads /\ branch' = branch
      /\ fileVersions' = fileVersions
  BY DEF Quiet
<1>2. LastPack' = LastPack /\ Indexed' = Indexed /\ Tip' = Tip /\ Previous' = Previous
  BY <1>1 DEF LastPack, Indexed, Tip, Previous
<1>3. StoreOK'
  <2> HIDE DEF LastPack, Indexed
  <2>1. QED
    BY <1>1, <1>2 DEF StoreOK
<1>4. QED
  BY <1>2, <1>3

\* A step to somewhere in the middle of a capture: there is no answer yet.
LEMMA Unanswered ==
  ASSUME answer' = NoAnswer
  PROVE  CaptureIsTrue'
BY DEF CaptureIsTrue, NoAnswer

\* Between the objects only where it is changes, and what it noticed.
Stays(there) ==
  /\ capture'.at = there /\ capture'.doing = capture.doing
  /\ capture'.commit = capture.commit /\ capture'.oid = capture.oid
  /\ capture'.path = capture.path /\ capture'.rest = capture.rest
  /\ capture'.mode = capture.mode /\ capture'.dir = capture.dir
  /\ capture'.pending = capture.pending /\ capture'.found = capture.found
Whole(r) ==
  r = [at |-> r.at, doing |-> r.doing, commit |-> r.commit, oid |-> r.oid,
       path |-> r.path, rest |-> r.rest, mode |-> r.mode, dir |-> r.dir,
       pending |-> r.pending, found |-> r.found, left |-> r.left, pack |-> r.pack]

LEMMA ReaderKept ==
  ASSUME ReaderOK, Quiet, Whole(capture'), answer' = answer, vanished' \in BOOLEAN,
         capture.at # "idle",
         capture'.at \in AtBranch \cup AtObject \cup Concluding
  PROVE  ReaderOK' /\ CaptureIsTrue'
<1>1. answer' = NoAnswer
  BY DEF ReaderOK
<1>2. ReaderOK'
  BY <1>1 DEF ReaderOK, Quiet, Whole, NoAnswer, AtBranch, AtObject, Concluding
<1>3. QED
  BY <1>1, <1>2, Unanswered

LEMMA LookStep ==
  ASSUME GitInv, Quiet, UNCHANGED <<answer, vanished>>, capture.at \in AtObject,
         NEW there \in AtObject, Stays(there), Whole(capture'), LookOK'
  PROVE  GitInv'
<1>1. Previous' = Previous /\ Depth' = Depth /\ StoreOK' /\ Tip' = Tip
      /\ \A c : Partial(c)' <=> Partial(c)
  BY QuietKeeps DEF GitInv, Depth, Partial, Stays
<1>2. ReaderOK' /\ CaptureIsTrue'
  <2>1. capture.at # "idle" /\ vanished \in BOOLEAN
    BY DEF AtObject, GitInv, ReaderOK
  <2>2. QED
    BY <2>1, ReaderKept DEF GitInv, Stays
<1>3. HeadsOK'
  BY <1>1 DEF GitInv, HeadsOK, Quiet, Stays, AtObject
<1>4. PurposeOK'
  BY <1>1 DEF GitInv, PurposeOK, Stays, Quiet
<1>5. ResolveOK'
  BY <1>1 DEF GitInv, ResolveOK, Stays
<1>6. SearchOK'
  BY <1>1 DEF GitInv, SearchOK, Stays
<1>7. ConclusionOK'
  BY DEF ConclusionOK, Stays, AtObject
<1>8. QED
  BY <1>1, <1>2, <1>3, <1>4, <1>5, <1>6, <1>7 DEF GitInv

\* An object is not found.
LEMMA AbsentStep ==
  ASSUME GitInv, Quiet, UNCHANGED answer, vanished' \in BOOLEAN, vanished => vanished',
         capture.at \in AtObject, Stays("absent"), Whole(capture'), Partial(capture.commit)'
  PROVE  GitInv'
<1>1. Previous' = Previous /\ StoreOK' /\ Tip' = Tip
      /\ \A c : Partial(c) => Partial(c)'
  BY QuietKeeps DEF GitInv, Partial
<1>2. ReaderOK' /\ CaptureIsTrue'
  <2>1. capture.at # "idle" /\ capture'.at \in Concluding
    BY DEF AtObject, Concluding, Stays
  <2>2. QED
    BY <2>1, ReaderKept DEF GitInv
<1>3. HeadsOK'
  BY <1>1 DEF GitInv, HeadsOK, Quiet, Stays
<1>4. PurposeOK'
  BY <1>1 DEF GitInv, PurposeOK, Stays, Quiet, AtObject, Concluding
<1>5. ResolveOK' /\ SearchOK' /\ LookOK'
  BY DEF ResolveOK, SearchOK, LookOK, Stays, AtObject
<1>6. ConclusionOK'
  BY <1>1 DEF ConclusionOK, Stays
<1>7. QED
  BY <1>1, <1>2, <1>3, <1>4, <1>5, <1>6 DEF GitInv

LEMMA IdleStep ==
  ASSUME GitInv, UNCHANGED <<branch, loose, packs, heads>>, capture' = Idle,
         fileVersions' \in Seq(VersionShape), Len(fileVersions') > 0, vanished' \in BOOLEAN,
         CaptureIsTrue'
  PROVE  GitInv'
<1>1. LastPack' = LastPack /\ Indexed' = Indexed /\ Tip' = Tip
  BY DEF LastPack, Indexed, Tip
<1>2. StoreOK'
  <2> HIDE DEF LastPack, Indexed
  <2>1. QED
    BY <1>1 DEF GitInv, StoreOK
<1>3. capture'.at = "idle" /\ Whole(capture')
  BY DEF Idle, Whole
<1>4. HeadsOK'
  BY <1>1, <1>3 DEF GitInv, HeadsOK
<1>5. ReaderOK'
  BY <1>3 DEF ReaderOK, Whole
<1>6. PurposeOK' /\ LookOK' /\ ResolveOK' /\ SearchOK' /\ ConclusionOK'
  BY <1>3 DEF PurposeOK, LookOK, ResolveOK, SearchOK, ConclusionOK, AtObject, Concluding
<1>7. QED
  BY <1>2, <1>4, <1>5, <1>6 DEF GitInv

---------------------------------------------------------------------------
(* Reading an object. *)

LEMMA LookLooseKeeps ==
  ASSUME GitInv, LookLoose
  PROVE  GitInv'
<1> DEFINE there == IF capture.oid \in loose THEN "loose" ELSE "list"
<1>1. /\ capture.at = "look" /\ capture' = [capture EXCEPT !.at = there]
      /\ Quiet /\ UNCHANGED <<answer, vanished>>
  BY DEF LookLoose, At, QuietGit, gitVars, Quiet
<1>2. Stays(there) /\ Whole(capture')
  BY <1>1 DEF GitInv, ReaderOK, Stays, Whole
<1>3. there \in AtObject /\ capture.at \in AtObject
  BY <1>1 DEF AtObject
<1>4. LookOK'
  <2>1. capture.oid \in Reachable(capture.commit)
    BY <1>3 DEF GitInv, LookOK
  <2>2. capture.oid \in Stored(capture.commit) /\ capture.oid \notin loose => capture.oid \in LastPack.holds
    <3>1. capture.commit \in heads
      BY <1>3 DEF GitInv, PurposeOK
    <3>2. QED
      BY <3>1 DEF GitInv, StoreOK
  <2>3. LastPack' = LastPack
    BY <1>1, QuietKeeps DEF GitInv
  <2>4. there = "list" => capture.oid \notin loose
    OBVIOUS
  <2>5. there \notin {"index", "pack", "data"}
    OBVIOUS
  <2> HIDE DEF there
  <2>6. QED
    BY <1>2, <2>1, <2>2, <2>3, <2>4, <2>5 DEF LookOK, Stays
<1>5. QED
  BY <1>1, <1>2, <1>3, <1>4, LookStep

LEMMA ListPacksKeeps ==
  ASSUME GitInv, ListPacks
  PROVE  GitInv'
<1>1. /\ capture.at = "list" /\ capture' = [capture EXCEPT !.at = "index", !.left = Indexed]
      /\ Quiet /\ UNCHANGED <<answer, vanished>>
  BY DEF ListPacks, Then, QuietGit, gitVars, Quiet
<1>2. Stays("index") /\ Whole(capture') /\ capture'.left = Indexed
  BY <1>1 DEF GitInv, ReaderOK, Stays, Whole
<1>3. "index" \in AtObject /\ capture.at \in AtObject
  BY <1>1 DEF AtObject
<1>4. LookOK'
  <2>1. capture.oid \in Reachable(capture.commit)
    BY <1>3 DEF GitInv, LookOK
  <2>2. capture.oid \in Stored(capture.commit) => \E n \in Indexed : capture.oid \in packs[n].holds
    <3>1. Len(packs) \in Indexed
      BY LatestIsPacked DEF GitInv, StoreOK, LastPack, Indexed
    <3>2. capture.oid \in Stored(capture.commit) => capture.oid \in packs[Len(packs)].holds
      BY <1>1 DEF GitInv, LookOK, LastPack
    <3>3. QED
      BY <3>1, <3>2
  <2>3. packs' = packs
    BY <1>1 DEF Quiet
  <2>4. Indexed \subseteq DOMAIN packs
    BY DEF Indexed
  <2>5. QED
    BY <1>2, <2>1, <2>2, <2>3, <2>4 DEF LookOK, Stays
<1>5. QED
  BY <1>1, <1>2, <1>3, <1>4, LookStep

LEMMA VanishesKeeps ==
  ASSUME GitInv, capture.at \in AtObject, Vanishes
  PROVE  GitInv'
<1>1. /\ capture' = [capture EXCEPT !.at = "absent", !.pack = NoPack, !.left = {}]
      /\ vanished' = TRUE /\ Quiet /\ UNCHANGED answer
  BY DEF Vanishes, QuietGit, gitVars, Quiet
<1>2. Stays("absent") /\ Whole(capture')
  BY <1>1 DEF GitInv, ReaderOK, Stays, Whole
<1>3. Partial(capture.commit)'
  BY <1>1 DEF Partial
<1>4. QED
  BY <1>1, <1>2, <1>3, AbsentStep

LEMMA ReadIndexKeeps ==
  ASSUME GitInv, NEW n \in DOMAIN packs, ReadIndex(n)
  PROVE  GitInv'
<1>1. capture.at = "index" /\ n \in capture.left /\ capture.at \in AtObject
  BY DEF ReadIndex, AtObject
<1>2. CASE ~packs[n].index
  BY <1>1, <1>2, VanishesKeeps DEF ReadIndex
<1>3. CASE packs[n].index /\ capture.oid \in packs[n].holds
  <2>1. /\ capture' = [capture EXCEPT !.at = "pack", !.pack = n, !.left = {}]
        /\ Quiet /\ UNCHANGED <<answer, vanished>>
    BY <1>3 DEF ReadIndex, Then, QuietGit, gitVars, Quiet
  <2>2. Stays("pack") /\ Whole(capture') /\ capture'.pack = n
    BY <2>1 DEF GitInv, ReaderOK, Stays, Whole
  <2>3. LookOK'
    <3>1. capture.oid \in Reachable(capture.commit) /\ n \in DOMAIN packs'
      BY <1>1, <2>1 DEF GitInv, LookOK, Quiet
    <3>2. QED
      BY <2>2, <3>1 DEF LookOK, Stays
  <2>4. "pack" \in AtObject
    BY DEF AtObject
  <2>5. QED
    BY <1>1, <2>1, <2>2, <2>3, <2>4, LookStep
<1>4. CASE packs[n].index /\ capture.oid \notin packs[n].holds
  <2>1. /\ capture' = [capture EXCEPT !.left = capture.left \ {n}]
        /\ Quiet /\ UNCHANGED <<answer, vanished>>
    BY <1>4 DEF ReadIndex, Then, QuietGit, gitVars, Quiet
  <2>2. Stays("index") /\ Whole(capture') /\ capture'.left = capture.left \ {n}
    BY <1>1, <2>1 DEF GitInv, ReaderOK, Stays, Whole
  <2>3. LookOK'
    <3>1. /\ capture.oid \in Reachable(capture.commit)
          /\ capture.left \subseteq DOMAIN packs
          /\ capture.oid \in Stored(capture.commit) => \E j \in capture.left : capture.oid \in packs[j].holds
      BY <1>1 DEF GitInv, LookOK
    <3>2. capture.oid \in Stored(capture.commit) => \E j \in capture.left \ {n} : capture.oid \in packs[j].holds
      BY <1>4, <3>1
    <3>3. packs' = packs
      BY <2>1 DEF Quiet
    <3>4. QED
      BY <2>2, <3>1, <3>2, <3>3 DEF LookOK, Stays
  <2>4. QED
    BY <1>1, <2>1, <2>2, <2>3, LookStep
<1>5. QED
  BY <1>2, <1>3, <1>4

LEMMA NotPackedKeeps ==
  ASSUME GitInv, NotPacked
  PROVE  GitInv'
<1>1. /\ capture.at = "index" /\ capture.left = {} /\ capture.at \in AtObject
      /\ capture' = [capture EXCEPT !.at = "absent"]
      /\ Quiet /\ UNCHANGED <<answer, vanished>>
  BY DEF NotPacked, Then, AbsentHere, QuietGit, gitVars, Quiet, AtObject
<1>2. Stays("absent") /\ Whole(capture')
  BY <1>1 DEF GitInv, ReaderOK, Stays, Whole
<1>3. Reachable(capture.commit) \cap Elsewhere # {}
  <2>1. capture.oid \in Reachable(capture.commit) /\ capture.oid \notin Stored(capture.commit)
    BY <1>1 DEF GitInv, LookOK
  <2>2. QED
    BY <2>1 DEF Stored
<1>4. Partial(capture.commit)' /\ vanished' \in BOOLEAN
  BY <1>1, <1>3 DEF Partial, GitInv, ReaderOK
<1>5. QED
  BY <1>1, <1>2, <1>4, AbsentStep

---------------------------------------------------------------------------
(* What the reader does with the object. *)

LEMMA SamePurpose ==
  ASSUME GitInv, Quiet, UNCHANGED vanished, capture.at \in AtObject \cup Concluding,
         capture'.doing = capture.doing, capture'.commit = capture.commit,
         capture'.path = capture.path
  PROVE  PurposeOK'
<1>1. Previous' = Previous /\ \A c : Partial(c)' <=> Partial(c)
  BY QuietKeeps DEF GitInv, Partial
<1>2. QED
  BY <1>1 DEF GitInv, PurposeOK, Quiet

\* On to another object, or to a conclusion.
LEMMA OnwardStep ==
  ASSUME GitInv, Quiet, UNCHANGED <<answer, vanished>>, capture.at # "idle",
         Whole(capture'), capture'.at \in {"look"} \cup Concluding,
         capture'.at = "look" => capture'.oid \in Reachable(capture'.commit),
         PurposeOK', ResolveOK', SearchOK', ConclusionOK'
  PROVE  GitInv'
<1>1. StoreOK' /\ Tip' = Tip
  BY QuietKeeps DEF GitInv
<1>2. ReaderOK' /\ CaptureIsTrue'
  <2>1. capture'.at \in AtBranch \cup AtObject \cup Concluding /\ vanished' \in BOOLEAN
    BY DEF AtObject, GitInv, ReaderOK
  <2>2. QED
    BY <2>1, ReaderKept DEF GitInv
<1>3. HeadsOK'
  BY <1>1 DEF GitInv, HeadsOK, Quiet, Concluding
<1>4. LookOK'
  BY DEF LookOK, Concluding, AtObject
<1>5. QED
  BY <1>1, <1>2, <1>3, <1>4 DEF GitInv

LEMMA KindsOfReachable ==
  ASSUME NEW c \in Commit, NEW o \in Reachable(c)
  PROVE  /\ Object[o].kind = "commit" <=> o = c
         /\ o \in OidsOf("commit") \cup Trees \cup OidsOf("blob")
<1>1. \A t \in TreesAt(c, 0) \cup TreesAt(c, 1) \cup TreesAt(c, 2) : t \in Trees
  BY TreesOfCommit
<1>2. ASSUME NEW t \in Trees, NEW e \in Entries(t)
      PROVE  e.oid \in Trees \cup OidsOf("blob")
  BY <1>2, GitAssumption DEF Trees
<1>3. o = c \/ o \in Trees \cup OidsOf("blob")
  BY <1>1, <1>2 DEF Reachable
<1>4. QED
  BY <1>3 DEF OidsOf, Commit, Trees

\* Where it is, but for the packs.
Becomes(r) ==
  /\ capture'.at = r.at /\ capture'.doing = r.doing
  /\ capture'.commit = r.commit /\ capture'.oid = r.oid
  /\ capture'.path = r.path /\ capture'.rest = r.rest
  /\ capture'.mode = r.mode /\ capture'.dir = r.dir
  /\ capture'.pending = r.pending /\ capture'.found = r.found
  /\ Whole(capture')

LEMMA CommitRead ==
  ASSUME GitInv, Quiet, UNCHANGED <<answer, vanished>>, capture.at \in AtObject,
         capture.oid = capture.commit,
         Becomes([Fetch(Object[capture.oid].tree)
                    EXCEPT !.dir = <<>>, !.pending = {}, !.found = {}])
  PROVE  GitInv'
<1> DEFINE c == capture.commit
           root == Object[c].tree
<1>1. /\ capture'.at = "look" /\ capture'.doing = capture.doing
      /\ capture'.commit = c /\ capture'.oid = root
      /\ capture'.path = capture.path /\ capture'.rest = capture.rest
      /\ capture'.dir = <<>> /\ capture'.pending = {} /\ capture'.found = {}
      /\ Whole(capture')
  BY DEF Becomes, Fetch, GitInv, ReaderOK
<1>2. c \in Commit /\ capture.path \in Paths /\ capture.doing \in {"resolve", "search", "again"}
  BY DEF GitInv, PurposeOK, HeadsOK
<1>3. root \in TreesAt(c, 0) /\ root \in Reachable(c) /\ root \in Trees /\ root # c
  BY <1>2, ReachableTyped, GitAssumption DEF Trees, Commit, OidsOf
<1>4. Previous' = Previous /\ capture.at # "idle"
  BY QuietKeeps DEF GitInv, AtObject
<1>5. FilesAt(0)[root] = FilesOf(c)
  BY DEF FilesAt, FilesOf
<1> HIDE DEF root
<1>6. ResolveOK'
  <2>1. SUFFICES ASSUME capture.doing # "search"
                 PROVE  ResolveOK'
    BY <1>1 DEF ResolveOK
  <2>2. capture.rest = capture.path
    BY <2>1 DEF GitInv, ResolveOK
  <2>3. capture.path \in Seq(EntryName) /\ Len(capture.path) \in 1..3 /\ capture.path # <<>>
    <3>1. capture.path \in Seq(EntryName) /\ Len(capture.path) \in 1..3
      BY <1>2 DEF Paths
    <3>2. Len(<<>>) = 0 /\ 0 \notin 1..3
      OBVIOUS
    <3>3. capture.path # <<>>
      BY <3>1, <3>2, Zenon
    <3>4. QED
      BY <3>1, <3>3
  <2>4. Depth' = 0
    BY <1>1, <2>2, <2>3 DEF Depth
  <2>5. QED
    BY <1>1, <1>3, <1>5, <2>2, <2>3, <2>4 DEF ResolveOK
<1>7. SearchOK'
  <2>1. <<<<>>, root>> \in Directories(c)
    <3>1. Len(<<>>) = 0 /\ <<>> \in Seq(EntryName) /\ 0 \in 0..2
      OBVIOUS
    <3>2. QED
      BY <1>3, <3>1 DEF Directories
  <2>2. IsFiniteSet({})
    BY FS_EmptySet
  <2>3. PathsOf(c, Previous.blob) =
          {} \cup Placed(<<>>, root, Previous.blob)
             \cup (UNION {Placed(d[1], d[2], Previous.blob) : d \in {}})
    BY <1>2, PlacedFromRoot DEF root
  <2>4. QED
    BY <1>1, <1>4, <2>1, <2>2, <2>3 DEF SearchOK
<1>8. PurposeOK'
  BY <1>1, SamePurpose
<1>9. ConclusionOK'
  BY <1>1 DEF ConclusionOK
<1>10. QED
  BY <1>1, <1>3, <1>4, <1>6, <1>7, <1>8, <1>9, OnwardStep

LEMMA Handful ==
  ASSUME NEW t \in Trees, NEW S \in SUBSET DOMAIN Object[t].at, NEW dir
  PROVE  IsFiniteSet({Append(dir, n) : n \in S})
<1> DEFINE T == {Append(dir, n) : n \in S}
           f == [n \in S |-> Append(dir, n)]
<1>1. IsFiniteSet(S)
  BY GitAssumption, FS_Subset DEF Trees
<1>2. f \in [S -> T] /\ \A x \in T : \E n \in S : f[n] = x
  OBVIOUS
<1>3. f \in Surjection(S, T)
  BY <1>2, Fun_IsSurj
<1>4. QED
  BY <1>1, <1>3, FS_Surjection

\* What a directory adds to the search.
FoundIn(t, dir, blob) ==
  {Append(dir, n) : n \in {m \in DOMAIN Object[t].at :
                             Object[t].at[m].mode = "file" /\ Object[t].at[m].oid = blob}}
DirsIn(t, dir) ==
  {<<Append(dir, n), Object[t].at[n].oid>> :
     n \in {m \in DOMAIN Object[t].at : Object[t].at[m].mode = "tree"}}
ToVisit == capture.pending \cup DirsIn(capture.oid, capture.dir)
FoundNow == capture.found \cup FoundIn(capture.oid, capture.dir, Previous.blob)

LEMMA ScanIs == Scan = Visited(ToVisit, FoundNow)
<1>1. {name \in {n \in DOMAIN Object[capture.oid].at : Object[capture.oid].at[n].mode = "file"} :
         Object[capture.oid].at[name].oid = Previous.blob}
        = {m \in DOMAIN Object[capture.oid].at :
             Object[capture.oid].at[m].mode = "file" /\ Object[capture.oid].at[m].oid = Previous.blob}
  OBVIOUS
<1>2. QED
  BY <1>1 DEF Scan, ToVisit, FoundNow, FoundIn, DirsIn

LEMMA SearchedHere ==
  ASSUME NEW c \in Commit, NEW d \in Directories(c), NEW blob
  PROVE  /\ DirsIn(d[2], d[1]) \subseteq Directories(c)
         /\ IsFiniteSet(FoundIn(d[2], d[1], blob))
         /\ Placed(d[1], d[2], blob) =
              FoundIn(d[2], d[1], blob)
              \cup (UNION {Placed(e[1], e[2], blob) : e \in DirsIn(d[2], d[1])})
<1> DEFINE dir == d[1]
           t == d[2]
           at == Object[t].at
           Names == {m \in DOMAIN at : at[m].mode = "tree"}
<1>1. dir \in Seq(EntryName) /\ t \in Trees /\ Len(dir) \in 0..2 /\ t \in TreesAt(c, Len(dir))
  BY DEF Directories
<1>2. ASSUME NEW n \in Names
      PROVE  <<Append(dir, n), at[n].oid>> \in Directories(c)
  <2>1. Len(dir) <= 1 /\ at[n].oid \in TreesAt(c, Len(dir) + 1)
    BY <1>1, <1>2, EntryOfCommit
  <2>2. n \in EntryName /\ at[n].oid \in Trees
    BY <1>1, <1>2, NamesAreNames, OneEntry
  <2>3. Append(dir, n) \in Seq(EntryName) /\ Len(Append(dir, n)) = Len(dir) + 1
    BY <1>1, <2>2, AppendProperties
  <2>4. Len(dir) + 1 \in 0..2
    BY <1>1, <2>1
  <2> HIDE DEF dir, t
  <2>5. QED
    BY <2>1, <2>2, <2>3, <2>4 DEF Directories
<1>3. DirsIn(t, dir) = {<<Append(dir, n), at[n].oid>> : n \in Names}
  BY DEF DirsIn
<1>4. DirsIn(t, dir) \subseteq Directories(c)
  <2> HIDE DEF dir, t, at, Names
  <2>1. QED
    BY <1>2, <1>3
<1>5. IsFiniteSet(FoundIn(t, dir, blob))
  <2>1. {m \in DOMAIN at : at[m].mode = "file" /\ at[m].oid = blob} \in SUBSET DOMAIN at
    OBVIOUS
  <2>2. QED
    BY <1>1, <2>1, Handful DEF FoundIn
<1>6. Placed(dir, t, blob) =
        FoundIn(t, dir, blob) \cup (UNION {Placed(Append(dir, n), at[n].oid, blob) : n \in Names})
  BY <1>1, PlacedStep DEF FoundIn
<1>7. {Placed(Append(dir, n), at[n].oid, blob) : n \in Names}
        = {Placed(e[1], e[2], blob) : e \in DirsIn(t, dir)}
  <2> HIDE DEF dir, t, at, Names
  <2>1. \A n \in Names : LET e == <<Append(dir, n), at[n].oid>> IN
          Placed(e[1], e[2], blob) = Placed(Append(dir, n), at[n].oid, blob)
    OBVIOUS
  <2>2. \A x : (\E n \in Names : x = Placed(Append(dir, n), at[n].oid, blob))
                <=> \E e \in DirsIn(t, dir) : x = Placed(e[1], e[2], blob)
    BY <1>3, <2>1
  <2>3. QED
    BY <2>2
<1>8. QED
  BY <1>4, <1>5, <1>6, <1>7

LEMMA SearchRead ==
  ASSUME GitInv, Quiet, UNCHANGED <<answer, vanished>>, capture.at \in AtObject,
         capture.oid # capture.commit, capture.doing = "search", Becomes(Scan)
  PROVE  GitInv'
<1> DEFINE c == capture.commit
           blob == Previous.blob
           here == <<capture.dir, capture.oid>>
           Lying(d) == Placed(d[1], d[2], blob)
<1>1. c \in Commit
  BY DEF GitInv, PurposeOK, HeadsOK
<1>2. /\ here \in Directories(c) /\ capture.pending \subseteq Directories(c)
      /\ IsFiniteSet(capture.found)
      /\ PathsOf(c, blob) = capture.found \cup Lying(here) \cup (UNION {Lying(d) : d \in capture.pending})
  BY DEF GitInv, SearchOK
<1>3. here[1] = capture.dir /\ here[2] = capture.oid
  OBVIOUS
<1>4. /\ DirsIn(capture.oid, capture.dir) \subseteq Directories(c)
      /\ IsFiniteSet(FoundIn(capture.oid, capture.dir, blob))
      /\ Lying(here) = FoundIn(capture.oid, capture.dir, blob)
                         \cup (UNION {Lying(e) : e \in DirsIn(capture.oid, capture.dir)})
  <2> HIDE DEF c, blob, here
  <2>1. QED
    BY <1>1, <1>2, <1>3, SearchedHere
<1>5. ToVisit \subseteq Directories(c)
  BY <1>2, <1>4 DEF ToVisit
<1>6. IsFiniteSet(FoundNow)
  BY <1>2, <1>4, FS_Union DEF FoundNow
<1>7. PathsOf(c, blob) = FoundNow \cup (UNION {Lying(d) : d \in ToVisit})
  <2>1. UNION {Lying(d) : d \in ToVisit} =
          (UNION {Lying(d) : d \in capture.pending})
          \cup (UNION {Lying(e) : e \in DirsIn(capture.oid, capture.dir)})
    <3> HIDE DEF Lying
    <3>1. QED
      BY DEF ToVisit
  <2> HIDE DEF Lying, here
  <2>2. QED
    BY <1>2, <1>4, <2>1 DEF FoundNow
<1>8. Becomes(Visited(ToVisit, FoundNow))
  BY ScanIs
<1>9. Previous' = Previous /\ capture.at # "idle"
  BY QuietKeeps DEF GitInv, AtObject
<1>10. CASE ToVisit = {}
  <2>1. /\ capture'.at = "decide" /\ capture'.found = FoundNow /\ capture'.doing = "search"
        /\ capture'.commit = c /\ capture'.path = capture.path /\ Whole(capture')
    BY <1>8, <1>10 DEF Becomes, Visited, GitInv, ReaderOK
  <2>2. FoundNow = PathsOf(c, blob)
    <3> HIDE DEF Lying, blob, c
    <3>1. QED
      BY <1>7, <1>10
  <2>3. ConclusionOK'
    BY <1>6, <1>9, <2>1, <2>2 DEF ConclusionOK
  <2>4. ResolveOK' /\ SearchOK'
    BY <2>1 DEF ResolveOK, SearchOK, AtObject
  <2>5. PurposeOK'
    BY <2>1, SamePurpose
  <2>6. capture'.at \in Concluding /\ capture'.at # "look"
    BY <2>1 DEF Concluding
  <2>7. QED
    BY <1>9, <2>1, <2>3, <2>4, <2>5, <2>6, OnwardStep
<1>11. CASE ToVisit # {}
  <2> DEFINE d == CHOOSE d \in ToVisit : TRUE
  <2>1. d \in ToVisit
    BY <1>11
  <2>2. Visited(ToVisit, FoundNow) =
          [Fetch(d[2]) EXCEPT !.dir = d[1], !.pending = ToVisit \ {d}, !.found = FoundNow]
    BY <1>11 DEF Visited
  <2> HIDE DEF d
  <2>3. /\ capture'.at = "look" /\ capture'.found = FoundNow /\ capture'.doing = "search"
        /\ capture'.commit = c /\ capture'.path = capture.path /\ Whole(capture')
        /\ capture'.dir = d[1] /\ capture'.oid = d[2] /\ capture'.pending = ToVisit \ {d}
    BY <1>8, <2>2 DEF Becomes, Fetch, GitInv, ReaderOK
  <2>4. d \in Directories(c) /\ d = <<d[1], d[2]>> /\ Len(d[1]) \in 0..2
        /\ d[2] \in TreesAt(c, Len(d[1])) /\ d[2] \in Trees
    BY <1>5, <2>1 DEF Directories
  <2>5. d[2] \in Reachable(c)
    <3>1. \A k \in 0..2 : TreesAt(c, k) \subseteq Reachable(c)
      BY DEF Reachable, TreesAt
    <3>2. QED
      BY <2>4, <3>1
  <2>6. PathsOf(c, blob) = FoundNow \cup Lying(d) \cup (UNION {Lying(e) : e \in ToVisit \ {d}})
    <3>1. UNION {Lying(e) : e \in ToVisit} = Lying(d) \cup (UNION {Lying(e) : e \in ToVisit \ {d}})
      <4> HIDE DEF Lying
      <4>1. QED
        BY <2>1
    <3> HIDE DEF Lying
    <3>2. QED
      BY <1>7, <3>1
  <2>7. SearchOK'
    <3>1. <<d[1], d[2]>> \in Directories(c) /\ ToVisit \ {d} \subseteq Directories(c)
      BY <1>5, <2>4
    <3>2. PathsOf(c, blob) = FoundNow \cup Placed(d[1], d[2], blob)
                               \cup (UNION {Placed(e[1], e[2], blob) : e \in ToVisit \ {d}})
      BY <2>6
    <3> HIDE DEF c, Lying
    <3>3. QED
      BY <1>6, <1>9, <2>3, <3>1, <3>2 DEF SearchOK
  <2>8. ResolveOK' /\ ConclusionOK'
    BY <2>3 DEF ResolveOK, ConclusionOK
  <2>9. PurposeOK'
    BY <2>3, SamePurpose
  <2>10. QED
    BY <1>9, <2>3, <2>5, <2>7, <2>8, <2>9, OnwardStep
<1>12. QED
  BY <1>10, <1>11

\* No file at the path that it resolves: there is none at that of the previous
\* version, or, where the blob was found, that cannot be.
LEMMA NothingThere ==
  ASSUME GitInv, Quiet, UNCHANGED <<answer, vanished>>, capture.at \in AtObject,
         capture.doing # "search", Becomes(AbsentHere),
         \A b : <<capture.path, b>> \notin FilesOf(capture.commit)
  PROVE  GitInv'
<1> DEFINE c == capture.commit
<1>1. /\ capture'.at = "absent" /\ capture'.doing = capture.doing
      /\ capture'.commit = c /\ capture'.path = capture.path /\ Whole(capture')
  BY DEF Becomes, AbsentHere, GitInv, ReaderOK
<1>2. Previous' = Previous /\ capture.at # "idle" /\ \A d : Partial(d)' <=> Partial(d)
  BY QuietKeeps DEF GitInv, AtObject, Partial
<1>3. /\ c \in Commit
      /\ capture.doing # "again" => capture.path = Previous.path
      /\ capture.doing = "again" => PathsOf(c, Previous.blob) = {capture.path}
  BY DEF GitInv, PurposeOK, HeadsOK
<1>4. ~IsFile(c, capture.path)
  BY <1>3, FilesOfCommit DEF IsFile
<1>5. capture.doing # "again"
  <2>1. PathsOf(c, Previous.blob) # {capture.path}
    BY <1>4 DEF PathsOf, IsFile
  <2>2. QED
    BY <1>3, <2>1
<1>6. capture.doing = "resolve"
  BY <1>5 DEF GitInv, PurposeOK
<1>7. ConclusionOK'
  BY <1>1, <1>2, <1>3, <1>4, <1>6 DEF ConclusionOK
<1>8. ResolveOK' /\ SearchOK' /\ PurposeOK'
  BY <1>1, SamePurpose DEF ResolveOK, SearchOK, AtObject
<1>9. capture'.at \in Concluding /\ capture'.at # "look"
  BY <1>1 DEF Concluding
<1>10. QED
  BY <1>1, <1>2, <1>7, <1>8, <1>9, OnwardStep

LEMMA EndOfPath ==
  ASSUME GitInv, Quiet, UNCHANGED <<answer, vanished>>, capture.at \in AtObject,
         capture.oid # capture.commit, capture.doing # "search", capture.rest = <<>>,
         Becomes(Conclude)
  PROVE  GitInv'
<1> DEFINE c == capture.commit
           regular == Object[capture.oid].kind = "blob" /\ capture.mode = "file"
<1>1. \A b : <<capture.path, b>> \in FilesOf(c) <=> capture.mode = "file" /\ b = capture.oid
  BY DEF GitInv, ResolveOK
<1>2. c \in Commit
  BY DEF GitInv, PurposeOK, HeadsOK
<1>3. CASE regular
  <2>1. /\ capture'.at = "store" /\ capture'.doing = capture.doing
        /\ capture'.commit = c /\ capture'.path = capture.path /\ capture'.oid = capture.oid
        /\ Whole(capture')
    BY <1>3 DEF Becomes, Conclude, GitInv, ReaderOK
  <2>2. ConclusionOK'
    <3>1. \A b : <<capture.path, b>> \in FilesOf(c) <=> b = capture.oid
      BY <1>1, <1>3
    <3>2. QED
      BY <2>1, <3>1 DEF ConclusionOK
  <2>3. ResolveOK' /\ SearchOK' /\ PurposeOK'
    BY <2>1, SamePurpose DEF ResolveOK, SearchOK, AtObject
  <2>4. capture'.at \in Concluding /\ capture'.at # "look" /\ capture.at # "idle"
    BY <2>1 DEF Concluding, AtObject
  <2>5. QED
    BY <2>1, <2>2, <2>3, <2>4, OnwardStep
<1>4. CASE ~regular
  <2>1. Becomes(AbsentHere)
    BY <1>4 DEF Conclude
  <2>2. ASSUME NEW b
        PROVE  <<capture.path, b>> \notin FilesOf(c)
    <3>1. SUFFICES ASSUME <<capture.path, b>> \in FilesOf(c)
                   PROVE  FALSE
      OBVIOUS
    <3>2. capture.mode = "file" /\ b = capture.oid
      BY <1>1, <3>1
    <3>3. <<capture.path, b>>[2] \in OidsOf("blob")
      BY <1>2, <3>1, FilesOfCommit
    <3>4. QED
      BY <1>4, <3>2, <3>3 DEF OidsOf
  <2>3. QED
    BY <2>1, <2>2, NothingThere
<1>5. QED
  BY <1>3, <1>4

LEMMA Descending ==
  ASSUME GitInv, Quiet, UNCHANGED <<answer, vanished>>, capture.at \in AtObject,
         capture.oid # capture.commit, capture.doing # "search", capture.rest # <<>>,
         Becomes(Descend)
  PROVE  GitInv'
<1> DEFINE c == capture.commit
           t == capture.oid
           p == capture.rest
           at == Object[t].at
           name == Head(p)
           last == Len(p) = 1
           Is(b) == <<capture.path, b>> \in FilesOf(c)
<1>1. /\ p \in Seq(EntryName) /\ Depth \in 0..2 /\ t \in TreesAt(c, Depth)
      /\ \A b : Is(b) <=> <<p, b>> \in FilesAt(Depth)[t]
  BY DEF GitInv, ResolveOK
<1>2. c \in Commit /\ capture.path \in Paths
  BY DEF GitInv, PurposeOK, HeadsOK
<1>3. t \in Trees
  BY <1>1, <1>2, TreesOfCommit
<1>4. \A b : Is(b) <=> Leads(p, t, Depth, b)
  BY <1>1, <1>3, AlongPath
<1>5. CASE name \notin DOMAIN at \/ (~last /\ at[name].mode # "tree") \/ (last /\ at[name].mode = "link")
  <2>1. Becomes(AbsentHere)
    BY <1>5 DEF Descend
  <2>2. \A b : ~Leads(p, t, Depth, b)
    BY <1>5 DEF Leads
  <2>3. QED
    BY <1>4, <2>1, <2>2, NothingThere
<1>6. CASE /\ name \in DOMAIN at /\ (last \/ at[name].mode = "tree")
           /\ ~(last /\ at[name].mode = "link")
  <2> DEFINE e == at[name]
  <2>1. Descend = [Fetch(e.oid) EXCEPT !.rest = Tail(p), !.mode = e.mode]
    BY <1>6 DEF Descend
  <2>2. /\ capture'.at = "look" /\ capture'.doing = capture.doing
        /\ capture'.commit = c /\ capture'.path = capture.path
        /\ capture'.oid = e.oid /\ capture'.rest = Tail(p) /\ capture'.mode = e.mode
        /\ Whole(capture')
    <3> HIDE DEF e
    <3>1. QED
      BY <2>1 DEF Becomes, Fetch, GitInv, ReaderOK
  <2>3. /\ e.oid \in Reachable(c)
        /\ e.mode = "tree" => Depth <= 1 /\ e.oid \in TreesAt(c, Depth + 1)
    BY <1>1, <1>2, <1>6, EntryOfCommit
  <2>4. e.oid # c
    <3>1. e.oid \in Trees \cup OidsOf("blob")
      BY <1>3, <1>6, OneEntry
    <3>2. QED
      BY <1>2, <3>1 DEF Trees, OidsOf, Commit
  <2>5. /\ Tail(p) \in Seq(EntryName) /\ Len(p) = 1 + Len(Tail(p)) /\ (Tail(p) = <<>> <=> last)
        /\ Len(p) \in Nat /\ Len(Tail(p)) \in Nat /\ Len(capture.path) \in Nat
    BY <1>1, <1>2, FirstAndRest, LenProperties DEF Paths
  <2>6. Depth' = Depth + 1
    BY <2>2, <2>5 DEF Depth
  <2>7. ResolveOK'
    <3>1. Tail(p) \in Seq(EntryName) /\ Depth + 1 \in 0..3
      BY <1>1, <2>5
    <3>2. ASSUME Tail(p) # <<>>
          PROVE  /\ e.oid \in TreesAt(c, Depth + 1) /\ Depth + 1 <= 2
                 /\ \A b : Is(b) <=> <<Tail(p), b>> \in FilesAt(Depth + 1)[e.oid]
      <4>1. ~last /\ e.mode = "tree"
        BY <1>6, <2>5, <3>2
      <4>2. \A b : Leads(p, t, Depth, b) <=> <<Tail(p), b>> \in FilesAt(Depth + 1)[e.oid]
        BY <1>6, <4>1 DEF Leads
      <4>3. Depth + 1 <= 2
        BY <1>1, <2>3, <4>1
      <4>4. QED
        BY <1>4, <2>3, <4>1, <4>2, <4>3
    <3>3. ASSUME Tail(p) = <<>>
          PROVE  \A b : Is(b) <=> e.mode = "file" /\ b = e.oid
      <4>1. last
        BY <2>5, <3>3
      <4>2. \A b : Leads(p, t, Depth, b) <=> e.mode = "file" /\ b = e.oid
        BY <1>6, <4>1 DEF Leads
      <4>3. QED
        BY <1>4, <4>2
    <3> HIDE DEF e, t, p, at, name, last
    <3>4. QED
      BY <2>2, <2>4, <2>6, <3>1, <3>2, <3>3 DEF ResolveOK
  <2>8. SearchOK' /\ ConclusionOK' /\ PurposeOK' /\ capture.at # "idle"
    BY <2>2, SamePurpose DEF SearchOK, ConclusionOK, AtObject
  <2>9. QED
    BY <2>2, <2>3, <2>7, <2>8, OnwardStep
<1>7. QED
  BY <1>5, <1>6

\* Any object that is read.
LEMMA ObjectRead ==
  ASSUME GitInv, Quiet, UNCHANGED <<answer, vanished>>, capture.at \in AtObject,
         Becomes(Interpreted)
  PROVE  GitInv'
<1>1. Object[capture.oid].kind = "commit" <=> capture.oid = capture.commit
  <2>1. capture.commit \in Commit /\ capture.oid \in Reachable(capture.commit)
    BY DEF GitInv, PurposeOK, HeadsOK, LookOK
  <2>2. QED
    BY <2>1, KindsOfReachable
<1>2. CASE capture.oid = capture.commit
  BY <1>1, <1>2, CommitRead DEF Interpreted
<1>3. CASE capture.oid # capture.commit /\ capture.doing = "search"
  BY <1>1, <1>3, SearchRead DEF Interpreted
<1>4. CASE capture.oid # capture.commit /\ capture.doing # "search"
  BY <1>1, <1>4, EndOfPath, Descending DEF Interpreted
<1>5. QED
  BY <1>2, <1>3, <1>4

\* What is interpreted is as whole as what the reader had.
LEMMA InterpretedWhole ==
  ASSUME ReaderOK, NEW r, r \in {Interpreted, [Interpreted EXCEPT !.pack = NoPack]},
         capture' = r
  PROVE  Becomes(Interpreted)
<1> DEFINE i == Interpreted
<1>1. Whole(capture)
  BY DEF ReaderOK, Whole
<1>2. Whole(AbsentHere) /\ Whole(Conclude)
  BY <1>1 DEF Whole, AbsentHere, Conclude
<1>3. \A o : Whole(Fetch(o))
  <2>1. ASSUME NEW o, NEW x, x = Fetch(o)
        PROVE  Whole(x)
    BY <1>1, <2>1 DEF Whole, Fetch
  <2>2. QED
    BY <2>1
<1>4. \A r0, rest, mode : Whole(r0) => Whole([r0 EXCEPT !.rest = rest, !.mode = mode])
  <2>1. ASSUME NEW r0, Whole(r0), NEW rest, NEW mode, NEW x,
               x = [r0 EXCEPT !.rest = rest, !.mode = mode]
        PROVE  Whole(x)
    BY <2>1 DEF Whole
  <2>2. QED
    BY <2>1
<1>5. \A r0, dir, pending, found : Whole(r0) =>
        /\ Whole([r0 EXCEPT !.dir = dir, !.pending = pending, !.found = found])
        /\ Whole([r0 EXCEPT !.at = "decide", !.found = found])
  <2>1. ASSUME NEW r0, Whole(r0), NEW dir, NEW pending, NEW found, NEW x,
               \/ x = [r0 EXCEPT !.dir = dir, !.pending = pending, !.found = found]
               \/ x = [r0 EXCEPT !.at = "decide", !.found = found]
        PROVE  Whole(x)
    BY <2>1 DEF Whole
  <2>2. QED
    BY <2>1
<1>6. Whole(Descend)
  BY <1>2, <1>3, <1>4 DEF Descend
<1>7. \A pending, found : Whole(Visited(pending, found))
  BY <1>1, <1>3, <1>5 DEF Visited
<1>8. Whole(Scan)
  BY <1>7, ScanIs
<1>9. Whole(i)
  BY <1>2, <1>3, <1>5, <1>6, <1>8 DEF Interpreted
<1> HIDE DEF i
<1>10. r = i \/ r = [i EXCEPT !.pack = NoPack]
  BY DEF i
<1>11. Becomes(i)
  BY <1>9, <1>10 DEF Becomes, Whole
<1>12. QED
  BY <1>11 DEF i

LEMMA ReadLooseKeeps ==
  ASSUME GitInv, ReadLoose
  PROVE  GitInv'
<1>1. capture.at \in AtObject
  BY DEF ReadLoose, AtObject
<1>2. CASE capture.oid \in loose
  <2>1. capture' = Interpreted /\ Quiet /\ UNCHANGED <<answer, vanished>>
    BY <1>2 DEF ReadLoose, Then, QuietGit, gitVars, Quiet
  <2>2. Becomes(Interpreted)
    BY <2>1, InterpretedWhole DEF GitInv
  <2>3. QED
    BY <1>1, <2>1, <2>2, ObjectRead
<1>3. CASE capture.oid \notin loose
  BY <1>1, <1>3, VanishesKeeps DEF ReadLoose
<1>4. QED
  BY <1>2, <1>3

LEMMA ReadDataKeeps ==
  ASSUME GitInv, ReadData
  PROVE  GitInv'
<1>1. capture.at \in AtObject
  BY DEF ReadData, AtObject
<1>2. CASE packs[capture.pack].data
  <2>1. capture' = [Interpreted EXCEPT !.pack = NoPack] /\ Quiet /\ UNCHANGED <<answer, vanished>>
    BY <1>2 DEF ReadData, Then, QuietGit, gitVars, Quiet
  <2>2. Becomes(Interpreted)
    BY <2>1, InterpretedWhole DEF GitInv
  <2>3. QED
    BY <1>1, <2>1, <2>2, ObjectRead
<1>3. CASE ~packs[capture.pack].data
  BY <1>1, <1>3, VanishesKeeps DEF ReadData
<1>4. QED
  BY <1>2, <1>3

---------------------------------------------------------------------------
(* The end of a capture. *)

LEMMA EndsKeeps ==
  ASSUME GitInv, NEW outcome, Ends(outcome), vanished' \in BOOLEAN, CaptureIsTrue'
  PROVE  GitInv'
<1>1. /\ UNCHANGED <<branch, loose, packs, heads>> /\ capture' = Idle
      /\ fileVersions' = fileVersions
  BY DEF Ends, gitVars
<1>2. fileVersions' \in Seq(VersionShape) /\ Len(fileVersions') > 0
  BY <1>1 DEF GitInv, ReaderOK
<1>3. QED
  BY <1>1, <1>2, IdleStep

LEMMA LookPackKeeps ==
  ASSUME GitInv, LookPack
  PROVE  GitInv'
<1>1. capture.at = "pack" /\ capture.at \in AtObject
  BY DEF LookPack, AtObject
<1>2. CASE packs[capture.pack].data
  <2>1. capture' = [capture EXCEPT !.at = "data"] /\ Quiet /\ UNCHANGED <<answer, vanished>>
    BY <1>2 DEF LookPack, Then, QuietGit, gitVars, Quiet
  <2>2. Stays("data") /\ Whole(capture') /\ capture'.pack = capture.pack
    BY <2>1 DEF GitInv, ReaderOK, Stays, Whole
  <2>3. LookOK'
    <3>1. capture.oid \in Reachable(capture.commit) /\ capture.pack \in DOMAIN packs'
      BY <1>1, <2>1 DEF GitInv, LookOK, Quiet
    <3>2. QED
      BY <2>2, <3>1 DEF LookOK, Stays
  <2>4. "data" \in AtObject
    BY DEF AtObject
  <2>5. QED
    BY <1>1, <2>1, <2>2, <2>3, <2>4, LookStep
<1>3. CASE ~packs[capture.pack].data
  <2>1. Ends("invalid") /\ vanished' = TRUE
    BY <1>3 DEF LookPack
  <2>2. CaptureIsTrue'
    BY <2>1 DEF Ends, Answered, CaptureIsTrue
  <2>3. QED
    BY <2>1, <2>2, EndsKeeps
<1>4. QED
  BY <1>2, <1>3

LEMMA NotFoundKeeps ==
  ASSUME GitInv, NotFound
  PROVE  GitInv'
<1>1. Ends("not_found") /\ vanished' = vanished /\ capture.at = "absent" /\ capture.doing # "resolve"
  BY DEF NotFound
<1>2. Partial(capture.commit)
  BY <1>1 DEF GitInv, ConclusionOK
<1>3. answer'.outcome = "not_found" /\ answer'.commit = capture.commit
  BY <1>1 DEF Ends, Answered
<1>4. CaptureIsTrue'
  BY <1>1, <1>2, <1>3 DEF CaptureIsTrue, Partial
<1>5. vanished' \in BOOLEAN
  BY <1>1 DEF GitInv, ReaderOK
<1>6. QED
  BY <1>1, <1>4, <1>5, EndsKeeps

LEMMA GiveUpKeeps ==
  ASSUME GitInv, GiveUp
  PROVE  GitInv'
<1>1. Ends("given_up") /\ vanished' = vanished
  BY DEF GiveUp
<1>2. CaptureIsTrue'
  BY <1>1 DEF Ends, Answered, CaptureIsTrue
<1>3. vanished' \in BOOLEAN
  BY <1>1 DEF GitInv, ReaderOK
<1>4. QED
  BY <1>1, <1>2, <1>3, EndsKeeps

LEMMA StoreVersionKeeps ==
  ASSUME GitInv, StoreVersion
  PROVE  GitInv'
<1> DEFINE c == capture.commit
<1>1. /\ capture.at = "store" /\ capture' = Idle /\ answer' = Answered("captured")
      /\ UNCHANGED <<branch, loose, packs, heads, vanished>>
  BY DEF StoreVersion, gitVars
<1>2. /\ c \in heads /\ c \in Commit /\ capture.doing # "search"
      /\ capture.path \in Paths
      /\ \A b : <<capture.path, b>> \in FilesOf(c) <=> b = capture.oid
  BY <1>1 DEF GitInv, PurposeOK, HeadsOK, ConclusionOK, Concluding
<1>3. <<capture.path, capture.oid>> \in FilesOf(c)
  BY <1>2
<1>4. capture.oid \in DOMAIN Object
  <2>1. <<capture.path, capture.oid>>[2] \in OidsOf("blob")
    BY <1>2, <1>3, FilesOfCommit
  <2>2. QED
    BY <2>1 DEF OidsOf
<1>5. fileVersions' \in Seq(VersionShape) /\ Len(fileVersions') > 0
  <2> DEFINE new == [commit |-> c, path |-> capture.path, blob |-> capture.oid]
  <2>1. new \in VersionShape
    BY <1>2, <1>4 DEF VersionShape
  <2>2. fileVersions \in Seq(VersionShape) /\ Len(fileVersions) > 0
    BY DEF GitInv, ReaderOK
  <2>3. fileVersions' = fileVersions \/ fileVersions' = Append(fileVersions, new)
    BY DEF StoreVersion
  <2> HIDE DEF new
  <2>4. QED
    BY <2>1, <2>2, <2>3, AppendProperties
<1>6. /\ answer'.outcome = "captured" /\ answer'.commit = c /\ answer'.path = capture.path
      /\ answer'.blob = capture.oid /\ answer'.from = Previous.path /\ answer'.old = Previous.blob
  BY <1>1 DEF Answered
<1>7. ASSUME capture.path # Previous.path
      PROVE  /\ ~IsFile(c, Previous.path) \/ Partial(c)
             /\ capture.oid = Previous.blob
             /\ PathsOf(c, Previous.blob) = {capture.path}
  <2>1. capture.doing = "again" /\ PathsOf(c, Previous.blob) = {capture.path}
        /\ (~IsFile(c, Previous.path) \/ Partial(c))
    BY <1>1, <1>7 DEF GitInv, PurposeOK, Concluding
  <2>2. PICK f \in FilesOf(c) : f[2] = Previous.blob /\ f[1] = capture.path
    BY <2>1 DEF PathsOf
  <2>3. f = <<capture.path, Previous.blob>>
    BY <1>2, <2>2, FilesOfCommit
  <2>4. capture.oid = Previous.blob
    BY <1>2, <2>2, <2>3
  <2>5. QED
    BY <2>1, <2>4
<1>8. CaptureIsTrue'
  <2> HIDE DEF c
  <2>1. QED
    BY <1>1, <1>2, <1>3, <1>6, <1>7 DEF CaptureIsTrue, Partial
<1>9. vanished' \in BOOLEAN
  BY <1>1 DEF GitInv, ReaderOK
<1>10. QED
  BY <1>1, <1>5, <1>8, <1>9, IdleStep

---------------------------------------------------------------------------
(* Its beginning, and the way to another path. *)

LEMMA BeginCaptureKeeps ==
  ASSUME GitInv, BeginCapture
  PROVE  GitInv'
<1>1. /\ capture' = [Idle EXCEPT !.at = "branch"] /\ answer' = NoAnswer /\ heads' = {Tip}
      /\ vanished' = FALSE /\ UNCHANGED <<branch, loose, packs, fileVersions>>
  BY DEF BeginCapture, gitVars
<1>2. LastPack' = LastPack /\ Indexed' = Indexed /\ Tip' = Tip /\ Tip \in heads
  BY <1>1 DEF LastPack, Indexed, Tip, GitInv, HeadsOK
<1>3. StoreOK'
  <2> HIDE DEF LastPack, Indexed, Tip
  <2>1. QED
    BY <1>1, <1>2 DEF GitInv, StoreOK
<1>4. capture'.at = "branch" /\ Whole(capture')
  BY <1>1 DEF Idle, Whole
<1>5. HeadsOK'
  BY <1>1, <1>2, <1>4 DEF GitInv, HeadsOK
<1>6. ReaderOK'
  BY <1>1, <1>4 DEF GitInv, ReaderOK, Whole, AtBranch, NoAnswer
<1>7. PurposeOK' /\ LookOK' /\ ResolveOK' /\ SearchOK' /\ ConclusionOK'
  BY <1>4 DEF PurposeOK, LookOK, ResolveOK, SearchOK, ConclusionOK, AtObject, Concluding
<1>8. CaptureIsTrue'
  BY <1>1, Unanswered
<1>9. QED
  BY <1>3, <1>5, <1>6, <1>7, <1>8 DEF GitInv

LEMMA LookBranchKeeps ==
  ASSUME GitInv, LookBranch
  PROVE  GitInv'
<1> DEFINE there == IF branch.loose # NoCommit THEN "loose_branch" ELSE "packed_refs"
<1>1. /\ capture.at = "branch" /\ capture' = [capture EXCEPT !.at = there]
      /\ Quiet /\ UNCHANGED <<answer, vanished>>
  BY DEF LookBranch, At, QuietGit, gitVars, Quiet
<1>2. capture'.at = there /\ Whole(capture') /\ there \in AtBranch
  BY <1>1 DEF GitInv, ReaderOK, Whole, AtBranch
<1>3. StoreOK' /\ Tip' = Tip
  BY <1>1, QuietKeeps DEF GitInv
<1>4. ReaderOK' /\ CaptureIsTrue'
  <2>1. vanished' \in BOOLEAN /\ capture.at # "idle"
    BY <1>1 DEF GitInv, ReaderOK
  <2>2. QED
    BY <1>1, <1>2, <2>1, ReaderKept DEF GitInv
<1>5. HeadsOK'
  <2>1. there = "packed_refs" => branch.packed \in heads
    BY DEF GitInv, HeadsOK, Tip
  <2> HIDE DEF there
  <2>2. QED
    BY <1>1, <1>2, <1>3, <2>1 DEF GitInv, HeadsOK, Quiet
<1>6. PurposeOK' /\ LookOK' /\ ResolveOK' /\ SearchOK' /\ ConclusionOK'
  BY <1>2 DEF PurposeOK, LookOK, ResolveOK, SearchOK, ConclusionOK, AtObject, AtBranch, Concluding
<1>7. QED
  BY <1>3, <1>4, <1>5, <1>6 DEF GitInv

\* It sets out to resolve, or to search, at the commit.
LEMMA ResolvingStep ==
  ASSUME GitInv, Quiet, UNCHANGED <<answer, vanished>>, capture.at # "idle",
         NEW doing \in {"resolve", "search", "again"}, NEW c \in heads, NEW p \in Paths,
         capture' = Resolving(doing, c, p),
         doing # "again" => p = Previous.path,
         doing # "resolve" => ~IsFile(c, Previous.path) \/ Partial(c),
         doing = "again" => PathsOf(c, Previous.blob) = {p}
  PROVE  GitInv'
<1>1. /\ capture'.at = "look" /\ capture'.doing = doing /\ capture'.commit = c
      /\ capture'.oid = c /\ capture'.path = p /\ capture'.rest = p /\ Whole(capture')
  BY DEF Resolving, GitInv, ReaderOK, Whole
<1>2. Previous' = Previous /\ \A d : Partial(d)' <=> Partial(d)
  BY QuietKeeps DEF GitInv, Partial
<1>3. c \in Reachable(c)
  BY ReachableTyped DEF GitInv, HeadsOK
<1>4. PurposeOK'
  BY <1>1, <1>2 DEF PurposeOK, Quiet
<1>5. ResolveOK' /\ SearchOK' /\ ConclusionOK'
  BY <1>1 DEF ResolveOK, SearchOK, ConclusionOK
<1>6. QED
  BY <1>1, <1>3, <1>4, <1>5, OnwardStep

LEMMA PreviousTyped ==
  ASSUME ReaderOK
  PROVE  Previous.path \in Paths
<1>1. Previous \in VersionShape
  BY ElementOfSeq, LenProperties DEF ReaderOK, Previous
<1>2. QED
  BY <1>1 DEF VersionShape

LEMMA ReadBranchKeeps ==
  ASSUME GitInv, ReadBranch
  PROVE  GitInv'
<1> DEFINE c == IF capture.at = "loose_branch" THEN branch.loose ELSE branch.packed
<1>1. capture.at \in {"loose_branch", "packed_refs"}
  BY DEF ReadBranch
<1>2. CASE c # NoCommit
  <2>1. /\ capture' = Resolving("resolve", c, Previous.path)
        /\ Quiet /\ UNCHANGED <<answer, vanished>>
    BY <1>2 DEF ReadBranch, QuietGit, gitVars, Quiet
  <2>2. c \in heads
    BY <1>1, <1>2 DEF GitInv, HeadsOK, Tip
  <2>3. Previous.path \in Paths
    BY PreviousTyped DEF GitInv
  <2> HIDE DEF c
  <2>4. QED
    BY <1>1, <2>1, <2>2, <2>3, ResolvingStep
<1>3. CASE c = NoCommit
  <2>1. Ends("not_found") /\ vanished' = TRUE
    BY <1>3 DEF ReadBranch
  <2>2. CaptureIsTrue'
    BY <2>1 DEF Ends, Answered, CaptureIsTrue
  <2>3. QED
    BY <2>1, <2>2, EndsKeeps
<1>4. QED
  BY <1>2, <1>3

LEMMA RelocateKeeps ==
  ASSUME GitInv, Relocate
  PROVE  GitInv'
<1>1. /\ capture.at = "absent" /\ capture.doing = "resolve"
      /\ capture' = Resolving("search", capture.commit, capture.path)
      /\ Quiet /\ UNCHANGED <<answer, vanished>>
  BY DEF Relocate, Then, QuietGit, gitVars, Quiet
<1>2. capture.commit \in heads /\ capture.path \in Paths /\ capture.path = Previous.path
  BY <1>1 DEF GitInv, PurposeOK, Concluding
<1>3. ~IsFile(capture.commit, Previous.path) \/ Partial(capture.commit)
  BY <1>1 DEF GitInv, ConclusionOK
<1>4. QED
  BY <1>1, <1>2, <1>3, ResolvingStep

LEMMA DecideRelocatedKeeps ==
  ASSUME GitInv, DecideRelocated
  PROVE  GitInv'
<1> DEFINE c == capture.commit
           found == capture.found
<1>1. /\ capture.at = "decide" /\ capture.doing = "search" /\ IsFiniteSet(found)
      /\ found = PathsOf(c, Previous.blob)
  BY DEF DecideRelocated, GitInv, ConclusionOK
<1>2. c \in heads /\ c \in Commit /\ (~IsFile(c, Previous.path) \/ Partial(c))
  BY <1>1 DEF GitInv, PurposeOK, HeadsOK, Concluding
<1>3. CASE Cardinality(found) = 1
  <2>1. PICK p : found = {p}
    BY <1>1, <1>3, FS_Singleton
  <2>2. (CHOOSE q \in found : TRUE) = p
    BY <2>1
  <2>3. capture' = Resolving("again", c, p) /\ Quiet /\ UNCHANGED <<answer, vanished>>
    BY <1>3, <2>2 DEF DecideRelocated, Then, QuietGit, gitVars, Quiet
  <2>4. p \in Paths
    BY <1>1, <1>2, <2>1, FilesOfCommit DEF PathsOf
  <2>5. PathsOf(c, Previous.blob) = {p}
    BY <1>1, <2>1
  <2> HIDE DEF c, found
  <2>6. QED
    BY <1>1, <1>2, <2>3, <2>4, <2>5, ResolvingStep
<1>4. CASE Cardinality(found) # 1
  <2> DEFINE outcome == IF found = {} THEN "missing" ELSE "ambiguous"
  <2>1. Ends(outcome) /\ vanished' = vanished
    BY <1>4 DEF DecideRelocated
  <2>2. /\ answer'.outcome = outcome /\ answer'.commit = c /\ heads' = heads
        /\ answer'.from = Previous.path /\ answer'.old = Previous.blob
    BY <2>1 DEF Ends, Answered
  <2>3. found # {} => Cardinality(found) > 1
    <3>1. Cardinality(found) \in Nat /\ (Cardinality(found) = 0 <=> found = {})
      BY <1>1, FS_CardinalityType, FS_EmptySet
    <3>2. QED
      BY <1>4, <3>1
  <2>4. CaptureIsTrue'
    <3> HIDE DEF c, found
    <3>1. QED
      BY <1>1, <1>2, <2>1, <2>2, <2>3 DEF CaptureIsTrue, Partial
  <2>5. vanished' \in BOOLEAN
    BY <2>1 DEF GitInv, ReaderOK
  <2>6. QED
    BY <2>1, <2>4, <2>5, EndsKeeps
<1>5. QED
  BY <1>3, <1>4

---------------------------------------------------------------------------
(* Every step of every history. *)

LEMMA InitGit ==
  ASSUME GitInit
  PROVE  GitInv
<1> DEFINE first == [index |-> TRUE, data |-> TRUE, holds |-> Stored(FirstCommit)]
<1>1. /\ branch = [loose |-> NoCommit, packed |-> FirstCommit]
      /\ loose = {} /\ packs = <<first>> /\ heads = {FirstCommit}
      /\ capture = Idle /\ answer = NoAnswer /\ vanished = FALSE
  BY DEF GitInit
<1>2. FirstCommit \in Commit
  BY GitAssumption
<1>3. StoreOK
  <2>1. Stored(FirstCommit) \subseteq DOMAIN Object
    BY <1>2, ReachableTyped DEF Stored
  <2>2. first \in Pack /\ first.index /\ first.holds = Stored(FirstCommit)
    BY <2>1 DEF Pack
  <2> HIDE DEF first
  <2>3. packs \in Seq(Pack) /\ Len(packs) = 1 /\ packs[1] = first /\ DOMAIN packs = {1}
    BY <1>1, <2>2
  <2>4. LastPack = first /\ Indexed \subseteq {1}
    BY <2>3 DEF LastPack, Indexed
  <2>5. QED
    BY <1>1, <2>2, <2>3, <2>4 DEF StoreOK
<1>4. capture.at = "idle" /\ Whole(capture)
  BY <1>1 DEF Idle, Whole
<1>5. HeadsOK
  <2>1. branch.loose = NoCommit /\ branch.packed = FirstCommit
    BY <1>1
  <2>2. Tip = FirstCommit
    BY <2>1 DEF Tip
  <2>3. QED
    BY <1>1, <1>2, <1>4, <2>2 DEF HeadsOK
<1>6. fileVersions \in Seq(VersionShape) /\ Len(fileVersions) > 0
  <2>1. PICK f \in FilesOf(FirstCommit) :
          /\ f[1] = FirstPath
          /\ fileVersions = <<[commit |-> FirstCommit, path |-> FirstPath, blob |-> f[2]]>>
    BY DEF GitInit
  <2>2. FirstPath \in Paths /\ f[2] \in DOMAIN Object
    BY <1>2, <2>1, FilesOfCommit DEF OidsOf
  <2>3. [commit |-> FirstCommit, path |-> FirstPath, blob |-> f[2]] \in VersionShape
    BY <1>2, <2>2 DEF VersionShape
  <2>4. QED
    BY <2>1, <2>3
<1>7. ReaderOK
  BY <1>1, <1>4, <1>6 DEF ReaderOK, Whole
<1>8. PurposeOK /\ LookOK /\ ResolveOK /\ SearchOK /\ ConclusionOK
  BY <1>4 DEF PurposeOK, LookOK, ResolveOK, SearchOK, ConclusionOK, AtObject, Concluding
<1>9. CaptureIsTrue
  BY <1>1 DEF CaptureIsTrue, NoAnswer
<1>10. QED
  BY <1>3, <1>5, <1>7, <1>8, <1>9 DEF GitInv

LEMMA GitStutters ==
  ASSUME GitInv, UNCHANGED gitSourceVars
  PROVE  GitInv'
<1>1. Quiet /\ UNCHANGED <<capture, answer, vanished, reads>>
  BY DEF gitSourceVars, gitVars, captureVars, Quiet
<1>2. StoreOK' /\ LastPack' = LastPack /\ Tip' = Tip
  BY <1>1, QuietKeeps DEF GitInv
<1>3. HeadsOK'
  BY <1>1, <1>2 DEF GitInv, HeadsOK, Quiet
<1>4. Adds
  BY <1>1, <1>2 DEF Adds, Quiet
<1>5. QED
  BY <1>2, <1>3, <1>4, GitKeeps

LEMMA GitInvKept ==
  ASSUME GitInv, [GitNext]_gitSourceVars
  PROVE  GitInv'
<1>1. CASE Git
  <2>1. StoreOK' /\ HeadsOK' /\ Adds
    BY <1>1, GitAdds DEF GitInv
  <2>2. QED
    BY <2>1, GitKeeps
<1>2. CASE ReadObject
  BY <1>2, LookLooseKeeps, ReadLooseKeeps, ListPacksKeeps, ReadIndexKeeps,
     NotPackedKeeps, LookPackKeeps, ReadDataKeeps DEF ReadObject
<1>3. CASE CaptureFile
  BY <1>3, BeginCaptureKeeps, LookBranchKeeps, ReadBranchKeeps, RelocateKeeps,
     NotFoundKeeps, DecideRelocatedKeeps, StoreVersionKeeps, GiveUpKeeps DEF CaptureFile
<1>4. CASE UNCHANGED gitSourceVars
  BY <1>4, GitStutters
<1>5. QED
  BY <1>1, <1>2, <1>3, <1>4 DEF GitNext

\* Whatever Git repacks and prunes, the packs with an index and the objects with a
\* file of their own hold, between them, all that Git stored of every commit that
\* the branch was at while the capture runs: what _GitObjectReader.read relies on.
NothingLost == \A c \in heads : Stored(c) \subseteq loose \cup Packed

THEOREM NothingIsLost == GitSpec => []NothingLost
<1>1. GitInv => NothingLost
  BY LatestIsPacked DEF GitInv, StoreOK, NothingLost
<1>2. QED
  BY <1>1, InitGit, GitInvKept, PTL DEF GitSpec

\* Whatever _capture_source concludes of a file in a repository - the version at
\* its path, that it moved, is missing, is in several places - is true of a commit
\* that the branch was at while it looked, whatever Git did meanwhile.
THEOREM CapturesAreTrue == GitSpec => []CaptureIsTrue
<1>1. GitInv => CaptureIsTrue
  BY DEF GitInv
<1>2. QED
  BY <1>1, InitGit, GitInvKept, PTL DEF GitSpec

---------------------------------------------------------------------------
(* The shape of the states. *)

\* What GitTypeOK says beyond the invariant, and that a search ends when
\* nothing is left to visit.
ShapeOK ==
  /\ Len(packs) <= MaxPacks
  /\ capture.oid \in DOMAIN Object \cup {NoCommit}
  /\ capture.at \in {"pack", "data"} <=> capture.pack # NoPack
  /\ capture.doing = "search" \/ capture.pending = {}
  /\ capture.at \in {"decide"} \cup AtBranch => capture.pending = {}

\* What the reader is at when it has read an object.
Onward(r) ==
  /\ r.at \in {"look", "absent", "decide", "store"}
  /\ r.pack = capture.pack
  /\ r.at # "look" => r.oid = capture.oid
  /\ r.at = "decide" => r.pending = {}
  /\ r.doing = "search" \/ r.pending = {}

LEMMA InterpretedOnward ==
  ASSUME GitInv, ShapeOK, capture.at \in AtObject
  PROVE  Onward(Interpreted)
<1>1. Whole(capture)
  BY DEF GitInv, ReaderOK, Whole
<1>2. capture.doing = "search" \/ capture.pending = {}
  BY DEF ShapeOK
<1>3. Onward(AbsentHere)
  BY <1>1, <1>2 DEF Whole, Onward, AbsentHere
<1>4. capture.doing # "search" => Onward(Conclude)
  BY <1>1, <1>2, <1>3 DEF Whole, Onward, Conclude
<1>5. \A o : /\ Whole(Fetch(o)) /\ Fetch(o).at = "look" /\ Fetch(o).doing = capture.doing
            /\ Fetch(o).pack = capture.pack /\ Fetch(o).pending = capture.pending
  <2>1. ASSUME NEW o, NEW x, x = Fetch(o)
        PROVE  /\ Whole(x) /\ x.at = "look" /\ x.doing = capture.doing
               /\ x.pack = capture.pack /\ x.pending = capture.pending
    BY <1>1, <2>1 DEF Whole, Fetch
  <2>2. QED
    BY <2>1
<1>6. capture.doing # "search" => Onward(Descend)
  <2>1. ASSUME NEW f, Whole(f), f.at = "look", f.pack = capture.pack, f.pending = {},
               NEW rest, NEW mode, NEW x, x = [f EXCEPT !.rest = rest, !.mode = mode]
        PROVE  Onward(x)
    BY <2>1 DEF Whole, Onward
  <2>2. QED
    BY <1>2, <1>3, <1>5, <2>1 DEF Descend
<1>7. ASSUME NEW f, Whole(f), f.at = "look", f.pack = capture.pack,
             NEW dir, NEW more, NEW found, f.doing = "search" \/ more = {},
             NEW x, x = [f EXCEPT !.dir = dir, !.pending = more, !.found = found]
      PROVE  Onward(x)
  BY <1>7 DEF Whole, Onward
<1>8. capture.doing = "search" => Onward(Scan)
  <2>1. ASSUME NEW ahead, NEW found, capture.doing = "search", capture.pending \subseteq ahead
        PROVE  Onward(Visited(ahead, found))
    <3>1. CASE ahead = {}
      <4>1. capture.pending = {}
        BY <2>1, <3>1
      <4>2. ASSUME NEW x, x = [capture EXCEPT !.at = "decide", !.found = found]
            PROVE  Onward(x)
        BY <1>1, <2>1, <4>1, <4>2 DEF Whole, Onward
      <4>3. QED
        BY <3>1, <4>2 DEF Visited
    <3>2. CASE ahead # {}
      BY <1>5, <1>7, <2>1, <3>2 DEF Visited
    <3>3. QED
      BY <3>1, <3>2
  <2>2. QED
    BY <2>1, ScanIs DEF ToVisit
<1>9. \A o : Onward([Fetch(o) EXCEPT !.dir = <<>>, !.pending = {}, !.found = {}])
  BY <1>5, <1>7
<1>10. Object[capture.oid].kind \in {"commit", "tree", "blob"}
  <2>1. capture.commit \in Commit /\ capture.oid \in Reachable(capture.commit)
    BY DEF GitInv, PurposeOK, HeadsOK, LookOK
  <2>2. QED
    BY <2>1, ReachableTyped, GitAssumption
<1>11. QED
  BY <1>2, <1>4, <1>6, <1>8, <1>9, <1>10 DEF Interpreted

\* Git does not touch the reader, and repacks only so often.
LEMMA GitKeepsShape ==
  ASSUME GitInv, ShapeOK, Git
  PROVE  ShapeOK'
<1>1. capture' = capture
  BY DEF Git, MoveBranch, PackBranch, DropLooseBranch, Repack, PruneLoose, DropIndex,
         DropData, captureVars
<1>2. Len(packs') <= MaxPacks
  <2>1. packs \in Seq(Pack) /\ Len(packs) \in Nat /\ Len(packs) <= MaxPacks
    BY DEF GitInv, StoreOK, ShapeOK
  <2>2. CASE Repack
    <3>1. \A p : Len(Append(packs, p)) = Len(packs) + 1
      BY <2>1
    <3>2. Len(packs) < MaxPacks /\ MaxPacks \in Nat
      BY <2>2, GitAssumption DEF Repack
    <3>3. Len(packs') = Len(packs) + 1
      BY <2>2, <3>1 DEF Repack
    <3>4. QED
      BY <2>1, <3>2, <3>3
  <2>3. ASSUME NEW n \in DOMAIN packs, DropIndex(n) \/ DropData(n)
        PROVE  Len(packs') = Len(packs)
    <3>1. \A p : Len([packs EXCEPT ![n] = p]) = Len(packs)
      BY <2>1
    <3>2. QED
      BY <2>3, <3>1 DEF DropIndex, DropData
  <2>4. CASE packs' = packs
    BY <2>1, <2>4
  <2>5. QED
    BY <2>1, <2>2, <2>3, <2>4 DEF Git, MoveBranch, PackBranch, DropLooseBranch, PruneLoose
<1>3. QED
  BY <1>1, <1>2 DEF ShapeOK

\* The reader does not touch the packs.  An object that it is about to look at
\* is one that the commit needs, and so there is one.
LEMMA ReaderKeepsShape ==
  ASSUME GitInv, GitInv', ShapeOK, packs' = packs,
         capture'.at \notin AtObject => capture'.oid \in {capture.oid, NoCommit},
         capture'.at \in {"pack", "data"} <=> capture'.pack # NoPack,
         capture'.doing = "search" \/ capture'.pending = {},
         capture'.at \in {"decide"} \cup AtBranch => capture'.pending = {}
  PROVE  ShapeOK'
<1>1. CASE capture'.at \in AtObject
  <2>1. capture'.commit \in Commit /\ capture'.oid \in Reachable(capture'.commit)
    BY <1>1 DEF GitInv, PurposeOK, HeadsOK, LookOK
  <2>2. capture'.oid \in DOMAIN Object
    BY <2>1, ReachableTyped
  <2>3. QED
    BY <2>2 DEF ShapeOK
<1>2. CASE capture'.at \notin AtObject
  BY <1>2 DEF ShapeOK
<1>3. QED
  BY <1>1, <1>2

LEMMA IdleKeepsShape ==
  ASSUME GitInv, GitInv', ShapeOK, packs' = packs, capture' = Idle
  PROVE  ShapeOK'
<1>1. /\ capture'.at = "idle" /\ capture'.pack = NoPack /\ capture'.oid = NoCommit
      /\ capture'.pending = {}
  BY DEF Idle
<1>2. QED
  BY <1>1, ReaderKeepsShape DEF AtObject, AtBranch

LEMMA MoveKeepsShape ==
  ASSUME GitInv, GitInv', ShapeOK, packs' = packs, NEW there,
         capture.at \in {"branch", "look", "index"},
         IF capture.at = "branch" THEN there \in {"packed_refs", "loose_branch"}
           ELSE there \in {"loose", "list", "absent"},
         capture' = [capture EXCEPT !.at = there]
  PROVE  ShapeOK'
<1>1. Whole(capture)
  BY DEF GitInv, ReaderOK, Whole
<1>2. /\ capture'.at = there /\ capture'.oid = capture.oid
      /\ capture'.doing = capture.doing /\ capture'.pending = capture.pending
      /\ capture'.pack = capture.pack
  BY <1>1 DEF Whole
<1>3. QED
  BY <1>2, ReaderKeepsShape DEF ShapeOK, AtObject, AtBranch

\* An object has been read, from a file of its own or from a pack.
LEMMA ReadKeepsShape ==
  ASSUME GitInv, GitInv', ShapeOK, packs' = packs, capture.at \in {"loose", "data"},
         capture' \in {Interpreted, [Interpreted EXCEPT !.pack = NoPack]},
         capture.at = "data" => capture' = [Interpreted EXCEPT !.pack = NoPack]
  PROVE  ShapeOK'
<1> DEFINE i == Interpreted
<1>1. Onward(i)
  BY InterpretedOnward DEF AtObject
<1>2. Becomes(i)
  BY InterpretedWhole DEF GitInv
<1>3. capture'.pack = NoPack
  <2>1. CASE capture.at = "loose" /\ capture' = i
    BY <1>1, <2>1 DEF Onward, ShapeOK
  <2>2. CASE capture' = [i EXCEPT !.pack = NoPack]
    <3>1. Whole(capture')
      BY <1>2 DEF Becomes
    <3> HIDE DEF i
    <3>2. "pack" \in DOMAIN capture' /\ DOMAIN capture' = DOMAIN i
      BY <2>2, <3>1 DEF Whole
    <3>3. QED
      BY <2>2, <3>2
  <2>3. QED
    BY <2>1, <2>2
<1> HIDE DEF i
<1>4. /\ capture'.at \in {"look", "absent", "decide", "store"}
      /\ capture'.at # "look" => capture'.oid = capture.oid
      /\ capture'.at = "decide" => capture'.pending = {}
      /\ capture'.doing = "search" \/ capture'.pending = {}
  BY <1>1, <1>2 DEF Onward, Becomes
<1>5. QED
  BY <1>3, <1>4, ReaderKeepsShape DEF AtObject, AtBranch

LEMMA ShapeKept ==
  ASSUME GitInv, GitInv', ShapeOK, [GitNext]_gitSourceVars
  PROVE  ShapeOK'
<1>1. CASE Git
  BY <1>1, GitKeepsShape
<1>2. CASE UNCHANGED gitSourceVars
  BY <1>2 DEF gitSourceVars, gitVars, captureVars, ShapeOK
<1>3. CASE ReadObject \/ CaptureFile
  <2>1. packs' = packs
    BY <1>3 DEF ReadObject, LookLoose, ReadLoose, ListPacks, ReadIndex, NotPacked, LookPack,
         ReadData, CaptureFile, BeginCapture, LookBranch, ReadBranch, Relocate, NotFound,
         DecideRelocated, StoreVersion, GiveUp, Vanishes, Then, QuietGit, Ends, gitVars
  <2>2. CASE capture' = Idle
    BY <2>1, <2>2, IdleKeepsShape
  <2>3. CASE LookLoose
    BY <2>1, <2>3, MoveKeepsShape DEF LookLoose, At
  <2>4. CASE capture.at \in {"loose", "index", "data"} /\ Vanishes
    <3>1. Whole(capture)
      BY DEF GitInv, ReaderOK, Whole
    <3>2. capture' = [capture EXCEPT !.at = "absent", !.pack = NoPack, !.left = {}]
      BY <2>4 DEF Vanishes
    <3>3. /\ capture'.at = "absent" /\ capture'.pack = NoPack /\ capture'.oid = capture.oid
          /\ capture'.doing = capture.doing /\ capture'.pending = capture.pending
      BY <3>1, <3>2 DEF Whole
    <3>4. QED
      BY <2>1, <3>2, <3>3, ReaderKeepsShape DEF ShapeOK, AtObject, AtBranch
  <2>5. CASE ReadLoose /\ capture.oid \in loose
    <3>1. capture' = Interpreted /\ capture.at = "loose"
      BY <2>5 DEF ReadLoose, Then
    <3>2. QED
      BY <2>1, <3>1, ReadKeepsShape
  <2>6. CASE ListPacks
    <3>1. Whole(capture) /\ capture.at = "list"
      BY <2>6 DEF GitInv, ReaderOK, Whole, ListPacks
    <3>2. capture' = [capture EXCEPT !.at = "index", !.left = Indexed]
      BY <2>6 DEF ListPacks, Then
    <3>3. /\ capture'.at = "index" /\ capture'.pack = capture.pack
          /\ capture'.oid = capture.oid
          /\ capture'.doing = capture.doing /\ capture'.pending = capture.pending
      BY <3>1, <3>2 DEF Whole
    <3>4. QED
      BY <2>1, <3>1, <3>3, ReaderKeepsShape DEF ShapeOK, AtObject, AtBranch
  <2>7. ASSUME NEW n \in DOMAIN packs, ReadIndex(n), packs[n].index
        PROVE  ShapeOK'
    <3>1. Whole(capture) /\ capture.at = "index"
      BY <2>7 DEF GitInv, ReaderOK, Whole, ReadIndex
    <3>2. CASE capture.oid \in packs[n].holds
      <4>1. capture' = [capture EXCEPT !.at = "pack", !.pack = n, !.left = {}]
        BY <2>7, <3>2 DEF ReadIndex, Then
      <4>2. /\ capture'.at = "pack" /\ capture'.pack = n /\ capture'.oid = capture.oid
            /\ capture'.doing = capture.doing /\ capture'.pending = capture.pending
        BY <3>1, <4>1 DEF Whole
      <4>3. n # NoPack
        BY GitAssumption DEF GitInv, StoreOK
      <4>4. QED
        BY <2>1, <4>2, <4>3, ReaderKeepsShape DEF ShapeOK, AtObject, AtBranch
    <3>3. CASE capture.oid \notin packs[n].holds
      <4>1. capture' = [capture EXCEPT !.left = capture.left \ {n}]
        BY <2>7, <3>3 DEF ReadIndex, Then
      <4>2. /\ capture'.at = "index" /\ capture'.pack = capture.pack
            /\ capture'.oid = capture.oid
            /\ capture'.doing = capture.doing /\ capture'.pending = capture.pending
        BY <3>1, <4>1 DEF Whole
      <4>3. QED
        BY <2>1, <3>1, <4>2, ReaderKeepsShape DEF ShapeOK, AtObject, AtBranch
    <3>4. QED
      BY <3>2, <3>3
  <2>8. CASE NotPacked
    BY <2>1, <2>8, MoveKeepsShape DEF NotPacked, Then, AbsentHere
  <2>9. CASE LookPack /\ packs[capture.pack].data
    <3>1. Whole(capture) /\ capture.at = "pack" /\ capture' = [capture EXCEPT !.at = "data"]
      BY <2>9 DEF GitInv, ReaderOK, Whole, LookPack, Then
    <3>2. /\ capture'.at = "data" /\ capture'.pack = capture.pack
          /\ capture'.oid = capture.oid
          /\ capture'.doing = capture.doing /\ capture'.pending = capture.pending
      BY <3>1 DEF Whole
    <3>3. QED
      BY <2>1, <3>1, <3>2, ReaderKeepsShape DEF ShapeOK, AtObject, AtBranch
  <2>10. CASE ReadData /\ packs[capture.pack].data
    <3>1. capture' = [Interpreted EXCEPT !.pack = NoPack] /\ capture.at = "data"
      BY <2>10 DEF ReadData, Then
    <3>2. QED
      BY <2>1, <3>1, ReadKeepsShape
  <2>11. CASE BeginCapture
    <3>1. capture' = [Idle EXCEPT !.at = "branch"]
      BY <2>11 DEF BeginCapture
    <3>2. /\ capture'.at = "branch" /\ capture'.pack = NoPack /\ capture'.oid = NoCommit
          /\ capture'.pending = {}
      BY <3>1 DEF Idle
    <3>3. QED
      BY <2>1, <3>2, ReaderKeepsShape
  <2>12. CASE LookBranch
    BY <2>1, <2>12, MoveKeepsShape DEF LookBranch, At
  <2>13. ASSUME NEW doing, NEW c, NEW path, capture' = Resolving(doing, c, path),
                capture.at \notin {"pack", "data"}, capture.pending = {}
         PROVE  ShapeOK'
    <3>1. Whole(capture)
      BY DEF GitInv, ReaderOK, Whole
    <3>2. /\ capture'.at = "look" /\ capture'.pack = capture.pack
          /\ capture'.pending = capture.pending
      BY <2>13, <3>1 DEF Whole, Resolving
    <3>3. QED
      BY <2>1, <2>13, <3>2, ReaderKeepsShape DEF ShapeOK, AtObject, AtBranch
  <2>14. CASE ReadBranch \/ Relocate \/ DecideRelocated
    BY <2>2, <2>13, <2>14
    DEF ReadBranch, Relocate, DecideRelocated, Then, Ends, ShapeOK, AtBranch
  <2>15. CASE \/ LookPack /\ ~packs[capture.pack].data
             \/ NotFound \/ StoreVersion \/ GiveUp
    BY <2>2, <2>15 DEF LookPack, NotFound, StoreVersion, GiveUp, Ends
  <2>16. CASE ReadObject
    <3>1. CASE ReadLoose \/ ReadData \/ \E n \in DOMAIN packs : ReadIndex(n)
      BY <2>4, <2>5, <2>7, <2>10, <3>1 DEF ReadLoose, ReadData, ReadIndex
    <3>2. QED
      BY <2>3, <2>6, <2>8, <2>9, <2>15, <2>16, <3>1 DEF ReadObject
  <2>17. CASE CaptureFile
    BY <2>11, <2>12, <2>14, <2>15, <2>17 DEF CaptureFile
  <2>18. QED
    BY <1>3, <2>16, <2>17
<1>4. QED
  BY <1>1, <1>2, <1>3 DEF GitNext

LEMMA InitShape ==
  ASSUME GitInit
  PROVE  ShapeOK
<1>1. /\ capture.at = "idle" /\ capture.pack = NoPack /\ capture.oid = NoCommit
      /\ capture.pending = {}
  BY DEF GitInit, Idle
<1>2. Len(packs) = 1 /\ MaxPacks \in Nat /\ MaxPacks > 0
  BY GitAssumption DEF GitInit
<1>3. QED
  BY <1>1, <1>2 DEF ShapeOK

LEMMA GitShape ==
  ASSUME GitInv, ShapeOK
  PROVE  GitTypeOK
<1>1. StoreOK /\ HeadsOK
  BY DEF GitInv
<1>2. Tip \in Commit /\ NoCommit \notin Commit /\ Tip \in heads
  BY <1>1, GitAssumption DEF HeadsOK
<1>3. Stored(Tip) \subseteq loose \cup Packed
  BY <1>1, <1>2, LatestIsPacked DEF StoreOK
<1>4. branch \in [loose : Commit \cup {NoCommit}, packed : Commit \cup {NoCommit}]
  BY <1>1 DEF HeadsOK
<1>5. QED
  BY <1>1, <1>2, <1>3, <1>4 DEF GitTypeOK, StoreOK, ShapeOK

\* The files of the repository and the reader keep their shape, Git keeps what the
\* branch is at, and a pack is held exactly while it is looked at (git.py).
THEOREM GitTyped == GitSpec => []GitTypeOK
<1>1. GitInv /\ ShapeOK => GitTypeOK
  BY GitShape
<1>2. GitInit => GitInv /\ ShapeOK
  BY InitGit, InitShape
<1>3. GitInv /\ ShapeOK /\ [GitNext]_gitSourceVars => GitInv' /\ ShapeOK'
  BY GitInvKept, ShapeKept
<1>4. QED
  BY <1>1, <1>2, <1>3, PTL DEF GitSpec

-----------------------------------------------------------------------------
(* The catalog *)

\* The parts of Catalog share no state: whatever moves, each of them takes only
\* steps of its own, so that what is proved of a part holds of the whole.
THEOREM CatalogImplementsParts ==
  CatalogSpec => Spec /\ RecordsSpec /\ ReadSpec /\ AnchorSpec /\ GitSpec
<1>1. CatalogInit => Init /\ RecordsInit /\ ReadInit /\ AnchorInit /\ GitInit
  BY DEF CatalogInit
<1>2. [CatalogNext]_<<wing, vars, recordVars, readVars, anchorVars, gitSourceVars>> =>
        /\ [Next]_vars /\ [RecordsNext]_recordVars /\ [ReadNext]_readVars
        /\ [AnchorNext]_anchorVars /\ [GitNext]_gitSourceVars
  BY DEF CatalogNext
<1>3. QED
  BY <1>1, <1>2, PTL DEF CatalogSpec, Spec, RecordsSpec, ReadSpec, AnchorSpec, GitSpec

\* Every part keeps the shape of its state (service.py, v2_service.py, evidence.py,
\* ingestion/git.py), whichever of them moves.
THEOREM CatalogTyped == CatalogSpec => []Shape
<1>1. TypeOK /\ RecordsTypeOK /\ ReadTypeOK /\ AnchorInv /\ GitTypeOK => Shape
  BY DEF Shape, AnchorInv
<1>2. AnchorSpec => []AnchorInv
  BY InitAnchor, AnchorInvKept, PTL DEF AnchorSpec
<1>3. QED
  BY <1>1, <1>2, CatalogImplementsParts, TypeCorrect, RecordsWellFormed, ReadingTyped,
     GitTyped, PTL
================================================================================
