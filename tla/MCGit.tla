--------------------------------- MODULE MCGit ---------------------------------
(***************************************************************************)
(* An instance of GitSource: the file docs/a is edited, moved beside a     *)
(* link that takes its place, copied and replaced by a directory,          *)
(* removed, edited to a blob of an alternate.                           *)
(***************************************************************************)
EXTENDS GitSource, TLC

Blob == [kind |-> "blob"]
Tree(at) == [kind |-> "tree", at |-> at]
OfTree(t) == [kind |-> "commit", tree |-> t]
File(o) == [mode |-> "file", oid |-> o]
Dir(o) == [mode |-> "tree", oid |-> o]
Symlink(o) == [mode |-> "link", oid |-> o]

Objects ==
  "text" :> Blob @@ "edited" :> Blob @@ "borrowed" :> Blob
    @@ "docs" :> Tree("a" :> File("text"))
    @@ "docs edited" :> Tree("a" :> File("edited"))
    @@ "docs moved" :> Tree("a" :> Symlink("edited") @@ "b" :> File("text"))
    @@ "docs replaced" :> Tree("a" :> Dir("docs edited") @@ "b" :> File("text"))
    @@ "docs borrowed" :> Tree("a" :> File("borrowed"))
    @@ "root" :> Tree("docs" :> Dir("docs"))
    @@ "root borrowed" :> Tree("docs" :> Dir("docs borrowed"))
    @@ "root edited" :> Tree("docs" :> Dir("docs edited"))
    @@ "root moved" :> Tree("docs" :> Dir("docs moved"))
    @@ "root copied" :> Tree("docs" :> Dir("docs replaced") @@ "c" :> File("text"))
    @@ "root removed" :> Tree("c" :> File("edited"))
    @@ "first" :> OfTree("root") @@ "edit" :> OfTree("root edited")
    @@ "move" :> OfTree("root moved") @@ "copy" :> OfTree("root copied")
    @@ "remove" :> OfTree("root removed") @@ "borrow" :> OfTree("root borrowed")

OfAlternate == {"borrowed"}
DocsA == <<"docs", "a">>
================================================================================
