------------------------------- MODULE MCLibrary -------------------------------
(***************************************************************************)
(* Instances of FrontEnds: one namespace whose report is published while   *)
(* others write; a bundle that is created from nothing, retried and raced; *)
(* two namespaces; and a refresh, an import and the single calls.          *)
(***************************************************************************)
EXTENDS FrontEnds, TLC

CONSTANTS w1, w2

KeyOf(ns, scopes, admin) == [ns |-> ns, scopes |-> scopes, admin |-> admin]
AdminKey == KeyOf("local", {"admin", "ingest", "publish", "read_private"}, TRUE)
Member == KeyOf("n1", {"ingest", "publish", "read_private"}, FALSE)
Poster == KeyOf("n1", {"ingest"}, FALSE)
Stranger == KeyOf("n2", {"ingest", "publish", "read_private"}, FALSE)

Readers ==
  {[token |-> FALSE, key |-> k] : k \in {NoAuth, Member, Poster, Stranger}}
    \cup {[token |-> TRUE, key |-> k] : k \in {NoAuth, Poster}}

Pools ==
  [question |-> 2, session |-> 1, source |-> 2, excerpt |-> 2, claim |-> 2,
   report |-> 2]

Row(ns, q, s, links) ==
  [ns |-> ns, name |-> "old", keyed |-> FALSE, visibility |-> "private",
   index |-> "private", question |-> q, source |-> s, links |-> links]

Q1 == <<"question", 1>>
S1 == <<"source", 1>>
X1 == <<"excerpt", 1>>
C1 == <<"claim", 1>>
R1 == <<"report", 1>>

Studied ==
  Q1 :> Row("n1", None, None, {}) @@ S1 :> Row("n1", None, None, {})
    @@ X1 :> Row("n1", Q1, S1, {}) @@ C1 :> Row("n1", Q1, None, {X1})
Reported == Studied @@ R1 :> Row("n1", Q1, None, {C1})

Call(what, auth, name, keyed, visibility, whole_) ==
  [ask |-> what, auth |-> auth, ns |-> "n1", name |-> name, keyed |-> keyed,
   visibility |-> visibility, whole |-> whole_]
Create_(what, auth, keyed) == Call(what, auth, "new", keyed, "private", FALSE)
Publish_(auth, all) == Call("publish", auth, "old", TRUE, "private", all)

Play(first, asks1, asks2, calls1, calls2, deposits_) ==
  [records |-> first, asks |-> (w1 :> asks1 @@ w2 :> asks2),
   calls |-> (w1 :> calls1 @@ w2 :> calls2), deposits |-> deposits_]

\* Another namespace has a question and a source.
Foreign ==
  <<"question", 2>> :> Row("n2", None, None, {})
    @@ S1 :> Row("n2", None, None, {})
TwoNamespaces == Q1 :> Row("n1", None, None, {}) @@ Foreign

Singles(auth, kinds) == {Create_(kind, auth, FALSE) : kind \in kinds}

Stages ==
  {\* A report is published, or only some of it, while it is suppressed and a
   \* deposit relinks its claim; and one after the other.
   Play(Reported, {Publish_(Member, TRUE), Publish_(NoAuth, FALSE)},
        {Call("index", AdminKey, "old", FALSE, "private", FALSE)}, 1, 1, 1),
   Play(Reported, {Publish_(Member, TRUE), Publish_(NoAuth, FALSE)},
        {Call("index", AdminKey, "old", FALSE, "private", FALSE)}, 2, 1, 0),
   \* A keyed report is created, retried and published.
   Play(Studied,
        {Create_("report", Poster, TRUE), Create_("status", Poster, FALSE)},
        {Publish_(Member, TRUE)}, 2, 1, 0),
   \* Two clients create one bundle, and retry it.
   Play(<<>>,
        {Create_("bundle", Poster, TRUE)}, {Create_("bundle", Poster, TRUE)},
        2, 1, 0),
   \* Calls that name records of another namespace.
   Play(TwoNamespaces,
        Singles(Stranger, {"excerpt", "cited_excerpt", "import"}),
        Singles(Member, {"question", "source", "session"})
          \cup {Publish_(AdminKey, TRUE)}, 1, 1, 0),
   Play(Reported,
        {Create_("refresh", NoAuth, FALSE),
         Create_("empty_refresh", Member, FALSE)},
        {Publish_(Member, TRUE)}, 1, 1, 0),
   Play(Studied, Singles(Member, {"claim", "excerpt"}),
        {Publish_(Member, TRUE)}, 1, 2, 0)}
================================================================================
