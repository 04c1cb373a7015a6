-------------------------------- MODULE Records --------------------------------
(***************************************************************************)
(* The records of the v1 service (service.py): how calls of several        *)
(* transactions create them, how a graph of them is published, how a       *)
(* record is suppressed, and what of this the search projection knows.     *)
(*                                                                         *)
(* A call is a list of transactions; it may fail or its process may die    *)
(* between any two.  Nothing is locked before the first INSERT or UPDATE,   *)
(* so a creation is two steps, Seek and Create, and so is a publication,   *)
(* CheckPublication and Publish.                                           *)
(***************************************************************************)
EXTENDS Naturals, Sequences, FiniteSets

CONSTANTS
  Writer,       \* threads of the front ends, and local programs
  Namespace, Name,  \* namespaces; prompts, locators and keys
  Pool,         \* Pool[kind]: how many records of a kind there may be (a bound)
  None,         \* no record, no namespace, no call
  NoAuth,       \* the caller of a local program, which is trusted
  Stage         \* what there is first, the calls each writer may make and how
                \* many, and how many v2 calls come beside them (bounds)

VARIABLES
  stage,        \* the stage this behaviour is played on
  records,      \* the tables: id -> record
  status,       \* questions.status
  native,       \* what the receipts of v2 deposits name
  revised,      \* claims whose current revision a v2 review wrote
  docs,         \* the search projection: id -> how it is visible
  call,         \* the call of each writer
  calls,        \* how many calls a writer has made
  deposits,     \* how many v2 calls there were
  \* what the properties compare with
  whole,        \* reports that were published with all they are linked to
  overtaken,    \* records a v2 call took after their publication was checked
  changed       \* records made visible or hidden since the last rebuild

recordVars ==
  <<stage, records, status, native, revised, docs, call, calls, deposits, whole,
    overtaken, changed>>

Kinds == {"question", "session", "source", "excerpt", "claim", "report"}
KindOfId(i) == i[1]
OfKind(rs, kind) == {i \in DOMAIN rs : KindOfId(i) = kind}
Ids(kind) == OfKind(records, kind)
NewId(kind) == <<kind, Cardinality(Ids(kind)) + 1>>

Public(i) == records[i].visibility = "public"
Suppressed(i) == records[i].index = "suppressed"

Visibility == {"private", "public"}
IndexState == {"private", "namespace_only", "included", "suppressed"}
Id == Kinds \X (Nat \ {0})
RecordRow ==
  [ns : Namespace, name : Name, keyed : BOOLEAN, visibility : Visibility,
   index : IndexState, question : Id \cup {None}, source : Id \cup {None},
   links : SUBSET Id]

\* What a record refers to.
RefsOf(row) == ({row.question, row.source} \ {None}) \cup row.links

\* Of what kinds it refers to records, all of its namespace; ids are not reused.
LinksOf(rs, kind) ==
  IF kind = "claim" THEN OfKind(rs, "excerpt")
  ELSE IF kind = "report" THEN OfKind(rs, "claim") ELSE {}

RefersWell(rs, i) ==
  LET kind == KindOfId(i) IN
  /\ rs[i].question \in
       IF kind \in {"question", "source"} THEN {None} ELSE OfKind(rs, "question")
  /\ rs[i].source \in IF kind = "excerpt" THEN OfKind(rs, "source") ELSE {None}
  /\ rs[i].links \subseteq LinksOf(rs, kind)
  /\ \A j \in RefsOf(rs[i]) : rs[j].ns = rs[i].ns
  /\ i[2] <= Cardinality(OfKind(rs, kind))

WellFormed(rs) ==
  /\ DOMAIN rs \subseteq Id /\ IsFiniteSet(DOMAIN rs)
  /\ \A i \in DOMAIN rs : rs[i] \in RecordRow /\ RefersWell(rs, i)

Scope == {"admin", "ingest", "publish", "read_private"}
Auth == [ns : Namespace, scopes : SUBSET Scope, admin : BOOLEAN]
Requests ==
  Kinds \cup {"cited_excerpt", "bundle", "import", "refresh", "empty_refresh",
              "publish", "status", "index"}
Asks ==
  [ask : Requests, auth : Auth \cup {NoAuth}, ns : Namespace, name : Name, keyed : BOOLEAN,
   visibility : Visibility, whole : BOOLEAN]

ASSUME RecordsAssumption ==
  /\ None \notin Id
  /\ Pool \in [Kinds -> Nat]
  /\ \A s \in Stage :
       /\ WellFormed(s.records)
       /\ s.asks \in [Writer -> SUBSET Asks]
       /\ s.calls \in [Writer -> Nat] /\ s.deposits \in Nat

InNamespace(ns) == {i \in DOMAIN records : records[i].ns = ns}

---------------------------------------------------------------------------
(* Who may write where, and what a new record looks like. *)

HasScope(auth, scope) ==
  auth # NoAuth => auth.admin \/ scope \in auth.scopes

\* Only local programs and administrators choose the namespace.
WriteNamespace(auth, ns) ==
  IF auth = NoAuth THEN ns ELSE IF auth.admin THEN ns ELSE auth.ns

IndexFor(visibility, included) ==
  IF visibility = "private" THEN "private"
  ELSE IF included THEN "included" ELSE "namespace_only"

\* What an authenticated caller creates begins private.
Governed(auth, visibility) ==
  IF auth = NoAuth THEN visibility ELSE "private"

Begun(c) ==
  LET visibility == Governed(c.auth, c.visibility) IN
  [ns |-> c.ns, name |-> c.name, keyed |-> c.keyed,
   visibility |-> visibility, index |-> IndexFor(visibility, FALSE),
   question |-> c.have.question, source |-> None, links |-> {}]

NewQuestion(c) == [Begun(c) EXCEPT !.question = None]
NewSession(c) == Begun(c)
NewSource(c) == [Begun(c) EXCEPT !.question = None]
NewExcerpt(c) == [Begun(c) EXCEPT !.source = c.have.source]
NewClaim(c) == [Begun(c) EXCEPT !.links = c.have.excerpts]
NewReport(c) == [Begun(c) EXCEPT !.links = c.have.claims]

NewRow(kind, c) ==
  CASE kind = "question" -> NewQuestion(c)
    [] kind = "session" -> NewSession(c)
    [] kind = "source" -> NewSource(c)
    [] kind = "excerpt" -> NewExcerpt(c)
    [] kind = "claim" -> NewClaim(c)
    [] kind = "report" -> NewReport(c)

\* The records of the namespace with the key of the request; and what a request
\* finds: questions also by their prompt and sources by their locator.
Keyed(kind, c) ==
  {i \in Ids(kind) :
    /\ c.keyed /\ records[i].keyed
    /\ records[i].ns = c.ns /\ records[i].name = c.name}
SamePrompt(c) ==
  {q \in Ids("question") : records[q].ns = c.ns /\ records[q].name = c.name}
SameLocator(c) ==
  {s \in Ids("source") : records[s].ns = c.ns /\ records[s].name = c.name}
Existing(kind, c) ==
  Keyed(kind, c) \cup (IF kind = "question" THEN SamePrompt(c) ELSE {})
                 \cup (IF kind = "source" THEN SameLocator(c) ELSE {})

---------------------------------------------------------------------------
(* The search projection.  Evidence is as visible as its source. *)

Owner(i) == IF KindOfId(i) = "excerpt" THEN records[i].source ELSE i
View(row) ==
  [ns |-> row.ns, visibility |-> row.visibility, index |-> row.index]
Searchable(rs) == {i \in DOMAIN rs : KindOfId(i) # "session"}
Projection(rs) ==
  [i \in Searchable(rs) |->
    View(rs[IF KindOfId(i) = "excerpt" THEN rs[i].source ELSE i])]

Rebuild(rs) == docs' = Projection(rs) /\ changed' = {}

---------------------------------------------------------------------------
(* Calls. *)

Ended(w) == call' = [call EXCEPT ![w] = None]
To(w, c) ==
  call' = [call EXCEPT ![w] = IF c.todo = <<>> THEN None ELSE c]

\* create_report sets the status of its question in a second transaction.
Reporting == <<"report", "answer">>

\* A call of a tool that creates everything; a refresh, which sets the status
\* twice; and a refresh that found nothing.  The follow-up questions that a
\* refresh may add are left out.
Bundle ==
  <<"question", "session", "source", "excerpt", "claim", "report", "answer">>
Refreshing ==
  <<"session", "source", "excerpt", "claim", "report", "answer", "answer">>
EmptyRefresh == <<"session", "insufficient">>

\* An imported source, and the excerpt taken from it.
Importing == <<"source", "excerpt">>
Publishing == <<"check", "apply">>

\* The transactions of each kind of call.
Transactions(ask) ==
  CASE ask = "cited_excerpt" -> <<"source", "excerpt">>
    [] ask = "report" -> Reporting
    [] ask = "bundle" -> Bundle
    [] ask = "import" -> Importing
    [] ask = "refresh" -> Refreshing
    [] ask = "empty_refresh" -> EmptyRefresh
    [] ask = "publish" -> Publishing
    [] ask = "status" -> <<"open">>
    [] ask \in {"question", "session", "source", "excerpt", "claim", "index"} ->
         <<ask>>

\* The records a request names: whatever exists, of any namespace.
Naming(q, s, xs, cs) ==
  [question |-> q, source |-> s, excerpts |-> xs, claims |-> cs]

Named(ask) ==
  CASE ask \in {"question", "source", "bundle"} -> {Naming(None, None, {}, {})}
    [] ask \in {"session", "status", "cited_excerpt", "import"} ->
         {Naming(q, None, {}, {}) : q \in Ids("question")}
    [] ask = "excerpt" ->
         {Naming(q, s, {}, {}) : q \in Ids("question"), s \in Ids("source")}
    [] ask = "claim" ->
         {Naming(q, None, xs, {}) :
           q \in Ids("question"), xs \in SUBSET Ids("excerpt")}
    [] ask = "report" ->
         {Naming(q, None, {}, cs) :
           q \in Ids("question"), cs \in SUBSET Ids("claim")}
    [] ask \in {"refresh", "empty_refresh"} ->
         {Naming(records[r].question, None, {}, records[r].links) :
           r \in Ids("report")}
    [] ask \in {"publish", "index"} ->
         {Naming(i, None, {}, {}) : i \in DOMAIN records \ Ids("session")}

\* refresh_report reads the report and its question first.
Readable(auth, i) ==
  auth # NoAuth =>
    \/ auth.admin
    \/ Public(i) /\ ~Suppressed(i)
    \/ ~Public(i) /\ HasScope(auth, "read_private") /\ records[i].ns = auth.ns

\* The scope a front end asks for before it calls the service.
ScopeFor(ask) ==
  CASE ask = "publish" -> "publish"
    [] ask = "index" -> "admin"
    [] OTHER -> "ingest"

Request(w) ==
  /\ call[w] = None
  /\ calls[w] < stage.calls[w]
  /\ \E a \in stage.asks[w] : \E have \in Named(a.ask) :
       /\ HasScope(a.auth, ScopeFor(a.ask))
       /\ a.ask \in {"refresh", "empty_refresh", "import"} =>
            Readable(a.auth, have.question)
       /\ call' = [call EXCEPT ![w] =
            [ask |-> a.ask, auth |-> a.auth, name |-> a.name, keyed |-> a.keyed,
             ns |-> WriteNamespace(a.auth, a.ns), visibility |-> a.visibility,
             have |-> have, todo |-> Transactions(a.ask), whole |-> a.whole,
             seen |-> {}, new |-> FALSE]]
       /\ calls' = [calls EXCEPT ![w] = @ + 1]
  /\ UNCHANGED <<stage, records, status, native, revised, docs, deposits, whole,
                 overtaken, changed>>

\* A call fails between two transactions, or its process dies.
Break(w) ==
  /\ call[w] # None
  /\ Ended(w)
  /\ UNCHANGED <<stage, records, status, native, revised, docs, calls, deposits,
                 whole, overtaken, changed>>

\* What a call has once it has created, or found, a record.
With(have, kind, i) ==
  [have EXCEPT !.question = IF kind = "question" THEN i ELSE @,
               !.source = IF kind = "source" THEN i ELSE @,
               !.excerpts = IF kind = "excerpt" THEN {i} ELSE @,
               !.claims = IF kind = "claim" THEN {i} ELSE @]

\* create_report returns what it finds before it sets the status.
After(kind, c) == IF kind = "report" THEN Tail(Tail(c.todo)) ELSE Tail(c.todo)

Creates(w, kind) ==
  call[w] # None /\ Head(call[w].todo) = kind

\* The links of a row that the service wants in the namespace of the call.
Joined(kind, c) == RefsOf(NewRow(kind, c)) \subseteq InNamespace(c.ns)

\* A retry, or a request for a question or a source that is there, is answered
\* with the record that exists.
Seek(w, kind) ==
  LET c == call[w] IN
  /\ Creates(w, kind)
  /\ ~c.new
  /\ Joined(kind, c)
  /\ IF Existing(kind, c) = {}
       THEN To(w, [c EXCEPT !.new = TRUE])
       ELSE \E i \in Existing(kind, c) :
              To(w, [c EXCEPT !.have = With(c.have, kind, i),
                              !.todo = After(kind, c)])
  /\ UNCHANGED <<stage, records, status, native, revised, docs, calls, deposits,
                 whole, overtaken, changed>>

\* Keys are unique in the tables: who comes second with one fails (Break).
Unused(kind, c) == Keyed(kind, c) = {}

Create(w, kind) ==
  LET c == call[w]
      i == NewId(kind)
      row == NewRow(kind, c)
      after ==
        [j \in DOMAIN records \cup {i} |-> IF j = i THEN row ELSE records[j]]
  IN
  /\ Creates(w, kind)
  /\ c.new
  /\ Cardinality(Ids(kind)) < Pool[kind]
  /\ Unused(kind, c)
  /\ records' = after
  /\ status' =
       IF kind = "question"
         THEN [q \in DOMAIN status \cup {i} |->
                IF q = i THEN "open" ELSE status[q]]
         ELSE status
  /\ Rebuild(after)
  /\ To(w, [c EXCEPT !.have = With(c.have, kind, i), !.todo = Tail(@),
                     !.new = FALSE])
  /\ UNCHANGED <<stage, native, revised, calls, deposits, whole, overtaken>>

\* set_question_status, by a client or at the end of a report.
SetStatus(w, step, new) ==
  LET c == call[w] IN
  /\ Creates(w, step)
  /\ c.have.question \in InNamespace(c.ns)
  /\ status' = [status EXCEPT ![c.have.question] = new]
  /\ Rebuild(records)
  /\ To(w, [c EXCEPT !.todo = Tail(@)])
  /\ UNCHANGED <<stage, records, native, revised, calls, deposits, whole,
                 overtaken>>

---------------------------------------------------------------------------
(* Publication. *)

\* Everything a record is linked to, over at most three links: a report's
\* claims, their excerpts, and the sources of these.
Wider(rs, ids) == ids \cup UNION {RefsOf(rs[j]) : j \in ids}
GraphIn(rs, i) == Wider(rs, Wider(rs, Wider(rs, {i})))
Graph(i) == GraphIn(records, i)

Target(c) == c.have.question

\* An administrator has to name the namespace; a local program publishes in the
\* one of the record.
PublishNamespace(c) == IF c.auth = NoAuth THEN records[Target(c)].ns ELSE c.ns

NotDeposited(graph) == graph \cap native = {}

\* Neither a v2 deposit nor a v2 review wrote any of them.
Publishable(graph) == graph \cap (native \cup revised) = {}

CheckPublication(w) ==
  LET c == call[w] IN
  /\ Creates(w, "check")
  /\ Graph(Target(c)) \subseteq InNamespace(PublishNamespace(c))
  /\ Publishable(Graph(Target(c)))
  /\ To(w, [c EXCEPT !.todo = Tail(@),
                     !.seen = Graph(Target(c)) \cap (native \cup revised)])
  /\ UNCHANGED <<stage, records, status, native, revised, docs, calls, deposits,
                 whole, overtaken, changed>>

OneLink(c) ==
  IF c.whole THEN {Target(c)} \cup RefsOf(records[Target(c)]) ELSE {Target(c)}

\* The links are read again: _cascade_publish walks them itself.
Cascade(c) == IF c.whole THEN Graph(Target(c)) ELSE {Target(c)}

Publish(w) ==
  LET c == call[w]
      graph == Cascade(c)
  IN
  /\ Creates(w, "apply")
  /\ records' = [i \in DOMAIN records |->
       IF i \in graph
         THEN [records[i] EXCEPT !.visibility = "public",
                              !.index = IndexFor("public", c.keyed)]
         ELSE records[i]]
  /\ whole' =
       IF c.whole /\ KindOfId(Target(c)) = "report"
         THEN whole \cup {Target(c)} ELSE whole
  /\ overtaken' = overtaken \cup ((graph \cap (native \cup revised)) \ c.seen)
  /\ changed' = changed \cup graph
  /\ To(w, [c EXCEPT !.todo = Tail(@)])
  /\ UNCHANGED <<stage, status, native, revised, docs, calls, deposits>>

SetIndexState(w) ==
  LET c == call[w] IN
  /\ Creates(w, "index")
  /\ \E state \in {"suppressed", "included"} :
       records' = [records EXCEPT ![Target(c)].index = state]
  /\ changed' = changed \cup {Target(c)}
  /\ To(w, [c EXCEPT !.todo = Tail(@)])
  /\ UNCHANGED <<stage, status, native, revised, docs, calls, deposits, whole,
                 overtaken>>

---------------------------------------------------------------------------
(* The v2 services, as far as they touch these tables: one transaction each *)
(* that ends with a rebuild of the projection.                              *)

\* The question of an inquiry, the source of a snapshot and the claim it revises
\* must not be public.
TakesQuestion(q) == ~Public(q)
TakesSource(s) == ~Public(s)
TakesClaim(c) == ~Public(c)

\* A deposit anchors an excerpt in a source and revises a claim, whose links
\* it replaces; the receipt names everything it wrote or reused.
Deposit(q, s, c) ==
  LET x == NewId("excerpt")
      row == [ns |-> records[s].ns, name |-> records[s].name, keyed |-> FALSE,
              visibility |-> "private", index |-> "private", question |-> q,
              source |-> s, links |-> {}]
      after == [i \in DOMAIN records \cup {x} |->
                 IF i = x THEN row
                 ELSE IF i = c THEN [records[c] EXCEPT !.links = {x}]
                 ELSE records[i]]
  IN
  /\ deposits < stage.deposits
  /\ Cardinality(Ids("excerpt")) < Pool["excerpt"]
  /\ {q, s, c} \subseteq InNamespace(records[s].ns)
  /\ TakesQuestion(q) /\ TakesSource(s) /\ TakesClaim(c)
  /\ records' = after
  /\ native' = native \cup {q, s, c, x}
  /\ Rebuild(after)
  /\ deposits' = deposits + 1
  /\ UNCHANGED <<stage, status, revised, call, calls, whole, overtaken>>

\* A contested, rejected or superseded claim gets a revision, unless public.
ReviewClaim(c) ==
  /\ deposits < stage.deposits
  /\ ~Public(c)
  /\ revised' = revised \cup {c}
  /\ Rebuild(records)
  /\ deposits' = deposits + 1
  /\ UNCHANGED <<stage, records, status, native, call, calls, whole, overtaken>>

---------------------------------------------------------------------------
RecordsInit ==
  /\ stage \in Stage
  /\ records = stage.records
  /\ status = [q \in {i \in DOMAIN stage.records : KindOfId(i) = "question"} |->
                "open"]
  /\ native = {} /\ revised = {}
  /\ docs = Projection(stage.records)
  /\ call = [w \in Writer |-> None]
  /\ calls = [w \in Writer |-> 0]
  /\ deposits = 0
  /\ whole = {} /\ overtaken = {} /\ changed = {}

RecordsNext ==
  \/ \E w \in Writer :
       \/ Request(w) \/ Break(w)
       \/ \E kind \in Kinds : Seek(w, kind) \/ Create(w, kind)
       \/ SetStatus(w, "answer", "answered")
       \/ SetStatus(w, "insufficient", "insufficient_evidence")
       \/ SetStatus(w, "open", "open")
       \/ CheckPublication(w) \/ Publish(w) \/ SetIndexState(w)
  \/ \E q \in Ids("question"), s \in Ids("source"), c \in Ids("claim") :
       Deposit(q, s, c)
  \/ \E c \in Ids("claim") : ReviewClaim(c)

RecordsSpec == RecordsInit /\ [][RecordsNext]_recordVars

RecordsTypeOK ==
  /\ WellFormed(records)
  /\ DOMAIN docs \subseteq DOMAIN records
  /\ DOMAIN status = Ids("question")
  /\ native \cup revised \subseteq DOMAIN records
  /\ \A w \in Writer : calls[w] <= stage.calls[w]
================================================================================
