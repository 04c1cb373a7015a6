---------------------------- MODULE LibraryProofs ----------------------------
(***************************************************************************)
(* Proofs about Records and FrontEnds, for any writers, namespaces, stages *)
(* and readers: whatever is created, retried, published, suppressed,       *)
(* deposited and reviewed, no front end shows a record to a reader that    *)
(* may not see it, a published report opens, and nothing of v2 becomes     *)
(* public unnoticed.  And about Retrieval, for any library, weights and     *)
(* limits: pages lose nothing, and what is shown together belongs together. *)
(***************************************************************************)
EXTENDS FrontEnds, Retrieval, FiniteSetTheorems, WellFoundedInduction, TLAPS

-----------------------------------------------------------------------------
(* The inductive invariant *)

Tasks == Kinds \cup {"answer", "insufficient", "open", "check", "apply", "index"}
Have ==
  [question : Id \cup {None}, source : Id \cup {None}, excerpts : SUBSET Id,
   claims : SUBSET Id]
Call ==
  [ask : Requests, auth : Auth \cup {NoAuth}, name : Name, keyed : BOOLEAN,
   ns : Namespace, visibility : Visibility, have : Have, todo : Seq(Tasks),
   whole : BOOLEAN, seen : SUBSET Id, new : BOOLEAN]

\* What a call refers to exists.
HaveIn(rs, have) ==
  /\ have.question \in DOMAIN rs \cup {None}
  /\ have.source \in OfKind(rs, "source") \cup {None}
  /\ have.excerpts \subseteq OfKind(rs, "excerpt")
  /\ have.claims \subseteq OfKind(rs, "claim")

\* Every transaction of a list finds what it needs, because the request named
\* it or an earlier transaction of the list creates it.
Preceded(todo, i, kind) == \E j \in DOMAIN todo : j < i /\ todo[j] = kind
Ready(have, todo) ==
  \A i \in DOMAIN todo :
    /\ todo[i] \in {"session", "excerpt", "claim", "report"} =>
         \/ have.question # None /\ KindOfId(have.question) = "question"
         \/ Preceded(todo, i, "question")
    /\ todo[i] = "excerpt" => have.source # None \/ Preceded(todo, i, "source")
    /\ todo[i] \in {"check", "apply", "index"} => have.question # None
    /\ todo[i] = "report" => i + 1 \in DOMAIN todo /\ todo[i + 1] = "answer"

\* A call that has looked for a record and found none has joined it already.
JoinedIn(rs, kind, c) ==
  \A i \in RefsOf(NewRow(kind, c)) : i \in DOMAIN rs /\ rs[i].ns = c.ns

CallIn(rs, c) ==
  /\ c \in Call /\ c.todo # <<>>
  /\ HaveIn(rs, c.have) /\ Ready(c.have, c.todo)
  /\ c.seen = {}
  /\ c.new => Head(c.todo) \in Kinds /\ JoinedIn(rs, Head(c.todo), c)
CallsIn(rs, f) ==
  /\ f \in [Writer -> Call \cup {None}]
  /\ \A w \in Writer : f[w] # None => CallIn(rs, f[w])
CallInv ==
  /\ stage \in Stage
  /\ calls \in [Writer -> Nat]
  /\ CallsIn(records, call)

\* The projection lags behind only where a record was published or hidden since.
OwnerIn(rs, i) == IF KindOfId(i) = "excerpt" THEN rs[i].source ELSE i
DocsIn(rs, ds, lagging) ==
  \A i \in DOMAIN ds :
    /\ i \in Searchable(rs)
    /\ OwnerIn(rs, i) \in lagging \/ ds[i] = View(rs[OwnerIn(rs, i)])

\* A report that was published whole is public with all it is linked to.
WholeIn(rs, published) ==
  \A r \in published :
    /\ r \in OfKind(rs, "report")
    /\ \A i \in GraphIn(rs, r) : rs[i].visibility = "public"

LibraryInv ==
  /\ RecordsTypeOK /\ CallInv
  /\ DocsIn(records, docs, changed)
  /\ WholeIn(records, whole)
  /\ NativeStaysPrivate

-----------------------------------------------------------------------------
(* Tables *)

\* A new id of a kind is one that the table does not have.
LEMMA Fresh ==
  ASSUME NEW rs, WellFormed(rs), NEW kind \in Kinds
  PROVE  /\ IsFiniteSet(OfKind(rs, kind))
         /\ Cardinality(OfKind(rs, kind)) \in Nat
         /\ <<kind, Cardinality(OfKind(rs, kind)) + 1>> \in Id
         /\ <<kind, Cardinality(OfKind(rs, kind)) + 1>> \notin DOMAIN rs
<1> DEFINE n == Cardinality(OfKind(rs, kind))
           i == <<kind, n + 1>>
<1>1. IsFiniteSet(OfKind(rs, kind))
  BY FS_Subset DEF WellFormed, OfKind
<1>2. n \in Nat
  BY <1>1, FS_CardinalityType
<1> HIDE DEF n
<1>3. i \in Id
  BY <1>2 DEF Id
<1>4. KindOfId(i) = kind /\ i[2] = n + 1
  BY DEF KindOfId
<1>5. i \notin DOMAIN rs
  <2>1. SUFFICES ASSUME i \in DOMAIN rs
                 PROVE  FALSE
    OBVIOUS
  <2>2. i[2] <= Cardinality(OfKind(rs, KindOfId(i)))
    BY <2>1 DEF WellFormed, RefersWell
  <2>3. n + 1 <= n
    BY <1>4, <2>2 DEF n
  <2>4. QED
    BY <1>2, <2>3
<1>6. QED
  BY <1>1, <1>2, <1>3, <1>5 DEF n

\* Rows of the same links and namespaces.
SameLinks(x, y) ==
  x.ns = y.ns /\ x.question = y.question /\ x.source = y.source /\ x.links = y.links

LEMMA SameRefs ==
  ASSUME NEW x, NEW y, SameLinks(x, y)
  PROVE  RefsOf(x) = RefsOf(y)
BY DEF SameLinks, RefsOf

LEMMA Relabelled ==
  ASSUME NEW rs, WellFormed(rs), NEW rt, DOMAIN rt = DOMAIN rs,
         \A i \in DOMAIN rs : rt[i] \in RecordRow /\ SameLinks(rt[i], rs[i])
  PROVE  WellFormed(rt)
<1>1. \A kind : OfKind(rt, kind) = OfKind(rs, kind)
  BY DEF OfKind
<1>2. \A kind : LinksOf(rt, kind) = LinksOf(rs, kind)
  BY <1>1 DEF LinksOf
<1>3. ASSUME NEW i \in DOMAIN rs
      PROVE  RefersWell(rt, i)
  <2>1. RefersWell(rs, i) /\ RefsOf(rt[i]) = RefsOf(rs[i])
    BY SameRefs DEF WellFormed
  <2>2. \A j \in RefsOf(rs[i]) : j \in DOMAIN rs
    <3>1. KindOfId(i) \in Kinds
      BY DEF WellFormed, Id, KindOfId
    <3>2. LinksOf(rs, KindOfId(i)) \subseteq DOMAIN rs
      BY <3>1 DEF LinksOf, OfKind
    <3>3. QED
      BY <2>1, <3>2 DEF RefersWell, RefsOf, OfKind
  <2>3. QED
    BY <1>1, <1>2, <2>1, <2>2 DEF RefersWell, SameLinks
<1>4. QED
  BY <1>3 DEF WellFormed

LEMMA RefsExist ==
  ASSUME NEW rs, WellFormed(rs), NEW i \in DOMAIN rs
  PROVE  RefsOf(rs[i]) \subseteq DOMAIN rs
<1>1. RefersWell(rs, i)
  BY DEF WellFormed
<1>2. LinksOf(rs, KindOfId(i)) \subseteq DOMAIN rs
  BY DEF LinksOf, OfKind
<1>3. QED
  BY <1>1, <1>2 DEF RefersWell, RefsOf, OfKind

\* A new row, and perhaps a claim that is linked to it instead.
LEMMA Grown ==
  ASSUME NEW rs, WellFormed(rs), NEW kind \in Kinds, NEW rt, NEW i,
         i = <<kind, Cardinality(OfKind(rs, kind)) + 1>>,
         DOMAIN rt = DOMAIN rs \cup {i},
         \A j \in DOMAIN rs :
           /\ rt[j] \in RecordRow
           /\ rt[j].ns = rs[j].ns /\ rt[j].question = rs[j].question
           /\ rt[j].source = rs[j].source
           /\ \/ rt[j].links = rs[j].links
              \/ /\ KindOfId(j) = "claim" /\ kind = "excerpt"
                 /\ rt[j].links = {i} /\ rt[i].ns = rs[j].ns,
         rt[i] \in RecordRow,
         rt[i].question \in
           IF kind \in {"question", "source"} THEN {None} ELSE OfKind(rs, "question"),
         rt[i].source \in IF kind = "excerpt" THEN OfKind(rs, "source") ELSE {None},
         rt[i].links \subseteq LinksOf(rs, kind),
         \A j \in RefsOf(rt[i]) : rs[j].ns = rt[i].ns
  PROVE  WellFormed(rt) /\ i \notin DOMAIN rs
<1>1. i \in Id /\ i \notin DOMAIN rs /\ KindOfId(i) = kind
  BY Fresh DEF KindOfId
<1>2. IsFiniteSet(DOMAIN rt) /\ DOMAIN rt \subseteq Id
  BY <1>1, FS_AddElement DEF WellFormed
<1>3. \A k : OfKind(rs, k) \subseteq OfKind(rt, k)
  BY DEF OfKind
<1>4. \A k : LinksOf(rs, k) \subseteq LinksOf(rt, k)
  BY <1>3 DEF LinksOf
<1>5. \A k : IsFiniteSet(OfKind(rt, k)) /\ IsFiniteSet(OfKind(rs, k))
  BY <1>2, FS_Subset DEF OfKind, WellFormed
<1>6. \A k : /\ Cardinality(OfKind(rt, k)) \in Nat /\ Cardinality(OfKind(rs, k)) \in Nat
             /\ Cardinality(OfKind(rs, k)) <= Cardinality(OfKind(rt, k))
  BY <1>3, <1>5, FS_Subset, FS_CardinalityType
<1>7. ASSUME NEW j \in DOMAIN rs
      PROVE  RefersWell(rt, j)
  <2>1. RefersWell(rs, j) /\ RefsOf(rs[j]) \subseteq DOMAIN rs /\ j[2] \in Nat
    BY RefsExist DEF WellFormed, Id
  <2>2. j[2] <= Cardinality(OfKind(rt, KindOfId(j)))
    BY <1>6, <2>1 DEF RefersWell
  <2>3. rt[j].links \subseteq LinksOf(rt, KindOfId(j))
    <3>1. CASE rt[j].links = rs[j].links
      BY <1>4, <2>1, <3>1 DEF RefersWell
    <3>2. CASE KindOfId(j) = "claim" /\ kind = "excerpt" /\ rt[j].links = {i}
      BY <1>1, <3>2 DEF LinksOf, OfKind
    <3>3. QED
      BY <3>1, <3>2
  <2>4. \A k \in RefsOf(rt[j]) : rt[k].ns = rt[j].ns
    <3>1. \A k \in RefsOf(rs[j]) : rt[k].ns = rs[j].ns
      BY <2>1 DEF RefersWell
    <3>2. ASSUME NEW k \in RefsOf(rt[j])
          PROVE  k \in RefsOf(rs[j]) \/ (k = i /\ rt[i].ns = rs[j].ns)
      BY <3>2 DEF RefsOf
    <3>3. QED
      BY <3>1, <3>2
  <2>5. rt[j].question \in
          IF KindOfId(j) \in {"question", "source"} THEN {None} ELSE OfKind(rt, "question")
    BY <1>3, <2>1 DEF RefersWell
  <2>6. rt[j].source \in IF KindOfId(j) = "excerpt" THEN OfKind(rt, "source") ELSE {None}
    BY <1>3, <2>1 DEF RefersWell
  <2>7. QED
    BY <2>2, <2>3, <2>4, <2>5, <2>6 DEF RefersWell
<1>8. RefersWell(rt, i)
  <2>1. i[2] <= Cardinality(OfKind(rt, kind))
    <3>1. OfKind(rt, kind) = OfKind(rs, kind) \cup {i} /\ i \notin OfKind(rs, kind)
      BY <1>1 DEF OfKind
    <3>2. Cardinality(OfKind(rt, kind)) = Cardinality(OfKind(rs, kind)) + 1
      BY <1>5, <3>1, FS_AddElement
    <3>3. QED
      BY <1>6, <3>2
  <2>2. \A k \in RefsOf(rt[i]) : k \in DOMAIN rs
    BY DEF RefsOf, OfKind, LinksOf
  <2>3. \A k \in RefsOf(rt[i]) : rt[k].ns = rt[i].ns
    BY <2>2
  <2>4. rt[i].links \subseteq LinksOf(rt, kind)
    BY <1>4
  <2>5. QED
    BY <1>1, <1>3, <2>1, <2>3, <2>4 DEF RefersWell
<1>9. QED
  BY <1>1, <1>2, <1>7, <1>8 DEF WellFormed

-----------------------------------------------------------------------------
(* Calls *)

IsQuestion(i) == i # None /\ KindOfId(i) = "question"

LEMMA FirstIsHead ==
  ASSUME NEW S, NEW t \in Seq(S), Len(t) >= 1
  PROVE  t # <<>> /\ Head(t) = t[1]
OBVIOUS

\* A transaction is done: the rest of the list still finds what it needs.
LEMMA ReadyTail ==
  ASSUME NEW have, NEW todo \in Seq(Tasks), todo # <<>>, Ready(have, todo), NEW more,
         have.question # None => more.question # None,
         IsQuestion(have.question) \/ Head(todo) = "question" => IsQuestion(more.question),
         have.source # None \/ Head(todo) = "source" => more.source # None
  PROVE  Ready(more, Tail(todo)) /\ Tail(todo) \in Seq(Tasks)
<1> DEFINE rest == Tail(todo)
<1>1. /\ rest \in Seq(Tasks) /\ DOMAIN todo = 1 .. Len(todo) /\ Len(todo) \in Nat
      /\ DOMAIN rest = 1 .. (Len(todo) - 1)
      /\ \A i \in DOMAIN rest : rest[i] = todo[i + 1]
  OBVIOUS
<1> HIDE DEF rest
<1>2. ASSUME NEW i \in DOMAIN rest, NEW kind, kind # Head(todo), Preceded(todo, i + 1, kind)
      PROVE  Preceded(rest, i, kind)
  <2>1. PICK j \in DOMAIN todo : j < i + 1 /\ todo[j] = kind
    BY <1>2 DEF Preceded
  <2>2. j # 1
    BY <1>2, <2>1
  <2>3. j - 1 \in DOMAIN rest /\ j - 1 < i /\ rest[j - 1] = todo[j]
    BY <1>1, <2>1, <2>2
  <2>4. QED
    BY <2>1, <2>3 DEF Preceded
<1>3. ASSUME NEW i \in DOMAIN rest
      PROVE  /\ rest[i] \in {"session", "excerpt", "claim", "report"} =>
                  \/ more.question # None /\ KindOfId(more.question) = "question"
                  \/ Preceded(rest, i, "question")
             /\ rest[i] = "excerpt" => more.source # None \/ Preceded(rest, i, "source")
             /\ rest[i] \in {"check", "apply", "index"} => more.question # None
             /\ rest[i] = "report" => i + 1 \in DOMAIN rest /\ rest[i + 1] = "answer"
  <2>1. i + 1 \in DOMAIN todo /\ rest[i] = todo[i + 1]
    BY <1>1
  <2>2. rest[i] \in {"session", "excerpt", "claim", "report"} =>
          \/ have.question # None /\ KindOfId(have.question) = "question"
          \/ Preceded(todo, i + 1, "question")
    BY <2>1 DEF Ready
  <2>3. rest[i] = "excerpt" => have.source # None \/ Preceded(todo, i + 1, "source")
    BY <2>1 DEF Ready
  <2>4. rest[i] \in {"check", "apply", "index"} => more.question # None
    BY <2>1 DEF Ready
  <2>5. rest[i] = "report" => i + 1 \in DOMAIN rest /\ rest[i + 1] = "answer"
    <3>1. rest[i] = "report" => (i + 1) + 1 \in DOMAIN todo /\ todo[(i + 1) + 1] = "answer"
      BY <2>1 DEF Ready
    <3>2. QED
      BY <1>1, <3>1
  <2>6. rest[i] \in {"session", "excerpt", "claim", "report"} =>
          \/ more.question # None /\ KindOfId(more.question) = "question"
          \/ Preceded(rest, i, "question")
    BY <1>2, <2>2 DEF IsQuestion
  <2>7. rest[i] = "excerpt" => more.source # None \/ Preceded(rest, i, "source")
    BY <1>2, <2>3
  <2>8. QED
    BY <2>4, <2>5, <2>6, <2>7
<1>4. QED
  BY <1>1, <1>3 DEF Ready, rest

\* The lists of transactions are complete.
LEMMA OneStep ==
  ASSUME NEW S, NEW a \in S
  PROVE  <<a>> \in Seq(S) /\ <<a>> # <<>> /\ DOMAIN <<a>> = 1 .. 1 /\ <<a>>[1] = a
OBVIOUS

LEMMA TwoSteps ==
  ASSUME NEW S, NEW a \in S, NEW b \in S, NEW t, t = <<a, b>>
  PROVE  t \in Seq(S) /\ t # <<>> /\ DOMAIN t = 1 .. 2 /\ t[1] = a /\ t[2] = b
OBVIOUS

LEMMA SevenSteps ==
  ASSUME NEW S, NEW a \in S, NEW b \in S, NEW c \in S, NEW d \in S, NEW e \in S,
         NEW f \in S, NEW g \in S, NEW t, t = <<a, b, c, d, e, f, g>>
  PROVE  /\ t \in Seq(S) /\ t # <<>> /\ DOMAIN t = 1 .. 7
         /\ t[1] = a /\ t[2] = b /\ t[3] = c /\ t[4] = d /\ t[5] = e /\ t[6] = f
         /\ t[7] = g
OBVIOUS

LEMMA ReadyOne ==
  ASSUME NEW have, NEW t, NEW a, DOMAIN t = 1 .. 1, t[1] = a, a # "report",
         a \in {"session", "excerpt", "claim"} => IsQuestion(have.question),
         a = "excerpt" => have.source # None,
         a \in {"check", "apply", "index"} => have.question # None
  PROVE  Ready(have, t)
BY DEF Ready, Preceded, IsQuestion

LEMMA ReadyTwo ==
  ASSUME NEW have, NEW t, NEW a, NEW b, DOMAIN t = 1 .. 2, t[1] = a, t[2] = b,
         a # "excerpt", b # "report", b = "excerpt" => a = "source",
         a = "report" => b = "answer",
         a \in {"check", "apply"} \/ b \in {"check", "apply"} => have.question # None,
         a \in {"session", "claim", "report"} => IsQuestion(have.question),
         b \in {"session", "excerpt", "claim"} => IsQuestion(have.question),
         a # "index", b # "index"
  PROVE  Ready(have, t)
<1>1. b = "excerpt" => Preceded(t, 2, "source")
  BY DEF Preceded
<1>2. \A i \in DOMAIN t : i = 1 \/ i = 2
  OBVIOUS
<1>3. a = "report" => 1 + 1 \in DOMAIN t /\ t[1 + 1] = "answer"
  OBVIOUS
<1>4. QED
  BY <1>1, <1>2, <1>3 DEF Ready, IsQuestion

LEMMA ReadyBundle ==
  ASSUME NEW have, NEW t, DOMAIN t = 1 .. 7,
         t[1] = "question", t[2] = "session", t[3] = "source", t[4] = "excerpt",
         t[5] = "claim", t[6] = "report", t[7] = "answer"
  PROVE  Ready(have, t)
<1>1. \A i \in 2 .. 7 : Preceded(t, i, "question")
  BY DEF Preceded
<1>2. Preceded(t, 4, "source")
  BY DEF Preceded
<1>3. QED
  BY <1>1, <1>2 DEF Ready

LEMMA ReadyRefresh ==
  ASSUME NEW have, NEW t, DOMAIN t = 1 .. 7, IsQuestion(have.question),
         t[1] = "session", t[2] = "source", t[3] = "excerpt", t[4] = "claim",
         t[5] = "report", t[6] = "answer", t[7] = "answer"
  PROVE  Ready(have, t)
<1>1. Preceded(t, 3, "source")
  BY DEF Preceded
<1>2. QED
  BY <1>1 DEF Ready, IsQuestion

Planned(have, todo) == todo \in Seq(Tasks) /\ todo # <<>> /\ Ready(have, todo)

LEMMA StepNames ==
  /\ Kinds \subseteq Tasks
  /\ "question" \in Tasks /\ "session" \in Tasks /\ "source" \in Tasks /\ "excerpt" \in Tasks
  /\ "claim" \in Tasks /\ "report" \in Tasks /\ "answer" \in Tasks /\ "open" \in Tasks
  /\ "insufficient" \in Tasks /\ "check" \in Tasks /\ "apply" \in Tasks /\ "index" \in Tasks
BY DEF Tasks, Kinds

LEMMA OneComplete ==
  ASSUME NEW have, NEW a \in Tasks, a \notin {"report", "check", "apply"},
         a \in {"session", "excerpt", "claim"} => IsQuestion(have.question),
         a = "excerpt" => have.source # None,
         a = "index" => have.question # None
  PROVE  Planned(have, <<a>>)
BY OneStep, ReadyOne DEF Planned

LEMMA TwoComplete ==
  ASSUME NEW have
  PROVE  /\ IsQuestion(have.question) => Planned(have, Importing)
         /\ IsQuestion(have.question) => Planned(have, <<"source", "excerpt">>)
         /\ IsQuestion(have.question) => Planned(have, Reporting)
         /\ IsQuestion(have.question) => Planned(have, EmptyRefresh)
         /\ have.question # None => Planned(have, Publishing)
<1>1. ASSUME NEW t, t = <<"source", "excerpt">>, IsQuestion(have.question)
      PROVE  Planned(have, t)
  <2>1. t \in Seq(Tasks) /\ t # <<>> /\ DOMAIN t = 1 .. 2 /\ t[1] = "source" /\ t[2] = "excerpt"
    BY <1>1, StepNames, TwoSteps
  <2>2. QED
    BY <1>1, <2>1, ReadyTwo DEF Planned
<1>2. ASSUME NEW t, t = <<"report", "answer">>, IsQuestion(have.question)
      PROVE  Planned(have, t)
  <2>1. t \in Seq(Tasks) /\ t # <<>> /\ DOMAIN t = 1 .. 2 /\ t[1] = "report" /\ t[2] = "answer"
    BY <1>2, StepNames, TwoSteps
  <2>2. QED
    BY <1>2, <2>1, ReadyTwo DEF Planned
<1>3. ASSUME NEW t, t = <<"session", "insufficient">>, IsQuestion(have.question)
      PROVE  Planned(have, t)
  <2>1. t \in Seq(Tasks) /\ t # <<>> /\ DOMAIN t = 1 .. 2 /\ t[1] = "session" /\ t[2] = "insufficient"
    BY <1>3, StepNames, TwoSteps
  <2>2. QED
    BY <1>3, <2>1, ReadyTwo DEF Planned
<1>4. ASSUME NEW t, t = <<"check", "apply">>, have.question # None
      PROVE  Planned(have, t)
  <2>1. t \in Seq(Tasks) /\ t # <<>> /\ DOMAIN t = 1 .. 2 /\ t[1] = "check" /\ t[2] = "apply"
    BY <1>4, StepNames, TwoSteps
  <2>2. QED
    BY <1>4, <2>1, ReadyTwo DEF Planned
<1>5. QED
  BY <1>1, <1>2, <1>3, <1>4 DEF Importing, Reporting, EmptyRefresh, Publishing

LEMMA SevenComplete ==
  ASSUME NEW have
  PROVE  /\ Planned(have, Bundle)
         /\ IsQuestion(have.question) => Planned(have, Refreshing)
<1>1. ASSUME NEW t, t = Bundle
      PROVE  Planned(have, t)
  <2>1. /\ t \in Seq(Tasks) /\ t # <<>> /\ DOMAIN t = 1 .. 7
        /\ t[1] = "question" /\ t[2] = "session" /\ t[3] = "source" /\ t[4] = "excerpt"
        /\ t[5] = "claim" /\ t[6] = "report" /\ t[7] = "answer"
    BY <1>1, StepNames, SevenSteps DEF Bundle
  <2>2. QED
    BY <2>1, ReadyBundle DEF Planned
<1>2. ASSUME NEW t, t = Refreshing, IsQuestion(have.question)
      PROVE  Planned(have, t)
  <2>1. /\ t \in Seq(Tasks) /\ t # <<>> /\ DOMAIN t = 1 .. 7
        /\ t[1] = "session" /\ t[2] = "source" /\ t[3] = "excerpt" /\ t[4] = "claim"
        /\ t[5] = "report" /\ t[6] = "answer" /\ t[7] = "answer"
    BY <1>2, StepNames, SevenSteps DEF Refreshing
  <2>2. QED
    BY <1>2, <2>1, ReadyRefresh DEF Planned
<1>3. QED
  BY <1>1, <1>2

LEMMA AllComplete ==
  ASSUME NEW have, NEW ask,
         ask \in {"session", "cited_excerpt", "import", "excerpt", "claim", "report",
                  "refresh", "empty_refresh", "status"} => IsQuestion(have.question),
         ask = "excerpt" => have.source # None,
         ask \in {"publish", "index"} => have.question # None,
         ask \in Requests
  PROVE  Planned(have, Transactions(ask))
<1>1. CASE ask \in {"bundle", "refresh"}
  <2>1. \/ ask = "bundle" /\ Transactions(ask) = Bundle
        \/ ask = "refresh" /\ Transactions(ask) = Refreshing
    BY <1>1 DEF Transactions
  <2>2. QED
    BY <2>1, SevenComplete
<1>2. CASE ask \in {"cited_excerpt", "import", "report", "empty_refresh", "publish"}
  <2>1. \/ ask = "import" /\ Transactions(ask) = Importing
        \/ ask = "cited_excerpt" /\ Transactions(ask) = Importing
        \/ ask = "report" /\ Transactions(ask) = Reporting
        \/ ask = "empty_refresh" /\ Transactions(ask) = EmptyRefresh
        \/ ask = "publish" /\ Transactions(ask) = Publishing
    BY <1>2 DEF Transactions, Importing
  <2>2. QED
    BY <2>1, TwoComplete
<1>3. CASE ask = "status"
  <2>1. Transactions(ask) = <<"open">>
    BY <1>3 DEF Transactions
  <2>2. Planned(have, <<"open">>)
    BY StepNames, OneComplete
  <2>3. QED
    BY <2>1, <2>2
<1>4. CASE ask \in {"question", "session", "source", "excerpt", "claim", "index"}
  <2>1. Transactions(ask) = <<ask>>
    BY <1>4 DEF Transactions
  <2>2. ask \in Tasks /\ ask \notin {"report", "check", "apply"}
    BY <1>4, StepNames
  <2>3. Planned(have, <<ask>>)
    BY <2>2, OneComplete
  <2>4. QED
    BY <2>1, <2>3
<1>5. QED
  BY <1>1, <1>2, <1>3, <1>4 DEF Requests, Kinds

-----------------------------------------------------------------------------
(* The other calls, while the tables grow *)

Extends(rs, rt) ==
  DOMAIN rs \subseteq DOMAIN rt /\ \A i \in DOMAIN rs : rt[i].ns = rs[i].ns

LEMMA SameExtends ==
  ASSUME NEW rs
  PROVE  Extends(rs, rs)
BY DEF Extends

LEMMA HaveStays ==
  ASSUME NEW rs, NEW rt, Extends(rs, rt), NEW have, HaveIn(rs, have)
  PROVE  HaveIn(rt, have)
BY DEF Extends, HaveIn, OfKind

LEMMA CallStays ==
  ASSUME NEW rs, NEW rt, Extends(rs, rt), NEW c, CallIn(rs, c)
  PROVE  CallIn(rt, c)
<1>1. HaveIn(rt, c.have)
  BY HaveStays DEF CallIn
<1>2. ASSUME JoinedIn(rs, Head(c.todo), c)
      PROVE  JoinedIn(rt, Head(c.todo), c)
  BY <1>2 DEF JoinedIn, Extends
<1>3. QED
  BY <1>1, <1>2 DEF CallIn

\* One call moves, the others stay.
LEMMA CallsStay ==
  ASSUME NEW rs, NEW rt, Extends(rs, rt), NEW f, CallsIn(rs, f),
         NEW w \in Writer, NEW d, d = None \/ CallIn(rt, d)
  PROVE  CallsIn(rt, [f EXCEPT ![w] = d])
<1> DEFINE g == [f EXCEPT ![w] = d]
<1>1. f \in [Writer -> Call \cup {None}] /\ d \in Call \cup {None}
  BY DEF CallsIn, CallIn
<1>2. g \in [Writer -> Call \cup {None}]
  BY <1>1
<1>3. g[w] = d /\ \A v \in Writer : v # w => g[v] = f[v]
  BY <1>1
<1> HIDE DEF g
<1>4. ASSUME NEW v \in Writer, g[v] # None
      PROVE  CallIn(rt, g[v])
  <2>1. CASE v = w
    BY <1>3, <1>4, <2>1
  <2>2. CASE v # w
    <3>1. CallIn(rs, f[v])
      BY <1>3, <1>4, <2>2 DEF CallsIn
    <3>2. QED
      BY <1>3, <2>2, <3>1, CallStays
  <2>3. QED
    BY <2>1, <2>2
<1>5. CallsIn(rt, g)
  BY <1>2, <1>4 DEF CallsIn
<1>6. QED
  BY <1>5 DEF g

LEMMA AllCallsStay ==
  ASSUME NEW rs, NEW rt, Extends(rs, rt), NEW f, CallsIn(rs, f)
  PROVE  CallsIn(rt, f)
BY CallStays DEF CallsIn

\* A call that has done the first transaction of its list.
LEMMA Advanced ==
  ASSUME NEW rs, NEW rt, Extends(rs, rt), NEW c, CallIn(rs, c), NEW d \in Call,
         HaveIn(rt, d.have), d.todo = Tail(c.todo), d.seen = {}, ~d.new,
         c.have.question # None => d.have.question # None,
         IsQuestion(c.have.question) \/ Head(c.todo) = "question" =>
           IsQuestion(d.have.question),
         c.have.source # None \/ Head(c.todo) = "source" => d.have.source # None
  PROVE  d.todo = <<>> \/ CallIn(rt, d)
<1>1. c.todo \in Seq(Tasks) /\ c.todo # <<>> /\ Ready(c.have, c.todo)
  BY DEF CallIn, Call
<1>2. Ready(d.have, d.todo)
  BY <1>1, ReadyTail
<1>3. QED
  BY <1>2 DEF CallIn

\* What a call has once it has a record of the kind it was to create.
LEMMA WithHave ==
  ASSUME NEW rs, NEW rt, Extends(rs, rt), NEW have \in Have, HaveIn(rs, have),
         NEW kind \in Kinds, NEW i \in OfKind(rt, kind), DOMAIN rt \subseteq Id,
         NEW more, more = With(have, kind, i)
  PROVE  /\ more \in Have /\ HaveIn(rt, more)
         /\ have.question # None => more.question # None
         /\ IsQuestion(have.question) \/ kind = "question" => IsQuestion(more.question)
         /\ have.source # None \/ kind = "source" => more.source # None
<1>1. i \in Id /\ i # None /\ i \in DOMAIN rt /\ KindOfId(i) = kind
  BY RecordsAssumption DEF OfKind
<1>2. HaveIn(rt, have)
  BY HaveStays
<1>3. /\ more.question = IF kind = "question" THEN i ELSE have.question
      /\ more.source = IF kind = "source" THEN i ELSE have.source
      /\ more.excerpts = IF kind = "excerpt" THEN {i} ELSE have.excerpts
      /\ more.claims = IF kind = "claim" THEN {i} ELSE have.claims
  BY DEF With, Have
<1>4. more \in Have
  BY <1>1 DEF With, Have
<1>5. HaveIn(rt, more)
  BY <1>1, <1>2, <1>3 DEF HaveIn, OfKind
<1>6. QED
  BY <1>1, <1>3, <1>4, <1>5 DEF IsQuestion

-----------------------------------------------------------------------------
(* What a record is linked to *)

LEMMA GraphExists ==
  ASSUME NEW rs, WellFormed(rs), NEW i \in DOMAIN rs
  PROVE  GraphIn(rs, i) \subseteq DOMAIN rs
<1>1. ASSUME NEW ids, ids \subseteq DOMAIN rs
      PROVE  Wider(rs, ids) \subseteq DOMAIN rs
  BY <1>1, RefsExist DEF Wider
<1>2. QED
  BY <1>1 DEF GraphIn

LEMMA GraphSame ==
  ASSUME NEW rs, NEW rt, NEW i,
         \A j \in GraphIn(rs, i) : RefsOf(rt[j]) = RefsOf(rs[j])
  PROVE  GraphIn(rt, i) = GraphIn(rs, i)
<1>1. ASSUME NEW ids, \A j \in ids : RefsOf(rt[j]) = RefsOf(rs[j])
      PROVE  Wider(rt, ids) = Wider(rs, ids)
  BY <1>1 DEF Wider
<1>2. \A ids : ids \subseteq Wider(rs, ids)
  BY DEF Wider
<1> DEFINE one == Wider(rs, {i})
           two == Wider(rs, one)
<1>3. {i} \subseteq one /\ one \subseteq two /\ two \subseteq GraphIn(rs, i)
  BY <1>2 DEF GraphIn
<1>4. Wider(rt, {i}) = one
  BY <1>1, <1>3
<1>5. Wider(rt, one) = two
  BY <1>1, <1>3
<1>6. Wider(rt, two) = GraphIn(rs, i)
  BY <1>1, <1>3 DEF GraphIn
<1>7. QED
  BY <1>4, <1>5, <1>6 DEF GraphIn

\* Published graphs stay published while public records keep their links.
LEMMA WholeStays ==
  ASSUME NEW rs, WellFormed(rs), NEW rt, DOMAIN rs \subseteq DOMAIN rt,
         \A i \in DOMAIN rs : rs[i].visibility = "public" =>
           rt[i].visibility = "public" /\ SameLinks(rt[i], rs[i]),
         NEW published, WholeIn(rs, published)
  PROVE  WholeIn(rt, published)
<1>1. ASSUME NEW r \in published
      PROVE  /\ r \in OfKind(rt, "report")
             /\ \A i \in GraphIn(rt, r) : rt[i].visibility = "public"
  <2>1. /\ r \in DOMAIN rs /\ KindOfId(r) = "report"
        /\ \A i \in GraphIn(rs, r) : rs[i].visibility = "public"
    BY DEF WholeIn, OfKind
  <2>2. GraphIn(rs, r) \subseteq DOMAIN rs
    BY <2>1, GraphExists
  <2>3. \A i \in GraphIn(rs, r) : RefsOf(rt[i]) = RefsOf(rs[i])
    BY <2>1, <2>2, SameRefs
  <2>4. GraphIn(rt, r) = GraphIn(rs, r)
    BY <2>3, GraphSame
  <2>5. QED
    BY <2>1, <2>2, <2>4 DEF OfKind
<1>2. QED
  BY <1>1 DEF WholeIn

LEMMA Rebuilt ==
  ASSUME NEW rs, NEW lagging
  PROVE  DocsIn(rs, Projection(rs), lagging) /\ DOMAIN Projection(rs) \subseteq DOMAIN rs
BY DEF DocsIn, Projection, OwnerIn, Searchable

-----------------------------------------------------------------------------
(* Every step keeps the invariant *)

LEMMA ToKeeps ==
  ASSUME CallsIn(records, call), Extends(records, records'), NEW w \in Writer, NEW c,
         c.todo = <<>> \/ CallIn(records', c), To(w, c)
  PROVE  CallsIn(records', call')
<1> DEFINE d == IF c.todo = <<>> THEN None ELSE c
<1>1. call' = [call EXCEPT ![w] = d]
  BY DEF To
<1>2. d = None \/ CallIn(records', d)
  OBVIOUS
<1> HIDE DEF d
<1>3. QED
  BY <1>1, <1>2, CallsStay

LEMMA CallOf ==
  ASSUME LibraryInv, NEW w \in Writer, call[w] # None
  PROVE  /\ CallIn(records, call[w]) /\ call[w] \in Call
         /\ call[w].todo \in Seq(Tasks) /\ call[w].todo # <<>>
         /\ 1 \in DOMAIN call[w].todo /\ call[w].todo[1] = Head(call[w].todo)
<1>1. CallIn(records, call[w])
  BY DEF LibraryInv, CallInv, CallsIn
<1>2. call[w] \in Call /\ call[w].todo # <<>>
  BY <1>1 DEF CallIn
<1>3. call[w].todo \in Seq(Tasks)
  BY <1>2 DEF Call
<1>4. QED
  BY <1>1, <1>2, <1>3

\* A call goes on to its next transaction and has what it had.
LEMMA Moved ==
  ASSUME NEW rs, NEW rt, Extends(rs, rt), NEW c, CallIn(rs, c),
         Head(c.todo) \notin {"question", "source"}, ~c.new, NEW d,
         d = [c EXCEPT !.todo = Tail(@)] \/ d = [c EXCEPT !.todo = Tail(@), !.seen = {}]
  PROVE  d.todo = <<>> \/ CallIn(rt, d)
<1>1. c \in Call /\ c.todo \in Seq(Tasks) /\ c.todo # <<>> /\ c.seen = {}
  BY DEF CallIn, Call
<1>2. Tail(c.todo) \in Seq(Tasks)
  BY <1>1
<1>3. /\ d \in Call /\ d.todo = Tail(c.todo) /\ d.seen = {} /\ ~d.new /\ d.have = c.have
  BY <1>1, <1>2 DEF Call
<1>4. HaveIn(rt, d.have)
  BY <1>3, HaveStays DEF CallIn
<1>5. QED
  BY <1>3, <1>4, Advanced, SameExtends

LEMMA BreakKeeps ==
  ASSUME LibraryInv, NEW w \in Writer, Break(w)
  PROVE  LibraryInv'
<1>1. CallsIn(records, call')
  <2>1. call' = [call EXCEPT ![w] = None]
    BY DEF Break, Ended
  <2>2. QED
    BY <2>1, CallsStay, SameExtends DEF LibraryInv, CallInv
<1>2. QED
  BY <1>1 DEF LibraryInv, CallInv, Break, RecordsTypeOK, NativeStaysPrivate, Ids, Public

LEMMA SetStatusKeeps ==
  ASSUME LibraryInv, NEW w \in Writer, NEW step \in {"answer", "insufficient", "open"},
         NEW new, SetStatus(w, step, new)
  PROVE  LibraryInv'
<1> DEFINE c == call[w]
           d == [c EXCEPT !.todo = Tail(@)]
<1>1. CallIn(records, c) /\ Head(c.todo) = step
  BY CallOf DEF SetStatus, Creates
<1>2. ~c.new
  BY <1>1 DEF CallIn, Kinds
<1>3. d.todo = <<>> \/ CallIn(records, d)
  <2> HIDE DEF c
  <2>1. QED
    BY <1>1, <1>2, Moved, SameExtends
<1>4. To(w, d) /\ records' = records
  BY DEF SetStatus
<1> HIDE DEF c, d
<1>5. CallsIn(records', call')
  BY <1>3, <1>4, ToKeeps, SameExtends DEF LibraryInv, CallInv
<1>6. CallInv'
  BY <1>5 DEF LibraryInv, CallInv, SetStatus
<1>7. RecordsTypeOK'
  <2>1. DOMAIN docs' \subseteq DOMAIN records
    BY Rebuilt DEF SetStatus, Rebuild
  <2>2. DOMAIN status' = DOMAIN status
    BY DEF SetStatus
  <2>3. QED
    BY <1>4, <2>1, <2>2 DEF LibraryInv, RecordsTypeOK, SetStatus, Ids
<1>8. DocsIn(records', docs', changed')
  BY <1>4, Rebuilt DEF SetStatus, Rebuild
<1>9. WholeIn(records', whole')
  BY <1>4 DEF SetStatus, LibraryInv
<1>10. NativeStaysPrivate'
  BY <1>4 DEF SetStatus, LibraryInv, NativeStaysPrivate, Public
<1>11. QED
  BY <1>6, <1>7, <1>8, <1>9, <1>10 DEF LibraryInv

LEMMA ReviewClaimKeeps ==
  ASSUME LibraryInv, NEW c \in Ids("claim"), ReviewClaim(c)
  PROVE  LibraryInv'
<1>1. CallInv'
  BY DEF LibraryInv, CallInv, ReviewClaim
<1>2. RecordsTypeOK'
  <2>1. DOMAIN docs' \subseteq DOMAIN records
    BY Rebuilt DEF ReviewClaim, Rebuild
  <2>2. QED
    BY <2>1 DEF LibraryInv, RecordsTypeOK, ReviewClaim, Ids, OfKind
<1>3. DocsIn(records', docs', changed')
  BY Rebuilt DEF ReviewClaim, Rebuild
<1>4. WholeIn(records', whole')
  BY DEF ReviewClaim, LibraryInv
<1>5. NativeStaysPrivate'
  BY DEF ReviewClaim, LibraryInv, NativeStaysPrivate, Public
<1>6. QED
  BY <1>1, <1>2, <1>3, <1>4, <1>5 DEF LibraryInv

LEMMA CheckPublicationKeeps ==
  ASSUME LibraryInv, NEW w \in Writer, CheckPublication(w)
  PROVE  LibraryInv'
<1> DEFINE c == call[w]
           d == [c EXCEPT !.todo = Tail(@), !.seen = {}]
<1>1. CallIn(records, c) /\ Head(c.todo) = "check"
  BY CallOf DEF CheckPublication, Creates
<1>2. ~c.new
  BY <1>1 DEF CallIn, Kinds
<1>3. d.todo = <<>> \/ CallIn(records, d)
  <2> HIDE DEF c
  <2>1. QED
    BY <1>1, <1>2, Moved, SameExtends
<1>4. To(w, d) /\ records' = records
  BY DEF CheckPublication, Publishable
<1> HIDE DEF c, d
<1>5. CallsIn(records', call')
  BY <1>3, <1>4, ToKeeps, SameExtends DEF LibraryInv, CallInv
<1>6. QED
  BY <1>5 DEF LibraryInv, CallInv, CheckPublication, RecordsTypeOK,
              NativeStaysPrivate, Ids, Public

\* What a call publishes or hides is there.
LEMMA TargetExists ==
  ASSUME NEW rs, NEW c, CallIn(rs, c), Head(c.todo) \in {"check", "apply", "index"}
  PROVE  Target(c) \in DOMAIN rs
<1>1. c.todo \in Seq(Tasks) /\ c.todo # <<>>
  BY DEF CallIn, Call
<1>2. 1 \in DOMAIN c.todo /\ c.todo[1] = Head(c.todo)
  BY <1>1
<1>3. c.have.question # None
  BY <1>2 DEF CallIn, Ready
<1>4. QED
  BY <1>3 DEF CallIn, HaveIn, Target

\* Some records are labelled anew: none that was public turns private, and what
\* is labelled is added to what the projection does not know.
LEMMA LabelsKeep ==
  ASSUME NEW rs, WellFormed(rs), NEW rt, NEW some, DOMAIN rt = DOMAIN rs,
         \A i \in DOMAIN rs :
           /\ rt[i] \in RecordRow /\ SameLinks(rt[i], rs[i])
           /\ rs[i].visibility = "public" => rt[i].visibility = "public"
           /\ i \notin some => rt[i] = rs[i],
         NEW ds, NEW lagging, DocsIn(rs, ds, lagging),
         NEW published, WholeIn(rs, published)
  PROVE  /\ WellFormed(rt) /\ Extends(rs, rt)
         /\ DocsIn(rt, ds, lagging \cup some)
         /\ WholeIn(rt, published)
<1>1. WellFormed(rt)
  BY Relabelled
<1>2. Extends(rs, rt)
  BY DEF Extends, SameLinks
<1>3. DocsIn(rt, ds, lagging \cup some)
  <2>1. ASSUME NEW i \in DOMAIN ds
        PROVE  /\ i \in Searchable(rt)
               /\ OwnerIn(rt, i) \in lagging \cup some \/ ds[i] = View(rt[OwnerIn(rt, i)])
    <3>1. i \in Searchable(rs) /\ i \in DOMAIN rs
      BY DEF DocsIn, Searchable
    <3>2. OwnerIn(rt, i) = OwnerIn(rs, i)
      BY <3>1 DEF OwnerIn, SameLinks
    <3>3. OwnerIn(rs, i) \in DOMAIN rs
      <4>1. CASE KindOfId(i) = "excerpt"
        BY <3>1, <4>1 DEF OwnerIn, WellFormed, RefersWell, OfKind
      <4>2. QED
        BY <3>1, <4>1 DEF OwnerIn
    <3>4. OwnerIn(rs, i) \in lagging \/ ds[i] = View(rs[OwnerIn(rs, i)])
      BY DEF DocsIn
    <3>5. QED
      BY <3>1, <3>2, <3>3, <3>4 DEF Searchable
  <2>2. QED
    BY <2>1 DEF DocsIn
<1>4. WholeIn(rt, published)
  BY WholeStays
<1>5. QED
  BY <1>1, <1>2, <1>3, <1>4

LEMMA SetIndexStateKeeps ==
  ASSUME LibraryInv, NEW w \in Writer, SetIndexState(w)
  PROVE  LibraryInv'
<1> DEFINE c == call[w]
           d == [c EXCEPT !.todo = Tail(@)]
           t == Target(c)
<1>1. CallIn(records, c) /\ Head(c.todo) = "index"
  BY CallOf DEF SetIndexState, Creates
<1>2. ~c.new
  BY <1>1 DEF CallIn, Kinds
<1>3. To(w, d) /\ changed' = changed \cup {t}
  BY DEF SetIndexState
<1>4. PICK state \in {"suppressed", "included"} :
        records' = [records EXCEPT ![t].index = state]
  BY DEF SetIndexState
<1>5. t \in DOMAIN records
  BY <1>1, TargetExists
<1> HIDE DEF c, t
<1>6. WellFormed(records)
  BY DEF LibraryInv, RecordsTypeOK
<1>7. /\ DOMAIN records' = DOMAIN records
      /\ \A i \in DOMAIN records :
           /\ records'[i] \in RecordRow /\ SameLinks(records'[i], records[i])
           /\ records'[i].visibility = records[i].visibility
           /\ i \notin {t} => records'[i] = records[i]
  <2>1. DOMAIN records' = DOMAIN records
    BY <1>4
  <2>2. ASSUME NEW i \in DOMAIN records
        PROVE  /\ records'[i] \in RecordRow /\ SameLinks(records'[i], records[i])
               /\ records'[i].visibility = records[i].visibility
               /\ i \notin {t} => records'[i] = records[i]
    <3>1. records[i] \in RecordRow
      BY <1>6 DEF WellFormed
    <3>2. records'[i] = IF i = t THEN [records[i] EXCEPT !.index = state] ELSE records[i]
      BY <1>4
    <3>3. QED
      BY <3>1, <3>2 DEF RecordRow, SameLinks, IndexState
  <2>3. QED
    BY <2>1, <2>2
<1>8. /\ WellFormed(records') /\ Extends(records, records')
      /\ DocsIn(records', docs, changed \cup {t})
      /\ WholeIn(records', whole)
  BY <1>6, <1>7, LabelsKeep DEF LibraryInv
<1>9. d.todo = <<>> \/ CallIn(records', d)
  BY <1>1, <1>2, <1>8, Moved
<1> HIDE DEF d
<1>10. CallsIn(records', call')
  BY <1>3, <1>8, <1>9, ToKeeps DEF LibraryInv, CallInv
<1>11. CallInv'
  BY <1>10 DEF LibraryInv, CallInv, SetIndexState
<1>12. RecordsTypeOK'
  BY <1>7, <1>8 DEF LibraryInv, RecordsTypeOK, SetIndexState, Ids, OfKind
<1>13. NativeStaysPrivate'
  BY <1>7 DEF LibraryInv, RecordsTypeOK, SetIndexState, NativeStaysPrivate, Public
<1>14. QED
  BY <1>3, <1>8, <1>11, <1>12, <1>13 DEF LibraryInv, SetIndexState

LEMMA PublishKeeps ==
  ASSUME LibraryInv, NEW w \in Writer, Publish(w)
  PROVE  LibraryInv'
<1> DEFINE c == call[w]
           d == [c EXCEPT !.todo = Tail(@)]
           t == Target(c)
           graph == Cascade(c)
<1>1. CallIn(records, c) /\ Head(c.todo) = "apply" /\ c \in Call
  BY CallOf DEF Publish, Creates
<1>2. ~c.new /\ c.seen = {}
  BY <1>1 DEF CallIn, Kinds
<1>3. /\ To(w, d) /\ changed' = changed \cup graph
      /\ overtaken' = overtaken \cup (graph \cap (native \cup revised))
      /\ native' = native /\ revised' = revised /\ docs' = docs
      /\ whole' = IF c.whole /\ KindOfId(t) = "report" THEN whole \cup {t} ELSE whole
  BY <1>2 DEF Publish
<1>4. records' = [i \in DOMAIN records |->
        IF i \in graph THEN [records[i] EXCEPT !.visibility = "public",
                                            !.index = IndexFor("public", c.keyed)]
        ELSE records[i]]
  BY DEF Publish
<1>5. t \in DOMAIN records
  BY <1>1, TargetExists
<1>6. c.whole => graph = GraphIn(records, t)
  BY DEF Cascade, Graph
<1> HIDE DEF c, t, graph
<1>7. WellFormed(records)
  BY DEF LibraryInv, RecordsTypeOK
<1>8. /\ DOMAIN records' = DOMAIN records
      /\ \A i \in DOMAIN records :
           /\ records'[i] \in RecordRow /\ SameLinks(records'[i], records[i])
           /\ records[i].visibility = "public" => records'[i].visibility = "public"
           /\ i \in graph => records'[i].visibility = "public"
           /\ i \notin graph => records'[i] = records[i]
  <2>1. DOMAIN records' = DOMAIN records
    BY <1>4
  <2>2. ASSUME NEW i \in DOMAIN records
        PROVE  /\ records'[i] \in RecordRow /\ SameLinks(records'[i], records[i])
               /\ records[i].visibility = "public" => records'[i].visibility = "public"
               /\ i \in graph => records'[i].visibility = "public"
               /\ i \notin graph => records'[i] = records[i]
    <3>1. records[i] \in RecordRow
      BY <1>7 DEF WellFormed
    <3>2. IndexFor("public", c.keyed) \in IndexState
      BY DEF IndexFor, IndexState
    <3>3. records'[i] =
            IF i \in graph THEN [records[i] EXCEPT !.visibility = "public",
                                                !.index = IndexFor("public", c.keyed)]
            ELSE records[i]
      BY <1>4
    <3>4. QED
      BY <3>1, <3>2, <3>3 DEF RecordRow, SameLinks, Visibility
  <2>3. QED
    BY <2>1, <2>2
<1>9. /\ WellFormed(records') /\ Extends(records, records')
      /\ DocsIn(records', docs, changed \cup graph)
      /\ WholeIn(records', whole)
  BY <1>7, <1>8, LabelsKeep DEF LibraryInv
<1>10. d.todo = <<>> \/ CallIn(records', d)
  BY <1>1, <1>2, <1>9, Moved
<1> HIDE DEF d
<1>11. CallsIn(records', call')
  BY <1>3, <1>9, <1>10, ToKeeps DEF LibraryInv, CallInv
<1>12. CallInv'
  BY <1>11 DEF LibraryInv, CallInv, Publish
<1>13. RecordsTypeOK'
  BY <1>8, <1>9 DEF LibraryInv, RecordsTypeOK, Publish, Ids, OfKind
<1>14. NativeStaysPrivate'
  BY <1>3, <1>8 DEF LibraryInv, RecordsTypeOK, NativeStaysPrivate, Public
<1>15. WholeIn(records', whole')
  <2>1. CASE c.whole /\ KindOfId(t) = "report"
    <3>1. GraphIn(records, t) \subseteq DOMAIN records
      BY <1>5, <1>7, GraphExists
    <3>2. \A i \in GraphIn(records, t) : RefsOf(records'[i]) = RefsOf(records[i])
      BY <1>8, <3>1, SameRefs
    <3>3. GraphIn(records', t) = GraphIn(records, t)
      BY <3>2, GraphSame
    <3>4. \A i \in GraphIn(records', t) : records'[i].visibility = "public"
      BY <1>6, <1>8, <2>1, <3>1, <3>3
    <3>5. t \in OfKind(records', "report")
      BY <1>5, <1>8, <2>1 DEF OfKind
    <3>6. whole' = whole \cup {t}
      BY <1>3, <2>1
    <3>7. QED
      BY <1>9, <3>4, <3>5, <3>6 DEF WholeIn
  <2>2. CASE ~(c.whole /\ KindOfId(t) = "report")
    BY <1>3, <1>9, <2>2
  <2>3. QED
    BY <2>1, <2>2
<1>16. QED
  BY <1>3, <1>9, <1>12, <1>13, <1>14, <1>15 DEF LibraryInv

\* A request names records that exist, and as many as its transactions need.
LEMMA NamedHave ==
  ASSUME WellFormed(records),
         NEW ask \in Requests,
         NEW have \in Named(ask)
  PROVE  have \in Have /\ HaveIn(records, have) /\ Planned(have, Transactions(ask))
<1>1. DOMAIN records \subseteq Id
  BY DEF WellFormed
<1>2. \A q \in Ids("question") : q \in Id /\ q \in DOMAIN records /\ IsQuestion(q)
  BY <1>1, RecordsAssumption DEF Ids, OfKind, IsQuestion
<1>3. CASE ask \in {"question", "source", "bundle"}
  <2>1. have = Naming(None, None, {}, {})
    <3>1. CASE ask = "question"
      BY <3>1 DEF Named
    <3>2. CASE ask = "source"
      BY <3>2 DEF Named
    <3>3. CASE ask = "bundle"
      BY <3>3 DEF Named
    <3>4. QED
      BY <1>3, <3>1, <3>2, <3>3
  <2>2. have \in Have /\ HaveIn(records, have)
    BY <2>1 DEF Naming, Have, HaveIn
  <2>3. QED
    BY <1>3, <2>2, AllComplete
<1>4. CASE ask \in {"session", "status", "cited_excerpt", "import"}
  <2>1. PICK q \in Ids("question") : have = Naming(q, None, {}, {})
    <3>1. CASE ask = "session"
      BY <3>1 DEF Named
    <3>2. CASE ask = "status"
      BY <3>2 DEF Named
    <3>3. CASE ask = "cited_excerpt"
      <4>1. Named("cited_excerpt") = {Naming(q, None, {}, {}) : q \in Ids("question")}
        BY DEF Named
      <4>2. QED
        BY <3>3, <4>1
    <3>4. CASE ask = "import"
      BY <3>4 DEF Named
    <3>5. QED
      BY <1>4, <3>1, <3>2, <3>3, <3>4
  <2>2. have \in Have /\ HaveIn(records, have) /\ IsQuestion(have.question)
    BY <1>2, <2>1 DEF Naming, Have, HaveIn
  <2>3. QED
    BY <1>4, <2>2, AllComplete
<1>5. CASE ask = "excerpt"
  <2>1. PICK q \in Ids("question"), s \in Ids("source") : have = Naming(q, s, {}, {})
    BY <1>5 DEF Named
  <2>2. s \in Id /\ s # None
    BY <1>1, RecordsAssumption DEF Ids, OfKind
  <2>3. /\ have \in Have /\ HaveIn(records, have) /\ IsQuestion(have.question)
        /\ have.source # None
    BY <1>2, <2>1, <2>2 DEF Naming, Have, HaveIn, Ids
  <2>4. QED
    BY <1>5, <2>3, AllComplete
<1>6. CASE ask = "claim"
  <2>1. PICK q \in Ids("question"), xs \in SUBSET Ids("excerpt") :
          have = Naming(q, None, xs, {})
    BY <1>6 DEF Named
  <2>2. xs \subseteq Id /\ xs \subseteq OfKind(records, "excerpt")
    BY <1>1 DEF Ids, OfKind
  <2>3. have \in Have /\ HaveIn(records, have) /\ IsQuestion(have.question)
    BY <1>2, <2>1, <2>2 DEF Naming, Have, HaveIn
  <2>4. QED
    BY <1>6, <2>3, AllComplete
<1>7. CASE ask = "report"
  <2>1. PICK q \in Ids("question"), cs \in SUBSET Ids("claim") :
          have = Naming(q, None, {}, cs)
    BY <1>7 DEF Named
  <2>2. cs \subseteq Id /\ cs \subseteq OfKind(records, "claim")
    BY <1>1 DEF Ids, OfKind
  <2>3. have \in Have /\ HaveIn(records, have) /\ IsQuestion(have.question)
    BY <1>2, <2>1, <2>2 DEF Naming, Have, HaveIn
  <2>4. QED
    BY <1>7, <2>3, AllComplete
<1>8. CASE ask \in {"refresh", "empty_refresh"}
  <2>1. PICK r \in Ids("report") :
          have = Naming(records[r].question, None, {}, records[r].links)
    <3>1. CASE ask = "refresh"
      BY <3>1 DEF Named
    <3>2. CASE ask = "empty_refresh"
      <4>1. Named("empty_refresh") =
              {Naming(records[r].question, None, {}, records[r].links) : r \in Ids("report")}
        BY DEF Named
      <4>2. QED
        BY <3>2, <4>1
    <3>3. QED
      BY <1>8, <3>1, <3>2
  <2>2. r \in DOMAIN records /\ KindOfId(r) = "report" /\ RefersWell(records, r)
    BY DEF Ids, OfKind, WellFormed
  <2>3. records[r].question \in Ids("question")
    BY <2>2 DEF RefersWell, Ids
  <2>4. records[r].links \subseteq OfKind(records, "claim")
    BY <2>2 DEF RefersWell, LinksOf
  <2>5. records[r].links \subseteq Id
    BY <1>1, <2>4 DEF OfKind
  <2>6. have \in Have /\ HaveIn(records, have) /\ IsQuestion(have.question)
    BY <1>2, <2>1, <2>3, <2>4, <2>5 DEF Naming, Have, HaveIn
  <2>7. QED
    BY <1>8, <2>6, AllComplete
<1>9. CASE ask \in {"publish", "index"}
  <2>1. PICK i \in DOMAIN records : have = Naming(i, None, {}, {})
    <3>1. CASE ask = "publish"
      BY <3>1 DEF Named
    <3>2. CASE ask = "index"
      BY <3>2 DEF Named
    <3>3. QED
      BY <1>9, <3>1, <3>2
  <2>2. have \in Have /\ HaveIn(records, have) /\ have.question # None
    BY <1>1, <2>1, RecordsAssumption DEF Naming, Have, HaveIn
  <2>3. QED
    BY <1>9, <2>2, AllComplete
<1>10. QED
  BY <1>3, <1>4, <1>5, <1>6, <1>7, <1>8, <1>9 DEF Requests, Kinds

LEMMA RequestKeeps ==
  ASSUME LibraryInv, NEW w \in Writer, Request(w)
  PROVE  LibraryInv'
<1> DEFINE Begin(a, have) ==
             call' = [call EXCEPT ![w] =
               [ask |-> a.ask, auth |-> a.auth, name |-> a.name, keyed |-> a.keyed,
                ns |-> WriteNamespace(a.auth, a.ns), visibility |-> a.visibility,
                have |-> have, todo |-> Transactions(a.ask), whole |-> a.whole,
                seen |-> {}, new |-> FALSE]]
<1>0. PICK a \in stage.asks[w] : \E have \in Named(a.ask) : Begin(a, have)
  BY DEF Request
<1>1. PICK have \in Named(a.ask) : Begin(a, have)
  BY <1>0
<1>2. a \in Asks
  BY RecordsAssumption DEF LibraryInv, CallInv
<1>3. /\ a.ask \in Requests
      /\ a.auth \in Auth \cup {NoAuth} /\ a.ns \in Namespace /\ a.name \in Name
      /\ a.keyed \in BOOLEAN /\ a.visibility \in Visibility /\ a.whole \in BOOLEAN
  BY <1>2 DEF Asks
<1>4. WellFormed(records)
  BY DEF LibraryInv, RecordsTypeOK
<1>5. have \in Have /\ HaveIn(records, have) /\ Planned(have, Transactions(a.ask))
  BY <1>3, <1>4, NamedHave
<1>6. WriteNamespace(a.auth, a.ns) \in Namespace
  BY <1>3 DEF WriteNamespace, Auth
<1> DEFINE todo == Transactions(a.ask)
           ns == WriteNamespace(a.auth, a.ns)
<1>8. todo \in Seq(Tasks) /\ todo # <<>> /\ Ready(have, todo)
  BY <1>5 DEF Planned
<1> HIDE DEF todo, ns
<1>9. ASSUME NEW d, d = [ask |-> a.ask, auth |-> a.auth, name |-> a.name, keyed |-> a.keyed,
                         ns |-> ns, visibility |-> a.visibility,
                         have |-> have, todo |-> todo, whole |-> a.whole,
                         seen |-> {}, new |-> FALSE]
      PROVE  CallIn(records, d)
  <2>1. ns \in Namespace
    BY <1>6 DEF ns
  <2>2. d \in Call
    BY <1>3, <1>5, <1>8, <1>9, <2>1 DEF Call
  <2>3. d.todo = todo /\ d.have = have /\ d.seen = {} /\ d.new = FALSE
    BY <1>9
  <2>4. QED
    BY <1>5, <1>8, <2>2, <2>3 DEF CallIn
<1>10. CallsIn(records, call')
  BY <1>1, <1>9, CallsStay, SameExtends DEF LibraryInv, CallInv, todo, ns
<1>11. calls' = [calls EXCEPT ![w] = @ + 1] /\ calls[w] < stage.calls[w]
  BY DEF Request
<1>12. calls \in [Writer -> Nat] /\ stage.calls \in [Writer -> Nat]
  BY RecordsAssumption DEF LibraryInv, CallInv
<1>13. calls' \in [Writer -> Nat] /\ \A v \in Writer : calls[v] <= stage.calls[v] => calls'[v] <= stage.calls[v]
  BY <1>11, <1>12
<1>14. CallInv' /\ RecordsTypeOK'
  BY <1>10, <1>13 DEF LibraryInv, CallInv, Request, RecordsTypeOK, Ids
<1>15. QED
  BY <1>14 DEF LibraryInv, Request, NativeStaysPrivate, Public

\* A call that found the record it wanted goes on with it.
LEMMA FoundKeeps ==
  ASSUME NEW rs, DOMAIN rs \subseteq Id, NEW c, CallIn(rs, c), NEW kind \in Kinds,
         Head(c.todo) = kind, ~c.new, NEW i \in OfKind(rs, kind), NEW d,
         d = [c EXCEPT !.have = With(c.have, kind, i), !.todo = After(kind, c)]
  PROVE  d.todo = <<>> \/ CallIn(rs, d)
<1> DEFINE more == With(c.have, kind, i)
           next == [c EXCEPT !.have = more, !.todo = Tail(@)]
<1>1. c \in Call /\ c.todo \in Seq(Tasks) /\ c.todo # <<>> /\ c.seen = {} /\ c.have \in Have
  BY DEF CallIn, Call
<1>2. /\ more \in Have /\ HaveIn(rs, more)
      /\ c.have.question # None => more.question # None
      /\ IsQuestion(c.have.question) \/ kind = "question" => IsQuestion(more.question)
      /\ c.have.source # None \/ kind = "source" => more.source # None
  <2>1. HaveIn(rs, c.have) /\ Extends(rs, rs)
    BY SameExtends DEF CallIn
  <2>2. c.have \in Have
    BY <1>1
  <2>3. QED
    BY <2>1, <2>2, WithHave
<1> HIDE DEF more
<1>3. Tail(c.todo) \in Seq(Tasks)
  BY <1>1
<1>4. /\ next \in Call /\ next.have = more /\ next.todo = Tail(c.todo)
      /\ next.seen = {} /\ ~next.new
  BY <1>1, <1>2, <1>3 DEF Call
<1> HIDE DEF next
<1>5. next.todo = <<>> \/ CallIn(rs, next)
  BY <1>2, <1>4, Advanced, SameExtends
<1>6. CASE kind # "report"
  <2>1. d = next
    BY <1>6 DEF After, next, more
  <2>2. QED
    BY <1>5, <2>1
<1>7. CASE kind = "report"
  <2>1. 1 \in DOMAIN c.todo /\ c.todo[1] = "report"
    BY <1>1, <1>7
  <2>2. 2 \in DOMAIN c.todo /\ c.todo[2] = "answer"
    <3>1. 1 + 1 \in DOMAIN c.todo /\ c.todo[1 + 1] = "answer"
      BY <2>1 DEF CallIn, Ready
    <3>2. QED
      BY <3>1
  <2>3. next.todo # <<>> /\ Head(next.todo) = "answer"
    <3>1. next.todo = Tail(c.todo) /\ Len(c.todo) \in Nat /\ Len(c.todo) >= 2
      BY <1>1, <1>4, <2>2
    <3>2. Len(Tail(c.todo)) >= 1 /\ Tail(c.todo)[1] = c.todo[2]
      BY <1>1, <3>1
    <3>3. Tail(c.todo) # <<>> /\ Head(Tail(c.todo)) = Tail(c.todo)[1]
      BY <1>3, <3>2, FirstIsHead
    <3>4. QED
      BY <2>2, <3>1, <3>2, <3>3
  <2>4. d = [next EXCEPT !.todo = Tail(@)]
    <3>1. After(kind, c) = Tail(next.todo)
      BY <1>4, <1>7 DEF After
    <3>2. QED
      BY <1>1, <3>1 DEF next, more, Call
  <2>5. QED
    <3>1. CallIn(rs, next)
      BY <1>5, <2>3
    <3>2. Head(next.todo) \notin {"question", "source"} /\ ~next.new
      BY <1>4, <2>3
    <3>3. QED
      BY <2>4, <3>1, <3>2, Moved, SameExtends
<1>8. QED
  BY <1>6, <1>7

\* A new row depends on the request and on what the call has.
LEMMA SameRow ==
  ASSUME NEW c, NEW d, d.ns = c.ns, d.name = c.name, d.keyed = c.keyed, d.auth = c.auth,
         d.visibility = c.visibility, d.have = c.have, NEW kind \in Kinds
  PROVE  NewRow(kind, d) = NewRow(kind, c)
<1>1. Begun(d) = Begun(c)
  BY DEF Begun
<1>2. QED
  BY <1>1 DEF NewRow, NewQuestion, NewSession, NewSource, NewExcerpt, NewClaim, NewReport

LEMMA SeekKeeps ==
  ASSUME LibraryInv, NEW w \in Writer, NEW kind \in Kinds, Seek(w, kind)
  PROVE  LibraryInv'
<1> DEFINE c == call[w]
<1>1. CallIn(records, c) /\ Head(c.todo) = kind /\ ~c.new /\ c \in Call
  BY CallOf DEF Seek, Creates
<1>2. /\ DOMAIN records \subseteq Id
      /\ records' = records
      /\ Joined(kind, c)
  BY DEF Seek, LibraryInv, RecordsTypeOK, WellFormed
<1>3. PICK d : /\ To(w, d)
               /\ \/ d = [c EXCEPT !.new = TRUE]
                  \/ \E i \in Existing(kind, c) :
                       d = [c EXCEPT !.have = With(c.have, kind, i),
                                     !.todo = After(kind, c)]
  BY DEF Seek
<1> HIDE DEF c
<1>4. d.todo = <<>> \/ CallIn(records, d)
  <2>1. CASE d = [c EXCEPT !.new = TRUE]
    <3>1. /\ d \in Call /\ d.todo = c.todo /\ d.have = c.have /\ d.seen = c.seen
          /\ d.ns = c.ns /\ d.name = c.name /\ d.keyed = c.keyed /\ d.auth = c.auth
          /\ d.visibility = c.visibility
      BY <1>1, <2>1 DEF Call
    <3>2. NewRow(kind, d) = NewRow(kind, c)
      BY <3>1, SameRow
    <3>3. JoinedIn(records, kind, d)
      BY <1>2, <3>1, <3>2 DEF Joined, JoinedIn, InNamespace
    <3>4. QED
      BY <1>1, <3>1, <3>3 DEF CallIn
  <2>2. ASSUME NEW i \in Existing(kind, c),
               d = [c EXCEPT !.have = With(c.have, kind, i), !.todo = After(kind, c)]
        PROVE  d.todo = <<>> \/ CallIn(records, d)
    <3>1. i \in OfKind(records, kind)
      BY DEF Existing, Keyed, SamePrompt, SameLocator, Ids
    <3>2. QED
      BY <1>1, <1>2, <2>2, <3>1, FoundKeeps
  <2>3. QED
    BY <1>3, <2>1, <2>2
<1>5. CallsIn(records', call')
  BY <1>2, <1>3, <1>4, ToKeeps, SameExtends DEF LibraryInv, CallInv
<1>6. QED
  BY <1>5 DEF LibraryInv, CallInv, Seek, RecordsTypeOK, NativeStaysPrivate, Ids, Public

\* What a call creates refers to what it has.
LEMMA RowRefers ==
  ASSUME NEW rs, WellFormed(rs), NEW c, CallIn(rs, c), NEW kind \in Kinds,
         Head(c.todo) = kind, NEW row, row = NewRow(kind, c)
  PROVE  /\ row \in RecordRow /\ row.ns = c.ns
         /\ row.question \in
              IF kind \in {"question", "source"} THEN {None} ELSE OfKind(rs, "question")
         /\ row.source \in IF kind = "excerpt" THEN OfKind(rs, "source") ELSE {None}
         /\ row.links \subseteq LinksOf(rs, kind)
<1>1. /\ c \in Call /\ c.todo \in Seq(Tasks) /\ c.todo # <<>>
      /\ HaveIn(rs, c.have) /\ Ready(c.have, c.todo)
  BY DEF CallIn, Call
<1>2. 1 \in DOMAIN c.todo /\ c.todo[1] = kind /\ DOMAIN c.todo \subseteq Nat \ {0}
  BY <1>1
<1>3. \A k : ~Preceded(c.todo, 1, k)
  BY <1>2 DEF Preceded
<1>4. kind \notin {"question", "source"} => c.have.question \in OfKind(rs, "question")
  BY <1>1, <1>2, <1>3 DEF Ready, HaveIn, OfKind, Kinds
<1>5. kind = "excerpt" => c.have.source \in OfKind(rs, "source")
  BY <1>1, <1>2, <1>3 DEF Ready, HaveIn
<1>6. /\ c.ns \in Namespace /\ c.name \in Name /\ c.keyed \in BOOLEAN
      /\ c.visibility \in Visibility /\ c.have \in Have
  BY <1>1 DEF Call
<1>7. /\ Governed(c.auth, c.visibility) \in Visibility
      /\ IndexFor(Governed(c.auth, c.visibility), FALSE) \in IndexState
  BY <1>6 DEF Governed, IndexFor, Visibility, IndexState
<1>8. c.have.question \in Id \cup {None} /\ c.have.source \in Id \cup {None}
  BY <1>6 DEF Have
<1>9. c.have.excerpts \in SUBSET Id /\ c.have.claims \in SUBSET Id
  BY <1>6 DEF Have
<1>10. Begun(c) \in RecordRow
  BY <1>6, <1>7, <1>8 DEF Begun, RecordRow
<1>11. /\ Begun(c).ns = c.ns /\ Begun(c).question = c.have.question
       /\ Begun(c).source = None /\ Begun(c).links = {}
  BY DEF Begun
<1>12. CASE kind = "question"
  <2>1. row = NewQuestion(c)
    BY <1>12 DEF NewRow
  <2>2. QED
    BY <1>10, <1>11, <1>12, <2>1 DEF NewQuestion, RecordRow
<1>13. CASE kind = "session"
  <2>1. row = NewSession(c)
    BY <1>13 DEF NewRow
  <2>2. QED
    BY <1>4, <1>10, <1>11, <1>13, <2>1 DEF NewSession, RecordRow
<1>14. CASE kind = "source"
  <2>1. row = NewSource(c)
    BY <1>14 DEF NewRow
  <2>2. QED
    BY <1>10, <1>11, <1>14, <2>1 DEF NewSource, RecordRow
<1>15. CASE kind = "excerpt"
  <2>1. row = NewExcerpt(c)
    BY <1>15 DEF NewRow
  <2>2. QED
    BY <1>4, <1>5, <1>8, <1>10, <1>11, <1>15, <2>1 DEF NewExcerpt, RecordRow
<1>16. CASE kind = "claim"
  <2>1. row = NewClaim(c)
    BY <1>16 DEF NewRow
  <2>2. c.have.excerpts \subseteq LinksOf(rs, kind)
    BY <1>1, <1>16 DEF HaveIn, LinksOf
  <2>3. QED
    BY <1>4, <1>9, <1>10, <1>11, <1>16, <2>1, <2>2 DEF NewClaim, RecordRow
<1>17. CASE kind = "report"
  <2>1. row = NewReport(c)
    BY <1>17 DEF NewRow
  <2>2. c.have.claims \subseteq LinksOf(rs, kind)
    BY <1>1, <1>17 DEF HaveIn, LinksOf
  <2>3. QED
    BY <1>4, <1>9, <1>10, <1>11, <1>17, <2>1, <2>2 DEF NewReport, RecordRow
<1>18. QED
  BY <1>12, <1>13, <1>14, <1>15, <1>16, <1>17 DEF Kinds

\* Tables that got a record keep what was published.
LEMMA GrowthKeeps ==
  ASSUME LibraryInv, NEW rt, NEW kind \in Kinds, NEW i, WellFormed(rt),
         i \notin DOMAIN records, DOMAIN rt = DOMAIN records \cup {i}, KindOfId(i) = kind,
         \A j \in DOMAIN records :
           /\ rt[j].ns = records[j].ns /\ rt[j].visibility = records[j].visibility
           /\ records[j].visibility = "public" => SameLinks(rt[j], records[j])
  PROVE  /\ Extends(records, rt) /\ WholeIn(rt, whole)
         /\ \A k : OfKind(rt, k) =
                     IF k = kind THEN OfKind(records, k) \cup {i} ELSE OfKind(records, k)
         /\ \A j \in native \cup revised : rt[j].visibility = "public" => j \in overtaken
<1>1. Extends(records, rt)
  BY DEF Extends
<1>2. WellFormed(records)
  BY DEF LibraryInv, RecordsTypeOK
<1>3. WholeIn(rt, whole)
  BY <1>2, WholeStays DEF LibraryInv
<1>4. \A k : OfKind(rt, k) =
               IF k = kind THEN OfKind(records, k) \cup {i} ELSE OfKind(records, k)
  BY DEF OfKind
<1>5. \A j \in native \cup revised : rt[j].visibility = "public" => j \in overtaken
  BY DEF LibraryInv, RecordsTypeOK, NativeStaysPrivate, Public
<1>6. QED
  BY <1>1, <1>3, <1>4, <1>5

LEMMA CreateKeeps ==
  ASSUME LibraryInv, NEW w \in Writer, NEW kind \in Kinds, Create(w, kind)
  PROVE  LibraryInv'
<1> DEFINE c == call[w]
           i == NewId(kind)
           row == NewRow(kind, c)
           d == [c EXCEPT !.have = With(c.have, kind, i), !.todo = Tail(@), !.new = FALSE]
<1>1. CallIn(records, c) /\ Head(c.todo) = kind /\ c.new /\ c \in Call
  BY CallOf DEF Create, Creates
<1>2. /\ To(w, d)
      /\ records' = [j \in DOMAIN records \cup {i} |-> IF j = i THEN row ELSE records[j]]
      /\ docs' = Projection(records') /\ changed' = {}
  BY DEF Create, Rebuild
<1>3. status' = IF kind = "question"
                  THEN [q \in DOMAIN status \cup {i} |-> IF q = i THEN "open" ELSE status[q]]
                  ELSE status
  BY DEF Create
<1>4. i = <<kind, Cardinality(OfKind(records, kind)) + 1>> /\ KindOfId(i) = kind
  BY DEF NewId, Ids, KindOfId
<1>5. WellFormed(records)
  BY DEF LibraryInv, RecordsTypeOK
<1>6. /\ row \in RecordRow /\ row.ns = c.ns
      /\ row.question \in
           IF kind \in {"question", "source"} THEN {None} ELSE OfKind(records, "question")
      /\ row.source \in IF kind = "excerpt" THEN OfKind(records, "source") ELSE {None}
      /\ row.links \subseteq LinksOf(records, kind)
  <2> HIDE DEF c, i
  <2>1. CallIn(records, c) /\ Head(c.todo) = kind
    BY <1>1
  <2>2. QED
    BY <1>5, <2>1, RowRefers
<1>7. \A j \in RefsOf(row) : records[j].ns = row.ns
  BY <1>1, <1>6 DEF CallIn, JoinedIn
<1>8. c.have \in Have /\ HaveIn(records, c.have) /\ c.todo \in Seq(Tasks) /\ c.todo # <<>>
      /\ c.seen = {}
  BY <1>1 DEF CallIn, Call
<1> HIDE DEF c, i, row
<1>9. i \notin DOMAIN records
  BY <1>4, <1>5, Fresh
<1>10. /\ DOMAIN records' = DOMAIN records \cup {i}
       /\ records'[i] = row
       /\ \A j \in DOMAIN records : records'[j] = records[j]
  BY <1>2, <1>9
<1>11. \A j \in DOMAIN records : records'[j] \in RecordRow
  BY <1>5, <1>10 DEF WellFormed
<1>12. WellFormed(records')
  <2>1. ASSUME NEW rt, rt = records'
        PROVE  WellFormed(rt)
    BY <1>4, <1>5, <1>6, <1>7, <1>10, <1>11, <2>1, Grown
  <2>2. QED
    BY <2>1
<1>13. /\ Extends(records, records') /\ WholeIn(records', whole)
       /\ \A k : OfKind(records', k) =
                   IF k = kind THEN OfKind(records, k) \cup {i} ELSE OfKind(records, k)
       /\ \A j \in native \cup revised : records'[j].visibility = "public" => j \in overtaken
  <2>1. ASSUME NEW rt, rt = records'
        PROVE  /\ Extends(records, rt) /\ WholeIn(rt, whole)
               /\ \A k : OfKind(rt, k) =
                     IF k = kind THEN OfKind(records, k) \cup {i} ELSE OfKind(records, k)
               /\ \A j \in native \cup revised :
                    rt[j].visibility = "public" => j \in overtaken
    BY <1>4, <1>9, <1>10, <1>12, <2>1, GrowthKeeps DEF SameLinks
  <2>2. QED
    BY <2>1
<1>14. d.todo = <<>> \/ CallIn(records', d)
  <2> DEFINE more == With(c.have, kind, i)
  <2>1. i \in OfKind(records', kind) /\ DOMAIN records' \subseteq Id
    BY <1>12, <1>13 DEF WellFormed
  <2>2. /\ more \in Have /\ HaveIn(records', more)
        /\ c.have.question # None => more.question # None
        /\ IsQuestion(c.have.question) \/ kind = "question" => IsQuestion(more.question)
        /\ c.have.source # None \/ kind = "source" => more.source # None
    BY <1>8, <1>13, <2>1, WithHave
  <2> HIDE DEF more
  <2>3. Tail(c.todo) \in Seq(Tasks)
    BY <1>8
  <2>4. /\ d \in Call /\ d.have = more /\ d.todo = Tail(c.todo) /\ d.seen = {} /\ ~d.new
    BY <1>1, <1>8, <2>2, <2>3 DEF Call, more
  <2> HIDE DEF d
  <2>5. QED
    BY <1>1, <1>13, <2>2, <2>4, Advanced
<1> HIDE DEF d
<1>15. CallsIn(records', call')
  BY <1>2, <1>13, <1>14, ToKeeps DEF LibraryInv, CallInv
<1>16. CallInv'
  BY <1>15 DEF LibraryInv, CallInv, Create
<1>17. RecordsTypeOK'
  <2>1. DOMAIN docs' \subseteq DOMAIN records'
    BY <1>2, Rebuilt
  <2>2. DOMAIN status' = OfKind(records', "question")
    BY <1>3, <1>13 DEF LibraryInv, RecordsTypeOK, Ids
  <2>3. QED
    BY <1>10, <1>12, <2>1, <2>2 DEF LibraryInv, RecordsTypeOK, Create, Ids
<1>18. DocsIn(records', docs', changed')
  BY <1>2, Rebuilt
<1>19. NativeStaysPrivate'
  BY <1>13 DEF NativeStaysPrivate, Public, Create
<1>20. WholeIn(records', whole')
  BY <1>13 DEF Create
<1>21. QED
  BY <1>16, <1>17, <1>18, <1>19, <1>20 DEF LibraryInv

LEMMA DepositKeeps ==
  ASSUME LibraryInv, NEW q \in Ids("question"), NEW s \in Ids("source"),
         NEW c \in Ids("claim"), Deposit(q, s, c)
  PROVE  LibraryInv'
<1> DEFINE x == NewId("excerpt")
           row == [ns |-> records[s].ns, name |-> records[s].name, keyed |-> FALSE,
                   visibility |-> "private", index |-> "private", question |-> q,
                   source |-> s, links |-> {}]
<1>1. /\ records' = [i \in DOMAIN records \cup {x} |->
                      IF i = x THEN row
                      ELSE IF i = c THEN [records[c] EXCEPT !.links = {x}]
                      ELSE records[i]]
      /\ docs' = Projection(records') /\ changed' = {}
      /\ native' = native \cup {q, s, c, x} /\ revised' = revised
      /\ call' = call /\ overtaken' = overtaken /\ whole' = whole /\ status' = status
  BY DEF Deposit, Rebuild
<1>2. x = <<"excerpt", Cardinality(OfKind(records, "excerpt")) + 1>> /\ KindOfId(x) = "excerpt"
  BY DEF NewId, Ids, KindOfId
<1>3. WellFormed(records)
  BY DEF LibraryInv, RecordsTypeOK
<1>4. /\ q \in OfKind(records, "question") /\ s \in OfKind(records, "source")
      /\ c \in OfKind(records, "claim") /\ KindOfId(c) = "claim"
      /\ q \in DOMAIN records /\ s \in DOMAIN records /\ c \in DOMAIN records
      /\ records[q].ns = records[s].ns /\ records[c].ns = records[s].ns
      /\ records[q].visibility # "public" /\ records[s].visibility # "public"
      /\ records[c].visibility # "public"
  BY DEF Deposit, Ids, OfKind, InNamespace, TakesQuestion, TakesSource, TakesClaim, Public
<1>5. q \in Id /\ s \in Id /\ records[s] \in RecordRow /\ records[c] \in RecordRow
  BY <1>3, <1>4 DEF WellFormed
<1>6. /\ row \in RecordRow /\ row.ns = records[s].ns /\ row.question = q /\ row.source = s
      /\ row.links = {} /\ row.visibility = "private"
  BY <1>5 DEF RecordRow, Visibility, IndexState
<1>7. \A j \in RefsOf(row) : records[j].ns = row.ns
  BY <1>4, <1>6 DEF RefsOf
<1> HIDE DEF x, row
<1>8. x \notin DOMAIN records /\ x \in Id /\ "excerpt" \in Kinds
  BY <1>2, <1>3, Fresh DEF Kinds
<1>9. /\ DOMAIN records' = DOMAIN records \cup {x}
      /\ records'[x] = row
      /\ \A j \in DOMAIN records :
           records'[j] = IF j = c THEN [records[c] EXCEPT !.links = {x}] ELSE records[j]
  BY <1>1, <1>8
<1>10. ASSUME NEW j \in DOMAIN records
       PROVE  /\ records'[j] \in RecordRow
              /\ records'[j].ns = records[j].ns
              /\ records'[j].visibility = records[j].visibility
              /\ records'[j].question = records[j].question
              /\ records'[j].source = records[j].source
              /\ j # c => records'[j].links = records[j].links
              /\ j = c => records'[j].links = {x}
  <2>1. records[j] \in RecordRow
    BY <1>3 DEF WellFormed
  <2>2. records'[j] = IF j = c THEN [records[c] EXCEPT !.links = {x}] ELSE records[j]
    BY <1>9
  <2>3. CASE j = c
    BY <1>8, <2>1, <2>2, <2>3 DEF RecordRow
  <2>4. CASE j # c
    BY <2>1, <2>2, <2>4
  <2>5. QED
    BY <2>3, <2>4
<1>11. WellFormed(records')
  <2>1. ASSUME NEW rt, rt = records'
        PROVE  WellFormed(rt)
    <3>1. /\ DOMAIN rt = DOMAIN records \cup {x} /\ rt[x] = row
          /\ \A j \in DOMAIN records :
               /\ rt[j] \in RecordRow
               /\ rt[j].ns = records[j].ns /\ rt[j].question = records[j].question
               /\ rt[j].source = records[j].source
               /\ \/ rt[j].links = records[j].links
                  \/ /\ KindOfId(j) = "claim" /\ "excerpt" = "excerpt"
                     /\ rt[j].links = {x} /\ rt[x].ns = records[j].ns
      BY <1>4, <1>6, <1>9, <1>10, <2>1
    <3>2. /\ rt[x].question \in OfKind(records, "question")
          /\ rt[x].source \in OfKind(records, "source")
          /\ rt[x].links \subseteq LinksOf(records, "excerpt")
          /\ \A j \in RefsOf(rt[x]) : records[j].ns = rt[x].ns
          /\ rt[x] \in RecordRow
      BY <1>4, <1>6, <1>7, <3>1
    <3>3. QED
      BY <1>2, <1>3, <1>8, <3>1, <3>2, Grown
  <2>2. QED
    BY <2>1
<1>12. /\ Extends(records, records') /\ WholeIn(records', whole)
       /\ \A k : OfKind(records', k) =
                   IF k = "excerpt" THEN OfKind(records, k) \cup {x} ELSE OfKind(records, k)
       /\ \A j \in native \cup revised : records'[j].visibility = "public" => j \in overtaken
  <2>1. ASSUME NEW rt, rt = records'
        PROVE  /\ Extends(records, rt) /\ WholeIn(rt, whole)
               /\ \A k : OfKind(rt, k) =
                     IF k = "excerpt" THEN OfKind(records, k) \cup {x} ELSE OfKind(records, k)
               /\ \A j \in native \cup revised :
                    rt[j].visibility = "public" => j \in overtaken
    BY <1>2, <1>4, <1>8, <1>9, <1>10, <1>11, <2>1, GrowthKeeps DEF SameLinks
  <2>2. QED
    BY <2>1
<1>13. CallsIn(records', call')
  BY <1>1, <1>12, AllCallsStay DEF LibraryInv, CallInv
<1>14. CallInv'
  BY <1>13 DEF LibraryInv, CallInv, Deposit
<1>15. RecordsTypeOK'
  <2>1. DOMAIN docs' \subseteq DOMAIN records'
    BY <1>1, Rebuilt
  <2>2. DOMAIN status' = OfKind(records', "question")
    BY <1>1, <1>12 DEF LibraryInv, RecordsTypeOK, Ids
  <2>3. native' \cup revised' \subseteq DOMAIN records'
    BY <1>1, <1>4, <1>9 DEF LibraryInv, RecordsTypeOK
  <2>4. QED
    BY <1>11, <2>1, <2>2, <2>3 DEF LibraryInv, RecordsTypeOK, Deposit, Ids
<1>16. DocsIn(records', docs', changed')
  BY <1>1, Rebuilt
<1>17. NativeStaysPrivate'
  <2>1. /\ records'[q].visibility # "public" /\ records'[s].visibility # "public"
        /\ records'[c].visibility # "public" /\ records'[x].visibility # "public"
    BY <1>4, <1>6, <1>9, <1>10
  <2>2. QED
    BY <1>1, <1>12, <2>1 DEF NativeStaysPrivate, Public
<1>18. WholeIn(records', whole')
  BY <1>1, <1>12
<1>19. QED
  BY <1>14, <1>15, <1>16, <1>17, <1>18 DEF LibraryInv

LEMMA LibraryInit ==
  ASSUME RecordsInit
  PROVE  LibraryInv
<1>1. /\ stage \in Stage /\ WellFormed(stage.records) /\ stage.calls \in [Writer -> Nat]
      /\ records = stage.records
  BY RecordsAssumption DEF RecordsInit
<1>2. CallInv
  BY <1>1 DEF RecordsInit, CallInv, CallsIn
<1>3. DOMAIN docs \subseteq DOMAIN records /\ DocsIn(records, docs, changed)
  BY <1>1, Rebuilt DEF RecordsInit
<1>4. DOMAIN status = Ids("question")
  BY <1>1 DEF RecordsInit, Ids, OfKind
<1>5. RecordsTypeOK
  BY <1>1, <1>3, <1>4 DEF RecordsInit, RecordsTypeOK
<1>6. QED
  BY <1>2, <1>3, <1>5 DEF RecordsInit, LibraryInv, WholeIn, NativeStaysPrivate

LEMMA LibraryNext ==
  ASSUME LibraryInv, [RecordsNext]_recordVars
  PROVE  LibraryInv'
<1>1. CASE UNCHANGED recordVars
  BY <1>1 DEF recordVars, LibraryInv, RecordsTypeOK, CallInv, NativeStaysPrivate,
              Ids, Public
<1>2. ASSUME NEW w \in Writer, Request(w)
      PROVE  LibraryInv'
  BY <1>2, RequestKeeps
<1>3. ASSUME NEW w \in Writer, Break(w)
      PROVE  LibraryInv'
  BY <1>3, BreakKeeps
<1>4. ASSUME NEW w \in Writer, NEW kind \in Kinds, Seek(w, kind) \/ Create(w, kind)
      PROVE  LibraryInv'
  BY <1>4, SeekKeeps, CreateKeeps
<1>5. ASSUME NEW w \in Writer,
             \/ SetStatus(w, "answer", "answered")
             \/ SetStatus(w, "insufficient", "insufficient_evidence")
             \/ SetStatus(w, "open", "open")
      PROVE  LibraryInv'
  BY <1>5, SetStatusKeeps
<1>6. ASSUME NEW w \in Writer, CheckPublication(w) \/ Publish(w) \/ SetIndexState(w)
      PROVE  LibraryInv'
  BY <1>6, CheckPublicationKeeps, PublishKeeps, SetIndexStateKeeps
<1>7. ASSUME NEW q \in Ids("question"), NEW s \in Ids("source"), NEW c \in Ids("claim"),
             Deposit(q, s, c)
      PROVE  LibraryInv'
  BY <1>7, DepositKeeps
<1>8. ASSUME NEW c \in Ids("claim"), ReviewClaim(c)
      PROVE  LibraryInv'
  BY <1>8, ReviewClaimKeeps
<1>9. QED
  BY <1>1, <1>2, <1>3, <1>4, <1>5, <1>6, <1>7, <1>8 DEF RecordsNext

LEMMA LibraryInvariant == RecordsSpec => []LibraryInv
<1>1. RecordsInit => LibraryInv
  BY LibraryInit
<1>2. LibraryInv /\ [RecordsNext]_recordVars => LibraryInv'
  BY LibraryNext
<1>3. QED
  BY <1>1, <1>2, PTL DEF RecordsSpec

\* Records keep their shape: a record refers to records of its own namespace
\* and of the kinds it may refer to, whatever calls fail, race and are retried
\* (create_question, create_claim and the others of service.py).
THEOREM RecordsWellFormed == RecordsSpec => []RecordsTypeOK
<1>1. LibraryInv => RecordsTypeOK
  BY DEF LibraryInv
<1>2. QED
  BY <1>1, LibraryInvariant, PTL

\* Nothing that a v2 deposit or review wrote is public, unless the call came
\* between the checks of a publication and its updates
\* (ResearchRegistryService.publish and _cascade_publish).
THEOREM NativePrivate == RecordsSpec => []NativeStaysPrivate
<1>1. LibraryInv => NativeStaysPrivate
  BY DEF LibraryInv
<1>2. QED
  BY <1>1, LibraryInvariant, PTL

-----------------------------------------------------------------------------
(* A published report opens *)

\* All that the page of a report needs is in its graph.
LEMMA PageInGraph ==
  ASSUME WellFormed(records), NEW r \in Ids("report")
  PROVE  {r, records[r].question} \cup records[r].links
           \cup {records[x].source : x \in UNION {records[c].links : c \in records[r].links}}
         \subseteq Graph(r)
<1> DEFINE one == Wider(records, {r})
           two == Wider(records, one)
           claims == records[r].links
           excerpts == UNION {records[c].links : c \in claims}
<1>1. Graph(r) = Wider(records, two)
  BY DEF Graph, GraphIn
<1>2. \A ids : ids \subseteq Wider(records, ids)
  BY DEF Wider
<1>3. \A ids : \A j \in ids : RefsOf(records[j]) \subseteq Wider(records, ids)
  BY DEF Wider
<1>4. r \in one /\ RefsOf(records[r]) \subseteq one /\ one \subseteq two
  BY <1>2, <1>3
<1>5. /\ records[r].question # None
      /\ claims \subseteq OfKind(records, "claim")
  <2>1. r \in DOMAIN records /\ KindOfId(r) = "report" /\ RefersWell(records, r)
    BY DEF WellFormed, Ids, OfKind
  <2>2. records[r].question \in OfKind(records, "question")
    BY <2>1 DEF RefersWell
  <2>3. records[r].question \in Id
    BY <2>2 DEF OfKind, WellFormed
  <2>4. QED
    BY <2>1, <2>3, RecordsAssumption DEF RefersWell, LinksOf
<1>6. records[r].question \in one /\ claims \subseteq one
  BY <1>4, <1>5 DEF RefsOf
<1>7. ASSUME NEW c \in claims, NEW x \in records[c].links
      PROVE  records[x].source \in Wider(records, two)
  <2>1. c \in DOMAIN records /\ KindOfId(c) = "claim" /\ RefersWell(records, c)
    BY <1>5 DEF WellFormed, OfKind
  <2>2. x \in OfKind(records, "excerpt")
    BY <2>1 DEF RefersWell, LinksOf
  <2>3. x \in DOMAIN records /\ KindOfId(x) = "excerpt" /\ RefersWell(records, x)
    BY <2>2 DEF WellFormed, OfKind
  <2>4. records[x].source \in OfKind(records, "source")
    BY <2>3 DEF RefersWell
  <2>5. records[x].source # None
    BY <2>4, RecordsAssumption DEF OfKind, WellFormed
  <2>6. x \in two
    BY <1>3, <1>6 DEF RefsOf
  <2>7. records[x].source \in RefsOf(records[x])
    BY <2>5 DEF RefsOf
  <2>8. QED
    BY <1>3, <2>6, <2>7
<1>8. two \subseteq Wider(records, two)
  BY <1>2
<1> HIDE DEF one, two
<1>9. QED
  BY <1>1, <1>4, <1>6, <1>7, <1>8

\* A report that was published with all it is linked to opens for everyone,
\* until one of these records is suppressed (ResearchRegistryService.publish,
\* report_page in app.py).
THEOREM PublishedReportsOpen == RecordsSpec => []PublishedOpens
<1>1. LibraryInv => PublishedOpens
  <2>1. SUFFICES ASSUME LibraryInv, NEW r \in whole, \A i \in Graph(r) : ~Suppressed(i)
                 PROVE  r \in ReportPage(r, Anonymous)
    BY DEF PublishedOpens
  <2>2. /\ r \in Ids("report")
        /\ \A i \in Graph(r) : Public(i)
    <3>1. WholeIn(records, whole)
      BY <2>1 DEF LibraryInv
    <3>2. QED
      BY <3>1 DEF WholeIn, Ids, Graph, Public
  <2> DEFINE needed ==
         {r, records[r].question} \cup records[r].links
           \cup {records[x].source : x \in UNION {records[c].links : c \in records[r].links}}
  <2>3. needed \subseteq Graph(r)
    <3>1. WellFormed(records)
      BY <2>1 DEF LibraryInv, RecordsTypeOK
    <3>2. QED
      BY <2>2, <3>1, PageInGraph
  <2>4. r \in needed /\ ReportPage(r, Anonymous) = Page(needed, {}, Anonymous)
    BY DEF ReportPage
  <2> HIDE DEF needed
  <2>5. \A i \in needed : CanAccess(i, PageAccess(Anonymous))
    BY <2>1, <2>2, <2>3 DEF CanAccess, PageAccess, Access, Anonymous
  <2>6. needed = Visible(needed, PageAccess(Anonymous))
    BY <2>5 DEF Visible
  <2>7. QED
    BY <2>4, <2>6 DEF Page
<1>2. QED
  BY <1>1, LibraryInvariant, PTL

-----------------------------------------------------------------------------
(* What a reader is shown *)

\* A reading of v1 that gives no more than the reader has.
Fair(rd, a) ==
  \/ rd.token
  \/ a.auth = NoAuth /\ ~a.private
  \/ a.auth = rd.key /\ (a.private => rd.key # NoAuth)

LEMMA FairShows ==
  ASSUME NEW rd \in Reader, NEW a, Fair(rd, a), NEW ids, NEW i \in Visible(ids, a)
  PROVE  Allowed(rd, i)
<1>1. CanAccess(i, a)
  BY DEF Visible
<1>2. QED
  BY <1>1, ReaderAssumption DEF CanAccess, Fair, Allowed, HasScope

LEMMA NothingIsFair ==
  ASSUME NEW rd
  PROVE  /\ Fair(rd, Access(FALSE, NoAuth))
         /\ Fair(rd, [Access(FALSE, NoAuth) EXCEPT !.indexOnly = TRUE])
         /\ \A ns : Fair(rd, [Access(FALSE, NoAuth) EXCEPT !.slug = ns])
BY DEF Fair, Access

LEMMA PagesShow ==
  ASSUME NEW rd \in Reader, NEW needed, NEW more, NEW i \in Page(needed, more, rd)
  PROVE  Allowed(rd, i)
<1>1. Fair(rd, PageAccess(rd))
  BY ReaderAssumption DEF Fair, PageAccess, Access
<1>2. i \in Visible(needed, PageAccess(rd)) \/ i \in Visible(more, PageAccess(rd))
  BY DEF Page
<1>3. QED
  BY <1>1, <1>2, FairShows

LEMMA RecordPagesShow ==
  ASSUME NEW rd \in Reader, NEW i \in RecordPages(rd)
  PROVE  Allowed(rd, i)
<1>1. CASE \E q \in Ids("question") : i \in QuestionPage(q, rd)
  BY <1>1, PagesShow DEF QuestionPage
<1>2. CASE \E s \in Ids("source") : i \in SourcePage(s, rd)
  BY <1>2, PagesShow DEF SourcePage
<1>3. CASE \E x \in Ids("excerpt") : i \in ExcerptPage(x, rd)
  BY <1>3, PagesShow DEF ExcerptPage
<1>4. CASE \E c \in Ids("claim") : i \in ClaimPage(c, rd)
  BY <1>4, PagesShow DEF ClaimPage
<1>5. CASE \E r \in Ids("report") : i \in ReportPage(r, rd)
  BY <1>5, PagesShow DEF ReportPage
<1>6. QED
  BY <1>1, <1>2, <1>3, <1>4, <1>5 DEF RecordPages

\* The API reads with the key of the caller, the tools too.
LEMMA KeysAreFair ==
  ASSUME NEW rd \in Reader, NEW private \in BOOLEAN
  PROVE  LET api == Access(private /\ OptionalAuth(rd) # NoAuth, OptionalAuth(rd))
             tool == Access(private, ToolAuth(rd))
         IN /\ Fair(rd, api)
            /\ Fair(rd, [api EXCEPT !.indexOnly = OptionalAuth(rd) = NoAuth /\ ~private])
            /\ ~(private /\ ~Granted(ToolAuth(rd), "read_private")) =>
                 Fair(rd, [tool EXCEPT !.indexOnly = ToolAuth(rd) = NoAuth /\ ~private])
<1>1. rd.token \/ OptionalAuth(rd) = rd.key
  BY DEF OptionalAuth
<1>2. rd.token \/ ToolAuth(rd) = rd.key
  BY DEF ToolAuth
<1>3. QED
  BY <1>1, <1>2 DEF Fair, Access, Granted

LEMMA ApiShows ==
  ASSUME NEW rd \in Reader, NEW private \in BOOLEAN,
         NEW i \in ApiRead(rd, private) \cup ApiSearch(rd, private)
                     \cup Brief(rd, private) \cup ToolRead(rd, private)
  PROVE  Allowed(rd, i)
<1>1. CASE i \in ApiRead(rd, private)
  BY <1>1, KeysAreFair, FairShows DEF ApiRead
<1>2. CASE i \in ApiSearch(rd, private)
  BY <1>2, KeysAreFair, FairShows DEF ApiSearch
<1>3. CASE i \in Brief(rd, private)
  BY <1>1, <1>3 DEF Brief
<1>4. CASE i \in ToolRead(rd, private)
  BY <1>4, KeysAreFair, FairShows DEF ToolRead
<1>5. QED
  BY <1>1, <1>2, <1>3, <1>4

\* The latest session and report of a question: published themselves, or of a
\* private question, in whose namespace they are.
LEMMA NewestShows ==
  ASSUME WellFormed(records), NEW rd \in Reader, NEW q \in Ids("question"),
         Allowed(rd, q), NEW i \in Newest(q)
  PROVE  Allowed(rd, i)
<1>1. /\ i \in DOMAIN records /\ records[i].question = q
      /\ Public(q) => Public(i) /\ ~Suppressed(i)
  BY DEF Newest, OfQuestion
<1>2. records[i].ns = records[q].ns
  <2>1. RefersWell(records, i) /\ q # None
    BY <1>1, RecordsAssumption DEF WellFormed, Ids, OfKind
  <2>2. q \in RefsOf(records[i])
    BY <1>1, <2>1 DEF RefsOf
  <2>3. QED
    BY <2>1, <2>2 DEF RefersWell
<1>3. CASE Public(q)
  BY <1>1, <1>3 DEF Allowed
<1>4. CASE ~Public(q)
  BY <1>2, <1>4 DEF Allowed
<1>5. QED
  BY <1>3, <1>4

LEMMA V1ShowsAllowed ==
  ASSUME WellFormed(records), NEW rd \in Reader, NEW i \in V1Shows(rd)
  PROVE  Allowed(rd, i)
<1> DEFINE found ==
      HomePage(rd) \cup NamespacePage(rd) \cup RecordPages(rd)
        \cup AdminDashboard(rd)
        \cup UNION {ApiRead(rd, p) \cup ApiSearch(rd, p) \cup Brief(rd, p)
                      \cup ToolRead(rd, p) : p \in BOOLEAN}
<1>1. ASSUME NEW j \in found
      PROVE  Allowed(rd, j)
  <2>1. CASE j \in HomePage(rd)
    BY <2>1, NothingIsFair, FairShows DEF HomePage
  <2>2. CASE j \in NamespacePage(rd)
    BY <2>2, NothingIsFair, FairShows DEF NamespacePage
  <2>3. CASE j \in RecordPages(rd)
    BY <2>3, RecordPagesShow
  <2>4. CASE j \in AdminDashboard(rd)
    BY <2>4 DEF AdminDashboard, Allowed
  <2>5. CASE \E p \in BOOLEAN : j \in ApiRead(rd, p) \cup ApiSearch(rd, p)
                                        \cup Brief(rd, p) \cup ToolRead(rd, p)
    BY <2>5, ApiShows
  <2>6. QED
    BY <2>1, <2>2, <2>3, <2>4, <2>5
<1>2. i \in WithNewest(found)
  BY DEF V1Shows
<1> HIDE DEF found
<1>3. i \in found \/ \E q \in found \cap Ids("question") : i \in Newest(q)
  BY <1>2 DEF WithNewest
<1>4. QED
  BY <1>1, <1>3, NewestShows

\* With what the readers of v2 query: with a key of the reader, and for private
\* records with the scope only.
LEMMA ModesGranted ==
  ASSUME NEW rd \in Reader, NEW m \in Modes(rd)
  PROVE  /\ m[2] \in BOOLEAN
         /\ rd.token \/ m[1] = rd.key
         /\ m[2] => Granted(m[1], "read_private")
<1>1. rd.token \/ OptionalAuth(rd) = rd.key
  BY DEF OptionalAuth
<1>2. rd.token \/ ToolAuth(rd) = rd.key
  BY DEF ToolAuth
<1>3. Granted(OptionalAuth(rd), "read_private") \in BOOLEAN
  BY DEF Granted, HasScope
<1>4. CASE m \in ToolModes(rd)
  <2>1. \/ m = <<ToolAuth(rd), FALSE>>
        \/ m = <<ToolAuth(rd), TRUE>> /\ Granted(ToolAuth(rd), "read_private")
    BY <1>4 DEF ToolModes
  <2>2. CASE m = <<ToolAuth(rd), FALSE>>
    BY <1>2, <2>2
  <2>3. CASE m = <<ToolAuth(rd), TRUE>> /\ Granted(ToolAuth(rd), "read_private")
    BY <1>2, <2>3
  <2>4. QED
    BY <2>1, <2>2, <2>3
<1>5. CASE m \in DeepModes(rd)
  <2> DEFINE asks == rd.key # NoAuth \/ rd.token
  <2>1. m = <<ToolAuth(rd), asks>> /\ (asks => Granted(ToolAuth(rd), "read_private"))
    BY <1>5 DEF DeepModes
  <2>2. asks \in BOOLEAN
    BY ReaderAssumption
  <2> HIDE DEF asks
  <2>3. QED
    BY <1>2, <2>1, <2>2
<1>6. CASE m \in PageModes(rd)
  <2>1. m = <<OptionalAuth(rd), Granted(OptionalAuth(rd), "read_private")>>
    BY <1>6 DEF PageModes
  <2>2. QED
    BY <1>1, <1>3, <2>1
<1>7. QED
  BY <1>4, <1>5, <1>6 DEF Modes

LEMMA ClauseAllows ==
  ASSUME NEW rd \in Reader, NEW m \in Modes(rd), NEW i,
         Clause(View(records[i]), m[1], m[2])
  PROVE  Allowed(rd, i)
<1>1. /\ m[2] \in BOOLEAN
      /\ rd.token \/ m[1] = rd.key
      /\ m[2] => Granted(m[1], "read_private")
  BY ModesGranted
<1>2. QED
  BY <1>1 DEF Clause, View, Granted, Allowed, HasScope, Public, Suppressed

LEMMA V2OpensAllowed ==
  ASSUME WellFormed(records), NEW rd \in Reader, NEW i \in V2Opens(rd)
  PROVE  Allowed(rd, Owner(i))
<1>1. ASSUME NEW m \in Modes(rd), NEW j, Opens(m, j)
      PROVE  Allowed(rd, Owner(j))
  BY <1>1, ClauseAllows DEF Opens
<1>2. ASSUME NEW m \in Modes(rd), NEW j \in Searchable(records), Opens(m, j),
             i \in Fetched(m, j) \cup V2Page(m, j)
      PROVE  Allowed(rd, Owner(i))
  <2>1. CASE i \in Fetched(m, j)
    BY <1>1, <1>2, <2>1 DEF Fetched, EvidenceBeside, ReportsBeside
  <2>2. CASE i \in V2Page(m, j)
    <3>1. KindOfId(j) \in Kinds \ {"session"} /\ RefersWell(records, j)
      BY DEF Searchable, WellFormed, Id, KindOfId
    <3>2. CASE KindOfId(j) = "claim"
      BY <2>1, <2>2, <3>2 DEF V2Page
    <3>3. CASE KindOfId(j) = "excerpt"
      <4>1. i = j \/ i = records[j].source \/ i \in ClaimsBeside(m, j)
        BY <2>2, <3>3 DEF V2Page
      <4>2. i = records[j].source => Owner(i) = Owner(j)
        <5>1. KindOfId(records[j].source) = "source"
          BY <3>1, <3>3 DEF RefersWell, OfKind
        <5>2. QED
          BY <3>3, <5>1 DEF Owner
      <4>3. QED
        BY <1>1, <1>2, <4>1, <4>2 DEF ClaimsBeside
    <3>4. CASE KindOfId(j) = "source"
      BY <1>1, <1>2, <2>2, <3>4 DEF V2Page, EvidenceBeside
    <3>5. CASE KindOfId(j) \in {"question", "report"}
      BY <2>2, <3>5 DEF V2Page
    <3>6. QED
      BY <3>1, <3>2, <3>3, <3>4, <3>5 DEF Kinds
  <2>3. QED
    BY <1>2, <2>1, <2>2
<1>3. CASE \E m \in Modes(rd) : i \in Opened(m)
  BY <1>2, <1>3 DEF Opened
<1>4. CASE i \in AdminLists(rd)
  BY <1>4, ReaderAssumption DEF AdminLists, OptionalAuth, Allowed
<1>5. QED
  BY <1>3, <1>4 DEF V2Opens, InboxShows, QueueShows

LEMMA V2FindsAllowed ==
  ASSUME NEW rd \in Reader, DocsIn(records, docs, changed), NEW i \in V2Finds(rd)
  PROVE  Allowed(rd, Owner(i)) \/ Owner(i) \in changed
<1>1. PICK m \in Modes(rd) : i \in Hits(m[1], m[2])
  BY DEF V2Finds
<1>2. i \in DOMAIN docs /\ Clause(docs[i], m[1], m[2])
  BY <1>1 DEF Hits
<1>3. Owner(i) \in changed \/ docs[i] = View(records[Owner(i)])
  BY <1>2 DEF DocsIn, OwnerIn, Owner
<1>4. QED
  BY <1>2, <1>3, ClauseAllows

\* No front end shows a reader a record it may not see, whatever was created,
\* published and suppressed in the meantime; the search of v2 alone lags behind
\* what was published or hidden since the last rebuild of its projection
\* (app.py, mcp_tools.py, read_runtime.py, deep_research.py, web_v2.py).
THEOREM ReadersSeeTheirs == RecordsSpec => []NothingPrivateShown
<1>1. LibraryInv => NothingPrivateShown
  BY V1ShowsAllowed, V2OpensAllowed, V2FindsAllowed
     DEF LibraryInv, RecordsTypeOK, NothingPrivateShown
<1>2. QED
  BY <1>1, LibraryInvariant, PTL

-----------------------------------------------------------------------------
(* Numbers *)

\* A set of numbers has a least one.
LEMMA LeastNumber ==
  ASSUME NEW S \in SUBSET Nat, S # {}
  PROVE  \E m \in S : \A n \in S : m <= n
<1>1. \E m \in S : \A n \in S : ~ (<<n, m>> \in OpToRel(<, Nat))
  <2> HIDE DEF OpToRel
  <2>1. QED
    BY NatLessThanWellFounded, WFMin
<1>2. \A m, n \in Nat : <<n, m>> \in OpToRel(<, Nat) <=> n < m
  BY DEF OpToRel
<1>3. PICK m \in S : \A n \in S : ~ (<<n, m>> \in OpToRel(<, Nat))
  BY <1>1
<1>4. ASSUME NEW n \in S
      PROVE  m <= n
  <2>1. ~ (n < m)
    BY <1>2, <1>3
  <2>2. QED
    BY <2>1
<1>5. QED
  BY <1>4

\* Max and Min of a set of numbers that a number bounds.
LEMMA MaxMember ==
  ASSUME NEW b \in Nat, NEW S \in SUBSET (0..b), S # {}
  PROVE  Max(S) \in S /\ \A n \in S : n <= Max(S)
<1> DEFINE Below == {b - n : n \in S}
<1>1. \A n \in S : b - n \in Nat
  OBVIOUS
<1> HIDE DEF Below
<1>6. Below \in SUBSET Nat /\ Below # {}
  BY <1>1 DEF Below
<1>2. PICK l \in Below : \A n \in Below : l <= n
  BY <1>6, LeastNumber
<1>3. PICK m \in S : l = b - m
  BY <1>2 DEF Below
<1>4. \A n \in S : m >= n
  BY <1>2, <1>3 DEF Below
<1>5. QED
  BY <1>4 DEF Max

LEMMA MinMember ==
  ASSUME NEW S \in SUBSET Nat, S # {}
  PROVE  Min(S) \in S
BY LeastNumber DEF Min

-----------------------------------------------------------------------------
(* Orders *)

\* What a strict order of a finite set puts before an element.
AheadOf(S, R, x) == {y \in S : <<y, x>> \in R}

StrictOrder(S, R) ==
  /\ \A x \in S : <<x, x>> \notin R
  /\ \A x, y, z \in S : <<x, y>> \in R /\ <<y, z>> \in R => <<x, z>> \in R
  /\ \A x, y \in S : x = y \/ <<x, y>> \in R \/ <<y, x>> \in R

\* An element comes after fewer others than an element that it precedes.
LEMMA FewerAhead ==
  ASSUME NEW S, NEW R, IsFiniteSet(S), StrictOrder(S, R),
         NEW x \in S, NEW y \in S, <<x, y>> \in R
  PROVE  /\ Cardinality(AheadOf(S, R, x)) \in Nat
         /\ Cardinality(AheadOf(S, R, y)) \in Nat
         /\ Cardinality(AheadOf(S, R, x)) < Cardinality(AheadOf(S, R, y))
<1>1. AheadOf(S, R, x) \subseteq AheadOf(S, R, y) /\ x \in AheadOf(S, R, y)
      /\ x \notin AheadOf(S, R, x)
  BY DEF AheadOf, StrictOrder
<1>2. IsFiniteSet(AheadOf(S, R, y)) /\ IsFiniteSet(AheadOf(S, R, x))
  BY FS_Subset DEF AheadOf
<1>3. QED
  BY <1>1, <1>2, FS_Subset, FS_CardinalityType

\* No two have one place.
LEMMA PlacesDiffer ==
  ASSUME NEW S, NEW R, IsFiniteSet(S), StrictOrder(S, R)
  PROVE  /\ \A x \in S : Cardinality(AheadOf(S, R, x)) + 1 \in 1..Cardinality(S)
         /\ \A x, y \in S :
              Cardinality(AheadOf(S, R, x)) = Cardinality(AheadOf(S, R, y)) => x = y
<1>1. Cardinality(S) \in Nat
  BY FS_CardinalityType
<1>2. ASSUME NEW x \in S
      PROVE  Cardinality(AheadOf(S, R, x)) + 1 \in 1..Cardinality(S)
  <2>1. AheadOf(S, R, x) \subseteq S /\ x \in S \ AheadOf(S, R, x)
    BY DEF AheadOf, StrictOrder
  <2>2. IsFiniteSet(AheadOf(S, R, x))
        /\ Cardinality(AheadOf(S, R, x)) <= Cardinality(S)
        /\ Cardinality(AheadOf(S, R, x)) # Cardinality(S)
    BY <2>1, FS_Subset
  <2>3. Cardinality(AheadOf(S, R, x)) \in Nat
    BY <2>2, FS_CardinalityType
  <2>4. QED
    BY <2>2, <2>3, <1>1
<1>3. ASSUME NEW x \in S, NEW y \in S,
             Cardinality(AheadOf(S, R, x)) = Cardinality(AheadOf(S, R, y))
      PROVE  x = y
  <2>1. CASE <<x, y>> \in R
    BY <2>1, <1>3, FewerAhead
  <2>2. CASE <<y, x>> \in R
    BY <2>2, <1>3, FewerAhead
  <2>3. QED
    BY <2>1, <2>2 DEF StrictOrder
<1>4. QED
  BY <1>2, <1>3

\* Every place of the order is somebody's.
LEMMA PlacesTaken ==
  ASSUME NEW S, NEW R, IsFiniteSet(S), StrictOrder(S, R)
  PROVE  /\ Cardinality(S) \in Nat
         /\ \A i \in 1..Cardinality(S) :
              \E x \in S : Cardinality(AheadOf(S, R, x)) + 1 = i
<1> DEFINE n == Cardinality(S)
           place == [x \in S |-> Cardinality(AheadOf(S, R, x)) + 1]
<1>1. n \in Nat /\ IsFiniteSet(1..n) /\ Cardinality(1..n) = n
  BY FS_CardinalityType, FS_Interval
<1>2. /\ \A x \in S : place[x] \in 1..n
      /\ \A x, y \in S : place[x] = place[y] => x = y
  <2>1. \A x \in S : Cardinality(AheadOf(S, R, x)) \in Nat
    <3>1. TAKE x \in S
    <3>2. IsFiniteSet(AheadOf(S, R, x))
      BY FS_Subset DEF AheadOf
    <3>3. QED
      BY <3>2, FS_CardinalityType
  <2>2. QED
    BY <2>1, PlacesDiffer
<1>3. place \in Injection(S, 1..n)
  BY <1>2 DEF Injection, IsInjective
<1>4. place \in Surjection(S, 1..n)
  BY <1>1, <1>3, FS_Injection
<1>5. QED
  BY <1>1, <1>4 DEF Surjection

-----------------------------------------------------------------------------
(* The newest of a list *)

Numbered(xs) ==
  /\ IsFiniteSet(xs)
  /\ \A x \in xs : Number(x) \in Nat
  /\ \A x, y \in xs : Number(x) = Number(y) => x = y

Newer(xs) == {p \in xs \X xs : Number(p[1]) > Number(p[2])}

LEMMA NewerIsOrder ==
  ASSUME NEW xs, Numbered(xs)
  PROVE  /\ StrictOrder(xs, Newer(xs))
         /\ \A n : FirstOf(xs, n) =
              {x \in xs : Cardinality(AheadOf(xs, Newer(xs), x)) < n}
<1>1. \A x, y \in xs : <<x, y>> \in Newer(xs) <=> Number(x) > Number(y)
  BY DEF Newer
<1>2. StrictOrder(xs, Newer(xs))
  BY <1>1 DEF StrictOrder, Numbered
<1>3. \A x \in xs :
        AheadOf(xs, Newer(xs), x) = {y \in xs : Number(y) > Number(x)}
  BY <1>1 DEF AheadOf
<1>4. QED
  BY <1>2, <1>3 DEF FirstOf

\* A list is cut to what is asked for, and only when it is longer.
LEMMA FirstOfCut ==
  ASSUME NEW xs, Numbered(xs), NEW n \in Nat
  PROVE  /\ FirstOf(xs, n) \subseteq xs
         /\ IsFiniteSet(FirstOf(xs, n))
         /\ Cardinality(FirstOf(xs, n)) \in Nat
         /\ Cardinality(FirstOf(xs, n)) <= n
         /\ Cardinality(FirstOf(xs, n)) < n => FirstOf(xs, n) = xs
<1> DEFINE R == Newer(xs)
           F == FirstOf(xs, n)
           Rank(x) == Cardinality(AheadOf(xs, R, x))
<1> IsFiniteSet(xs)
  BY DEF Numbered
<1>1. StrictOrder(xs, R) /\ F = {x \in xs : Rank(x) < n}
  BY NewerIsOrder
<1>2. \A x, y \in xs : <<x, y>> \in R => Rank(x) < Rank(y)
  BY <1>1, FewerAhead
<1>3. \A x \in xs : /\ IsFiniteSet(AheadOf(xs, R, x)) /\ Rank(x) \in Nat
                    /\ x \notin AheadOf(xs, R, x)
  <2>1. TAKE x \in xs
  <2>2. AheadOf(xs, R, x) \subseteq xs /\ x \notin AheadOf(xs, R, x)
    BY <1>1 DEF AheadOf, StrictOrder
  <2>3. IsFiniteSet(AheadOf(xs, R, x))
    BY <2>2, FS_Subset
  <2>4. QED
    BY <2>2, <2>3, FS_CardinalityType
<1>4. F \subseteq xs /\ IsFiniteSet(F) /\ Cardinality(F) \in Nat
  <2>1. F \subseteq xs
    BY <1>1
  <2>2. IsFiniteSet(F)
    BY <2>1, FS_Subset
  <2>3. QED
    BY <2>1, <2>2, FS_CardinalityType
<1>5. Cardinality(F) <= n
  <2>1. CASE F = {}
    BY <2>1, FS_EmptySet
  <2>2. CASE F # {}
    <3> DEFINE Ranks == {Rank(x) : x \in F}
    <3>1. Ranks \in SUBSET (0..n) /\ Ranks # {}
      BY <1>1, <1>3, <2>2
    <3> HIDE DEF Ranks
    <3>2. Max(Ranks) \in Ranks /\ \A m \in Ranks : m <= Max(Ranks)
      BY <3>1, MaxMember
    <3>3. PICK x \in F : Rank(x) = Max(Ranks)
      BY <3>2 DEF Ranks
    <3>4. \A y \in F : Rank(y) <= Rank(x)
      BY <3>2, <3>3 DEF Ranks
    <3>5. F \ {x} \subseteq AheadOf(xs, R, x)
      <4>1. SUFFICES ASSUME NEW y \in F, y # x
                     PROVE  <<y, x>> \in R
        BY <1>4 DEF AheadOf
      <4>2. ~ (<<x, y>> \in R)
        BY <3>4, <1>2, <1>3, <1>4
      <4>3. QED
        BY <4>1, <4>2, <1>1, <1>4 DEF StrictOrder
    <3>6. Cardinality(F \ {x}) <= Rank(x)
      BY <3>5, <1>3, <1>4, FS_Subset
    <3>7. Cardinality(F \ {x}) = Cardinality(F) - 1
      BY <1>4, FS_RemoveElement
    <3>8. Rank(x) < n /\ Rank(x) \in Nat
      BY <1>1, <1>3, <1>4
    <3> HIDE DEF Rank, F
    <3>9. QED
      BY <3>6, <3>7, <3>8, <1>4
  <2>3. QED
    BY <2>1, <2>2
<1>6. ASSUME F # xs
      PROVE  n <= Cardinality(F)
  <2> DEFINE Late == xs \ F
             Ranks == {Rank(x) : x \in Late}
  <2>1. Ranks \in SUBSET Nat /\ Ranks # {}
    BY <1>3, <1>4, <1>6
  <2> HIDE DEF Ranks
  <2>2. PICK m \in Ranks : \A k \in Ranks : m <= k
    BY <2>1, LeastNumber
  <2>3. PICK x \in Late : Rank(x) = m
    BY DEF Ranks
  <2>4. \A y \in Late : Rank(x) <= Rank(y)
    BY <2>2, <2>3 DEF Ranks
  <2>5. AheadOf(xs, R, x) \subseteq F
    <3>1. SUFFICES ASSUME NEW y \in xs, <<y, x>> \in R
                   PROVE  y \in F
      BY DEF AheadOf
    <3>2. Rank(y) < Rank(x) /\ Rank(y) \in Nat /\ Rank(x) \in Nat
      BY <3>1, <1>2, <1>3
    <3>3. QED
      BY <3>2, <2>4
  <2>6. Rank(x) <= Cardinality(F)
    BY <2>5, <1>4, FS_Subset
  <2>7. ~ (Rank(x) < n) /\ Rank(x) \in Nat
    BY <1>1, <1>3
  <2> HIDE DEF Rank, F
  <2>8. QED
    BY <2>6, <2>7, <1>4
<1>7. QED
  <2> HIDE DEF F
  <2>1. QED
    BY <1>4, <1>5, <1>6 DEF F

\* A list that is not longer is not cut.
LEMMA FirstOfWhole ==
  ASSUME NEW xs, IsFiniteSet(xs), \A x \in xs : Number(x) \in Nat,
         NEW n \in Nat, Cardinality(xs) <= n
  PROVE  FirstOf(xs, n) = xs
<1>1. SUFFICES ASSUME NEW x \in xs
               PROVE  Cardinality({y \in xs : Number(y) > Number(x)}) < n
  BY DEF FirstOf
<1> DEFINE above == {y \in xs : Number(y) > Number(x)}
<1>2. above \subseteq xs /\ x \notin above
  OBVIOUS
<1> HIDE DEF above
<1>3. /\ IsFiniteSet(above) /\ Cardinality(above) <= Cardinality(xs)
      /\ Cardinality(above) # Cardinality(xs)
  BY <1>2, FS_Subset
<1>4. Cardinality(above) \in Nat /\ Cardinality(xs) \in Nat
  BY <1>3, FS_CardinalityType
<1>5. QED
  BY <1>3, <1>4 DEF above

-----------------------------------------------------------------------------
(* The order of the results *)

LEMMA BetterIsOrder ==
  ASSUME NEW k \in Nat, NEW a \in [1..k -> Int], NEW b \in [1..k -> Int],
         NEW c \in [1..k -> Int]
  PROVE  /\ ~ Better(a, a)
         /\ Better(a, b) /\ Better(b, c) => Better(a, c)
         /\ a = b \/ Better(a, b) \/ Better(b, a)
<1>1. Len(a) = k /\ Len(b) = k
  OBVIOUS
<1>2. ~ Better(a, a)
  BY <1>1 DEF Better
<1>3. ASSUME Better(a, b), Better(b, c)
      PROVE  Better(a, c)
  <2>1. PICK i \in 1..k : a[i] > b[i] /\ \A j \in 1..(i - 1) : a[j] = b[j]
    BY <1>1, <1>3 DEF Better
  <2>2. PICK l \in 1..k : b[l] > c[l] /\ \A j \in 1..(l - 1) : b[j] = c[j]
    BY <1>1, <1>3 DEF Better
  <2>3. CASE i <= l
    <3>1. a[i] > c[i] /\ \A j \in 1..(i - 1) : a[j] = c[j]
      BY <2>1, <2>2, <2>3
    <3>2. QED
      BY <3>1, <1>1 DEF Better
  <2>4. CASE l < i
    <3>1. a[l] > c[l] /\ \A j \in 1..(l - 1) : a[j] = c[j]
      BY <2>1, <2>2, <2>4
    <3>2. QED
      BY <3>1, <1>1 DEF Better
  <2>5. QED
    BY <2>3, <2>4
<1>4. ASSUME a # b
      PROVE  Better(a, b) \/ Better(b, a)
  <2> DEFINE apart == {i \in 1..k : a[i] # b[i]}
  <2>5. \E i \in 1..k : a[i] # b[i]
    BY <1>4
  <2>6. PICK i \in 1..k : a[i] # b[i]
    BY <2>5
  <2>7. i \in apart
    BY <2>6
  <2>8. \A j \in apart : j \in Nat
    OBVIOUS
  <2> HIDE DEF apart
  <2>1. apart \in SUBSET Nat /\ apart # {}
    BY <2>7, <2>8
  <2>2. PICK l \in apart : \A j \in apart : l <= j
    BY <2>1, LeastNumber
  <2>3. /\ a[l] > b[l] \/ b[l] > a[l]
        /\ l \in 1..k
        /\ \A j \in 1..(l - 1) : a[j] = b[j]
    BY <2>2 DEF apart
  <2>4. QED
    BY <2>3, <1>1 DEF Better
<1>5. QED
  BY <1>2, <1>3, <1>4

\* All are listed, the better one before the other.
LEMMA InOrderLists ==
  ASSUME NEW k \in Nat, NEW keyed, IsFiniteSet(keyed),
         \A r \in keyed : r.key \in [1..k -> Int],
         \A r, q \in keyed : r.key = q.key => r = q
  PROVE  LET list == InOrder(keyed) IN
         /\ list \in Seq({r.of : r \in keyed})
         /\ \A r \in keyed : \E i \in 1..Len(list) : list[i] = r.of
         /\ \A i, j \in 1..Len(list) :
              i < j => \E r, q \in keyed : /\ list[i] = r.of /\ list[j] = q.of
                                         /\ Better(r.key, q.key)
<1> DEFINE R == {p \in keyed \X keyed : Better(p[1].key, p[2].key)}
           n == Cardinality(keyed)
           place == [r \in keyed |->
                      Cardinality({q \in keyed : Better(q.key, r.key)}) + 1]
<1>1. \A r, q \in keyed : <<r, q>> \in R <=> Better(r.key, q.key)
  OBVIOUS
<1>2. StrictOrder(keyed, R)
  <2>1. \A r \in keyed : <<r, r>> \notin R
    BY <1>1, BetterIsOrder
  <2>2. ASSUME NEW x \in keyed, NEW y \in keyed, NEW z \in keyed,
               <<x, y>> \in R, <<y, z>> \in R
        PROVE  <<x, z>> \in R
    BY <1>1, <2>2, BetterIsOrder
  <2>3. ASSUME NEW x \in keyed, NEW y \in keyed
        PROVE  x = y \/ <<x, y>> \in R \/ <<y, x>> \in R
    BY <1>1, BetterIsOrder
  <2> HIDE DEF R
  <2>4. QED
    BY <2>1, <2>2, <2>3 DEF StrictOrder
<1>3. \A r \in keyed : place[r] = Cardinality(AheadOf(keyed, R, r)) + 1
  <2>1. \A r \in keyed :
          AheadOf(keyed, R, r) = {q \in keyed : Better(q.key, r.key)}
    BY <1>1 DEF AheadOf
  <2>2. QED
    BY <2>1
<1> HIDE DEF R, place
<1>4. n \in Nat /\ \A i \in 1..n : \E r \in keyed : place[r] = i
  BY <1>2, <1>3, PlacesTaken
<1>8. /\ \A r \in keyed : place[r] \in 1..n
      /\ \A r, q \in keyed : place[r] = place[q] => r = q
      /\ \A r, q \in keyed : Better(r.key, q.key) => place[r] < place[q]
  <2>1. \A r \in keyed : place[r] \in 1..n
    BY <1>2, <1>3, PlacesDiffer
  <2>2. ASSUME NEW r \in keyed, NEW q \in keyed, <<r, q>> \in R
        PROVE  place[r] < place[q]
    <3>1. /\ Cardinality(AheadOf(keyed, R, r)) \in Nat
          /\ Cardinality(AheadOf(keyed, R, q)) \in Nat
          /\ Cardinality(AheadOf(keyed, R, r)) < Cardinality(AheadOf(keyed, R, q))
      BY <2>2, <1>2, FewerAhead
    <3>2. QED
      BY <3>1, <1>3
  <2>3. ASSUME NEW r \in keyed, NEW q \in keyed, place[r] = place[q]
        PROVE  r = q
    <3>1. place[r] \in Int /\ place[q] \in Int
      BY <2>1, <1>4
    <3>2. ~ (<<r, q>> \in R) /\ ~ (<<q, r>> \in R)
      BY <3>1, <2>2, <2>3
    <3>3. QED
      BY <3>2, <1>2 DEF StrictOrder
  <2>4. QED
    BY <2>1, <2>2, <2>3, <1>1
<1>5. InOrder(keyed) =
        [i \in 1..n |-> (CHOOSE r \in keyed : place[r] = i).of]
  BY DEF InOrder, place
<1> DEFINE taker(i) == CHOOSE r \in keyed : place[r] = i
<1>6. \A i \in 1..n : taker(i) \in keyed /\ place[taker(i)] = i
  BY <1>4
<1>7. \A r \in keyed : taker(place[r]) = r
  BY <1>6, <1>8
<1>9. \A i, j \in 1..n : i < j => Better(taker(i).key, taker(j).key)
  <2>1. SUFFICES ASSUME NEW i \in 1..n, NEW j \in 1..n, i < j
                 PROVE  Better(taker(i).key, taker(j).key)
    OBVIOUS
  <2>2. taker(i) # taker(j)
    BY <2>1, <1>6
  <2>3. ~ Better(taker(j).key, taker(i).key)
    BY <2>1, <1>6, <1>8
  <2> HIDE DEF taker
  <2>4. QED
    BY <2>2, <2>3, <1>1, <1>2, <1>6 DEF StrictOrder
<1> DEFINE list == InOrder(keyed)
<1>10. list = [i \in 1..n |-> taker(i).of]
  BY <1>5
<1> HIDE DEF taker, list
<1>11. list \in Seq({r.of : r \in keyed}) /\ Len(list) = n
  BY <1>4, <1>6, <1>10
<1>12. \A r \in keyed : \E i \in 1..Len(list) : list[i] = r.of
  BY <1>7, <1>8, <1>10, <1>11
<1>13. \A i, j \in 1..Len(list) :
         i < j => \E r, q \in keyed : /\ list[i] = r.of /\ list[j] = q.of
                                    /\ Better(r.key, q.key)
  BY <1>6, <1>9, <1>10, <1>11
<1>14. QED
  BY <1>11, <1>12, <1>13 DEF list

-----------------------------------------------------------------------------
(* The tables *)

RecordIds == (RecordKinds \cup {"revision"}) \X Nat
RevisionRow == [status : {"draft", "contested", "rejected"}, links : SUBSET RecordIds]
SpanRow == [version : Nat, stale : BOOLEAN]
EventRow == [on : RecordIds, to : {"reviewed", "flagged"}]
Library ==
  [revisions : Seq(RevisionRow), spans : Seq(SpanRow), versions : Nat,
   queue : Seq([on : RecordIds, status : {"pending"}]), events : Seq(EventRow),
   open : BOOLEAN]

\* A revision links evidence that exists.
LinksIn(revisions, spans) ==
  \A n \in 1..Len(revisions) :
    \A x \in revisions[n].links : \E i \in 1..Len(spans) : x = Evidence(i)
IsLibrary(l) ==
  l \in Library /\ Len(l.revisions) > 0 /\ LinksIn(l.revisions, l.spans)

\* What is written is added to what was.
Prefix(s, t) == Len(s) <= Len(t) /\ \A i \in 1..Len(s) : t[i] = s[i]
TablesGrown(k, l) ==
  /\ Prefix(k.revisions, l.revisions)
  /\ Prefix(k.events, l.events)
  /\ Len(k.spans) <= Len(l.spans)
  /\ \A i \in 1..Len(k.spans) : l.spans[i].version = k.spans[i].version
  /\ k.versions <= l.versions

LEMMA FirstIsLibrary == IsLibrary(First)
<1>1. Evidence(1) \in RecordIds
  BY DEF RecordIds, Evidence, RecordKinds
<1>2. First.revisions \in Seq(RevisionRow) /\ Len(First.revisions) = 1
      /\ First.revisions[1].links = {Evidence(1)}
  BY <1>1 DEF First, RevisionRow
<1>3. First.spans \in Seq(SpanRow) /\ Len(First.spans) = 1
  BY DEF First, SpanRow
<1>4. First \in Library
  BY <1>2, <1>3 DEF First, Library
<1>5. QED
  BY <1>2, <1>3, <1>4 DEF IsLibrary, LinksIn

LEMMA PrefixOfAppend ==
  ASSUME NEW T, NEW s \in Seq(T), NEW x \in T
  PROVE  /\ Append(s, x) \in Seq(T) /\ Len(Append(s, x)) = Len(s) + 1
         /\ Append(s, x)[Len(s) + 1] = x
         /\ Prefix(s, Append(s, x)) /\ Prefix(s, s)
BY DEF Prefix

\* The evidence that the current revision links.
LEMMA LinkedEvidence ==
  ASSUME NEW l, IsLibrary(l)
  PROVE  /\ Len(l.revisions) \in 1..Len(l.revisions)
         /\ NewestRevision(l) \in RevisionRow
         /\ Linked(l) \subseteq RecordIds /\ Linked(l) \subseteq Spans(l)
         /\ \A x \in Linked(l) : Number(x) \in 1..Len(l.spans)
         /\ Current(l) \in RecordIds
<1>1. Len(l.revisions) \in 1..Len(l.revisions) /\ l.revisions \in Seq(RevisionRow)
  BY DEF IsLibrary, Library
<1>2. NewestRevision(l) \in RevisionRow
  BY <1>1 DEF NewestRevision
<1>3. \A x \in Linked(l) : \E i \in 1..Len(l.spans) : x = Evidence(i)
  BY <1>1 DEF IsLibrary, LinksIn, Linked, NewestRevision
<1>4. Current(l) \in RecordIds
  BY <1>1 DEF Current, Revision, RecordIds
<1>5. QED
  BY <1>1, <1>2, <1>3, <1>4
  DEF Linked, RevisionRow, Spans, Evidence, Number

LEMMA OthersGrow ==
  ASSUME IsLibrary(lib), Others
  PROVE  /\ IsLibrary(lib') /\ TablesGrown(lib, lib')
         /\ writes < MaxWrites /\ writes' = writes + 1
         /\ indexed' = indexed \/ indexed' = lib'
         /\ UNCHANGED <<reading, phase, searchVars, getVars>>
<1> DEFINE Goal ==
      /\ IsLibrary(lib') /\ TablesGrown(lib, lib')
      /\ writes < MaxWrites /\ writes' = writes + 1
      /\ indexed' = indexed \/ indexed' = lib'
      /\ UNCHANGED <<reading, phase, searchVars, getVars>>
<1> SUFFICES Goal
  OBVIOUS
<1>1. ASSUME NEW l, NEW rebuilt \in BOOLEAN, Write(l, rebuilt),
             IsLibrary(l), TablesGrown(lib, l)
      PROVE  Goal
  BY <1>1 DEF Write
<1> HIDE DEF Goal
<1>2. /\ lib \in Library /\ LinksIn(lib.revisions, lib.spans)
      /\ lib.revisions \in Seq(RevisionRow) /\ lib.spans \in Seq(SpanRow)
      /\ lib.events \in Seq(EventRow) /\ lib.versions \in Nat
      /\ Len(lib.revisions) > 0
      /\ Prefix(lib.revisions, lib.revisions) /\ Prefix(lib.events, lib.events)
  BY DEF IsLibrary, Library, Prefix
<1>3. /\ Linked(lib) \subseteq RecordIds /\ Current(lib) \in RecordIds
      /\ claim \in RecordIds
      /\ \A x \in Linked(lib) : Number(x) \in 1..Len(lib.spans)
      /\ \A x \in Linked(lib) : \E i \in 1..Len(lib.spans) : x = Evidence(i)
  BY LinkedEvidence DEF claim, RecordIds, RecordKinds, Spans
<1>4. ASSUME NEW l, IsLibrary(l), TablesGrown(lib, l), NEW x \in RecordIds,
             NEW state \in {"reviewed", "flagged"}
      PROVE  IsLibrary(Decide(l, x, state)) /\ TablesGrown(lib, Decide(l, x, state))
  <2>1. l \in Library /\ l.events \in Seq(EventRow)
    BY <1>4 DEF IsLibrary, Library
  <2>2. [on |-> x, to |-> state] \in EventRow
    BY DEF EventRow
  <2> DEFINE events == Append(l.events, [on |-> x, to |-> state])
  <2>3. events \in Seq(EventRow) /\ Prefix(l.events, events)
    BY <2>1, <2>2, PrefixOfAppend
  <2>4. Decide(l, x, state) = [l EXCEPT !.events = events]
    BY <2>1 DEF Decide, Library
  <2>5. Prefix(lib.events, events)
    BY <2>1, <2>3, <1>2, <1>4 DEF TablesGrown, Prefix
  <2> HIDE DEF events
  <2>6. QED
    BY <2>1, <2>3, <2>4, <2>5, <1>4 DEF IsLibrary, Library, TablesGrown
<1>5. ASSUME NEW row \in RevisionRow, \A x \in row.links : x \in Linked(lib),
             NEW l, l = [lib EXCEPT !.revisions = Append(@, row)]
      PROVE  IsLibrary(l) /\ TablesGrown(lib, l)
  <2> DEFINE revisions == Append(lib.revisions, row)
  <2>1. revisions \in Seq(RevisionRow) /\ Prefix(lib.revisions, revisions)
        /\ Len(revisions) = Len(lib.revisions) + 1
        /\ revisions[Len(lib.revisions) + 1] = row
    BY <1>2, PrefixOfAppend
  <2>2. l = [lib EXCEPT !.revisions = revisions]
    BY <1>2, <1>5 DEF Library
  <2> HIDE DEF revisions
  <2>3. LinksIn(revisions, lib.spans)
    <3>1. SUFFICES ASSUME NEW n \in 1..Len(revisions), NEW x \in revisions[n].links
                   PROVE  \E i \in 1..Len(lib.spans) : x = Evidence(i)
      BY DEF LinksIn
    <3>2. CASE n = Len(lib.revisions) + 1
      BY <3>1, <3>2, <2>1, <1>3, <1>5
    <3>3. CASE n # Len(lib.revisions) + 1
      <4>1. n \in 1..Len(lib.revisions) /\ revisions[n] = lib.revisions[n]
        BY <3>1, <3>3, <2>1, <1>2 DEF Prefix
      <4>2. QED
        BY <4>1, <3>1, <1>2 DEF LinksIn
    <3>4. QED
      BY <3>2, <3>3
  <2>4. l \in Library /\ l.revisions = revisions /\ l.spans = lib.spans
        /\ l.events = lib.events /\ l.versions = lib.versions
    BY <2>1, <2>2, <1>2 DEF Library
  <2>5. QED
    BY <2>1, <2>3, <2>4, <1>2 DEF IsLibrary, TablesGrown
<1>6. IsLibrary(lib) /\ TablesGrown(lib, lib)
  BY <1>2 DEF TablesGrown
<1>7. CASE DepositEvidence
  <2> DEFINE e == Len(lib.spans) + 1
             x == Evidence(e)
             row == [status |-> "draft", links |-> {x}]
  <2>1. PICK v \in {lib.versions, lib.versions + 1} :
          Write([lib EXCEPT
                   !.versions = v,
                   !.spans = Append(@, [version |-> v, stale |-> FALSE]),
                   !.revisions = Append(@, row)], TRUE)
    BY <1>7 DEF DepositEvidence
  <2> DEFINE spans == Append(lib.spans, [version |-> v, stale |-> FALSE])
             revisions == Append(lib.revisions, row)
             l == [lib EXCEPT !.versions = v, !.spans = spans,
                              !.revisions = revisions]
  <2>2. e \in Nat /\ x \in RecordIds /\ row \in RevisionRow /\ row.links = {x}
    BY <1>2 DEF Evidence, RecordIds, RecordKinds, RevisionRow
  <2>3. [version |-> v, stale |-> FALSE] \in SpanRow /\ v \in Nat
        /\ lib.versions <= v
    BY <1>2 DEF SpanRow
  <2>4. spans \in Seq(SpanRow) /\ Prefix(lib.spans, spans) /\ Len(spans) = e
    BY <1>2, <2>3, PrefixOfAppend
  <2>5. revisions \in Seq(RevisionRow) /\ Prefix(lib.revisions, revisions)
        /\ Len(revisions) = Len(lib.revisions) + 1
        /\ revisions[Len(lib.revisions) + 1] = row
    BY <1>2, <2>2, PrefixOfAppend
  <2>6. Write(l, TRUE)
    BY <2>1, <1>2 DEF Library
  <2> HIDE DEF spans, revisions, row, x
  <2>7. LinksIn(revisions, spans)
    <3>1. SUFFICES ASSUME NEW n \in 1..Len(revisions), NEW y \in revisions[n].links
                   PROVE  \E i \in 1..Len(spans) : y = Evidence(i)
      BY DEF LinksIn
    <3>2. CASE n = Len(lib.revisions) + 1
      <4>1. y = Evidence(e)
        BY <3>1, <3>2, <2>5, <2>2 DEF x
      <4>2. QED
        BY <4>1, <2>4, <1>2
    <3>3. CASE n # Len(lib.revisions) + 1
      <4>1. n \in 1..Len(lib.revisions) /\ revisions[n] = lib.revisions[n]
        BY <3>1, <3>3, <2>5, <1>2 DEF Prefix
      <4>2. \E i \in 1..Len(lib.spans) : y = Evidence(i)
        BY <4>1, <3>1, <1>2 DEF LinksIn
      <4>3. QED
        BY <4>2, <2>4 DEF Prefix
    <3>4. QED
      BY <3>2, <3>3
  <2>8. l \in Library /\ l.revisions = revisions /\ l.spans = spans
        /\ l.versions = v /\ l.events = lib.events
    BY <1>2, <2>3, <2>4, <2>5 DEF Library
  <2> HIDE DEF l
  <2>9. IsLibrary(l)
    BY <2>5, <2>7, <2>8, <1>2 DEF IsLibrary
  <2>10. TablesGrown(lib, l)
    BY <2>3, <2>4, <2>5, <2>8, <1>2 DEF TablesGrown, Prefix
  <2>11. QED
    BY <2>6, <2>9, <2>10, <1>1
<1>8. CASE Approve
  <2>1. PICK x \in {Current(lib)} \cup Linked(lib) :
          Write(Decide(lib, x, "reviewed"), TRUE)
    BY <1>8 DEF Approve
  <2>2. x \in RecordIds
    BY <1>3
  <2>3. QED
    BY <2>1, <2>2, <1>1, <1>4, <1>6
<1>9. CASE ContestEvidence
  <2>1. PICK x \in Linked(lib) : Write(Decide(lib, x, "flagged"), TRUE)
    BY <1>9 DEF ContestEvidence
  <2>2. x \in RecordIds
    BY <1>3
  <2>3. QED
    BY <2>1, <2>2, <1>1, <1>4, <1>6
<1>10. CASE Oppose
  <2>1. PICK verdict \in {"contested", "rejected"} :
          LET opposed == [lib EXCEPT
                !.revisions = Append(@, [status |-> verdict, links |-> Linked(lib)])]
          IN Write(Decide(opposed, Current(opposed), "flagged"), TRUE)
    BY <1>10 DEF Oppose
  <2> DEFINE opposed == [lib EXCEPT
        !.revisions = Append(@, [status |-> verdict, links |-> Linked(lib)])]
  <2>2. [status |-> verdict, links |-> Linked(lib)] \in RevisionRow
    BY <1>3 DEF RevisionRow
  <2>3. IsLibrary(opposed) /\ TablesGrown(lib, opposed)
    BY <2>2, <1>5
  <2> HIDE DEF opposed
  <2>4. Current(opposed) \in RecordIds
    BY <2>3, LinkedEvidence
  <2>5. Write(Decide(opposed, Current(opposed), "flagged"), TRUE)
    BY <2>1 DEF opposed
  <2>6. QED
    BY <2>3, <2>4, <2>5, <1>1, <1>4
<1>11. CASE PlanRefresh
  <2>1. PICK x \in {claim} \cup Linked(lib) :
          Write([lib EXCEPT !.queue = Append(@, [on |-> x, status |-> "pending"])],
                TRUE)
    BY <1>11 DEF PlanRefresh
  <2> DEFINE row == [on |-> x, status |-> "pending"]
             queue == Append(lib.queue, row)
             l == [lib EXCEPT !.queue = queue]
  <2>2. row \in [on : RecordIds, status : {"pending"}]
    BY <1>3
  <2>3. queue \in Seq([on : RecordIds, status : {"pending"}])
    BY <2>2, <1>2, PrefixOfAppend DEF Library
  <2>4. Write(l, TRUE)
    BY <2>1, <1>2 DEF Library
  <2> HIDE DEF queue
  <2>5. IsLibrary(l) /\ TablesGrown(lib, l)
    BY <2>3, <1>2, <1>6 DEF IsLibrary, Library, TablesGrown
  <2>6. QED
    BY <2>4, <2>5, <1>1
<1>12. CASE CaptureVersion
  <2> DEFINE v == lib.versions + 1
             l == [lib EXCEPT !.versions = v]
  <2>1. Write(l, TRUE)
    BY <1>2, <1>12 DEF CaptureVersion, Library
  <2>5. v \in Nat
    BY <1>2
  <2> HIDE DEF v
  <2>2. l \in Library /\ l.spans = lib.spans /\ l.revisions = lib.revisions
        /\ l.events = lib.events /\ l.versions = v
    BY <2>5, <1>2 DEF Library
  <2> HIDE DEF l
  <2>3. IsLibrary(l) /\ TablesGrown(lib, l)
    BY <2>2, <1>2, <1>6 DEF IsLibrary, TablesGrown, v
  <2>4. QED
    BY <2>1, <2>3, <1>1
<1>13. CASE MarkStale
  <2>1. PICK x \in Linked(lib) :
          Write([lib EXCEPT !.spans[Number(x)].stale = TRUE], FALSE)
    BY <1>13 DEF MarkStale
  <2> DEFINE i == Number(x)
             spans == [lib.spans EXCEPT ![i].stale = TRUE]
             l == [lib EXCEPT !.spans = spans]
  <2>2. i \in 1..Len(lib.spans)
    BY <1>3
  <2>3. spans \in Seq(SpanRow) /\ Len(spans) = Len(lib.spans)
        /\ \A j \in 1..Len(lib.spans) : spans[j].version = lib.spans[j].version
    <3>1. \A j \in 1..Len(lib.spans) : lib.spans[j] \in SpanRow
      BY <1>2
    <3>2. [lib.spans[i] EXCEPT !.stale = TRUE] \in SpanRow
          /\ [lib.spans[i] EXCEPT !.stale = TRUE].version = lib.spans[i].version
      BY <3>1, <2>2 DEF SpanRow
    <3>3. QED
      BY <3>1, <3>2, <2>2, <1>2
  <2>4. Write(l, FALSE)
    BY <2>1, <1>2 DEF Library
  <2> HIDE DEF spans
  <2>5. l \in Library /\ l.spans = spans /\ l.revisions = lib.revisions
        /\ l.events = lib.events /\ l.versions = lib.versions
    BY <2>3, <1>2 DEF Library
  <2> HIDE DEF l
  <2>6. LinksIn(l.revisions, l.spans)
    BY <2>3, <2>5, <1>2 DEF LinksIn
  <2>7. IsLibrary(l) /\ TablesGrown(lib, l)
    BY <2>3, <2>5, <2>6, <1>2 DEF IsLibrary, TablesGrown
  <2>8. QED
    BY <2>4, <2>7, <1>1
<1>14. CASE Conceal
  <2> DEFINE l == [lib EXCEPT !.open = ~@]
  <2>1. Write(l, FALSE)
    BY <1>14 DEF Conceal
  <2>2. IsLibrary(l) /\ TablesGrown(lib, l)
    BY <1>2, <1>6 DEF IsLibrary, Library, TablesGrown
  <2>3. QED
    BY <2>1, <2>2, <1>1
<1>15. QED
  BY <1>7, <1>8, <1>9, <1>10, <1>11, <1>12, <1>13, <1>14 DEF Others
-----------------------------------------------------------------------------
(* Results *)

LEMMA FiniteImage ==
  ASSUME NEW n \in Nat, NEW f, DOMAIN f = 1..n
  PROVE  IsFiniteSet({f[i] : i \in 1..n})
<1> DEFINE T == {f[i] : i \in 1..n}
           g == [i \in 1..n |-> f[i]]
<1>1. g \in Surjection(1..n, T)
  BY DEF Surjection
<1>2. IsFiniteSet(1..n)
  BY FS_Interval
<1>3. QED
  BY <1>1, <1>2, FS_Surjection

LEMMA RecordsAre ==
  ASSUME NEW l, IsLibrary(l)
  PROVE  /\ IsFiniteSet(Records(l))
         /\ \A x \in Records(l) : /\ x = <<Kind(x), Number(x)>>
                                  /\ Kind(x) \in RecordKinds
                                  /\ Number(x) \in Nat
<1> DEFINE v == l.versions
           n == Len(l.spans)
           f == [i \in 1..v |-> Version(i)]
           g == [i \in 1..n |-> Evidence(i)]
<1>1. v \in Nat /\ n \in Nat
  BY DEF IsLibrary, Library
<1>2. IsFiniteSet(Versions(l))
  <2>1. IsFiniteSet({f[i] : i \in 1..v})
    <3> HIDE DEF v
    <3>1. QED
      BY <1>1, FiniteImage
  <2>2. Versions(l) = {f[i] : i \in 1..v}
    BY DEF Versions
  <2>3. QED
    BY <2>1, <2>2
<1>3. IsFiniteSet(Spans(l))
  <2>1. IsFiniteSet({g[i] : i \in 1..n})
    <3> HIDE DEF n
    <3>1. QED
      BY <1>1, FiniteImage
  <2>2. Spans(l) = {g[i] : i \in 1..n}
    BY DEF Spans
  <2>3. QED
    BY <2>1, <2>2
<1>4. IsFiniteSet({claim, report, question, source})
  <2>1. IsFiniteSet({claim})
    BY FS_Singleton
  <2>2. IsFiniteSet({claim} \cup {report})
    BY <2>1, FS_AddElement
  <2>3. IsFiniteSet(({claim} \cup {report}) \cup {question})
    BY <2>2, FS_AddElement
  <2>4. IsFiniteSet((({claim} \cup {report}) \cup {question}) \cup {source})
    BY <2>3, FS_AddElement
  <2>5. (({claim} \cup {report}) \cup {question}) \cup {source} =
          {claim, report, question, source}
    OBVIOUS
  <2>6. QED
    BY <2>4, <2>5
<1>5. IsFiniteSet({claim, report, question, source} \cup Versions(l))
  BY <1>2, <1>4, FS_Union
<1>6. IsFiniteSet(Records(l))
  BY <1>3, <1>5, FS_Union DEF Records
<1>7. ASSUME NEW x \in Records(l)
      PROVE  /\ x = <<Kind(x), Number(x)>> /\ Kind(x) \in RecordKinds
             /\ Number(x) \in Nat
  BY <1>1, <1>7 DEF Records, Versions, Spans, Version, Evidence, claim, report,
    question, source, Kind, Number, RecordKinds
<1>8. QED
  BY <1>6, <1>7

LEMMA KindRankIs ==
  ASSUME NEW x, Kind(x) \in RecordKinds
  PROVE  KindRank(x) \in 1..6 /\ KindOrder[KindRank(x)] = Kind(x)
<1>1. \E i \in 1..6 : KindOrder[i] = Kind(x)
  BY DEF KindOrder, RecordKinds
<1>2. QED
  BY <1>1 DEF KindRank

LEMMA RelationshipIs ==
  ASSUME NEW rel, NEW x
  PROVE  Relationship(rel, x) \in 0..100
<1> DEFINE S == {0} \cup {n \in 0..100 : [of |-> x, score |-> n] \in ToSet(rel)}
<1>1. S \in SUBSET (0..100) /\ S # {}
  OBVIOUS
<1> HIDE DEF S
<1>2. Max(S) \in S
  BY <1>1, MaxMember
<1>3. QED
  BY <1>1, <1>2 DEF Relationship, S

LEMMA SortKeyIs ==
  ASSUME NEW d, IsLibrary(d), NEW rel, NEW x,
         Kind(x) \in RecordKinds, Number(x) \in Nat
  PROVE  /\ SortKey(d, rel, x) \in [1..5 -> Int]
         /\ SortKey(d, rel, x)[4] = KindRank(x)
         /\ SortKey(d, rel, x)[5] = Number(x)
<1> DEFINE relationship == Relationship(rel, x)
           exact == Matching[Kind(x)].exact
           lexical == Matching[Kind(x)].lexical
           trust == Trust[Kind(x)]
           review == ReviewWeight(d, x)
           fresh == FreshnessWeight(Freshness(d, x))
           conflict == IF Conflicted(d, Subject(d, x)) THEN 200 ELSE 0
           rank == RankResult(d, x, relationship)
           updated == UpdatedAt(d, x)
<1>1. exact \in Int /\ lexical \in Int /\ trust \in Int
  BY ReadingAssumption
<1>2. relationship \in Int
  BY RelationshipIs
<1>3. review \in Int
  <2>1. /\ 100 \in Int /\ -100 \in Int /\ -50 \in Int /\ 0 \in Int
    OBVIOUS
  <2>2. QED
    BY <2>1, Zenon DEF ReviewWeight
<1>4. fresh \in Int
  <2>1. /\ 100 \in Int /\ -100 \in Int /\ -50 \in Int /\ 0 \in Int
    OBVIOUS
  <2>2. QED
    BY <2>1, Zenon DEF FreshnessWeight
<1>5. conflict \in Int
  OBVIOUS
<1>6. rank \in Int
  <2> HIDE DEF relationship, review, fresh, conflict, exact, lexical, trust
  <2>1. 30 * exact + 30 * lexical + 10 * relationship + 6 * review + 5 * trust
          + 4 * fresh - conflict \in Int
    BY <1>1, <1>2, <1>3, <1>4, <1>5
  <2>2. \A n \in Int : Unit(n) \in Int
    BY DEF Unit
  <2>3. QED
    BY <2>1, <2>2
    DEF RankResult, review, fresh, conflict, exact, lexical, trust
<1>7. updated \in Int
  <2>1. Len(d.revisions) \in Int /\ 0 \in Int /\ Number(x) \in Int
    BY DEF IsLibrary, Library
  <2>2. QED
    BY <2>1, Zenon DEF UpdatedAt
<1>8. KindRank(x) \in Int /\ Number(x) \in Int
  BY KindRankIs
<1> HIDE DEF rank, updated, exact
<1>9. SortKey(d, rel, x) = <<exact, rank, updated, KindRank(x), Number(x)>>
  BY DEF SortKey, rank, updated, exact, relationship
<1>10. QED
  BY <1>1, <1>6, <1>7, <1>8, <1>9

\* The results of a search are the records that are eligible, each once, the
\* better one before the other.
THEOREM ResultsRanked ==
  ASSUME NEW m, IsLibrary(m), NEW d, IsLibrary(d), NEW xs, NEW rel
  PROVE  LET all == Results(m, d, xs, rel)
             key(x) == SortKey(Seen(m, d, xs, x), rel, x)
         IN /\ all \in Seq(Records(d))
            /\ ToSet(all) = Eligible(m, d, xs, rel)
            /\ \A i, j \in 1..Len(all) :
                 i < j => all[i] # all[j] /\ Better(key(all[i]), key(all[j]))
<1> DEFINE E == Eligible(m, d, xs, rel)
           key(x) == SortKey(Seen(m, d, xs, x), rel, x)
           row(x) == [of |-> x, key |-> key(x)]
           keyed == {row(x) : x \in E}
<1>1. E \subseteq Records(d) /\ IsFiniteSet(E)
  <2>1. E \subseteq Records(d)
    BY DEF Eligible
  <2>2. QED
    BY <2>1, RecordsAre, FS_Subset
<1>2. \A x : IsLibrary(Seen(m, d, xs, x))
  BY DEF Seen
<1>3. \A x \in E : /\ key(x) \in [1..5 -> Int]
                   /\ key(x)[4] = KindRank(x) /\ key(x)[5] = Number(x)
  BY <1>1, <1>2, RecordsAre, SortKeyIs
<1>4. IsFiniteSet(keyed)
  <2> DEFINE f == [x \in E |-> row(x)]
  <2>1. f \in Surjection(E, keyed)
    BY DEF Surjection
  <2> HIDE DEF E, keyed, f
  <2>2. QED
    BY <2>1, <1>1, FS_Surjection
<1>5. ASSUME NEW x \in E, NEW y \in E, key(x) = key(y)
      PROVE  x = y
  <2>1. KindRank(x) = KindRank(y) /\ Number(x) = Number(y)
    BY <1>3, <1>5
  <2>2. Kind(x) = Kind(y)
    BY <2>1, <1>1, RecordsAre, KindRankIs
  <2>3. QED
    BY <2>1, <2>2, <1>1, RecordsAre
<1>6. \A r \in keyed : r.key \in [1..5 -> Int] /\ r.of \in Records(d)
  BY <1>1, <1>3
<1>7. \A r, q \in keyed : r.key = q.key => r = q
  BY <1>5
<1>8. Results(m, d, xs, rel) = InOrder(keyed)
  BY DEF Results, Ranked
<1>9. \A r \in keyed : r.of \in E /\ r.key = key(r.of)
  OBVIOUS
<1>15. \A x \in E : \E r \in keyed : r.of = x
  <2>1. \A x \in E : row(x) \in keyed /\ row(x).of = x
    OBVIOUS
  <2> HIDE DEF row, keyed
  <2>2. QED
    BY <2>1
<1> DEFINE all == InOrder(keyed)
<1> HIDE DEF keyed
<1>10. /\ all \in Seq(E)
       /\ \A r \in keyed : \E i \in 1..Len(all) : all[i] = r.of
       /\ \A i, j \in 1..Len(all) :
            i < j => \E r, q \in keyed : /\ all[i] = r.of /\ all[j] = q.of
                                       /\ Better(r.key, q.key)
  <2>1. /\ all \in Seq({r.of : r \in keyed})
        /\ \A r \in keyed : \E i \in 1..Len(all) : all[i] = r.of
        /\ \A i, j \in 1..Len(all) :
             i < j => \E r, q \in keyed : /\ all[i] = r.of /\ all[j] = q.of
                                        /\ Better(r.key, q.key)
    BY <1>4, <1>6, <1>7, InOrderLists
  <2> DEFINE T == {r.of : r \in keyed}
  <2>2. T \subseteq E
    BY <1>9
  <2>3. all \in Seq(T)
    BY <2>1
  <2> HIDE DEF all, E, T
  <2>4. all \in Seq(E)
    BY <2>2, <2>3
  <2>5. QED
    BY <2>1, <2>4
<1> HIDE DEF all, key, E
<1>11. all \in Seq(Records(d))
  BY <1>1, <1>10
<1>12. ToSet(all) = E
  <2>1. \A i \in 1..Len(all) : all[i] \in E
    BY <1>10
  <2>2. \A x \in E : \E i \in 1..Len(all) : all[i] = x
    BY <1>10, <1>15
  <2>3. DOMAIN all = 1..Len(all)
    BY <1>10
  <2>4. QED
    BY <2>1, <2>2, <2>3 DEF ToSet
<1>13. ASSUME NEW i \in 1..Len(all), NEW j \in 1..Len(all), i < j
       PROVE  all[i] # all[j] /\ Better(key(all[i]), key(all[j]))
  <2>1. all[i] \in E /\ all[j] \in E
    BY <1>10
  <2>2. Better(key(all[i]), key(all[j]))
    BY <1>9, <1>10, <1>13
  <2>3. key(all[i]) \in [1..5 -> Int] /\ ~ Better(key(all[i]), key(all[i]))
    BY <2>1, <1>3, BetterIsOrder
  <2>4. QED
    BY <2>2, <2>3
<1>14. QED
  BY <1>8, <1>11, <1>12, <1>13 DEF all, key, E

LEMMA ResultsAre ==
  ASSUME NEW m, IsLibrary(m), NEW d, IsLibrary(d), NEW xs, NEW rel
  PROVE  Results(m, d, xs, rel) \in Seq(Records(d))
BY ResultsRanked

LEMMA FoldEmpty ==
  ASSUME NEW s, DOMAIN s = {}
  PROVE  FoldLeft(+, 0, s) = 0
<1> DEFINE Step(f) == [t \in SUBSET (DOMAIN s) |->
                  IF t = {} THEN 0
                  ELSE LET x == Max(t) IN f[t \ {x}] + s[x]]
           fold == CHOOSE f : f = Step(f)
           g == [t \in SUBSET (DOMAIN s) |-> 0]
<1>1. FoldLeft(+, 0, s) = fold[DOMAIN s]
  BY Zenon DEF FoldLeft, MapThenFoldSet
<1>2. g = Step(g)
  BY Zenon
<1>3. fold = Step(fold)
  BY <1>2, Zenon
<1>4. QED
  BY <1>1, <1>3

LEMMA FoldOfOne ==
  ASSUME NEW s, DOMAIN s = {1}, s[1] \in Int
  PROVE  FoldLeft(+, 0, s) = s[1]
<1> DEFINE Step(f) == [t \in SUBSET (DOMAIN s) |->
                  IF t = {} THEN 0
                  ELSE LET x == Max(t) IN f[t \ {x}] + s[x]]
           fold == CHOOSE f : f = Step(f)
           g == [t \in SUBSET (DOMAIN s) |-> IF t = {} THEN 0 ELSE s[1]]
<1>1. FoldLeft(+, 0, s) = fold[DOMAIN s]
  BY Zenon DEF FoldLeft, MapThenFoldSet
<1>5. Max({1}) = 1
  BY DEF Max
<1>2. \E f : f = Step(f)
  <2>1. ASSUME NEW t \in SUBSET (DOMAIN s)
        PROVE  g[t] = Step(g)[t]
    <3>1. CASE t = {}
      BY <3>1
    <3>2. CASE t # {}
      <4>1. t = {1} /\ t \ {1} = {} /\ Max(t) = 1
        BY <3>2, <1>5
      <4>2. {} \in SUBSET (DOMAIN s)
        OBVIOUS
      <4>3. g[{}] = 0
        BY <4>2
      <4>4. Step(g)[t] = g[{}] + s[1]
        BY <4>1, <4>2, Zenon
      <4>5. g[t] = s[1]
        BY <4>1
      <4>6. QED
        BY <4>3, <4>4, <4>5
    <3>3. QED
      BY <3>1, <3>2
  <2>2. g = Step(g)
    BY <2>1
  <2>3. QED
    BY <2>2
<1>3. fold = Step(fold)
  BY <1>2, Zenon
<1>6. {} \in SUBSET (DOMAIN s) /\ {1} \in SUBSET (DOMAIN s) /\ {1} # {}
      /\ {1} \ {1} = {}
  OBVIOUS
<1> HIDE DEF fold
<1>7. fold[{}] = 0
  BY <1>3, <1>6
<1>8. fold[{1}] = fold[{}] + s[1]
  BY <1>3, <1>5, <1>6
<1>9. fold[DOMAIN s] = s[1]
  BY <1>7, <1>8
<1>4. QED
  BY <1>1, <1>9, Zenon

\* A page holds a hit when there is one.
LEMMA FittingIs ==
  ASSUME NEW d, IsLibrary(d), NEW results \in Seq(Records(d)),
         NEW from \in 0..Len(results), NEW limit \in Nat \ {0}
  PROVE  /\ Fitting(results, from, limit) \in 0..(Len(results) - from)
         /\ from < Len(results) => Fitting(results, from, limit) > 0
<1> DEFINE sizes(n) == [i \in 1..n |-> Size[Kind(results[from + i])]]
           total(n) == FoldLeft(+, 0, sizes(n))
           most == IF Len(results) - from < limit THEN Len(results) - from ELSE limit
           Fits_(n) == total(n) <= PageSize /\ (n < most => ~(total(n + 1) <= PageSize))
<1>1. most \in 0..(Len(results) - from) /\ (from < Len(results) => most > 0)
  OBVIOUS
<1>2. total(0) = 0
  <2>1. DOMAIN sizes(0) = {}
    OBVIOUS
  <2> HIDE DEF sizes
  <2>2. QED
    BY <2>1, FoldEmpty
<1>3. ASSUME from < Len(results)
      PROVE  total(1) <= PageSize
  <2>1. results[from + 1] \in Records(d)
    BY <1>3
  <2>2. Size[Kind(results[from + 1])] \in 0..PageSize
    BY <2>1, RecordsAre, ReadingAssumption
  <2>3. DOMAIN sizes(1) = {1} /\ sizes(1)[1] = Size[Kind(results[from + 1])]
    OBVIOUS
  <2>6. sizes(1)[1] \in Int /\ sizes(1)[1] <= PageSize
    BY <2>2, <2>3, ReadingAssumption
  <2> HIDE DEF sizes
  <2>4. total(1) = sizes(1)[1]
    BY <2>6, <2>3, FoldOfOne, Zenon
  <2> HIDE DEF total
  <2>5. QED
    BY <2>4, <2>6
<1>4. Fitting(results, from, limit) = CHOOSE n \in 0..most : Fits_(n)
  BY DEF Fitting
<1> HIDE DEF total, most
<1>5. \E n \in 0..most : Fits_(n)
  <2> DEFINE S == {n \in 0..most : total(n) <= PageSize}
  <2>1. S \in SUBSET (0..most) /\ S # {} /\ most \in Nat
    BY <1>1, <1>2, ReadingAssumption
  <2>2. Max(S) \in S /\ \A n \in S : n <= Max(S)
    BY <2>1, MaxMember
  <2> DEFINE n == Max(S)
  <2>3. n \in 0..most /\ total(n) <= PageSize
    BY <2>2
  <2>4. n < most => n + 1 \in 0..most
    BY <2>3, <1>1
  <2>5. n < most => n + 1 \notin S
    BY <2>2, <2>3
  <2> HIDE DEF n
  <2>6. Fits_(n)
    BY <2>3, <2>4, <2>5
  <2>7. QED
    BY <2>3, <2>6
<1>6. PICK n \in 0..most : n = Fitting(results, from, limit) /\ Fits_(n)
  BY <1>4, <1>5
<1>7. from < Len(results) => n # 0
  <2>1. SUFFICES ASSUME from < Len(results), n = 0
                 PROVE  FALSE
    OBVIOUS
  <2>2. 0 < most /\ 0 + 1 = 1
    BY <2>1, <1>1
  <2>3. ~(total(1) <= PageSize)
    BY <2>1, <2>2, <1>6
  <2>4. QED
    BY <2>1, <2>3, <1>3
<1>8. QED
  BY <1>1, <1>6, <1>7
-----------------------------------------------------------------------------
(* The pages *)

AllResults ==
  LET found == Lexical(indexed)
  IN Results(indexed, indexed, found, ExpandAnchors(lib, found))

Searching == {"page", "expand", "fetch"}
Phases == Searching \cup {"record", "bound", "done"} \cup Range(Parts)

TablesInv ==
  /\ reading \in Reading
  /\ IsLibrary(lib) /\ IsLibrary(indexed)
  /\ Len(indexed.spans) <= Len(lib.spans) /\ indexed.versions <= lib.versions
  /\ writes \in 0..MaxWrites
  /\ began \in 0..writes \cup {Nothing}
  /\ phase \in Phases

PagesInv ==
  /\ hits \in Seq(Records(lib))
  /\ offset \in 0..Len(hits)
  /\ phase \in Searching => offset = Len(hits) /\ reading.what = "search"
  /\ phase \in {"expand", "fetch"} => IsLibrary(match.docs)
  /\ Undisturbed =>
       /\ phase \in Searching =>
            offset <= Len(AllResults) /\ hits = SubSeq(AllResults, 1, offset)
       /\ phase \in {"expand", "fetch"} =>
            match = [docs |-> indexed, found |-> Lexical(indexed)]
       /\ phase = "fetch" => related = ExpandAnchors(lib, Lexical(indexed))
       /\ phase = "done" => hits = AllResults
  /\ phase \notin Searching \cup {"done"} => began = Nothing

LEMMA PartsAre ==
  /\ Range(Parts) = {"current_revision", "revision_history", "evidence",
                     "source_versions", "reports", "refresh", "reviews"}
  /\ Len(Parts) = 7 /\ Parts \in [1..7 -> Range(Parts)]
BY DEF Parts, Range

\* After a part comes one that is listed later and was asked for.
LEMMA ReadNextMoves ==
  ASSUME NEW i \in 0..7, NEW part,
         IF i = 0 THEN part = "record" ELSE part = Parts[i]
  PROVE  \/ Next_(part) = "bound"
         \/ \E j \in (i + 1)..7 : Next_(part) = Parts[j] /\ Included(Parts[j])
<1> DEFINE later == {j \in (i + 1)..7 : Included(Parts[j])}
<1>1. part # "record" => i # 0 /\ part = Parts[i]
  OBVIOUS
<1>2. part = "record" => i = 0
  BY DEF Parts
<1>3. \A j, k \in 1..7 : Parts[j] = Parts[k] => j = k
  BY DEF Parts
<1>4. i # 0 => (CHOOSE j \in 1..Len(Parts) : Parts[j] = part) = i
  BY <1>1, <1>3, PartsAre
<1>9. (IF part = "record" THEN 0
       ELSE CHOOSE j \in 1..Len(Parts) : Parts[j] = part) = i
  BY <1>1, <1>2, <1>4
<1>10. Len(Parts) = 7
  BY PartsAre
<1>5. Next_(part) = IF later = {} THEN "bound" ELSE Parts[Min(later)]
  <2> DEFINE here == IF part = "record" THEN 0
                     ELSE CHOOSE j \in 1..Len(Parts) : Parts[j] = part
             after == {j \in (here + 1)..Len(Parts) : Included(Parts[j])}
  <2>1. Next_(part) = IF after = {} THEN "bound" ELSE Parts[Min(after)]
    BY DEF Next_
  <2>2. here = i
    BY <1>9
  <2> HIDE DEF here
  <2>3. after = later
    BY <2>2, <1>10
  <2>4. QED
    BY <2>1, <2>3
<1>6. later \in SUBSET Nat
  OBVIOUS
<1>7. later # {} => Min(later) \in later
  <2> HIDE DEF later
  <2>1. QED
    BY <1>6, MinMember
<1>8. QED
  BY <1>5, <1>7

\* A search sees the same as long as the tables are the same.
LEMMA SameResults ==
  ASSUME UNCHANGED <<reading, lib, indexed>>
  PROVE  /\ Lexical(indexed)' = Lexical(indexed)
         /\ ExpandAnchors(lib, Lexical(indexed))' =
              ExpandAnchors(lib, Lexical(indexed))
         /\ AllResults' = AllResults
<1>1. ASSUME NEW l
      PROVE  InReach(l)' = InReach(l)
  BY DEF InReach, Accessible
<1>2. InReach(indexed)' = InReach(indexed)
  BY <1>1 DEF InReach, Accessible
<1>3. Lexical(indexed)' = Lexical(indexed)
  BY <1>2 DEF Lexical
<1>4. ExpandAnchors(lib, Lexical(indexed))' = ExpandAnchors(lib, Lexical(indexed))
  BY <1>3
<1>5. ASSUME NEW m, NEW d, NEW xs, NEW rel
      PROVE  Results(m, d, xs, rel)' = Results(m, d, xs, rel)
  <2>1. Candidates(InReach(d), xs, rel)' = Candidates(InReach(d), xs, rel)
    BY <1>1
  <2>2. \A x : Fits(Seen(m, d, xs, x), x)' <=> Fits(Seen(m, d, xs, x), x)
    BY DEF Fits, Among
  <2>3. Eligible(m, d, xs, rel)' = Eligible(m, d, xs, rel)
    BY <2>1, <2>2 DEF Eligible
  <2>4. QED
    BY <2>3 DEF Results
<1>6. QED
  BY <1>3, <1>4, <1>5 DEF AllResults

LEMMA GrownRecords ==
  ASSUME NEW k, IsLibrary(k), NEW l, IsLibrary(l),
         Len(k.spans) <= Len(l.spans), k.versions <= l.versions
  PROVE  Records(k) \subseteq Records(l)
BY DEF Records, Versions, Spans, IsLibrary, Library

LEMMA TablesStep ==
  ASSUME TablesInv, [ReadNext]_readVars
  PROVE  TablesInv'
<1> USE ReadingAssumption
<1>1. /\ "page" \in Phases /\ "expand" \in Phases /\ "fetch" \in Phases
      /\ "done" \in Phases
      /\ \A i \in 0..7 : \A part :
           (IF i = 0 THEN part = "record" ELSE part = Parts[i]) =>
             Next_(part) \in Phases
  <2>1. ASSUME NEW i \in 0..7, NEW part,
               IF i = 0 THEN part = "record" ELSE part = Parts[i]
        PROVE  Next_(part) \in Phases
    <3>1. \/ Next_(part) = "bound"
          \/ \E j \in (i + 1)..7 : Next_(part) = Parts[j]
      BY <2>1, ReadNextMoves
    <3>2. \A j \in (i + 1)..7 : Parts[j] \in Range(Parts)
      BY PartsAre
    <3>3. QED
      BY <3>1, <3>2 DEF Phases
  <2>2. QED
    BY <2>1 DEF Phases, Searching
<1>2. \A part \in Range(Parts) : \E i \in 1..7 : part = Parts[i]
  BY DEF Range, Parts
<1>3. ASSUME Others
      PROVE  TablesInv'
  <2>1. /\ IsLibrary(lib') /\ TablesGrown(lib, lib')
        /\ writes < MaxWrites /\ writes' = writes + 1
        /\ indexed' = indexed \/ indexed' = lib'
        /\ UNCHANGED <<reading, phase, searchVars, getVars>>
    BY <1>3, OthersGrow DEF TablesInv
  <2>2. writes' \in 0..MaxWrites /\ began' \in 0..writes' \cup {Nothing}
    BY <2>1 DEF TablesInv, searchVars
  <2>3. \A l : IsLibrary(l) => Len(l.spans) \in Nat /\ l.versions \in Nat
    BY DEF IsLibrary, Library
  <2>4. Len(indexed.spans)' <= Len(lib.spans)' /\ indexed.versions' <= lib.versions'
        /\ IsLibrary(indexed')
    <3>1. CASE indexed' = lib'
      BY <3>1, <2>1, <2>3
    <3>2. CASE indexed' = indexed
      BY <3>2, <2>1, <2>3 DEF TablesInv, TablesGrown
    <3>3. QED
      BY <3>1, <3>2, <2>1
  <2>5. QED
    BY <2>1, <2>2, <2>4 DEF TablesInv
<1>4. ASSUME UNCHANGED <<reading, lib, indexed, writes>>, phase' \in Phases,
             began' \in {began, writes}
      PROVE  TablesInv'
  BY <1>4 DEF TablesInv
<1>5. CASE Query
  BY <1>1, <1>4, <1>5 DEF Query
<1>6. CASE Relate
  BY <1>1, <1>4, <1>6 DEF Relate
<1>7. CASE Answer
  BY <1>1, <1>4, <1>7 DEF Answer
<1>8. CASE ReadRecord
  <2>1. Next_("record") \in Phases
    BY <1>1
  <2>2. QED
    BY <2>1, <1>1, <1>4, <1>8 DEF ReadRecord, searchVars
<1>9. CASE Bound
  BY <1>1, <1>4, <1>9 DEF Bound, searchVars
<1>10. ASSUME NEW part \in Range(Parts), ReadPart(part)
       PROVE  TablesInv'
  <2>1. Next_(part) \in Phases
    BY <1>1, <1>2
  <2>2. QED
    BY <2>1, <1>4, <1>10 DEF ReadPart, searchVars
<1>11. CASE UNCHANGED readVars
  BY <1>4, <1>11 DEF readVars, searchVars, TablesInv
<1>12. QED
  BY <1>3, <1>5, <1>6, <1>7, <1>8, <1>9, <1>10, <1>11 DEF ReadNext, Reads

\* What a step does that only reads, and does not search.
LEMMA PagesKept ==
  ASSUME TablesInv, PagesInv, UNCHANGED <<reading, lib, indexed, writes, searchVars>>,
         \/ phase' = phase
         \/ phase \notin Searching \cup {"done"} /\ phase' \notin Searching
  PROVE  PagesInv'
<1> USE DEF searchVars
<1>1. AllResults' = AllResults
      /\ Lexical(indexed)' = Lexical(indexed)
      /\ ExpandAnchors(lib, Lexical(indexed))' =
           ExpandAnchors(lib, Lexical(indexed))
  BY SameResults
<1>2. CASE phase' = phase
  BY <1>1, <1>2 DEF PagesInv, Undisturbed
<1>3. CASE phase \notin Searching \cup {"done"} /\ phase' \notin Searching
  <2>1. began = Nothing /\ ~ Undisturbed /\ ~ Undisturbed'
    BY <1>3, ReadingAssumption DEF PagesInv, TablesInv, Undisturbed
  <2>2. QED
    BY <1>3, <2>1 DEF PagesInv, Searching
<1>4. QED
  BY <1>2, <1>3

\* Two pages that follow each other are one.
LEMMA PagesJoin ==
  ASSUME NEW T, NEW all \in Seq(T), NEW n \in 0..Len(all),
         NEW k \in 0..(Len(all) - n)
  PROVE  /\ SubSeq(all, 1, n) \o SubSeq(all, n + 1, n + k) =
              SubSeq(all, 1, n + k)
         /\ SubSeq(all, 1, Len(all)) = all
<1>1. /\ SubSeq(all, 1, n) \in Seq(T) /\ Len(SubSeq(all, 1, n)) = n
      /\ SubSeq(all, n + 1, n + k) \in Seq(T)
      /\ Len(SubSeq(all, n + 1, n + k)) = k
      /\ SubSeq(all, 1, n + k) \in Seq(T) /\ Len(SubSeq(all, 1, n + k)) = n + k
  OBVIOUS
<1>2. \A i \in 1..(n + k) :
        (SubSeq(all, 1, n) \o SubSeq(all, n + 1, n + k))[i] =
          SubSeq(all, 1, n + k)[i]
  BY <1>1
<1>3. QED
  BY <1>1, <1>2

LEMMA QueryKeepsPages ==
  ASSUME TablesInv, PagesInv, Query
  PROVE  PagesInv'
<1>1. /\ phase = "page" /\ phase' = "expand" /\ reading.what = "search"
      /\ match' = [docs |-> indexed, found |-> Lexical(indexed)]
      /\ began' = IF offset = 0 THEN writes ELSE began
      /\ UNCHANGED <<reading, lib, indexed, writes, offset, related, hits>>
  BY DEF Query
<1>2. AllResults' = AllResults /\ Lexical(indexed)' = Lexical(indexed)
  BY <1>1, SameResults
<1>3. AllResults \in Seq(Records(indexed))
  BY ResultsAre DEF AllResults, TablesInv
<1>4. ASSUME offset = 0
      PROVE  offset <= Len(AllResults) /\ hits = SubSeq(AllResults, 1, offset)
  <2>1. hits = <<>>
    BY <1>1, <1>4 DEF PagesInv, Searching
  <2>2. SubSeq(AllResults, 1, 0) = <<>> /\ Len(AllResults) \in Nat
    BY <1>3
  <2>3. QED
    BY <2>1, <2>2, <1>4
<1>5. match'.docs = indexed /\ IsLibrary(match'.docs)
  BY <1>1 DEF TablesInv
<1>6. ASSUME Undisturbed'
      PROVE  offset <= Len(AllResults) /\ hits = SubSeq(AllResults, 1, offset)
  <2>1. CASE offset = 0
    BY <2>1, <1>4
  <2>2. CASE offset # 0
    BY <2>2, <1>1, <1>6 DEF PagesInv, Undisturbed, Searching
  <2>3. QED
    BY <2>1, <2>2
<1>7. QED
  BY <1>1, <1>2, <1>5, <1>6 DEF PagesInv, Searching

LEMMA RelateKeepsPages ==
  ASSUME TablesInv, PagesInv, Relate
  PROVE  PagesInv'
<1>1. /\ phase = "expand" /\ phase' = "fetch"
      /\ related' = ExpandAnchors(lib, match.found)
      /\ UNCHANGED <<reading, lib, indexed, writes, offset, match, hits, began>>
  BY DEF Relate
<1>2. AllResults' = AllResults /\ Lexical(indexed)' = Lexical(indexed)
      /\ ExpandAnchors(lib, Lexical(indexed))' =
           ExpandAnchors(lib, Lexical(indexed))
  BY <1>1, SameResults
<1>3. QED
  BY <1>1, <1>2 DEF PagesInv, Searching, Undisturbed

LEMMA AnswerKeepsPages ==
  ASSUME TablesInv, PagesInv, Answer
  PROVE  PagesInv'
<1> DEFINE results == Results(match.docs, indexed, match.found, related)
           from == IF offset < Len(results) THEN offset ELSE Len(results)
<1>1. PICK limit \in reading.limits :
        LET consumed == Fitting(results, from, limit)
            more == offset + consumed < Len(results) /\ consumed > 0
        IN
        /\ hits' = hits \o SubSeq(results, from + 1, from + consumed)
        /\ offset' = IF more THEN NextOffset(offset, consumed, limit) ELSE offset
        /\ phase' = IF more THEN "page" ELSE "done"
  BY DEF Answer
<1> DEFINE consumed == Fitting(results, from, limit)
           more == offset + consumed < Len(results) /\ consumed > 0
<1>2. /\ phase = "fetch" /\ reading.what = "search" /\ offset = Len(hits)
      /\ IsLibrary(match.docs)
      /\ UNCHANGED <<reading, lib, indexed, writes, began>>
  BY DEF Answer, PagesInv, Searching
<1>3. results \in Seq(Records(indexed)) /\ IsLibrary(indexed)
  BY <1>2, ResultsAre DEF TablesInv
<1>4. limit \in Nat \ {0}
  BY <1>2, ReadingAssumption DEF TablesInv
<1>5. from \in 0..Len(results) /\ offset \in Nat /\ Len(results) \in Nat
  BY <1>3 DEF PagesInv
<1> HIDE DEF results, from
<1>6. consumed \in 0..(Len(results) - from)
      /\ (from < Len(results) => consumed > 0)
  BY <1>3, <1>4, <1>5, FittingIs
<1> HIDE DEF consumed
<1> DEFINE page == SubSeq(results, from + 1, from + consumed)
<1>7. page \in Seq(Records(indexed)) /\ Len(page) = consumed
  BY <1>3, <1>5, <1>6
<1>8. Records(indexed) \subseteq Records(lib)
  BY GrownRecords DEF TablesInv
<1>9. hits' = hits \o page
  BY <1>1 DEF consumed
<1>10. offset' = (IF more THEN offset + consumed ELSE offset)
       /\ phase' = (IF more THEN "page" ELSE "done")
  BY <1>1 DEF consumed, NextOffset
<1> HIDE DEF page
<1>11. hits' \in Seq(Records(lib)) /\ Len(hits') = offset + consumed
  <2>1. hits \in Seq(Records(lib)) /\ page \in Seq(Records(lib))
    BY <1>7, <1>8 DEF PagesInv
  <2>2. QED
    BY <2>1, <1>2, <1>7, <1>9
<1>12. AllResults' = AllResults
  BY <1>2, SameResults
<1>13. ASSUME Undisturbed'
       PROVE  /\ more => /\ offset + consumed <= Len(AllResults)
                         /\ hits' = SubSeq(AllResults, 1, offset + consumed)
              /\ ~ more => hits' = AllResults
  <2>1. Undisturbed
    BY <1>2, <1>13 DEF Undisturbed
  <2>2. /\ match = [docs |-> indexed, found |-> Lexical(indexed)]
        /\ related = ExpandAnchors(lib, Lexical(indexed))
        /\ offset <= Len(AllResults) /\ hits = SubSeq(AllResults, 1, offset)
    BY <2>1, <1>2 DEF PagesInv, Searching
  <2>3. results = AllResults
    BY <2>2 DEF results, AllResults
  <2>4. from = offset
    BY <2>2, <2>3, <1>5 DEF from
  <2>5. hits' = SubSeq(results, 1, offset) \o
                  SubSeq(results, offset + 1, offset + consumed)
    BY <2>2, <2>3, <2>4, <1>9 DEF page
  <2>6. offset \in 0..Len(results) /\ consumed \in 0..(Len(results) - offset)
    BY <2>4, <1>5, <1>6
  <2>7. hits' = SubSeq(results, 1, offset + consumed)
        /\ SubSeq(results, 1, Len(results)) = results
    BY <2>5, <2>6, <1>3, PagesJoin
  <2>8. ~ more => offset + consumed = Len(results)
    BY <2>4, <2>6, <1>5, <1>6
  <2>9. ~ more => hits' = results
    BY <2>7, <2>8
  <2>10. more => offset + consumed <= Len(results)
    BY <1>5, <1>6, <2>6
  <2> HIDE DEF more
  <2>11. QED
    BY <2>3, <2>7, <2>9, <2>10
<1> HIDE DEF more
<1>14. phase' \in {"page", "done"} /\ (phase' = "page" <=> more)
  BY <1>10
<1>15. offset' \in 0..Len(hits')
  BY <1>5, <1>6, <1>10, <1>11
<1>16. phase' = "page" => offset' = Len(hits')
  BY <1>10, <1>11, <1>14
<1>17. Undisturbed' =>
         /\ phase' = "page" =>
              /\ offset' <= Len(AllResults')
              /\ hits' = SubSeq(AllResults', 1, offset')
         /\ phase' = "done" => hits' = AllResults'
  BY <1>10, <1>12, <1>13, <1>14
<1>18. QED
  BY <1>2, <1>11, <1>14, <1>15, <1>16, <1>17 DEF PagesInv, Searching

LEMMA OthersKeepPages ==
  ASSUME TablesInv, PagesInv, Others
  PROVE  PagesInv'
<1>1. /\ IsLibrary(lib) /\ IsLibrary(lib') /\ TablesGrown(lib, lib')
      /\ writes' = writes + 1
      /\ UNCHANGED <<reading, phase, searchVars>>
  BY OthersGrow DEF TablesInv
<1>2. Records(lib) \subseteq Records(lib')
  BY <1>1, GrownRecords DEF TablesGrown
<1>3. hits' \in Seq(Records(lib'))
  BY <1>1, <1>2 DEF PagesInv, searchVars
<1>4. ~ Undisturbed'
  BY <1>1, ReadingAssumption DEF Undisturbed, TablesInv, searchVars
<1>5. QED
  BY <1>1, <1>3, <1>4 DEF PagesInv, searchVars

LEMMA PagesStep ==
  ASSUME TablesInv, PagesInv, [ReadNext]_readVars
  PROVE  PagesInv'
<1>1. \A part \in {"record"} \cup Range(Parts) : Next_(part) \notin Searching
  <2>1. \A i \in 1..7 : Parts[i] \notin Searching
    BY DEF Parts, Searching
  <2>2. \A part \in Range(Parts) : \E i \in 1..7 : part = Parts[i]
    BY DEF Range, Parts
  <2>3. ASSUME NEW i \in 0..7, NEW part,
               IF i = 0 THEN part = "record" ELSE part = Parts[i]
        PROVE  Next_(part) \notin Searching
    <3>1. \/ Next_(part) = "bound"
          \/ \E j \in (i + 1)..7 : Next_(part) = Parts[j]
      BY <2>3, ReadNextMoves
    <3>2. QED
      BY <3>1, <2>1 DEF Searching
  <2>4. QED
    BY <2>2, <2>3
<1>2. CASE ReadRecord
  BY <1>1, <1>2, PagesKept DEF ReadRecord, Searching
<1>3. CASE Bound
  BY <1>3, PagesKept DEF Bound, Searching
<1>4. ASSUME NEW part \in Range(Parts), ReadPart(part)
      PROVE  PagesInv'
  <2>1. part \notin Searching \cup {"done"}
    BY PartsAre DEF Searching
  <2>2. QED
    BY <2>1, <1>1, <1>4, PagesKept DEF ReadPart
<1>5. CASE UNCHANGED readVars
  BY <1>5, PagesKept DEF readVars
<1>6. QED
  BY <1>2, <1>3, <1>4, <1>5, QueryKeepsPages, RelateKeepsPages,
     AnswerKeepsPages, OthersKeepPages DEF ReadNext, Reads

LEMMA ReadingBegins ==
  ASSUME ReadInit
  PROVE  TablesInv /\ PagesInv
<1>1. IsLibrary(First)
  BY FirstIsLibrary
<1>2. Len(First.spans) = 1 /\ First.versions = 1
  BY DEF First
<1>3. TablesInv
  BY <1>1, <1>2, ReadingAssumption DEF ReadInit, TablesInv, Phases, Searching
<1>4. ~ Undisturbed
  BY ReadingAssumption DEF ReadInit, Undisturbed
<1>5. PagesInv
  BY <1>4, ReadingAssumption DEF ReadInit, PagesInv, Searching
<1>6. QED
  BY <1>3, <1>5

-----------------------------------------------------------------------------
(* The parts of a record *)

HasPart(part) == part \in DOMAIN got
Stated == {"current_revision", "evidence", "source_versions"}

\* A state that is shown was decided.
DecidedIn(events, r) ==
  r.state # "unreviewed" =>
    \E i \in 1..Len(events) : events[i] = [on |-> r.id, to |-> r.state]

\* The parts are read in their order.
OrderInv ==
  /\ DOMAIN got \subseteq Range(Parts)
  /\ phase = "record" => \A i \in 1..7 : ~ HasPart(Parts[i])
  /\ \A i \in 1..7 : phase = Parts[i] => \A j \in i..7 : ~ HasPart(Parts[j])
  /\ \A part \in OfClaims : phase = part \/ HasPart(part) => reading.on = claim
  /\ phase # "done" => ~ truncated

\* What was read of the claim fits what the tables have grown to.
ClaimHeld ==
  HasPart("current_revision") =>
    \E n \in 1..Len(lib.revisions) :
      /\ IdsIn("current_revision") = {Revision(n)}
      /\ HasPart("revision_history") /\ NotFull("revision_history") =>
           Revision(n) \in IdsIn("revision_history")
      /\ HasPart("evidence") =>
           \E k \in n..Len(lib.revisions) :
             IdsIn("evidence") \subseteq lib.revisions[k].links
EvidenceHeld ==
  reading.on = claim /\ HasPart("evidence") =>
    /\ IsFiniteSet(IdsIn("evidence"))
    /\ Cardinality(IdsIn("evidence")) <= MaxListed
    /\ \A x \in IdsIn("evidence") : Number(x) \in 1..Len(lib.spans)
VersionsHeld ==
  reading.on = claim /\ HasPart("evidence") /\ HasPart("source_versions") =>
    \A x \in IdsIn("evidence") :
      \/ VersionOf(lib, x) \in IdsIn("source_versions")
      \/ ~reading.owner /\ IdsIn("source_versions") = {}
StatesHeld ==
  \A part \in Stated : HasPart(part) =>
    \A r \in got[part] : DecidedIn(lib.events, r)
ReviewsHeld ==
  HasPart("reviews") /\ NotFull("reviews") =>
    \A part \in Stated : HasPart(part) =>
      \A r \in got[part] :
        r.state # "unreviewed" =>
          \E x \in IdsIn("reviews") :
            /\ Number(x) \in 1..Len(lib.events)
            /\ lib.events[Number(x)] = [on |-> r.id, to |-> r.state]

PartsHeld ==
  ClaimHeld /\ EvidenceHeld /\ VersionsHeld /\ StatesHeld /\ ReviewsHeld
PartsInv == OrderInv /\ (~ truncated => PartsHeld)

\* A state of review is that of a decision.
LEMMA ReviewStateIs ==
  ASSUME NEW l, IsLibrary(l), NEW x
  PROVE  DecidedIn(l.events, [id |-> x, state |-> ReviewState(l, x)])
<1> DEFINE D == Decisions(l, x)
<1>1. SUFFICES ASSUME ReviewState(l, x) # "unreviewed"
               PROVE  \E i \in 1..Len(l.events) :
                        l.events[i] = [on |-> x, to |-> ReviewState(l, x)]
  BY DEF DecidedIn
<1>2. l.events \in Seq(EventRow) /\ Len(l.events) \in Nat
  BY DEF IsLibrary, Library
<1>3. D \in SUBSET (0..Len(l.events)) /\ D # {}
        /\ ReviewState(l, x) = l.events[Max(D)].to
  BY <1>1, <1>2 DEF ReviewState, Decided, Decisions
<1> HIDE DEF D
<1>4. Max(D) \in D
  BY <1>2, <1>3, MaxMember
<1>5. Max(D) \in 1..Len(l.events) /\ l.events[Max(D)].on = x
  BY <1>4 DEF D, Decisions
<1>6. l.events[Max(D)] \in EventRow
  BY <1>2, <1>5
<1>7. l.events[Max(D)] = [on |-> x, to |-> ReviewState(l, x)]
  BY <1>3, <1>5, <1>6 DEF EventRow
<1>8. QED
  BY <1>5, <1>7

LEMMA ShownIs ==
  ASSUME NEW l, IsLibrary(l), NEW xs
  PROVE  /\ {r.id : r \in Shown(l, xs)} = xs
         /\ \A r \in Shown(l, xs) : r.id \in xs /\ DecidedIn(l.events, r)
<1>1. \A x \in xs : [id |-> x, state |-> ReviewState(l, x)].id = x
  OBVIOUS
<1>2. {r.id : r \in Shown(l, xs)} = xs
  BY <1>1 DEF Shown
<1>3. QED
  BY <1>1, ReviewStateIs DEF Shown

\* What the tables have been given since does not disturb what was read.
LEMMA HeldIsKept ==
  ASSUME IsLibrary(lib), IsLibrary(lib'), TablesGrown(lib, lib'), PartsHeld,
         UNCHANGED <<reading, got>>
  PROVE  PartsHeld'
<1>1. /\ Len(lib.revisions) \in Nat /\ Len(lib'.revisions) \in Nat
      /\ Len(lib.revisions) <= Len(lib'.revisions)
      /\ \A n \in 1..Len(lib.revisions) :
           n \in 1..Len(lib'.revisions) /\ lib'.revisions[n] = lib.revisions[n]
  BY DEF IsLibrary, Library, TablesGrown, Prefix
<1>2. /\ Len(lib.events) \in Nat /\ Len(lib'.events) \in Nat
      /\ \A i \in 1..Len(lib.events) :
           i \in 1..Len(lib'.events) /\ lib'.events[i] = lib.events[i]
  BY DEF IsLibrary, Library, TablesGrown, Prefix
<1>3. /\ Len(lib.spans) \in Nat /\ Len(lib'.spans) \in Nat
      /\ \A i \in 1..Len(lib.spans) :
           i \in 1..Len(lib'.spans) /\ lib'.spans[i].version = lib.spans[i].version
  BY DEF IsLibrary, Library, TablesGrown
<1>4. \A part : IdsIn(part)' = IdsIn(part) /\ (NotFull(part)' <=> NotFull(part))
                /\ (HasPart(part)' <=> HasPart(part))
  BY DEF IdsIn, NotFull, HasPart
<1>5. ClaimHeld'
  <2>1. SUFFICES ASSUME HasPart("current_revision")
                 PROVE  ClaimHeld'
    BY <1>4 DEF ClaimHeld
  <2>2. PICK n \in 1..Len(lib.revisions) :
          /\ IdsIn("current_revision") = {Revision(n)}
          /\ HasPart("revision_history") /\ NotFull("revision_history") =>
               Revision(n) \in IdsIn("revision_history")
          /\ HasPart("evidence") =>
               \E k \in n..Len(lib.revisions) :
                 IdsIn("evidence") \subseteq lib.revisions[k].links
    BY <2>1 DEF PartsHeld, ClaimHeld
  <2>3. n \in 1..Len(lib'.revisions)
    BY <1>1
  <2>4. HasPart("evidence") =>
          \E k \in n..Len(lib'.revisions) :
            IdsIn("evidence") \subseteq lib'.revisions[k].links
    BY <2>2, <1>1
  <2>5. QED
    BY <2>2, <2>3, <2>4, <1>4 DEF ClaimHeld
<1>6. EvidenceHeld'
  BY <1>3, <1>4 DEF PartsHeld, EvidenceHeld
<1>7. VersionsHeld'
  <2>1. SUFFICES ASSUME reading.on = claim, HasPart("evidence"), HasPart("source_versions"),
                        NEW x \in IdsIn("evidence")
                 PROVE  \/ VersionOf(lib', x) \in IdsIn("source_versions")
                        \/ ~reading.owner /\ IdsIn("source_versions") = {}
    BY <1>4 DEF VersionsHeld
  <2>2. Number(x) \in 1..Len(lib.spans)
    BY <2>1 DEF PartsHeld, EvidenceHeld
  <2>3. VersionOf(lib', x) = VersionOf(lib, x)
    BY <2>2, <1>3 DEF VersionOf
  <2>4. QED
    BY <2>1, <2>3 DEF PartsHeld, VersionsHeld
<1>8. StatesHeld'
  BY <1>2, <1>4 DEF PartsHeld, StatesHeld, DecidedIn
<1>9. ReviewsHeld'
  BY <1>2, <1>4 DEF PartsHeld, ReviewsHeld
<1>10. QED
  BY <1>5, <1>6, <1>7, <1>8, <1>9 DEF PartsHeld

\* What reading a part changes.
LEMMA PartIsRead ==
  ASSUME NEW part, ReadPart(part)
  PROVE  /\ got'[part] = Listing(lib, part)
         /\ \A p : HasPart(p)' <=> HasPart(p) \/ p = part
         /\ \A p : p # part => IdsIn(p)' = IdsIn(p) /\ (NotFull(p)' <=> NotFull(p))
         /\ \A p : p # part /\ HasPart(p) => got'[p] = got[p]
         /\ IdsIn(part)' = {r.id : r \in Listing(lib, part)}
         /\ DOMAIN got' = DOMAIN got \cup {part}
         /\ phase = part /\ phase' = Next_(part)
         /\ UNCHANGED <<reading, lib, indexed, writes, searchVars, truncated>>
<1>1. /\ got' = [p \in DOMAIN got \cup {part} |->
                   IF p = part THEN Listing(lib, part) ELSE got[p]]
      /\ phase = part /\ phase' = Next_(part)
      /\ UNCHANGED <<reading, lib, indexed, writes, searchVars, truncated>>
  BY DEF ReadPart
<1>2. DOMAIN got' = DOMAIN got \cup {part} /\ got'[part] = Listing(lib, part)
      /\ \A p \in DOMAIN got : p # part => got'[p] = got[p]
  BY <1>1
<1>3. \A p : p # part => IdsIn(p)' = IdsIn(p)
  BY <1>2 DEF IdsIn
<1>4. \A p : p # part => (NotFull(p)' <=> NotFull(p))
  BY <1>3 DEF NotFull
<1>5. QED
  BY <1>1, <1>2, <1>3, <1>4 DEF HasPart, IdsIn

LEMMA OrderStep ==
  ASSUME TablesInv, OrderInv, [ReadNext]_readVars
  PROVE  OrderInv'
<1>1. /\ \A j, k \in 1..7 : Parts[j] = Parts[k] => j = k
      /\ \A i \in 1..7 : Parts[i] \notin Searching \cup {"record", "bound", "done"}
  BY DEF Parts, Searching
<1>2. ASSUME UNCHANGED <<reading, got, truncated>>, phase' \in Searching \cup {"done"},
             truncated => phase' = "done"
      PROVE  OrderInv'
  BY <1>1, <1>2 DEF OrderInv, HasPart, OfClaims, Searching
<1>3. ASSUME UNCHANGED <<reading, got, truncated, phase>>
      PROVE  OrderInv'
  BY <1>3 DEF OrderInv, HasPart
<1>4. CASE Query
  BY <1>2, <1>4 DEF Query, getVars, OrderInv, Searching
<1>5. CASE Relate
  BY <1>2, <1>5 DEF Relate, getVars, OrderInv, Searching
<1>6. CASE Answer
  <2>1. UNCHANGED <<reading, got, truncated>> /\ phase = "fetch"
        /\ phase' \in {"page", "done"}
    BY <1>6 DEF Answer, getVars
  <2>2. QED
    BY <2>1, <1>2 DEF OrderInv, Searching
<1>7. ASSUME NEW i \in 0..7, NEW part,
             IF i = 0 THEN part = "record" ELSE part = Parts[i],
             \A k \in (i + 1)..7 : ~ HasPart(Parts[k])',
             DOMAIN got' \subseteq Range(Parts), reading' = reading, ~ truncated',
             \A p \in OfClaims : HasPart(p)' => reading.on = claim,
             phase' = Next_(part)
      PROVE  OrderInv'
  <2>1. \/ phase' = "bound"
        \/ \E j \in (i + 1)..7 : phase' = Parts[j] /\ Included(Parts[j])
    BY <1>7, ReadNextMoves
  <2>2. CASE phase' = "bound"
    BY <2>2, <1>1, <1>7 DEF OrderInv, OfClaims
  <2>3. ASSUME NEW j \in (i + 1)..7, phase' = Parts[j], Included(Parts[j])
        PROVE  OrderInv'
    <3>1. j \in 1..7 /\ phase' # "record" /\ phase' # "done"
      BY <2>3, <1>1
    <3>2. ASSUME NEW k \in 1..7, phase' = Parts[k], NEW l \in k..7
          PROVE  ~ HasPart(Parts[l])'
      <4>1. k = j
        BY <2>3, <3>1, <3>2, <1>1
      <4>2. l \in (i + 1)..7
        BY <4>1, <3>2
      <4>3. QED
        BY <4>2, <1>7
    <3>3. phase' \in OfClaims => reading.on = claim
      BY <2>3 DEF Included
    <3>4. QED
      BY <1>7, <3>1, <3>2, <3>3 DEF OrderInv
  <2>4. QED
    BY <2>1, <2>2, <2>3
<1>8. CASE ReadRecord
  <2>1. /\ phase = "record" /\ UNCHANGED <<reading, got, truncated>>
        /\ phase' = Next_("record") \/ phase' = "done"
    BY <1>8 DEF ReadRecord, getVars
  <2>2. CASE phase' = "done"
    BY <2>1, <2>2, <1>2
  <2>3. CASE phase' = Next_("record")
    <3>1. \A k \in 1..7 : ~ HasPart(Parts[k])'
      BY <2>1 DEF OrderInv, HasPart
    <3>2. /\ DOMAIN got' \subseteq Range(Parts) /\ ~ truncated'
          /\ \A p \in OfClaims : HasPart(p)' => reading.on = claim
      BY <2>1 DEF OrderInv, HasPart
    <3>3. 0 \in 0..7 /\ \A k \in (0 + 1)..7 : ~ HasPart(Parts[k])'
      BY <3>1
    <3>4. QED
      BY <2>1, <2>3, <3>2, <3>3, <1>7
  <2>4. QED
    BY <2>1, <2>2, <2>3
<1>9. ASSUME NEW part \in Range(Parts), ReadPart(part)
      PROVE  OrderInv'
  <2>1. PICK i \in 1..7 : part = Parts[i]
    BY DEF Range, Parts
  <2>2. /\ \A p : HasPart(p)' <=> HasPart(p) \/ p = part
        /\ DOMAIN got' = DOMAIN got \cup {part}
        /\ phase = part /\ phase' = Next_(part)
        /\ UNCHANGED <<reading, truncated>>
    BY <1>9, PartIsRead
  <2>3. \A k \in (i + 1)..7 : ~ HasPart(Parts[k])'
    <3>1. TAKE k \in (i + 1)..7
    <3>2. k \in 1..7 /\ k \in i..7 /\ k # i
      OBVIOUS
    <3>3. ~ HasPart(Parts[k])
      BY <2>1, <2>2, <3>2 DEF OrderInv
    <3>4. Parts[k] # part
      BY <2>1, <3>2, <1>1
    <3>5. QED
      BY <2>2, <3>3, <3>4
  <2>4. DOMAIN got' \subseteq Range(Parts)
    BY <2>2, <1>9 DEF OrderInv
  <2>5. ~ truncated'
    BY <2>2, <2>1, <1>1 DEF OrderInv
  <2>6. \A p \in OfClaims : HasPart(p)' => reading.on = claim
    BY <2>2 DEF OrderInv
  <2>7. i \in 0..7 /\ i # 0
    OBVIOUS
  <2>8. QED
    BY <2>1, <2>2, <2>3, <2>4, <2>5, <2>6, <2>7, <1>7
<1>10. CASE Bound
  <2>1. /\ phase' = "done" /\ reading' = reading
        /\ DOMAIN got' \subseteq DOMAIN got
    <3>1. DOMAIN <<>> = {}
      OBVIOUS
    <3>2. QED
      BY <3>1, <1>10 DEF Bound
  <2>2. QED
    BY <2>1, <1>1 DEF OrderInv, HasPart, OfClaims
<1>11. CASE Others
  <2>1. UNCHANGED <<reading, got, truncated, phase>>
    BY <1>11, OthersGrow DEF TablesInv, getVars
  <2>2. QED
    BY <2>1, <1>3
<1>12. CASE UNCHANGED readVars
  BY <1>12, <1>3 DEF readVars, getVars
<1>13. QED
  BY <1>4, <1>5, <1>6, <1>8, <1>9, <1>10, <1>11, <1>12 DEF ReadNext, Reads

\* What each part lists.
LEMMA ListingIs ==
  /\ Listing(lib, "current_revision") = Shown(lib, {Current(lib)})
  /\ Listing(lib, "revision_history") =
       Shown(lib, FirstOf(Revisions(lib), MaxListed))
  /\ Listing(lib, "evidence") =
       Shown(lib, FirstOf({x \in EvidenceOf(lib) : Accessible(lib, x)}, MaxListed))
  /\ Listing(lib, "source_versions") =
       Shown(lib, FirstOf({x \in VersionsOf(lib) : Accessible(lib, x)}, MaxListed))
  /\ Listing(lib, "reviews") = Shown(lib, FirstOf(ReviewsOf(lib), MaxListed))
BY DEF Listing

LEMMA ListedAre ==
  ASSUME IsLibrary(lib)
  PROVE  /\ {r.id : r \in Listing(lib, "current_revision")} = {Current(lib)}
         /\ {r.id : r \in Listing(lib, "revision_history")} =
              FirstOf(Revisions(lib), MaxListed)
         /\ {r.id : r \in Listing(lib, "evidence")} =
              FirstOf({x \in EvidenceOf(lib) : Accessible(lib, x)}, MaxListed)
         /\ {r.id : r \in Listing(lib, "source_versions")} =
              FirstOf({x \in VersionsOf(lib) : Accessible(lib, x)}, MaxListed)
         /\ {r.id : r \in Listing(lib, "reviews")} =
              FirstOf(ReviewsOf(lib), MaxListed)
<1>1. \A xs : {r.id : r \in Shown(lib, xs)} = xs
  BY ShownIs
<1>2. QED
  BY <1>1, ListingIs

LEMMA HistoryNumbered ==
  ASSUME NEW l, IsLibrary(l)
  PROVE  Numbered(Revisions(l))
<1> DEFINE n == Len(l.revisions)
           f == [i \in 1..n |-> Revision(i)]
<1>1. n \in Nat
  BY DEF IsLibrary, Library
<1>2. IsFiniteSet({f[i] : i \in 1..n})
  <2> HIDE DEF n
  <2>1. QED
    BY <1>1, FiniteImage
<1>3. Revisions(l) = {f[i] : i \in 1..n}
  BY DEF Revisions
<1>4. \A x \in Revisions(l) : \E i \in Nat : x = Revision(i)
  BY <1>1 DEF Revisions
<1>5. IsFiniteSet(Revisions(l))
  BY <1>2, <1>3
<1>6. QED
  BY <1>4, <1>5 DEF Numbered, Revision, Number

LEMMA SpansNumbered ==
  ASSUME NEW l, IsLibrary(l), NEW xs, xs \subseteq Spans(l)
  PROVE  Numbered(xs)
<1>1. Spans(l) \subseteq Records(l)
  BY DEF Records
<1>2. IsFiniteSet(xs)
  BY <1>1, RecordsAre, FS_Subset
<1>3. \A x \in xs : \E i \in Nat : x = Evidence(i)
  BY DEF Spans, IsLibrary, Library
<1>4. QED
  BY <1>2, <1>3 DEF Numbered, Evidence, Number

LEMMA ReviewsNumbered ==
  ASSUME IsLibrary(lib)
  PROVE  Numbered(ReviewsOf(lib))
<1> DEFINE n == Len(lib.events)
           f == [i \in 1..n |-> <<"review", i>>]
<1>1. n \in Nat
  BY DEF IsLibrary, Library
<1>2. IsFiniteSet({f[i] : i \in 1..n})
  <2> HIDE DEF n
  <2>1. QED
    BY <1>1, FiniteImage
<1>3. ReviewsOf(lib) \subseteq {f[i] : i \in 1..n}
  BY DEF ReviewsOf
<1>4. IsFiniteSet(ReviewsOf(lib))
  BY <1>2, <1>3, FS_Subset
<1>5. \A x \in ReviewsOf(lib) : \E i \in Nat : x = <<"review", i>>
  BY <1>1 DEF ReviewsOf
<1>6. QED
  BY <1>4, <1>5 DEF Numbered, Number

LEMMA ClaimStays ==
  ASSUME TablesInv, OrderInv, PartsHeld, NEW i \in 1..7, ReadPart(Parts[i])
  PROVE  ClaimHeld'
<1> DEFINE part == Parts[i]
<1>1. /\ \A p : HasPart(p)' <=> HasPart(p) \/ p = part
      /\ \A p : p # part => IdsIn(p)' = IdsIn(p) /\ (NotFull(p)' <=> NotFull(p))
      /\ IdsIn(part)' = {r.id : r \in Listing(lib, part)}
      /\ phase = part /\ lib' = lib
  BY PartIsRead
<1>2. \A j \in i..7 : ~ HasPart(Parts[j])
  BY <1>1 DEF OrderInv
<1>3. IsLibrary(lib) /\ MaxListed \in Nat
  BY ReadingAssumption DEF TablesInv
<1>4. /\ Len(lib.revisions) \in 1..Len(lib.revisions)
      /\ Linked(lib) = lib.revisions[Len(lib.revisions)].links
      /\ Linked(lib) \subseteq Spans(lib)
  BY <1>3, LinkedEvidence DEF Linked, NewestRevision
<1>5. CASE part = "current_revision"
  <2>1. i = 1
    BY <1>5 DEF Parts
  <2>2. ~ HasPart("revision_history")' /\ ~ HasPart("evidence")'
    <3>1. ~ HasPart(Parts[2]) /\ ~ HasPart(Parts[3])
      BY <1>2, <2>1
    <3>2. Parts[2] = "revision_history" /\ Parts[3] = "evidence"
      BY DEF Parts
    <3>3. QED
      BY <1>1, <1>5, <3>1, <3>2
  <2>3. IdsIn("current_revision")' = {Current(lib)}
    BY <1>1, <1>3, <1>5, ListedAre
  <2>4. QED
    BY <1>1, <1>4, <2>2, <2>3 DEF ClaimHeld, Current
<1>6. CASE part # "current_revision"
  <2>1. SUFFICES ASSUME HasPart("current_revision")
                 PROVE  \E n \in 1..Len(lib.revisions) :
                          /\ IdsIn("current_revision") = {Revision(n)}
                          /\ HasPart("revision_history")'
                                /\ NotFull("revision_history")' =>
                               Revision(n) \in IdsIn("revision_history")'
                          /\ HasPart("evidence")' =>
                               \E k \in n..Len(lib.revisions) :
                                 IdsIn("evidence")' \subseteq
                                   lib.revisions[k].links
    BY <1>1, <1>6 DEF ClaimHeld
  <2>2. PICK n \in 1..Len(lib.revisions) :
          /\ IdsIn("current_revision") = {Revision(n)}
          /\ HasPart("revision_history") /\ NotFull("revision_history") =>
               Revision(n) \in IdsIn("revision_history")
          /\ HasPart("evidence") =>
               \E k \in n..Len(lib.revisions) :
                 IdsIn("evidence") \subseteq lib.revisions[k].links
    BY <2>1 DEF PartsHeld, ClaimHeld
  <2>3. ASSUME part = "revision_history", NotFull("revision_history")'
        PROVE  Revision(n) \in IdsIn("revision_history")'
    <3>1. IdsIn(part)' = FirstOf(Revisions(lib), MaxListed)
      BY <1>1, <1>3, <2>3, ListedAre
    <3>2. Numbered(Revisions(lib))
      BY <1>3, HistoryNumbered
    <3>3. Cardinality(IdsIn(part)') < MaxListed
      BY <2>3 DEF NotFull
    <3>4. IdsIn(part)' = Revisions(lib)
      BY <3>1, <3>2, <3>3, <1>3, FirstOfCut
    <3>5. QED
      BY <3>4, <2>3 DEF Revisions
  <2>4. ASSUME part = "evidence"
        PROVE  IdsIn("evidence")' \subseteq lib.revisions[Len(lib.revisions)].links
    <3>1. reading.on = claim
      BY <2>1 DEF OrderInv, OfClaims
    <3>2. EvidenceOf(lib) = Linked(lib)
      BY <3>1 DEF EvidenceOf, claim, Kind
    <3>3. IdsIn("evidence")' =
            FirstOf({x \in EvidenceOf(lib) : Accessible(lib, x)}, MaxListed)
      BY <1>1, <1>3, <2>4, ListedAre
    <3>4. QED
      BY <3>2, <3>3, <1>4 DEF FirstOf
  <2>5. Len(lib.revisions) \in n..Len(lib.revisions)
    BY <1>4
  <2>6. QED
    BY <1>1, <2>2, <2>3, <2>4, <2>5
<1>7. QED
  BY <1>5, <1>6

LEMMA EvidenceStays ==
  ASSUME TablesInv, OrderInv, PartsHeld, NEW i \in 1..7, ReadPart(Parts[i])
  PROVE  EvidenceHeld'
<1> DEFINE part == Parts[i]
<1>1. /\ \A p : HasPart(p)' <=> HasPart(p) \/ p = part
      /\ \A p : p # part => IdsIn(p)' = IdsIn(p)
      /\ IdsIn(part)' = {r.id : r \in Listing(lib, part)}
      /\ lib' = lib /\ reading' = reading
  BY PartIsRead
<1>2. CASE part # "evidence"
  BY <1>1, <1>2 DEF EvidenceHeld, PartsHeld
<1>3. ASSUME part = "evidence", reading.on = claim
      PROVE  EvidenceHeld'
  <2>1. IsLibrary(lib) /\ MaxListed \in Nat
    BY ReadingAssumption DEF TablesInv
  <2>2. EvidenceOf(lib) = Linked(lib)
    BY <1>3 DEF EvidenceOf, claim, Kind
  <2> DEFINE xs == {x \in Linked(lib) : Accessible(lib, x)}
  <2>3. IdsIn("evidence")' = FirstOf(xs, MaxListed)
    <3>1. {x \in EvidenceOf(lib) : Accessible(lib, x)} = xs
      BY <2>2
    <3>2. QED
      BY <3>1, <1>1, <1>3, <2>1, ListedAre
  <2>4. xs \subseteq Spans(lib) /\ \A x \in xs : Number(x) \in 1..Len(lib.spans)
    BY <2>1, LinkedEvidence
  <2>5. Numbered(xs)
    BY <2>1, <2>4, SpansNumbered
  <2>6. FirstOf(xs, MaxListed) \subseteq xs /\ IsFiniteSet(FirstOf(xs, MaxListed))
        /\ Cardinality(FirstOf(xs, MaxListed)) <= MaxListed
    BY <2>1, <2>5, FirstOfCut
  <2>7. QED
    BY <1>1, <2>3, <2>4, <2>6 DEF EvidenceHeld
<1>4. QED
  BY <1>1, <1>2, <1>3 DEF EvidenceHeld

LEMMA VersionsStay ==
  ASSUME TablesInv, OrderInv, PartsHeld, NEW i \in 1..7, ReadPart(Parts[i])
  PROVE  VersionsHeld'
<1> DEFINE part == Parts[i]
<1>1. /\ \A p : HasPart(p)' <=> HasPart(p) \/ p = part
      /\ \A p : p # part => IdsIn(p)' = IdsIn(p)
      /\ IdsIn(part)' = {r.id : r \in Listing(lib, part)}
      /\ phase = part /\ lib' = lib /\ reading' = reading
  BY PartIsRead
<1>2. CASE part \notin {"evidence", "source_versions"}
  BY <1>1, <1>2 DEF VersionsHeld, PartsHeld
<1>3. CASE part = "evidence"
  <2>1. i = 3
    BY <1>3 DEF Parts
  <2>2. ~ HasPart(Parts[4])
    BY <1>1, <2>1 DEF OrderInv
  <2>3. ~ HasPart("source_versions")'
    BY <2>2, <1>1, <1>3 DEF Parts
  <2>4. QED
    BY <2>3 DEF VersionsHeld
<1>4. ASSUME part = "source_versions", reading.on = claim, HasPart("evidence")
      PROVE  VersionsHeld'
  <2> DEFINE E == IdsIn("evidence")
             V == {VersionOf(lib, x) : x \in E}
             xs == {v \in V : Accessible(lib, v)}
  <2>1. IsLibrary(lib) /\ MaxListed \in Nat /\ reading \in Reading
    BY ReadingAssumption DEF TablesInv
  <2>2. IsFiniteSet(E) /\ Cardinality(E) <= MaxListed
        /\ \A x \in E : Number(x) \in 1..Len(lib.spans)
    BY <1>4 DEF PartsHeld, EvidenceHeld
  <2>3. VersionsOf(lib) = V
    BY <1>4 DEF VersionsOf, claim, Kind
  <2>4. IdsIn("source_versions")' = FirstOf(xs, MaxListed)
    <3>1. {v \in VersionsOf(lib) : Accessible(lib, v)} = xs
      BY <2>3
    <3>2. QED
      BY <3>1, <1>1, <1>4, <2>1, ListedAre
  <2>5. CASE reading.owner \/ lib.open
    <3>1. xs = V
      BY <2>5 DEF Accessible
    <3>2. IsFiniteSet(V) /\ Cardinality(V) <= Cardinality(E)
      <4> DEFINE f == [x \in E |-> VersionOf(lib, x)]
      <4>1. f \in Surjection(E, V)
        BY DEF Surjection
      <4> HIDE DEF E, V, f
      <4>2. QED
        BY <4>1, <2>2, FS_Surjection
    <3>3. \A v \in V : Number(v) \in Nat
      <4>1. \A x \in E : lib.spans[Number(x)] \in SpanRow
        BY <2>1, <2>2 DEF IsLibrary, Library
      <4>2. QED
        BY <4>1 DEF VersionOf, Version, Number, SpanRow
    <3>4. Cardinality(V) <= MaxListed
      BY <3>2, <2>1, <2>2, FS_CardinalityType
    <3>5. FirstOf(V, MaxListed) = V
      <4> HIDE DEF V
      <4>1. QED
        BY <3>2, <3>3, <3>4, <2>1, FirstOfWhole
    <3>6. QED
      BY <3>1, <3>5, <2>4, <1>1, <1>4 DEF VersionsHeld
  <2>6. CASE ~ (reading.owner \/ lib.open)
    <3>1. xs = {}
      BY <2>6 DEF Accessible, VersionOf, Version, Kind
    <3>2. IdsIn("source_versions")' = {}
      BY <3>1, <2>4 DEF FirstOf
    <3>3. QED
      BY <3>2, <2>6, <1>1 DEF VersionsHeld
  <2>7. QED
    BY <2>5, <2>6
<1>5. QED
  BY <1>1, <1>2, <1>3, <1>4 DEF VersionsHeld

LEMMA StatesStay ==
  ASSUME TablesInv, OrderInv, PartsHeld, NEW i \in 1..7, ReadPart(Parts[i])
  PROVE  StatesHeld'
<1> DEFINE part == Parts[i]
<1>1. /\ \A p : HasPart(p)' <=> HasPart(p) \/ p = part
      /\ \A p : p # part /\ HasPart(p) => got'[p] = got[p]
      /\ got'[part] = Listing(lib, part)
      /\ lib' = lib
  BY PartIsRead
<1>2. ASSUME part \in Stated, NEW r \in Listing(lib, part)
      PROVE  DecidedIn(lib.events, r)
  <2>1. IsLibrary(lib)
    BY DEF TablesInv
  <2>2. \E xs : Listing(lib, part) = Shown(lib, xs)
    BY <1>2, ListingIs DEF Stated
  <2>3. QED
    BY <1>2, <2>1, <2>2, ShownIs
<1>3. QED
  BY <1>1, <1>2 DEF StatesHeld, PartsHeld

LEMMA ReviewsStay ==
  ASSUME TablesInv, OrderInv, PartsHeld, NEW i \in 1..7, ReadPart(Parts[i])
  PROVE  ReviewsHeld'
<1> DEFINE part == Parts[i]
<1>1. /\ \A p : HasPart(p)' <=> HasPart(p) \/ p = part
      /\ \A p : p # part /\ HasPart(p) => got'[p] = got[p]
      /\ IdsIn(part)' = {r.id : r \in Listing(lib, part)}
      /\ phase = part /\ lib' = lib
  BY PartIsRead
<1>2. CASE part # "reviews"
  <2>1. ~ HasPart(Parts[7])
    BY <1>1 DEF OrderInv
  <2>2. ~ HasPart("reviews")'
    BY <2>1, <1>1, <1>2 DEF Parts
  <2>3. QED
    BY <2>2 DEF ReviewsHeld
<1>3. CASE part = "reviews"
  <2>1. SUFFICES ASSUME NotFull("reviews")', NEW p \in Stated, HasPart(p),
                        NEW r \in got[p], r.state # "unreviewed"
                 PROVE  \E x \in IdsIn("reviews")' :
                          /\ Number(x) \in 1..Len(lib.events)
                          /\ lib.events[Number(x)] = [on |-> r.id, to |-> r.state]
    <3>1. \A p \in Stated : p # part
      BY <1>3 DEF Stated
    <3>2. QED
      BY <3>1, <1>1 DEF ReviewsHeld
  <2>2. IsLibrary(lib) /\ MaxListed \in Nat
    BY ReadingAssumption DEF TablesInv
  <2>3. IdsIn(part)' = FirstOf(ReviewsOf(lib), MaxListed)
    BY <1>1, <1>3, <2>2, ListedAre
  <2>4. Cardinality(IdsIn(part)') < MaxListed
    BY <2>1, <1>3 DEF NotFull
  <2>5. IdsIn(part)' = ReviewsOf(lib)
    BY <2>2, <2>3, <2>4, ReviewsNumbered, FirstOfCut
  <2>6. PICK e \in 1..Len(lib.events) :
          lib.events[e] = [on |-> r.id, to |-> r.state]
    BY <2>1 DEF PartsHeld, StatesHeld, DecidedIn
  <2>7. r.id \in IdsIn(p) /\ lib.events[e].on = r.id
    BY <2>1, <2>6 DEF IdsIn, HasPart
  <2>8. <<"review", e>> \in ReviewsOf(lib)
    BY <2>1, <2>6, <2>7 DEF ReviewsOf, Stated
  <2>9. Number(<<"review", e>>) = e
    BY DEF Number
  <2>10. QED
    BY <2>5, <2>6, <2>8, <2>9, <1>3
<1>4. QED
  BY <1>2, <1>3

LEMMA PartsStep ==
  ASSUME TablesInv, PartsInv, [ReadNext]_readVars
  PROVE  PartsInv'
<1>1. OrderInv'
  BY OrderStep DEF PartsInv
<1>2. SUFFICES ASSUME ~ truncated'
               PROVE  PartsHeld'
  BY <1>1 DEF PartsInv
<1>3. IsLibrary(lib)
  BY DEF TablesInv
<1>4. ASSUME UNCHANGED <<reading, lib, got>>, ~ truncated
      PROVE  PartsHeld'
  <2>1. PartsHeld
    BY <1>4 DEF PartsInv
  <2>2. TablesGrown(lib, lib') /\ IsLibrary(lib')
    BY <1>3, <1>4 DEF TablesGrown, Prefix, IsLibrary, Library
  <2>3. QED
    BY <2>1, <2>2, <1>3, <1>4, HeldIsKept
<1>5. CASE Query \/ Relate \/ Answer \/ ReadRecord
  BY <1>2, <1>4, <1>5 DEF Query, Relate, Answer, ReadRecord, getVars
<1>6. CASE Bound
  <2>1. phase = "bound" /\ ~ (Excess > 0)
    BY <1>2, <1>6 DEF Bound
  <2>2. UNCHANGED <<reading, lib, got>>
    BY <2>1, <1>6 DEF Bound
  <2>3. ~ truncated
    BY <2>1 DEF PartsInv, OrderInv
  <2>4. QED
    BY <2>2, <2>3, <1>4
<1>7. ASSUME NEW part \in Range(Parts), ReadPart(part)
      PROVE  PartsHeld'
  <2>1. PICK i \in 1..7 : part = Parts[i]
    BY DEF Range, Parts
  <2>2. PartsHeld /\ OrderInv
    BY <1>2, <1>7, PartIsRead DEF PartsInv
  <2>3. QED
    BY <2>1, <2>2, <1>7, ClaimStays, EvidenceStays, VersionsStay, StatesStay,
       ReviewsStay DEF PartsHeld
<1>8. CASE Others
  <2>1. /\ IsLibrary(lib') /\ TablesGrown(lib, lib')
        /\ UNCHANGED <<reading, got, truncated>>
    BY <1>3, <1>8, OthersGrow DEF getVars
  <2>2. PartsHeld
    BY <2>1, <1>2 DEF PartsInv
  <2>3. QED
    BY <2>1, <2>2, <1>3, HeldIsKept
<1>9. CASE UNCHANGED readVars
  BY <1>2, <1>4, <1>9 DEF readVars, getVars
<1>10. QED
  BY <1>5, <1>6, <1>7, <1>8, <1>9 DEF ReadNext, Reads

ReadingInv == TablesInv /\ PagesInv /\ PartsInv

LEMMA ReadingInvHolds == ReadSpec => []ReadingInv
<1>1. ASSUME ReadInit
      PROVE  PartsInv
  <2>1. DOMAIN got = {} /\ ~ truncated /\ \A part : ~ HasPart(part)
    BY <1>1 DEF ReadInit, HasPart
  <2>2. \A i \in 1..7 : Parts[i] \notin {"page", "record"}
    BY DEF Parts
  <2>3. phase \in {"page", "record"}
    BY <1>1 DEF ReadInit
  <2>4. OrderInv
    BY <2>1, <2>2, <2>3 DEF OrderInv, OfClaims
  <2>5. PartsHeld
    BY <2>1 DEF PartsHeld, ClaimHeld, EvidenceHeld, VersionsHeld, StatesHeld,
      ReviewsHeld
  <2>6. QED
    BY <2>4, <2>5 DEF PartsInv
<1>2. ReadInit => ReadingInv
  BY <1>1, ReadingBegins DEF ReadingInv
<1>3. ReadingInv /\ [ReadNext]_readVars => ReadingInv'
  BY TablesStep, PagesStep, PartsStep DEF ReadingInv
<1>4. QED
  BY <1>2, <1>3, PTL DEF ReadSpec

\* A reader and the tables have the shape they should.
THEOREM ReadingTyped == ReadSpec => []ReadTypeOK
<1>1. ReadingInv => ReadTypeOK
  <2>1. SUFFICES ASSUME ReadingInv
                 PROVE  ReadTypeOK
    OBVIOUS
  <2>2. /\ reading \in Reading /\ writes \in 0..MaxWrites /\ phase \in Phases
        /\ DOMAIN got \subseteq Range(Parts) /\ offset \in 0..Len(hits)
        /\ hits \in Seq(Records(lib))
    BY <2>1 DEF ReadingInv, TablesInv, PagesInv, PartsInv, OrderInv
  <2>3. ToSet(hits) \subseteq Records(lib)
    BY <2>2 DEF ToSet
  <2>4. QED
    BY <2>2, <2>3 DEF ReadTypeOK, Phases, Searching
<1>2. QED
  BY <1>1, ReadingInvHolds, PTL

\* The pages of a search, read with any limits, hold every result once and in
\* order, unless somebody wrote since the first one began.
THEOREM SearchesComplete == ReadSpec => []PagesHoldEverything
<1>1. ReadingInv => PagesHoldEverything
  <2>1. SUFFICES ASSUME ReadingInv, Undisturbed, phase \in {"page", "done"}
                 PROVE  /\ hits = SubSeq(AllResults, 1, Len(hits))
                        /\ phase = "done" => hits = AllResults
    BY DEF PagesHoldEverything, AllResults
  <2>2. AllResults \in Seq(Records(indexed))
    BY <2>1, ResultsAre DEF AllResults, ReadingInv, TablesInv
  <2>3. CASE phase = "page"
    BY <2>1, <2>3 DEF ReadingInv, PagesInv, Searching
  <2>4. CASE phase = "done"
    BY <2>1, <2>2, <2>4 DEF ReadingInv, PagesInv
  <2>5. QED
    BY <2>1, <2>3, <2>4
<1>2. QED
  BY <1>1, ReadingInvHolds, PTL

\* The parts of a claim belong together, whatever others write between the
\* reads.
THEOREM PartsConsistent == ReadSpec => []PartsBelongTogether
<1>1. ReadingInv => PartsBelongTogether
  <2>1. SUFFICES ASSUME ReadingInv, ~ truncated, DOMAIN got = Range(Parts)
                 PROVE  PartsBelongTogether
    BY DEF PartsBelongTogether
  <2>2. PartsHeld /\ reading.on = claim /\ IsLibrary(lib)
        /\ \A part \in Range(Parts) : HasPart(part)
    <3>1. "current_revision" \in Range(Parts)
      BY PartsAre
    <3>2. QED
      BY <2>1, <3>1
      DEF ReadingInv, TablesInv, PartsInv, OrderInv, HasPart, OfClaims
  <2>3. /\ HasPart("current_revision") /\ HasPart("revision_history") /\ HasPart("evidence")
        /\ HasPart("source_versions") /\ HasPart("reviews")
    BY <2>2, PartsAre
  <2>4. PICK n \in 1..Len(lib.revisions) :
          /\ IdsIn("current_revision") = {Revision(n)}
          /\ NotFull("revision_history") =>
               Revision(n) \in IdsIn("revision_history")
          /\ \E k \in n..Len(lib.revisions) :
               IdsIn("evidence") \subseteq lib.revisions[k].links
    BY <2>2, <2>3 DEF PartsHeld, ClaimHeld
  <2> DEFINE current == CHOOSE x \in IdsIn("current_revision") : TRUE
  <2>5. current = Revision(n) /\ Number(current) = n
    BY <2>4 DEF Revision, Number
  <2>6. \A x \in IdsIn("evidence") :
          \/ VersionOf(lib, x) \in IdsIn("source_versions")
          \/ ~reading.owner /\ IdsIn("source_versions") = {}
    BY <2>2, <2>3 DEF PartsHeld, VersionsHeld
  <2>7. NotFull("reviews") =>
          \A part \in {"current_revision", "evidence", "source_versions"} :
            \A r \in got[part] :
              r.state # "unreviewed" =>
                \E x \in IdsIn("reviews") :
                  lib.events[Number(x)] = [on |-> r.id, to |-> r.state]
    BY <2>2, <2>3 DEF PartsHeld, ReviewsHeld, Stated
  <2> HIDE DEF current
  <2>8. /\ NotFull("revision_history") => current \in IdsIn("revision_history")
        /\ \E k \in Number(current)..Len(lib.revisions) :
             IdsIn("evidence") \subseteq lib.revisions[k].links
    BY <2>4, <2>5
  <2>9. QED
    BY <2>6, <2>7, <2>8 DEF PartsBelongTogether, current
<1>2. QED
  BY <1>1, ReadingInvHolds, PTL
================================================================================
