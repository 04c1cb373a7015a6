------------------------------- MODULE FrontEnds -------------------------------
(***************************************************************************)
(* What the front ends show of the records: the pages and the API of the   *)
(* v1 service (app.py), its retained tools (mcp_tools.py), and the search  *)
(* and lookup of v2 (mcp/read_runtime.py, mcp/deep_research.py, web_v2.py) *)
(* that read the search projection and the tables.                         *)
(*                                                                         *)
(* A reader has the administrator's token or not, and a key or not; NoAuth *)
(* as a key says that there is none.  A default key that a deployment may  *)
(* configure for its tools is left out: the tools then read with it.       *)
(***************************************************************************)
EXTENDS Records

CONSTANTS
  Reader,       \* [token, key]
  Admin         \* what the token stands for

ASSUME ReaderAssumption ==
  /\ Reader \subseteq [token : BOOLEAN, key : Auth \cup {NoAuth}]
  /\ Admin \in Auth /\ Admin.admin
  /\ NoAuth \notin Auth

---------------------------------------------------------------------------
(* Who a reader is to the pages and to the tools. *)

OptionalAuth(rd) == IF rd.token THEN Admin ELSE rd.key
ToolAuth(rd) ==
  IF rd.key # NoAuth THEN rd.key ELSE IF rd.token THEN Admin ELSE NoAuth

Granted(auth, scope) == auth # NoAuth /\ HasScope(auth, scope)

\* With what a v1 call reads.  NoAuth with private is a local caller, or the
\* administrator's pages.
Access(private, auth) ==
  [private |-> private, auth |-> auth, slug |-> None, indexOnly |-> FALSE]

CanAccess(i, a) ==
  IF Public(i)
    THEN /\ a.slug \in {None, records[i].ns}
         /\ a.indexOnly => records[i].index = "included"
         /\ Suppressed(i) => a.auth # NoAuth /\ a.auth.admin
    ELSE /\ a.private
         /\ \/ a.auth = NoAuth
            \/ a.auth.admin
            \/ HasScope(a.auth, "read_private") /\ records[i].ns = a.auth.ns

Visible(ids, a) == {i \in ids : CanAccess(i, a)}

---------------------------------------------------------------------------
(* The v1 pages. *)

OfQuestion(q, kinds) ==
  {i \in DOMAIN records : records[i].question = q /\ KindOfId(i) \in kinds}

NewestOfAll(q) == OfQuestion(q, {"session", "report"})

\* The latest session and report a question names, with their freshness.
Newest(q) ==
  LET children == OfQuestion(q, {"session", "report"}) IN
  IF Public(q) THEN {i \in children : Public(i) /\ ~Suppressed(i)}
               ELSE children

WithNewest(ids) == ids \cup UNION {Newest(q) : q \in ids \cap Ids("question")}

\* What the dashboards list, and what a search may match besides.
Listed == Ids("question") \cup Ids("claim") \cup Ids("report")
Matched == Ids("source") \cup Ids("excerpt")
Found == Listed \cup Matched

\* Both list, or search.
HomePage(rd) ==
  Visible(Found, [Access(FALSE, NoAuth) EXCEPT !.indexOnly = TRUE])
NamespacePage(rd) ==
  UNION {Visible(Found, [Access(FALSE, NoAuth) EXCEPT !.slug = ns]) :
          ns \in {records[i].ns : i \in DOMAIN records}}

PageAccess(rd) == Access(rd.token, NoAuth)

\* A page that needs a record which is not visible is not found.
Page(needed, more, rd) ==
  IF needed = Visible(needed, PageAccess(rd))
    THEN needed \cup Visible(more, PageAccess(rd)) ELSE {}

QuestionPage(q, rd) ==
  Page({q}, OfQuestion(q, {"claim", "report", "session"}), rd)
SourcePage(s, rd) ==
  Page({s}, {x \in Ids("excerpt") : records[x].source = s}, rd)
ExcerptPage(x, rd) == Page({x, records[x].source}, {}, rd)

\* The sources of the excerpts that are shown must be visible.
ClaimPage(c, rd) ==
  LET shown == Visible(records[c].links, PageAccess(rd)) IN
  Page({c, records[c].question} \cup {records[x].source : x \in shown},
       shown, rd)

\* The sources of all excerpts must.
ReportPage(r, rd) ==
  LET excerpts == UNION {records[c].links : c \in records[r].links} IN
  Page({r, records[r].question} \cup records[r].links
         \cup {records[x].source : x \in excerpts}, {}, rd)

RecordPages(rd) ==
  (UNION {QuestionPage(q, rd) : q \in Ids("question")})
    \cup (UNION {SourcePage(s, rd) : s \in Ids("source")})
    \cup (UNION {ExcerptPage(x, rd) : x \in Ids("excerpt")})
    \cup (UNION {ClaimPage(c, rd) : c \in Ids("claim")})
    \cup (UNION {ReportPage(r, rd) : r \in Ids("report")})

AdminDashboard(rd) ==
  IF rd.token THEN Visible(Found, Access(TRUE, Admin)) ELSE {}

---------------------------------------------------------------------------
(* The API and the retained tools. *)

\* A caller without a key reads no private record, whatever it asks for.
ApiRead(rd, private) ==
  LET auth == OptionalAuth(rd) IN
  Visible(DOMAIN records, Access(private /\ auth # NoAuth, auth))

ApiSearch(rd, private) ==
  LET auth == OptionalAuth(rd) IN
  Visible(Found, [Access(private /\ auth # NoAuth, auth) EXCEPT
                    !.indexOnly = auth = NoAuth /\ ~private])

\* A brief searches as the API does and then reads what it found.
Brief(rd, private) == ApiRead(rd, private) \cap Found

\* The tools refuse a private read without the scope.
ToolRead(rd, private) ==
  LET auth == ToolAuth(rd) IN
  IF private /\ ~Granted(auth, "read_private") THEN {}
  ELSE Visible(Found, [Access(private, auth) EXCEPT
                         !.indexOnly = auth = NoAuth /\ ~private])

V1Shows(rd) ==
  WithNewest(HomePage(rd) \cup NamespacePage(rd) \cup RecordPages(rd)
    \cup AdminDashboard(rd)
    \cup UNION {ApiRead(rd, p) \cup ApiSearch(rd, p) \cup Brief(rd, p)
                  \cup ToolRead(rd, p) : p \in BOOLEAN})

---------------------------------------------------------------------------
(* The v2 readers: one clause decides what a query returns. *)

Clause(view, auth, private) ==
  LET own == auth # NoAuth /\ view.ns = auth.ns IN
  \/ private /\ auth # NoAuth /\ auth.admin
  \/ private /\ own
  \/ view.visibility = "public" /\ (view.index = "included" \/ own)

\* What research_search returns of the projection.
Hits(auth, private) == {i \in DOMAIN docs : Clause(docs[i], auth, private)}

\* What research_get opens, and what is listed beside it: the evidence that the
\* record rests on or holds, the reports of a claim or a question, the claims
\* that rest on evidence.
Opens(mode, i) == Clause(View(records[Owner(i)]), mode[1], mode[2])

EvidenceFor(i) ==
  CASE KindOfId(i) = "claim" -> records[i].links
    [] KindOfId(i) = "report" -> UNION {records[c].links : c \in records[i].links}
    [] KindOfId(i) = "source" -> {x \in Ids("excerpt") : records[x].source = i}
    [] KindOfId(i) = "question" -> OfQuestion(i, {"excerpt"})
    [] OTHER -> {i}
EvidenceBeside(mode, i) == {x \in EvidenceFor(i) : Opens(mode, x)}

ReportsFor(i) ==
  CASE KindOfId(i) = "claim" -> {r \in Ids("report") : i \in records[r].links}
    [] KindOfId(i) = "question" -> OfQuestion(i, {"report"})
    [] OTHER -> {}
ReportsBeside(mode, i) == {r \in ReportsFor(i) : Opens(mode, r)}

ClaimsBeside(mode, x) ==
  {c \in Ids("claim") : x \in records[c].links /\ Opens(mode, c)}

\* A fetch for deep research lists what research_get does; a page a part of it.
Fetched(mode, i) == {i} \cup EvidenceBeside(mode, i) \cup ReportsBeside(mode, i)
V2Page(mode, i) ==
  CASE KindOfId(i) = "claim" -> Fetched(mode, i)
    [] KindOfId(i) = "excerpt" ->
         {i, records[i].source} \cup ClaimsBeside(mode, i)
    [] KindOfId(i) = "source" -> {i} \cup EvidenceBeside(mode, i)
    [] KindOfId(i) \in {"question", "report"} -> {}

Opened(mode) ==
  UNION {Fetched(mode, i) \cup V2Page(mode, i) :
          i \in {j \in Searchable(records) : Opens(mode, j)}}

\* The tools need the scope for private records; deep research asks for them
\* when the caller sent anything, and is refused without it; the pages read them
\* when the caller has it.
DeepModes(rd) ==
  LET auth == ToolAuth(rd)
      asks == rd.key # NoAuth \/ rd.token
  IN IF asks /\ ~Granted(auth, "read_private") THEN {} ELSE {<<auth, asks>>}
ToolModes(rd) ==
  LET auth == ToolAuth(rd) IN
  {<<auth, FALSE>>}
    \cup (IF Granted(auth, "read_private") THEN {<<auth, TRUE>>} ELSE {})
PageModes(rd) ==
  LET auth == OptionalAuth(rd) IN {<<auth, Granted(auth, "read_private")>>}
Modes(rd) == ToolModes(rd) \cup DeepModes(rd) \cup PageModes(rd)

\* The inbox of reviews and the queue of refreshes are the administrator's: any
\* record may need a review, and be enqueued, but a question.
AdminLists(rd) ==
  LET auth == OptionalAuth(rd) IN
  IF auth # NoAuth /\ auth.admin
    THEN {i \in Searchable(records) \ Ids("question") :
           Opens(<<auth, TRUE>>, i)}
    ELSE {}
InboxShows(rd) == AdminLists(rd)
QueueShows(rd) == AdminLists(rd)

V2Finds(rd) == UNION {Hits(m[1], m[2]) : m \in Modes(rd)}
V2Opens(rd) ==
  InboxShows(rd) \cup QueueShows(rd) \cup UNION {Opened(m) : m \in Modes(rd)}

---------------------------------------------------------------------------
(* Properties. *)

\* Who may see a record: everyone what is published and not suppressed, a key
\* what its namespace published and, with read_private, what it has; and the
\* administrator everything.
Allowed(rd, i) ==
  \/ Public(i) /\ ~Suppressed(i)
  \/ rd.token
  \/ /\ rd.key # NoAuth
     /\ \/ rd.key.admin
        \/ rd.key.ns = records[i].ns
           /\ (Public(i) \/ HasScope(rd.key, "read_private"))

\* No front end shows a reader a record it may not see, whatever was created,
\* published and suppressed in the meantime: the search of v2 alone reads a
\* projection, which may lag behind a record that was published or hidden since
\* its last rebuild.  Evidence is as visible as its source.
NothingPrivateShown ==
  \A rd \in Reader :
    /\ \A i \in V1Shows(rd) : Allowed(rd, i)
    /\ \A i \in V2Opens(rd) : Allowed(rd, Owner(i))
    /\ \A i \in V2Finds(rd) : Allowed(rd, Owner(i)) \/ Owner(i) \in changed

Anonymous == [token |-> FALSE, key |-> NoAuth]

\* A report that was published with all it is linked to opens for everyone,
\* until one of these records is suppressed.
PublishedOpens ==
  \A r \in whole :
    \/ r \in ReportPage(r, Anonymous)
    \/ \E i \in Graph(r) : Suppressed(i)

\* Nothing a v2 deposit or review wrote is public, unless the call came between
\* the checks of a publication and its updates.
NativeStaysPrivate ==
  \A i \in native \cup revised : Public(i) => i \in overtaken
================================================================================
