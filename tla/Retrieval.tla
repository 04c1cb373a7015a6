------------------------------- MODULE Retrieval -------------------------------
(***************************************************************************)
(* Reading with v2 while others write: a search that is read in pages      *)
(* (application/search.py), and a record that is read with what hangs on    *)
(* it (application/fetch.py) for the tools and the pages (web_v2.py).      *)
(*                                                                         *)
(* Neither is one transaction.  A page of a search matches the projection, *)
(* follows links in the tables and fetches what it found from the          *)
(* projection again; a get reads the record and then each part, every one  *)
(* over a connection of its own.                                           *)
(*                                                                         *)
(* The library is one claim of a report on a question, its revisions, and  *)
(* the evidence that versions of one source hold.                          *)
(***************************************************************************)
EXTENDS Integers, Sequences, FiniteSets, SequencesExt

CONSTANTS
  Reading,         \* what a reader may ask for
  Matching,        \* how well records of a kind match: exact, lexical (0..100)
  Trust,           \* what the trust in records of a kind counts (-50..100)
  Size,            \* how much of a page a hit of a kind takes
  PageSize,        \* MAX_SEARCH_RESPONSE_BYTES
  PartSize,        \* MAX_GET_RESPONSE_BYTES, in listed items
  MaxCandidates,   \* _MAX_TOTAL_CANDIDATES
  MaxAnchors,      \* max_anchors of expand_relationships
  MaxRelated,      \* its max_related
  MaxListed,       \* the limit of each list of a get
  MaxWrites,       \* how much others write (a bound)
  Nothing          \* a value that is not there yet

RecordKinds ==
  {"question", "source", "source_version", "evidence", "report", "claim"}

\* A page has room for a hit: its title and summary are cut, its query is short.
\* A search asks for one hit or more.
ASSUME ReadingAssumption ==
  /\ \A r \in Reading :
       /\ r.what \in {"search", "get"}
       /\ r.owner \in BOOLEAN
       /\ r.what = "search" => r.limits \subseteq Nat \ {0}
  /\ \A k \in RecordKinds :
       /\ Matching[k].exact \in Int /\ Matching[k].lexical \in Int
       /\ Trust[k] \in Int
       /\ Size[k] \in 0..PageSize
  /\ PageSize \in Nat /\ MaxListed \in Nat /\ MaxWrites \in Nat
  /\ Nothing \notin Nat

VARIABLES
  reading,         \* what the reader asked for
  lib,             \* the tables
  indexed,         \* the tables as the search projection has them
  writes,          \* how often they were written
  phase,           \* where the reader is
  offset,          \* what its cursor says
  match, related,  \* what the page being made has matched, and related to that
  hits,            \* the hits of all pages
  began,           \* how often the tables were written before the first page
  got,             \* the parts of a get
  truncated        \* whether some were left out

searchVars == <<offset, match, related, hits, began>>
getVars == <<got, truncated>>
readVars == <<reading, lib, indexed, writes, phase, searchVars, getVars>>

claim == <<"claim", 1>>
report == <<"report", 1>>
question == <<"question", 1>>
source == <<"source", 1>>
Revision(n) == <<"revision", n>>
Version(v) == <<"source_version", v>>
Evidence(e) == <<"evidence", e>>
Kind(x) == x[1]
Number(x) == x[2]

---------------------------------------------------------------------------
(* The tables: the revisions of the claim, the last one current, each with *)
(* its status and the evidence it links; the version each evidence is from  *)
(* and whether it is stale; the refresh queue; the decisions of reviewers.   *)

Versions(l) == {Version(v) : v \in 1..l.versions}
Spans(l) == {Evidence(e) : e \in 1..Len(l.spans)}
Revisions(l) == {Revision(n) : n \in 1..Len(l.revisions)}
VersionOf(l, x) == Version(l.spans[Number(x)].version)
Current(l) == Revision(Len(l.revisions))
NewestRevision(l) == l.revisions[Len(l.revisions)]
Linked(l) == NewestRevision(l).links

\* Evidence and versions are as visible as their source, which its publisher
\* may hide from readers who do not own it.
Records(l) == {claim, report, question, source} \cup Versions(l) \cup Spans(l)
Accessible(l, x) ==
  \/ reading.owner \/ l.open
  \/ Kind(x) \notin {"source", "source_version", "evidence"}
InReach(l) == {x \in Records(l) : Accessible(l, x)}

\* The latest decision of a reviewer.
Decisions(l, x) == {i \in 1..Len(l.events) : l.events[i].on = x}
Decided(l, x) == l.events[Max(Decisions(l, x))].to
ReviewState(l, x) ==
  IF Decisions(l, x) = {} THEN "unreviewed" ELSE Decided(l, x)

\* Evidence is in conflict when it was contested, a claim when its revision says
\* so.
Conflicted(l, x) ==
  IF Kind(x) = "revision" THEN l.revisions[Number(x)].status = "contested"
                          ELSE ReviewState(l, x) = "flagged"

\* A claim is stale with evidence that is, or that could not be refreshed, and
\* needs a refresh while one is queued.
QueuedFor(l, status) ==
  {l.queue[i].on : i \in {j \in 1..Len(l.queue) : l.queue[j].status = status}}
EvidenceFreshness(l, x) == IF l.spans[Number(x)].stale THEN "stale" ELSE "fresh"
ClaimFreshness(l) ==
  LET dependsOn == {claim} \cup Linked(l) IN
  IF \/ \E x \in Linked(l) : l.spans[Number(x)].stale
     \/ QueuedFor(l, "failed") \cap dependsOn # {}
    THEN "stale"
  ELSE IF QueuedFor(l, "pending") \cap dependsOn # {} THEN "needs_refresh"
  ELSE "unknown"

\* What a record is searched, filtered and ranked by.
Subject(l, x) == IF x = claim THEN Current(l) ELSE x
Freshness(l, x) ==
  CASE Kind(x) = "claim" -> ClaimFreshness(l)
    [] Kind(x) = "evidence" -> EvidenceFreshness(l, x)
    [] OTHER -> "unknown"
UpdatedAt(l, x) ==
  CASE Kind(x) = "claim" -> Len(l.revisions)
    [] Kind(x) \in {"source_version", "evidence"} -> Number(x)
    [] OTHER -> 0

---------------------------------------------------------------------------
(* What the others write: a transaction each, that rebuilds the projection  *)
(* or does not.                                                            *)

Write(l, rebuilt) ==
  /\ writes < MaxWrites
  /\ writes' = writes + 1
  /\ lib' = l
  /\ indexed' = IF rebuilt THEN l ELSE indexed
  /\ UNCHANGED <<reading, phase, searchVars, getVars>>

\* A deposit anchors evidence, in a new version of the source or one there is,
\* and revises the claim.
DepositEvidence ==
  \E v \in {lib.versions, lib.versions + 1} :
    LET x == Evidence(Len(lib.spans) + 1) IN
    Write([lib EXCEPT
             !.versions = v,
             !.spans = Append(@, [version |-> v, stale |-> FALSE]),
             !.revisions = Append(@, [status |-> "draft", links |-> {x}])],
          TRUE)

Decide(l, x, state) ==
  [l EXCEPT !.events = Append(@, [on |-> x, to |-> state])]
Approve ==
  \E x \in {Current(lib)} \cup Linked(lib) :
    Write(Decide(lib, x, "reviewed"), TRUE)
ContestEvidence == \E x \in Linked(lib) : Write(Decide(lib, x, "flagged"), TRUE)

\* A claim that is contested or rejected gets a revision that says so.
Oppose ==
  \E status \in {"contested", "rejected"} :
    LET revised == [lib EXCEPT
          !.revisions = Append(@, [status |-> status, links |-> Linked(lib)])]
    IN Write(Decide(revised, Current(revised), "flagged"), TRUE)

PlanRefresh ==
  \E x \in {claim} \cup Linked(lib) :
    Write([lib EXCEPT !.queue = Append(@, [on |-> x, status |-> "pending"])],
          TRUE)

\* A capture stores a version and finds, in another transaction, that a
\* quotation is gone from it.
CaptureVersion == Write([lib EXCEPT !.versions = @ + 1], TRUE)
MarkStale ==
  \E x \in Linked(lib) :
    Write([lib EXCEPT !.spans[Number(x)].stale = TRUE], FALSE)

Conceal == Write([lib EXCEPT !.open = ~@], FALSE)

Others ==
  \/ DepositEvidence \/ Approve \/ ContestEvidence \/ Oppose \/ PlanRefresh
  \/ CaptureVersion \/ MarkStale \/ Conceal

---------------------------------------------------------------------------
(* A search. *)

\* The better of two records: by how they match, then by when they were
\* updated, and by their identifiers in the end, which begin with the kind.
KindOrder == <<"question", "source", "source_version", "evidence", "report",
               "claim">>
KindRank(x) == CHOOSE i \in 1..6 : KindOrder[i] = Kind(x)
Better(a, b) ==
  \E i \in 1..Len(a) : a[i] > b[i] /\ \A j \in 1..(i - 1) : a[j] = b[j]
InOrder(keyed) ==
  LET place == [r \in keyed |->
                 Cardinality({q \in keyed : Better(q.key, r.key)}) + 1]
  IN [i \in 1..Cardinality(keyed) |-> (CHOOSE r \in keyed : place[r] = i).of]

Upto(xs, n) == SubSeq(xs, 1, IF Len(xs) < n THEN Len(xs) ELSE n)

\* search of the lexical adapter: exact and full-text matches, best first.
Lexical(l) ==
  LET found == {x \in InReach(l) :
                 Matching[Kind(x)].exact + Matching[Kind(x)].lexical > 0}
      sorted == InOrder({[of |-> x, key |->
        <<Matching[Kind(x)].exact, Matching[Kind(x)].lexical, UpdatedAt(l, x),
          KindRank(x), Number(x)>>] : x \in found})
  IN Upto(sorted, MaxCandidates)

Scored(xs, score) == [i \in 1..Len(xs) |-> [of |-> xs[i], score |-> score]]
Sorted(xs, score) ==
  Scored(InOrder({[of |-> x, key |-> <<-KindRank(x), -Number(x)>>] : x \in xs}), score)

\* The rows an anchor is related to, statement by statement.  The order that a
\* statement leaves open is taken as that of the identifiers.
FromClaim(l) ==
  Sorted(Linked(l), 80) \o Scored(<<report>>, 80)
    \o Sorted({VersionOf(l, x) : x \in Linked(l)}, 55) \o Scored(<<source>>, 55)
FromReport(l) == Scored(<<claim>>, 80)
FromEvidence(l, x) ==
  (IF x \in Linked(l) THEN Scored(<<claim>>, 80) ELSE <<>>)
    \o Scored(<<VersionOf(l, x), source>>, 70)
FromSource(l) == Sorted(Versions(l), 75) \o Sorted(Spans(l), 65)
FromVersion(l, x) ==
  Scored(<<source>>, 75)
    \o Sorted({y \in Spans(l) : VersionOf(l, y) = x}, 75)
    \o Scored(InOrder({[of |-> y, key |-> <<Number(y)>>] :
                         y \in Versions(l) \ {x}}), 60)
FromQuestion(l) == Scored(<<claim, report>>, 70) \o Sorted(Spans(l), 70)

Rows(l, x) ==
  CASE Kind(x) = "claim" -> FromClaim(l)
    [] Kind(x) = "report" -> FromReport(l)
    [] Kind(x) = "evidence" -> FromEvidence(l, x)
    [] Kind(x) = "source" -> FromSource(l)
    [] Kind(x) = "source_version" -> FromVersion(l, x)
    [] Kind(x) = "question" -> FromQuestion(l)

\* One more row: a record counts with its best score.
AddRow(found, row) ==
  LET at == {i \in DOMAIN found : found[i].of = row.of} IN
  IF \E i \in at : found[i].score < row.score
    THEN [found EXCEPT ![Max(at)] = row]
  ELSE IF at = {} /\ Len(found) < MaxRelated THEN Append(found, row) ELSE found

Strong(xs) ==
  Upto(SelectSeq(xs, LAMBDA x : \/ Matching[Kind(x)].exact >= 80
                                \/ Matching[Kind(x)].lexical >= 45),
       MaxAnchors)

\* expand_relationships: what the best matches are related to but themselves.
ExpandAnchors(l, xs) ==
  LET strong == Strong(xs)
      one(found, x) == IF Len(found) < MaxRelated
                         THEN FoldLeft(AddRow, found, Rows(l, x)) ELSE found
  IN SelectSeq(FoldLeft(one, <<>>, strong),
               LAMBDA row : \A i \in 1..Len(strong) : strong[i] # row.of)

\* The related records that the projection lets the reader have (reach), and that
\* it did not match already, come after those it matched.
Candidates(reach, xs, rel) ==
  LET more == SelectSeq(rel, LAMBDA row :
                row.of \in reach /\ \A i \in 1..Len(xs) : xs[i] # row.of)
  IN Upto(xs \o [i \in 1..Len(more) |-> more[i].of], MaxCandidates)

Among(allowed, value) == allowed = {} \/ value \in allowed
Fits(d, x) ==
  /\ Among(reading.kinds, Kind(x))
  /\ x = claim /\ NewestRevision(d).status = "rejected" => reading.rejected
  /\ Among(reading.review, ReviewState(d, Subject(d, x)))
  /\ Among(reading.freshness, Freshness(d, x))

\* rank_result, in ten-thousandths.
Unit(n) == IF n < 0 THEN 0 ELSE IF n > 10000 THEN 10000 ELSE n
ReviewWeight(d, x) ==
  LET state == ReviewState(d, Subject(d, x)) IN
  CASE x = claim /\ NewestRevision(d).status = "rejected" -> -100
    [] state = "reviewed" -> 100 [] state = "flagged" -> -50 [] OTHER -> 0
FreshnessWeight(state) ==
  CASE state = "fresh" -> 100 [] state = "needs_refresh" -> -50
    [] state = "stale" -> -100 [] OTHER -> 0
RankResult(d, x, relationship) ==
  Unit(30 * Matching[Kind(x)].exact + 30 * Matching[Kind(x)].lexical
         + 10 * relationship + 6 * ReviewWeight(d, x)
         + 5 * Trust[Kind(x)] + 4 * FreshnessWeight(Freshness(d, x))
         - (IF Conflicted(d, Subject(d, x)) THEN 200 ELSE 0))

\* Matches come as the first query saw them (m), what is related to them as the
\* last one did (d).
Seen(m, d, xs, x) == IF \E i \in 1..Len(xs) : xs[i] = x THEN m ELSE d
Eligible(m, d, xs, rel) ==
  {x \in Records(d) \cap ToSet(Candidates(InReach(d), xs, rel)) :
     Fits(Seen(m, d, xs, x), x)}

\* All results, best first.
Relationship(rel, x) ==
  Max({0} \cup {n \in 0..100 : [of |-> x, score |-> n] \in ToSet(rel)})
SortKey(d, rel, x) ==
  <<Matching[Kind(x)].exact, RankResult(d, x, Relationship(rel, x)),
    UpdatedAt(d, x), KindRank(x), Number(x)>>
Ranked(m, d, xs, rel, eligible) ==
  InOrder({[of |-> x, key |-> SortKey(Seen(m, d, xs, x), rel, x)] :
             x \in eligible})
Results(m, d, xs, rel) == Ranked(m, d, xs, rel, Eligible(m, d, xs, rel))

\* As many hits as were asked for, or as fit into a page.
Fitting(results, from, limit) ==
  LET total(n) == FoldLeft(+, 0, [i \in 1..n |-> Size[Kind(results[from + i])]])
      most == IF Len(results) - from < limit THEN Len(results) - from ELSE limit
  IN CHOOSE n \in 0..most :
       /\ total(n) <= PageSize
       /\ n < most => ~(total(n + 1) <= PageSize)

\* Variant: the next page begins where this one could have ended.
NextByLimit(from, consumed, limit) == from + limit

NextOffset(from, consumed, limit) == from + consumed

\* The first query of a page; a page that goes on from a cursor starts anew.
Query ==
  /\ reading.what = "search"
  /\ phase = "page"
  /\ match' = [docs |-> indexed, found |-> Lexical(indexed)]
  /\ began' = IF offset = 0 THEN writes ELSE began
  /\ phase' = "expand"
  /\ UNCHANGED <<reading, lib, indexed, writes, offset, related, hits, getVars>>

Relate ==
  /\ phase = "expand"
  /\ related' = ExpandAnchors(lib, match.found)
  /\ phase' = "fetch"
  /\ UNCHANGED <<reading, lib, indexed, writes, offset, match, hits, began,
                 getVars>>

\* The hits of the page, and a cursor when there are more.
Answer ==
  LET results == Results(match.docs, indexed, match.found, related)
      from == IF offset < Len(results) THEN offset ELSE Len(results)
  IN
  /\ phase = "fetch"
  /\ \E limit \in reading.limits :
       LET consumed == Fitting(results, from, limit)
           more == offset + consumed < Len(results) /\ consumed > 0
       IN
       /\ hits' = hits \o SubSeq(results, from + 1, from + consumed)
       /\ offset' = IF more THEN NextOffset(offset, consumed, limit) ELSE offset
       /\ phase' = IF more THEN "page" ELSE "done"
  /\ match' = Nothing /\ related' = <<>>
  /\ UNCHANGED <<reading, lib, indexed, writes, began, getVars>>

---------------------------------------------------------------------------
(* A record with its parts. *)

\* Variant: the decisions are listed before what they explain.
ReviewsFirst ==
  <<"reviews", "current_revision", "revision_history", "evidence",
    "source_versions", "reports", "refresh">>

\* _hydrate reads them in this order.
Parts ==
  <<"current_revision", "revision_history", "evidence", "source_versions",
    "reports", "refresh", "reviews">>

OfClaims == {"current_revision", "revision_history"}

Included(part) ==
  /\ \/ part \in reading.include
     \/ part = "evidence" /\ "source_versions" \in reading.include
  /\ part \in OfClaims => reading.on = claim

Next_(part) ==
  LET here == IF part = "record" THEN 0
              ELSE CHOOSE i \in 1..Len(Parts) : Parts[i] = part
      later == {i \in (here + 1)..Len(Parts) : Included(Parts[i])}
  IN IF later = {} THEN "bound" ELSE Parts[Min(later)]

Shown(l, xs) == {[id |-> x, state |-> ReviewState(l, x)] : x \in xs}

\* The newest n of a list.
FirstOf(xs, n) ==
  {x \in xs : Cardinality({y \in xs : Number(y) > Number(x)}) < n}

EvidenceOf(l) ==
  CASE Kind(reading.on) \in {"claim", "report"} -> Linked(l)
    [] Kind(reading.on) = "source_version" ->
         {x \in Spans(l) : VersionOf(l, x) = reading.on}
    [] Kind(reading.on) = "evidence" -> {reading.on}
    [] OTHER -> Spans(l)

IdsIn(part) == IF part \in DOMAIN got THEN {r.id : r \in got[part]} ELSE {}

VersionsOf(l) ==
  CASE Kind(reading.on) = "source" -> Versions(l)
    [] Kind(reading.on) = "source_version" -> {reading.on}
    [] OTHER -> {VersionOf(l, x) : x \in IdsIn("evidence")}

ReportsOf == IF Kind(reading.on) \in {"claim", "question"} THEN {report} ELSE {}

\* Decisions on the record and on what was listed before.
ReviewsOf(l) ==
  LET about == {reading.on} \cup IdsIn("current_revision")
                 \cup IdsIn("evidence") \cup IdsIn("source_versions")
                 \cup IdsIn("reports")
      found == {i \in 1..Len(l.events) : l.events[i].on \in about}
  IN {<<"review", i>> : i \in found}

Listing(l, part) ==
  CASE part = "current_revision" -> Shown(l, {Current(l)})
    [] part = "revision_history" -> Shown(l, FirstOf(Revisions(l), MaxListed))
    [] part = "evidence" ->
         Shown(l, FirstOf({x \in EvidenceOf(l) : Accessible(l, x)}, MaxListed))
    [] part = "source_versions" ->
         Shown(l, FirstOf({x \in VersionsOf(l) : Accessible(l, x)}, MaxListed))
    [] part = "reports" -> Shown(l, ReportsOf)
    [] part = "refresh" ->
         Shown(l, {<<"refresh", i>> :
                    i \in {j \in 1..Len(l.queue) : l.queue[j].on = reading.on}})
    [] part = "reviews" -> Shown(l, FirstOf(ReviewsOf(l), MaxListed))

ReadRecord ==
  /\ reading.what = "get"
  /\ phase = "record"
  /\ phase' = IF Accessible(lib, reading.on) THEN Next_("record") ELSE "done"
  /\ UNCHANGED <<reading, lib, indexed, writes, searchVars, getVars>>

ReadPart(part) ==
  /\ phase = part
  /\ got' = [p \in DOMAIN got \cup {part} |->
              IF p = part THEN Listing(lib, part) ELSE got[p]]
  /\ phase' = Next_(part)
  /\ UNCHANGED <<reading, lib, indexed, writes, searchVars, truncated>>

\* An answer that is too large loses the ends of its lists, in this order; if
\* that does not help it is left without any part.
CutOrder ==
  <<"reviews", "revision_history", "reports", "source_versions", "evidence">>
Length(part) == IF part \in DOMAIN got THEN Cardinality(got[part]) ELSE 0
Total(parts) == FoldLeft(+, 0, [i \in 1..Len(parts) |-> Length(parts[i])])
Excess == Total(Parts) - PartSize
Kept(part) ==
  LET i == CHOOSE j \in 1..Len(CutOrder) : CutOrder[j] = part
      due == Excess - Total(SubSeq(CutOrder, 1, i - 1))
  IN IF due <= 0 THEN Length(part)
     ELSE IF due >= Length(part) THEN 0 ELSE Length(part) - due

Trimmed(part) ==
  IF part \in Range(CutOrder)
    THEN {r \in got[part] : r.id \in FirstOf(IdsIn(part), Kept(part))}
    ELSE got[part]

Bound ==
  /\ phase = "bound"
  /\ got' = IF Excess > 0
              THEN IF Excess > Total(CutOrder) THEN <<>>
                   ELSE [part \in DOMAIN got |-> Trimmed(part)]
              ELSE got
  /\ truncated' = (Excess > 0)
  /\ phase' = "done"
  /\ UNCHANGED <<reading, lib, indexed, writes, searchVars>>

---------------------------------------------------------------------------
First ==
  [revisions |-> <<[status |-> "draft", links |-> {Evidence(1)}]>>,
   spans |-> <<[version |-> 1, stale |-> FALSE]>>, versions |-> 1,
   queue |-> <<>>, events |-> <<>>, open |-> TRUE]

ReadInit ==
  /\ reading \in Reading
  /\ lib = First /\ indexed = First
  /\ writes = 0
  /\ phase = IF reading.what = "search" THEN "page" ELSE "record"
  /\ offset = 0
  /\ match = Nothing /\ related = <<>>
  /\ hits = <<>> /\ began = Nothing
  /\ got = <<>> /\ truncated = FALSE

Reads ==
  \/ Query \/ Relate \/ Answer
  \/ ReadRecord \/ Bound
  \/ \E part \in Range(Parts) : ReadPart(part)

ReadNext == Reads \/ Others

ReadSpec == ReadInit /\ [][ReadNext]_readVars

ReadTypeOK ==
  /\ reading \in Reading
  /\ writes \in 0..MaxWrites
  /\ phase \in {"page", "expand", "fetch", "record", "bound", "done"}
                 \cup Range(Parts)
  /\ DOMAIN got \subseteq Range(Parts)
  /\ offset \in 0..Len(hits)
  /\ ToSet(hits) \subseteq Records(lib)

---------------------------------------------------------------------------
(* Properties. *)

Undisturbed == began = writes

\* The pages of a search, read one after the other with any limits, hold every
\* result once and in order, wherever the size of a page cuts it off, unless
\* somebody wrote since the first page began.
PagesHoldEverything ==
  Undisturbed /\ phase \in {"page", "done"} =>
    LET found == Lexical(indexed)
        all == Results(indexed, indexed, found, ExpandAnchors(lib, found))
    IN /\ hits = SubSeq(all, 1, Len(hits))
       /\ phase = "done" => hits = all

\* The parts of a claim are read at different times, and still they belong
\* together: the history has the revision that is called current, the evidence
\* is that of one revision which is not older, every version of it is listed,
\* and the decision behind every state that is shown; but for what a limit left
\* out, and for a source that was hidden meanwhile.
NotFull(part) == Cardinality(IdsIn(part)) < MaxListed

PartsBelongTogether ==
  phase = "done" /\ ~truncated /\ DOMAIN got = Range(Parts) =>
    LET current == CHOOSE x \in IdsIn("current_revision") : TRUE IN
    /\ NotFull("revision_history") => current \in IdsIn("revision_history")
    /\ \E n \in Number(current)..Len(lib.revisions) :
         IdsIn("evidence") \subseteq lib.revisions[n].links
    /\ \A x \in IdsIn("evidence") :
         \/ VersionOf(lib, x) \in IdsIn("source_versions")
         \/ ~reading.owner /\ IdsIn("source_versions") = {}
    /\ NotFull("reviews") =>
         \A part \in {"current_revision", "evidence", "source_versions"} :
           \A r \in got[part] :
             r.state # "unreviewed" =>
               \E x \in IdsIn("reviews") :
                 lib.events[Number(x)] = [on |-> r.id, to |-> r.state]
================================================================================
