------------------------------- MODULE MCReading -------------------------------
(***************************************************************************)
(* Instances of Retrieval: searches of an owner and of another reader, in   *)
(* pages of one or two hits, and gets with all parts or some.              *)
(***************************************************************************)
EXTENDS Retrieval

Search(owner, kinds, review, freshness) ==
  [what |-> "search", owner |-> owner, kinds |-> kinds, review |-> review,
   freshness |-> freshness, rejected |-> FALSE, limits |-> {1, 3}]
Get(owner, on, include) ==
  [what |-> "get", owner |-> owner, on |-> on, include |-> include]

ClaimPageParts ==
  {"current_revision", "revision_history", "evidence", "source_versions",
   "reviews", "reports", "refresh"}
SourcePageParts == {"evidence", "source_versions", "reviews", "refresh"}
DeepResearchParts ==
  {"current_revision", "evidence", "source_versions", "reports"}

Readings ==
  {Search(TRUE, {}, {}, {}),
   Search(FALSE, {"claim", "evidence"}, {"unreviewed"}, {}),
   Search(TRUE, {}, {}, {"stale", "needs_refresh"}),
   Get(TRUE, claim, ClaimPageParts), Get(FALSE, claim, ClaimPageParts),
   Get(FALSE, source, SourcePageParts), Get(TRUE, report, DeepResearchParts)}

\* The query is the title of the claim and occurs in the text of the others,
\* but not in the report.
Matchings ==
  [k \in RecordKinds |->
    CASE k = "claim" -> [exact |-> 95, lexical |-> 100]
      [] k \in {"evidence", "source"} -> [exact |-> 0, lexical |-> 60]
      [] k = "source_version" -> [exact |-> 0, lexical |-> 20]
      [] OTHER -> [exact |-> 0, lexical |-> 0]]
Trusts ==
  [k \in DOMAIN Matchings |->
    IF k \in {"source", "source_version", "evidence"} THEN 40 ELSE 0]

\* A page has room for two hits with long summaries, or three others.
Sizes ==
  [k \in DOMAIN Matchings |-> IF k \in {"claim", "evidence"} THEN 3 ELSE 2]
================================================================================
