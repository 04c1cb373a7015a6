------------------------------ MODULE MCRefresh ------------------------------
(***************************************************************************)
(* Instances of RefreshCapture.  A source holds "old" first; the first     *)
(* quotation stays in "new", the second is gone from it.  Settings has two *)
(* processes that capture and enqueue under one key or another, on either  *)
(* database; LostSettings one process that captures again after a failure. *)
(***************************************************************************)
EXTENDS RefreshCapture, TLC

CONSTANTS p1, p2, k1, k2, c1, r1

TwoQuotes == <<"stays", "goes">>

Occurrences ==
  [stays |-> [old |-> 1, new |-> 1], goes |-> [old |-> 1, new |-> 0]]

BothCited == [x \in {c1} |-> {1, 2}]
OneClaim == [x \in {r1} |-> {c1}]

Ask(mode, key, root) == [mode |-> mode, key |-> key, root |-> root]

Capture(k) == Ask("capture", k, Source)
EnqueueClaim(k) == Ask("enqueue", k, <<"claim", c1>>)
Jobs ==
  {Capture(k1), Capture(k2), EnqueueClaim(k1), EnqueueClaim(k2),
   EnqueueClaim(NoKey)}

Plan(backend_, first, second, dismissals, citations, bodies, changes) ==
  [backend |-> backend_, jobs |-> (p1 :> first @@ p2 :> second),
   dismissals |-> dismissals, citations |-> citations, changes |-> changes,
   bodies |-> bodies]

\* Captures that race, on one key and on different ones, while the source
\* changes back; a capture of a changed or unusable source, or one beside
\* enqueue requests, with a reviewer who dismisses; two enqueue requests.
Settings ==
  UNION {
    {Plan(b, {Capture(k1)}, {Capture(k1), Capture(k2)}, 0, 0, {"old", "new"}, 1),
     Plan(b, {Capture(k1)}, {}, 1, 1, {"new", "missing", "several"}, 0),
     Plan(b, {Capture(k1)}, {EnqueueClaim(k1), EnqueueClaim(NoKey)}, 1, 0,
          {"new"}, 0),
     Plan(b, {EnqueueClaim(NoKey)}, {EnqueueClaim(k2)}, 1, 0, {"old"}, 0)} :
    b \in {"sqlite", "postgres"}}

LostSettings ==
  {Plan("sqlite", {Capture(k1), Capture(k2)}, {}, 0, 0, {"new"}, 0)}
==============================================================================
