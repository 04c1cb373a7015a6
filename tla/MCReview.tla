------------------------------- MODULE MCReview -------------------------------
(***************************************************************************)
(* Instances of ClaimReview.  In MCReview.cfg two processes review, revise *)
(* and retry on a claim, or ask for its refresh while it is revised, or    *)
(* work on an entity and a published claim, on either database.            *)
(* MCReviewStale.cfg lets two reviewers race on a claim on PostgreSQL;     *)
(* MCReviewRetained.cfg has one client use the v1 API between contests.    *)
(***************************************************************************)
EXTENDS ClaimReview, TLC

CONSTANTS c, d, e, k1, k2, k3

Want(target, action, status, guarded) ==
  [target |-> target, action |-> action, status |-> status,
   guarded |-> guarded]

\* Approvals come through the v1 API.
ClaimIntents ==
  {Want(c, "contest", "none", TRUE), Want(c, "reject", "none", TRUE),
   Want(c, "supersede", "partial", TRUE),
   Want(c, "deposit", "supported", FALSE),
   Want(c, "deposit", "supported", TRUE)}

\* A refresh of a claim is requested while the claim is revised.
RefreshIntents ==
  {Want(c, "request_refresh", "none", TRUE), Want(c, "contest", "none", TRUE),
   Want(c, "deposit", "supported", FALSE)}

\* The claim d is published: it cannot be revised.
EntityIntents ==
  {Want(e, a, "none", TRUE) : a \in {"approve", "contest", "request_refresh"}}
  \cup {Want(d, "contest", "none", TRUE)}

StaleIntents ==
  {Want(c, a, "none", TRUE) : a \in {"approve", "contest"}}

ContestIntents == {Want(e, "contest", "none", TRUE)}

AllIntents ==
  ClaimIntents \cup RefreshIntents \cup EntityIntents \cup StaleIntents
    \cup ContestIntents

Group(intents, retained) == [intents |-> intents, retained |-> retained]

\* Each instance has one of these groups of clients.
RacingClients ==
  {Group(ClaimIntents, {c}), Group(RefreshIntents, {}),
   Group(EntityIntents, {d, e})}
StaleClients == {Group(StaleIntents, {})}
RetainedClients == {Group(ContestIntents, {e})}

Symmetric == Permutations(Key) \cup Permutations(Proc)
===============================================================================
