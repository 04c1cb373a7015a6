----------------------------- MODULE ClaimReview -----------------------------
(***************************************************************************)
(* Review decisions and claim revisions.                                   *)
(*                                                                         *)
(* ResearchReviewService.review (application/review.py) applies one        *)
(* decision to a claim revision, or to an evidence span, a source version  *)
(* or a report (here: an entity).  The caller says what it has seen, the   *)
(* current revision and the effective review state, and the decision is    *)
(* refused if that has changed.  A deposit adds revisions to the same      *)
(* claims, and the retained v1 API approves through the same service.      *)
(*                                                                         *)
(* Review state is append-only: the state of a revision or entity is that  *)
(* of its latest decision event; the columns of the v1 tables mirror it.   *)
(*                                                                         *)
(* The two databases differ in what a waiting reviewer has read.  SQLite   *)
(* runs one writing transaction at a time.  On PostgreSQL the query waits  *)
(* for the row lock after its snapshot was taken: the locked rows are then *)
(* read again, the subquery on review_events is not.                       *)
(*                                                                         *)
(* Refuting evidence and the refresh queue are left out.                   *)
(***************************************************************************)
EXTENDS Naturals, Sequences

CONSTANTS
  Proc,
  Target,        \* reviewable records
  Claims,        \* those that are claims; the others are entities
  Public,        \* the published claims
  Key,           \* idempotency keys that clients choose
  NoKey, NoCall,
  Intent,        \* what a client may want: [target, action, status, guarded]
  Backend,       \* the databases to consider
  Clients,       \* [intents, retained]: what the clients of an instance do
  First,         \* the statuses that a claim's first revision may have
  MaxRevisions   \* bound: no deposit is submitted for a claim with as many

Status == {"draft", "partial", "supported", "contested", "rejected", "superseded"}
ReviewState == {"unreviewed", "reviewed", "flagged"}
Decision == {"approve", "contest", "reject", "supersede"}
Action == Decision \cup {"request_refresh", "deposit"}

\* A request carries what its client has seen; an unguarded deposit expects
\* no particular revision (0).  A retained v1 call derives its key from its
\* request: the key is the request.
Request == [target : Target, action : Action, status : Status \cup {"none"},
            rev : Nat, state : ReviewState]

ASSUME ReviewAssumption ==
  /\ Claims \subseteq Target
  /\ Public \subseteq Claims
  /\ NoKey \notin Key \cup Request
  /\ Backend \subseteq {"sqlite", "postgres"}
  /\ First \subseteq Status
  /\ MaxRevisions \in Nat
  /\ Intent \subseteq [target : Target, action : Action,
                       status : Status \cup {"none"}, guarded : BOOLEAN]
  /\ Clients \subseteq [intents : SUBSET Intent, retained : SUBSET Target]
  /\ \A i \in Intent :
       /\ i.action = "deposit" => i.target \in Claims /\ i.status \in Status
       /\ i.action = "supersede" => i.target \in Claims
       /\ i.action # "deposit" => i.guarded

VARIABLES
  backend,   \* the database, chosen once
  clients,   \* what the clients want, chosen once
  revs,      \* claim_revisions of each target: [status, prev]
  current,   \* claims.current_revision_id (an entity stays at 1)
  events,    \* review_events: [rev, base, action, from, to, key]
  mirror,    \* the v1 columns: [review, conflict]
  receipts,  \* completed idempotency rows: [key, req]
  pc, call,  \* the call that each process runs: [key, req]
  base,      \* the current revision that its transaction has read
  seen       \* the review state that its transaction has read

dbVars == <<revs, current, events, mirror, receipts>>
vars == <<backend, clients, dbVars, pc, call, base, seen>>

Open == {"query", "wait", "decide"}

-----------------------------------------------------------------------------
(***************************************************************************)
(* What the events say                                                     *)
(***************************************************************************)

DecisionsOn(evs, n) ==
  {i \in DOMAIN evs : evs[i].rev = n /\ evs[i].action \in Decision}

\* The latest of them, if there is one.
LatestOn(evs, n) ==
  {i \in DecisionsOn(evs, n) : \A j \in DecisionsOn(evs, n) : j <= i}

\* The effective review state of revision n: that of its latest decision.
StateOf(evs, n) ==
  IF LatestOn(evs, n) = {} THEN "unreviewed"
  ELSE evs[CHOOSE i \in LatestOn(evs, n) : TRUE].to

Conflicted(rev, evs, n) ==
  \/ rev.status = "contested"
  \/ \E i \in LatestOn(evs, n) : evs[i].action = "contest"

\* What the v1 columns of a target should hold.
Mirrored(rs, n, evs) ==
  [review |-> StateOf(evs, n), conflict |-> Conflicted(rs[n], evs, n)]

StateNow(t) == StateOf(events[t], current[t])

-----------------------------------------------------------------------------
(***************************************************************************)
(* What a decision may do                                                  *)
(***************************************************************************)

\* _STATUS_TRANSITIONS.
MayBecome ==
  [draft      |-> {"partial", "supported", "rejected", "superseded"},
   partial    |-> {"supported", "contested", "rejected", "superseded"},
   supported  |-> {"contested", "rejected", "superseded"},
   contested  |-> {"supported", "rejected", "superseded"},
   rejected   |-> {"superseded"},
   superseded |-> {}]

\* Variant: any revision but a superseded one can be approved.
ClaimAllowsAnyApproval(status, r) ==
  /\ status # "superseded"
  /\ r.action = "contest" => "contested" \in MayBecome[status]
  /\ r.action = "reject" => "rejected" \in MayBecome[status]
  /\ r.action = "supersede" => r.status \in Status \ {"superseded"}

\* plan_claim_review: the decisions that a claim revision of this status
\* accepts, and the replacement that supersede requires.
ClaimAllows(status, r) ==
  /\ status # "superseded"
  /\ r.action = "approve" => status # "rejected"
  /\ r.action = "contest" => "contested" \in MayBecome[status]
  /\ r.action = "reject" => "rejected" \in MayBecome[status]
  /\ r.action = "supersede" => r.status \in Status \ {"superseded"}

\* review_state_after refuses a decision that changes nothing.
EntityAllows(state, r) ==
  /\ r.action = "approve" => state # "reviewed"
  /\ r.action \in {"contest", "reject"} => state # "flagged"

Revising == {"contest", "reject", "supersede", "deposit"}
Revises(r) == r.target \in Claims /\ r.action \in Revising

Allowed(r, status, state) ==
  /\ r.target \in Public => r.action \notin Revising
  /\ r.action \in Decision =>
       IF r.target \in Claims THEN ClaimAllows(status, r)
                              ELSE EntityAllows(state, r)

\* Variant: the new revision takes the status of the request.
RequestedStatus(r) == r.status

StatusAfter(r) ==
  CASE r.action = "contest" -> "contested"
    [] r.action = "reject" -> "rejected"
    [] OTHER -> r.status

StateAfter(r, state) ==
  CASE r.action = "approve" -> "reviewed"
    [] r.action \in {"contest", "reject"} -> "flagged"
    [] r.action = "supersede" -> "unreviewed"
    [] OTHER -> state

-----------------------------------------------------------------------------
Init ==
  /\ backend \in Backend
  /\ clients \in Clients
  /\ \E first \in [Claims -> First] :
       revs = [t \in Target |->
                << [status |-> IF t \in Claims THEN first[t] ELSE "draft",
                    prev |-> 0] >>]
  /\ current = [t \in Target |-> 1]
  /\ events = [t \in Target |-> <<>>]
  /\ mirror = [t \in Target |-> Mirrored(revs[t], 1, <<>>)]
  /\ receipts = {}
  /\ pc = [p \in Proc |-> "idle"]
  /\ call = [p \in Proc |-> NoCall]
  /\ base = [p \in Proc |-> 0]
  /\ seen = [p \in Proc |-> "unreviewed"]

Goto(p, there) == pc' = [pc EXCEPT ![p] = there]

\* The call ends.  What its client hears is left open: it may ask again.
End(p) ==
  /\ Goto(p, "idle")
  /\ call' = [call EXCEPT ![p] = NoCall]
  /\ base' = [base EXCEPT ![p] = 0]
  /\ seen' = [seen EXCEPT ![p] = "unreviewed"]

Running == {call[q] : q \in {r \in Proc : pc[r] # "idle"}}
Req(p) == call[p].req
On(p) == Req(p).target

-----------------------------------------------------------------------------
(***************************************************************************)
(* Calls                                                                   *)
(***************************************************************************)

Start(p, k, r) ==
  /\ Goto(p, "begin")
  /\ call' = [call EXCEPT ![p] = [key |-> k, req |-> r]]
  /\ UNCHANGED <<backend, dbVars, base, seen>>

\* The request of a client that has just read its target.
Compose(i) ==
  [target |-> i.target, action |-> i.action, status |-> i.status,
   rev |-> IF i.guarded THEN current[i.target] ELSE 0,
   state |-> IF i.action = "deposit" THEN "unreviewed" ELSE StateNow(i.target)]

\* A client sends a request under a key, perhaps one it has used before.
Submit(p, k, i) ==
  /\ pc[p] = "idle"
  /\ i.action # "deposit"
  /\ Start(p, k, Compose(i))

\* A deposit that revises a claim; its own idempotency is that of Deposit.
SubmitDeposit(p, i) ==
  /\ pc[p] = "idle"
  /\ i.action = "deposit"
  /\ Len(revs[i.target]) < MaxRevisions
  /\ Start(p, NoKey, Compose(i))

\* A client sends a request once more, that was applied or still runs.  (One
\* that failed is like one that was delayed.)
Retry(p, x) ==
  /\ pc[p] = "idle"
  /\ x.key \in Key
  /\ Start(p, x.key, x.req)

\* RegistryService.review: approve as seen, outside any transaction.
RetainedRequest(t) ==
  [target |-> t, action |-> "approve", status |-> "none",
   rev |-> current[t], state |-> StateNow(t)]

\* A target that is reviewed already is left alone.
Retained(p, t) ==
  /\ pc[p] = "idle"
  /\ StateNow(t) # "reviewed"
  /\ Start(p, RetainedRequest(t), RetainedRequest(t))

-----------------------------------------------------------------------------
(***************************************************************************)
(* The transaction                                                         *)
(***************************************************************************)

Others(p) == {q \in Proc \ {p} : pc[q] \in Open}

\* BEGIN IMMEDIATE waits for the only writer; on PostgreSQL the insertion of
\* the idempotency row waits for a transaction that holds the same key.
MayBegin(p) ==
  \A q \in Others(p) :
    /\ backend = "postgres"
    /\ call[p].key # NoKey => call[q].key # call[p].key

ReceiptsOf(k) == {x \in receipts : x.key = k}

\* Variant: no receipt is looked for.
BeginAnyway(p) ==
  /\ pc[p] = "begin"
  /\ MayBegin(p)
  /\ Goto(p, "query")
  /\ UNCHANGED <<backend, dbVars, call, base, seen>>

Begin(p) ==
  /\ pc[p] = "begin"
  /\ MayBegin(p)
  /\ ReceiptsOf(call[p].key) = {}
  /\ Goto(p, "query")
  /\ UNCHANGED <<backend, dbVars, call, base, seen>>

\* _replay: the stored result, or IDEMPOTENCY_CONFLICT if the key belongs to
\* another request.
Replay(p) ==
  /\ pc[p] = "begin"
  /\ MayBegin(p)
  /\ ReceiptsOf(call[p].key) # {}
  /\ End(p)
  /\ UNCHANGED <<backend, dbVars>>

\* The query on the target starts.  Its snapshot is what the subquery on the
\* events of the requested revision reads, also after a wait.
Query(p) ==
  /\ pc[p] = "query"
  /\ seen' = [seen EXCEPT ![p] = StateOf(events[On(p)], Req(p).rev)]
  /\ Goto(p, "wait")
  /\ UNCHANGED <<backend, dbVars, call, base>>

\* Variant: nobody waits for the row.
NoRowLock(p) == TRUE

RowFree(p) == \A q \in Others(p) : pc[q] = "decide" => On(q) # On(p)

\* Variant: the state of an entity, too, is read before the wait.
LockEarlyState(p) ==
  /\ pc[p] = "wait"
  /\ RowFree(p)
  /\ base' = [base EXCEPT ![p] = current[On(p)]]
  /\ Goto(p, "decide")
  /\ UNCHANGED <<backend, dbVars, call, seen>>

\* The row lock is granted and the row as it is now is returned.  The state
\* of an entity is queried after that; a claim's came with the row.
Lock(p) ==
  /\ pc[p] = "wait"
  /\ RowFree(p)
  /\ base' = [base EXCEPT ![p] = current[On(p)]]
  /\ seen' = [seen EXCEPT ![p] = IF On(p) \in Claims THEN @ ELSE StateNow(On(p))]
  /\ Goto(p, "decide")
  /\ UNCHANGED <<backend, dbVars, call>>

\* Variant: the expected state is not compared.
ExpectsRevision(p) == Req(p).rev \in {base[p], 0}

\* expected_revision_id and expected_state.
AsExpected(p) ==
  IF Req(p).action = "deposit"
    THEN Req(p).rev \in {base[p], 0}
    ELSE Req(p).rev = base[p] /\ Req(p).state = seen[p]

Accepted(p) ==
  AsExpected(p) /\ Allowed(Req(p), revs[On(p)][base[p]].status, seen[p])

Refuse(p) ==
  /\ pc[p] = "decide"
  /\ ~Accepted(p)
  /\ End(p)
  /\ UNCHANGED <<backend, dbVars>>

\* insert_claim_revision, and the pointer to it.
WriteRevision(p) ==
  /\ revs' = [revs EXCEPT ![On(p)] =
                Append(@, [status |-> StatusAfter(Req(p)), prev |-> base[p]])]
  /\ current' = [current EXCEPT ![On(p)] = Len(revs'[On(p)])]

KeepRevision == UNCHANGED <<revs, current>>

\* A decision on a claim writes to its row on condition that the pointer is
\* still the one it has read (rowcount # 1 is an error, so it fails).  A
\* request for a refresh, a decision on an entity and a deposit do not.
PointerAsRead(p) ==
  On(p) \in Claims /\ Req(p).action \in Decision => current[On(p)] = base[p]

\* The event names the revision that it creates, or else the one it was on.
EventOf(p) ==
  [rev |-> IF Revises(Req(p)) THEN current'[On(p)] ELSE base[p], base |-> base[p], action |-> Req(p).action,
   from |-> seen[p], to |-> StateAfter(Req(p), seen[p]), key |-> call[p].key]

\* The columns are computed from the events, in the same transaction.
RefreshMirror(t) ==
  mirror' = [mirror EXCEPT
    ![t] = Mirrored(revs'[t], current'[t], events'[t])]

\* Variant: the columns take the new state and lose the conflict.
ApplyBlindly(p) ==
  /\ pc[p] = "decide"
  /\ Req(p).action # "deposit"
  /\ Accepted(p)
  /\ PointerAsRead(p)
  /\ IF Revises(Req(p)) THEN WriteRevision(p) ELSE KeepRevision
  /\ events' = [events EXCEPT ![On(p)] = Append(@, EventOf(p))]
  /\ mirror' = [mirror EXCEPT
       ![On(p)] = [review |-> StateAfter(Req(p), seen[p]), conflict |-> FALSE]]
  /\ receipts' = receipts \cup {call[p]}

\* The transaction of a review commits: perhaps a revision, one event, the
\* mirror, the completed receipt.
ApplyReview(p) ==
  /\ pc[p] = "decide"
  /\ Req(p).action # "deposit"
  /\ Accepted(p)
  /\ PointerAsRead(p)
  /\ IF Revises(Req(p)) THEN WriteRevision(p) ELSE KeepRevision
  /\ events' = [events EXCEPT ![On(p)] = Append(@, EventOf(p))]
  /\ IF Req(p).action = "request_refresh" THEN UNCHANGED mirror
     ELSE RefreshMirror(On(p))
  /\ receipts' = receipts \cup {call[p]}

\* Variant: the v1 columns are left as they are.
ReviseOnly(p) ==
  /\ pc[p] = "decide"
  /\ Req(p).action = "deposit"
  /\ Accepted(p)
  /\ WriteRevision(p)
  /\ UNCHANGED <<events, mirror, receipts>>

\* A deposit commits its revision.  It moves the pointer unconditionally
\* (update_claim_pointer) and adds no event.
ApplyDeposit(p) ==
  /\ pc[p] = "decide"
  /\ Req(p).action = "deposit"
  /\ Accepted(p)
  /\ WriteRevision(p)
  /\ UNCHANGED <<events, receipts>>
  /\ RefreshMirror(On(p))

Apply(p) ==
  /\ ApplyReview(p) \/ ApplyDeposit(p)
  /\ End(p)
  /\ UNCHANGED backend

\* An SQL error, a timeout or the end of the process: nothing was committed.
Fail(p) ==
  /\ pc[p] # "idle"
  /\ End(p)
  /\ UNCHANGED <<backend, dbVars>>

-----------------------------------------------------------------------------
Call(p) ==
  \/ \E k \in Key, i \in clients.intents : Submit(p, k, i)
  \/ \E i \in clients.intents : SubmitDeposit(p, i)
  \/ \E x \in receipts \cup Running : Retry(p, x)
  \/ \E t \in clients.retained : Retained(p, t)

Step(p) ==
  \/ Begin(p) \/ Replay(p) \/ Query(p) \/ Lock(p) \/ Refuse(p) \/ Apply(p)
  \/ Fail(p)

Next == UNCHANGED clients /\ \E p \in Proc : Call(p) \/ Step(p)

Spec == Init /\ [][Next]_vars
-----------------------------------------------------------------------------
(***************************************************************************)
(* Properties                                                              *)
(***************************************************************************)

Revision == [status : Status, prev : Nat]
RequestKey == Key \cup Request
Event == [rev : Nat, base : Nat, action : Action \ {"deposit"},
          from : ReviewState, to : ReviewState, key : RequestKey]
ReviewCall == [key : RequestKey, req : {r \in Request : r.action # "deposit"}]
DepositCall ==
  [key : {NoKey}, req : {r \in Request : /\ r.action = "deposit"
                                         /\ r.target \in Claims
                                         /\ r.status \in Status}]
ACall == ReviewCall \cup DepositCall

\* What the rows of target t refer to exists.
RowsOK(t) ==
  /\ current[t] \in DOMAIN revs[t]
  /\ \A i \in DOMAIN events[t] : events[t][i].rev \in DOMAIN revs[t]

\* A running call has a request, one that decides has read its row.
CallOK(p) ==
  /\ pc[p] # "idle" => call[p] \in ACall
  /\ pc[p] = "decide" => base[p] \in DOMAIN revs[On(p)]

\* The shape of every reachable state, its references and its calls.
TypeOK ==
  /\ backend \in Backend
  /\ clients \in Clients
  /\ revs \in [Target -> Seq(Revision)]
  /\ current \in [Target -> Nat]
  /\ events \in [Target -> Seq(Event)]
  /\ \A t \in Target : RowsOK(t)
  /\ mirror \in [Target -> [review : ReviewState, conflict : BOOLEAN]]
  /\ receipts \subseteq ReviewCall
  /\ pc \in [Proc -> Open \cup {"idle", "begin"}]
  /\ call \in [Proc -> ACall \cup {NoCall}]
  /\ base \in [Proc -> Nat]
  /\ seen \in [Proc -> ReviewState]
  /\ \A p \in Proc : CallOK(p)

\* However reviews and deposits race on a claim, each revision supersedes
\* the one before it and the claim points to the newest: no revision is lost
\* and the history does not branch.
LinearHistory ==
  \A t \in Target :
    /\ current[t] = Len(revs[t])
    /\ \A n \in DOMAIN revs[t] : revs[t][n].prev = n - 1

\* A request that names a revision takes effect only while that revision is
\* current, whatever committed while it waited (EXPECTED_REVISION_MISMATCH,
\* review.py:374): of the requests for a refresh and of the deposits that is
\* up to the row lock, and to reading the pointer under it.
EffectOnNamed ==
  [][\A p \in Proc :
       Apply(p) /\ Req(p).rev # 0 => Req(p).rev = current[On(p)]]_vars

\* Every decision on t was made by a client that knew the revision and the
\* review state which the decision replaced.
Informed(t) ==
  \A i \in DOMAIN events[t] :
    \E x \in receipts :
      /\ x.key = events[t][i].key
      /\ x.req.rev = events[t][i].base
      /\ x.req.state = StateOf(SubSeq(events[t], 1, i - 1), x.req.rev)

\* No decision overrides one that its client has not seen: on SQLite for
\* every target, on PostgreSQL for the entities, whose state is read under
\* the row lock.
InformedDecisions ==
  \A t \in Target : backend = "sqlite" \/ t \notin Claims => Informed(t)

\* The same of the claims, on either database ("a stale request conflicts",
\* test_claim_revisions.py:184).
InformedClaimDecisions == \A t \in Claims : Informed(t)

\* A request has its effect once: each receipt has exactly one event, on the
\* requested target, and each event has a receipt.
AppliedOnce ==
  /\ \A x \in receipts :
       \E i \in DOMAIN events[x.req.target] :
         events[x.req.target][i].key = x.key
  /\ \A t, u \in Target : \A i \in DOMAIN events[t], j \in DOMAIN events[u] :
       events[t][i].key = events[u][j].key => t = u /\ i = j
  /\ \A t \in Target : \A i \in DOMAIN events[t] :
       \E x \in receipts : x.key = events[t][i].key /\ x.req.target = t

\* The v1 columns show the effective state of the current revision, whoever
\* wrote last.
MirrorAgrees ==
  \A t \in Target : mirror[t] = Mirrored(revs[t], current[t], events[t])

\* A rejected or superseded revision never counts as reviewed: approving it
\* takes a replacement.
RejectedNotApproved ==
  \A t \in Claims : \A n \in DOMAIN revs[t] :
    revs[t][n].status \in {"rejected", "superseded"} =>
      StateOf(events[t], n) # "reviewed"

\* A retained v1 review that the service answers with success has made its
\* target reviewed (test_registry.py:369).
RetainedReviewTakesEffect ==
  [][\A p \in Proc :
       (Replay(p) \/ Apply(p)) /\ call[p].key = Req(p)
         => StateOf(events'[On(p)], current'[On(p)]) = "reviewed"]_vars
==============================================================================
