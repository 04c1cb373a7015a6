---------------------------- MODULE RefreshCapture ----------------------------
(***************************************************************************)
(* Refreshing a source: ResearchRefreshService and SourceCaptureCoordinator*)
(* (application/refresh.py), with the queue of records that a person has   *)
(* to look at again (ReviewRefreshRepository).                             *)
(*                                                                         *)
(* A capture works in four transactions: it reserves its idempotency key,  *)
(* stores what the source holds now as a version (a new one, or one that   *)
(* exists), re-anchors the evidence of the version that was the latest     *)
(* before, and completes the key.  Evidence whose quotation cannot be      *)
(* found again, and everything that cites re-anchored evidence, goes into  *)
(* the queue.  An enqueue request does the last of this in one             *)
(* transaction.  Review decisions dismiss entries, deposits cite evidence, *)
(* and the source changes whenever it likes.                               *)
(*                                                                         *)
(* One source is modelled.  A version is named by what it holds (its       *)
(* version key), and the versions are listed in the order of retrieval;    *)
(* captures within one second, which the columns cannot order, are left    *)
(* out.  Evidence is a quotation anchored in a version.                    *)
(***************************************************************************)
EXTENDS Naturals, Sequences, FiniteSets

CONSTANTS
  Proc, Key, NoKey, NoJob,
  Content,       \* what the source may hold
  Quote,
  Matches,       \* Matches[q][c]: how often content c has quotation q
  Claim, Report,
  Includes,      \* Includes[r]: the claims of report r
  FirstContent, FirstQuotes, FirstCites,   \* what deposits stored before
  Job,           \* the requests: [mode, key, root]
  Setting,       \* [backend, jobs, dismissals, citations, bodies, changes]
  MaxEvidence    \* bound: captures start only below it

Source == <<"source", 0>>
EvidenceEntity(n) == <<"evidence", n>>
Entity == {Source} \cup ({"evidence"} \X Nat) \cup ({"claim"} \X Claim)
          \cup ({"report"} \X Report)
Mode == {"capture", "verify", "enqueue"}
Reason == {"source_changed", "anchor_missing", "conflict", "manual"}

\* At one commit a path of a repository may hold nothing, or the file may
\* have moved to several paths.
Gone == {"missing", "several"}

ASSUME RefreshAssumption ==
  /\ Matches \in [Quote -> [Content -> Nat]]
  /\ FirstContent \in Content
  /\ FirstQuotes \in Seq(Quote)
  /\ Includes \in [Report -> SUBSET Claim]
  /\ FirstCites \in [Claim -> SUBSET DOMAIN FirstQuotes]
  /\ Job \subseteq [mode : Mode, key : Key \cup {NoKey}, root : Entity]
  /\ \A j \in Job : j.mode # "enqueue" => j.key \in Key
  /\ NoKey \notin Key
  /\ NoJob \notin Job
  /\ Content \cap Gone = {}
  /\ MaxEvidence \in Nat
  /\ Setting \subseteq
       [backend : {"sqlite", "postgres"}, jobs : [Proc -> SUBSET Job],
        dismissals : Nat, citations : Nat, changes : Nat,
        bodies : SUBSET (Content \cup Gone)]

VARIABLES
  setting,    \* the database, the clients, what the other actors may do
  body,       \* what the source holds at this moment
  versions,   \* source_versions, the latest retrieved last
  evidence,   \* evidence_spans: [at, quote, from], by number
  outcomes,   \* evidence with a refresh event (review_events)
  cites,      \* evidence that the current revision of a claim cites
  queue,      \* refresh_queue: [target, reason, by, open]
  receipt,    \* idempotency_keys: [job, by, done], at most one of a key
  projected,  \* evidence in search_documents
  pc, job,
  previous,   \* the latest version when the capture of p looked
  captured,   \* the version that it stored or found
  rows,       \* the evidence of previous, as its transaction has read it
  todo,       \* [target, reason, because] that the transaction has to enqueue
  mine,       \* entries that it has inserted
  told,       \* the last call of p ended with "captured"
  spent,      \* how often the other actors have acted
  leaked,     \* history: keys whose reservation a fault left behind
  missed      \* history: versions whose evidence a fault left behind

dbVars == <<versions, evidence, outcomes, cites, queue, receipt, projected>>
callVars == <<job, previous, captured, rows, todo, mine>>
history == <<leaked, missed>>
vars == <<setting, body, dbVars, pc, callVars, told, spent, history>>

-----------------------------------------------------------------------------
(***************************************************************************)
(* What depends on what                                                    *)
(***************************************************************************)

backend == setting.backend

Latest == versions[Len(versions)]

EvidenceAt(v) == {n \in DOMAIN evidence : evidence[n].at = v}

ClaimsCiting(S) == {c \in Claim : cites[c] \cap S # {}}

ReportsWith(S) == {r \in Report : Includes[r] \cap S # {}}

\* The records that a change of the root concerns, the root among them.
Expand(root) ==
  LET spans  == CASE root = Source -> DOMAIN evidence
                  [] root[1] = "evidence" -> {root[2]}
                  [] OTHER -> {}
      claims == IF root[1] = "claim" THEN {root[2]} ELSE ClaimsCiting(spans)
  IN  {root} \cup ({"evidence"} \X spans) \cup ({"claim"} \X claims)
             \cup ({"report"} \X ReportsWith(claims))

Dependents(n) == {t \in Expand(EvidenceEntity(n)) : t[1] \in {"claim", "report"}}

\* reanchor_text: the quotation occurs exactly once in the new text.
Reanchors(n, v) == v \notin Gone /\ Matches[evidence[n].quote][v] = 1

Ambiguous(n, v) ==
  IF v \in Gone THEN v = "several" ELSE Matches[evidence[n].quote][v] > 1

Unresolved(n, v) == IF Ambiguous(n, v) THEN "conflict" ELSE "anchor_missing"

\* What has to be enqueued because evidence n was (not) found again in v.
ToEnqueue(n, v) ==
  IF Reanchors(n, v)
    THEN {[target |-> t, reason |-> "source_changed", because |-> n] :
            t \in Dependents(n)}
    ELSE {[target |-> t, reason |-> Unresolved(n, v), because |-> n] :
            t \in Expand(EvidenceEntity(n))}

-----------------------------------------------------------------------------
Init ==
  /\ setting \in Setting
  /\ body \in setting.bodies
  /\ versions = <<FirstContent>>
  /\ evidence = [n \in DOMAIN FirstQuotes |->
                   [at |-> FirstContent, quote |-> FirstQuotes[n], from |-> 0]]
  /\ outcomes = {}
  /\ cites = FirstCites
  /\ queue = {}
  /\ receipt = {}
  /\ projected = DOMAIN FirstQuotes
  /\ pc = [p \in Proc |-> "idle"]
  /\ job = [p \in Proc |-> NoJob]
  /\ previous = [p \in Proc |-> FirstContent]
  /\ captured = [p \in Proc |-> FirstContent]
  /\ rows = [p \in Proc |-> {}]
  /\ todo = [p \in Proc |-> {}]
  /\ mine = [p \in Proc |-> {}]
  /\ told = [p \in Proc |-> FALSE]
  /\ spent = [dismissals |-> 0, citations |-> 0, changes |-> 0]
  /\ leaked = {}
  /\ missed = {}

Goto(p, there) == pc' = [pc EXCEPT ![p] = there]

\* The locations of an open write transaction, and those of a capture that
\* holds its key.
Writing == {"enqueue", "found"}
Holding == {"look", "fetch", "outcome", "complete", "release"}

Capturing(p) == job[p] # NoJob /\ job[p].mode # "enqueue"
Holds(p) == pc[p] \in Holding \/ (pc[p] \in Writing /\ Capturing(p))

\* SQLite has one writer at a time.
MayWrite(p) ==
  backend = "sqlite" => \A q \in Proc \ {p} : pc[q] \notin Writing

NobodyWrites == backend = "sqlite" => \A p \in Proc : pc[p] \notin Writing

ReceiptsOf(k) == {x \in receipt : x.job.key = k}

\* Variant: inserted entries are kept when the transaction ends.
ForgetReads(p) ==
  /\ rows' = [rows EXCEPT ![p] = {}]
  /\ todo' = [todo EXCEPT ![p] = {}]
  /\ UNCHANGED mine

\* The rows of the transaction are gone, what was read is forgotten.
Forget(p) ==
  /\ rows' = [rows EXCEPT ![p] = {}]
  /\ todo' = [todo EXCEPT ![p] = {}]
  /\ mine' = [mine EXCEPT ![p] = {}]

End(p, success) ==
  /\ Goto(p, "idle")
  /\ told' = [told EXCEPT ![p] = success]
  /\ job' = [job EXCEPT ![p] = NoJob]
  /\ previous' = [previous EXCEPT ![p] = FirstContent]
  /\ captured' = [captured EXCEPT ![p] = FirstContent]
  /\ Forget(p)

\* A version is stored and the evidence of its predecessor not yet visited.
Owes(p) ==
  /\ pc[p] \in Writing \cup {"outcome"}
  /\ Capturing(p)
  /\ captured[p] # previous[p]

NowMissed(p) == IF Owes(p) THEN missed \cup {previous[p]} ELSE missed
NowLeaked(p) == IF Holds(p) THEN leaked \cup {job[p].key} ELSE leaked

-----------------------------------------------------------------------------
(***************************************************************************)
(* The calls and their keys                                                *)
(***************************************************************************)

Submit(p, j) ==
  /\ pc[p] = "idle"
  /\ j.mode = "enqueue" \/ Len(evidence) < MaxEvidence
  /\ Goto(p, IF j.mode = "enqueue" THEN "begin" ELSE "reserve")
  /\ job' = [job EXCEPT ![p] = j]
  /\ told' = [told EXCEPT ![p] = FALSE]
  /\ UNCHANGED <<setting, body, dbVars, previous, captured, rows, todo, mine,
                 spent, history>>

\* The insertion of a key waits for a transaction that holds the same key.
KeyFree(p) ==
  \A q \in Proc \ {p} :
    pc[q] \in Writing /\ job[q].mode = "enqueue"
      => job[q].key # job[p].key \/ job[p].key = NoKey

\* _replay: the result, or the key belongs to another request, or to a
\* capture that has not completed it.
Replay(p) ==
  /\ pc[p] \in {"reserve", "begin"}
  /\ MayWrite(p) /\ KeyFree(p)
  /\ \E x \in ReceiptsOf(job[p].key) :
       End(p, x.job = job[p] /\ x.done /\ Capturing(p))
  /\ UNCHANGED <<setting, body, dbVars, spent, history>>

\* A capture reserves its key in a transaction of its own.
Reserve(p) ==
  /\ pc[p] = "reserve"
  /\ MayWrite(p) /\ KeyFree(p)
  /\ ReceiptsOf(job[p].key) = {}
  /\ receipt' = receipt \cup {[job |-> job[p], by |-> p, done |-> FALSE]}
  /\ Goto(p, "look")
  /\ UNCHANGED <<setting, body, versions, evidence, outcomes, cites, queue,
                 projected, callVars, told, spent, history>>

Reservation(p) == [job |-> job[p], by |-> p, done |-> FALSE]
Result(p) == [job |-> job[p], by |-> p, done |-> TRUE]

\* The result replaces the reservation.
Complete(p) ==
  /\ pc[p] = "complete"
  /\ MayWrite(p)
  /\ Reservation(p) \in receipt
  /\ receipt' = (receipt \ {Reservation(p)}) \cup {Result(p)}
  /\ End(p, TRUE)
  /\ UNCHANGED <<setting, body, versions, evidence, outcomes, cites, queue,
                 projected, spent, history>>

\* Variant: an exception is reported and the key stays reserved.
NoRelease(p) ==
  /\ pc[p] = "release"
  /\ MayWrite(p)
  /\ End(p, FALSE)
  /\ UNCHANGED <<setting, body, dbVars, spent, history>>

\* An exception during the capture takes the reservation back.
Release(p) ==
  /\ pc[p] = "release"
  /\ MayWrite(p)
  /\ receipt' = receipt \ {Reservation(p)}
  /\ End(p, FALSE)
  /\ UNCHANGED <<setting, body, versions, evidence, outcomes, cites, queue,
                 projected, spent, history>>

-----------------------------------------------------------------------------
(***************************************************************************)
(* A capture                                                               *)
(***************************************************************************)

\* get_source_capture_context.  Machine policy never enables "verify".
Look(p) ==
  /\ pc[p] = "look"
  /\ job[p].mode = "capture"
  /\ job[p].root[1] \in {"source", "evidence"}
  /\ previous' = [previous EXCEPT ![p] = Latest]
  /\ Goto(p, "fetch")
  /\ UNCHANGED <<setting, body, dbVars, job, captured, rows, todo, mine, told,
                 spent, history>>

\* The source is fetched and create_or_reuse stores what it holds.  A
\* version that exists keeps its place in the order of retrieval.  When the
\* file is gone nothing is stored.
Store(p) ==
  /\ pc[p] = "fetch"
  /\ MayWrite(p)
  /\ captured' = [captured EXCEPT ![p] = body]
  /\ IF body \in Gone
       THEN UNCHANGED <<versions, projected>>
       ELSE /\ versions' = IF \E i \in DOMAIN versions : versions[i] = body
                             THEN versions ELSE Append(versions, body)
            /\ projected' = DOMAIN evidence
  /\ Goto(p, "outcome")
  /\ UNCHANGED <<setting, body, evidence, outcomes, cites, queue, receipt, job,
                 previous, rows, todo, mine, told, spent, history>>

\* The same immutable version: one event says so.
Verified(p) ==
  /\ pc[p] = "outcome"
  /\ captured[p] = previous[p]
  /\ MayWrite(p)
  /\ Goto(p, "complete")
  /\ UNCHANGED <<setting, body, dbVars, callVars, told, spent, history>>

\* _reanchor_evidence and _queue_unresolved_source start: the evidence of
\* the previous version is read.
Visit(p) ==
  /\ pc[p] = "outcome"
  /\ captured[p] # previous[p]
  /\ MayWrite(p)
  /\ rows' = [rows EXCEPT ![p] = EvidenceAt(previous[p])]
  /\ todo' = [todo EXCEPT ![p] =
       UNION {ToEnqueue(n, captured[p]) : n \in EvidenceAt(previous[p])}]
  /\ Goto(p, "enqueue")
  /\ UNCHANGED <<setting, body, dbVars, job, previous, captured, mine, told,
                 spent, history>>

\* resolve_refresh_targets of an enqueue request.
Resolve(p) ==
  /\ pc[p] = "begin"
  /\ MayWrite(p) /\ KeyFree(p)
  /\ ReceiptsOf(job[p].key) = {}
  /\ todo' = [todo EXCEPT ![p] =
       {[target |-> t, reason |-> "manual", because |-> 0] :
          t \in Expand(job[p].root)}]
  /\ Goto(p, "enqueue")
  /\ UNCHANGED <<setting, body, dbVars, job, previous, captured, rows, mine,
                 told, spent, history>>

-----------------------------------------------------------------------------
(***************************************************************************)
(* The queue                                                               *)
(***************************************************************************)

Rank(t) == CASE t.target[1] = "source"   -> 0
             [] t.target[1] = "evidence" -> 1
             [] t.target[1] = "claim"    -> 2
             [] OTHER                    -> 3

\* One evidence span after the other, and for each the root first, then the
\* claims, then the reports.
Before(t, u) ==
  \/ t.because < u.because
  \/ t.because = u.because /\ Rank(t) <= Rank(u)

NextOf(S) == CHOOSE t \in S : \A u \in S : Before(t, u)

SameWork(x, t) == x.target = t.target /\ x.reason = t.reason

IsOpen(t) == \E x \in queue : x.open /\ SameWork(x, t)

HasOwn(p, t) == \E x \in mine[p] : SameWork(x, t)

\* Variant: no unique index on the open entries.
EntryNotIndexed(p, t) == TRUE

\* The insertion waits for a transaction with an uncommitted entry for the
\* same target and reason.
EntryFree(p, t) ==
  \A q \in Proc \ {p} : \A x \in mine[q] : ~SameWork(x, t)

Done(p, t) == todo' = [todo EXCEPT ![p] = @ \ {t}]

\* INSERT ... ON CONFLICT DO NOTHING inserts.
InsertEntry(p) ==
  /\ pc[p] = "enqueue"
  /\ todo[p] # {}
  /\ LET t == NextOf(todo[p]) IN
       /\ EntryFree(p, t) /\ ~IsOpen(t) /\ ~HasOwn(p, t)
       /\ mine' = [mine EXCEPT ![p] = @ \cup
            {[target |-> t.target, reason |-> t.reason, by |-> p, open |-> TRUE]}]
       /\ Done(p, t)
  /\ UNCHANGED <<setting, body, dbVars, pc, job, previous, captured, rows, told,
                 spent, history>>

\* It does nothing: the transaction has inserted the entry itself ...
OwnEntry(p) ==
  /\ pc[p] = "enqueue"
  /\ todo[p] # {}
  /\ HasOwn(p, NextOf(todo[p]))
  /\ Done(p, NextOf(todo[p]))
  /\ UNCHANGED <<setting, body, dbVars, pc, job, previous, captured, rows, mine,
                 told, spent, history>>

\* ... or an open entry exists, which the next statement reads.
Conflict(p) ==
  /\ pc[p] = "enqueue"
  /\ todo[p] # {}
  /\ IsOpen(NextOf(todo[p])) /\ ~HasOwn(p, NextOf(todo[p]))
  /\ Goto(p, "found")
  /\ UNCHANGED <<setting, body, dbVars, callVars, told, spent, history>>

ReadEntry(p) ==
  /\ pc[p] = "found"
  /\ IsOpen(NextOf(todo[p]))
  /\ Done(p, NextOf(todo[p]))
  /\ Goto(p, "enqueue")
  /\ UNCHANGED <<setting, body, dbVars, job, previous, captured, rows, mine,
                 told, spent, history>>

Copy(n, v) == [at |-> v, quote |-> evidence[n].quote, from |-> n]

\* The copies of some evidence, anchored in v.
CopiesOf(S, v) ==
  {s \in [1..Cardinality(S) -> {Copy(n, v) : n \in S}] :
     \A n \in S : \E i \in DOMAIN s : s[i] = Copy(n, v)}

\* Variant: only evidence that is found again gets an event.
ReportFound(p) ==
  LET kept == {n \in rows[p] : Reanchors(n, captured[p])}
      copies == CHOOSE s \in CopiesOf(kept, captured[p]) : TRUE
  IN  evidence' = evidence \o copies /\ outcomes' = outcomes \cup kept

\* Each span of the previous version gets an event, and a copy in the new
\* version if its quotation is found there.
Reanchor(p) ==
  LET kept == {n \in rows[p] : Reanchors(n, captured[p])}
      copies == CHOOSE s \in CopiesOf(kept, captured[p]) : TRUE
  IN  evidence' = evidence \o copies /\ outcomes' = outcomes \cup rows[p]

\* The search projection is not rebuilt.
CommitCapture(p) ==
  /\ pc[p] = "enqueue"
  /\ todo[p] = {}
  /\ Capturing(p)
  /\ Reanchor(p)
  /\ queue' = queue \cup mine[p]
  /\ Forget(p)
  /\ Goto(p, "complete")
  /\ UNCHANGED <<setting, body, versions, cites, receipt, projected, job,
                 previous, captured, told, spent, history>>

\* The entries, the completed key and the rebuilt projection of an enqueue.
CommitEnqueue(p) ==
  /\ pc[p] = "enqueue"
  /\ todo[p] = {}
  /\ ~Capturing(p)
  /\ queue' = queue \cup mine[p]
  /\ receipt' = IF job[p].key = NoKey THEN receipt
                ELSE receipt \cup {Result(p)}
  /\ projected' = DOMAIN evidence
  /\ End(p, FALSE)
  /\ UNCHANGED <<setting, body, versions, evidence, outcomes, cites, spent,
                 history>>

-----------------------------------------------------------------------------
(***************************************************************************)
(* Faults                                                                  *)
(***************************************************************************)

\* A refusal, a fetch or SQL error, a deadlock, or the entry that an
\* insertion ran into is gone when it is read: the transaction is rolled
\* back, and a capture goes on to release its key.
Fail(p) ==
  /\ pc[p] \in {"look", "fetch", "outcome"} \cup Writing
  /\ missed' = NowMissed(p)
  /\ IF Capturing(p)
       THEN /\ Forget(p)
            /\ Goto(p, "release")
            /\ UNCHANGED <<job, previous, captured, told>>
       ELSE End(p, FALSE)
  /\ UNCHANGED <<setting, body, dbVars, spent, leaked>>

\* An error outside the handler, in the transaction that completes or
\* releases the key, or in the one that reserves it.
FailUnhandled(p) ==
  /\ pc[p] \in {"reserve", "begin", "complete", "release"}
  /\ leaked' = NowLeaked(p)
  /\ End(p, FALSE)
  /\ UNCHANGED <<setting, body, dbVars, spent, missed>>

Crash(p) ==
  /\ pc[p] # "idle"
  /\ leaked' = NowLeaked(p)
  /\ missed' = NowMissed(p)
  /\ End(p, FALSE)
  /\ UNCHANGED <<setting, body, dbVars, spent>>

-----------------------------------------------------------------------------
(***************************************************************************)
(* The other actors                                                        *)
(***************************************************************************)

Spend(field) ==
  /\ spent[field] < setting[field]
  /\ spent' = [spent EXCEPT ![field] = @ + 1]

\* A reviewer dismisses an entry that is pending (ResearchReviewService).
Dismiss(x) ==
  /\ x.open
  /\ NobodyWrites
  /\ Spend("dismissals")
  /\ queue' = (queue \ {x}) \cup {[x EXCEPT !.open = FALSE]}
  /\ projected' = DOMAIN evidence
  /\ UNCHANGED <<setting, body, versions, evidence, outcomes, cites, receipt, pc,
                 callVars, told, history>>

\* Variant: the deposit leaves the projection to later writers.
CiteOnly(c, n) ==
  /\ n \notin cites[c]
  /\ NobodyWrites
  /\ Spend("citations")
  /\ cites' = [cites EXCEPT ![c] = @ \cup {n}]
  /\ UNCHANGED <<setting, body, versions, evidence, outcomes, queue, receipt,
                 projected, pc, callVars, told, history>>

\* A deposit makes a claim cite evidence in its new current revision.
Cite(c, n) ==
  /\ n \notin cites[c]
  /\ NobodyWrites
  /\ Spend("citations")
  /\ cites' = [cites EXCEPT ![c] = @ \cup {n}]
  /\ projected' = DOMAIN evidence
  /\ UNCHANGED <<setting, body, versions, evidence, outcomes, queue, receipt, pc,
                 callVars, told, history>>

\* The world changes.
Change(c) ==
  /\ c # body
  /\ Spend("changes")
  /\ body' = c
  /\ UNCHANGED <<setting, dbVars, pc, callVars, told, history>>

-----------------------------------------------------------------------------
Enqueue(p) ==
  \/ InsertEntry(p) \/ OwnEntry(p) \/ Conflict(p) \/ ReadEntry(p)
  \/ CommitCapture(p) \/ CommitEnqueue(p)

Step(p) ==
  \/ Replay(p) \/ Reserve(p) \/ Complete(p) \/ Release(p)
  \/ Look(p) \/ Store(p) \/ Verified(p) \/ Visit(p) \/ Resolve(p)
  \/ Enqueue(p)

Next ==
  \/ \E p \in Proc : \/ \E j \in setting.jobs[p] : Submit(p, j)
                     \/ Step(p)
                     \/ Fail(p) \/ FailUnhandled(p) \/ Crash(p)
  \/ \E x \in queue : Dismiss(x)
  \/ \E c \in Claim, n \in DOMAIN evidence : Cite(c, n)
  \/ \E c \in setting.bodies : Change(c)

Spec == Init /\ [][Next]_vars
-----------------------------------------------------------------------------
(***************************************************************************)
(* Properties                                                              *)
(***************************************************************************)

Span == [at : Content, quote : Quote, from : Nat]
Entry == [target : Entity, reason : Reason, by : Proc, open : BOOLEAN]
Task == [target : Entity, reason : Reason, because : Nat]

\* The shape of every reachable state.  What a process has read or inserted
\* outlives no transaction.
TypeOK ==
  /\ setting \in Setting
  /\ body \in Content \cup Gone
  /\ versions \in Seq(Content) /\ versions # <<>>
  /\ evidence \in Seq(Span)
  /\ outcomes \subseteq DOMAIN evidence
  /\ cites \in [Claim -> SUBSET DOMAIN evidence]
  /\ queue \subseteq Entry
  /\ receipt \subseteq [job : Job, by : Proc, done : BOOLEAN]
  /\ projected \subseteq DOMAIN evidence
  /\ pc \in [Proc -> Writing \cup Holding \cup {"idle", "begin", "reserve"}]
  /\ job \in [Proc -> Job \cup {NoJob}]
  /\ previous \in [Proc -> Content]
  /\ captured \in [Proc -> Content \cup Gone]
  /\ rows \in [Proc -> SUBSET DOMAIN evidence]
  /\ todo \in [Proc -> SUBSET Task]
  /\ mine \in [Proc -> SUBSET Entry]
  /\ leaked \subseteq Key
  /\ missed \subseteq Content
  /\ \A p \in Proc :
       /\ pc[p] # "idle" => job[p] \in Job
       /\ pc[p] \notin Writing => mine[p] = {} /\ rows[p] = {} /\ todo[p] = {}

\* Whoever enqueues and dismisses in whatever order, a record has at most
\* one open entry of each reason (idx_refresh_queue_unresolved_unique).
OneOpenEntry ==
  \A x, y \in queue : x.open /\ y.open /\ SameWork(x, y) => x = y

\* A key belongs to one request for ever, and while a process captures under
\* it, no other process does: the source is not captured twice for one key.  A
\* key that says "in progress" has a process that captures under it, unless a
\* crash or an error in the last transaction left it behind: an ordinary
\* failure gives the key back, so that the request can be repeated.
KeysAccounted ==
  /\ \A p, q \in Proc :
       Holds(p) /\ Holds(q) /\ job[p].key = job[q].key => p = q
  /\ \A x, y \in receipt : x.job.key = y.job.key => x = y
  /\ \A x \in receipt :
       x.done \/ x.job.key \in leaked
       \/ \E p \in Proc : Holds(p) /\ Reservation(p) = x

\* Evidence of a version that is not the latest any more has its outcome, or
\* a running capture owes it, or a fault between two of the transactions of a
\* capture has left it behind.
NoSilentChange ==
  \A n \in DOMAIN evidence :
    evidence[n].from = 0 /\ evidence[n].at # Latest =>
      \/ n \in outcomes
      \/ evidence[n].at \in missed
      \/ \E p \in Proc : Owes(p) /\ previous[p] = evidence[n].at

\* A client that was told "captured", and sees no other capture running, can
\* rely on the outcomes: the evidence of every older version was re-anchored
\* or reported ("creates new evidence and queues dependents",
\* test_reanchor.py:74).
CapturedIsReported ==
  \A p \in Proc :
    told[p] /\ (\A q \in Proc : ~Holds(q)) =>
      \A n \in DOMAIN evidence :
        evidence[n].from = 0 /\ evidence[n].at # Latest => n \in outcomes

\* Captures leave new evidence out of the search projection until somebody
\* else writes, but evidence that a claim relies on can always be found.
\* (A rebuild is one step here, as it is on SQLite.)
CitedIsSearchable == \A c \in Claim : cites[c] \subseteq projected
===============================================================================
