-------------------------------- MODULE Backfill --------------------------------
(***************************************************************************)
(* The upgrade of v1 rows to v2: run_v2_backfill (application/             *)
(* migrate_v2.py) over V2BackfillRepository (persistence/repositories.py), *)
(* beside the v1 service, whose writes project themselves once the         *)
(* backfill is complete (RegistryService.create_source, create_excerpt,    *)
(* create_claim, create_report), and the search index that every write and *)
(* the backfill rebuild (retrieval/projection.py).                         *)
(*                                                                         *)
(* A phase goes through the rows of one kind by id, in batches: a batch    *)
(* and the checkpoint behind it are one transaction.  Nothing keeps two    *)
(* runs apart.  What a row becomes in v2 is deterministic, so that v2 is   *)
(* the set of <<phase, item>> that are projected; an item is a row, or a   *)
(* claim with one of its excerpts.  Left out: warnings, the review and     *)
(* refresh state that a row brings along, the mirrors of review state, and *)
(* the documents of source versions and evidence.                          *)
(***************************************************************************)
EXTENDS Naturals, Sequences, FiniteSets

CONSTANTS
  Proc, Client, NoOne,
  Row,          \* ids, ordered as numbers
  NoRow,
  KindOf,       \* KindOf[r]: source, excerpt, claim or report
  Needs,        \* Needs[r]: the rows that r refers to
  EmptyQuote,   \* excerpts without a quote
  Supported,    \* claims that call themselves supported
  Place,        \* [backend, rows, adopted, agents, written, runs]: see place
  BatchSize

\* A variant: what shows a claim comes before its evidence.
PointersFirst ==
  <<"sources", "excerpts", "claims", "pointers", "links", "reports">>

BackfillPhases == <<"sources", "excerpts", "claims", "links", "pointers", "reports">>

Phase == {"sources", "excerpts", "claims", "links", "pointers", "reports"}

PhaseKind ==
  [sources |-> "source", excerpts |-> "excerpt", claims |-> "claim",
   links |-> "claim", pointers |-> "claim", reports |-> "report"]

ASSUME BackfillAssumption ==
  /\ Row \subseteq Nat \ {0} /\ IsFiniteSet(Row) /\ NoRow \notin Row
  /\ Proc \cap Client = {} /\ NoOne \notin Proc \cup Client
  /\ KindOf \in [Row -> {"source", "excerpt", "claim", "report"}]
  /\ Needs \in [Row -> SUBSET Row]
  /\ EmptyQuote \subseteq Row /\ Supported \subseteq Row
  /\ BatchSize \in Nat \ {0}
  /\ Place \subseteq [backend : {"sqlite", "postgres"},
                      rows : SUBSET Row, adopted : SUBSET Row,
                      agents : SUBSET (Proc \cup Client),
                      written : SUBSET Row, runs : Nat]
  /\ \A x \in Place : x.adopted \subseteq x.rows
  \* The v1 tables have foreign keys, and a deposit refuses a supported claim
  \* without evidence.
  /\ \A x \in Place : \A r \in x.rows : Needs[r] \subseteq x.rows
  /\ \A x \in Place : \A c \in x.adopted \cap Supported : Needs[c] # {}

VARIABLES
  place,     \* the database program, the rows that the upgrade finds, the ones
             \*   of them that v2 has without an identity; and the bounds: who
             \*   takes part, rows that may be written, runs that may start
  v1,        \* committed rows of the v1 tables
  v2,        \* <<phase, item>> that v2 represents
  errors,    \* <<phase, item>> that a backfill or a write gave up on
  progress,  \* progress[phase]: [status, last]
  run,       \* run[p]: a backfill: [pc, phase, last, batch]
  runs,      \* how many were started
  txn,       \* txn[c]: the open write of a client: [row, v2, errors]
  index,     \* index[a]: the rebuild of an agent: [at, docs, seen]
  search,    \* rows with a document in the search index
  lock,      \* who holds SQLite's write lock
  late,      \* history: rows whose write did not project them whole, and
             \*   that were not committed when the latest scan began
  everLate,  \* history: rows ever written while no backfill was complete
  overlapped,\* history: two backfills ran at once
  missed     \* history: rows that a rebuild open at the time may drop

vars == <<place, v1, v2, errors, progress, run, runs, txn, index, search, lock,
          late, everLate, overlapped, missed>>

Agent == Proc \cup Client

(***************************************************************************)
(* What a row becomes                                                      *)
(***************************************************************************)

OfKind(kind, rows) == {r \in rows : KindOf[r] = kind}

Items(phase, rows) ==
  IF phase = "links"
  THEN UNION {{c} \X Needs[c] : c \in OfKind("claim", rows)}
  ELSE {<<r, r>> : r \in OfKind(PhaseKind[phase], rows)}

Item == Row \X Row
Start == <<0, 0>>

Before(i, j) == i[1] < j[1] \/ (i[1] = j[1] /\ i[2] < j[2])

Batch(phase, last, rows) ==
  LET rest == {i \in Items(phase, rows) : Before(last, i)}
  IN  {i \in rest : Cardinality({j \in rest : Before(j, i)}) < BatchSize}

Checkpoint(batch) == CHOOSE i \in batch : \A j \in batch : ~Before(i, j)

Has(known, phase, r) == <<phase, <<r, r>>>> \in known

\* What each kind of row needs: an excerpt its quotation and the version of its
\* source, a supported claim an excerpt, a link both its ends, and the pointer
\* of a claim the revision.
ExcerptFits(i, known) ==
  /\ i[1] \notin EmptyQuote
  /\ \A s \in Needs[i[1]] : Has(known, "sources", s)
ClaimFits(i, known) ==
  i[1] \in Supported => \E e \in Needs[i[1]] : Has(known, "excerpts", e)
LinkFits(i, known) ==
  Has(known, "claims", i[1]) /\ Has(known, "excerpts", i[2])
PointerFits(i, known) == Has(known, "claims", i[1])

Fits(phase, i, known) ==
  \/ phase \in {"sources", "reports"}
  \/ phase = "excerpts" /\ ExcerptFits(i, known)
  \/ phase = "claims" /\ ClaimFits(i, known)
  \/ phase = "links" /\ LinkFits(i, known)
  \/ phase = "pointers" /\ PointerFits(i, known)

\* Whatever has a target is left as it is.
Representable(phase, i, known) ==
  <<phase, i>> \in known \/ Fits(phase, i, known)

Process(phase, items, known) ==
  LET good == {i \in items : Representable(phase, i, known)}
  IN  [v2 |-> {<<phase, i>> : i \in good},
       errors |-> {<<phase, i>> : i \in items \ good}]

\* The phase after what is done, on what is done.
Then(done, phase, rows) ==
  LET more == Process(phase, Items(phase, rows), done.v2)
  IN  [v2 |-> done.v2 \cup more.v2, errors |-> done.errors \cup more.errors]

\* A variant: the links of a written claim before the claim.
LinksFirst(done, r) ==
  Then(Then(Then(done, "links", {r}), "claims", {r}), "pointers", {r})

ProjectedClaim(done, r) ==
  Then(Then(Then(done, "claims", {r}), "links", {r}), "pointers", {r})

\* A row that is written once the backfill is complete projects itself.
Projected(r) ==
  LET done == [v2 |-> v2, errors |-> {}]
  IN  CASE KindOf[r] = "source"  -> Then(done, "sources", {r})
        [] KindOf[r] = "excerpt" -> Then(done, "excerpts", {r})
        [] KindOf[r] = "claim"   -> ProjectedClaim(done, r)
        [] KindOf[r] = "report"  -> Then(done, "reports", {r})

Adopted(rows) ==
  UNION {{phase} \X Items(phase, rows) :
           phase \in {"sources", "excerpts", "claims", "reports"}}

Ready == \A phase \in Phase : progress[phase].status = "completed"

(***************************************************************************)
(* Locks and the search index                                              *)
(***************************************************************************)

OnSqlite == place.backend = "sqlite"
CanLock(a) == OnSqlite => lock \in {a, NoOne}
Locked(a) == IF OnSqlite THEN a ELSE NoOne
Released(a) == IF lock = a THEN NoOne ELSE lock

\* Questions always have documents; excerpts have one once they are evidence.
Documents(rows) == {r \in rows : KindOf[r] # "excerpt"}

Closed == [at |-> "none", docs |-> {}, seen |-> {}]
NoTxn == [row |-> NoRow, v2 |-> {}, errors |-> {}]
NoRun == [pc |-> "idle", phase |-> 1, last |-> Start, batch |-> {}]

Own(a) == IF a \in Client /\ txn[a].row # NoRow THEN {txn[a].row} ELSE {}

\* A variant: the index is rebuilt before the row is inserted.
ReadTooEarly(a) ==
  index' = [index EXCEPT ![a] = [at |-> "read", docs |-> Documents(v1), seen |-> {}]]

ReadDocuments(a) ==
  index' = [index EXCEPT ![a] = [at |-> "read", docs |-> Documents(v1 \cup Own(a)),
                                 seen |-> {}]]

\* DELETE takes SQLite's lock and empties the index as it is then.  On
\* PostgreSQL it waits for another that deletes the same documents; it then
\* finds them gone, and does not see the ones that the other has put in.
DeleteDocuments(a) ==
  /\ index[a].at \in {"read", "passed"}
  /\ \A b \in Agent : index[b].at # "deleted"
  /\ CanLock(a)
  /\ lock' = Locked(a)
  /\ index' = [index EXCEPT ![a].at = "deleted",
                           ![a].seen = IF index[a].at = "read" THEN search ELSE {}]
  /\ UNCHANGED <<place, v1, v2, errors, progress, run, runs, txn, search, late,
                 everLate, overlapped, missed>>

Wait(a) ==
  /\ ~OnSqlite
  /\ index[a].at = "read" /\ \E b \in Agent : index[b].at = "deleted"
  /\ index' = [index EXCEPT ![a].at = "waiting"]
  /\ UNCHANGED <<place, v1, v2, errors, progress, run, runs, txn, search, lock,
                 late, everLate, overlapped, missed>>

Woken(b, at) ==
  IF index[b].at = "waiting" THEN [index[b] EXCEPT !.at = at] ELSE index[b]

\* An agent rolls back: whoever waits for it finds the documents still there.
Abandon(a) ==
  /\ index' = [b \in Agent |->
                 IF b = a THEN Closed
                 ELSE IF index[a].at = "deleted" THEN Woken(b, "read") ELSE index[b]]
  /\ lock' = Released(a)

\* Rows that another agent's rebuild has not read and has yet to delete.
AtRisk(a, rows) ==
  UNION {Documents(rows) \ index[b].docs :
           b \in {b \in Agent \ {a} : index[b].at = "read"}}

CommitDocuments(a, rows) ==
  /\ index[a].at = "deleted"
  /\ search' = index[a].docs \cup (search \ index[a].seen)
  /\ missed' = (missed \ index[a].docs) \cup AtRisk(a, rows)
  /\ index' = [b \in Agent |-> IF b = a THEN Closed ELSE Woken(b, "passed")]
  /\ lock' = Released(a)

(***************************************************************************)
(* The clients of the v1 service                                           *)
(***************************************************************************)

Begin(c, r) ==
  /\ txn[c] = NoTxn /\ index[c] = Closed
  /\ c \in place.agents /\ r \in place.written
  /\ r \notin v1 /\ \A d \in Client : txn[d].row # r
  /\ Needs[r] \subseteq v1
  /\ CanLock(c)
  /\ lock' = Locked(c)
  /\ IF Ready
     THEN LET done == Projected(r)
          IN  /\ txn' = [txn EXCEPT ![c] =
                           [row |-> r, v2 |-> done.v2, errors |-> done.errors]]
              /\ late' = IF done.errors = {} THEN late ELSE late \cup {r}
              /\ UNCHANGED everLate
     ELSE /\ txn' = [txn EXCEPT ![c].row = r]
          /\ late' = late \cup {r}
          /\ everLate' = everLate \cup {r}
  /\ UNCHANGED <<place, v1, v2, errors, progress, run, runs, index, search,
                 overlapped, missed>>

Read(c) ==
  /\ txn[c].row # NoRow /\ index[c].at = "none"
  /\ ReadDocuments(c)
  /\ UNCHANGED <<place, v1, v2, errors, progress, run, runs, txn, search, lock,
                 late, everLate, overlapped, missed>>

Commit(c) ==
  /\ v1' = v1 \cup Own(c)
  /\ v2' = v2 \cup txn[c].v2
  /\ errors' = errors \cup txn[c].errors
  /\ CommitDocuments(c, v1')
  /\ txn' = [txn EXCEPT ![c] = NoTxn]
  /\ UNCHANGED <<place, progress, run, runs, late, everLate, overlapped>>

\* The index is rebuilt alone (search rebuild): it reads before it has a lock.
Reindex(c) ==
  /\ c \in place.agents
  /\ txn[c] = NoTxn /\ index[c] = Closed
  /\ ReadDocuments(c)
  /\ UNCHANGED <<place, v1, v2, errors, progress, run, runs, txn, search, lock,
                 late, everLate, overlapped, missed>>

\* A client fails or dies: nothing of its transaction remains.
Rollback(c) ==
  /\ txn[c] # NoTxn \/ index[c] # Closed
  /\ late' = late \ Own(c)
  /\ txn' = [txn EXCEPT ![c] = NoTxn]
  /\ Abandon(c)
  /\ UNCHANGED <<place, v1, v2, errors, progress, run, runs, search, everLate,
                 overlapped, missed>>

(***************************************************************************)
(* A run of the backfill                                                   *)
(***************************************************************************)

Begun == \E phase \in Phase : progress[phase].status \in {"running", "completed"}

\* The rows that v2 knew before identities were kept are adopted, the progress
\* table is filled, and its state decides how the run goes on.
Open(p, resume) ==
  /\ p \in place.agents /\ runs < place.runs
  /\ run[p] = NoRun
  /\ CanLock(p) /\ lock # p
  /\ v2' = v2 \cup Adopted(place.adopted)
  /\ progress' = [phase \in Phase |->
                    IF progress[phase].status = "absent"
                    THEN [status |-> "pending", last |-> Start]
                    ELSE progress[phase]]
  /\ late' = IF progress' = progress THEN late ELSE late \ v1
  /\ runs' = runs + 1
  /\ overlapped' = (overlapped \/ \E q \in Proc \ {p} : run[q] # NoRun)
  /\ run' = IF Ready THEN [run EXCEPT ![p].pc = "opened"]
            ELSE IF Begun /\ ~resume THEN run
            ELSE [run EXCEPT ![p].pc = "scan"]
  /\ UNCHANGED <<place, v1, errors, txn, index, search, lock, everLate, missed>>

\* A variant: the checkpoints stay where they were.
ResetStatus(p) ==
  /\ run[p].pc = "opened"
  /\ CanLock(p)
  /\ progress' = [phase \in Phase |-> [progress[phase] EXCEPT !.status = "pending"]]
  /\ late' = late \ v1
  /\ run' = [run EXCEPT ![p].pc = "scan"]
  /\ UNCHANGED <<place, v1, v2, errors, runs, txn, index, search, lock, everLate,
                 overlapped, missed>>

\* All phases were complete: start over.
Reset(p) ==
  /\ run[p].pc = "opened"
  /\ CanLock(p)
  /\ progress' = [phase \in Phase |-> [status |-> "pending", last |-> Start]]
  /\ late' = late \ v1
  /\ run' = [run EXCEPT ![p].pc = "scan"]
  /\ UNCHANGED <<place, v1, v2, errors, runs, txn, index, search, lock, everLate,
                 overlapped, missed>>

Scanning(p) == run[p].pc = "scan" /\ run[p].phase <= Len(BackfillPhases)
Current(p) == BackfillPhases[run[p].phase]

\* The checkpoint and the rows behind it are read before anything is locked.
Fetch(p) ==
  /\ Scanning(p)
  /\ LET at == progress[Current(p)]
     IN  IF at.status = "completed"
         THEN run' = [run EXCEPT ![p].phase = @ + 1]
         ELSE run' = [run EXCEPT ![p].pc = "batch", ![p].last = at.last,
                                 ![p].batch = Batch(Current(p), at.last, v1)]
  /\ UNCHANGED <<place, v1, v2, errors, progress, runs, txn, index, search, lock,
                 late, everLate, overlapped, missed>>

\* The batch, and the checkpoint behind it, in one transaction.
Write(p) ==
  /\ run[p].pc = "batch"
  /\ CanLock(p)
  /\ LET phase == Current(p)
         batch == run[p].batch
         done == Process(phase, batch, v2)
     IN  IF batch = {}
         THEN /\ progress' = [progress EXCEPT ![phase] =
                                [status |-> "completed", last |-> run[p].last]]
              /\ run' = [run EXCEPT ![p] = [NoRun EXCEPT !.pc = "scan",
                                                        !.phase = run[p].phase + 1]]
              /\ UNCHANGED <<v2, errors>>
         ELSE /\ v2' = v2 \cup done.v2
              /\ errors' = errors \cup done.errors
              /\ progress' = [progress EXCEPT ![phase] =
                                [status |-> "running", last |-> Checkpoint(batch)]]
              /\ run' = [run EXCEPT ![p] = [NoRun EXCEPT !.pc = "scan",
                                                        !.phase = run[p].phase]]
  /\ UNCHANGED <<place, v1, runs, txn, index, search, lock, late, everLate,
                 overlapped, missed>>

\* The mirrors of review state are repaired, which takes SQLite's lock if
\* there is one to repair; then the index is rebuilt.
Finish(p) ==
  /\ run[p].pc = "scan" /\ run[p].phase > Len(BackfillPhases)
  /\ index[p] = Closed
  /\ IF \E x \in v2 : x[1] \in {"sources", "excerpts", "claims"}
     THEN CanLock(p) /\ lock' = Locked(p)
     ELSE UNCHANGED lock
  /\ ReadDocuments(p)
  /\ UNCHANGED <<place, v1, v2, errors, progress, run, runs, txn, search, late,
                 everLate, overlapped, missed>>

Done(p) ==
  /\ CommitDocuments(p, v1)
  /\ run' = [run EXCEPT ![p] = NoRun]
  /\ UNCHANGED <<place, v1, v2, errors, progress, runs, txn, late, everLate,
                 overlapped>>

\* The process fails or dies: what it has not committed is gone.
Interrupt(p) ==
  /\ run[p] # NoRun
  /\ run' = [run EXCEPT ![p] = NoRun]
  /\ Abandon(p)
  /\ UNCHANGED <<place, v1, v2, errors, progress, runs, txn, search, late,
                 everLate, overlapped, missed>>

(***************************************************************************)
(* The specification                                                       *)
(***************************************************************************)

\* Of an adopted row v2 has everything but its identity.  No document is there
\* before the first rebuild.
Init ==
  /\ place \in Place
  /\ v1 = place.rows
  /\ v2 = UNION {{phase} \X Items(phase, place.adopted) :
                   phase \in {"links", "pointers"}}
  /\ errors = {}
  /\ progress = [phase \in Phase |-> [status |-> "absent", last |-> Start]]
  /\ run = [p \in Proc |-> NoRun]
  /\ runs = 0
  /\ txn = [c \in Client |-> NoTxn]
  /\ index = [a \in Agent |-> Closed]
  /\ search = {}
  /\ lock = NoOne
  /\ late = {} /\ everLate = {}
  /\ overlapped = FALSE
  /\ missed = Documents(v1)

ClientStep(c) ==
  \/ \E r \in Row : Begin(c, r)
  \/ Read(c)
  \/ Reindex(c)
  \/ DeleteDocuments(c)
  \/ Wait(c)
  \/ Commit(c)
  \/ Rollback(c)

BackfillStep(p) ==
  \/ \E resume \in BOOLEAN : Open(p, resume)
  \/ Reset(p)
  \/ Fetch(p)
  \/ Write(p)
  \/ Finish(p)
  \/ DeleteDocuments(p)
  \/ Wait(p)
  \/ Done(p)
  \/ Interrupt(p)

Next ==
  \/ \E c \in Client : ClientStep(c)
  \/ \E p \in Proc : BackfillStep(p)

Spec == Init /\ [][Next]_vars

(***************************************************************************)
(* Properties                                                              *)
(***************************************************************************)

\* The variables have their types, and SQLite's lock is held exactly through
\* the transactions that have written: no step of a backfill, and no way to
\* end, leaves it taken.
TypeOK ==
  /\ place \in Place
  /\ v1 \in SUBSET Row
  /\ v2 \subseteq Phase \X Item /\ errors \subseteq Phase \X Item
  /\ progress \in [Phase -> [status : {"absent", "pending", "running", "completed"},
                            last : Item \cup {Start}]]
  /\ run \in [Proc -> [pc : {"idle", "opened", "scan", "batch"},
                       phase : 1 .. (Len(BackfillPhases) + 1),
                       last : Item \cup {Start}, batch : SUBSET Item]]
  /\ runs \in 0 .. place.runs
  /\ txn \in [Client -> [row : Row \cup {NoRow}, v2 : SUBSET (Phase \X Item),
                         errors : SUBSET (Phase \X Item)]]
  /\ index \in [Agent -> [at : {"none", "read", "waiting", "passed", "deleted"},
                          docs : SUBSET Row, seen : SUBSET Row]]
  /\ search \in SUBSET Row /\ missed \in SUBSET Row
  /\ late \in SUBSET Row /\ everLate \in SUBSET Row
  /\ overlapped \in BOOLEAN
  /\ lock \in Agent \cup {NoOne}
  /\ lock # NoOne => OnSqlite
  /\ OnSqlite => \A c \in Client :
       lock = c <=> txn[c].row # NoRow \/ index[c].at = "deleted"

\* What one run makes of these rows alone, phase by phase, beside the adopted.
Ideal(adopted, rows) ==
  LET old == [v2 |-> Adopted(adopted), errors |-> {}]
      evidence == Then(Then(old, "sources", rows), "excerpts", rows)
      claims == Then(Then(evidence, "claims", rows), "links", rows)
  IN  Then(Then(claims, "pointers", rows), "reports", rows).v2

\* However runs were interrupted, resumed and repeated, and whatever clients
\* wrote meanwhile, below the checkpoint too: when all phases are complete, v2
\* has what one undisturbed run makes of all rows, except of rows written
\* since the latest scan began that did not project themselves.  So a rerun brings
\* in those ("Rescanning also captures v1 rows written after the prior run",
\* migrate_v2.py:110).  Two runs at once may break it: one may complete a
\* phase that another has just reset.
OnlyLateRowsMissed ==
  Ready /\ ~overlapped => Ideal(place.adopted, v1 \ late) \subseteq v2

\* An error, which nothing ever resolves and which makes every later run
\* report "incomplete", stands for something that v2 cannot represent, or that
\* depended on a row written while a backfill was incomplete: neither the
\* order of phases nor an interruption nor a projected write makes others.
ErrorsAreReal == errors \cap Ideal(place.adopted, v1 \ everLate) = {}

\* A claim that calls itself supported becomes visible in v2, through its
\* pointer, with evidence linked to it and never before.
ShownWithEvidence ==
  ~overlapped =>
    \A c \in Supported :
      Has(v2, "pointers", c) => \E e \in Needs[c] : <<"links", <<c, e>>>> \in v2

\* Every committed source, claim and report is in the search index since the
\* rebuild that its own write did, unless a rebuild that had read before the
\* commit deletes after it: SQLite's reindex alone, or on PostgreSQL any write.
\* Then it is back with the next rebuild.
SearchCurrent ==
  Documents(v1) \subseteq search \cup missed
================================================================================
