----------------------------- MODULE RefreshProofs -----------------------------
(***************************************************************************)
(* Proofs about RefreshCapture, for any number of processes, keys,         *)
(* contents, quotations, claims and reports, on both databases; and about  *)
(* Anchoring, for any text, JSON document, quotation and selector.         *)
(***************************************************************************)
EXTENDS RefreshCapture, Anchoring, FiniteSetTheorems, SequenceTheorems,
        WellFoundedInduction, TLAPS

-----------------------------------------------------------------------------
(***************************************************************************)
(* Operators                                                               *)
(***************************************************************************)

\* A set of numbers has a least one.
LEMMA Least ==
  ASSUME NEW S \in SUBSET Nat, S # {}
  PROVE  \E m \in S : \A n \in S : m <= n
<1>1. \E m \in S : \A n \in S : ~ (<<n, m>> \in OpToRel(<, Nat))
  <2> HIDE DEF OpToRel
  <2>1. QED
    BY NatLessThanWellFounded, WFMin
<1>2. \A m, n \in Nat : <<n, m>> \in OpToRel(<, Nat) <=> n < m
  BY DEF OpToRel
<1>3. PICK m \in S : \A n \in S : ~ (<<n, m>> \in OpToRel(<, Nat))
  BY <1>1
<1>4. ASSUME NEW n \in S
      PROVE  m <= n
  <2>1. ~ (n < m)
    BY <1>2, <1>3
  <2>2. QED
    BY <2>1
<1>5. QED
  BY <1>4

\* A transaction with something to enqueue has a next item.
LEMMA NextIsOne ==
  ASSUME NEW S \in SUBSET Task, S # {}
  PROVE  NextOf(S) \in S
<1> DEFINE Causes == {t.because : t \in S}
<1>1. Causes \subseteq Nat /\ Causes # {}
  BY DEF Task
<1>2. PICK b \in Causes : \A c \in Causes : b <= c
  BY <1>1, Least
<1> DEFINE Firsts == {t \in S : t.because = b}
           Ranks == {Rank(t) : t \in Firsts}
<1>3. \A t \in S : Rank(t) \in 0..3
  BY DEF Rank
<1>4. Ranks \subseteq Nat /\ Ranks # {}
  BY <1>2, <1>3
<1>5. PICK r \in Ranks : \A s \in Ranks : r <= s
  BY <1>4, Least
<1>6. PICK t \in Firsts : Rank(t) = r
  BY <1>5
<1>7. ASSUME NEW u \in S
      PROVE  Before(t, u)
  <2>1. t.because = b /\ b \in Nat /\ u.because \in Nat /\ b <= u.because
    BY <1>1, <1>2, <1>6 DEF Task
  <2>2. CASE u.because = b
    BY <2>1, <2>2, <1>5, <1>6 DEF Before
  <2>3. CASE u.because # b
    BY <2>1, <2>3 DEF Before
  <2>4. QED
    BY <2>2, <2>3
<1>8. QED
  BY <1>6, <1>7 DEF NextOf

\* What a refresh of a record reaches are records.
LEMMA ExpandType ==
  ASSUME NEW root \in Entity, DOMAIN evidence \subseteq Nat
  PROVE  Expand(root) \subseteq Entity
<1> DEFINE spans == CASE root = Source -> DOMAIN evidence
                      [] root[1] = "evidence" -> {root[2]}
                      [] OTHER -> {}
           claims == IF root[1] = "claim" THEN {root[2]} ELSE ClaimsCiting(spans)
<1>1. spans \subseteq Nat
  BY DEF Entity, Source
<1>2. claims \subseteq Claim
  BY DEF Entity, Source, ClaimsCiting
<1>3. ReportsWith(claims) \subseteq Report
  BY DEF ReportsWith
<1>4. Expand(root) = {root} \cup ({"evidence"} \X spans)
                       \cup ({"claim"} \X claims)
                       \cup ({"report"} \X ReportsWith(claims))
  BY DEF Expand
<1> HIDE DEF spans, claims
<1>5. QED
  BY <1>1, <1>2, <1>3, <1>4 DEF Entity

LEMMA TasksType ==
  ASSUME NEW n \in Nat, NEW v, DOMAIN evidence \subseteq Nat
  PROVE  ToEnqueue(n, v) \subseteq Task
<1>1. Expand(EvidenceEntity(n)) \subseteq Entity
  BY ExpandType DEF EvidenceEntity, Entity
<1>2. Dependents(n) \subseteq Entity
  BY <1>1 DEF Dependents
<1>3. Unresolved(n, v) \in Reason
  BY DEF Unresolved, Reason
<1>4. QED
  BY <1>1, <1>2, <1>3 DEF ToEnqueue, Task, Reason

\* The copies of some evidence can be listed; they are new evidence with an
\* origin.
LEMMA CopiesType ==
  ASSUME NEW S \in SUBSET DOMAIN evidence, NEW v \in Content,
         evidence \in Seq(Span)
  PROVE  LET copies == CHOOSE s \in CopiesOf(S, v) : TRUE IN
         /\ copies \in Seq(Span)
         /\ \A i \in DOMAIN copies : copies[i].from # 0
<1>1. DOMAIN evidence = 1..Len(evidence) /\ Len(evidence) \in Nat
  OBVIOUS
<1>2. IsFiniteSet(S)
  <2>1. IsFiniteSet(1..Len(evidence))
    BY <1>1, FS_Interval
  <2>2. QED
    BY <1>1, <2>1, FS_Subset
<1>3. /\ Cardinality(S) \in Nat
      /\ ExistsBijection(1..Cardinality(S), S)
  BY <1>2, FS_CardinalityType
<1>4. PICK f \in [1..Cardinality(S) -> S] : \A n \in S : \E i \in 1..Cardinality(S) : f[i] = n
  BY <1>3 DEF ExistsBijection, Bijection, Surjection, Injection
<1> DEFINE s == [i \in 1..Cardinality(S) |-> Copy(f[i], v)]
<1>5. s \in CopiesOf(S, v)
  BY <1>4 DEF CopiesOf
<1>6. ASSUME NEW n \in S
      PROVE  Copy(n, v) \in Span /\ Copy(n, v).from # 0
  <2>1. evidence[n] \in Span /\ n \in Nat /\ n # 0
    BY <1>1
  <2>2. evidence[n].quote \in Quote
    BY <2>1 DEF Span
  <2>3. QED
    BY <2>1, <2>2 DEF Copy, Span
<1>7. CopiesOf(S, v) \subseteq Seq(Span)
  BY <1>3, <1>6 DEF CopiesOf
<1>8. \A c \in CopiesOf(S, v) : \A i \in DOMAIN c : c[i].from # 0
  BY <1>6 DEF CopiesOf
<1> DEFINE copies == CHOOSE c \in CopiesOf(S, v) : TRUE
<1>9. copies \in CopiesOf(S, v)
  BY <1>5
<1> HIDE DEF s, copies
<1>10. copies \in Seq(Span) /\ \A i \in DOMAIN copies : copies[i].from # 0
  BY <1>7, <1>8, <1>9
<1>11. QED
  BY <1>10 DEF copies

-----------------------------------------------------------------------------
(***************************************************************************)
(* Types                                                                   *)
(***************************************************************************)

\* A capture has a job with a key, an enqueue request waits at "begin".
InPlace ==
  \A p \in Proc :
    /\ pc[p] \in Holding \cup {"reserve"} => Capturing(p)
    /\ pc[p] = "begin" => ~Capturing(p)

Receipt == [job : Job, by : Proc, done : BOOLEAN]

LEMMA InitType == Init => TypeOK /\ InPlace
<1> SUFFICES ASSUME Init
             PROVE  TypeOK /\ InPlace
  OBVIOUS
<1>1. \A n \in DOMAIN FirstQuotes : FirstQuotes[n] \in Quote
  BY RefreshAssumption
<1>2. DOMAIN FirstQuotes = 1..Len(FirstQuotes) /\ Len(FirstQuotes) \in Nat
  BY RefreshAssumption
<1>3. evidence \in Seq(Span) /\ DOMAIN evidence = DOMAIN FirstQuotes
  BY <1>1, <1>2, RefreshAssumption DEF Init, Span
<1>4. setting.bodies \subseteq Content \cup Gone
  BY RefreshAssumption DEF Init
<1>5. QED
  BY <1>3, <1>4, RefreshAssumption DEF Init, TypeOK, Writing, Holding, InPlace

\* A call has a job, and if it holds a key there is one.
LEMMA KeyTypes ==
  ASSUME TypeOK, InPlace, NEW p \in Proc
  PROVE  /\ pc[p] # "idle" => job[p] \in Job
         /\ Capturing(p) => job[p].key \in Key
         /\ Holds(p) => job[p].key \in Key
         /\ pc[p] # "idle" => Reservation(p) \in Receipt /\ Result(p) \in Receipt
         /\ Holds(p) => Capturing(p)
<1>1. pc[p] # "idle" => job[p] \in Job
  BY DEF TypeOK
<1>2. Capturing(p) => job[p].key \in Key
  BY RefreshAssumption DEF Capturing, TypeOK
<1>3. Holds(p) => Capturing(p)
  BY DEF Holds, InPlace
<1>4. QED
  BY <1>1, <1>2, <1>3 DEF Reservation, Result, Receipt

\* A process leaves the locals of the others alone.
OthersSame(p) ==
  \A q \in Proc \ {p} :
    /\ pc'[q] = pc[q] /\ job'[q] = job[q]
    /\ previous'[q] = previous[q] /\ captured'[q] = captured[q]
    /\ rows'[q] = rows[q] /\ todo'[q] = todo[q] /\ mine'[q] = mine[q]

LocalsOK(p) ==
  /\ pc[p] \in Writing \cup Holding \cup {"idle", "begin", "reserve"}
  /\ job[p] \in Job \cup {NoJob}
  /\ previous[p] \in Content
  /\ captured[p] \in Content \cup Gone
  /\ rows[p] \subseteq DOMAIN evidence
  /\ todo[p] \subseteq Task
  /\ mine[p] \subseteq Entry
  /\ pc[p] # "idle" => job[p] \in Job
  /\ pc[p] \notin Writing => mine[p] = {} /\ rows[p] = {} /\ todo[p] = {}
  /\ pc[p] \in Holding \cup {"reserve"} => Capturing(p)
  /\ pc[p] = "begin" => ~Capturing(p)

SharedOK ==
  /\ setting \in Setting
  /\ body \in Content \cup Gone
  /\ versions \in Seq(Content) /\ versions # <<>>
  /\ evidence \in Seq(Span)
  /\ outcomes \subseteq DOMAIN evidence
  /\ cites \in [Claim -> SUBSET DOMAIN evidence]
  /\ queue \subseteq Entry
  /\ receipt \subseteq Receipt
  /\ projected \subseteq DOMAIN evidence
  /\ leaked \subseteq Key
  /\ missed \subseteq Content

LocalFunctions ==
  /\ pc = [p \in Proc |-> pc[p]] /\ job = [p \in Proc |-> job[p]]
  /\ previous = [p \in Proc |-> previous[p]]
  /\ captured = [p \in Proc |-> captured[p]]
  /\ rows = [p \in Proc |-> rows[p]]
  /\ todo = [p \in Proc |-> todo[p]]
  /\ mine = [p \in Proc |-> mine[p]]

AllOK == SharedOK /\ LocalFunctions /\ \A p \in Proc : LocalsOK(p)

LEMMA TypeParts == TypeOK /\ InPlace <=> AllOK
<1> USE DEF AllOK
<1>1. TypeOK /\ InPlace => SharedOK /\ LocalFunctions /\ \A p \in Proc : LocalsOK(p)
  BY DEF TypeOK, InPlace, SharedOK, LocalFunctions, LocalsOK, Receipt
<1>2. SharedOK /\ LocalFunctions /\ (\A p \in Proc : LocalsOK(p)) => TypeOK /\ InPlace
  <2> SUFFICES ASSUME SharedOK, LocalFunctions, \A p \in Proc : LocalsOK(p)
               PROVE  TypeOK /\ InPlace
    OBVIOUS
  <2> USE DEF LocalFunctions, LocalsOK
  <2>1. /\ pc \in [Proc -> Writing \cup Holding \cup {"idle", "begin", "reserve"}]
        /\ job \in [Proc -> Job \cup {NoJob}]
        /\ previous \in [Proc -> Content]
        /\ captured \in [Proc -> Content \cup Gone]
    OBVIOUS
  <2>2. /\ rows \in [Proc -> SUBSET DOMAIN evidence]
        /\ todo \in [Proc -> SUBSET Task]
        /\ mine \in [Proc -> SUBSET Entry]
    OBVIOUS
  <2>3. QED
    BY <2>1, <2>2 DEF TypeOK, InPlace, SharedOK, Receipt
<1>3. QED
  BY <1>1, <1>2

\* What a process may do.
Move(p) ==
  \/ \E j \in setting.jobs[p] : Submit(p, j)
  \/ Step(p) \/ Fail(p) \/ FailUnhandled(p) \/ Crash(p)

\* What the other actors may do.
Outside ==
  \/ \E x \in queue : Dismiss(x)
  \/ \E c \in Claim, n \in DOMAIN evidence : Cite(c, n)
  \/ \E c \in setting.bodies : Change(c)

LEMMA NextMoves == Next => (\E p \in Proc : Move(p)) \/ Outside
BY DEF Next, Move, Outside

LEMMA MoveFrame ==
  ASSUME TypeOK, NEW p \in Proc, Move(p)
  PROVE  LocalFunctions' /\ OthersSame(p)
<1> USE DEF TypeOK, LocalFunctions, OthersSame, Goto, dbVars, callVars
<1>1. CASE \E j \in setting.jobs[p] : Submit(p, j)
  <2>1. PICK j : Submit(p, j)
    BY <1>1
  <2>2. pc' = [pc EXCEPT ![p] = IF j.mode = "enqueue" THEN "begin" ELSE "reserve"]
    BY <2>1 DEF Submit
  <2>3. QED
    BY <2>1, <2>2 DEF Submit
<1>2. CASE Replay(p)
  <2>1. PICK success : End(p, success)
    BY <1>2 DEF Replay
  <2>2. QED
    BY <2>1 DEF End, Forget
<1>3. CASE Reserve(p)
  BY <1>3 DEF Reserve
<1>4. CASE Complete(p)
  BY <1>4 DEF Complete, End, Forget
<1>5. CASE Release(p)
  BY <1>5 DEF Release, End, Forget
<1>6. CASE Look(p)
  BY <1>6 DEF Look
<1>7. CASE Store(p)
  BY <1>7 DEF Store
<1>8. CASE Verified(p)
  BY <1>8 DEF Verified
<1>9. CASE Visit(p)
  BY <1>9 DEF Visit
<1>10. CASE Resolve(p)
  BY <1>10 DEF Resolve
<1>11. CASE InsertEntry(p)
  BY <1>11 DEF InsertEntry, Done
<1>12. CASE OwnEntry(p)
  BY <1>12 DEF OwnEntry, Done
<1>13. CASE Conflict(p)
  BY <1>13 DEF Conflict
<1>14. CASE ReadEntry(p)
  BY <1>14 DEF ReadEntry, Done
<1>15. CASE CommitCapture(p)
  BY <1>15 DEF CommitCapture, Forget, Reanchor
<1>16. CASE CommitEnqueue(p)
  BY <1>16 DEF CommitEnqueue, End, Forget
<1>17. CASE Fail(p)
  BY <1>17 DEF Fail, End, Forget
<1>18. CASE FailUnhandled(p)
  BY <1>18 DEF FailUnhandled, End, Forget
<1>19. CASE Crash(p)
  BY <1>19 DEF Crash, End, Forget
<1> QED
  BY <1>1, <1>2, <1>3, <1>4, <1>5, <1>6, <1>7, <1>8, <1>9, <1>10, <1>11, <1>12, <1>13, <1>14, <1>15, <1>16, <1>17, <1>18, <1>19 DEF Move, Step, Enqueue

\* Evidence is only added, by the commit of a capture, and all of it is a copy.
LEMMA EvidenceGrows ==
  ASSUME TypeOK, InPlace, NEW p \in Proc, CommitCapture(p)
  PROVE  /\ evidence' \in Seq(Span)
         /\ DOMAIN evidence \subseteq DOMAIN evidence'
         /\ \A n \in DOMAIN evidence : evidence'[n] = evidence[n]
         /\ \A n \in DOMAIN evidence' :
              n \notin DOMAIN evidence => evidence'[n].from # 0
         /\ outcomes' = outcomes \cup rows[p]
<1> DEFINE kept == {n \in rows[p] : Reanchors(n, captured[p])}
           copies == CHOOSE s \in CopiesOf(kept, captured[p]) : TRUE
<1>1. evidence' = evidence \o copies /\ outcomes' = outcomes \cup rows[p]
  BY DEF CommitCapture, Reanchor
<1>2. evidence \in Seq(Span) /\ kept \in SUBSET DOMAIN evidence
  BY DEF TypeOK
<1>3. CASE captured[p] \in Content
  <2>1. copies \in Seq(Span) /\ \A i \in DOMAIN copies : copies[i].from # 0
    BY <1>2, <1>3, CopiesType
  <2> HIDE DEF copies, kept
  <2>2. QED
    BY <1>1, <1>2, <2>1
<1>4. CASE captured[p] \notin Content
  <2>1. kept = {}
    BY <1>4 DEF TypeOK, Reanchors
  <2>2. Cardinality(kept) = 0
    BY <2>1, FS_EmptySet
  <2>3. 1..0 = {}
    OBVIOUS
  <2>4. {Copy(n, captured[p]) : n \in kept} = {}
    BY <2>1
  <2>5. CopiesOf(kept, captured[p]) =
          {s \in [1..0 -> {}] : \A n \in kept : \E k \in DOMAIN s : s[k] = Copy(n, captured[p])}
    BY <2>2, <2>4 DEF CopiesOf
  <2>6. [k \in 1..0 |-> k] \in [1..0 -> {}]
    BY <2>3
  <2>7. [k \in 1..0 |-> k] \in CopiesOf(kept, captured[p])
    BY <2>1, <2>5, <2>6
  <2>8. copies \in [1..0 -> {}]
    BY <2>5, <2>7
  <2> HIDE DEF copies, kept
  <2>9. copies \in Seq(Span) /\ Len(copies) = 0
    BY <2>3, <2>8
  <2>10. QED
    BY <1>1, <1>2, <2>9
<1>5. QED
  BY <1>3, <1>4

LEMMA SharedMove ==
  ASSUME TypeOK, InPlace, NEW p \in Proc, Move(p)
  PROVE  SharedOK' /\ DOMAIN evidence \subseteq DOMAIN evidence'
<1> USE DEF dbVars, callVars, history, SharedOK
<1>0. SharedOK
  BY TypeParts DEF AllOK
<1>1. CASE \E j \in setting.jobs[p] : Submit(p, j)
  BY <1>0, <1>1 DEF Submit
<1>2. CASE Replay(p)
  BY <1>0, <1>2 DEF Replay
<1>3. CASE Look(p)
  BY <1>0, <1>3 DEF Look
<1>4. CASE Verified(p)
  BY <1>0, <1>4 DEF Verified
<1>5. CASE Visit(p)
  BY <1>0, <1>5 DEF Visit
<1>6. CASE Resolve(p)
  BY <1>0, <1>6 DEF Resolve
<1>7. CASE InsertEntry(p)
  BY <1>0, <1>7 DEF InsertEntry
<1>8. CASE OwnEntry(p)
  BY <1>0, <1>8 DEF OwnEntry
<1>9. CASE Conflict(p)
  BY <1>0, <1>9 DEF Conflict
<1>10. CASE ReadEntry(p)
  BY <1>0, <1>10 DEF ReadEntry
<1>11. CASE Release(p)
  BY <1>0, <1>11 DEF Release
<1>12. CASE Reserve(p)
  BY <1>0, <1>12, KeyTypes DEF Reserve, Reservation, Receipt
<1>13. CASE Complete(p)
  BY <1>0, <1>13, KeyTypes DEF Complete
<1>14. CASE Store(p)
  <2>1. CASE body \in Gone \/ \E i \in DOMAIN versions : versions[i] = body
    BY <1>0, <1>14, <2>1 DEF Store
  <2>2. CASE body \notin Gone /\ versions' = Append(versions, body)
    <3>1. body \in Content /\ versions' \in Seq(Content) /\ versions' # <<>>
      BY <1>0, <2>2
    <3>2. QED
      BY <1>0, <3>1, <1>14, <2>2 DEF Store
  <2>3. QED
    BY <1>14, <2>1, <2>2 DEF Store
<1>15. CASE CommitCapture(p)
  <2>1. mine[p] \subseteq Entry /\ rows[p] \subseteq DOMAIN evidence
    BY DEF TypeOK
  <2>2. QED
    BY <1>0, <1>15, <2>1, EvidenceGrows DEF CommitCapture
<1>16. CASE CommitEnqueue(p)
  <2>1. mine[p] \subseteq Entry /\ Result(p) \in Receipt
    BY <1>16, KeyTypes DEF TypeOK, CommitEnqueue
  <2>2. QED
    BY <1>0, <1>16, <2>1 DEF CommitEnqueue
<1>17. CASE Fail(p)
  <2>1. previous[p] \in Content
    BY DEF TypeOK
  <2>2. QED
    BY <1>0, <1>17, <2>1 DEF Fail, NowMissed
<1>18. CASE FailUnhandled(p)
  BY <1>0, <1>18, KeyTypes DEF FailUnhandled, NowLeaked
<1>19. CASE Crash(p)
  <2>1. previous[p] \in Content
    BY DEF TypeOK
  <2>2. QED
    BY <1>0, <1>19, <2>1, KeyTypes DEF Crash, NowMissed, NowLeaked
<1> QED
  BY <1>1, <1>2, <1>3, <1>4, <1>5, <1>6, <1>7, <1>8, <1>9, <1>10, <1>11, <1>12, <1>13, <1>14, <1>15, <1>16, <1>17, <1>18, <1>19 DEF Move, Step, Enqueue

LEMMA LocalsMove ==
  ASSUME TypeOK, InPlace, NEW p \in Proc, Move(p)
  PROVE  LocalsOK(p)'
<1> USE DEF LocalsOK, Goto, Writing, Holding, Capturing
<1>0. LocalsOK(p) /\ LocalFunctions /\ SharedOK
  BY TypeParts DEF AllOK
<1>e. DOMAIN evidence \subseteq DOMAIN evidence' /\ DOMAIN evidence \subseteq Nat
  BY <1>0, SharedMove DEF SharedOK
<1>i. ASSUME NEW success, End(p, success)
      PROVE  LocalsOK(p)'
  BY <1>0, <1>i, RefreshAssumption DEF End, Forget, LocalFunctions
<1> USE DEF LocalFunctions
<1>1. CASE \E j \in setting.jobs[p] : Submit(p, j)
  <2>1. PICK j \in setting.jobs[p] : Submit(p, j)
    BY <1>1
  <2>2. j \in Job
    BY <1>0, RefreshAssumption DEF SharedOK
  <2>3. pc'[p] = (IF j.mode = "enqueue" THEN "begin" ELSE "reserve") /\ job'[p] = j
    BY <1>0, <2>1 DEF Submit
  <2>4. /\ UNCHANGED <<previous, captured, rows, todo, mine, evidence>>
        /\ pc[p] = "idle"
    BY <2>1 DEF Submit, dbVars
  <2>5. QED
    BY <1>0, <2>2, <2>3, <2>4, RefreshAssumption
<1>2. CASE Replay(p)
  BY <1>i, <1>2 DEF Replay
<1>3. CASE Complete(p)
  BY <1>i, <1>3 DEF Complete
<1>4. CASE Release(p)
  BY <1>i, <1>4 DEF Release
<1>5. CASE CommitEnqueue(p)
  BY <1>i, <1>5 DEF CommitEnqueue
<1>6. CASE FailUnhandled(p)
  BY <1>i, <1>6 DEF FailUnhandled
<1>7. CASE Crash(p)
  BY <1>i, <1>7 DEF Crash
<1>8. CASE Reserve(p)
  BY <1>0, <1>8 DEF Reserve, dbVars, callVars
<1>9. CASE Look(p)
  BY <1>0, <1>9 DEF Look, dbVars, callVars, Latest, SharedOK
<1>10. CASE Verified(p)
  BY <1>0, <1>10 DEF Verified, dbVars, callVars
<1>11. CASE Conflict(p)
  BY <1>0, <1>11 DEF Conflict, dbVars, callVars
<1>12. CASE OwnEntry(p)
  BY <1>0, <1>12 DEF OwnEntry, Done, dbVars
<1>13. CASE ReadEntry(p)
  BY <1>0, <1>13 DEF ReadEntry, Done, dbVars
<1>14. CASE Store(p)
  BY <1>0, <1>14 DEF Store, SharedOK
<1>15. CASE Visit(p)
  <2>1. EvidenceAt(previous[p]) \subseteq DOMAIN evidence
    BY DEF EvidenceAt
  <2>2. UNION {ToEnqueue(n, captured[p]) : n \in EvidenceAt(previous[p])} \subseteq Task
    BY <1>e, <2>1, TasksType
  <2> HIDE DEF Task
  <2>3. QED
    BY <1>0, <1>15, <2>1, <2>2 DEF Visit, dbVars
<1>16. CASE Resolve(p)
  <2>1. Expand(job[p].root) \subseteq Entity
    BY <1>0, <1>e, <1>16, RefreshAssumption, ExpandType DEF Resolve
  <2>2. {[target |-> x, reason |-> "manual", because |-> 0] :
           x \in Expand(job[p].root)} \subseteq Task
    BY <2>1 DEF Task, Reason
  <2>3. QED
    BY <1>0, <1>16, <2>2 DEF Resolve, dbVars
<1>17. CASE InsertEntry(p)
  <2>1. NextOf(todo[p]) \in todo[p]
    BY <1>0, <1>17, NextIsOne DEF InsertEntry
  <2>2. [target |-> NextOf(todo[p]).target, reason |-> NextOf(todo[p]).reason,
         by |-> p, open |-> TRUE] \in Entry
    BY <1>0, <2>1 DEF Task, Entry
  <2>3. QED
    BY <1>0, <1>17, <2>2 DEF InsertEntry, Done, dbVars
<1>18. CASE CommitCapture(p)
  BY <1>0, <1>e, <1>18 DEF CommitCapture, Forget
<1>19. CASE Fail(p)
  <2>1. CASE Capturing(p)
    BY <1>0, <1>19, <2>1 DEF Fail, Forget, dbVars
  <2>2. CASE ~Capturing(p)
    BY <1>i, <1>19, <2>2 DEF Fail
  <2>3. QED
    BY <2>1, <2>2
<1> QED
  BY <1>1, <1>2, <1>3, <1>4, <1>5, <1>6, <1>7, <1>8, <1>9, <1>10, <1>11,
     <1>12, <1>13, <1>14, <1>15, <1>16, <1>17, <1>18, <1>19
  DEF Move, Step, Enqueue

LEMMA OutsideFrame ==
  ASSUME TypeOK, InPlace, Outside
  PROVE  /\ SharedOK'
         /\ UNCHANGED <<pc, callVars, versions, evidence, outcomes, receipt, history>>
<1>0. SharedOK
  BY TypeParts DEF AllOK
<1> USE DEF SharedOK, dbVars
<1>1. ASSUME NEW x \in queue, Dismiss(x)
      PROVE  SharedOK'
  BY <1>0, <1>1 DEF Dismiss, Entry, history
<1>2. ASSUME NEW c \in Claim, NEW n \in DOMAIN evidence, Cite(c, n)
      PROVE  SharedOK'
  BY <1>0, <1>2 DEF Cite, history
<1>3. ASSUME NEW c \in setting.bodies, Change(c)
      PROVE  SharedOK'
  BY <1>0, <1>3, RefreshAssumption DEF Change, history
<1>4. UNCHANGED <<pc, callVars, versions, evidence, outcomes, receipt, history>>
  BY DEF Outside, Dismiss, Cite, Change
<1>5. QED
  BY <1>1, <1>2, <1>3, <1>4 DEF Outside

LEMMA TypeStep == TypeOK /\ InPlace /\ [Next]_vars => TypeOK' /\ InPlace'
<1> SUFFICES ASSUME TypeOK, InPlace, [Next]_vars
             PROVE  TypeOK' /\ InPlace'
  OBVIOUS
<1>0. SharedOK /\ LocalFunctions /\ \A p \in Proc : LocalsOK(p)
  BY TypeParts DEF AllOK
<1>1. ASSUME NEW p \in Proc, Move(p)
      PROVE  TypeOK' /\ InPlace'
  <2>1. /\ SharedOK' /\ DOMAIN evidence \subseteq DOMAIN evidence'
        /\ LocalFunctions' /\ OthersSame(p) /\ LocalsOK(p)'
    BY <1>1, SharedMove, MoveFrame, LocalsMove
  <2>2. ASSUME NEW q \in Proc \ {p}
        PROVE  LocalsOK(q)'
    BY <1>0, <2>1 DEF OthersSame, LocalsOK, Capturing
  <2>3. AllOK'
    BY <2>1, <2>2 DEF AllOK
  <2>4. QED
    BY <2>3, TypeParts, PTL
<1>2. CASE Outside
  <2>1. SharedOK' /\ UNCHANGED <<pc, callVars, evidence>>
    BY <1>2, OutsideFrame
  <2>2. LocalFunctions' /\ \A p \in Proc : LocalsOK(p)'
    BY <1>0, <2>1 DEF LocalFunctions, LocalsOK, Capturing, callVars
  <2>3. AllOK'
    BY <2>1, <2>2 DEF AllOK
  <2>4. QED
    BY <2>3, TypeParts, PTL
<1>3. CASE UNCHANGED vars
  BY <1>3 DEF vars, dbVars, callVars, history, TypeOK, InPlace, Capturing
<1>4. QED
  BY <1>1, <1>2, <1>3, NextMoves

\* Every state has its shape, whatever fails in between: what a transaction has
\* read or inserted outlives no transaction.
THEOREM TypeCorrect == Spec => []TypeOK
<1>1. Spec => [](TypeOK /\ InPlace)
  BY InitType, TypeStep, PTL DEF Spec
<1>2. QED
  BY <1>1, PTL

-----------------------------------------------------------------------------
(***************************************************************************)
(* The queue                                                               *)
(***************************************************************************)

\* What a transaction has inserted and not committed is open, neither in the
\* queue nor in another transaction.
EntriesOK ==
  /\ OneOpenEntry
  /\ \A p \in Proc : \A x \in mine[p] : x.open /\ ~IsOpen(x)
  /\ \A p, q \in Proc : \A x \in mine[p], y \in mine[q] :
       SameWork(x, y) => p = q /\ x = y

LEMMA EntriesStay ==
  ASSUME TypeOK, EntriesOK, queue' = queue, mine' \in [Proc -> SUBSET Entry],
         \A p \in Proc : mine'[p] \subseteq mine[p]
  PROVE  EntriesOK'
BY DEF EntriesOK, OneOpenEntry, IsOpen

\* The entries of p become visible, and p forgets them.
LEMMA EntriesCommit ==
  ASSUME TypeOK, EntriesOK, NEW p \in Proc, queue' = queue \cup mine[p],
         mine' = [mine EXCEPT ![p] = {}]
  PROVE  EntriesOK'
<1>1. OneOpenEntry'
  <2> SUFFICES ASSUME NEW x \in queue', NEW y \in queue',
                      x.open, y.open, SameWork(x, y)
               PROVE  x = y
    BY DEF OneOpenEntry, SameWork
  <2>1. CASE x \in queue /\ y \in queue
    BY <2>1 DEF EntriesOK, OneOpenEntry
  <2>2. CASE x \in mine[p] /\ y \in mine[p]
    BY <2>2 DEF EntriesOK
  <2>3. CASE x \in queue /\ y \in mine[p]
    BY <2>3 DEF EntriesOK, IsOpen
  <2>4. CASE x \in mine[p] /\ y \in queue
    BY <2>4 DEF EntriesOK, IsOpen, SameWork
  <2>5. QED
    BY <2>1, <2>2, <2>3, <2>4
<1>2. ASSUME NEW q \in Proc, NEW x \in mine'[q]
      PROVE  x.open /\ ~IsOpen(x)'
  <2>1. q # p /\ x \in mine[q]
    BY <1>2 DEF TypeOK
  <2>2. x.open /\ ~IsOpen(x)
    BY <2>1 DEF EntriesOK
  <2>3. \A y \in mine[p] : ~SameWork(y, x)
    BY <2>1 DEF EntriesOK
  <2>4. QED
    BY <2>2, <2>3 DEF IsOpen, SameWork
<1>3. \A q, r \in Proc : \A x \in mine'[q], y \in mine'[r] :
        SameWork(x, y) => q = r /\ x = y
  BY DEF EntriesOK, TypeOK
<1>4. QED
  BY <1>1, <1>2, <1>3 DEF EntriesOK, SameWork

LEMMA EntriesInsert ==
  ASSUME TypeOK, EntriesOK, NEW p \in Proc, InsertEntry(p)
  PROVE  EntriesOK'
<1> DEFINE t == NextOf(todo[p])
           e == [target |-> t.target, reason |-> t.reason, by |-> p, open |-> TRUE]
<1>1. /\ EntryFree(p, t) /\ ~IsOpen(t) /\ ~HasOwn(p, t)
      /\ mine' = [mine EXCEPT ![p] = @ \cup {e}]
      /\ queue' = queue
  BY DEF InsertEntry, dbVars
<1> HIDE DEF t
<1>2. OneOpenEntry'
  BY <1>1 DEF EntriesOK, OneOpenEntry, SameWork
<1>3. ASSUME NEW q \in Proc, NEW x \in mine'[q]
      PROVE  x.open /\ ~IsOpen(x)'
  <2>1. CASE x \in mine[q]
    BY <1>1, <2>1 DEF EntriesOK, IsOpen, SameWork
  <2>2. CASE x = e
    BY <1>1, <2>2 DEF IsOpen, SameWork
  <2>3. QED
    BY <1>1, <2>1, <2>2 DEF TypeOK
<1>4. ASSUME NEW q \in Proc, NEW r \in Proc,
             NEW x \in mine'[q], NEW y \in mine'[r], SameWork(x, y)
      PROVE  q = r /\ x = y
  <2>1. CASE x \in mine[q] /\ y \in mine[r]
    BY <1>4, <2>1 DEF EntriesOK
  <2>2. CASE x = e /\ q = p /\ y \in mine[r]
    <3>1. SameWork(y, t)
      BY <1>4, <2>2 DEF SameWork
    <3>2. QED
      BY <1>1, <2>2, <3>1 DEF EntryFree, HasOwn
  <2>3. CASE x \in mine[q] /\ y = e /\ r = p
    <3>1. SameWork(x, t)
      BY <1>4, <2>3 DEF SameWork
    <3>2. QED
      BY <1>1, <2>3, <3>1 DEF EntryFree, HasOwn
  <2>4. CASE x = e /\ q = p /\ y = e /\ r = p
    BY <2>4
  <2>5. QED
    BY <1>1, <2>1, <2>2, <2>3, <2>4 DEF TypeOK
<1>5. QED
  BY <1>2, <1>3, <1>4 DEF EntriesOK, SameWork

LEMMA EntriesStep == TypeOK /\ InPlace /\ EntriesOK /\ [Next]_vars => EntriesOK'
<1> SUFFICES ASSUME TypeOK, InPlace, EntriesOK, [Next]_vars
             PROVE  EntriesOK'
  OBVIOUS
<1>1. ASSUME NEW p \in Proc, Move(p)
      PROVE  EntriesOK'
  <2>1. CASE InsertEntry(p)
    BY <2>1, EntriesInsert
  <2>2. CASE CommitCapture(p)
    BY <2>2, EntriesCommit DEF CommitCapture, Forget
  <2>3. CASE CommitEnqueue(p)
    BY <2>3, EntriesCommit DEF CommitEnqueue, End, Forget
  <2>4. ASSUME ~InsertEntry(p), ~CommitCapture(p), ~CommitEnqueue(p)
        PROVE  EntriesOK'
    <3>1. queue' = queue
      BY <1>1, <2>4 DEF Move, Step, Enqueue, Submit, Replay, Reserve, Complete,
         Release, Look, Store, Verified, Visit, Resolve, OwnEntry, Conflict,
         ReadEntry, Fail, FailUnhandled, Crash, dbVars
    <3>2. mine' = mine \/ mine' = [mine EXCEPT ![p] = {}]
      BY <1>1, <2>4 DEF Move, Step, Enqueue, Submit, Replay, Reserve, Complete,
         Release, Look, Store, Verified, Visit, Resolve, OwnEntry, Conflict,
         ReadEntry, Fail, FailUnhandled, Crash, End, Forget, callVars
    <3>3. QED
      BY <3>1, <3>2, EntriesStay DEF TypeOK
  <2>5. QED
    BY <2>1, <2>2, <2>3, <2>4
<1>2. CASE Outside
  <2>1. mine' = mine
    BY <1>2, OutsideFrame DEF callVars
  <2>2. CASE queue' = queue
    BY <2>1, <2>2, EntriesStay DEF TypeOK
  <2>3. ASSUME NEW x \in queue, Dismiss(x)
        PROVE  EntriesOK'
    <3>1. queue' = (queue \ {x}) \cup {[x EXCEPT !.open = FALSE]}
      BY <2>3 DEF Dismiss
    <3>2. \A y \in queue' : y.open => y \in queue
      BY <3>1 DEF TypeOK, Entry
    <3>3. QED
      BY <2>1, <3>2 DEF EntriesOK, OneOpenEntry, IsOpen
  <2>4. QED
    BY <1>2, <2>2, <2>3 DEF Outside, Cite, Change, dbVars
<1>3. CASE UNCHANGED vars
  BY <1>3 DEF vars, dbVars, callVars, EntriesOK, OneOpenEntry, IsOpen
<1>4. QED
  BY <1>1, <1>2, <1>3, NextMoves

\* Whoever enqueues, captures and dismisses in whatever order, on either
\* database, a record never has two open entries of one reason.
THEOREM EntriesUnique == Spec => []OneOpenEntry
<1>1. Init => EntriesOK
  BY DEF Init, EntriesOK, OneOpenEntry
<1>2. Spec => [](TypeOK /\ InPlace /\ EntriesOK)
  BY <1>1, InitType, TypeStep, EntriesStep, PTL DEF Spec
<1>3. EntriesOK => OneOpenEntry
  BY DEF EntriesOK
<1>4. QED
  BY <1>2, <1>3, PTL

-----------------------------------------------------------------------------
(***************************************************************************)
(* The search projection                                                   *)
(***************************************************************************)

LEMMA SearchStep ==
  TypeOK /\ InPlace /\ CitedIsSearchable /\ [Next]_vars => CitedIsSearchable'
<1> SUFFICES ASSUME TypeOK, InPlace, CitedIsSearchable, [Next]_vars
             PROVE  CitedIsSearchable'
  OBVIOUS
<1>0. /\ \A c \in Claim : cites[c] \subseteq DOMAIN evidence
      /\ \A c \in Claim : cites[c] \subseteq projected
  BY DEF TypeOK, CitedIsSearchable
<1>1. ASSUME NEW p \in Proc, Move(p)
      PROVE  CitedIsSearchable'
  <2>1. /\ cites' = cites
        /\ projected' = projected \/ projected' = DOMAIN evidence
    BY <1>1 DEF Move, Step, Enqueue, Submit, Replay, Reserve, Complete, Release,
       Look, Store, Verified, Visit, Resolve, InsertEntry, OwnEntry, Conflict,
       ReadEntry, CommitCapture, CommitEnqueue, Fail, FailUnhandled, Crash, dbVars
  <2>2. QED
    BY <1>0, <2>1 DEF CitedIsSearchable
<1>2. CASE Outside
  <2>1. ASSUME NEW c \in Claim, NEW n \in DOMAIN evidence, Cite(c, n)
        PROVE  CitedIsSearchable'
    <3>1. cites' = [cites EXCEPT ![c] = @ \cup {n}] /\ projected' = DOMAIN evidence
      BY <2>1 DEF Cite
    <3>2. QED
      BY <1>0, <3>1 DEF CitedIsSearchable, TypeOK
  <2>2. QED
    BY <1>0, <1>2, <2>1 DEF Outside, Dismiss, Change, dbVars, CitedIsSearchable
<1>3. CASE UNCHANGED vars
  BY <1>3 DEF vars, dbVars, CitedIsSearchable
<1>4. QED
  BY <1>1, <1>2, <1>3, NextMoves

\* Captures that leave their copies out of the projection never hide evidence
\* that the current revision of a claim cites.
THEOREM CitedStaysSearchable == Spec => []CitedIsSearchable
<1>1. Init => CitedIsSearchable
  BY RefreshAssumption DEF Init, CitedIsSearchable
<1>2. Spec => [](TypeOK /\ InPlace /\ CitedIsSearchable)
  BY <1>1, InitType, TypeStep, SearchStep, PTL DEF Spec
<1>3. QED
  BY <1>2, PTL

-----------------------------------------------------------------------------
(***************************************************************************)
(* Keys                                                                    *)
(***************************************************************************)

\* An enqueue request that writes.
Enqueuing(p) == pc[p] \in Writing /\ ~Capturing(p)

\* No request has used the key so far.
NeverReceived(k) == \A x \in receipt : x.job.key # k

Accounted(x) ==
  x.done \/ x.job.key \in leaked \/ \E p \in Proc : Holds(p) /\ Reservation(p) = x

\* Whoever captures has its reservation among the receipts; an enqueue request
\* that writes has found its key free, and nobody takes it meanwhile.
KeysOK ==
  /\ \A p \in Proc : Holds(p) => Reservation(p) \in receipt
  /\ \A x, y \in receipt : x.job.key = y.job.key => x = y
  /\ \A x \in receipt : Accounted(x)
  /\ \A p \in Proc : Enqueuing(p) /\ job[p].key # NoKey => NeverReceived(job[p].key)
  /\ \A p, q \in Proc :
       Enqueuing(p) /\ Enqueuing(q) /\ job[p].key = job[q].key /\ job[p].key # NoKey
         => p = q

LEMMA KeysImply == TypeOK /\ InPlace /\ KeysOK => KeysAccounted
<1> SUFFICES ASSUME TypeOK, InPlace, KeysOK
             PROVE  KeysAccounted
  OBVIOUS
<1>1. ASSUME NEW p \in Proc, NEW q \in Proc, Holds(p), Holds(q),
             job[p].key = job[q].key
      PROVE  p = q
  <2>1. Reservation(p) \in receipt /\ Reservation(q) \in receipt
    BY <1>1 DEF KeysOK
  <2>2. Reservation(p) = Reservation(q)
    BY <1>1, <2>1 DEF KeysOK, Reservation
  <2>3. QED
    BY <2>2 DEF Reservation
<1>2. QED
  BY <1>1 DEF KeysOK, KeysAccounted, Accounted

\* The transactions of p do not touch the receipts, and whoever held its key
\* holds it still, or leaves it behind.
LEMMA KeysStay ==
  ASSUME TypeOK, InPlace, KeysOK, NEW p \in Proc, OthersSame(p), receipt' = receipt,
         leaked \subseteq leaked',
         Holds(p) => (job'[p] = job[p] /\ Holds(p)') \/ job[p].key \in leaked',
         Holds(p)' => Holds(p) /\ job'[p] = job[p],
         Enqueuing(p)' => Enqueuing(p) /\ job'[p] = job[p]
  PROVE  KeysOK'
<1>1. ASSUME NEW q \in Proc, q # p
      PROVE  /\ Holds(q)' <=> Holds(q)
             /\ Enqueuing(q)' <=> Enqueuing(q)
             /\ Reservation(q)' = Reservation(q)
             /\ job'[q] = job[q]
  BY <1>1 DEF OthersSame, Holds, Enqueuing, Capturing, Reservation
<1>2. Holds(p)' => Reservation(p)' = Reservation(p)
  BY DEF Reservation
<1>3. \A q \in Proc : Holds(q)' => Holds(q) /\ Reservation(q)' = Reservation(q)
  BY <1>1, <1>2
<1>4. \A x \in receipt' : Accounted(x)'
  <2> SUFFICES ASSUME NEW x \in receipt, ~x.done, x.job.key \notin leaked'
               PROVE  \E q \in Proc : Holds(q)' /\ Reservation(q)' = x
    BY DEF Accounted
  <2>1. PICK q \in Proc : Holds(q) /\ Reservation(q) = x
    BY DEF KeysOK, Accounted
  <2>2. CASE q = p
    <3>1. x.job = job[p]
      BY <2>1, <2>2 DEF Reservation
    <3>2. QED
      BY <2>1, <2>2, <3>1, <1>2
  <2>3. CASE q # p
    BY <2>1, <2>3, <1>1
  <2>4. QED
    BY <2>2, <2>3
<1>5. \A q \in Proc : Enqueuing(q)' => Enqueuing(q) /\ job'[q] = job[q]
  BY <1>1
<1>6. QED
  BY <1>3, <1>4, <1>5 DEF KeysOK, NeverReceived

LEMMA KeysReserve ==
  ASSUME TypeOK, InPlace, KeysOK, NEW p \in Proc, Reserve(p)
  PROVE  KeysOK'
<1>1. /\ receipt' = receipt \cup {Reservation(p)}
      /\ NeverReceived(job[p].key)
      /\ UNCHANGED <<job, leaked>>
      /\ pc' = [pc EXCEPT ![p] = "look"]
      /\ pc[p] = "reserve" /\ Capturing(p) /\ KeyFree(p)
  BY DEF Reserve, Reservation, Goto, callVars, history, InPlace, ReceiptsOf, NeverReceived
<1>2. \A q \in Proc : q # p =>
        (Holds(q)' <=> Holds(q)) /\ (Enqueuing(q)' <=> Enqueuing(q))
  BY <1>1 DEF Holds, Enqueuing, Capturing, TypeOK
<1>3. Holds(p)' /\ ~Holds(p) /\ ~Enqueuing(p)'
  BY <1>1 DEF Holds, Enqueuing, Capturing, TypeOK, Holding, Writing
<1>4. \A q \in Proc : Reservation(q)' = Reservation(q)
  BY <1>1 DEF Reservation
<1>5. job[p].key \in Key
  BY <1>1, KeyTypes
<1>6. \A q \in Proc : Holds(q)' => Reservation(q)' \in receipt'
  BY <1>1, <1>2, <1>4 DEF KeysOK
<1>7. \A x, y \in receipt' : x.job.key = y.job.key => x = y
  <2>1. Reservation(p).job.key = job[p].key
    BY DEF Reservation
  <2>2. \A x \in receipt : x.job.key # Reservation(p).job.key
    BY <1>1, <2>1 DEF NeverReceived
  <2>3. \A x, y \in receipt : x.job.key = y.job.key => x = y
    BY DEF KeysOK
  <2>4. QED
    BY <1>1, <2>2, <2>3
<1>8. ASSUME NEW x \in receipt'
      PROVE  Accounted(x)'
  <2>1. CASE x = Reservation(p)
    BY <2>1, <1>3, <1>4 DEF Accounted
  <2>2. CASE x \in receipt
    <3>1. Accounted(x)
      BY <2>2 DEF KeysOK
    <3>2. QED
      BY <3>1, <1>1, <1>2, <1>3, <1>4 DEF Accounted
  <2>3. QED
    BY <1>1, <2>1, <2>2
<1>9. \A q \in Proc : Enqueuing(q)' => q # p /\ Enqueuing(q)
  BY <1>2, <1>3
<1>10. \A q \in Proc : q # p /\ Enqueuing(q) /\ job[q].key # NoKey
                        => job[q].key # job[p].key
  <2>1. \A q \in Proc : Enqueuing(q) => job[q].mode = "enqueue"
    BY RefreshAssumption DEF Enqueuing, Capturing, TypeOK, Writing
  <2>2. QED
    BY <2>1, <1>1, <1>5, RefreshAssumption DEF KeyFree, Enqueuing
<1>11. \A q \in Proc : Enqueuing(q)' /\ job'[q].key # NoKey => NeverReceived(job[q].key)'
  <2>1. Reservation(p).job.key = job[p].key
    BY DEF Reservation
  <2>2. QED
    BY <1>1, <1>9, <1>10, <2>1 DEF KeysOK, NeverReceived
<1>12. QED
  BY <1>1, <1>6, <1>7, <1>8, <1>9, <1>11 DEF KeysOK

\* A reservation is taken back, or becomes a result.
LEMMA KeysEnd ==
  ASSUME TypeOK, InPlace, KeysOK, NEW p \in Proc, OthersSame(p),
         Holds(p), pc'[p] = "idle", UNCHANGED leaked,
         \/ receipt' = receipt \ {Reservation(p)}
         \/ receipt' = (receipt \ {Reservation(p)}) \cup {Result(p)}
  PROVE  KeysOK'
<1>1. ASSUME NEW q \in Proc, q # p
      PROVE  /\ Holds(q)' <=> Holds(q)
             /\ Enqueuing(q)' <=> Enqueuing(q)
             /\ Reservation(q)' = Reservation(q)
             /\ Reservation(q) # Reservation(p)
             /\ job'[q] = job[q]
  BY <1>1 DEF OthersSame, Holds, Enqueuing, Capturing, Reservation
<1>2. ~Holds(p)' /\ ~Enqueuing(p)'
  BY DEF Holds, Holding, Writing, Enqueuing
<1>3. Reservation(p) \in receipt
  BY DEF KeysOK
<1>4. Result(p).job = Reservation(p).job /\ Result(p).done
  BY DEF Result, Reservation
<1>5. \A q \in Proc : Holds(q)' => Reservation(q)' \in receipt'
  BY <1>1, <1>2 DEF KeysOK
<1>6. \A x, y \in receipt' : x.job.key = y.job.key => x = y
  BY <1>3, <1>4 DEF KeysOK
<1>7. ASSUME NEW x \in receipt'
      PROVE  Accounted(x)'
  <2>1. CASE x = Result(p)
    BY <2>1, <1>4 DEF Accounted
  <2>2. CASE x \in receipt /\ x # Reservation(p)
    <3>1. Accounted(x)
      BY <2>2 DEF KeysOK
    <3>2. QED
      BY <3>1, <2>2, <1>1 DEF Accounted
  <2>3. QED
    BY <2>1, <2>2
<1>8. \A k : NeverReceived(k) => NeverReceived(k)'
  BY <1>3, <1>4 DEF NeverReceived
<1>9. \A q \in Proc : Enqueuing(q)' => Enqueuing(q) /\ job'[q] = job[q]
  BY <1>1, <1>2
<1>10. \A q \in Proc : Enqueuing(q)' /\ job'[q].key # NoKey
                        => NeverReceived(job[q].key)'
  BY <1>8, <1>9 DEF KeysOK
<1>11. QED
  BY <1>5, <1>6, <1>7, <1>9, <1>10 DEF KeysOK

LEMMA KeysResolve ==
  ASSUME TypeOK, InPlace, KeysOK, NEW p \in Proc, Resolve(p)
  PROVE  KeysOK'
<1>1. /\ UNCHANGED <<job, leaked, receipt>>
      /\ pc' = [pc EXCEPT ![p] = "enqueue"]
      /\ pc[p] = "begin" /\ ~Capturing(p) /\ KeyFree(p)
      /\ NeverReceived(job[p].key)
  BY DEF Resolve, Goto, dbVars, history, InPlace, ReceiptsOf, NeverReceived
<1>2. \A q \in Proc : q # p =>
        (Holds(q)' <=> Holds(q)) /\ (Enqueuing(q)' <=> Enqueuing(q))
  BY <1>1 DEF Holds, Enqueuing, Capturing, TypeOK
<1>3. ~Holds(p)' /\ ~Holds(p)
  BY <1>1 DEF Holds, Capturing, TypeOK, Holding, Writing
<1>4. \A q \in Proc : (Holds(q)' <=> Holds(q)) /\ Reservation(q)' = Reservation(q)
  BY <1>1, <1>2, <1>3 DEF Reservation
<1>5. \A x \in receipt' : Accounted(x)'
  BY <1>1, <1>4 DEF Accounted, KeysOK
<1>6. \A q \in Proc : q # p /\ Enqueuing(q) /\ job[p].key # NoKey
                        => job[q].key # job[p].key
  <2>1. \A q \in Proc : Enqueuing(q) => job[q].mode = "enqueue"
    BY RefreshAssumption DEF Enqueuing, Capturing, TypeOK, Writing
  <2>2. QED
    BY <2>1, <1>1 DEF KeyFree, Enqueuing
<1>7. \A q \in Proc : Enqueuing(q)' /\ job'[q].key # NoKey => NeverReceived(job[q].key)'
  BY <1>1, <1>2 DEF KeysOK, NeverReceived
<1>8. \A q, r \in Proc :
        Enqueuing(q)' /\ Enqueuing(r)' /\ job[q].key = job[r].key /\ job[q].key # NoKey
          => q = r
  BY <1>2, <1>6 DEF KeysOK
<1>9. QED
  BY <1>1, <1>4, <1>5, <1>7, <1>8 DEF KeysOK

\* An enqueue request stores its result.
LEMMA KeysResult ==
  ASSUME TypeOK, InPlace, KeysOK, NEW p \in Proc, CommitEnqueue(p)
  PROVE  KeysOK'
<1>1. /\ receipt' = IF job[p].key = NoKey THEN receipt ELSE receipt \cup {Result(p)}
      /\ UNCHANGED leaked
      /\ pc'[p] = "idle"
      /\ Enqueuing(p) /\ ~Holds(p)
  BY DEF CommitEnqueue, End, Goto, history, Enqueuing, Writing, Holds, Holding, TypeOK
<1>2. OthersSame(p)
  BY MoveFrame DEF Move, Step, Enqueue
<1>3. ASSUME NEW q \in Proc, q # p
      PROVE  /\ Holds(q)' <=> Holds(q)
             /\ Enqueuing(q)' <=> Enqueuing(q)
             /\ Reservation(q)' = Reservation(q)
             /\ job'[q] = job[q]
  BY <1>2, <1>3 DEF OthersSame, Holds, Enqueuing, Capturing, Reservation
<1>4. ~Holds(p)' /\ ~Enqueuing(p)'
  BY <1>1 DEF Holds, Holding, Writing, Enqueuing
<1>5. Result(p).job = job[p] /\ Result(p).done
  BY DEF Result
<1>6. receipt \subseteq receipt'
  BY <1>1
<1>7. \A q \in Proc : Holds(q)' => Reservation(q)' \in receipt'
  BY <1>3, <1>4, <1>6 DEF KeysOK
<1>8. \A x, y \in receipt' : x.job.key = y.job.key => x = y
  <2>1. \A x, y \in receipt : x.job.key = y.job.key => x = y
    BY DEF KeysOK
  <2>2. job[p].key # NoKey => \A x \in receipt : x.job.key # Result(p).job.key
    BY <1>1, <1>5 DEF KeysOK, NeverReceived
  <2>3. QED
    BY <1>1, <2>1, <2>2
<1>9. ASSUME NEW x \in receipt'
      PROVE  Accounted(x)'
  <2>1. CASE x = Result(p)
    BY <2>1, <1>5 DEF Accounted
  <2>2. CASE x \in receipt
    <3>1. Accounted(x)
      BY <2>2 DEF KeysOK
    <3>2. QED
      BY <3>1, <1>1, <1>3 DEF Accounted
  <2>3. QED
    BY <1>1, <2>1, <2>2
<1>10. \A q \in Proc : Enqueuing(q)' => q # p /\ Enqueuing(q) /\ job'[q] = job[q]
  BY <1>3, <1>4
<1>11. \A q \in Proc : Enqueuing(q)' /\ job'[q].key # NoKey
                        => NeverReceived(job[q].key)'
  BY <1>1, <1>5, <1>10 DEF KeysOK, NeverReceived
<1>12. QED
  BY <1>7, <1>8, <1>9, <1>10, <1>11 DEF KeysOK

LEMMA KeysStep == TypeOK /\ InPlace /\ KeysOK /\ [Next]_vars => KeysOK'
<1> SUFFICES ASSUME TypeOK, InPlace, KeysOK, [Next]_vars
             PROVE  KeysOK'
  OBVIOUS
<1>1. ASSUME NEW p \in Proc, Move(p)
      PROVE  KeysOK'
  <2>0. OthersSame(p)
    BY <1>1, MoveFrame
  <2>i. Holds(p) => Capturing(p)
    BY KeyTypes
  <2>1. CASE Reserve(p)
    BY <2>1, KeysReserve
  <2>2. CASE Complete(p) \/ Release(p)
    <3>1. /\ Holds(p) /\ pc'[p] = "idle" /\ UNCHANGED leaked
          /\ \/ receipt' = receipt \ {Reservation(p)}
             \/ receipt' = (receipt \ {Reservation(p)}) \cup {Result(p)}
      BY <2>2 DEF Complete, Release, End, Goto, history, Holds, Holding, TypeOK
    <3>2. QED
      BY <2>0, <3>1, KeysEnd
  <2>3. CASE Resolve(p)
    BY <2>3, KeysResolve
  <2>4. CASE CommitEnqueue(p)
    BY <2>4, KeysResult
  <2>5. CASE \E j \in setting.jobs[p] : Submit(p, j)
    <3>1. /\ receipt' = receipt /\ leaked' = leaked
          /\ ~Holds(p) /\ ~Holds(p)' /\ ~Enqueuing(p)'
      BY <2>5 DEF Submit, Goto, dbVars, history, Holds, Enqueuing, Holding, Writing, TypeOK
    <3>2. QED
      BY <2>0, <3>1, KeysStay
  <2>6. CASE Replay(p)
    <3>1. /\ receipt' = receipt /\ leaked' = leaked
          /\ ~Holds(p) /\ ~Holds(p)' /\ ~Enqueuing(p)'
      BY <2>6 DEF Replay, End, Goto, dbVars, history, Holds, Enqueuing, Holding,
         Writing, TypeOK
    <3>2. QED
      BY <2>0, <3>1, KeysStay
  <2>7. CASE \/ Look(p) \/ Store(p) \/ Verified(p) \/ Visit(p) \/ InsertEntry(p)
             \/ OwnEntry(p) \/ Conflict(p) \/ ReadEntry(p) \/ CommitCapture(p)
    <3>1. receipt' = receipt /\ leaked' = leaked /\ job' = job
      BY <2>7 DEF Look, Store, Verified, Visit, InsertEntry, OwnEntry, Conflict,
         ReadEntry, CommitCapture, dbVars, callVars, history
    <3>2. /\ Holds(p)' <=> Holds(p)
          /\ Enqueuing(p)' => Enqueuing(p)
      BY <2>7, <2>i, <3>1 DEF Look, Store, Verified, Visit, InsertEntry, OwnEntry,
         Conflict, ReadEntry, CommitCapture, Goto, Holds, Holding, Writing,
         Enqueuing, Capturing, TypeOK
    <3>3. QED
      BY <2>0, <3>1, <3>2, KeysStay
  <2>8. CASE Fail(p)
    <3>1. receipt' = receipt /\ leaked' = leaked
      BY <2>8 DEF Fail, dbVars
    <3>2. CASE Capturing(p)
      <4>1. job' = job /\ pc'[p] = "release" /\ Holds(p) /\ Holds(p)' /\ ~Enqueuing(p)'
        BY <2>8, <3>2 DEF Fail, Goto, Holds, Holding, Enqueuing, Writing, TypeOK
      <4>2. QED
        BY <2>0, <3>1, <4>1, KeysStay
    <3>3. CASE ~Capturing(p)
      <4>1. pc'[p] = "idle" /\ ~Holds(p)
        BY <2>8, <2>i, <3>3 DEF Fail, End, Goto, TypeOK
      <4>2. ~Holds(p)' /\ ~Enqueuing(p)'
        BY <4>1 DEF Holds, Holding, Writing, Enqueuing
      <4>3. QED
        BY <2>0, <3>1, <4>1, <4>2, KeysStay
    <3>4. QED
      BY <3>2, <3>3
  <2>9. CASE FailUnhandled(p) \/ Crash(p)
    <3>1. /\ receipt' = receipt /\ pc'[p] = "idle"
          /\ leaked' = IF Holds(p) THEN leaked \cup {job[p].key} ELSE leaked
      BY <2>9 DEF FailUnhandled, Crash, NowLeaked, End, Goto, dbVars, TypeOK
    <3>2. ~Holds(p)' /\ ~Enqueuing(p)'
      BY <3>1 DEF Holds, Holding, Writing, Enqueuing
    <3>3. QED
      BY <2>0, <3>1, <3>2, KeysStay
  <2>10. QED
    BY <1>1, <2>1, <2>2, <2>3, <2>4, <2>5, <2>6, <2>7, <2>8, <2>9
    DEF Move, Step, Enqueue
<1>2. CASE Outside
  BY <1>2, OutsideFrame
  DEF KeysOK, Accounted, Holds, Enqueuing, Capturing, Reservation, NeverReceived,
      callVars, history
<1>3. CASE UNCHANGED vars
  BY <1>3 DEF vars, dbVars, callVars, history, KeysOK, Accounted, Holds, Enqueuing,
     Capturing, Reservation, NeverReceived
<1>4. QED
  BY <1>1, <1>2, <1>3, NextMoves

\* A key belongs to one request, one process at a time captures under it, and
\* only a crash or an error in the last transaction leaves it reserved.
THEOREM KeysAreAccounted == Spec => []KeysAccounted
<1>1. Init => KeysOK
  BY DEF Init, KeysOK, Holds, Holding, Writing, Enqueuing
<1>2. Spec => [](TypeOK /\ InPlace /\ KeysOK)
  BY <1>1, InitType, TypeStep, KeysStep, PTL DEF Spec
<1>3. QED
  BY <1>2, KeysImply, PTL

-----------------------------------------------------------------------------
(***************************************************************************)
(* Outcomes                                                                *)
(***************************************************************************)

\* The evidence that deposits stored.
Original == {n \in DOMAIN evidence : evidence[n].from = 0}

\* A capture has stored what follows the first version, and will report all
\* original evidence.
OwesFirst(p) ==
  /\ Owes(p)
  /\ previous[p] = FirstContent
  /\ pc[p] \in Writing => Original \subseteq rows[p]

Settled ==
  \/ FirstContent \in missed
  \/ Original \subseteq outcomes
  \/ \E p \in Proc : OwesFirst(p)

\* Original evidence is anchored in the first version; while that is the only
\* one, no capture has seen another, and from the moment it has a successor
\* the outcomes are settled.
SilentOK ==
  /\ versions[1] = FirstContent
  /\ \A n \in Original : evidence[n].at = FirstContent
  /\ Len(versions) = 1 => \A p \in Proc : previous[p] = FirstContent
  /\ Len(versions) = 1 \/ Settled

LEMMA SilentImplies == TypeOK /\ SilentOK => NoSilentChange
<1> SUFFICES ASSUME TypeOK, SilentOK, NEW n \in DOMAIN evidence,
                    evidence[n].from = 0, evidence[n].at # Latest
             PROVE  \/ n \in outcomes
                    \/ evidence[n].at \in missed
                    \/ \E p \in Proc : Owes(p) /\ previous[p] = evidence[n].at
  BY DEF NoSilentChange
<1>1. n \in Original /\ evidence[n].at = FirstContent
  BY DEF SilentOK, Original
<1>2. Len(versions) # 1
  BY <1>1 DEF SilentOK, Latest
<1>3. QED
  BY <1>1, <1>2 DEF SilentOK, Settled, OwesFirst

\* No step touches the original evidence, and nothing settled is forgotten.
LEMMA OriginalStays ==
  ASSUME TypeOK, InPlace, NEW p \in Proc, Move(p)
  PROVE  /\ Original' = Original
         /\ \A n \in Original : evidence'[n] = evidence[n]
         /\ outcomes \subseteq outcomes'
         /\ missed \subseteq missed'
<1>1. missed \subseteq missed'
  BY DEF Move, Step, Enqueue, Submit, Replay, Reserve, Complete, Release, Look,
     Store, Verified, Visit, Resolve, InsertEntry, OwnEntry, Conflict, ReadEntry,
     CommitCapture, CommitEnqueue, Fail, FailUnhandled, Crash, NowMissed, history
<1>2. CASE CommitCapture(p)
  <2>1. Original' = Original
    BY <1>2, EvidenceGrows DEF Original
  <2>2. QED
    BY <1>1, <1>2, <2>1, EvidenceGrows DEF Original
<1>3. CASE ~CommitCapture(p)
  <2>1. evidence' = evidence /\ outcomes' = outcomes
    BY <1>3 DEF Move, Step, Enqueue, Submit, Replay, Reserve, Complete, Release, Look,
       Store, Verified, Visit, Resolve, InsertEntry, OwnEntry, Conflict, ReadEntry,
       CommitEnqueue, Fail, FailUnhandled, Crash, dbVars
  <2>2. QED
    BY <1>1, <2>1 DEF Original
<1>4. QED
  BY <1>2, <1>3

\* A capture that owes the outcomes goes on owing them until it has delivered
\* them or failed.
LEMMA OwedOrSettled ==
  ASSUME TypeOK, InPlace, SilentOK, NEW p \in Proc, Move(p), OwesFirst(p)
  PROVE  Settled'
<1>1. Original' = Original
  BY OriginalStays
<1>2. /\ pc[p] \in {"enqueue", "found", "outcome"} /\ captured[p] # previous[p]
      /\ Capturing(p) /\ previous[p] = FirstContent
      /\ pc[p] \in Writing => Original \subseteq rows[p]
  BY DEF OwesFirst, Owes, Writing
<1>3. CASE Visit(p)
  <2>1. rows'[p] = EvidenceAt(FirstContent) /\ pc'[p] = "enqueue"
        /\ UNCHANGED <<job, previous, captured>>
    BY <1>2, <1>3 DEF Visit, Goto, TypeOK
  <2>2. Original \subseteq EvidenceAt(FirstContent)
    BY DEF SilentOK, Original, EvidenceAt
  <2>3. OwesFirst(p)'
    BY <1>1, <1>2, <2>1, <2>2 DEF OwesFirst, Owes, Writing, Capturing
  <2>4. QED
    BY <2>3 DEF Settled
<1>4. CASE InsertEntry(p) \/ OwnEntry(p) \/ Conflict(p) \/ ReadEntry(p)
  <2>1. pc[p] \in Writing /\ pc'[p] \in Writing
        /\ UNCHANGED <<job, previous, captured, rows>>
    BY <1>4 DEF InsertEntry, OwnEntry, Conflict, ReadEntry, Goto, TypeOK, Writing, callVars
  <2>2. OwesFirst(p)'
    BY <1>1, <1>2, <2>1 DEF OwesFirst, Owes, Capturing
  <2>3. QED
    BY <2>2 DEF Settled
<1>5. CASE CommitCapture(p)
  <2>1. pc[p] \in Writing
    BY <1>5 DEF CommitCapture, Writing
  <2>2. Original \subseteq outcomes'
    BY <1>2, <1>5, <2>1, EvidenceGrows
  <2>3. QED
    BY <1>1, <2>2 DEF Settled
<1>6. CASE Fail(p) \/ Crash(p)
  <2>1. FirstContent \in missed'
    BY <1>2, <1>6 DEF Fail, Crash, NowMissed, Owes, Writing
  <2>2. QED
    BY <2>1 DEF Settled
<1>7. QED
  <2>1. ~ \E j \in setting.jobs[p] : Submit(p, j)
    BY <1>2 DEF Submit
  <2>2. ~ (Replay(p) \/ Reserve(p) \/ Complete(p) \/ Release(p) \/ Look(p)
           \/ Store(p) \/ Verified(p) \/ Resolve(p) \/ FailUnhandled(p))
    BY <1>2 DEF Replay, Reserve, Complete, Release, Look, Store, Verified, Resolve,
       FailUnhandled
  <2>3. ~CommitEnqueue(p)
    BY <1>2 DEF CommitEnqueue
  <2>4. QED
    BY <1>3, <1>4, <1>5, <1>6, <2>1, <2>2, <2>3 DEF Move, Step, Enqueue

LEMMA SettledStays ==
  ASSUME TypeOK, InPlace, SilentOK, NEW p \in Proc, Move(p), Settled
  PROVE  Settled'
<1>1. /\ Original' = Original
      /\ outcomes \subseteq outcomes' /\ missed \subseteq missed'
  BY OriginalStays
<1>2. CASE FirstContent \in missed
  BY <1>1, <1>2 DEF Settled
<1>3. CASE Original \subseteq outcomes
  BY <1>1, <1>3 DEF Settled
<1>4. ASSUME NEW q \in Proc, OwesFirst(q)
      PROVE  Settled'
  <2>1. CASE q = p
    BY <1>4, <2>1, OwedOrSettled
  <2>2. CASE q # p
    <3>1. OthersSame(p)
      BY MoveFrame
    <3>2. OwesFirst(q)'
      BY <1>1, <1>4, <2>2, <3>1 DEF OthersSame, OwesFirst, Owes, Capturing
    <3>3. QED
      BY <3>2 DEF Settled
  <2>3. QED
    BY <2>1, <2>2
<1>5. QED
  BY <1>2, <1>3, <1>4 DEF Settled

\* The capture that stores the second version owes the outcomes of the first.
LEMMA SilentStore ==
  ASSUME TypeOK, InPlace, SilentOK, NEW p \in Proc, Store(p)
  PROVE  versions'[1] = FirstContent /\ (Len(versions)' = 1 \/ Settled')
         /\ (Len(versions)' = 1 => Len(versions) = 1)
<1>0. versions \in Seq(Content) /\ Len(versions) \in Nat \ {0}
  <2>1. versions \in Seq(Content) /\ versions # <<>>
    BY DEF TypeOK
  <2>2. QED
    BY <2>1
<1>m. Move(p)
  BY DEF Move, Step
<1>1. CASE versions' = versions
  BY <1>1, <1>m, SettledStays DEF SilentOK
<1>2. CASE versions' # versions
  <2>1. /\ body \notin Gone /\ \A i \in DOMAIN versions : versions[i] # body
        /\ versions' = Append(versions, body)
    BY <1>2 DEF Store
  <2>2. body \in Content
    BY <2>1 DEF TypeOK
  <2>3. body # FirstContent
    BY <1>0, <2>1 DEF SilentOK
  <2>4. versions'[1] = FirstContent /\ Len(versions)' # 1
    BY <1>0, <2>1, <2>2 DEF SilentOK
  <2>5. CASE Len(versions) = 1
    <3>1. pc'[p] = "outcome" /\ captured'[p] = body /\ UNCHANGED <<job, previous>>
      BY DEF Store, Goto, TypeOK
    <3>2. previous[p] = FirstContent /\ Capturing(p)
      BY <2>5 DEF SilentOK, InPlace, Store, Holding
    <3>3. OwesFirst(p)'
      BY <2>3, <3>1, <3>2 DEF OwesFirst, Owes, Capturing, Writing
    <3>4. QED
      BY <2>4, <3>3 DEF Settled
  <2>6. CASE Len(versions) # 1
    BY <1>m, <2>4, <2>6, SettledStays DEF SilentOK
  <2>7. QED
    BY <2>5, <2>6
<1>3. QED
  BY <1>1, <1>2

LEMMA SilentStep == TypeOK /\ InPlace /\ SilentOK /\ [Next]_vars => SilentOK'
<1> SUFFICES ASSUME TypeOK, InPlace, SilentOK, [Next]_vars
             PROVE  SilentOK'
  OBVIOUS
<1>1. ASSUME NEW p \in Proc, Move(p)
      PROVE  SilentOK'
  <2>1. \A n \in Original' : evidence'[n].at = FirstContent
    BY <1>1, OriginalStays DEF SilentOK
  <2>2. /\ versions'[1] = FirstContent
        /\ Len(versions)' = 1 \/ Settled'
        /\ Len(versions)' = 1 => Len(versions) = 1
    <3>1. CASE Store(p)
      BY <3>1, SilentStore
    <3>2. CASE ~Store(p)
      <4>1. versions' = versions
        BY <1>1, <3>2 DEF Move, Step, Enqueue, Submit, Replay, Reserve, Complete,
           Release, Look, Verified, Visit, Resolve, InsertEntry, OwnEntry, Conflict,
           ReadEntry, CommitCapture, CommitEnqueue, Fail, FailUnhandled, Crash, dbVars
      <4>2. QED
        BY <1>1, <4>1, SettledStays DEF SilentOK
    <3>3. QED
      BY <3>1, <3>2
  <2>3. previous'[p] \in {previous[p], Latest, FirstContent}
    <3>1. CASE Replay(p) \/ Complete(p) \/ Release(p) \/ CommitEnqueue(p)
               \/ FailUnhandled(p) \/ Crash(p)
      <4>1. PICK success : End(p, success)
        BY <3>1 DEF Replay, Complete, Release, CommitEnqueue, FailUnhandled, Crash
      <4>2. QED
        BY <4>1 DEF End, TypeOK
    <3>2. CASE Look(p)
      BY <3>2 DEF Look, TypeOK
    <3>3. CASE Fail(p)
      BY <3>3 DEF Fail, End, TypeOK
    <3>4. QED
      BY <1>1, <3>1, <3>2, <3>3 DEF Move, Step, Enqueue, Submit, Reserve, Store,
         Verified, Visit, Resolve, InsertEntry, OwnEntry, Conflict, ReadEntry,
         CommitCapture, callVars
  <2>4. Len(versions) = 1 => \A q \in Proc : previous'[q] = FirstContent
    <3>1. OthersSame(p)
      BY <1>1, MoveFrame
    <3>2. Len(versions) = 1 => Latest = FirstContent
      BY DEF SilentOK, Latest
    <3>3. QED
      BY <2>3, <3>1, <3>2 DEF OthersSame, SilentOK
  <2>5. QED
    BY <2>1, <2>2, <2>4 DEF SilentOK
<1>2. CASE Outside
  BY <1>2, OutsideFrame
  DEF SilentOK, Settled, Original, OwesFirst, Owes, Capturing, callVars, history
<1>3. CASE UNCHANGED vars
  BY <1>3 DEF vars, dbVars, callVars, history, SilentOK, Settled, Original,
     OwesFirst, Owes, Capturing
<1>4. QED
  BY <1>1, <1>2, <1>3, NextMoves

\* Evidence of a version that is not the latest any more has its outcome, or a
\* running capture owes it, or a fault has left it behind.
THEOREM ChangesAreNotSilent == Spec => []NoSilentChange
<1>1. Init => SilentOK
  BY DEF Init, SilentOK, Original
<1>2. Spec => [](TypeOK /\ InPlace /\ SilentOK)
  BY <1>1, InitType, TypeStep, SilentStep, PTL DEF Spec
<1>3. QED
  BY <1>2, SilentImplies, PTL

-----------------------------------------------------------------------------
(***************************************************************************)
(* Anchoring: the search                                                   *)
(***************************************************************************)

\* The quotation is there, in its context.
IsPlace(t, q, sel, p) ==
  Slice(t, p, p + Len(q)) = q /\ ContextMatches(t, p, p + Len(q), sel)
PlacesIn(t, q, sel, lower, upper) ==
  {p \in lower..(upper - Len(q)) : IsPlace(t, q, sel, p)}

\* What the search from a place returns, if it returns from[p + 1] at the next.
FromPlace(t, q, sel, upper, from, p) ==
  IF p + Len(q) > upper THEN <<>>
  ELSE IF Slice(t, p, p + Len(q)) = q
    THEN (IF ContextMatches(t, p, p + Len(q), sel) THEN <<p>> ELSE <<>>)
           \o from[p + 1]
  ELSE from[p + 1]

Search(t, q, sel, lower, upper, from) ==
  from = [p \in lower..(upper + Len(q)) |-> FromPlace(t, q, sel, upper, from, p)]

\* It returns all the places that are left, each once.
Finds(t, q, sel, upper, from, p) ==
  /\ from[p] \in Seq(Int)
  /\ Len(from[p]) = Cardinality(PlacesIn(t, q, sel, p, upper))
  /\ \A i \in 1..Len(from[p]) : from[p][i] \in PlacesIn(t, q, sel, p, upper)

LEMMA PlacesFinite ==
  ASSUME NEW t, NEW q, Len(q) \in Nat, NEW sel, NEW lower \in Int, NEW upper \in Int
  PROVE  /\ IsFiniteSet(PlacesIn(t, q, sel, lower, upper))
         /\ Cardinality(PlacesIn(t, q, sel, lower, upper)) \in Nat
<1>1. upper - Len(q) \in Int
  OBVIOUS
<1>2. IsFiniteSet(lower..(upper - Len(q)))
  BY <1>1, FS_Interval
<1>3. PlacesIn(t, q, sel, lower, upper) \subseteq lower..(upper - Len(q))
  BY DEF PlacesIn
<1>4. QED
  BY <1>2, <1>3, FS_Subset, FS_CardinalityType

LEMMA OneMore ==
  ASSUME NEW p \in Int, NEW s \in Seq(Int)
  PROVE  /\ <<p>> \o s \in Seq(Int)
         /\ Len(<<p>> \o s) = Len(s) + 1
         /\ (<<p>> \o s)[1] = p
         /\ \A i \in 2..(Len(s) + 1) : (<<p>> \o s)[i] = s[i - 1]
         /\ <<>> \o s = s
OBVIOUS

\* Looking at one place more.
LEMMA FindsMore ==
  ASSUME NEW t, NEW q, Len(q) \in Nat \ {0}, NEW sel, NEW upper \in Int, NEW from,
         NEW p \in Int, from[p] = FromPlace(t, q, sel, upper, from, p),
         p + Len(q) <= upper => Finds(t, q, sel, upper, from, p + 1)
  PROVE  Finds(t, q, sel, upper, from, p)
<1> DEFINE here == PlacesIn(t, q, sel, p, upper)
           rest == PlacesIn(t, q, sel, p + 1, upper)
<1>1. CASE p + Len(q) > upper
  <2>1. from[p] = <<>>
    BY <1>1 DEF FromPlace
  <2>2. here = {}
    BY <1>1 DEF PlacesIn
  <2>3. QED
    BY <2>1, <2>2, FS_EmptySet DEF Finds
<1>2. CASE p + Len(q) <= upper
  <2>1. /\ from[p + 1] \in Seq(Int)
        /\ Len(from[p + 1]) = Cardinality(rest)
        /\ \A i \in 1..Len(from[p + 1]) : from[p + 1][i] \in rest
    BY <1>2 DEF Finds
  <2>2. IsFiniteSet(rest) /\ Cardinality(rest) \in Nat /\ p \notin rest
    <3>1. p + 1 \in Int /\ Len(q) \in Nat
      OBVIOUS
    <3>2. p \notin rest
      BY DEF PlacesIn
    <3>3. QED
      BY <3>1, <3>2, PlacesFinite
  <2>3. CASE IsPlace(t, q, sel, p)
    <3>1. here = rest \cup {p}
      BY <1>2, <2>3 DEF PlacesIn
    <3>2. Cardinality(here) = Cardinality(rest) + 1
      BY <2>2, <3>1, FS_AddElement
    <3>3. from[p] = <<p>> \o from[p + 1]
      BY <1>2, <2>3 DEF FromPlace, IsPlace
    <3> HIDE DEF here, rest
    <3>4. /\ from[p] \in Seq(Int)
          /\ Len(from[p]) = Len(from[p + 1]) + 1
          /\ from[p][1] = p
          /\ \A i \in 2..Len(from[p]) : from[p][i] = from[p + 1][i - 1]
      <4>1. /\ <<p>> \o from[p + 1] \in Seq(Int)
            /\ Len(<<p>> \o from[p + 1]) = Len(from[p + 1]) + 1
            /\ (<<p>> \o from[p + 1])[1] = p
            /\ \A i \in 2..(Len(from[p + 1]) + 1) :
                 (<<p>> \o from[p + 1])[i] = from[p + 1][i - 1]
        BY <2>1, OneMore
      <4>2. QED
        BY ONLY <3>3, <4>1
    <3>5. ASSUME NEW i \in 1..Len(from[p])
          PROVE  from[p][i] \in here
      <4>1. i = 1 \/ (i \in 2..Len(from[p]) /\ i - 1 \in 1..Len(from[p + 1]))
        BY <2>1, <3>4
      <4>2. QED
        BY <2>1, <3>1, <3>4, <4>1
    <3>6. QED
      BY <2>1, <3>2, <3>4, <3>5 DEF Finds, here
  <2>4. CASE ~ IsPlace(t, q, sel, p)
    <3>1. here = rest
      BY <1>2, <2>4 DEF PlacesIn
    <3>2. from[p] = from[p + 1] \/ from[p] = <<>> \o from[p + 1]
      <4>1. ~ (p + Len(q) > upper)
        BY <1>2
      <4>2. QED
        BY <2>4, <4>1, Zenon DEF FromPlace, IsPlace
    <3>3. from[p] = from[p + 1]
      BY <2>1, <3>2, OneMore
    <3>4. QED
      BY <2>1, <3>1, <3>3 DEF Finds
  <2>5. QED
    BY <2>3, <2>4
<1>3. QED
  BY <1>1, <1>2

\* There is a function as FindAll defines it: one place after the other, from the
\* right to the left.
LEMMA SearchExists ==
  ASSUME NEW t, NEW q, Len(q) \in Nat \ {0}, NEW sel, NEW lower \in Int,
         NEW upper \in Int, lower <= upper
  PROVE  \E from : Search(t, q, sel, lower, upper, from)
<1> DEFINE last == upper + Len(q)
           Without == {n \in Nat : n <= last - lower /\ ~ \E from : Search(t, q, sel, last - n, upper, from)}
<1>1. last \in Int /\ last - lower \in Nat
  OBVIOUS
<1>2. SUFFICES ASSUME Without # {}
               PROVE  FALSE
  <2>1. lower = last - (last - lower)
    BY <1>1
  <2>2. last - lower \notin Without => \E from : Search(t, q, sel, last - (last - lower), upper, from)
    BY <1>1
  <2>3. QED
    BY <2>1, <2>2
<1>3. PICK n \in Without : \A m \in Without : n <= m
  BY <1>2, Least
<1>4. n \in Nat /\ n <= last - lower
  OBVIOUS
<1> DEFINE p == last - n
<1>5. CASE n = 0
  <2> DEFINE g == [r \in p..last |-> <<>>]
  <2>1. p = last /\ last + Len(q) > upper
    BY <1>5
  <2>2. \A r \in p..last : FromPlace(t, q, sel, upper, g, r) = <<>>
    BY <2>1 DEF FromPlace
  <2>3. g = [r \in p..last |-> FromPlace(t, q, sel, upper, g, r)]
    BY <2>2
  <2>4. Search(t, q, sel, p, upper, g)
    BY <2>3 DEF Search
  <2>5. QED
    BY <1>3, <2>4
<1>6. CASE n # 0
  <2>1. n - 1 \in Nat /\ n - 1 \notin Without /\ n - 1 <= last - lower
    BY <1>3, <1>4, <1>6
  <2>2. PICK f : Search(t, q, sel, last - (n - 1), upper, f)
    BY <2>1
  <2>3. last - (n - 1) = p + 1
    BY <1>1, <1>4
  <2>4. f = [r \in (p + 1)..last |-> FromPlace(t, q, sel, upper, f, r)]
    BY <2>2, <2>3 DEF Search
  <2> DEFINE g == [r \in p..last |-> IF r = p THEN FromPlace(t, q, sel, upper, f, p) ELSE f[r]]
  <2>5. ASSUME NEW r \in p..last
        PROVE  g[r] = FromPlace(t, q, sel, upper, g, r)
    <3>1. r + Len(q) <= upper => g[r + 1] = f[r + 1]
      <4>1. r + Len(q) <= upper => r + 1 \in p..last /\ r + 1 # p
        BY <1>1, <1>4
      <4>2. QED
        BY <4>1
    <3>2. FromPlace(t, q, sel, upper, g, r) = FromPlace(t, q, sel, upper, f, r)
      <4> HIDE DEF g
      <4>1. r + Len(q) > upper \/ r + Len(q) <= upper
        BY <1>1, <1>4
      <4>2. QED
        BY <3>1, <4>1 DEF FromPlace
    <3>3. r # p => f[r] = FromPlace(t, q, sel, upper, f, r)
      <4>1. r # p => r \in (p + 1)..last
        BY <1>1, <1>4
      <4>2. QED
        BY <2>4, <4>1
    <3>4. QED
      BY <3>2, <3>3
  <2>6. g = [r \in p..last |-> FromPlace(t, q, sel, upper, g, r)]
    BY <2>5
  <2>7. Search(t, q, sel, p, upper, g)
    BY <2>6 DEF Search
  <2>8. QED
    BY <1>3, <2>7
<1>7. QED
  BY <1>5, <1>6

LEMMA SearchFinds ==
  ASSUME NEW t, NEW q, Len(q) \in Nat \ {0}, NEW sel, NEW lower \in Int,
         NEW upper \in Int, lower <= upper, NEW from,
         Search(t, q, sel, lower, upper, from)
  PROVE  Finds(t, q, sel, upper, from, lower)
<1> DEFINE last == upper + Len(q)
           Missed == {n \in Nat : n <= last - lower /\ ~ Finds(t, q, sel, upper, from, last - n)}
<1>1. last \in Int /\ last - lower \in Nat
  OBVIOUS
<1>2. SUFFICES ASSUME Missed # {}
               PROVE  FALSE
  <2>1. lower = last - (last - lower)
    BY <1>1
  <2>2. last - lower \notin Missed => Finds(t, q, sel, upper, from, last - (last - lower))
    BY <1>1
  <2>3. QED
    BY <2>1, <2>2
<1>3. PICK n \in Missed : \A m \in Missed : n <= m
  BY <1>2, Least
<1>4. n \in Nat /\ n <= last - lower
  OBVIOUS
<1> DEFINE p == last - n
<1>5. p \in lower..last
  BY <1>1, <1>4
<1>6. from[p] = FromPlace(t, q, sel, upper, from, p)
  BY <1>5 DEF Search
<1>7. ASSUME p + Len(q) <= upper
      PROVE  Finds(t, q, sel, upper, from, p + 1)
  <2>1. n # 0 /\ n - 1 \in Nat /\ n - 1 <= last - lower
    BY <1>1, <1>4, <1>7
  <2>2. n - 1 \notin Missed
    <3>1. ~ (n <= n - 1)
      BY <1>4
    <3>2. QED
      BY <1>3, <3>1
  <2>3. last - (n - 1) = p + 1
    BY <1>1, <1>4
  <2>4. QED
    BY <2>1, <2>2, <2>3
<1>8. Finds(t, q, sel, upper, from, p)
  BY <1>5, <1>6, <1>7, FindsMore
<1>9. QED
  BY <1>3, <1>8

\* FindAll returns every place of the quotation between the bounds, once.
LEMMA FoundAll ==
  ASSUME NEW t, NEW q, Len(q) \in Nat \ {0}, NEW sel, NEW lower \in Int,
         NEW upper \in Int, lower <= upper
  PROVE  LET found == FindAll(t, q, lower, upper, sel) IN
         /\ found \in Seq(Int)
         /\ Len(found) = Cardinality(PlacesIn(t, q, sel, lower, upper))
         /\ \A i \in 1..Len(found) : found[i] \in PlacesIn(t, q, sel, lower, upper)
<1> DEFINE from == CHOOSE g : Search(t, q, sel, lower, upper, g)
<1>1. Search(t, q, sel, lower, upper, from)
  BY SearchExists
<1>2. FindAll(t, q, lower, upper, sel) = from[lower]
  BY Zenon DEF FindAll, NextPosition, Search, FromPlace
<1> HIDE DEF from
<1>3. Finds(t, q, sel, upper, from, lower)
  BY <1>1, SearchFinds
<1>4. QED
  BY <1>2, <1>3 DEF Finds

\* A search between two bounds resolves if the quotation is there once.
LEMMA UniqueMatch ==
  ASSUME NEW t, NEW q, Len(q) \in Nat \ {0}, NEW sel, NEW lower \in Int,
         NEW upper \in Int, lower <= upper
  PROVE  LET found == UniqueTextMatch(t, q, lower, upper, sel)
             places == PlacesIn(t, q, sel, lower, upper)
         IN
         /\ found.outcome = "resolved" <=> Cardinality(places) = 1
         /\ found.outcome = "resolved" =>
              found.start \in places /\ found.end = found.start + Len(q)
<1> DEFINE found == FindAll(t, q, lower, upper, sel)
           places == PlacesIn(t, q, sel, lower, upper)
           outcome == UniqueTextMatch(t, q, lower, upper, sel)
<1>1. /\ found \in Seq(Int) /\ Len(found) = Cardinality(places)
      /\ \A i \in 1..Len(found) : found[i] \in places
  BY FoundAll
<1>2. Len(found) \in Nat
  BY <1>1
<1>3. outcome = CASE Len(found) = 0 -> Fails("unresolved")
                  [] Len(found) = 1 -> Resolved(found[1], found[1] + Len(q))
                  [] OTHER -> Fails("ambiguous")
  BY DEF UniqueTextMatch
<1> HIDE DEF found, places, outcome
<1>4. CASE Len(found) = 0
  <2>1. outcome = Fails("unresolved")
    BY <1>3, <1>4
  <2>2. QED
    BY <1>1, <1>4, <2>1 DEF Fails, outcome, places
<1>5. CASE Len(found) = 1
  <2>1. outcome = Resolved(found[1], found[1] + Len(q))
    BY <1>3, <1>5
  <2>2. found[1] \in places
    BY <1>1, <1>5
  <2>3. QED
    BY <1>1, <1>5, <2>1, <2>2 DEF Resolved, outcome, places
<1>6. CASE Len(found) # 0 /\ Len(found) # 1
  <2>1. outcome = Fails("ambiguous")
    BY <1>3, <1>6
  <2>2. QED
    BY <1>1, <1>6, <2>1 DEF Fails, outcome, places
<1>7. QED
  BY <1>4, <1>5, <1>6

\* Only the context of a selector matters.
SameContext(sel, other) ==
  \A field \in {"prefix", "suffix"} :
    /\ Has(sel, field) <=> Has(other, field)
    /\ Has(sel, field) => sel[field] = other[field]

LEMMA SamePlaces ==
  ASSUME NEW t, NEW q, NEW sel, NEW other, SameContext(sel, other),
         NEW lower, NEW upper
  PROVE  PlacesIn(t, q, sel, lower, upper) = PlacesIn(t, q, other, lower, upper)
<1>1. ASSUME NEW p
      PROVE  IsPlace(t, q, sel, p) <=> IsPlace(t, q, other, p)
  BY DEF SameContext, IsPlace, ContextMatches
<1>2. QED
  BY <1>1 DEF PlacesIn

LEMMA PlacesAre ==
  ASSUME NEW t, NEW q, NEW sel
  PROVE  Places(t, q, sel) = PlacesIn(t, q, sel, 0, Len(t))
BY DEF Places, PlacesIn, IsPlace

-----------------------------------------------------------------------------
(***************************************************************************)
(* Anchoring: lines                                                        *)
(***************************************************************************)

\* The ends of lines up to a position.
LineEnds(t, n) == {i \in 1..n : EndsLine(t, i)}
LinesUpTo(t, n) == Cardinality(LineEnds(t, n))

LEMMA LinesFinite ==
  ASSUME NEW t, NEW n \in Int
  PROVE  IsFiniteSet(LineEnds(t, n)) /\ LinesUpTo(t, n) \in Nat
<1>1. IsFiniteSet(1..n) /\ LineEnds(t, n) \subseteq 1..n
  BY FS_Interval DEF LineEnds
<1>2. QED
  BY <1>1, FS_Subset, FS_CardinalityType DEF LinesUpTo

LEMMA LinesNext ==
  ASSUME NEW t, NEW n \in Nat
  PROVE  LinesUpTo(t, n + 1) =
           IF EndsLine(t, n + 1) THEN LinesUpTo(t, n) + 1 ELSE LinesUpTo(t, n)
<1>1. n + 1 \notin LineEnds(t, n)
  BY DEF LineEnds
<1>2. CASE EndsLine(t, n + 1)
  <2>1. LineEnds(t, n + 1) = LineEnds(t, n) \cup {n + 1}
    BY <1>2 DEF LineEnds
  <2>2. QED
    BY <1>1, <1>2, <2>1, LinesFinite, FS_AddElement DEF LinesUpTo
<1>3. CASE ~ EndsLine(t, n + 1)
  <2>1. LineEnds(t, n + 1) = LineEnds(t, n)
    BY <1>3 DEF LineEnds
  <2>2. QED
    BY <1>3, <2>1 DEF LinesUpTo
<1>4. QED
  BY <1>2, <1>3

LEMMA LinesGrow ==
  ASSUME NEW t, NEW m \in Nat, NEW n \in Nat, m <= n
  PROVE  LinesUpTo(t, m) <= LinesUpTo(t, n)
<1>1. LineEnds(t, m) \subseteq LineEnds(t, n)
  BY DEF LineEnds
<1>2. IsFiniteSet(LineEnds(t, n))
  BY LinesFinite
<1>3. QED
  BY <1>1, <1>2, FS_Subset DEF LinesUpTo

LEMMA LinesNone ==
  ASSUME NEW t
  PROVE  LinesUpTo(t, 0) = 0
<1>1. LineEnds(t, 0) = {}
  BY DEF LineEnds
<1>2. QED
  BY <1>1, FS_EmptySet DEF LinesUpTo

\* Where a line ends, there are that many ends of lines, and before it less.
LEMMA LineEndIs ==
  ASSUME NEW t, Len(t) \in Nat, NEW line \in Nat, line <= LineCount(t)
  PROVE  /\ LineEnd(t, line) \in 0..Len(t)
         /\ \A n \in 0..Len(t) : LinesUpTo(t, n) >= line <=> n >= LineEnd(t, line)
<1>1. LineCount(t) = LinesUpTo(t, Len(t))
  BY DEF LineCount, LinesUpTo, LineEnds
<1>2. CASE line = 0
  <2>1. LineEnd(t, line) = 0
    BY <1>2 DEF LineEnd
  <2>2. \A n \in 0..Len(t) : LinesUpTo(t, n) >= 0
    BY LinesFinite
  <2>3. QED
    BY <1>2, <2>1, <2>2
<1>3. CASE line # 0
  <2> DEFINE Is(i) == EndsLine(t, i) /\ LinesUpTo(t, i) = line
             Far == {n \in Nat : n <= Len(t) /\ LinesUpTo(t, n) >= line}
  <2>1. Len(t) \in Far
    BY <1>1
  <2>2. PICK e \in Far : \A n \in Far : e <= n
    BY <2>1, Least
  <2>3. e # 0
    BY <1>3, <2>2, LinesNone
  <2>4. e - 1 \in Nat /\ ~ (LinesUpTo(t, e - 1) >= line)
    <3>1. e - 1 \in Nat /\ e - 1 <= Len(t) /\ ~ (e <= e - 1)
      BY <2>2, <2>3
    <3>2. e - 1 \notin Far
      BY <2>2, <3>1
    <3>3. QED
      BY <3>1, <3>2
  <2>5. Is(e)
    <3>1. (e - 1) + 1 = e
      BY <2>4
    <3>2. LinesUpTo(t, e) = IF EndsLine(t, e) THEN LinesUpTo(t, e - 1) + 1 ELSE LinesUpTo(t, e - 1)
      BY <2>4, <3>1, LinesNext
    <3>3. LinesUpTo(t, e - 1) \in Nat /\ LinesUpTo(t, e) >= line
      BY <2>2, <2>4, LinesFinite
    <3>4. QED
      BY <2>4, <3>2, <3>3
  <2>6. e \in 1..Len(t)
    BY <2>2, <2>3
  <2>7. LineEnd(t, line) = CHOOSE i \in 1..Len(t) : Is(i)
    BY <1>3 DEF LineEnd, LinesUpTo, LineEnds
  <2> DEFINE x == LineEnd(t, line)
  <2>8. x \in 1..Len(t) /\ Is(x)
    BY <2>5, <2>6, <2>7
  <2> HIDE DEF x
  <2>9. ASSUME NEW n \in 0..Len(t)
        PROVE  LinesUpTo(t, n) >= line <=> n >= x
    <3>1. CASE n >= x
      <4>1. LinesUpTo(t, x) <= LinesUpTo(t, n)
        BY <2>8, <3>1, LinesGrow
      <4>2. QED
        BY <2>8, <3>1, <4>1, LinesFinite
    <3>2. CASE ~ (n >= x)
      <4>1. x - 1 \in Nat /\ n <= x - 1 /\ (x - 1) + 1 = x
        BY <2>8, <3>2
      <4>2. LinesUpTo(t, n) <= LinesUpTo(t, x - 1)
        BY <4>1, LinesGrow
      <4>3. LinesUpTo(t, x) = LinesUpTo(t, x - 1) + 1
        BY <2>8, <4>1, LinesNext
      <4>4. LinesUpTo(t, n) \in Nat /\ LinesUpTo(t, x - 1) \in Nat
        BY <4>1, LinesFinite
      <4>5. QED
        BY <2>8, <3>2, <4>2, <4>3, <4>4
    <3>3. QED
      BY <3>1, <3>2
  <2>10. QED
    BY <2>8, <2>9 DEF x
<1>4. QED
  BY <1>2, <1>3

LEMMA LinesCounted ==
  ASSUME NEW t, Len(t) \in Nat
  PROVE  /\ LineCount(t) = LinesUpTo(t, Len(t)) /\ LineCount(t) \in Nat
         /\ \A p \in 0..(Len(t) - 1) : TrueLine(t, p) = LinesUpTo(t, p) + 1
         /\ t # <<>> /\ Len(t) # 0 => LineCount(t) = TrueLine(t, Len(t) - 1)
<1>1. LineCount(t) = LinesUpTo(t, Len(t))
  BY DEF LineCount, LinesUpTo, LineEnds
<1>2. ASSUME NEW p \in 0..(Len(t) - 1)
      PROVE  TrueLine(t, p) = LinesUpTo(t, p) + 1
  <2>1. \A i \in 1..p : EndsLine(t, i) <=> t[i] \in {Newline, Separator}
    BY DEF EndsLine
  <2>2. LineEnds(t, p) = {i \in 1..p : t[i] \in {Newline, Separator}}
    BY <2>1 DEF LineEnds
  <2>3. LinesUpTo(t, p) \in Nat
    BY LinesFinite
  <2>4. QED
    BY <2>2, <2>3 DEF TrueLine, LinesUpTo
<1>3. ASSUME Len(t) # 0
      PROVE  LineCount(t) = TrueLine(t, Len(t) - 1)
  <2>1. Len(t) - 1 \in 0..(Len(t) - 1) /\ Len(t) - 1 \in Nat /\ (Len(t) - 1) + 1 = Len(t)
    BY <1>3
  <2>2. EndsLine(t, Len(t))
    BY DEF EndsLine
  <2>3. LinesUpTo(t, Len(t)) = LinesUpTo(t, Len(t) - 1) + 1
    BY <2>1, <2>2, LinesNext
  <2>4. QED
    BY <1>1, <1>2, <2>1, <2>3
<1>4. QED
  BY <1>1, <1>2, <1>3, LinesFinite

\* What InLines searches are the places on the lines of the selector.
LEMMA PlacesByLine ==
  ASSUME NEW t, Len(t) \in Nat, NEW q, Len(q) \in Nat \ {0}, NEW sel,
         NEW first \in Nat \ {0}, NEW last \in Nat, first <= last,
         last <= LineCount(t)
  PROVE  /\ LineEnd(t, first - 1) \in Int /\ LineEnd(t, last) \in Int
         /\ LineEnd(t, first - 1) <= LineEnd(t, last)
         /\ \A p : p \in PlacesIn(t, q, sel, LineEnd(t, first - 1), LineEnd(t, last)) <=>
              /\ p \in PlacesIn(t, q, sel, 0, Len(t))
              /\ TrueLine(t, p) >= first /\ TrueLine(t, p + Len(q) - 1) <= last
<1> DEFINE lower == LineEnd(t, first - 1)
           upper == LineEnd(t, last)
<1>1. first - 1 \in Nat /\ first - 1 <= LineCount(t)
  BY LinesCounted
<1>2. /\ lower \in 0..Len(t)
      /\ \A n \in 0..Len(t) : LinesUpTo(t, n) >= first - 1 <=> n >= lower
  BY <1>1, LineEndIs
<1>3. /\ upper \in 0..Len(t)
      /\ \A n \in 0..Len(t) : LinesUpTo(t, n) >= last <=> n >= upper
  BY LineEndIs
<1> HIDE DEF lower, upper
<1>4. lower <= upper
  <2>1. LinesUpTo(t, upper) >= last /\ LinesUpTo(t, upper) \in Nat
    BY <1>3, LinesFinite
  <2>2. LinesUpTo(t, upper) >= first - 1
    BY <2>1
  <2>3. QED
    BY <1>2, <1>3, <2>2
<1>5. ASSUME NEW p \in 0..(Len(t) - Len(q))
      PROVE  p \in lower..(upper - Len(q)) <=>
               TrueLine(t, p) >= first /\ TrueLine(t, p + Len(q) - 1) <= last
  <2> DEFINE r == p + Len(q) - 1
  <2>1. p \in 0..(Len(t) - 1) /\ r \in 0..(Len(t) - 1)
    OBVIOUS
  <2>2. /\ TrueLine(t, p) = LinesUpTo(t, p) + 1 /\ LinesUpTo(t, p) \in Nat
        /\ TrueLine(t, r) = LinesUpTo(t, r) + 1 /\ LinesUpTo(t, r) \in Nat
    BY <2>1, LinesCounted, LinesFinite
  <2>3. /\ LinesUpTo(t, p) >= first - 1 <=> p >= lower
        /\ LinesUpTo(t, r) >= last <=> r >= upper
    BY <1>2, <1>3, <2>1
  <2>4. r >= upper <=> ~ (p <= upper - Len(q))
    BY <1>3
  <2> HIDE DEF r
  <2>5. TrueLine(t, p) >= first <=> p >= lower
    BY <2>2, <2>3
  <2>6. TrueLine(t, r) <= last <=> p <= upper - Len(q)
    BY <2>2, <2>3, <2>4
  <2>7. QED
    BY <1>2, <1>3, <2>5, <2>6 DEF r
<1>6. lower..(upper - Len(q)) \subseteq 0..(Len(t) - Len(q))
  BY <1>2, <1>3
<1>7. \A p : p \in PlacesIn(t, q, sel, lower, upper) <=>
        /\ p \in PlacesIn(t, q, sel, 0, Len(t))
        /\ TrueLine(t, p) >= first /\ TrueLine(t, p + Len(q) - 1) <= last
  BY <1>5, <1>6 DEF PlacesIn
<1>8. QED
  BY <1>2, <1>3, <1>4, <1>7 DEF lower, upper

-----------------------------------------------------------------------------
(***************************************************************************)
(* Anchoring: what a capture writes                                        *)
(***************************************************************************)

\* Fields of a selector that a capture leaves alone.
SameMeaning(sel, other) ==
  /\ DOMAIN other \subseteq DOMAIN sel
  /\ \A field \in {"type", "exact", "prefix", "suffix", "css_selector", "pointer"} :
       /\ Has(sel, field) <=> Has(other, field)
       /\ Has(sel, field) => sel[field] = other[field]

LEMMA SameMeaningIs ==
  ASSUME NEW sel, NEW other, SameMeaning(sel, other), Has(other, "type")
  PROVE  /\ sel.type = other.type /\ SameContext(sel, other)
         /\ OnLines(sel) <=> OnLines(other)
         /\ OfText(sel) <=> OfText(other)
<1>1. sel.type = other.type
  BY DEF SameMeaning
<1>2. QED
  BY <1>1 DEF SameMeaning, SameContext, OnLines, OfText

LEMMA SameMeaningChains ==
  ASSUME NEW sel, NEW other, NEW third,
         SameMeaning(sel, other), SameMeaning(other, third)
  PROVE  SameMeaning(sel, third)
BY DEF SameMeaning, Has

LEMMA ReanchoredFields ==
  ASSUME NEW t, NEW commit, NEW sel, NEW found
  PROVE  LET new == ReanchoredSelector(t, commit, sel, found) IN
         /\ SameMeaning(new, sel)
         /\ ~ OnLines(sel) =>
              /\ Has(new, "start") /\ Has(new, "end")
              /\ new.start = found.start /\ new.end = found.end
         /\ Has(sel, "start_line") => new.start_line = LineOf(t, found.start)
         /\ Has(sel, "end_line") => new.end_line = LastLine(t, found.start, found.end)
         /\ Has(sel, "commit") => new.commit = commit
<1> DEFINE Field == DOMAIN sel \cup (IF OnLines(sel) THEN {} ELSE {"start", "end"})
           At(field) == CASE field = "start" -> found.start
                          [] field = "end" -> found.end
                          [] field = "start_line" -> LineOf(t, found.start)
                          [] field = "end_line" -> LastLine(t, found.start, found.end)
                          [] field = "commit" -> commit
                          [] OTHER -> sel[field]
           new == ReanchoredSelector(t, commit, sel, found)
<1>1. new = [field \in Field |-> At(field)]
  BY DEF ReanchoredSelector
<1>2. /\ At("start") = found.start /\ At("end") = found.end
      /\ At("start_line") = LineOf(t, found.start)
      /\ At("end_line") = LastLine(t, found.start, found.end)
      /\ At("commit") = commit
      /\ \A field \in {"type", "exact", "prefix", "suffix", "css_selector", "pointer"} :
           At(field) = sel[field]
  OBVIOUS
<1>3. \A field \in {"type", "exact", "prefix", "suffix", "css_selector", "pointer"} :
        field \in Field <=> field \in DOMAIN sel
  OBVIOUS
<1>4. DOMAIN sel \subseteq Field /\ (~ OnLines(sel) => {"start", "end"} \subseteq Field)
  OBVIOUS
<1> HIDE DEF Field, At, new
<1>5. DOMAIN new = Field /\ \A field \in Field : new[field] = At(field)
  BY <1>1
<1>6. SameMeaning(new, sel)
  BY <1>2, <1>3, <1>4, <1>5 DEF SameMeaning, Has
<1>7. QED
  BY <1>2, <1>4, <1>5, <1>6 DEF Has, new

\* Without separators that only str.splitlines knows, the lines that a capture
\* counts are lines on which the quotation is found, and only there.
LEMMA ReanchoredLines ==
  ASSUME NEW t, Len(t) \in Nat, NEW q, Len(q) \in Nat \ {0}, NEW sel,
         NEW p \in PlacesIn(t, q, sel, 0, Len(t)),
         Cardinality(PlacesIn(t, q, sel, 0, Len(t))) = 1,
         \A i \in 1..Len(t) : t[i] # Separator
  PROVE  LET first == LineOf(t, p)
             last == LastLine(t, p, p + Len(q))
         IN
         /\ first \in Nat \ {0} /\ last \in Nat /\ first <= last
         /\ last <= LineCount(t)
         /\ UniqueTextMatch(t, q, LineEnd(t, first - 1), LineEnd(t, last), sel).outcome
              = "resolved"
<1> DEFINE r == p + Len(q) - 1
           first == LineOf(t, p)
           last == LastLine(t, p, p + Len(q))
           all == PlacesIn(t, q, sel, 0, Len(t))
<1>1. p \in 0..(Len(t) - Len(q)) /\ p \in 0..(Len(t) - 1) /\ r \in 0..(Len(t) - 1)
      /\ p <= r /\ r <= Len(t) - 1 /\ r \in Nat /\ p \in Nat /\ Len(t) # 0
      /\ Len(t) - 1 \in Nat
  BY DEF PlacesIn
<1>2. \A n \in 0..(Len(t) - 1) : LineOf(t, n) = TrueLine(t, n)
  <2>1. ASSUME NEW n \in 0..(Len(t) - 1)
        PROVE  {i \in 1..n : t[i] = Newline} = {i \in 1..n : t[i] \in {Newline, Separator}}
    OBVIOUS
  <2>2. QED
    BY <2>1 DEF LineOf, TrueLine
<1>3. last = LineOf(t, r)
  <2>1. (IF (p + Len(q)) - 1 > p THEN (p + Len(q)) - 1 ELSE p) = r
    BY <1>1
  <2>2. QED
    BY <2>1 DEF LastLine
<1>4. /\ first = LinesUpTo(t, p) + 1 /\ LinesUpTo(t, p) \in Nat
      /\ last = LinesUpTo(t, r) + 1 /\ LinesUpTo(t, r) \in Nat
      /\ first = TrueLine(t, p) /\ last = TrueLine(t, r)
  BY <1>1, <1>2, <1>3, LinesCounted, LinesFinite
<1>5. first <= last
  BY <1>1, <1>4, LinesGrow
<1>6. last <= LineCount(t)
  <2>1. LinesUpTo(t, r) <= LinesUpTo(t, Len(t) - 1) /\ LinesUpTo(t, Len(t) - 1) \in Nat
    BY <1>1, LinesGrow, LinesFinite
  <2>2. (Len(t) - 1) + 1 = Len(t) /\ EndsLine(t, Len(t))
    BY <1>1 DEF EndsLine
  <2>3. LineCount(t) = LinesUpTo(t, Len(t) - 1) + 1
    BY <1>1, <2>2, LinesNext, LinesCounted
  <2>4. QED
    BY <1>4, <2>1, <2>3
<1> DEFINE on == PlacesIn(t, q, sel, LineEnd(t, first - 1), LineEnd(t, last))
<1> HIDE DEF first, last, r
<1>7. /\ first \in Nat \ {0} /\ last \in Nat
  BY <1>4
<1>8. /\ LineEnd(t, first - 1) \in Int /\ LineEnd(t, last) \in Int
      /\ LineEnd(t, first - 1) <= LineEnd(t, last)
      /\ \A n : n \in on <=>
           n \in all /\ TrueLine(t, n) >= first /\ TrueLine(t, n + Len(q) - 1) <= last
  BY <1>5, <1>6, <1>7, PlacesByLine
<1>9. on = {p}
  <2>1. IsFiniteSet(all)
    BY PlacesFinite
  <2>2. all = {p}
    BY <2>1, FS_Singleton
  <2>3. TrueLine(t, p) >= first /\ TrueLine(t, p + Len(q) - 1) <= last
    BY <1>4, <1>7 DEF r
  <2>4. QED
    BY <1>8, <2>2, <2>3
<1>10. Cardinality(on) = 1
  BY <1>9, FS_Singleton
<1>11. QED
  BY <1>5, <1>6, <1>7, <1>8, <1>10, UniqueMatch DEF first, last

-----------------------------------------------------------------------------
(***************************************************************************)
(* Anchoring: the inductive invariant                                      *)
(***************************************************************************)

Letter == Character \cup UNION {Range(s.version.text) : s \in Submission}

VersionOK(v) ==
  /\ DOMAIN v = {"text", "commit", "basis"}
  /\ v.text \in Seq(Letter) /\ Len(v.text) <= MaxText
  /\ v.commit \in Nat

AcceptedStates == {"resolved", "relocated", "unverified"}
PlacesNow == PlacesIn(version.text, quote, submitted.selector, 0, Len(version.text))

\* A capture finds the quotation again if and only if it is there once.
FoundOnce ==
  captures > 0 =>
    (evidence_.state # "lost" <=>
       /\ OfText(submitted.selector)
       /\ submitted.selector.type = "git_line_range" => version.commit # 0
       /\ Cardinality(PlacesNow) = 1)

AnchorInv ==
  /\ AnchorTypeOK
  /\ submitted \in Submission
  /\ VersionOK(version)
  /\ DOMAIN evidence_ = {"state", "selector"}
  /\ captures = 0 =>
       /\ version = submitted.version
       /\ evidence_.selector = submitted.selector
       /\ evidence_.state \in {"submitted", "rejected"} \cup AcceptedStates
       /\ evidence_.state # "submitted" =>
            evidence_.state = ValidateAnchor(version, evidence_.selector, quote)
  /\ captures > 0 => evidence_.state \in {"resolved", "relocated", "lost"}
  /\ SameMeaning(evidence_.selector, submitted.selector)
  /\ evidence_.state \in AcceptedStates /\ Has(evidence_.selector, "exact") =>
       evidence_.selector.exact = quote
  /\ AnchoredResolves
  /\ FoundOnce

LEMMA SubmissionOK ==
  ASSUME NEW s \in Submission
  PROVE  /\ VersionOK(s.version)
         /\ SelectorWellFormed(s.selector)
         /\ Len(s.quote) \in Nat \ {0} /\ s.quote # <<>>
         /\ Parsed(s.version.text) \in Value \cup {Missing}
<1>1. s.version.text \in Seq(Letter)
  <2>1. Range(s.version.text) \subseteq Letter
    BY DEF Letter
  <2>2. s.version.text \in Seq(Range(s.version.text))
    BY AnchoringAssumption
  <2> HIDE DEF Letter
  <2>3. QED
    BY <2>1, <2>2
<1>2. Len(s.quote) \in Nat \ {0} /\ s.quote # <<>>
  BY AnchoringAssumption
<1>3. QED
  BY <1>1, <1>2, AnchoringAssumption DEF VersionOK

LEMMA ConcatLength ==
  ASSUME NEW S, NEW a \in Seq(S), NEW b \in Seq(S)
  PROVE  a \o b \in Seq(S) /\ Len(a \o b) = Len(a) + Len(b)
BY ConcatProperties

LEMMA ChangeIsText ==
  ASSUME NEW t \in Seq(Letter), Len(t) <= MaxText, NEW u \in ChangesOf(t)
  PROVE  u \in Seq(Letter) /\ Len(u) <= MaxText
<1>1. CASE \E i \in 1..Len(t) : u = RemoveAt(t, i)
  <2>1. PICK i \in 1..Len(t) : u = RemoveAt(t, i)
    BY <1>1
  <2> HIDE DEF Letter
  <2>2. /\ SubSeq(t, 1, i - 1) \in Seq(Letter) /\ Len(SubSeq(t, 1, i - 1)) = i - 1
        /\ SubSeq(t, i + 1, Len(t)) \in Seq(Letter)
        /\ Len(SubSeq(t, i + 1, Len(t))) = Len(t) - i
    BY <2>1, SubSeqProperties
  <2>3. u = SubSeq(t, 1, i - 1) \o SubSeq(t, i + 1, Len(t))
    BY <2>1 DEF RemoveAt
  <2>4. u \in Seq(Letter) /\ Len(u) = (i - 1) + (Len(t) - i)
    BY ONLY <2>2, <2>3, ConcatLength
  <2>5. Len(t) \in Nat /\ MaxText \in Nat
    BY AnchoringAssumption
  <2>6. QED
    BY <2>4, <2>5
<1>2. CASE /\ Len(t) < MaxText
           /\ \E i \in 1..(Len(t) + 1), ch \in Character : u = InsertAt(t, i, ch)
  <2>1. PICK i \in 1..(Len(t) + 1), ch \in Character : u = InsertAt(t, i, ch)
    BY <1>2
  <2>2. ch \in Letter
    BY DEF Letter
  <2> HIDE DEF Letter
  <2>3. /\ SubSeq(t, 1, i - 1) \in Seq(Letter) /\ Len(SubSeq(t, 1, i - 1)) = i - 1
        /\ SubSeq(t, i, Len(t)) \in Seq(Letter)
        /\ Len(SubSeq(t, i, Len(t))) = Len(t) + 1 - i
        /\ <<ch>> \in Seq(Letter)
    BY <2>1, <2>2, SubSeqProperties
  <2>4. u = SubSeq(t, 1, i - 1) \o <<ch>> \o SubSeq(t, i, Len(t))
    BY <2>1 DEF InsertAt
  <2> DEFINE a == SubSeq(t, 1, i - 1)
             b == SubSeq(t, i, Len(t))
             c == a \o <<ch>>
  <2>5. u \in Seq(Letter) /\ Len(u) = (i - 1) + 1 + (Len(t) + 1 - i)
    <3>1. u = c \o b
      BY <2>4
    <3>2. /\ a \in Seq(Letter) /\ Len(a) = i - 1 /\ b \in Seq(Letter)
          /\ Len(b) = Len(t) + 1 - i /\ <<ch>> \in Seq(Letter) /\ Len(<<ch>>) = 1
      BY <2>3
    <3> HIDE DEF a, b
    <3>3. c \in Seq(Letter) /\ Len(c) = (i - 1) + 1
      BY <3>2, ConcatLength
    <3> HIDE DEF c
    <3>4. c \o b \in Seq(Letter) /\ Len(c \o b) = Len(c) + Len(b)
      BY ONLY <3>2, <3>3, ConcatLength
    <3>5. QED
      BY <3>1, <3>2, <3>3, <3>4
  <2>6. Len(t) \in Nat /\ MaxText \in Nat
    BY AnchoringAssumption
  <2>7. QED
    BY <1>2, <2>5, <2>6
<1>3. QED
  BY <1>1, <1>2 DEF ChangesOf

LEMMA InitAnchor == AnchorInit => AnchorInv
<1> SUFFICES ASSUME AnchorInit
             PROVE  AnchorInv
  OBVIOUS
<1>1. /\ submitted \in Submission /\ version = submitted.version
      /\ evidence_ = [state |-> "submitted", selector |-> submitted.selector]
      /\ captures = 0
  BY DEF AnchorInit
<1>2. VersionOK(version)
  BY <1>1, SubmissionOK
<1>3. AnchorTypeOK
  BY <1>1, <1>2, AnchoringAssumption DEF AnchorTypeOK, VersionOK
<1>4. SameMeaning(evidence_.selector, submitted.selector)
  BY <1>1 DEF SameMeaning
<1>5. QED
  BY <1>1, <1>2, <1>3, <1>4
     DEF AnchorInv, AcceptedStates, AnchoredResolves, FoundOnce

LEMMA ValidateKeeps ==
  ASSUME AnchorInv, Validate
  PROVE  AnchorInv'
<1>1. /\ evidence_' = [evidence_ EXCEPT !.state =
                         ValidateAnchor(version, evidence_.selector, quote)]
      /\ UNCHANGED <<submitted, version, captures>> /\ quote' = quote
      /\ evidence_.state = "submitted"
  BY DEF Validate, quote
<1>2. captures = 0
  BY <1>1, AnchoringAssumption DEF AnchorInv, AnchorTypeOK
<1> DEFINE sel == evidence_.selector
           outcome == ValidateAnchor(version, sel, quote)
<1>3. /\ evidence_'.state = outcome /\ evidence_'.selector = sel
      /\ DOMAIN evidence_' = {"state", "selector"}
  BY <1>1 DEF AnchorInv
<1>4. /\ outcome \in {"rejected", "unverified", "resolved"}
      /\ outcome # "rejected" => ~ (Has(sel, "exact") /\ sel.exact # quote)
      /\ outcome = "resolved" => ResolveExact(version, sel, quote).outcome = "resolved"
  BY DEF ValidateAnchor
<1> HIDE DEF outcome
<1>5. AnchoredResolves'
  BY <1>1, <1>3, <1>4 DEF AnchoredResolves, quote
<1>6. FoundOnce'
  BY <1>1, <1>2 DEF FoundOnce
<1>7. AnchorTypeOK'
  BY <1>1, <1>3, <1>4 DEF AnchorInv, AnchorTypeOK
<1>8. SameMeaning(evidence_.selector, submitted.selector)'
  BY <1>1, <1>3 DEF AnchorInv
<1>9. QED
  BY <1>1, <1>2, <1>3, <1>4, <1>5, <1>6, <1>7, <1>8 DEF AnchorInv, AcceptedStates, outcome

\* A selector that a capture writes resolves where the capture found the
\* quotation.
LEMMA ReanchoredResolves ==
  ASSUME NEW v, Len(v.text) \in Nat, NEW q, Len(q) \in Nat \ {0}, NEW sel,
         OfText(sel), sel.type = "char_range" => Has(sel, "start") /\ Has(sel, "end"),
         OnLines(sel) => Has(sel, "start_line") /\ Has(sel, "end_line"),
         sel.type = "git_line_range" => Has(sel, "commit"),
         Has(sel, "type"), Has(sel, "exact") => sel.exact = q,
         ReanchorText(v.text, sel, q).outcome = "resolved",
         ~ OnLines(sel) \/ Separator \notin Range(v.text)
  PROVE  ResolveExact(v, ReanchoredSelector(v.text, v.commit, sel,
                                            ReanchorText(v.text, sel, q)), q).outcome
           = "resolved"
<1> DEFINE t == v.text
           found == ReanchorText(t, sel, q)
           new == ReanchoredSelector(t, v.commit, sel, found)
           all == PlacesIn(t, q, sel, 0, Len(t))
<1>1. /\ Cardinality(all) = 1 /\ found.start \in all
      /\ found.end = found.start + Len(q)
  BY UniqueMatch DEF ReanchorText
<1>2. /\ SameMeaning(new, sel)
      /\ ~ OnLines(sel) =>
              /\ Has(new, "start") /\ Has(new, "end")
              /\ new.start = found.start /\ new.end = found.end
      /\ Has(sel, "start_line") => new.start_line = LineOf(t, found.start)
      /\ Has(sel, "end_line") => new.end_line = LastLine(t, found.start, found.end)
      /\ Has(sel, "commit") => new.commit = v.commit
  BY ReanchoredFields
<1> DEFINE p == found.start
<1> HIDE DEF found, new, t
<1>3. /\ new.type = sel.type /\ SameContext(new, sel)
      /\ OnLines(new) <=> OnLines(sel)
  BY <1>2, SameMeaningIs
<1>4. ~ (Has(new, "exact") /\ new.exact # q)
  BY <1>2 DEF SameMeaning
<1>5. /\ p \in 0..(Len(t) - Len(q)) /\ IsPlace(t, q, sel, p)
  BY <1>1 DEF PlacesIn
<1>6. IsPlace(t, q, new, p)
  BY <1>3, <1>5 DEF IsPlace, SameContext, ContextMatches
<1>7. CASE sel.type = "char_range"
  <2>1. new.start = p /\ new.end = p + Len(q)
    BY <1>1, <1>2, <1>7 DEF OnLines
  <2>2. ResolveExact(v, new, q) = Resolved(new.start, new.end)
    BY <1>3, <1>4, <1>6, <1>7, <2>1 DEF ResolveExact, IsPlace, OnLines, t
  <2>3. QED
    BY <2>2 DEF Resolved, new, found, t
<1>8. CASE sel.type = "text_quote"
  <2>1. /\ new.start = p /\ new.end = p + Len(q)
        /\ Has(new, "start") /\ Has(new, "end") /\ ~ OnLines(new)
    BY <1>1, <1>2, <1>3, <1>8 DEF OnLines
  <2>2. ResolveExact(v, new, q) = AtOffsets(t, q, new)
    BY <1>3, <1>4, <1>8, <2>1 DEF ResolveExact, t
  <2>3. new.end <= Len(t)
    BY <1>5, <2>1 DEF t
  <2>4. AtOffsets(t, q, new) = Resolved(new.start, new.end)
    BY <1>6, <2>1, <2>3 DEF AtOffsets, IsPlace
  <2>5. QED
    BY <2>2, <2>4 DEF Resolved, new, found, t
<1>9. CASE OnLines(sel)
  <2>1. \A i \in 1..Len(t) : t[i] # Separator
    BY <1>9 DEF Range, t
  <2>2. new.start_line = LineOf(t, p) /\ new.end_line = LastLine(t, p, p + Len(q))
    BY <1>1, <1>2, <1>9
  <2>3. PlacesIn(t, q, new, 0, Len(t)) = all
    BY <1>3, SamePlaces
  <2>4. /\ new.end_line \in Nat /\ LineCount(t) \in Nat
        /\ new.end_line <= LineCount(t)
        /\ UniqueTextMatch(t, q, LineEnd(t, new.start_line - 1),
                            LineEnd(t, new.end_line), new).outcome = "resolved"
    <3>1. Len(t) \in Nat
      BY DEF t
    <3>2. QED
      BY <1>1, <2>1, <2>2, <2>3, <3>1, ReanchoredLines, LinesCounted
  <2>5. InLines(t, q, new).outcome = "resolved"
    BY <2>4 DEF InLines
  <2>6. ResolveExact(v, new, q) = InLines(t, q, new)
    <3>1. sel.type = "git_line_range" => new.commit = v.commit
      BY <1>2
    <3>2. new.type \in {"line_range", "git_line_range"}
      BY <1>3, <1>9 DEF OnLines
    <3>3. QED
      BY <1>3, <1>4, <3>1, <3>2 DEF ResolveExact, OnLines, t
  <2>7. QED
    BY <2>5, <2>6 DEF new, found, t
<1>10. QED
  BY <1>7, <1>8, <1>9 DEF OfText

LEMMA RecaptureKeeps ==
  ASSUME AnchorInv, Recapture
  PROVE  AnchorInv'
<1> DEFINE sel == evidence_.selector
           first == submitted.selector
<1>1. PICK moved \in {FALSE, version.commit # 0} :
        \E t \in IF moved THEN {version.text} ELSE ChangesOf(version.text) :
          LET commit == IF version.commit = 0 THEN 0 ELSE version.commit + 1
              found == ReanchorText(t, sel, quote)
          IN
          /\ version' = [version EXCEPT !.text = t, !.commit = commit,
                                        !.basis = "retained"]
          /\ evidence_' =
               IF /\ OfText(sel) /\ found.outcome = "resolved"
                  /\ sel.type = "git_line_range" => commit # 0
                 THEN [state |-> IF moved THEN "relocated" ELSE "resolved",
                       selector |-> ReanchoredSelector(t, commit, sel, found)]
                 ELSE [evidence_ EXCEPT !.state = "lost"]
  BY DEF Recapture
<1>2. PICK t \in IF moved THEN {version.text} ELSE ChangesOf(version.text) :
          LET commit == IF version.commit = 0 THEN 0 ELSE version.commit + 1
              found == ReanchorText(t, sel, quote)
          IN
          /\ version' = [version EXCEPT !.text = t, !.commit = commit,
                                        !.basis = "retained"]
          /\ evidence_' =
               IF /\ OfText(sel) /\ found.outcome = "resolved"
                  /\ sel.type = "git_line_range" => commit # 0
                 THEN [state |-> IF moved THEN "relocated" ELSE "resolved",
                       selector |-> ReanchoredSelector(t, commit, sel, found)]
                 ELSE [evidence_ EXCEPT !.state = "lost"]
  BY <1>1
<1> DEFINE commit == IF version.commit = 0 THEN 0 ELSE version.commit + 1
           found == ReanchorText(t, sel, quote)
           Again == /\ OfText(sel) /\ found.outcome = "resolved"
                    /\ sel.type = "git_line_range" => commit # 0
           new == ReanchoredSelector(t, commit, sel, found)
<1>3. /\ evidence_.state \in AcceptedStates /\ captures < MaxCaptures
      /\ captures' = captures + 1 /\ submitted' = submitted
  BY DEF Recapture, AcceptedStates
<1>4. /\ captures \in Nat /\ captures' \in 1..MaxCaptures
  BY <1>3, AnchoringAssumption DEF AnchorInv, AnchorTypeOK
<1>5. /\ submitted \in Submission /\ SelectorWellFormed(first)
      /\ Len(quote) \in Nat \ {0} /\ quote' = quote
  BY <1>3, SubmissionOK DEF AnchorInv, quote
<1>6. SameMeaning(sel, first) /\ Has(first, "type")
  BY <1>5 DEF AnchorInv, SelectorWellFormed, Has
<1>7. /\ sel.type = first.type /\ SameContext(sel, first) /\ Has(sel, "type")
      /\ (OfText(sel) <=> OfText(first)) /\ DOMAIN first \subseteq DOMAIN sel
  BY <1>6, SameMeaningIs DEF SameMeaning, Has
<1>8. t \in Seq(Letter) /\ Len(t) <= MaxText /\ Len(t) \in Nat
  <2>1. CASE moved
    BY <1>2, <2>1 DEF AnchorInv, VersionOK
  <2>2. CASE ~ moved
    BY <1>2, <2>2, ChangeIsText DEF AnchorInv, VersionOK
  <2>3. QED
    BY <2>1, <2>2
<1>9. /\ commit \in Nat
      /\ version'.text = t /\ version'.commit = commit
      /\ DOMAIN version' = {"text", "commit", "basis"}
  BY <1>2 DEF AnchorInv, VersionOK
<1>10. VersionOK(version')
  BY <1>8, <1>9 DEF VersionOK
<1>11. PlacesIn(t, quote, sel, 0, Len(t)) = PlacesIn(t, quote, first, 0, Len(t))
  BY <1>7, SamePlaces
<1>12. found.outcome = "resolved" <=> Cardinality(PlacesIn(t, quote, first, 0, Len(t))) = 1
  BY <1>5, <1>8, <1>11, UniqueMatch DEF ReanchorText
<1>13. evidence_' = IF Again
                      THEN [state |-> IF moved THEN "relocated" ELSE "resolved",
                            selector |-> new]
                      ELSE [evidence_ EXCEPT !.state = "lost"]
  BY <1>2
<1>14. DOMAIN evidence_ = {"state", "selector"}
  BY DEF AnchorInv
<1> HIDE DEF found, commit, new
<1>15. CASE Again
  <2>1. /\ evidence_'.state \in {"resolved", "relocated"} /\ evidence_'.selector = new
        /\ DOMAIN evidence_' = {"state", "selector"}
    BY <1>13, <1>15
  <2>2. SameMeaning(new, sel)
    BY ReanchoredFields DEF new
  <2>3. SameMeaning(new, first)
    BY <1>6, <2>2, SameMeaningChains
  <2>4. Has(sel, "exact") => sel.exact = quote
    BY <1>3 DEF AnchorInv
  <2>5. Has(new, "exact") => new.exact = quote
    BY <2>2, <2>4 DEF SameMeaning
  <2>6. \/ ResolveExact(version', new, quote).outcome = "resolved"
        \/ OnLines(new) /\ Separator \in Range(t)
    <3>1. SUFFICES ASSUME ~ OnLines(sel) \/ Separator \notin Range(t)
                   PROVE  ResolveExact(version', new, quote).outcome = "resolved"
      BY <1>6, <1>7, <2>2, SameMeaningIs
    <3>2. /\ sel.type = "char_range" => Has(sel, "start") /\ Has(sel, "end")
          /\ OnLines(sel) => Has(sel, "start_line") /\ Has(sel, "end_line")
          /\ sel.type = "git_line_range" => Has(sel, "commit")
      BY <1>5, <1>7 DEF SelectorWellFormed, OnLines, Has
    <3>3. QED
      BY <1>5, <1>7, <1>8, <1>9, <1>15, <2>4, <3>1, <3>2, ReanchoredResolves
         DEF new, found
  <2>7. AnchoredResolves'
    BY <1>4, <1>5, <1>9, <2>1, <2>6 DEF AnchoredResolves
  <2>8. FoundOnce'
    BY <1>3, <1>5, <1>7, <1>9, <1>12, <1>15, <2>1 DEF FoundOnce, PlacesNow
  <2>9. AnchorTypeOK'
    BY <1>4, <1>10, <2>1 DEF AnchorTypeOK, VersionOK
  <2>10. QED
    BY <1>3, <1>4, <1>5, <1>10, <2>1, <2>3, <2>5, <2>7, <2>8, <2>9 DEF AnchorInv
<1>16. CASE ~ Again
  <2>1. /\ evidence_'.state = "lost" /\ evidence_'.selector = sel
        /\ DOMAIN evidence_' = {"state", "selector"}
    BY <1>13, <1>14, <1>16
  <2>2. AnchoredResolves'
    BY <2>1 DEF AnchoredResolves
  <2>3. FoundOnce'
    BY <1>3, <1>5, <1>7, <1>9, <1>12, <1>16, <2>1 DEF FoundOnce, PlacesNow
  <2>4. AnchorTypeOK'
    BY <1>4, <1>10, <2>1 DEF AnchorTypeOK, VersionOK
  <2>5. QED
    BY <1>3, <1>4, <1>5, <1>6, <1>10, <2>1, <2>2, <2>3, <2>4 DEF AnchorInv, AcceptedStates
<1>17. QED
  BY <1>15, <1>16

LEMMA AnchorInvKept ==
  ASSUME AnchorInv, [AnchorNext]_anchorVars
  PROVE  AnchorInv'
<1>1. CASE UNCHANGED anchorVars
  BY <1>1 DEF anchorVars, AnchorInv, AnchorTypeOK, AnchoredResolves, FoundOnce,
     PlacesNow, quote
<1>2. QED
  BY <1>1, ValidateKeeps, RecaptureKeeps DEF AnchorNext

-----------------------------------------------------------------------------
(***************************************************************************)
(* JSON pointers: recursion                                                *)
(***************************************************************************)

\* A function that is defined at n by its values below n: step[n][f] is what it
\* is at n if it is f below.
Unfolds(V, N, step) ==
  /\ V # {} /\ N \in Nat
  /\ \A n \in 0..N : \A f \in [0..N -> V] : step[n][f] \in V
  /\ \A n \in 0..N : \A f, g \in [0..N -> V] :
       (\A m \in 0..(n - 1) : f[m] = g[m]) => step[n][f] = step[n][g]

LEMMA Recursion ==
  ASSUME NEW V, NEW N, NEW step, Unfolds(V, N, step)
  PROVE  \E f \in [0..N -> V] : \A n \in 0..N : f[n] = step[n][f]
<1>0. /\ V # {} /\ N \in Nat
      /\ \A n \in 0..N : \A f \in [0..N -> V] : step[n][f] \in V
      /\ \A n \in 0..N : \A f, g \in [0..N -> V] :
           (\A m \in 0..(n - 1) : f[m] = g[m]) => step[n][f] = step[n][g]
  BY DEF Unfolds
<1> PICK v0 \in V : TRUE
  BY <1>0
<1> USE <1>0
<1> DEFINE Upto(k, f) == \A n \in 0..N : n < k => f[n] = step[n][f]
           Without == {k \in Nat : ~ \E f \in [0..N -> V] : Upto(k, f)}
<1>1. SUFFICES ASSUME Without # {}
               PROVE  FALSE
  <2>1. N + 1 \notin Without
    BY <1>1
  <2>2. PICK f \in [0..N -> V] : Upto(N + 1, f)
    BY <2>1
  <2>3. \A n \in 0..N : f[n] = step[n][f]
    BY <2>2
  <2>4. QED
    BY <2>3
<1>2. PICK k \in Without : \A m \in Without : k <= m
  BY <1>1, Least
<1>3. CASE k = 0
  <2> DEFINE f == [n \in 0..N |-> v0]
  <2>1. f \in [0..N -> V] /\ Upto(0, f)
    OBVIOUS
  <2>2. QED
    BY <1>2, <1>3, <2>1
<1>4. CASE k # 0
  <2>1. k - 1 \in Nat /\ k - 1 \notin Without
    <3>1. k \in Nat
      OBVIOUS
    <3> HIDE DEF Without
    <3>2. k - 1 \in Nat /\ ~ (k <= k - 1)
      BY <1>4, <3>1
    <3>3. QED
      BY <1>2, <3>2
  <2>2. PICK f \in [0..N -> V] : Upto(k - 1, f)
    BY <2>1
  <2>3. CASE k - 1 > N
    <3>1. Upto(k, f)
      BY <2>1, <2>2, <2>3
    <3>2. QED
      BY <1>2, <3>1
  <2>4. CASE k - 1 <= N
    <3> DEFINE g == [f EXCEPT ![k - 1] = step[k - 1][f]]
    <3>1. k - 1 \in 0..N
      BY <2>1, <2>4
    <3>2. g \in [0..N -> V]
      BY <3>1
    <3>3. \A n \in 0..N : n # k - 1 => g[n] = f[n]
      BY <3>1
    <3>4. g[k - 1] = step[k - 1][f]
      BY <3>1
    <3> HIDE DEF g
    <3>5. ASSUME NEW n \in 0..N, n < k
          PROVE  g[n] = step[n][g]
      <4>1. \A m \in 0..(n - 1) : f[m] = g[m]
        BY <3>3, <3>5, <2>1
      <4>2. step[n][g] = step[n][f]
        BY <3>2, <4>1
      <4>3. n # k - 1 => f[n] = step[n][f]
        BY <2>1, <2>2, <3>5
      <4>4. QED
        BY <3>3, <3>4, <4>2, <4>3
    <3>6. Upto(k, g)
      BY <3>5
    <3>7. QED
      BY <1>2, <3>2, <3>6
  <2>5. QED
    BY <2>1, <2>3, <2>4
<1>5. QED
  BY <1>3, <1>4

\* Induction, over the numbers up to N that are in S.
LEMMA UpTo ==
  ASSUME NEW N \in Nat, NEW S,
         \A n \in 0..N : (\A m \in 0..(n - 1) : m \in S) => n \in S
  PROVE  \A n \in 0..N : n \in S
<1> DEFINE Out == {n \in 0..N : n \notin S}
<1>1. SUFFICES ASSUME Out # {}
               PROVE  FALSE
  OBVIOUS
<1>2. Out \in SUBSET Nat
  OBVIOUS
<1>3. PICK n \in Out : \A m \in Out : n <= m
  BY <1>1, <1>2, Least
<1>4. ASSUME NEW m \in 0..(n - 1)
      PROVE  m \in S
  <2>1. m \in 0..N /\ ~ (n <= m)
    OBVIOUS
  <2>2. QED
    BY <1>3, <2>1
<1>5. QED
  BY <1>4

-----------------------------------------------------------------------------
(***************************************************************************)
(* JSON pointers: keys and tokens                                          *)
(***************************************************************************)

\* What keys and tokens are written in.
Marks == {"~", "/", "0", "1"}

EscapeStep(key, f, n) == IF n = 0 THEN <<>> ELSE f[n - 1] \o Escaped(key[n])
Escapes(key, f) == f = [n \in 0..Len(key) |-> EscapeStep(key, f, n)]

LEMMA EscapedIs ==
  ASSUME NEW C, Marks \subseteq C, NEW x \in C
  PROVE  Escaped(x) \in Seq(C)
BY DEF Escaped, Marks

LEMMA EscapeExists ==
  ASSUME NEW C, Marks \subseteq C, NEW key \in Seq(C)
  PROVE  \E f \in [0..Len(key) -> Seq(C)] : Escapes(key, f)
<1> DEFINE N == Len(key)
           V == Seq(C)
           step == [n \in 0..N |-> [f \in [0..N -> V] |-> EscapeStep(key, f, n)]]
<1>1. N \in Nat /\ <<>> \in V
  OBVIOUS
<1>2. \A n \in 0..N : \A f \in [0..N -> V] : step[n][f] = EscapeStep(key, f, n)
  OBVIOUS
<1>3. ASSUME NEW n \in 0..N, NEW f \in [0..N -> V]
      PROVE  EscapeStep(key, f, n) \in V
  <2>1. CASE n = 0
    BY <2>1 DEF EscapeStep
  <2>2. CASE n # 0
    <3>1. n - 1 \in 0..N /\ n \in 1..N
      BY <2>2
    <3>2. f[n - 1] \in V /\ Escaped(key[n]) \in V
      BY <3>1, ElementOfSeq, EscapedIs
    <3>3. QED
      BY <2>2, <3>2 DEF EscapeStep
  <2>3. QED
    BY <2>1, <2>2
<1> HIDE DEF step, V
<1>4. \E f \in [0..N -> V] : \A n \in 0..N : f[n] = step[n][f]
  <2>1. ASSUME NEW n \in 0..N, NEW f \in [0..N -> V]
        PROVE  step[n][f] \in V
    BY <1>2, <1>3
  <2>2. ASSUME NEW n \in 0..N, NEW f \in [0..N -> V], NEW g \in [0..N -> V],
               \A m \in 0..(n - 1) : f[m] = g[m]
        PROVE  step[n][f] = step[n][g]
    <3>1. step[n][f] = EscapeStep(key, f, n) /\ step[n][g] = EscapeStep(key, g, n)
      BY <1>2
    <3>2. EscapeStep(key, f, n) = EscapeStep(key, g, n)
      <4>1. n # 0 => n - 1 \in 0..(n - 1)
        OBVIOUS
      <4>2. QED
        BY <2>2, <4>1 DEF EscapeStep
    <3>3. QED
      BY <3>1, <3>2
  <2>3. Unfolds(V, N, step)
    BY <1>1, <2>1, <2>2 DEF Unfolds
  <2> HIDE DEF N
  <2>4. QED
    BY <2>3, Recursion
<1>5. QED
  BY <1>2, <1>4 DEF Escapes, V

\* The text in front of a position is all that counts.
LEMMA EscapesAgree ==
  ASSUME NEW key, NEW longer, Len(key) \in Nat, Len(longer) \in Nat,
         Len(key) <= Len(longer), \A i \in 1..Len(key) : key[i] = longer[i],
         NEW f, Escapes(key, f), NEW g, Escapes(longer, g)
  PROVE  \A n \in 0..Len(key) : f[n] = g[n]
<1> DEFINE S == {n \in 0..Len(key) : f[n] = g[n]}
<1>1. ASSUME NEW n \in 0..Len(key), \A m \in 0..(n - 1) : m \in S
      PROVE  n \in S
  <2>1. f[n] = EscapeStep(key, f, n)
    BY DEF Escapes
  <2>2. n \in 0..Len(longer)
    OBVIOUS
  <2>3. g[n] = EscapeStep(longer, g, n)
    BY <2>2 DEF Escapes
  <2>4. n # 0 => n - 1 \in 0..(n - 1) /\ n \in 1..Len(key)
    OBVIOUS
  <2>5. n # 0 => f[n - 1] = g[n - 1] /\ key[n] = longer[n]
    BY <1>1, <2>4
  <2>6. QED
    BY <2>1, <2>3, <2>5 DEF EscapeStep
<1>2. \A n \in 0..Len(key) : n \in S
  <2> HIDE DEF S
  <2>1. QED
    BY <1>1, UpTo
<1>3. QED
  BY <1>2

LEMMA EscapeIs ==
  ASSUME NEW C, Marks \subseteq C, NEW key \in Seq(C)
  PROVE  \E f \in [0..Len(key) -> Seq(C)] : Escapes(key, f) /\ Escape(key) = f[Len(key)]
<1> DEFINE g == CHOOSE f : Escapes(key, f)
<1>1. PICK f \in [0..Len(key) -> Seq(C)] : Escapes(key, f)
  BY EscapeExists
<1>2. Escapes(key, g)
  BY <1>1
<1>3. Escape(key) = g[Len(key)]
  BY Zenon DEF Escape, Escapes, EscapeStep
<1> HIDE DEF g
<1>4. Len(key) \in Nat
  OBVIOUS
<1>5. \A n \in 0..Len(key) : f[n] = g[n]
  BY <1>1, <1>2, <1>4, EscapesAgree
<1>6. QED
  BY <1>1, <1>3, <1>4, <1>5

\* A key is escaped character by character.
LEMMA EscapeAppend ==
  ASSUME NEW C, Marks \subseteq C, NEW key \in Seq(C), NEW x \in C
  PROVE  /\ Escape(<<>>) = <<>>
         /\ Escape(key) \in Seq(C)
         /\ Escape(Append(key, x)) = Escape(key) \o Escaped(x)
<1> DEFINE longer == Append(key, x)
<1>1. /\ longer \in Seq(C) /\ Len(longer) = Len(key) + 1 /\ longer[Len(key) + 1] = x
      /\ \A i \in 1..Len(key) : key[i] = longer[i]
      /\ Len(key) \in Nat /\ Len(longer) \in Nat
  BY AppendProperties
<1>2. PICK f \in [0..Len(key) -> Seq(C)] : Escapes(key, f) /\ Escape(key) = f[Len(key)]
  BY EscapeIs
<1>3. PICK g \in [0..Len(longer) -> Seq(C)] :
        Escapes(longer, g) /\ Escape(longer) = g[Len(longer)]
  <2> HIDE DEF longer
  <2>1. QED
    BY <1>1, EscapeIs
<1>4. \A n \in 0..Len(key) : f[n] = g[n]
  BY <1>1, <1>2, <1>3, EscapesAgree
<1>5. Escape(<<>>) = <<>>
  <2>1. <<>> \in Seq(C) /\ Len(<<>>) = 0
    BY EmptySeq
  <2>2. PICK h \in [0..Len(<<>>) -> Seq(C)] : Escapes(<<>>, h) /\ Escape(<<>>) = h[Len(<<>>)]
    BY <2>1, EscapeIs
  <2>3. QED
    BY <2>1, <2>2 DEF Escapes, EscapeStep
<1> HIDE DEF longer
<1>6. g[Len(longer)] = EscapeStep(longer, g, Len(longer))
  <2>1. Len(longer) \in 0..Len(longer)
    BY <1>1
  <2>2. QED
    BY <1>3, <2>1 DEF Escapes
<1>7. g[Len(longer)] = g[Len(key)] \o Escaped(x)
  <2>1. Len(longer) # 0 /\ Len(longer) - 1 = Len(key) /\ longer[Len(longer)] = x
    BY <1>1
  <2>2. QED
    BY <1>6, <2>1, Zenon DEF EscapeStep
<1>8. Len(key) \in 0..Len(key)
  BY <1>1
<1>9. QED
  BY <1>2, <1>3, <1>4, <1>5, <1>7, <1>8 DEF longer

UnescapeStep(token, digit, ch, f, n) ==
  IF n = 0 THEN <<>>
  ELSE IF n > 1 /\ token[n - 1] = "~" /\ token[n] = digit
    THEN Append(f[n - 2], ch)
  ELSE Append(f[n - 1], token[n])
Unescapes(token, digit, ch, f) ==
  f = [n \in 0..Len(token) |-> UnescapeStep(token, digit, ch, f, n)]

LEMMA UnescapeExists ==
  ASSUME NEW C, NEW token \in Seq(C), NEW digit, NEW ch \in C
  PROVE  \E f \in [0..Len(token) -> Seq(C)] : Unescapes(token, digit, ch, f)
<1> DEFINE N == Len(token)
           V == Seq(C)
           step == [n \in 0..N |->
                     [f \in [0..N -> V] |-> UnescapeStep(token, digit, ch, f, n)]]
<1>1. N \in Nat /\ <<>> \in V
  OBVIOUS
<1>2. \A n \in 0..N : \A f \in [0..N -> V] :
        step[n][f] = UnescapeStep(token, digit, ch, f, n)
  OBVIOUS
<1>3. ASSUME NEW n \in 0..N, NEW f \in [0..N -> V]
      PROVE  UnescapeStep(token, digit, ch, f, n) \in V
  <2>1. n # 0 => n - 1 \in 0..N /\ token[n] \in C
    BY ElementOfSeq
  <2>2. n > 1 => n - 2 \in 0..N
    OBVIOUS
  <2>3. n # 0 => Append(f[n - 1], token[n]) \in V
    BY <2>1
  <2>4. n > 1 => Append(f[n - 2], ch) \in V
    BY <2>2
  <2> HIDE DEF V, N
  <2>5. QED
    BY <1>1, <2>3, <2>4 DEF UnescapeStep
<1> HIDE DEF step, V
<1>4. \E f \in [0..N -> V] : \A n \in 0..N : f[n] = step[n][f]
  <2>1. ASSUME NEW n \in 0..N, NEW f \in [0..N -> V]
        PROVE  step[n][f] \in V
    BY <1>2, <1>3
  <2>2. ASSUME NEW n \in 0..N, NEW f \in [0..N -> V], NEW g \in [0..N -> V],
               \A m \in 0..(n - 1) : f[m] = g[m]
        PROVE  step[n][f] = step[n][g]
    <3>1. /\ step[n][f] = UnescapeStep(token, digit, ch, f, n)
          /\ step[n][g] = UnescapeStep(token, digit, ch, g, n)
      BY <1>2
    <3>2. UnescapeStep(token, digit, ch, f, n) = UnescapeStep(token, digit, ch, g, n)
      <4>1. /\ n # 0 => n - 1 \in 0..(n - 1)
            /\ n > 1 => n - 2 \in 0..(n - 1)
        OBVIOUS
      <4>2. QED
        BY <2>2, <4>1 DEF UnescapeStep
    <3>3. QED
      BY <3>1, <3>2
  <2>3. Unfolds(V, N, step)
    BY <1>1, <2>1, <2>2 DEF Unfolds
  <2> HIDE DEF N
  <2>4. QED
    BY <2>3, Recursion
<1>5. QED
  BY <1>2, <1>4 DEF Unescapes, V

LEMMA UnescapesAgree ==
  ASSUME NEW token, NEW longer, Len(token) \in Nat, Len(longer) \in Nat,
         Len(token) <= Len(longer), \A i \in 1..Len(token) : token[i] = longer[i],
         NEW digit, NEW ch,
         NEW f, Unescapes(token, digit, ch, f), NEW g, Unescapes(longer, digit, ch, g)
  PROVE  \A n \in 0..Len(token) : f[n] = g[n]
<1> DEFINE S == {n \in 0..Len(token) : f[n] = g[n]}
<1>1. ASSUME NEW n \in 0..Len(token), \A m \in 0..(n - 1) : m \in S
      PROVE  n \in S
  <2>1. f[n] = UnescapeStep(token, digit, ch, f, n)
    BY DEF Unescapes
  <2>2. n \in 0..Len(longer)
    OBVIOUS
  <2>3. g[n] = UnescapeStep(longer, digit, ch, g, n)
    BY <2>2 DEF Unescapes
  <2>4. /\ n # 0 => n - 1 \in 0..(n - 1) /\ n \in 1..Len(token)
        /\ n > 1 => n - 2 \in 0..(n - 1) /\ n - 1 \in 1..Len(token)
    OBVIOUS
  <2>5. /\ n # 0 => f[n - 1] = g[n - 1] /\ token[n] = longer[n]
        /\ n > 1 => f[n - 2] = g[n - 2] /\ token[n - 1] = longer[n - 1]
    BY <1>1, <2>4
  <2>6. QED
    BY <2>1, <2>3, <2>5 DEF UnescapeStep
<1>2. \A n \in 0..Len(token) : n \in S
  <2> HIDE DEF S
  <2>1. QED
    BY <1>1, UpTo
<1>3. QED
  BY <1>2

UnescapedBySteps(C, token, digit, ch) ==
  \E f \in [0..Len(token) -> Seq(C)] :
    Unescapes(token, digit, ch, f) /\ Unescape(token, digit, ch) = f[Len(token)]

LEMMA UnescapeIs ==
  ASSUME NEW C, NEW token \in Seq(C), NEW digit, NEW ch \in C
  PROVE  UnescapedBySteps(C, token, digit, ch)
<1> DEFINE g == CHOOSE f : Unescapes(token, digit, ch, f)
<1>1. PICK f \in [0..Len(token) -> Seq(C)] : Unescapes(token, digit, ch, f)
  BY UnescapeExists
<1>2. Unescapes(token, digit, ch, g)
  BY <1>1
<1>3. Unescape(token, digit, ch) = g[Len(token)]
  BY Zenon DEF Unescape, Unescapes, UnescapeStep
<1> HIDE DEF g
<1>4. Len(token) \in Nat
  OBVIOUS
<1>5. \A n \in 0..Len(token) : f[n] = g[n]
  BY <1>1, <1>2, <1>4, UnescapesAgree
<1>6. QED
  BY <1>1, <1>3, <1>4, <1>5 DEF UnescapedBySteps

LEMMA UnescapeNone ==
  ASSUME NEW digit, NEW ch
  PROVE  Unescape(<<>>, digit, ch) = <<>>
<1>1. <<>> \in Seq({ch}) /\ Len(<<>>) = 0
  BY EmptySeq
<1>2. UnescapedBySteps({ch}, <<>>, digit, ch)
  BY <1>1, UnescapeIs
<1>3. PICK h \in [0..Len(<<>>) -> Seq({ch})] :
        Unescapes(<<>>, digit, ch, h) /\ Unescape(<<>>, digit, ch) = h[Len(<<>>)]
  BY <1>2 DEF UnescapedBySteps
<1>4. QED
  BY <1>1, <1>3 DEF Unescapes, UnescapeStep

\* Replacing goes character by character, but for the two that are replaced.
LEMMA UnescapeAppend ==
  ASSUME NEW C, NEW token \in Seq(C), NEW digit, NEW ch \in C, NEW x \in C
  PROVE  /\ Unescape(token, digit, ch) \in Seq(C)
         /\ token = <<>> \/ token[Len(token)] # "~" \/ x # digit =>
              Unescape(Append(token, x), digit, ch)
                = Append(Unescape(token, digit, ch), x)
<1> DEFINE longer == Append(token, x)
<1>1. /\ longer \in Seq(C) /\ Len(longer) = Len(token) + 1
      /\ longer[Len(token) + 1] = x
      /\ \A i \in 1..Len(token) : token[i] = longer[i]
      /\ Len(token) \in Nat /\ Len(longer) \in Nat
  BY AppendProperties
<1>2. PICK f \in [0..Len(token) -> Seq(C)] :
        Unescapes(token, digit, ch, f) /\ Unescape(token, digit, ch) = f[Len(token)]
  <2>1. UnescapedBySteps(C, token, digit, ch)
    BY UnescapeIs
  <2>2. QED
    BY <2>1 DEF UnescapedBySteps
<1> HIDE DEF longer
<1>3. PICK g \in [0..Len(longer) -> Seq(C)] :
        Unescapes(longer, digit, ch, g) /\ Unescape(longer, digit, ch) = g[Len(longer)]
  <2>1. UnescapedBySteps(C, longer, digit, ch)
    BY <1>1, UnescapeIs
  <2>2. QED
    BY <2>1 DEF UnescapedBySteps
<1>4. \A n \in 0..Len(token) : f[n] = g[n]
  BY <1>1, <1>2, <1>3, UnescapesAgree
<1>5. g[Len(longer)] = UnescapeStep(longer, digit, ch, g, Len(longer))
  <2>1. Len(longer) \in 0..Len(longer)
    BY <1>1
  <2>2. QED
    BY <1>3, <2>1 DEF Unescapes
<1>6. ASSUME token = <<>> \/ token[Len(token)] # "~" \/ x # digit
      PROVE  g[Len(longer)] = Append(g[Len(token)], x)
  <2>1. Len(longer) # 0 /\ Len(longer) - 1 = Len(token) /\ longer[Len(longer)] = x
    BY <1>1
  <2>2. ~ (Len(longer) > 1 /\ longer[Len(longer) - 1] = "~" /\ longer[Len(longer)] = digit)
    <3>1. Len(longer) > 1 => token # <<>> /\ Len(token) \in 1..Len(token)
      BY <1>1
    <3>2. QED
      BY <1>1, <1>6, <2>1, <3>1
  <2>3. QED
    BY <1>5, <2>1, <2>2, Zenon DEF UnescapeStep
<1>7. Len(token) \in 0..Len(token)
  BY <1>1
<1>8. QED
  BY <1>2, <1>3, <1>4, <1>6, <1>7 DEF longer

LEMMA UnescapeTwo ==
  ASSUME NEW C, NEW token \in Seq(C), NEW digit \in C, NEW ch \in C, "~" \in C
  PROVE  Unescape(Append(Append(token, "~"), digit), digit, ch)
           = Append(Unescape(token, digit, ch), ch)
<1> DEFINE longer == Append(Append(token, "~"), digit)
<1>1. /\ longer \in Seq(C) /\ Len(longer) = Len(token) + 2
      /\ longer[Len(token) + 1] = "~" /\ longer[Len(token) + 2] = digit
      /\ \A i \in 1..Len(token) : token[i] = longer[i]
      /\ Len(token) \in Nat /\ Len(longer) \in Nat
  OBVIOUS
<1>2. PICK f \in [0..Len(token) -> Seq(C)] :
        Unescapes(token, digit, ch, f) /\ Unescape(token, digit, ch) = f[Len(token)]
  <2>1. UnescapedBySteps(C, token, digit, ch)
    BY UnescapeIs
  <2>2. QED
    BY <2>1 DEF UnescapedBySteps
<1> HIDE DEF longer
<1>3. PICK g \in [0..Len(longer) -> Seq(C)] :
        Unescapes(longer, digit, ch, g) /\ Unescape(longer, digit, ch) = g[Len(longer)]
  <2>1. UnescapedBySteps(C, longer, digit, ch)
    BY <1>1, UnescapeIs
  <2>2. QED
    BY <2>1 DEF UnescapedBySteps
<1>4. \A n \in 0..Len(token) : f[n] = g[n]
  <2>1. /\ Len(token) \in Nat /\ Len(longer) \in Nat /\ Len(token) <= Len(longer)
        /\ \A i \in 1..Len(token) : token[i] = longer[i]
    BY <1>1
  <2>2. Unescapes(token, digit, ch, f) /\ Unescapes(longer, digit, ch, g)
    BY <1>2, <1>3
  <2>3. QED
    BY <2>1, <2>2, UnescapesAgree
<1>5. g[Len(longer)] = UnescapeStep(longer, digit, ch, g, Len(longer))
  <2>1. Len(longer) \in 0..Len(longer)
    BY <1>1
  <2>2. QED
    BY <1>3, <2>1 DEF Unescapes
<1>6. g[Len(longer)] = Append(g[Len(token)], ch)
  <2>1. /\ Len(longer) # 0 /\ Len(longer) > 1 /\ Len(longer) - 2 = Len(token)
        /\ longer[Len(longer) - 1] = "~" /\ longer[Len(longer)] = digit
    BY <1>1
  <2>2. QED
    BY <1>5, <2>1, Zenon DEF UnescapeStep
<1>7. Len(token) \in 0..Len(token)
  BY <1>1
<1>8. QED
  BY <1>2, <1>3, <1>4, <1>6, <1>7 DEF longer

-----------------------------------------------------------------------------
(***************************************************************************)
(* JSON pointers: indexes                                                  *)
(***************************************************************************)

Figures == Range(Digits)
AnyFigures == Figures \cup DOMAIN OtherDigits

LEMMA DigitsDiffer ==
  \A d, e \in 0..9 : Digits[d + 1] = Digits[e + 1] => d = e
<1>1. ASSUME NEW d \in 0..9
      PROVE  \/ (d = 0 /\ Digits[d + 1] = "0")
             \/ (d = 1 /\ Digits[d + 1] = "1")
             \/ (d = 2 /\ Digits[d + 1] = "2")
             \/ (d = 3 /\ Digits[d + 1] = "3")
             \/ (d = 4 /\ Digits[d + 1] = "4")
             \/ (d = 5 /\ Digits[d + 1] = "5")
             \/ (d = 6 /\ Digits[d + 1] = "6")
             \/ (d = 7 /\ Digits[d + 1] = "7")
             \/ (d = 8 /\ Digits[d + 1] = "8")
             \/ (d = 9 /\ Digits[d + 1] = "9")
  BY DEF Digits
<1>2. QED
  BY <1>1

LEMMA DigitIs ==
  /\ \A d \in 0..9 : Digits[d + 1] \in Figures /\ DigitOf(Digits[d + 1]) = d
  /\ \A x \in Figures : DigitOf(x) \in 0..9 /\ Digits[DigitOf(x) + 1] = x
  /\ \A x \in AnyFigures : DigitOf(x) \in 0..9
  /\ Digits[1] = "0" /\ "~" \notin Figures /\ "/" \notin Figures
<1>1. DOMAIN Digits = 1..10
  BY DEF Digits
<1>2. \A d \in 0..9 : Digits[d + 1] \in Figures
  BY <1>1 DEF Figures, Range
<1>3. ASSUME NEW x \in Figures
      PROVE  \E d \in 0..9 : Digits[d + 1] = x
  <2>1. PICK i \in 1..10 : x = Digits[i]
    BY <1>1 DEF Figures, Range
  <2>2. i - 1 \in 0..9 /\ (i - 1) + 1 = i
    OBVIOUS
  <2>3. QED
    BY <2>1, <2>2
<1>4. \A x \in Figures : DigitOf(x) \in 0..9 /\ Digits[DigitOf(x) + 1] = x
  <2>1. \A x \in Figures : x \notin DOMAIN OtherDigits
    BY AnchoringAssumption DEF Figures
  <2>2. QED
    BY <1>3, <2>1 DEF DigitOf
<1>5. \A d \in 0..9 : DigitOf(Digits[d + 1]) = d
  BY <1>2, <1>4, DigitsDiffer
<1>6. Digits[1] = "0"
  BY DEF Digits
<1>7. \A i \in 1..10 : Digits[i] # "~" /\ Digits[i] # "/"
  BY DEF Digits
<1>8. \A x \in AnyFigures : DigitOf(x) \in 0..9
  <2>1. \A x \in DOMAIN OtherDigits : OtherDigits[x] \in 0..9
    BY AnchoringAssumption
  <2>2. QED
    BY <1>4, <2>1 DEF AnyFigures, DigitOf
<1>9. QED
  BY <1>1, <1>2, <1>4, <1>5, <1>6, <1>7, <1>8 DEF Figures, Range

IndexStep(token, f, n) == IF n = 0 THEN 0 ELSE 10 * f[n - 1] + DigitOf(token[n])
Indexes(token, f) == f = [n \in 0..Len(token) |-> IndexStep(token, f, n)]

LEMMA IndexExists ==
  ASSUME NEW token \in Seq(AnyFigures)
  PROVE  \E f \in [0..Len(token) -> Nat] : Indexes(token, f)
<1> DEFINE N == Len(token)
           step == [n \in 0..N |-> [f \in [0..N -> Nat] |-> IndexStep(token, f, n)]]
<1>1. N \in Nat
  OBVIOUS
<1>2. \A n \in 0..N : \A f \in [0..N -> Nat] : step[n][f] = IndexStep(token, f, n)
  OBVIOUS
<1>3. ASSUME NEW n \in 0..N, NEW f \in [0..N -> Nat]
      PROVE  IndexStep(token, f, n) \in Nat
  <2>1. n # 0 => n - 1 \in 0..N /\ token[n] \in AnyFigures
    BY ElementOfSeq
  <2>2. n # 0 => f[n - 1] \in Nat /\ DigitOf(token[n]) \in 0..9
    BY <2>1, DigitIs
  <2> HIDE DEF N
  <2>3. QED
    BY <2>2 DEF IndexStep
<1> HIDE DEF step
<1>4. \E f \in [0..N -> Nat] : \A n \in 0..N : f[n] = step[n][f]
  <2>1. ASSUME NEW n \in 0..N, NEW f \in [0..N -> Nat]
        PROVE  step[n][f] \in Nat
    BY <1>2, <1>3
  <2>2. ASSUME NEW n \in 0..N, NEW f \in [0..N -> Nat], NEW g \in [0..N -> Nat],
               \A m \in 0..(n - 1) : f[m] = g[m]
        PROVE  step[n][f] = step[n][g]
    <3>1. step[n][f] = IndexStep(token, f, n) /\ step[n][g] = IndexStep(token, g, n)
      BY <1>2
    <3>2. IndexStep(token, f, n) = IndexStep(token, g, n)
      <4>1. n # 0 => n - 1 \in 0..(n - 1)
        OBVIOUS
      <4>2. QED
        BY <2>2, <4>1 DEF IndexStep
    <3>3. QED
      BY <3>1, <3>2
  <2>3. Unfolds(Nat, N, step)
    BY <1>1, <2>1, <2>2 DEF Unfolds
  <2> HIDE DEF N
  <2>4. QED
    BY <2>3, Recursion
<1>5. QED
  BY <1>2, <1>4 DEF Indexes

LEMMA IndexesAgree ==
  ASSUME NEW token, NEW longer, Len(token) \in Nat, Len(longer) \in Nat,
         Len(token) <= Len(longer), \A i \in 1..Len(token) : token[i] = longer[i],
         NEW f, Indexes(token, f), NEW g, Indexes(longer, g)
  PROVE  \A n \in 0..Len(token) : f[n] = g[n]
<1> DEFINE S == {n \in 0..Len(token) : f[n] = g[n]}
<1>1. ASSUME NEW n \in 0..Len(token), \A m \in 0..(n - 1) : m \in S
      PROVE  n \in S
  <2>1. f[n] = IndexStep(token, f, n)
    BY DEF Indexes
  <2>2. n \in 0..Len(longer)
    OBVIOUS
  <2>3. g[n] = IndexStep(longer, g, n)
    BY <2>2 DEF Indexes
  <2>4. n # 0 => n - 1 \in 0..(n - 1) /\ n \in 1..Len(token)
    OBVIOUS
  <2>5. n # 0 => f[n - 1] = g[n - 1] /\ token[n] = longer[n]
    BY <1>1, <2>4
  <2>6. QED
    BY <2>1, <2>3, <2>5 DEF IndexStep
<1>2. \A n \in 0..Len(token) : n \in S
  <2> HIDE DEF S
  <2>1. QED
    BY <1>1, UpTo
<1>3. QED
  BY <1>2

LEMMA IndexIs ==
  ASSUME NEW token \in Seq(AnyFigures)
  PROVE  \E f \in [0..Len(token) -> Nat] :
           Indexes(token, f) /\ IndexOf(token) = f[Len(token)]
<1> DEFINE g == CHOOSE f : Indexes(token, f)
<1>1. PICK f \in [0..Len(token) -> Nat] : Indexes(token, f)
  BY IndexExists
<1>2. Indexes(token, g)
  BY <1>1
<1>3. IndexOf(token) = g[Len(token)]
  BY Zenon DEF IndexOf, Indexes, IndexStep
<1> HIDE DEF g
<1>4. Len(token) \in Nat
  OBVIOUS
<1>5. \A n \in 0..Len(token) : f[n] = g[n]
  BY <1>1, <1>2, <1>4, IndexesAgree
<1>6. QED
  BY <1>1, <1>3, <1>4, <1>5

LEMMA AnyIndexAppend ==
  ASSUME NEW token \in Seq(AnyFigures), NEW x \in AnyFigures
  PROVE  /\ IndexOf(<<>>) = 0
         /\ IndexOf(token) \in Nat
         /\ IndexOf(Append(token, x)) = 10 * IndexOf(token) + DigitOf(x)
<1> DEFINE longer == Append(token, x)
<1>1. /\ longer \in Seq(AnyFigures) /\ Len(longer) = Len(token) + 1
      /\ longer[Len(token) + 1] = x
      /\ \A i \in 1..Len(token) : token[i] = longer[i]
      /\ Len(token) \in Nat /\ Len(longer) \in Nat
  BY AppendProperties
<1>2. PICK f \in [0..Len(token) -> Nat] :
        Indexes(token, f) /\ IndexOf(token) = f[Len(token)]
  BY IndexIs
<1> HIDE DEF longer
<1>3. PICK g \in [0..Len(longer) -> Nat] :
        Indexes(longer, g) /\ IndexOf(longer) = g[Len(longer)]
  BY <1>1, IndexIs
<1>4. \A n \in 0..Len(token) : f[n] = g[n]
  BY <1>1, <1>2, <1>3, IndexesAgree
<1>5. IndexOf(<<>>) = 0
  <2>1. <<>> \in Seq(AnyFigures) /\ Len(<<>>) = 0
    BY EmptySeq
  <2>2. PICK h \in [0..Len(<<>>) -> Nat] : Indexes(<<>>, h) /\ IndexOf(<<>>) = h[Len(<<>>)]
    BY <2>1, IndexIs
  <2>3. QED
    BY <2>1, <2>2 DEF Indexes, IndexStep
<1>6. g[Len(longer)] = IndexStep(longer, g, Len(longer))
  <2>1. Len(longer) \in 0..Len(longer)
    BY <1>1
  <2>2. QED
    BY <1>3, <2>1 DEF Indexes
<1>7. g[Len(longer)] = 10 * g[Len(token)] + DigitOf(x)
  <2>1. Len(longer) # 0 /\ Len(longer) - 1 = Len(token) /\ longer[Len(longer)] = x
    BY <1>1
  <2>2. QED
    BY <1>6, <2>1, Zenon DEF IndexStep
<1>8. Len(token) \in 0..Len(token)
  BY <1>1
<1>9. QED
  BY <1>2, <1>3, <1>4, <1>5, <1>7, <1>8 DEF longer

LEMMA IndexAppend ==
  ASSUME NEW token \in Seq(Figures), NEW x \in Figures
  PROVE  /\ IndexOf(<<>>) = 0
         /\ IndexOf(token) \in Nat
         /\ IndexOf(Append(token, x)) = 10 * IndexOf(token) + DigitOf(x)
<1>1. token \in Seq(AnyFigures) /\ x \in AnyFigures
  BY SeqMonotonic DEF AnyFigures
<1>2. QED
  BY <1>1, AnyIndexAppend

DecimalStep(f, n) ==
  IF n < 10 THEN <<Digits[n + 1]>> ELSE Append(f[n \div 10], Digits[(n % 10) + 1])
Decimals(index, f) == f = [n \in 0..index |-> DecimalStep(f, n)]

LEMMA Tenth ==
  ASSUME NEW n \in Nat, n >= 10
  PROVE  n \div 10 \in 1..(n - 1) /\ n % 10 \in 0..9 /\ n = 10 * (n \div 10) + (n % 10)
OBVIOUS

LEMMA DecimalExists ==
  ASSUME NEW index \in Nat
  PROVE  \E f \in [0..index -> Seq(Figures)] : Decimals(index, f)
<1> DEFINE V == Seq(Figures)
           step == [n \in 0..index |-> [f \in [0..index -> V] |-> DecimalStep(f, n)]]
<1>1. <<>> \in V
  OBVIOUS
<1>2. \A n \in 0..index : \A f \in [0..index -> V] : step[n][f] = DecimalStep(f, n)
  OBVIOUS
<1>3. ASSUME NEW n \in 0..index, NEW f \in [0..index -> V]
      PROVE  DecimalStep(f, n) \in V
  <2>1. CASE n < 10
    <3>1. n \in 0..9
      BY <2>1
    <3>2. Digits[n + 1] \in Figures
      BY <3>1, DigitIs
    <3>3. QED
      BY <2>1, <3>2 DEF DecimalStep
  <2>2. CASE ~ (n < 10)
    <3>1. n \div 10 \in 0..index /\ n % 10 \in 0..9
      BY <2>2, Tenth
    <3>2. f[n \div 10] \in V /\ Digits[(n % 10) + 1] \in Figures
      BY <3>1, DigitIs
    <3>3. QED
      BY <2>2, <3>2, AppendProperties DEF DecimalStep
  <2>3. QED
    BY <2>1, <2>2
<1> HIDE DEF step, V
<1>4. \E f \in [0..index -> V] : \A n \in 0..index : f[n] = step[n][f]
  <2>1. ASSUME NEW n \in 0..index, NEW f \in [0..index -> V]
        PROVE  step[n][f] \in V
    BY <1>2, <1>3
  <2>2. ASSUME NEW n \in 0..index, NEW f \in [0..index -> V], NEW g \in [0..index -> V],
               \A m \in 0..(n - 1) : f[m] = g[m]
        PROVE  step[n][f] = step[n][g]
    <3>1. step[n][f] = DecimalStep(f, n) /\ step[n][g] = DecimalStep(g, n)
      BY <1>2
    <3>2. DecimalStep(f, n) = DecimalStep(g, n)
      <4>1. ~ (n < 10) => n \div 10 \in 0..(n - 1)
        BY Tenth
      <4>2. QED
        BY <2>2, <4>1 DEF DecimalStep
    <3>3. QED
      BY <3>1, <3>2
  <2>3. Unfolds(V, index, step)
    BY <1>1, <2>1, <2>2 DEF Unfolds
  <2> DEFINE N == index
  <2>4. Unfolds(V, N, step)
    BY <2>3
  <2> HIDE DEF N
  <2>5. \E f \in [0..N -> V] : \A n \in 0..N : f[n] = step[n][f]
    BY <2>4, Recursion
  <2>6. QED
    BY <2>5 DEF N
<1>5. QED
  BY <1>2, <1>4 DEF Decimals, V

LEMMA DecimalsAgree ==
  ASSUME NEW index \in Nat, NEW more \in Nat, index <= more,
         NEW f, Decimals(index, f), NEW g, Decimals(more, g)
  PROVE  \A n \in 0..index : f[n] = g[n]
<1> DEFINE S == {n \in 0..index : f[n] = g[n]}
<1>1. ASSUME NEW n \in 0..index, \A m \in 0..(n - 1) : m \in S
      PROVE  n \in S
  <2>1. f[n] = DecimalStep(f, n)
    BY DEF Decimals
  <2>2. n \in 0..more
    OBVIOUS
  <2>3. g[n] = DecimalStep(g, n)
    BY <2>2 DEF Decimals
  <2>4. ~ (n < 10) => n \div 10 \in 0..(n - 1)
    BY Tenth
  <2>5. ~ (n < 10) => f[n \div 10] = g[n \div 10]
    BY <1>1, <2>4
  <2>6. QED
    BY <2>1, <2>3, <2>5 DEF DecimalStep
<1>2. \A n \in 0..index : n \in S
  <2> HIDE DEF S
  <2>1. QED
    BY <1>1, UpTo
<1>3. QED
  BY <1>2

LEMMA DecimalIs ==
  ASSUME NEW index \in Nat
  PROVE  \E f \in [0..index -> Seq(Figures)] :
           Decimals(index, f) /\ Decimal(index) = f[index]
<1> DEFINE g == CHOOSE f : Decimals(index, f)
<1>1. PICK f \in [0..index -> Seq(Figures)] : Decimals(index, f)
  BY DecimalExists
<1>2. Decimals(index, g)
  BY <1>1
<1>3. Decimal(index) = g[index]
  BY Zenon DEF Decimal, Decimals, DecimalStep
<1> HIDE DEF g
<1>4. \A n \in 0..index : f[n] = g[n]
  BY <1>1, <1>2, DecimalsAgree
<1>5. QED
  BY <1>1, <1>3, <1>4

LEMMA DecimalBefore ==
  ASSUME NEW n \in Nat, NEW m \in Nat, m <= n, NEW f, Decimals(n, f)
  PROVE  f[m] = Decimal(m)
<1>1. PICK g \in [0..m -> Seq(Figures)] : Decimals(m, g) /\ Decimal(m) = g[m]
  BY DecimalIs
<1>2. Decimals(m, g) /\ Decimal(m) = g[m] /\ m \in 0..m
  BY <1>1
<1>3. \A i \in 0..m : g[i] = f[i]
  BY <1>2, DecimalsAgree
<1>4. QED
  BY <1>2, <1>3

LEMMA DecimalOf ==
  ASSUME NEW n \in Nat
  PROVE  /\ Decimal(n) \in Seq(Figures)
         /\ n < 10 => Decimal(n) = <<Digits[n + 1]>>
         /\ n >= 10 => Decimal(n) = Append(Decimal(n \div 10), Digits[(n % 10) + 1])
<1>1. PICK f \in [0..n -> Seq(Figures)] : Decimals(n, f) /\ Decimal(n) = f[n]
  BY DecimalIs
<1>2. f[n] = DecimalStep(f, n)
  <2>1. n \in 0..n
    OBVIOUS
  <2>2. QED
    BY <1>1, <2>1 DEF Decimals
<1>3. n \in 0..n /\ f[n] \in Seq(Figures)
  OBVIOUS
<1>4. CASE n < 10
  BY <1>1, <1>2, <1>3, <1>4 DEF DecimalStep
<1>5. CASE n >= 10
  <2>1. n \div 10 \in Nat /\ n \div 10 <= n
    BY <1>5, Tenth
  <2>2. f[n \div 10] = Decimal(n \div 10)
    BY <1>1, <2>1, DecimalBefore
  <2>3. ~ (n < 10)
    BY <1>5
  <2>4. f[n] = Append(Decimal(n \div 10), Digits[(n % 10) + 1])
    BY <1>2, <2>2, <2>3, Zenon DEF DecimalStep
  <2>5. QED
    BY <1>1, <1>3, <2>3, <2>4
<1>6. QED
  BY <1>4, <1>5

LEMMA DecimalSmall ==
  \A d \in 0..9 : Decimal(d) = <<Digits[d + 1]>> /\ Decimal(d) = Append(<<>>, Digits[d + 1])
<1>1. \A d \in 0..9 : d \in Nat /\ d < 10
  OBVIOUS
<1>2. \A d \in 0..9 : Decimal(d) = <<Digits[d + 1]>>
  BY <1>1, DecimalOf
<1>3. QED
  BY <1>2

LEMMA DecimalMore ==
  ASSUME NEW h \in Nat, h # 0, NEW d \in 0..9
  PROVE  Decimal(10 * h + d) = Append(Decimal(h), Digits[d + 1])
<1> DEFINE n == 10 * h + d
<1>1. n \in Nat /\ n >= 10 /\ n \div 10 = h /\ n % 10 = d
  OBVIOUS
<1> HIDE DEF n
<1>2. Decimal(n) = Append(Decimal(n \div 10), Digits[(n % 10) + 1])
  BY <1>1, DecimalOf
<1>3. Decimal(n) = Append(Decimal(h), Digits[d + 1])
  BY <1>1, <1>2, Zenon
<1>4. QED
  BY <1>3 DEF n

IsAppended(s, r, x) ==
  /\ s = Append(r, x) /\ Len(r) \in Nat /\ Len(s) = Len(r) + 1
  /\ \A i \in 1..Len(r) : s[i] = r[i]
  /\ s[Len(s)] = x

LEMMA LastOf ==
  ASSUME NEW C, NEW s \in Seq(C), s # <<>>
  PROVE  \E r \in Seq(C), x \in C : IsAppended(s, r, x)
<1>1. PICK r \in Seq(C), x \in C : s = Append(r, x)
  BY SequenceEmptyOrAppend
<1>2. QED
  BY <1>1, AppendProperties DEF IsAppended

\* The index that a numeral stands for is the one it was written for.
IndexRead(n) ==
  /\ Decimal(n) # <<>> /\ IndexOf(Decimal(n)) = n
  /\ n # 0 => Decimal(n)[1] # "0"
  /\ Len(Decimal(n)) > 1 => n # 0

LEMMA IndexOfDecimal ==
  ASSUME NEW N \in Nat
  PROVE  IndexRead(N)
<1> DEFINE S == {n \in Nat : IndexRead(n)}
<1>1. ASSUME NEW n \in 0..N, \A m \in 0..(n - 1) : m \in S
      PROVE  n \in S
  <2>1. CASE n < 10
    <3>1. n \in 0..9 /\ n \in Nat
      BY <2>1
    <3>2. Digits[n + 1] \in Figures /\ DigitOf(Digits[n + 1]) = n
      BY <3>1, DigitIs
    <3>3. Decimal(n) = <<Digits[n + 1]>> /\ Decimal(n) = Append(<<>>, Digits[n + 1])
      BY <3>1, DecimalSmall
    <3>4. IndexOf(Decimal(n)) = n
      <4>1. <<>> \in Seq(Figures)
        OBVIOUS
      <4>2. IndexOf(Append(<<>>, Digits[n + 1])) = 10 * 0 + n
        BY <3>2, <4>1, IndexAppend
      <4>3. QED
        BY <3>1, <3>3, <4>2
    <3>5. n # 0 => Digits[n + 1] # "0"
      <4>1. 0 \in 0..9 /\ 0 + 1 = 1
        OBVIOUS
      <4>2. QED
        BY <3>1, <4>1, DigitsDiffer, DigitIs
    <3>6. Decimal(n) # <<>> /\ Decimal(n)[1] = Digits[n + 1] /\ Len(Decimal(n)) = 1
      BY <3>3
    <3>7. IndexRead(n)
      BY <3>4, <3>5, <3>6 DEF IndexRead
    <3>8. QED
      BY <3>1, <3>7
  <2>2. CASE n >= 10
    <3>1. \E m \in 1..(n - 1), d \in 0..9 : n = 10 * m + d
      <4>1. /\ n \div 10 \in 1..(n - 1) /\ n % 10 \in 0..9
            /\ n = 10 * (n \div 10) + (n % 10)
        BY <2>2, Tenth
      <4>2. QED
        BY <4>1, Zenon
    <3>2. PICK m \in 1..(n - 1), d \in 0..9 : n = 10 * m + d
      BY <3>1
    <3>3. m \in 0..(n - 1) /\ m \in Nat /\ m # 0 /\ n \in Nat
      OBVIOUS
    <3>4. Decimal(n) = Append(Decimal(m), Digits[d + 1])
      BY <3>2, <3>3, DecimalMore
    <3>5. IndexRead(m) /\ Decimal(m) \in Seq(Figures)
      BY <1>1, <3>3, DecimalOf
    <3>6. Digits[d + 1] \in Figures /\ DigitOf(Digits[d + 1]) = d
      BY DigitIs
    <3>7. IndexOf(Decimal(n)) = 10 * m + d
      BY <3>4, <3>5, <3>6, IndexAppend DEF IndexRead
    <3>8. Decimal(n) # <<>> /\ Decimal(n)[1] = Decimal(m)[1]
      BY <3>4, <3>5, <3>6, AppendProperties DEF IndexRead
    <3>9. IndexRead(n)
      BY <2>2, <3>2, <3>3, <3>5, <3>7, <3>8 DEF IndexRead
    <3>10. QED
      BY <3>3, <3>9
  <2>3. QED
    BY <2>1, <2>2
<1>2. N \in 0..N
  OBVIOUS
<1>3. \A n \in 0..N : n \in S
  <2> HIDE DEF S
  <2>1. QED
    BY <1>1, UpTo
<1>4. QED
  BY <1>2, <1>3

\* A numeral is written in one way only.
Numeral(t) == t # <<>> /\ (Len(t) > 1 => t[1] # "0")

LEMMA DecimalOfIndex ==
  ASSUME NEW token \in Seq(Figures), Numeral(token)
  PROVE  Decimal(IndexOf(token)) = token
<1> DEFINE S == {n \in Nat : \A t \in Seq(Figures) :
                   Len(t) = n /\ Numeral(t) => Decimal(IndexOf(t)) = t}
<1>1. ASSUME NEW n \in 0..Len(token), \A m \in 0..(n - 1) : m \in S,
             NEW t \in Seq(Figures), Len(t) = n, Numeral(t)
      PROVE  Decimal(IndexOf(t)) = t
  <2>0. PICK r \in Seq(Figures), x \in Figures : IsAppended(t, r, x)
    <3>1. t # <<>>
      BY <1>1 DEF Numeral
    <3>2. QED
      BY <3>1, LastOf
  <2>1. /\ t = Append(r, x) /\ Len(r) \in Nat /\ Len(t) = Len(r) + 1
        /\ \A i \in 1..Len(r) : t[i] = r[i]
    BY <2>0 DEF IsAppended
  <2>2. DigitOf(x) \in 0..9 /\ Digits[DigitOf(x) + 1] = x
    BY DigitIs
  <2>3. IndexOf(r) \in Nat /\ IndexOf(t) = 10 * IndexOf(r) + DigitOf(x)
    BY <2>1, IndexAppend
  <2>4. CASE r = <<>>
    <3>1. IndexOf(t) = DigitOf(x)
      BY <2>2, <2>3, <2>4, IndexAppend
    <3>2. Decimal(IndexOf(t)) = <<x>>
      BY <2>2, <3>1, DecimalSmall
    <3>3. QED
      BY <2>1, <2>4, <3>2
  <2>5. CASE r # <<>>
    <3>1. Len(r) \in 0..(n - 1) /\ Len(r) > 0
      BY <1>1, <2>1, <2>5
    <3>2. r[1] # "0" /\ Numeral(r)
      BY <1>1, <2>1, <2>5, <3>1 DEF Numeral
    <3>3. Decimal(IndexOf(r)) = r
      BY <1>1, <3>1, <3>2
    <3>4. IndexOf(r) # 0
      <4>1. Decimal(0) = <<"0">>
        BY DecimalSmall, DigitIs
      <4>2. QED
        BY <3>2, <3>3, <4>1
    <3>5. Decimal(10 * IndexOf(r) + DigitOf(x)) = Append(r, x)
      BY <2>2, <2>3, <3>3, <3>4, DecimalMore
    <3>6. QED
      BY <2>1, <2>3, <3>5
  <2>6. QED
    BY <2>4, <2>5
<1>2. \A n \in 0..Len(token) : n \in S
  <2>1. ASSUME NEW n \in 0..Len(token), \A m \in 0..(n - 1) : m \in S
        PROVE  n \in S
    BY <1>1, <2>1
  <2>2. Len(token) \in Nat
    OBVIOUS
  <2> HIDE DEF S
  <2>3. QED
    BY <2>1, <2>2, UpTo
<1>3. Len(token) \in 0..Len(token)
  OBVIOUS
<1>4. QED
  BY <1>2, <1>3

-----------------------------------------------------------------------------
(***************************************************************************)
(* JSON pointers: tokens                                                   *)
(***************************************************************************)

\* A token between two slashes, every escape of which is one.
NoSlash(t) == \A i \in 1..Len(t) : t[i] # "/"
EndsInTilde(t) == t # <<>> /\ t[Len(t)] = "~"
Half(t) == Unescape(t, "1", "/")
Full(t) == Unescape(t, "0", "~")

\* UnescapeAppend and UnescapeTwo for the two replacements that Decode makes.
LEMMA NothingDecoded == Half(<<>>) = <<>> /\ Full(<<>>) = <<>>
BY UnescapeNone DEF Half, Full

LEMMA HalfAppend ==
  ASSUME NEW C, Marks \subseteq C, NEW t \in Seq(C)
  PROVE  /\ Half(t) \in Seq(C)
         /\ \A x \in C : ~ EndsInTilde(t) \/ x # "1" => Half(Append(t, x)) = Append(Half(t), x)
         /\ Half(Append(Append(t, "~"), "1")) = Append(Half(t), "/")
         /\ Half(Append(Append(t, "~"), "0")) = Append(Append(Half(t), "~"), "0")
<1>1. "~" \in C /\ "/" \in C /\ "1" \in C /\ "0" \in C
  BY DEF Marks
<1>2. Half(t) \in Seq(C)
  BY <1>1, UnescapeAppend DEF Half
<1>3. Half(Append(Append(t, "~"), "1")) = Append(Half(t), "/")
  BY <1>1, UnescapeTwo DEF Half
<1>4. ASSUME NEW x \in C, ~ EndsInTilde(t) \/ x # "1"
      PROVE  Half(Append(t, x)) = Append(Half(t), x)
  BY <1>1, <1>4, UnescapeAppend DEF Half, EndsInTilde
<1> DEFINE a == Append(t, "~")
<1>5. a \in Seq(C) /\ Half(a) = Append(Half(t), "~")
  BY <1>1, <1>4
<1> HIDE DEF a
<1>6. Half(Append(a, "0")) = Append(Half(a), "0")
  <2>1. "0" # "1"
    OBVIOUS
  <2>2. QED
    BY <1>1, <1>5, <2>1, UnescapeAppend DEF Half
<1>7. QED
  BY <1>2, <1>3, <1>4, <1>5, <1>6 DEF a

LEMMA FullAppend ==
  ASSUME NEW C, Marks \subseteq C, NEW t \in Seq(C)
  PROVE  /\ Full(t) \in Seq(C)
         /\ \A x \in C : ~ EndsInTilde(t) \/ x # "0" => Full(Append(t, x)) = Append(Full(t), x)
         /\ Full(Append(Append(t, "~"), "0")) = Append(Full(t), "~")
<1>1. "~" \in C /\ "/" \in C /\ "0" \in C
  BY DEF Marks
<1>2. Full(t) \in Seq(C)
  BY <1>1, UnescapeAppend DEF Full
<1>3. Full(Append(Append(t, "~"), "0")) = Append(Full(t), "~")
  BY <1>1, UnescapeTwo DEF Full
<1>4. ASSUME NEW x \in C, ~ EndsInTilde(t) \/ x # "0"
      PROVE  Full(Append(t, x)) = Append(Full(t), x)
  BY <1>1, <1>4, UnescapeAppend DEF Full, EndsInTilde
<1>5. QED
  BY <1>2, <1>3, <1>4

LEMMA DecodeIs ==
  ASSUME NEW t
  PROVE  Decode(t) = Full(Half(t))
BY DEF Decode, Full, Half

\* Text of a token that is whole: no escape is cut, none is another.
Balanced(t) == ~ EndsInTilde(t) /\ NoSlash(t) /\ ~ BadEscape(t)

LEMMA EscapeKept ==
  ASSUME NEW C, Marks \subseteq C, NEW e \in Seq(C), Balanced(e), NEW d \in {"0", "1"}
  PROVE  Balanced(Append(Append(e, "~"), d))
<1> DEFINE t == Append(Append(e, "~"), d)
<1>0. ~ EndsInTilde(e) /\ NoSlash(e) /\ ~ BadEscape(e)
  BY DEF Balanced
<1>1. /\ Len(e) \in Nat /\ Len(t) = Len(e) + 2 /\ t \in Seq(C)
      /\ \A i \in 1..Len(e) : t[i] = e[i]
      /\ t[Len(e) + 1] = "~" /\ t[Len(e) + 2] = d
  BY DEF Marks
<1> HIDE DEF t
<1>2. \A i \in 1..Len(t) : i \in 1..Len(e) \/ i = Len(e) + 1 \/ i = Len(e) + 2
  BY <1>1
<1>3. ~ EndsInTilde(t) /\ NoSlash(t)
  BY <1>0, <1>1, <1>2 DEF EndsInTilde, NoSlash
<1>4. ~ BadEscape(t)
  <2>1. ASSUME NEW i \in 1..Len(t), t[i] = "~"
        PROVE  i # Len(t) /\ t[i + 1] \in {"0", "1"}
    <3>1. CASE i \in 1..Len(e)
      <4>1. e[i] = "~" /\ i # Len(e)
        BY <1>0, <1>1, <2>1, <3>1 DEF EndsInTilde
      <4>2. e[i + 1] \in {"0", "1"} /\ i + 1 \in 1..Len(e)
        BY <1>0, <1>1, <3>1, <4>1 DEF BadEscape
      <4>3. QED
        BY <1>1, <3>1, <4>2
    <3>2. CASE i = Len(e) + 1
      BY <1>1, <3>2
    <3>3. QED
      BY <1>1, <1>2, <2>1, <3>1, <3>2
  <2>2. QED
    BY <2>1 DEF BadEscape
<1>5. QED
  BY <1>3, <1>4 DEF Balanced, t

LEMMA OtherKept ==
  ASSUME NEW C, NEW e \in Seq(C), Balanced(e), NEW x \in C \ {"/", "~"}
  PROVE  Balanced(Append(e, x))
<1>0. ~ EndsInTilde(e) /\ NoSlash(e) /\ ~ BadEscape(e)
  BY DEF Balanced
<1> DEFINE t == Append(e, x)
<1>1. /\ Len(e) \in Nat /\ Len(t) = Len(e) + 1 /\ t \in Seq(C)
      /\ \A i \in 1..Len(e) : t[i] = e[i]
      /\ t[Len(e) + 1] = x
  OBVIOUS
<1> HIDE DEF t
<1>2. \A i \in 1..Len(t) : i \in 1..Len(e) \/ i = Len(e) + 1
  BY <1>1
<1>3. ~ EndsInTilde(t) /\ NoSlash(t)
  BY <1>0, <1>1, <1>2 DEF EndsInTilde, NoSlash
<1>4. ~ BadEscape(t)
  <2>1. ASSUME NEW i \in 1..Len(t), t[i] = "~"
        PROVE  i # Len(t) /\ t[i + 1] \in {"0", "1"}
    <3>1. i \in 1..Len(e)
      BY <1>1, <1>2, <2>1
    <3>2. e[i] = "~" /\ i # Len(e)
      BY <1>0, <1>1, <2>1, <3>1 DEF EndsInTilde
    <3>3. e[i + 1] \in {"0", "1"} /\ i + 1 \in 1..Len(e)
      BY <1>0, <1>1, <3>1, <3>2 DEF BadEscape
    <3>4. QED
      BY <1>1, <3>1, <3>3
  <2>2. QED
    BY <2>1 DEF BadEscape
<1>5. QED
  BY <1>3, <1>4 DEF Balanced, t

\* Unescaping what was escaped gives the key again.
KeyReads(key) ==
  /\ ~ EndsInTilde(Escape(key)) /\ ~ EndsInTilde(Half(Escape(key)))
  /\ NoSlash(Escape(key)) /\ ~ BadEscape(Escape(key))
  /\ Decode(Escape(key)) = key

LEMMA ReadsMore ==
  ASSUME NEW C, Marks \subseteq C, NEW r \in Seq(C), NEW x \in C, KeyReads(r)
  PROVE  KeyReads(Append(r, x))
<1> DEFINE e == Escape(r)
           h == Half(e)
           key == Append(r, x)
           t == Escape(key)
<1>1. "~" \in C /\ "/" \in C /\ "0" \in C /\ "1" \in C
  BY DEF Marks
<1>2. e \in Seq(C) /\ t = e \o Escaped(x)
  BY EscapeAppend
<1> HIDE DEF e
<1>3. h \in Seq(C)
  BY <1>2, HalfAppend
<1>4. ~ EndsInTilde(h) /\ Balanced(e) /\ ~ EndsInTilde(e) /\ Full(h) = r
  BY DecodeIs DEF KeyReads, Balanced, e
<1>5. Balanced(t) /\ ~ EndsInTilde(Half(t)) /\ Full(Half(t)) = key => KeyReads(key)
  BY DecodeIs DEF KeyReads, Balanced
<1> HIDE DEF t
<1>6. CASE x = "/"
  <2>1. t = Append(Append(e, "~"), "1")
    BY <1>1, <1>2, <1>6 DEF Escaped
  <2>2. Half(t) = Append(h, "/")
    BY <1>2, <2>1, HalfAppend
  <2> HIDE DEF h
  <2>3. Full(Append(h, "/")) = Append(r, "/")
    BY <1>1, <1>3, <1>4, FullAppend
  <2>4. ~ EndsInTilde(Append(h, "/"))
    BY <1>1, <1>3 DEF EndsInTilde
  <2>5. Balanced(t)
    BY <1>2, <1>4, <2>1, EscapeKept
  <2>6. QED
    BY <1>5, <1>6, <2>2, <2>3, <2>4, <2>5
<1>7. CASE x = "~"
  <2>1. t = Append(Append(e, "~"), "0")
    BY <1>1, <1>2, <1>7 DEF Escaped
  <2>2. Half(t) = Append(Append(h, "~"), "0")
    BY <1>2, <2>1, HalfAppend
  <2> HIDE DEF h
  <2>3. Full(Append(Append(h, "~"), "0")) = Append(r, "~")
    BY <1>3, <1>4, FullAppend
  <2>4. ~ EndsInTilde(Append(Append(h, "~"), "0"))
    BY <1>1, <1>3 DEF EndsInTilde
  <2>5. Balanced(t)
    BY <1>2, <1>4, <2>1, EscapeKept
  <2>6. QED
    BY <1>5, <1>7, <2>2, <2>3, <2>4, <2>5
<1>8. CASE x # "/" /\ x # "~"
  <2>1. t = Append(e, x)
    BY <1>2, <1>8 DEF Escaped
  <2>2. Half(t) = Append(h, x)
    BY <1>2, <1>4, <2>1, HalfAppend
  <2> HIDE DEF h
  <2>3. Full(Append(h, x)) = Append(r, x)
    BY <1>3, <1>4, FullAppend
  <2>4. ~ EndsInTilde(Append(h, x))
    BY <1>3, <1>8 DEF EndsInTilde
  <2>5. Balanced(t)
    BY <1>2, <1>4, <1>8, <2>1, OtherKept
  <2>6. QED
    BY <1>5, <2>2, <2>3, <2>4, <2>5
<1>9. QED
  BY <1>6, <1>7, <1>8

LEMMA NothingRead == KeyReads(<<>>)
<1>1. Marks \subseteq Marks /\ <<>> \in Seq(Marks) /\ Len(<<>>) = 0 /\ "/" \in Marks /\ "~" \in Marks
  BY DEF Marks
<1>2. Escape(<<>>) = <<>>
  BY <1>1, EscapeAppend
<1>3. Half(<<>>) = <<>> /\ Full(<<>>) = <<>>
  BY NothingDecoded
<1>4. QED
  BY <1>1, <1>2, <1>3, DecodeIs DEF KeyReads, EndsInTilde, NoSlash, BadEscape

LEMMA EveryKeyReads ==
  ASSUME NEW C, Marks \subseteq C, NEW key \in Seq(C)
  PROVE  KeyReads(key)
<1> DEFINE S == {n \in Nat : \A k \in Seq(C) : Len(k) = n => KeyReads(k)}
<1>1. ASSUME NEW n \in 0..Len(key), \A m \in 0..(n - 1) : m \in S,
             NEW k \in Seq(C), Len(k) = n
      PROVE  KeyReads(k)
  <2>1. CASE k = <<>>
    BY <2>1, NothingRead
  <2>2. CASE k # <<>>
    <3>0. PICK r \in Seq(C), x \in C : IsAppended(k, r, x)
      BY <2>2, LastOf
    <3>1. k = Append(r, x) /\ Len(r) \in Nat /\ Len(k) = Len(r) + 1
      BY <3>0 DEF IsAppended
    <3>2. Len(r) \in 0..(n - 1)
      BY <1>1, <3>1
    <3>3. KeyReads(r)
      BY <1>1, <3>2
    <3>4. QED
      BY <3>1, <3>3, ReadsMore
  <2>3. QED
    BY <2>1, <2>2
<1>2. \A n \in 0..Len(key) : n \in S
  <2>1. ASSUME NEW n \in 0..Len(key), \A m \in 0..(n - 1) : m \in S
        PROVE  n \in S
    BY <1>1, <2>1
  <2>2. Len(key) \in Nat
    OBVIOUS
  <2> HIDE DEF S
  <2>3. QED
    BY <2>1, <2>2, UpTo
<1>3. Len(key) \in 0..Len(key)
  OBVIOUS
<1>4. QED
  BY <1>2, <1>3

\* Escaping what was unescaped gives the token again.
SoundToken(t) == NoSlash(t) /\ ~ BadEscape(t)
Writes(t) == ~ EndsInTilde(Half(t)) /\ Escape(Decode(t)) = t

\* A whole token is nothing, or it ends in an escape or in another character.
EndsAfter(C, t, r) ==
  /\ SoundToken(r) /\ Len(r) \in 0..(Len(t) - 1)
  /\ \/ \E d \in {"0", "1"} : t = Append(Append(r, "~"), d)
     \/ ~ EndsInTilde(r) /\ \E x \in C \ {"~", "/"} : t = Append(r, x)

LEMMA WholeEnds ==
  ASSUME NEW C, Marks \subseteq C, NEW t \in Seq(C), SoundToken(t), t # <<>>
  PROVE  \E r \in Seq(C) : EndsAfter(C, t, r)
<1>0. PICK s \in Seq(C), x \in C : IsAppended(t, s, x)
  BY LastOf
<1>1. /\ t = Append(s, x) /\ Len(s) \in Nat /\ Len(t) = Len(s) + 1
      /\ \A i \in 1..Len(s) : t[i] = s[i]
      /\ t[Len(t)] = x
  BY <1>0 DEF IsAppended
<1>2. NoSlash(t) /\ ~ BadEscape(t)
  BY DEF SoundToken
<1>3. x # "/" /\ x # "~"
  <2>1. Len(t) \in 1..Len(t)
    BY <1>1
  <2>2. QED
    BY <1>1, <1>2, <2>1 DEF NoSlash, BadEscape
<1>4. NoSlash(s)
  BY <1>1, <1>2 DEF NoSlash
<1>5. CASE ~ EndsInTilde(s)
  <2>1. ~ BadEscape(s)
    <3>1. ASSUME NEW i \in 1..Len(s), s[i] = "~"
          PROVE  i # Len(s) /\ s[i + 1] \in {"0", "1"}
      <4>1. i # Len(s)
        BY <1>1, <1>5, <3>1 DEF EndsInTilde
      <4>2. i \in 1..Len(t) /\ t[i] = "~" /\ i # Len(t)
        BY <1>1, <3>1
      <4>3. t[i + 1] \in {"0", "1"}
        BY <1>2, <4>2 DEF BadEscape
      <4>4. i + 1 \in 1..Len(s)
        BY <1>1, <4>1
      <4>5. QED
        BY <1>1, <4>1, <4>3, <4>4
    <3>2. QED
      BY <3>1 DEF BadEscape
  <2>2. SoundToken(s)
    BY <1>4, <2>1 DEF SoundToken
  <2>3. Len(s) \in 0..(Len(t) - 1)
    BY <1>1
  <2>4. QED
    BY <1>1, <1>3, <1>5, <2>2, <2>3 DEF EndsAfter
<1>6. CASE EndsInTilde(s)
  <2>1. s # <<>> /\ s[Len(s)] = "~"
    BY <1>6 DEF EndsInTilde
  <2>0. PICK r \in Seq(C), y \in C : IsAppended(s, r, y)
    BY <2>1, LastOf
  <2>2. /\ s = Append(r, y) /\ Len(r) \in Nat /\ Len(s) = Len(r) + 1
        /\ \A i \in 1..Len(r) : s[i] = r[i]
        /\ s[Len(s)] = y
    BY <2>0 DEF IsAppended
  <2>3. y = "~"
    BY <2>1, <2>2
  <2>4. x \in {"0", "1"}
    <3>1. Len(s) \in 1..Len(t) /\ t[Len(s)] = "~" /\ Len(s) # Len(t)
      BY <1>1, <2>1, <2>2
    <3>2. t[Len(s) + 1] \in {"0", "1"}
      BY <1>2, <3>1 DEF BadEscape
    <3>3. QED
      BY <1>1, <3>2
  <2>5. NoSlash(r)
    BY <1>4, <2>2 DEF NoSlash
  <2>6. \A i \in 1..Len(r) : r[i] = t[i]
    BY <1>1, <2>2
  <2>7. ~ BadEscape(r)
    <3>1. ASSUME NEW i \in 1..Len(r), r[i] = "~"
          PROVE  i # Len(r) /\ r[i + 1] \in {"0", "1"}
      <4>1. i \in 1..Len(t) /\ t[i] = "~" /\ i # Len(t)
        BY <1>1, <2>2, <2>6, <3>1
      <4>2. t[i + 1] \in {"0", "1"}
        BY <1>2, <4>1 DEF BadEscape
      <4>3. i # Len(r)
        <5>1. t[Len(r) + 1] = "~"
          BY <1>1, <2>1, <2>2
        <5>2. QED
          BY <4>2, <5>1
      <4>4. i + 1 \in 1..Len(r)
        BY <2>2, <4>3
      <4>5. QED
        BY <2>6, <4>2, <4>3, <4>4
    <3>2. QED
      BY <3>1 DEF BadEscape
  <2>8. SoundToken(r) /\ Len(r) \in 0..(Len(t) - 1)
    BY <1>1, <2>2, <2>5, <2>7 DEF SoundToken
  <2>9. QED
    BY <1>1, <2>2, <2>3, <2>4, <2>8 DEF EndsAfter
<1>7. QED
  BY <1>5, <1>6

LEMMA EveryTokenWrites ==
  ASSUME NEW C, Marks \subseteq C, NEW token \in Seq(C), SoundToken(token)
  PROVE  Writes(token)
<1> DEFINE S == {n \in Nat : \A t \in Seq(C) : Len(t) = n /\ SoundToken(t) => Writes(t)}
<1>1. "~" \in C /\ "/" \in C /\ "0" \in C /\ "1" \in C
  BY DEF Marks
<1>2. ASSUME NEW n \in 0..Len(token), \A m \in 0..(n - 1) : m \in S,
             NEW t \in Seq(C), Len(t) = n, SoundToken(t)
      PROVE  Writes(t)
  <2>1. CASE t = <<>>
    <3>1. <<>> \in Seq(C)
      OBVIOUS
    <3>2. Escape(<<>>) = <<>>
      BY <1>1, <3>1, EscapeAppend
    <3>3. Half(<<>>) = <<>> /\ Full(<<>>) = <<>>
      BY NothingDecoded
    <3>4. QED
      BY <2>1, <3>2, <3>3, DecodeIs DEF EndsInTilde, Writes
  <2>2. CASE t # <<>>
    <3>0. PICK r \in Seq(C) : EndsAfter(C, t, r)
      BY <1>2, <2>2, WholeEnds
    <3>1. /\ SoundToken(r) /\ Len(r) \in 0..(Len(t) - 1)
          /\ \/ \E d \in {"0", "1"} : t = Append(Append(r, "~"), d)
             \/ ~ EndsInTilde(r) /\ \E x \in C \ {"~", "/"} : t = Append(r, x)
      BY <3>0 DEF EndsAfter
    <3>2. Writes(r)
      BY <1>2, <3>1
    <3> DEFINE h == Half(r)
               k == Full(h)
    <3>3. h \in Seq(C) /\ k \in Seq(C)
      BY HalfAppend, FullAppend
    <3>4. ~ EndsInTilde(h) /\ Escape(k) = r
      BY <3>2, DecodeIs DEF Writes
    <3>5. ~ EndsInTilde(Half(t)) /\ Escape(Full(Half(t))) = t => Writes(t)
      BY DecodeIs DEF Writes
    <3>6. CASE t = Append(Append(r, "~"), "1")
      <4>1. Half(t) = Append(h, "/")
        BY <3>6, HalfAppend
      <4> HIDE DEF h
      <4>2. Full(Append(h, "/")) = Append(k, "/")
        BY <1>1, <3>3, <3>4, FullAppend
      <4> HIDE DEF k
      <4>3. Escape(Append(k, "/")) = r \o <<"~", "1">>
        BY <1>1, <3>3, <3>4, EscapeAppend DEF Escaped
      <4>4. ~ EndsInTilde(Append(h, "/")) /\ r \o <<"~", "1">> = t
        BY <1>1, <3>3, <3>6 DEF EndsInTilde
      <4>5. QED
        BY <3>5, <4>1, <4>2, <4>3, <4>4
    <3>7. CASE t = Append(Append(r, "~"), "0")
      <4>1. Half(t) = Append(Append(h, "~"), "0")
        BY <3>7, HalfAppend
      <4> HIDE DEF h
      <4>2. Full(Append(Append(h, "~"), "0")) = Append(k, "~")
        BY <1>1, <3>3, <3>4, FullAppend
      <4> HIDE DEF k
      <4>3. Escape(Append(k, "~")) = r \o <<"~", "0">>
        BY <1>1, <3>3, <3>4, EscapeAppend DEF Escaped
      <4>4. ~ EndsInTilde(Append(Append(h, "~"), "0")) /\ r \o <<"~", "0">> = t
        BY <1>1, <3>3, <3>7 DEF EndsInTilde
      <4>5. QED
        BY <3>5, <4>1, <4>2, <4>3, <4>4
    <3>8. ASSUME NEW x \in C \ {"~", "/"}, t = Append(r, x), ~ EndsInTilde(r)
          PROVE  Writes(t)
      <4>1. Half(t) = Append(h, x)
        BY <3>8, HalfAppend
      <4> HIDE DEF h
      <4>2. Full(Append(h, x)) = Append(k, x)
        BY <1>1, <3>3, <3>4, FullAppend
      <4> HIDE DEF k
      <4>3. Escape(Append(k, x)) = r \o <<x>>
        BY <3>3, <3>4, EscapeAppend DEF Escaped
      <4>4. ~ EndsInTilde(Append(h, x)) /\ r \o <<x>> = t
        BY <3>3, <3>8 DEF EndsInTilde
      <4>5. QED
        BY <3>5, <4>1, <4>2, <4>3, <4>4
    <3>9. QED
      BY <3>1, <3>6, <3>7, <3>8
  <2>3. QED
    BY <2>1, <2>2
<1>3. \A n \in 0..Len(token) : n \in S
  <2>1. ASSUME NEW n \in 0..Len(token), \A m \in 0..(n - 1) : m \in S
        PROVE  n \in S
    BY <1>2, <2>1
  <2>2. Len(token) \in Nat
    OBVIOUS
  <2> HIDE DEF S
  <2>3. QED
    BY <2>1, <2>2, UpTo
<1>4. Len(token) \in 0..Len(token)
  OBVIOUS
<1>5. QED
  BY <1>3, <1>4

\* A numeral has nothing to escape.
LEMMA FiguresPlain ==
  ASSUME NEW token \in Seq(Figures)
  PROVE  Escape(token) = token /\ KeyReads(token)
<1> DEFINE C == Figures \cup Marks
           S == {n \in Nat : \A t \in Seq(Figures) : Len(t) = n => Escape(t) = t}
<1>1. \A t \in Seq(Figures) : t \in Seq(C)
  BY SeqMonotonic
<1>2. Marks \subseteq C
  OBVIOUS
<1> HIDE DEF C
<1>3. ASSUME NEW n \in 0..Len(token), \A m \in 0..(n - 1) : m \in S,
             NEW t \in Seq(Figures), Len(t) = n
      PROVE  Escape(t) = t
  <2>1. CASE t = <<>>
    <3>1. <<>> \in Seq(C) /\ "/" \in C
      BY <1>1, <1>2, <2>1 DEF Marks
    <3>2. Escape(<<>>) = <<>>
      BY <1>2, <3>1, EscapeAppend
    <3>3. QED
      BY <2>1, <3>2
  <2>2. CASE t # <<>>
    <3>1. PICK r \in Seq(Figures), x \in Figures : IsAppended(t, r, x)
      BY <2>2, LastOf
    <3>2. t = Append(r, x) /\ Len(r) \in 0..(n - 1)
      BY <1>3, <3>1 DEF IsAppended
    <3>3. Escape(r) = r
      BY <1>3, <3>2
    <3>4. r \in Seq(C) /\ x \in C
      BY <1>1 DEF C
    <3>5. Escaped(x) = <<x>>
      BY DigitIs DEF Escaped
    <3>6. Escape(t) = r \o <<x>>
      BY <1>2, <3>2, <3>3, <3>4, <3>5, EscapeAppend
    <3>7. QED
      BY <3>2, <3>6
  <2>3. QED
    BY <2>1, <2>2
<1>4. \A n \in 0..Len(token) : n \in S
  <2>1. ASSUME NEW n \in 0..Len(token), \A m \in 0..(n - 1) : m \in S
        PROVE  n \in S
    BY <1>3, <2>1
  <2>2. Len(token) \in Nat
    OBVIOUS
  <2> HIDE DEF S
  <2>3. QED
    BY <2>1, <2>2, UpTo
<1>5. Len(token) \in 0..Len(token)
  OBVIOUS
<1>6. KeyReads(token)
  BY <1>1, <1>2, EveryKeyReads
<1>7. QED
  BY <1>4, <1>5, <1>6

-----------------------------------------------------------------------------
(***************************************************************************)
(* JSON pointers: documents                                                *)
(***************************************************************************)

NoValue == {Missing, Malformed}

LEMMA ValueIs ==
  ASSUME NEW v \in Value
  PROVE  /\ v.kind = "object" => \A key \in DOMAIN v.members :
              key \in Seq(Range(key)) /\ v.members[key] \in Value
         /\ v.kind = "list" => v.items \in Seq(Value)
BY AnchoringAssumption

LEMMA DecodeIn ==
  ASSUME NEW C, NEW token \in Seq(C)
  PROVE  Decode(token) \in Seq(C \cup Marks)
<1> DEFINE D == C \cup Marks
<1>1. token \in Seq(D) /\ Marks \subseteq D
  BY SeqMonotonic
<1> HIDE DEF D
<1>2. Half(token) \in Seq(D)
  BY <1>1, HalfAppend
<1>3. Full(Half(token)) \in Seq(D)
  BY <1>1, <1>2, FullAppend
<1>4. QED
  BY <1>3, DecodeIs DEF D

\* Characters that are no digits of other scripts.
Plain(C) == C \cap DOMAIN OtherDigits = {}

LEMMA IndexIn ==
  ASSUME NEW C, NEW key \in Seq(C), IsIndex(key)
  PROVE  /\ Numeral(key) /\ IndexOf(key) \in Nat
         /\ Plain(C) => key \in Seq(Figures)
<1>1. Range(key) \subseteq AnyFigures /\ Numeral(key)
  BY DEF IsIndex, Numeral, Figures, AnyFigures
<1>2. key \in Seq(Range(key)) /\ Range(key) \subseteq C
  BY SeqOfRange, RangeOfSeq
<1>3. key \in Seq(AnyFigures)
  BY <1>1, <1>2, SeqMonotonic
<1>4. IndexOf(key) \in Nat
  <2>1. Digits[0 + 1] \in AnyFigures
    BY DigitIs DEF AnyFigures
  <2>2. QED
    BY <1>3, <2>1, AnyIndexAppend
<1>5. ASSUME Plain(C)
      PROVE  key \in Seq(Figures)
  <2>1. Range(key) \subseteq Figures
    BY <1>1, <1>2, <1>5 DEF Plain, AnyFigures
  <2>2. QED
    BY <1>2, <2>1, SeqMonotonic
<1>6. QED
  BY <1>1, <1>4, <1>5

LEMMA NothingIs ==
  /\ Missing.kind = "missing" /\ Malformed.kind = "malformed"
  /\ Missing.text = <<>> /\ Malformed.text = <<>>
BY DEF Missing, Malformed

\* A step leads to what is below the value, as KeysOf has it.
LEMMA IntoObject ==
  ASSUME NEW v \in Value, v.kind = "object", NEW C, NEW token \in Seq(C),
         NoSlash(token), NEW w, w \notin NoValue
  PROVE  Into(v, token) = w <=> <<token, w>> \in KeysOf(v)
<1> DEFINE key == Decode(token)
<1>1. v \notin NoValue
  BY NothingIs DEF NoValue
<1>2. KeysOf(v) = {<<Escape(k), v.members[k]>> : k \in DOMAIN v.members}
  BY DEF KeysOf
<1>3. Into(v, token) = IF BadEscape(token) THEN Malformed
                       ELSE IF key \in DOMAIN v.members THEN v.members[key]
                       ELSE Missing
  BY <1>1 DEF Into, NoValue
<1> HIDE DEF key
<1>4. ASSUME Into(v, token) = w
      PROVE  <<token, w>> \in KeysOf(v)
  <2>1. ~ BadEscape(token) /\ key \in DOMAIN v.members /\ w = v.members[key]
    BY <1>3, <1>4 DEF NoValue
  <2>2. Escape(key) = token
    <3>1. token \in Seq(C \cup Marks) /\ Marks \subseteq C \cup Marks
      BY SeqMonotonic
    <3>2. SoundToken(token)
      BY <2>1 DEF SoundToken
    <3>3. Writes(token)
      BY <3>1, <3>2, EveryTokenWrites
    <3>4. QED
      BY <3>3 DEF Writes, key
  <2>3. QED
    BY <1>2, <2>1, <2>2
<1>5. ASSUME <<token, w>> \in KeysOf(v)
      PROVE  Into(v, token) = w
  <2>1. PICK k \in DOMAIN v.members : token = Escape(k) /\ w = v.members[k]
    BY <1>2, <1>5
  <2>2. k \in Seq(Range(k) \cup Marks) /\ Marks \subseteq Range(k) \cup Marks
    BY ValueIs, SeqMonotonic
  <2>3. KeyReads(k)
    BY <2>2, EveryKeyReads
  <2>4. ~ BadEscape(token) /\ key = k
    BY <2>1, <2>3 DEF KeyReads, key
  <2>5. QED
    BY <1>3, <2>1, <2>4
<1>6. QED
  BY <1>4, <1>5

LEMMA IntoList ==
  ASSUME NEW v \in Value, v.kind = "list", NEW C, NEW token \in Seq(C),
         NoSlash(token), NEW w, w \notin NoValue
  PROVE  /\ <<token, w>> \in KeysOf(v) => Into(v, token) = w
         /\ Plain(C) => (Into(v, token) = w => <<token, w>> \in KeysOf(v))
<1> DEFINE key == Decode(token)
<1>1. v \notin NoValue
  BY NothingIs DEF NoValue
<1>2. KeysOf(v) = {<<Decimal(i - 1), v.items[i]>> : i \in 1..Len(v.items)}
  BY DEF KeysOf
<1>3. Into(v, token) = IF BadEscape(token) THEN Malformed
                       ELSE IF IsIndex(key) /\ IndexOf(key) < Len(v.items)
                         THEN v.items[IndexOf(key) + 1]
                       ELSE Missing
  BY <1>1 DEF Into, NoValue
<1>4. Len(v.items) \in Nat
  BY ValueIs
<1> HIDE DEF key
<1>5. ASSUME Plain(C), Into(v, token) = w
      PROVE  <<token, w>> \in KeysOf(v)
  <2>1. /\ ~ BadEscape(token) /\ IsIndex(key) /\ IndexOf(key) < Len(v.items)
        /\ w = v.items[IndexOf(key) + 1]
    BY <1>3, <1>5 DEF NoValue
  <2>2. Escape(key) = token
    <3>1. token \in Seq(C \cup Marks) /\ Marks \subseteq C \cup Marks
      BY SeqMonotonic
    <3>2. SoundToken(token)
      BY <2>1 DEF SoundToken
    <3>3. Writes(token)
      BY <3>1, <3>2, EveryTokenWrites
    <3>4. QED
      BY <3>3 DEF Writes, key
  <2>3. key \in Seq(Figures) /\ Numeral(key) /\ IndexOf(key) \in Nat
    <3>1. key \in Seq(C \cup Marks)
      BY DecodeIn DEF key
    <3>2. Plain(C \cup Marks)
      <4>1. Digits[1] = "0" /\ Digits[2] = "1" /\ 1 \in DOMAIN Digits /\ 2 \in DOMAIN Digits
        BY DEF Digits
      <4>2. Marks \subseteq {"~", "/"} \cup Range(Digits)
        BY <4>1 DEF Marks, Range
      <4>3. QED
        BY <1>5, <4>2, AnchoringAssumption DEF Plain
    <3>3. QED
      BY <2>1, <3>1, <3>2, IndexIn
  <2>4. token = Decimal(IndexOf(key))
    BY <2>2, <2>3, FiguresPlain, DecimalOfIndex
  <2>5. PICK i \in 1..Len(v.items) : i = IndexOf(key) + 1
    BY <1>4, <2>1, <2>3
  <2>6. i - 1 = IndexOf(key)
    BY <2>3, <2>5
  <2>7. QED
    BY <1>2, <2>1, <2>4, <2>5, <2>6
<1>6. ASSUME <<token, w>> \in KeysOf(v)
      PROVE  Into(v, token) = w
  <2>1. PICK i \in 1..Len(v.items) : token = Decimal(i - 1) /\ w = v.items[i]
    BY <1>2, <1>6
  <2>2. PICK n \in Nat : n = i - 1
    BY <1>4
  <2>3. IndexRead(n) /\ token = Decimal(n) /\ Decimal(n) \in Seq(Figures)
    BY <2>1, <2>2, IndexOfDecimal, DecimalOf
  <2>4. KeyReads(token) /\ Escape(token) = token
    BY <2>3, FiguresPlain
  <2>5. ~ BadEscape(token) /\ key = token
    BY <2>4 DEF KeyReads, key
  <2>6. IsIndex(token)
    <3>1. Range(token) \subseteq Figures
      BY <2>3, RangeOfSeq
    <3>2. QED
      BY <2>3, <3>1 DEF IsIndex, IndexRead, Figures
  <2>7. IndexOf(token) = n /\ n < Len(v.items) /\ n + 1 = i
    BY <1>4, <2>2, <2>3 DEF IndexRead
  <2>8. QED
    BY <1>3, <2>1, <2>5, <2>6, <2>7
<1>7. QED
  BY <1>5, <1>6

LEMMA IntoKey ==
  ASSUME NEW v \in Value \cup {Missing}, NEW C, NEW token \in Seq(C),
         NoSlash(token), NEW w, w \notin NoValue
  PROVE  /\ <<token, w>> \in KeysOf(v) => Into(v, token) = w
         /\ Plain(C) => (Into(v, token) = w => <<token, w>> \in KeysOf(v))
<1>1. CASE v \in Value /\ v.kind = "object"
  BY <1>1, IntoObject
<1>2. CASE v \in Value /\ v.kind = "list"
  BY <1>2, IntoList
<1>3. CASE v.kind \notin {"object", "list"}
  <2>1. KeysOf(v) = {}
    BY <1>3 DEF KeysOf
  <2>2. Into(v, token) \in NoValue
    BY <1>3 DEF Into, NoValue
  <2>3. QED
    BY <2>1, <2>2
<1>4. v = Missing => v.kind \notin {"object", "list"}
  BY NothingIs
<1>5. QED
  BY <1>1, <1>2, <1>3, <1>4

\* What is below a value is one of the document, under a key without a slash.
LEMMA KeyIs ==
  ASSUME NEW v \in Value \cup {Missing}, NEW k \in KeysOf(v)
  PROVE  /\ v \notin NoValue /\ k = <<k[1], k[2]>> /\ k[2] \in Value
         /\ NoSlash(k[1]) /\ \E C : k[1] \in Seq(C)
<1>1. CASE v \in Value /\ v.kind = "object"
  <2>1. PICK key \in DOMAIN v.members : k = <<Escape(key), v.members[key]>>
    BY <1>1 DEF KeysOf
  <2>2. key \in Seq(Range(key)) /\ v.members[key] \in Value
    BY <1>1, ValueIs
  <2> DEFINE C == Range(key) \cup Marks
  <2>3. key \in Seq(C) /\ Marks \subseteq C
    BY <2>2, SeqMonotonic
  <2> HIDE DEF C
  <2>4. KeyReads(key)
    BY <2>3, EveryKeyReads
  <2>5. Escape(key) \in Seq(C)
    <3>1. "/" \in C
      BY <2>3 DEF Marks
    <3>2. QED
      BY <2>3, <3>1, EscapeAppend
  <2>6. v \notin NoValue
    BY <1>1, NothingIs DEF NoValue
  <2>7. QED
    BY <2>1, <2>2, <2>4, <2>5, <2>6 DEF KeyReads
<1>2. CASE v \in Value /\ v.kind = "list"
  <2>1. PICK i \in 1..Len(v.items) : k = <<Decimal(i - 1), v.items[i]>>
    BY <1>2 DEF KeysOf
  <2>2. v.items \in Seq(Value) /\ v.items[i] \in Value /\ i - 1 \in Nat
    BY <1>2, ValueIs, ElementOfSeq
  <2>3. Decimal(i - 1) \in Seq(Figures)
    BY <2>2, DecimalOf
  <2>4. KeyReads(Decimal(i - 1)) /\ Escape(Decimal(i - 1)) = Decimal(i - 1)
    BY <2>3, FiguresPlain
  <2>5. v \notin NoValue
    BY <1>2, NothingIs DEF NoValue
  <2>6. QED
    BY <2>1, <2>2, <2>3, <2>4, <2>5 DEF KeyReads
<1>3. v \in Value \/ v = Missing
  OBVIOUS
<1>4. v.kind \in {"object", "list"}
  BY DEF KeysOf
<1>5. QED
  BY <1>1, <1>2, <1>3, <1>4, NothingIs

\* A step leads into the document or nowhere.
LEMMA IntoIn ==
  ASSUME NEW v \in Value \cup NoValue, NEW C, NEW token \in Seq(C)
  PROVE  Into(v, token) \in Value \cup NoValue
<1> DEFINE key == Decode(token)
<1>1. CASE v \in NoValue
  BY <1>1 DEF Into, NoValue
<1>2. CASE v \notin NoValue
  <2>1. Into(v, token) =
          IF BadEscape(token) THEN Malformed
          ELSE CASE v.kind = "object" /\ key \in DOMAIN v.members -> v.members[key]
                 [] v.kind = "list" /\ IsIndex(key) /\ IndexOf(key) < Len(v.items) ->
                      v.items[IndexOf(key) + 1]
                 [] OTHER -> Missing
    BY <1>2 DEF Into, NoValue
  <2>2. v \in Value
    BY <1>2
  <2>3. v.kind = "object" /\ key \in DOMAIN v.members => v.members[key] \in Value
    BY <2>2, ValueIs
  <2>4. v.kind = "list" /\ IsIndex(key) /\ IndexOf(key) < Len(v.items) =>
          v.items[IndexOf(key) + 1] \in Value
    <3>1. SUFFICES ASSUME v.kind = "list", IsIndex(key), IndexOf(key) < Len(v.items)
                   PROVE  v.items[IndexOf(key) + 1] \in Value
      OBVIOUS
    <3>2. key \in Seq(C \cup Marks)
      BY DecodeIn
    <3> HIDE DEF key
    <3>3. IndexOf(key) \in Nat /\ v.items \in Seq(Value)
      BY <2>2, <3>1, <3>2, IndexIn, ValueIs
    <3>4. IndexOf(key) + 1 \in 1..Len(v.items)
      BY <3>1, <3>3
    <3>5. QED
      BY <3>3, <3>4, ElementOfSeq
  <2> HIDE DEF key
  <2>5. QED
    BY <2>1, <2>3, <2>4 DEF NoValue
<1>3. QED
  BY <1>1, <1>2

\* The slash in front of a token.
LEMMA SlashIs ==
  ASSUME NEW C, NEW pointer \in Seq(C), NEW n \in 1..Len(pointer), pointer[1] = "/"
  PROVE  /\ LastSlash(pointer, n) \in 1..n
         /\ pointer[LastSlash(pointer, n)] = "/"
         /\ \A j \in (LastSlash(pointer, n) + 1)..n : pointer[j] # "/"
         /\ \A i \in 1..n : pointer[i] = "/"
              /\ (\A j \in (i + 1)..n : pointer[j] # "/") => i = LastSlash(pointer, n)
<1> DEFINE Back == {b \in 0..(n - 1) : pointer[n - b] = "/"}
<1>1. n - 1 \in Back /\ Back \in SUBSET Nat
  OBVIOUS
<1>2. PICK b \in Back : \A c \in Back : b <= c
  BY <1>1, Least
<1>3. n - b \in 1..n /\ pointer[n - b] = "/"
  OBVIOUS
<1>4. ASSUME NEW j \in (n - b + 1)..n
      PROVE  pointer[j] # "/"
  <2>1. n - j \in 0..(n - 1) /\ ~ (b <= n - j) /\ n - (n - j) = j
    OBVIOUS
  <2>2. QED
    BY <1>2, <2>1
<1>5. \E i \in 1..n : pointer[i] = "/" /\ \A j \in (i + 1)..n : pointer[j] # "/"
  BY <1>3, <1>4
<1>6. /\ LastSlash(pointer, n) \in 1..n
      /\ pointer[LastSlash(pointer, n)] = "/"
      /\ \A j \in (LastSlash(pointer, n) + 1)..n : pointer[j] # "/"
  <2> DEFINE P(i) == pointer[i] = "/" /\ \A j \in (i + 1)..n : pointer[j] # "/"
  <2>1. LastSlash(pointer, n) = CHOOSE i \in 1..n : P(i)
    BY DEF LastSlash
  <2>2. \E i \in 1..n : P(i)
    BY <1>5
  <2> HIDE DEF P
  <2>3. LastSlash(pointer, n) \in 1..n /\ P(LastSlash(pointer, n))
    BY <2>1, <2>2
  <2>4. QED
    BY <2>3 DEF P
<1>7. ASSUME NEW i \in 1..n, pointer[i] = "/", \A j \in (i + 1)..n : pointer[j] # "/"
      PROVE  i = LastSlash(pointer, n)
  <2> DEFINE l == LastSlash(pointer, n)
  <2>1. l \in 1..n /\ pointer[l] = "/" /\ \A j \in (l + 1)..n : pointer[j] # "/"
    BY <1>6
  <2> HIDE DEF l
  <2>2. l \notin (i + 1)..n /\ i \notin (l + 1)..n
    BY <1>7, <2>1
  <2>3. i = l
    BY <2>1, <2>2
  <2>4. QED
    BY <2>3 DEF l
<1>8. QED
  BY <1>6, <1>7

WalkStep(value, pointer, f, n) ==
  IF n = 0 THEN value
  ELSE Into(f[LastSlash(pointer, n) - 1],
            SubSeq(pointer, LastSlash(pointer, n) + 1, n))
Walks(value, pointer, f) ==
  f = [n \in 0..Len(pointer) |-> WalkStep(value, pointer, f, n)]

LEMMA TokenIs ==
  ASSUME NEW C, NEW pointer \in Seq(C), NEW n \in 0..Len(pointer), NEW l \in 1..n
  PROVE  /\ SubSeq(pointer, l + 1, n) \in Seq(C)
         /\ Len(SubSeq(pointer, l + 1, n)) = n - l
         /\ \A i \in 1..(n - l) : SubSeq(pointer, l + 1, n)[i] = pointer[l + i]
         /\ SubSeq(pointer, l, n) = <<pointer[l]>> \o SubSeq(pointer, l + 1, n)
<1>1. \A i \in (l + 1)..n : pointer[i] \in C
  BY ElementOfSeq
<1>2. /\ SubSeq(pointer, l + 1, n) \in Seq(C)
      /\ Len(SubSeq(pointer, l + 1, n)) = IF l + 1 <= n THEN n - (l + 1) + 1 ELSE 0
      /\ \A i \in 1..(n - (l + 1) + 1) :
           SubSeq(pointer, l + 1, n)[i] = pointer[l + 1 + i - 1]
  <2>1. l + 1 \in Int /\ n \in Int
    OBVIOUS
  <2>2. QED
    BY <1>1, <2>1, SubSeqProperties
<1>3. SubSeq(pointer, l, n) = <<pointer[l]>> \o SubSeq(pointer, l + 1, n)
  <2>1. l \in 1..Len(pointer) /\ n \in l..Len(pointer)
    OBVIOUS
  <2>2. QED
    BY <2>1, SubSeqRecursiveFirst
<1>4. QED
  BY <1>2, <1>3

LEMMA WalkExists ==
  ASSUME NEW value \in Value \cup NoValue, NEW C, NEW pointer \in Seq(C),
         pointer # <<>> => pointer[1] = "/"
  PROVE  \E f : Walks(value, pointer, f)
<1> DEFINE N == Len(pointer)
           V == Value \cup NoValue
           step == [n \in 0..N |-> [f \in [0..N -> V] |-> WalkStep(value, pointer, f, n)]]
<1>1. N \in Nat /\ value \in V
  OBVIOUS
<1>2. \A n \in 0..N : \A f \in [0..N -> V] : step[n][f] = WalkStep(value, pointer, f, n)
  OBVIOUS
<1>3. ASSUME NEW n \in 0..N, n # 0
      PROVE  LastSlash(pointer, n) \in 1..n /\ LastSlash(pointer, n) - 1 \in 0..(n - 1)
  <2>1. n \in 1..Len(pointer) /\ pointer[1] = "/"
    BY <1>3
  <2>2. QED
    BY <2>1, SlashIs
<1> HIDE DEF step, V
<1>4. ASSUME NEW n \in 0..N, NEW f \in [0..N -> V]
      PROVE  WalkStep(value, pointer, f, n) \in V
  <2>1. CASE n = 0
    BY <1>1, <2>1 DEF WalkStep
  <2>2. CASE n # 0
    <3> DEFINE l == LastSlash(pointer, n)
               token == SubSeq(pointer, l + 1, n)
    <3>1. l \in 1..n /\ l - 1 \in 0..N
      BY <1>3, <2>2
    <3> HIDE DEF l
    <3>2. token \in Seq(C)
      BY <3>1, TokenIs
    <3> HIDE DEF token
    <3>3. f[l - 1] \in V
      BY <3>1
    <3>4. Into(f[l - 1], token) \in V
      BY <3>2, <3>3, IntoIn DEF V
    <3>5. QED
      BY <2>2, <3>4 DEF WalkStep, l, token
  <2>3. QED
    BY <2>1, <2>2
<1>5. \E f \in [0..N -> V] : \A n \in 0..N : f[n] = step[n][f]
  <2>1. ASSUME NEW n \in 0..N, NEW f \in [0..N -> V]
        PROVE  step[n][f] \in V
    BY <1>2, <1>4
  <2>2. ASSUME NEW n \in 0..N, NEW f \in [0..N -> V], NEW g \in [0..N -> V],
               \A m \in 0..(n - 1) : f[m] = g[m]
        PROVE  step[n][f] = step[n][g]
    <3>1. /\ step[n][f] = WalkStep(value, pointer, f, n)
          /\ step[n][g] = WalkStep(value, pointer, g, n)
      BY <1>2
    <3>2. WalkStep(value, pointer, f, n) = WalkStep(value, pointer, g, n)
      <4>1. n # 0 => f[LastSlash(pointer, n) - 1] = g[LastSlash(pointer, n) - 1]
        BY <1>3, <2>2
      <4>2. QED
        BY <4>1 DEF WalkStep
    <3>3. QED
      BY <3>1, <3>2
  <2>3. Unfolds(V, N, step)
    BY <1>1, <2>1, <2>2 DEF Unfolds
  <2> HIDE DEF N
  <2>4. QED
    BY <2>3, Recursion
<1>6. QED
  BY <1>2, <1>5 DEF Walks, V

\* What ValuesAt collects in front of each position, and that it is there.
OpenStep(value, pointer, f, n) ==
  IF n = 0 THEN {value}
  ELSE UNION {UNION {Under(from, SubSeq(pointer, m + 1, n)) : from \in f[m]} :
                m \in 0..(n - 1)}
Reaches(value, pointer, f) ==
  f = [n \in 0..Len(pointer) |-> OpenStep(value, pointer, f, n)]

LEMMA UnderIs ==
  ASSUME NEW v \in Value \cup {Missing}, NEW w, NEW t
  PROVE  /\ w \in Under(v, t) <=> \E k \in KeysOf(v) : t = <<"/">> \o k[1] /\ w = k[2]
         /\ Under(v, t) \subseteq Value
BY KeyIs DEF Under

LEMMA OpensExists ==
  ASSUME NEW value \in Value \cup {Missing}, NEW pointer, Len(pointer) \in Nat
  PROVE  \E f \in [0..Len(pointer) -> SUBSET (Value \cup {Missing})] :
           Reaches(value, pointer, f)
<1> DEFINE N == Len(pointer)
           V == SUBSET (Value \cup {Missing})
           step == [n \in 0..N |-> [f \in [0..N -> V] |-> OpenStep(value, pointer, f, n)]]
<1>1. N \in Nat /\ {value} \in V /\ V # {}
  OBVIOUS
<1>2. \A n \in 0..N : \A f \in [0..N -> V] : step[n][f] = OpenStep(value, pointer, f, n)
  OBVIOUS
<1> HIDE DEF step
<1>3. ASSUME NEW n \in 0..N, NEW f \in [0..N -> V]
      PROVE  OpenStep(value, pointer, f, n) \in V
  <2>1. CASE n = 0
    BY <1>1, <2>1 DEF OpenStep
  <2>2. CASE n # 0
    <3>1. ASSUME NEW m \in 0..(n - 1), NEW from \in f[m],
                 NEW w \in Under(from, SubSeq(pointer, m + 1, n))
          PROVE  w \in Value
      <4>1. from \in Value \cup {Missing}
        OBVIOUS
      <4>2. QED
        BY <4>1, UnderIs
    <3>2. QED
      BY <2>2, <3>1 DEF OpenStep
  <2>3. QED
    BY <2>1, <2>2
<1> HIDE DEF V
<1>4. ASSUME NEW n \in 0..N, NEW f \in [0..N -> V], NEW g \in [0..N -> V],
             \A m \in 0..(n - 1) : f[m] = g[m]
      PROVE  step[n][f] = step[n][g]
  <2>1. /\ step[n][f] = OpenStep(value, pointer, f, n)
        /\ step[n][g] = OpenStep(value, pointer, g, n)
    BY <1>2
  <2>2. OpenStep(value, pointer, f, n) = OpenStep(value, pointer, g, n)
    BY <1>4 DEF OpenStep
  <2>3. QED
    BY <2>1, <2>2
<1>5. Unfolds(V, N, step)
  BY <1>1, <1>2, <1>3, <1>4 DEF Unfolds
<1> HIDE DEF N
<1>6. PICK f \in [0..N -> V] : \A n \in 0..N : f[n] = step[n][f]
  BY <1>5, Recursion
<1>7. \A n \in 0..N : f[n] = OpenStep(value, pointer, f, n)
  BY <1>2, <1>6
<1>8. f = [n \in 0..N |-> OpenStep(value, pointer, f, n)]
  BY <1>7
<1>9. QED
  BY <1>8 DEF Reaches, V, N

\* At a position the two agree: on the value, if there is one.
Agree(reach, opens, C) ==
  /\ reach \in Value \cup NoValue /\ opens \subseteq Value \cup {Missing}
  /\ \A w : w \notin NoValue =>
       /\ w \in opens => reach = w
       /\ Plain(C) => (reach = w => w \in opens)

IsPrepended(s, x, t) ==
  /\ Len(s) = Len(t) + 1 /\ s[1] = x
  /\ \A i \in 1..Len(t) : s[i + 1] = t[i]

LEMMA Prepended ==
  ASSUME NEW C, NEW t \in Seq(C), NEW x
  PROVE  IsPrepended(<<x>> \o t, x, t)
<1>1. C \subseteq C \cup {x} /\ Len(t) \in Nat
  OBVIOUS
<1>2. t \in Seq(C \cup {x}) /\ <<x>> \in Seq(C \cup {x})
  BY <1>1, SeqMonotonic
<1>3. QED
  BY <1>1, <1>2, ConcatProperties DEF IsPrepended

\* A key that is written behind the position m is the last token.
LEMMA LastToken ==
  ASSUME NEW C, NEW pointer \in Seq(C), NEW n \in 1..Len(pointer), pointer[1] = "/",
         NEW m \in 0..(n - 1), NEW D, NEW key \in Seq(D), NoSlash(key),
         SubSeq(pointer, m + 1, n) = <<"/">> \o key
  PROVE  LastSlash(pointer, n) = m + 1 /\ SubSeq(pointer, m + 2, n) = key
<1> DEFINE l == m + 1
           token == SubSeq(pointer, l + 1, n)
<1>1. l \in 1..n /\ l + 1 = m + 2 /\ n \in 0..Len(pointer) /\ l \in Nat /\ n \in Nat
  OBVIOUS
<1> HIDE DEF l
<1>2. /\ token \in Seq(C) /\ Len(token) = n - l
      /\ \A i \in 1..(n - l) : token[i] = pointer[l + i]
      /\ SubSeq(pointer, l, n) = <<pointer[l]>> \o token
  BY <1>1, TokenIs
<1> HIDE DEF token
<1>3. <<pointer[l]>> \o token = <<"/">> \o key
  BY <1>2 DEF l
<1>4. pointer[l] = "/" /\ token = key
  <2>1. IsPrepended(<<pointer[l]>> \o token, pointer[l], token)
    BY <1>2, Prepended
  <2>2. IsPrepended(<<pointer[l]>> \o token, "/", key)
    BY <1>3, Prepended
  <2>3. Len(token) = Len(key)
    BY <1>2, <2>1, <2>2 DEF IsPrepended
  <2>4. \A i \in 1..Len(token) : token[i] = key[i]
    BY <1>2, <2>1, <2>2, <2>3 DEF IsPrepended
  <2>5. token \in Seq(C \cup D) /\ key \in Seq(C \cup D)
    <3>1. C \subseteq C \cup D /\ D \subseteq C \cup D
      OBVIOUS
    <3>2. QED
      BY <1>2, <3>1, SeqMonotonic
  <2>6. token = key
    BY <2>3, <2>4, <2>5, SeqEqual
  <2>7. QED
    BY <2>1, <2>2, <2>6 DEF IsPrepended
<1>5. ASSUME NEW j \in (l + 1)..n
      PROVE  pointer[j] # "/"
  <2>1. j - l \in 1..(n - l) /\ l + (j - l) = j
    BY <1>1, <1>5
  <2>2. token[j - l] = pointer[j]
    BY <1>2, <2>1
  <2>3. token[j - l] # "/"
    BY <1>2, <1>4, <2>1 DEF NoSlash
  <2>4. QED
    BY <2>2, <2>3
<1>6. l = LastSlash(pointer, n)
  BY <1>1, <1>4, <1>5, SlashIs
<1>7. QED
  BY <1>1, <1>4, <1>6 DEF l, token

LEMMA AgreeNext ==
  ASSUME NEW value, NEW C, NEW pointer \in Seq(C), pointer[1] = "/",
         NEW n \in 1..Len(pointer),
         NEW f, NEW g, \A m \in 0..(n - 1) : Agree(f[m], g[m], C)
  PROVE  Agree(WalkStep(value, pointer, f, n), OpenStep(value, pointer, g, n), C)
<1> DEFINE l == LastSlash(pointer, n)
           token == SubSeq(pointer, l + 1, n)
           from == f[l - 1]
           opens == OpenStep(value, pointer, g, n)
<1>1. /\ l \in 1..n /\ pointer[l] = "/" /\ l - 1 \in 0..(n - 1) /\ l - 1 + 1 = l
      /\ \A j \in (l + 1)..n : pointer[j] # "/"
  BY SlashIs
<1>2. n \in 0..Len(pointer) /\ n # 0 /\ l \in Nat
  BY <1>1
<1> HIDE DEF l
<1>3. /\ token \in Seq(C) /\ Len(token) = n - l
      /\ \A i \in 1..(n - l) : token[i] = pointer[l + i]
      /\ SubSeq(pointer, l, n) = <<pointer[l]>> \o token
  BY <1>1, <1>2, TokenIs
<1> HIDE DEF token
<1>4. NoSlash(token)
  <2>1. ASSUME NEW i \in 1..(n - l)
        PROVE  l + i \in (l + 1)..n
    BY <1>1, <1>2
  <2>2. QED
    BY <1>1, <1>3, <2>1 DEF NoSlash
<1>5. WalkStep(value, pointer, f, n) = Into(from, token)
  BY <1>2 DEF WalkStep, l, token
<1>6. Agree(from, g[l - 1], C)
  BY <1>1
<1>7. Into(from, token) \in Value \cup NoValue
  BY <1>3, <1>6, IntoIn DEF Agree
<1> HIDE DEF from
<1>8. opens = UNION {UNION {Under(v, SubSeq(pointer, m + 1, n)) : v \in g[m]} :
                       m \in 0..(n - 1)}
  BY <1>2 DEF OpenStep
<1> HIDE DEF opens
<1>9. opens \subseteq Value \cup {Missing}
  <2>1. ASSUME NEW m \in 0..(n - 1), NEW v \in g[m],
               NEW w \in Under(v, SubSeq(pointer, m + 1, n))
        PROVE  w \in Value
    <3>1. v \in Value \cup {Missing}
      BY DEF Agree
    <3>2. QED
      BY <3>1, UnderIs
  <2>2. QED
    BY <1>8, <2>1
<1>10. ASSUME Plain(C), NEW w, w \notin NoValue, Into(from, token) = w
       PROVE  w \in opens
  <2>1. from \notin NoValue
    <3>1. from \in NoValue => Into(from, token) = from
      BY DEF Into, NoValue
    <3>2. QED
      BY <1>10, <3>1
  <2>2. from \in Value /\ from \in g[l - 1]
    BY <1>6, <1>10, <2>1 DEF Agree
  <2>3. <<token, w>> \in KeysOf(from)
    BY <1>3, <1>4, <1>10, <2>2, IntoKey
  <2>4. SubSeq(pointer, l - 1 + 1, n) = <<"/">> \o token
    BY <1>1, <1>3
  <2>5. w \in Under(from, SubSeq(pointer, l - 1 + 1, n))
    <3>1. <<token, w>>[1] = token /\ <<token, w>>[2] = w
      OBVIOUS
    <3>2. QED
      BY <2>3, <2>4, <3>1 DEF Under
  <2>6. QED
    BY <1>1, <1>8, <2>2, <2>5
<1>11. ASSUME NEW w, w \notin NoValue, w \in opens
       PROVE  Into(from, token) = w
  <2>1. PICK m \in 0..(n - 1) : \E v \in g[m] : w \in Under(v, SubSeq(pointer, m + 1, n))
    BY <1>8, <1>11
  <2>2. PICK v \in g[m] : w \in Under(v, SubSeq(pointer, m + 1, n))
    BY <2>1
  <2>3. Agree(f[m], g[m], C) /\ v \in Value \cup {Missing}
    BY DEF Agree
  <2>4. PICK k \in KeysOf(v) : SubSeq(pointer, m + 1, n) = <<"/">> \o k[1] /\ w = k[2]
    BY <2>2 DEF Under
  <2>5. /\ v \notin NoValue /\ k = <<k[1], k[2]>> /\ NoSlash(k[1])
        /\ \E D : k[1] \in Seq(D)
    BY <2>3, KeyIs
  <2>6. PICK D : k[1] \in Seq(D)
    BY <2>5
  <2>7. f[m] = v
    BY <2>3, <2>5 DEF Agree
  <2>8. l = m + 1 /\ SubSeq(pointer, m + 2, n) = k[1]
    BY <2>4, <2>5, <2>6, LastToken DEF l
  <2>9. from = v /\ token = k[1]
    <3>1. l - 1 = m /\ l + 1 = m + 2
      BY <2>8
    <3>2. QED
      BY <2>7, <2>8, <3>1 DEF from, token
  <2>10. <<token, w>> \in KeysOf(v)
    BY <2>4, <2>5, <2>9
  <2>11. QED
    BY <1>3, <1>4, <1>11, <2>3, <2>9, <2>10, IntoKey
<1>12. QED
  BY <1>5, <1>7, <1>9, <1>10, <1>11 DEF Agree, opens

\* Where a pointer leads is what it opens.
LEMMA Walk ==
  ASSUME NEW value \in Value \cup {Missing}, NEW C, NEW pointer \in Seq(C),
         pointer # <<>> => pointer[1] = "/"
  PROVE  Agree(ValueAt(value, pointer), ValuesAt(value, pointer), C)
<1> DEFINE N == Len(pointer)
           f == CHOOSE f : Walks(value, pointer, f)
           g == CHOOSE g : Reaches(value, pointer, g)
           S == {n \in 0..N : Agree(f[n], g[n], C)}
<1>1. N \in Nat /\ value \in Value \cup NoValue
  BY DEF NoValue
<1>2. Walks(value, pointer, f)
  BY <1>1, WalkExists
<1>3. Reaches(value, pointer, g)
  BY <1>1, OpensExists
<1>4. ValueAt(value, pointer) = f[N]
  BY Zenon DEF ValueAt, Walks, WalkStep
<1>5. ValuesAt(value, pointer) = g[N]
  BY Zenon DEF ValuesAt, Reaches, OpenStep
<1> HIDE DEF f, g
<1>6. \A n \in 0..N : /\ f[n] = WalkStep(value, pointer, f, n)
                      /\ g[n] = OpenStep(value, pointer, g, n)
  BY <1>2, <1>3 DEF Walks, Reaches
<1>7. ASSUME NEW n \in 0..N, \A m \in 0..(n - 1) : m \in S
      PROVE  n \in S
  <2>1. CASE n = 0
    <3>1. f[n] = value /\ g[n] = {value}
      BY <1>6, <2>1 DEF WalkStep, OpenStep
    <3>2. Agree(value, {value}, C)
      BY <1>1 DEF Agree
    <3>3. QED
      BY <3>1, <3>2
  <2>2. CASE n # 0
    <3>1. n \in 1..Len(pointer) /\ pointer[1] = "/"
      BY <2>2
    <3>2. \A m \in 0..(n - 1) : Agree(f[m], g[m], C)
      BY <1>7
    <3>3. Agree(WalkStep(value, pointer, f, n), OpenStep(value, pointer, g, n), C)
      BY <3>1, <3>2, AgreeNext
    <3>4. QED
      BY <1>6, <3>3
  <2>3. QED
    BY <2>1, <2>2
<1> HIDE DEF S
<1>8. \A n \in 0..N : n \in S
  BY <1>1, <1>7, UpTo
<1>9. Agree(f[N], g[N], C)
  BY <1>1, <1>8 DEF S
<1>10. QED
  BY <1>4, <1>5, <1>9

\* A pointer resolves if what it opens is written as the quotation, and only
\* then if its digits are those of RFC 6901.
LEMMA PointerOnce ==
  ASSUME NEW v, Parsed(v.text) \in Value \cup {Missing}, NEW q, q # <<>>, NEW sel,
         SelectorWellFormed(sel), sel.type = "json_pointer",
         ~ (Has(sel, "exact") /\ sel.exact # q)
  PROVE  LET resolved == ResolveExact(v, sel, q).outcome = "resolved" IN
         /\ Unambiguous(v, sel, q) => resolved
         /\ Plain(Range(sel.pointer)) => (resolved => Unambiguous(v, sel, q))
<1> DEFINE value == Parsed(v.text)
           target == ValueAt(value, sel.pointer)
           values == ValuesAt(value, sel.pointer)
<1>0. ~ OnLines(sel)
  BY DEF OnLines
<1>1. /\ sel.pointer \in Seq(Range(sel.pointer))
      /\ sel.pointer # <<>> => sel.pointer[1] = "/"
  BY DEF SelectorWellFormed
<1>2. Agree(target, values, Range(sel.pointer))
  BY <1>1, Walk
<1>3. ResolveExact(v, sel, q) = AtPointer(value, q, sel)
  BY <1>0 DEF ResolveExact
<1>4. Unambiguous(v, sel, q) <=> \E w \in values : w.text = q
  BY <1>0 DEF Unambiguous
<1> HIDE DEF values
<1>5. Fails("resolved").outcome = "resolved" /\ Fails("invalid").outcome = "invalid"
      /\ Fails("unresolved").outcome = "unresolved"
  BY DEF Fails
<1>6. AtPointer(value, q, sel) =
        CASE target = Malformed -> Fails("invalid")
          [] target # Missing /\ target.text = q -> Fails("resolved")
          [] OTHER -> Fails("unresolved")
  BY DEF AtPointer
<1> HIDE DEF target, value
<1>7. ResolveExact(v, sel, q).outcome = "resolved" <=>
        target \notin NoValue /\ target.text = q
  <2>1. CASE target = Malformed
    BY <1>3, <1>5, <1>6, <2>1, NothingIs DEF NoValue
  <2>2. CASE target # Malformed /\ target # Missing /\ target.text = q
    BY <1>3, <1>5, <1>6, <2>2 DEF NoValue
  <2>3. CASE target # Malformed /\ ~ (target # Missing /\ target.text = q)
    BY <1>3, <1>5, <1>6, <2>3 DEF NoValue
  <2>4. QED
    BY <2>1, <2>2, <2>3
<1>8. \A w \in NoValue : w.text # q
  BY NothingIs DEF NoValue
<1>9. QED
  BY <1>2, <1>4, <1>7, <1>8 DEF Agree

-----------------------------------------------------------------------------
(***************************************************************************)
(* Anchoring: uniqueness                                                   *)
(***************************************************************************)

\* A search of lines resolves if there is one place on them.
LEMMA InLinesOnce ==
  ASSUME NEW t, Len(t) \in Nat, t # <<>> => Len(t) # 0, NEW q, Len(q) \in Nat \ {0},
         NEW sel, sel.start_line \in Nat \ {0}, sel.end_line \in Nat,
         sel.start_line <= sel.end_line
  PROVE  InLines(t, q, sel).outcome = "resolved" <=>
           Cardinality(PlacesOnLines(t, q, sel)) = 1
<1> DEFINE on == PlacesOnLines(t, q, sel)
           lower == LineEnd(t, sel.start_line - 1)
           upper == LineEnd(t, sel.end_line)
<1>1. TrueLines(t) = LineCount(t) /\ LineCount(t) \in Nat
  <2>1. CASE t = <<>>
    <3>1. Len(t) = 0
      BY <2>1
    <3>2. LineCount(t) = 0
      BY <3>1, LinesCounted, LinesNone
    <3>3. QED
      BY <2>1, <3>2 DEF TrueLines
  <2>2. CASE t # <<>>
    BY <2>2, LinesCounted DEF TrueLines
  <2>3. QED
    BY <2>1, <2>2
<1>2. CASE sel.end_line > LineCount(t)
  <2>1. on = {}
    BY <1>1, <1>2 DEF PlacesOnLines
  <2>2. Cardinality(on) = 0
    BY <2>1, FS_EmptySet
  <2>3. InLines(t, q, sel).outcome = "unresolved"
    BY <1>2 DEF InLines, Fails
  <2>4. QED
    BY <2>2, <2>3
<1>3. CASE ~ (sel.end_line > LineCount(t))
  <2>1. sel.end_line <= LineCount(t)
    BY <1>1, <1>3
  <2>2. /\ lower \in Int /\ upper \in Int /\ lower <= upper
        /\ \A p : p \in PlacesIn(t, q, sel, lower, upper) <=>
             /\ p \in PlacesIn(t, q, sel, 0, Len(t))
             /\ TrueLine(t, p) >= sel.start_line
             /\ TrueLine(t, p + Len(q) - 1) <= sel.end_line
    BY <2>1, PlacesByLine
  <2>3. on = PlacesIn(t, q, sel, lower, upper)
    BY <1>1, <2>1, <2>2, PlacesAre DEF PlacesOnLines
  <2>4. InLines(t, q, sel) = UniqueTextMatch(t, q, lower, upper, sel)
    BY <1>3 DEF InLines
  <2> HIDE DEF lower, upper, on
  <2>5. QED
    BY <2>2, <2>3, <2>4, UniqueMatch DEF on
<1>4. QED
  BY <1>2, <1>3

LEMMA TextOnce ==
  ASSUME NEW v, VersionOK(v), NEW q, Len(q) \in Nat \ {0}, NEW sel,
         SelectorWellFormed(sel), sel.type # "json_pointer",
         ~ Has(sel, "start"), ~ SelectorUnavailable(v, sel)
  PROVE  /\ ValidateAnchor(v, sel, q) = "resolved" => Unambiguous(v, sel, q)
         /\ ValidateAnchor(v, sel, q) = "rejected" =>
              \/ ~ Unambiguous(v, sel, q)
              \/ Has(sel, "exact") /\ sel.exact # q
              \/ Has(sel, "end")
              \/ sel.type = "git_line_range" /\ sel.commit # v.commit
<1> DEFINE t == v.text
           outcome == ResolveExact(v, sel, q).outcome
<1>1. SUFFICES ASSUME ~ (Has(sel, "exact") /\ sel.exact # q)
               PROVE  /\ outcome = "resolved" => Unambiguous(v, sel, q)
                      /\ outcome # "resolved" =>
                           \/ ~ Unambiguous(v, sel, q)
                           \/ Has(sel, "end")
                           \/ sel.type = "git_line_range" /\ sel.commit # v.commit
  BY DEF ValidateAnchor
<1>2. Len(t) \in Nat /\ (t # <<>> => Len(t) # 0)
  BY DEF VersionOK
<1>3. sel.type # "char_range"
  BY DEF SelectorWellFormed, Has
<1>4. CASE OnLines(sel)
  <2>1. /\ sel.start_line \in Nat \ {0} /\ sel.end_line \in Nat
        /\ sel.start_line <= sel.end_line
    BY <1>4 DEF SelectorWellFormed, OnLines
  <2>2. InLines(t, q, sel).outcome = "resolved" <=> Unambiguous(v, sel, q)
    BY <1>2, <1>4, <2>1, InLinesOnce DEF Unambiguous, OnLines
  <2>3. ResolveExact(v, sel, q) =
          IF sel.type = "git_line_range" /\ sel.commit # v.commit
            THEN Fails("unresolved") ELSE InLines(t, q, sel)
    BY <1>1, <1>3, <1>4 DEF ResolveExact, OnLines
  <2>4. QED
    BY <2>2, <2>3 DEF Fails
<1>5. CASE ~ OnLines(sel)
  <2>1. Unambiguous(v, sel, q) <=> Cardinality(PlacesIn(t, q, sel, 0, Len(t))) = 1
    BY <1>5, PlacesAre DEF Unambiguous
  <2>2. UniqueTextMatch(t, q, 0, Len(t), sel).outcome = "resolved" <=>
          Cardinality(PlacesIn(t, q, sel, 0, Len(t))) = 1
    BY <1>2, UniqueMatch
  <2>3. CASE sel.type = "text_quote" /\ Has(sel, "end")
    <3>1. ResolveExact(v, sel, q) = Fails("invalid")
      BY <1>1, <1>3, <1>5, <2>3 DEF ResolveExact, OnLines
    <3>2. QED
      BY <2>3, <3>1 DEF Fails
  <2>4. CASE ~ (sel.type = "text_quote" /\ Has(sel, "end"))
    <3>1. ResolveExact(v, sel, q) = UniqueTextMatch(t, q, 0, Len(t), sel)
      BY <1>1, <1>3, <1>5, <2>4 DEF ResolveExact, Has
    <3>2. QED
      BY <2>1, <2>2, <3>1
  <2>5. QED
    BY <2>3, <2>4
<1>6. QED
  BY <1>4, <1>5

\* What a capture finds again, in terms of the places.
LEMMA FoundOnceIs ==
  ASSUME FoundOnce
  PROVE  captures > 0 =>
           (evidence_.state # "lost" <=>
              /\ OfText(submitted.selector)
              /\ submitted.selector.type = "git_line_range" => version.commit # 0
              /\ Cardinality(Places(version.text, quote, submitted.selector)) = 1)
BY PlacesAre DEF FoundOnce, PlacesNow

\* Evidence that a deposit (resolve_exact_evidence) or a capture
\* (_reanchored_selector) calls resolved is where its selector says, on the
\* version it is on, whatever was inserted or removed around it; but for the
\* lines of a text with separators that only str.splitlines knows.
THEOREM EvidenceResolves == AnchorSpec => []AnchoredResolves
<1>1. AnchorInv => AnchoredResolves
  BY DEF AnchorInv
<1>2. QED
  BY <1>1, InitAnchor, AnchorInvKept, PTL DEF AnchorSpec

\* For every quotation and selector, on every text and JSON document and after
\* every change: what is called resolved is one place, where the selector says,
\* and what is rejected or lost is not there, or there twice.
THEOREM EvidenceAnchored == AnchorSpec => []AnchoredTruly
<1>1. AnchorInv => AnchoredTruly
  <2> SUFFICES ASSUME AnchorInv
               PROVE  AnchoredTruly
    OBVIOUS
  <2> DEFINE sel == submitted.selector
  <2>1. /\ SelectorWellFormed(sel) /\ VersionOK(version)
        /\ Len(quote) \in Nat \ {0} /\ quote # <<>>
    BY SubmissionOK DEF AnchorInv, quote
  <2>2. ASSUME captures = 0, ~ Has(sel, "start"), ~ SelectorUnavailable(version, sel)
        PROVE  /\ evidence_.state = "resolved" =>
                    \/ Unambiguous(version, sel, quote)
                    \/ /\ sel.type = "json_pointer"
                       /\ Range(sel.pointer) \cap DOMAIN OtherDigits # {}
               /\ evidence_.state = "rejected" =>
                    \/ ~ Unambiguous(version, sel, quote)
                    \/ Has(sel, "exact") /\ sel.exact # quote
                    \/ Has(sel, "end")
                    \/ sel.type = "git_line_range" /\ sel.commit # version.commit
    <3>1. evidence_.state \in {"resolved", "rejected"} =>
            evidence_.state = ValidateAnchor(version, sel, quote)
      BY <2>2 DEF AnchorInv
    <3>2. CASE sel.type # "json_pointer"
      BY <2>1, <2>2, <3>1, <3>2, TextOnce
    <3>3. CASE sel.type = "json_pointer"
      <4>1. Parsed(version.text) \in Value \cup {Missing}
        BY <2>2, SubmissionOK DEF AnchorInv
      <4> DEFINE resolved == ResolveExact(version, sel, quote).outcome = "resolved"
      <4>2. ~ (Has(sel, "exact") /\ sel.exact # quote) =>
              /\ Unambiguous(version, sel, quote) => resolved
              /\ Plain(Range(sel.pointer)) =>
                   (resolved => Unambiguous(version, sel, quote))
        BY <2>1, <3>3, <4>1, PointerOnce
      <4>3. QED
        BY <2>2, <3>1, <3>3, <4>2 DEF ValidateAnchor, Plain
    <3>4. QED
      BY <3>2, <3>3
  <2>3. AnchoredOnce
    BY <2>2, FoundOnceIs DEF AnchoredOnce, AnchorInv
  <2>4. QED
    BY <2>3 DEF AnchoredTruly, AnchorInv
<1>2. QED
  BY <1>1, InitAnchor, AnchorInvKept, PTL DEF AnchorSpec
================================================================================
