------------------------------ MODULE QueueProofs ------------------------------
(***************************************************************************)
(* Proofs about CaptureQueue, for any number of processes, entries and     *)
(* records in a bundle, and any set of entries that split their line.      *)
(***************************************************************************)
EXTENDS CaptureQueue, SequenceTheorems, TLAPS

-----------------------------------------------------------------------------
(***************************************************************************)
(* The file and the rows                                                   *)
(***************************************************************************)

LEMMA LineTypes ==
  /\ \A e \in Entry : LineOf(e) \in Line
  /\ Fragment \in Line
<1>1. ASSUME NEW e \in Entry
      PROVE  LineOf(e) \in Line
  BY <1>1 DEF LineOf, Line
<1>2. QED
  BY <1>1 DEF Fragment, Line

\* Joined lines are not readable, so they may hold any entries.
LEMMA AppendedType ==
  ASSUME file \in Seq(Line), NEW line \in Line
  PROVE  /\ Appended(line) \in Seq(Line)
         /\ UNION {Appended(line)[i].has : i \in DOMAIN Appended(line)}
              = Held \cup line.has
<1>1. CASE ended \/ file = <<>>
  <2>1. Appended(line) = Append(file, line)
    BY <1>1 DEF Appended
  <2>2. /\ DOMAIN Append(file, line) = 1..Len(file) + 1
        /\ Append(file, line)[Len(file) + 1] = line
        /\ \A i \in 1..Len(file) : Append(file, line)[i] = file[i]
        /\ DOMAIN file = 1..Len(file) /\ Len(file) \in Nat
    OBVIOUS
  <2>3. QED
    BY <2>1, <2>2 DEF Held
<1>2. CASE ~(ended \/ file = <<>>)
  <2> DEFINE joined == [has |-> file[Len(file)].has \cup line.has,
                        whole |-> FALSE]
  <2>1. Appended(line) = [file EXCEPT ![Len(file)] = joined]
    BY <1>2 DEF Appended
  <2>2. Len(file) \in 1..Len(file)
    BY <1>2
  <2>3. file[Len(file)] \in Line
    BY <2>2
  <2>4. joined \in Line
    BY <2>3 DEF Line
  <2> HIDE DEF joined
  <2>5. /\ [file EXCEPT ![Len(file)] = joined] \in Seq(Line)
        /\ DOMAIN [file EXCEPT ![Len(file)] = joined] = DOMAIN file
        /\ \A i \in DOMAIN file : [file EXCEPT ![Len(file)] = joined][i]
             = IF i = Len(file) THEN joined ELSE file[i]
    BY <2>2, <2>4, ExceptSeq, LenProperties
  <2>6. joined.has = file[Len(file)].has \cup line.has
    BY DEF joined
  <2>7. Len(file) \in DOMAIN file
    BY <2>2
  <2>8. QED
    BY <2>1, <2>5, <2>6, <2>7 DEF Held
<1>3. QED
  BY <1>1, <1>2

\* The elements of a sequence.
Elements(s) == {s[i] : i \in DOMAIN s}

\* A rewritten file holds the entries it is written from.
LEMMA Rewritten ==
  ASSUME NEW s \in Seq(Entry)
  PROVE  LET f == [i \in DOMAIN s |-> LineOf(s[i])]
         IN  /\ f \in Seq(Line)
             /\ UNION {f[i].has : i \in DOMAIN f} = Elements(s)
             /\ Elements(s) \cap Splits = {} => \A i \in DOMAIN f : f[i].whole
<1> DEFINE f == [i \in DOMAIN s |-> LineOf(s[i])]
<1>1. DOMAIN s = 1..Len(s) /\ Len(s) \in Nat
  OBVIOUS
<1>2. \A i \in DOMAIN s : s[i] \in Entry /\ LineOf(s[i]) \in Line
  BY LineTypes
<1>3. f \in [1..Len(s) -> Line]
  BY <1>1, <1>2
<1>4. f \in Seq(Line)
  BY <1>1, <1>3, SeqDef
<1>5. \A i \in DOMAIN s : f[i].has = {s[i]} /\ f[i].whole = (s[i] \notin Splits)
  BY DEF LineOf
<1>6. UNION {f[i].has : i \in DOMAIN f} = Elements(s)
  BY <1>5 DEF Elements
<1>7. Elements(s) \cap Splits = {} => \A i \in DOMAIN f : f[i].whole
  BY <1>5 DEF Elements
<1>8. QED
  BY <1>4, <1>6, <1>7

\* What a flush reads is what the file holds.
LEMMA WhatIsRead ==
  ASSUME file \in Seq(Line), Readable
  PROVE  /\ EntriesRead \in Seq(Entry)
         /\ Elements(EntriesRead) = Held
         /\ Held \cap Splits = {}
<1>1. DOMAIN file = 1..Len(file) /\ Len(file) \in Nat
  OBVIOUS
<1>2. ASSUME NEW i \in DOMAIN file
      PROVE  /\ EntriesRead[i] \in Entry \ Splits
             /\ file[i].has = {EntriesRead[i]}
  <2>1. file[i] \in Line /\ file[i].whole
    BY DEF Readable
  <2>2. PICK e \in Entry \ Splits : file[i].has = {e}
    BY <2>1 DEF Line
  <2>3. EntriesRead[i] = CHOOSE x \in file[i].has : TRUE
    BY DEF EntriesRead
  <2>4. QED
    BY <2>2, <2>3
<1>3. DOMAIN EntriesRead = DOMAIN file
  BY DEF EntriesRead
<1>4. EntriesRead \in [1..Len(file) -> Entry]
  <2>1. EntriesRead = [i \in DOMAIN file |-> CHOOSE e \in file[i].has : TRUE]
    BY DEF EntriesRead
  <2>2. QED
    BY <1>1, <1>2, <2>1
<1>5. EntriesRead \in Seq(Entry)
  BY <1>1, <1>4, SeqDef
<1>6. QED
  BY <1>2, <1>3, <1>5 DEF Elements, Held

LEMMA ElementsOfTail ==
  ASSUME NEW s \in Seq(Entry), s # <<>>
  PROVE  /\ Head(s) \in Entry /\ Tail(s) \in Seq(Entry)
         /\ Elements(s) = {Head(s)} \cup Elements(Tail(s))
<1>1. /\ Head(s) \in Entry /\ Tail(s) \in Seq(Entry)
      /\ Len(s) \in Nat \ {0} /\ Len(Tail(s)) = Len(s) - 1
      /\ Head(s) = s[1]
      /\ \A i \in 1..Len(Tail(s)) : Tail(s)[i] = s[i + 1]
      /\ DOMAIN s = 1..Len(s) /\ DOMAIN Tail(s) = 1..Len(Tail(s))
  OBVIOUS
<1>2. \A i \in 1..Len(s) : i = 1 \/ (i - 1 \in 1..Len(Tail(s)) /\ i = i - 1 + 1)
  BY <1>1
<1>3. ASSUME NEW x \in Elements(s)
      PROVE  x \in {Head(s)} \cup Elements(Tail(s))
  <2>1. PICK i \in 1..Len(s) : x = s[i]
    BY <1>1, <1>3 DEF Elements
  <2>2. CASE i = 1
    BY <1>1, <2>1, <2>2
  <2>3. CASE i # 1
    <3>1. i - 1 \in 1..Len(Tail(s)) /\ Tail(s)[i - 1] = s[i]
      BY <1>1, <2>3
    <3>2. QED
      BY <1>1, <2>1, <3>1 DEF Elements
  <2>4. QED
    BY <2>2, <2>3
<1>4. ASSUME NEW x \in Elements(Tail(s))
      PROVE  x \in Elements(s)
  <2>1. PICK i \in 1..Len(Tail(s)) : x = Tail(s)[i]
    BY <1>1, <1>4 DEF Elements
  <2>2. i + 1 \in 1..Len(s) /\ x = s[i + 1]
    BY <1>1, <2>1
  <2>3. QED
    BY <1>1, <2>2 DEF Elements
<1>5. Head(s) \in Elements(s)
  BY <1>1 DEF Elements
<1>6. QED
  BY <1>1, <1>3, <1>4, <1>5

LEMMA ElementsOfAppend ==
  ASSUME NEW s \in Seq(Entry), NEW e \in Entry
  PROVE  /\ Append(s, e) \in Seq(Entry)
         /\ Elements(Append(s, e)) = Elements(s) \cup {e}
<1>1. /\ DOMAIN Append(s, e) = 1..Len(s) + 1
      /\ Append(s, e)[Len(s) + 1] = e
      /\ \A i \in 1..Len(s) : Append(s, e)[i] = s[i]
      /\ DOMAIN s = 1..Len(s) /\ Len(s) \in Nat
      /\ Append(s, e) \in Seq(Entry)
  OBVIOUS
<1>2. QED
  BY <1>1 DEF Elements

LEMMA Parts1 ==
  \A e \in Entry : Last(e) \in 1..Parts /\ 1 \in PartsOf(e)
BY QueueAssumption DEF Last, PartsOf

LEMMA RecordIs ==
  ASSUME NEW e \in Entry, NEW k \in PartsOf(e)
  PROVE  <<e, k>> \in Record
<1>1. <<e, k>> \in {e} \X PartsOf(e)
  OBVIOUS
<1>2. QED
  BY <1>1 DEF Record

LEMMA RowsInsert ==
  ASSUME rows \in [Record -> Nat],
         NEW e \in Entry, NEW k \in PartsOf(e), Insert(e, k)
  PROVE  /\ rows' \in [Record -> Nat]
         /\ \A f \in Entry : \A j \in PartsOf(f) :
              rows'[<<f, j>>] = IF f = e /\ j = k THEN rows[<<f, j>>] + 1
                                              ELSE rows[<<f, j>>]
<1>1. <<e, k>> \in Record
  BY RecordIs
<1>2. rows' = [rows EXCEPT ![<<e, k>>] = rows[<<e, k>>] + 1]
  BY DEF Insert
<1>3. rows[<<e, k>>] + 1 \in Nat
  BY <1>1
<1>4. rows' \in [Record -> Nat]
  BY <1>2, <1>3
<1>5. ASSUME NEW f \in Entry, NEW j \in PartsOf(f)
      PROVE  rows'[<<f, j>>] = IF f = e /\ j = k THEN rows[<<f, j>>] + 1
                                                 ELSE rows[<<f, j>>]
  <2>1. <<f, j>> \in Record
    BY RecordIs
  <2>2. <<f, j>> = <<e, k>> <=> f = e /\ j = k
    OBVIOUS
  <2>3. QED
    BY <1>2, <2>1, <2>2
<1>6. QED
  BY <1>4, <1>5

-----------------------------------------------------------------------------
(***************************************************************************)
(* Type correctness                                                        *)
(***************************************************************************)

LocalOK(p) ==
  /\ pc[p] \in {"idle"} \cup Holding
  /\ to[p] \in Backend
  /\ work[p] \in Seq(Entry) /\ kept[p] \in Seq(Entry)
  /\ part[p] \in Nat /\ asked[p] \in {"no", "sent", "checked"}
  /\ pc[p] \in Holding <=> lock = p
  /\ WorkOK(p)

Arrays ==
  /\ pc \in [Proc -> {"idle"} \cup Holding]
  /\ to \in [Proc -> Backend]
  /\ work \in [Proc -> Seq(Entry)] /\ kept \in [Proc -> Seq(Entry)]
  /\ part \in [Proc -> Nat] /\ asked \in [Proc -> {"no", "sent", "checked"}]

Shared ==
  /\ file \in Seq(Line) /\ ended \in BOOLEAN
  /\ rows \in [Record -> Nat]
  /\ late \subseteq LateRequest
  /\ acked \subseteq Entry
  /\ lock \in Proc \cup {NoProc}

LEMMA TypeParts == TypeOK <=> Shared /\ Arrays /\ \A p \in Proc : LocalOK(p)
BY DEF TypeOK, Shared, Arrays, LocalOK, LockOK

\* A step of p leaves the other processes alone.
OthersSame(p) ==
  \A q \in Proc \ {p} :
    /\ pc'[q] = pc[q] /\ to'[q] = to[q] /\ work'[q] = work[q]
    /\ kept'[q] = kept[q] /\ part'[q] = part[q] /\ asked'[q] = asked[q]
    /\ lock' = q <=> lock = q

LEMMA OthersStayOK ==
  ASSUME NEW p \in Proc, NEW q \in Proc \ {p}, OthersSame(p), LocalOK(q)
  PROVE  LocalOK(q)'
BY DEF OthersSame, LocalOK, WorkOK, Replaying, Current

\* The values that a process may have when it is not in a call.
AtRest(p) ==
  /\ pc[p] = "idle"
  /\ to[p] \in Backend
  /\ work[p] = <<>> /\ kept[p] = <<>>
  /\ part[p] = 1 /\ asked[p] = "no"
  /\ lock # p

LEMMA AtRestOK ==
  ASSUME NEW p \in Proc, AtRest(p)
  PROVE  LocalOK(p)
BY DEF AtRest, LocalOK, WorkOK, Replaying, Holding

LEMMA BackendExists == AnyBackend \in Backend
BY QueueAssumption DEF AnyBackend

LEMMA Returned ==
  ASSUME TypeOK, NEW p \in Proc, Return(p)
  PROVE  /\ Arrays' /\ OthersSame(p) /\ AtRest(p)'
         /\ lock' \in Proc \cup {NoProc}
<1>1. AnyBackend \in Backend
  BY BackendExists
<1>2. lock' \in Proc \cup {NoProc} /\ lock' # p
  BY QueueAssumption DEF TypeOK, LockOK, Return
<1>3. \A q \in Proc \ {p} : lock' = q <=> lock = q
  BY QueueAssumption DEF Return
<1>4. QED
  BY <1>1, <1>2, <1>3
  DEF TypeOK, Return, Goto, Arrays, OthersSame, AtRest, Holding

\* The steps of a replay, as far as p itself is concerned.
LEMMA Advanced ==
  ASSUME TypeOK, NEW p \in Proc, Replaying(p), Advance(p),
         UNCHANGED <<lock, pc, to>>,
         UNCHANGED kept \/ Keep(p)
  PROVE  Arrays' /\ OthersSame(p) /\ LocalOK(p)'
<1>1. work[p] \in Seq(Entry) /\ work[p] # <<>> /\ kept[p] \in Seq(Entry)
  BY DEF TypeOK, Replaying
<1>2. Current(p) \in Entry /\ Tail(work[p]) \in Seq(Entry)
  BY <1>1, ElementsOfTail DEF Current
<1>3. Append(kept[p], Current(p)) \in Seq(Entry)
  BY <1>1, <1>2, ElementsOfAppend
<1>4. Arrays'
  BY <1>2, <1>3 DEF TypeOK, Advance, Keep, Arrays
<1>5. OthersSame(p)
  BY DEF TypeOK, Advance, Keep, OthersSame
<1>6. /\ pc'[p] = "replay" /\ part'[p] = 1 /\ asked'[p] = "no"
      /\ lock' = lock /\ lock = p
  BY DEF TypeOK, LockOK, Advance, Replaying, Holding
<1>7. Replaying(p)' => Current(p)' \in Entry
  <2>1. work'[p] \in Seq(Entry)
    BY <1>4 DEF Arrays
  <2>2. QED
    BY <2>1, ElementsOfTail DEF Replaying, Current
<1>8. WorkOK(p)'
  <2>1. Replaying(p)' => 1 \in 1..Last(Current(p)') + 1
    BY <1>7, Parts1, QueueAssumption DEF Last
  <2>2. QED
    BY <1>6, <2>1 DEF WorkOK, Current, Last
<1>9. QED
  BY <1>4, <1>5, <1>6, <1>8 DEF Arrays, LocalOK, Holding


LEMMA InitTypeOK == Init => TypeOK
<1> SUFFICES ASSUME Init PROVE TypeOK
  OBVIOUS
<1>1. Shared
  BY DEF Init, Shared, LateRequest
<1>2. Arrays
  BY BackendExists DEF Init, Arrays
<1>3. \A p \in Proc : AtRest(p)
  BY BackendExists, QueueAssumption DEF Init, AtRest
<1>4. QED
  BY <1>1, <1>2, <1>3, AtRestOK, TypeParts

\* What a step of p has to show.
Keeps(p) == Shared' /\ Arrays' /\ OthersSame(p) /\ LocalOK(p)'

LEMMA StepKeepsType ==
  ASSUME TypeOK, NEW p \in Proc, Keeps(p)
  PROVE  TypeOK'
<1>1. \A q \in Proc \ {p} : LocalOK(q)'
  BY OthersStayOK, TypeParts DEF Keeps
<1>2. QED
  BY <1>1, TypeParts DEF Keeps, TypeOK, Shared, Arrays, LocalOK, LockOK

LEMMA ReturnKeeps ==
  ASSUME TypeOK, NEW p \in Proc, Return(p),
         file' \in Seq(Line), ended' \in BOOLEAN, acked' \subseteq Entry,
         rows' \in [Record -> Nat], late' \subseteq LateRequest
  PROVE  Keeps(p)
<1>1. /\ Arrays' /\ OthersSame(p) /\ AtRest(p)'
      /\ lock' \in Proc \cup {NoProc}
  BY Returned
<1>2. LocalOK(p)'
  BY <1>1, AtRestOK DEF AtRest, LocalOK, WorkOK, Replaying, Holding
<1>3. QED
  BY <1>1, <1>2 DEF Keeps, Shared

\* The steps of an enqueue.
LEMMA EnqueueKeeps ==
  ASSUME TypeOK, NEW p \in Proc,
         \/ \E e \in Entry : StartEnqueue(p, e)
         \/ Enqueue(p) \/ EnqueueCut(p)
  PROVE  Keeps(p)
<1>1. ASSUME NEW e \in Entry, StartEnqueue(p, e)
      PROVE  Keeps(p)
  <2>1. Shared'
    BY <1>1 DEF TypeOK, LockOK, Shared, StartEnqueue, fileVars
  <2>2. <<e>> \in Seq(Entry) /\ Len(<<e>>) = 1
    OBVIOUS
  <2>3. Arrays'
    BY <1>1, <2>2 DEF TypeOK, Arrays, StartEnqueue, Goto, Holding
  <2>4. OthersSame(p)
    BY <1>1, QueueAssumption
    DEF TypeOK, OthersSame, StartEnqueue, Goto, FlockFree
  <2>5. LocalOK(p)'
    BY <1>1, <2>2
    DEF TypeOK, WorkOK, StartEnqueue, Goto, LocalOK, Replaying, Holding
  <2>6. QED
    BY <2>1, <2>3, <2>4, <2>5 DEF Keeps
<1>2. ASSUME pc[p] = "append"
      PROVE  Head(work[p]) \in Entry
  <2>1. work[p] \in Seq(Entry) /\ Len(work[p]) = 1
    BY <1>2 DEF TypeOK, WorkOK
  <2>2. QED
    BY <2>1
<1>3. CASE Enqueue(p)
  <2>1. LineOf(Head(work[p])) \in Line
    BY <1>2, <1>3, LineTypes DEF Enqueue
  <2>2. file' \in Seq(Line)
    BY <1>3, <2>1, AppendedType DEF Enqueue, TypeOK
  <2>3. QED
    BY <1>2, <1>3, <2>2, ReturnKeeps DEF Enqueue, TypeOK
<1>4. CASE EnqueueCut(p)
  <2>1. LineOf(Head(work[p])) \in Line /\ Fragment \in Line
    BY <1>2, <1>4, LineTypes DEF EnqueueCut
  <2>2. file' \in Seq(Line) /\ ended' \in BOOLEAN
    BY <1>4, <2>1, AppendedType DEF EnqueueCut, TypeOK
  <2>3. QED
    BY <1>4, <2>2, ReturnKeeps DEF EnqueueCut, TypeOK
<1>5. QED
  BY <1>1, <1>3, <1>4

\* The beginning and the end of a flush.
LEMMA FlushKeeps ==
  ASSUME TypeOK, NEW p \in Proc,
         \/ \E b \in Backend : StartFlush(p, b)
         \/ Read(p) \/ Raise(p) \/ Tried(p) \/ Rewrite(p)
  PROVE  Keeps(p)
<1>1. ASSUME NEW b \in Backend, StartFlush(p, b)
      PROVE  Keeps(p)
  <2>1. Shared'
    BY <1>1 DEF TypeOK, LockOK, Shared, StartFlush, fileVars
  <2>2. Arrays'
    BY <1>1 DEF TypeOK, Arrays, StartFlush, Goto, Holding
  <2>3. OthersSame(p)
    BY <1>1, QueueAssumption
    DEF TypeOK, OthersSame, StartFlush, Goto, FlockFree
  <2>4. LocalOK(p)'
    BY <1>1 DEF TypeOK, WorkOK, StartFlush, Goto, LocalOK, Replaying, Holding
  <2>5. QED
    BY <2>1, <2>2, <2>3, <2>4 DEF Keeps
<1>2. CASE Read(p)
  <2>1. EntriesRead \in Seq(Entry)
    BY <1>2, WhatIsRead DEF Read, TypeOK
  <2>2. Shared'
    BY <1>2 DEF TypeOK, LockOK, Shared, Read, fileVars
  <2>3. Arrays'
    BY <1>2, <2>1 DEF TypeOK, Arrays, Read, Goto, Holding
  <2>4. OthersSame(p)
    BY <1>2 DEF TypeOK, OthersSame, Read, Goto
  <2>5. /\ pc'[p] = "replay" /\ part'[p] = 1 /\ asked'[p] = "no"
        /\ kept'[p] = <<>> /\ lock' = p /\ work'[p] = EntriesRead
    BY <1>2 DEF TypeOK, LockOK, WorkOK, Read, Goto, Replaying, Holding
  <2>6. 1 \in 1..Last(Current(p))' + 1
    BY QueueAssumption DEF Last
  <2>7. LocalOK(p)'
    BY <2>1, <2>3, <2>5, <2>6 DEF Arrays, WorkOK, LocalOK, Holding
  <2>8. QED
    BY <2>2, <2>3, <2>4, <2>7 DEF Keeps
<1>3. CASE Raise(p)
  BY <1>3, ReturnKeeps DEF Raise, TypeOK, fileVars
<1>4. CASE Tried(p)
  <2>1. Shared'
    BY <1>4 DEF TypeOK, LockOK, Shared, Tried, fileVars
  <2>2. Arrays' /\ OthersSame(p)
    BY <1>4 DEF TypeOK, Arrays, OthersSame, Tried, Goto, locals, Holding
  <2>3. LocalOK(p)'
    BY <1>4
    DEF TypeOK, LockOK, WorkOK, Tried, Goto, locals, LocalOK, Replaying, Holding
  <2>4. QED
    BY <2>1, <2>2, <2>3 DEF Keeps
<1>5. CASE Rewrite(p)
  <2>1. file' \in Seq(Line)
    BY <1>5, Rewritten DEF Rewrite, TypeOK
  <2>2. QED
    BY <1>5, <2>1, ReturnKeeps DEF Rewrite, TypeOK
<1>6. QED
  BY <1>1, <1>2, <1>3, <1>4, <1>5

LEMMA RequestType ==
  ASSUME TypeOK, NEW p \in Proc, Replaying(p), asked[p] # "no",
         Current(p) \in Legacy
  PROVE  Request(p) \in LateRequest /\ part[p] \in PartsOf(Current(p))
<1>1. part[p] \in PartsOf(Current(p))
  BY DEF TypeOK, WorkOK
<1>2. part[p] \in 1..Parts
  BY <1>1 DEF PartsOf, Last
<1>3. QED
  BY <1>1, <1>2 DEF Request, LateRequest

\* The replay of an entry.
LEMMA ReplayKeeps ==
  ASSUME TypeOK, NEW p \in Proc,
         \/ Skip(p) \/ Ask(p) \/ Deposit(p) \/ Check(p) \/ Create(p)
         \/ ReplayFails(p) \/ TimesOut(p) \/ Flushed(p)
  PROVE  Keeps(p)
<1>1. CASE Skip(p) \/ ReplayFails(p) \/ Flushed(p)
  <2>1. Shared'
    BY <1>1 DEF TypeOK, LockOK, Shared, Skip, ReplayFails, Flushed, fileVars
  <2>2. Arrays' /\ OthersSame(p) /\ LocalOK(p)'
    BY <1>1, Advanced DEF Skip, ReplayFails, Flushed
  <2>3. QED
    BY <2>1, <2>2 DEF Keeps
<1>2. CASE TimesOut(p)
  <2>1. Shared'
    BY <1>2, RequestType DEF TypeOK, LockOK, Shared, TimesOut, fileVars
  <2>2. Arrays' /\ OthersSame(p) /\ LocalOK(p)'
    BY <1>2, Advanced DEF TimesOut
  <2>3. QED
    BY <2>1, <2>2 DEF Keeps
<1>3. asked[p] # "no" => /\ Replaying(p) /\ part[p] \in PartsOf(Current(p))
                         /\ Current(p) \in Entry
  <2>1. asked[p] # "no" => Replaying(p) /\ part[p] \in PartsOf(Current(p))
    BY DEF TypeOK, WorkOK
  <2>2. Replaying(p) => Current(p) \in Entry
    BY ElementsOfTail DEF TypeOK, Replaying, Current
  <2>3. QED
    BY <2>1, <2>2
<1>4. ASSUME Answered(p), asked[p] # "no", UNCHANGED <<lock, pc, to, work, kept>>
      PROVE  Arrays' /\ OthersSame(p) /\ LocalOK(p)'
  <2>1. /\ part[p] \in PartsOf(Current(p)) /\ Replaying(p)
        /\ part[p] + 1 \in 1..Last(Current(p)) + 1
    BY <1>3, <1>4, Parts1, QueueAssumption DEF PartsOf
  <2>2. Arrays' /\ OthersSame(p)
    BY <1>4, <2>1 DEF TypeOK, Answered, Arrays, OthersSame
  <2>3. LocalOK(p)'
    BY <1>4, <2>1
    DEF TypeOK, LockOK, WorkOK, Answered, LocalOK, Replaying, Current, Holding,
        Last
  <2>4. QED
    BY <2>2, <2>3
<1>5. CASE Ask(p)
  <2>1. Shared'
    BY <1>5 DEF TypeOK, LockOK, Shared, Ask, fileVars
  <2>2. Arrays' /\ OthersSame(p)
    BY <1>5 DEF TypeOK, Ask, Arrays, OthersSame
  <2>3. LocalOK(p)'
    BY <1>5
    DEF TypeOK, LockOK, WorkOK, Ask, LocalOK, Replaying, Current, PartsOf, Last
  <2>4. QED
    BY <2>1, <2>2, <2>3 DEF Keeps
<1>6. CASE Deposit(p)
  <2>1. rows' \in [Record -> Nat]
    BY <1>6, <1>3, RowsInsert, Parts1 DEF Deposit, TypeOK
  <2>2. Shared'
    BY <1>6, <2>1 DEF TypeOK, LockOK, Shared, Deposit, fileVars
  <2>3. CASE Answered(p) /\ UNCHANGED kept /\ UNCHANGED work
    BY <1>4, <1>6, <2>2, <2>3 DEF Deposit, Keeps
  <2>4. CASE Keep(p) /\ Advance(p)
    <3>1. Replaying(p)
      BY <1>3, <1>6 DEF Deposit
    <3>2. Arrays' /\ OthersSame(p) /\ LocalOK(p)'
      BY <1>6, <2>4, <3>1, Advanced DEF Deposit
    <3>3. QED
      BY <2>2, <3>2 DEF Keeps
  <2>5. QED
    BY <1>6, <2>3, <2>4 DEF Deposit
<1>7. CASE Check(p)
  <2>1. Shared'
    BY <1>7 DEF TypeOK, LockOK, Shared, Check, fileVars
  <2>2. CASE Absent(Current(p), part[p])
    <3>1. Arrays' /\ OthersSame(p)
      BY <1>7, <2>2 DEF TypeOK, Check, Arrays, OthersSame
    <3>2. LocalOK(p)'
      BY <1>7, <1>3, <2>2
      DEF TypeOK, LockOK, WorkOK, Check, LocalOK, Replaying, Current, Holding,
          PartsOf, Last
    <3>3. QED
      BY <2>1, <3>1, <3>2 DEF Keeps
  <2>3. CASE ~Absent(Current(p), part[p])
    BY <1>4, <1>7, <2>1, <2>3 DEF Check, Keeps
  <2>4. QED
    BY <2>2, <2>3
<1>8. CASE Create(p)
  <2>1. rows' \in [Record -> Nat]
    BY <1>8, <1>3, RowsInsert DEF Create, TypeOK
  <2>2. Shared'
    BY <1>8, <2>1 DEF TypeOK, LockOK, Shared, Create, fileVars
  <2>3. QED
    BY <1>4, <1>8, <2>2 DEF Create, Keeps
<1>9. QED
  BY <1>1, <1>2, <1>5, <1>6, <1>7, <1>8

LEMMA LateType ==
  ASSUME NEW r \in LateRequest
  PROVE  /\ r.entry \in Entry /\ r.entry \in Legacy
         /\ r.part \in PartsOf(r.entry)
         /\ [r EXCEPT !.checked = TRUE] \in LateRequest
BY QueueAssumption DEF LateRequest, PartsOf, Last

\* Type correctness is inductive.
LEMMA NextTypeOK == TypeOK /\ [Next]_vars => TypeOK'
<1> SUFFICES ASSUME TypeOK, [Next]_vars PROVE TypeOK'
  OBVIOUS
<1>1. ASSUME NEW r \in late, LateCheck(r) \/ LateCreate(r) \/ LateLost(r)
      PROVE  TypeOK'
  <2>1. r \in LateRequest
    BY DEF TypeOK
  <2>2. late' \subseteq LateRequest
    BY <1>1, <2>1, LateType DEF TypeOK, LateCheck, LateCreate, LateLost
  <2>3. rows' \in [Record -> Nat]
    BY <1>1, <2>1, LateType, RowsInsert
    DEF TypeOK, LateCheck, LateCreate, LateLost
  <2>4. UNCHANGED <<fileVars, lock, pc, locals>>
    BY <1>1 DEF LateCheck, LateCreate, LateLost
  <2>5. \A p \in Proc : WorkOK(p)' <=> WorkOK(p)
    BY <2>4 DEF WorkOK, Replaying, Current, locals
  <2>6. QED
    BY <2>2, <2>3, <2>4, <2>5 DEF TypeOK, LockOK, fileVars, locals
<1>2. ASSUME NEW p \in Proc, Crash(p)
      PROVE  TypeOK'
  <2>1. late' \subseteq LateRequest
    BY <1>2, RequestType DEF Crash, TypeOK
  <2>2. Keeps(p)
    BY <1>2, <2>1, ReturnKeeps DEF Crash, TypeOK, fileVars
  <2>3. QED
    BY <2>2, StepKeepsType
<1>3. ASSUME NEW p \in Proc, Start(p) \/ Step(p)
      PROVE  TypeOK'
  <2>1. Keeps(p)
    BY <1>3, EnqueueKeeps, FlushKeeps, ReplayKeeps DEF Start, Step
  <2>2. QED
    BY <2>1, StepKeepsType
<1>4. CASE UNCHANGED vars
  <2>1. \A p \in Proc : WorkOK(p)' <=> WorkOK(p)
    BY <1>4 DEF WorkOK, Replaying, Current, vars
  <2>2. QED
    BY <1>4, <2>1 DEF vars, TypeOK, LockOK
<1>5. QED
  BY <1>1, <1>2, <1>3, <1>4 DEF Next, Late

\* Every reachable state has its shape, and whoever works on the file holds
\* the flock.
THEOREM TypeCorrect == Spec => []TypeOK
<1>1. QED
  BY InitTypeOK, NextTypeOK, PTL DEF Spec

-----------------------------------------------------------------------------
(***************************************************************************)
(* The inductive invariant                                                 *)
(***************************************************************************)

\* What a flush has still to try or will write back is in the file, can be
\* written as lines, and is all of the file that is not stored.
FlushOK(p) ==
  pc[p] \in {"replay", "rewrite"} =>
    LET rest == Elements(work[p]) \cup Elements(kept[p])
    IN  /\ rest \subseteq Held \ Splits
        /\ Held \subseteq rest \cup Done
        /\ pc[p] = "rewrite" => work[p] = <<>>

\* The parts before part k of e are stored.
StoredBefore(e, k) ==
  \A j \in PartsOf(e) : j < k => rows[<<e, j>>] > 0

\* A replay asks for a part when those before it are stored.
ReplayOK(p) == Replaying(p) => StoredBefore(Current(p), part[p])

Safe(p) == FlushOK(p) /\ ReplayOK(p)

\* So does a request that was given up, for an entry that was in the queue.
Tracked(r) == r.entry \in Held \cup Done /\ StoredBefore(r.entry, r.part)

LateOK == \A r \in late : Tracked(r)

IInv == (\A p \in Proc : Safe(p)) /\ LateOK /\ StoredOnce /\ NothingLost

\* Nothing stored is removed.
Grow ==
  \A e \in Entry : \A k \in PartsOf(e) :
    rows[<<e, k>>] > 0 => rows'[<<e, k>>] > 0

LEMMA SameRowsGrow == rows' = rows => Grow /\ Done' = Done
BY DEF Grow, Done

LEMMA GrowKeeps ==
  ASSUME Grow, NEW e \in Entry, NEW k
  PROVE  /\ Done \subseteq Done'
         /\ StoredBefore(e, k) => StoredBefore(e, k)'
<1>1. Done \subseteq Done'
  BY Parts1, QueueAssumption DEF Grow, Done, PartsOf
<1>2. StoredBefore(e, k) => StoredBefore(e, k)'
  BY DEF Grow, StoredBefore
<1>3. QED
  BY <1>1, <1>2

\* Inserting a part that is absent, after those before it.
LEMMA InsertedOnce ==
  ASSUME TypeOK, StoredOnce, NEW e \in Entry, NEW k \in PartsOf(e),
         Absent(e, k), StoredBefore(e, k), Insert(e, k)
  PROVE  /\ StoredOnce' /\ Grow
         /\ rows'[<<e, k>>] > 0
         /\ Done \subseteq Done' /\ Done' \subseteq Done \cup {e}
<1>1. \A f \in Entry : \A j \in PartsOf(f) :
        /\ rows[<<f, j>>] \in Nat
        /\ rows'[<<f, j>>] = IF f = e /\ j = k THEN rows[<<f, j>>] + 1
                                               ELSE rows[<<f, j>>]
  <2>1. rows \in [Record -> Nat]
    BY DEF TypeOK
  <2>2. \A f \in Entry : \A j \in PartsOf(f) : rows[<<f, j>>] \in Nat
    BY <2>1, RecordIs
  <2>3. \A f \in Entry : \A j \in PartsOf(f) :
          rows'[<<f, j>>] = IF f = e /\ j = k THEN rows[<<f, j>>] + 1
                                              ELSE rows[<<f, j>>]
    BY <2>1, RowsInsert
  <2>4. QED
    BY <2>2, <2>3
<1>2. rows[<<e, k>>] = 0 /\ rows'[<<e, k>>] = 1
  BY <1>1 DEF Absent
<1>3. Grow
  BY <1>1 DEF Grow
<1>4. Done \subseteq Done' /\ Done' \subseteq Done \cup {e}
  BY <1>1, Parts1, QueueAssumption DEF Done, PartsOf
<1>5. ASSUME NEW f \in Entry, NEW j \in PartsOf(f)
      PROVE  /\ rows'[<<f, j>>] <= 1
             /\ j > 1 => rows'[<<f, j>>] <= rows'[<<f, j - 1>>]
  <2>1. j > 1 => j - 1 \in PartsOf(f)
    BY Parts1, QueueAssumption DEF PartsOf, Last
  <2>2. /\ rows[<<f, j>>] <= 1
        /\ j > 1 => rows[<<f, j>>] <= rows[<<f, j - 1>>]
    BY DEF StoredOnce
  <2>3. CASE f = e /\ j = k
    <3>1. j > 1 => rows[<<f, j - 1>>] > 0
      BY <2>1, <2>3 DEF StoredBefore, PartsOf
    <3>2. j > 1 => rows'[<<f, j - 1>>] >= 1
      BY <1>1, <2>1, <2>3, <3>1 DEF PartsOf
    <3>3. QED
      BY <1>2, <2>3, <3>2
  <2>4. CASE ~(f = e /\ j = k)
    <3>1. rows'[<<f, j>>] = rows[<<f, j>>]
      BY <1>1, <2>4
    <3>2. j > 1 => rows'[<<f, j - 1>>] >= rows[<<f, j - 1>>]
      BY <1>1, <2>1
    <3>3. j > 1 => /\ rows[<<f, j - 1>>] \in Nat /\ rows'[<<f, j - 1>>] \in Nat
      BY <1>1, <2>1
    <3>4. rows[<<f, j>>] \in Nat
      BY <1>1
    <3>5. QED
      BY <2>2, <3>1, <3>2, <3>3, <3>4
  <2>5. QED
    BY <2>3, <2>4
<1>6. StoredOnce'
  BY <1>5 DEF StoredOnce, PartsOf, Last
<1>7. QED
  BY <1>2, <1>3, <1>4, <1>6

-----------------------------------------------------------------------------
(***************************************************************************)
(* One process's part of the invariant                                     *)
(***************************************************************************)

LEMMA RestIsSafe == \A p \in Proc : AtRest(p) => Safe(p)
BY DEF AtRest, Safe, FlushOK, ReplayOK, Replaying

\* A process that a step leaves alone.
Untouched(q) ==
  /\ pc'[q] = pc[q] /\ work'[q] = work[q] /\ kept'[q] = kept[q]
  /\ part'[q] = part[q]

LEMMA UntouchedStaysSafe ==
  ASSUME TypeOK, NEW q \in Proc, Untouched(q), Safe(q), Held' = Held, Grow
  PROVE  Safe(q)'
<1>1. Done \subseteq Done'
  BY Parts1, QueueAssumption DEF Grow, Done, PartsOf
<1>2. FlushOK(q)'
  BY <1>1 DEF Untouched, Safe, FlushOK, Elements
<1>3. Replaying(q)' => Replaying(q) /\ Current(q)' = Current(q)
  BY DEF Untouched, Replaying, Current
<1>4. Replaying(q) => Current(q) \in Entry
  BY ElementsOfTail DEF TypeOK, Replaying, Current
<1>5. ReplayOK(q)'
  <2>1. ASSUME Replaying(q)'
        PROVE  StoredBefore(Current(q), part[q])'
    <3>1. StoredBefore(Current(q), part[q])
      BY <1>3, <2>1 DEF Safe, ReplayOK
    <3>2. part'[q] = part[q] /\ Current(q)' = Current(q) /\ Current(q) \in Entry
      BY <1>3, <1>4, <2>1 DEF Untouched
    <3>3. QED
      BY <3>1, <3>2 DEF StoredBefore, Grow, PartsOf, Last
  <2>2. QED
    BY <2>1 DEF ReplayOK
<1>6. QED
  BY <1>2, <1>5 DEF Safe

LEMMA OthersStaySafe ==
  ASSUME TypeOK, NEW p \in Proc, NEW q \in Proc \ {p}, OthersSame(p), Safe(q),
         Held' = Held, Grow
  PROVE  Safe(q)'
BY UntouchedStaysSafe DEF OthersSame, Untouched

\* While a process works on the file, the others are at rest.
LEMMA OthersAreIdle ==
  ASSUME TypeOK, NEW p \in Proc, pc[p] \in Holding, NEW q \in Proc \ {p}
  PROVE  pc[q] = "idle"
BY DEF TypeOK, LockOK

LEMMA IdleStaySafe ==
  ASSUME TypeOK, NEW p \in Proc, pc[p] \in Holding, OthersSame(p),
         NEW q \in Proc \ {p}
  PROVE  Safe(q)'
<1>1. pc'[q] = "idle"
  BY OthersAreIdle DEF OthersSame
<1>2. QED
  BY <1>1 DEF Safe, FlushOK, ReplayOK, Replaying

LEMMA AdvancedIsSafe ==
  ASSUME TypeOK, NEW p \in Proc, Replaying(p), Safe(p), Advance(p),
         UNCHANGED <<pc, file>>, Grow,
         Keep(p) \/ (UNCHANGED kept /\ Current(p) \in Done')
  PROVE  Safe(p)'
<1>1. /\ work[p] \in Seq(Entry) /\ work[p] # <<>> /\ kept[p] \in Seq(Entry)
      /\ pc[p] = "replay"
  BY DEF TypeOK, Replaying
<1>2. /\ Current(p) \in Entry
      /\ Elements(work[p]) = {Current(p)} \cup Elements(Tail(work[p]))
  BY <1>1, ElementsOfTail DEF Current
<1>3. /\ work'[p] = Tail(work[p]) /\ part'[p] = 1
      /\ \/ kept'[p] = Append(kept[p], Current(p))
         \/ kept'[p] = kept[p] /\ Current(p) \in Done'
  BY DEF TypeOK, Advance, Keep
<1>4. \/ Elements(kept'[p]) = Elements(kept[p]) \cup {Current(p)}
      \/ Elements(kept'[p]) = Elements(kept[p]) /\ Current(p) \in Done'
  BY <1>1, <1>2, <1>3, ElementsOfAppend
<1>5. Held' = Held /\ Done \subseteq Done'
  BY Parts1, QueueAssumption DEF Held, Grow, Done, PartsOf
<1>6. LET rest == Elements(work[p]) \cup Elements(kept[p])
      IN  rest \subseteq Held \ Splits /\ Held \subseteq rest \cup Done
  BY <1>1 DEF Safe, FlushOK
<1>7. LET rest == Elements(work'[p]) \cup Elements(kept'[p])
      IN  rest \subseteq Held' \ Splits /\ Held' \subseteq rest \cup Done'
  BY <1>2, <1>3, <1>4, <1>5, <1>6
<1>8. FlushOK(p)'
  BY <1>1, <1>7 DEF FlushOK, Elements
<1>9. ReplayOK(p)'
  <2>1. \A e : StoredBefore(e, 1)'
    BY DEF StoredBefore, PartsOf
  <2>2. QED
    BY <1>3, <2>1 DEF ReplayOK
<1>10. QED
  BY <1>8, <1>9 DEF Safe

LEMMA AnsweredIsSafe ==
  ASSUME TypeOK, NEW p \in Proc, Replaying(p), Safe(p), Answered(p),
         part[p] \in PartsOf(Current(p)),
         UNCHANGED <<pc, work, kept, file>>, Grow,
         rows'[<<Current(p), part[p]>>] > 0
  PROVE  Safe(p)'
<1>1. Held' = Held /\ Done \subseteq Done'
  BY Parts1, QueueAssumption DEF Held, Grow, Done, PartsOf
<1>2. FlushOK(p)'
  BY <1>1 DEF Safe, FlushOK, Elements
<1>3. Current(p) \in Entry /\ Current(p)' = Current(p)
  BY ElementsOfTail DEF TypeOK, Replaying, Current
<1>4. part'[p] = part[p] + 1
  BY DEF TypeOK, Answered
<1>5. StoredBefore(Current(p), part[p])
  BY DEF Safe, ReplayOK
<1>6. ASSUME NEW j \in PartsOf(Current(p)), j < part[p] + 1
      PROVE  rows'[<<Current(p), j>>] > 0
  <2>1. j < part[p] \/ j = part[p]
    BY <1>6 DEF PartsOf
  <2>2. QED
    BY <1>3, <1>5, <2>1 DEF StoredBefore, Grow
<1>7. ReplayOK(p)'
  BY <1>3, <1>4, <1>6 DEF ReplayOK, StoredBefore, PartsOf, Last
<1>8. QED
  BY <1>2, <1>7 DEF Safe

-----------------------------------------------------------------------------
(***************************************************************************)
(* Preservation of the invariant, and the steps of the abstract queue      *)
(***************************************************************************)

\* What a step has to show: the invariant holds after it, and it is a step of
\* the abstract queue.
Sound == IInv' /\ (Queue!OutboxNext \/ UNCHANGED <<Held, Done>>)

\* Entries and requests that are kept track of.
LEMMA LateStaysOK ==
  ASSUME TypeOK, LateOK, Held \subseteq Held' \cup Done', Grow, late' \subseteq late
  PROVE  LateOK'
<1>1. ASSUME NEW r \in late'
      PROVE  /\ r.entry \in Held' \cup Done'
             /\ \A j \in PartsOf(r.entry) :
                  j < r.part => rows'[<<r.entry, j>>] > 0
  <2>1. r \in LateRequest /\ r.entry \in Entry
    BY LateType DEF TypeOK
  <2>2. r.entry \in Held \cup Done /\ StoredBefore(r.entry, r.part)
    BY DEF LateOK, Tracked
  <2>3. Done \subseteq Done'
    BY Parts1, QueueAssumption DEF Grow, Done, PartsOf
  <2>4. QED
    BY <2>1, <2>2, <2>3 DEF StoredBefore, Grow
<1>2. QED
  BY <1>1 DEF LateOK, Tracked, StoredBefore, PartsOf, Last

LEMMA SameFileHeld == file' = file => Held' = Held
BY DEF Held

\* A step that changes neither the file nor the rows.
LEMMA QuietIsSound ==
  ASSUME TypeOK, IInv, UNCHANGED <<fileVars, rows>>,
         \A r \in late' : Tracked(r), \A q \in Proc : Safe(q)'
  PROVE  Sound
<1>1. Held' = Held /\ Done' = Done /\ acked' = acked
  BY SameFileHeld, SameRowsGrow DEF fileVars
<1>2. LateOK'
  BY <1>1 DEF LateOK, Tracked, StoredBefore, PartsOf, Last
<1>3. StoredOnce'
  BY DEF IInv, StoredOnce
<1>4. QED
  BY <1>1, <1>2, <1>3 DEF Sound, IInv, NothingLost

\* A step that inserts a part of an entry and leaves the file alone.
LEMMA InsertIsSound ==
  ASSUME TypeOK, IInv, UNCHANGED fileVars, late' \subseteq late,
         NEW e \in Entry, NEW k \in PartsOf(e),
         Absent(e, k), StoredBefore(e, k), Insert(e, k), e \in Held \cup Done,
         \A q \in Proc : Safe(q)'
  PROVE  Sound
<1>1. Held' = Held /\ acked' = acked
  BY SameFileHeld DEF fileVars
<1>2. /\ StoredOnce' /\ Grow
      /\ Done \subseteq Done' /\ Done' \subseteq Done \cup {e}
  BY InsertedOnce DEF IInv
<1>3. LateOK'
  BY <1>1, <1>2, LateStaysOK DEF IInv
<1>4. IInv'
  BY <1>1, <1>2, <1>3 DEF IInv, NothingLost
<1>5. CASE Done' = Done
  BY <1>1, <1>4, <1>5 DEF Sound
<1>6. CASE Done' # Done
  <2>1. Done' = Done \cup {e} /\ e \in Held
    BY <1>2, <1>6
  <2>2. Queue!Store(e)
    BY <1>1, <2>1 DEF Queue!Store
  <2>3. QED
    BY <1>4, <2>2 DEF Sound, Queue!OutboxNext
<1>7. QED
  BY <1>5, <1>6

LEMMA EnqueueIsSound ==
  ASSUME TypeOK, IInv, NEW p \in Proc, Enqueue(p) \/ EnqueueCut(p)
  PROVE  Sound
<1>1. /\ pc[p] = "append" /\ Return(p)
      /\ rows' = rows /\ late' = late
  BY DEF Enqueue, EnqueueCut
<1>2. Head(work[p]) \in Entry
  <2>1. work[p] \in Seq(Entry) /\ Len(work[p]) = 1
    BY <1>1 DEF TypeOK, WorkOK
  <2>2. QED
    BY <2>1
<1> DEFINE e == Head(work[p])
<1>3. \/ Held' = Held \cup {e} /\ acked' \subseteq acked \cup {e}
      \/ Held' = Held /\ acked' = acked
  <2>1. file \in Seq(Line) /\ LineOf(e) \in Line /\ Fragment \in Line
    BY <1>2, LineTypes DEF TypeOK
  <2>2. ASSUME NEW line \in Line, file' = Appended(line)
        PROVE  Held' = Held \cup line.has
    BY <2>1, <2>2, AppendedType DEF Held
  <2>3. LineOf(e).has = {e} /\ Fragment.has = {}
    BY DEF LineOf, Fragment
  <2>4. QED
    BY <2>1, <2>2, <2>3 DEF Enqueue, EnqueueCut
<1>4. Done' = Done /\ Grow
  BY <1>1, SameRowsGrow
<1>5. OthersSame(p) /\ AtRest(p)'
  BY <1>1, Returned
<1>6. Safe(p)'
  BY <1>5 DEF AtRest, Safe, FlushOK, ReplayOK, Replaying
<1>7. \A q \in Proc \ {p} : Safe(q)'
  BY <1>1, <1>5, IdleStaySafe DEF Holding
<1>8. LateOK'
  BY <1>1, <1>3, <1>4, LateStaysOK DEF IInv
<1>9. StoredOnce' /\ NothingLost'
  BY <1>1, <1>3, <1>4 DEF IInv, StoredOnce, NothingLost
<1>10. Queue!Put(e) \/ UNCHANGED <<Held, Done>>
  BY <1>3, <1>4 DEF Queue!Put
<1>11. QED
  BY <1>2, <1>6, <1>7, <1>8, <1>9, <1>10 DEF Sound, IInv, Queue!OutboxNext

LEMMA RewriteIsSound ==
  ASSUME TypeOK, IInv, NEW p \in Proc, Rewrite(p)
  PROVE  Sound
<1>1. /\ pc[p] = "rewrite" /\ Return(p)
      /\ rows' = rows /\ late' = late /\ acked' = acked
  BY DEF Rewrite
<1>2. Elements(work[p]) = {}
  BY <1>1 DEF IInv, Safe, FlushOK, Elements
<1>3. Elements(kept[p]) \subseteq Held /\ Held \subseteq Elements(kept[p]) \cup Done
  BY <1>1, <1>2 DEF IInv, Safe, FlushOK
<1>4. Held' = Elements(kept[p])
  <2>1. kept[p] \in Seq(Entry)
    BY DEF TypeOK
  <2>2. QED
    BY <2>1, Rewritten DEF Rewrite, Held
<1>5. Done' = Done /\ Grow
  BY <1>1, SameRowsGrow
<1>6. OthersSame(p) /\ AtRest(p)'
  BY <1>1, Returned
<1>7. Safe(p)'
  BY <1>6 DEF AtRest, Safe, FlushOK, ReplayOK, Replaying
<1>8. \A q \in Proc \ {p} : Safe(q)'
  BY <1>1, <1>6, IdleStaySafe DEF Holding
<1>9. LateOK'
  BY <1>1, <1>3, <1>4, <1>5, LateStaysOK DEF IInv
<1>10. StoredOnce' /\ NothingLost'
  BY <1>1, <1>3, <1>4, <1>5 DEF IInv, StoredOnce, NothingLost
<1>11. Queue!Drop(Held \ Elements(kept[p]))
  BY <1>3, <1>4, <1>5 DEF Queue!Drop
<1>12. Held \ Elements(kept[p]) \in SUBSET Done
  BY <1>3
<1>13. QED
  BY <1>7, <1>8, <1>9, <1>10, <1>11, <1>12 DEF Sound, IInv, Queue!OutboxNext

\* Steps of p that leave the file and the rows alone.
LEMMA ProcessIsSound ==
  ASSUME TypeOK, IInv, NEW p \in Proc, OthersSame(p), Safe(p)',
         UNCHANGED <<fileVars, rows>>, \A r \in late' : Tracked(r)
  PROVE  Sound
<1>1. Held' = Held /\ Grow
  BY SameFileHeld, SameRowsGrow DEF fileVars
<1>2. \A q \in Proc \ {p} : Safe(q)'
  BY <1>1, OthersStaySafe DEF IInv
<1>3. QED
  BY <1>2, QuietIsSound

LEMMA BeginIsSound ==
  ASSUME TypeOK, IInv, NEW p \in Proc,
         \/ \E e \in Entry : StartEnqueue(p, e)
         \/ \E b \in Backend : StartFlush(p, b)
         \/ Read(p) \/ Tried(p) \/ Raise(p)
  PROVE  Sound
<1>1. OthersSame(p) /\ UNCHANGED <<fileVars, rows>> /\ late' = late
  BY EnqueueKeeps, FlushKeeps
  DEF Keeps, StartEnqueue, StartFlush, Read, Tried, Raise
<1>2. \A r \in late' : Tracked(r)
  BY <1>1 DEF IInv, LateOK
<1>3. Held' = Held /\ Done' = Done
  BY <1>1, SameFileHeld, SameRowsGrow DEF fileVars
<1>4. CASE pc'[p] \in {"idle", "append", "read"}
  BY <1>1, <1>2, <1>4, ProcessIsSound DEF Safe, FlushOK, ReplayOK, Replaying
<1>5. CASE Read(p)
  <2>1. /\ Elements(EntriesRead) = Held /\ Held \cap Splits = {}
    BY <1>5, WhatIsRead DEF Read, TypeOK
  <2>2. /\ pc'[p] = "replay" /\ work'[p] = EntriesRead
        /\ kept'[p] = <<>> /\ part'[p] = 1
    BY <1>5 DEF TypeOK, WorkOK, Read, Goto, Replaying
  <2>3. Elements(<<>>) = {}
    BY DEF Elements
  <2>4. FlushOK(p)'
    BY <1>3, <2>1, <2>2, <2>3 DEF FlushOK, Elements
  <2>5. ReplayOK(p)'
    BY <2>2 DEF ReplayOK, StoredBefore, PartsOf
  <2>6. QED
    BY <1>1, <1>2, <2>4, <2>5, ProcessIsSound DEF Safe
<1>6. CASE Tried(p)
  <2>1. /\ pc[p] = "replay" /\ work[p] = <<>> /\ pc'[p] = "rewrite"
        /\ UNCHANGED <<work, kept>>
    BY <1>6 DEF TypeOK, Tried, Goto, locals
  <2>2. FlushOK(p)' /\ ReplayOK(p)'
    BY <1>3, <2>1 DEF IInv, Safe, FlushOK, ReplayOK, Replaying, Elements
  <2>3. QED
    BY <1>1, <1>2, <2>2, ProcessIsSound DEF Safe
<1>7. CASE \/ \E e \in Entry : StartEnqueue(p, e)
           \/ \E b \in Backend : StartFlush(p, b)
           \/ Raise(p)
  <2>1. pc'[p] \in {"idle", "append", "read"}
    BY <1>7 DEF TypeOK, StartEnqueue, StartFlush, Raise, Return, Goto
  <2>2. QED
    BY <1>4, <2>1
<1>8. QED
  BY <1>5, <1>6, <1>7

\* What a replay knows of its entry.
LEMMA ReplayKnows ==
  ASSUME TypeOK, IInv, NEW p \in Proc, Replaying(p)
  PROVE  /\ Current(p) \in Entry /\ Current(p) \in Held
         /\ StoredBefore(Current(p), part[p])
         /\ Tracked(Request(p))
<1>1. /\ work[p] \in Seq(Entry) /\ work[p] # <<>>
      /\ pc[p] \in {"replay", "rewrite"}
  BY DEF TypeOK, Replaying
<1>2. Current(p) \in Entry /\ Current(p) \in Elements(work[p])
  BY <1>1, ElementsOfTail DEF Current
<1>3. Elements(work[p]) \subseteq Held
  BY <1>1 DEF IInv, Safe, FlushOK
<1>4. StoredBefore(Current(p), part[p])
  BY DEF IInv, Safe, ReplayOK
<1>5. QED
  BY <1>2, <1>3, <1>4 DEF Tracked, Request

LEMMA ReplayIsQuiet ==
  ASSUME TypeOK, IInv, NEW p \in Proc,
         \/ Skip(p) \/ Ask(p) \/ Check(p)
         \/ ReplayFails(p) \/ TimesOut(p) \/ Flushed(p)
  PROVE  Sound
<1>1. /\ OthersSame(p) /\ UNCHANGED <<fileVars, rows, pc>>
      /\ Replaying(p)
  <2>1. Check(p) => Replaying(p)
    BY DEF TypeOK, WorkOK, Check
  <2>2. QED
    BY <2>1, ReplayKeeps
    DEF Keeps, Skip, Ask, Check, ReplayFails, TimesOut, Flushed
<1>2. Grow /\ Done' = Done /\ Held' = Held /\ UNCHANGED <<pc, file>>
  BY <1>1, SameFileHeld, SameRowsGrow DEF fileVars
<1>3. \A r \in late' : Tracked(r)
  BY <1>1, ReplayKnows
  DEF Skip, Ask, Check, ReplayFails, TimesOut, Flushed, IInv, LateOK
<1>4. Safe(p)
  BY DEF IInv
<1>5. CASE Skip(p) \/ ReplayFails(p) \/ TimesOut(p)
  <2>1. Safe(p)'
    BY <1>1, <1>2, <1>4, <1>5, AdvancedIsSafe DEF Skip, ReplayFails, TimesOut
  <2>2. QED
    BY <1>1, <1>3, <2>1, ProcessIsSound
<1>6. CASE Flushed(p)
  <2>1. Current(p) \in Done
    <3>1. part[p] \in 1..Last(Current(p)) + 1 /\ part[p] \notin PartsOf(Current(p))
      BY <1>1, <1>6 DEF Flushed, TypeOK, WorkOK
    <3>2. Current(p) \in Entry /\ StoredBefore(Current(p), part[p])
      BY <1>1, ReplayKnows
    <3>3. /\ Last(Current(p)) \in PartsOf(Current(p))
          /\ Last(Current(p)) < part[p]
      BY <3>1, <3>2, Parts1, QueueAssumption DEF PartsOf, Last
    <3>4. QED
      BY <3>2, <3>3 DEF StoredBefore, Done
  <2>2. Safe(p)'
    BY <1>1, <1>2, <1>4, <1>6, <2>1, AdvancedIsSafe DEF Flushed
  <2>3. QED
    BY <1>1, <1>3, <2>2, ProcessIsSound
<1>7. CASE Ask(p)
  <2>1. UNCHANGED <<pc, work, kept, part>>
    BY <1>7 DEF Ask
  <2>2. Safe(p)'
    BY <1>2, <1>4, <2>1, UntouchedStaysSafe DEF Untouched
  <2>3. QED
    BY <1>1, <1>3, <2>2, ProcessIsSound
<1>8. CASE Check(p)
  <2>1. CASE Absent(Current(p), part[p])
    <3>1. UNCHANGED <<pc, work, kept, part>>
      BY <1>8, <2>1 DEF Check
    <3>2. Safe(p)'
      BY <1>2, <1>4, <3>1, UntouchedStaysSafe DEF Untouched
    <3>3. QED
      BY <1>1, <1>3, <3>2, ProcessIsSound
  <2>2. CASE ~Absent(Current(p), part[p])
    <3>1. part[p] \in PartsOf(Current(p)) /\ Current(p) \in Entry
      BY <1>1, <1>8, ReplayKnows DEF Check, TypeOK, WorkOK
    <3>2. rows[<<Current(p), part[p]>>] \in Nat
      BY <3>1, RecordIs DEF TypeOK
    <3>3. rows'[<<Current(p), part[p]>>] > 0
      BY <1>1, <2>2, <3>2 DEF Absent
    <3>4. Safe(p)'
      BY <1>1, <1>2, <1>4, <1>8, <2>2, <3>1, <3>3, AnsweredIsSafe DEF Check
    <3>5. QED
      BY <1>1, <1>3, <3>4, ProcessIsSound
  <2>3. QED
    BY <2>1, <2>2
<1>9. QED
  BY <1>5, <1>6, <1>7, <1>8

LEMMA ReplayInserts ==
  ASSUME TypeOK, IInv, NEW p \in Proc, Deposit(p) \/ Create(p)
  PROVE  Sound
<1> DEFINE e == Current(p)
           k == part[p]
<1>1. /\ OthersSame(p) /\ UNCHANGED <<fileVars, late, pc>>
      /\ Replaying(p) /\ k \in PartsOf(e)
      /\ e \notin Legacy => k = 1
  <2>1. Replaying(p) /\ k \in PartsOf(e)
    BY DEF TypeOK, WorkOK, Deposit, Create
  <2>2. e \notin Legacy => k = 1
    BY <2>1 DEF PartsOf, Last
  <2>3. QED
    BY <2>1, <2>2, ReplayKeeps DEF Keeps, Deposit, Create
<1>2. /\ e \in Entry /\ e \in Held /\ StoredBefore(e, k) /\ Safe(p)
      /\ \A r \in late' : Tracked(r)
  BY <1>1, ReplayKnows DEF IInv, LateOK
<1>3. \/ Absent(e, k) /\ Insert(e, k)
      \/ rows' = rows /\ rows[<<e, k>>] # 0
  BY <1>1 DEF Deposit, Create, Absent
<1>4. Grow /\ rows'[<<e, k>>] > 0
  <2>1. rows[<<e, k>>] \in Nat
    BY <1>1, <1>2, RecordIs DEF TypeOK
  <2>2. QED
    BY <1>1, <1>2, <1>3, <2>1, InsertedOnce, SameRowsGrow DEF IInv
<1>5. UNCHANGED <<pc, file>> /\ Held' = Held
  BY <1>1, SameFileHeld DEF fileVars
<1>6. Safe(p)'
  <2>1. CASE Answered(p) /\ UNCHANGED <<work, kept>>
    BY <1>1, <1>2, <1>4, <1>5, <2>1, AnsweredIsSafe
  <2>2. CASE Keep(p) /\ Advance(p)
    BY <1>1, <1>2, <1>4, <1>5, <2>2, AdvancedIsSafe
  <2>3. QED
    BY <2>1, <2>2 DEF Deposit, Create
<1>7. \A q \in Proc \ {p} : Safe(q)'
  BY <1>1, <1>4, <1>5, OthersStaySafe DEF IInv
<1>8. CASE Absent(e, k) /\ Insert(e, k)
  BY <1>1, <1>2, <1>6, <1>7, <1>8, InsertIsSound
<1>9. CASE rows' = rows
  BY <1>1, <1>2, <1>6, <1>7, <1>9, QuietIsSound
<1>10. QED
  BY <1>3, <1>8, <1>9

LEMMA LateIsSound ==
  ASSUME TypeOK, IInv, NEW r \in late,
         LateCheck(r) \/ LateCreate(r) \/ LateLost(r)
  PROVE  Sound
<1>1. /\ r \in LateRequest /\ r.entry \in Entry /\ r.part \in PartsOf(r.entry)
      /\ Tracked(r) /\ Tracked([r EXCEPT !.checked = TRUE])
  BY LateType DEF TypeOK, IInv, LateOK, LateRequest, Tracked
<1>2. UNCHANGED <<fileVars, lock, pc, locals>> /\ Held' = Held
  BY SameFileHeld DEF LateCheck, LateCreate, LateLost, fileVars
<1>3. \A q \in Proc : Untouched(q) /\ Safe(q)
  BY <1>2 DEF Untouched, locals, IInv
<1>4. CASE LateCreate(r)
  <2>1. /\ Absent(r.entry, r.part) /\ Insert(r.entry, r.part)
        /\ StoredBefore(r.entry, r.part) /\ r.entry \in Held \cup Done
        /\ late' \subseteq late
    BY <1>1, <1>4 DEF LateCreate, Tracked
  <2>2. Grow
    BY <1>1, <2>1, InsertedOnce DEF IInv
  <2>3. \A q \in Proc : Safe(q)'
    BY <1>2, <1>3, <2>2, UntouchedStaysSafe
  <2>4. QED
    BY <1>1, <1>2, <2>1, <2>3, InsertIsSound
<1>5. CASE LateCheck(r) \/ LateLost(r)
  <2>1. rows' = rows /\ \A x \in late' : Tracked(x)
    BY <1>1, <1>5 DEF LateCheck, LateLost, IInv, LateOK
  <2>2. \A q \in Proc : Safe(q)'
    BY <1>2, <1>3, <2>1, UntouchedStaysSafe, SameRowsGrow
  <2>3. QED
    BY <1>2, <2>1, <2>2, QuietIsSound
<1>6. QED
  BY <1>4, <1>5

LEMMA CrashIsSound ==
  ASSUME TypeOK, IInv, NEW p \in Proc, Crash(p)
  PROVE  Sound
<1>1. OthersSame(p) /\ AtRest(p)'
  BY Returned DEF Crash
<1>2. Safe(p)'
  BY <1>1 DEF AtRest, Safe, FlushOK, ReplayOK, Replaying
<1>3. \A r \in late' : Tracked(r)
  BY ReplayKnows DEF Crash, IInv, LateOK
<1>4. QED
  BY <1>1, <1>2, <1>3, ProcessIsSound DEF Crash

-----------------------------------------------------------------------------
LEMMA InitIInv == Init => IInv /\ Queue!OutboxInit
<1> SUFFICES ASSUME Init PROVE IInv /\ Queue!OutboxInit
  OBVIOUS
<1>1. Held = {}
  BY DEF Init, Held
<1>2. Done = {}
  <2>1. \A e \in Entry : <<e, Last(e)>> \in Record
    BY RecordIs, Parts1, QueueAssumption DEF PartsOf
  <2>2. QED
    BY <2>1 DEF Init, Done
<1>3. StoredOnce
  <2>1. \A e \in Entry : \A k \in PartsOf(e) : rows[<<e, k>>] = 0
    BY RecordIs DEF Init
  <2>2. \A e \in Entry : \A k \in PartsOf(e) : k > 1 => k - 1 \in PartsOf(e)
    BY Parts1, QueueAssumption DEF PartsOf, Last
  <2>3. ASSUME NEW e \in Entry, NEW k \in PartsOf(e)
        PROVE  /\ rows[<<e, k>>] <= 1
               /\ k > 1 => rows[<<e, k>>] <= rows[<<e, k - 1>>]
    <3>1. rows[<<e, k>>] = 0
      BY <2>1
    <3>2. k > 1 => rows[<<e, k - 1>>] = 0
      BY <2>1, <2>2
    <3>3. QED
      BY <3>1, <3>2
  <2>4. QED
    BY <2>3 DEF StoredOnce
<1>4. \A p \in Proc : Safe(p)
  BY DEF Init, Safe, FlushOK, ReplayOK, Replaying
<1>5. QED
  BY <1>1, <1>2, <1>3, <1>4
  DEF Init, IInv, LateOK, NothingLost, Queue!OutboxInit

LEMMA NextIsSound == TypeOK /\ IInv /\ [Next]_vars => Sound
<1> SUFFICES ASSUME TypeOK, IInv, [Next]_vars PROVE Sound
  OBVIOUS
<1>1. CASE Late
  BY <1>1, LateIsSound DEF Late
<1>2. ASSUME NEW p \in Proc, Start(p)
      PROVE  Sound
  BY <1>2, BeginIsSound DEF Start
<1>3. ASSUME NEW p \in Proc, Step(p)
      PROVE  Sound
  BY <1>3, EnqueueIsSound, BeginIsSound, ReplayIsQuiet, ReplayInserts,
     RewriteIsSound
  DEF Step
<1>4. ASSUME NEW p \in Proc, Crash(p)
      PROVE  Sound
  BY <1>4, CrashIsSound
<1>5. CASE UNCHANGED vars
  <2>1. UNCHANGED <<fileVars, rows>> /\ Held' = Held /\ Grow
    BY <1>5, SameFileHeld, SameRowsGrow DEF vars, fileVars
  <2>2. \A q \in Proc : Safe(q)'
    BY <1>5, <2>1, UntouchedStaysSafe DEF vars, Untouched, IInv
  <2>3. \A r \in late' : Tracked(r)
    BY <1>5 DEF vars, IInv, LateOK
  <2>4. QED
    BY <2>1, <2>2, <2>3, QuietIsSound
<1>6. QED
  BY <1>1, <1>2, <1>3, <1>4, <1>5 DEF Next

THEOREM InvariantHolds == Spec => [](TypeOK /\ IInv)
<1>1. Init => TypeOK /\ IInv
  BY InitTypeOK, InitIInv
<1>2. TypeOK /\ IInv /\ [Next]_vars => TypeOK' /\ IInv'
  BY NextTypeOK, NextIsSound DEF Sound
<1>3. QED
  BY <1>1, <1>2, PTL DEF Spec

\* Whatever processes enqueue, flush, fail or die, and however often: an entry
\* whose enqueue has returned is stored or in the file.
THEOREM NothingIsLost == Spec => []NothingLost
<1>1. IInv => NothingLost
  BY DEF IInv
<1>2. QED
  BY <1>1, InvariantHolds, PTL

\* Replays and late requests store each record once, in the order of the parts.
THEOREM EachStoredOnce == Spec => []StoredOnce
<1>1. IInv => StoredOnce
  BY DEF IInv
<1>2. QED
  BY <1>1, InvariantHolds, PTL

\* The file with its lock, its crashes and its requests is an outbox.
THEOREM QueueIsOutbox == Spec => ImplementsOutbox
<1>1. Init => Queue!OutboxInit
  BY InitIInv
<1>2. TypeOK /\ IInv /\ [Next]_vars => [Queue!OutboxNext]_(Queue!outboxVars)
  BY NextIsSound DEF Sound, Queue!outboxVars
<1>3. QED
  BY <1>1, <1>2, InvariantHolds, PTL
  DEF Spec, ImplementsOutbox, Queue!OutboxSpec

\* A readable file becomes unreadable only by an append.
THEOREM AppendsDamage == Spec => OnlyAppendsDamage
<1>1. ASSUME TypeOK, IInv, [Next]_vars, Readable, ~Readable'
      PROVE  \E p \in Proc : pc[p] = "append"
  <2>1. file' # file
    BY <1>1 DEF Readable
  <2>2. PICK p \in Proc : Enqueue(p) \/ EnqueueCut(p) \/ Rewrite(p)
    BY <1>1, <2>1
    DEF Next, Late, LateCheck, LateCreate, LateLost, Start, Step, Crash,
        StartEnqueue, StartFlush, Read, Raise, Skip, Ask, Deposit, Check, Create,
        ReplayFails, TimesOut, Flushed, Tried, fileVars, vars
  <2>3. ~Rewrite(p)
    <3>1. SUFFICES ASSUME Rewrite(p) PROVE FALSE
      OBVIOUS
    <3>2. Elements(kept[p]) \cap Splits = {} /\ kept[p] \in Seq(Entry)
      BY <1>1, <3>1 DEF Rewrite, IInv, Safe, FlushOK, TypeOK
    <3>3. \A i \in DOMAIN file' : file'[i].whole
      BY <3>1, <3>2, Rewritten DEF Rewrite
    <3>4. QED
      BY <1>1, <3>3 DEF Readable
  <2>4. QED
    BY <2>2, <2>3 DEF Enqueue, EnqueueCut
<1>2. TypeOK /\ IInv /\ [Next]_vars
        => [Readable /\ ~Readable' => \E p \in Proc : pc[p] = "append"]_vars
  BY <1>1
<1>3. QED
  BY <1>2, InvariantHolds, PTL DEF Spec, OnlyAppendsDamage

================================================================================
