----------------------------- MODULE CaptureQueue -----------------------------
(***************************************************************************)
(* The capture queue (capture_queue.py): captures that could not be stored *)
(* are appended to a file, one JSON object per line, and replayed later.   *)
(*                                                                         *)
(* Every operation holds an flock on a file beside it.  An enqueue appends *)
(* a line, in a write that a crash may cut short.  A flush reads the whole *)
(* file, replays one entry after the other, and replaces the file by what  *)
(* remains.                                                                *)
(*                                                                         *)
(* An entry is replayed in parts: a legacy bundle is a question, a session,*)
(* excerpts, claims and a report, each created by a request of its own     *)
(* that looks the dedupe key up and then inserts; a v2 envelope is one     *)
(* atomic deposit.  A request over HTTP can time out and be executed later.*)
(***************************************************************************)
EXTENDS Naturals, Sequences

CONSTANTS
  Proc, NoProc,
  Entry,
  Legacy,       \* the legacy bundles; the others are v2 envelopes
  Parts,        \* how many records a legacy bundle creates
  Backend, Home, \* the backend that an entry was captured for
  Splits,       \* entries whose text has a character at which splitlines
                \* ends a line, but which JSON does not escape (U+2028)
  MaxLines      \* bound: no enqueue begins when the file has so many

ASSUME QueueAssumption ==
  /\ NoProc \notin Proc
  /\ Legacy \subseteq Entry
  /\ Parts \in Nat \ {0}
  /\ Backend # {} /\ Home \in [Entry -> Backend]
  /\ Splits \subseteq Entry
  /\ MaxLines \in Nat

VARIABLES
  file,    \* its lines: [has: the entries whose whole text a line contains,
           \*             whole: the line is one JSON object]
  ended,   \* the last line has its newline
  lock,    \* who holds the flock
  rows,    \* rows[<<e, k>>]: stored copies of part k of entry e
  late,    \* requests that their client has given up
  acked,   \* history: the entries whose enqueue has returned
  pc, to,  \* what each process does; the backend it flushes to
  work,    \* entries it has to append or replay, the current one first
  kept,    \* entries it will write back
  part,    \* the part of the current entry that comes next
  asked    \* how far its request has got

vars == <<file, ended, lock, rows, late, acked, pc, to, work, kept, part, asked>>
fileVars == <<file, ended, acked>>
locals == <<to, work, kept, part, asked>>

Last(e) == IF e \in Legacy THEN Parts ELSE 1
PartsOf(e) == 1..Last(e)
Record == UNION {{e} \X PartsOf(e) : e \in Entry}

AnyBackend == CHOOSE b \in Backend : TRUE

Init ==
  /\ file = <<>>
  /\ ended = TRUE
  /\ lock = NoProc
  /\ rows = [r \in Record |-> 0]
  /\ late = {}
  /\ acked = {}
  /\ pc = [p \in Proc |-> "idle"]
  /\ to = [p \in Proc |-> AnyBackend]
  /\ work = [p \in Proc |-> <<>>]
  /\ kept = [p \in Proc |-> <<>>]
  /\ part = [p \in Proc |-> 1]
  /\ asked = [p \in Proc |-> "no"]

-----------------------------------------------------------------------------
(***************************************************************************)
(* The file                                                                *)
(***************************************************************************)

LineOf(e) == [has |-> {e}, whole |-> e \notin Splits]

\* The beginning of a line.
Fragment == [has |-> {}, whole |-> FALSE]

\* Appending to a last line without newline makes one line of the two.
Appended(line) ==
  IF ended \/ file = <<>> THEN Append(file, line)
  ELSE [file EXCEPT ![Len(file)] = [has |-> @.has \cup line.has,
                                    whole |-> FALSE]]

Readable == \A i \in DOMAIN file : file[i].whole

\* The entries of a readable file, in order.
EntriesRead == [i \in DOMAIN file |-> CHOOSE e \in file[i].has : TRUE]

Held == UNION {file[i].has : i \in DOMAIN file}

-----------------------------------------------------------------------------
(***************************************************************************)
(* Calls and the lock                                                      *)
(***************************************************************************)

Goto(p, there) == pc' = [pc EXCEPT ![p] = there]

\* Variant: nobody waits for the flock.
NoFlock == TRUE

\* _lock: an operation waits for the flock before it does anything else.
FlockFree == lock = NoProc

\* enqueue begins.
StartEnqueue(p, e) ==
  /\ pc[p] = "idle"
  /\ FlockFree
  /\ Len(file) < MaxLines
  /\ lock' = p
  /\ Goto(p, "append")
  /\ work' = [work EXCEPT ![p] = <<e>>]
  /\ UNCHANGED <<fileVars, rows, late, to, kept, part, asked>>

\* flush begins, against backend b.
StartFlush(p, b) ==
  /\ pc[p] = "idle"
  /\ FlockFree
  /\ lock' = p
  /\ Goto(p, "read")
  /\ to' = [to EXCEPT ![p] = b]
  /\ UNCHANGED <<fileVars, rows, late, work, kept, part, asked>>

Holding == {"append", "read", "replay", "rewrite"}

\* The call returns or raises; the flock is released either way.
Return(p) ==
  /\ Goto(p, "idle")
  /\ lock' = IF lock = p THEN NoProc ELSE lock
  /\ work' = [work EXCEPT ![p] = <<>>]
  /\ kept' = [kept EXCEPT ![p] = <<>>]
  /\ part' = [part EXCEPT ![p] = 1]
  /\ asked' = [asked EXCEPT ![p] = "no"]
  /\ to' = [to EXCEPT ![p] = AnyBackend]

-----------------------------------------------------------------------------
(***************************************************************************)
(* enqueue                                                                 *)
(***************************************************************************)

\* The line and its newline are written and synced.
Enqueue(p) ==
  /\ pc[p] = "append"
  /\ file' = Appended(LineOf(Head(work[p])))
  /\ ended' = TRUE
  /\ acked' = acked \cup {Head(work[p])}
  /\ Return(p)
  /\ UNCHANGED <<rows, late>>

\* What an append that fails or dies may leave: part of the line, the line
\* without newline, or all of it.
EnqueueCut(p) ==
  /\ pc[p] = "append"
  /\ \/ file' = Appended(Fragment) /\ ended' = FALSE
     \/ file' = Appended(LineOf(Head(work[p]))) /\ ended' \in BOOLEAN
  /\ Return(p)
  /\ UNCHANGED <<rows, late, acked>>

-----------------------------------------------------------------------------
(***************************************************************************)
(* flush                                                                   *)
(***************************************************************************)

\* _list_pending_unlocked: a line that is not JSON fails the whole flush.
Read(p) ==
  /\ pc[p] = "read"
  /\ Readable
  /\ work' = [work EXCEPT ![p] = EntriesRead]
  /\ Goto(p, "replay")
  /\ UNCHANGED <<fileVars, lock, rows, late, to, kept, part, asked>>

\* Variant: the flock is kept when the file cannot be read.
RaiseLocked(p) ==
  /\ pc[p] \in {"append", "read", "rewrite"}
  /\ Goto(p, "idle")
  /\ UNCHANGED <<fileVars, lock, rows, late, locals>>

\* An exception that leaves the file alone: it cannot be read or opened, the
\* backend has no status, the temporary file cannot be written.
Raise(p) ==
  /\ pc[p] \in {"append", "read", "rewrite"}
  /\ Return(p)
  /\ UNCHANGED <<fileVars, rows, late>>

Current(p) == Head(work[p])

\* The current entry is done with, in one way or another.
Advance(p) ==
  /\ work' = [work EXCEPT ![p] = Tail(@)]
  /\ part' = [part EXCEPT ![p] = 1]
  /\ asked' = [asked EXCEPT ![p] = "no"]

Keep(p) == kept' = [kept EXCEPT ![p] = Append(@, Current(p))]

Replaying(p) == pc[p] = "replay" /\ work[p] # <<>>

\* _matches_backend: an entry for another backend or namespace is kept.
Skip(p) ==
  /\ Replaying(p)
  /\ Home[Current(p)] # to[p]
  /\ Keep(p)
  /\ Advance(p)
  /\ UNCHANGED <<fileVars, lock, rows, late, pc, to>>

\* The request for the next part is sent.
Ask(p) ==
  /\ Replaying(p)
  /\ Home[Current(p)] = to[p]
  /\ asked[p] = "no" /\ part[p] \in PartsOf(Current(p))
  /\ asked' = [asked EXCEPT ![p] = "sent"]
  /\ UNCHANGED <<fileVars, lock, rows, late, pc, to, work, kept, part>>

\* It was answered with success.
Answered(p) ==
  /\ part' = [part EXCEPT ![p] = @ + 1]
  /\ asked' = [asked EXCEPT ![p] = "no"]

Absent(e, k) == rows[<<e, k>>] = 0
Insert(e, k) == rows' = [rows EXCEPT ![<<e, k>>] = @ + 1]

\* ResearchDepositService.deposit under the key of the envelope.
Deposit(p) ==
  /\ asked[p] = "sent"
  /\ Current(p) \notin Legacy
  /\ IF Absent(Current(p), 1) THEN Insert(Current(p), 1) ELSE UNCHANGED rows
  /\ \/ Answered(p) /\ UNCHANGED kept /\ UNCHANGED work
     \/ Keep(p) /\ Advance(p)   \* the commit was not acknowledged
  /\ UNCHANGED <<fileVars, lock, late, pc, to>>

\* create_question and the others: a record with the dedupe key is returned.
Check(p) ==
  /\ asked[p] = "sent"
  /\ Current(p) \in Legacy
  /\ IF Absent(Current(p), part[p])
       THEN /\ asked' = [asked EXCEPT ![p] = "checked"]
            /\ UNCHANGED part
       ELSE Answered(p)
  /\ UNCHANGED <<fileVars, lock, rows, late, pc, to, work, kept>>

\* Variant: the key has no unique index.
CreateAnyway(p) ==
  /\ asked[p] = "checked"
  /\ Insert(Current(p), part[p])
  /\ Answered(p)
  /\ UNCHANGED <<fileVars, lock, late, pc, to, work, kept>>

\* Otherwise it is inserted; the unique index refuses a second one.
Create(p) ==
  /\ asked[p] = "checked"
  /\ Absent(Current(p), part[p])
  /\ Insert(Current(p), part[p])
  /\ Answered(p)
  /\ UNCHANGED <<fileVars, lock, late, pc, to, work, kept>>

\* Variant: an entry that fails is dropped.
DropFailed(p) ==
  /\ Replaying(p)
  /\ Home[Current(p)] = to[p]
  /\ Advance(p)
  /\ UNCHANGED <<fileVars, lock, rows, late, pc, to, kept>>

\* The replay of an entry fails: it is kept, for another flush.
ReplayFails(p) ==
  /\ Replaying(p)
  /\ Home[Current(p)] = to[p]
  /\ Keep(p)
  /\ Advance(p)
  /\ UNCHANGED <<fileVars, lock, rows, late, pc, to>>

Request(p) ==
  [entry |-> Current(p), part |-> part[p], checked |-> asked[p] = "checked"]

\* It fails by a timeout, but the server has the request.
TimesOut(p) ==
  /\ Replaying(p)
  /\ Current(p) \in Legacy /\ asked[p] # "no"
  /\ late' = late \cup {Request(p)}
  /\ Keep(p)
  /\ Advance(p)
  /\ UNCHANGED <<fileVars, lock, rows, pc, to>>

\* All parts are stored: the entry is flushed.
Flushed(p) ==
  /\ Replaying(p)
  /\ part[p] \notin PartsOf(Current(p))
  /\ Advance(p)
  /\ UNCHANGED <<fileVars, lock, rows, late, pc, to, kept>>

\* All entries were tried.
Tried(p) ==
  /\ pc[p] = "replay" /\ work[p] = <<>>
  /\ Goto(p, "rewrite")
  /\ UNCHANGED <<fileVars, lock, rows, late, locals>>

\* _write_all_unlocked: what remains replaces the file, at once.
Rewrite(p) ==
  /\ pc[p] = "rewrite"
  /\ file' = [i \in DOMAIN kept[p] |-> LineOf(kept[p][i])]
  /\ ended' = TRUE
  /\ Return(p)
  /\ UNCHANGED <<rows, late, acked>>

-----------------------------------------------------------------------------
(***************************************************************************)
(* Requests that were given up; crashes                                    *)
(***************************************************************************)

\* The server executes such a request, or it never arrived.
LateCheck(r) ==
  /\ ~r.checked
  /\ late' = (late \ {r}) \cup
       (IF Absent(r.entry, r.part) THEN {[r EXCEPT !.checked = TRUE]} ELSE {})
  /\ UNCHANGED <<fileVars, lock, rows, pc, locals>>

LateCreate(r) ==
  /\ r.checked
  /\ Absent(r.entry, r.part)
  /\ Insert(r.entry, r.part)
  /\ late' = late \ {r}
  /\ UNCHANGED <<fileVars, lock, pc, locals>>

LateLost(r) ==
  /\ late' = late \ {r}
  /\ UNCHANGED <<fileVars, lock, rows, pc, locals>>

\* Variant: the flock outlives its process.
CrashLocked(p) ==
  /\ pc[p] # "idle"
  /\ Goto(p, "idle")
  /\ work' = [work EXCEPT ![p] = <<>>]
  /\ kept' = [kept EXCEPT ![p] = <<>>]
  /\ part' = [part EXCEPT ![p] = 1]
  /\ asked' = [asked EXCEPT ![p] = "no"]
  /\ UNCHANGED <<fileVars, lock, rows, late, to>>

\* A process dies, and its flock with it.  A request it has sent may live on.
\* (An append that dies is EnqueueCut.)
Crash(p) ==
  /\ pc[p] # "idle"
  /\ Return(p)
  /\ late' = IF Replaying(p) /\ asked[p] # "no" /\ Current(p) \in Legacy
               THEN late \cup {Request(p)} ELSE late
  /\ UNCHANGED <<fileVars, rows>>

-----------------------------------------------------------------------------
Start(p) ==
  \/ \E e \in Entry : StartEnqueue(p, e)
  \/ \E b \in Backend : StartFlush(p, b)

Step(p) ==
  \/ Enqueue(p) \/ EnqueueCut(p)
  \/ Read(p) \/ Raise(p)
  \/ Skip(p) \/ Ask(p) \/ Deposit(p) \/ Check(p) \/ Create(p)
  \/ ReplayFails(p) \/ TimesOut(p) \/ Flushed(p) \/ Tried(p) \/ Rewrite(p)

Late == \E r \in late : LateCheck(r) \/ LateCreate(r) \/ LateLost(r)

Next == Late \/ \E p \in Proc : Start(p) \/ Step(p) \/ Crash(p)

Spec == Init /\ [][Next]_vars

\* A call that runs keeps running; a request is answered or times out.
LiveSpec == Spec /\ \A p \in Proc : WF_vars(Step(p))
-----------------------------------------------------------------------------
(***************************************************************************)
(* Properties                                                              *)
(***************************************************************************)

\* A line that can be read is that of one entry.
Line == {line \in [has : SUBSET Entry, whole : BOOLEAN] :
           line.whole => \E e \in Entry \ Splits : line.has = {e}}
LateRequest == [entry : Legacy, part : 1..Parts, checked : BOOLEAN]

\* The flock belongs to the process that works on the file.
LockOK ==
  /\ lock \in Proc \cup {NoProc}
  /\ \A p \in Proc : pc[p] \in Holding <=> lock = p

\* What a process has asked for exists; outside of a replay it has nothing.
WorkOK(p) ==
  /\ pc[p] = "append" => Len(work[p]) = 1
  /\ pc[p] \in {"idle", "read"} => work[p] = <<>>
  /\ pc[p] \notin {"replay", "rewrite"} => kept[p] = <<>>
  /\ ~Replaying(p) => part[p] = 1 /\ asked[p] = "no"
  /\ Replaying(p) => part[p] \in 1..Last(Current(p)) + 1
  /\ asked[p] # "no" => part[p] \in PartsOf(Current(p))
  /\ asked[p] = "checked" => Current(p) \in Legacy

\* The shape of every reachable state, and who holds the flock.
TypeOK ==
  /\ file \in Seq(Line) /\ ended \in BOOLEAN
  /\ rows \in [Record -> Nat]
  /\ late \subseteq LateRequest
  /\ acked \subseteq Entry
  /\ pc \in [Proc -> {"idle"} \cup Holding]
  /\ to \in [Proc -> Backend]
  /\ work \in [Proc -> Seq(Entry)] /\ kept \in [Proc -> Seq(Entry)]
  /\ part \in [Proc -> Nat] /\ asked \in [Proc -> {"no", "sent", "checked"}]
  /\ LockOK
  /\ \A p \in Proc : WorkOK(p)

\* An entry is stored when its last part is.
Done == {e \in Entry : rows[<<e, Last(e)>>] > 0}

\* An entry whose enqueue has returned is stored in full or still in the file,
\* whoever enqueues, flushes, fails or dies meanwhile.
NothingLost == acked \subseteq Held \cup Done

\* However often a bundle is replayed, and however late a request of an
\* earlier replay is executed, each record exists once, and after the records
\* that it refers to (queue-fallback.md:41).
StoredOnce ==
  \A e \in Entry : \A k \in PartsOf(e) :
    /\ rows[<<e, k>>] <= 1
    /\ k > 1 => rows[<<e, k>>] <= rows[<<e, k - 1>>]

\* Only an append makes the file unreadable: a flush that dies leaves the old
\* file or the new one.
OnlyAppendsDamage ==
  [][Readable /\ ~Readable' => \E p \in Proc : pc[p] = "append"]_vars

\* Every step puts an entry into the queue, stores one that is in it, or drops
\* stored ones.
Queue == INSTANCE Outbox WITH held <- Held, stored <- Done
ImplementsOutbox == Queue!OutboxSpec

\* No operation keeps the flock for ever.
LockIsFreed == \A p \in Proc : lock = p ~> lock # p

\* What was enqueued and is not stored can be listed and replayed
\* (test_capture_queue.py:199-200: the entries enqueued are all listed).
EnqueuedIsListed == acked \subseteq Done \/ Readable
===============================================================================
