---------------------------- MODULE DepositProofs ----------------------------
(***************************************************************************)
(* Proofs about Deposit, for any number of processes, keys, bodies and     *)
(* versions, on both databases.                                            *)
(***************************************************************************)
EXTENDS Deposit, TLAPS

\* Type correctness of an action is one obligation each: the definitions that
\* occur in all of them are used throughout.
LEMMA ItemTypes ==
  ASSUME TypeOK, NEW p \in Proc, pc[p] # "idle"
  PROVE  /\ job[p] \in Job
         /\ job[p].key \in Key
         /\ BodyOf(p) \in Body
         /\ Snapshots(p) \subseteq Nat
         /\ \A i \in Snapshots(p) :
              /\ ItemsOf(p)[i] \in Version \X Hash
              /\ ItemsOf(p)[i][2] \in Hash
              /\ HashAt(p, i) \in Hash
<1>1. job[p] \in Job
  BY DEF TypeOK, CallOK
<1>2. BodyOf(p) \in Body /\ job[p].key \in Key
  BY <1>1, DepositAssumption DEF BodyOf
<1>3. ItemsOf(p) \in Seq(Version \X Hash)
  BY <1>2, DepositAssumption DEF ItemsOf
<1>4. QED
  BY <1>1, <1>2, <1>3 DEF HashAt, Snapshots

LEMMA SameSnapshots ==
  ASSUME job' = job, NEW q \in Proc
  PROVE  Snapshots(q)' = Snapshots(q)
BY DEF Snapshots, ItemsOf, BodyOf

\* A step of p leaves the other processes alone.
OthersSame(p) ==
  /\ job' = job
  /\ \A q \in Proc \ {p} :
       /\ pc'[q] = pc[q] /\ item'[q] = item[q]
       /\ stage'[q] = stage[q] /\ todo'[q] = todo[q] /\ made'[q] = made[q]
       /\ newKey'[q] = newKey[q]
       /\ newVersions'[q] = newVersions[q]
       /\ newContents'[q] = newContents[q]

\* What has to be shown of each step.
Keeps(p) == ShapeOK' /\ CallOK(p)' /\ TxnOK(p)' /\ OthersSame(p)

LEMMA KeepsType ==
  ASSUME TypeOK, NEW p \in Proc, Keeps(p)
  PROVE  TypeOK'
<1>1. ASSUME NEW q \in Proc \ {p}
      PROVE  CallOK(q)' /\ TxnOK(q)'
  <2>1. CallOK(q) /\ TxnOK(q)
    BY DEF TypeOK
  <2>2. Snapshots(q)' = Snapshots(q)
    BY SameSnapshots DEF Keeps, OthersSame
  <2>3. QED
    BY <2>1, <2>2 DEF Keeps, OthersSame, CallOK, TxnOK
<1>2. QED
  BY <1>1 DEF TypeOK, Keeps

LEMMA InitType == Init => TypeOK
BY DEF Init, BlobInit, TypeOK, ShapeOK, CallOK, TxnOK, Busy, Open, Outcome

\* An exception empties the transaction and leads to a handler.
LEMMA LeaveType ==
  ASSUME TypeOK, NEW p \in Proc, pc[p] \in Busy,
         NEW outcome \in Outcome, NEW started \in BOOLEAN,
         Leave(p, outcome, started), UNCHANGED <<stale, made>>,
         NEW left \in SUBSET stage[p], stage' = [stage EXCEPT ![p] = left],
         files' \subseteq Hash, orphans' \subseteq Hash
  PROVE  Keeps(p)
<1>1. AfterException(p, started) \in {"undo", "discard"}
  BY DEF AfterException
<1>2. Snapshots(p)' = Snapshots(p)
  BY SameSnapshots DEF Leave
<1>3. ShapeOK /\ CallOK(p)
  BY DEF TypeOK
<1>4. ShapeOK'
  BY <1>1, <1>3 DEF ShapeOK, Leave, RollbackRows, Goto, dbVars, Busy
<1>5. OthersSame(p)
  BY <1>3 DEF ShapeOK, OthersSame, Leave, RollbackRows, Goto
<1>6. CallOK(p)' /\ TxnOK(p)'
  BY <1>1, <1>2, <1>3 DEF ShapeOK, CallOK, TxnOK, Leave, RollbackRows, Goto,
                          dbVars, Busy, Open
<1>7. QED
  BY <1>4, <1>5, <1>6 DEF Keeps

LEMMA FailType ==
  ASSUME TypeOK, NEW p \in Proc, pc[p] \in Busy,
         NEW outcome \in Outcome, Fail(p, outcome)
  PROVE  Keeps(p)
<1>1. stage' = [stage EXCEPT ![p] = stage[p]]
  BY DEF Fail, TypeOK, ShapeOK, blobVars
<1>2. QED
  BY <1>1, LeaveType DEF Fail, TypeOK, ShapeOK, blobVars

LEMMA StepType ==
  ASSUME TypeOK, NEW p \in Proc, Step(p)
  PROVE  Keeps(p)
<1> ShapeOK /\ CallOK(p) /\ TxnOK(p)
  BY DEF TypeOK
<1> job' = job => Snapshots(p)' = Snapshots(p)
  BY SameSnapshots
<1> USE DEF Keeps, OthersSame, ShapeOK, CallOK, TxnOK, Goto, Busy, Open, Outcome,
            dbVars, blobVars, txnVars, blobWork, history
<1>1. CASE Stage(p)
  <2>1. CASE StageSnapshot(p)
    BY <2>1 DEF StageSnapshot, StageBytes
  <2>2. CASE Staged(p)
    BY <2>2 DEF Staged
  <2>3. CASE StageFails(p)
    BY <2>3, FailType DEF StageFails
  <2>4. QED
    BY <1>1, <2>1, <2>2, <2>3 DEF Stage
<1>2. CASE Begin(p)
  BY <1>2 DEF Begin
<1>3. CASE LockTimeout(p)
  BY <1>3, FailType DEF LockTimeout, NeedsWriteLock
<1>4. CASE CheckKey(p)
  <2>1. CASE AnswerFromReceipt(p)
    BY <2>1, FailType DEF AnswerFromReceipt
  <2>2. CASE ReserveKey(p)
    BY <2>2 DEF ReserveKey
  <2>3. CASE ReserveFails(p)
    BY <2>3, FailType DEF ReserveFails
  <2>4. QED
    BY <1>4, <2>1, <2>2, <2>3 DEF CheckKey
<1>5. CASE Prepare(p)
  <2>1. CASE ReuseVersion(p)
    BY <2>1 DEF ReuseVersion, Preparing, Discard
  <2>2. CASE ReuseContent(p)
    <3>1. ItemsOf(p)[item[p]] \in Version \X Hash
      BY <2>2, ItemTypes DEF ReuseContent, Preparing
    <3>2. QED
      BY <2>2, <3>1 DEF ReuseContent, Preparing, Discard
  <2>3. CASE InsertContent(p)
    <3>1. /\ ItemsOf(p)[item[p]] \in Version \X Hash
          /\ ItemsOf(p)[item[p]][2] \in Hash
      BY <2>3, ItemTypes DEF InsertContent, Preparing
    <3>2. QED
      BY <2>3, <3>1 DEF InsertContent, Preparing
  <2>4. CASE PrepareFails(p)
    BY <2>4, FailType DEF PrepareFails, Preparing
  <2>5. CASE Prepared(p)
    BY <2>5 DEF Prepared
  <2>6. QED
    BY <1>5, <2>1, <2>2, <2>3, <2>4, <2>5 DEF Prepare
<1>6. CASE Write(p)
  <2>1. CASE WriteRecords(p)
    BY <2>1 DEF WriteRecords
  <2>2. CASE ReturnValidated(p)
    BY <2>2, FailType DEF ReturnValidated
  <2>3. CASE WriteFails(p)
    BY <2>3, FailType DEF WriteFails
  <2>4. QED
    BY <1>6, <2>1, <2>2, <2>3 DEF Write
<1>7. CASE Finish(p)
  <2>1. ASSUME NEW i \in todo[p], FinalizeBlob(p, i)
        PROVE  Keeps(p)
    <3>1. HashAt(p, i) \in Hash
      BY <2>1, ItemTypes DEF FinalizeBlob
    <3>2. QED
      BY <2>1, <3>1 DEF FinalizeBlob, Finalize
  <2>2. CASE FinalizeFails(p)
    BY <2>2, FailType DEF FinalizeFails
  <2>3. CASE Commit(p) \/ CommitUnacknowledged(p)
    <3>1. job[p].key \in Key /\ BodyOf(p) \in Body
      BY <2>3, ItemTypes DEF Commit, CommitUnacknowledged
    <3>2. /\ pc[p] = "finalize"
          /\ CommitRows(p)
          /\ pc' = [pc EXCEPT ![p] = "discard"]
          /\ \E r \in Outcome : reply' = [reply EXCEPT ![p] = r]
          /\ UNCHANGED <<blobVars, job, item, todo, made, orphans>>
          /\ todo[p] = {}
      BY <2>3 DEF Commit, CommitUnacknowledged, AfterException
    <3>3. ShapeOK'
      BY <3>1, <3>2 DEF CommitRows, RollbackRows
    <3>4. QED
      BY <3>2, <3>3 DEF CommitRows, RollbackRows
  <2>4. CASE CommitFails(p)
    <3>1. stage' = [stage EXCEPT ![p] = stage[p]]
      BY <2>4 DEF CommitFails
    <3>2. QED
      BY <2>4, <3>1, LeaveType DEF CommitFails
  <2>5. ASSUME NEW i \in todo[p], FinalizeInterrupted(p, i)
        PROVE  Keeps(p)
    <3>1. HashAt(p, i) \in Hash
      BY <2>5, ItemTypes DEF FinalizeInterrupted
    <3>2. QED
      BY <2>5, <3>1, LeaveType DEF FinalizeInterrupted, Finalize
  <2>6. QED
    BY <1>7, <2>1, <2>2, <2>3, <2>4, <2>5 DEF Finish
<1>8. CASE Unwind(p)
  <2>1. ASSUME NEW h \in made[p], UndoFinalize(p, h)
        PROVE  Keeps(p)
    BY <2>1 DEF UndoFinalize, RollbackFinalize
  <2>2. CASE UndoFails(p)
    BY <2>2 DEF UndoFails
  <2>3. CASE DiscardStages(p)
    BY <2>3 DEF DiscardStages, DiscardAll
  <2>4. QED
    BY <1>8, <2>1, <2>2, <2>3 DEF Unwind
<1>9. QED
  BY <1>1, <1>2, <1>3, <1>4, <1>5, <1>6, <1>7, <1>8 DEF Step

LEMMA CrashType ==
  ASSUME TypeOK, NEW p \in Proc, Crash(p)
  PROVE  Keeps(p)
<1>1. {HashAt(p, i) : i \in stage[p]} \subseteq Hash
  BY ItemTypes DEF Crash, TypeOK, CallOK, Busy, Open
<1>2. QED
  BY <1>1 DEF Crash, LoseStages, RollbackRows, TypeOK, ShapeOK, CallOK, TxnOK,
              Keeps, OthersSame, Goto, Busy, Open, Outcome, dbVars

LEMMA NextType == TypeOK /\ [Next]_vars => TypeOK'
<1> SUFFICES ASSUME TypeOK, [Next]_vars
             PROVE  TypeOK'
  OBVIOUS
<1>1. CASE UNCHANGED vars
  <2>1. \A q \in Proc : Snapshots(q)' = Snapshots(q)
    BY <1>1, SameSnapshots DEF vars
  <2>2. ShapeOK'
    BY <1>1 DEF vars, blobVars, dbVars, txnVars, blobWork, history, TypeOK,
                ShapeOK
  <2>3. QED
    BY <1>1, <2>1, <2>2 DEF vars, blobVars, txnVars, blobWork, TypeOK, CallOK,
                            TxnOK
<1>2. ASSUME NEW p \in Proc, NEW j \in Job, Submit(p, j)
      PROVE  TypeOK'
  <2>1. ShapeOK'
    BY <1>2 DEF Submit, TypeOK, ShapeOK, Goto, Busy, Outcome, blobVars, dbVars,
                txnVars, blobWork, history
  <2>2. ASSUME NEW q \in Proc
        PROVE  CallOK(q)' /\ TxnOK(q)'
    <3>1. q # p => Snapshots(q)' = Snapshots(q)
      BY <1>2 DEF Submit, Snapshots, ItemsOf, BodyOf, TypeOK, ShapeOK
    <3>2. QED
      BY <1>2, <3>1 DEF Submit, TypeOK, ShapeOK, CallOK, TxnOK, Goto, Open,
                        blobVars, txnVars, blobWork
  <2>3. QED
    BY <2>1, <2>2 DEF TypeOK
<1>3. ASSUME NEW p \in Proc, Step(p)
      PROVE  TypeOK'
  BY <1>3, StepType, KeepsType
<1>4. ASSUME NEW p \in Proc, Crash(p)
      PROVE  TypeOK'
  BY <1>4, CrashType, KeepsType
<1>5. QED
  BY <1>1, <1>2, <1>3, <1>4 DEF Next

\* Type correctness of every reachable state: a running call has a job, a
\* process outside its transaction has no uncommitted rows, and a call that
\* ended, in whatever way, left no stage file it owns.
THEOREM TypeCorrect == Spec => []TypeOK
BY InitType, NextType, PTL DEF Spec

-----------------------------------------------------------------------------
(***************************************************************************)
(* Idempotency keys.  A transaction that inserted the row of a key holds   *)
(* the key alone, and until it ends nobody else spends it.                 *)
(***************************************************************************)

KeyHeld(p) ==
  /\ pc[p] = "check" => ~newKey[p]
  /\ pc[p] \in {"prepare", "write", "finalize"} =>
       newKey[p] = (job[p].kind = "deposit")
  /\ pc[p] = "finalize" => job[p].kind # "validate"
  /\ newKey[p] => ~Spent(p)
  /\ reply[p] \in {"committed", "replayed"} => job[p] \in Job

KeysDistinct ==
  \A p, q \in Proc : p # q /\ newKey[p] /\ newKey[q] => job[p].key # job[q].key

KeyInv ==
  /\ \A p \in Proc : KeyHeld(p)
  /\ KeysDistinct
  /\ AtMostOneEffect
  /\ SuccessIsDurable

\* A step that leaves the receipts alone and may only release p's key.
Quiet(p) ==
  /\ UNCHANGED <<receipt, effects, job>>
  /\ \E b \in {newKey[p], FALSE} : newKey' = [newKey EXCEPT ![p] = b]
  /\ \E l \in Busy \cup {"idle"} : pc' = [pc EXCEPT ![p] = l]
  /\ KeyHeld(p)'
  /\ \E r \in Outcome : /\ reply' = [reply EXCEPT ![p] = r]
                        /\ r \in {"committed", "replayed"} => r = reply[p]

LEMMA QuietKeys ==
  ASSUME TypeOK, KeyInv, NEW p \in Proc, Quiet(p)
  PROVE  KeyInv'
<1>1. \A q \in Proc : KeyHeld(q)'
  BY DEF Quiet, TypeOK, ShapeOK, KeyInv, KeyHeld, Spent
<1>2. KeysDistinct'
  BY DEF Quiet, TypeOK, ShapeOK, KeyInv, KeysDistinct
<1>3. AtMostOneEffect'
  BY DEF Quiet, KeyInv, AtMostOneEffect
<1>4. SuccessIsDurable'
  BY DEF Quiet, TypeOK, ShapeOK, KeyInv, SuccessIsDurable, SameRequest, BodyOf
<1>5. QED
  BY <1>1, <1>2, <1>3, <1>4 DEF KeyInv

\* Every exception is quiet, unless it is the answer of a spent key.
LEMMA LeaveQuiet ==
  ASSUME TypeOK, KeyInv, NEW p \in Proc, pc[p] \in Busy,
         NEW outcome \in Outcome \ {"committed", "replayed"},
         NEW started \in BOOLEAN, Leave(p, outcome, started)
  PROVE  Quiet(p)
<1>1. AfterException(p, started) \in {"undo", "discard"}
  BY DEF AfterException
<1>2. QED
  BY <1>1 DEF Leave, RollbackRows, Goto, dbVars, Quiet, KeyHeld, Busy, TypeOK,
              ShapeOK

LEMMA KeyInit == Init => KeyInv
BY DEF Init, KeyInv, KeyHeld, KeysDistinct, AtMostOneEffect, SuccessIsDurable,
       Spent

\* The two steps that are about the keys themselves.
LEMMA ReserveKeeps ==
  ASSUME TypeOK, KeyInv, NEW p \in Proc, ReserveKey(p)
  PROVE  KeyInv'
<1> USE DEF ReserveKey, TypeOK, ShapeOK, Goto, dbVars, history
<1>1. \A q \in Proc : KeyHeld(q)'
  BY DEF KeyInv, KeyHeld, Spent
<1>2. ASSUME NEW q \in Proc \ {p}, newKey[q], job[p].kind = "deposit"
      PROVE  job[q].key # job[p].key
  BY <1>2 DEF KeyFree, Others, TxnOK
<1>3. KeysDistinct'
  BY <1>2 DEF KeyInv, KeysDistinct
<1>4. AtMostOneEffect' /\ SuccessIsDurable'
  BY DEF KeyInv, AtMostOneEffect, SuccessIsDurable, SameRequest, BodyOf
<1>5. QED
  BY <1>1, <1>3, <1>4 DEF KeyInv

LEMMA CommitKeeps ==
  ASSUME TypeOK, KeyInv, NEW p \in Proc, Commit(p) \/ CommitUnacknowledged(p)
  PROVE  KeyInv'
<1> DEFINE k == job[p].key
<1>1. /\ pc[p] = "finalize"
      /\ CommitRows(p)
      /\ pc' = [pc EXCEPT ![p] = "discard"]
      /\ UNCHANGED job
      /\ \E r \in Outcome :
           /\ reply' = [reply EXCEPT ![p] = r]
           /\ r = "committed" => newKey[p]
           /\ r # "replayed"
  <2>1. job[p].kind \in Kind
    BY ItemTypes, DepositAssumption DEF Commit, CommitUnacknowledged
  <2>2. job[p].kind # "capture" => newKey[p]
    BY <2>1 DEF Commit, CommitUnacknowledged, KeyInv, KeyHeld, Kind
  <2>3. QED
    BY <2>2 DEF Commit, CommitUnacknowledged, AfterException, Goto, Outcome
<1>2. /\ k \in Key /\ BodyOf(p) \in Body /\ BodyOf(p) # NoBody
  BY <1>1, ItemTypes, DepositAssumption
<1>3. newKey[p] => receipt[k] = NoBody
  BY DEF KeyInv, KeyHeld, Spent
<1> USE DEF TypeOK, ShapeOK, CommitRows, RollbackRows
<1>4. \A q \in Proc : KeyHeld(q)'
  <2>0. job[p] \in Job
    BY <1>1, ItemTypes
  <2>1. ASSUME NEW q \in Proc \ {p}, newKey[q]
        PROVE  ~Spent(q)'
    BY <1>1, <1>2, <2>1 DEF KeyInv, KeyHeld, KeysDistinct, Spent
  <2>2. QED
    BY <1>1, <2>0, <2>1 DEF KeyInv, KeyHeld
<1>5. KeysDistinct'
  BY <1>1 DEF KeyInv, KeysDistinct
<1>6. AtMostOneEffect'
  BY <1>1, <1>2, <1>3 DEF KeyInv, AtMostOneEffect
<1>7. SuccessIsDurable'
  <2>1. ASSUME NEW q \in Proc \ {p}, reply[q] \in {"committed", "replayed"}
        PROVE  SameRequest(q)'
    <3>1. /\ SameRequest(q)
          /\ job[q] \in Job
      BY <2>1 DEF KeyInv, KeyHeld, SuccessIsDurable
    <3>2. QED
      BY <1>1, <1>2, <1>3, <3>1, DepositAssumption DEF SameRequest, BodyOf
  <2>2. reply'[p] = "committed" => SameRequest(p)'
    BY <1>1, <1>2 DEF SameRequest, BodyOf
  <2>3. QED
    BY <1>1, <2>1, <2>2 DEF SuccessIsDurable
<1>8. QED
  BY <1>4, <1>5, <1>6, <1>7 DEF KeyInv

\* A replay answers the request the key was spent on.
LEMMA AnswerKeeps ==
  ASSUME TypeOK, KeyInv, NEW p \in Proc, AnswerFromReceipt(p)
  PROVE  KeyInv'
<1> DEFINE answer == IF ~SameRequest(p) THEN "conflict"
                     ELSE IF job[p].kind = "validate" THEN "validated"
                     ELSE "replayed"
<1>1. /\ pc[p] = "check"
      /\ UNCHANGED <<receipt, effects, job>>
      /\ newKey' = [newKey EXCEPT ![p] = FALSE]
      /\ \E l \in {"undo", "discard"} : pc' = [pc EXCEPT ![p] = l]
      /\ reply' = [reply EXCEPT ![p] = answer]
  BY DEF AnswerFromReceipt, Fail, Leave, RollbackRows, AfterException, Goto,
         dbVars
<1>2. job[p] \in Job
  BY <1>1, ItemTypes
<1>3. \A q \in Proc : KeyHeld(q)'
  BY <1>1, <1>2 DEF TypeOK, ShapeOK, KeyInv, KeyHeld, Spent
<1>4. KeysDistinct'
  BY <1>1 DEF TypeOK, ShapeOK, KeyInv, KeysDistinct
<1>5. AtMostOneEffect'
  BY <1>1 DEF KeyInv, AtMostOneEffect
<1>6. SuccessIsDurable'
  BY <1>1 DEF TypeOK, ShapeOK, KeyInv, SuccessIsDurable, SameRequest, BodyOf
<1>7. QED
  BY <1>3, <1>4, <1>5, <1>6 DEF KeyInv

LEMMA SubmitKeeps ==
  ASSUME TypeOK, KeyInv, NEW p \in Proc, NEW j \in Job, Submit(p, j)
  PROVE  KeyInv'
<1> USE DEF Submit, Goto, TypeOK, ShapeOK, TxnOK, Open, txnVars, dbVars, history
<1>1. \A q \in Proc : KeyHeld(q)'
  BY DEF KeyInv, KeyHeld, Spent
<1>2. KeysDistinct'
  BY DEF KeyInv, KeysDistinct
<1>3. AtMostOneEffect' /\ SuccessIsDurable'
  BY DEF KeyInv, AtMostOneEffect, SuccessIsDurable, SameRequest, BodyOf
<1>4. QED
  BY <1>1, <1>2, <1>3 DEF KeyInv

LEMMA StepKeys ==
  ASSUME TypeOK, KeyInv, NEW p \in Proc, Step(p)
  PROVE  KeyInv'
<1> KeyHeld(p) /\ TxnOK(p) /\ reply[p] \in Outcome /\ newKey[p] \in BOOLEAN
  BY DEF KeyInv, TypeOK, ShapeOK
<1> newKey = [newKey EXCEPT ![p] = newKey[p]] /\ pc = [pc EXCEPT ![p] = pc[p]]
    /\ reply = [reply EXCEPT ![p] = reply[p]] /\ pc[p] \in Busy \cup {"idle"}
  BY DEF TypeOK, ShapeOK
<1> pc \in [Proc -> Busy \cup {"idle"}]
  BY DEF TypeOK, ShapeOK
<1> USE DEF dbVars, txnVars, blobWork, history, Goto, KeyHeld, Spent, Quiet, Busy,
            Open
<1>1. CASE Stage(p)
  <2>1. CASE StageSnapshot(p) \/ Staged(p)
    <3>1. Quiet(p)
      BY <2>1 DEF StageSnapshot, Staged
    <3>2. QED
      BY <3>1, QuietKeys
  <2>2. CASE StageFails(p)
    BY <2>2, LeaveQuiet, QuietKeys DEF StageFails, Fail, Outcome
  <2>3. QED
    BY <1>1, <2>1, <2>2 DEF Stage
<1>2. CASE Begin(p)
  <2>1. Quiet(p)
    BY <1>2, TxnOK(p) DEF Begin, TxnOK
  <2>2. QED
    BY <2>1, QuietKeys
<1>3. CASE LockTimeout(p)
  BY <1>3, LeaveQuiet, QuietKeys DEF LockTimeout, NeedsWriteLock, Fail, Outcome
<1>4. CASE CheckKey(p)
  <2>1. CASE ReserveFails(p)
    BY <2>1, LeaveQuiet, QuietKeys DEF ReserveFails, Fail, Outcome
  <2>2. QED
    BY <1>4, <2>1, AnswerKeeps, ReserveKeeps DEF CheckKey
<1>5. CASE Prepare(p)
  <2>1. CASE ReuseVersion(p) \/ ReuseContent(p) \/ InsertContent(p) \/ Prepared(p)
    <3>1. Quiet(p)
      BY <2>1 DEF ReuseVersion, ReuseContent, InsertContent, Prepared, Preparing
    <3>2. QED
      BY <3>1, QuietKeys
  <2>2. CASE PrepareFails(p)
    BY <2>2, LeaveQuiet, QuietKeys DEF PrepareFails, Preparing, Fail, Outcome
  <2>3. QED
    BY <1>5, <2>1, <2>2 DEF Prepare
<1>6. CASE Write(p)
  <2>1. CASE WriteRecords(p)
    <3>1. Quiet(p)
      BY <2>1 DEF WriteRecords
    <3>2. QED
      BY <3>1, QuietKeys
  <2>2. CASE ReturnValidated(p) \/ WriteFails(p)
    BY <2>2, LeaveQuiet, QuietKeys DEF ReturnValidated, WriteFails, Fail, Outcome
  <2>3. QED
    BY <1>6, <2>1, <2>2 DEF Write
<1>7. CASE Finish(p)
  <2>1. ASSUME NEW i \in todo[p], FinalizeBlob(p, i)
        PROVE  KeyInv'
    <3>1. Quiet(p)
      BY <2>1 DEF FinalizeBlob
    <3>2. QED
      BY <3>1, QuietKeys
  <2>2. CASE FinalizeFails(p) \/ CommitFails(p)
    BY <2>2, LeaveQuiet, QuietKeys
       DEF FinalizeFails, CommitFails, Fail, Outcome
  <2>3. ASSUME NEW i \in todo[p], FinalizeInterrupted(p, i)
        PROVE  KeyInv'
    BY <2>3, LeaveQuiet, QuietKeys DEF FinalizeInterrupted, Outcome
  <2>4. QED
    BY <1>7, <2>1, <2>2, <2>3, CommitKeeps DEF Finish
<1>8. CASE Unwind(p)
  <2>1. Quiet(p)
    BY <1>8 DEF Unwind, UndoFinalize, UndoFails, DiscardStages
  <2>2. QED
    BY <2>1, QuietKeys
<1>9. QED
  BY <1>1, <1>2, <1>3, <1>4, <1>5, <1>6, <1>7, <1>8 DEF Step

LEMMA NextKeys == TypeOK /\ KeyInv /\ [Next]_vars => KeyInv'
<1> SUFFICES ASSUME TypeOK, KeyInv, [Next]_vars
             PROVE  KeyInv'
  OBVIOUS
<1>1. CASE UNCHANGED vars
  BY <1>1 DEF vars, dbVars, txnVars, history, KeyInv, KeyHeld, KeysDistinct,
              AtMostOneEffect, SuccessIsDurable, SameRequest, BodyOf, Spent
<1>2. ASSUME NEW p \in Proc, Crash(p)
      PROVE  KeyInv'
  <2>1. Quiet(p)
    BY <1>2 DEF Crash, RollbackRows, Goto, dbVars, Quiet, KeyHeld, TypeOK,
                ShapeOK, Outcome
  <2>2. QED
    BY <2>1, QuietKeys
<1>3. QED
  BY <1>1, <1>2, SubmitKeeps, StepKeys DEF Next

THEOREM KeysCorrect == Spec => []KeyInv
<1>1. Init /\ [][Next]_vars => []KeyInv
  BY TypeCorrect, KeyInit, NextKeys, PTL DEF Spec
<1>2. QED
  BY <1>1 DEF Spec

\* However many calls race on a key, fail, crash and are retried, at most one
\* deposit under the key commits, and its receipt commits with it.
THEOREM OneEffectPerKey == Spec => []AtMostOneEffect
<1>1. KeyInv => AtMostOneEffect
  BY DEF KeyInv
<1>2. QED
  BY <1>1, KeysCorrect, PTL

\* A "committed" or "replayed" answer names a receipt of this very request
\* that no later step of any process removes.
THEOREM SuccessDurable == Spec => []SuccessIsDurable
<1>1. KeyInv => SuccessIsDurable
  BY DEF KeyInv
<1>2. QED
  BY <1>1, KeysCorrect, PTL

-----------------------------------------------------------------------------
(***************************************************************************)
(* Rows.  A version key names one content for ever, and a transaction that *)
(* has prepared all of its snapshots sees the row of each.                 *)
(***************************************************************************)

\* The rows of a transaction are of its request, and it sees the row of every
\* snapshot that it has prepared.
RowsOf(p) ==
  /\ \A row \in newVersions[p] :
       row[2] \in SeenContents(p) /\ \E i \in Snapshots(p) : row = ItemsOf(p)[i]
  /\ pc[p] = "check" => newVersions[p] = {} /\ item[p] = 1
  /\ pc[p] = "prepare" =>
       \A i \in Snapshots(p) : i < item[p] => ItemsOf(p)[i] \in SeenVersions(p)
  /\ pc[p] \in {"write", "finalize"} =>
       \A i \in Snapshots(p) : ItemsOf(p)[i] \in SeenVersions(p)

\* No two rows that are committed or may be committed clash.
RowsUnique ==
  /\ \A x, y \in versions : x[1] = y[1] => x = y
  /\ \A p \in Proc : \A x \in newVersions[p] : \A y \in SeenVersions(p) :
       x[1] = y[1] => x = y
  /\ \A p, q \in Proc : p # q =>
       \A x \in newVersions[p] : \A y \in newVersions[q] : x[1] # y[1]

\* Every version has its content object.
VersionsHaveContent == \A row \in versions : row[2] \in contents

RowsInv == (\A p \in Proc : RowsOf(p)) /\ RowsUnique /\ VersionsHaveContent

LEMMA SameItems ==
  ASSUME job' = job, NEW q \in Proc
  PROVE  ItemsOf(q)' = ItemsOf(q) /\ Snapshots(q)' = Snapshots(q)
BY DEF Snapshots, ItemsOf, BodyOf

\* What follows the last snapshot comes after all of them.
LEMMA PastTheLast ==
  ASSUME TypeOK, NEW p \in Proc, pc[p] # "idle"
  PROVE  /\ item[p] \in Nat \ {0}
         /\ \A i \in Snapshots(p) : i \in Nat \ {0} /\ (i < item[p] + 1 <=> i < item[p] \/ i = item[p])
         /\ item[p] \notin Snapshots(p) => \A i \in Snapshots(p) : i < item[p]
<1>1. ItemsOf(p) \in Seq(Version \X Hash)
  BY ItemTypes, DepositAssumption DEF ItemsOf
<1>2. item[p] \in Nat \ {0}
  BY DEF TypeOK, ShapeOK
<1>3. QED
  BY <1>1, <1>2 DEF Snapshots

LEMMA RowsFrom ==
  ASSUME TypeOK, RowsInv, NEW p \in Proc, OthersSame(p),
         versions \subseteq versions', contents \subseteq contents',
         RowsOf(p)', RowsUnique', VersionsHaveContent'
  PROVE  RowsInv'
<1>1. ASSUME NEW q \in Proc \ {p}
      PROVE  RowsOf(q)'
  <2>1. ItemsOf(q)' = ItemsOf(q) /\ Snapshots(q)' = Snapshots(q)
    BY SameItems DEF OthersSame
  <2>2. /\ pc'[q] = pc[q] /\ item'[q] = item[q]
        /\ newVersions'[q] = newVersions[q] /\ newContents'[q] = newContents[q]
    BY DEF OthersSame
  <2>3. SeenVersions(q) \subseteq SeenVersions(q)' /\ SeenContents(q) \subseteq SeenContents(q)'
    BY <2>2 DEF SeenVersions, SeenContents
  <2>4. RowsOf(q)
    BY DEF RowsInv
  <2>5. QED
    BY <2>1, <2>2, <2>3, <2>4 DEF RowsOf
<1>2. QED
  BY <1>1 DEF RowsInv

\* A transaction that ends without a commit.
LEMMA RowsGone ==
  ASSUME TypeOK, RowsInv, NEW p \in Proc, OthersSame(p),
         UNCHANGED <<versions, contents>>, newVersions'[p] = {},
         pc'[p] \in {"idle", "undo", "discard"}
  PROVE  RowsInv'
<1>1. \A q \in Proc : newVersions'[q] \subseteq newVersions[q]
  BY DEF OthersSame
<1>2. RowsUnique'
  BY <1>1 DEF RowsInv, RowsUnique, SeenVersions
<1>3. RowsOf(p)'
  BY DEF RowsOf
<1>4. QED
  BY <1>2, <1>3, RowsFrom DEF RowsInv, VersionsHaveContent

\* A step that leaves all rows alone.
LEMMA RowsSame ==
  ASSUME TypeOK, RowsInv, NEW p \in Proc, OthersSame(p),
         UNCHANGED <<versions, contents, newVersions, newContents>>, RowsOf(p)'
  PROVE  RowsInv'
<1>1. RowsUnique'
  BY DEF RowsInv, RowsUnique, SeenVersions
<1>2. QED
  BY <1>1, RowsFrom DEF RowsInv, VersionsHaveContent

LEMMA LeaveRows ==
  ASSUME TypeOK, RowsInv, NEW p \in Proc, OthersSame(p), NEW outcome, NEW started,
         Leave(p, outcome, started)
  PROVE  RowsInv'
<1>1. AfterException(p, started) \in {"undo", "discard"}
  BY DEF AfterException
<1>2. QED
  BY <1>1, RowsGone DEF Leave, RollbackRows, Goto, dbVars, TypeOK, ShapeOK

\* A new version, of new content or not.
LEMMA InsertRows ==
  ASSUME TypeOK, RowsInv, NEW p \in Proc, OthersSame(p),
         ReuseContent(p) \/ InsertContent(p)
  PROVE  RowsInv'
<1> DEFINE row == ItemsOf(p)[item[p]]
<1>1. /\ pc[p] = "prepare" /\ item[p] \in Snapshots(p) /\ pc' = pc
      /\ \A x \in SeenVersions(p) : x[1] # row[1]
      /\ \A q \in Others(p) : \A x \in newVersions[q] : x[1] # row[1]
      /\ newVersions' = [newVersions EXCEPT ![p] = @ \cup {row}]
      /\ item' = [item EXCEPT ![p] = @ + 1]
      /\ UNCHANGED <<versions, contents, job>>
  BY DEF ReuseContent, InsertContent, Preparing, KnownVersion, RowsFree, dbVars
<1>2. row[2] \in SeenContents(p)' /\ SeenContents(p) \subseteq SeenContents(p)'
  <2>1. CASE ReuseContent(p)
    BY <2>1 DEF ReuseContent, SeenContents, dbVars
  <2>2. CASE InsertContent(p)
    BY <2>2 DEF InsertContent, SeenContents, dbVars, TypeOK, ShapeOK
  <2>3. QED
    BY <2>1, <2>2
<1>3. \A q \in Proc \ {p} : \A x \in newVersions[q] : x[1] # row[1]
  BY <1>1 DEF Others, TypeOK, TxnOK
<1> HIDE DEF row
<1>4. newVersions'[p] = newVersions[p] \cup {row}
      /\ \A q \in Proc \ {p} : newVersions'[q] = newVersions[q]
  BY <1>1 DEF TypeOK, ShapeOK
<1>5. SeenVersions(p)' = SeenVersions(p) \cup {row}
  BY <1>1, <1>4 DEF SeenVersions
<1>6. \A x \in newVersions'[p] : \A y \in SeenVersions(p)' : x[1] = y[1] => x = y
  BY <1>1, <1>4, <1>5 DEF RowsInv, RowsUnique, SeenVersions
<1>7. \A q, o \in Proc : q # o =>
        \A x \in newVersions'[q] : \A y \in newVersions'[o] : x[1] # y[1]
  BY <1>3, <1>4 DEF RowsInv, RowsUnique
<1>8. \A q \in Proc \ {p} : \A x \in newVersions'[q] : \A y \in SeenVersions(q)' :
        x[1] = y[1] => x = y
  BY <1>1, <1>4 DEF RowsInv, RowsUnique, SeenVersions
<1>9. RowsUnique'
  BY <1>1, <1>6, <1>7, <1>8 DEF RowsInv, RowsUnique
<1>10. RowsOf(p)'
  <2>1. ItemsOf(p)' = ItemsOf(p) /\ Snapshots(p)' = Snapshots(p)
    BY <1>1, SameItems
  <2>2. RowsOf(p) /\ item'[p] = item[p] + 1 /\ pc'[p] = "prepare"
    BY <1>1 DEF RowsInv, TypeOK, ShapeOK
  <2>3. \A i \in Snapshots(p) : i < item[p] + 1 => i < item[p] \/ i = item[p]
    BY <1>1, PastTheLast
  <2>4. \A i \in Snapshots(p) : i < item'[p] => ItemsOf(p)[i] \in SeenVersions(p)'
    BY <1>1, <1>5, <2>2, <2>3 DEF RowsOf, row
  <2>5. \A x \in newVersions'[p] :
          x[2] \in SeenContents(p)' /\ \E i \in Snapshots(p) : x = ItemsOf(p)[i]
    BY <1>1, <1>2, <1>4, <2>2 DEF RowsOf, row
  <2>6. QED
    BY <2>1, <2>2, <2>4, <2>5 DEF RowsOf
<1>11. QED
  BY <1>1, <1>9, <1>10, RowsFrom DEF RowsInv, VersionsHaveContent

LEMMA CommitRowsKeep ==
  ASSUME TypeOK, RowsInv, NEW p \in Proc, OthersSame(p),
         Commit(p) \/ CommitUnacknowledged(p)
  PROVE  RowsInv'
<1>1. /\ versions' = versions \cup newVersions[p]
      /\ contents' = contents \cup newContents[p]
      /\ newVersions'[p] = {} /\ pc'[p] = "discard"
  BY DEF Commit, CommitUnacknowledged, CommitRows, RollbackRows, Goto, AfterException,
         TypeOK, ShapeOK
<1>2. \A q \in Proc : newVersions'[q] = newVersions[q] \/ (q = p /\ newVersions'[q] = {})
  BY <1>1 DEF OthersSame
<1>3. \A x, y \in versions' : x[1] = y[1] => x = y
  BY <1>1 DEF RowsInv, RowsUnique, SeenVersions
<1>4. \A q \in Proc : \A x \in newVersions'[q] : \A y \in SeenVersions(q)' :
        x[1] = y[1] => x = y
  BY <1>1, <1>2 DEF RowsInv, RowsUnique, SeenVersions
<1>5. RowsUnique'
  BY <1>2, <1>3, <1>4 DEF RowsInv, RowsUnique
<1>6. RowsOf(p)' /\ VersionsHaveContent'
  BY <1>1 DEF RowsInv, RowsOf, VersionsHaveContent, SeenContents
<1>7. QED
  BY <1>1, <1>5, <1>6, RowsFrom

LEMMA StepRows ==
  ASSUME TypeOK, RowsInv, NEW p \in Proc, Step(p) \/ Crash(p)
  PROVE  RowsInv'
<1>0. OthersSame(p)
  BY StepType, CrashType DEF Keeps
<1>1. ItemsOf(p)' = ItemsOf(p) /\ Snapshots(p)' = Snapshots(p)
  BY <1>0, SameItems DEF OthersSame
<1>2. RowsOf(p) /\ TxnOK(p)
  BY DEF RowsInv, TypeOK
<1>3. /\ pc \in [Proc -> Busy \cup {"idle"}] /\ item \in [Proc -> Nat \ {0}]
  BY DEF TypeOK, ShapeOK
<1> DEFINE Same == UNCHANGED <<versions, contents, newVersions, newContents>>
<1>4. Same => SeenVersions(p)' = SeenVersions(p) /\ SeenContents(p)' = SeenContents(p)
  BY DEF SeenVersions, SeenContents
<1>5. CASE StageFails(p) \/ LockTimeout(p) \/ AnswerFromReceipt(p) \/ ReserveFails(p)
           \/ PrepareFails(p) \/ ReturnValidated(p) \/ WriteFails(p) \/ FinalizeFails(p)
           \/ CommitFails(p) \/ \E i \in todo[p] : FinalizeInterrupted(p, i)
  BY <1>0, <1>5, LeaveRows
     DEF StageFails, LockTimeout, AnswerFromReceipt, ReserveFails, PrepareFails,
         ReturnValidated, WriteFails, FinalizeFails, CommitFails, FinalizeInterrupted, Fail
<1>6. CASE StageSnapshot(p) \/ Staged(p)
  <2>1. Same /\ pc'[p] \in {"stage", "begin"}
    BY <1>3, <1>6 DEF StageSnapshot, Staged, dbVars, txnVars, Goto
  <2>2. RowsOf(p)'
    BY <1>1, <1>2, <1>4, <2>1 DEF RowsOf
  <2>3. QED
    BY <1>0, <2>1, <2>2, RowsSame
<1>7. CASE Begin(p)
  <2>1. Same /\ pc'[p] \in {"check", "prepare"} /\ item'[p] = 1 /\ newVersions[p] = {}
        /\ pc[p] # "idle"
    BY <1>2, <1>3, <1>7 DEF Begin, dbVars, txnVars, Goto, TxnOK, Open
  <2>2. \A i \in Snapshots(p) : ~(i < 1)
    BY <2>1, PastTheLast
  <2>3. RowsOf(p)'
    BY <1>1, <2>1, <2>2 DEF RowsOf
  <2>4. QED
    BY <1>0, <2>1, <2>3, RowsSame
<1>8. CASE ReserveKey(p)
  <2>1. Same /\ pc[p] = "check" /\ pc'[p] = "prepare" /\ item'[p] = item[p]
    BY <1>3, <1>8 DEF ReserveKey, dbVars, Goto
  <2>2. newVersions[p] = {} /\ \A i \in Snapshots(p) : ~(i < item[p])
    BY <1>2, <2>1, PastTheLast DEF RowsOf
  <2>3. RowsOf(p)'
    BY <1>1, <2>1, <2>2 DEF RowsOf
  <2>4. QED
    BY <1>0, <2>1, <2>3, RowsSame
<1>9. CASE ReuseVersion(p)
  <2>1. /\ Same /\ pc[p] = "prepare" /\ pc'[p] = "prepare" /\ item'[p] = item[p] + 1
        /\ ItemsOf(p)[item[p]] \in SeenVersions(p)
    BY <1>3, <1>9 DEF ReuseVersion, Preparing, dbVars, txnVars
  <2>2. \A i \in Snapshots(p) : i < item'[p] => i < item[p] \/ i = item[p]
    BY <2>1, PastTheLast
  <2>3. RowsOf(p)'
    BY <1>1, <1>2, <1>4, <2>1, <2>2 DEF RowsOf
  <2>4. QED
    BY <1>0, <2>1, <2>3, RowsSame
<1>10. CASE Prepared(p)
  <2>1. Same /\ pc[p] = "prepare" /\ pc'[p] = "write" /\ item[p] \notin Snapshots(p)
    BY <1>3, <1>10 DEF Prepared, Goto, dbVars, txnVars
  <2>2. \A i \in Snapshots(p) : i < item[p]
    BY <2>1, PastTheLast
  <2>3. RowsOf(p)'
    BY <1>1, <1>2, <1>4, <2>1, <2>2 DEF RowsOf
  <2>4. QED
    BY <1>0, <2>1, <2>3, RowsSame
<1>11. CASE WriteRecords(p) \/ \E i \in todo[p] : FinalizeBlob(p, i)
  <2>1. Same /\ pc[p] \in {"write", "finalize"} /\ pc'[p] = "finalize"
    BY <1>3, <1>11 DEF WriteRecords, FinalizeBlob, Goto, dbVars, txnVars
  <2>2. RowsOf(p)'
    BY <1>1, <1>2, <1>4, <2>1 DEF RowsOf
  <2>3. QED
    BY <1>0, <2>1, <2>2, RowsSame
<1>12. CASE Unwind(p)
  <2>1. Same /\ pc[p] \in {"undo", "discard"} /\ pc'[p] \in {"undo", "discard", "idle"}
    BY <1>3, <1>12 DEF Unwind, UndoFinalize, UndoFails, DiscardStages, Goto, dbVars, txnVars
  <2>2. RowsOf(p)'
    BY <1>1, <1>2, <1>4, <2>1 DEF RowsOf
  <2>3. QED
    BY <1>0, <2>1, <2>2, RowsSame
<1>13. CASE Crash(p)
  BY <1>0, <1>3, <1>13, RowsGone DEF Crash, RollbackRows, Goto, dbVars, TypeOK, ShapeOK
<1>14. CASE Step(p)
  BY <1>0, <1>5, <1>6, <1>7, <1>8, <1>9, <1>10, <1>11, <1>12, <1>14, InsertRows,
     CommitRowsKeep DEF Step, Stage, CheckKey, Prepare, Write, Finish
<1>15. QED
  BY <1>13, <1>14

LEMMA NextRows == TypeOK /\ RowsInv /\ [Next]_vars => RowsInv'
<1> SUFFICES ASSUME TypeOK, RowsInv, [Next]_vars
             PROVE  RowsInv'
  OBVIOUS
<1>1. CASE UNCHANGED vars
  BY <1>1 DEF vars, dbVars, txnVars, RowsInv, RowsOf, RowsUnique, VersionsHaveContent,
              SeenVersions, SeenContents, Snapshots, ItemsOf, BodyOf
<1>2. ASSUME NEW p \in Proc, NEW j \in Job, Submit(p, j)
      PROVE  RowsInv'
  <2>1. /\ UNCHANGED <<versions, contents, newVersions, newContents, item>>
        /\ pc[p] = "idle" /\ pc'[p] = "stage" /\ newVersions[p] = {}
        /\ \A q \in Proc \ {p} : pc'[q] = pc[q] /\ job'[q] = job[q]
    BY <1>2 DEF Submit, Goto, dbVars, txnVars, TypeOK, ShapeOK, TxnOK, Open
  <2>2. RowsUnique' /\ VersionsHaveContent'
    BY <2>1 DEF RowsInv, RowsUnique, VersionsHaveContent, SeenVersions
  <2>3. RowsOf(p)'
    BY <2>1 DEF RowsOf
  <2>4. \A q \in Proc \ {p} : RowsOf(q)'
    BY <2>1 DEF RowsInv, RowsOf, SeenVersions, SeenContents, Snapshots, ItemsOf, BodyOf
  <2>5. QED
    BY <2>2, <2>3, <2>4 DEF RowsInv
<1>3. QED
  BY <1>1, <1>2, StepRows DEF Next

LEMMA RowsInit == Init => RowsInv
BY DEF Init, RowsInv, RowsOf, RowsUnique, VersionsHaveContent, SeenVersions

\* The rows of a version never lack the row of their content.
THEOREM RowsCorrect == Spec => []RowsInv
BY TypeCorrect, InitType, NextType, RowsInit, NextRows, PTL DEF Spec

-----------------------------------------------------------------------------
(***************************************************************************)
(* The ledger.  A commit that has a key accepts its request, a capture     *)
(* records versions, and no other step is visible.                         *)
(***************************************************************************)

LEMMA CommitAccepts ==
  ASSUME TypeOK, KeyInv, RowsInv, NEW p \in Proc, Commit(p) \/ CommitUnacknowledged(p)
  PROVE  Ledger!LedgerNext
<1> DEFINE k == job[p].key
           b == BodyOf(p)
<1>1. /\ pc[p] = "finalize" /\ CommitRows(p) /\ UNCHANGED job
  BY DEF Commit, CommitUnacknowledged
<1>2. k \in Key /\ b \in Body
  BY <1>1, ItemTypes
<1>3. Rows[b] = {ItemsOf(p)[i] : i \in Snapshots(p)}
  BY <1>2 DEF Rows, ItemsOf, Snapshots
<1>4. versions' = versions \cup newVersions[p]
  BY <1>1 DEF CommitRows
<1> HIDE DEF k, b
<1>5. RowsOf(p)
  BY DEF RowsInv
<1>6. Rows[b] \subseteq versions \cup newVersions[p] /\ newVersions[p] \subseteq Rows[b]
  BY <1>1, <1>3, <1>5 DEF RowsOf, SeenVersions
<1>7. versions' = versions \cup Rows[b]
  BY <1>4, <1>6
<1>8. Ledger!Agree(Rows[b], versions \cup Rows[b])
  <2>1. \A x, y \in versions \cup newVersions[p] : x[1] = y[1] => x = y
    BY DEF RowsInv, RowsUnique, SeenVersions
  <2>2. QED
    BY <1>6, <2>1 DEF Ledger!Agree
<1>9. CASE newKey[p]
  <2>1. receipt[k] = NoBody
    BY <1>9 DEF KeyInv, KeyHeld, Spent, k
  <2>2. receipt' = [receipt EXCEPT ![k] = b]
    BY <1>1, <1>9 DEF CommitRows, k, b
  <2>3. Ledger!Accept(k, b)
    BY <1>7, <1>8, <2>1, <2>2 DEF Ledger!Accept
  <2>4. QED
    BY <1>2, <2>3 DEF Ledger!LedgerNext
<1>10. CASE ~newKey[p]
  <2>1. receipt' = receipt
    BY <1>1, <1>10 DEF CommitRows
  <2>2. Ledger!Record(b)
    BY <1>7, <1>8, <2>1 DEF Ledger!Record
  <2>3. QED
    BY <1>2, <2>2 DEF Ledger!LedgerNext
<1>11. QED
  BY <1>9, <1>10

LEMMA LedgerStep ==
  TypeOK /\ KeyInv /\ RowsInv /\ [Next]_vars => [Ledger!LedgerNext]_(Ledger!ledgerVars)
<1> SUFFICES ASSUME TypeOK, KeyInv, RowsInv, [Next]_vars
             PROVE  Ledger!LedgerNext \/ UNCHANGED <<receipt, versions>>
  BY DEF Ledger!ledgerVars
<1>1. CASE UNCHANGED vars
  BY <1>1 DEF vars, dbVars
<1>2. ASSUME NEW p \in Proc, Step(p)
      PROVE  Ledger!LedgerNext \/ UNCHANGED <<receipt, versions>>
  <2>1. CASE Commit(p) \/ CommitUnacknowledged(p)
    BY <2>1, CommitAccepts
  <2>2. CASE Stage(p) \/ Begin(p) \/ LockTimeout(p) \/ CheckKey(p)
    BY <2>2 DEF Stage, StageSnapshot, Staged, StageFails, Begin, LockTimeout, CheckKey,
       AnswerFromReceipt, ReserveKey, ReserveFails, Fail, Leave, dbVars
  <2>3. CASE Prepare(p) \/ Write(p)
    BY <2>3 DEF Prepare, ReuseVersion, ReuseContent, InsertContent, PrepareFails, Prepared,
       Write, WriteRecords, ReturnValidated, WriteFails, Fail, Leave, dbVars
  <2>4. CASE Finish(p) /\ ~Commit(p) /\ ~CommitUnacknowledged(p)
    BY <2>4 DEF Finish, FinalizeBlob, FinalizeInterrupted, FinalizeFails, CommitFails,
       Fail, Leave, dbVars
  <2>5. CASE Unwind(p)
    BY <2>5 DEF Unwind, UndoFinalize, UndoFails, DiscardStages, dbVars
  <2>6. QED
    BY <1>2, <2>1, <2>2, <2>3, <2>4, <2>5 DEF Step
<1>3. ASSUME NEW p \in Proc, (\E j \in Job : Submit(p, j)) \/ Crash(p)
      PROVE  UNCHANGED <<receipt, versions>>
  BY <1>3 DEF Submit, Crash, dbVars
<1>4. QED
  BY <1>1, <1>2, <1>3 DEF Next

\* Many processes, with their locks, files, failures and crashes, do what the
\* ledger promises: each deposit takes effect in one step or not at all.
THEOREM LedgerImplemented == Spec => ImplementsLedger
<1>1. Init => Ledger!LedgerInit
  BY DEF Init, Ledger!LedgerInit
<1>2. Spec => [](TypeOK /\ KeyInv /\ RowsInv)
  BY TypeCorrect, KeysCorrect, RowsCorrect, PTL
<1>3. QED
  BY <1>1, <1>2, LedgerStep, PTL DEF Spec, ImplementsLedger, Ledger!LedgerSpec

-----------------------------------------------------------------------------
(***************************************************************************)
(* Files.  A call stages every snapshot before its transaction, drops the  *)
(* ones whose content is known, and finalizes the others before it commits.*)
(***************************************************************************)

\* Snapshots that are yet to be prepared or finalized have their stage files.
StagesOf(p) ==
  /\ todo[p] \subseteq stage[p]
  /\ pc[p] \in {"idle", "check"} => item[p] = 1
  /\ pc[p] = "stage" => \A i \in Snapshots(p) : i < item[p] => i \in stage[p]
  /\ pc[p] \in {"begin", "check"} => Snapshots(p) \subseteq stage[p]
  /\ pc[p] = "check" => todo[p] = {}
  /\ pc[p] = "prepare" =>
       /\ \A i \in todo[p] : i < item[p]
       /\ \A i \in Snapshots(p) : i < item[p] \/ i \in stage[p]

\* What a call has finalized is content of its transaction while that is open;
\* a capture has one snapshot, which it finalizes or not.
FilesOf(p) ==
  /\ \A i \in todo[p] : HashAt(p, i) \in newContents[p]
  /\ pc[p] \notin {"finalize", "undo", "discard"} => made[p] = {}
  /\ pc[p] = "finalize" =>
       /\ job[p].kind # "validate"
       /\ made[p] \subseteq newContents[p]
       /\ job[p].kind = "capture" /\ todo[p] # {} => made[p] = {}
  /\ pc[p] = "discard" => made[p] \subseteq contents \cup orphans

FilesInv == FilesAccounted /\ \A p \in Proc : StagesOf(p) /\ FilesOf(p)

\* A final file is committed content, the work of a call or an orphan, also
\* after a step of p that did not give up what it had made.
LEMMA FilesFrom ==
  ASSUME TypeOK, FilesInv, NEW p \in Proc, OthersSame(p),
         contents \subseteq contents', orphans \subseteq orphans',
         StagesOf(p)', FilesOf(p)',
         files' \subseteq files \cup made'[p] \cup contents' \cup orphans',
         \A h \in made[p] : h \in files' => h \in made'[p] \cup contents' \cup orphans'
  PROVE  FilesInv'
<1>1. ASSUME NEW q \in Proc \ {p}
      PROVE  StagesOf(q)' /\ FilesOf(q)'
  <2>1. ItemsOf(q)' = ItemsOf(q) /\ Snapshots(q)' = Snapshots(q)
        /\ \A i : HashAt(q, i)' = HashAt(q, i)
    BY SameItems DEF OthersSame, HashAt
  <2>2. /\ pc'[q] = pc[q] /\ item'[q] = item[q] /\ job'[q] = job[q]
        /\ stage'[q] = stage[q] /\ todo'[q] = todo[q] /\ made'[q] = made[q]
        /\ newContents'[q] = newContents[q]
    BY DEF OthersSame
  <2>3. StagesOf(q) /\ FilesOf(q)
    BY DEF FilesInv
  <2>4. StagesOf(q)'
    BY <2>1, <2>2, <2>3 DEF StagesOf
  <2>5. FilesOf(q)'
    BY <2>1, <2>2, <2>3 DEF FilesOf
  <2>6. QED
    BY <2>4, <2>5
<1>2. \A q \in Proc : todo'[q] \subseteq stage'[q]
  BY <1>1 DEF StagesOf
<1>3. \A h \in files' : h \in contents' \cup orphans' \/ \E q \in Proc : h \in made'[q]
  <2> SUFFICES ASSUME NEW h \in files', h \notin contents', h \notin orphans'
               PROVE  \E q \in Proc : h \in made'[q]
    OBVIOUS
  <2>1. h \in files \/ h \in made'[p]
    OBVIOUS
  <2>2. h \in files => \E q \in Proc : h \in made[q]
    BY DEF FilesInv, FilesAccounted
  <2>3. \A q \in Proc \ {p} : made'[q] = made[q]
    BY DEF OthersSame
  <2>4. QED
    BY <2>1, <2>2, <2>3
<1>4. FilesAccounted'
  BY <1>2, <1>3 DEF FilesAccounted
<1>5. QED
  BY <1>1, <1>4 DEF FilesInv

\* An exception of a call that has nothing to answer for, or that undoes it.
LEMMA LeaveFiles ==
  ASSUME TypeOK, TypeOK', FilesInv, NEW p \in Proc, OthersSame(p), NEW outcome,
         NEW started \in BOOLEAN, Leave(p, outcome, started), pc[p] \in Busy,
         UNCHANGED made, orphans \subseteq orphans',
         files' \subseteq files \cup orphans',
         \/ made[p] = {}
         \/ ~started /\ job[p].kind = "deposit"
         \/ made[p] \subseteq orphans'
  PROVE  FilesInv'
<1>1. /\ pc'[p] = AfterException(p, started) /\ contents' = contents
      /\ todo'[p] = {} /\ pc'[p] \in {"undo", "discard"}
  BY DEF Leave, Goto, dbVars, TypeOK, ShapeOK, AfterException
<1>2. pc'[p] = "discard" => made[p] \subseteq orphans'
  BY <1>1 DEF AfterException
<1>3. StagesOf(p)' /\ FilesOf(p)'
  BY <1>1, <1>2 DEF StagesOf, FilesOf
<1>4. QED
  BY <1>1, <1>3, FilesFrom

LEMMA FailFiles ==
  ASSUME TypeOK, TypeOK', FilesInv, NEW p \in Proc, OthersSame(p), NEW outcome,
         Fail(p, outcome), pc[p] \in Busy \ {"undo", "discard"},
         pc[p] = "finalize" => todo[p] # {}
  PROVE  FilesInv'
<1>1. made[p] = {} \/ job[p].kind = "deposit"
  <2>1. pc[p] = "finalize" => job[p].kind \in {"deposit", "capture"}
    BY ItemTypes, DepositAssumption DEF FilesInv, FilesOf, Kind
  <2>2. QED
    BY <2>1 DEF FilesInv, FilesOf
<1>2. QED
  BY <1>1, LeaveFiles DEF Fail, blobVars

LEMMA CaptureHasOne ==
  ASSUME TypeOK, NEW p \in Proc, pc[p] # "idle", job[p].kind = "capture"
  PROVE  \A i, j \in Snapshots(p) : i = j
<1>1. job[p] \in Job /\ ItemsOf(p) \in Seq(Version \X Hash) /\ Len(ItemsOf(p)) = 1
  BY ItemTypes, DepositAssumption DEF ItemsOf, BodyOf
<1>2. QED
  BY <1>1 DEF Snapshots

LEMMA StepFiles ==
  ASSUME TypeOK, TypeOK', FilesInv, NEW p \in Proc, Step(p) \/ Crash(p)
  PROVE  FilesInv'
<1>0. OthersSame(p)
  BY StepType, CrashType DEF Keeps
<1>1. ItemsOf(p)' = ItemsOf(p) /\ Snapshots(p)' = Snapshots(p)
      /\ (\A i : HashAt(p, i)' = HashAt(p, i)) /\ job' = job
  BY <1>0, SameItems DEF OthersSame, HashAt
<1>2. StagesOf(p) /\ FilesOf(p) /\ TxnOK(p)
  BY DEF FilesInv, TypeOK
<1>3. /\ pc \in [Proc -> Busy \cup {"idle"}] /\ item \in [Proc -> Nat \ {0}]
      /\ stage \in [Proc -> SUBSET Nat] /\ todo \in [Proc -> SUBSET Nat]
      /\ made \in [Proc -> SUBSET Hash] /\ newContents \in [Proc -> SUBSET Hash]
  BY DEF TypeOK, ShapeOK
<1> DEFINE Same == UNCHANGED <<files, contents, orphans, made>>
<1>4. ASSUME Same, StagesOf(p)', FilesOf(p)'
      PROVE  FilesInv'
  BY <1>0, <1>4, FilesFrom
<1>5. CASE StageFails(p) \/ LockTimeout(p) \/ AnswerFromReceipt(p) \/ ReserveFails(p)
           \/ PrepareFails(p) \/ ReturnValidated(p) \/ WriteFails(p) \/ FinalizeFails(p)
  <2>1. /\ \E outcome : Fail(p, outcome)
        /\ pc[p] \in {"stage", "begin", "prepare", "check", "write", "finalize"}
        /\ pc[p] = "finalize" => todo[p] # {}
    BY <1>5 DEF StageFails, LockTimeout, NeedsWriteLock, AnswerFromReceipt, ReserveFails,
       PrepareFails, Preparing, ReturnValidated, WriteFails, FinalizeFails
  <2>2. QED
    BY <1>0, <2>1, FailFiles DEF Busy, Open
<1>6. CASE CommitFails(p)
  BY <1>0, <1>6, LeaveFiles DEF CommitFails, blobVars, Busy, Open
<1>7. ASSUME NEW i \in todo[p], FinalizeInterrupted(p, i)
      PROVE  FilesInv'
  <2>1. job[p].kind \in {"deposit", "capture"}
    BY <1>2, <1>7, ItemTypes, DepositAssumption DEF FilesOf, Kind, FinalizeInterrupted
  <2>2. made[p] = {} \/ job[p].kind = "deposit"
    BY <1>2, <1>7, <2>1 DEF FilesOf, FinalizeInterrupted
  <2>3. /\ Leave(p, "error", FALSE) /\ UNCHANGED made /\ pc[p] \in Busy
        /\ orphans' = orphans \cup {HashAt(p, i)} /\ files' = files \cup {HashAt(p, i)}
    BY <1>7 DEF FinalizeInterrupted, Finalize, Busy, Open
  <2>4. QED
    BY <1>0, <2>2, <2>3, LeaveFiles
<1>8. CASE StageSnapshot(p)
  <2>1. /\ Same /\ pc[p] = "stage" /\ pc'[p] = "stage" /\ item'[p] = item[p] + 1
        /\ stage'[p] = stage[p] \cup {item[p]} /\ todo'[p] = todo[p]
        /\ newContents'[p] = newContents[p]
    BY <1>3, <1>8 DEF StageSnapshot, StageBytes, dbVars, txnVars, blobWork, history
  <2>2. \A i \in Snapshots(p) : i < item'[p] => i < item[p] \/ i = item[p]
    BY <2>1, PastTheLast
  <2>3. StagesOf(p)' /\ FilesOf(p)'
    BY <1>1, <1>2, <2>1, <2>2 DEF StagesOf, FilesOf
  <2>4. QED
    BY <1>4, <2>1, <2>3
<1>9. CASE Staged(p)
  <2>1. /\ Same /\ pc[p] = "stage" /\ pc'[p] = "begin" /\ item[p] \notin Snapshots(p)
        /\ UNCHANGED <<stage, todo, newContents>>
    BY <1>3, <1>9 DEF Staged, blobVars, dbVars, txnVars, blobWork, history, Goto
  <2>2. \A i \in Snapshots(p) : i < item[p]
    BY <2>1, PastTheLast
  <2>3. StagesOf(p)' /\ FilesOf(p)'
    BY <1>1, <1>2, <2>1, <2>2 DEF StagesOf, FilesOf
  <2>4. QED
    BY <1>4, <2>1, <2>3
<1>10. CASE Begin(p) \/ ReserveKey(p)
  <2>1. /\ Same /\ pc[p] \in {"begin", "check"} /\ pc'[p] \in {"check", "prepare"}
        /\ item'[p] = 1 /\ todo[p] = {}
        /\ UNCHANGED <<stage, todo, newContents>>
    BY <1>2, <1>3, <1>10 DEF Begin, ReserveKey, blobVars, dbVars, txnVars, blobWork,
       history, Goto, TxnOK, Open, StagesOf
  <2>2. StagesOf(p)' /\ FilesOf(p)'
    BY <1>1, <1>2, <2>1 DEF StagesOf, FilesOf
  <2>3. QED
    BY <1>4, <2>1, <2>2
<1>11. CASE ReuseVersion(p) \/ ReuseContent(p)
  <2>1. /\ Same /\ pc[p] = "prepare" /\ pc'[p] = "prepare" /\ item'[p] = item[p] + 1
        /\ stage'[p] = stage[p] \ {item[p]} /\ UNCHANGED <<todo, newContents>>
    BY <1>3, <1>11 DEF ReuseVersion, ReuseContent, Preparing, Discard, dbVars, txnVars,
       blobWork, history
  <2>2. /\ \A i \in Snapshots(p) : i < item[p] \/ i = item[p] => i < item'[p]
        /\ item[p] \in Nat /\ \A i \in todo[p] : i \in Nat /\ (i < item[p] => i < item'[p] /\ i # item[p])
    BY <1>3, <2>1, PastTheLast
  <2>3. StagesOf(p)'
    BY <1>1, <1>2, <2>1, <2>2 DEF StagesOf
  <2>4. FilesOf(p)'
    BY <1>1, <1>2, <2>1 DEF FilesOf
  <2>5. QED
    BY <1>4, <2>1, <2>3, <2>4
<1>12. CASE InsertContent(p)
  <2>1. /\ Same /\ pc[p] = "prepare" /\ pc'[p] = "prepare" /\ item'[p] = item[p] + 1
        /\ item[p] \in Snapshots(p) /\ todo'[p] = todo[p] \cup {item[p]}
        /\ UNCHANGED stage
        /\ newContents'[p] = newContents[p] \cup {HashAt(p, item[p])}
    BY <1>3, <1>12 DEF InsertContent, Preparing, HashAt, blobVars, dbVars, history
  <2>2. /\ \A i \in Snapshots(p) : i < item[p] \/ i = item[p] => i < item'[p]
        /\ item[p] \in Nat /\ ~(item[p] < item[p])
        /\ \A i \in todo[p] : i < item[p] => i < item'[p]
    BY <1>3, <2>1, PastTheLast
  <2>3. StagesOf(p)'
    BY <1>1, <1>2, <2>1, <2>2 DEF StagesOf
  <2>4. FilesOf(p)'
    BY <1>1, <1>2, <2>1 DEF FilesOf
  <2>5. QED
    BY <1>4, <2>1, <2>3, <2>4
<1>13. CASE Prepared(p) \/ WriteRecords(p)
  <2>1. /\ Same /\ pc[p] \in {"prepare", "write"} /\ pc'[p] \in {"write", "finalize"}
        /\ pc'[p] = "finalize" => job[p].kind # "validate"
        /\ UNCHANGED <<stage, todo, newContents>>
    BY <1>3, <1>13 DEF Prepared, WriteRecords, blobVars, dbVars, txnVars, blobWork,
       history, Goto
  <2>2. StagesOf(p)' /\ FilesOf(p)'
    BY <1>1, <1>2, <2>1 DEF StagesOf, FilesOf
  <2>3. QED
    BY <1>4, <2>1, <2>2
<1>14. ASSUME NEW i \in todo[p], FinalizeBlob(p, i)
      PROVE  FilesInv'
  <2>1. /\ pc[p] = "finalize" /\ pc'[p] = "finalize" /\ UNCHANGED <<contents, orphans>>
        /\ files' = files \cup {HashAt(p, i)}
        /\ stage'[p] = stage[p] \ {i} /\ todo'[p] = todo[p] \ {i}
        /\ made'[p] = IF HashAt(p, i) \in files THEN made[p] ELSE made[p] \cup {HashAt(p, i)}
        /\ newContents'[p] = newContents[p]
    BY <1>3, <1>14 DEF FinalizeBlob, Finalize, Reused, dbVars, txnVars, history
  <2>2. job[p].kind = "capture" => todo'[p] = {}
    BY <1>2, <2>1, CaptureHasOne DEF TypeOK, CallOK
  <2>3. StagesOf(p)'
    BY <1>1, <1>2, <2>1 DEF StagesOf
  <2>4. FilesOf(p)'
    BY <1>1, <1>2, <2>1, <2>2 DEF FilesOf
  <2>5. QED
    BY <1>0, <2>1, <2>3, <2>4, FilesFrom
<1>15. CASE Commit(p) \/ CommitUnacknowledged(p)
  <2>1. /\ UNCHANGED <<files, stage, made, todo, orphans>> /\ todo[p] = {}
        /\ pc[p] = "finalize" /\ pc'[p] = "discard"
        /\ contents' = contents \cup newContents[p]
    BY <1>3, <1>15 DEF Commit, CommitUnacknowledged, CommitRows, AfterException, Goto,
       blobVars
  <2>2. StagesOf(p)' /\ FilesOf(p)'
    BY <1>1, <1>2, <2>1 DEF StagesOf, FilesOf
  <2>3. QED
    BY <1>0, <2>1, <2>2, FilesFrom
<1>16. ASSUME NEW h \in made[p], UndoFinalize(p, h)
      PROVE  FilesInv'
  <2>1. /\ files' = files \ {h} /\ UNCHANGED <<stage, contents, orphans, todo>>
        /\ pc[p] = "undo" /\ pc'[p] = IF made[p] = {h} THEN "discard" ELSE "undo"
        /\ made'[p] = made[p] \ {h} /\ todo[p] = {}
    BY <1>2, <1>3, <1>16 DEF UndoFinalize, RollbackFinalize, Goto, dbVars, history, TxnOK, Open
  <2>2. StagesOf(p)' /\ FilesOf(p)'
    BY <1>1, <1>2, <2>1 DEF StagesOf, FilesOf
  <2>3. QED
    BY <1>0, <2>1, <2>2, FilesFrom
<1>17. CASE UndoFails(p)
  <2>1. /\ UNCHANGED <<files, stage, contents, todo>> /\ todo[p] = {}
        /\ pc[p] = "undo" /\ pc'[p] = "discard"
        /\ orphans' = orphans \cup made[p] /\ made'[p] = {}
    BY <1>2, <1>3, <1>17 DEF UndoFails, Goto, blobVars, dbVars, TxnOK, Open
  <2>2. StagesOf(p)' /\ FilesOf(p)'
    BY <1>1, <1>2, <2>1 DEF StagesOf, FilesOf
  <2>3. QED
    BY <1>0, <2>1, <2>2, FilesFrom
<1>18. CASE DiscardStages(p) \/ Crash(p)
  <2>1. /\ UNCHANGED <<files, contents>> /\ todo'[p] = {} /\ item'[p] = 1
        /\ pc'[p] = "idle" /\ made'[p] = {} /\ orphans \subseteq orphans'
        /\ made[p] \subseteq contents \cup orphans'
    BY <1>2, <1>3, <1>18 DEF DiscardStages, DiscardAll, Crash, LoseStages, Goto, dbVars,
       history, TxnOK, Open, FilesOf
  <2>2. StagesOf(p)' /\ FilesOf(p)'
    BY <2>1 DEF StagesOf, FilesOf
  <2>3. QED
    BY <1>0, <2>1, <2>2, FilesFrom
<1>19. QED
  BY <1>5, <1>6, <1>7, <1>8, <1>9, <1>10, <1>11, <1>12, <1>13, <1>14, <1>15, <1>16, <1>17,
     <1>18 DEF Step, Stage, CheckKey, Prepare, Write, Finish, Unwind

LEMMA NextFiles == TypeOK /\ FilesInv /\ [Next]_vars => FilesInv'
<1> SUFFICES ASSUME TypeOK, FilesInv, [Next]_vars
             PROVE  FilesInv'
  OBVIOUS
<1>1. CASE UNCHANGED vars
  BY <1>1 DEF vars, blobVars, dbVars, txnVars, blobWork, history, FilesInv, FilesAccounted,
              StagesOf, FilesOf, HashAt, Snapshots, ItemsOf, BodyOf
<1>2. ASSUME NEW p \in Proc, NEW j \in Job, Submit(p, j)
      PROVE  FilesInv'
  <2>1. /\ UNCHANGED <<files, stage, contents, newContents, item, todo, made, orphans>>
        /\ pc[p] = "idle" /\ pc'[p] = "stage" /\ todo[p] = {}
        /\ \A q \in Proc \ {p} : pc'[q] = pc[q] /\ job'[q] = job[q]
    BY <1>2 DEF Submit, Goto, blobVars, dbVars, txnVars, blobWork, history, TypeOK, ShapeOK,
       TxnOK, Open
  <2>2. FilesAccounted'
    BY <2>1 DEF FilesInv, FilesAccounted
  <2>3. \A i \in Snapshots(p)' : ~(i < 1)
    <3>1. Items[j.body] \in Seq(Version \X Hash) /\ job'[p] = j
      BY <1>2, DepositAssumption DEF Submit, TypeOK, ShapeOK
    <3>2. QED
      BY <3>1 DEF Snapshots, ItemsOf, BodyOf
  <2>4. StagesOf(p)' /\ FilesOf(p)'
    BY <2>1, <2>3 DEF FilesInv, StagesOf, FilesOf
  <2>5. \A q \in Proc \ {p} : StagesOf(q)' /\ FilesOf(q)'
    BY <2>1 DEF FilesInv, StagesOf, FilesOf, HashAt, Snapshots, ItemsOf, BodyOf
  <2>6. QED
    BY <2>2, <2>4, <2>5 DEF FilesInv
<1>3. QED
  BY <1>1, <1>2, StepFiles, NextType DEF Next

LEMMA FilesInit == Init => FilesInv
BY DEF Init, BlobInit, FilesInv, FilesAccounted, StagesOf, FilesOf

\* What is to be finalized is staged; and no final file is left by a refused
\* call, but by the crashes and failures that the orphans are of.
THEOREM FilesStayAccounted == Spec => []FilesAccounted
<1>1. FilesInv => FilesAccounted
  BY DEF FilesInv
<1>2. QED
  BY <1>1, TypeCorrect, InitType, NextType, FilesInit, NextFiles, PTL DEF Spec

-----------------------------------------------------------------------------
(***************************************************************************)
(* Dangling versions.  A committed version can lose its blob only when a   *)
(* call that undoes one shares it with another process: not in a setting   *)
(* where a request of several contents shares none of them.                *)
(***************************************************************************)

HashesIn(b) == {Items[b][i][2] : i \in DOMAIN Items[b]}
OneContent(b) == \A g, h \in HashesIn(b) : g = h

Unshared(p, j) ==
  \A q \in Proc \ {p} : \A k \in setting.jobs[q] :
    HashesIn(j.body) \cap HashesIn(k.body) = {}

BlobsApart ==
  \A p \in Proc : \A j \in setting.jobs[p] : OneContent(j.body) \/ Unshared(p, j)

\* What a call adds is of its request, and has its file or waits for it.  One
\* that may undo blobs has them to itself; the other never has one to undo.
BlobsOf(p) ==
  /\ job[p] \in setting.jobs[p]
  /\ made[p] \cup newContents[p] \subseteq HashesIn(BodyOf(p))
  /\ newContents[p] \subseteq files \cup PendingHash(p)
  /\ OneContent(BodyOf(p)) => \A i, j \in todo[p] : i = j
  /\ pc[p] \in {"finalize", "undo"} =>
       \/ Unshared(p, job[p]) /\ made[p] \cap contents = {}
       \/ /\ OneContent(BodyOf(p)) /\ pc[p] = "finalize"
          /\ todo[p] = {} \/ made[p] = {}

BlobInv ==
  /\ BlobsApart
  /\ contents \subseteq files
  /\ \A p \in Proc : pc[p] # "idle" => BlobsOf(p)

LEMMA HashesOfRequest ==
  ASSUME NEW p \in Proc
  PROVE  \A i \in Snapshots(p) : HashAt(p, i) \in HashesIn(BodyOf(p))
BY DEF HashAt, Snapshots, ItemsOf, BodyOf, HashesIn

LEMMA SameHashes ==
  ASSUME job' = job, NEW q \in Proc
  PROVE  /\ BodyOf(q)' = BodyOf(q)
         /\ \A i : HashAt(q, i)' = HashAt(q, i)
BY DEF HashAt, ItemsOf, BodyOf

\* The pending hashes of a process that keeps its job and its list.
LEMMA SamePending ==
  ASSUME job' = job, NEW q \in Proc, todo'[q] = todo[q]
  PROVE  PendingHash(q)' = PendingHash(q)
<1>1. \A i : HashAt(q, i)' = HashAt(q, i)
  BY SameHashes
<1>2. QED
  BY <1>1 DEF PendingHash

\* A step of p commits only what is its own, and removes only what no other
\* process has: the others are not concerned.
LEMMA BlobsFrom ==
  ASSUME TypeOK, BlobInv, NEW p \in Proc, OthersSame(p), setting' = setting,
         pc[p] # "idle", NEW gone, files \ gone \subseteq files',
         gone = {} \/ (Unshared(p, job[p]) /\ gone \subseteq HashesIn(BodyOf(p))),
         contents' \subseteq contents \cup newContents[p],
         contents' \subseteq files',
         pc'[p] # "idle" => BlobsOf(p)'
  PROVE  BlobInv'
<1>1. job[p] \in setting.jobs[p] /\ newContents[p] \subseteq HashesIn(BodyOf(p))
  BY DEF BlobInv, BlobsOf
<1>2. ASSUME NEW q \in Proc \ {p}, pc'[q] # "idle"
      PROVE  BlobsOf(q)'
  <2>1. /\ pc'[q] = pc[q] /\ todo'[q] = todo[q] /\ made'[q] = made[q] /\ job' = job
        /\ newContents'[q] = newContents[q]
    BY DEF OthersSame
  <2>2. BlobsOf(q)
    BY <1>2, <2>1 DEF BlobInv
  <2>3. BodyOf(q)' = BodyOf(q) /\ PendingHash(q)' = PendingHash(q)
        /\ Unshared(q, job[q])' = Unshared(q, job[q])
    BY <2>1, SameHashes, SamePending DEF Unshared
  <2>4. gone \cap newContents[q] = {}
    <3>1. Unshared(p, job[p]) => HashesIn(BodyOf(p)) \cap HashesIn(BodyOf(q)) = {}
      BY <2>2 DEF Unshared, BlobsOf, BodyOf
    <3>2. QED
      BY <2>2, <3>1 DEF BlobsOf
  <2>5. Unshared(q, job[q]) => made[q] \cap newContents[p] = {}
    <3>1. Unshared(q, job[q]) => HashesIn(BodyOf(q)) \cap HashesIn(BodyOf(p)) = {}
      BY <1>1 DEF Unshared, BodyOf
    <3>2. QED
      BY <1>1, <2>2, <3>1 DEF BlobsOf
  <2>6. newContents'[q] \subseteq files' \cup PendingHash(q)'
    BY <2>1, <2>2, <2>3, <2>4 DEF BlobsOf
  <2>7. Unshared(q, job[q]) /\ made[q] \cap contents = {} => made'[q] \cap contents' = {}
    BY <2>1, <2>5
  <2>8. QED
    BY <2>1, <2>2, <2>3, <2>6, <2>7 DEF BlobsOf
<1>3. BlobsApart'
  BY DEF BlobInv, BlobsApart, Unshared
<1>4. QED
  BY <1>2, <1>3 DEF BlobInv

\* A step after which p's own part is easily seen: it commits nothing, removes
\* nothing, and reaches no location where blobs are at stake.
LEMMA BlobsQuiet ==
  ASSUME TypeOK, BlobInv, FilesInv, NEW p \in Proc, OthersSame(p), setting' = setting,
         pc[p] # "idle", files \subseteq files', contents' = contents,
         made'[p] \subseteq made[p], newContents'[p] \subseteq newContents[p],
         todo'[p] \subseteq todo[p],
         newContents'[p] = {} \/ todo'[p] = todo[p],
         pc'[p] # "undo", pc'[p] = "finalize" => made[p] = {}
  PROVE  BlobInv'
<1>1. BlobsOf(p) /\ BlobsApart
  BY DEF BlobInv
<1>2. BodyOf(p)' = BodyOf(p) /\ job' = job /\ \A i : HashAt(p, i)' = HashAt(p, i)
  BY SameHashes DEF OthersSame
<1>3. newContents'[p] \subseteq files' \cup PendingHash(p)'
  BY <1>1, <1>2 DEF BlobsOf, PendingHash
<1>4. Unshared(p, job[p])' = Unshared(p, job[p])
  BY <1>2 DEF Unshared
<1>5. OneContent(BodyOf(p)) \/ Unshared(p, job[p])
  BY <1>1 DEF BlobsApart, BlobsOf, BodyOf
<1>6. BlobsOf(p)'
  BY <1>1, <1>2, <1>3, <1>4, <1>5 DEF BlobsOf
<1>7. contents' \subseteq files'
  BY DEF BlobInv
<1>8. QED
  BY <1>6, <1>7, BlobsFrom

\* An exception leads to an undo only where the blobs are the call's own.
LEMMA LeaveBlobs ==
  ASSUME TypeOK, BlobInv, FilesInv, NEW p \in Proc, OthersSame(p), setting' = setting,
         NEW outcome, NEW started \in BOOLEAN, Leave(p, outcome, started),
         pc[p] \in Busy, UNCHANGED made, files \subseteq files',
         made[p] = {} \/ started \/ (pc[p] = "finalize" /\ todo[p] # {})
  PROVE  BlobInv'
<1>1. /\ pc'[p] = AfterException(p, started) /\ contents' = contents /\ job' = job
      /\ todo'[p] = {} /\ newContents'[p] = {} /\ pc'[p] \in {"undo", "discard"}
  BY DEF Leave, RollbackRows, Goto, dbVars, TypeOK, ShapeOK, AfterException
<1>2. pc[p] # "idle"
  BY DEF Busy, Open
<1>3. CASE pc'[p] = "discard"
  BY <1>1, <1>2, <1>3, BlobsQuiet
<1>4. CASE pc'[p] = "undo"
  <2>1. made[p] # {} /\ pc[p] = "finalize" /\ todo[p] # {}
    BY <1>1, <1>4 DEF AfterException
  <2>2. BlobsOf(p)
    BY <1>2 DEF BlobInv
  <2>3. Unshared(p, job[p]) /\ made[p] \cap contents = {}
    BY <2>1, <2>2 DEF BlobsOf
  <2>4. Unshared(p, job[p])' /\ BodyOf(p)' = BodyOf(p)
    BY <1>1, <2>3, SameHashes DEF Unshared
  <2>5. BlobsOf(p)'
    BY <1>1, <2>2, <2>3, <2>4 DEF BlobsOf
  <2>6. contents' \subseteq contents \cup newContents[p] /\ contents' \subseteq files'
    BY <1>1 DEF BlobInv
  <2>7. QED
    BY <1>2, <2>5, <2>6, BlobsFrom
<1>5. QED
  BY <1>1, <1>3, <1>4

LEMMA StepBlobs ==
  ASSUME TypeOK, FilesInv, BlobInv, NEW p \in Proc,
         Step(p) \/ Crash(p), setting' = setting
  PROVE  BlobInv'
<1>0. OthersSame(p)
  BY StepType, CrashType DEF Keeps
<1>1. job' = job /\ BodyOf(p)' = BodyOf(p) /\ (\A i : HashAt(p, i)' = HashAt(p, i))
      /\ Unshared(p, job[p])' = Unshared(p, job[p])
  BY <1>0, SameHashes DEF OthersSame, Unshared
<1>2. StagesOf(p) /\ FilesOf(p) /\ CallOK(p) /\ TxnOK(p)
  BY DEF FilesInv, TypeOK
<1>3. /\ pc \in [Proc -> Busy \cup {"idle"}]
      /\ todo \in [Proc -> SUBSET Nat]
      /\ made \in [Proc -> SUBSET Hash] /\ newContents \in [Proc -> SUBSET Hash]
  BY DEF TypeOK, ShapeOK
<1>4. pc[p] # "idle" => BlobsOf(p)
  BY DEF BlobInv
<1>5. CASE StageFails(p) \/ LockTimeout(p) \/ AnswerFromReceipt(p) \/ ReserveFails(p)
           \/ PrepareFails(p) \/ ReturnValidated(p) \/ WriteFails(p) \/ FinalizeFails(p)
  <2>1. /\ \E outcome : Fail(p, outcome)
        /\ pc[p] \in {"stage", "begin", "prepare", "check", "write", "finalize"}
        /\ pc[p] = "finalize" => todo[p] # {}
    BY <1>5 DEF StageFails, LockTimeout, NeedsWriteLock, AnswerFromReceipt, ReserveFails,
       PrepareFails, Preparing, ReturnValidated, WriteFails, FinalizeFails
  <2>2. made[p] = {} \/ (pc[p] = "finalize" /\ todo[p] # {})
    BY <1>2, <2>1 DEF FilesOf
  <2>3. QED
    BY <1>0, <2>1, <2>2, LeaveBlobs DEF Fail, blobVars, Busy, Open
<1>6. CASE CommitFails(p)
  BY <1>0, <1>6, LeaveBlobs DEF CommitFails, blobVars, Busy, Open
<1>7. ASSUME NEW i \in todo[p], FinalizeInterrupted(p, i)
      PROVE  BlobInv'
  <2>1. /\ Leave(p, "error", FALSE) /\ UNCHANGED made /\ pc[p] = "finalize"
        /\ todo[p] # {} /\ files \subseteq files'
    BY <1>7 DEF FinalizeInterrupted, Finalize
  <2>2. QED
    BY <1>0, <2>1, LeaveBlobs DEF Busy, Open
<1>8. CASE StageSnapshot(p) \/ Staged(p) \/ Begin(p) \/ ReserveKey(p) \/ ReuseVersion(p)
           \/ ReuseContent(p) \/ Prepared(p)
  <2>1. /\ UNCHANGED <<files, contents, made, todo, newContents>> /\ pc[p] # "idle"
        /\ pc'[p] \in {"stage", "begin", "check", "prepare", "write"}
    BY <1>3, <1>8 DEF StageSnapshot, Staged, Begin, ReserveKey, ReuseVersion, ReuseContent,
       Prepared, Preparing, StageBytes, Discard, Goto, blobVars, dbVars, txnVars, blobWork
  <2>2. QED
    BY <1>0, <2>1, BlobsQuiet
<1>9. CASE WriteRecords(p)
  <2>1. /\ UNCHANGED <<files, contents, made, todo, newContents>> /\ pc[p] = "write"
        /\ pc'[p] = "finalize" /\ made[p] = {}
    BY <1>2, <1>3, <1>9 DEF WriteRecords, Goto, blobVars, dbVars, txnVars, blobWork, FilesOf
  <2>2. QED
    BY <1>0, <2>1, BlobsQuiet
<1>10. CASE InsertContent(p)
  <2> DEFINE h == HashAt(p, item[p])
  <2>1. /\ pc[p] = "prepare" /\ pc'[p] = "prepare" /\ item[p] \in Snapshots(p)
        /\ todo'[p] = todo[p] \cup {item[p]} /\ UNCHANGED <<files, contents, made>>
        /\ newContents'[p] = newContents[p] \cup {h} /\ h \notin newContents[p]
    BY <1>3, <1>10 DEF InsertContent, Preparing, HashAt, SeenContents, blobVars, dbVars
  <2>2. BlobsOf(p) /\ h \in HashesIn(BodyOf(p))
    BY <1>4, <2>1, HashesOfRequest
  <2>3. \A i \in todo[p] : HashAt(p, i) \in newContents[p]
    BY <1>2 DEF FilesOf
  <2> HIDE DEF h
  <2>4. OneContent(BodyOf(p)) => todo[p] = {}
    BY <2>1, <2>2, <2>3 DEF OneContent, BlobsOf
  <2>5. newContents'[p] \subseteq files' \cup PendingHash(p)'
    <3>1. \A i \in todo[p] \cup {item[p]} : HashAt(p, i) \in PendingHash(p)'
      BY <1>1, <2>1 DEF PendingHash
    <3>2. \A g \in newContents[p] : g \in files \/ \E i \in todo[p] : g = HashAt(p, i)
      BY <2>2 DEF BlobsOf, PendingHash
    <3>3. QED
      BY <2>1, <3>1, <3>2 DEF h
  <2>6. BlobsOf(p)'
    BY <1>1, <2>1, <2>2, <2>4, <2>5 DEF BlobsOf
  <2>7. contents' \subseteq contents \cup newContents[p] /\ contents' \subseteq files'
    BY <2>1 DEF BlobInv
  <2>8. QED
    BY <1>0, <2>1, <2>6, <2>7, BlobsFrom
<1>11. ASSUME NEW i \in todo[p], FinalizeBlob(p, i)
      PROVE  BlobInv'
  <2> DEFINE h == HashAt(p, i)
  <2>1. /\ pc[p] = "finalize" /\ pc'[p] = "finalize" /\ UNCHANGED <<contents, newContents>>
        /\ files' = files \cup {h} /\ todo'[p] = todo[p] \ {i}
        /\ made'[p] = IF h \in files THEN made[p] ELSE made[p] \cup {h}
    BY <1>3, <1>11 DEF FinalizeBlob, Finalize, Reused, dbVars, txnVars
  <2>2. BlobsOf(p) /\ i \in Snapshots(p) /\ h \in HashesIn(BodyOf(p))
    BY <1>2, <1>4, <2>1, HashesOfRequest DEF CallOK
  <2>3. newContents'[p] \subseteq files' \cup PendingHash(p)'
    <3>1. \A k \in todo[p] \ {i} : HashAt(p, k) \in PendingHash(p)'
      BY <1>1, <2>1 DEF PendingHash
    <3>2. \A g \in newContents[p] : g \in files \/ \E k \in todo[p] : g = HashAt(p, k)
      BY <2>2 DEF BlobsOf, PendingHash
    <3>3. QED
      BY <2>1, <3>1, <3>2
  <2> HIDE DEF h
  <2>4. contents \subseteq files
    BY DEF BlobInv
  <2>5. made[p] \cap contents = {} => made'[p] \cap contents' = {}
    BY <2>1, <2>4
  <2>6. OneContent(BodyOf(p)) => todo'[p] = {}
    BY <2>1, <2>2 DEF BlobsOf
  <2>7. BlobsOf(p)'
    BY <1>1, <2>1, <2>2, <2>3, <2>5, <2>6 DEF BlobsOf
  <2>8. files \subseteq files' /\ contents' \subseteq contents \cup newContents[p]
        /\ contents' \subseteq files'
    BY <2>1, <2>4
  <2>9. QED
    BY <1>0, <2>1, <2>7, <2>8, BlobsFrom
<1>12. CASE Commit(p) \/ CommitUnacknowledged(p)
  <2>1. /\ UNCHANGED <<files, made, todo>> /\ todo[p] = {}
        /\ pc[p] = "finalize" /\ pc'[p] = "discard" /\ newContents'[p] = {}
        /\ contents' = contents \cup newContents[p]
    BY <1>3, <1>12 DEF Commit, CommitUnacknowledged, CommitRows, RollbackRows,
       AfterException, Goto, blobVars
  <2>2. newContents[p] \subseteq files
    BY <1>4, <2>1 DEF BlobsOf, PendingHash
  <2>3. BlobsOf(p)'
    BY <1>1, <1>4, <2>1 DEF BlobsOf
  <2>4. contents' \subseteq files'
    BY <2>1, <2>2 DEF BlobInv
  <2>5. QED
    BY <1>0, <2>1, <2>3, <2>4, BlobsFrom
<1>13. ASSUME NEW h \in made[p], UndoFinalize(p, h)
      PROVE  BlobInv'
  <2>1. /\ files' = files \ {h} /\ UNCHANGED <<contents, todo, newContents>>
        /\ pc[p] = "undo" /\ pc'[p] \in {"undo", "discard"}
        /\ made'[p] = made[p] \ {h} /\ newContents[p] = {}
    BY <1>2, <1>3, <1>13 DEF UndoFinalize, RollbackFinalize, Goto, dbVars, txnVars, TxnOK, Open
  <2>2. BlobsOf(p)
    BY <1>4, <2>1
  <2>3. Unshared(p, job[p]) /\ made[p] \cap contents = {} /\ h \in HashesIn(BodyOf(p))
    BY <2>1, <2>2 DEF BlobsOf
  <2>4. BlobsOf(p)'
    BY <1>1, <2>1, <2>2, <2>3 DEF BlobsOf
  <2>5. contents' \subseteq contents \cup newContents[p] /\ contents' \subseteq files'
    BY <2>1, <2>3 DEF BlobInv
  <2> DEFINE gone == {h}
  <2>6. files \ gone \subseteq files' /\ gone \subseteq HashesIn(BodyOf(p))
    BY <2>1, <2>3
  <2> HIDE DEF gone
  <2>7. QED
    BY <1>0, <2>1, <2>3, <2>4, <2>5, <2>6, BlobsFrom
<1>14. CASE UndoFails(p) \/ DiscardStages(p) \/ Crash(p)
  <2>1. /\ UNCHANGED <<files, contents>> /\ pc[p] # "idle" /\ pc'[p] \in {"idle", "discard"}
        /\ made'[p] = {}
        /\ newContents'[p] \subseteq newContents[p] /\ todo'[p] \subseteq todo[p]
        /\ newContents'[p] = {} \/ todo'[p] = todo[p]
    BY <1>3, <1>14 DEF UndoFails, DiscardStages, DiscardAll, Crash, RollbackRows, LoseStages,
       Goto, blobVars, dbVars, txnVars, Busy, Open
  <2>2. QED
    BY <1>0, <2>1, BlobsQuiet
<1>15. QED
  BY <1>5, <1>6, <1>7, <1>8, <1>9, <1>10, <1>11, <1>12, <1>13, <1>14
     DEF Step, Stage, CheckKey, Prepare, Write, Finish, Unwind

LEMMA NextBlobs == TypeOK /\ FilesInv /\ BlobInv /\ [Next]_vars => BlobInv'
<1> SUFFICES ASSUME TypeOK, FilesInv, BlobInv, [Next]_vars
             PROVE  BlobInv'
  OBVIOUS
<1>1. CASE UNCHANGED vars
  <2>1. UNCHANGED <<setting, files, contents, newContents, todo, made, pc, job>>
    BY <1>1 DEF vars, blobVars, dbVars, txnVars, blobWork
  <2>2. \A p \in Proc : PendingHash(p)' = PendingHash(p) /\ BodyOf(p)' = BodyOf(p)
                       /\ Unshared(p, job[p])' = Unshared(p, job[p])
    BY <2>1, SamePending, SameHashes DEF Unshared
  <2>3. \A p \in Proc : BlobsOf(p) => BlobsOf(p)'
    BY <2>1, <2>2 DEF BlobsOf
  <2>4. BlobsApart => BlobsApart'
    BY <2>1 DEF BlobsApart, Unshared
  <2>5. QED
    BY <2>1, <2>3, <2>4 DEF BlobInv
<1>2. ASSUME NEW p \in Proc, NEW j \in Job, Submit(p, j), setting' = setting
      PROVE  BlobInv'
  <2>1. /\ UNCHANGED <<files, contents, newContents, todo, made>>
        /\ pc[p] = "idle" /\ pc'[p] = "stage" /\ j \in setting.jobs[p] /\ job'[p] = j
        /\ todo[p] = {} /\ newContents[p] = {} /\ made[p] = {}
        /\ \A q \in Proc \ {p} : pc'[q] = pc[q] /\ job'[q] = job[q]
    BY <1>2 DEF Submit, Goto, blobVars, dbVars, txnVars, blobWork, TypeOK, ShapeOK,
       TxnOK, Open, FilesInv, FilesOf
  <2>2. BlobsOf(p)'
    BY <1>2, <2>1 DEF BlobsOf
  <2>3. ASSUME NEW q \in Proc \ {p}, pc[q] # "idle"
        PROVE  BlobsOf(q)'
    <3>1. BlobsOf(q) /\ BodyOf(q)' = BodyOf(q) /\ PendingHash(q)' = PendingHash(q)
          /\ Unshared(q, job[q])' = Unshared(q, job[q])
      BY <1>2, <2>1, <2>3 DEF BlobInv, BodyOf, PendingHash, HashAt, ItemsOf, Unshared
    <3>2. QED
      BY <1>2, <2>1, <3>1 DEF BlobsOf
  <2>4. BlobsApart' /\ contents' \subseteq files'
    BY <1>2, <2>1 DEF BlobInv, BlobsApart, Unshared
  <2>5. QED
    BY <2>1, <2>2, <2>3, <2>4 DEF BlobInv
<1>3. ASSUME NEW p \in Proc, Step(p) \/ (Crash(p) /\ UNCHANGED setting)
      PROVE  BlobInv'
  BY <1>3, StepBlobs DEF Step
<1>4. QED
  BY <1>1, <1>2, <1>3 DEF Next

\* Every committed source version has its object and its file, as long as a
\* request of several contents shares none of them with another process: the
\* undo of such a request is the only way to lose one.
THEOREM DanglingOnlyBySharing == Spec /\ BlobsApart => []NoDanglingVersion
<1>1. Init /\ BlobsApart => BlobInv
  BY DEF Init, BlobInit, BlobInv
<1>2. BlobInv /\ RowsInv => NoDanglingVersion
  BY DEF BlobInv, RowsInv, VersionsHaveContent, NoDanglingVersion, Readable
<1>3. QED
  BY <1>1, <1>2, TypeCorrect, RowsCorrect, InitType, NextType, FilesInit, NextFiles,
     NextBlobs, PTL DEF Spec
==============================================================================
