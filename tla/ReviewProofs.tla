----------------------------- MODULE ReviewProofs -----------------------------
(***************************************************************************)
(* Proofs about ClaimReview, for any number of processes, targets, keys    *)
(* and revisions, on both databases.                                       *)
(***************************************************************************)
EXTENDS ClaimReview, SequenceTheorems, TLAPS

-----------------------------------------------------------------------------
(***************************************************************************)
(* Events                                                                  *)
(***************************************************************************)

\* The state that the events give a revision is a review state.
LEMMA StateOfType ==
  ASSUME NEW evs \in Seq(Event), NEW n
  PROVE  StateOf(evs, n) \in ReviewState
<1>1. CASE LatestOn(evs, n) = {}
  BY <1>1 DEF StateOf, ReviewState
<1>2. CASE LatestOn(evs, n) # {}
  <2>1. (CHOOSE i \in LatestOn(evs, n) : TRUE) \in DOMAIN evs
    BY <1>2 DEF LatestOn, DecisionsOn
  <2>2. evs[CHOOSE i \in LatestOn(evs, n) : TRUE] \in Event
    BY <2>1
  <2>3. StateOf(evs, n) = evs[CHOOSE i \in LatestOn(evs, n) : TRUE].to
    BY <1>2 DEF StateOf
  <2>4. QED
    BY <2>2, <2>3 DEF Event
<1>3. QED
  BY <1>1, <1>2

\* An event that is no decision leaves every revision's state alone.
LEMMA OnlyDecisionsCount ==
  ASSUME NEW evs \in Seq(Event), NEW ev \in Event, NEW n, NEW rev,
         ev.action \notin Decision
  PROVE  /\ StateOf(Append(evs, ev), n) = StateOf(evs, n)
         /\ Conflicted(rev, Append(evs, ev), n) = Conflicted(rev, evs, n)
<1>1. /\ DOMAIN evs \subseteq DOMAIN Append(evs, ev)
      /\ \A i \in DOMAIN evs : Append(evs, ev)[i] = evs[i]
      /\ \A i \in DOMAIN Append(evs, ev) :
           i \notin DOMAIN evs => Append(evs, ev)[i] = ev
  OBVIOUS
<1>2. DecisionsOn(Append(evs, ev), n) = DecisionsOn(evs, n)
  BY <1>1 DEF DecisionsOn
<1>3. LatestOn(Append(evs, ev), n) = LatestOn(evs, n)
  BY <1>2 DEF LatestOn
<1>4. LatestOn(evs, n) \subseteq DOMAIN evs
  BY DEF LatestOn, DecisionsOn
<1>5. StateOf(Append(evs, ev), n) = StateOf(evs, n)
  <2>1. CASE LatestOn(evs, n) = {}
    BY <2>1, <1>3 DEF StateOf
  <2>2. CASE LatestOn(evs, n) # {}
    <3>1. (CHOOSE i \in LatestOn(evs, n) : TRUE) \in DOMAIN evs
      BY <2>2, <1>4
    <3>2. QED
      BY <2>2, <3>1, <1>1, <1>3 DEF StateOf
  <2>3. QED
    BY <2>1, <2>2
<1>6. Conflicted(rev, Append(evs, ev), n) = Conflicted(rev, evs, n)
  BY <1>1, <1>3, <1>4 DEF Conflicted
<1>7. QED
  BY <1>5, <1>6

-----------------------------------------------------------------------------
(***************************************************************************)
(* Steps.  A step of p starts its call, moves it, ends it without effect   *)
(* or applies it; in every case the other processes are left alone.        *)
(***************************************************************************)

OthersSame(p) ==
  \A q \in Proc \ {p} :
    /\ pc'[q] = pc[q] /\ call'[q] = call[q]
    /\ base'[q] = base[q] /\ seen'[q] = seen[q]

Starts(p) ==
  /\ pc[p] = "idle"
  /\ \E x \in ACall : Start(p, x.key, x.req)

Ends(p) == pc[p] # "idle" /\ End(p) /\ UNCHANGED <<backend, dbVars>>

Moves(p) ==
  /\ Starts(p) \/ Begin(p) \/ Query(p) \/ Lock(p) \/ Ends(p) \/ Apply(p)
  /\ UNCHANGED clients

\* The request that a client composes.
LEMMA ComposeType ==
  ASSUME TypeOK, NEW i \in Intent
  PROVE  Compose(i) \in Request
<1>1. i \in [target : Target, action : Action,
             status : Status \cup {"none"}, guarded : BOOLEAN]
  BY ReviewAssumption
<1>2. StateNow(i.target) \in ReviewState
  BY <1>1, StateOfType DEF StateNow, TypeOK
<1>3. current[i.target] \in Nat
  BY <1>1 DEF TypeOK
<1>4. QED
  BY <1>1, <1>2, <1>3 DEF Compose, Request, ReviewState

LEMMA CallStarts ==
  ASSUME TypeOK, NEW p \in Proc, Call(p)
  PROVE  Starts(p)
<1>1. ASSUME NEW k \in Key, NEW i \in Intent, Submit(p, k, i)
      PROVE  Starts(p)
  <2>1. [key |-> k, req |-> Compose(i)] \in ACall
    BY <1>1, ComposeType DEF Submit, Compose, ACall, ReviewCall, RequestKey
  <2>2. QED
    BY <1>1, <2>1 DEF Submit, Starts
<1>2. ASSUME NEW i \in Intent, SubmitDeposit(p, i)
      PROVE  Starts(p)
  <2>1. [key |-> NoKey, req |-> Compose(i)] \in ACall
    BY <1>2, ComposeType, ReviewAssumption
    DEF SubmitDeposit, Compose, ACall, DepositCall
  <2>2. QED
    BY <1>2, <2>1 DEF SubmitDeposit, Starts
<1>3. ASSUME NEW x \in receipts \cup Running, Retry(p, x)
      PROVE  Starts(p)
  <2>1. x \in ACall
    BY DEF Running, TypeOK, CallOK, ACall
  <2>2. QED
    BY <1>3, <2>1 DEF Retry, Starts
<1>4. ASSUME NEW t \in Target, Retained(p, t)
      PROVE  Starts(p)
  <2>1. StateNow(t) \in ReviewState /\ current[t] \in Nat
    BY StateOfType DEF StateNow, TypeOK
  <2>2. RetainedRequest(t) \in Request
    BY <2>1 DEF RetainedRequest, Request, Action, Decision
  <2>3. [key |-> RetainedRequest(t), req |-> RetainedRequest(t)] \in ACall
    BY <2>2 DEF RetainedRequest, ACall, ReviewCall, RequestKey
  <2>4. QED
    BY <1>4, <2>3 DEF Retained, Starts
<1>5. clients.intents \subseteq Intent /\ clients.retained \subseteq Target
  BY ReviewAssumption DEF TypeOK
<1>6. QED
  BY <1>1, <1>2, <1>3, <1>4, <1>5 DEF Call

LEMMA NextMoves ==
  ASSUME TypeOK, Next
  PROVE  \E p \in Proc : Moves(p)
<1>1. PICK p \in Proc : UNCHANGED clients /\ (Call(p) \/ Step(p))
  BY DEF Next
<1>2. CASE Call(p)
  BY <1>1, <1>2, CallStarts DEF Moves
<1>3. CASE Step(p)
  BY <1>1, <1>3 DEF Step, Moves, Ends, Replay, Refuse, Fail
<1>4. QED
  BY <1>1, <1>2, <1>3

LEMMA Frame ==
  ASSUME TypeOK, NEW p \in Proc, Moves(p)
  PROVE  /\ OthersSame(p)
         /\ backend' = backend
         /\ Apply(p) \/ UNCHANGED dbVars
<1> USE DEF TypeOK, OthersSame, Goto
<1>1. CASE Starts(p)
  BY <1>1 DEF Starts, Start
<1>2. CASE Begin(p)
  BY <1>2 DEF Begin
<1>3. CASE Query(p)
  BY <1>3 DEF Query
<1>4. CASE Lock(p)
  BY <1>4 DEF Lock
<1>5. CASE Ends(p)
  BY <1>5 DEF Ends, End
<1>6. CASE Apply(p)
  BY <1>6 DEF Apply, End
<1>7. QED
  BY <1>1, <1>2, <1>3, <1>4, <1>5, <1>6 DEF Moves

-----------------------------------------------------------------------------
(***************************************************************************)
(* Types                                                                   *)
(***************************************************************************)

\* What an open call is about.
LEMMA RequestType ==
  ASSUME TypeOK, NEW p \in Proc, pc[p] # "idle"
  PROVE  /\ call[p] \in ACall /\ Req(p) \in Request /\ On(p) \in Target
         /\ Req(p).action # "deposit" =>
              call[p] \in ReviewCall /\ call[p].key \in RequestKey
         /\ Req(p).action = "deposit" =>
              On(p) \in Claims /\ Req(p).status \in Status
<1>1. call[p] \in ACall
  BY DEF TypeOK, CallOK
<1>2. CASE call[p] \in ReviewCall
  BY <1>1, <1>2 DEF ReviewCall, Req, On, Request
<1>3. CASE call[p] \in DepositCall
  BY <1>1, <1>3 DEF DepositCall, Req, On, Request
<1>4. QED
  BY <1>1, <1>2, <1>3 DEF ACall

\* What a decision that was accepted writes.
LEMMA WrittenType ==
  ASSUME TypeOK, NEW p \in Proc, pc[p] = "decide", Accepted(p)
  PROVE  /\ seen[p] \in ReviewState
         /\ StateAfter(Req(p), seen[p]) \in ReviewState
         /\ Revises(Req(p)) =>
              [status |-> StatusAfter(Req(p)), prev |-> base[p]] \in Revision
<1>1. seen[p] \in ReviewState /\ base[p] \in Nat
  BY DEF TypeOK
<1>2. StateAfter(Req(p), seen[p]) \in ReviewState
  BY <1>1 DEF StateAfter, ReviewState
<1>3. ASSUME Revises(Req(p))
      PROVE  StatusAfter(Req(p)) \in Status
  <2>1. CASE Req(p).action = "contest"
    BY <2>1 DEF StatusAfter, Status
  <2>2. CASE Req(p).action = "reject"
    BY <2>2 DEF StatusAfter, Status
  <2>3. CASE Req(p).action = "supersede"
    <3>1. Req(p).status \in Status
      BY <1>3, <2>3
      DEF Accepted, Allowed, ClaimAllows, Revises, Decision, Status, On
    <3>2. QED
      BY <2>3, <3>1 DEF StatusAfter
  <2>4. CASE Req(p).action = "deposit"
    BY <2>4, RequestType DEF StatusAfter
  <2>5. QED
    BY <1>3, <2>1, <2>2, <2>3, <2>4 DEF Revises, Revising
<1>4. QED
  BY <1>1, <1>2, <1>3 DEF Revision

\* Revisions are only added, to the target of p alone, and each target still
\* points to one of its revisions.
RevsExtended(p) ==
  /\ revs' \in [Target -> Seq(Revision)]
  /\ current' \in [Target -> Nat]
  /\ \A t \in Target : current'[t] \in DOMAIN revs'[t]
  /\ \A t \in Target \ {On(p)} : revs'[t] = revs[t] /\ current'[t] = current[t]
  /\ \A t \in Target : \A n \in DOMAIN revs[t] :
       n \in DOMAIN revs'[t] /\ revs'[t][n] = revs[t][n]

LEMMA WriteExtends ==
  ASSUME TypeOK, NEW p \in Proc, pc[p] = "decide", Accepted(p),
         \/ WriteRevision(p) /\ Revises(Req(p))
         \/ KeepRevision
  PROVE  RevsExtended(p)
<1>1. On(p) \in Target
  BY RequestType
<1>2. \A t \in Target : /\ revs[t] \in Seq(Revision)
                        /\ current[t] \in DOMAIN revs[t]
  BY DEF TypeOK, RowsOK
<1>3. CASE WriteRevision(p) /\ Revises(Req(p))
  <2> DEFINE new == [status |-> StatusAfter(Req(p)), prev |-> base[p]]
  <2>1. new \in Revision
    BY <1>3, WrittenType
  <2> HIDE DEF new
  <2>2. /\ revs' = [revs EXCEPT ![On(p)] = Append(@, new)]
        /\ current' = [current EXCEPT ![On(p)] = Len(revs'[On(p)])]
    BY <1>3 DEF WriteRevision, new
  <2>3. /\ revs' \in [Target -> Seq(Revision)]
        /\ \A t \in Target \ {On(p)} : revs'[t] = revs[t]
        /\ revs'[On(p)] = Append(revs[On(p)], new)
    BY <1>1, <1>2, <2>1, <2>2 DEF TypeOK
  <2>4. /\ current' \in [Target -> Nat]
        /\ \A t \in Target \ {On(p)} : current'[t] = current[t]
        /\ current'[On(p)] = Len(revs'[On(p)])
    BY <1>1, <2>2, <2>3 DEF TypeOK
  <2>5. /\ Len(revs'[On(p)]) \in DOMAIN revs'[On(p)]
        /\ \A n \in DOMAIN revs[On(p)] :
             n \in DOMAIN revs'[On(p)] /\ revs'[On(p)][n] = revs[On(p)][n]
    BY <1>1, <1>2, <2>1, <2>3
  <2>6. QED
    BY <1>2, <2>3, <2>4, <2>5 DEF RevsExtended
<1>4. CASE KeepRevision
  BY <1>2, <1>4 DEF TypeOK, KeepRevision, RevsExtended
<1>5. QED
  BY <1>3, <1>4

\* A transaction that commits adds at most one revision and one event to its
\* target.
LEMMA ApplyEffect ==
  ASSUME TypeOK, NEW p \in Proc, Apply(p)
  PROVE  /\ pc[p] = "decide" /\ Accepted(p) /\ On(p) \in Target
         /\ RevsExtended(p)
         /\ events' \in [Target -> Seq(Event)]
         /\ \A t \in Target : RowsOK(t)'
         /\ \A t \in Target \ {On(p)} :
              events'[t] = events[t] /\ mirror'[t] = mirror[t]
         /\ ApplyReview(p) =>
              /\ EventOf(p) \in Event
              /\ events'[On(p)] = Append(events[On(p)], EventOf(p))
<1>1. pc[p] = "decide" /\ Accepted(p)
  BY DEF Apply, ApplyReview, ApplyDeposit
<1>2. /\ On(p) \in Target /\ Req(p) \in Request
      /\ Req(p).action = "deposit" => On(p) \in Claims
      /\ Req(p).action # "deposit" => call[p].key \in RequestKey
  BY <1>1, RequestType
<1>3. base[p] \in DOMAIN revs[On(p)] /\ base[p] \in Nat
  BY <1>1 DEF TypeOK, CallOK
<1>4. \A t \in Target : /\ revs[t] \in Seq(Revision)
                        /\ current[t] \in 1..Len(revs[t])
                        /\ events[t] \in Seq(Event)
  BY DEF TypeOK, RowsOK
<1>5. ApplyDeposit(p) => WriteRevision(p) /\ Revises(Req(p))
  BY <1>2 DEF ApplyDeposit, Revises, Revising, On
<1>6. RevsExtended(p)
  BY <1>1, <1>5, WriteExtends DEF Apply, ApplyReview
<1>7. CASE ApplyDeposit(p)
  <2>1. events' = events /\ \A t \in Target \ {On(p)} : mirror'[t] = mirror[t]
    BY <1>7 DEF ApplyDeposit, RefreshMirror, TypeOK
  <2>2. ~ApplyReview(p)
    BY <1>7 DEF ApplyDeposit, ApplyReview
  <2>3. QED
    BY <1>1, <1>2, <1>4, <1>6, <2>1, <2>2 DEF TypeOK, RowsOK, RevsExtended
<1>8. CASE ApplyReview(p)
  <2>0. EventOf(p).rev \in DOMAIN revs'[On(p)] /\ EventOf(p).rev \in Nat
    BY <1>2, <1>3, <1>6 DEF EventOf, RevsExtended
  <2>1. EventOf(p) \in Event
    BY <1>1, <1>2, <1>3, <1>8, <2>0, WrittenType
    DEF EventOf, Event, ApplyReview, Request
  <2>2. /\ events'[On(p)] = Append(events[On(p)], EventOf(p))
        /\ \A t \in Target \ {On(p)} : events'[t] = events[t]
        /\ events' \in [Target -> Seq(Event)]
    BY <1>2, <1>4, <1>8, <2>1 DEF ApplyReview, TypeOK
  <2>3. \A t \in Target \ {On(p)} : mirror'[t] = mirror[t]
    BY <1>8 DEF ApplyReview, RefreshMirror, TypeOK
  <2>4. \A i \in DOMAIN events'[On(p)] :
          events'[On(p)][i].rev \in DOMAIN revs'[On(p)]
    <3>1. TAKE i \in DOMAIN events'[On(p)]
    <3>2. CASE i \in DOMAIN events[On(p)]
      <4>1. events'[On(p)][i] = events[On(p)][i]
        BY <1>2, <1>4, <2>1, <2>2, <3>2
      <4>2. QED
        BY <1>2, <1>6, <3>2, <4>1 DEF TypeOK, RowsOK, RevsExtended
    <3>3. CASE i \notin DOMAIN events[On(p)]
      <4>1. events'[On(p)][i] = EventOf(p)
        BY <1>2, <1>4, <2>1, <2>2, <3>3
      <4>2. QED
        BY <2>0, <4>1
    <3>4. QED
      BY <3>2, <3>3
  <2>5. ASSUME NEW t \in Target \ {On(p)}
        PROVE  RowsOK(t)'
    BY <1>6, <2>2 DEF TypeOK, RowsOK, RevsExtended
  <2>6. QED
    BY <1>1, <1>2, <1>6, <2>1, <2>2, <2>3, <2>4, <2>5
    DEF RowsOK, RevsExtended
<1>9. QED
  BY <1>7, <1>8 DEF Apply

\* One step of a process keeps the types.
LEMMA MoveType ==
  ASSUME TypeOK, NEW p \in Proc, Moves(p)
  PROVE  TypeOK'
<1>1. OthersSame(p) /\ backend' = backend /\ clients' = clients
  BY Frame DEF Moves
<1>2. ASSUME NEW q \in Proc \ {p},
             \A t \in Target : DOMAIN revs[t] \subseteq DOMAIN revs'[t]
      PROVE  CallOK(q)'
  <2>1. CallOK(q) /\ (pc[q] = "decide" => On(q) \in Target)
    BY RequestType DEF TypeOK
  <2>2. On(q)' = On(q)
    BY <1>1 DEF OthersSame, On, Req
  <2>3. QED
    BY <1>1, <1>2, <2>1, <2>2 DEF OthersSame, CallOK
<1>3. ASSUME UNCHANGED dbVars,
             pc' \in [Proc -> Open \cup {"idle", "begin"}],
             call' \in [Proc -> ACall \cup {NoCall}],
             base' \in [Proc -> Nat],
             seen' \in [Proc -> ReviewState],
             CallOK(p)'
      PROVE  TypeOK'
  <2>1. \A t \in Target : RowsOK(t)'
    BY <1>3 DEF TypeOK, RowsOK, dbVars
  <2>2. \A q \in Proc : CallOK(q)'
    BY <1>2, <1>3 DEF dbVars
  <2>3. QED
    BY <1>1, <1>3, <2>1, <2>2 DEF TypeOK, dbVars
<1> USE DEF Goto, Open
<1>4. CASE Starts(p)
  <2>1. PICK x \in ACall : Start(p, x.key, x.req)
    BY <1>4 DEF Starts
  <2>2. [key |-> x.key, req |-> x.req] \in ACall
    BY DEF ACall, ReviewCall, DepositCall
  <2>3. QED
    BY <1>3, <2>1, <2>2 DEF Start, TypeOK, CallOK
<1>5. CASE Begin(p)
  BY <1>3, <1>5 DEF Begin, TypeOK, CallOK
<1>6. CASE Query(p)
  <2>1. On(p) \in Target
    BY <1>6, RequestType DEF Query
  <2>2. StateOf(events[On(p)], Req(p).rev) \in ReviewState
    BY <2>1, StateOfType DEF TypeOK
  <2>3. QED
    BY <1>3, <1>6, <2>2 DEF Query, TypeOK, CallOK
<1>7. CASE Lock(p)
  <2>1. On(p) \in Target
    BY <1>7, RequestType DEF Lock
  <2>2. StateNow(On(p)) \in ReviewState
    BY <2>1, StateOfType DEF StateNow, TypeOK
  <2>3. current[On(p)] \in DOMAIN revs[On(p)] /\ current[On(p)] \in Nat
    BY <2>1 DEF TypeOK, RowsOK
  <2>4. On(p)' = On(p) /\ UNCHANGED dbVars /\ call' = call
    BY <1>7 DEF Lock, On, Req
  <2>5. base' \in [Proc -> Nat] /\ seen' \in [Proc -> ReviewState]
    BY <1>7, <2>2, <2>3 DEF Lock, TypeOK
  <2>6. CallOK(p)'
    BY <1>7, <2>3, <2>4 DEF Lock, TypeOK, CallOK, dbVars
  <2>7. QED
    BY <1>3, <1>7, <2>4, <2>5, <2>6 DEF Lock, TypeOK
<1>8. CASE Ends(p)
  BY <1>3, <1>8 DEF Ends, End, TypeOK, CallOK, ReviewState
<1>9. CASE Apply(p)
  <2>1. /\ On(p) \in Target /\ Accepted(p) /\ pc[p] = "decide"
        /\ RevsExtended(p) /\ \A t \in Target : RowsOK(t)'
        /\ events' \in [Target -> Seq(Event)]
    BY <1>9, ApplyEffect
  <2>2. /\ pc' \in [Proc -> Open \cup {"idle", "begin"}]
        /\ call' \in [Proc -> ACall \cup {NoCall}]
        /\ base' \in [Proc -> Nat]
        /\ seen' \in [Proc -> ReviewState]
        /\ CallOK(p)'
    BY <1>9 DEF Apply, End, TypeOK, CallOK, ReviewState
  <2>3. \A q \in Proc : CallOK(q)'
    BY <1>2, <2>1, <2>2 DEF RevsExtended
  <2>4. \A t \in Target : revs'[t] \in Seq(Revision) /\ events'[t] \in Seq(Event)
    BY <2>1 DEF RevsExtended
  <2>5. Mirrored(revs'[On(p)], current'[On(p)], events'[On(p)])
          \in [review : ReviewState, conflict : BOOLEAN]
    BY <2>1, <2>4, StateOfType DEF Mirrored, Conflicted
  <2>6. mirror' \in [Target -> [review : ReviewState, conflict : BOOLEAN]]
    BY <1>9, <2>1, <2>5
    DEF Apply, ApplyReview, ApplyDeposit, RefreshMirror, TypeOK
  <2>7. receipts' \subseteq ReviewCall
    BY <1>9, <2>1, RequestType DEF Apply, ApplyReview, ApplyDeposit, TypeOK
  <2>8. QED
    BY <1>1, <2>1, <2>2, <2>3, <2>6, <2>7 DEF TypeOK, RevsExtended
<1>10. QED
  BY <1>4, <1>5, <1>6, <1>7, <1>8, <1>9 DEF Moves

LEMMA InitType == Init => TypeOK
<1> SUFFICES ASSUME Init
             PROVE  TypeOK
  OBVIOUS
<1>1. PICK first \in [Claims -> First] :
        revs = [t \in Target |->
                  << [status |-> IF t \in Claims THEN first[t] ELSE "draft",
                      prev |-> 0] >>]
  BY DEF Init
<1>2. ASSUME NEW t \in Target
      PROVE  /\ revs[t] \in Seq(Revision)
             /\ Len(revs[t]) = 1 /\ 1 \in DOMAIN revs[t]
  <2> DEFINE r == [status |-> IF t \in Claims THEN first[t] ELSE "draft",
                   prev |-> 0]
  <2>1. (IF t \in Claims THEN first[t] ELSE "draft") \in Status
    BY ReviewAssumption DEF Status
  <2>2. r \in Revision
    BY <2>1 DEF Revision
  <2>3. revs[t] = <<r>>
    BY <1>1
  <2> HIDE DEF r
  <2>4. QED
    BY <2>2, <2>3
<1>3. revs \in [Target -> Seq(Revision)]
  BY <1>1, <1>2
<1>4. <<>> \in Seq(Event) /\ DOMAIN (<<>>) = {}
  OBVIOUS
<1>5. events \in [Target -> Seq(Event)]
  BY <1>4 DEF Init
<1>6. \A t \in Target : RowsOK(t)
  BY <1>2, <1>4 DEF Init, RowsOK
<1>7. mirror \in [Target -> [review : ReviewState, conflict : BOOLEAN]]
  <2>1. \A t \in Target : Mirrored(revs[t], 1, <<>>)
                            \in [review : ReviewState, conflict : BOOLEAN]
    BY <1>4, StateOfType DEF Mirrored, Conflicted
  <2>2. QED
    BY <2>1 DEF Init
<1>8. /\ \A p \in Proc : pc[p] = "idle"
      /\ pc \in [Proc -> Open \cup {"idle", "begin"}]
      /\ call \in [Proc -> ACall \cup {NoCall}]
      /\ base \in [Proc -> Nat] /\ seen \in [Proc -> ReviewState]
      /\ current \in [Target -> Nat]
  BY DEF Init, ReviewState
<1>9. \A p \in Proc : CallOK(p)
  BY <1>8 DEF CallOK
<1>10. QED
  BY <1>3, <1>5, <1>6, <1>7, <1>8, <1>9 DEF Init, TypeOK

LEMMA TypeInductive == TypeOK /\ [Next]_vars => TypeOK'
<1> SUFFICES ASSUME TypeOK, [Next]_vars
             PROVE  TypeOK'
  OBVIOUS
<1>1. CASE Next
  BY <1>1, NextMoves, MoveType
<1>2. CASE UNCHANGED vars
  <2> USE <1>2 DEF vars, dbVars
  <2>1. \A t \in Target : RowsOK(t)'
    BY DEF TypeOK, RowsOK
  <2>2. \A p \in Proc : CallOK(p)'
    BY DEF TypeOK, CallOK, On, Req
  <2>3. QED
    BY <2>1, <2>2 DEF TypeOK
<1>3. QED
  BY <1>1, <1>2

\* In every reachable state the rows have their shape, each claim points to a
\* revision it has, each event names one, and each open call has a request.
THEOREM TypeCorrect == Spec => []TypeOK
BY InitType, TypeInductive, PTL DEF Spec

-----------------------------------------------------------------------------
(***************************************************************************)
(* The row lock, and what it protects                                      *)
(***************************************************************************)

\* No two transactions decide on the same target.
RowHeld ==
  \A p, q \in Proc :
    p # q /\ pc[p] = "decide" /\ pc[q] = "decide" => On(p) # On(q)

\* A transaction that decides has the row as it is.
BaseFresh == \A p \in Proc : pc[p] = "decide" => base[p] = current[On(p)]

RowInv == TypeOK /\ RowHeld /\ BaseFresh

\* Every step but a lock and a commit leaves the database alone and p without
\* a row.
LEMMA MoveKinds ==
  ASSUME TypeOK, NEW p \in Proc, Moves(p)
  PROVE  \/ Lock(p) \/ Apply(p)
         \/ pc'[p] # "decide" /\ UNCHANGED dbVars
<1> USE DEF TypeOK, Goto
<1>1. CASE Starts(p)
  BY <1>1 DEF Starts, Start
<1>2. CASE Begin(p)
  BY <1>2 DEF Begin
<1>3. CASE Query(p)
  BY <1>3 DEF Query
<1>4. CASE Ends(p)
  BY <1>4 DEF Ends, End
<1>5. QED
  BY <1>1, <1>2, <1>3, <1>4 DEF Moves

LEMMA OthersRequest ==
  ASSUME NEW p, OthersSame(p), NEW q \in Proc \ {p}
  PROVE  Req(q)' = Req(q) /\ On(q)' = On(q)
BY DEF OthersSame, On, Req

LEMMA AppliedIdle ==
  ASSUME TypeOK, NEW p \in Proc, Apply(p)
  PROVE  pc'[p] = "idle"
BY DEF Apply, End, Goto, TypeOK

LEMMA RowMove ==
  ASSUME RowInv, NEW p \in Proc, Moves(p)
  PROVE  RowHeld' /\ BaseFresh'
<1>0. TypeOK
  BY DEF RowInv
<1>1. OthersSame(p)
  BY <1>0, Frame
<1>2. \A q \in Proc \ {p} : On(q)' = On(q)
  BY <1>1, OthersRequest
<1>3. CASE pc'[p] # "decide" /\ UNCHANGED dbVars
  BY <1>1, <1>2, <1>3 DEF RowInv, RowHeld, BaseFresh, OthersSame, dbVars
<1>4. CASE Lock(p)
  <2>1. /\ On(p)' = On(p) /\ base'[p] = current[On(p)] /\ current' = current
        /\ \A q \in Others(p) : pc[q] = "decide" => On(q) # On(p)
    BY <1>0, <1>4 DEF Lock, RowFree, On, Req, TypeOK, dbVars
  <2>2. \A q \in Proc \ {p} : pc[q] = "decide" => On(q) # On(p)
    BY <2>1 DEF Others, Open
  <2>3. QED
    BY <1>1, <1>2, <2>1, <2>2 DEF RowInv, RowHeld, BaseFresh, OthersSame
<1>5. CASE Apply(p)
  <2>1. pc[p] = "decide" /\ pc'[p] = "idle" /\ RevsExtended(p)
    BY <1>0, <1>5, ApplyEffect, AppliedIdle
  <2>2. \A q \in Proc \ {p} :
          pc[q] = "decide" => On(q) \in Target \ {On(p)}
    BY <1>0, <2>1, RequestType DEF RowInv, RowHeld
  <2>3. \A q \in Proc \ {p} : pc[q] = "decide" => current'[On(q)] = current[On(q)]
    BY <2>1, <2>2 DEF RevsExtended
  <2>4. QED
    BY <1>1, <1>2, <2>1, <2>3 DEF RowInv, RowHeld, BaseFresh, OthersSame
<1>6. QED
  BY <1>0, <1>3, <1>4, <1>5, MoveKinds

LEMMA RowInductive == RowInv /\ [Next]_vars => RowInv'
<1> SUFFICES ASSUME RowInv, [Next]_vars
             PROVE  RowHeld' /\ BaseFresh'
  BY TypeInductive DEF RowInv
<1>1. CASE Next
  BY <1>1, NextMoves, RowMove DEF RowInv
<1>2. CASE UNCHANGED vars
  BY <1>2 DEF RowInv, RowHeld, BaseFresh, On, Req, vars, dbVars
<1>3. QED
  BY <1>1, <1>2

LEMMA InitRow == Init => RowInv
<1>1. Init => \A p \in Proc : pc[p] # "decide"
  BY DEF Init
<1>2. QED
  BY <1>1, InitType DEF RowInv, RowHeld, BaseFresh

LEMMA RowAlways == Spec => []RowInv
BY InitRow, RowInductive, PTL DEF Spec

-----------------------------------------------------------------------------
(***************************************************************************)
(* Revisions                                                               *)
(***************************************************************************)

LEMMA LinearMove ==
  ASSUME RowInv, LinearHistory, NEW p \in Proc, Moves(p)
  PROVE  LinearHistory'
<1>0. TypeOK
  BY DEF RowInv
<1>1. CASE UNCHANGED dbVars
  BY <1>1 DEF LinearHistory, dbVars
<1>2. CASE Apply(p)
  <2> DEFINE t == On(p)
  <2>1. /\ pc[p] = "decide" /\ t \in Target /\ RevsExtended(p)
        /\ Accepted(p)
    BY <1>0, <1>2, ApplyEffect
  <2>2. base[p] = current[t] /\ current[t] = Len(revs[t]) /\ base[p] \in Nat
    BY <1>0, <2>1 DEF RowInv, BaseFresh, LinearHistory, TypeOK
  <2>3. ASSUME NEW u \in Target \ {t}
        PROVE  /\ current'[u] = Len(revs'[u])
               /\ \A n \in DOMAIN revs'[u] : revs'[u][n].prev = n - 1
    BY <2>1 DEF LinearHistory, RevsExtended
  <2>4. CASE WriteRevision(p)
    <3> DEFINE new == [status |-> StatusAfter(Req(p)), prev |-> base[p]]
    <3>1. /\ revs'[t] = Append(revs[t], new)
          /\ current'[t] = Len(revs'[t])
      BY <1>0, <2>1, <2>4 DEF WriteRevision, TypeOK
    <3>2. revs[t] \in Seq(Revision) /\ new.prev = Len(revs[t])
      BY <1>0, <2>1, <2>2 DEF TypeOK
    <3> HIDE DEF new, t
    <3>3. \A n \in DOMAIN revs'[t] : revs'[t][n].prev = n - 1
      <4>1. TAKE n \in DOMAIN revs'[t]
      <4>2. CASE n \in DOMAIN revs[t]
        BY <2>1, <3>1, <3>2, <4>2 DEF LinearHistory, t
      <4>3. CASE n \notin DOMAIN revs[t]
        BY <3>1, <3>2, <4>3
      <4>4. QED
        BY <4>2, <4>3
    <3>4. QED
      BY <2>3, <3>1, <3>3 DEF LinearHistory
  <2>5. CASE KeepRevision
    BY <2>5 DEF LinearHistory, KeepRevision
  <2>6. QED
    BY <1>2, <2>4, <2>5 DEF Apply, ApplyReview, ApplyDeposit
<1>3. QED
  BY <1>0, <1>1, <1>2, Frame

LEMMA InitLinear == Init => LinearHistory
<1> SUFFICES ASSUME Init
             PROVE  LinearHistory
  OBVIOUS
<1>1. ASSUME NEW t \in Target
      PROVE  \E r : revs[t] = <<r>> /\ r.prev = 0
  <2>1. PICK s : revs[t] = << [status |-> s, prev |-> 0] >>
    BY DEF Init
  <2>2. QED
    BY <2>1
<1>2. \A t \in Target : /\ current[t] = 1 /\ Len(revs[t]) = 1
                        /\ \A n \in DOMAIN revs[t] : n = 1
                        /\ revs[t][1].prev = 0
  BY <1>1 DEF Init
<1>3. 1 - 1 = 0
  OBVIOUS
<1>4. \A t \in Target : \A n \in DOMAIN revs[t] : revs[t][n].prev = n - 1
  BY <1>2, <1>3, Zenon
<1>5. QED
  BY <1>2, <1>4 DEF LinearHistory

\* On either database, however many reviewers and deposits race, the revisions
\* of a claim form one chain and the claim points to its end.
THEOREM HistoryIsLinear == Spec => []LinearHistory
<1>1. RowInv /\ LinearHistory /\ [Next]_vars => LinearHistory'
  <2> SUFFICES ASSUME RowInv, LinearHistory, [Next]_vars
               PROVE  LinearHistory'
    OBVIOUS
  <2>1. CASE Next
    BY <2>1, NextMoves, LinearMove DEF RowInv
  <2>2. CASE UNCHANGED vars
    BY <2>2 DEF LinearHistory, vars, dbVars
  <2>3. QED
    BY <2>1, <2>2
<1>2. QED
  BY <1>1, InitLinear, RowAlways, PTL DEF Spec

-----------------------------------------------------------------------------
(***************************************************************************)
(* Decisions                                                               *)
(***************************************************************************)

\* What the commit of a review leaves behind: the new event is the last one,
\* the receipt is that of p, and p's request named what p has read.
LEMMA ReviewEffect ==
  ASSUME TypeOK, NEW p \in Proc, Apply(p), ApplyReview(p)
  PROVE  /\ call[p] \in ReviewCall /\ call[p].req = Req(p)
         /\ receipts' = receipts \cup {call[p]}
         /\ Len(events'[On(p)]) = Len(events[On(p)]) + 1
         /\ \A i \in DOMAIN events'[On(p)] :
              \/ /\ i \in DOMAIN events[On(p)]
                 /\ events'[On(p)][i] = events[On(p)][i]
              \/ /\ i = Len(events[On(p)]) + 1
                 /\ events'[On(p)][i] = EventOf(p)
         /\ \A i \in DOMAIN events[On(p)] : /\ i \in DOMAIN events'[On(p)]
                                            /\ events'[On(p)][i] = events[On(p)][i]
         /\ Len(events'[On(p)]) \in DOMAIN events'[On(p)]
         /\ Req(p).rev = base[p] /\ Req(p).state = seen[p]
<1>1. /\ pc[p] = "decide" /\ On(p) \in Target /\ Accepted(p)
      /\ EventOf(p) \in Event
      /\ events'[On(p)] = Append(events[On(p)], EventOf(p))
  BY ApplyEffect
<1>2. events[On(p)] \in Seq(Event)
  BY <1>1 DEF TypeOK
<1>3. call[p] \in ReviewCall
  BY <1>1, RequestType DEF ApplyReview
<1>4. QED
  BY <1>1, <1>2, <1>3 DEF ApplyReview, Accepted, AsExpected, Req

\* The commit of a deposit adds a revision and nothing else.
LEMMA DepositEffect ==
  ASSUME TypeOK, NEW p \in Proc, Apply(p), ~ApplyReview(p)
  PROVE  /\ events' = events /\ receipts' = receipts
         /\ call[p] \in DepositCall
BY ApplyEffect, RequestType
   DEF Apply, ApplyDeposit, ACall, ReviewCall, Req

\* A request that names a revision has its effect while that revision is
\* current, on either database: the row lock keeps what was read under it.
THEOREM EffectsOnNamed == Spec => EffectOnNamed
<1> DEFINE Named(p) == Apply(p) /\ Req(p).rev # 0 => Req(p).rev = current[On(p)]
<1>1. ASSUME RowInv, NEW p \in Proc, Apply(p), Req(p).rev # 0
      PROVE  Req(p).rev = current[On(p)]
  <2>1. pc[p] = "decide" /\ Accepted(p)
    BY <1>1, ApplyEffect DEF RowInv
  \* What p compares with is what is there when it commits.
  <2>2. base[p] = current[On(p)]
    BY <1>1, <2>1 DEF RowInv, BaseFresh
  <2>3. Req(p).rev = base[p]
    BY <1>1, <2>1 DEF Accepted, AsExpected
  <2>4. QED
    BY <2>2, <2>3
<1>2. RowInv /\ [Next]_vars => [\A p \in Proc : Named(p)]_vars
  BY <1>1
<1>3. QED
  BY <1>2, RowAlways, PTL DEF Spec, EffectOnNamed

\* Only an approval makes a revision reviewed, and it is no rejected one.
NoApproval ==
  \A t \in Claims : \A i \in DOMAIN events[t] :
    events[t][i].action \in Decision /\ events[t][i].to = "reviewed" =>
      revs[t][events[t][i].rev].status \notin {"rejected", "superseded"}

LEMMA NoApprovalSuffices == TypeOK /\ NoApproval => RejectedNotApproved
<1> SUFFICES ASSUME TypeOK, NoApproval,
                    NEW t \in Claims, NEW n \in DOMAIN revs[t],
                    StateOf(events[t], n) = "reviewed"
             PROVE  revs[t][n].status \notin {"rejected", "superseded"}
  BY DEF RejectedNotApproved
<1>1. LatestOn(events[t], n) # {}
  BY DEF StateOf
<1>2. PICK i \in LatestOn(events[t], n) : events[t][i].to = "reviewed"
  <2>1. (CHOOSE j \in LatestOn(events[t], n) : TRUE) \in LatestOn(events[t], n)
    BY <1>1
  <2>2. QED
    BY <1>1, <2>1 DEF StateOf
<1>3. /\ i \in DOMAIN events[t] /\ events[t][i].rev = n
      /\ events[t][i].action \in Decision
  BY DEF LatestOn, DecisionsOn
<1>4. QED
  BY <1>2, <1>3 DEF NoApproval

LEMMA ApprovalMove ==
  ASSUME TypeOK, NoApproval, NEW p \in Proc, Moves(p)
  PROVE  NoApproval'
<1>1. CASE UNCHANGED dbVars
  BY <1>1 DEF NoApproval, dbVars
<1>2. CASE Apply(p)
  <2>1. RevsExtended(p) /\ pc[p] = "decide" /\ On(p) \in Target /\ Accepted(p)
    BY <1>2, ApplyEffect
  \* An event that was there still names the same revision.
  <2>2. ASSUME NEW t \in Claims, NEW i \in DOMAIN events[t],
               events[t][i].action \in Decision, events[t][i].to = "reviewed"
        PROVE  revs'[t][events[t][i].rev].status
                 \notin {"rejected", "superseded"}
    <3>1. t \in Target
      BY ReviewAssumption
    <3>2. events[t][i].rev \in DOMAIN revs[t]
      BY <3>1 DEF TypeOK, RowsOK
    <3>3. revs'[t][events[t][i].rev] = revs[t][events[t][i].rev]
      BY <2>1, <3>1, <3>2 DEF RevsExtended
    <3>4. QED
      BY <2>2, <3>3 DEF NoApproval
  <2>3. CASE ApplyReview(p)
    <3> DEFINE ev == EventOf(p)
    <3>1. ASSUME On(p) \in Claims, ev.action \in Decision, ev.to = "reviewed"
          PROVE  revs'[On(p)][ev.rev].status \notin {"rejected", "superseded"}
      <4>1. ev.action = Req(p).action /\ ev.to = StateAfter(Req(p), seen[p])
        BY DEF EventOf
      <4>2. Req(p).action = "approve"
        BY <3>1, <4>1 DEF StateAfter, Decision
      <4>3. revs' = revs /\ ev.rev = base[p]
        BY <2>3, <4>2
        DEF ApplyReview, EventOf, Revises, Revising, KeepRevision
      <4>4. ClaimAllows(revs[On(p)][base[p]].status, Req(p))
        BY <2>1, <3>1, <4>2 DEF Accepted, Allowed, Decision, On
      <4>5. QED
        BY <4>2, <4>3, <4>4 DEF ClaimAllows
    <3>2. ASSUME NEW t \in Claims, NEW i \in DOMAIN events'[t],
                 events'[t][i].action \in Decision,
                 events'[t][i].to = "reviewed"
          PROVE  revs'[t][events'[t][i].rev].status
                   \notin {"rejected", "superseded"}
      <4>1. CASE t # On(p)
        <5>1. events'[t] = events[t]
          BY <1>2, <4>1, ApplyEffect, ReviewAssumption
        <5>2. QED
          BY <2>2, <3>2, <5>1
      <4>2. CASE t = On(p) /\ i \in DOMAIN events[t]
        <5>1. events'[t][i] = events[t][i]
          BY <1>2, <2>3, <4>2, ReviewEffect
        <5>2. QED
          BY <2>2, <3>2, <4>2, <5>1
      <4>3. CASE t = On(p) /\ i \notin DOMAIN events[t]
        <5>1. events'[t][i] = EventOf(p)
          BY <1>2, <2>3, <4>3, ReviewEffect
        <5>2. QED
          BY <3>1, <3>2, <4>3, <5>1
      <4>4. QED
        BY <4>1, <4>2, <4>3
    <3>3. QED
      BY <3>2 DEF NoApproval
  <2>4. CASE ~ApplyReview(p)
    BY <1>2, <2>2, <2>4, DepositEffect DEF NoApproval
  <2>5. QED
    BY <2>3, <2>4
<1>3. QED
  BY <1>1, <1>2, Frame

LEMMA InitNoEvents == Init => \A t \in Target : events[t] = <<>>
BY DEF Init

\* Whatever decisions and deposits follow each other, a revision that was
\* rejected or superseded is never reviewed.
THEOREM RejectedNeverReviewed == Spec => []RejectedNotApproved
<1>1. Init => NoApproval
  <2>1. Init => \A t \in Claims : DOMAIN events[t] = {}
    BY InitNoEvents, ReviewAssumption
  <2>2. QED
    BY <2>1 DEF NoApproval
<1>2. TypeOK /\ NoApproval /\ [Next]_vars => NoApproval'
  <2> SUFFICES ASSUME TypeOK, NoApproval, [Next]_vars
               PROVE  NoApproval'
    OBVIOUS
  <2>1. CASE Next
    BY <2>1, NextMoves, ApprovalMove
  <2>2. CASE UNCHANGED vars
    BY <2>2 DEF NoApproval, vars, dbVars
  <2>3. QED
    BY <2>1, <2>2
<1>3. QED
  BY <1>1, <1>2, TypeCorrect, NoApprovalSuffices, PTL DEF Spec

-----------------------------------------------------------------------------
(***************************************************************************)
(* The v1 columns                                                          *)
(***************************************************************************)

LEMMA MirrorMove ==
  ASSUME TypeOK, MirrorAgrees, NEW p \in Proc, Moves(p)
  PROVE  MirrorAgrees'
<1>1. CASE UNCHANGED dbVars
  BY <1>1 DEF MirrorAgrees, dbVars
<1>2. CASE Apply(p)
  <2>1. On(p) \in Target /\ RevsExtended(p)
    BY <1>2, ApplyEffect
  <2>2. ASSUME NEW t \in Target \ {On(p)}
        PROVE  mirror'[t] = Mirrored(revs'[t], current'[t], events'[t])
    <3>1. /\ mirror'[t] = mirror[t] /\ revs'[t] = revs[t]
          /\ current'[t] = current[t] /\ events'[t] = events[t]
      BY <1>2, <2>1, ApplyEffect DEF RevsExtended
    <3>2. QED
      BY <3>1 DEF MirrorAgrees
  <2>3. CASE RefreshMirror(On(p))
    <3>1. mirror'[On(p)] =
            Mirrored(revs'[On(p)], current'[On(p)], events'[On(p)])
      BY <2>1, <2>3 DEF RefreshMirror, TypeOK
    <3>2. QED
      BY <2>2, <3>1 DEF MirrorAgrees
  \* A request for a refresh is no decision and no revision.
  <2>4. CASE ApplyReview(p) /\ Req(p).action = "request_refresh"
    <3>1. revs' = revs /\ current' = current /\ mirror' = mirror
      BY <2>4 DEF ApplyReview, Revises, Revising, KeepRevision
    <3>2. /\ EventOf(p) \in Event /\ events[On(p)] \in Seq(Event)
          /\ events'[On(p)] = Append(events[On(p)], EventOf(p))
      BY <1>2, <2>1, <2>4, ApplyEffect DEF TypeOK
    <3>3. EventOf(p).action \notin Decision
      BY <2>4 DEF EventOf, Decision
    <3>4. mirror'[On(p)] =
            Mirrored(revs'[On(p)], current'[On(p)], events'[On(p)])
      BY <2>1, <3>1, <3>2, <3>3, OnlyDecisionsCount DEF MirrorAgrees, Mirrored
    <3>5. QED
      BY <2>2, <3>4 DEF MirrorAgrees
  <2>5. QED
    BY <1>2, <2>3, <2>4 DEF Apply, ApplyReview, ApplyDeposit
<1>3. QED
  BY <1>1, <1>2, Frame

\* The review columns of the v1 tables show the effective state of the current
\* revision after every commit, of a review or of a deposit.
THEOREM MirrorIsCurrent == Spec => []MirrorAgrees
<1>1. Init => MirrorAgrees
  BY DEF Init, MirrorAgrees
<1>2. TypeOK /\ MirrorAgrees /\ [Next]_vars => MirrorAgrees'
  <2> SUFFICES ASSUME TypeOK, MirrorAgrees, [Next]_vars
               PROVE  MirrorAgrees'
    OBVIOUS
  <2>1. CASE Next
    BY <2>1, NextMoves, MirrorMove
  <2>2. CASE UNCHANGED vars
    BY <2>2 DEF MirrorAgrees, vars, dbVars
  <2>3. QED
    BY <2>1, <2>2
<1>3. QED
  BY <1>1, <1>2, TypeCorrect, PTL DEF Spec

-----------------------------------------------------------------------------
(***************************************************************************)
(* Keys                                                                    *)
(***************************************************************************)

\* The key of an open transaction has no receipt, and no other open
\* transaction has it.
KeysOpen ==
  \A p \in Proc : pc[p] \in Open =>
    /\ ReceiptsOf(call[p].key) = {}
    /\ \A q \in Others(p) : call[p].key # NoKey => call[q].key # call[p].key

\* SQLite has one writer.
OneWriter ==
  backend = "sqlite" => \A p \in Proc : pc[p] \in Open => Others(p) = {}

KeyInv == TypeOK /\ KeysOpen /\ OneWriter

LEMMA OpenKinds ==
  ASSUME TypeOK, NEW p \in Proc, Moves(p)
  PROVE  \/ Begin(p) /\ pc'[p] \in Open /\ call' = call /\ UNCHANGED dbVars
         \/ pc[p] \in Open /\ call' = call /\ UNCHANGED dbVars
         \/ pc'[p] \notin Open /\ UNCHANGED dbVars
         \/ Apply(p) /\ pc'[p] \notin Open
<1> USE DEF TypeOK, Goto, Open
<1>1. CASE Starts(p)
  BY <1>1 DEF Starts, Start
<1>2. CASE Begin(p)
  BY <1>2 DEF Begin
<1>3. CASE Query(p)
  BY <1>3 DEF Query
<1>4. CASE Lock(p)
  BY <1>4 DEF Lock
<1>5. CASE Ends(p)
  BY <1>5 DEF Ends, End
<1>6. CASE Apply(p)
  BY <1>6, AppliedIdle
<1>7. QED
  BY <1>1, <1>2, <1>3, <1>4, <1>5, <1>6 DEF Moves

LEMMA KeyMove ==
  ASSUME KeyInv, NEW p \in Proc, Moves(p)
  PROVE  KeysOpen' /\ OneWriter'
<1>0. TypeOK
  BY DEF KeyInv
<1>1. OthersSame(p) /\ backend' = backend
  BY <1>0, Frame
<1> DEFINE newcomer == pc[p] \notin Open /\ pc'[p] \in Open
<1>2. ASSUME NEW q \in Proc
      PROVE  Others(q)' \subseteq Others(q) \cup (IF newcomer THEN {p} ELSE {})
  BY <1>1 DEF Others, OthersSame
<1>3. CASE Begin(p) /\ pc'[p] \in Open /\ call' = call /\ UNCHANGED dbVars
  <2>1. MayBegin(p) /\ ReceiptsOf(call[p].key) = {}
    BY <1>3 DEF Begin
  <2>2. ASSUME NEW q \in Proc, pc'[q] \in Open
        PROVE  /\ (ReceiptsOf(call[q].key) = {})'
               /\ \A r \in Others(q)' : /\ backend = "postgres"
                                        /\ call[q].key # NoKey =>
                                             call[r].key # call[q].key
    <3>1. CASE q = p
      BY <1>1, <1>3, <2>1, <3>1 DEF MayBegin, ReceiptsOf, Others, OthersSame, dbVars
    <3>2. CASE q # p
      <4>1. pc[q] \in Open /\ q \in Others(p)
        BY <1>1, <2>2, <3>2 DEF OthersSame, Others
      <4>2. /\ backend = "postgres"
            /\ call[p].key # NoKey => call[q].key # call[p].key
        BY <2>1, <4>1 DEF MayBegin
      <4>3. (ReceiptsOf(call[q].key) = {})'
        BY <1>3, <4>1 DEF KeyInv, KeysOpen, ReceiptsOf, dbVars
      <4>4. QED
        BY <1>2, <4>1, <4>2, <4>3 DEF KeyInv, KeysOpen
    <3>3. QED
      BY <3>1, <3>2
  <2>3. KeysOpen'
    BY <1>3, <2>2 DEF KeysOpen
  <2>4. OneWriter'
    BY <1>1, <2>2 DEF OneWriter
  <2>5. QED
    BY <2>3, <2>4
<1>4. CASE pc[p] \in Open /\ call' = call /\ UNCHANGED dbVars
  <2>1. \A q \in Proc : Others(q)' \subseteq Others(q)
    BY <1>2, <1>4
  <2>2. \A q \in Proc : pc'[q] \in Open => pc[q] \in Open
    BY <1>1, <1>4 DEF OthersSame
  <2>3. QED
    BY <1>1, <1>4, <2>1, <2>2
    DEF KeyInv, KeysOpen, OneWriter, ReceiptsOf, dbVars
<1>5. CASE pc'[p] \notin Open
  <2>1. \A q \in Proc : Others(q)' \subseteq Others(q) \ {p}
    BY <1>1, <1>5 DEF Others, OthersSame
  <2>2. \A q \in Proc : pc'[q] \in Open =>
          q # p /\ pc[q] \in Open /\ call'[q] = call[q]
    BY <1>1, <1>5 DEF OthersSame
  <2>3. \A q, r \in Proc : r \in Others(q)' => r # p /\ call'[r] = call[r]
    BY <1>1, <1>5 DEF Others, OthersSame
  <2>4. ASSUME NEW q \in Proc, pc'[q] \in Open
        PROVE  (ReceiptsOf(call[q].key) = {})'
    <3>1. ReceiptsOf(call[q].key) = {} /\ call'[q] = call[q] /\ q # p
      BY <2>2, <2>4 DEF KeyInv, KeysOpen
    <3>2. CASE receipts' = receipts
      BY <3>1, <3>2 DEF ReceiptsOf
    <3>3. CASE Apply(p) /\ ApplyReview(p)
      <4>1. /\ receipts' = receipts \cup {call[p]}
            /\ pc[p] = "decide" /\ call[p].key \in RequestKey
        BY <1>0, <3>3, ReviewEffect, ApplyEffect DEF ReviewCall
      <4>2. call[p].key # NoKey
        BY <4>1, ReviewAssumption DEF RequestKey
      <4>3. q \in Others(p)
        BY <2>2, <2>4, <3>1 DEF Others
      <4>4. call[q].key # call[p].key
        BY <4>1, <4>2, <4>3 DEF KeyInv, KeysOpen, Open
      <4>5. QED
        BY <3>1, <4>1, <4>4 DEF ReceiptsOf
    <3>4. QED
      BY <1>0, <3>2, <3>3, Frame, DepositEffect DEF dbVars
  <2>5. KeysOpen'
    BY <2>1, <2>2, <2>3, <2>4 DEF KeyInv, KeysOpen, Others
  <2>6. OneWriter'
    BY <1>1, <2>1, <2>2 DEF KeyInv, OneWriter
  <2>7. QED
    BY <2>5, <2>6
<1>6. QED
  BY <1>0, <1>3, <1>4, <1>5, OpenKinds

LEMMA KeyAlways == Spec => []KeyInv
<1>1. Init => KeyInv
  BY InitType DEF Init, KeyInv, KeysOpen, OneWriter, Open
<1>2. KeyInv /\ [Next]_vars => KeyInv'
  <2> SUFFICES ASSUME KeyInv, [Next]_vars
               PROVE  KeysOpen' /\ OneWriter'
    BY TypeInductive DEF KeyInv
  <2>1. CASE Next
    BY <2>1, NextMoves, KeyMove DEF KeyInv
  <2>2. CASE UNCHANGED vars
    BY <2>2 DEF KeyInv, KeysOpen, OneWriter, ReceiptsOf, Others, vars, dbVars
  <2>3. QED
    BY <2>1, <2>2
<1>3. QED
  BY <1>1, <1>2, PTL DEF Spec

\* Receipts and events belong together, one to one.
LEMMA OnceMove ==
  ASSUME KeyInv, AppliedOnce, NEW p \in Proc, Moves(p)
  PROVE  AppliedOnce'
<1>0. TypeOK
  BY DEF KeyInv
<1>1. CASE UNCHANGED dbVars
  BY <1>1 DEF AppliedOnce, dbVars
<1>2. CASE Apply(p) /\ ~ApplyReview(p)
  BY <1>0, <1>2, DepositEffect DEF AppliedOnce
<1>3. CASE Apply(p) /\ ApplyReview(p)
  <2> DEFINE t == On(p)  k == call[p].key  new == Len(events[t]) + 1
  <2>1. /\ pc[p] = "decide" /\ t \in Target
        /\ \A u \in Target \ {t} : events'[u] = events[u]
    BY <1>0, <1>3, ApplyEffect
  <2>2. /\ receipts' = receipts \cup {call[p]}
        /\ call[p] \in ReviewCall /\ call[p].req.target = t
        /\ \A i \in DOMAIN events'[t] :
             \/ i \in DOMAIN events[t] /\ events'[t][i] = events[t][i]
             \/ i = new /\ events'[t][i].key = k
        /\ \A i \in DOMAIN events[t] :
             i \in DOMAIN events'[t] /\ events'[t][i] = events[t][i]
        /\ new \in DOMAIN events'[t]
    <3>1. EventOf(p).key = k
      BY DEF EventOf
    <3>2. call[p].req.target = t
      BY DEF On, Req
    <3>3. QED
      BY <1>0, <1>3, <3>1, <3>2, ReviewEffect
  <2>3. new \notin DOMAIN events[t]
    BY <1>0, <2>1 DEF TypeOK
  <2>4. events'[t][new].key = k
    BY <2>2, <2>3
  <2>5. ReceiptsOf(k) = {}
    BY <2>1 DEF KeyInv, KeysOpen, Open
  <2>6. \A u \in Target : \A i \in DOMAIN events[u] : events[u][i].key # k
    BY <2>5 DEF AppliedOnce, ReceiptsOf
  <2>7. \A x \in receipts : x.req.target \in Target
    BY <1>0 DEF TypeOK, ReviewCall, Request
  <2>8. \A x \in receipts' :
          \E i \in DOMAIN events'[x.req.target] :
            events'[x.req.target][i].key = x.key
    <3>1. TAKE x \in receipts'
    <3>2. CASE x = call[p]
      BY <2>2, <2>4, <3>2
    <3>3. CASE x \in receipts
      <4>1. PICK i \in DOMAIN events[x.req.target] :
              events[x.req.target][i].key = x.key
        BY <3>3 DEF AppliedOnce
      <4>2. QED
        BY <2>1, <2>2, <2>7, <3>3, <4>1
    <3>4. QED
      BY <2>2, <3>2, <3>3
  \* Each event is an old one or the new one.
  <2>9. ASSUME NEW u \in Target, NEW i \in DOMAIN events'[u]
        PROVE  \/ i \in DOMAIN events[u] /\ events'[u][i] = events[u][i]
               \/ u = t /\ i = new /\ events'[u][i].key = k
    BY <2>1, <2>2
  <2>10. ASSUME NEW u \in Target, NEW v \in Target,
                NEW i \in DOMAIN events'[u], NEW j \in DOMAIN events'[v],
                events'[u][i].key = events'[v][j].key
         PROVE  u = v /\ i = j
    <3>1. CASE i \in DOMAIN events[u] /\ events'[u][i] = events[u][i]
      <4>1. CASE j \in DOMAIN events[v] /\ events'[v][j] = events[v][j]
        BY <2>10, <3>1, <4>1 DEF AppliedOnce
      <4>2. CASE v = t /\ j = new /\ events'[v][j].key = k
        BY <2>6, <2>10, <3>1, <4>2
      <4>3. QED
        BY <2>9, <4>1, <4>2
    <3>2. CASE u = t /\ i = new /\ events'[u][i].key = k
      BY <2>6, <2>9, <2>10, <3>2
    <3>3. QED
      BY <2>9, <3>1, <3>2
  <2>11. ASSUME NEW u \in Target, NEW i \in DOMAIN events'[u]
         PROVE  \E x \in receipts' :
                  x.key = events'[u][i].key /\ x.req.target = u
    <3>1. CASE i \in DOMAIN events[u] /\ events'[u][i] = events[u][i]
      BY <2>2, <3>1 DEF AppliedOnce
    <3>2. CASE u = t /\ i = new /\ events'[u][i].key = k
      BY <2>2, <3>2
    <3>3. QED
      BY <2>9, <3>1, <3>2
  <2>12. QED
    BY <2>8, <2>10, <2>11 DEF AppliedOnce
<1>4. QED
  BY <1>0, <1>1, <1>2, <1>3, Frame

\* A review that is sent again, while it runs or after its answer was lost,
\* takes effect once: its key has one event, on the target it asked for.
THEOREM ReviewsApplyOnce == Spec => []AppliedOnce
<1>1. Init => AppliedOnce
  <2>1. Init => receipts = {} /\ \A t \in Target : DOMAIN events[t] = {}
    <3>1. \A t \in Target : events[t] = <<>> => DOMAIN events[t] = {}
      OBVIOUS
    <3>2. QED
      BY <3>1, InitNoEvents DEF Init
  <2>2. QED
    BY <2>1, Zenon DEF AppliedOnce
<1>2. KeyInv /\ AppliedOnce /\ [Next]_vars => AppliedOnce'
  <2> SUFFICES ASSUME KeyInv, AppliedOnce, [Next]_vars
               PROVE  AppliedOnce'
    OBVIOUS
  <2>1. CASE Next
    BY <2>1, NextMoves, OnceMove DEF KeyInv
  <2>2. CASE UNCHANGED vars
    BY <2>2 DEF AppliedOnce, vars, dbVars
  <2>3. QED
    BY <2>1, <2>2
<1>3. QED
  BY <1>1, <1>2, KeyAlways, PTL DEF Spec

-----------------------------------------------------------------------------
(***************************************************************************)
(* What the reviewers have seen                                            *)
(***************************************************************************)

\* The events before an event are those that were there when it was added.
LEMMA EventsBefore ==
  ASSUME NEW evs \in Seq(Event), NEW ev \in Event
  PROVE  /\ SubSeq(Append(evs, ev), 1, Len(evs)) = evs
         /\ \A i \in DOMAIN evs :
              SubSeq(Append(evs, ev), 1, i - 1) = SubSeq(evs, 1, i - 1)
<1>1. /\ Append(evs, ev) \in Seq(Event)
      /\ Len(Append(evs, ev)) = Len(evs) + 1 /\ Len(evs) \in Nat
      /\ \A i \in 1..Len(evs) : Append(evs, ev)[i] = evs[i]
  OBVIOUS
<1>2. ASSUME NEW n \in 0..Len(evs)
      PROVE  SubSeq(Append(evs, ev), 1, n) = SubSeq(evs, 1, n)
  <2>1. /\ SubSeq(Append(evs, ev), 1, n) \in Seq(Event)
        /\ Len(SubSeq(Append(evs, ev), 1, n)) = n
        /\ \A i \in 1..n : SubSeq(Append(evs, ev), 1, n)[i] = evs[i]
    BY <1>1
  <2>2. /\ SubSeq(evs, 1, n) \in Seq(Event)
        /\ Len(SubSeq(evs, 1, n)) = n
        /\ \A i \in 1..n : SubSeq(evs, 1, n)[i] = evs[i]
    BY <1>1
  <2>3. QED
    BY <2>1, <2>2, SeqEqual
<1>3. SubSeq(evs, 1, Len(evs)) = evs
  OBVIOUS
<1>4. \A i \in DOMAIN evs : i - 1 \in 0..Len(evs)
  OBVIOUS
<1>5. QED
  BY <1>1, <1>2, <1>3, <1>4

\* A transaction that decides on an entity has the state that the events give;
\* on SQLite one that has read a claim has, too.
SeenFresh ==
  \A p \in Proc :
    /\ pc[p] = "decide" /\ On(p) \notin Claims =>
         seen[p] = StateOf(events[On(p)], base[p])
    /\ pc[p] \in {"wait", "decide"} /\ On(p) \in Claims
         /\ backend = "sqlite" =>
         seen[p] = StateOf(events[On(p)], Req(p).rev)

SeenInv == RowInv /\ KeyInv /\ SeenFresh

LEMMA SeenMove ==
  ASSUME SeenInv, NEW p \in Proc, Moves(p)
  PROVE  SeenFresh'
<1>0. TypeOK
  BY DEF SeenInv, RowInv
<1>1. OthersSame(p) /\ backend' = backend
  BY <1>0, Frame
<1>2. \A q \in Proc \ {p} : Req(q)' = Req(q) /\ On(q)' = On(q)
  BY <1>1, OthersRequest
\* It is enough to look at p unless the database changes.
<1>3. ASSUME UNCHANGED dbVars,
             /\ (pc[p] = "decide" /\ On(p) \notin Claims =>
                   seen[p] = StateOf(events[On(p)], base[p]))'
             /\ (pc[p] \in {"wait", "decide"} /\ On(p) \in Claims
                   /\ backend = "sqlite" =>
                   seen[p] = StateOf(events[On(p)], Req(p).rev))'
      PROVE  SeenFresh'
  BY <1>1, <1>2, <1>3 DEF SeenInv, SeenFresh, OthersSame, dbVars
<1>4. CASE Starts(p) \/ Begin(p) \/ Ends(p)
  <2>1. pc'[p] \notin {"wait", "decide"} /\ UNCHANGED dbVars
    BY <1>0, <1>4 DEF Starts, Start, Begin, Ends, End, Goto, TypeOK
  <2>2. QED
    BY <1>3, <2>1
<1>5. CASE Query(p)
  <2>1. /\ pc'[p] = "wait" /\ UNCHANGED dbVars
        /\ seen'[p] = StateOf(events[On(p)], Req(p).rev)
        /\ On(p)' = On(p) /\ Req(p)' = Req(p)
    BY <1>0, <1>5 DEF Query, Goto, TypeOK, On, Req
  <2>2. QED
    BY <1>3, <2>1 DEF dbVars
<1>6. CASE Lock(p)
  <2>1. /\ UNCHANGED dbVars /\ pc[p] = "wait"
        /\ base'[p] = current[On(p)]
        /\ seen'[p] = IF On(p) \in Claims THEN seen[p] ELSE StateNow(On(p))
        /\ On(p)' = On(p) /\ Req(p)' = Req(p)
    BY <1>0, <1>6 DEF Lock, TypeOK, On, Req
  <2>2. QED
    BY <1>1, <1>3, <2>1 DEF SeenInv, SeenFresh, StateNow, dbVars
<1>7. CASE Apply(p)
  <2>1. pc[p] = "decide" /\ pc'[p] = "idle" /\ On(p) \in Target
    BY <1>0, <1>7, ApplyEffect, AppliedIdle
  <2>2. ASSUME NEW q \in Proc \ {p}, pc[q] = "decide"
        PROVE  events'[On(q)] = events[On(q)]
    <3>1. On(q) \in Target /\ On(q) # On(p)
      BY <1>0, <2>1, <2>2, RequestType DEF SeenInv, RowInv, RowHeld
    <3>2. QED
      BY <1>0, <1>7, <3>1, ApplyEffect
  <2>3. ASSUME NEW q \in Proc \ {p}, backend = "sqlite"
        PROVE  pc[q] \notin {"wait", "decide"}
    <3>1. Others(p) = {}
      BY <2>1, <2>3 DEF SeenInv, KeyInv, OneWriter, Open
    <3>2. QED
      BY <3>1 DEF Others, Open
  <2>4. ASSUME NEW q \in Proc
        PROVE  /\ (pc[q] = "decide" /\ On(q) \notin Claims =>
                     seen[q] = StateOf(events[On(q)], base[q]))'
               /\ (pc[q] \in {"wait", "decide"} /\ On(q) \in Claims
                     /\ backend = "sqlite" =>
                     seen[q] = StateOf(events[On(q)], Req(q).rev))'
    <3>1. CASE q = p
      BY <2>1, <3>1
    <3>2. CASE q # p
      BY <1>1, <1>2, <2>2, <2>3, <3>2 DEF SeenInv, SeenFresh, OthersSame
    <3>3. QED
      BY <3>1, <3>2
  <2>5. QED
    BY <2>4 DEF SeenFresh
<1>8. QED
  BY <1>3, <1>4, <1>5, <1>6, <1>7 DEF Moves

LEMMA SeenAlways == Spec => []SeenInv
<1>1. Init => SeenFresh
  BY DEF Init, SeenFresh
<1>2. SeenInv /\ [Next]_vars => SeenFresh'
  <2> SUFFICES ASSUME SeenInv, [Next]_vars
               PROVE  SeenFresh'
    OBVIOUS
  <2>1. CASE Next
    BY <2>1, NextMoves, SeenMove DEF SeenInv, RowInv
  <2>2. CASE UNCHANGED vars
    BY <2>2 DEF SeenInv, SeenFresh, On, Req, vars, dbVars
  <2>3. QED
    BY <2>1, <2>2
<1>3. QED
  BY <1>1, <1>2, RowAlways, KeyAlways, PTL DEF Spec, SeenInv

\* A decision that commits compares the state that the events before it give.
LEMMA InformedMove ==
  ASSUME SeenInv, InformedDecisions, NEW p \in Proc, Moves(p)
  PROVE  InformedDecisions'
<1>0. TypeOK
  BY DEF SeenInv, RowInv
<1>1. backend' = backend
  BY <1>0, Frame
<1>2. CASE UNCHANGED dbVars
  BY <1>1, <1>2 DEF InformedDecisions, Informed, dbVars
<1>3. CASE Apply(p) /\ ~ApplyReview(p)
  BY <1>0, <1>1, <1>3, DepositEffect DEF InformedDecisions, Informed
<1>4. CASE Apply(p) /\ ApplyReview(p)
  <2> DEFINE t == On(p)  evs == events[t]  new == Len(evs) + 1
  <2>1. /\ pc[p] = "decide" /\ t \in Target
        /\ \A u \in Target \ {t} : events'[u] = events[u]
        /\ EventOf(p) \in Event
        /\ events'[t] = Append(evs, EventOf(p))
    BY <1>0, <1>4, ApplyEffect
  <2>2. /\ receipts' = receipts \cup {call[p]}
        /\ call[p].req = Req(p)
        /\ Req(p).rev = base[p] /\ Req(p).state = seen[p]
        /\ \A i \in DOMAIN events'[t] :
             \/ i \in DOMAIN evs /\ events'[t][i] = evs[i]
             \/ i = new /\ events'[t][i] = EventOf(p)
    BY <1>0, <1>4, ReviewEffect
  <2>3. EventOf(p).key = call[p].key /\ EventOf(p).base = base[p]
    BY DEF EventOf
  <2>4. evs \in Seq(Event)
    BY <1>0, <2>1 DEF TypeOK
  <2>5. /\ SubSeq(events'[t], 1, new - 1) = evs
        /\ \A i \in DOMAIN evs :
             SubSeq(events'[t], 1, i - 1) = SubSeq(evs, 1, i - 1)
    <3>1. new - 1 = Len(evs)
      BY <2>4
    <3>2. QED
      BY <2>1, <2>4, <3>1, EventsBefore
  <2>6. ASSUME NEW u \in Target \ {t}, Informed(u)
        PROVE  Informed(u)'
    <3>1. events'[u] = events[u] /\ receipts \subseteq receipts'
      BY <2>1, <2>2
    <3>2. QED
      BY <2>6, <3>1 DEF Informed
  <2>7. ASSUME backend = "sqlite" \/ t \notin Claims
        PROVE  seen[p] = StateOf(evs, base[p])
    BY <2>1, <2>2, <2>7 DEF SeenInv, SeenFresh
  <2>8. ASSUME backend = "sqlite" \/ t \notin Claims,
               NEW i \in DOMAIN events'[t]
        PROVE  \E x \in receipts' :
                 /\ x.key = events'[t][i].key
                 /\ x.req.rev = events'[t][i].base
                 /\ x.req.state = StateOf(SubSeq(events'[t], 1, i - 1), x.req.rev)
    <3>1. CASE i \in DOMAIN evs /\ events'[t][i] = evs[i]
      <4>1. PICK x \in receipts :
              /\ x.key = evs[i].key
              /\ x.req.rev = evs[i].base
              /\ x.req.state = StateOf(SubSeq(evs, 1, i - 1), x.req.rev)
        BY <2>1, <2>8, <3>1 DEF InformedDecisions, Informed
      <4>2. QED
        BY <2>2, <2>5, <3>1, <4>1
    <3>2. CASE i = new /\ events'[t][i] = EventOf(p)
      <4>1. call[p].req.state = StateOf(SubSeq(events'[t], 1, i - 1), base[p])
        BY <2>2, <2>5, <2>7, <2>8, <3>2
      <4>2. QED
        BY <2>2, <2>3, <3>2, <4>1
    <3>3. QED
      BY <2>2, <3>1, <3>2
  <2>9. ASSUME NEW u \in Target, backend' = "sqlite" \/ u \notin Claims
        PROVE  Informed(u)'
    <3>1. CASE u = t
      <4> SUFFICES ASSUME NEW i \in DOMAIN events'[t]
                   PROVE  \E x \in receipts' :
                            /\ x.key = events'[t][i].key
                            /\ x.req.rev = events'[t][i].base
                            /\ x.req.state =
                                 StateOf(SubSeq(events'[t], 1, i - 1), x.req.rev)
        BY <3>1 DEF Informed
      <4>1. QED
        BY <1>1, <2>8, <2>9, <3>1
    <3>2. CASE u # t
      BY <1>1, <2>6, <2>9, <3>2 DEF InformedDecisions
    <3>3. QED
      BY <3>1, <3>2
  <2>10. QED
    BY <2>9 DEF InformedDecisions
<1>5. QED
  BY <1>0, <1>2, <1>3, <1>4, Frame

\* No decision overrides one that its client has not seen: on SQLite never, on
\* PostgreSQL not on an entity.
THEOREM DecisionsAreInformed == Spec => []InformedDecisions
<1>1. Init => InformedDecisions
  <2>1. Init => \A t \in Target : DOMAIN events[t] = {}
    <3>1. \A t \in Target : events[t] = <<>> => DOMAIN events[t] = {}
      OBVIOUS
    <3>2. QED
      BY <3>1, InitNoEvents
  <2>2. QED
    BY <2>1, Zenon DEF InformedDecisions, Informed
<1>2. SeenInv /\ InformedDecisions /\ [Next]_vars => InformedDecisions'
  <2> SUFFICES ASSUME SeenInv, InformedDecisions, [Next]_vars
               PROVE  InformedDecisions'
    OBVIOUS
  <2>1. CASE Next
    BY <2>1, NextMoves, InformedMove DEF SeenInv, RowInv
  <2>2. CASE UNCHANGED vars
    BY <2>2 DEF InformedDecisions, Informed, vars, dbVars
  <2>3. QED
    BY <2>1, <2>2
<1>3. QED
  BY <1>1, <1>2, SeenAlways, PTL DEF Spec

===============================================================================
