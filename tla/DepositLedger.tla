---------------------------- MODULE DepositLedger ----------------------------
(***************************************************************************)
(* What a deposit promises its client, with no process, lock, transaction  *)
(* or file in sight: an idempotency key is spent once, on one request      *)
(* body, and the source versions of that body become visible with the      *)
(* receipt, all of them or none; a version key names one content for ever. *)
(***************************************************************************)
CONSTANTS
  Key,        \* idempotency keys
  Body,       \* request bodies (what the request hash identifies)
  NoBody,     \* a key that was not used
  Rows        \* Rows[b]: the version rows <<version key, hash>> of body b

VARIABLES
  receipt,    \* receipt[k]: the body key k was spent on
  versions    \* the visible version rows

ledgerVars == <<receipt, versions>>

LedgerInit ==
  /\ receipt = [k \in Key |-> NoBody]
  /\ versions = {}

\* The rows agree on the content of every version key they share.
Agree(rows, others) ==
  \A x \in rows, y \in others : x[1] = y[1] => x = y

Accept(k, b) ==
  /\ receipt[k] = NoBody
  /\ Agree(Rows[b], versions \cup Rows[b])
  /\ receipt' = [receipt EXCEPT ![k] = b]
  /\ versions' = versions \cup Rows[b]

\* A capture stores versions without spending a key.
Record(b) ==
  /\ Agree(Rows[b], versions \cup Rows[b])
  /\ versions' = versions \cup Rows[b]
  /\ UNCHANGED receipt

LedgerNext ==
  \/ \E k \in Key, b \in Body : Accept(k, b)
  \/ \E b \in Body : Record(b)

LedgerSpec == LedgerInit /\ [][LedgerNext]_ledgerVars
==============================================================================
