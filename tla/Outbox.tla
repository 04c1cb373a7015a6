-------------------------------- MODULE Outbox --------------------------------
(***************************************************************************)
(* What the capture queue promises, without its file, its lock and its     *)
(* requests: what was put into it is held until it has been stored in full *)
(* (capture_queue.py, enqueue and flush).                                  *)
(***************************************************************************)
CONSTANT Entry

VARIABLES
  held,      \* entries in the queue
  stored     \* entries that a backend has stored in full

outboxVars == <<held, stored>>

OutboxInit == held = {} /\ stored = {}

\* An entry is put into the queue, perhaps again.
Put(e) == held' = held \cup {e} /\ UNCHANGED stored

\* A backend stores an entry that is held.
Store(e) ==
  /\ e \in held
  /\ stored' = stored \cup {e}
  /\ UNCHANGED held

\* A flush drops entries, and only stored ones.
Drop(dropped) ==
  /\ dropped \subseteq stored
  /\ held' = held \ dropped
  /\ UNCHANGED stored

OutboxNext ==
  \/ \E e \in Entry : Put(e) \/ Store(e)
  \/ \E dropped \in SUBSET stored : Drop(dropped)

OutboxSpec == OutboxInit /\ [][OutboxNext]_outboxVars
===============================================================================
