------------------------------ MODULE BlobStore ------------------------------
(***************************************************************************)
(* The content-addressed filesystem blob store of ingestion/blobs.py.      *)
(*                                                                         *)
(* A file is named by the hash of its bytes, so a blob is its hash.  An    *)
(* operation of a process first writes the bytes of snapshot i to a        *)
(* private stage file and later either moves it to its final name          *)
(* (finalize) or deletes it (discard).  The registry of the stage files    *)
(* a store object owns is in memory (_staged): after a crash the files     *)
(* stay on disk and nobody owns them.                                      *)
(***************************************************************************)
EXTENDS Naturals

CONSTANTS
  Proc,     \* the worker processes (threads of a server, CLI runs)
  Hash      \* SHA-256 digests of snapshot bodies

VARIABLES
  files,    \* hashes whose final file exists
  stage,    \* stage[p]: snapshot numbers of p's operation with a stage file
  stale     \* hashes of stage files left on disk by crashed processes

blobVars == <<files, stage, stale>>

BlobInit ==
  /\ files = {}
  /\ stage = [p \in Proc |-> {}]
  /\ stale = {}

\* stage_bytes: create, write and fsync the stage file, then register it.
StageBytes(p, i) ==
  /\ stage' = [stage EXCEPT ![p] = @ \cup {i}]
  /\ UNCHANGED <<files, stale>>

\* finalize: the first writer of a hash renames its stage file to the final
\* name; a later one verifies the existing file and drops its stage file.
Finalize(p, i, h) ==
  /\ files' = files \cup {h}
  /\ stage' = [stage EXCEPT ![p] = @ \ {i}]
  /\ UNCHANGED stale

\* finalize reports reused = TRUE iff the final file was already there.
Reused(h) == h \in files

Discard(p, i) ==
  /\ stage' = [stage EXCEPT ![p] = @ \ {i}]
  /\ UNCHANGED <<files, stale>>

\* The cleanup paths discard every stage file the operation still owns.
DiscardAll(p) ==
  /\ stage' = [stage EXCEPT ![p] = {}]
  /\ UNCHANGED <<files, stale>>

\* rollback_finalize of an object this operation created: the final file is
\* unlinked, whoever refers to it by now.
RollbackFinalize(h) ==
  /\ files' = files \ {h}
  /\ UNCHANGED <<stage, stale>>

\* read(verify = TRUE) succeeds: the file exists and has its digest.
Readable(h) == h \in files

\* A crash loses the in-memory registry; the stage files become stale.
\* hashes is the set of hashes p had staged.
LoseStages(p, hashes) ==
  /\ stage' = [stage EXCEPT ![p] = {}]
  /\ stale' = stale \cup hashes
  /\ UNCHANGED files
==============================================================================
