------------------------------ MODULE MCDeposit ------------------------------
(***************************************************************************)
(* Instances of Deposit, each a set of settings: a database and the calls  *)
(* that its two processes make.                                            *)
(***************************************************************************)
EXTENDS Deposit, TLC

CONSTANTS p1, p2, k1, k2, h1, h2, v1, v2

\* Two snapshots with the same content; two with different contents; single
\* ones; the same version with other content.
AllItems ==
  [twins |-> << <<v1, h1>>, <<v2, h1>> >>,
   pair  |-> << <<v1, h1>>, <<v2, h2>> >>,
   one   |-> << <<v1, h1>> >>,
   two   |-> << <<v2, h2>> >>,
   other |-> << <<v1, h2>> >>]

Call(kind, key, body) == [kind |-> kind, key |-> key, body |-> body]

On(backend, first, second) ==
  [backend |-> backend, jobs |-> (p1 :> first @@ p2 :> second)]

\* A deposit and its dry run, the reuse of the key for another body, and a
\* capture of the content the deposit stores: the calls race on a key, on a
\* version key and on a content hash.
SharedJobs ==
  {Call("deposit", k1, "twins"), Call("deposit", k1, "other"),
   Call("validate", k1, "twins"), Call("capture", k1, "one")}

TwoJobs == {Call("deposit", k1, "twins"), Call("capture", k1, "one")}

\* Calls with two new blobs: a deposit can fail between its finalizations
\* and undo the first.
AloneJobs ==
  {Call("deposit", k1, "pair"), Call("deposit", k2, "two"),
   Call("validate", k2, "pair"), Call("capture", k1, "one")}

AllJobs == SharedJobs \cup AloneJobs

RaceJobs == {Call("deposit", k1, "pair"), Call("capture", k1, "one")}

SafetySettings ==
  {On("postgres", SharedJobs, TwoJobs), On("sqlite", TwoJobs, TwoJobs),
   On("postgres", AloneJobs, {})}

RaceSettings == {On("sqlite", RaceJobs, RaceJobs)}
==============================================================================
