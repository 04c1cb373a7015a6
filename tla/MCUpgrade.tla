------------------------------- MODULE MCUpgrade -------------------------------
(***************************************************************************)
(* The backfill on the databases that tell its cases apart.                *)
(***************************************************************************)
EXTENDS Backfill

CONSTANTS p1, p2, c1, c2, none, norow

\* Source 2, excerpt 4 without a quote, claim 6 and report 7 are there; source
\* 1, excerpt 3 and claim 5 are written meanwhile and sort below them.
Rows == 1 .. 7
Kinds == <<"source", "source", "excerpt", "excerpt", "claim", "claim", "report">>
Refers == <<{}, {}, {2}, {2}, {3, 4}, {}, {6}>>
Empties == {4}
Supports == {5}

Old == {2, 4, 6, 7}

Places ==
  \* Two runs, one after the other, interrupted anywhere, beside a client.
  {[backend |-> b, rows |-> Old, adopted |-> {}, agents |-> {p1, c1},
    written |-> {1, 3, 5}, runs |-> 2] : b \in {"sqlite", "postgres"}}
  \cup
  \* Runs that overlap.
  {[backend |-> b, rows |-> {2, 3, 4, 5}, adopted |-> {}, agents |-> {p1, p2, c1},
    written |-> {1}, runs |-> 3] : b \in {"sqlite"}}
  \cup
  \* Two clients beside a run.
  {[backend |-> b, rows |-> {2, 4}, adopted |-> {}, agents |-> {p1, c1, c2},
    written |-> {1, 3, 5}, runs |-> 1] : b \in {"postgres"}}
  \cup
  \* Rows of the first v2 program, whose identities are adopted.
  {[backend |-> b, rows |-> {2, 3, 4, 5}, adopted |-> {2, 3, 5}, agents |-> {p1, c1},
    written |-> {6}, runs |-> 2] : b \in {"sqlite"}}
================================================================================
