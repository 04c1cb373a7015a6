-------------------------------- MODULE Catalog --------------------------------
(***************************************************************************)
(* Five parts of the registry that share no state: in each behaviour one   *)
(* of them moves, and the others stay at one of their initial states.      *)
(***************************************************************************)
EXTENDS RefreshCapture, FrontEnds, Retrieval, Anchoring, GitSource

VARIABLE wing

CatalogInit ==
  /\ wing \in {"refresh", "library", "reading", "anchors", "git"}
  /\ IF wing = "refresh" THEN TRUE
     ELSE /\ setting = CHOOSE s \in Setting : TRUE
          /\ body = CHOOSE b \in setting.bodies : TRUE
  /\ IF wing = "library" THEN TRUE
     ELSE stage = CHOOSE s \in Stage : s.records = <<>>
  /\ IF wing = "reading" THEN TRUE ELSE reading = CHOOSE s \in Reading : TRUE
  /\ IF wing = "anchors" THEN TRUE
     ELSE submitted = CHOOSE s \in Submission : TRUE
  /\ Init /\ RecordsInit /\ ReadInit /\ AnchorInit /\ GitInit

CatalogNext ==
  /\ \/ wing = "refresh" /\ Next
          /\ UNCHANGED <<recordVars, readVars, anchorVars, gitSourceVars>>
     \/ wing = "library" /\ RecordsNext
          /\ UNCHANGED <<vars, readVars, anchorVars, gitSourceVars>>
     \/ wing = "reading" /\ ReadNext
          /\ UNCHANGED <<vars, recordVars, anchorVars, gitSourceVars>>
     \/ wing = "anchors" /\ AnchorNext
          /\ UNCHANGED <<vars, recordVars, readVars, gitSourceVars>>
     \/ wing = "git" /\ GitNext
          /\ UNCHANGED <<vars, recordVars, readVars, anchorVars>>
  /\ UNCHANGED wing

CatalogSpec ==
  CatalogInit /\ [][CatalogNext]_<<wing, vars, recordVars, readVars, anchorVars, gitSourceVars>>

\* The shape of every reachable state of the part that moves; the others are at
\* a state where a behaviour begins in which they move.
Shape ==
  /\ wing = "refresh" => TypeOK
  /\ wing = "library" => RecordsTypeOK
  /\ wing = "reading" => ReadTypeOK
  /\ wing = "anchors" => AnchorTypeOK
  /\ wing = "git" => GitTypeOK
================================================================================
