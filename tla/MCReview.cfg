SPECIFICATION Spec
CONSTANTS
  c = c
  d = d
  e = e
  k1 = k1
  k2 = k2
  k3 = k3
  NoKey = NoKey
  NoCall = NoCall
  Proc = {p1, p2}
  Target = {c, d, e}
  Claims = {c, d}
  Public = {d}
  Clients <- RacingClients
  Key = {k1, k2}
  Intent <- AllIntents
  Backend = {"sqlite", "postgres"}
  First = {"partial"}
  MaxRevisions = 2
SYMMETRY Symmetric
CHECK_DEADLOCK FALSE
INVARIANTS
  TypeOK
  LinearHistory
  InformedDecisions
  AppliedOnce
  MirrorAgrees
  RejectedNotApproved
PROPERTIES
  EffectOnNamed
