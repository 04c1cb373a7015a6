SPECIFICATION Spec
CONSTANTS
  c = c
  d = d
  e = e
  k1 = k1
  k2 = k2
  k3 = k3
  NoKey = NoKey
  NoCall = NoCall
  Proc = {p1}
  Target = {c, d, e}
  Claims = {c, d}
  Public = {}
  Clients <- RetainedClients
  Key = {k1, k2}
  Intent <- AllIntents
  Backend = {"sqlite"}
  First = {"partial"}
  MaxRevisions = 2
CHECK_DEADLOCK FALSE
PROPERTY RetainedReviewTakesEffect
