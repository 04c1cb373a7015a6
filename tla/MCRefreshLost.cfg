SPECIFICATION Spec
CONSTANTS
  p1 = p1
  p2 = p2
  k1 = k1
  k2 = k2
  c1 = c1
  r1 = r1
  NoKey = NoKey
  NoJob = NoJob
  Proc = {p1, p2}
  Key = {k1, k2}
  Content = {"old", "new"}
  Quote = {"stays", "goes"}
  Matches <- Occurrences
  Claim = {c1}
  Report = {r1}
  Includes <- OneClaim
  FirstContent = "old"
  FirstQuotes <- TwoQuotes
  FirstCites <- BothCited
  Job <- Jobs
  Setting <- LostSettings
  MaxEvidence = 4
CHECK_DEADLOCK FALSE
INVARIANT CapturedIsReported
