SPECIFICATION Spec
CONSTANTS
  p1 = p1
  p2 = p2
  Proc = {p1, p2}
  k1 = k1
  k2 = k2
  h1 = h1
  h2 = h2
  v1 = v1
  v2 = v2
  Hash = {h1, h2}
  Key = {k1, k2}
  Version = {v1, v2}
  Body = {"twins", "pair", "one", "two", "other"}
  NoBody = NoBody
  NoJob = NoJob
  Items <- AllItems
  Job <- AllJobs
  Setting <- RaceSettings
INVARIANT NoDanglingVersion
