SPECIFICATION HostSpec
CONSTANTS
  p1 = p1
  p2 = p2
  c1 = c1
  c2 = c2
  f = f
  g = g
  NoOne = NoOne
  NoCall = NoCall
  NoOrder = NoOrder
  NoFile = NoFile
  Partial = Partial
  Missing = Missing
  Absent = Absent
  Empty = Empty
  Proc = {p1, p2}
  Client = {c1, c2}
  Path = {f, g}
  Table <- Tables
  Id = {1, 2, 3, 4, 5}
  Flat = {1}
  Checked = {1, 2}
  NonTransactional = {4}
  Creates <- CreatedBy
  Predecessor = {"runs"}
  Build <- Builds
  Call <- Calls
  Origin <- Origins
  Place <- Places
  Desk <- AtDesk
  MaxStarts = 3
  Authoritative = {"claims", "versions"}
  BlobTable = "versions"
  Order <- Orders
  MaxOrders = 3
  MaxLosses = 1
  skill = skill
  Command = {"init", "up", "repair", "install codex", "uninstall codex",
             "uninstall", "restore backup", "purge"}
  Link = {skill}
  Foreign = Foreign
  Taken = Taken
  Files = 2
  MaxCommands = 3
  MaxKeys = 2
  MaxReleases = 2
  MaxEdits = 2
  MaxBreaks = 2
CHECK_DEADLOCK FALSE
INVARIANTS
  Shape
  LedgerIsTrue
  Resumable
  ReportedIsKept
  ManifestIsOneState
PROPERTIES
  ContentKept
