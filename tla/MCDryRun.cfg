SPECIFICATION Spec
CONSTANTS
  p1 = p1
  p2 = p2
  c1 = c1
  c2 = c2
  f = f
  g = g
  NoOne = NoOne
  NoCall = NoCall
  NoOrder = NoOrder
  NoFile = NoFile
  Partial = Partial
  Missing = Missing
  Absent = Absent
  Empty = Empty
  Proc = {p1, p2}
  Client = {c1, c2}
  Path = {f, g}
  Table <- Tables
  Id = {1, 2, 3, 4, 5}
  Flat = {1}
  Checked = {1, 2}
  NonTransactional = {4}
  Creates <- CreatedBy
  Predecessor = {"runs"}
  Build <- Builds
  Call <- Calls
  Origin <- Origins
  Place <- DryPlaces
  MaxStarts = 1
  Authoritative = {"claims", "versions"}
  BlobTable = "versions"
  Order <- NoOrders
  MaxOrders = 3
  MaxLosses = 1
CHECK_DEADLOCK FALSE
PROPERTY DryRunLeavesNoTrace
