SPECIFICATION Spec
CONSTANTS
  p1 = p1
  p2 = p2
  c1 = c1
  c2 = c2
  none = none
  norow = norow
  Proc = {p1, p2}
  Client = {c1, c2}
  NoOne = none
  NoRow = norow
  Row <- Rows
  KindOf <- Kinds
  Needs <- Refers
  EmptyQuote <- Empties
  Supported <- Supports
  Place <- Places
  BatchSize = 1
INVARIANTS
  OnlyLateRowsMissed
  ErrorsAreReal
  ShownWithEvidence
  SearchCurrent
CHECK_DEADLOCK FALSE
