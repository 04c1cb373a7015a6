SPECIFICATION Spec
CONSTANTS
  bundle = bundle
  envelope = envelope
  here = here
  there = there
  Proc = {p1, p2}
  NoProc = NoProc
  Entry = {bundle, envelope}
  Legacy = {bundle}
  Parts = 2
  Backend = {here, there}
  Home <- HomeHere
  Splits = {bundle}
  MaxLines = 2
INVARIANT EnqueuedIsListed
