SPECIFICATION CatalogSpec
CONSTANTS
  p1 = p1
  p2 = p2
  k1 = k1
  k2 = k2
  c1 = c1
  r1 = r1
  NoKey = NoKey
  NoJob = NoJob
  Proc = {p1, p2}
  Key = {k1, k2}
  Content = {"old", "new"}
  Quote = {"stays", "goes"}
  Matches <- Occurrences
  Claim = {c1}
  Report = {r1}
  Includes <- OneClaim
  FirstContent = "old"
  FirstQuotes <- TwoQuotes
  FirstCites <- BothCited
  Job <- Jobs
  Setting <- Settings
  MaxEvidence = 4
  w1 = w1
  w2 = w2
  Writer = {w1, w2}
  Namespace = {"n1", "n2", "local"}
  Name = {"old", "new"}
  None = None
  NoAuth = NoAuth
  Admin <- AdminKey
  Reader <- Readers
  Pool <- Pools
  Stage <- Stages
  Nothing = Nothing
  Reading <- Readings
  Matching <- Matchings
  Trust <- Trusts
  Size <- Sizes
  PageSize = 6
  PartSize = 8
  MaxCandidates = 10
  MaxAnchors = 2
  MaxRelated = 4
  MaxListed = 3
  MaxWrites = 2
  Submission <- Submissions
  Value <- JsonValues
  OtherDigits <- ArabicDigits
  Parsed <- ParsedText
  Character <- Characters
  Newline <- NewlineIs
  Separator <- SeparatorIs
  MaxText = 5
  MaxCaptures = 2
  Object <- Objects
  Elsewhere <- OfAlternate
  FirstCommit = "first"
  FirstPath <- DocsA
  NoCommit = NoCommit
  NoPack = NoPack
  MaxCommits = 1
  MaxPacks = 2
  MaxReads = 2
CHECK_DEADLOCK FALSE
INVARIANTS
  Shape
  OneOpenEntry
  KeysAccounted
  NoSilentChange
  CitedIsSearchable
  NothingPrivateShown
  PublishedOpens
  NativeStaysPrivate
  PagesHoldEverything
  PartsBelongTogether
  AnchoredTruly
  CaptureIsTrue
