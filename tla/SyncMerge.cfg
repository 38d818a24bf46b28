CONSTANTS
  d = d  df = df  g = g  c1 = c1  c2 = c2
  Paths <- TwoPaths
  Inside <- TwoInside
  Listing <- TwoListing
  Contents = {c1, c2}
  Torn = Torn  NoContent = NoContent
  Modes = {"bidirectional", "unidirectional"}
  Platform = "windows"
  StartTrees <- AllTrees
  StartRecords <- AllRecords
  MaxEdits = 1
  MaxClock = 1
  Faults = {"edit", "lock", "io", "crash"}
SPECIFICATION FairSpec
INVARIANT TypeOK
INVARIANT CommitIsMerge
INVARIANT MergeSurvives
INVARIANT CalmRunCommits
PROPERTY RunEnds
