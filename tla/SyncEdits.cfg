CONSTANTS
  d = d  df = df  g = g  c1 = c1  c2 = c2
  Paths <- TwoPaths
  Inside <- TwoInside
  Listing <- TwoListing
  Contents = {c1, c2}
  Torn = Torn  NoContent = NoContent
  Modes = {"bidirectional", "unidirectional"}
  Platform = "windows"
  StartTrees <- DirTrees
  StartRecords <- AllRecords
  MaxEdits = 2
  MaxClock = 2
  Faults = {"edit", "race", "lock"}
SPECIFICATION Spec
PROPERTY OnlyDiscardedVanish
PROPERTY NewestRetained
PROPERTY SourceUntouched
