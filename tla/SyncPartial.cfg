CONSTANTS
  d = d  df = df  g = g  c1 = c1  c2 = c2
  Paths <- FlatPaths
  Inside <- FlatInside
  Listing <- FlatListing
  Contents = {c1, c2}
  Torn = Torn  NoContent = NoContent
  Modes = {"bidirectional"}
  Platform = "unix"
  StartTrees <- FileTrees
  StartRecords <- KnownRecords
  MaxEdits = 0
  MaxClock = 1
  Faults = {"crash"}
SPECIFICATION Spec
PROPERTY OnlyDiscardedVanish
