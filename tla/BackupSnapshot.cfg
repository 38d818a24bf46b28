CONSTANTS
  d = d  dx = dx  f = f
  Paths <- SomePaths
  Inside <- SomeInside
  Listing <- SomeListing
  Contents = {c1, c2}
  Absent = Absent  Folder = Folder
  MaxEdits = 3
  Faults = {"io"}
SPECIFICATION Spec
INVARIANT TypeOK
INVARIANT ArchivedWasSeen
INVARIANT ConfirmedIsSnapshot
INVARIANT LinksRejected
INVARIANT QuietCycleConfirms
