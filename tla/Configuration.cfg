CONSTANTS
  Processes = {p1, p2}
  Values = {v1, v2}
  Missing = Missing  Invalid = Invalid  Unsupported = Unsupported
  NoOne = NoOne
  Faults = {"io", "replace", "remove", "release", "log", "crash", "edit"}
SPECIFICATION FairSpec
INVARIANT TypeOK
INVARIANT OneEditor
PROPERTY ConfigurationKept
PROPERTY WatchesSaved
PROPERTY LockGivenUp
