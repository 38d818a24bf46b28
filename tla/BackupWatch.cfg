CONSTANTS
  Procs = {p1, p2, p3}
  Inodes = {i1, i2}
  None = None
  Platform = "windows"
  Stoppable = TRUE
  Destinations = {"console"}
SPECIFICATION FairWatchSpec
INVARIANT WatchTypeOK
INVARIANT CyclesExclusive
PROPERTY RejectedOnlyByOwner
PROPERTY StopReleases
PROPERTY FailuresReported
