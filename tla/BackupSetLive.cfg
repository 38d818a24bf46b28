CONSTANTS
  s1 = s1  c1 = c1  c2 = c2  i1 = i1  i2 = i2  i3 = i3
  Sources = {s1}
  Contents = {c1, c2}
  Ids = {i1, i2, i3}
  MaxRetention = 2
  MaxOrder = 3
  NoSource = NoSource  NoId = NoId  Garbled = Garbled
  Faults = {"io", "crash", "edit", "log", "foreign", "replace"}
SPECIFICATION FairSpec
PROPERTY CycleEnds
PROPERTY PendingResolved
