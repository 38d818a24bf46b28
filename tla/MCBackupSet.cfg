CONSTANTS
  s1 = s1  s2 = s2  c1 = c1  c2 = c2  i1 = i1  i2 = i2  i3 = i3
  Sources = {s1, s2}
  Contents = {c1, c2}
  Ids = {i1, i2, i3}
  MaxRetention = 2
  MaxOrder = 4
  NoSource = NoSource  NoId = NoId  Garbled = Garbled
  Faults = {"io", "crash", "edit", "log", "foreign", "tamper"}
SPECIFICATION Spec
SYMMETRY Symmetry
INVARIANT TypeOK
INVARIANT HistoryIntact
INVARIANT NextSaveIsValid
INVARIANT SpaceBounded
PROPERTY OnlyOwnFilesRemoved
PROPERTY BindingStable
PROPERTY HistoryRefined
