CONSTANTS
  Writers = {w1}
  Archives = 3
  Limit = 3
  Lengths = {1, 2, 4}
  MaxEntries = 12
  Faults = {"console", "file", "crash"}
SPECIFICATION Spec
INVARIANT TypeOK
INVARIANT LoggedOrStopped
INVARIANT SizeBounded
INVARIANT OldestLostFirst
