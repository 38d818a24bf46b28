CONSTANTS
  k1 = k1  k2 = k2  NoKey = NoKey  a = a  b = b
  Keys = {k1, k2}
  Names = {a, b}
  Spelt = b
  Root <- TheRoot
  Lines <- SomeLines
  MaxLines = 2
  MaxChanges = 2
  Requests <- SomePaths
SPECIFICATION Spec
INVARIANT TypeOK
INVARIANT CredentialsFollowTrust
INVARIANT SessionsClosedOnce
INVARIANT CallsNameWhatWasAsked
