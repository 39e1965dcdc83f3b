SPECIFICATION Spec
CONSTANTS
  f1 = f1
  f2 = f2
  s1 = s1
  s2 = s2
  Families = {f1, f2}
  Stems = {s1, s2}
  NoStem = NoStem
  StemOf <- OwnStems
  Lazy = {f2}
  RegistersFirst = TRUE
  OwnThread = TRUE
  MaxWrites = 2
  MaxFaults = 1
  MaxCrashes = 2
INVARIANT AlwaysReadable
INVARIANT AckedIsDurable
INVARIANT NothingForgotten
INVARIANT CleanMeansSaved
INVARIANT JoinNeverWaits
PROPERTY NeverRewritten
PROPERTY Promise
