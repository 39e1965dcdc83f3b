SPECIFICATION RSpec
CONSTANTS
  f1 = f1
  f2 = f2
  s1 = s1
  s2 = s2
  Families = {f1, f2}
  Stems = {s1, s2}
  NoStem = NoStem
  StemOf <- OwnStems
  Lazy = {}
  RegistersFirst = TRUE
  OwnThread = TRUE
  MaxWrites = 3
  MaxFaults = 0
  MaxCrashes = 0
  ReadFamiliesAttempts = 2
INVARIANT ReadsOneGeneration
INVARIANT FailsOnlyOvertaken
