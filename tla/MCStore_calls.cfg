SPECIFICATION FairSpec
CONSTANTS
  f1 = f1
  f2 = f2
  s1 = s1
  s2 = s2
  Families = {f1, f2}
  Stems = {s1, s2}
  NoStem = NoStem
  StemOf <- OwnStems
  Lazy = {}
  RegistersFirst = TRUE
  OwnThread = FALSE
  MaxWrites = 2
  MaxFaults = 1
  MaxCrashes = 0
PROPERTY CallReturns
PROPERTY WriterSettles
