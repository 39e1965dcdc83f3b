SPECIFICATION Spec
CONSTANTS
  f1 = f1
  f2 = f2
  s1 = s1
  s2 = s2
  Families = {f1, f2}
  Stems = {s1, s2}
  NoStem = NoStem
  StemOf <- OwnStems
  Lazy = {}
  RegistersFirst = FALSE
  OwnThread = FALSE
  MaxWrites = 1
  MaxFaults = 0
  MaxCrashes = 0
INVARIANT SlotReopens
