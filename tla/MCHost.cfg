\* The primary world h, and two worlds a and b that are opened on demand.
SPECIFICATION Spec
CONSTANTS
  h = h
  a = a
  b = b
  c1 = c1
  c2 = c2
  NoKey = NoKey
  NoAccount = NoAccount
  NoTime = NoTime
  NoDwell = NoTime
  Keys <- MCKeys
  Accounts <- MCAccounts
  Home = h
  Allowed = {h, a, b}
  Openable = {a, b}
  Unloadable = {b}
  DwellOf <- MCDwellOf
  KeepWarm = 1
  MaxHosted = 2
  MaxJoined = 2
  MaxPlayers = 0
  Modes = {"gameplay", "standing"}
  MaxAsks = 3
  MaxConnects = 2
CHECK_DEADLOCK FALSE
INVARIANT SeatsMatch
INVARIANT NoOrphanSeat
INVARIANT TagsAgree
INVARIANT AnsweredOnce
PROPERTY NeverStranded
PROPERTY PoseKept
