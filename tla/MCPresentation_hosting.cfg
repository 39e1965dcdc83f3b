\* A listen host, whose pump reaps after the requests: two viewports, the managed world and two worlds opened on demand.
SPECIFICATION Spec
CONSTANTS
  h = h
  a = a
  b = b
  me = me
  v1 = v1
  v2 = v2
  NoKey = NoKey
  NoAccount = NoAccount
  NoTime = NoTime
  Hosting = TRUE
  Keys <- MCKeys
  Accounts <- MCAccounts
  Viewports <- MCViewports
  LocalAccount = me
  Home = h
  Primary = v1
  Allowed = {h, a, b}
  Openable = {a, b}
  DwellOf <- MCDwellOf
  Saved <- MCSaved
  KeepWarm = 1
  Horizon = 1
  ReadyTimeout = 1
  ReadyAttempts = 2
  MaxHosted = 2
  MaxJoined = 2
  MaxPlayers = 0
  MaxAsks = 3
CHECK_DEADLOCK FALSE
INVARIANT NeverReapedInGap
