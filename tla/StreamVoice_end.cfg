SPECIFICATION StreamSpec
CONSTANTS
  ClipLength = 5
  Usable = 3
  Chunk = 2
INVARIANT HeardOut
CHECK_DEADLOCK FALSE
