SPECIFICATION MCSpec
CONSTANTS
  Capacity = 4
  MaxItems = 9
  Words = {1, 2}
  MaxFrames = 4
  ClipLength = 5
  Usable = 3
  Chunk = 2
  SeqSpace = 16
  Window = 4
  Jumps = {1, 2, 3, 4, 5, 7}
  MaxSeq = 40
  MaxVoices = 1
  CommandRoom = 2
  RetiredRoom = 2
  MaxSources = 2
  MaxSerial = 3
INVARIANT InOrder
INVARIANT RoomIsReal
INVARIANT FrontIsWhole
INVARIANT Gapless
INVARIANT Truthful
INVARIANT Complete
INVARIANT NoUseAfterFree
INVARIANT OneOwner
PROPERTY Newest
PROPERTY Retires
PROPERTY ReapsOnlyFinished
PROPERTY Reclaimed
CHECK_DEADLOCK FALSE
