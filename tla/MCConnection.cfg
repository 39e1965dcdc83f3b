SPECIFICATION Spec
CONSTANTS
  client = client
  server = server
  Ends = {client, server}
  Senders = {client, server}
  Answering = {server}
  SeqSpace = 16
  Window = 2
  MaxFragments = 2
  MaxMessages = 1
  MaxOutstanding = 3
  Starts = {0, 15}
  MaxPackets = 3
INVARIANT RetiredHasArrived
INVARIANT NothingStuck
PROPERTY InOrderOnce
CHECK_DEADLOCK FALSE
