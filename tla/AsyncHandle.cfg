CONSTANTS
  Clients = {c1, c2}
  Slots = {s1, s2, s3}
  NoTask = NoTask
  MaxCalls = 3
SPECIFICATION LiveAsyncSpec
INVARIANTS CloseCoversWrites ClosedHoldsAllWrites
PROPERTY IqdbReleased
