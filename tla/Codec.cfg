CONSTANTS
  Base = 6
  W32 = 2
  W64 = 3
  Databases <- MCDatabases
  MaxDamages = 1
SPECIFICATION CodecSpec
INVARIANTS RoundTrip PrefixRejected AcceptedIsWellFormed
