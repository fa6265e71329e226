CONSTANTS
  Ids = {i1, i2}
  Vals = {v1, v2}
  Absent = Absent
  Queries = {q1}
  Kinds = {"hnsw", "ivf"}
  MaxFaults = 1
  NoFile = NoFile
  Policies = {"always", "never"}
  MaxWrites = 3
  MaxCrashes = 2
SPECIFICATION DurableSpec
INVARIANTS RecoversPromised FilesDenoteMap LoadedInStep
PROPERTY WholeFilesOpen
SYMMETRY DurableSymmetry
