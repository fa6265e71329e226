CONSTANTS
  Ids = {i1, i2}
  Vals = {v1, v2}
  Absent = Absent
  Queries = {q1}
  Kinds = {"hnsw", "ivf"}
  MaxFaults = 3
SPECIFICATION LiveCoreSpec
INVARIANTS IndexInStep CacheNeverStale
PROPERTY RebuildCompletes
