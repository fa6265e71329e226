CONSTANTS
  Ids = {i1, i2}
  Vals = {v1}
  Absent = Absent
  Queries = {q1}
  Kinds = {"hnsw", "ivf"}
  MaxFaults = 0
  Threads = {t1, t2}
  NoThread = NoThread
  MaxCalls = 3
  MaxBatch = 1
  NoFile = NoFile
  Policies = {"always", "never"}
  MaxWrites = 3
  MaxCrashes = 2
SPECIFICATION DHSpec
PROPERTY DurablyLinearizable
