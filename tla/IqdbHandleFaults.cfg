CONSTANTS
  Ids = {i1, i2}
  Vals = {v1}
  Absent = Absent
  Queries = {q1}
  Kinds = {"hnsw", "ivf"}
  MaxFaults = 1
  Threads = {t1, t2}
  NoThread = NoThread
  MaxCalls = 3
  MaxBatch = 2
SPECIFICATION LiveHandleSpec
INVARIANT InStepBetweenWrites
PROPERTY CallsReturn
