CONSTANTS
  Ids = {i1, i2}
  Vals = {v1}
  Absent = Absent
  Queries = {q1}
  Kinds = {"hnsw", "ivf"}
  MaxFaults = 0
  Threads = {t1, t2, t3}
  NoThread = NoThread
  MaxCalls = 4
  MaxBatch = 2
SPECIFICATION HandleSpec
INVARIANT SearchesReadyIndex
PROPERTY Linearizable
