CONSTANTS
  Ids = {i1, i2, i3}
  Vals = {v1, v2}
  Absent = Absent
  Queries = {q1, q2}
  Kinds = {"flat", "hnsw", "ivf"}
  MaxFaults = 0
SPECIFICATION CoreSpec
INVARIANTS CoreTypeOK ReloadRestoresStore
PROPERTY CoreImplementsMap
