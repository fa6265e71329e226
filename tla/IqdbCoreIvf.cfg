CONSTANTS
  Ids = {i1, i2}
  Vals = {v1}
  Absent = Absent
  Queries = {q1}
  Kinds = {"ivf"}
  MaxFaults = 0
SPECIFICATION CoreSpec
PROPERTY IvfWritesDefer
