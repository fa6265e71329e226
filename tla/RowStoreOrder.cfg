CONSTANTS
  Ids = {i1, i2, i3}
  Vals = {v1}
  Absent = Absent
SPECIFICATION HistorySpec
INVARIANT InsertionOrdered
