CONSTANTS
  Ids = {i1, i2, i3, i4}
  Vals = {v1, v2}
  Absent = Absent
SPECIFICATION Spec
INVARIANTS TypeOK IndexMatchesRows
PROPERTIES ImplementsMap UpsertKeepsOrder
CHECK_DEADLOCK TRUE
