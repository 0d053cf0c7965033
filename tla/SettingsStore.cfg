\* Three read-modify-writes and a set of one row, two passes each.
SPECIFICATION FairStoreSpec
CONSTANTS
  w1 = w1
  w2 = w2
  w3 = w3
  w4 = w4
  Writer = {w1, w2, w3, w4}
  Setter = {w4}
  Value <- MCValue
  Absent <- MCAbsent
  Refused <- MCRefused
  Change <- MCChange
  Attempts = 2
PROPERTIES ChangesAreAtomic EveryWriteEnds
CHECK_DEADLOCK FALSE
