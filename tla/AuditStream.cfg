\* Three requests, one client, a queue of two, a broken connection and a crash.
SPECIFICATION AuditSpec
CONSTANTS
  b1 = b1
  b2 = b2
  b3 = b3
  x = x
  y = y
  z = z
  w = w
  Batch = {b1, b2, b3}
  Line = {x, y, z, w}
  Key = {"k"}
  NoKey = "none"
  Lines <- MCLines
  KeyOf <- MCKeyOf
  MaxEvents = 3
  Serial = FALSE
  MaxSends = 1
  MaxCrashes = 1
  MaxDrops = 1
  QueueCap = 2
  Overflow = 0
INVARIANTS LogIsFollowed EveryGapHasACause
PROPERTY StoredIsDelivered
CHECK_DEADLOCK FALSE
