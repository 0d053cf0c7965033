\* A claim, its repeat, another batch and telemetry, a reader of the subgraph, a crash, a prune.
SPECIFICATION MCSpec
CONSTANTS
  b1 = b1
  b2 = b2
  b3 = b3
  b4 = b4
  x = x
  y = y
  Batch = {b1, b2, b3, b4}
  Line = {x, y}
  Key = {"k"}
  NoKey = "none"
  Lines <- MCLines
  KeyOf <- MCKeyOf
  MaxEvents = 9
  Serial = FALSE
  MaxSends = 1
  MaxCrashes = 1
  Telemetry = {b4}
  Claims = {b1, b2, b4}
  Faults = {x, y}
  Denials = {x}
  Anchor = x
  NoView = NoView
  MaxPrunes = 1
INVARIANTS AnsweredIsKept AnsweredClaimIsAudited CacheFollowsTheLog
PROPERTY EveryBatchEnds
CHECK_DEADLOCK FALSE
