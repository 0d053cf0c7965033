\* Three concurrent requests on one row of two keys, two passes per retried write.
SPECIFICATION Spec
CONSTANTS
  r1 = r1
  r2 = r2
  r3 = r3
  Req = {r1, r2, r3}
  Excision = Excision
  Stopped = Stopped
  Key = {Excision, Stopped}
  OneShot = {Excision}
  None = None
  Attempts = 2
  MaxVersion = 3
SYMMETRY Symmetry
INVARIANTS IInv AckedIsApplied
PROPERTY WritesAreAtomic
CHECK_DEADLOCK FALSE
