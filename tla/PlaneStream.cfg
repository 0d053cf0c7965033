\* Two requests, one message that is no delta, and one stream whose queue holds two messages.
SPECIFICATION FairStreamSpec
CONSTANTS
  r1 = r1
  r2 = r2
  Req = {r1, r2}
  Excision = Excision
  Stopped = Stopped
  Key = {Excision, Stopped}
  OneShot = {Excision}
  None = None
  Attempts = 2
  MaxVersion = 2
  QueueCap = 2
  MaxNotices = 1
  Overflow = Overflow
INVARIANT NothingIsLostSilently
PROPERTIES DroppedStreamEnds EveryRequestIsAnswered
CHECK_DEADLOCK FALSE
