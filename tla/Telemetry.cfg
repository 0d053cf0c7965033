\* Two reports, two requests at a time, two monitors, a crash.
SPECIFICATION Spec
CONSTANTS
  h1 = h1
  h2 = h2
  m1 = m1
  m2 = m2
  Handler = {h1, h2}
  Reports = 2
  LevelOf <- MCLevelOf
  Collides = {2}
  Monitor = {m1, m2}
  StaleAfter = 1
  MaxClock = 2
  MaxSends = 3
  MaxCrashes = 1
INVARIANTS EffectIsOnce OnePagePerSilence
PROPERTY SilenceIsFlagged
CHECK_DEADLOCK FALSE
