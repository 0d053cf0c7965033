\* Three commands of two cuts and two health checks; three appends to the fact log; four snapshots; a crash.
SPECIFICATION MCSpec
CONSTANTS
  c1 = c1
  c2 = c2
  c3 = c3
  x = x
  y = y
  p1 = p1
  p2 = p2
  ok = ok
  drift = drift
  Command = {c1, c2, c3}
  Cut = {x, y}
  CutOf <- MCCutOf
  Check = {p1, p2}
  Verdict = {ok, drift}
  Nobody = Nobody
  MaxCrashes = 1
  u1 = u1
  quar = quar
  deg = deg
  note1 = note1
  note2 = note2
  v = v
  s1 = s1
  s2 = s2
  s3 = s3
  s4 = s4
  Run = {u1}
  FactId = {quar, deg, note1, note2}
  Minted = {quar, deg}
  Request = {r1, r2, r3}
  Body <- MCBody
  Root = {v}
  Snapshot = {s1, s2, s3, s4}
  Version <- MCVersion
  Flagged = {s2, s3}
  None = None
  MaxMints = 2
SYMMETRY Symmetry
INVARIANTS HealsAreFollowed OnlyOverlapDuplicates StandingIsEarned
PROPERTY FirstVerdictStands
CHECK_DEADLOCK FALSE
