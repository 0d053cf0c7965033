\* Four agendas: accounts; sessions; API keys; logins across a rotation of the signing key.
SPECIFICATION MCSpec
CONSTANTS
  u1 = u1
  u2 = u2
  s0 = s0
  s1 = s1
  s2 = s2
  k1 = k1
  k2 = k2
  k3 = k3
  c1 = c1
  c2 = c2
  v1 = v1
  v2 = v2
  Users = {u1, u2}
  Visits = {v1, v2}
  SigningKeys = {s0, s1, s2}
  Calls = {c1, c2}
  KeyIds = {k1, k2, k3}
  Nodes = {n1}
  Anywhere = Anywhere
  Public = Public
  Asked <- MCAsked
  BootDocuments <- MCBoot
  MinInterval = 1
INVARIANTS
  OnlyOverlapSplitsALogin
  KeysAreAccounted
  FetchesAreSpaced
PROPERTIES
  FirstRoleStands
SYMMETRY MCSymmetry
CHECK_DEADLOCK FALSE
