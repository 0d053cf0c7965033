\* Two enrollments, a rotation, a revocation, a sealing key, two dispenses; two creations of a key, two signatures, a log trimmed to one row.
SPECIFICATION MCSpec
CONSTANTS
  n1 = n1
  n2 = n2
  k1 = k1
  ann = ann
  bob = bob
  Node = {n1, n2}
  JobOf <- MCJobOf
  Request <- MCRequest
  Nobody = Nobody
  Refusal = Refusal
  KeyId = {k1}
  Operator = {ann, bob}
  make = make
  makeAgain = makeAgain
  sign1 = sign1
  sign2 = sign2
  Order = {make, makeAgain, sign1, sign2}
  AskOf <- MCAskOf
  NoOne = NoOne
  Exists = Exists
  Backstop = 1
  Window = 0
  MaxTime = 1
INVARIANTS CredentialsAreKept CustodyIsKept
CHECK_DEADLOCK FALSE
