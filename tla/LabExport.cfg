\* Runs of up to four events, exported or refused.
SPECIFICATION MCSpec
CONSTANTS
  mail = mail
  digest = digest
  post = post
  r1 = r1
  r2 = r2
  n1 = n1
  n2 = n2
  Refs = {r1, r2}
  Args = {1, 2}
  Tools = {mail, digest, post}
  Nodes = {n1, n2}
  NoTool = NoTool
  NoRef = NoRef
  Unrecorded = Unrecorded
  NoDrivingArgs = NoDrivingArgs
  Unresolved = Unresolved
  CallEvents <- MCCalls
  ResultEvents <- MCResults
  OtherEvents <- MCOthers
  TaintGate <- MCGate
INVARIANTS
  LedgerIsClosed
  PackageIsFaithful
  SourcesAreTheRoots
CHECK_DEADLOCK FALSE
