SPECIFICATION MCSpec
CONSTANTS
  c1 = c1
  c2 = c2
  k1 = k1
  r1 = r1
  g1 = g1
  g2 = g2
  s1 = s1
  s2 = s2
  s3 = s3
  u1 = u1
  u2 = u2
  Offers <- MCOffers
  auth = auth
  apikey = apikey
  CredHeaders = {auth, apikey}
  Carries <- MCCarries
  web = web
  mcp = mcp
  Runs = {r1, r2}
  Tools = {web, mcp}
  Calls = {c1, c2}
  Claims = {k1}
  Registrations = {g1, g2, g3}
  Servers = {s1, s2, s3}
  Urls = {u1, u2}
  Writers <- MCWriters
  Faults <- MCFaults
  Started <- MCStarted
  Always = Always
  NoRun = NoRun
  NoFault = NoFault
  NoLine = NoLine
  NoUpstream = NoUpstream
  VaultTools = {web}
  HasVault = TRUE
  HasSealingSeed = TRUE
  Script <- MCScript
  ScriptClaim = k1
  Governed = {r1}
INVARIANTS
  CallsAreAccounted
  EvidenceIsOfTheTrace
  NoCredentialNoCall
  StdioIsOwned
CHECK_DEADLOCK FALSE
PROPERTIES
  EveryCallIsAnswered
