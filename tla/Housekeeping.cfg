\* Four agendas: subscriptions; events and deliveries; a license, its renewal and notices; a scheduled corpus.
SPECIFICATION MCSpec
CONSTANTS
  h1 = h1
  h2 = h2
  h3 = h3
  page = page
  silence = silence
  notice = notice
  alarm = alarm
  a = a
  b = b
  c = c
  q1 = q1
  q2 = q2
  r1 = r1
  r2 = r2
  strict = strict
  loose = loose
  Hooks = {h1, h2, h3}
  Slots = {page, silence, notice, alarm}
  Wants <- MCWants
  UrlOf <- MCUrlOf
  KeyOf <- MCKeyOf
  Windows = {0, 1}
  Requests = {q1, q2}
  MaxInFlight = 1
  MaxAttempts = 2
  MaxKeys = 1
  MaxLetters = 2
  BlockPrivate = TRUE
  Licenses = {a, b, c}
  OrgOf <- MCOrgOf
  EndsOn <- MCEndsOn
  TierOf <- MCTierOf
  Tiers <- MCTiers
  Org = "ours"
  Unbound = Unbound
  None = None
  EnvLicense = None
  Pastes = {p1}
  NoticeDays = {1, 0}
  RenewalWindow = 1
  Traces <- MCTraces
  Demo = {r2}
  Configs <- MCConfigs
  Intervals = {1, 2}
  NoSchedule = NoSchedule
  LicenseSlot = notice
  CorpusSlot = alarm
  InitialRows <- MCRows
  Routed = {h2}
INVARIANTS
  EventsAreAccounted
  MemoryFollowsTable
  EntitlementIsKept
  ReportsAreSound
CHECK_DEADLOCK FALSE
