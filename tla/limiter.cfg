SPECIFICATION FairHistory
CONSTANTS
  h1 = h1
  h2 = h2
  a1 = a1
  Handlers <- TwoHandlers
  Addresses <- OneAddress
  MaxAttempts = 3
  Window = 2
  BanFor = 6
  MaxSessions = 2
INVARIANTS LimiterOK BurstBounded
PROPERTIES BanEarned BanHolds FreshBan Forgotten
