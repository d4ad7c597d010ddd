SPECIFICATION HistorySpec
CONSTANTS
  None = None
  h1 = h1
  h2 = h2
  u1 = u1
  u2 = u2
  u3 = u3
  s1 = s1
  s2 = s2
  k1 = k1
  Handlers <- TwoHandlers
  Users <- ThreeUsers
  Sessions <- TwoSessions
  Codes <- OneCode
  Names = {"ann", "bob", "cid"}
  Calls <- SomeCalls
SYMMETRY Symmetric
INVARIANTS AccountsOK CodesAccountFor
PROPERTIES AdminLossIsARace ReuseNeedsOverlap
