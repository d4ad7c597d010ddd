SPECIFICATION Spec
CONSTANTS
  None = None
  Blank = Blank
  Malformed = Malformed
  h1 = h1
  h2 = h2
  h3 = h3
  i1 = i1
  i2 = i2
  i3 = i3
  i4 = i4
  d1 = d1
  d2 = d2
  d3 = d3
  u1 = u1
  v1 = v1
  Handlers <- ThreeHandlers
  ReqIds = {i1, i2, i3}
  Dests = {}
  Variants = {}
  Meant <- MCMeant
  DestName <- MCDestName
  Titles <- MCTitles
  Lower <- MCLower
  Urls <- MCUrls
  Calls <- NamesCalls
SYMMETRY Symmetric
INVARIANTS UniqueKeys
PROPERTIES CollisionsNeedStaleCheck
