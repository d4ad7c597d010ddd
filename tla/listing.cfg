SPECIFICATION HistorySpec
CONSTANTS
  r1 = r1
  r2 = r2
  r3 = r3
  r4 = r4
  MaxInt = 31
  DefaultPerPage = 1
  MaxPerPage = 2
  Rows = {r1, r2, r3, r4}
  MaxTime = 4
  Sizes = {2, 3}
  MaxMoves = 2
  MaxTotal = 20
SYMMETRY Symmetric
INVARIANTS PagesPartition MissesExplained RepeatsExplained
