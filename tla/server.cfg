SPECIFICATION FairSpec
CONSTANTS
  health = health
  look = look
  create = create
  k1 = k1
  Sweeper = sweeper
  Calls <- SomeCalls
  Needs <- SomeNeeds
  Conns <- OneConn
INVARIANTS OrderlyExit NothingTorn CutsExcused
PROPERTIES StopsOnSignal EveryCallEnds
CHECK_DEADLOCK FALSE
