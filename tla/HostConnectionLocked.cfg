\* Three calls that all use the lock; the socket may fail in every way.
CONSTANTS
  LockedCalls = {c1, c2, c3}
  RawCalls = {}
SPECIFICATION FairSpec
INVARIANTS TypeOK NoSocketForgotten
PROPERTIES CallsSettleUnlessOrphaned ImplementsExchange
CHECK_DEADLOCK FALSE
