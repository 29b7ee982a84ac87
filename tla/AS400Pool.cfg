\* Three borrowers over a pool of two, with four resources to make.
CONSTANTS
  Borrowers = {b1, b2, b3}
  Resources = {r1, r2, r3, r4}
  MaxSize = 2
  NoResource = NoResource
SPECIFICATION FairSpec
INVARIANTS HeldIsSafe ExcessIsOverlap CloseReachesAll
PROPERTIES WaitersLoseOnlyRaces
