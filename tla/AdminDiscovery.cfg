CONSTANTS
  Children = {c1, c2}
  RunIDs = {r1, r2}
  AnyRun = any
SPECIFICATION FairSpec
INVARIANTS
  TypeOK
  FoundIsOfTheRun
PROPERTIES
  AmbiguityIsReported
  StayingEnvoyIsFound
  PollerEnds
CHECK_DEADLOCK FALSE
