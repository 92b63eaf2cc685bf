CONSTANTS
  Procs = {p1, p2}
  Wanted = {"dev", "dev-latest"}
  Chunks = 2
  Days = 2
  Runs = 3
  Faults = {"break", "stall", "corrupt", "tail"}
SPECIFICATION FairSpec
INVARIANTS
  TypeOK
  BrokenOnlyAfterFault
  DamageIsNoticed
  FreshMeansOnOffer
PROPERTIES
  ContractSpec
  WholeBuildIsKept
  InvocationEnds
CHECK_DEADLOCK FALSE
