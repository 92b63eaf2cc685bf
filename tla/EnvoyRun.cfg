CONSTANTS
  HookKinds <- MCHookKinds
  HookOutcomes <- MCAnyOutcome
  RemoveOutcomes = {TRUE, FALSE}
  TransportTimeouts = TRUE
  Inheritors = {TRUE, FALSE}
SPECIFICATION FairSpec
INVARIANTS
  TypeOK
  ReturnsQuiescent
  SenderNeverBlocks
  ResultIsHonest
  ClientNeverStale
  UnreadyHookOnlyWhenCut
PROPERTIES
  ContractSpec
  ExitEndsRun
  CtxEndsRun
  HookEventuallyRuns
