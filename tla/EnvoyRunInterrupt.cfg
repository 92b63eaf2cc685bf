CONSTANTS
  HookKinds <- MCHookKinds
  HookOutcomes <- MCReturningOutcome
  RemoveOutcomes = {TRUE}
  TransportTimeouts = FALSE
  Inheritors = {FALSE}
SPECIFICATION Spec
INVARIANT InterruptReturnsNil
