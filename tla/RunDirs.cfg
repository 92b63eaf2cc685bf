CONSTANTS
  Runs = {r1, r2}
  Seconds = 1
  Micros = 4
  Kept = 2
  Lines = 2
  Custom = TRUE
  Undying = {r1}
SPECIFICATION Spec
INVARIANTS
  TypeOK
  CloseRunsDiffer
  NoEnvoyLeftBehind
  ClientIsOwn
  OutputIsKept
CHECK_DEADLOCK FALSE
