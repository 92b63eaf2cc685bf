CONSTANTS
  Procs = {p1}
  Wanted = {"release"}
  Chunks = 2
  Days = 1
  Runs = 2
  Faults = {"break"}
SPECIFICATION Spec
INVARIANT AlreadyDownloaded
CHECK_DEADLOCK FALSE
