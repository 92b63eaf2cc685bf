CONSTANTS
  Procs = {p1}
  Wanted = {"release"}
  Chunks = 2
  Days = 1
  Runs = 1
  Faults = {"tail"}
SPECIFICATION Spec
PROPERTY DigestIsOfTheStream
CHECK_DEADLOCK FALSE
