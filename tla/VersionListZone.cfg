CONSTANTS
  Kinds = {"list"}
  MaxVersions = 0
  MaxArguments = 0
  MaxOptions = 0
  MaxEntries = 1
  Offsets <- WestOfGreenwich
SPECIFICATION Spec
INVARIANT ReleaseDateIsListed
CHECK_DEADLOCK FALSE
