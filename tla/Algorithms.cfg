CONSTANTS
  Kinds = {"versions", "arguments", "options", "list"}
  MaxVersions = 3
  MaxArguments = 5
  MaxOptions = 4
  MaxEntries = 4
  Offsets = {0, 9}
SPECIFICATION Spec
INVARIANTS
  SearchesFindLatest
  TagsAreFound
  AdminServerConfigured
  UserConfigIsKept
  FrontEndsAgree
  RunsAreApart
  VersionsAreListed
CHECK_DEADLOCK FALSE
