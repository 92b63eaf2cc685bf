CONSTANTS
  Invocations = {i1, i2}
  Commands <- MCApiMinor
  Environment <- MCNothingSet
  ProjectFiles <- MCNothingSet
  Releases <- MCReleases
SPECIFICATION Spec
PROPERTY MinorVersionIsFound
