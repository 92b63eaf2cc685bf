CONSTANTS
  Invocations = {i1, i2}
  Commands <- MCCommands
  Environment <- MCEnvironment
  ProjectFiles <- MCProjectFiles
  Releases <- MCReleases
SPECIFICATION Spec
SYMMETRY MCSymmetry
INVARIANTS
  TypeOK
  NoDowngrade
  SuccessRunsSelection
PROPERTIES
  InstallationSpec
  RememberedIsInstalled
  ProjectFileOnlyByUse
