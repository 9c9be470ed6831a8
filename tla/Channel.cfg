\* Two versions, two jobs at a time, one breaks off.
SPECIFICATION Spec
CONSTANTS
  Version = {1, 2}
  Basename = {linux, osx}
  linux = linux
  osx = osx
  MaxJobs = 2
  MaxFailures = 1
INVARIANTS
  TypeOK
  OnlyReleasedOnMain
  ArchivedBeforeAttic
  WholeUndisturbed
PROPERTIES
  NeverLost
  OneCandidate
CHECK_DEADLOCK FALSE
