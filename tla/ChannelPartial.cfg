\* A candidate is promoted while it is being retired.
SPECIFICATION Spec
CONSTANTS
  Version = {1, 2}
  Basename = {linux, osx}
  linux = linux
  osx = osx
  MaxJobs = 2
  MaxFailures = 0
INVARIANT MovedWhole
CHECK_DEADLOCK FALSE
