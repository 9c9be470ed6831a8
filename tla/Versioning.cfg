\* Two tags of a kind on two commits, and two directories.
SPECIFICATION Spec
CONSTANTS
  MaxName = 2
  Numbered = {1, 2}
  MaxCommit = 2
  Released = {1}
  Slot = {s1, s2}
SYMMETRY SlotSymmetry
INVARIANTS
  TypeOK
  PublishedAsTagged
  RefusedOnlyIfShared
  
  ReportsItsLabel
CHECK_DEADLOCK FALSE
