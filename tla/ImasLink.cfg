\* Two servers, two trees.
SPECIFICATION Spec
CONSTANTS
  Server = {atlas, relay}
  Tree = {efit01, zipfit01}
  None = None
INVARIANTS
  TypeOK
  NoCascade
  OwnTree
PROPERTY LostDropped
