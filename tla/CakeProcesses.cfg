\* Two processes that crash, start and fork; one remote source and a local path.
SPECIFICATION Spec
CONSTANTS
  p1 = p1
  p2 = p2
  t1 = t1
  t2 = t2
  t3 = t3
  iri = iri
  path = path
  disk = disk
  copy = copy
  None = None
  Source = {iri, disk}
  RemoteSource = {iri}
  LocalPath <- MCOnePath
  Process = {p1, p2}
  Thread = {t1, t3}
  ProcOf <- MCProcOf
  SizeOf <- MCGrowing
  MaxVersion = 2
  MaxCalls = 3
  MaxFaults = 1
INVARIANTS
  MemoBacked
PROPERTIES
  NeverRegresses
  StoreSpec
CHECK_DEADLOCK FALSE
