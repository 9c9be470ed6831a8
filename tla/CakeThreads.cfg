\* Two threads of one process, two remote sources with one basename; every call returns.
SPECIFICATION FairSpec
CONSTANTS
  p1 = p1
  p2 = p2
  t1 = t1
  t2 = t2
  t3 = t3
  iri = iri
  path = path
  disk = disk
  copy = copy
  None = None
  Source = {iri, copy}
  RemoteSource = {iri, copy}
  LocalPath <- MCOnePath
  Process = {p1}
  Thread = {t1, t2}
  ProcOf <- MCProcOf
  SizeOf <- MCGrowing
  MaxVersion = 1
  MaxCalls = 2
  MaxFaults = 2
INVARIANTS
  TypeOK
  NoTornFile
  NoRedundantDownload
  ServedFresh
  NoLeftoverTmp
PROPERTIES
  OwnSource
  CallsReturn
CHECK_DEADLOCK FALSE
