\* Two processes, two versions of the shot and of the database.
SPECIFICATION Spec
CONSTANTS
  Proc = {p1, p2}
  First = p1
  Pipelines = {{"imas"}, {"ptdata", "header", "cake"}}
  Database = {d1}
  MaxVersion = 2
  MaxEnv = 1
  MaxFile = 2
  None = None
INVARIANTS
  TypeOK
  ReaderOwned
  SettingsFresh
  ChunkConsistent
