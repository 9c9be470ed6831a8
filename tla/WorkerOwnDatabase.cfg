\* Two CAKE signals with a database of their own.
SPECIFICATION Spec
CONSTANTS
  Proc = {p1, p2}
  First = p1
  Pipelines = {{"imas"}, {"ptdata", "header", "imas", "cake"}}
  Database = {d1, d2}
  MaxVersion = 2
  MaxEnv = 1
  MaxFile = 2
  None = None
INVARIANT OwnDatabase
