\* A header in one process and an ImasSignal's value in the other, under a pin.
SPECIFICATION Spec
CONSTANTS
  Proc = {p1, p2}
  First = p1
  Pipelines = {{"imas"}, {"ptdata", "header", "imas", "cake"}}
  Database = {d1}
  MaxVersion = 2
  MaxEnv = 1
  MaxFile = 2
  None = None
INVARIANT PinnedBeside
