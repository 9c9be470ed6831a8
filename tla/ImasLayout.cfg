\* Every value of up to three entries with every times, batches of leaves, and
\* values split by channel, all of them turned into xarray objects as well.
SPECIFICATION XarraySpec
CONSTANTS
  Values <- MCValues
  Times <- MCTimes
  Batches <- MCBatches
  Dims <- MCDims
  Channelled <- MCChannelled
  None = None
INVARIANTS
  EntriesKept
  ShapeAsPromised
  BatchKept
  AxesLabelled
  ChannelsKept
\* A gather is over when its values have been shaped.
CHECK_DEADLOCK FALSE
