\* The fetch of the entity names fails too.
SPECIFICATION Spec
CONSTANTS
  value = value
  time = time
  name = name
  label_text = label_text
  data = data
  profile_time = profile_time
  flag = flag
  sibling_time = sibling_time
  ids_time = ids_time
  channel_name = channel_name
  label = label
  None = None
  Path = {data, profile_time, flag, sibling_time, ids_time, channel_name, label}
  Requirement = {value, time, name, label_text}
  Rounds <- MCRounds
  Leaf = data
  Leaves = {data, profile_time, flag}
  Modes = {"leaf", "split", "prefix"}
  DimPaths <- SiblingFirst
  NamePaths <- LabelThenName
  ChannelName = channel_name
  TimeLeaves <- TimeLeaf
  MayNever = {sibling_time, ids_time, label, channel_name}
  MayAlign <- TimesFit
  MayEnumerate <- NamesFit
  Scalar = {flag}
  Layouts = {"compact", "filled"}
  MaxIter = 3
  MayFail = {value, time, name, label_text}
  MayRaise <- OddValues
INVARIANT EntityNeverTransformed
CHECK_DEADLOCK FALSE
