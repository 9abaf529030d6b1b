SPECIFICATION DeviceSpec
CONSTANTS
  Capacity = 2
  MaxDropped = 1
  Deadline = 3
  LongestRetry = 2
INVARIANTS
  DeviceTypeOK
  DropsAreCounted
  EarlyFlushIsOwn
  GoodImageRemains
PROPERTIES
  RebootNeedsNoHost
  SupervisedBuildRollsBack
