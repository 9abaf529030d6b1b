SPECIFICATION DeviceSpec
CONSTANTS
  Capacity = 1
  MaxDropped = 0
  Deadline = 2
  LongestRetry = 2
PROPERTIES
  BrokenBuildRollsBack
