SPECIFICATION Spec
CONSTANTS
  LevelMax = 254
  Floor = 253
  StepSize = 9
  TempMin = 143
  TempMax = 344
  DefaultLevel = 57
  DefaultTemperature = 303
INVARIANT StepsMatchStock
PROPERTY RampsNeverDim
CHECK_DEADLOCK FALSE
