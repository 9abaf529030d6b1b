SPECIFICATION LiveSpec
CONSTANTS
  None = None
  LevelMax = 2
  Floor = 2
  StepSize = 1
  TempMin = 1
  TempMax = 1
  DefaultLevel = 2
  DefaultTemperature = 1
  Forever = 3
  OnTimes = {2}
  OffWaits = {0, 1}
  TimeWrites = {1}
  OnLevels = {2}
  LevelInputs = {2}
  TemperatureInputs = {1}
  Scenes <- MCScenes
  SceneFields <- MCFields
  ConsoleTargets <- MCTargets
  Elapsed = {1, 2}
INVARIANTS
  TypeOK
  GlobalSceneIsSaved
  ReportsAreTold
PROPERTIES
  TimersEnd
  TimedLightGoesOff
CHECK_DEADLOCK FALSE
