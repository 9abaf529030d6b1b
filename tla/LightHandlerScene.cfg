SPECIFICATION LiveSpec
CONSTANTS
  None = None
  LevelMax = 2
  Floor = 2
  StepSize = 1
  TempMin = 1
  TempMax = 1
  DefaultLevel = 2
  DefaultTemperature = 1
  Forever = 3
  OnTimes = {}
  OffWaits = {}
  TimeWrites = {}
  OnLevels = {}
  LevelInputs = {2}
  TemperatureInputs = {1}
  Scenes <- MCScenes
  SceneFields <- MCFields
  ConsoleTargets <- MCTargets
  Elapsed = {1, 2}
PROPERTY PolledSceneIsTrue
CHECK_DEADLOCK FALSE
