SPECIFICATION LiveSpec
CONSTANTS
  None = None
  LevelMax = 2
  Floor = 2
  StepSize = 1
  TempMin = 1
  TempMax = 1
  DefaultLevel = 1
  DefaultTemperature = 1
  One = 8
  DefaultTransition = 1
  RetryDelay = 2
  VerifyInterval = 1
  EffectLegs <- BriefEffectLegs
  PresetTemperature <- MCPresetTemperature
  Revisions = 1
  FailureSets <- LiveFailures
  StoredRecords <- LiveFlash
  Durations = {0}
  TickSteps = {1}
  LevelInputs = {2}
  TemperatureInputs = {1}
  SceneTargets <- NoScenes
  StartupLevels <- ZeroLevel
  StartupTemperatures <- Warmest
PROPERTIES
  SettlesWhenCalm
  RestartRestoresReported
