SPECIFICATION RebootSpec
CONSTANTS
  None = None
  LevelMax = 1
  Floor = 2
  StepSize = 1
  TempMin = 1
  TempMax = 1
  DefaultLevel = 1
  DefaultTemperature = 1
  One = 8
  DefaultTransition = 2
  RetryDelay = 2
  VerifyInterval = 2
  EffectLegs <- MCEffectLegs
  PresetTemperature <- MCPresetTemperature
  Revisions = 1
  FailureSets <- NoFailure
  StoredRecords <- FreshFlash
  Durations = {}
  TickSteps = {1}
  LevelInputs = {}
  TemperatureInputs = {}
  SceneTargets <- NoScenes
  StartupLevels = {}
  StartupTemperatures = {}
INVARIANT RebootStaysDark
