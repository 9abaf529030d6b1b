SPECIFICATION Spec
CONSTANTS
  None = None
  LevelMax = 1
  Floor = 2
  StepSize = 1
  TempMin = 1
  TempMax = 1
  DefaultLevel = 1
  DefaultTemperature = 1
  One = 8
  DefaultTransition = 2
  RetryDelay = 2
  VerifyInterval = 1
  EffectLegs <- MCEffectLegs
  PresetTemperature <- MCPresetTemperature
  Revisions = 3
  FailureSets <- SomeFailures
  StoredRecords <- AnyFlash
  Durations = {0}
  TickSteps = {1, 2}
  LevelInputs = {1}
  TemperatureInputs = {1}
  SceneTargets <- NoScenes
  StartupLevels = {}
  StartupTemperatures = {}
INVARIANTS
  AcknowledgedIsDurable
  LampFollows
PROPERTIES
  StartsFromZero
  UnreadRecordIsPreserved
  LocalOffOutlivesReload
  ReportedChangesAreCounted
