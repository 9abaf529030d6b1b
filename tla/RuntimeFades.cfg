SPECIFICATION Spec
CONSTANTS
  None = None
  LevelMax = 2
  Floor = 4
  StepSize = 3
  TempMin = 1
  TempMax = 3
  DefaultLevel = 1
  DefaultTemperature = 1
  One = 8
  DefaultTransition = 2
  RetryDelay = 1
  VerifyInterval = 1
  EffectLegs <- MCEffectLegs
  PresetTemperature <- MCPresetTemperature
  Revisions = 1
  FailureSets <- NoFailure
  StoredRecords <- FreshFlash
  Durations = {0, 2}
  TickSteps = {1, 2}
  LevelInputs = {0, 2}
  TemperatureInputs = {1, 3}
  SceneTargets <- MCSceneTargets
  StartupLevels = {}
  StartupTemperatures = {}
INVARIANTS
  TypeOK
  AcknowledgedIsEffective
  FadesEndAtTarget
PROPERTIES
  RetargetsFromAcknowledged
  FadeOutNeverBrightens
  FadeOutKeepsColour
  StopCorrectionIsBounded
