SPECIFICATION Spec
CONSTANTS
  None = None
  Unknown = Unknown
  ResetBank = ResetBank
  TornBank = TornBank
  LevelMax = 254
  Floor = 253
  StepSize = 9
  TempMin = 143
  TempMax = 344
  DefaultLevel = 57
  DefaultTemperature = 303
  FramesUsed <- MCFrames
INVARIANTS
  TypeOK
  AcknowledgedIsHeld
PROPERTIES
  EnablesOnlyVerified
  ConfiguresOnlyParked
  WakesDark
  ImplementsLightOutput
