SPECIFICATION Spec
CONSTANTS
  PictureParts = {upper, lower}
  MaxPoints = 1
  MaxReports = 2
  MaxOrders = 2
  MaxLinks = 2
  ImageParts = {upper, lower}
  MaxImages = 4
  MaxStarts = 2
  noBuffers = 3
  Resolutions = {1, 2}
  MaxShots = 6
  MaxRuns = 3
  Children = 2
  RingSize = 2
  MaxGrabs = 3
  MaxTells = 2
  MaxFrames = 3
  MaxRequests = 1
  MaxInits = 2
  LinkSize = 1
  Width = 6
  Height = 4
  MaxBlobs = 3
  Lines = 3
  MaxScans = 3
  MaxPauses = 1
  MaxOpens = 2
  Settings = {a, b, odd}
  Odd = {odd}
  MaxCrashes = 2
  Setups = {s1, s2}
  Ranges = {r1, r2}
  MaxTrials = 3
  MaxBuffers = 2
  MaxExposures = 4
  MaxPolls = 1
  MaxDirs = 2
  MaxPresses = 3
  CameraNames = {"cam", "campro"}
  FourCCs = {"YUYV", "MJPG", "GREY", "Y"}
  FrameSizes = {"s", "l", "160 x 120"}
  MaxChoices = 4
  Games = {"game"}
  Slaves = {s3}
  MaxEdits = 3
  MaxDrift = 1
  MaxCommands = 3
  Systems <- WineSystems
  GameData <- WineGames
  GameIds = {"plain", "keyed", "keyed2", "unknown"}
  MaxUses = 3
  MaxPoses = 2
  Gamers = {g1, g2}
  Instances = {i1, i2, i3}
  Nobody = Nobody
  Keys = {"a", "b"}
  Registries <- WineKeys
  QueueSize = 2
  MaxStrokes = 3
  MaxClicks = 3
  Families = {"tir2", "tir3", "tir4", "tir5", "sn3", "sn4"}
  Levels = {0}
  MaxOps = 3
  MaxEvents = 1
  Keyboard = {"a", "b", "u"}
  Unknown = {"u"}
  HotKeys <- MouseButtons
  Assigned <- MouseKeys
  MaxAssigns = 1
  MaxTyped = 2
  MaxOthers = 1
  MaxPushes = 3
  MaxLosses = 2
  KeptLights <- WiiKept
  MaxTicks = 1
  MaxTurns = 3
  KeptModels <- ModelSections
  NewModel = "new"
  MaxChanges = 2
INVARIANTS
  TypeOK
  
  CountedPoseIsCentred
  BlobsAreFieldsInside
  StartedWithFirmware
  
  RevertRestores
  SignalsKept
  LinkedIsComplete
  SettingsBelong
  
  GameSeesPose
  CallsLand
  
  GamesFollow
PROPERTIES
  StepsKeep
  
  Answered
CHECK_DEADLOCK FALSE
