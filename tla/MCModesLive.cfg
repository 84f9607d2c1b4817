\* Liveness of the game types whose frames drive a queue or a series of rounds.
SPECIFICATION ModesFairSpec
CONSTANTS
  GameType = {"arena", "clan", "race", "fest"}
  RaClient = {1, 2, 3}
  ReadyTime = 1
  CaPlayer = {1, 2, 3}
  CaFirstTeam = {1}
  CaLeaver = {1}
  CaLaggard = {}
  CaMode = {1}
  MaxRespawns = 1
  WinsRequired = 1
  RoundTime = 1
  PauseTime = 2
  CtfPlayer = {1}
  CtfRed = {1}
  Rune = {1}
  RaceSlots = 3
  RaceSeats <- SeatsToTakeTurns
  RaceScoring = "Win Only"
  RaceRounds = 1
  RaceBest = 1
  RaceCountdown = 0
  RaceLimit = 1
  RaceMatchLimit = 1
  RaceWarmup = 0
  HmPlayer = {1, 2}
  HmSpawn = {11, 12}
  HmDefault = {}
  HmRounds = 2
  HmMaxRounds = 2
  HmTimelimit = FALSE
  HmFrags = 0
  ScPlayer = {1, 2, 3}
  ScRed = {1, 2}
  ScSetting <- ScoreSettings
  ScTieCount = 3
  ScTeleDeath = TRUE
  ScFrags = 2
  MvSlots = 5
  MvSpec = {4}
  MvSeeker = {1, 4}
  MvMap = {1, 2}
  MvLock = FALSE
  MvPercent = 51
  ItPlayer = {1, 2}
  ItMode = {"drop", "keep", "kill", "mega", "mega2"}
  Box = {1, 2}
  PowerTime = 3
  QuadWait = 6
  ShowWait = 3
  KillTime = 1
  HealthMax = 2
  MegaHeal = 2
  HealthCap = 5
  RotWait = 2
  BoxWait = 3
  MaxDrops = 2
  MaxRevived = 1
  BfPlayer = {1, 2}
  BfMonster = {1, 2}
  BfLimit = 1
  BfInitial = 1
  BfPeriod = 1
  BfCorpse = 1
  BfAge = 1
PROPERTIES
  AFightFollows
  PauseEnds
  TurnComes
  OneLife
