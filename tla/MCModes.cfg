\* All game types, safety.
SPECIFICATION ModesSpec
CONSTANTS
  GameType = {"arena", "clan", "flag", "race", "hoony", "score", "maps", "items", "fest"}
  RaClient = {1, 2, 3, 4}
  ReadyTime = 2
  CaPlayer = {1, 2, 3}
  CaFirstTeam = {1}
  CaLeaver = {1}
  CaLaggard = {}
  CaMode = {1, 2}
  MaxRespawns = 1
  WinsRequired = 2
  RoundTime = 1
  PauseTime = 2
  CtfPlayer = {1, 2, 3}
  CtfRed = {1, 2}
  Rune = {1, 2}
  RaceSlots = 3
  RaceSeats <- SeatsOfAll
  RaceScoring = "Win Only"
  RaceRounds = 3
  RaceBest = 2
  RaceCountdown = 0
  RaceLimit = 2
  RaceMatchLimit = 1
  RaceWarmup = 0
  HmPlayer = {1, 2}
  HmSpawn = {11, 12, 13}
  HmDefault = {13}
  HmRounds = 4
  HmMaxRounds = 6
  HmTimelimit = TRUE
  HmFrags = 5
  ScPlayer = {1, 2, 3}
  ScRed = {1, 2}
  ScSetting <- ScoreSettings
  ScTieCount = 3
  ScTeleDeath = TRUE
  ScFrags = 2
  MvSlots = 5
  MvSpec = {4}
  MvSeeker = {1, 4}
  MvMap = {1, 2}
  MvLock = FALSE
  MvPercent = 51
  ItPlayer = {1, 2}
  ItMode = {"drop", "keep", "kill", "mega", "mega2"}
  Box = {1, 2}
  PowerTime = 2
  QuadWait = 4
  ShowWait = 2
  KillTime = 1
  HealthMax = 2
  MegaHeal = 2
  HealthCap = 5
  RotWait = 1
  BoxWait = 2
  MaxDrops = 2
  MaxRevived = 1
  BfPlayer = {1, 2}
  BfMonster = {1, 2, 3}
  BfLimit = 2
  BfInitial = 2
  BfPeriod = 2
  BfCorpse = 1
  BfAge = 1
INVARIANTS
  ModesTypeOK
  OnePlaceEach
  OnlyFightersBleed
  OutsidersStayOut
  FlagHasItsCarrier
  OneOfEachRune
  TimesRank
  Unassailable
  SeriesEndsEven
  SidesSwap
  ScoresAreKept
  MapByMajority
  UsedUpFirst
PROPERTIES
  LineKeepsOrder
  PointForTheSurvivors
  OvertimeDecides
