CONSTANTS
  Values = {0, 1, 2}
  HEARDLIST_SIZE = 3
  HEARDLIST_MAX_AGE = 1
  TimeMod = 4
  MaxTicks = 3
  MaxAdded = 3
  MaxHeard = 2
  Callsigns <- MCCallsigns
  Paths <- MCPaths
  Beyond <- MCBeyond
  Transmissions <- MCTransmissions
  TXDELAY = 20
  TXTAIL = 3
  MinOctets = 1
  MaxOctets = 4
  LengthSize = 256
  FBUF_SLOTSIZE = 2
  Phases = {0, 40}
  SlipGap = 15
  Used <- MCUsed
  Numbers <- MCNumbers
  Texts <- MCTexts
  Routes <- MCRoutes
  MaxCommands = 2
  MaxPolls = 1
  MaxPushes = 1
  MaxCuts = 1
  NSCREENS = 2
  WifiScreens = {1}
  nitems = 3
  MAX_VISIBLE = 2
  MaxEdges = 8
  MaxUpdates = 1
  Colours <- MCColours
  Mixes <- MCMixes
  Freqs = {1, 2}
  Squelches = {0, 4}
  MaxOrders = 2
  MaxPowerUps = 2
SPECIFICATION PartsSpec
INVARIANTS DuplicateExact PathKept FrameArrives ReadsAsSet SwitchExact ButtonExact ScreenExact LedExact TrxExact
PROPERTIES WritesStay
CHECK_DEADLOCK FALSE
