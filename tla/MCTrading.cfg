SPECIFICATION TradingSpec
CONSTANTS
  Times = 32
  Locates = {"BRVO", "CHRL"}
  IdleBound = 1
  FirstPackets <- SomeFirst
  Packets <- SomePackets
  Levels = 2
  ShareBits = 6
  PriceWords = 1024
  SpreadShift = 1
  FlowShift = 1
  BuyThreshold = 40
  SellThreshold <- SellAt
  TokenWords = 3
  ModelLatency = 2
  Beats <- SomeBeats
  OnTheBus <- Idle
  Model <- Linear
INVARIANTS MessagesAreFramed EventsMatchReference DecidesAsReference
PROPERTIES MatchesSerial EventsApart
CHECK_DEADLOCK FALSE
