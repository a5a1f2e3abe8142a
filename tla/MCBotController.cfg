CONSTANTS
  BotSeat <- MCBotSeat
  MaxReArms = 1
  MaxActions = 2
  MaxGames = 2
  MaxRequests = 3
SPECIFICATION FairSpec
PROPERTIES MovesInItsGame ForcedEndIsABots BotsPlayOn
CHECK_DEADLOCK FALSE
