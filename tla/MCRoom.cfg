SPECIFICATION RoomFairSpec
CONSTANTS
  Feeds = {7}
  WebListeners = {}
  AutoPublish = TRUE
  MaxTrans = 4
  MaxOffers = 2
  MaxIceRetries = 1
INVARIANTS
  RoomInv
  RoomKept
  NegotiationClosed
  SilenceExplained
PROPERTY AnswerStartsIce
