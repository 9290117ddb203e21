SPECIFICATION MCSpec
CONSTANTS
  Feeds = {7, 8}
  WebListeners = {8}
  AutoPublish = TRUE
  MaxTrans = 6
  MaxOffers = 2
INVARIANTS
  JanusKept
  JanusInv
  ReaderExact
PROPERTY RoomReached
