SPECIFICATION FairSpec
CONSTANTS
  c1 = c1
  c2 = c2
  None = None
  Conns <- TwoConns
  MaxIceRetries = 2
  MaxSessions = 3
  MaxLive = 1
  IdSpace = 2
INVARIANT AskerInv
PROPERTY ParkedAnswered
