SPECIFICATION Spec
CONSTANTS
  c1 = c1
  c2 = c2
  None = None
  Conns <- TwoConns
  MaxIceRetries = 1
  MaxSessions = 2
  MaxLive = 2
  IdSpace = 3
SYMMETRY ConnSymmetry
INVARIANT HttpInv
PROPERTY Negotiates
