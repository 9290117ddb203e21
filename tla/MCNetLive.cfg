SPECIFICATION LiveSpec
CONSTANTS
  Rto = 1
  Rc = 2
  Rm = 2
  Interval = 2
  Maps = {m1, m2}
  Tids = {1, 2}
  MaxErr = 0
  MaxOdd = 0
  MaxLoss = 0
  MaxMove = 1
  MaxEnable = 1
  Nil = Nil
INVARIANT SessionKept
PROPERTY NetEnds
