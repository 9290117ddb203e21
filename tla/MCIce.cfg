SPECIFICATION FairSpec
CONSTANTS
  Addr <- BehindAddr
  Path <- BehindPath
  NoPath = "none"
  Prio <- Equal
  Tie <- TieBreak
  Role0 <- SameRole
  Lossy = FALSE
  MaxReq = 6
  MaxErr = 0
PROPERTY ChecksEnd
