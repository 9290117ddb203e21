SPECIFICATION NetSpec
CONSTANTS
  Nil = Nil
  MaxWire = 3
  kaint = TRUE
  Foreign = TRUE
  Vanishing = TRUE
INVARIANTS LoopKept ServerKept WsInv SocketKept DnsKept TurnKept GatherKept ChecksKept
PROPERTY StepsKept
