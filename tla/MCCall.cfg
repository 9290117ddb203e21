SPECIFICATION CallSpec
CONSTANTS
  W = 3
  Indices = {0, 1, 2, 3, 4, 5, 6, 7}
  MaxTries = 1
  MaxUpdates = 2
  SdpAddr = {"answerer"}
  Outcomes = {"match", "mismatch", "hash", "nokeys", "nostreams", "nohelper"}
  RoomEnds = {"offerer"}
  Nil = Nil
INVARIANTS WindowExact DtlsInv DtlsKept SrtpKept JbufKept TransKept CancelKept RegKept
PROPERTY MediaSteps
