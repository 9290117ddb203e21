SPECIFICATION Spec
CONSTANTS
  Off = Off
  Period = 5
  CheckDelay = 1
  MaxClients = 2
  MaxFlight = 3
INVARIANTS
  RtcInv
  SilenceBounded
  AlarmJustified
PROPERTY LeakOnlyUnopened
