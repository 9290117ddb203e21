SPECIFICATION Spec
CONSTANTS
  Off = Off
  Period = 5
  CheckDelay = 1
  MaxClients = 1
  MaxFlight = 2
INVARIANT NothingSentAfterClose
