CONSTANTS
  N = 3
  MaxReqs = 3
  CountMod = 5
  HostReady = {TRUE, FALSE}
  Nothing = Nothing
SPECIFICATION SocketLiveSpec
INVARIANT CounterExact
INVARIANT OneDeviceBusy
PROPERTY ImplementsBus
PROPERTY ImplementsLiveBus
