SPECIFICATION FairSpec
CONSTANTS
  Attempts = {a1, a2, a3}
  NoChannel = NoChannel
  MaxStops = 2
INVARIANTS
  NeverStranded
  ConnectedMeansListening
  StoppedIsQuiet
  OneSocket
PROPERTIES
  Reconnects
