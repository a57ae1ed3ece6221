\* Two brokers, one signal besides the SIGABRT of abort, failures, clients that
\* stop reading, and fair threads.
SPECIFICATION FairSpec
CONSTANTS
  a1 = a1
  a2 = a2
  int = int
  abrt = abrt
  Abort = abrt
  Control = Control
  Nobody = Nobody
  NoName = NoName
  Adapter <- TwoAdapters
  Name <- TwoNames
  Signal <- TwoSignals
  Stalling <- OneBrokerToo
  MaxSignals = 1
INVARIANTS TypeOK LinesWhole UnderOwnHeader GoneAreSilent HolderGoesOn
PROPERTIES HangIsFinal SignalStops
