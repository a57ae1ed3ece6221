\* Two connections, two valid filters and an invalid one.
SPECIFICATION Spec
CONSTANTS
  c1 = c1
  c2 = c2
  f1 = f1
  f2 = f2
  bad = bad
  t1 = t1
  NoConn = NoConn
  NoTopic = NoTopic
  Conn <- TwoConns
  Stalling <- NoConns
  Topic <- OneTopic
  Matches <- FirstMatches
  Filter <- TwoFilters
  BadFilter <- BadFilters
  MaxEntries = 2
SYMMETRY Symmetry
INVARIANTS TypeOK NoOrphanSubs ConnectedIsKnown ClosedIsErased NoLocal WalkIsStable
  InjectFindsMeta
PROPERTIES HandlersNearEnd ImplementsHub
