\* One filter: what is left of a closed connection.
SPECIFICATION Spec
CONSTANTS
  c1 = c1
  c2 = c2
  f1 = f1
  f2 = f2
  bad = bad
  t1 = t1
  NoConn = NoConn
  NoTopic = NoTopic
  Conn <- TwoConns
  Stalling <- NoConns
  Topic <- OneTopic
  Matches <- FirstMatches
  Filter <- OneFilter
  BadFilter <- NoFilters
  MaxEntries = 1
INVARIANTS ClosedIsForgotten
