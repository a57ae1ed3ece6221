\* One filter, with fair threads.
SPECIFICATION FairSpec
CONSTANTS
  c1 = c1
  c2 = c2
  f1 = f1
  f2 = f2
  bad = bad
  t1 = t1
  NoConn = NoConn
  NoTopic = NoTopic
  Conn <- TwoConns
  Stalling <- TwoConns
  Topic <- OneTopic
  Matches <- FirstMatches
  Filter <- OneFilter
  BadFilter <- NoFilters
  MaxEntries = 2
PROPERTIES HandlersFinish LostIsUnsubscribed
