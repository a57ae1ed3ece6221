\* Two adapters, one topic, with fair threads and clients that stop reading.
SPECIFICATION FairSpec
CONSTANTS
  t1 = t1
  NoTopic = NoTopic
  PoolSize = 2
  MaxMessages = 1
  MaxEntries = 2
  Topic <- OneTopic
  Scope <- PairScopes
  Stalling <- BothAdapters
INVARIANTS NeverStuck
PROPERTIES DrainNearsEnd ShutdownNearsEnd EventuallyRelayed StopTerminates
