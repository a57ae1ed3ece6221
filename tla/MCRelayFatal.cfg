\* Two adapters, one topic: an exception in a handler.
SPECIFICATION Spec
CONSTANTS
  t1 = t1
  NoTopic = NoTopic
  PoolSize = 2
  MaxMessages = 1
  MaxEntries = 2
  Topic <- OneTopic
  Scope <- PairScopes
  Stalling <- NoAdapters
INVARIANTS FatalIsHandled
