\* Three adapters, one topic, and a scope in the middle that leaves it out.
SPECIFICATION Spec
CONSTANTS
  t1 = t1
  NoTopic = NoTopic
  PoolSize = 3
  MaxMessages = 1
  MaxEntries = 2
  Topic <- OneTopic
  Scope <- ThreeScopes
  Stalling <- NoAdapters
INVARIANTS TypeOK NoLostWakeup RelayedInOrder RelayedToAll ThreadsJoined
PROPERTIES DrainExclusive ImplementsBridge
