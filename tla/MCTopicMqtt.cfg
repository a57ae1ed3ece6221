\* One filter and one topic of at most two levels, against MQTT's own rule.
SPECIFICATION Spec
CONSTANTS
  e = e
  a = a
  m = m
  Hash = Hash
  Plus = Plus
  Empty = e
  Plain <- PlainLevels
  Mixed <- MixedLevels
  MaxLevels = 2
  MaxFilters = 1
INVARIANTS AgreesWithMqtt
