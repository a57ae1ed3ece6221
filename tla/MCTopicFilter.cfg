\* Every scope of at most two filters, and every topic, of at most three levels.
SPECIFICATION Spec
CONSTANTS
  e = e
  a = a
  m = m
  Hash = Hash
  Plus = Plus
  Empty = e
  Plain <- PlainLevels
  Mixed <- MixedLevels
  MaxLevels = 3
  MaxFilters = 2
INVARIANTS TypeOK TopicReadInBounds PastOnlyForPrefix AnswerIsExact
