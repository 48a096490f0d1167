SPECIFICATION Spec
CONSTANTS
  CacheWords = 4
  AddressSpace = 8
  Words = {w1, w2}
  Unknown = Unknown
INVARIANTS
  AnswersAreFresh
PROPERTY
  WindowSpec
