SPECIFICATION Spec
CONSTANTS
  Keys <- OneKey
  Sanitize <- Plain
  Settings <- MCSettings
  CompactKeep = 3
  HydrateMax = 6
  MaxMessages = 3
INVARIANTS TypeOK MemoryIsFileTail AnswersOwnMessage FailuresResolved NewForgets
CHECK_DEADLOCK FALSE
