CONSTANTS
  WaysOf <- WaysTried
  ByteMax = 255  Newline = 10  WordChars = {97, 98, 120}
  FirstUpper = 65  LastUpper = 90  CaseShift = 32
  MaxNumberLength = 4  LongMax = 3  NumberLen = 5
  VecSize = 17  NArgMax = 2
  Objects <- MCObjects  Strings <- MCStrings  Rewrites <- MCRewrites
  Readers <- MCReaders  Inputs <- MCInputs  Patterns <- MCPatterns  Subjects <- MCSubjects
  Index = {0, 1, 2}  MaxSizes = {1, 3}  Garbage <- MCGarbage  Value = {1, 2}
  Node = {1, 2, 3}  kMaxRef = 3  MaxSubs = 2  MaxHeld = 4
  Budgets = {0, 1, 2, 4, 9, 30}
SPECIFICATION LoopSpec
PROPERTIES GlobalMatchEnds
CHECK_DEADLOCK FALSE
