CONSTANTS
  WaysOf <- WaysTried
  ByteMax = 3  Newline = 0  WordChars = {1, 3}
  FirstUpper = 1  LastUpper = 1  CaseShift = 2
  ShortLen = 2  LongLen = 3  LongByte = {1, 2, 3}
  Sample <- AllSamples  Progs <- MCProgs  Calls <- MCCalls  NodeBudget = 8
  ObjectSample = {1, 2, 6, 7, 9, 14, 20, 22, 30, 31}
  ObjectShortLen = 1  ObjectLongLen = 3  ObjectLongByte = {2, 3}
  RE2s <- MCRE2s  RE2Calls <- MCRE2Calls
  ProgramRange <- RangeOfProgram  LeastBehind <- Successor
  OnePassTextMax = 2  TinyTextMax = 1  MaxOnePassCapture = 2
  MaxBitStateBitmapSize = 15  MaxBitStateInsts = 12
SPECIFICATION MCSpec
INVARIANTS AnswerCorrect ThreadsCounted CapturesUndone FloodStackFits MatchCorrect EnginesAgree
