CONSTANTS
  WaysOf <- WaysTried
  ByteMax = 4  Newline = 0  WordChars = {1, 3}
  FirstUpper = 1  LastUpper = 1  CaseShift = 2
  ShortLen = 0  LongLen = 0  LongByte = {}
  Sample = {}  Progs <- MCProgs  Calls <- MCCalls  NodeBudget = 8
  ObjectSample = {1, 2, 6, 7, 9, 14, 20, 22, 30, 31}
  ObjectShortLen = 0  ObjectLongLen = 0  ObjectLongByte = {}
  RE2s <- MCRE2s  RE2Calls <- MCRE2Calls
  ProgramRange <- RangeOfProgram  LeastBehind <- Successor
  OnePassTextMax = 2  TinyTextMax = 1  MaxOnePassCapture = 2
  MaxBitStateBitmapSize = 15  MaxBitStateInsts = 12
SPECIFICATION RE2Spec
INVARIANTS MatchesInRange
