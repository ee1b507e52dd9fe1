CONSTANTS
  WaysOf <- WaysTried
  ByteMax = 3  Newline = 0  WordChars = {1, 3}
  FirstUpper = 1  LastUpper = 1  CaseShift = 2
  ShortLen = 2  LongLen = 3  LongByte = {1, 2, 3}
  Sample <- AllSamples  Progs <- AllProgs  Calls <- AllCalls
SPECIFICATION MCSpec
INVARIANTS AnswerCorrect QueuesFit SetAnswerCorrect RangeHolds
