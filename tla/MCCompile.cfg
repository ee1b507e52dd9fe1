CONSTANTS
  WaysOf <- WaysTried
  ByteMax = 3  Newline = 0  WordChars = {1, 3}
  FirstUpper = 1  LastUpper = 1  CaseShift = 2
  MaxSteps = 2  MaxInst = 30  TextLen = 2
  RangeEnds = {97, 128, 192, 2048, 2050, 2240, 6144, 65536, 262144, 1114112}
  MaxNInst = 40  MaxRanges = 3
SPECIFICATION Spec
INVARIANTS ProgramsMeanRegexp ProgramsAsAssumed ClassesAlike RangesExact
CHECK_DEADLOCK FALSE
