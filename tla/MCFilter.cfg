SPECIFICATION MCSpec
CONSTANTS
  WaysOf <- WaysTried
  ByteMax = 1114111
  Newline = 10
  WordChars <- MCWordChars
  FirstUpper = 65
  LastUpper = 90
  CaseShift = 32
  CaseFolds <- MCCaseFolds
  kMaxNsub = 3
  ToLowers <- MCToLowers
  FirstBeyondASCII = 128
  MaxCross = 6
  MaxClassSize = 2
  MaxVisits = 12
  TooCommon = 2
  Objects = {1, 2}
  DefaultMinLen = 3
  SetObjects = {11, 12}
  PatternOf <- MCPatternOf
  Pool <- MCPool
  Texts <- MCTexts
  SetTexts <- MCSetTexts
  SetFlags = {"NeverCapture"}
  Scenarios = {"atoms", "empty", "shared", "folded", "moved", "sets", "movedsets"}
INVARIANTS
  FilterMissesNothing
  FilterAgrees
  SetMatchesAll
CHECK_DEADLOCK FALSE
