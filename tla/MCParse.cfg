SPECIFICATION MCSpec
CONSTANTS
  WaysOf <- WaysTried
  ByteMax = 1114111
  Newline = 10
  WordChars <- MCWordChars
  FirstUpper = 65
  LastUpper = 90
  CaseShift = 32
  CaseFolds <- MCCaseFolds
  kMaxNsub = 3
  kMaxRepeat = 4
  MaxRepeat = 4
  Latin1Max = 255
  CodeOf <- MCCodeOf
  CharOf <- MCCharOf
  UnicodeGroups <- MCUnicodeGroups
  Alphabet <- MCAlphabet
  Orbits <- MCOrbits
  PieceOf <- MCPieceOf
  Vocabularies = {"factoring", "merging", "groups", "captures", "quests", "repeats",
    "stacked", "runs", "folds", "folded", "latin1", "classes", "edges", "lazy",
    "escapes", "literal", "prefixes", "lines", "mistakes", "posix", "strict"}
INVARIANTS
  ParseTypeOK
  PatternMeans
  ErrorsAgree
  SimplifiedFully
  GroupsNumbered
  PrintedMeans
  PrefixesRequired
CHECK_DEADLOCK FALSE
