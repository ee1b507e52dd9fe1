CONSTANTS
  t1 = t1  t2 = t2  a1 = a1  a2 = a2  a3 = a3
  Threads = {t1, t2}
  Addr = {a1, a2, a3}
  NoThread = NoThread  NULL = NULL  Free = Free
  DeadState = DeadState  FullMatchState = FullMatchState  EndText = EndText
  Content <- SmallContent  Byte <- SmallByte  Delta <- SmallDelta
  IsMatch <- SmallIsMatch  MatchId = {}  MatchIds <- SmallMatchIds
  StartKind <- SmallStartKind  StartOf <- SmallStartOf
  CanAccel <- SmallCanAccel  Prefix <- SmallPrefix
  ManyMatch = FALSE
  Requests <- SmallRequests
  Cost <- SmallCost  MaxCost = 1  StateBudget = 3  BailFactor = 1
  Reversed = FALSE  SizeModulus = 64
  WalkBound = 1
  Ops = {"search", "build", "range"}
SPECIFICATION FairSpec
INVARIANTS NoDanglingState CacheSound
PROPERTIES StableWhileRead CallsReturn
