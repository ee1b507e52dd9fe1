CONSTANTS
  t1 = t1  t2 = t2  a1 = a1  a2 = a2  a3 = a3
  Threads = {t1, t2}
  Addr = {a1, a2, a3}
  NoThread = NoThread  NULL = NULL  Free = Free
  DeadState = DeadState  FullMatchState = FullMatchState  EndText = EndText
  Content <- MCContent  Byte <- MCByte  Delta <- MCDelta
  IsMatch <- MCIsMatch  MatchId <- MCMatchId  MatchIds <- MCMatchIds
  StartKind <- MCStartKind  StartOf <- MCStartOf
  CanAccel <- MCCanAccel  Prefix <- MCPrefix
  ManyMatch = FALSE
  Requests <- MCRequests
  Cost <- MCCost  MaxCost = 1  StateBudget = 3  BailFactor = 1
  Reversed = FALSE  SizeModulus = 64
  WalkBound = 2
  Ops = {"search"}
SPECIFICATION Spec
SYMMETRY MCSymmetry
INVARIANTS TypeOK ResetExclusive OneStatePerContent
PROPERTIES BailsWhenSlow CacheTransparent
