SPECIFICATION Spec
CONSTANTS
  None = None
  MaxInt = 305
  Texts <- ClientTexts
  MaxEntries = 3
  Skew = 2
  Fixes = {0, 300}
  DefaultPage = 1
  MaxPage = 2
  Limits = {None, 0, 2, 5}
INVARIANTS
  ReportIsTrue
  AmountsAreExact
  WalkIsFaithful
