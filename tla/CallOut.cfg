CONSTANTS
  Id = {i1, i2, i3}
  Target = {t1}
  Function = {f1, f2}
  Script = {s1}
  Delay = {1}
  Repeating = {FALSE, TRUE}
  Free = Free
  NoId = NoId
  MaxTime = 2
SPECIFICATION FairSpec
INVARIANTS IndexesAgree RunExcludesRemoval
PROPERTIES RemovesOnlyTheNamed DueIsHandled
CHECK_DEADLOCK FALSE
