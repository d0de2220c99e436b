SPECIFICATION Spec
CONSTANTS
  Chains <- SomeChains
  Remains <- SomeRemains
  MaxLines = 3
  t1 = t1
  t2 = t2
  Savers = {t1, t2}
  Paths = {"a", "b"}
  SavedAnswers <- SomeAnswers
  FirstBlock = 3
  LargestBlock = 3
  Rooms = {0, 1, 3, 9}
  MaxFds = 4
  MaxSaves = 3
  ABSENT = ABSENT
SYMMETRY SaversSymmetry
INVARIANTS EntriesWhole SavedWhole PrefixKept
CHECK_DEADLOCK FALSE
