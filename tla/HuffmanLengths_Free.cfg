SPECIFICATION HSpec
CONSTANTS
  MapSize = 5
  MaxCount = 5
  Width = 5
  MaxBitLen = 5
  Smooths = {0, 2, 3, 4}
INVARIANTS BudgetKept Complete ReaderAgrees
