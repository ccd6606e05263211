SPECIFICATION HSpec
CONSTANTS
  MapSize = 5
  MaxCount = 8
  Width = 5
  MaxBitLen = 3
  Smooths = {0}
INVARIANT BudgetKept
