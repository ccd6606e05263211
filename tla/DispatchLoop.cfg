SPECIFICATION LoopSpec
CONSTANTS
  Threads = {t1, t2, t3}
  Iterations = 7
  Stride = 3
INVARIANTS NoRace AllDone
PROPERTY Returns
