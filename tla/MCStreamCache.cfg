SPECIFICATION Spec
CONSTANTS
  Inputs <- InputsDef
  Shifts = {1, 2}
  Tokens = {"m", "n"}
  MaxRuns = 3
  MaxLength = 4
INVARIANTS OnlyWholeCaches PacksTheInput CacheReproduces
