SPECIFICATION TSpec
CONSTANTS
  LitTables <- MCLitTables
  DistTables <- MCDistTables
INVARIANTS TablesArrive
