SPECIFICATION LuaSpec
CONSTANTS
    Tables <- MCTables
    Inputs <- MCInputs
    Exact = 8
    MaxDo = 2
    MaxPuts = 1
INVARIANTS
    LuaBytes
