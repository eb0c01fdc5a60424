CONSTANTS
    Names = {n1}
    Blank = Blank
    Symbols = {s1}
    NoSymbol = NoSymbol
    Rules = {r1, r2}
    NoRule = NoRule
    Sizings = {z1, z2}
    DefaultRule = r1
    DefaultSizing = z1
    SingleWriter = FALSE
    Tables <- MCTables
    MaxCalls = 2
    MaxMounts = 1
SPECIFICATION Spec
CONSTRAINT Limited
CHECK_DEADLOCK FALSE
INVARIANTS TypeOK NoOrphans OneSaveAtATime EditShowsItsTarget
PROPERTIES TypingIsKept
