CONSTANTS
    p1 = p1
    p2 = p2
    Pids <- MCPids
    PidReuse = TRUE
    ClockAdjust = TRUE
SPECIFICATION RatesSpec
CONSTRAINT RateBound
SYMMETRY PidSymmetry
INVARIANT RatesNonNegative
