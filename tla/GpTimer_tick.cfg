\* A handler, the kernel and OEMIdle far from the turn of the counter; a thread that asks
\* for the time across it.
SPECIFICATION Spec
CONSTANTS
    Width = 12
    Margin = 20
    MaxIdle = 1000
    Delays = {12, 26}
    Sleeps = {2}
    Lag = 1
    Reach = 52
    Late = 0
    Reads <- mcReads
    Starts = {1010, 4064}
    Ends = {1122, 4130}
CHECK_DEADLOCK FALSE
INVARIANTS TypeOK MatchAhead ReschedInTime
PROPERTY TickCountExact
