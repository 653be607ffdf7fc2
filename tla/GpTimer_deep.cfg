\* An idle state with a latency of the margin.
SPECIFICATION Spec
CONSTANTS
    Width = 12
    Margin = 20
    MaxIdle = 1000
    Delays = {12, 20}
    Sleeps = {2}
    Lag = 1
    Reach = 52
    Late = 0
    Reads <- mcReads
    Starts = {1010}
    Ends = {1122}
CHECK_DEADLOCK FALSE
INVARIANT MatchAheadAsleep
