SPECIFICATION Spec
CONSTANTS
    Domain <- MCDomain
    Ticks <- MCTicks
    MaxOpp <- MCMaxOpp
    BootOpp <- MCBootOpp
    OppAsked = {0, 1}
    SuspendAsked = {0, 2}
    Delays <- MCDelays
    Margin = 20
    Constraints <- MCConstraints
    MaxInt = 100000
    MaxDevice = 1
    HighSecurity = FALSE
INVARIANTS
    TypeOK
    NobodyLosesPower
    ChipStaysUp
    Restored
    WakesInTime
