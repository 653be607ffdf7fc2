\* Two pins of the first bank and the line of the first MMC slot, requests one at a time.
CONSTANTS
    Gpio = {128, 129}
    Device = {83}
    NumSysIntr = 2
    Overlap = FALSE
SPECIFICATION FairSpec
INVARIANTS TypeOK NotForgotten WakeupFollows SomebodyListens
PROPERTY CallsServed
