SPECIFICATION FairSpec
CONSTANTS
    NumChannel = 2
    Client <- McClient
    Urgent <- McUrgent
    Line <- McLine
    Bulk = {1, 2}
INVARIANTS TypeOK UsedExactly FreeIsQuiet NoLostInterrupt
PROPERTIES InterruptServed ImplementsPool
