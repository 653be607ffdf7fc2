\* Three multiplexers, two threads; device calls under Mutex_DeviceClock, and the IOCTL for
\* a clock that no device uses.
CONSTANTS
    Thread = {t1, t2}
    Nobody = Nobody
    Clock <- mcClock
    Fixed <- mcFixed
    Table <- mcTable
    Parents <- mcParents
    Asked <- mcAsked
    Held = {"MCBSP1", "CORE_96M", "CORE_48M"}
    MaxHold = 1
    Moved <- mcMoved
    Level <- mcLevel
SPECIFICATION FairSpec
INVARIANTS TypeOK Balanced SupplyOn NoGlitch
PROPERTY CallsReturn
