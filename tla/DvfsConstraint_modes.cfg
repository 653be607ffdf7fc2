SPECIFICATION FairSpec
CONSTANTS
    MaxClient = 1
    Forcers = {1}
    Watchers = {}
    MaxOpm = 2
    InitOpm = 2
    Map <- McMap
    Spi = {"SPI1"}
    Order <- McOrder
    Notified <- McNotified
INVARIANTS TypeOK RequestsCounted StrongestInForce KernelAgrees AckedBeforeChange
PROPERTY CallsReturn
