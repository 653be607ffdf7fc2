\* One driver per device: sloppy disables, shared registers, domain and source.
CONSTANTS
    Thread = {t1, t2}
    t1 = t1  t2 = t2
    NoThread = NoThread  NoClock = NoClock
    GPIO5 = GPIO5  WDT3 = WDT3  MMC1 = MMC1  CAMERA = CAMERA  CSI2 = CSI2
    fGPIO5 = fGPIO5  fWDT3 = fWDT3  fMMC1 = fMMC1  fCAM = fCAM  fCSI2 = fCSI2
    iGPIO5 = iGPIO5  iWDT3 = iWDT3  iMMC1 = iMMC1  iCAM = iCAM
    Domain <- mcDomain
    Source <- mcSource
    FclkOf <- mcFclkOf
    IclkOf <- mcIclkOf
    DomainOf <- mcDomainOf
    SourcesOf <- mcSourcesOf
    WakeCapable <- mcWakeCapable
    DynamicWake <- mcDynamic
    DynamicSleep <- mcDynamic
    CoreDevice <- mcCoreDevice
    OtherDevice <- mcOtherDevice
    Device = {GPIO5, WDT3, MMC1}
    Clock = {fGPIO5, fWDT3, fMMC1, iGPIO5, iWDT3, iMMC1}
    AutoidleCapable <- mcAutoidle
    ClientsOf <- OneDriver
    Calls = {"clocks", "fclk"}
    Sloppy = TRUE
SPECIFICATION FairSpec
INVARIANTS TypeOK NoLostUpdate Supplied
PROPERTIES
    ImplementsSwitch
    CallsReturn
