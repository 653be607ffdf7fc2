\* The same with requests of two drivers at a time.
CONSTANTS
    Gpio = {128, 129}
    Device = {83}
    NumSysIntr = 2
    Overlap = TRUE
SPECIFICATION Spec
INVARIANT SysIntrsDiffer
