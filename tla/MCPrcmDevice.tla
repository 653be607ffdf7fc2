--------------------------- MODULE MCPrcmDevice -----------------------------
(***************************************************************************)
(* Rows of s_rgDeviceLookupTable for TLC (prcm_device.h): two interface     *)
(* clocks in the peripheral domain, whose MPU dependencies are dynamic, one *)
(* in the core domain, where they are fixed, and the two camera rows, which *)
(* share the interface clock entry _iclk_CAM.                               *)
(***************************************************************************)
EXTENDS PrcmDevice

CONSTANTS
    GPIO5, WDT3, MMC1, CAMERA, CSI2,
    fGPIO5, fWDT3, fMMC1, fCAM, fCSI2, iGPIO5, iWDT3, iMMC1, iCAM,
    t1, t2

mcDomain   == {"PER", "CORE", "CAM"}
mcSource   == {"PER_32K", "96M", "CORE_32K", "CAM_MCLK", "CSI2_96M"}
mcFclkOf   == [d \in Device |->
    CASE d = GPIO5 -> fGPIO5 [] d = WDT3 -> fWDT3 [] d = MMC1 -> fMMC1
      [] d = CAMERA -> fCAM [] d = CSI2 -> fCSI2]
mcIclkOf   == [d \in Device |->
    CASE d = GPIO5 -> iGPIO5 [] d = WDT3 -> iWDT3 [] d = MMC1 -> iMMC1
      [] d \in {CAMERA, CSI2} -> iCAM]
mcDomainOf == [d \in Device |->
    CASE d \in {GPIO5, WDT3} -> "PER" [] d = MMC1 -> "CORE" [] d \in {CAMERA, CSI2} -> "CAM"]
mcSourcesOf == [d \in Device |->
    CASE d \in {GPIO5, WDT3} -> {"PER_32K"} [] d = MMC1 -> {"96M", "CORE_32K"}
      [] d = CAMERA -> {"CAM_MCLK"} [] d = CSI2 -> {"CSI2_96M"}]
mcAutoidle     == Device \cap {GPIO5, WDT3, MMC1, CAMERA}
mcWakeCapable  == Device \cap {GPIO5, MMC1}
mcDynamic      == {"PER", "CAM"}
mcCoreDevice   == Device \cap {MMC1}
mcOtherDevice  == Device \cap {WDT3, CAMERA, CSI2}

\* One driver per device, or a second one for CAMERA.
OneDriver   == [d \in Device |-> IF d \in {GPIO5, MMC1, CAMERA} THEN {t1} ELSE {t2}]
TwoOnCamera == [d \in Device |-> IF d = CAMERA THEN Thread ELSE {t2}]

\* The disciplines that the theorems assume.
ASSUME CallsCareful == Careful /\ (Sloppy => Exclusive)
=============================================================================
