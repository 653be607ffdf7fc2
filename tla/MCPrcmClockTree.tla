-------------------------- MODULE MCPrcmClockTree ---------------------------
(***************************************************************************)
(* Rows of s_SrcClockTable, s_DpllClkOutTable, s_DpllTable and s_VddTable    *)
(* for TLC (prcm_clock.c).                                                  *)
(***************************************************************************)
EXTENDS PrcmClockTree, FiniteSetsExt, TLC

\* The 96 MHz and 48 MHz clocks and a serial port: three multiplexers, one of them
\* below another; a timer that no device uses, and a camera clock that the switch of
\* PrcmClockSetParent does not list.
mcTable ==
    "MCBSP1" :> "CORE_96M" @@ "CORE_96M" :> "96M" @@ "96M" :> "CM_96M" @@
    "CORE_48M" :> "48M" @@ "48M" :> "CM_96M" @@ "CM_96M" :> "PRM_96M_192M" @@
    "CM_SYS" :> "SYS" @@ "PRM_96M_192M" :> "DPLL4_CLKOUT_M2X2" @@
    "SYS" :> "EXT_SYS_CLK" @@ "SYS_ALT" :> "EXT_ALT" @@ "MCBSP_CLKS" :> "EXT_MISC" @@
    "DPLL4_CLKOUT_M2X2" :> "DPLL4" @@ "EXT_SYS_CLK" :> "DPLL_EXT" @@
    "EXT_ALT" :> "DPLL_EXT" @@ "EXT_MISC" :> "DPLL_EXT" @@
    "GPT10" :> "CM_SYS" @@ "CM_32K" :> "32K" @@ "32K" :> "EXT_32KHZ" @@
    "EXT_32KHZ" :> "DPLL_EXT" @@ "CSI2_96M" :> "96M" @@
    "DPLL4" :> "VDD4" @@ "DPLL_EXT" :> "VDD_EXT"
mcClock == {"MCBSP1", "CORE_96M", "96M", "CORE_48M", "48M", "CM_96M", "CM_SYS",
            "PRM_96M_192M", "SYS", "SYS_ALT", "MCBSP_CLKS", "CSI2_96M",
            "GPT10", "CM_32K", "32K"}
mcFixed == {"DPLL4_CLKOUT_M2X2", "EXT_SYS_CLK", "EXT_ALT", "EXT_MISC", "EXT_32KHZ", "DPLL4",
            "DPLL_EXT", "VDD4", "VDD_EXT"}
mcParents == "MCBSP1" :> {"CORE_96M", "MCBSP_CLKS"} @@ "96M" :> {"CM_96M", "CM_SYS"} @@
             "48M" :> {"CM_96M", "SYS_ALT"} @@ "GPT10" :> {"CM_SYS", "CM_32K"}

\* Device calls move the clocks that devices use, the IOCTL moves the other two.
mcMoved == [source |-> DOMAIN mcParents \ {"GPT10"}, ioctl |-> {"GPT10", "CSI2_96M"}]
mcAsked == [source |-> {"CM_96M", "CM_SYS", "SYS_ALT", "CORE_96M", "MCBSP_CLKS"},
            ioctl |-> {"CM_32K"}]

\* The edges of the longest way up.
mcLevel ==
    LET level[n \in mcClock \cup mcFixed] ==
          IF n \in DOMAIN mcTable THEN 1 + Max({level[p] : p \in ParentsOf(n)}) ELSE 0
    IN  level

\* What keeps the IOCTL out of the device calls' way.
ASSUME CallsApart == Moved["ioctl"] \subseteq Own
=============================================================================
