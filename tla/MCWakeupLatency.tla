---------------------------- MODULE MCWakeupLatency --------------------------
(* Instances of WakeupLatency: the OMAP3530 as Z2170P configures it.         *)
EXTENDS WakeupLatency

\* The domains that PushState overwrites, and one of the others.
MCDomain == {"MPU", "CORE", "PER", "NEON", "DSS"}

\* The table OALWakeupLatency_Initialize computes for a system clock of 26 MHz.
MCTicks ==
    [m \in 0..6 |->
        [s \in State |->
            CASE s = CHIP_OFF  -> (CASE m = 0 -> 333 [] m = 1 -> 324 [] m > 1 -> 262)
              [] s = CHIP_OSWR -> (CASE m = 0 -> 26 [] m = 1 -> 24 [] m = 2 -> 23 [] m > 2 -> 22)
              [] s = CHIP_CSWR -> 20
              [] OTHER         -> 12]]

\* kOpp6 and kOpp2 are the last operating points; kOpp5 and kOpp2 those of Opp_init.
MCMaxOpp  == [v \in {"mpu", "core"} |-> IF v = "mpu" THEN 5 ELSE 1]
MCBootOpp == [v \in {"mpu", "core"} |-> IF v = "mpu" THEN 4 ELSE 1]

ASSUME TableAndRange == OppsInRange /\ LowestIsSlowest

\* Too near for the margin; between the latencies of the retention states; past them
\* all, which the timer's own period does not reach but the choice does not rely on.
MCDelays == {15, 21, 25, 400}

\* Too short for the retention states, and for one of them.
MCConstraints == {13, 21}
==============================================================================
