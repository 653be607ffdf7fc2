-------------------------- MODULE MCDvfsConstraint --------------------------
(* Small instances of DvfsConstraint: two clients, the three lowest modes of the
   registry (omap_pm.reg:22-33: going from 0 to 1 changes CORE only, from 1 to 2 the MPU
   only), one SPI controller and one listener without an event. *)
EXTENDS DvfsConstraint

McMap == [s \in Supply |-> IF s = "mpu" THEN [o \in 0..2 |-> IF o = 2 THEN 1 ELSE 0]
                                        ELSE [o \in 0..2 |-> IF o = 0 THEN 0 ELSE 1]]
McOrder == <<"SPI1", "HCD">>
McNotified == [l \in {"SPI1", "HCD"} |-> IF l = "HCD" THEN Supply ELSE {"core"}]
=============================================================================
