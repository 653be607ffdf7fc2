--------------------------- MODULE WakeupLatency ----------------------------
(***************************************************************************)
(* How deep the OMAP3530 sleeps (oem_latency.c, with OEMIdle of timer.c and *)
(* PrcmSuspend of prcm.c).                                                  *)
(*                                                                         *)
(* The module hears of the state asked for every power domain, of devices   *)
(* that are switched on and off and of operating points, and derives from   *)
(* them the deepest of six latency states that the chip may enter.  OEMIdle *)
(* takes the deepest one from there on whose wake-up latency fits; it runs   *)
(* with interrupts off and no thread ready, so the calls of the threads are *)
(* single steps here.  While the chip sleeps the power state registers of    *)
(* four domains are overwritten; waking up puts them back.                  *)
(***************************************************************************)
EXTENDS Integers, FiniteSets

CONSTANTS
    Domain,        \* power domains with a power state
    Ticks,         \* _rgLatencyTable: wake-up latency of a state at an operating mode
    MaxOpp,        \* _Max_Vdd1_OPP, MAX_VDD2_OPP
    BootOpp,       \* the operating points Opp_init takes for the current ones
    OppAsked,      \* operating points asked for
    SuspendAsked,  \* suspend states asked for
    Delays,        \* distances to the next timer interrupt
    Margin,        \* margin of the system timer
    Constraints,   \* interrupt latency constraints in ticks
    MaxInt,        \* no constraint
    MaxDevice,     \* bound on the devices in use, of either kind
    HighSecurity   \* TRUE on a high-security device

CHIP_OFF == 0
CHIP_OSWR == 1
CHIP_CSWR == 2
CORE_CSWR == 3
CORE_INACTIVE == 4
MPU_INACTIVE == 5
NoCpuIdle == -1

State  == CHIP_OFF..MPU_INACTIVE
Opp    == 0..8
Pushed == {"CORE", "MPU", "PER", "NEON"}
Kind   == {"core", "other"}
LogicState == {"LOGICOFF", "LOGICRET"}   \* of a domain in retention
PowerReg == [power : {"OFF", "RET", "ON"}, logic : LogicState]

ASSUME Latencies ==
    /\ Pushed \subseteq Domain
    /\ Ticks \in [0..6 -> [State -> Nat]] /\ Margin \in Nat
    /\ MaxOpp \in [{"mpu", "core"} -> Opp] /\ BootOpp \in [{"mpu", "core"} -> Opp]
    /\ OppAsked \subseteq Opp /\ Delays \subseteq Nat /\ SuspendAsked \subseteq State
    /\ Constraints \subseteq Nat /\ MaxInt \in Nat /\ MaxDevice \in Nat
    /\ HighSecurity \in BOOLEAN

\* Hypotheses of WakesInTime: no operating point beyond the last one is asked for, and with
\* both supplies at the lowest one the chip wakes up slowest.
OppsInRange == \A v \in {"mpu", "core"}, o \in OppAsked : o <= MaxOpp[v]
LowestIsSlowest == \A s \in State : Ticks[1][s] <= Ticks[0][s]

VARIABLES
    asked,        \* the last state asked for each domain
    reg,          \* PM_PWSTCTRL of each domain
    saved,        \* what PushState has saved of it
    view,         \* _domainMpu, _domainCore, _logicCore and the two domain masks
    device,       \* _coreDevice, _otherDevice
    opp,          \* _rgOppVdd: the operating points of the two supplies
    vdd,          \* _vddMpu, _vddCore: what the latency module takes them for
    constraint,   \* g_wakeupLatencyConstraintTickCount
    suspendState, \* _suspendState
    io,           \* I/O pad wake-up and its daisy chain
    sleep         \* awake, or how and in which state the chip sleeps

input == <<asked, view, device, opp, vdd, constraint, suspendState>>
vars  == <<asked, reg, saved, view, device, opp, vdd, constraint, suspendState, io, sleep>>

NothingSaved == [d \in Pushed |-> [power |-> "OFF", logic |-> "LOGICOFF"]]
Awake == [kind |-> "run", state |-> NoCpuIdle, delay |-> 0]

TypeOK ==
    /\ asked \in [Domain -> PowerReg] /\ reg \in [Domain -> PowerReg]
    /\ saved \in [Pushed -> PowerReg]
    /\ view \in [mpu : {"OFF", "RET", "INACTIVE"}, core : {"OFF", "RET", "INACTIVE"},
                 logic : LogicState, inactive : SUBSET Domain, retention : SUBSET Domain]
    /\ device \in [Kind -> 0..MaxDevice]
    /\ opp \in [{"mpu", "core"} -> Opp] /\ vdd \in [{"mpu", "core"} -> Opp]
    /\ constraint \in Constraints \cup {MaxInt} /\ suspendState \in State
    /\ io \in SUBSET {"pad", "chain"}
    /\ sleep = Awake
         \/ sleep \in [kind : {"idle"}, state : State, delay : Delays]
         \/ sleep \in [kind : {"suspend"}, state : State, delay : {0}]

\* After the PRCM initialisation has set the floor of every domain and OALPowerPostInit
\* has reported the operating point of the MPU supply.
Init ==
    /\ asked = [d \in Domain |-> [power |-> IF d \in Pushed \cup {"DSS"} THEN "RET" ELSE "OFF",
                                  logic |-> "LOGICRET"]]
    /\ reg = asked
    /\ saved = NothingSaved
    /\ view = [mpu |-> "RET", core |-> "RET", logic |-> "LOGICRET", inactive |-> {},
               retention |-> {"PER", "NEON", "DSS"} \cap Domain]
    /\ device = [k \in Kind |-> 0]
    /\ opp = BootOpp
    /\ vdd = [v \in {"mpu", "core"} |-> IF v = "mpu" THEN BootOpp[v] ELSE 0]
    /\ constraint = MaxInt
    /\ suspendState = CHIP_OFF
    /\ io = {}
    /\ sleep = Awake

-----------------------------------------------------------------------------
(* What the module is told                                                 *)

\* The states that the power domain constraints ask for.
Request(d) ==
    {[power |-> "ON", logic |-> "LOGICRET"], [power |-> "RET", logic |-> "LOGICRET"]} \cup
    (IF d \in {"MPU", "CORE"}
     THEN {[power |-> "RET", logic |-> "LOGICOFF"], [power |-> "OFF", logic |-> "LOGICOFF"]}
     ELSE {[power |-> "OFF", logic |-> "LOGICRET"]})

\* The register never holds OFF for the four domains: the off state is entered by
\* PushState only.
Programmed(d, q) ==
    IF q.power = "OFF" /\ d \in Pushed
    THEN [power |-> "RET", logic |-> IF d = "CORE" THEN "LOGICOFF" ELSE "LOGICRET"]
    ELSE q

\* Mutant: a domain that has to stay on is not noted.
Notify_NoInactive(v, d, p, l) ==
    CASE d = "MPU"  -> [v EXCEPT !.mpu = IF p = "RET" /\ l = "LOGICOFF" THEN "OFF"
                                         ELSE IF p = "ON" THEN "INACTIVE" ELSE p]
      [] d = "CORE" -> [v EXCEPT !.core = IF p = "ON" THEN "INACTIVE" ELSE p, !.logic = l]
      [] OTHER -> [v EXCEPT !.retention = IF p = "RET" THEN @ \cup {d} ELSE @ \ {d}]

\* Mutant: the state ON is kept as it is.
Notify_KeepOn(v, d, p, l) ==
    CASE d = "MPU"  -> [v EXCEPT !.mpu = IF p = "RET" /\ l = "LOGICOFF" THEN "OFF" ELSE p]
      [] d = "CORE" -> [v EXCEPT !.core = p, !.logic = l]
      [] OTHER -> [v EXCEPT !.inactive  = IF p = "ON" THEN @ \cup {d} ELSE @ \ {d},
                            !.retention = IF p = "RET" THEN @ \cup {d} ELSE @ \ {d}]

\* OALWakeupLatency_UpdateDomainState
Notify(v, d, p, l) ==
    CASE d = "MPU"  -> [v EXCEPT !.mpu = IF p = "RET" /\ l = "LOGICOFF" THEN "OFF"
                                         ELSE IF p = "ON" THEN "INACTIVE" ELSE p]
      [] d = "CORE" -> [v EXCEPT !.core = IF p = "ON" THEN "INACTIVE" ELSE p, !.logic = l]
      [] OTHER -> [v EXCEPT !.inactive  = IF p = "ON" THEN @ \cup {d} ELSE @ \ {d},
                            !.retention = IF p = "RET" THEN @ \cup {d} ELSE @ \ {d}]

\* OALIoCtlPrcmDomainSetPowerState: the register and the latency module are told
\* what is programmed, and for an off state the module is told a second time.
SetPowerState(d) ==
    \E q \in Request(d) :
        LET p == Programmed(d, q)
            v == Notify(view, d, p.power, p.logic)
        IN  /\ sleep = Awake
            /\ asked' = [asked EXCEPT ![d] = q]
            /\ reg' = [reg EXCEPT ![d] = p]
            /\ view' = IF p # q THEN Notify(v, d, "OFF", q.logic) ELSE v
            /\ UNCHANGED <<saved, device, opp, vdd, constraint, suspendState, io, sleep>>

\* OALWakeupLatency_DeviceEnabled; PRCM reports the switches of a functional clock.
DeviceEnabled(k) ==
    /\ sleep = Awake
    /\ \/ device[k] < MaxDevice /\ device' = [device EXCEPT ![k] = @ + 1]
       \/ device[k] > 0 /\ device' = [device EXCEPT ![k] = @ - 1]
    /\ UNCHANGED <<asked, reg, saved, view, opp, vdd, constraint, suspendState, io, sleep>>

\* SetOpp: an operating point beyond the last one is left out, and then reported to
\* OALWakeupLatency_UpdateOpp all the same.
SetOpp(v) ==
    /\ sleep = Awake
    /\ \E o \in OppAsked :
         /\ opp' = [opp EXCEPT ![v] = IF o > MaxOpp[v] THEN @ ELSE o]
         /\ vdd' = [vdd EXCEPT ![v] = o]
    /\ UNCHANGED <<asked, reg, saved, view, device, constraint, suspendState, io, sleep>>

\* OALIoCtlInterruptLatencyConstraint
SetConstraint ==
    /\ sleep = Awake
    /\ constraint' \in Constraints \cup {MaxInt}
    /\ UNCHANGED <<asked, reg, saved, view, device, opp, vdd, suspendState, io, sleep>>

\* OALWakeupLatency_SetSuspendState
SetSuspendState ==
    /\ sleep = Awake
    /\ suspendState' \in SuspendAsked
    /\ UNCHANGED <<asked, reg, saved, view, device, opp, vdd, constraint, io, sleep>>

-----------------------------------------------------------------------------
(* The choice of a state                                                   *)

\* _mapLatencyIndex
Row(v) == CASE v["mpu"] = 0 /\ v["core"] = 0 -> 0
            [] v["mpu"] = 0 /\ v["core"] # 0 -> 1
            [] v["mpu"] \in 1..5 -> v["mpu"] + 1
            [] v["mpu"] > 5 -> 6

Latency(s) == Ticks[Row(vdd)][s]

\* OALWakeupLatency_GetCurrentState: the deepest state that is permitted.
GetCurrentState(v) ==
    IF v.mpu = "INACTIVE" THEN MPU_INACTIVE
    ELSE IF v.core = "INACTIVE" \/ device["core"] # 0 THEN CORE_INACTIVE
    ELSE IF v.inactive # {} \/ device["other"] # 0 THEN CORE_CSWR
    ELSE IF "RET" \in {v.core, v.mpu} \/ v.retention # {} \/ vdd["mpu"] > 1
         THEN IF v.logic = "LOGICRET" THEN CHIP_CSWR ELSE CHIP_OSWR
    ELSE CHIP_OFF

\* OALWakeupLatency_FindStateByMaxDelayInTicks: the first state, from the permitted
\* one on, with a latency of at most m.
FindState(m) ==
    LET fits == {s \in GetCurrentState(view)..MPU_INACTIVE : Latency(s) <= m}
    IN  IF fits = {} THEN NoCpuIdle ELSE CHOOSE s \in fits : \A u \in fits : s <= u

\* Mutant: domains in retention are not looked at.
GetSuspendState_NoRetention(v) ==
    IF v.inactive \ {"NEON", "PER"} # {} \/ device["other"] # 0 \/ device["core"] # 0
    THEN IF suspendState > GetCurrentState(v) THEN suspendState ELSE GetCurrentState(v)
    ELSE suspendState

\* OALWakeupLatency_GetSuspendState
GetSuspendState(v) ==
    IF \/ (v.inactive \cup v.retention) \ {"NEON", "PER"} # {}
       \/ device["other"] # 0 \/ device["core"] # 0
    THEN IF suspendState > GetCurrentState(v) THEN suspendState ELSE GetCurrentState(v)
    ELSE suspendState

-----------------------------------------------------------------------------
(* Sleeping                                                                *)

\* The power state that PushState gives to a domain.
SleepPower(d, s) ==
    CASE s = CHIP_OFF -> "OFF"
      [] s \in {CHIP_OSWR, CHIP_CSWR} -> "RET"
      [] s = CORE_CSWR /\ d = "CORE" -> "RET"
      [] s \in {CORE_CSWR, CORE_INACTIVE} /\ d \in {"MPU", "NEON"} -> reg[d].power
      [] OTHER -> "ON"

\* The logic of the core domain is kept in a state with clocks stopped; open-switch
\* retention is refused on a high-security device, which goes on to the next case.
SleepLogic(d, s) ==
    CASE d = "CORE" /\ s = CHIP_OSWR /\ ~HighSecurity -> "LOGICOFF"
      [] d = "CORE" /\ (s \in {CHIP_CSWR, CORE_CSWR} \/ (s = CHIP_OSWR /\ HighSecurity)) -> "LOGICRET"
      [] OTHER -> reg[d].logic

\* OALWakeupLatency_PushState
PushState(s) ==
    /\ saved' = [d \in Pushed |-> reg[d]]
    /\ reg' = [d \in Domain |-> IF d \in Pushed
                                THEN [power |-> SleepPower(d, s), logic |-> SleepLogic(d, s)]
                                ELSE reg[d]]
    /\ io' = io \cup (IF s = CHIP_OFF THEN {"pad", "chain"}
                      ELSE IF s = CHIP_OSWR /\ ~HighSecurity THEN {"pad"} ELSE {})
    /\ UNCHANGED input

\* Mutant: the latency constraint is not looked at.
OEMIdle_NoConstraint ==
    /\ sleep = Awake
    /\ \E d \in Delays :
         LET s == IF d < Latency(GetCurrentState(view)) THEN FindState(d) ELSE GetCurrentState(view)
         IN  /\ d >= Margin /\ s # NoCpuIdle
             /\ PushState(s)
             /\ sleep' = [kind |-> "idle", state |-> s, delay |-> d]

\* OEMIdle, up to the idle instruction.  If the next timer interrupt is near or no
\* state is fast enough, it returns without sleeping.
OEMIdle ==
    /\ sleep = Awake
    /\ \E d \in Delays :
         LET maxDelay == IF d < constraint THEN d ELSE constraint
             s == IF maxDelay < Latency(GetCurrentState(view)) THEN FindState(maxDelay)
                  ELSE GetCurrentState(view)
         IN  /\ d >= Margin /\ s # NoCpuIdle
             /\ PushState(s)
             /\ sleep' = [kind |-> "idle", state |-> s, delay |-> d]

\* PrcmSuspend
Suspend ==
    /\ sleep = Awake
    /\ PushState(GetSuspendState(view))
    /\ sleep' = [kind |-> "suspend", state |-> GetSuspendState(view), delay |-> 0]

\* Mutant: the NEON register is not put back.
Wake_NoNeon ==
    /\ sleep # Awake
    /\ reg' = [d \in Domain |-> IF d \in Pushed \ {"NEON"} THEN saved[d] ELSE reg[d]]
    /\ io' = IF "pad" \in io THEN {} ELSE io
    /\ saved' = NothingSaved
    /\ sleep' = Awake
    /\ UNCHANGED input

\* An interrupt; OALWakeupLatency_PopState.  What was saved is not read again before the
\* next PushState, and the model forgets it.
Wake ==
    /\ sleep # Awake
    /\ reg' = [d \in Domain |-> IF d \in Pushed THEN saved[d] ELSE reg[d]]
    /\ io' = IF "pad" \in io THEN {} ELSE io
    /\ saved' = NothingSaved
    /\ sleep' = Awake
    /\ UNCHANGED input

Next == \/ \E d \in Domain : SetPowerState(d)
        \/ \E k \in Kind : DeviceEnabled(k)
        \/ \E v \in {"mpu", "core"} : SetOpp(v)
        \/ SetConstraint \/ SetSuspendState
        \/ OEMIdle \/ Suspend \/ Wake

Spec == Init /\ [][Next]_vars

-----------------------------------------------------------------------------
(* Safety                                                                  *)

\* The power that a register setting, or a request, stands for.
Level(q) == IF q.power = "ON" THEN 3 ELSE IF q.power = "OFF" THEN 0
            ELSE IF q.logic = "LOGICRET" THEN 2 ELSE 1

\* However the requests, the devices and the latencies combine, a domain keeps in an
\* idle period at least the power that was asked for it.  For the MPU open-switch
\* retention may become off (OALWakeupLatency_UpdateDomainState).
KeepsPower ==
    sleep.kind = "idle" =>
        \A d \in Domain : \/ Level(reg[d]) >= Level(asked[d])
                          \/ d = "MPU" /\ Level(asked[d]) = 1

\* A sleep of either kind leaves a device in use the domain it is in: devices of the
\* core domain keep it on; other devices keep the peripheral domain on and the core
\* domain in retention with its logic.
DevicesKeepDomains ==
    sleep # Awake =>
        /\ device["core"] > 0 => reg["CORE"].power = "ON"
        /\ device["other"] > 0 => reg["PER"].power = "ON" /\ Level(reg["CORE"]) >= 2

\* OEMIdle, which decides from counters and masks that other parts keep up to date, takes
\* power away from nobody: not from a domain that was asked for, not from a device in use.
NobodyLosesPower == KeepsPower /\ DevicesKeepDomains

\* The chip is not switched off, not even in suspend, below a domain that is to stay
\* in retention or on; suspend disregards NEON, PER and the two domains it switches.
ChipStaysUp ==
    sleep # Awake /\ (\E d \in Domain \ Pushed : asked[d].power # "OFF") =>
        reg["CORE"].power # "OFF"

\* After a sleep every register holds again what the last request programmed, and pad
\* wake-up is off.
Restored ==
    sleep = Awake => io = {} /\ \A d \in Domain : reg[d] = Programmed(d, asked[d])

\* The chip wakes up before the next timer interrupt is due and within the latency
\* constraint, by the latency of the operating points it really runs at.
WakesInTime ==
    sleep.kind = "idle" =>
        LET t == Ticks[Row(opp)][sleep.state] IN t <= sleep.delay /\ t <= constraint
=============================================================================
