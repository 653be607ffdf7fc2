------------------------- MODULE WakeupLatency_proofs -----------------------
(***************************************************************************)
(* Theorems of WakeupLatency, for any set of domains, table of latencies,   *)
(* operating points, timer distances and constraints.                       *)
(*                                                                         *)
(* The latency module never looks at what was asked for a domain, only at   *)
(* its own view of it, so the properties of a sleep rest on an invariant    *)
(* that ties the two together: Faithful.  The register contents tie the     *)
(* wake-up to the requests: Programs.                                       *)
(***************************************************************************)
EXTENDS WakeupLatency, TLAPS

\* The latency module's view of the requests is exact.
Faithful ==
    /\ \A d \in Domain : asked[d] \in Request(d)
    /\ view.mpu = IF asked["MPU"].power = "ON" THEN "INACTIVE"
                  ELSE IF asked["MPU"].power = "RET" /\ asked["MPU"].logic = "LOGICRET"
                  THEN "RET" ELSE "OFF"
    /\ view.core = IF asked["CORE"].power = "ON" THEN "INACTIVE" ELSE asked["CORE"].power
    /\ view.logic = asked["CORE"].logic
    /\ \A d \in Domain \ {"MPU", "CORE"} :
         /\ d \in view.inactive <=> asked[d].power = "ON"
         /\ d \in view.retention <=> asked[d].power = "RET"

\* The registers, or while the chip sleeps the copies of them, hold the requests.
Programs ==
    /\ \A d \in Domain : sleep = Awake \/ d \notin Pushed => reg[d] = Programmed(d, asked[d])
    /\ sleep # Awake => \A d \in Pushed : saved[d] = Programmed(d, asked[d])
    /\ sleep = Awake => io = {}
    /\ sleep # Awake /\ io # {} => "pad" \in io

\* A sleep keeps what the three properties of it say.
Safe == KeepsPower /\ DevicesKeepDomains /\ ChipStaysUp

IInv == TypeOK /\ Faithful /\ Programs /\ Safe

-----------------------------------------------------------------------------
(* The choice of a state                                                   *)

\* What each part of the view, and each device, forbids.
LEMMA Permitted ==
    ASSUME TypeOK
    PROVE  /\ GetCurrentState(view) \in State
           /\ view.mpu = "INACTIVE" => GetCurrentState(view) = 5
           /\ view.core = "INACTIVE" \/ device["core"] > 0 => GetCurrentState(view) >= 4
           /\ view.inactive # {} \/ device["other"] > 0 => GetCurrentState(view) >= 3
           /\ view.core = "RET" \/ view.mpu = "RET" \/ view.retention # {}
                => GetCurrentState(view) >= 1
           /\ view.core = "RET" /\ view.logic = "LOGICRET" => GetCurrentState(view) >= 2
  BY DEF TypeOK, GetCurrentState, State, LogicState, Kind, CHIP_OFF, CHIP_OSWR, CHIP_CSWR,
         CORE_CSWR, CORE_INACTIVE, MPU_INACTIVE

\* A set of latency states has a least member.
LEMMA Least ==
    ASSUME NEW F \in SUBSET State, F # {}
    PROVE  \E s \in F : \A u \in F : s <= u
  <1>1. F \subseteq 0..5
    BY DEF State, CHIP_OFF, MPU_INACTIVE
  <1>2. CASE 0 \in F  BY <1>1, <1>2
  <1>3. CASE 0 \notin F /\ 1 \in F  BY <1>1, <1>3
  <1>4. CASE 0 \notin F /\ 1 \notin F /\ 2 \in F  BY <1>1, <1>4
  <1>5. CASE 0 \notin F /\ 1 \notin F /\ 2 \notin F /\ 3 \in F  BY <1>1, <1>5
  <1>6. CASE 0 \notin F /\ 1 \notin F /\ 2 \notin F /\ 3 \notin F /\ 4 \in F  BY <1>1, <1>6
  <1>7. CASE 0 \notin F /\ 1 \notin F /\ 2 \notin F /\ 3 \notin F /\ 4 \notin F
    <2>1. \A u \in F : u = 5
      BY <1>1, <1>7
    <2> QED BY <2>1
  <1> QED BY <1>2, <1>3, <1>4, <1>5, <1>6, <1>7

\* A search goes to a shallower state than the permitted one, never to a deeper one.
LEMMA Found ==
    ASSUME TypeOK, NEW m, FindState(m) # NoCpuIdle
    PROVE  /\ FindState(m) \in State /\ FindState(m) >= GetCurrentState(view)
           /\ Latency(FindState(m)) <= m
  <1> DEFINE F == {s \in GetCurrentState(view)..MPU_INACTIVE : Latency(s) <= m}
  <1>1. GetCurrentState(view) \in State
    BY Permitted
  <1>2. F # {} /\ FindState(m) = CHOOSE s \in F : \A u \in F : s <= u
    BY DEF FindState
  <1>3. F \in SUBSET State
    BY <1>1 DEF State, CHIP_OFF, MPU_INACTIVE
  <1>4. \E s \in F : \A u \in F : s <= u
    <2> HIDE DEF F
    <2> QED BY <1>2, <1>3, Least
  <1>5. FindState(m) \in F
    <2> HIDE DEF F
    <2> QED BY <1>2, <1>4
  <1> QED BY <1>5, <1>1 DEF State, CHIP_OFF, MPU_INACTIVE

-----------------------------------------------------------------------------
(* Going to sleep                                                          *)

\* What a push writes, register by register.
LEMMA PushWrites ==
    ASSUME TypeOK, NEW s \in State, PushState(s)
    PROVE  /\ reg' \in [Domain -> PowerReg] /\ saved' \in [Pushed -> PowerReg]
           /\ \A d \in Pushed : /\ saved'[d] = reg[d]
                                /\ reg'[d].power = SleepPower(d, s)
                                /\ reg'[d].logic = SleepLogic(d, s)
           /\ \A d \in Domain \ Pushed : reg'[d] = reg[d]
  <1>1. Pushed \subseteq Domain
    BY Latencies
  <1>2. \A d \in Domain : reg[d] \in PowerReg /\ reg[d].power \in {"OFF", "RET", "ON"}
                                              /\ reg[d].logic \in LogicState
    BY DEF TypeOK, PowerReg
  <1>3. \A d \in Pushed : SleepPower(d, s) \in {"OFF", "RET", "ON"}
    BY <1>1, <1>2 DEF SleepPower
  <1>4. \A d \in Pushed : SleepLogic(d, s) \in LogicState
    BY <1>1, <1>2 DEF SleepLogic, LogicState
  <1>5. \A d \in Pushed : [power |-> SleepPower(d, s), logic |-> SleepLogic(d, s)] \in PowerReg
    BY <1>3, <1>4 DEF PowerReg
  <1>6. saved' = [d \in Pushed |-> reg[d]]
    BY DEF PushState
  <1>7. reg' = [d \in Domain |-> IF d \in Pushed
                                THEN [power |-> SleepPower(d, s), logic |-> SleepLogic(d, s)]
                                ELSE reg[d]]
    BY DEF PushState
  <1> HIDE DEF SleepPower, SleepLogic, Pushed, PowerReg
  <1> QED BY <1>1, <1>2, <1>5, <1>6, <1>7

\* What is programmed is at least what was asked for.
LEMMA ProgramsLevel ==
    ASSUME NEW d \in Domain, NEW q \in Request(d)
    PROVE  Level(Programmed(d, q)) >= Level(q)
  BY DEF Level, Programmed, Request

\* In a state that is not deeper than the permitted one every domain keeps its power.
LEMMA Kept ==
    ASSUME TypeOK, Faithful, Programs, sleep = Awake,
           NEW s \in State, s >= GetCurrentState(view), PushState(s)
    PROVE  /\ \A d \in Domain : \/ Level(reg'[d]) >= Level(asked[d])
                                \/ d = "MPU" /\ Level(asked[d]) = 1
           /\ device["core"] > 0 => reg'["CORE"].power = "ON"
           /\ device["other"] > 0 => reg'["PER"].power = "ON" /\ Level(reg'["CORE"]) >= 2
           /\ (\E d \in Domain \ Pushed : asked[d].power # "OFF") => reg'["CORE"].power # "OFF"
  <1> DEFINE g == GetCurrentState(view)
  <1>1. g \in 0..5 /\ s \in 0..5 /\ s >= g
    BY Permitted DEF State, CHIP_OFF, MPU_INACTIVE
  <1>2. Pushed \subseteq Domain /\ {"MPU", "CORE", "PER", "NEON"} \subseteq Domain
    BY Latencies DEF Pushed
  <1>3. \A d \in Pushed : /\ reg'[d].power = SleepPower(d, s)
                          /\ reg'[d].logic = SleepLogic(d, s)
    BY PushWrites
  <1>4. \A d \in Domain \ Pushed : reg'[d] = reg[d]
    BY PushWrites
  <1>5. \A d \in Domain : /\ asked[d] \in Request(d) /\ reg[d] = Programmed(d, asked[d])
                          /\ asked[d].power \in {"OFF", "RET", "ON"}
                          /\ asked[d].logic \in {"LOGICOFF", "LOGICRET"}
    BY DEF Faithful, Programs, TypeOK, PowerReg, LogicState
  <1>6. /\ view.mpu = "INACTIVE" => s >= 5
        /\ view.core = "INACTIVE" \/ device["core"] > 0 => s >= 4
        /\ view.inactive # {} \/ device["other"] > 0 => s >= 3
        /\ view.core = "RET" \/ view.mpu = "RET" \/ view.retention # {} => s >= 1
        /\ view.core = "RET" /\ view.logic = "LOGICRET" => s >= 2
    BY <1>1, Permitted
  <1> HIDE DEF g
  <1>7. Level(reg'["CORE"]) >= Level(asked["CORE"])
    <2>1. CASE asked["CORE"].power = "ON"
      <3>1. s >= 4
        BY <2>1, <1>6 DEF Faithful
      <3>2. reg'["CORE"].power = "ON"
        BY <3>1, <1>1, <1>3 DEF SleepPower, Pushed, CHIP_OFF, CHIP_OSWR, CHIP_CSWR, CORE_CSWR,
           CORE_INACTIVE
      <3> QED BY <3>2 DEF Level
    <2>2. CASE asked["CORE"].power = "RET" /\ asked["CORE"].logic = "LOGICRET"
      <3>1. s >= 2
        BY <2>2, <1>6 DEF Faithful
      <3>2. \/ reg'["CORE"].power = "ON"
            \/ reg'["CORE"].power = "RET" /\ reg'["CORE"].logic = "LOGICRET"
        BY <3>1, <1>1, <1>3 DEF SleepPower, SleepLogic, Pushed, CHIP_OFF, CHIP_OSWR, CHIP_CSWR,
           CORE_CSWR, CORE_INACTIVE
      <3> QED BY <3>2, <2>2 DEF Level
    <2>3. CASE asked["CORE"].power = "RET" /\ asked["CORE"].logic = "LOGICOFF"
      <3>1. s >= 1
        BY <2>3, <1>6 DEF Faithful
      <3>2. reg'["CORE"].power \in {"RET", "ON"}
        BY <3>1, <1>1, <1>3 DEF SleepPower, Pushed, CHIP_OFF, CHIP_OSWR, CHIP_CSWR, CORE_CSWR,
           CORE_INACTIVE
      <3> QED BY <3>2, <2>3 DEF Level
    <2>4. CASE asked["CORE"].power = "OFF"
      BY <2>4 DEF Level
    <2> QED BY <2>1, <2>2, <2>3, <2>4, <1>2, <1>5
  <1>8. Level(reg'["MPU"]) >= Level(asked["MPU"]) \/ Level(asked["MPU"]) = 1
    <2>1. CASE asked["MPU"].power = "ON"
      <3>1. s = 5
        BY <2>1, <1>1, <1>6 DEF Faithful
      <3>2. reg'["MPU"].power = "ON"
        BY <3>1, <1>3 DEF SleepPower, Pushed, CHIP_OFF, CHIP_OSWR, CHIP_CSWR, CORE_CSWR,
           CORE_INACTIVE
      <3> QED BY <3>2 DEF Level
    <2>2. CASE asked["MPU"].power = "RET" /\ asked["MPU"].logic = "LOGICRET"
      <3>1. s >= 1
        BY <2>2, <1>6 DEF Faithful
      <3>2. reg["MPU"].power = "RET" /\ reg["MPU"].logic = "LOGICRET"
        BY <2>2, <1>2, <1>5 DEF Programmed
      <3>3. \/ reg'["MPU"].power = "ON"
            \/ reg'["MPU"].power = "RET" /\ reg'["MPU"].logic = "LOGICRET"
        BY <3>1, <3>2, <1>1, <1>3 DEF SleepPower, SleepLogic, Pushed, CHIP_OFF, CHIP_OSWR,
           CHIP_CSWR, CORE_CSWR, CORE_INACTIVE
      <3> QED BY <3>3, <2>2 DEF Level
    <2>3. CASE asked["MPU"].power = "RET" /\ asked["MPU"].logic = "LOGICOFF"
      BY <2>3 DEF Level
    <2>4. CASE asked["MPU"].power = "OFF"
      BY <2>4 DEF Level
    <2> QED BY <2>1, <2>2, <2>3, <2>4, <1>2, <1>5
  <1>9. ASSUME NEW d \in {"PER", "NEON"}
        PROVE  Level(reg'[d]) >= Level(asked[d])
    <2>0. d \in Pushed /\ d \in Domain /\ d \notin {"MPU", "CORE"}
      BY <1>2 DEF Pushed
    <2>1. CASE asked[d].power = "ON"
      <3>1. s >= 3
        <4>1. d \in view.inactive
          BY <2>0, <2>1 DEF Faithful
        <4> QED BY <4>1, <1>6
      <3>2. reg[d].power = "ON"
        BY <2>0, <2>1, <1>5 DEF Programmed
      <3>3. reg'[d].power = "ON"
        BY <2>0, <3>1, <3>2, <1>1, <1>3 DEF SleepPower, CHIP_OFF, CHIP_OSWR, CHIP_CSWR,
           CORE_CSWR, CORE_INACTIVE
      <3> QED BY <3>3 DEF Level
    <2>2. CASE asked[d].power = "RET"
      <3>1. s >= 1
        <4>1. d \in view.retention
          BY <2>0, <2>2 DEF Faithful
        <4> QED BY <4>1, <1>6
      <3>2. reg[d].power = "RET" /\ reg[d].logic = "LOGICRET"
        <4>1. asked[d] \in Request(d)
          BY <2>0, <1>5
        <4>2. asked[d] = [power |-> "RET", logic |-> "LOGICRET"]
          BY <4>1, <2>0, <2>2 DEF Request
        <4> QED BY <4>2, <2>0, <1>5 DEF Programmed
      <3>3. \/ reg'[d].power = "ON"
            \/ reg'[d].power = "RET" /\ reg'[d].logic = "LOGICRET"
        BY <2>0, <3>1, <3>2, <1>1, <1>3 DEF SleepPower, SleepLogic, CHIP_OFF, CHIP_OSWR,
           CHIP_CSWR, CORE_CSWR, CORE_INACTIVE
      <3> QED BY <3>3, <2>2 DEF Level
    <2>3. CASE asked[d].power = "OFF"
      BY <2>3 DEF Level
    <2>4. asked[d].power \in {"OFF", "RET", "ON"}
      BY <2>0, <1>5
    <2> QED BY <2>1, <2>2, <2>3, <2>4
  <1>10. ASSUME NEW d \in Domain \ Pushed
         PROVE  Level(reg'[d]) >= Level(asked[d])
    BY <1>4, <1>5, ProgramsLevel
  <1>11. device["core"] > 0 => reg'["CORE"].power = "ON"
    BY <1>1, <1>3, <1>6 DEF SleepPower, Pushed, CHIP_OFF, CHIP_OSWR, CHIP_CSWR, CORE_CSWR,
       CORE_INACTIVE
  <1>12. device["other"] > 0 => reg'["PER"].power = "ON"
    BY <1>1, <1>3, <1>6 DEF SleepPower, Pushed, CHIP_OFF, CHIP_OSWR, CHIP_CSWR, CORE_CSWR,
       CORE_INACTIVE
  <1>13. device["other"] > 0 => Level(reg'["CORE"]) >= 2
    <2>1. device["other"] > 0 => \/ reg'["CORE"].power = "ON"
                                 \/ reg'["CORE"].power = "RET" /\ reg'["CORE"].logic = "LOGICRET"
      BY <1>1, <1>3, <1>6 DEF SleepPower, SleepLogic, Pushed, CHIP_OFF, CHIP_OSWR, CHIP_CSWR,
         CORE_CSWR, CORE_INACTIVE
    <2> QED BY <2>1 DEF Level
  <1>14. ASSUME NEW d \in Domain \ Pushed, asked[d].power # "OFF"
         PROVE  reg'["CORE"].power # "OFF"
    <2>1. d \in view.inactive \/ d \in view.retention
      BY <1>14, <1>5 DEF Faithful, Pushed
    <2>2. s >= 1
      BY <2>1, <1>1, <1>6
    <2> QED BY <2>2, <1>1, <1>3 DEF SleepPower, Pushed, CHIP_OFF, CHIP_OSWR, CHIP_CSWR,
         CORE_CSWR, CORE_INACTIVE
  <1>15. ASSUME NEW d \in Domain
         PROVE  \/ Level(reg'[d]) >= Level(asked[d])
                \/ d = "MPU" /\ Level(asked[d]) = 1
    <2>1. d \in {"CORE", "MPU"} \/ d \in {"PER", "NEON"} \/ d \in Domain \ Pushed
      BY DEF Pushed
    <2> QED BY <2>1, <1>7, <1>8, <1>9, <1>10
  <1>16. (\E d \in Domain \ Pushed : asked[d].power # "OFF") => reg'["CORE"].power # "OFF"
    BY <1>14
  <1>17. device["other"] > 0 => reg'["PER"].power = "ON" /\ Level(reg'["CORE"]) >= 2
    BY <1>12, <1>13
  <1>18. \A d \in Domain : \/ Level(reg'[d]) >= Level(asked[d])
                           \/ d = "MPU" /\ Level(asked[d]) = 1
    BY <1>15
  <1> QED BY <1>11, <1>16, <1>17, <1>18

-----------------------------------------------------------------------------
(* The invariant                                                           *)

LEMMA InitInv == Init => IInv
  <1> SUFFICES ASSUME Init PROVE IInv
    OBVIOUS
  <1>1. Pushed \subseteq Domain /\ {"MPU", "CORE", "PER", "NEON"} \subseteq Domain
    BY Latencies DEF Pushed
  <1>2. \A d \in Domain : asked[d] = [power |-> IF d \in Pushed \cup {"DSS"} THEN "RET" ELSE "OFF",
                                     logic |-> "LOGICRET"]
    BY DEF Init
  <1>3. asked \in [Domain -> PowerReg] /\ reg \in [Domain -> PowerReg]
    BY DEF Init, PowerReg, LogicState
  <1>4. sleep = Awake /\ sleep.kind = "run"
    BY DEF Init, Awake
  <1>5. TypeOK
    <2>1. saved \in [Pushed -> PowerReg]
      BY DEF Init, NothingSaved, PowerReg, LogicState
    <2>2. view \in [mpu : {"OFF", "RET", "INACTIVE"}, core : {"OFF", "RET", "INACTIVE"},
                    logic : LogicState, inactive : SUBSET Domain, retention : SUBSET Domain]
      BY DEF Init, LogicState
    <2>3. device \in [Kind -> 0..MaxDevice]
      BY Latencies DEF Init
    <2>4. opp \in [{"mpu", "core"} -> Opp] /\ vdd \in [{"mpu", "core"} -> Opp]
      BY Latencies DEF Init, Opp
    <2>5. /\ constraint \in Constraints \cup {MaxInt} /\ suspendState \in State
          /\ io \in SUBSET {"pad", "chain"}
      BY DEF Init, State, CHIP_OFF, MPU_INACTIVE
    <2> QED BY <1>3, <1>4, <2>1, <2>2, <2>3, <2>4, <2>5 DEF TypeOK
  <1>6. Faithful
    <2>1. \A d \in Domain : asked[d] \in Request(d)
      BY <1>2 DEF Request, Pushed
    <2>2. \A d \in Domain \ {"MPU", "CORE"} :
            /\ d \in view.inactive <=> asked[d].power = "ON"
            /\ d \in view.retention <=> asked[d].power = "RET"
      BY <1>2 DEF Init, Pushed
    <2>3. asked["MPU"] = [power |-> "RET", logic |-> "LOGICRET"]
          /\ asked["CORE"] = [power |-> "RET", logic |-> "LOGICRET"]
      BY <1>1, <1>2 DEF Pushed
    <2>4. view.mpu = "RET" /\ view.core = "RET" /\ view.logic = "LOGICRET"
      BY DEF Init
    <2> QED BY <2>1, <2>2, <2>3, <2>4 DEF Faithful
  <1>7. Programs
    <2>1. \A d \in Domain : reg[d] = Programmed(d, asked[d])
      BY <1>2 DEF Init, Programmed
    <2> QED BY <1>4, <2>1 DEF Programs, Init
  <1>8. Safe
    BY <1>4 DEF Safe, KeepsPower, DevicesKeepDomains, ChipStaysUp
  <1> QED BY <1>5, <1>6, <1>7, <1>8 DEF IInv

\* Setting a domain's power state keeps the latency module's view exact.
LEMMA SetPowerStateInv ==
    ASSUME IInv, NEW d \in Domain, SetPowerState(d)
    PROVE  TypeOK' /\ Faithful' /\ Programs'
  <1>1. TypeOK /\ Faithful /\ Programs /\ sleep = Awake
    BY DEF IInv, SetPowerState
  <1>2. PICK q \in Request(d) :
          /\ asked' = [asked EXCEPT ![d] = q]
          /\ reg' = [reg EXCEPT ![d] = Programmed(d, q)]
          /\ view' = IF Programmed(d, q) # q
                     THEN Notify(Notify(view, d, Programmed(d, q).power, Programmed(d, q).logic),
                                 d, "OFF", q.logic)
                     ELSE Notify(view, d, Programmed(d, q).power, Programmed(d, q).logic)
          /\ UNCHANGED <<saved, device, opp, vdd, constraint, suspendState, io, sleep>>
    BY DEF SetPowerState
  <1>3. q \in PowerReg /\ q.power \in {"OFF", "RET", "ON"} /\ q.logic \in {"LOGICOFF", "LOGICRET"}
    BY DEF Request, PowerReg, LogicState
  <1>4. Programmed(d, q) \in PowerReg
    BY <1>3 DEF Programmed, PowerReg, LogicState
  <1>5. asked' \in [Domain -> PowerReg] /\ reg' \in [Domain -> PowerReg]
    BY <1>1, <1>2, <1>3, <1>4 DEF TypeOK
  <1>6. asked'[d] = q /\ reg'[d] = Programmed(d, q)
        /\ \A e \in Domain \ {d} : asked'[e] = asked[e] /\ reg'[e] = reg[e]
    BY <1>1, <1>2 DEF TypeOK
  <1>7. Pushed \subseteq Domain /\ {"MPU", "CORE", "PER", "NEON"} \subseteq Domain
    BY Latencies DEF Pushed
  <1>8. view \in [mpu : {"OFF", "RET", "INACTIVE"}, core : {"OFF", "RET", "INACTIVE"},
                  logic : LogicState, inactive : SUBSET Domain, retention : SUBSET Domain]
    BY <1>1 DEF TypeOK
  <1>9. CASE d = "MPU"
    <2>1. view' = [view EXCEPT !.mpu = IF q.power = "ON" THEN "INACTIVE"
                                       ELSE IF q.power = "RET" /\ q.logic = "LOGICRET"
                                       THEN "RET" ELSE "OFF"]
      <3>1. CASE q = [power |-> "ON", logic |-> "LOGICRET"]
        BY <1>2, <1>8, <1>9, <3>1 DEF Programmed, Notify
      <3>2. CASE q = [power |-> "RET", logic |-> "LOGICRET"]
        BY <1>2, <1>8, <1>9, <3>2 DEF Programmed, Notify
      <3>3. CASE q = [power |-> "RET", logic |-> "LOGICOFF"]
        BY <1>2, <1>8, <1>9, <3>3 DEF Programmed, Notify
      <3>4. CASE q = [power |-> "OFF", logic |-> "LOGICOFF"]
        BY <1>2, <1>8, <1>9, <3>4 DEF Programmed, Notify, Pushed
      <3> QED BY <1>9, <3>1, <3>2, <3>3, <3>4 DEF Request
    <2>2. /\ view' \in [mpu : {"OFF", "RET", "INACTIVE"}, core : {"OFF", "RET", "INACTIVE"},
                       logic : LogicState, inactive : SUBSET Domain, retention : SUBSET Domain]
          /\ view'.core = view.core /\ view'.logic = view.logic
          /\ view'.inactive = view.inactive /\ view'.retention = view.retention
          /\ view'.mpu = IF q.power = "ON" THEN "INACTIVE"
                         ELSE IF q.power = "RET" /\ q.logic = "LOGICRET" THEN "RET" ELSE "OFF"
      BY <2>1, <1>8
    <2>3. Faithful'
      <3>1. \A e \in Domain : asked'[e] \in Request(e)
        BY <1>1, <1>6 DEF Faithful
      <3>2. asked'["MPU"] = q /\ asked'["CORE"] = asked["CORE"]
        BY <1>6, <1>7, <1>9
      <3>3. view'.mpu = IF asked'["MPU"].power = "ON" THEN "INACTIVE"
                        ELSE IF asked'["MPU"].power = "RET" /\ asked'["MPU"].logic = "LOGICRET"
                        THEN "RET" ELSE "OFF"
        BY <2>2, <3>2
      <3>4. /\ view'.core = IF asked'["CORE"].power = "ON" THEN "INACTIVE"
                            ELSE asked'["CORE"].power
            /\ view'.logic = asked'["CORE"].logic
        BY <1>1, <2>2, <3>2 DEF Faithful
      <3>5. ASSUME NEW e \in Domain \ {"MPU", "CORE"}
            PROVE  /\ e \in view'.inactive <=> asked'[e].power = "ON"
                   /\ e \in view'.retention <=> asked'[e].power = "RET"
        <4>1. asked'[e] = asked[e]
          BY <1>6, <1>9
        <4> QED
          BY <1>1, <2>2, <4>1 DEF Faithful
      <3>6. \A e \in Domain : Request(e)' = Request(e)
        BY DEF Request
      <3> QED BY <3>1, <3>3, <3>4, <3>5, <3>6 DEF Faithful
    <2>4. TypeOK'
      BY <1>1, <1>2, <1>5, <2>2 DEF TypeOK
    <2>5. Programs'
      BY <1>1, <1>2, <1>6 DEF Programs
    <2> QED BY <2>3, <2>4, <2>5
  <1>10. CASE d = "CORE"
    <2>1. view' = [view EXCEPT !.core = IF q.power = "ON" THEN "INACTIVE" ELSE q.power,
                               !.logic = q.logic]
      <3>1. CASE q = [power |-> "ON", logic |-> "LOGICRET"]
        BY <1>2, <1>8, <1>10, <3>1 DEF Programmed, Notify
      <3>2. CASE q = [power |-> "RET", logic |-> "LOGICRET"]
        BY <1>2, <1>8, <1>10, <3>2 DEF Programmed, Notify
      <3>3. CASE q = [power |-> "RET", logic |-> "LOGICOFF"]
        BY <1>2, <1>8, <1>10, <3>3 DEF Programmed, Notify
      <3>4. CASE q = [power |-> "OFF", logic |-> "LOGICOFF"]
        BY <1>2, <1>8, <1>10, <3>4 DEF Programmed, Notify, Pushed
      <3> QED BY <1>10, <3>1, <3>2, <3>3, <3>4 DEF Request
    <2>2. /\ view' \in [mpu : {"OFF", "RET", "INACTIVE"}, core : {"OFF", "RET", "INACTIVE"},
                       logic : LogicState, inactive : SUBSET Domain, retention : SUBSET Domain]
          /\ view'.mpu = view.mpu /\ view'.logic = q.logic
          /\ view'.inactive = view.inactive /\ view'.retention = view.retention
          /\ view'.core = IF q.power = "ON" THEN "INACTIVE" ELSE q.power
      BY <2>1, <1>3, <1>8 DEF LogicState
    <2>3. Faithful'
      BY <1>1, <1>6, <1>7, <1>10, <2>2 DEF Faithful
    <2>4. TypeOK'
      BY <1>1, <1>2, <1>5, <2>2 DEF TypeOK
    <2>5. Programs'
      BY <1>1, <1>2, <1>6 DEF Programs
    <2> QED BY <2>3, <2>4, <2>5
  <1>11. CASE d \notin {"MPU", "CORE"}
    <2>1. view' = [view EXCEPT
                     !.inactive  = IF q.power = "ON" THEN @ \cup {d} ELSE @ \ {d},
                     !.retention = IF q.power = "RET" THEN @ \cup {d} ELSE @ \ {d}]
      <3>1. CASE q = [power |-> "ON", logic |-> "LOGICRET"]
        BY <1>2, <1>8, <1>11, <3>1 DEF Programmed, Notify
      <3>2. CASE q = [power |-> "RET", logic |-> "LOGICRET"]
        BY <1>2, <1>8, <1>11, <3>2 DEF Programmed, Notify
      <3>3. CASE q = [power |-> "OFF", logic |-> "LOGICRET"] /\ d \in Pushed
        BY <1>2, <1>8, <1>11, <3>3 DEF Programmed, Notify
      <3>4. CASE q = [power |-> "OFF", logic |-> "LOGICRET"] /\ d \notin Pushed
        BY <1>2, <1>8, <1>11, <3>4 DEF Programmed, Notify
      <3> QED BY <1>11, <3>1, <3>2, <3>3, <3>4 DEF Request
    <2>2. /\ view'.mpu = view.mpu /\ view'.core = view.core /\ view'.logic = view.logic
          /\ view'.inactive = IF q.power = "ON" THEN view.inactive \cup {d}
                              ELSE view.inactive \ {d}
          /\ view'.retention = IF q.power = "RET" THEN view.retention \cup {d}
                               ELSE view.retention \ {d}
      BY <2>1, <1>8
    <2>3. view' \in [mpu : {"OFF", "RET", "INACTIVE"}, core : {"OFF", "RET", "INACTIVE"},
                     logic : LogicState, inactive : SUBSET Domain, retention : SUBSET Domain]
      BY <2>1, <1>8
    <2>4. Faithful'
      <3>1. asked'["MPU"] = asked["MPU"] /\ asked'["CORE"] = asked["CORE"]
        BY <1>6, <1>7, <1>11
      <3>2. \A e \in Domain : asked'[e] \in Request(e)
        BY <1>1, <1>6 DEF Faithful
      <3>3. \A e \in Domain \ {"MPU", "CORE"} :
              /\ e \in view'.inactive <=> asked'[e].power = "ON"
              /\ e \in view'.retention <=> asked'[e].power = "RET"
        BY <1>1, <1>6, <2>2 DEF Faithful
      <3> QED BY <1>1, <2>2, <3>1, <3>2, <3>3 DEF Faithful
    <2>5. TypeOK'
      BY <1>1, <1>2, <1>5, <2>3 DEF TypeOK
    <2>6. Programs'
      BY <1>1, <1>2, <1>6 DEF Programs
    <2> QED BY <2>4, <2>5, <2>6
  <1> QED BY <1>9, <1>10, <1>11

\* Pushing the registers for state s, on the way to a sleep of either kind.
LEMMA PushInv ==
    ASSUME IInv, sleep = Awake, NEW s \in State, PushState(s), sleep' # Awake
    PROVE  Faithful' /\ Programs' /\ reg' \in [Domain -> PowerReg]
           /\ saved' \in [Pushed -> PowerReg] /\ io' \in SUBSET {"pad", "chain"}
  <1>1. TypeOK /\ Faithful /\ Programs
    BY DEF IInv
  <1>2. UNCHANGED input
    BY DEF PushState
  <1>3. /\ reg' \in [Domain -> PowerReg] /\ saved' \in [Pushed -> PowerReg]
        /\ \A d \in Pushed : saved'[d] = reg[d]
        /\ \A d \in Domain \ Pushed : reg'[d] = reg[d]
    BY <1>1, PushWrites
  <1>4. io = {} /\ \A d \in Domain : reg[d] = Programmed(d, asked[d])
    BY <1>1 DEF Programs
  <1>5. io' \in SUBSET {"pad", "chain"} /\ (io' # {} => "pad" \in io')
    BY <1>4 DEF PushState
  <1>6. Pushed \subseteq Domain
    BY Latencies
  <1>7. Programs'
    BY <1>2, <1>3, <1>4, <1>5, <1>6 DEF Programs, input
  <1>8. Faithful'
    BY <1>1, <1>2 DEF Faithful, input, Request
  <1> QED BY <1>3, <1>5, <1>7, <1>8

LEMMA OEMIdleInv == IInv /\ OEMIdle => IInv'
  <1> SUFFICES ASSUME IInv, OEMIdle PROVE IInv'
    OBVIOUS
  <1>1. TypeOK /\ Faithful /\ Programs /\ sleep = Awake
    BY DEF IInv, OEMIdle
  <1>2. PICK d, s :
          /\ d \in Delays
          /\ \/ s = GetCurrentState(view)
             \/ \E m : s = FindState(m)
          /\ s # NoCpuIdle
          /\ PushState(s)
          /\ sleep' = [kind |-> "idle", state |-> s, delay |-> d]
    BY DEF OEMIdle
  <1>3. s \in State /\ s >= GetCurrentState(view)
    <2>1. CASE s = GetCurrentState(view)
      BY <1>1, <2>1, Permitted DEF State, CHIP_OFF, MPU_INACTIVE
    <2>2. CASE \E m : s = FindState(m)
      BY <1>1, <1>2, <2>2, Found
    <2> QED BY <1>2, <2>1, <2>2
  <1>4. sleep' # Awake
    BY <1>2 DEF Awake
  <1>5. /\ Faithful' /\ Programs' /\ reg' \in [Domain -> PowerReg]
        /\ saved' \in [Pushed -> PowerReg] /\ io' \in SUBSET {"pad", "chain"}
    BY <1>1, <1>2, <1>3, <1>4, PushInv
  <1>6. UNCHANGED input
    BY <1>2 DEF PushState
  <1>7. sleep' \in [kind : {"idle"}, state : State, delay : Delays]
    BY <1>2, <1>3
  <1>8. TypeOK'
    BY <1>1, <1>5, <1>6, <1>7 DEF TypeOK, input
  <1>9. /\ \A e \in Domain : \/ Level(reg'[e]) >= Level(asked[e])
                             \/ e = "MPU" /\ Level(asked[e]) = 1
        /\ device["core"] > 0 => reg'["CORE"].power = "ON"
        /\ device["other"] > 0 => reg'["PER"].power = "ON" /\ Level(reg'["CORE"]) >= 2
        /\ (\E e \in Domain \ Pushed : asked[e].power # "OFF") => reg'["CORE"].power # "OFF"
    BY <1>1, <1>2, <1>3, Kept
  <1>10. Safe'
    <2>1. KeepsPower'
      BY <1>6, <1>9 DEF KeepsPower, input, Level
    <2>2. DevicesKeepDomains'
      BY <1>6, <1>9 DEF DevicesKeepDomains, input, Level
    <2>3. ChipStaysUp'
      BY <1>6, <1>9 DEF ChipStaysUp, input
    <2> QED BY <2>1, <2>2, <2>3 DEF Safe
  <1> QED BY <1>5, <1>8, <1>10 DEF IInv

\* A suspend takes the suspend state, or a shallower one if a device or a domain that
\* is not one of the sleep's own asks for it.
LEMMA SuspendInv == IInv /\ Suspend => IInv'
  <1> SUFFICES ASSUME IInv, Suspend PROVE IInv'
    OBVIOUS
  <1>1. TypeOK /\ Faithful /\ Programs /\ sleep = Awake
    BY DEF IInv, Suspend
  <1>2. PICK s : /\ s = GetSuspendState(view)
                 /\ PushState(s)
                 /\ sleep' = [kind |-> "suspend", state |-> s, delay |-> 0]
    BY DEF Suspend
  <1>3. GetCurrentState(view) \in 0..5 /\ suspendState \in 0..5
    BY <1>1, Permitted DEF TypeOK, State, CHIP_OFF, MPU_INACTIVE
  <1>4. s \in State
    BY <1>2, <1>3 DEF GetSuspendState, State, CHIP_OFF, MPU_INACTIVE
  <1>5. \/ (view.inactive \cup view.retention) \ {"NEON", "PER"} # {}
        \/ device["other"] # 0 \/ device["core"] # 0
        => s >= GetCurrentState(view)
    BY <1>2, <1>3 DEF GetSuspendState
  <1>6. sleep' # Awake /\ sleep'.kind = "suspend"
    BY <1>2 DEF Awake
  <1>7. /\ Faithful' /\ Programs' /\ reg' \in [Domain -> PowerReg]
        /\ saved' \in [Pushed -> PowerReg] /\ io' \in SUBSET {"pad", "chain"}
    BY <1>1, <1>2, <1>4, <1>6, PushInv
  <1>8. UNCHANGED input
    BY <1>2 DEF PushState
  <1>9. TypeOK'
    <2>1. sleep' \in [kind : {"suspend"}, state : State, delay : {0}]
      BY <1>2, <1>4
    <2> QED BY <1>1, <1>7, <1>8, <2>1 DEF TypeOK, input
  <1>10. KeepsPower'
    BY <1>6 DEF KeepsPower
  <1>11. DevicesKeepDomains'
    <2>1. CASE device["core"] = 0 /\ device["other"] = 0
      BY <1>8, <2>1 DEF DevicesKeepDomains, input
    <2>2. CASE device["core"] # 0 \/ device["other"] # 0
      <3>1. s >= GetCurrentState(view)
        BY <1>5, <2>2
      <3>2. /\ device["core"] > 0 => reg'["CORE"].power = "ON"
            /\ device["other"] > 0 => reg'["PER"].power = "ON" /\ Level(reg'["CORE"]) >= 2
        BY <1>1, <1>2, <1>4, <3>1, Kept
      <3> QED BY <1>8, <3>2 DEF DevicesKeepDomains, input, Level
    <2> QED BY <2>1, <2>2
  <1>12. ChipStaysUp'
    <2> SUFFICES ASSUME NEW e \in Domain \ Pushed, asked[e].power # "OFF"
                 PROVE  reg'["CORE"].power # "OFF"
      BY <1>8 DEF ChipStaysUp, input
    <2>1. asked[e].power \in {"RET", "ON"}
      BY <1>1 DEF TypeOK, PowerReg
    <2>2. e \in (view.inactive \cup view.retention) \ {"NEON", "PER"}
      BY <1>1, <2>1 DEF Faithful, Pushed
    <2>3. s >= GetCurrentState(view)
      BY <1>5, <2>2
    <2> QED BY <1>1, <1>2, <1>4, <2>3, Kept
  <1>13. Safe'
    BY <1>10, <1>11, <1>12 DEF Safe
  <1> QED BY <1>7, <1>9, <1>13 DEF IInv

LEMMA WakeInv == IInv /\ Wake => IInv'
  <1> SUFFICES ASSUME IInv, Wake PROVE IInv'
    OBVIOUS
  <1>1. TypeOK /\ Faithful /\ Programs /\ sleep # Awake /\ sleep' = Awake /\ UNCHANGED input
    BY DEF IInv, Wake
  <1>2. /\ reg' = [d \in Domain |-> IF d \in Pushed THEN saved[d] ELSE reg[d]]
        /\ io' = (IF "pad" \in io THEN {} ELSE io) /\ saved' = NothingSaved
    BY DEF Wake
  <1>3. Pushed \subseteq Domain
    BY Latencies
  <1>4. reg' \in [Domain -> PowerReg] /\ saved' \in [Pushed -> PowerReg]
    BY <1>1, <1>2 DEF TypeOK, NothingSaved, PowerReg, LogicState
  <1>5. io' = {}
    BY <1>1, <1>2 DEF Programs
  <1>6. TypeOK'
    BY <1>1, <1>4, <1>5 DEF TypeOK, input
  <1>7. Programs'
    <2>1. \A d \in Domain : reg'[d] = Programmed(d, asked[d])
      BY <1>1, <1>2, <1>3 DEF Programs
    <2> QED BY <1>1, <1>5, <2>1 DEF Programs, input
  <1>8. Faithful'
    BY <1>1 DEF Faithful, input, Request
  <1>9. Safe'
    BY <1>1 DEF Safe, KeepsPower, DevicesKeepDomains, ChipStaysUp, Awake
  <1> QED BY <1>6, <1>7, <1>8, <1>9 DEF IInv

LEMMA NextInv == IInv /\ [Next]_vars => IInv'
  <1> SUFFICES ASSUME IInv, [Next]_vars PROVE IInv'
    OBVIOUS
  <1>1. TypeOK /\ Faithful /\ Programs
    BY DEF IInv
  <1>2. ASSUME NEW d \in Domain, SetPowerState(d) PROVE IInv'
    <2>1. TypeOK' /\ Faithful' /\ Programs'
      BY <1>2, SetPowerStateInv
    <2>2. sleep' = Awake
      BY <1>2 DEF SetPowerState
    <2>3. Safe'
      BY <2>2 DEF Safe, KeepsPower, DevicesKeepDomains, ChipStaysUp, Awake
    <2> QED BY <2>1, <2>3 DEF IInv
  <1>3. ASSUME NEW k \in Kind, DeviceEnabled(k) PROVE IInv'
    <2>1. sleep' = Awake /\ sleep = Awake
      BY <1>3 DEF DeviceEnabled
    <2>2. UNCHANGED <<asked, reg, saved, view, opp, vdd, constraint, suspendState, io, sleep>>
      BY <1>3 DEF DeviceEnabled
    <2>3. device' \in [Kind -> 0..MaxDevice]
      BY <1>1, <1>3, Latencies DEF DeviceEnabled, TypeOK
    <2>4. TypeOK' /\ Faithful' /\ Programs'
      BY <1>1, <2>2, <2>3 DEF TypeOK, Faithful, Programs
    <2>5. Safe'
      BY <2>1 DEF Safe, KeepsPower, DevicesKeepDomains, ChipStaysUp, Awake
    <2> QED BY <2>4, <2>5 DEF IInv
  <1>4. ASSUME NEW v \in {"mpu", "core"}, SetOpp(v) PROVE IInv'
    <2>1. sleep' = Awake /\ sleep = Awake
      BY <1>4 DEF SetOpp
    <2>2. UNCHANGED <<asked, reg, saved, view, device, constraint, suspendState, io, sleep>>
      BY <1>4 DEF SetOpp
    <2>3. opp' \in [{"mpu", "core"} -> Opp] /\ vdd' \in [{"mpu", "core"} -> Opp]
      BY <1>1, <1>4, Latencies DEF SetOpp, TypeOK
    <2>4. TypeOK' /\ Faithful' /\ Programs'
      BY <1>1, <2>2, <2>3 DEF TypeOK, Faithful, Programs
    <2>5. Safe'
      BY <2>1 DEF Safe, KeepsPower, DevicesKeepDomains, ChipStaysUp, Awake
    <2> QED BY <2>4, <2>5 DEF IInv
  <1>5. ASSUME SetConstraint \/ SetSuspendState PROVE IInv'
    <2>1. sleep' = Awake /\ sleep = Awake
      BY <1>5 DEF SetConstraint, SetSuspendState
    <2>2. UNCHANGED <<asked, reg, saved, view, device, opp, vdd, io, sleep>>
      BY <1>5 DEF SetConstraint, SetSuspendState
    <2>3. constraint' \in Constraints \cup {MaxInt} /\ suspendState' \in State
      BY <1>1, <1>5, Latencies DEF SetConstraint, SetSuspendState, TypeOK
    <2>4. TypeOK' /\ Faithful' /\ Programs'
      BY <1>1, <2>2, <2>3 DEF TypeOK, Faithful, Programs
    <2>5. Safe'
      BY <2>1 DEF Safe, KeepsPower, DevicesKeepDomains, ChipStaysUp, Awake
    <2> QED BY <2>4, <2>5 DEF IInv
  <1>6. CASE UNCHANGED vars
    <2>1. UNCHANGED <<asked, reg, saved, view, device, opp, vdd, constraint, suspendState,
                      io, sleep>>
      BY <1>6 DEF vars
    <2>2. TypeOK' /\ Faithful' /\ Programs'
      BY <1>1, <2>1 DEF TypeOK, Faithful, Programs
    <2>3. Safe'
      BY <2>1 DEF IInv, Safe, KeepsPower, DevicesKeepDomains, ChipStaysUp
    <2> QED BY <2>2, <2>3 DEF IInv
  <1> QED BY <1>2, <1>3, <1>4, <1>5, <1>6, OEMIdleInv, SuspendInv, WakeInv DEF Next

-----------------------------------------------------------------------------
(* Waking up in time.  The module is not told of the operating point that   *)
(* the core supply starts with, so its view of that supply may be the       *)
(* lowest one until the first change; the table is slower there.            *)

Tracks == vdd["mpu"] = opp["mpu"] /\ vdd["core"] \in {opp["core"], 0}

\* The state that was chosen fits, by the operating points the module knows of.
Fits == sleep.kind = "idle" =>
            Latency(sleep.state) <= sleep.delay /\ Latency(sleep.state) <= constraint

LEMMA RowInTable == ASSUME NEW v \in [{"mpu", "core"} -> Opp] PROVE Row(v) \in 0..6
  <1>1. v["mpu"] \in 0..8 /\ v["core"] \in 0..8
    BY DEF Opp
  <1>2. v["mpu"] \in 1..5 => v["mpu"] + 1 \in 0..6
    OBVIOUS
  <1>3. \/ v["mpu"] = 0 /\ v["core"] = 0
        \/ v["mpu"] = 0 /\ v["core"] # 0
        \/ v["mpu"] \in 1..5
        \/ v["mpu"] > 5
    BY <1>1
  <1> QED BY <1>1, <1>2, <1>3 DEF Row

LEMMA LatencyType == ASSUME TypeOK, NEW s \in State PROVE Latency(s) \in Nat
  BY RowInTable, Latencies DEF TypeOK, Latency

\* The real operating points make the chip no slower than the known ones.
LEMMA NoSlower ==
    ASSUME TypeOK, Tracks, LowestIsSlowest, NEW s \in State
    PROVE  Ticks[Row(opp)][s] <= Latency(s)
  <1>1. Ticks \in [0..6 -> [State -> Nat]] /\ Row(opp) \in 0..6 /\ Row(vdd) \in 0..6
    BY RowInTable, Latencies DEF TypeOK
  <1>2. Row(opp) = Row(vdd) \/ (Row(vdd) = 0 /\ Row(opp) = 1)
    <2>1. opp["mpu"] \in 0..8 /\ opp["core"] \in 0..8
      BY DEF TypeOK, Opp
    <2>2. CASE opp["mpu"] = 0 /\ vdd["core"] = opp["core"]
      BY <2>1, <2>2 DEF Tracks, Row
    <2>3. CASE opp["mpu"] = 0 /\ vdd["core"] # opp["core"]
      BY <2>1, <2>3 DEF Tracks, Row
    <2>4. CASE opp["mpu"] \in 1..5
      BY <2>1, <2>4 DEF Tracks, Row
    <2>5. CASE opp["mpu"] > 5
      BY <2>1, <2>5 DEF Tracks, Row
    <2> QED BY <2>1, <2>2, <2>3, <2>4, <2>5
  <1>3. Ticks[Row(opp)][s] \in Nat
    BY <1>1
  <1> QED BY <1>1, <1>2, <1>3 DEF Latency, LowestIsSlowest

LEMMA InitTracks == Init => Tracks /\ Fits
  BY DEF Init, Tracks, Fits, Awake

LEMMA TracksKept == OppsInRange /\ IInv /\ Tracks /\ [Next]_vars => Tracks'
  <1> SUFFICES ASSUME OppsInRange, IInv, Tracks, [Next]_vars PROVE Tracks'
    OBVIOUS
  <1>1. ASSUME NEW v \in {"mpu", "core"}, SetOpp(v) PROVE Tracks'
    <2>1. PICK o \in OppAsked : /\ opp' = [opp EXCEPT ![v] = IF o > MaxOpp[v] THEN @ ELSE o]
                                /\ vdd' = [vdd EXCEPT ![v] = o]
      BY <1>1 DEF SetOpp
    <2>2. ~(o > MaxOpp[v])
      <3>1. o <= MaxOpp[v] /\ o \in 0..8 /\ MaxOpp[v] \in 0..8
        BY Latencies DEF OppsInRange, Opp
      <3> QED BY <3>1
    <2>3. opp' = [opp EXCEPT ![v] = o]
      BY <2>1, <2>2
    <2> QED BY <2>1, <2>3 DEF IInv, TypeOK, Tracks
  <1>2. ASSUME ~(\E v \in {"mpu", "core"} : SetOpp(v)) PROVE UNCHANGED <<opp, vdd>>
    BY <1>2 DEF Next, vars, SetPowerState, DeviceEnabled, SetConstraint, SetSuspendState,
       OEMIdle, Suspend, Wake, PushState, input
  <1> QED BY <1>1, <1>2 DEF Tracks

LEMMA FitsKept == IInv /\ Fits /\ [Next]_vars => Fits'
  <1> SUFFICES ASSUME IInv, Fits, [Next]_vars PROVE Fits'
    OBVIOUS
  <1>1. CASE UNCHANGED vars
    BY <1>1 DEF vars, Fits, Latency
  <1>2. CASE OEMIdle
    <2>1. TypeOK /\ UNCHANGED <<vdd, constraint>> /\ GetCurrentState(view) \in State
      BY <1>2, Permitted DEF IInv, OEMIdle, PushState, input
    <2>2. PICK d \in Delays :
            LET m == IF d < constraint THEN d ELSE constraint
                s == IF m < Latency(GetCurrentState(view)) THEN FindState(m)
                     ELSE GetCurrentState(view)
            IN  s # NoCpuIdle /\ sleep' = [kind |-> "idle", state |-> s, delay |-> d]
      BY <1>2 DEF OEMIdle
    <2>3. PICK m : m = IF d < constraint THEN d ELSE constraint
      OBVIOUS
    <2>4. m \in Int /\ m <= d /\ m <= constraint /\ d \in Int /\ constraint \in Int
      BY <2>1, <2>3, Latencies DEF TypeOK
    <2>5. PICK s : s = IF m < Latency(GetCurrentState(view)) THEN FindState(m)
                       ELSE GetCurrentState(view)
      OBVIOUS
    <2>6. s # NoCpuIdle /\ sleep' = [kind |-> "idle", state |-> s, delay |-> d]
      BY <2>2, <2>3, <2>5
    <2>7. s \in State /\ Latency(s) <= m
      <3>1. CASE m < Latency(GetCurrentState(view))
        BY <2>1, <2>5, <2>6, <3>1, Found
      <3>2. CASE ~(m < Latency(GetCurrentState(view)))
        <4>1. Latency(GetCurrentState(view)) \in Nat
          BY <2>1, LatencyType
        <4> QED BY <2>1, <2>4, <2>5, <3>2, <4>1
      <3> QED BY <3>1, <3>2
    <2>8. Latency(s) \in Nat
      BY <2>1, <2>7, LatencyType
    <2>9. Latency(s) <= d /\ Latency(s) <= constraint
      BY <2>4, <2>7, <2>8
    <2> QED BY <2>1, <2>6, <2>9 DEF Fits, Latency
  <1>3. CASE ~OEMIdle /\ ~UNCHANGED vars
    <2>1. sleep'.kind # "idle"
      BY <1>3 DEF Next, SetPowerState, DeviceEnabled, SetOpp, SetConstraint, SetSuspendState,
         Suspend, Wake, Awake
    <2> QED BY <2>1 DEF Fits
  <1> QED BY <1>1, <1>2, <1>3

-----------------------------------------------------------------------------
(* The theorems                                                            *)

LEMMA Invariance == Spec => []IInv
  <1> QED BY InitInv, NextInv, PTL DEF Spec

\* Every variable has its type.
THEOREM TypeCorrect == Spec => []TypeOK
  <1>1. IInv => TypeOK
    BY DEF IInv
  <1> QED BY <1>1, Invariance, PTL

\* However the requests for the domains and the devices combine, OEMIdle leaves every
\* domain at least the power that was asked for it.
THEOREM PowerKept == Spec => []KeepsPower
  <1>1. IInv => KeepsPower
    BY DEF IInv, Safe
  <1> QED BY <1>1, Invariance, PTL

\* Idle and suspend leave a device in use the domains it needs.
THEOREM DevicesKept == Spec => []DevicesKeepDomains
  <1>1. IInv => DevicesKeepDomains
    BY DEF IInv, Safe
  <1> QED BY <1>1, Invariance, PTL

\* Taken together: neither the domains asked for nor the devices in use lose their power
\* in a sleep, whatever the masks and counters of the module went through before.
THEOREM PowerKeptForAll == Spec => []NobodyLosesPower
  <1>1. IInv => NobodyLosesPower
    BY DEF IInv, Safe, NobodyLosesPower
  <1> QED BY <1>1, Invariance, PTL

\* The chip is not switched off below a domain that is to stay up.
THEOREM NotSwitchedOff == Spec => []ChipStaysUp
  <1>1. IInv => ChipStaysUp
    BY DEF IInv, Safe
  <1> QED BY <1>1, Invariance, PTL

\* An idle period ends before the next timer interrupt is due and within the latency
\* constraint, by the operating points the chip really runs at.
THEOREM AlwaysInTime == ASSUME OppsInRange, LowestIsSlowest PROVE Spec => []WakesInTime
  <1>1. ASSUME IInv, Tracks, Fits PROVE WakesInTime
    <2> SUFFICES ASSUME sleep.kind = "idle"
                 PROVE  /\ Ticks[Row(opp)][sleep.state] <= sleep.delay
                        /\ Ticks[Row(opp)][sleep.state] <= constraint
      BY DEF WakesInTime
    <2>1. sleep \in [kind : {"idle"}, state : State, delay : Delays] /\ TypeOK
      BY <1>1 DEF IInv, TypeOK, Awake
    <2>2. sleep.state \in State /\ sleep.delay \in Nat /\ constraint \in Nat
      BY <2>1, Latencies DEF TypeOK
    <2>3. Ticks[Row(opp)][sleep.state] <= Latency(sleep.state)
      BY <1>1, <2>1, <2>2, NoSlower
    <2>4. Ticks[Row(opp)][sleep.state] \in Nat
      BY <2>1, <2>2, RowInTable, Latencies DEF TypeOK
    <2>5. Latency(sleep.state) \in Nat
      BY <2>1, <2>2, LatencyType
    <2>6. Latency(sleep.state) <= sleep.delay /\ Latency(sleep.state) <= constraint
      BY <1>1 DEF Fits
    <2> QED BY <2>2, <2>3, <2>4, <2>5, <2>6
  <1>2. IInv /\ Tracks /\ [Next]_vars => Tracks'
    BY TracksKept
  <1> QED BY <1>1, <1>2, InitTracks, FitsKept, Invariance, PTL DEF Spec

\* After a sleep the registers hold again what the requests programmed.
THEOREM RegistersRestored == Spec => []Restored
  <1>1. IInv => Restored
    BY DEF IInv, Programs, Restored
  <1> QED BY <1>1, Invariance, PTL
=============================================================================
