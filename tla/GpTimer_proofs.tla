---------------------------- MODULE GpTimer_proofs ----------------------------
(***************************************************************************)
(* Theorems about the system tick, for a counter of any width and any       *)
(* delays: types, the time that OEMGetTickCount returns, the next match and *)
(* the time by which the kernel is told to reschedule.                      *)
(***************************************************************************)
EXTENDS GpTimer, TLAPS

-----------------------------------------------------------------------------
(* Words                                                                   *)

LEMMA DivMod ==
    ASSUME NEW n \in Int
    PROVE  /\ Word(n) \in 0..Turn - 1
           /\ \E q \in Int : n = Turn * q + Word(n)
<1>1. n \div Turn \in Int /\ n = Turn * (n \div Turn) + Word(n) /\ Word(n) \in 0..Turn - 1
  BY Ticks DEF Word
<1> QED
  BY <1>1

\* A number within the turn is its own word, and so is one that is a turn off.
LEMMA WordOf ==
    ASSUME NEW n \in 0..Turn - 1
    PROVE  Word(n) = n /\ Word(n + Turn) = n /\ Word(n - Turn) = n
  BY Ticks DEF Word

LEMMA Tens ==
    ASSUME NEW n \in Nat
    PROVE  TICK_TO_MSEC(n) \in Nat /\ MSEC_TO_TICK(n) \in Nat
  BY DEF TICK_TO_MSEC, MSEC_TO_TICK

LEMMA Later ==
    ASSUME NEW m \in Nat, NEW n \in Nat, m <= n
    PROVE  TICK_TO_MSEC(m) <= TICK_TO_MSEC(n)
  BY DEF TICK_TO_MSEC

LEMMA WordSum ==
    ASSUME NEW m \in Nat, NEW d \in 0..Turn - 1
    PROVE  Word(Word(m) + d) = Word(m + d)
<1>0. Turn \in Nat \ {0} /\ m + d \in Int
  BY Ticks
<1> PICK a \in Int : m = Turn * a + Word(m)
  BY DivMod
<1> PICK b \in Int : m + d = Turn * b + Word(m + d)
  BY <1>0, DivMod
<1>1. Turn \in Nat \ {0} /\ Word(m) \in 0..Turn - 1 /\ Word(m + d) \in 0..Turn - 1
  BY <1>0, DivMod
<1>2. Word(m) + d = Turn * (b - a) + Word(m + d)
  BY <1>1
<1>3. b - a = 0 \/ b - a = 1
  <2>1. b - a >= 2 => Turn * (b - a) >= Turn + Turn
    BY <1>1
  <2>2. b - a <= -1 => Turn * (b - a) <= 0 - Turn
    BY <1>1
  <2> QED
    BY <1>1, <1>2, <2>1, <2>2
<1>4. CASE b - a = 0
  <2>1. Word(m) + d = Word(m + d)
    BY <1>1, <1>2, <1>4
  <2> QED
    BY <1>1, <2>1, WordOf
<1>5. CASE b - a = 1
  <2>1. Word(m) + d = Word(m + d) + Turn
    BY <1>1, <1>2, <1>5
  <2> QED
    BY <1>1, <2>1, WordOf
<1> QED
  BY <1>3, <1>4, <1>5

\* The difference of two words is that of the numbers, less whole turns.
LEMMA WordDifference ==
    ASSUME NEW m \in Nat, NEW n \in Nat, m <= n
    PROVE  /\ m + Word(Word(n) - Word(m)) <= n
           /\ Word(Word(m) + Word(Word(n) - Word(m))) = Word(m + Word(Word(n) - Word(m)))
           /\ n - m < Turn => m + Word(Word(n) - Word(m)) = n
<1> PICK a \in Int : m = Turn * a + Word(m)
  BY DivMod
<1> PICK b \in Int : n = Turn * b + Word(n)
  BY DivMod
<1>1. Turn \in Nat \ {0} /\ Word(m) \in 0..Turn - 1 /\ Word(n) \in 0..Turn - 1
  BY DivMod, Ticks
<1> PICK d \in Int : d = Word(n) - Word(m)
  BY <1>1
<1>2. d >= 0 => Word(d) = d
  BY <1>1, WordOf
<1>3. d < 0 => Word(d) = d + Turn
  <2>1. ASSUME d < 0 PROVE d + Turn \in 0..Turn - 1 /\ (d + Turn) - Turn = d
    BY <1>1, <2>1
  <2>2. ASSUME d < 0 PROVE Word((d + Turn) - Turn) = d + Turn
    BY <2>1, <2>2, WordOf
  <2> QED
    BY <2>1, <2>2
<1>4. n - m = Turn * (b - a) + d
  <2> PICK x \in Int, y \in Int : x = Turn * b /\ y = Turn * a
    BY <1>1
  <2>1. Turn * (b - a) = x - y
    BY <1>1
  <2>2. n = x + Word(n) /\ m = y + Word(m)
    OBVIOUS
  <2>3. \A e, f, g, h \in Int : (e + f) - (g + h) = (e - g) + (f - h)
    OBVIOUS
  <2>4. (x + Word(n)) - (y + Word(m)) = (x - y) + (Word(n) - Word(m))
    BY <1>1, <2>3
  <2> QED
    BY <2>1, <2>2, <2>4
<1>5. Word(d) \in 0..Turn - 1
  BY <1>1, DivMod
<1>6. b - a >= 1 => Turn * (b - a) >= Turn
  BY <1>1
<1>7. b - a <= -1 => Turn * (b - a) <= 0 - Turn
  BY <1>1
<1>8. b - a = 0 => Turn * (b - a) = 0
  BY <1>1
<1>9. m + Word(d) <= n
  BY <1>1, <1>2, <1>3, <1>4, <1>6, <1>7, <1>8
<1>10. ASSUME n - m < Turn PROVE m + Word(d) = n
  <2>1. b - a >= 2 => Turn * (b - a) >= Turn + Turn
    BY <1>1
  <2>2. b - a = 1 => Turn * (b - a) = Turn
    BY <1>1
  <2> QED
    BY <1>1, <1>2, <1>3, <1>4, <1>7, <1>8, <1>10, <2>1, <2>2
<1>11. Word(Word(m) + Word(d)) = Word(m + Word(d))
  BY <1>1, <1>5, WordSum
<1> QED
  BY <1>9, <1>10, <1>11
-----------------------------------------------------------------------------
(* Types                                                                   *)

LEMMA CountType == now \in Nat => Count \in 0..Turn - 1
  BY DivMod DEF Count

LEMMA PlacedType ==
    ASSUME NEW msec \in Nat, NEW period \in Nat
    PROVE  Placed(msec, period) \in 0..Turn - 1
<1>1. MSEC_TO_TICK(msec) \in Nat /\ MSEC_TO_TICK(period) \in Nat /\ MSEC_TO_TICK(1) \in Nat /\ Margin \in Nat
  BY Tens, Ticks
<1>2. Least(MSEC_TO_TICK(period), Margin) \in Nat
  BY <1>1 DEF Least
<1> QED
  BY <1>1, <1>2, DivMod DEF Placed

LEMMA ElapsedType ==
    ASSUME TypeOK
    PROVE  Elapsed \in 0..Turn - 1
<1>1. Count - timer.base \in Int
  BY CountType, Ticks DEF TypeOK
<1> QED
  BY <1>1, DivMod DEF Elapsed

\* Where a routine is, with its locals.
Frame == [at : Where, then : {"off", "sleep"}, period : Nat, msec : Nat,
          match : 0..Turn - 1, base : Nat]

\* A step of a routine that leaves it, and only it, somewhere of its type.
LEMMA RoutineType ==
    ASSUME TypeOK, NEW r \in Routine, NEW v \in Frame, run' = [run EXCEPT ![r] = v]
    PROVE  run' \in [Routine -> Frame]
  BY DEF TypeOK, Frame

LEMMA OffType ==
    ASSUME NEW where \in Where, NEW then \in {"off", "sleep"}, NEW period \in Nat,
           NEW match \in 0..Turn - 1
    PROVE  /\ Off \in Frame
           /\ [Off EXCEPT !.at = where, !.period = period, !.then = then] \in Frame
           /\ [Off EXCEPT !.at = where, !.match = match, !.then = then] \in Frame
<1>1. 0 \in 0..Turn - 1 /\ "off" \in Where /\ 0 \in Nat
  BY Ticks DEF Where
<1>2. Off \in Frame
  BY <1>1 DEF Off, Frame
<1>3. [Off EXCEPT !.at = where, !.period = period, !.then = then] \in Frame
  BY <1>2 DEF Frame
<1>4. [Off EXCEPT !.at = where, !.match = match, !.then = then] \in Frame
  BY <1>2 DEF Frame
<1> QED
  BY <1>2, <1>3, <1>4

LEMMA PeriodType ==
    ASSUME TypeOK, NEW r \in Routine, NEW period \in Nat, UpdatePeriod(r, period)
    PROVE  run' \in [Routine -> Frame]
<1> PICK v : v = [Off EXCEPT !.at = "read", !.period = period, !.then = run[r].then]
  OBVIOUS
<1>1. run[r].then \in {"off", "sleep"} /\ "read" \in Where /\ 0 \in 0..Turn - 1
  BY Ticks DEF TypeOK, Where
<1>2. v \in Frame
  BY <1>1, OffType
<1> QED
  BY <1>2, RoutineType DEF UpdatePeriod

LEMMA ReturnType ==
    ASSUME TypeOK, NEW r \in Routine, Return(r)
    PROVE  run' \in [Routine -> Frame] /\ lag' \in 0..Lag
<1>1. Off \in Frame
  <2>1. "off" \in Where /\ 0 \in Nat /\ 0 \in 0..Turn - 1
    BY Ticks DEF Where
  <2> QED
    BY <2>1, OffType
<1>2. run' = [run EXCEPT ![r] = Off] /\ lag' \in {lag, 0}
  BY Zenon DEF Return, Leave
<1>3. lag' \in 0..Lag
  BY <1>2, Ticks DEF TypeOK
<1> QED
  BY <1>1, <1>2, <1>3, RoutineType

\* Match registers, bases and matches stay words, times and locals natural numbers, and a stretch
\* of timer code within its bound.
THEOREM TypeCorrect == Spec => []TypeOK
<1> USE DEF Routine
<1>1. Init => TypeOK
  <2> SUFFICES ASSUME Init PROVE TypeOK
    OBVIOUS
  <2>1. now \in Nat /\ Count \in 0..Turn - 1 /\ TICK_TO_MSEC(now) \in Nat /\ Word(now + Margin) \in 0..Turn - 1
    BY Ticks, CountType, Tens, DivMod DEF Init
  <2>2. Off \in Frame
    BY Ticks DEF Off, Frame, Where
  <2>3. AppOff \in [at : {"off", "count", "again", "store", "return"}, base : Nat, msec : Nat, since : Nat]
    BY DEF AppOff
  <2>4. timer \in [cur : Nat, base : 0..Turn - 1, match : 0..Turn - 1]
    BY <2>1 DEF Init
  <2>5. lag \in 0..Lag /\ curMSec \in Nat /\ resched \in Nat
    BY <2>1, Ticks DEF Init
  <2> QED
    BY <2>1, <2>2, <2>3, <2>4, <2>5 DEF Init, TypeOK, None, Frame
<1>2. TypeOK /\ [Next]_vars => TypeOK'
  <2> SUFFICES ASSUME TypeOK, [Next]_vars PROVE TypeOK'
    OBVIOUS
  <2>17. tight' \in BOOLEAN
    <3>1. tight \in BOOLEAN
      BY DEF TypeOK
    <3>2. ASSUME NEW r \in Routine, Place(r) PROVE tight' \in BOOLEAN
      BY <3>1, <3>2, Zenon DEF Place
    <3>3. ASSUME NEW delay \in Delays, OEMIdle(delay) PROVE tight' \in BOOLEAN
      BY <3>1, <3>3, Zenon DEF OEMIdle
    <3>4. (\E r \in Routine : Place(r)) \/ (\E d \in Delays : OEMIdle(d)) \/ UNCHANGED tight
      BY DEF Next, vars, Tick, Land, Interrupt, Read, Write, Check, Ask, Look, TakeBase, TakeCount,
             TakeAgain, SetPeriod, Wake, AppBase, AppCount, AppAgain, AppStore, AppReturn
    <3> QED
      BY <3>1, <3>2, <3>3, <3>4
  <2> USE <2>17
  <2>0. ASSUME NEW r \in Routine PROVE run[r] \in Frame
    BY <2>0 DEF TypeOK, Frame
  <2>1. ASSUME UNCHANGED vars PROVE TypeOK'
    BY <2>1 DEF vars, TypeOK, hardware, kernel
  <2>2. ASSUME Tick PROVE TypeOK'
    <3>1. now' \in Nat /\ tmar' \in 0..Turn - 1 /\ posted' = None
      BY <2>2 DEF Tick, TypeOK
    <3>2. flag' \in BOOLEAN
      BY <2>2, Zenon DEF Tick
    <3>3. lag' \in 0..Lag
      BY <2>2, Ticks DEF Tick, TypeOK
    <3> QED
      BY <2>2, <3>1, <3>2, <3>3 DEF Tick, TypeOK, kernel
  <2>3. ASSUME Land PROVE TypeOK'
    <3>1. flag' \in BOOLEAN
      BY <2>3, Zenon DEF Land
    <3>2. tmar' \in 0..Turn - 1
      BY <2>3 DEF Land, TypeOK
    <3> QED
      BY <2>3, <3>1, <3>2 DEF Land, TypeOK, kernel
  <2>4. ASSUME Interrupt PROVE TypeOK'
    <3>1. TICK_TO_MSEC(timer.cur + Elapsed) \in Nat /\ timer.cur + Elapsed \in Nat /\ Elapsed \in 0..Turn - 1
      BY ElapsedType, Tens, Ticks DEF TypeOK
    <3>0. timer.base + Elapsed \in Int
      BY <3>1, Ticks DEF TypeOK
    <3>2. Word(timer.base + Elapsed) \in 0..Turn - 1
      BY <3>0, DivMod
    <3>3. /\ timer' \in [cur : Nat, base : 0..Turn - 1, match : 0..Turn - 1]
          /\ curMSec' \in Nat
      BY <2>4, <3>1, <3>2 DEF Interrupt, TypeOK
    <3>4. due' \in BOOLEAN /\ flag' \in BOOLEAN
      BY <2>4, Zenon DEF Interrupt, TypeOK
    <3>5. PICK period \in Nat : UpdatePeriod("isr", period)
      BY <2>4, <3>1, Ticks DEF Interrupt, TypeOK, Reached
    <3>6. run' \in [Routine -> Frame]
      BY <3>5, PeriodType
    <3> QED
      BY <2>4, <3>3, <3>4, <3>6 DEF Interrupt, TypeOK, Frame
  <2>5. ASSUME NEW r \in Routine, Read(r) PROVE TypeOK'
    <3>1. TICK_TO_MSEC(Count) \in Nat
      BY CountType, Tens, Ticks DEF TypeOK
    <3>2. run' = [run EXCEPT ![r] = [run[r] EXCEPT !.at = "place", !.msec = TICK_TO_MSEC(Count)]]
      BY <2>5 DEF Read, TypeOK
    <3>3. [run[r] EXCEPT !.at = "place", !.msec = TICK_TO_MSEC(Count)] \in Frame
      BY <2>0, <3>1 DEF Frame, Where
    <3>4. run' \in [Routine -> Frame]
      BY <3>2, <3>3, RoutineType
    <3> QED
      BY <2>5, <3>4 DEF Read, TypeOK, hardware, kernel, Frame
  <2>6. ASSUME NEW r \in Routine, Place(r) PROVE TypeOK'
    <3>1. Placed(run[r].msec, run[r].period) \in 0..Turn - 1
      BY <2>0, PlacedType DEF Frame
    <3> PICK v : v = [Off EXCEPT !.at = "write", !.match = Placed(run[r].msec, run[r].period),
                                 !.then = run[r].then]
      OBVIOUS
    <3>4. v \in Frame
      <4>1. "write" \in Where /\ run[r].then \in {"off", "sleep"} /\ 0 \in Nat
        BY DEF Where, TypeOK
      <4> QED
        BY <3>1, <4>1, OffType
    <3>2. run' \in [Routine -> Frame]
      BY <2>6, <3>4, RoutineType DEF Place
    <3>3. timer' \in [cur : Nat, base : 0..Turn - 1, match : 0..Turn - 1]
      BY <2>6, <3>1 DEF Place, TypeOK
    <3> QED
      BY <2>6, <3>2, <3>3 DEF Place, TypeOK, hardware, kernel, Frame
  <2>7. ASSUME NEW r \in Routine, Write(r) PROVE TypeOK'
    <3>1. run' = [run EXCEPT ![r] = [run[r] EXCEPT !.at = "check"]]
      BY <2>7 DEF Write, Goto, TypeOK
    <3>4. [run[r] EXCEPT !.at = "check"] \in Frame
      BY <2>0 DEF Frame, Where
    <3>2. run' \in [Routine -> Frame]
      BY <3>1, <3>4, RoutineType
    <3>3. posted' \in 0..Turn - 1
      BY <2>0, <2>7 DEF Write, Frame
    <3> QED
      BY <2>7, <3>2, <3>3 DEF Write, Goto, TypeOK, kernel, Frame
  <2>8. ASSUME NEW r \in Routine, Check(r) PROVE TypeOK'
    <3>0. UNCHANGED <<now, hardware, timer, curMSec, kernel, app>>
      BY <2>8 DEF Check
    <3>1. CASE Behind(run[r].match)
      <4>1. UpdatePeriod(r, 1) /\ lag' = 0
        BY <2>8, <3>1 DEF Check
      <4> QED
        BY <3>0, <4>1, PeriodType, Ticks DEF TypeOK, hardware, kernel, Frame
    <3>2. CASE ~Behind(run[r].match) /\ run[r].then = "sleep"
      <4>1. /\ run' = [run EXCEPT ![r] = [run[r] EXCEPT !.at = "sleep", !.match = 0]]
            /\ lag' \in {lag, 0}
        BY <2>8, <3>2, Zenon DEF Check, Leave, TypeOK
      <4>3. 0 \in 0..Turn - 1
        BY Ticks
      <4>2. [run[r] EXCEPT !.at = "sleep", !.match = 0] \in Frame
        BY <2>0, <4>3 DEF Frame, Where
      <4> QED
        BY <3>0, <4>1, <4>2, RoutineType, Ticks DEF TypeOK, hardware, kernel, Frame
    <3>3. CASE ~Behind(run[r].match) /\ run[r].then # "sleep"
      <4>1. Return(r)
        BY <2>8, <3>3 DEF Check
      <4> QED
        BY <3>0, <4>1, ReturnType DEF TypeOK, hardware, kernel, Frame
    <3> QED
      BY <3>1, <3>2, <3>3
  <2>9. ASSUME NEW s \in Sleeps, Ask(s) PROVE TypeOK'
    <3>1. TICK_TO_MSEC(now) + s \in Nat /\ curMSec \in Nat
      BY Tens, Ticks DEF TypeOK
    <3>2. run' = [run EXCEPT !["task"] = [run["task"] EXCEPT !.at = "ask", !.msec = curMSec]]
      BY <2>9 DEF Ask, TypeOK
    <3>3. [run["task"] EXCEPT !.at = "ask", !.msec = curMSec] \in Frame
      BY <2>0, <3>1 DEF Frame, Where
    <3>4. run' \in [Routine -> Frame]
      BY <3>2, <3>3, RoutineType
    <3> QED
      BY <2>9, <3>1, <3>4 DEF Ask, TypeOK, hardware, Frame
  <2>10. ASSUME Look PROVE TypeOK'
    <3>0. UNCHANGED <<now, hardware, timer, curMSec, kernel, app>>
      BY <2>10 DEF Look
    <3>1. ASSUME UpdatePeriod("task", 0), UNCHANGED lag PROVE TypeOK'
      BY <3>0, <3>1, PeriodType DEF TypeOK, hardware, kernel, Frame
    <3>2. ASSUME Return("task") PROVE TypeOK'
      BY <3>0, <3>2, ReturnType DEF TypeOK, hardware, kernel, Frame
    <3>3. ASSUME Goto("task", "base") PROVE TypeOK'
      <4>1. run' = [run EXCEPT !["task"] = [run["task"] EXCEPT !.at = "base"]]
        BY <3>3 DEF Goto, TypeOK
      <4>2. [run["task"] EXCEPT !.at = "base"] \in Frame
        BY <2>0 DEF Frame, Where
      <4>3. run' \in [Routine -> Frame]
        BY <4>1, <4>2, RoutineType
      <4> QED
        BY <3>0, <3>3, <4>3 DEF Goto, TypeOK, hardware, kernel, Frame
    <3> QED
      BY <2>10, <3>1, <3>2, <3>3 DEF Look
  <2>11. ASSUME TakeBase PROVE TypeOK'
    <3>1. run' = [run EXCEPT !["task"] = [run["task"] EXCEPT !.at = "count", !.base = timer.cur]]
      BY <2>11 DEF TakeBase, TypeOK
    <3>2. [run["task"] EXCEPT !.at = "count", !.base = timer.cur] \in Frame
      BY <2>0 DEF Frame, Where, TypeOK
    <3>3. run' \in [Routine -> Frame]
      BY <3>1, <3>2, RoutineType
    <3> QED
      BY <2>11, <3>3 DEF TakeBase, TypeOK, hardware, kernel, Frame
  <2>12. ASSUME TakeCount PROVE TypeOK'
    <3> PICK m : m = TICK_TO_MSEC(run["task"].base + Word(Count - timer.base))
      OBVIOUS
    <3>1. m \in Nat
      <4>1. Word(Count - timer.base) \in Nat /\ run["task"].base \in Nat
        BY <2>0, ElapsedType, Ticks DEF Elapsed, Frame
      <4> QED
        BY <4>1, Tens
    <3>2. run' = [run EXCEPT !["task"] = [run["task"] EXCEPT !.at = "again", !.msec = m]]
      BY <2>12 DEF TakeCount, TypeOK
    <3>3. [run["task"] EXCEPT !.at = "again", !.msec = m] \in Frame
      BY <2>0, <3>1 DEF Frame, Where
    <3>4. run' \in [Routine -> Frame]
      BY <3>2, <3>3, RoutineType
    <3> QED
      BY <2>12, <3>4 DEF TakeCount, TypeOK, hardware, kernel, Frame
  <2>13. ASSUME TakeAgain PROVE TypeOK'
    <3>0. UNCHANGED <<now, hardware, timer, kernel, app>> /\ run["task"].msec \in Nat /\ resched \in Nat
      BY <2>0, <2>13 DEF TakeAgain, Frame, TypeOK
    <3>1. CASE run["task"].base # timer.cur
      <4>1. run' = [run EXCEPT !["task"] = [run["task"] EXCEPT !.at = "base"]] /\ UNCHANGED <<lag, curMSec>>
        BY <2>13, <3>1 DEF TakeAgain, Goto, TypeOK
      <4>2. [run["task"] EXCEPT !.at = "base"] \in Frame
        BY <2>0 DEF Frame, Where
      <4>3. run' \in [Routine -> Frame]
        BY <4>1, <4>2, RoutineType
      <4> QED
        BY <3>0, <4>1, <4>3 DEF TypeOK, hardware, kernel, Frame
    <3>2. CASE run["task"].base = timer.cur
      <4>1. run' = [run EXCEPT !["task"] = [run["task"] EXCEPT !.at = "store"]] /\ UNCHANGED lag
            /\ curMSec' \in Nat
        BY <2>13, <3>0, <3>2 DEF TakeAgain, Goto, TypeOK
      <4>2. [run["task"] EXCEPT !.at = "store"] \in Frame
        BY <2>0 DEF Frame, Where
      <4>3. run' \in [Routine -> Frame]
        BY <4>1, <4>2, RoutineType
      <4> QED
        BY <3>0, <4>1, <4>3 DEF TypeOK, hardware, kernel, Frame
    <3> QED
      BY <3>1, <3>2
  <2>14. ASSUME NEW delay \in Delays, OEMIdle(delay) PROVE TypeOK'
    <3> PICK match : match = Word(timer.match - delay)
      OBVIOUS
    <3>1. match \in 0..Turn - 1
      <4>1. timer.match - delay \in Int
        BY Ticks DEF TypeOK
      <4> QED
        BY <4>1, DivMod
    <3>2. run' = [run EXCEPT !["task"] = [run["task"] EXCEPT !.at = "write", !.then = "sleep",
                                                             !.match = match]]
      BY <2>14 DEF OEMIdle, TypeOK
    <3>3. [run["task"] EXCEPT !.at = "write", !.then = "sleep", !.match = match] \in Frame
      BY <2>0, <3>1 DEF Frame, Where
    <3>4. run' \in [Routine -> Frame]
      BY <3>2, <3>3, RoutineType
    <3>5. timer' \in [cur : Nat, base : 0..Turn - 1, match : 0..Turn - 1]
      BY <2>14, <3>1 DEF OEMIdle, TypeOK
    <3> QED
      BY <2>14, <3>4, <3>5 DEF OEMIdle, TypeOK, hardware, kernel, Frame
  <2>15. ASSUME Wake PROVE TypeOK'
    BY <2>15, ReturnType DEF Wake, TypeOK, hardware, kernel, Frame
  <2>18. ASSUME SetPeriod PROVE TypeOK'
    <3>1. PICK period \in Nat : UpdatePeriod("task", period)
      BY <2>18, Ticks DEF SetPeriod, Least, TypeOK
    <3> QED
      BY <2>18, <3>1, PeriodType DEF SetPeriod, TypeOK, hardware, kernel, Frame
  <2>16. ASSUME AppBase \/ AppCount \/ AppAgain \/ AppStore \/ AppReturn PROVE TypeOK'
    <3>1. ASSUME AppBase PROVE TypeOK'
      <4>1. TICK_TO_MSEC(now) \in Nat
        BY Tens DEF TypeOK
      <4>2. app' \in [at : {"off", "count", "again", "store", "return"}, base : Nat, msec : Nat, since : Nat]
        BY <3>1, <4>1 DEF AppBase, TypeOK
      <4> QED
        BY <3>1, <4>2 DEF AppBase, TypeOK, hardware, kernel
    <3>2. ASSUME AppCount PROVE TypeOK'
      <4>1. Word(Count - timer.base) \in Nat /\ app.base \in Nat
        BY ElapsedType, Ticks DEF Elapsed, TypeOK
      <4>2. TICK_TO_MSEC(app.base + Word(Count - timer.base)) \in Nat
        BY <4>1, Tens
      <4>3. app' \in [at : {"off", "count", "again", "store", "return"}, base : Nat, msec : Nat, since : Nat]
        BY <3>2, <4>2 DEF AppCount, TypeOK
      <4> QED
        BY <3>2, <4>3 DEF AppCount, TypeOK, hardware, kernel
    <3>3. ASSUME AppAgain PROVE TypeOK'
      <4>1. app' \in [at : {"off", "count", "again", "store", "return"}, base : Nat, msec : Nat, since : Nat]
        BY <3>3 DEF AppAgain, TypeOK
      <4> QED
        BY <3>3, <4>1 DEF AppAgain, TypeOK, hardware, kernel
    <3>4. ASSUME AppStore PROVE TypeOK'
      <4>1. /\ app' \in [at : {"off", "count", "again", "store", "return"}, base : Nat, msec : Nat, since : Nat]
            /\ curMSec' \in Nat
        BY <3>4 DEF AppStore, TypeOK
      <4> QED
        BY <3>4, <4>1 DEF AppStore, TypeOK, hardware, kernel
    <3>5. ASSUME AppReturn PROVE TypeOK'
      BY <3>5 DEF AppReturn, AppOff, TypeOK, hardware, kernel
    <3> QED
      BY <2>16, <3>1, <3>2, <3>3, <3>4, <3>5
  <2> QED
    BY <2>1, <2>2, <2>3, <2>4, <2>5, <2>6, <2>7, <2>8, <2>9, <2>10, <2>11, <2>12, <2>13, <2>14,
       <2>15, <2>16, <2>18 DEF Next
<1> QED
  BY <1>1, <1>2, PTL DEF Spec

-----------------------------------------------------------------------------
(* The time                                                                *)

\* The counter has not turned since the last interrupt that brought the time up to date.
InTurn == now - timer.cur < Turn

\* The ticks that are counted and the word they were counted at belong together, ...
Together == timer.cur <= now /\ timer.base = Word(timer.cur)

\* ... and what a thread has read, or the kernel for it, is a time of the thread's call, unless
\* it is about to see that the handler has been at work.
AppReads ==
    /\ app.at # "off" => app.since <= TICK_TO_MSEC(now)
    /\ app.at \in {"count", "again"} => app.base <= timer.cur
    /\ app.at = "again" /\ app.base = timer.cur => app.msec \in app.since..TICK_TO_MSEC(now)
    /\ app.at = "store" => app.msec \in app.since..TICK_TO_MSEC(now)
    /\ app.at = "return" => curMSec \in app.since..TICK_TO_MSEC(now)
TaskReads ==
    /\ run["task"].at \in {"count", "again"} => run["task"].base <= timer.cur
    /\ app.at # "off" /\ run["task"].at = "again" /\ run["task"].base = timer.cur
         => run["task"].msec \in app.since..TICK_TO_MSEC(now)

TimeInv == TypeOK /\ Together /\ AppReads /\ TaskReads

\* With the time within the turn, the elapsed ticks are what the two words differ by.
LEMMA ElapsedTicks ==
    ASSUME TypeOK, Together
    PROVE  /\ timer.cur + Elapsed <= now
           /\ Word(timer.base + Elapsed) = Word(timer.cur + Elapsed)
           /\ InTurn => timer.cur + Elapsed = now
  BY WordDifference DEF TypeOK, Together, Elapsed, Count, InTurn

LEMMA TimeKept ==
    ASSUME TimeInv, Next, TypeOK', InTurn
    PROVE  Together' /\ AppReads' /\ TaskReads'
<1>0. /\ timer.cur \in Nat /\ now \in Nat /\ app.base \in Nat /\ app.since \in Nat /\ app.msec \in Nat
      /\ TICK_TO_MSEC(now) \in Nat /\ curMSec \in Nat
      /\ run["task"].base \in Nat /\ run["task"].msec \in Nat
  BY Tens DEF TimeInv, TypeOK, Routine
<1>1. ASSUME UNCHANGED <<now, app, curMSec>>, UNCHANGED timer \/ timer' = [timer EXCEPT !.match = timer'.match],
             run'["task"] = run["task"] \/ run'["task"].at \notin {"count", "again"}
      PROVE  Together' /\ AppReads' /\ TaskReads'
  <2>1. timer'.cur = timer.cur /\ timer'.base = timer.base
    BY <1>1 DEF TimeInv, TypeOK
  <2> QED
    BY <1>1, <2>1 DEF TimeInv, Together, AppReads, TaskReads
<1>2. ASSUME Tick PROVE Together' /\ AppReads' /\ TaskReads'
  <2>1. /\ now' = now + 1 /\ UNCHANGED <<timer, app, run, curMSec>>
        /\ TICK_TO_MSEC(now) <= TICK_TO_MSEC(now + 1) /\ TICK_TO_MSEC(now + 1) \in Nat
    BY <1>0, <1>2, Later, Tens DEF Tick
  <2>2. Together'
    BY <1>0, <2>1 DEF TimeInv, Together
  <2>3. AppReads'
    BY <1>0, <2>1 DEF TimeInv, AppReads
  <2>4. TaskReads'
    BY <1>0, <2>1 DEF TimeInv, TaskReads
  <2> QED
    BY <2>2, <2>3, <2>4
<1>3. ASSUME Interrupt PROVE Together' /\ AppReads' /\ TaskReads'
  <2>0. UNCHANGED <<now, app>> /\ run'["task"] = run["task"]
    BY <1>3 DEF Interrupt, UpdatePeriod, TimeInv, TypeOK, Routine
  <2>1. CASE UNCHANGED <<timer, curMSec>>
    BY <1>1, <2>0, <2>1
  <2>2. CASE /\ timer' = [timer EXCEPT !.cur = timer.cur + Elapsed, !.base = Word(timer.base + Elapsed)]
             /\ curMSec' = TICK_TO_MSEC(timer.cur + Elapsed)
    <3>1. timer'.cur = timer.cur + Elapsed /\ timer'.base = Word(timer.base + Elapsed)
      BY <2>2 DEF TimeInv, TypeOK
    <3>2. Elapsed \in Nat /\ timer.cur + Elapsed = now
          /\ Word(timer.base + Elapsed) = Word(timer.cur + Elapsed)
      BY ElapsedType, ElapsedTicks, Ticks DEF TimeInv
    <3>3. Together'
      BY <1>0, <2>0, <3>1, <3>2 DEF Together
    <3>4. \A b \in Nat : b <= timer.cur => b <= timer'.cur /\ (b = timer'.cur => b = timer.cur)
      BY <1>0, <3>1, <3>2
    <3>5. AppReads'
      BY <1>0, <2>0, <2>2, <3>2, <3>4 DEF TimeInv, AppReads
    <3>6. TaskReads'
      BY <1>0, <2>0, <3>4 DEF TimeInv, TaskReads
    <3> QED
      BY <3>3, <3>5, <3>6
  <2> QED
    BY <1>3, <2>1, <2>2 DEF Interrupt
<1>4. ASSUME AppBase PROVE Together' /\ AppReads' /\ TaskReads'
  <2>1. /\ UNCHANGED <<now, timer, run>> /\ app'.at = "count" /\ app'.base = timer.cur
        /\ app'.since = TICK_TO_MSEC(now) /\ run["task"].at = "off"
    BY <1>4 DEF AppBase, ThreadRuns, At, TimeInv, TypeOK
  <2> QED
    BY <1>0, <2>1 DEF TimeInv, Together, AppReads, TaskReads
<1>5. ASSUME AppCount PROVE Together' /\ AppReads' /\ TaskReads'
  <2>1. /\ UNCHANGED <<now, timer, run>> /\ app'.at = "again" /\ app'.base = app.base
        /\ app'.since = app.since /\ app'.msec = TICK_TO_MSEC(app.base + Elapsed)
        /\ app.at = "count"
    BY <1>5 DEF AppCount, TimeInv, TypeOK, Elapsed
  <2>2. app.base = timer.cur => app'.msec = TICK_TO_MSEC(now)
    BY <2>1, ElapsedTicks DEF TimeInv
  <2> QED
    BY <1>0, <2>1, <2>2 DEF TimeInv, Together, AppReads, TaskReads
<1>6. ASSUME AppAgain PROVE Together' /\ AppReads' /\ TaskReads'
  <2>1. UNCHANGED <<now, timer, run>> /\ app.at = "again"
    BY <1>6 DEF AppAgain
  <2>2. CASE app.base = timer.cur
    <3>1. app'.at = "store" /\ app'.since = app.since /\ app'.msec = app.msec
      BY <1>6, <2>2 DEF AppAgain, Unmoved, TimeInv, TypeOK
    <3> QED
      BY <1>0, <2>1, <2>2, <3>1 DEF TimeInv, Together, AppReads, TaskReads
  <2>3. CASE app.base # timer.cur
    <3>1. app'.at = "count" /\ app'.since = app.since /\ app'.base = timer.cur
      BY <1>6, <2>3 DEF AppAgain, Unmoved, TimeInv, TypeOK
    <3> QED
      BY <1>0, <2>1, <3>1 DEF TimeInv, Together, AppReads, TaskReads
  <2> QED
    BY <2>2, <2>3
<1>7. ASSUME AppStore PROVE Together' /\ AppReads' /\ TaskReads'
  <2>1. /\ UNCHANGED <<now, timer, run>> /\ app.at = "store" /\ app'.at = "return"
        /\ app'.since = app.since /\ curMSec' = app.msec
    BY <1>7 DEF AppStore, TimeInv, TypeOK
  <2> QED
    BY <1>0, <2>1 DEF TimeInv, Together, AppReads, TaskReads
<1>8. ASSUME AppReturn PROVE Together' /\ AppReads' /\ TaskReads'
  <2>1. UNCHANGED <<now, timer, run>> /\ app'.at = "off"
    BY <1>8 DEF AppReturn, AppOff
  <2> QED
    BY <2>1 DEF TimeInv, Together, AppReads, TaskReads
<1>9. ASSUME NEW r \in Routine, Place(r) \/ Read(r) \/ Write(r) \/ Check(r)
      PROVE  Together' /\ AppReads' /\ TaskReads'
  <2>1. /\ UNCHANGED <<now, app, curMSec>>
        /\ UNCHANGED timer \/ timer' = [timer EXCEPT !.match = timer'.match]
    BY <1>9 DEF Place, Read, Write, Check, TimeInv, TypeOK
  <2>2. PICK v : run' = [run EXCEPT ![r] = v] /\ v.at \in {"place", "write", "check", "read", "sleep", "off"}
    <3>1. CASE Read(r)
      <4>1. run' = [run EXCEPT ![r] = [run[r] EXCEPT !.at = "place", !.msec = TICK_TO_MSEC(Count)]]
            /\ [run[r] EXCEPT !.at = "place", !.msec = TICK_TO_MSEC(Count)].at = "place"
        BY <3>1 DEF Read, TimeInv, TypeOK
      <4> QED
        BY <4>1
    <3>2. CASE Place(r)
      <4> PICK v : v = [Off EXCEPT !.at = "write", !.match = Placed(run[r].msec, run[r].period),
                                   !.then = run[r].then]
        OBVIOUS
      <4>1. run' = [run EXCEPT ![r] = v]
        BY <3>2 DEF Place
      <4>2. v.at = "write"
        BY DEF Off
      <4> QED
        BY <4>1, <4>2
    <3>3. CASE Write(r)
      <4>1. run' = [run EXCEPT ![r] = [run[r] EXCEPT !.at = "check"]]
            /\ [run[r] EXCEPT !.at = "check"].at = "check"
        BY <3>3 DEF Write, Goto, TimeInv, TypeOK
      <4> QED
        BY <4>1
    <3>4. CASE Check(r)
      <4>1. run' = [run EXCEPT ![r].at = "sleep", ![r].match = 0] \/ Return(r) \/ UpdatePeriod(r, 1)
        BY <3>4 DEF Check, Leave
      <4>2. /\ [run EXCEPT ![r].at = "sleep", ![r].match = 0]
                 = [run EXCEPT ![r] = [run[r] EXCEPT !.at = "sleep", !.match = 0]]
            /\ [run[r] EXCEPT !.at = "sleep", !.match = 0].at = "sleep"
        BY DEF TimeInv, TypeOK
      <4> PICK v : v = [Off EXCEPT !.at = "read", !.period = 1, !.then = run[r].then]
        OBVIOUS
      <4>3. Off.at = "off" /\ v.at = "read"
        BY DEF Off
      <4>4. Return(r) => run' = [run EXCEPT ![r] = Off]
        BY DEF Return, Leave
      <4>5. UpdatePeriod(r, 1) => run' = [run EXCEPT ![r] = v]
        BY DEF UpdatePeriod
      <4> QED
        BY <4>1, <4>2, <4>3, <4>4, <4>5
    <3> QED
      BY <1>9, <3>1, <3>2, <3>3, <3>4
  <2>3. run'["task"] = run["task"] \/ run'["task"].at \notin {"count", "again"}
    BY <2>2 DEF TimeInv, TypeOK, Routine
  <2> QED
    BY <1>1, <2>1, <2>3
<1>10. ASSUME Land \/ (\E s \in Sleeps : Ask(s)) \/ Look \/ SetPeriod
              \/ (\E d \in Delays : OEMIdle(d)) \/ Wake
       PROVE  Together' /\ AppReads' /\ TaskReads'
  <2>1. /\ UNCHANGED <<now, app, curMSec>>
        /\ UNCHANGED timer \/ timer' = [timer EXCEPT !.match = timer'.match]
    BY <1>10 DEF Land, Ask, Look, SetPeriod, OEMIdle, Wake, TimeInv, TypeOK
  <2>2. run'["task"] = run["task"] \/ run'["task"].at \in {"ask", "read", "off", "base", "write"}
    <3>1. ASSUME NEW p, UpdatePeriod("task", p) PROVE run'["task"].at = "read"
      BY <3>1 DEF UpdatePeriod, Off, TimeInv, TypeOK, Routine
    <3>2. Return("task") => run'["task"].at = "off"
      BY DEF Return, Leave, Off, TimeInv, TypeOK, Routine
    <3>3. Goto("task", "base") => run'["task"].at = "base"
      BY DEF Goto, TimeInv, TypeOK, Routine
    <3>4. ASSUME NEW s \in Sleeps, Ask(s) PROVE run'["task"].at = "ask"
      BY <3>4 DEF Ask, TimeInv, TypeOK, Routine
    <3>5. ASSUME NEW d \in Delays, OEMIdle(d) PROVE run'["task"].at = "write"
      BY <3>5 DEF OEMIdle, TimeInv, TypeOK, Routine
    <3>6. Look => UpdatePeriod("task", 0) \/ Return("task") \/ Goto("task", "base")
      BY DEF Look
    <3>7. SetPeriod => \E p : UpdatePeriod("task", p)
      BY DEF SetPeriod
    <3>8. (Land => run'["task"] = run["task"]) /\ (Wake => Return("task"))
      BY DEF Land, Wake
    <3> QED
      BY <1>10, <3>1, <3>2, <3>3, <3>4, <3>5, <3>6, <3>7, <3>8
  <2> QED
    BY <1>1, <2>1, <2>2
<1>11. ASSUME TakeBase PROVE Together' /\ AppReads' /\ TaskReads'
  <2>1. /\ UNCHANGED <<now, timer, app, curMSec>> /\ run'["task"].at = "count"
        /\ run'["task"].base = timer.cur
    BY <1>11 DEF TakeBase, TimeInv, TypeOK, Routine
  <2> QED
    BY <1>0, <2>1 DEF TimeInv, Together, AppReads, TaskReads
<1>12. ASSUME TakeCount PROVE Together' /\ AppReads' /\ TaskReads'
  <2>1. /\ UNCHANGED <<now, timer, app, curMSec>> /\ run["task"].at = "count"
        /\ run'["task"].base = run["task"].base
        /\ run'["task"].msec = TICK_TO_MSEC(run["task"].base + Elapsed)
    BY <1>12 DEF TakeCount, At, TimeInv, TypeOK, Routine, Elapsed
  <2>2. run["task"].base = timer.cur => run'["task"].msec = TICK_TO_MSEC(now)
    BY <2>1, ElapsedTicks DEF TimeInv
  <2>3. TaskReads'
    BY <1>0, <2>1, <2>2 DEF TimeInv, AppReads, TaskReads
  <2> QED
    BY <1>0, <2>1, <2>3 DEF TimeInv, Together, AppReads
<1>13. ASSUME TakeAgain PROVE Together' /\ AppReads' /\ TaskReads'
  <2>1. UNCHANGED <<now, timer, app>> /\ run["task"].at = "again"
    BY <1>13 DEF TakeAgain, At
  <2>2. run'["task"].at \in {"base", "store"}
    BY <1>13 DEF TakeAgain, Goto, TimeInv, TypeOK, Routine
  <2>3. \/ UNCHANGED curMSec
        \/ run["task"].base = timer.cur /\ curMSec' = run["task"].msec
    BY <1>13 DEF TakeAgain
  <2>4. AppReads'
    BY <1>0, <2>1, <2>3 DEF TimeInv, AppReads, TaskReads
  <2> QED
    BY <1>0, <2>1, <2>2, <2>4 DEF TimeInv, Together, TaskReads
<1> QED
  BY <1>2, <1>3, <1>4, <1>5, <1>6, <1>7, <1>8, <1>9, <1>10, <1>11, <1>12, <1>13 DEF Next

LEMMA TimeInvariance == Spec /\ []InTurn => []TimeInv
<1>1. Init => Together /\ AppReads /\ TaskReads
  BY Ticks DEF Init, Together, AppReads, TaskReads, Count, AppOff, Off, Routine
<1>2. TypeOK /\ TypeOK' /\ Together /\ AppReads /\ TaskReads /\ InTurn /\ [Next]_vars
        => Together' /\ AppReads' /\ TaskReads'
  <2>1. ASSUME TypeOK, Together, AppReads, TaskReads, UNCHANGED vars
        PROVE  Together' /\ AppReads' /\ TaskReads'
    BY <2>1 DEF vars, Together, AppReads, TaskReads
  <2> QED
    BY <2>1, TimeKept DEF TimeInv
<1> QED
  BY <1>1, <1>2, TypeCorrect, PTL DEF Spec, TimeInv

\* The time that OEMGetTickCount returns is the time at some moment of the call, whatever
\* interrupts and calls of the kernel came in between, also between the store of CurMSec and its
\* being read again: the loop at timer.c:717 needs no lock.  It holds as long as less than a turn
\* of the counter (36 hours in hardware) passes between two interrupts that bring the time up to
\* date, for a counter of any width and any delays.
THEOREM TimeIsExact == Spec /\ []InTurn => TickCountExact
<1>1. TimeInv => [app.at = "return" /\ app'.at = "off"
                    => curMSec \in app.since..TICK_TO_MSEC(now)]_vars
  BY DEF TimeInv, AppReads
<1> QED
  BY <1>1, TimeInvariance, PTL DEF TickCountExact

-----------------------------------------------------------------------------
(* What the routines work with                                             *)

\* How far ahead a match is placed.
Span == Margin + 32

\* A stretch of timer code takes a tick at most, a match that is placed on the next millisecond
\* is in reach, and the counter has room for a match to either side of it.
Quick == Lag <= 1 /\ Margin >= 2 /\ Span <= Reach /\ 2 * Reach + 4 < Turn

\* A routine is about to write the match register.
Writing == {"read", "place", "write"}

\* When the stretch of timer code that runs began.
Since == now - lag

\* The handler interrupts the kernel's call, but not OEMIdle.
Nesting ==
    /\ run["isr"].then = "off" /\ run["isr"].at \in {"off", "read", "place", "write", "check"}
    /\ run["isr"].at # "off" => run["task"].then = "off"
    /\ run["task"].then = "sleep" =>
         run["task"].at \in {"read", "place", "write", "check", "sleep"}
    /\ run["task"].at = "sleep" => run["task"].then = "sleep"
    /\ lag # 0 => Busy(run, flag)
    /\ lag <= now

\* The kernel asks for a time that has not passed.
Fresh == TICK_TO_MSEC(Since) <= resched
Asked == run["task"].at \notin {"off", "sleep"} /\ run["task"].then = "off" => Fresh

\* What a routine has read is a time of the stretch that runs, and what it has placed is ahead by
\* more than the ticks that may still pass, unless OEMIdle has placed it.
Timed(r) ==
    /\ run[r].at = "place" =>
         \E n \in Nat : now - lag <= n /\ n <= now /\ run[r].msec = TICK_TO_MSEC(n)
    /\ run[r].at \in {"write", "check"} /\ run[r].then = "off" =>
         run[r].match >= now + 2 - lag /\ run[r].match <= now + Span

Base == Nesting /\ Asked /\ Timed("isr") /\ Timed("task")

\* A whole millisecond read from the counter loses less than 33 ticks.
LEMMA WholeMsec ==
    ASSUME NEW n \in Nat
    PROVE  MSEC_TO_TICK(TICK_TO_MSEC(n)) >= n - 32 /\ MSEC_TO_TICK(TICK_TO_MSEC(n)) <= n + 1
<1> PICK q \in Int : q = (n * 1000) \div 32768
  OBVIOUS
<1>1. 32768 * q <= 1000 * n /\ 1000 * n < 32768 * q + 32768
  OBVIOUS
<1> PICK p \in Int : p = (q * 4096) \div 125
  OBVIOUS
<1>2. 125 * p <= 4096 * q /\ 4096 * q < 125 * p + 125
  OBVIOUS
<1>3. p <= n /\ p >= n - 33
  BY <1>1, <1>2
<1> QED
  BY <1>3 DEF MSEC_TO_TICK, TICK_TO_MSEC

\* Small numbers are their own signed words.
LEMMA SignedOf ==
    ASSUME NEW n \in Int, NEW k \in Nat, 2 * k + 2 < Turn, n <= k, 0 - k <= n
    PROVE  Signed(n) = n
<1>1. Turn \in Nat \ {0} /\ Turn \div 2 \in Int /\ 2 * (Turn \div 2) <= Turn
      /\ Turn <= 2 * (Turn \div 2) + 1
  BY Ticks
<1>2. CASE n >= 0
  <2>1. n \in 0..Turn - 1 /\ n < Turn \div 2
    BY <1>1, <1>2
  <2> QED
    BY <1>1, <2>1, WordOf DEF Signed
<1>3. CASE n < 0
  <2>1. n + Turn \in 0..Turn - 1 /\ (n + Turn) - Turn = n /\ n + Turn >= Turn \div 2
    BY <1>1, <1>3
  <2>2. Word((n + Turn) - Turn) = n + Turn
    BY <2>1, WordOf
  <2> QED
    BY <1>1, <2>1, <2>2 DEF Signed
<1> QED
  BY <1>2, <1>3

\* UpdatePeriod moves the match when it is within the margin.
LEMMA PlacedIs ==
    ASSUME Quick, BeforeTurn, now \in Nat, NEW n \in Nat, now - 1 <= n, n <= now,
           NEW period \in Nat,
           NEW match, match = MSEC_TO_TICK(TICK_TO_MSEC(n)) + Least(MSEC_TO_TICK(period), Margin)
    PROVE  /\ match \in Nat /\ match >= n - 31 /\ match <= n + 1 + Margin
           /\ match < now + Margin => Placed(TICK_TO_MSEC(n), period) = match + 33
           /\ match >= now + Margin => Placed(TICK_TO_MSEC(n), period) = match
<1>0. Margin \in Nat /\ Reach \in Nat /\ Turn \in Nat /\ MSEC_TO_TICK(1) = 33
      /\ Span = Margin + 32
  BY Ticks DEF MSEC_TO_TICK, Span
<1> PICK a \in Nat : a = MSEC_TO_TICK(TICK_TO_MSEC(n)) /\ n - 32 <= a /\ a <= n + 1
  BY Tens, WholeMsec
<1> PICK b \in Nat : b = Least(MSEC_TO_TICK(period), Margin) /\ 1 <= b /\ b <= Margin
  BY <1>0 DEF Least, MSEC_TO_TICK, Quick
<1>1. match = a + b /\ match \in Nat /\ match >= n - 31 /\ match <= n + 1 + Margin
  BY <1>0
<1>2. Count = now
  BY <1>0, WordOf DEF Count, BeforeTurn
<1>3. Signed(Count + Margin - match) = now + Margin - match
  <2>1. now + Margin - match <= Reach /\ 0 - Reach <= now + Margin - match
    BY <1>0, <1>1 DEF Quick
  <2>2. 2 * Reach + 2 < Turn
    BY <1>0 DEF Quick
  <2> QED
    BY <1>0, <1>1, <1>2, <2>1, <2>2, SignedOf
<1>4. ASSUME match < now + Margin PROVE Placed(TICK_TO_MSEC(n), period) = match + 33
  <2>1. match + 33 \in 0..Turn - 1
    BY <1>0, <1>1, <1>4 DEF Quick, BeforeTurn
  <2>2. Placed(TICK_TO_MSEC(n), period) = Word(match + 33)
    BY <1>0, <1>1, <1>3, <1>4 DEF Placed
  <2> QED
    BY <2>1, <2>2, WordOf
<1>5. ASSUME match >= now + Margin PROVE Placed(TICK_TO_MSEC(n), period) = match
  <2>1. match \in 0..Turn - 1
    BY <1>0, <1>1, <1>5 DEF Quick, BeforeTurn
  <2>2. Placed(TICK_TO_MSEC(n), period) = Word(match)
    BY <1>0, <1>1, <1>3, <1>5 DEF Placed
  <2> QED
    BY <2>1, <2>2, WordOf
<1> QED
  BY <1>1, <1>4, <1>5

\* UpdatePeriod puts the match ahead of the time it has read.
LEMMA PlacedAhead ==
    ASSUME Quick, BeforeTurn, now \in Nat, NEW n \in Nat, now - 1 <= n, n <= now,
           NEW period \in Nat
    PROVE  /\ Placed(TICK_TO_MSEC(n), period) >= n + 2
           /\ Placed(TICK_TO_MSEC(n), period) <= now + Span
<1> PICK match : match = MSEC_TO_TICK(TICK_TO_MSEC(n)) + Least(MSEC_TO_TICK(period), Margin)
  OBVIOUS
<1>1. /\ match \in Nat /\ match >= n - 31 /\ match <= n + 1 + Margin
      /\ match < now + Margin => Placed(TICK_TO_MSEC(n), period) = match + 33
      /\ match >= now + Margin => Placed(TICK_TO_MSEC(n), period) = match
  BY PlacedIs
<1>2. Margin \in Nat /\ Margin >= 2 /\ Span = Margin + 32
  BY Ticks DEF Quick, Span
<1>3. match < now + Margin \/ match >= now + Margin
  BY <1>1, <1>2
<1> QED
  BY <1>1, <1>2, <1>3

\* Where the counter has not turned, a word is what it stands for.
LEMMA Plain ==
    ASSUME TypeOK, BeforeTurn
    PROVE  /\ Count = now /\ Word(now + 1) = now + 1
           /\ Armed \in Nat /\ timer.match \in Nat /\ now \in Nat /\ lag \in Nat
           /\ Reach \in Nat /\ Turn \in Nat
           /\ \A r \in Routine : run[r] \in Frame /\ run[r].match \in Nat
<1>1. now \in Nat /\ Reach \in Nat /\ Turn \in Nat /\ now \in 0..Turn - 1 /\ now + 1 \in 0..Turn - 1
  BY Ticks DEF TypeOK, BeforeTurn
<1>2. Armed \in Nat /\ timer.match \in Nat /\ lag \in Nat
  BY Ticks DEF TypeOK, Armed
<1>3. \A r \in Routine : run[r] \in Frame /\ run[r].match \in Nat
  BY <1>1 DEF TypeOK, Frame
<1> QED
  BY <1>1, <1>2, <1>3, WordOf DEF Count

LEMMA Onwards ==
    ASSUME TypeOK, [Next]_vars
    PROVE  /\ now' = now \/ (Tick /\ now' = now + 1)
           /\ BeforeTurn' => BeforeTurn
<1>1. now' = now \/ (Tick /\ now' = now + 1)
  BY DEF Next, vars, Tick, Land, Interrupt, Read, Place, Write, Check, Ask, Look, TakeBase,
         TakeCount, TakeAgain, SetPeriod, OEMIdle, Wake, AppBase, AppCount, AppAgain, AppStore,
         AppReturn
<1> QED
  BY <1>1, Ticks DEF BeforeTurn, TypeOK

\* A step of the handler.
LEMMA IsrMoves ==
    ASSUME TypeOK, Base, NEW v \in Frame, run' = [run EXCEPT !["isr"] = v], v.then = "off",
           v.at \in {"off", "read", "place", "write", "check"},
           v.at # "off" => run["task"].then = "off",
           UNCHANGED <<now, resched>>, Timed("isr")',
           \/ UNCHANGED lag /\ Busy(run', flag')
           \/ lag' = 0 /\ run["task"].at \in {"off", "sleep"}
    PROVE  Base'
<1>1. run'["isr"] = v /\ run'["task"] = run["task"] /\ now \in Nat /\ lag \in Nat
  BY Ticks DEF TypeOK, Routine
<1>2. Nesting'
  BY <1>1 DEF Base, Nesting
<1>3. Asked' /\ Timed("task")'
  BY <1>1 DEF Base, Asked, Fresh, Since, Timed
<1> QED
  BY <1>2, <1>3 DEF Base

\* A step of the kernel's call or of OEMIdle.
LEMMA TaskMoves ==
    ASSUME TypeOK, Base, NEW v \in Frame, run' = [run EXCEPT !["task"] = v], run["isr"].at = "off",
           v.then = "sleep" => v.at \in {"read", "place", "write", "check", "sleep"},
           v.at = "sleep" => v.then = "sleep",
           v.at \notin {"off", "sleep"} /\ v.then = "off" => Fresh',
           UNCHANGED now, Timed("task")',
           (UNCHANGED lag /\ Busy(run', flag')) \/ lag' = 0
    PROVE  Base'
<1>1. run'["task"] = v /\ run'["isr"] = run["isr"] /\ now \in Nat /\ lag \in Nat
  BY Ticks DEF TypeOK, Routine
<1>2. Nesting'
  BY <1>1 DEF Base, Nesting
<1>3. Asked' /\ Timed("isr")'
  BY <1>1 DEF Asked, Timed
<1> QED
  BY <1>2, <1>3 DEF Base

\* A step of the kernel's call that goes on, with nothing placed.
LEMMA TaskGoesOn ==
    ASSUME TypeOK, Base, NEW v \in Frame, run' = [run EXCEPT !["task"] = v], run["isr"].at = "off",
           run["task"].at \notin {"off", "sleep"}, v.then = run["task"].then,
           v.at \in {"base", "count", "again", "store", "read"},
           v.then = "sleep" => v.at = "read",
           UNCHANGED <<now, lag, resched>>
    PROVE  Base'
<1>1. run'["task"] = v
  BY DEF TypeOK, Routine
<1>2. Timed("task")' /\ Busy(run', flag')
  BY <1>1 DEF Timed, Busy
<1>3. v.then = "off" => Fresh'
  BY DEF Base, Asked, Fresh, Since
<1> QED
  BY <1>2, <1>3, TaskMoves

\* A step by which a routine leaves.
LEMMA Leaves ==
    ASSUME TypeOK, Base, NEW r \in Routine, NEW v \in Frame, Leave([run EXCEPT ![r] = v]),
           r = "isr" => v = Off, r = "task" => run["isr"].at = "off",
           v = Off \/ (v.at = "sleep" /\ v.then = "sleep"),
           UNCHANGED <<now, flag, resched>>
    PROVE  Base'
<1>1. run' = [run EXCEPT ![r] = v] /\ lag' = IF Busy(run', flag') THEN lag ELSE 0
  BY DEF Leave
<1>2. Off.at = "off" /\ Off.then = "off"
  BY DEF Off
<1>3. CASE r = "isr"
  <2>1. run'["isr"] = v /\ run'["task"] = run["task"]
    BY <1>1, <1>3 DEF TypeOK, Routine
  <2>2. Timed("isr")'
    BY <1>2, <1>3, <2>1 DEF Timed
  <2>3. ~Busy(run', flag') => run["task"].at \in {"off", "sleep"}
    BY <2>1, Zenon DEF Busy
  <2> QED
    BY <1>1, <1>2, <1>3, <2>2, <2>3, IsrMoves
<1>4. CASE r = "task"
  <2>1. run'["task"] = v
    BY <1>1, <1>4 DEF TypeOK, Routine
  <2>2. Timed("task")'
    BY <1>2, <2>1 DEF Timed
  <2> QED
    BY <1>1, <1>2, <1>4, <2>2, TaskMoves
<1> QED
  BY <1>3, <1>4 DEF Routine

LEMMA BaseKept ==
    ASSUME Quick, TypeOK, BeforeTurn, Base, Next
    PROVE  Base'
<1>0. /\ Count = now /\ now \in Nat /\ lag \in Nat /\ lag <= 1 /\ Turn \in Nat
      /\ run["isr"] \in Frame /\ run["task"] \in Frame /\ "isr" \in Routine /\ "task" \in Routine
      /\ \A r \in Routine : run[r] \in Frame /\ run[r].match \in Nat
  BY Plain, Ticks DEF Quick, TypeOK, Routine
<1>1. Off \in Frame /\ Off.at = "off" /\ Off.then = "off"
  <2>1. "off" \in Where /\ 0 \in Nat /\ 0 \in 0..Turn - 1
    BY Ticks DEF Where
  <2> QED
    BY <2>1, OffType DEF Off
<1>2. ASSUME Tick PROVE Base'
  <2>1. /\ now' = now + 1 /\ UNCHANGED <<run, resched>> /\ (flag => flag')
        /\ lag' = IF Busy(run, flag) THEN lag + 1 ELSE 0
    BY <1>2, Zenon DEF Tick, kernel
  <2>2. CASE Busy(run, flag)
    <3>1. Busy(run', flag') /\ lag' = lag + 1
      BY <2>1, <2>2, Zenon DEF Busy
    <3>2. Nesting'
      BY <1>0, <2>1, <3>1 DEF Base, Nesting
    <3>3. Since' = Since
      BY <1>0, <2>1, <3>1 DEF Since
    <3>4. Asked'
      BY <2>1, <3>3 DEF Base, Asked, Fresh
    <3>5. ASSUME NEW r \in Routine PROVE Timed(r)'
      <4>1. Timed(r) /\ run'[r] = run[r] /\ now' - lag' = now - lag
            /\ now' + 2 - lag' = now + 2 - lag /\ run[r].match \in Nat /\ Span \in Nat
        BY <1>0, <2>1, <3>1, Ticks DEF Base, Routine, Span
      <4>2. \A n \in Nat : n <= now => n <= now'
        BY <1>0, <2>1
      <4>3. run[r].match <= now + Span => run[r].match <= now' + Span
        BY <1>0, <2>1, <4>1
      <4> QED
        BY <4>1, <4>2, <4>3 DEF Timed
    <3> QED
      BY <1>0, <3>2, <3>4, <3>5 DEF Base
  <2>3. CASE ~Busy(run, flag)
    <3>1. run["isr"].at = "off" /\ run["task"].at \in {"off", "sleep"} /\ lag' = 0
      BY <2>1, <2>3, Zenon DEF Busy
    <3>2. Nesting' /\ Asked' /\ Timed("isr")' /\ Timed("task")'
      BY <1>0, <2>1, <3>1 DEF Base, Nesting, Asked, Timed
    <3> QED
      BY <3>2 DEF Base
  <2> QED
    BY <2>2, <2>3
<1>3. ASSUME Land PROVE Base'
  <2>1. UNCHANGED <<now, run, lag, resched>> /\ (flag => flag')
    BY <1>3, Zenon DEF Land, kernel
  <2>2. Busy(run, flag) => Busy(run', flag')
    BY <2>1, Zenon DEF Busy
  <2> QED
    BY <2>1, <2>2 DEF Base, Nesting, Asked, Fresh, Since, Timed
<1>4. ASSUME Interrupt PROVE Base'
  <2>1. TICK_TO_MSEC(timer.cur + Elapsed) \in Nat
    BY <1>0, ElapsedType, Tens, Ticks DEF TypeOK
  <2>2. PICK period \in Nat : UpdatePeriod("isr", period)
    BY <1>0, <1>4, <2>1, Ticks DEF Interrupt, TypeOK, Reached
  <2> PICK v : v = [Off EXCEPT !.at = "read", !.period = period, !.then = run["isr"].then]
    OBVIOUS
  <2>3. v \in Frame /\ v.at = "read" /\ v.then = "off"
    <3>1. "read" \in Where /\ run["isr"].then = "off" /\ 0 \in 0..Turn - 1
      BY Ticks DEF Where, Base, Nesting
    <3>2. v \in Frame
      BY <3>1, OffType
    <3> QED
      BY <3>1, <3>2 DEF Off
  <2>4. run' = [run EXCEPT !["isr"] = v] /\ UNCHANGED <<now, resched, lag>>
        /\ run["task"].then = "off"
    BY <1>0, <1>4, <2>2 DEF UpdatePeriod, Interrupt, Masked, Frame
  <2>5. run'["isr"] = v
    BY <2>4 DEF TypeOK, Routine
  <2>6. Timed("isr")' /\ Busy(run', flag')
    BY <2>3, <2>5 DEF Timed, Busy
  <2> QED
    BY <2>3, <2>4, <2>6, IsrMoves
<1>5. ASSUME NEW r \in Routine, NEW v \in Frame, run' = [run EXCEPT ![r] = v], v.then = run[r].then,
             run[r].at \notin {"off", "sleep"}, r = "task" => run["isr"].at = "off",
             v.at \in {"place", "write", "check"}, UNCHANGED <<now, lag, resched>>, Timed(r)'
      PROVE  Base'
  <2>1. run'[r] = v
    BY <1>5 DEF TypeOK
  <2>2. CASE r = "isr"
    <3>1. Busy(run', flag') /\ v.then = "off" /\ run["task"].then = "off"
      BY <1>5, <2>1, <2>2 DEF Busy, Base, Nesting
    <3> QED
      BY <1>5, <2>2, <3>1, IsrMoves
  <2>3. CASE r = "task"
    <3>1. Busy(run', flag')
      BY <1>5, <2>1, <2>3 DEF Busy
    <3>2. v.then = "off" => Fresh'
      BY <1>5, <2>3 DEF Base, Asked, Fresh, Since
    <3> QED
      BY <1>5, <2>3, <3>1, <3>2, TaskMoves
  <2> QED
    BY <2>2, <2>3 DEF Routine
<1>6. ASSUME NEW r \in Routine, Read(r) PROVE Base'
  <2> PICK v : v = [run[r] EXCEPT !.at = "place", !.msec = TICK_TO_MSEC(now)]
    OBVIOUS
  <2>1. v \in Frame /\ v.at = "place" /\ v.then = run[r].then /\ v.msec = TICK_TO_MSEC(now)
    <3>1. TICK_TO_MSEC(now) \in Nat
      BY <1>0, Tens
    <3> QED
      BY <1>0, <3>1 DEF Frame, Where
  <2>2. run' = [run EXCEPT ![r] = v]
    BY <1>0, <1>6 DEF Read, TypeOK
  <2>3. UNCHANGED <<now, lag, resched>> /\ run[r].at = "read" /\ (r = "task" => run["isr"].at = "off")
    BY <1>6 DEF Read, At, Runs, kernel
  <2>4. run'[r] = v
    BY <2>2 DEF TypeOK
  <2>5. Timed(r)'
    BY <1>0, <2>1, <2>3, <2>4 DEF Timed
  <2> QED
    BY <1>5, <2>1, <2>2, <2>3, <2>5
<1>7. ASSUME NEW r \in Routine, Place(r) PROVE Base'
  <2> PICK match : match = Placed(run[r].msec, run[r].period)
    OBVIOUS
  <2>1. PICK n \in Nat : now - lag <= n /\ n <= now /\ run[r].msec = TICK_TO_MSEC(n)
    BY <1>7 DEF Place, At, Base, Timed, Routine
  <2>2. match \in 0..Turn - 1 /\ match >= now + 2 - lag /\ match <= now + Span
    <3>1. now - 1 <= n /\ run[r].period \in Nat
      BY <1>0, <2>1 DEF Frame
    <3>2. match \in 0..Turn - 1
      BY <1>0, PlacedType DEF Frame
    <3>3. match >= n + 2 /\ match <= now + Span
      BY <1>0, <2>1, <3>1, PlacedAhead
    <3> QED
      BY <1>0, <2>1, <3>2, <3>3
  <2> PICK v : v = [Off EXCEPT !.at = "write", !.match = match, !.then = run[r].then]
    OBVIOUS
  <2>3. v \in Frame /\ v.at = "write" /\ v.then = run[r].then /\ v.match = match
    <3>1. "write" \in Where /\ run[r].then \in {"off", "sleep"} /\ 0 \in Nat
      BY <1>0 DEF Where, Frame
    <3>2. v \in Frame
      BY <2>2, <3>1, OffType
    <3> QED
      BY <3>2 DEF Off
  <2>4. run' = [run EXCEPT ![r] = v] /\ UNCHANGED <<now, lag, resched>> /\ run[r].at = "place"
        /\ (r = "task" => run["isr"].at = "off")
    BY <1>7 DEF Place, At, Runs, kernel
  <2>5. run'[r] = v
    BY <2>4 DEF TypeOK
  <2>6. Timed(r)'
    BY <2>2, <2>3, <2>4, <2>5 DEF Timed
  <2> QED
    BY <1>5, <2>3, <2>4, <2>6
<1>8. ASSUME NEW r \in Routine, Write(r) PROVE Base'
  <2> PICK v : v = [run[r] EXCEPT !.at = "check"]
    OBVIOUS
  <2>1. v \in Frame /\ v.at = "check" /\ v.then = run[r].then /\ v.match = run[r].match
    BY <1>0 DEF Frame, Where
  <2>2. run' = [run EXCEPT ![r] = v]
    BY <1>8 DEF Write, Goto, TypeOK
  <2>3. UNCHANGED <<now, lag, resched>> /\ run[r].at = "write" /\ (r = "task" => run["isr"].at = "off")
    BY <1>8 DEF Write, Goto, At, Runs, kernel
  <2>4. run'[r] = v
    BY <2>2 DEF TypeOK
  <2>5. Timed(r)'
    BY <2>1, <2>3, <2>4 DEF Base, Timed, Routine
  <2> QED
    BY <1>5, <2>1, <2>2, <2>3, <2>5
<1>9. ASSUME NEW r \in Routine, Return(r), r = "task" => run["isr"].at = "off",
             UNCHANGED <<now, flag, resched>>
      PROVE  Base'
  BY <1>1, <1>9, Leaves DEF Return
<1>10. ASSUME NEW r \in Routine, Check(r) PROVE Base'
  <2>1. UNCHANGED <<now, flag, resched>> /\ run[r].at = "check" /\ (r = "task" => run["isr"].at = "off")
    BY <1>10 DEF Check, At, Runs, kernel, hardware
  <2>2. CASE Behind(run[r].match)
    <3>1. run[r].then # "off"
      BY <1>0, <2>1, <2>2 DEF Behind, Base, Timed, Routine
    <3>2. r = "task" /\ run["isr"].at = "off"
      BY <2>1, <3>1 DEF Base, Nesting, Routine
    <3>3. UpdatePeriod("task", 1) /\ lag' = 0
      BY <1>10, <2>2, <3>2 DEF Check
    <3> PICK v : v = [Off EXCEPT !.at = "read", !.period = 1, !.then = run["task"].then]
      OBVIOUS
    <3>4. v \in Frame /\ v.at = "read" /\ v.then = run["task"].then
      <4>1. "read" \in Where /\ run["task"].then \in {"off", "sleep"} /\ 0 \in 0..Turn - 1 /\ 1 \in Nat
        BY <1>0, Ticks DEF Where, Frame
      <4>2. v \in Frame
        BY <4>1, OffType
      <4> QED
        BY <4>2 DEF Off
    <3>5. run' = [run EXCEPT !["task"] = v]
      BY <3>3 DEF UpdatePeriod
    <3>6. Timed("task")'
      BY <1>0, <3>4, <3>5 DEF Timed, TypeOK
    <3> QED
      BY <2>1, <3>1, <3>2, <3>3, <3>4, <3>5, <3>6, TaskMoves
  <2>3. CASE ~Behind(run[r].match) /\ run[r].then = "sleep"
    <3> PICK v : v = [run[r] EXCEPT !.at = "sleep", !.match = 0]
      OBVIOUS
    <3>1. v \in Frame /\ v.at = "sleep" /\ v.then = "sleep"
      <4>1. 0 \in 0..Turn - 1
        BY Ticks
      <4> QED
        BY <1>0, <2>3, <4>1 DEF Frame, Where
    <3>2. [run EXCEPT ![r].at = "sleep", ![r].match = 0] = [run EXCEPT ![r] = v]
      BY <1>0 DEF TypeOK
    <3>3. Leave([run EXCEPT ![r] = v])
      BY <1>10, <2>3, <3>2 DEF Check
    <3>4. r # "isr"
      BY <2>3 DEF Base, Nesting
    <3> QED
      BY <2>1, <3>1, <3>3, <3>4, Leaves
  <2>4. CASE ~Behind(run[r].match) /\ run[r].then # "sleep"
    <3>1. Return(r)
      BY <1>10, <2>4 DEF Check
    <3> QED
      BY <1>9, <2>1, <3>1
  <2> QED
    BY <2>2, <2>3, <2>4
<1>11. ASSUME NEW s \in Sleeps, Ask(s) PROVE Base'
  <2> PICK v : v = [run["task"] EXCEPT !.at = "ask", !.msec = curMSec]
    OBVIOUS
  <2>1. v \in Frame /\ v.at = "ask" /\ v.then = run["task"].then
    BY <1>0 DEF Frame, Where, TypeOK
  <2>2. run' = [run EXCEPT !["task"] = v]
    BY <1>0, <1>11 DEF Ask, TypeOK
  <2>3. UNCHANGED <<now, lag>> /\ run["isr"].at = "off" /\ run["task"].at = "off"
        /\ resched' = TICK_TO_MSEC(now) + s
    BY <1>11 DEF Ask, ThreadRuns, At
  <2>4. run["task"].then = "off"
    BY <1>0, <2>3 DEF Base, Nesting, Frame
  <2>5. Fresh'
    <3>1. Since \in Nat /\ Since <= now
      BY <1>0 DEF Since, Base, Nesting
    <3>2. TICK_TO_MSEC(Since) <= TICK_TO_MSEC(now) /\ TICK_TO_MSEC(now) \in Nat
          /\ TICK_TO_MSEC(Since) \in Nat /\ s \in Nat
      BY <1>0, <3>1, Later, Tens, Ticks
    <3>3. Since' = Since
      BY <2>3 DEF Since
    <3> QED
      BY <2>3, <3>2, <3>3 DEF Fresh
  <2>6. run'["task"] = v
    BY <2>2 DEF TypeOK, Routine
  <2>7. Timed("task")' /\ Busy(run', flag')
    BY <2>1, <2>6 DEF Timed, Busy
  <2> QED
    BY <2>1, <2>2, <2>3, <2>4, <2>5, <2>7, TaskMoves
<1>12. ASSUME NEW period \in Nat, UpdatePeriod("task", period), run["isr"].at = "off",
              run["task"].at \notin {"off", "sleep"}, UNCHANGED <<now, lag, resched>>
       PROVE  Base'
  <2> PICK v : v = [Off EXCEPT !.at = "read", !.period = period, !.then = run["task"].then]
    OBVIOUS
  <2>1. v \in Frame /\ v.at = "read" /\ v.then = run["task"].then
    <3>1. "read" \in Where /\ run["task"].then \in {"off", "sleep"} /\ 0 \in 0..Turn - 1
      BY <1>0, Ticks DEF Where, Frame
    <3>2. v \in Frame
      BY <3>1, OffType
    <3> QED
      BY <3>2 DEF Off
  <2>2. run' = [run EXCEPT !["task"] = v]
    BY <1>12 DEF UpdatePeriod
  <2> QED
    BY <1>12, <2>1, <2>2, TaskGoesOn
<1>13. ASSUME NEW where \in {"base", "store"}, Goto("task", where), run["isr"].at = "off",
              run["task"].at \in {"ask", "again"}, UNCHANGED <<now, resched>>
       PROVE  Base'
  <2> PICK v : v = [run["task"] EXCEPT !.at = where]
    OBVIOUS
  <2>1. v \in Frame /\ v.at = where /\ v.then = run["task"].then
    BY <1>0 DEF Frame, Where
  <2>2. run' = [run EXCEPT !["task"] = v] /\ UNCHANGED lag
    BY <1>13 DEF Goto, TypeOK
  <2>3. v.then # "sleep"
    BY <1>13, <2>1 DEF Base, Nesting
  <2> QED
    BY <1>13, <2>1, <2>2, <2>3, TaskGoesOn
<1>14. ASSUME Look PROVE Base'
  <2>1. /\ UNCHANGED <<now, flag, resched>> /\ run["task"].at = "ask" /\ run["isr"].at = "off"
    BY <1>14 DEF Look, Runs, At, hardware, kernel
  <2>2. \/ UpdatePeriod("task", 0) /\ UNCHANGED lag
        \/ Return("task")
        \/ Goto("task", "base")
    BY <1>14 DEF Look
  <2> QED
    BY <1>0, <1>9, <1>12, <1>13, <2>1, <2>2
<1>15. ASSUME TakeBase PROVE Base'
  <2> PICK v : v = [run["task"] EXCEPT !.at = "count", !.base = timer.cur]
    OBVIOUS
  <2>1. v \in Frame /\ v.at = "count" /\ v.then = run["task"].then
    BY <1>0 DEF Frame, Where, TypeOK
  <2>2. run' = [run EXCEPT !["task"] = v]
    BY <1>0, <1>15 DEF TakeBase, TypeOK
  <2>3. UNCHANGED <<now, lag, resched>> /\ run["task"].at = "base" /\ run["isr"].at = "off"
    BY <1>15 DEF TakeBase, Runs, At, kernel
  <2>4. v.then # "sleep"
    BY <2>1, <2>3 DEF Base, Nesting
  <2> QED
    BY <2>1, <2>2, <2>3, <2>4, TaskGoesOn
<1>16. ASSUME TakeCount PROVE Base'
  <2> PICK m : m = TICK_TO_MSEC(run["task"].base + Word(Count - timer.base))
    OBVIOUS
  <2>0. m \in Nat
    <3>1. Word(Count - timer.base) \in Nat /\ run["task"].base \in Nat
      BY <1>0, ElapsedType, Ticks DEF Elapsed, Frame
    <3> QED
      BY <3>1, Tens
  <2> PICK v : v = [run["task"] EXCEPT !.at = "again", !.msec = m]
    OBVIOUS
  <2>1. v \in Frame /\ v.at = "again" /\ v.then = run["task"].then
    BY <1>0, <2>0 DEF Frame, Where
  <2>2. run' = [run EXCEPT !["task"] = v]
    BY <1>0, <1>16 DEF TakeCount, TypeOK
  <2>3. UNCHANGED <<now, lag, resched>> /\ run["task"].at = "count" /\ run["isr"].at = "off"
    BY <1>16 DEF TakeCount, Runs, At, kernel
  <2>4. v.then # "sleep"
    BY <2>1, <2>3 DEF Base, Nesting
  <2> QED
    BY <2>1, <2>2, <2>3, <2>4, TaskGoesOn
<1>17. ASSUME TakeAgain PROVE Base'
  <2>1. UNCHANGED <<now, resched>> /\ run["task"].at = "again" /\ run["isr"].at = "off"
    BY <1>17 DEF TakeAgain, Runs, At, kernel
  <2>2. Goto("task", "base") \/ Goto("task", "store")
    BY <1>17 DEF TakeAgain
  <2> QED
    BY <1>13, <2>1, <2>2
<1>18. ASSUME SetPeriod PROVE Base'
  <2>1. UNCHANGED <<now, lag, resched>> /\ run["task"].at = "store" /\ run["isr"].at = "off"
    BY <1>18 DEF SetPeriod, Runs, At, kernel
  <2>2. PICK period \in Nat : UpdatePeriod("task", period)
    BY <1>18, Ticks DEF SetPeriod, Least, TypeOK
  <2> QED
    BY <1>12, <2>1, <2>2
<1>19. ASSUME NEW d \in Delays, OEMIdle(d) PROVE Base'
  <2> PICK match : match = Word(timer.match - d)
    OBVIOUS
  <2>1. match \in 0..Turn - 1
    <3>1. timer.match - d \in Int
      BY <1>0, Ticks DEF TypeOK
    <3> QED
      BY <3>1, DivMod
  <2> PICK v : v = [run["task"] EXCEPT !.at = "write", !.then = "sleep", !.match = match]
    OBVIOUS
  <2>2. v \in Frame /\ v.at = "write" /\ v.then = "sleep"
    BY <1>0, <2>1 DEF Frame, Where
  <2>3. run' = [run EXCEPT !["task"] = v]
    BY <1>0, <1>19 DEF OEMIdle, TypeOK
  <2>4. UNCHANGED <<now, lag, resched>> /\ run["isr"].at = "off"
    BY <1>19 DEF OEMIdle, ThreadRuns, At, kernel
  <2>5. run'["task"] = v
    BY <2>3 DEF TypeOK, Routine
  <2>6. Timed("task")' /\ Busy(run', flag')
    BY <2>2, <2>5 DEF Timed, Busy
  <2> QED
    BY <2>2, <2>3, <2>4, <2>6, TaskMoves
<1>20. ASSUME Wake PROVE Base'
  <2>1. UNCHANGED <<now, flag, resched>> /\ Return("task") /\ run["task"].at = "sleep"
    BY <1>20 DEF Wake, At, hardware, kernel
  <2>2. run["isr"].at = "off"
    BY <2>1 DEF Base, Nesting
  <2> QED
    BY <1>0, <1>9, <2>1, <2>2
<1>21. ASSUME AppBase \/ AppCount \/ AppAgain \/ AppStore \/ AppReturn PROVE Base'
  <2>1. UNCHANGED <<now, flag, run, lag, resched>>
    BY <1>21 DEF AppBase, AppCount, AppAgain, AppStore, AppReturn, hardware, kernel
  <2> QED
    BY <2>1 DEF Base, Nesting, Asked, Fresh, Since, Timed
<1> QED
  BY <1>2, <1>3, <1>4, <1>6, <1>7, <1>8, <1>10, <1>11, <1>14, <1>15, <1>16, <1>17, <1>18, <1>19,
     <1>20, <1>21 DEF Next

LEMMA BaseInvariance == ASSUME Quick PROVE Spec => [](BeforeTurn => Base)
<1>1. Init => Base
  <2> SUFFICES ASSUME Init PROVE Base
    OBVIOUS
  <2>1. now \in Nat /\ lag = 0 /\ \A r \in Routine : run[r].at = "off" /\ run[r].then = "off"
    BY Ticks DEF Init, Off
  <2> QED
    BY <2>1 DEF Base, Nesting, Asked, Timed, Routine
<1>2. TypeOK /\ (BeforeTurn => Base) /\ [Next]_vars => (BeforeTurn' => Base')
  <2> SUFFICES ASSUME TypeOK, BeforeTurn => Base, [Next]_vars, BeforeTurn' PROVE Base'
    OBVIOUS
  <2>0. BeforeTurn /\ Base
    BY Onwards
  <2>1. CASE UNCHANGED vars
    BY <2>0, <2>1 DEF Base, Nesting, Asked, Fresh, Since, Timed, vars, hardware, kernel
  <2>2. CASE Next
    BY <2>0, <2>2, BaseKept
  <2> QED
    BY <2>1, <2>2
<1> QED
  BY <1>1, <1>2, TypeCorrect, PTL DEF Spec

-----------------------------------------------------------------------------
(* The next match                                                          *)

Coming == \E r \in Routine : run[r].at \in Writing

\* The kernel's own call has placed a match and is about to write it.
Rewriting == run["task"].at = "write" /\ run["task"].then = "off"

\* Unless the kernel's call is about to write it anew, the interrupt is pending, or the timer
\* waits for a match that is ahead, or a match is about to be written; what the timer waits for
\* and what the routines take for it are near.
Ahead ==
    /\ timer.match <= now + Span
    /\ Rewriting => timer.match >= now + 2 - lag
    /\ ~Rewriting =>
         /\ ~Coming => flag \/ Armed > now
         /\ Armed <= now + Span /\ Armed <= timer.match + Reach
         /\ now <= Armed + lag

\* What a routine is about to write is ahead by more than the ticks that may still pass.
WillBeAhead(r) ==
    run[r].at \in {"write", "check"} =>
      /\ run[r].match >= now + 2 - lag /\ run[r].match <= now + Span
      /\ run[r].match <= timer.match + Reach

\* OEMIdle writes once.
Once == run["task"].then = "sleep" => run["task"].at \in {"write", "check", "sleep"}

Awaited == Once /\ \A r \in Routine : WillBeAhead(r)

MatchInv == TypeOK /\ Base /\ Ahead /\ Awaited

\* A step that writes nothing and places nothing, of a routine that goes on or leaves.
LEMMA MovesOn ==
    ASSUME MatchInv, BeforeTurn, NEW r \in Routine, NEW v,
           UNCHANGED <<now, tmar, posted, flag>>, timer'.match = timer.match,
           run[r].at \notin Writing, run' = [run EXCEPT ![r] = v],
           v.at \notin Writing \cup {"check"},
           lag' = lag \/ (lag' = 0 /\ ~Busy(run', flag))
    PROVE  Ahead' /\ \A s \in Routine : WillBeAhead(s)'
<1>1. /\ Armed' = Armed /\ run'[r] = v /\ \A s \in Routine \ {r} : run'[s] = run[s]
      /\ Armed \in Nat /\ now \in Nat /\ lag \in Nat
  BY Plain DEF MatchInv, Awaited, TypeOK, Armed
<1>5. Rewriting' <=> Rewriting
  BY <1>1 DEF Rewriting, Routine, Writing
<1>2. Coming' <=> Coming
  <2>1. ASSUME NEW s \in Routine PROVE run'[s].at \in Writing <=> run[s].at \in Writing
    BY <1>1
  <2> QED
    BY <2>1 DEF Coming
<1>3. CASE lag' = lag
  <2>1. Ahead'
    BY <1>1, <1>2, <1>3, <1>5 DEF MatchInv, Ahead
  <2>2. ASSUME NEW s \in Routine PROVE WillBeAhead(s)'
    <3>1. CASE s = r
      BY <1>1, <3>1 DEF WillBeAhead, Writing
    <3>2. CASE s # r
      BY <1>1, <1>3, <3>2 DEF MatchInv, Awaited, WillBeAhead
    <3> QED
      BY <3>1, <3>2
  <2> QED
    BY <2>1, <2>2
<1>4. CASE lag' = 0 /\ ~Busy(run', flag)
  <2>1. /\ flag = FALSE /\ run'["isr"].at = "off" /\ run'["task"].at \in {"off", "sleep"}
    BY <1>4, Zenon DEF Busy, MatchInv, Awaited, TypeOK
  <2>2. ASSUME NEW s \in Routine
        PROVE  run'[s].at \notin {"read", "place", "write", "check"}
    BY <2>1 DEF Routine
  <2>3. ~Coming'
    BY <2>2 DEF Coming, Writing
  <2>7. ~Rewriting /\ ~Rewriting'
    BY <1>5, <2>1 DEF Rewriting
  <2>4. Armed > now
    BY <1>2, <2>1, <2>3, <2>7 DEF MatchInv, Ahead
  <2>5. Ahead'
    BY <1>1, <1>4, <2>4, <2>7 DEF MatchInv, Ahead
  <2>6. ASSUME NEW s \in Routine PROVE WillBeAhead(s)'
    BY <2>2 DEF WillBeAhead
  <2> QED
    BY <2>5, <2>6
<1> QED
  BY <1>3, <1>4

\* A step into UpdatePeriod, of the handler that has cleared the interrupt or of the kernel.
LEMMA Begins ==
    ASSUME MatchInv, BeforeTurn, NEW r \in Routine, NEW period \in Nat, UpdatePeriod(r, period),
           run[r].at \notin Writing,
           UNCHANGED <<now, tmar, posted, lag>>, timer'.match = timer.match
    PROVE  Ahead' /\ \A s \in Routine : WillBeAhead(s)'
<1>1. /\ Armed' = Armed /\ run'[r].at = "read" /\ \A s \in Routine \ {r} : run'[s] = run[s]
  BY DEF MatchInv, Awaited, TypeOK, Armed, UpdatePeriod, Off
<1>2. Coming' /\ (Rewriting' <=> Rewriting)
  BY <1>1 DEF Coming, Rewriting, Routine, Writing
<1>3. Ahead'
  BY <1>1, <1>2 DEF MatchInv, Ahead
<1>4. ASSUME NEW s \in Routine PROVE WillBeAhead(s)'
  <2>1. CASE s = r
    BY <1>1, <2>1 DEF WillBeAhead
  <2>2. CASE s # r
    BY <1>1, <2>2 DEF MatchInv, Awaited, WillBeAhead
  <2> QED
    BY <2>1, <2>2
<1> QED
  BY <1>3, <1>4

LEMMA MatchKept ==
    ASSUME Quick, MatchInv, BeforeTurn, Next, ~tight'
    PROVE  Ahead' /\ \A s \in Routine : WillBeAhead(s)'
<1>0. /\ Count = now /\ Word(now + 1) = now + 1 /\ TypeOK
      /\ Armed \in Nat /\ timer.match \in Nat /\ now \in Nat /\ lag \in Nat
      /\ Reach \in Nat /\ Turn \in Nat /\ lag <= 1 /\ Span \in Nat /\ Span <= Reach
      /\ \A s \in Routine : run[s] \in Frame /\ run[s].match \in Nat
  <2>1. lag <= 1 /\ Span \in Nat /\ Span <= Reach
    BY Ticks DEF Quick, MatchInv, Awaited, TypeOK, Span
  <2> QED
    BY <2>1, Plain DEF MatchInv, Awaited
<1>1. ASSUME Tick PROVE Ahead' /\ \A s \in Routine : WillBeAhead(s)'
  <2>1. /\ now' = now + 1 /\ tmar' = Armed /\ posted' = None /\ UNCHANGED <<timer, run>>
        /\ flag' = (flag \/ Armed = now + 1)
        /\ lag' = IF Busy(run, flag) THEN lag + 1 ELSE 0
    BY <1>0, <1>1, Zenon DEF Tick, Armed
  <2>2. Armed' = Armed /\ (Coming' <=> Coming) /\ (Rewriting' <=> Rewriting)
    BY <2>1 DEF Armed, Coming, Rewriting
  <2>3. CASE Busy(run, flag)
    <3>1. lag' = lag + 1
      BY <2>1, <2>3
    <3>2. Ahead'
      <4>1. ~Rewriting /\ ~Coming' => flag' \/ Armed > now + 1
        <5>1. ~Rewriting /\ ~Coming => flag \/ Armed > now
          BY DEF MatchInv, Ahead
        <5>2. ~Rewriting /\ ~Coming => flag \/ Armed = now + 1 \/ Armed > now + 1
          BY <1>0, <5>1
        <5> QED
          BY <2>1, <2>2, <5>2
      <4> QED
        BY <1>0, <2>1, <2>2, <3>1, <4>1 DEF MatchInv, Ahead
    <3>3. ASSUME NEW s \in Routine PROVE WillBeAhead(s)'
      BY <1>0, <2>1, <3>1 DEF MatchInv, Awaited, WillBeAhead
    <3> QED
      BY <3>2, <3>3
  <2>4. CASE ~Busy(run, flag)
    <3>1. flag = FALSE /\ run["isr"].at = "off" /\ run["task"].at \in {"off", "sleep"} /\ lag' = 0
      BY <1>0, <2>1, <2>4, Zenon DEF Busy, TypeOK
    <3>2. ASSUME NEW s \in Routine
          PROVE  run[s].at \notin {"read", "place", "write", "check"}
      BY <3>1 DEF Routine
    <3>7. ~Coming /\ ~Rewriting
      BY <3>1, <3>2 DEF Coming, Rewriting, Writing
    <3>8. flag \/ Armed > now
      BY <3>7 DEF MatchInv, Awaited, Ahead
    <3>3. Armed > now
      BY <3>1, <3>8
    <3>4. flag' \/ Armed > now + 1
      <4>1. Armed = now + 1 \/ Armed > now + 1
        BY <1>0, <3>3
      <4> QED
        BY <2>1, <4>1
    <3>5. Ahead'
      BY <1>0, <2>1, <2>2, <3>1, <3>3, <3>4, <3>7 DEF MatchInv, Ahead
    <3>6. ASSUME NEW s \in Routine PROVE WillBeAhead(s)'
      BY <2>1, <3>2 DEF WillBeAhead
    <3> QED
      BY <3>5, <3>6
  <2> QED
    BY <2>3, <2>4
<1>2. ASSUME Land PROVE Ahead' /\ \A s \in Routine : WillBeAhead(s)'
  <2>1. Armed' = Armed /\ (flag => flag') /\ UNCHANGED <<now, timer, run, lag>>
    BY <1>2 DEF Land, Armed
  <2>2. (Coming' <=> Coming) /\ (Rewriting' <=> Rewriting)
    BY <2>1 DEF Coming, Rewriting
  <2>3. Ahead'
    BY <2>1, <2>2 DEF MatchInv, Awaited, Ahead
  <2>4. \A s \in Routine : WillBeAhead(s)'
    BY <2>1 DEF MatchInv, Awaited, WillBeAhead
  <2> QED
    BY <2>3, <2>4
<1>3. ASSUME Interrupt PROVE Ahead' /\ \A s \in Routine : WillBeAhead(s)'
  <2>1. TICK_TO_MSEC(timer.cur + Elapsed) \in Nat
    BY <1>0, ElapsedType, Tens, Ticks DEF TypeOK
  <2>2. PICK period \in Nat : UpdatePeriod("isr", period)
    BY <1>0, <1>3, <2>1, Ticks DEF Interrupt, TypeOK, Reached
  <2>3. /\ UNCHANGED <<now, tmar, posted, lag>> /\ timer'.match = timer.match
        /\ run["isr"].at \notin Writing
    BY <1>0, <1>3 DEF Interrupt, At, Writing, TypeOK
  <2> QED
    BY <2>2, <2>3, Begins DEF Routine
<1>4. ASSUME NEW r \in Routine, Read(r) PROVE Ahead' /\ \A s \in Routine : WillBeAhead(s)'
  <2>1. /\ Armed' = Armed /\ UNCHANGED <<now, flag, timer, lag>>
        /\ run[r].at = "read" /\ run'[r].at = "place"
        /\ \A s \in Routine \ {r} : run'[s] = run[s]
    BY <1>0, <1>4 DEF Read, At, hardware, Armed, TypeOK
  <2>2. Coming' /\ (Rewriting' <=> Rewriting)
    BY <2>1 DEF Coming, Rewriting, Routine, Writing
  <2>3. Ahead'
    BY <2>1, <2>2 DEF MatchInv, Ahead
  <2>4. ASSUME NEW s \in Routine PROVE WillBeAhead(s)'
    <3>1. CASE s = r
      BY <1>0, <2>1, <3>1 DEF WillBeAhead
    <3>2. CASE s # r
      BY <2>1, <3>2 DEF MatchInv, Awaited, WillBeAhead
    <3> QED
      BY <3>1, <3>2
  <2> QED
    BY <2>3, <2>4
<1>5. ASSUME NEW r \in Routine, Place(r) PROVE Ahead' /\ \A s \in Routine : WillBeAhead(s)'
  <2> PICK match : match = Placed(run[r].msec, run[r].period)
    OBVIOUS
  <2>1. PICK n \in Nat : now - lag <= n /\ n <= now /\ run[r].msec = TICK_TO_MSEC(n)
    BY <1>5 DEF Place, At, MatchInv, Base, Timed, Routine
  <2>2. match \in Nat /\ match >= now + 2 - lag /\ match <= now + Span
    <3>1. now - 1 <= n /\ run[r].period \in Nat
      BY <1>0, <2>1 DEF Frame
    <3>2. match \in 0..Turn - 1
      BY <1>0, PlacedType DEF Frame
    <3>3. match >= n + 2 /\ match <= now + Span
      BY <1>0, <2>1, <3>1, PlacedAhead
    <3> QED
      BY <1>0, <2>1, <3>2, <3>3
  <2>3. /\ Armed' = Armed /\ UNCHANGED <<now, flag, lag>>
        /\ timer'.match = match /\ run'[r].at = "write" /\ run'[r].match = match
        /\ \A s \in Routine \ {r} : run'[s] = run[s]
        /\ run[r].at = "place" /\ run'[r].then = run[r].then
    BY <1>0, <1>5 DEF Place, At, hardware, Armed, TypeOK, Off
  <2>4. Coming' /\ (Rewriting => Rewriting')
    BY <2>3 DEF Coming, Rewriting, Routine, Writing
  <2>5. Ahead'
    BY <1>0, <2>2, <2>3, <2>4 DEF MatchInv, Ahead
  <2>6. ASSUME NEW s \in Routine PROVE WillBeAhead(s)'
    <3>1. CASE s = r
      BY <1>0, <2>2, <2>3, <3>1 DEF WillBeAhead
    <3>2. CASE s # r
      <4>1. run'[s] = run[s] /\ WillBeAhead(s)
        BY <2>3, <3>2 DEF MatchInv, Awaited
      <4>2. run[s].at \in {"write", "check"} => run[s].match <= match + Reach
        BY <1>0, <2>2, <4>1 DEF WillBeAhead
      <4> QED
        BY <2>3, <4>1, <4>2 DEF WillBeAhead
    <3> QED
      BY <3>1, <3>2
  <2> QED
    BY <2>5, <2>6
<1>6. ASSUME NEW r \in Routine, Write(r) PROVE Ahead' /\ \A s \in Routine : WillBeAhead(s)'
  <2>1. /\ posted' = run[r].match /\ UNCHANGED <<now, flag, timer, lag>>
        /\ run'[r].at = "check" /\ run'[r].match = run[r].match
        /\ \A s \in Routine \ {r} : run'[s] = run[s]
    BY <1>0, <1>6 DEF Write, Goto, TypeOK
  <2>2. /\ run[r].match >= now + 2 - lag /\ run[r].match <= now + Span
        /\ run[r].match <= timer.match + Reach /\ run[r].match > now
    BY <1>0, <1>6 DEF Write, At, MatchInv, Awaited, WillBeAhead
  <2>3. Armed' = run[r].match /\ (Rewriting' => Rewriting)
    BY <1>0, <2>1 DEF Armed, None, Rewriting, Routine
  <2>4. Ahead'
    BY <1>0, <2>1, <2>2, <2>3 DEF MatchInv, Ahead
  <2>5. ASSUME NEW s \in Routine PROVE WillBeAhead(s)'
    <3>1. CASE s = r
      BY <2>1, <2>2, <3>1 DEF WillBeAhead
    <3>2. CASE s # r
      BY <2>1, <3>2 DEF MatchInv, Awaited, WillBeAhead
    <3> QED
      BY <3>1, <3>2
  <2> QED
    BY <2>4, <2>5
<1>20. ASSUME NEW r \in Routine, Return(r), run[r].at \notin Writing,
             UNCHANGED <<now, tmar, posted, flag>>, timer'.match = timer.match
      PROVE  Ahead' /\ \A s \in Routine : WillBeAhead(s)'
  <2>1. run' = [run EXCEPT ![r] = Off] /\ (lag' = lag \/ (lag' = 0 /\ ~Busy(run', flag)))
    BY <1>20, Zenon DEF Return, Leave
  <2>2. Off.at \notin Writing \cup {"check"}
    BY DEF Off, Writing
  <2> QED
    BY <1>20, <2>1, <2>2, MovesOn
<1>7. ASSUME NEW r \in Routine, Check(r) PROVE Ahead' /\ \A s \in Routine : WillBeAhead(s)'
  <2>1. /\ UNCHANGED <<now, tmar, posted, flag>> /\ timer'.match = timer.match
        /\ run[r].at = "check" /\ run[r].at \notin Writing
    BY <1>7 DEF Check, At, hardware, Writing
  <2>2. ~Behind(run[r].match)
    BY <1>0, <2>1 DEF Behind, MatchInv, Awaited, WillBeAhead
  <2>3. CASE run[r].then = "sleep"
    <3> PICK v : v = [run[r] EXCEPT !.at = "sleep", !.match = 0]
      OBVIOUS
    <3>1. [run EXCEPT ![r].at = "sleep", ![r].match = 0] = [run EXCEPT ![r] = v]
      BY <1>0 DEF TypeOK
    <3>2. run' = [run EXCEPT ![r] = v] /\ (lag' = lag \/ (lag' = 0 /\ ~Busy(run', flag)))
      BY <1>7, <2>2, <2>3, <3>1, Zenon DEF Check, Leave
    <3>3. v.at \notin Writing \cup {"check"}
      <4>1. run[r] \in Frame
        BY <1>0
      <4> QED
        BY <4>1 DEF Writing, Frame
    <3> QED
      BY <2>1, <3>2, <3>3, MovesOn
  <2>4. CASE run[r].then # "sleep"
    <3>1. Return(r)
      BY <1>7, <2>2, <2>4 DEF Check
    <3> QED
      BY <1>20, <2>1, <3>1
  <2> QED
    BY <2>3, <2>4
<1>21. ASSUME NEW where \in {"ask", "base", "count", "again", "store"}, NEW v \in Frame, v.at = where,
             run' = [run EXCEPT !["task"] = v], run["task"].at \notin Writing,
             UNCHANGED <<now, tmar, posted, flag, timer, lag>>
      PROVE  Ahead' /\ \A s \in Routine : WillBeAhead(s)'
  <2>1. "task" \in Routine /\ v.at \notin Writing \cup {"check"}
    BY <1>21 DEF Routine, Writing
  <2> QED
    BY <1>21, <2>1, MovesOn
<1>22. "task" \in Routine /\ run["task"] \in Frame
  BY <1>0 DEF Routine
<1>8. ASSUME NEW s \in Sleeps, Ask(s) PROVE Ahead' /\ \A r \in Routine : WillBeAhead(r)'
  <2> PICK v : v = [run["task"] EXCEPT !.at = "ask", !.msec = curMSec]
    OBVIOUS
  <2>1. v \in Frame /\ v.at = "ask"
    BY <1>0, <1>22 DEF Frame, Where, TypeOK
  <2>2. run' = [run EXCEPT !["task"] = v]
    BY <1>0, <1>8 DEF Ask, TypeOK
  <2>3. run["task"].at \notin Writing /\ UNCHANGED <<now, tmar, posted, flag, timer, lag>>
    BY <1>8 DEF Ask, ThreadRuns, At, Writing, hardware
  <2> QED
    BY <1>21, <2>1, <2>2, <2>3
<1>9. ASSUME Look PROVE Ahead' /\ \A s \in Routine : WillBeAhead(s)'
  <2>1. /\ UNCHANGED <<now, tmar, posted, flag, timer>> /\ run["task"].at \notin Writing
    BY <1>9 DEF Look, At, hardware, Writing
  <2>2. ASSUME UpdatePeriod("task", 0), UNCHANGED lag
        PROVE  Ahead' /\ \A s \in Routine : WillBeAhead(s)'
    BY <1>22, <2>1, <2>2, Begins
  <2>3. ASSUME Return("task") PROVE Ahead' /\ \A s \in Routine : WillBeAhead(s)'
    BY <1>20, <1>22, <2>1, <2>3
  <2>4. ASSUME Goto("task", "base") PROVE Ahead' /\ \A s \in Routine : WillBeAhead(s)'
    <3> PICK v : v = [run["task"] EXCEPT !.at = "base"]
      OBVIOUS
    <3>1. v \in Frame /\ v.at = "base" /\ run' = [run EXCEPT !["task"] = v] /\ UNCHANGED lag
      BY <1>0, <1>22, <2>4 DEF Goto, Frame, Where, TypeOK
    <3> QED
      BY <1>21, <2>1, <3>1
  <2> QED
    BY <1>9, <2>2, <2>3, <2>4 DEF Look
<1>10. ASSUME TakeBase PROVE Ahead' /\ \A s \in Routine : WillBeAhead(s)'
  <2> PICK v : v = [run["task"] EXCEPT !.at = "count", !.base = timer.cur]
    OBVIOUS
  <2>1. v \in Frame /\ v.at = "count"
    BY <1>0, <1>22 DEF Frame, Where, TypeOK
  <2>2. run' = [run EXCEPT !["task"] = v]
    BY <1>0, <1>10 DEF TakeBase, TypeOK
  <2>3. run["task"].at \notin Writing /\ UNCHANGED <<now, tmar, posted, flag, timer, lag>>
    BY <1>10 DEF TakeBase, At, Writing, hardware
  <2> QED
    BY <1>21, <2>1, <2>2, <2>3
<1>11. ASSUME TakeCount PROVE Ahead' /\ \A s \in Routine : WillBeAhead(s)'
  <2> PICK m : m = TICK_TO_MSEC(run["task"].base + Word(Count - timer.base))
    OBVIOUS
  <2>0. m \in Nat
    <3>1. Word(Count - timer.base) \in Nat /\ run["task"].base \in Nat
      BY <1>0, <1>22, ElapsedType, Ticks DEF Elapsed, Frame
    <3> QED
      BY <3>1, Tens
  <2> PICK v : v = [run["task"] EXCEPT !.at = "again", !.msec = m]
    OBVIOUS
  <2>1. v \in Frame /\ v.at = "again"
    BY <1>22, <2>0 DEF Frame, Where
  <2>2. run' = [run EXCEPT !["task"] = v]
    BY <1>0, <1>11 DEF TakeCount, TypeOK
  <2>3. run["task"].at \notin Writing /\ UNCHANGED <<now, tmar, posted, flag, timer, lag>>
    BY <1>11 DEF TakeCount, At, Writing, hardware
  <2> QED
    BY <1>21, <2>1, <2>2, <2>3
<1>12. ASSUME TakeAgain PROVE Ahead' /\ \A s \in Routine : WillBeAhead(s)'
  <2>1. UNCHANGED <<now, tmar, posted, flag, timer>> /\ run["task"].at \notin Writing
    BY <1>12 DEF TakeAgain, At, hardware, Writing
  <2>2. PICK where \in {"base", "store"} : Goto("task", where)
    BY <1>12 DEF TakeAgain
  <2> PICK v : v = [run["task"] EXCEPT !.at = where]
    OBVIOUS
  <2>3. v \in Frame /\ v.at = where /\ run' = [run EXCEPT !["task"] = v] /\ UNCHANGED lag
    BY <1>0, <1>22, <2>2 DEF Goto, Frame, Where, TypeOK
  <2> QED
    BY <1>21, <2>1, <2>3
<1>16. ASSUME SetPeriod PROVE Ahead' /\ \A s \in Routine : WillBeAhead(s)'
  <2>1. UNCHANGED <<now, tmar, posted, flag, timer, lag>> /\ run["task"].at \notin Writing
    BY <1>16 DEF SetPeriod, At, hardware, Writing
  <2>2. PICK period \in Nat : UpdatePeriod("task", period)
    BY <1>0, <1>16, Ticks DEF SetPeriod, Least, TypeOK
  <2> QED
    BY <1>22, <2>1, <2>2, Begins
<1>13. ASSUME NEW d \in Delays, OEMIdle(d) PROVE Ahead' /\ \A s \in Routine : WillBeAhead(s)'
  <2>0. ~Rewriting /\ ~Rewriting'
    <3>1. run["task"].at = "off" /\ run["isr"].at = "off"
      BY <1>13 DEF OEMIdle, ThreadRuns, At
    <3>2. PICK m : run' = [run EXCEPT !["task"].at = "write", !["task"].then = "sleep",
                                      !["task"].match = m]
      BY <1>13 DEF OEMIdle
    <3>3. run'["task"].then = "sleep"
      BY <1>0, <3>2 DEF TypeOK, Routine
    <3> QED
      BY <3>1, <3>3 DEF Rewriting
  <2>1. timer.match - now <= Reach + 1 /\ 0 - (Reach + 1) <= timer.match - now
    BY <1>0, <2>0 DEF MatchInv, Ahead
  <2>2. 2 * (Reach + 1) + 2 < Turn /\ timer.match - now \in Int /\ Reach + 1 \in Nat
    BY <1>0 DEF Quick
  <2>3. Signed(timer.match - Count) = timer.match - now
    BY <1>0, <2>1, <2>2, SignedOf
  <2> PICK match \in Int : match = timer.match - d
    BY <1>0, Ticks
  <2>7. timer.match - now - d >= 2
    <3>1. ~(Signed(timer.match - Count) - d < 2)
      BY <1>13, Zenon DEF OEMIdle
    <3>2. ~(timer.match - now - d < 2) /\ timer.match - now - d \in Int
      BY <1>0, <2>3, <3>1, Ticks
    <3> QED
      BY <3>2
  <2>4. match >= now + 2 /\ match <= now + Span /\ match <= timer.match /\ match \in Nat
    BY <1>0, <2>3, <2>7, Ticks DEF MatchInv, Ahead
  <2>5. Word(match) = match
    BY <1>0, <2>4, WordOf DEF BeforeTurn
  <2>6. /\ Armed' = Armed /\ UNCHANGED <<now, flag, lag>> /\ timer'.match = match
        /\ run'["task"].at = "write" /\ run'["task"].match = match
        /\ run'["isr"] = run["isr"] /\ run["isr"].at = "off"
    <3>1. Armed' = Armed /\ UNCHANGED <<now, flag, lag>> /\ run["isr"].at = "off"
      BY <1>13 DEF OEMIdle, hardware, Armed, ThreadRuns, At
    <3>2. timer'.match = match
      BY <1>0, <1>13, <2>5 DEF OEMIdle, TypeOK
    <3>3. run' = [run EXCEPT !["task"].at = "write", !["task"].then = "sleep",
                            !["task"].match = match]
      BY <1>13, <2>5 DEF OEMIdle
    <3>4. /\ run'["task"].at = "write" /\ run'["task"].match = match
          /\ run'["isr"] = run["isr"]
      BY <1>0, <3>3 DEF TypeOK, Routine
    <3> QED
      BY <3>1, <3>2, <3>4
  <2>10. Coming'
    BY <2>6 DEF Coming, Writing, Routine
  <2>8. Ahead'
    BY <1>0, <2>0, <2>4, <2>6, <2>10 DEF MatchInv, Ahead
  <2>9. WillBeAhead("task")' /\ WillBeAhead("isr")'
    BY <1>0, <2>4, <2>6 DEF WillBeAhead
  <2> QED
    BY <2>8, <2>9 DEF Routine
<1>14. ASSUME Wake PROVE Ahead' /\ \A s \in Routine : WillBeAhead(s)'
  <2>1. /\ Return("task") /\ UNCHANGED <<now, tmar, posted, flag, timer>>
        /\ run["task"].at \notin Writing
    BY <1>14 DEF Wake, At, hardware, Writing
  <2> QED
    BY <1>20, <1>22, <2>1
<1>15. ASSUME AppBase \/ AppCount \/ AppAgain \/ AppStore \/ AppReturn
       PROVE  Ahead' /\ \A s \in Routine : WillBeAhead(s)'
  <2>1. UNCHANGED <<now, tmar, posted, flag, timer, run, lag>>
    BY <1>15 DEF AppBase, AppCount, AppAgain, AppStore, AppReturn, hardware
  <2> QED
    BY <2>1 DEF MatchInv, Awaited, Ahead, WillBeAhead, Armed, Coming, Rewriting
<1> QED
  BY <1>1, <1>2, <1>3, <1>4, <1>5, <1>6, <1>7, <1>8, <1>9, <1>10, <1>11, <1>12, <1>13, <1>14,
     <1>15, <1>16 DEF Next

LEMMA OnceKept ==
    ASSUME Quick, MatchInv, BeforeTurn, Next, Base'
    PROVE  Once'
<1>0. /\ Count = now /\ TypeOK /\ lag \in Nat /\ lag <= 1 /\ now \in Nat
      /\ run["task"] \in Frame /\ run["task"].match \in Nat
  BY Plain, Ticks DEF MatchInv, Quick, TypeOK, Routine
<1>1. SUFFICES ASSUME run'["task"].then = "sleep" PROVE run'["task"].at \notin {"read", "place"}
  BY DEF Once, Base, Nesting
<1>2. ASSUME NEW period, UpdatePeriod("task", period), run["task"].at \in {"ask", "store"} PROVE FALSE
  <2>1. run'["task"].then = run["task"].then
    BY <1>0, <1>2 DEF UpdatePeriod, Off, TypeOK, Routine
  <2> QED
    BY <1>1, <1>2, <2>1 DEF MatchInv, Once, Awaited
<1>3. CASE run'["task"] = run["task"]
  BY <1>1, <1>3 DEF MatchInv, Once, Awaited
<1>4. CASE Read("task")
  <2>1. run["task"].at = "read" /\ run'["task"].then = run["task"].then
    BY <1>0, <1>4 DEF Read, At, TypeOK, Routine
  <2> QED
    BY <1>1, <2>1 DEF MatchInv, Once, Awaited
<1>5. CASE Place("task")
  BY <1>0, <1>5 DEF Place, TypeOK, Routine, Off
<1>6. CASE Write("task")
  BY <1>0, <1>6 DEF Write, Goto, TypeOK, Routine
<1>7. CASE Check("task")
  <2>1. ~Behind(run["task"].match)
    BY <1>0, <1>7 DEF Check, At, Behind, MatchInv, Awaited, WillBeAhead, Routine
  <2>2. run' = [run EXCEPT !["task"].at = "sleep", !["task"].match = 0] \/ Return("task")
    BY <1>7, <2>1 DEF Check, Leave
  <2> QED
    BY <1>0, <2>2 DEF Return, Leave, Off, TypeOK, Routine
<1>8. CASE Look
  <2>1. UpdatePeriod("task", 0) \/ Return("task") \/ Goto("task", "base")
    BY <1>8 DEF Look
  <2>2. run["task"].at = "ask"
    BY <1>8 DEF Look, At
  <2>3. Return("task") => run'["task"].at = "off"
    BY <1>0 DEF Return, Leave, Off, TypeOK, Routine
  <2>4. Goto("task", "base") => run'["task"].at = "base"
    BY <1>0 DEF Goto, TypeOK, Routine
  <2> QED
    BY <1>2, <2>1, <2>2, <2>3, <2>4
<1>9. CASE SetPeriod
  BY <1>2, <1>9 DEF SetPeriod, At
<1>10. CASE \E s \in Sleeps : Ask(s)
  BY <1>0, <1>10 DEF Ask, TypeOK, Routine
<1>11. CASE TakeBase \/ TakeCount \/ TakeAgain
  BY <1>0, <1>11 DEF TakeBase, TakeCount, TakeAgain, Goto, TypeOK, Routine
<1>12. CASE \E d \in Delays : OEMIdle(d)
  BY <1>0, <1>12 DEF OEMIdle, TypeOK, Routine
<1>13. CASE Wake
  BY <1>0, <1>13 DEF Wake, Return, Leave, Off, TypeOK, Routine
<1>14. CASE Tick \/ Land \/ Interrupt \/ AppBase \/ AppCount \/ AppAgain \/ AppStore \/ AppReturn
  <2>1. run'["task"] = run["task"]
    BY <1>0, <1>14 DEF Tick, Land, Interrupt, UpdatePeriod, AppBase, AppCount, AppAgain, AppStore,
                       AppReturn, TypeOK, Routine
  <2> QED
    BY <1>3, <2>1
<1>15. CASE Read("isr") \/ Place("isr") \/ Write("isr") \/ Check("isr")
  <2>1. run'["task"] = run["task"]
    BY <1>0, <1>15 DEF Read, Place, Write, Goto, Check, UpdatePeriod, Leave, Return, TypeOK, Routine
  <2> QED
    BY <1>3, <2>1
<1> QED
  BY <1>4, <1>5, <1>6, <1>7, <1>8, <1>9, <1>10, <1>11, <1>12, <1>13, <1>14, <1>15 DEF Next, Routine

\* The kernel's own call puts right what OEMIdle may have missed.
LEMMA MatchSet ==
    ASSUME Quick, BeforeTurn, TypeOK, Base, Base', Place("task"), run["task"].then = "off"
    PROVE  Ahead' /\ Awaited'
<1>0. /\ now \in Nat /\ lag \in Nat /\ lag <= 1 /\ Reach \in Nat /\ Span \in Nat /\ Span <= Reach
      /\ run["task"] \in Frame /\ run["isr"] \in Frame
  BY Plain, Ticks DEF Quick, TypeOK, Routine, Span
<1> PICK match : match = Placed(run["task"].msec, run["task"].period)
  OBVIOUS
<1>1. match \in Nat
  <2>1. match \in 0..Turn - 1
    BY <1>0, PlacedType DEF Frame
  <2> QED
    BY <2>1, Ticks
<1>2. /\ UNCHANGED <<now, lag>> /\ timer'.match = match /\ run["isr"].at = "off"
      /\ run'["task"].at = "write" /\ run'["task"].then = "off" /\ run'["task"].match = match
      /\ run'["isr"] = run["isr"]
  BY <1>0 DEF Place, Runs, At, TypeOK, Routine, Off
<1>3. match >= now + 2 - lag /\ match <= now + Span
  BY <1>0, <1>2 DEF Base, Timed
<1>4. Ahead'
  BY <1>0, <1>1, <1>2, <1>3 DEF Ahead, Rewriting
<1>5. WillBeAhead("task")' /\ WillBeAhead("isr")'
  BY <1>0, <1>1, <1>2, <1>3 DEF WillBeAhead
<1> QED
  BY <1>2, <1>4, <1>5 DEF Awaited, Once, Routine

\* The invariant holds from the call of the kernel's that sets the match on.
LEMMA Resumed ==
    ASSUME TypeOK, [Next]_vars, tight, ~tight'
    PROVE  Place("task") /\ run["task"].then = "off"
<1>1. tight' = tight \/ \E r \in Routine : Place(r)
  <2>1. (\E r \in Routine : Place(r)) \/ (\E d \in Delays : OEMIdle(d)) \/ UNCHANGED tight
    BY DEF Next, vars, Tick, Land, Interrupt, Read, Write, Check, Ask, Look, TakeBase, TakeCount,
           TakeAgain, SetPeriod, Wake, AppBase, AppCount, AppAgain, AppStore, AppReturn
  <2>2. ASSUME NEW d \in Delays, OEMIdle(d) PROVE FALSE
    BY <2>2, Zenon DEF OEMIdle
  <2> QED
    BY <2>1, <2>2
<1>2. PICK r \in Routine : Place(r)
  BY <1>1
<1>3. r # "isr" /\ run[r].then # "sleep"
  BY <1>2, Zenon DEF Place
<1>4. r = "task" /\ run["task"].then \in {"off", "sleep"}
  BY <1>3 DEF Routine, TypeOK
<1> QED
  BY <1>2, <1>3, <1>4

LEMMA MatchInvariance == ASSUME Quick PROVE Spec => [](BeforeTurn /\ ~tight => MatchInv)
<1>1. Init /\ BeforeTurn => Ahead /\ Awaited
  <2> SUFFICES ASSUME Init, BeforeTurn PROVE Ahead /\ Awaited
    OBVIOUS
  <2>1. now \in Nat /\ Margin \in Nat /\ Reach \in Nat /\ now + Margin \in 0..Turn - 1
    BY Ticks DEF Init, Quick, Span, BeforeTurn
  <2>2. timer.match = now + Margin /\ Armed = now + Margin /\ lag = 0
    BY <2>1, WordOf DEF Init, Armed
  <2>3. \A r \in Routine : run[r].at = "off" /\ run[r].then = "off"
    BY DEF Init, Off
  <2> QED
    BY <2>1, <2>2, <2>3 DEF Ahead, Awaited, Once, WillBeAhead, Rewriting, Routine, Quick, Span
<1>2. /\ TypeOK /\ (BeforeTurn => Base) /\ (BeforeTurn /\ ~tight => Ahead /\ Awaited)
      /\ [Next]_vars /\ (BeforeTurn' => Base')
      => (BeforeTurn' /\ ~tight' => Ahead' /\ Awaited')
  <2> SUFFICES ASSUME TypeOK, Base, Base', BeforeTurn, [Next]_vars, ~tight',
                      ~tight => Ahead /\ Awaited
               PROVE  Ahead' /\ Awaited'
    BY Onwards
  <2>1. CASE tight
    BY <2>1, Resumed, MatchSet
  <2>2. CASE ~tight /\ UNCHANGED vars
    BY <2>2 DEF Awaited, Once, Ahead, WillBeAhead, Armed, Coming, Rewriting, vars, hardware
  <2>3. CASE ~tight /\ Next
    BY <2>3, MatchKept, OnceKept DEF MatchInv, Awaited
  <2> QED
    BY <2>1, <2>2, <2>3
<1> QED
  BY <1>1, <1>2, TypeCorrect, BaseInvariance, PTL DEF Spec, MatchInv

\* "make sure we don't set next timer interrupt to the past" (timer.c:244): whenever no routine
\* is at work, the timer waits for a match that is ahead, and near, for a timer code that takes a
\* tick at most and whatever latencies the idle states have.  It is said of the time until the
\* counter comes near its first turn, and not of that from a call of OEMIdle that leaves less
\* than two ticks to the next call of the kernel's.
THEOREM NextMatchIsAhead == ASSUME Quick PROVE Spec => []MatchAhead
<1>1. (BeforeTurn /\ ~tight => MatchInv) => MatchAhead
  <2> SUFFICES ASSUME MatchInv, BeforeTurn, ~Busy(run, flag) PROVE Word(Armed - Count) \in 1..Reach
    BY DEF MatchAhead, WaitsAhead
  <2>1. flag = FALSE /\ run["isr"].at = "off" /\ run["task"].at \in {"off", "sleep"}
    BY Zenon DEF Busy, MatchInv, Awaited, TypeOK
  <2>2. ~Coming /\ ~Rewriting
    BY <2>1 DEF Coming, Rewriting, Writing, Routine
  <2>3. Armed > now /\ Armed <= now + Span /\ Count = now /\ Armed \in Nat /\ now \in Nat
        /\ Reach \in Nat /\ Turn \in Nat
    BY <2>1, <2>2, Plain DEF MatchInv, Ahead
  <2>4. Armed - now \in 0..Turn - 1 /\ Armed - now \in 1..Reach
    BY <2>3, Ticks DEF Quick, Span
  <2> QED
    BY <2>3, <2>4, WordOf
<1> QED
  BY <1>1, MatchInvariance, PTL
-----------------------------------------------------------------------------
(* The time to reschedule                                                  *)

\* The match that a routine of the stretch that runs puts down at the latest when it puts one
\* down at once.
Whole(n) == MSEC_TO_TICK(TICK_TO_MSEC(n))
AtOnce == Whole(Since + 1) + 34

\* How far beyond a time of which the kernel need not be told yet a match can be.
Slack == Margin + 39

\* The kernel's own call is about to write the match register.
TaskComing == run["task"].at \in Writing /\ run["task"].then = "off"


\* What is written has been placed last, unless the handler has overtaken the kernel; it does
\* so only to put down a match at once, and an earlier match of the kernel's is then near.
Placing ==
    /\ run["isr"].at = "write" => run["isr"].match = timer.match
    /\ run["isr"].at = "check" => Armed = timer.match
    /\ run["task"].at = "write" =>
         /\ timer.match >= Since + 2
         /\ run["isr"].at \in {"read", "place"} => run["isr"].period = 0
    /\ run["task"].at = "write" /\ run["task"].then = "sleep" => run["task"].match = timer.match
    /\ run["task"].at = "write" /\ run["task"].then = "off" =>
         /\ run["task"].match < AtOnce => run["task"].match <= Since + Margin + 3
         /\ run["task"].match = timer.match \/ timer.match <= AtOnce

\* When the timer waits for an earlier match than the one placed last, that match is near.
Loose(n) ==
    Armed < timer.match /\ ~flag /\ ~TaskComing /\ run["isr"].at \notin Writing
       => Armed <= n + Margin + 3

CallInv == Placing /\ Loose(Since)

\* The handler's next match is so far beyond the time it has read.
Delay == Least(MSEC_TO_TICK(run["isr"].period), Margin) + 33

\* A time n of which the kernel need not be told yet, and whatever is armed, placed or about to be
\* placed is within the slack of it.
Anchor(n) ==
    /\ TICK_TO_MSEC(n) <= resched
    /\ Rewriting \/ Armed <= n + Slack
    /\ timer.match <= n + Slack
    /\ run["isr"].at # "off" \/ (flag /\ timer.match > now) => AtOnce <= n + Slack
    /\ run["isr"].at = "read" => Whole(Since + 1) + Delay <= n + Slack
    /\ run["isr"].at = "place" => MSEC_TO_TICK(run["isr"].msec) + Delay <= n + Slack
    /\ Loose(n)

InTime == due \/ Fresh \/ \E n \in Nat : n <= Since /\ Anchor(n)

LEMMA MsecSum ==
    ASSUME NEW n \in Nat, NEW m \in Nat, NEW k \in Nat, k <= n + m
    PROVE  TICK_TO_MSEC(k) <= TICK_TO_MSEC(n) + TICK_TO_MSEC(m) + 1
<1>1. \A i \in Nat : /\ TICK_TO_MSEC(i) \in Nat
                     /\ 32768 * TICK_TO_MSEC(i) <= 1000 * i
                     /\ 1000 * i < 32768 * TICK_TO_MSEC(i) + 32768
  BY DEF TICK_TO_MSEC
<1> PICK a \in Nat, b \in Nat, c \in Nat :
           a = TICK_TO_MSEC(n) /\ b = TICK_TO_MSEC(m) /\ c = TICK_TO_MSEC(k)
  BY Tens
<1>2. 1000 * n < 32768 * a + 32768 /\ 1000 * m < 32768 * b + 32768 /\ 32768 * c <= 1000 * k
  BY <1>1
<1> QED
  BY <1>2

LEMMA TicksOf ==
    ASSUME NEW q \in Nat
    PROVE  125 * MSEC_TO_TICK(q) <= 4096 * q + 125 /\ 4096 * q < 125 * MSEC_TO_TICK(q)
<1> PICK y \in Int : y = (q * 4096) \div 125
  OBVIOUS
<1>1. 125 * y <= 4096 * q /\ 4096 * q < 125 * y + 125
  OBVIOUS
<1> QED
  BY <1>1 DEF MSEC_TO_TICK

LEMMA WholeGrows ==
    ASSUME NEW m \in Nat, NEW n \in Nat, m <= n
    PROVE  /\ Whole(m) \in Nat /\ Whole(n) \in Nat /\ Whole(m) <= Whole(n)
           /\ Whole(n) >= n - 32 /\ Whole(n) <= n + 1
           /\ Whole(m) < Whole(n) => Whole(m) + 32 <= Whole(n)
<1> PICK p \in Nat, q \in Nat : p = TICK_TO_MSEC(m) /\ q = TICK_TO_MSEC(n)
  BY Tens
<1>1. p <= q
  BY Later
<1>2. MSEC_TO_TICK(p) <= MSEC_TO_TICK(q) /\ (p < q => MSEC_TO_TICK(p) + 32 <= MSEC_TO_TICK(q))
  <2> PICK x \in Nat, y \in Nat : x = MSEC_TO_TICK(p) /\ y = MSEC_TO_TICK(q)
    BY Tens
  <2>1. 125 * x <= 4096 * p + 125 /\ 4096 * p < 125 * x
    BY TicksOf
  <2>2. 125 * y <= 4096 * q + 125 /\ 4096 * q < 125 * y
    BY TicksOf
  <2> QED
    BY <1>1, <2>1, <2>2
<1>3. p = q \/ p < q
  BY <1>1
<1>4. MSEC_TO_TICK(p) \in Nat /\ MSEC_TO_TICK(q) \in Nat
  BY Tens
<1>5. MSEC_TO_TICK(q) >= n - 32 /\ MSEC_TO_TICK(q) <= n + 1
  BY WholeMsec
<1> QED
  BY <1>2, <1>3, <1>4, <1>5 DEF Whole

LEMMA Scales ==
    ASSUME Quick, BeforeTurn, MatchInv, CallInv
    PROVE  /\ TypeOK /\ Count = now /\ Word(now + 1) = now + 1
           /\ now \in Nat /\ lag \in Nat /\ lag <= 1 /\ Since \in Nat /\ Since = now - lag
           /\ Armed \in Nat /\ timer.match \in Nat /\ Margin \in Nat /\ resched \in Nat
           /\ run["isr"] \in Frame /\ run["task"] \in Frame
           /\ run["isr"].match \in Nat /\ run["task"].match \in Nat
           /\ Whole(Since + 1) \in Nat /\ Whole(Since + 1) <= Since + 2
           /\ AtOnce = Whole(Since + 1) + 34 /\ Slack = Margin + 39
           /\ Rewriting \/ Armed <= now + Margin + 32
           /\ timer.match <= now + Margin + 32
           /\ Delay \in Nat /\ Delay <= Margin + 33
<1>1. /\ TypeOK /\ Count = now /\ Word(now + 1) = now + 1
      /\ Armed \in Nat /\ timer.match \in Nat /\ now \in Nat /\ lag \in Nat
      /\ \A r \in Routine : run[r] \in Frame /\ run[r].match \in Nat
  BY Plain DEF MatchInv
<1>2. lag <= 1 /\ Margin \in Nat /\ resched \in Nat
  BY <1>1, Ticks DEF Quick, TypeOK
<1>3. Since \in Nat /\ Since = now - lag
  BY <1>1 DEF Since, MatchInv, Base, Nesting
<1>4. Whole(Since + 1) \in Nat /\ Whole(Since + 1) <= Since + 2
  <2>1. Since + 1 \in Nat /\ Since + 1 <= Since + 1
    BY <1>3
  <2>2. Whole(Since + 1) \in Nat /\ Whole(Since + 1) <= (Since + 1) + 1
    BY <2>1, WholeGrows
  <2> QED
    BY <1>3, <2>2
<1>5. (Rewriting \/ Armed <= now + Margin + 32) /\ timer.match <= now + Margin + 32
  BY <1>1, <1>2 DEF MatchInv, Ahead, Span
<1>6. Delay \in Nat /\ Delay <= Margin + 33
  <2>1. run["isr"].period \in Nat
    BY <1>1 DEF Routine, Frame
  <2>2. MSEC_TO_TICK(run["isr"].period) \in Nat
    BY <2>1, Tens
  <2> QED
    BY <1>2, <2>2 DEF Delay, Least
<1> QED
  BY <1>1, <1>2, <1>3, <1>4, <1>5, <1>6 DEF Routine, AtOnce, Slack

\* The present serves, when the kernel need not be told yet.
LEMMA Anchored ==
    ASSUME Quick, BeforeTurn, MatchInv, CallInv, Fresh
    PROVE  Anchor(Since)
<1>1. AtOnce <= Since + Slack /\ (Rewriting \/ Armed <= Since + Slack) /\ timer.match <= Since + Slack
      /\ Whole(Since + 1) + Delay <= Since + Slack
  BY Scales
<1>2. ASSUME run["isr"].at = "place"
      PROVE  MSEC_TO_TICK(run["isr"].msec) + Delay <= Since + Slack
  <2>1. PICK k \in Nat : now - lag <= k /\ k <= now /\ run["isr"].msec = TICK_TO_MSEC(k)
    BY <1>2 DEF MatchInv, Base, Timed
  <2>2. MSEC_TO_TICK(run["isr"].msec) \in Nat /\ MSEC_TO_TICK(run["isr"].msec) <= k + 1
    BY <2>1, WholeGrows DEF Whole
  <2> QED
    BY <2>1, <2>2, Scales
<1>3. TICK_TO_MSEC(Since) <= resched /\ Loose(Since)
  BY DEF Fresh, CallInv
<1> QED
  BY <1>1, <1>2, <1>3 DEF Anchor

LEMMA HasAnchor ==
    ASSUME Quick, BeforeTurn, MatchInv, CallInv, InTime, ~due
    PROVE  \E n \in Nat : n <= Since /\ Anchor(n)
  BY Anchored, Scales DEF InTime
\* Where no routine is at work, nothing that is said of one matters.
LEMMA Calm ==
    ASSUME NEW s, NEW f \in BOOLEAN, ~Busy(s, f)
    PROVE  f = FALSE /\ s["isr"].at = "off" /\ s["task"].at \in {"off", "sleep"}
  BY Zenon DEF Busy

\* A step of the kernel's call or OEMIdle that places and writes nothing.
LEMMA KernelGoesOn ==
    ASSUME Quick, BeforeTurn, MatchInv, CallInv, InTime,
           UNCHANGED <<now, tmar, posted, flag>>, timer'.match = timer.match,
           run'["isr"] = run["isr"], run'["task"].at # "write", run["task"].at # "write",
           TaskComing => TaskComing',
           lag' = lag \/ (lag' = 0 /\ ~Busy(run', flag)),
           UNCHANGED <<resched, due>> \/ Fresh'
    PROVE  CallInv' /\ InTime'
<1>0. Armed' = Armed /\ flag \in BOOLEAN /\ ~Rewriting
  BY DEF Armed, MatchInv, TypeOK, Rewriting
<1>1. CASE lag' = lag
  <2>1. Since' = Since /\ AtOnce' = AtOnce /\ Whole(Since + 1)' = Whole(Since + 1) /\ Delay' = Delay
    BY <1>1 DEF Since, AtOnce, Whole, Delay
  <2>3. Placing'
    BY <1>0, <2>1 DEF CallInv, Placing
  <2>4. ASSUME NEW n \in Nat, Loose(n) PROVE Loose(n)'
    BY <1>0, <2>4 DEF Loose
  <2>5. Loose(Since)'
    BY <1>0, <2>1 DEF CallInv, Loose
  <2>6. ASSUME NEW n \in Nat, n <= Since, Anchor(n), resched' = resched
        PROVE  n <= Since' /\ Anchor(n)'
    BY <1>0, <2>1, <2>4, <2>6 DEF Anchor, Slack
  <2>7. InTime'
    BY <2>6, HasAnchor DEF InTime
  <2> QED
    BY <2>3, <2>5, <2>7 DEF CallInv
<1>2. CASE lag' = 0 /\ ~Busy(run', flag)
  <2>1. flag = FALSE /\ run'["isr"].at = "off" /\ run'["task"].at \in {"off", "sleep"}
    BY <1>0, <1>2, Calm
  <2>2. Since' = now /\ Since <= now /\ now \in Nat /\ Since \in Nat
    BY <1>2, Scales DEF Since
  <2>3. Placing'
    BY <2>1 DEF Placing
  <2>4. ASSUME NEW n \in Nat, Loose(n) PROVE Loose(n)'
    BY <1>0, <2>1, <2>4 DEF Loose
  <2>5. Loose(Since)'
    <3>1. ~TaskComing' => ~TaskComing
      OBVIOUS
    <3>2. Armed < timer.match /\ ~flag /\ ~TaskComing' /\ run'["isr"].at \notin Writing
            => Armed <= Since + Margin + 3
      BY <3>1 DEF CallInv, Loose
    <3>3. Armed <= Since + Margin + 3 => Armed <= now + Margin + 3
      BY <2>2, Scales
    <3> QED
      BY <1>0, <2>2, <3>2, <3>3 DEF Loose
  <2>6. ASSUME NEW n \in Nat, n <= Since, Anchor(n), resched' = resched
        PROVE  n <= Since' /\ Anchor(n)'
    BY <1>0, <2>1, <2>2, <2>4, <2>6 DEF Anchor, Slack
  <2>7. InTime'
    BY <2>6, HasAnchor DEF InTime
  <2> QED
    BY <2>3, <2>5, <2>7 DEF CallInv
<1> QED
  BY <1>1, <1>2

LEMMA TickInTime ==
    ASSUME Quick, BeforeTurn, MatchInv, CallInv, InTime, Tick
    PROVE  CallInv' /\ InTime'
<1>0. /\ now' = now + 1 /\ Armed' = Armed /\ flag' = (flag \/ Armed = now + 1)
      /\ lag' = (IF Busy(run, flag) THEN lag + 1 ELSE 0)
      /\ UNCHANGED <<timer, run, resched, due>> /\ flag \in BOOLEAN
  <2>1. Word(now + 1) = now + 1 /\ flag \in BOOLEAN
    BY Scales DEF TypeOK
  <2> QED
    BY <2>1, Zenon DEF Tick, Armed, kernel
<1>1. CASE Busy(run, flag)
  <2>1. lag' = lag + 1
    BY <1>0, <1>1
  <2>2. Since' = Since /\ AtOnce' = AtOnce /\ Whole(Since + 1)' = Whole(Since + 1) /\ Delay' = Delay
        /\ (TaskComing' <=> TaskComing) /\ (Rewriting' <=> Rewriting)
    <3>1. Since' = Since
      BY <1>0, <2>1, Scales DEF Since
    <3> QED
      BY <1>0, <3>1 DEF AtOnce, Whole, Delay, TaskComing, Rewriting
  <2>4. Placing'
    BY <1>0, <2>2 DEF CallInv, Placing
  <2>5. ASSUME NEW n \in Nat, Loose(n) PROVE Loose(n)'
    BY <1>0, <2>2, <2>5 DEF Loose
  <2>6. Loose(Since)'
    BY <1>0, <2>2 DEF CallInv, Loose
  <2>7. Fresh => Fresh'
    BY <1>0, <2>2 DEF Fresh
  <2>8. ASSUME NEW n \in Nat, n <= Since, Anchor(n), ~Fresh PROVE Anchor(n)'
    <3>1. run["isr"].at # "off" \/ (flag' /\ timer.match > now + 1) => AtOnce <= n + Slack
      <4>1. CASE run["isr"].at # "off" \/ flag
        <5>1. timer.match > now + 1 => timer.match > now
          BY Scales
        <5> QED
          BY <2>8, <4>1, <5>1 DEF Anchor
      <4>2. CASE run["isr"].at = "off" /\ ~flag
        <5>1. ~TaskComing
          BY <2>8 DEF MatchInv, Base, Asked, TaskComing, Writing
        <5>2. Armed = now + 1 /\ Armed < timer.match => Armed <= n + Margin + 3
          BY <2>8, <4>2, <5>1 DEF Anchor, Loose, Writing
        <5> QED
          BY <1>0, <4>2, <5>2, Scales
      <4> QED
        BY <4>1, <4>2
    <3> QED
      BY <1>0, <2>2, <2>5, <2>8, <3>1 DEF Anchor, Slack
  <2>9. InTime'
    BY <1>0, <2>2, <2>7, <2>8 DEF InTime
  <2> QED
    BY <2>4, <2>6, <2>9 DEF CallInv
<1>2. CASE ~Busy(run, flag)
  <2>1. flag = FALSE /\ run["isr"].at = "off" /\ run["task"].at \in {"off", "sleep"} /\ lag' = 0
    BY <1>0, <1>2, Calm
  <2>2. Since' = now + 1 /\ Since = now /\ now \in Nat
    BY <1>0, <1>2, <2>1, Scales DEF Since, MatchInv, Base, Nesting
  <2>3. Placing' /\ ~TaskComing /\ ~Rewriting
    BY <1>0, <2>1, <2>2 DEF Placing, TaskComing, Rewriting, Writing
  <2>5. ASSUME NEW n \in Nat, Loose(n) PROVE Loose(n)'
    BY <1>0, <2>1, <2>3, <2>5 DEF Loose
  <2>6. Loose(Since)'
    <3>1. Armed < timer.match => Armed <= Since + Margin + 3
      BY <2>1, <2>3 DEF CallInv, Loose, Writing
    <3>2. Armed < timer.match => Armed <= (now + 1) + Margin + 3
      BY <2>2, <3>1, Scales
    <3> QED
      BY <1>0, <2>2, <3>2 DEF Loose
  <2>8. ASSUME NEW n \in Nat, n <= Since, Anchor(n) PROVE n <= Since' /\ Anchor(n)'
    <3>1. flag' /\ timer.match > now + 1 => AtOnce' <= n + Slack
      <4>1. Armed = now + 1 /\ Armed < timer.match => Armed <= n + Margin + 3
        BY <2>1, <2>3, <2>8 DEF Anchor, Loose, Writing
      <4>2. Whole(now + 2) \in Nat /\ Whole(now + 2) <= now + 3
        <5>1. now + 2 \in Nat
          BY <2>2
        <5>2. Whole(now + 2) \in Nat /\ Whole(now + 2) <= (now + 2) + 1
          BY <5>1, WholeGrows
        <5> QED
          BY <2>2, <5>2
      <4>3. AtOnce' = Whole(now + 2) + 34
        <5>1. Since' + 1 = now + 2
          BY <2>2
        <5> QED
          BY <5>1 DEF AtOnce, Whole
      <4> QED
        BY <1>0, <2>1, <4>1, <4>2, <4>3, Scales
    <3> QED
      BY <1>0, <2>1, <2>2, <2>3, <2>5, <2>8, <3>1 DEF Anchor, Slack
  <2>9. InTime'
    BY <1>0, <2>8, HasAnchor DEF InTime
  <2> QED
    BY <2>3, <2>6, <2>9 DEF CallInv
<1> QED
  BY <1>1, <1>2

LEMMA LandInTime ==
    ASSUME Quick, BeforeTurn, MatchInv, CallInv, InTime, Land
    PROVE  CallInv' /\ InTime'
<1>0. /\ Armed' = Armed /\ flag' = (flag \/ Armed = now)
      /\ UNCHANGED <<now, timer, run, lag, resched, due>> /\ flag \in BOOLEAN
  <2>1. Count = now /\ flag \in BOOLEAN
    BY Scales DEF TypeOK
  <2> QED
    BY <2>1, Zenon DEF Land, Armed, kernel
<1>1. /\ Since' = Since /\ AtOnce' = AtOnce /\ Whole(Since + 1)' = Whole(Since + 1)
      /\ Delay' = Delay /\ (TaskComing' <=> TaskComing) /\ (Rewriting' <=> Rewriting)
  BY <1>0 DEF Since, AtOnce, Whole, Delay, TaskComing, Rewriting
<1>3. Placing' /\ (Fresh => Fresh')
  BY <1>0, <1>1 DEF CallInv, Placing, Fresh
<1>4. ASSUME NEW n \in Nat, Loose(n) PROVE Loose(n)'
  BY <1>0, <1>1, <1>4 DEF Loose
<1>5. Loose(Since)'
  BY <1>0, <1>1 DEF CallInv, Loose
<1>6. ASSUME NEW n \in Nat, n <= Since, Anchor(n), ~Fresh PROVE Anchor(n)'
  <2>1. run["isr"].at # "off" \/ (flag' /\ timer.match > now) => AtOnce <= n + Slack
    <3>1. CASE run["isr"].at # "off" \/ flag
      BY <1>6, <3>1 DEF Anchor
    <3>2. CASE run["isr"].at = "off" /\ ~flag
      <4>1. ~TaskComing
        BY <1>6 DEF MatchInv, Base, Asked, TaskComing, Writing
      <4>2. Armed = now /\ Armed < timer.match => Armed <= n + Margin + 3
        BY <1>6, <3>2, <4>1 DEF Anchor, Loose, Writing
      <4> QED
        BY <1>0, <3>2, <4>2, Scales
    <3> QED
      BY <3>1, <3>2
  <2> QED
    BY <1>0, <1>1, <1>4, <1>6, <2>1 DEF Anchor, Slack
<1>7. InTime'
  BY <1>0, <1>1, <1>3, <1>6 DEF InTime
<1> QED
  BY <1>3, <1>5, <1>7 DEF CallInv

\* Where the counter has not turned, the handler finds out whether it has come before its time, ...
LEMMA EarlyOrNot ==
    ASSUME Quick, BeforeTurn, MatchInv, CallInv
    PROVE  Signed(Count - timer.match) < 0 <=> now < timer.match
<1>1. Reach \in Nat /\ Span \in Nat /\ Span <= Reach /\ Turn \in Nat
  BY Ticks DEF Quick, Span
<1>2. now - timer.match <= Reach + 1 /\ 0 - (Reach + 1) <= now - timer.match
  <2>1. CASE Rewriting
    BY <1>1, <2>1, Scales DEF MatchInv, Ahead
  <2>2. CASE ~Rewriting
    BY <1>1, <2>2, Scales DEF MatchInv, Ahead
  <2> QED
    BY <2>1, <2>2
<1>3. 2 * (Reach + 1) + 2 < Turn /\ now - timer.match \in Int /\ Reach + 1 \in Nat
  BY <1>1, Scales DEF Quick
<1>4. Signed(now - timer.match) = now - timer.match
  BY <1>2, <1>3, SignedOf
<1> QED
  BY <1>4, Scales

\* ... and what time it is.
LEMMA KnowsTime ==
    ASSUME BeforeTurn, TimeInv
    PROVE  timer.cur + Elapsed = now
<1>1. now \in Nat /\ timer.cur \in Nat /\ Reach \in Nat /\ Turn \in Nat
  BY Ticks DEF TimeInv, TypeOK
<1>2. InTurn
  BY <1>1 DEF InTurn, BeforeTurn
<1> QED
  BY <1>2, ElapsedTicks DEF TimeInv

LEMMA InterruptInTime ==
    ASSUME Quick, BeforeTurn, MatchInv, TimeInv, CallInv, InTime, Interrupt
    PROVE  CallInv' /\ InTime'
<1>0. /\ UNCHANGED <<now, tmar, posted, resched, lag>> /\ Armed' = Armed /\ flag /\ flag' = FALSE
      /\ run["isr"].at = "off" /\ run["task"].then # "sleep"
  BY DEF Interrupt, Armed, At, Masked
<1>1. timer'.match = timer.match
  BY Scales DEF Interrupt, TypeOK
<1>2. run["task"].then = "off"
  BY <1>0, Scales DEF Frame
<1> PICK period : /\ UpdatePeriod("isr", period)
                  /\ now < timer.match => period = 0
  BY EarlyOrNot DEF Interrupt
<1>3. /\ run'["isr"].at = "read" /\ run'["isr"].then = run["isr"].then /\ run'["isr"].period = period
      /\ run'["task"] = run["task"]
  BY Scales DEF UpdatePeriod, Off, TypeOK, Routine
<1>4. /\ Since' = Since /\ AtOnce' = AtOnce /\ Whole(Since + 1)' = Whole(Since + 1)
      /\ (Rewriting' <=> Rewriting)
  BY <1>0, <1>3 DEF Since, AtOnce, Whole, Rewriting
<1>6. Placing'
  <2>1. run["task"].at = "write" => now < timer.match
    BY Scales DEF CallInv, Placing
  <2> QED
    BY <1>0, <1>1, <1>3, <1>4, <2>1 DEF CallInv, Placing
<1>8. \A n : Loose(n)'
  BY <1>3 DEF Loose, Writing
<1>9. CASE now < timer.match
  <2>1. Delay' = 34
    <3>1. Margin \in Nat /\ Margin >= 2
      BY Scales DEF Quick
    <3> QED
      BY <1>3, <1>9, <3>1 DEF Delay, Least, MSEC_TO_TICK
  <2>2. ASSUME NEW n \in Nat, n <= Since, Anchor(n) PROVE Anchor(n)'
    BY <1>0, <1>1, <1>3, <1>4, <1>8, <1>9, <2>1, <2>2, Scales DEF Anchor
  <2>3. due' = due
    BY <1>9, EarlyOrNot DEF Interrupt
  <2> QED
    BY <1>4, <1>6, <1>8, <2>2, <2>3, HasAnchor DEF InTime, CallInv
<1>10. CASE ~(now < timer.match)
  <2>1. due' = (due \/ resched <= TICK_TO_MSEC(now))
    BY <1>10, EarlyOrNot, KnowsTime DEF Interrupt, Reached
  <2>2. TICK_TO_MSEC(Since) <= TICK_TO_MSEC(now)
    BY Scales, Later
  <2>3. due' \/ Fresh'
    <3>1. TICK_TO_MSEC(Since) \in Nat /\ TICK_TO_MSEC(now) \in Nat /\ resched \in Nat
      BY Scales, Tens
    <3>2. resched <= TICK_TO_MSEC(now) \/ TICK_TO_MSEC(Since) <= resched
      BY <2>2, <3>1
    <3>3. resched <= TICK_TO_MSEC(now) => due'
      BY <2>1, Zenon
    <3>4. TICK_TO_MSEC(Since) <= resched => Fresh'
      BY <1>0, <1>4 DEF Fresh
    <3> QED
      BY <3>2, <3>3, <3>4
  <2> QED
    BY <1>6, <1>8, <2>3 DEF InTime, CallInv
<1> QED
  BY <1>9, <1>10

\* A step of the handler on its way.
LEMMA HandlerInTime ==
    ASSUME Quick, BeforeTurn, MatchInv, CallInv, InTime,
           Read("isr") \/ Place("isr") \/ Write("isr") \/ Check("isr")
    PROVE  CallInv' /\ InTime'
<1>0. /\ UNCHANGED <<now, tmar, flag, resched, due>> /\ flag \in BOOLEAN
      /\ run["isr"] \in Frame /\ run["task"] \in Frame /\ "isr" \in Routine
  BY Scales DEF Read, Place, Write, Check, hardware, kernel, TypeOK, Routine
<1>1. ASSUME Read("isr") PROVE CallInv' /\ InTime'
  <2>1. /\ UNCHANGED <<posted, timer, lag>> /\ Armed' = Armed
        /\ run["isr"].at = "read" /\ run'["isr"].at = "place"
        /\ run'["isr"].then = run["isr"].then /\ run'["isr"].period = run["isr"].period
        /\ run'["isr"].msec = TICK_TO_MSEC(now) /\ run'["task"] = run["task"]
    BY <1>1, Scales DEF Read, At, hardware, Armed, TypeOK, Routine
  <2>2. /\ Since' = Since /\ AtOnce' = AtOnce /\ Delay' = Delay /\ (Rewriting' <=> Rewriting)
    BY <1>0, <2>1 DEF Since, AtOnce, Delay, Rewriting
  <2>4. Placing' /\ (Fresh => Fresh') /\ \A n : Loose(n)'
    BY <1>0, <2>1, <2>2 DEF CallInv, Placing, Fresh, Loose, Writing
  <2>5. MSEC_TO_TICK(TICK_TO_MSEC(now)) \in Nat /\ MSEC_TO_TICK(TICK_TO_MSEC(now)) <= Whole(Since + 1)
    <3>1. Since + 1 \in Nat /\ now <= Since + 1
      BY Scales
    <3> QED
      BY <3>1, Scales, WholeGrows DEF Whole
  <2>6. ASSUME NEW n \in Nat, n <= Since, Anchor(n) PROVE Anchor(n)'
    <3>1. MSEC_TO_TICK(TICK_TO_MSEC(now)) + Delay <= n + Slack
      <4>1. Whole(Since + 1) + Delay <= n + Slack
        BY <2>1, <2>6 DEF Anchor
      <4> QED
        BY <2>5, <4>1, Scales
    <3> QED
      BY <1>0, <2>1, <2>2, <2>4, <2>6, <3>1 DEF Anchor, Slack
  <2> QED
    BY <1>0, <2>2, <2>4, <2>6 DEF CallInv, InTime
<1>2. ASSUME Place("isr") PROVE CallInv' /\ InTime'
  <2> PICK match : match = Placed(run["isr"].msec, run["isr"].period)
    OBVIOUS
  <2>1. /\ UNCHANGED <<posted, lag>> /\ Armed' = Armed /\ timer'.match = match
        /\ run["isr"].at = "place" /\ run'["isr"].at = "write"
        /\ run'["isr"].then = run["isr"].then /\ run'["isr"].match = match
        /\ run'["task"] = run["task"]
    BY <1>2, Scales DEF Place, At, hardware, Armed, TypeOK, Routine, Off
  <2>2. Since' = Since /\ AtOnce' = AtOnce /\ (Rewriting' <=> Rewriting)
    BY <1>0, <2>1 DEF Since, AtOnce, Rewriting
  <2> PICK k \in Nat : now - lag <= k /\ k <= now /\ run["isr"].msec = TICK_TO_MSEC(k)
    BY <2>1 DEF MatchInv, Base, Timed
  <2> PICK sum : sum = MSEC_TO_TICK(TICK_TO_MSEC(k)) + Least(MSEC_TO_TICK(run["isr"].period), Margin)
    OBVIOUS
  <2>3. now - 1 <= k /\ run["isr"].period \in Nat
    BY <1>0, Scales DEF Frame
  <2>4. match \in Nat /\ match >= k + 2
    <3>1. match >= k + 2
      BY <2>3, PlacedAhead, Scales
    <3>2. match \in 0..Turn - 1
      BY <1>0, PlacedType DEF Frame
    <3> QED
      BY <3>2, <3>1, Ticks
  <2>5. sum \in Nat /\ match <= sum + 33
    <3>1. /\ sum \in Nat
          /\ sum < now + Margin => match = sum + 33
          /\ sum >= now + Margin => match = sum
      BY <2>3, PlacedIs, Scales
    <3>2. sum < now + Margin \/ sum >= now + Margin
      BY <3>1, Scales
    <3> QED
      BY <3>1, <3>2
  <2>6. run["isr"].period = 0 => match <= AtOnce
    <3>1. Since + 1 \in Nat /\ k <= Since + 1
      BY Scales
    <3>2. MSEC_TO_TICK(TICK_TO_MSEC(k)) \in Nat /\ MSEC_TO_TICK(TICK_TO_MSEC(k)) <= Whole(Since + 1)
      BY <3>1, WholeGrows DEF Whole
    <3>3. run["isr"].period = 0 => Least(MSEC_TO_TICK(run["isr"].period), Margin) = 1
      <4>1. Margin \in Nat /\ Margin >= 2
        BY Scales DEF Quick
      <4> QED
        BY <4>1 DEF Least, MSEC_TO_TICK
    <3> QED
      BY <2>4, <2>5, <3>2, <3>3, Scales
  <2>8. Placing'
    <3>1. run["task"].then = "off" /\ match >= Since + 2
      BY <2>1, <2>4, Scales DEF MatchInv, Base, Nesting
    <3>2. run["task"].at = "write" => match <= AtOnce
      BY <2>1, <2>6 DEF CallInv, Placing
    <3> QED
      BY <1>0, <2>1, <2>2, <3>1, <3>2 DEF CallInv, Placing
  <2>9. (Fresh => Fresh') /\ \A n : Loose(n)'
    BY <1>0, <2>1, <2>2 DEF Fresh, Loose, Writing
  <2>10. ASSUME NEW n \in Nat, n <= Since, Anchor(n) PROVE Anchor(n)'
    <3>1. match <= n + Slack
      <4>1. MSEC_TO_TICK(run["isr"].msec) + Delay <= n + Slack
        BY <2>1, <2>10 DEF Anchor
      <4>2. sum + 33 <= n + Slack
        <5>1. Least(MSEC_TO_TICK(run["isr"].period), Margin) \in Nat
          BY <2>3, Tens, Scales DEF Least
        <5>2. MSEC_TO_TICK(TICK_TO_MSEC(k)) \in Nat
          BY Tens
        <5> QED
          BY <4>1, <5>1, <5>2 DEF Delay
      <4> QED
        BY <2>4, <2>5, <4>2, Scales
    <3> QED
      BY <1>0, <2>1, <2>2, <2>9, <2>10, <3>1 DEF Anchor, Slack
  <2> QED
    BY <1>0, <2>2, <2>8, <2>9, <2>10 DEF CallInv, InTime
<1>3. ASSUME Write("isr") PROVE CallInv' /\ InTime'
  <2>1. /\ UNCHANGED <<timer, lag>> /\ posted' = run["isr"].match
        /\ run["isr"].at = "write" /\ run'["isr"].at = "check"
        /\ run'["isr"].then = run["isr"].then /\ run'["task"] = run["task"]
    BY <1>3, Scales DEF Write, Goto, At, TypeOK, Routine
  <2>2. Since' = Since /\ AtOnce' = AtOnce /\ (Rewriting' <=> Rewriting)
    BY <1>0, <2>1 DEF Since, AtOnce, Rewriting
  <2>3. Armed' = timer.match
    <3>1. posted' = timer.match /\ posted' # None
      BY <2>1, Scales DEF CallInv, Placing, None
    <3> QED
      BY <3>1 DEF Armed
  <2>5. Placing' /\ (Fresh => Fresh')
    BY <1>0, <2>1, <2>2, <2>3 DEF CallInv, Placing, Fresh
  <2>6. \A n : Loose(n)'
    BY <2>1, <2>3, Scales DEF Loose
  <2>7. ASSUME NEW n \in Nat, n <= Since, Anchor(n) PROVE Anchor(n)'
    BY <1>0, <2>1, <2>2, <2>3, <2>6, <2>7 DEF Anchor, Slack
  <2> QED
    BY <1>0, <2>2, <2>5, <2>6, <2>7 DEF CallInv, InTime
<1>4. ASSUME Check("isr") PROVE CallInv' /\ InTime'
  <2>1. UNCHANGED <<posted, timer>> /\ run["isr"].at = "check" /\ Armed' = Armed
    BY <1>0, <1>4 DEF Check, hardware, At, Armed
  <2>2. ~Behind(run["isr"].match)
    BY <2>1, Scales DEF Behind, MatchInv, Awaited, WillBeAhead, Routine
  <2>3. Return("isr")
    BY <1>4, <2>2 DEF Check, MatchInv, Base, Nesting
  <2>4. /\ run' = [run EXCEPT !["isr"] = Off]
        /\ lag' = (IF Busy(run', flag) THEN lag ELSE 0)
    BY <2>3 DEF Return, Leave
  <2>5. run'["isr"] = Off /\ run'["task"] = run["task"] /\ Off.at = "off" /\ Off.then = "off"
    BY <2>4, Scales DEF TypeOK, Routine, Off
  <2>6. Armed = timer.match /\ \A n : Loose(n)'
    BY <2>1, Scales DEF CallInv, Placing, Loose
  <2>7. CASE Busy(run', flag)
    <3>1. Since' = Since /\ AtOnce' = AtOnce /\ (Rewriting' <=> Rewriting)
      BY <1>0, <2>4, <2>5, <2>7 DEF Since, AtOnce, Rewriting
    <3>3. Placing' /\ (Fresh => Fresh')
      BY <1>0, <2>1, <2>5, <3>1 DEF CallInv, Placing, Fresh
    <3>4. ASSUME NEW n \in Nat, n <= Since, Anchor(n) PROVE Anchor(n)'
      BY <1>0, <2>1, <2>5, <2>6, <3>1, <3>4 DEF Anchor, Slack
    <3> QED
      BY <1>0, <2>6, <3>1, <3>3, <3>4 DEF CallInv, InTime
  <2>8. CASE ~Busy(run', flag)
    <3>1. flag = FALSE /\ run'["task"].at \in {"off", "sleep"} /\ lag' = 0
      BY <1>0, <2>4, <2>8, Calm
    <3>2. Since' = now /\ Since <= now /\ now \in Nat
      BY <1>0, <3>1, Scales DEF Since
    <3>3. Placing' /\ ~Rewriting
      BY <2>5, <3>1 DEF Placing, Rewriting
    <3>4. ASSUME NEW n \in Nat, n <= Since, Anchor(n) PROVE n <= Since' /\ Anchor(n)'
      BY <1>0, <2>1, <2>5, <2>6, <3>1, <3>2, <3>3, <3>4, Scales DEF Anchor
    <3> QED
      BY <1>0, <2>6, <3>3, <3>4, HasAnchor DEF CallInv, InTime
  <2> QED
    BY <2>7, <2>8
<1> QED
  BY <1>1, <1>2, <1>3, <1>4

\* A step of the kernel's call that goes on with what it has.
LEMMA CallGoesOn ==
    ASSUME Quick, BeforeTurn, MatchInv, CallInv, InTime, NEW v \in Frame,
           run' = [run EXCEPT !["task"] = v], v.then = run["task"].then,
           v.at \in {"ask", "base", "count", "again", "store", "read", "place"},
           run["task"].at \in {"ask", "base", "count", "again", "store", "read"},
           TaskComing => v.at \in Writing,
           UNCHANGED <<now, tmar, posted, flag, timer, lag, resched, due>>
    PROVE  CallInv' /\ InTime'
<1>1. run'["isr"] = run["isr"] /\ run'["task"] = v
  BY Scales DEF TypeOK, Routine
<1>2. TaskComing => TaskComing'
  BY <1>1 DEF TaskComing
<1> QED
  BY <1>1, <1>2, KernelGoesOn

\* A step by which the kernel's call or OEMIdle ends, or falls asleep.
LEMMA CallEnds ==
    ASSUME Quick, BeforeTurn, MatchInv, CallInv, InTime, NEW v \in Frame, Leave([run EXCEPT !["task"] = v]),
           v.at \in {"off", "sleep"}, run["task"].at \notin Writing,
           UNCHANGED <<now, tmar, posted, flag, timer, resched, due>>
    PROVE  CallInv' /\ InTime'
<1>1. run' = [run EXCEPT !["task"] = v] /\ lag' = (IF Busy(run', flag) THEN lag ELSE 0)
  BY DEF Leave
<1>2. run'["isr"] = run["isr"] /\ run'["task"] = v
  BY <1>1, Scales DEF TypeOK, Routine
<1>3. ~TaskComing /\ run["task"].at # "write"
  BY DEF TaskComing, Writing
<1> QED
  BY <1>1, <1>2, <1>3, KernelGoesOn

\* A step of the kernel's call into UpdatePeriod.
LEMMA CallPlaces ==
    ASSUME Quick, BeforeTurn, MatchInv, CallInv, InTime, NEW period \in Nat,
           UpdatePeriod("task", period),
           run["task"].at \in {"ask", "store"},
           UNCHANGED <<now, tmar, posted, flag, timer, lag, resched, due>>
    PROVE  CallInv' /\ InTime'
<1> PICK v : v = [Off EXCEPT !.at = "read", !.period = period, !.then = run["task"].then]
  OBVIOUS
<1>1. "read" \in Where /\ run["task"].then \in {"off", "sleep"} /\ 0 \in 0..Turn - 1
  BY Ticks, Scales DEF Where, Frame
<1>2. v \in Frame /\ v.at = "read" /\ v.then = run["task"].then
  BY <1>1, OffType DEF Off
<1>3. run' = [run EXCEPT !["task"] = v] /\ ~TaskComing
  BY DEF UpdatePeriod, TaskComing, Writing
<1> QED
  BY <1>2, <1>3, CallGoesOn

LEMMA KernelInTime ==
    ASSUME Quick, BeforeTurn, MatchInv, CallInv, InTime,
           \/ (\E s \in Sleeps : Ask(s)) \/ Look \/ TakeBase \/ TakeCount \/ TakeAgain \/ SetPeriod
           \/ Read("task") \/ Check("task") \/ Wake
    PROVE  CallInv' /\ InTime'
<1>0. /\ TypeOK /\ run["task"] \in Frame /\ run["isr"] \in Frame /\ "task" \in Routine
      /\ Off \in Frame /\ Off.at = "off" /\ Off.then = "off"
  <2>1. "off" \in Where /\ 0 \in Nat /\ 0 \in 0..Turn - 1
    BY Ticks DEF Where
  <2> QED
    BY <2>1, Scales, OffType DEF Off, Routine
<1>1. ASSUME NEW s \in Sleeps, Ask(s) PROVE CallInv' /\ InTime'
  <2>1. /\ UNCHANGED <<now, tmar, posted, flag, timer, lag>>
        /\ resched' = TICK_TO_MSEC(now) + s /\ run["task"].at = "off" /\ run["isr"].at = "off"
        /\ run'["isr"] = run["isr"] /\ run'["task"].at = "ask"
    BY <1>0, <1>1 DEF Ask, ThreadRuns, At, hardware, TypeOK, Routine
  <2>3. Fresh'
    <3>1. TICK_TO_MSEC(Since) <= TICK_TO_MSEC(now) /\ TICK_TO_MSEC(now) \in Nat
          /\ TICK_TO_MSEC(Since) \in Nat /\ s \in Nat
      BY Scales, Later, Tens, Ticks
    <3>2. Since' = Since
      BY <2>1 DEF Since
    <3> QED
      BY <2>1, <3>1, <3>2 DEF Fresh
  <2>4. ~TaskComing
    BY <2>1 DEF TaskComing, Writing
  <2> QED
    BY <2>1, <2>3, <2>4, KernelGoesOn
<1>2. ASSUME Look PROVE CallInv' /\ InTime'
  <2>1. /\ UNCHANGED <<now, tmar, posted, flag, timer, resched, due>>
        /\ run["task"].at = "ask" /\ run["isr"].at = "off" /\ run["task"].at \notin Writing
    BY <1>2 DEF Look, Runs, At, hardware, kernel, Writing
  <2>2. ASSUME UpdatePeriod("task", 0), UNCHANGED lag PROVE CallInv' /\ InTime'
    BY <2>1, <2>2, CallPlaces
  <2>3. ASSUME Return("task") PROVE CallInv' /\ InTime'
    BY <1>0, <2>1, <2>3, CallEnds DEF Return
  <2>4. ASSUME Goto("task", "base") PROVE CallInv' /\ InTime'
    <3> PICK v : v = [run["task"] EXCEPT !.at = "base"]
      OBVIOUS
    <3>1. v \in Frame /\ v.at = "base" /\ v.then = run["task"].then
      BY <1>0 DEF Frame, Where
    <3>2. run' = [run EXCEPT !["task"] = v] /\ UNCHANGED lag /\ ~TaskComing
      BY <1>0, <2>1, <2>4 DEF Goto, TypeOK, TaskComing
    <3> QED
      BY <2>1, <3>1, <3>2, CallGoesOn
  <2> QED
    BY <1>2, <2>2, <2>3, <2>4 DEF Look
<1>3. ASSUME TakeBase PROVE CallInv' /\ InTime'
  <2> PICK v : v = [run["task"] EXCEPT !.at = "count", !.base = timer.cur]
    OBVIOUS
  <2>1. v \in Frame /\ v.at = "count" /\ v.then = run["task"].then
    BY <1>0 DEF Frame, Where, TypeOK
  <2>2. run' = [run EXCEPT !["task"] = v]
    BY <1>0, <1>3 DEF TakeBase, TypeOK
  <2>3. /\ UNCHANGED <<now, tmar, posted, flag, timer, lag, resched, due>>
        /\ run["task"].at = "base" /\ run["isr"].at = "off" /\ ~TaskComing
    BY <1>3 DEF TakeBase, Runs, At, hardware, kernel, TaskComing, Writing
  <2> QED
    BY <2>1, <2>2, <2>3, CallGoesOn
<1>4. ASSUME TakeCount PROVE CallInv' /\ InTime'
  <2> PICK m : m = TICK_TO_MSEC(run["task"].base + Word(Count - timer.base))
    OBVIOUS
  <2>0. m \in Nat
    <3>1. Word(Count - timer.base) \in Nat /\ run["task"].base \in Nat
      BY <1>0, ElapsedType, Ticks DEF Elapsed, Frame
    <3> QED
      BY <3>1, Tens
  <2> PICK v : v = [run["task"] EXCEPT !.at = "again", !.msec = m]
    OBVIOUS
  <2>1. v \in Frame /\ v.at = "again" /\ v.then = run["task"].then
    BY <1>0, <2>0 DEF Frame, Where
  <2>2. run' = [run EXCEPT !["task"] = v]
    BY <1>0, <1>4 DEF TakeCount, TypeOK
  <2>3. /\ UNCHANGED <<now, tmar, posted, flag, timer, lag, resched, due>>
        /\ run["task"].at = "count" /\ run["isr"].at = "off" /\ ~TaskComing
    BY <1>4 DEF TakeCount, Runs, At, hardware, kernel, TaskComing, Writing
  <2> QED
    BY <2>1, <2>2, <2>3, CallGoesOn
<1>5. ASSUME TakeAgain PROVE CallInv' /\ InTime'
  <2>1. /\ UNCHANGED <<now, tmar, posted, flag, timer, resched, due>>
        /\ run["task"].at = "again" /\ run["isr"].at = "off" /\ ~TaskComing
    BY <1>0, <1>5 DEF TakeAgain, Runs, At, hardware, kernel, TaskComing, Writing
  <2>2. PICK where \in {"base", "store"} : Goto("task", where)
    BY <1>5 DEF TakeAgain
  <2> PICK v : v = [run["task"] EXCEPT !.at = where]
    OBVIOUS
  <2>3. v \in Frame /\ v.at = where /\ v.then = run["task"].then
    BY <1>0 DEF Frame, Where
  <2>4. run' = [run EXCEPT !["task"] = v] /\ UNCHANGED lag
    BY <1>0, <2>2 DEF Goto, TypeOK
  <2> QED
    BY <2>1, <2>3, <2>4, CallGoesOn
<1>9. ASSUME SetPeriod PROVE CallInv' /\ InTime'
  <2>1. /\ UNCHANGED <<now, tmar, posted, flag, timer, lag, resched, due>>
        /\ run["task"].at = "store"
    BY <1>9 DEF SetPeriod, At, hardware, kernel
  <2>2. PICK period \in Nat : UpdatePeriod("task", period)
    BY <1>0, <1>9, Ticks DEF SetPeriod, Least, TypeOK
  <2> QED
    BY <2>1, <2>2, CallPlaces
<1>6. ASSUME Read("task") PROVE CallInv' /\ InTime'
  <2> PICK v : v = [run["task"] EXCEPT !.at = "place", !.msec = TICK_TO_MSEC(now)]
    OBVIOUS
  <2>1. v \in Frame /\ v.at = "place" /\ v.then = run["task"].then
    <3>1. TICK_TO_MSEC(now) \in Nat
      BY Scales, Tens
    <3> QED
      BY <1>0, <3>1 DEF Frame, Where
  <2>2. run' = [run EXCEPT !["task"] = v]
    BY <1>0, <1>6, Scales DEF Read, TypeOK
  <2>3. /\ UNCHANGED <<now, tmar, posted, flag, timer, lag, resched, due>>
        /\ run["task"].at = "read" /\ run["isr"].at = "off"
    BY <1>6 DEF Read, Runs, At, hardware, kernel
  <2>4. v.at \in Writing
    BY <2>1 DEF Writing
  <2> QED
    BY <2>1, <2>2, <2>3, <2>4, CallGoesOn
<1>7. ASSUME Check("task") PROVE CallInv' /\ InTime'
  <2>1. /\ UNCHANGED <<now, tmar, posted, flag, timer, resched, due>>
        /\ run["task"].at = "check" /\ run["isr"].at = "off" /\ run["task"].at \notin Writing
    BY <1>7 DEF Check, Runs, At, hardware, kernel, Writing
  <2>2. ~Behind(run["task"].match)
    <3>1. run["task"].match >= now + 2 - lag
      BY <1>0, <2>1 DEF MatchInv, Awaited, WillBeAhead
    <3> QED
      BY <3>1, Scales DEF Behind
  <2>3. CASE run["task"].then = "sleep"
    <3> PICK v : v = [run["task"] EXCEPT !.at = "sleep", !.match = 0]
      OBVIOUS
    <3>1. v \in Frame /\ v.at = "sleep"
      <4>1. 0 \in 0..Turn - 1
        BY Ticks
      <4> QED
        BY <1>0, <4>1 DEF Frame, Where
    <3>2. [run EXCEPT !["task"].at = "sleep", !["task"].match = 0] = [run EXCEPT !["task"] = v]
      BY <1>0 DEF TypeOK
    <3>3. Leave([run EXCEPT !["task"] = v])
      BY <1>7, <2>2, <2>3, <3>2 DEF Check
    <3> QED
      BY <2>1, <3>1, <3>3, CallEnds
  <2>4. CASE run["task"].then # "sleep"
    <3>1. Return("task")
      BY <1>7, <2>2, <2>4 DEF Check
    <3> QED
      BY <1>0, <2>1, <3>1, CallEnds DEF Return
  <2> QED
    BY <2>3, <2>4
<1>8. ASSUME Wake PROVE CallInv' /\ InTime'
  <2>1. /\ UNCHANGED <<now, tmar, posted, flag, timer, resched, due>> /\ Return("task")
        /\ run["task"].at \notin Writing
    BY <1>8 DEF Wake, At, hardware, kernel, Writing
  <2> QED
    BY <1>0, <2>1, CallEnds DEF Return
<1> QED
  BY <1>1, <1>2, <1>3, <1>4, <1>5, <1>6, <1>7, <1>8, <1>9

\* The kernel's own call needs nothing of what has been set before.
LEMMA KernelPlaces ==
    ASSUME Quick, BeforeTurn, TypeOK, Base, Place("task"), run["task"].then = "off"
    PROVE  CallInv' /\ InTime'
<1>0. /\ now \in Nat /\ lag \in Nat /\ lag <= 1 /\ Since \in Nat /\ Since = now - lag
      /\ Margin \in Nat /\ Count = now
      /\ run["task"] \in Frame /\ run["isr"] \in Frame
      /\ Whole(Since + 1) \in Nat /\ Whole(Since + 1) <= Since + 2
  <2>1. /\ now \in Nat /\ lag \in Nat /\ lag <= 1 /\ Margin \in Nat /\ Count = now
        /\ run["task"] \in Frame /\ run["isr"] \in Frame
    BY Plain, Ticks DEF Quick, TypeOK, Routine
  <2>2. Since \in Nat /\ Since = now - lag
    BY <2>1 DEF Since, Base, Nesting
  <2>3. Since + 1 \in Nat /\ Since + 1 <= Since + 1
    BY <2>2
  <2>4. Whole(Since + 1) \in Nat /\ Whole(Since + 1) <= (Since + 1) + 1
    BY <2>3, WholeGrows
  <2> QED
    BY <2>1, <2>2, <2>4
<1> PICK match : match = Placed(run["task"].msec, run["task"].period)
  OBVIOUS
<1>1. /\ UNCHANGED <<now, tmar, posted, flag, resched, lag, due>> /\ Armed' = Armed
      /\ timer'.match = match /\ run["isr"].at = "off" /\ run["task"].at = "place"
      /\ run'["task"].at = "write" /\ run'["task"].match = match
      /\ run'["task"].then = "off" /\ run'["isr"] = run["isr"]
  BY DEF Place, Runs, At, hardware, kernel, Armed, TypeOK, Routine, Off
<1>3. Since' = Since /\ AtOnce' = AtOnce
  BY <1>1 DEF Since, AtOnce
<1> PICK k \in Nat : now - lag <= k /\ k <= now /\ run["task"].msec = TICK_TO_MSEC(k)
  BY <1>1 DEF Base, Timed
<1> PICK b : b = Least(MSEC_TO_TICK(run["task"].period), Margin)
  OBVIOUS
<1>4. now - 1 <= k /\ run["task"].period \in Nat
  BY <1>0 DEF Frame
<1>5. b \in Nat /\ 1 <= b /\ b <= Margin
  <2>1. Margin \in Nat /\ Margin >= 2
    BY <1>0 DEF Quick
  <2>2. MSEC_TO_TICK(run["task"].period) \in Nat /\ MSEC_TO_TICK(run["task"].period) >= 1
    BY <1>4 DEF MSEC_TO_TICK
  <2> QED
    BY <2>1, <2>2 DEF Least
<1>6. match \in Nat /\ match >= Since + 2
  <2>1. match >= k + 2
    BY <1>0, <1>4, PlacedAhead
  <2>2. match \in 0..Turn - 1
    BY <1>0, PlacedType DEF Frame
  <2> QED
    BY <1>0, <2>1, <2>2, Ticks
<1>7. match < AtOnce => match <= Since + Margin + 3
  <2>1. /\ Whole(k) + b \in Nat /\ Whole(k) + b <= k + 1 + Margin
        /\ Whole(k) + b < now + Margin => match = Whole(k) + b + 33
        /\ Whole(k) + b >= now + Margin => match = Whole(k) + b
    BY <1>0, <1>4, PlacedIs DEF Whole
  <2>2. /\ Whole(k) \in Nat /\ Whole(Since + 1) \in Nat
        /\ Whole(k) < Whole(Since + 1) => Whole(k) + 32 <= Whole(Since + 1)
    <3>1. k <= Since + 1 /\ Since + 1 \in Nat
      BY <1>0
    <3> QED
      BY <3>1, WholeGrows
  <2>3. CASE Whole(k) + b < now + Margin
    <3>1. match = Whole(k) + b + 33
      BY <2>1, <2>3
    <3>2. match < AtOnce => Whole(k) < Whole(Since + 1)
      BY <1>0, <1>5, <2>2, <3>1 DEF AtOnce
    <3> QED
      BY <1>0, <1>5, <2>2, <3>1, <3>2
  <2>4. CASE Whole(k) + b >= now + Margin
    BY <1>0, <2>1, <2>4
  <2> QED
    BY <1>0, <2>1, <2>3, <2>4
<1>9. Placing'
  BY <1>1, <1>3, <1>6, <1>7 DEF Placing
<1>10. Fresh'
  <2>1. Fresh
    BY <1>1 DEF Base, Asked
  <2> QED
    BY <1>1, <1>3, <2>1 DEF Fresh
<1>11. Loose(Since)'
  BY <1>1 DEF Loose, TaskComing, Writing
<1> QED
  BY <1>9, <1>10, <1>11 DEF CallInv, InTime

LEMMA KernelWrites ==
    ASSUME Quick, BeforeTurn, MatchInv, CallInv, InTime, Write("task")
    PROVE  CallInv' /\ InTime'
<1>1. /\ UNCHANGED <<now, flag, timer, lag, resched, due>> /\ posted' = run["task"].match
      /\ run["isr"].at = "off" /\ run["task"].at = "write" /\ run'["task"].at = "check"
      /\ run'["task"].then = run["task"].then /\ run'["isr"] = run["isr"]
  BY Scales DEF Write, Runs, Goto, At, kernel, TypeOK, Routine
<1>2. Since' = Since /\ AtOnce' = AtOnce
  BY <1>1 DEF Since, AtOnce
<1>3. Armed' = run["task"].match
  BY <1>1, Scales DEF Armed, None
<1>4. Placing'
  BY <1>1 DEF CallInv, Placing
<1>5. Fresh => Fresh'
  BY <1>1, <1>2 DEF Fresh
<1>6. CASE run["task"].then = "sleep"
  <2>1. Armed' = timer.match
    BY <1>1, <1>3, <1>6 DEF CallInv, Placing
  <2>2. \A n : Loose(n)'
    BY <1>1, <2>1, Scales DEF Loose
  <2>3. ASSUME NEW n \in Nat, n <= Since, Anchor(n) PROVE Anchor(n)'
    BY <1>1, <1>2, <2>1, <2>2, <2>3 DEF Anchor, Slack
  <2> QED
    BY <1>1, <1>2, <1>4, <1>5, <2>2, <2>3 DEF CallInv, InTime
<1>7. CASE run["task"].then # "sleep"
  <2>1. run["task"].then = "off"
    BY <1>7, Scales DEF Frame
  <2>2. Fresh'
    BY <1>1, <1>5, <2>1 DEF MatchInv, Base, Asked
  <2>3. run["task"].match < timer.match => run["task"].match <= Since + Margin + 3
    <3>1. /\ run["task"].match < AtOnce => run["task"].match <= Since + Margin + 3
          /\ run["task"].match = timer.match \/ timer.match <= AtOnce
      BY <1>1, <2>1 DEF CallInv, Placing
    <3> QED
      BY <3>1, Scales
  <2>4. Loose(Since)'
    BY <1>1, <1>2, <1>3, <2>3 DEF Loose
  <2> QED
    BY <1>4, <1>5, <2>2, <2>4 DEF CallInv, InTime
<1> QED
  BY <1>6, <1>7

LEMMA IdleInTime ==
    ASSUME Quick, BeforeTurn, MatchInv, CallInv, InTime, NEW d \in Delays, OEMIdle(d), ~tight'
    PROVE  CallInv' /\ InTime'
<1>0. Reach \in Nat /\ Span \in Nat /\ Span <= Reach /\ Turn \in Nat /\ d \in Nat /\ ~Rewriting
  BY Ticks DEF Quick, Span, OEMIdle, ThreadRuns, At, Rewriting
<1>1. Signed(timer.match - Count) = timer.match - now
  <2>1. Armed <= timer.match + Reach /\ now <= Armed + lag
    BY <1>0 DEF MatchInv, Ahead
  <2>2. timer.match - now <= Reach + 1 /\ 0 - (Reach + 1) <= timer.match - now
    BY <1>0, <2>1, Scales DEF Span
  <2>3. 2 * (Reach + 1) + 2 < Turn /\ timer.match - now \in Int /\ Reach + 1 \in Nat
    BY <1>0, Scales DEF Quick
  <2> QED
    BY <2>2, <2>3, SignedOf, Scales
<1> PICK match \in Int : match = timer.match - d
  BY <1>0, Scales
<1>2. match \in Nat /\ match >= now + 2 /\ match <= timer.match
  <2>1. ~(Signed(timer.match - Count) - d < 2)
    BY Zenon DEF OEMIdle
  <2> QED
    BY <1>0, <1>1, <2>1, Scales
<1>3. Word(match) = match
  <2>1. match \in 0..Turn - 1
    BY <1>0, <1>2, Scales DEF BeforeTurn, Span
  <2> QED
    BY <2>1, WordOf
<1>4. /\ UNCHANGED <<now, tmar, posted, flag, resched, due, lag>> /\ Armed' = Armed
      /\ run["isr"].at = "off" /\ run["task"].at = "off"
  BY DEF OEMIdle, ThreadRuns, At, hardware, kernel, Armed
<1>5. timer'.match = match
  BY <1>3, Scales DEF OEMIdle, TypeOK
<1>6. /\ run'["task"].at = "write" /\ run'["task"].then = "sleep" /\ run'["task"].match = match
      /\ run'["isr"] = run["isr"]
  <2>1. run' = [run EXCEPT !["task"].at = "write", !["task"].then = "sleep",
                          !["task"].match = match]
    BY <1>3 DEF OEMIdle
  <2> QED
    BY <2>1, Scales DEF TypeOK, Routine
<1>7. Since' = Since /\ AtOnce' = AtOnce
  BY <1>4 DEF Since, AtOnce
<1>9. Placing'
  <2>1. match >= Since + 2
    BY <1>2, Scales
  <2> QED
    BY <1>4, <1>5, <1>6, <1>7, <2>1 DEF Placing
<1>10. ASSUME NEW n \in Nat, Loose(n) PROVE Loose(n)'
  <2>1. Armed < match => Armed < timer.match
    BY <1>2, Scales
  <2>2. ~TaskComing
    BY <1>4 DEF TaskComing, Writing
  <2> QED
    BY <1>4, <1>5, <1>6, <1>10, <2>1, <2>2 DEF Loose
<1>11. Loose(Since)'
  <2>1. Loose(Since) /\ Since \in Nat
    BY Scales DEF CallInv
  <2>2. Armed < match => Armed < timer.match
    BY <1>2, Scales
  <2>3. ~TaskComing
    BY <1>4 DEF TaskComing, Writing
  <2> QED
    BY <1>4, <1>5, <1>6, <1>7, <2>1, <2>2, <2>3 DEF Loose
<1>12. ASSUME NEW n \in Nat, n <= Since, Anchor(n) PROVE Anchor(n)'
  <2>1. match <= n + Slack /\ (match > now => timer.match > now)
    BY <1>2, <1>12, Scales DEF Anchor
  <2> QED
    BY <1>0, <1>4, <1>5, <1>6, <1>7, <1>10, <1>12, <2>1 DEF Anchor, Slack
<1>13. InTime'
  BY <1>4, <1>7, <1>12, HasAnchor DEF InTime
<1> QED
  BY <1>9, <1>11, <1>13 DEF CallInv

LEMMA InTimeKept ==
    ASSUME Quick, BeforeTurn, MatchInv, TimeInv, CallInv, InTime, Next, ~tight'
    PROVE  CallInv' /\ InTime'
<1>1. ASSUME NEW r \in Routine, Read(r) \/ Place(r) \/ Write(r) \/ Check(r)
      PROVE  CallInv' /\ InTime'
  <2>1. CASE r = "isr"
    BY <1>1, <2>1, HandlerInTime
  <2>2. CASE r = "task"
    <3>1. Place("task") => run["task"].then = "off"
      <4>1. run["task"].then \in {"off", "sleep"}
        BY Scales DEF Frame
      <4> QED
        BY <4>1 DEF Place, At, MatchInv, Awaited, Once
    <3>2. TypeOK /\ Base
      BY DEF MatchInv
    <3> QED
      BY <1>1, <2>2, <3>1, <3>2, KernelInTime, KernelPlaces, KernelWrites
  <2> QED
    BY <2>1, <2>2 DEF Routine
<1>2. ASSUME AppBase \/ AppCount \/ AppAgain \/ AppStore \/ AppReturn PROVE CallInv' /\ InTime'
  <2>1. UNCHANGED <<now, tmar, posted, flag, timer, run, lag, resched, due>>
    BY <1>2 DEF AppBase, AppCount, AppAgain, AppStore, AppReturn, hardware, kernel
  <2> QED
    BY <2>1 DEF CallInv, Placing, Loose, InTime, Fresh, Anchor, Since, AtOnce, Delay, Armed,
                TaskComing, Rewriting
<1> QED
  BY <1>1, <1>2, TickInTime, LandInTime, InterruptInTime, KernelInTime, IdleInTime DEF Next

LEMMA TimeBeforeTurn == Spec => [](BeforeTurn => TimeInv)
<1>1. Init => Together /\ AppReads /\ TaskReads
  BY Ticks DEF Init, Together, AppReads, TaskReads, Count, AppOff, Off, Routine
<1>2. /\ TypeOK /\ TypeOK' /\ (BeforeTurn => Together /\ AppReads /\ TaskReads) /\ [Next]_vars
      => (BeforeTurn' => Together' /\ AppReads' /\ TaskReads')
  <2> SUFFICES ASSUME TypeOK, TypeOK', Together, AppReads, TaskReads, BeforeTurn, [Next]_vars
               PROVE  Together' /\ AppReads' /\ TaskReads'
    BY Onwards
  <2>1. InTurn
    BY Ticks DEF TypeOK, BeforeTurn, InTurn
  <2>2. CASE UNCHANGED vars
    BY <2>2 DEF vars, Together, AppReads, TaskReads
  <2>3. CASE Next
    BY <2>1, <2>3, TimeKept DEF TimeInv
  <2> QED
    BY <2>2, <2>3
<1> QED
  BY <1>1, <1>2, TypeCorrect, PTL DEF Spec, TimeInv

\* The kernel is told to reschedule within Late ms of the time it has asked for (the handler,
\* timer.c:584, may interrupt OALTimerUpdateRescheduleTime, timer.c:529, at any step), however
\* often its time is cut short and whatever latencies the idle states have, when Late leaves room
\* for the margin, the ms by which a match is moved and the few ticks that rounding costs, also
\* where the handler has overtaken a call: 2 ms for the margin of 20 ticks.  The kernel may ask
\* for any time, the present one included.  The proviso is that of NextMatchIsAhead.
THEOREM ToldInTime ==
    ASSUME Quick, Late >= TICK_TO_MSEC(Margin + 40) + 1
    PROVE  Spec => []ReschedInTime
<1>1. Init /\ BeforeTurn => CallInv /\ InTime
  <2> SUFFICES ASSUME Init, BeforeTurn PROVE CallInv /\ InTime
    OBVIOUS
  <2>1. now \in Nat /\ Margin \in Nat /\ Reach \in Nat /\ now + Margin \in 0..Turn - 1
    BY Ticks DEF Init, Quick, Span, BeforeTurn
  <2>2. timer.match = now + Margin /\ Armed = now + Margin /\ lag = 0 /\ Since = now
    BY <2>1, WordOf DEF Init, Armed, Since
  <2>3. \A r \in Routine : run[r].at = "off"
    BY DEF Init, Off
  <2>4. Fresh
    <3>1. TICK_TO_MSEC(now) \in Nat
      BY <2>1, Tens
    <3> QED
      BY <2>2, <3>1 DEF Init, Fresh
  <2>5. Placing
    BY <2>3 DEF Placing, Routine
  <2>6. Loose(Since)
    BY <2>1, <2>2 DEF Loose
  <2> QED
    BY <2>4, <2>5, <2>6 DEF CallInv, InTime
<1>2. /\ TypeOK /\ (BeforeTurn => Base) /\ (BeforeTurn => TimeInv)
      /\ (BeforeTurn /\ ~tight => MatchInv) /\ (BeforeTurn /\ ~tight => CallInv /\ InTime)
      /\ [Next]_vars
      => (BeforeTurn' /\ ~tight' => CallInv' /\ InTime')
  <2> SUFFICES ASSUME TypeOK, Base, TimeInv, BeforeTurn, [Next]_vars, ~tight',
                      ~tight => MatchInv, ~tight => CallInv /\ InTime
               PROVE  CallInv' /\ InTime'
    BY Onwards
  <2>1. CASE tight
    BY <2>1, Resumed, KernelPlaces
  <2>2. CASE ~tight /\ UNCHANGED vars
    BY <2>2 DEF CallInv, Placing, Loose, InTime, Fresh, Anchor, Since, AtOnce, Delay, Armed,
                TaskComing, Rewriting, vars, hardware, kernel
  <2>3. CASE ~tight /\ Next
    BY <2>3, InTimeKept
  <2> QED
    BY <2>1, <2>2, <2>3
<1>3. (BeforeTurn /\ ~tight => MatchInv) /\ (BeforeTurn /\ ~tight => CallInv /\ InTime)
        => ReschedInTime
  <2> SUFFICES ASSUME MatchInv, CallInv, InTime, BeforeTurn, ~due
               PROVE  ~(TICK_TO_MSEC(now) > resched + Late)
    BY DEF ReschedInTime
  <2>1. PICK n \in Nat : n <= Since /\ Anchor(n) /\ now <= n + (Margin + 40)
    <3>1. CASE Rewriting
      <4>1. Fresh
        BY <3>1 DEF Rewriting, MatchInv, Base, Asked
      <4>2. Anchor(Since) /\ Since \in Nat /\ Since <= Since /\ now <= Since + (Margin + 40)
        BY <4>1, Anchored, Scales
      <4> QED
        BY <4>2
    <3>2. CASE ~Rewriting
      <4>1. PICK n \in Nat : n <= Since /\ Anchor(n)
        BY HasAnchor
      <4>2. now <= n + (Margin + 40)
        BY <3>2, <4>1, Scales DEF Anchor, MatchInv, Ahead
      <4> QED
        BY <4>1, <4>2
    <3> QED
      BY <3>1, <3>2
  <2> PICK m \in Nat : m = Margin + 40
    BY Scales
  <2>3. TICK_TO_MSEC(now) <= TICK_TO_MSEC(n) + TICK_TO_MSEC(m) + 1
    <3>1. now \in Nat /\ now <= n + m
      BY <2>1, Scales
    <3> QED
      BY <3>1, MsecSum
  <2>4. TICK_TO_MSEC(n) <= resched /\ Late >= TICK_TO_MSEC(m) + 1
    BY <2>1 DEF Anchor
  <2>5. TICK_TO_MSEC(n) \in Nat /\ TICK_TO_MSEC(m) \in Nat /\ TICK_TO_MSEC(now) \in Nat
        /\ resched \in Nat /\ Late \in Nat
    BY Scales, Tens, Ticks
  <2> QED
    BY <2>3, <2>4, <2>5
<1> QED
  BY <1>1, <1>2, <1>3, MatchInvariance, BaseInvariance, TimeBeforeTurn, TypeCorrect, PTL DEF Spec
=============================================================================
