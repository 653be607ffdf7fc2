------------------------------- MODULE GpTimer -------------------------------
(***************************************************************************)
(* The system tick (OMAP_GTP_TIMER/TIMER/timer.c): a general purpose timer  *)
(* counts 32768 ticks a second and interrupts when its counter equals the   *)
(* match register.  The kernel has no fixed tick: the interrupt handler, the *)
(* call that sets the next time to reschedule and OEMIdle each work out the *)
(* next match, in words that wrap, while the counter runs.                  *)
(*                                                                         *)
(* The counter may move between any two register accesses, but a stretch of *)
(* timer code, from a pending interrupt on, takes at most Lag ticks, if it  *)
(* does not start over.  A write of the match register reaches the timer at *)
(* once or with the next tick (posted mode).                               *)
(*                                                                         *)
(* Left out: the CPU load monitor, which may take an interrupt of the timer *)
(* before the handler sees it again.                                       *)
(***************************************************************************)
EXTENDS Integers

CONSTANTS
    Width,     \* bits of the counter: 32 in hardware
    Margin,    \* DELTA_TIME
    MaxIdle,   \* dwOEMMaxIdlePeriod, in ms
    Delays,    \* wake-up latencies of the idle states, in ticks
    Sleeps,    \* how far ahead, in ms, the kernel asks to be called
    Lag,       \* most ticks that pass in a routine
    Reach,     \* most ticks that a match is ahead
    Late,      \* most ms that the kernel is called late
    Reads,     \* bound: times, in ticks, at which a thread asks for the time
    Starts,    \* ticks since the timer was started when a behaviour begins
    Ends       \* bound: when it ends

VARIABLES
    now,      \* ticks since the timer was started
    tmar,     \* match register
    posted,   \* the value written to it that has not reached the timer
    flag,     \* match bit of the status register: the interrupt
    timer,    \* curCounts, base and match of g_oalTimerContext
    curMSec,  \* CurMSec, which the kernel reads
    resched,  \* dwReschedTime
    due,      \* whether the kernel has been told to reschedule and has not asked again
    run,      \* where the interrupt handler and the kernel are, with their locals
    app,      \* a thread that asks for the time
    lag,      \* ticks since the routine that runs began
    tight     \* history: since the kernel's own call set the match, OEMIdle has moved
              \* it to less than two ticks ahead

hardware == <<tmar, posted, flag>>
kernel == <<resched, due>>
vars == <<now, hardware, timer, curMSec, kernel, run, app, lag, tight>>

Turn == 2^Width
None == -1

ASSUME Ticks ==
    /\ Width \in Nat \ {0} /\ Margin \in Nat /\ MaxIdle \in Nat
    /\ Delays \subseteq Nat /\ Sleeps \subseteq Nat /\ Reads \subseteq Nat /\ Starts \subseteq Nat
    /\ Lag \in Nat /\ Reach \in Nat /\ Late \in Nat
    /\ Turn \in Nat \ {0}           \* a power of two: a theorem has no other way to know
    /\ (Turn * 1000) % 32768 = 0    \* a turn of the counter is a number of ms

Routine == {"isr", "task"}
Where == {"off", "ask", "base", "count", "again", "store", "read", "place", "write", "check", "sleep"}
Off == [at |-> "off", then |-> "off", period |-> 0, msec |-> 0, match |-> 0, base |-> 0]
AppOff == [at |-> "off", base |-> 0, msec |-> 0, since |-> 0]

TypeOK ==
    /\ now \in Nat
    /\ tmar \in 0..Turn - 1 /\ posted \in 0..Turn - 1 \cup {None} /\ flag \in BOOLEAN
    /\ timer \in [cur : Nat, base : 0..Turn - 1, match : 0..Turn - 1]
    /\ curMSec \in Nat /\ resched \in Nat /\ due \in BOOLEAN
    /\ run \in [Routine -> [at : Where, then : {"off", "sleep"}, period : Nat,
                            msec : Nat, match : 0..Turn - 1, base : Nat]]
    /\ app \in [at : {"off", "count", "again", "store", "return"}, base : Nat, msec : Nat, since : Nat]
    /\ lag \in 0..Lag /\ tight \in BOOLEAN

-----------------------------------------------------------------------------
(* Arithmetic                                                              *)

MSEC_TO_TICK(msec) == (msec * 4096) \div 125 + 1
TICK_TO_MSEC(tick) == (tick * 1000) \div 32768

Word(n) == n % Turn
Signed(n) == IF Word(n) >= Turn \div 2 THEN Word(n) - Turn ELSE Word(n)
Least(a, b) == IF a < b THEN a ELSE b
Count == Word(now)

\* Mutant: the match is left where the whole millisecond puts it.
Placed_NotMoved(msec, period) == Word(MSEC_TO_TICK(msec) + Least(MSEC_TO_TICK(period), Margin))
\* Mutant: the sum is not cut to a word.
Placed_Whole(msec, period) ==
    LET match == MSEC_TO_TICK(msec) + Least(MSEC_TO_TICK(period), Margin)
    IN IF Signed(Count + Margin - match) > 0 THEN match + MSEC_TO_TICK(1) ELSE match
\* UpdatePeriod: the match for a time read before, a millisecond later when it is nearer
\* than the margin.
Placed(msec, period) ==
    LET match == MSEC_TO_TICK(msec) + Least(MSEC_TO_TICK(period), Margin)
    IN IF Signed(Count + Margin - match) > 0
       THEN Word(match + MSEC_TO_TICK(1)) ELSE Word(match)

\* The state that an interrupt leaves.
Init ==
    /\ now \in Starts
    /\ timer = [cur |-> now, base |-> Count, match |-> Word(now + Margin)]
    /\ tmar = timer.match /\ posted = None /\ flag = FALSE
    /\ curMSec = TICK_TO_MSEC(now) /\ resched = curMSec + 1 /\ due = FALSE
    /\ run = [r \in Routine |-> Off]
    /\ app = AppOff
    /\ lag = 0 /\ tight = FALSE

At(r, where) == run[r].at = where
\* OEMIdle is called and returns with interrupts off.
Masked == run["task"].then = "sleep"
\* The handler runs before the kernel, the kernel before the thread.
Runs(r) == r = "task" => At("isr", "off")
ThreadRuns == At("isr", "off") /\ At("task", "off")
Busy(s, f) == s["isr"].at # "off" \/ s["task"].at \notin {"off", "sleep"} \/ f

\* A routine goes on, gives way to what it has interrupted, or calls UpdatePeriod.
Goto(r, where) == run' = [run EXCEPT ![r].at = where] /\ UNCHANGED lag
Leave(s) == run' = s /\ lag' = IF Busy(s, flag) THEN lag ELSE 0
Return(r) == Leave([run EXCEPT ![r] = Off])
UpdatePeriod(r, period) ==
    run' = [run EXCEPT ![r] = [Off EXCEPT !.at = "read", !.period = period, !.then = run[r].then]]

-----------------------------------------------------------------------------
(* UpdatePeriod and OALTimerSetCompare                                     *)

Read(r) ==
    /\ Runs(r) /\ At(r, "read")
    /\ run' = [run EXCEPT ![r].at = "place", ![r].msec = TICK_TO_MSEC(Count)]
    /\ UNCHANGED <<now, hardware, timer, curMSec, kernel, app, lag, tight>>

Place(r) ==
    LET match == Placed(run[r].msec, run[r].period)
    IN /\ Runs(r) /\ At(r, "place")
       /\ timer' = [timer EXCEPT !.match = match]
       /\ run' = [run EXCEPT ![r] = [Off EXCEPT !.at = "write", !.match = match,
                                         !.then = run[r].then]]
       /\ tight' = (tight /\ (r = "isr" \/ run[r].then = "sleep"))
       /\ UNCHANGED <<now, hardware, curMSec, kernel, app, lag>>

\* A write that has not reached the timer is waited for first.
Write(r) ==
    /\ Runs(r) /\ At(r, "write") /\ posted = None
    /\ posted' = run[r].match
    /\ Goto(r, "check")
    /\ UNCHANGED <<now, tmar, flag, timer, curMSec, kernel, app, tight>>

\* The comparison is one of words: a match beyond the turn of the counter looks passed.
Behind(match) == match < Count

Check(r) ==
    /\ Runs(r) /\ At(r, "check")
    /\ IF Behind(run[r].match) THEN UpdatePeriod(r, 1) /\ lag' = 0
       ELSE IF run[r].then = "sleep" THEN Leave([run EXCEPT ![r].at = "sleep", ![r].match = 0])
       ELSE Return(r)
    /\ UNCHANGED <<now, hardware, timer, curMSec, kernel, app, tight>>

-----------------------------------------------------------------------------
(* The hardware                                                            *)

Land ==
    /\ posted # None
    /\ tmar' = posted /\ posted' = None
    /\ flag' = (flag \/ posted = Count)
    /\ UNCHANGED <<now, timer, curMSec, kernel, run, app, lag, tight>>

Tick ==
    /\ now \notin Ends
    /\ Busy(run, flag) => lag < Lag
    /\ now' = now + 1
    /\ tmar' = IF posted = None THEN tmar ELSE posted
    /\ posted' = None
    /\ flag' = (flag \/ tmar' = Word(now + 1))
    /\ lag' = IF Busy(run, flag) THEN lag + 1 ELSE 0
    /\ UNCHANGED <<timer, curMSec, kernel, run, app, tight>>

-----------------------------------------------------------------------------
(* OALTimerIntrHandler                                                     *)

\* Mutant: a time that has just come is not counted.
Reached_Past(msec) == resched < msec
Reached(msec) == resched <= msec

\* Ticks since the last interrupt.
Elapsed == Word(Count - timer.base)

\* An interrupt before its time only sets a new match.  Otherwise the time is brought up to
\* date and the kernel is told to reschedule when its time has come.
Interrupt ==
    LET cur == timer.cur + Elapsed
        msec == TICK_TO_MSEC(cur)
        early == Signed(Count - timer.match) < 0
    IN /\ flag /\ At("isr", "off") /\ ~Masked
       /\ flag' = FALSE
       /\ IF early THEN UNCHANGED <<timer, curMSec, due>>
          ELSE /\ timer' = [timer EXCEPT !.cur = cur, !.base = Word(@ + Elapsed)]
               /\ curMSec' = msec
               /\ due' = (due \/ Reached(msec))
       /\ UpdatePeriod("isr", IF early THEN 0
                              ELSE IF Reached(msec) THEN MaxIdle ELSE resched - msec)
       /\ UNCHANGED <<now, tmar, posted, resched, app, lag, tight>>

-----------------------------------------------------------------------------
(* OALTimerUpdateRescheduleTime, with OEMGetTickCount inside               *)

Ask(s) ==
    /\ ThreadRuns
    /\ resched' = TICK_TO_MSEC(now) + s
    /\ due' = FALSE
    /\ run' = [run EXCEPT !["task"].at = "ask", !["task"].msec = curMSec]
    /\ UNCHANGED <<now, hardware, timer, curMSec, app, lag, tight>>

\* A match that has passed is set again; with an interrupt near, or just behind, nothing
\* is left to do.
Look ==
    LET delta == Signed(timer.match - Count)
    IN /\ Runs("task") /\ At("task", "ask")
       /\ IF delta < 0 THEN UpdatePeriod("task", 0) /\ UNCHANGED lag
          ELSE IF run["task"].msec # curMSec \/ delta < MSEC_TO_TICK(1) THEN Return("task")
          ELSE Goto("task", "base")
       /\ UNCHANGED <<now, hardware, timer, curMSec, kernel, app, tight>>

TakeBase ==
    /\ Runs("task") /\ At("task", "base")
    /\ run' = [run EXCEPT !["task"].at = "count", !["task"].base = timer.cur]
    /\ UNCHANGED <<now, hardware, timer, curMSec, kernel, app, lag, tight>>

TakeCount ==
    /\ Runs("task") /\ At("task", "count")
    /\ run' = [run EXCEPT !["task"].at = "again",
                         !["task"].msec = TICK_TO_MSEC(run["task"].base + Word(Count - timer.base))]
    /\ UNCHANGED <<now, hardware, timer, curMSec, kernel, app, lag, tight>>

TakeAgain ==
    /\ Runs("task") /\ At("task", "again")
    /\ IF run["task"].base # timer.cur THEN Goto("task", "base") /\ UNCHANGED curMSec
       ELSE Goto("task", "store") /\ curMSec' = run["task"].msec
    /\ UNCHANGED <<now, hardware, timer, kernel, app, tight>>

\* The time returned is CurMSec as it is after the store.
SetPeriod ==
    /\ Runs("task") /\ At("task", "store")
    /\ UpdatePeriod("task", IF resched < curMSec THEN 0 ELSE Least(resched - curMSec, MaxIdle))
    /\ UNCHANGED <<now, hardware, timer, curMSec, kernel, app, lag, tight>>

-----------------------------------------------------------------------------
(* OEMIdle                                                                 *)

\* Unless the interrupt is near, the match is moved ahead by the latency of the idle state.
OEMIdle(delay) ==
    LET match == Word(timer.match - delay)
        delta == Signed(timer.match - Count)
    IN /\ ThreadRuns /\ app.at = "off" /\ ~due
       /\ delta >= Margin /\ delta >= delay
       /\ timer' = [timer EXCEPT !.match = match]
       /\ run' = [run EXCEPT !["task"].at = "write", !["task"].then = "sleep",
                             !["task"].match = match]
       /\ tight' = (tight \/ delta - delay < 2)
       /\ UNCHANGED <<now, hardware, curMSec, kernel, app, lag>>

\* Any interrupt ends the sleep.
Wake ==
    /\ At("task", "sleep")
    /\ Return("task")
    /\ UNCHANGED <<now, hardware, timer, curMSec, kernel, app, tight>>

-----------------------------------------------------------------------------
(* OEMGetTickCount, called by a thread                                     *)

AppBase ==
    /\ ThreadRuns /\ app.at = "off" /\ now \in Reads
    /\ app' = [app EXCEPT !.at = "count", !.base = timer.cur, !.since = TICK_TO_MSEC(now)]
    /\ UNCHANGED <<now, hardware, timer, curMSec, kernel, run, lag, tight>>

AppCount ==
    /\ ThreadRuns /\ app.at = "count"
    /\ app' = [app EXCEPT !.at = "again",
                           !.msec = TICK_TO_MSEC(app.base + Word(Count - timer.base))]
    /\ UNCHANGED <<now, hardware, timer, curMSec, kernel, run, lag, tight>>

\* Mutant: the time is taken as it was read.
Unmoved_Always(base) == TRUE
\* Whether no interrupt has brought the time up to date in between.
Unmoved(base) == base = timer.cur

AppAgain ==
    /\ ThreadRuns /\ app.at = "again"
    /\ app' = IF Unmoved(app.base)
              THEN [app EXCEPT !.at = "store", !.base = 0]
              ELSE [app EXCEPT !.at = "count", !.base = timer.cur, !.msec = 0]
    /\ UNCHANGED <<now, hardware, timer, curMSec, kernel, run, lag, tight>>

AppStore ==
    /\ ThreadRuns /\ app.at = "store"
    /\ curMSec' = app.msec
    /\ app' = [app EXCEPT !.at = "return", !.msec = 0]
    /\ UNCHANGED <<now, hardware, timer, kernel, run, lag, tight>>

\* What is returned is CurMSec, read again.
AppReturn ==
    /\ ThreadRuns /\ app.at = "return"
    /\ app' = AppOff
    /\ UNCHANGED <<now, hardware, timer, curMSec, kernel, run, lag, tight>>

-----------------------------------------------------------------------------
Next ==
    \/ Tick \/ Land \/ Interrupt
    \/ \E r \in Routine : Read(r) \/ Place(r) \/ Write(r) \/ Check(r)
    \/ (\E s \in Sleeps : Ask(s)) \/ Look \/ TakeBase \/ TakeCount \/ TakeAgain \/ SetPeriod
    \/ (\E d \in Delays : OEMIdle(d)) \/ Wake
    \/ AppBase \/ AppCount \/ AppAgain \/ AppStore \/ AppReturn

Spec == Init /\ [][Next]_vars

-----------------------------------------------------------------------------
(* Properties                                                              *)

\* The value the timer compares with, or will when the last write has reached it.
Armed == IF posted = None THEN tmar ELSE posted

\* The counter has not come within reach of its first turn.
BeforeTurn == now + Reach + 2 < Turn

\* Whenever no routine is at work, the match is ahead, and near.  A match that is missed
\* comes back after a whole turn.
WaitsAhead == ~Busy(run, flag) => Word(Armed - Count) \in 1..Reach

\* "make sure we don't set next timer interrupt to the past" (timer.c:244), whoever has
\* set it, and whoever has overtaken whom.  The check there misses a match near the turn of
\* the counter, and one that OEMIdle has moved to the present tick; the latter is put right
\* by the next call of the kernel's.
MatchAhead == BeforeTurn /\ ~tight => WaitsAhead

\* The same whatever the latency of the idle state.
MatchAheadAsleep == BeforeTurn => WaitsAhead

\* The kernel is told to reschedule within Late ms of the time it has asked for, however
\* often its time was cut short, and the interrupt set anew, on the way.
ReschedInTime == BeforeTurn /\ ~tight /\ TICK_TO_MSEC(now) > resched + Late => due

\* The time that OEMGetTickCount returns is the time at some moment of the call, whatever
\* interrupts came in between (the loop at timer.c:717, and CurMSec read again after it).
TickCountExact ==
    [][app.at = "return" /\ app'.at = "off"
          => curMSec \in app.since..TICK_TO_MSEC(now)]_vars
=============================================================================
