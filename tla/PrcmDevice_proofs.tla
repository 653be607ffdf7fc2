-------------------------- MODULE PrcmDevice_proofs -------------------------
(***************************************************************************)
(* Proofs about PrcmDevice, for any table of devices and any number of      *)
(* driver threads.                                                          *)
(***************************************************************************)
EXTENDS PrcmDevice, FiniteSetTheorems, TLAPS

\* A thread that has begun to switch a clock has an entry to switch: NULL entries
\* are skipped, and every label of an update belongs to its half.
CallOK ==
    \A t \in Thread :
        /\ pc[t] \in {"check", "count", "lock"} \cup CriticalLabel => half[t] \in Halves(job[t])
        /\ pc[t] = "ai_lock" => job[t].call = "autoidle"
        /\ pc[t] = "source" => half[t] = "fclk" /\ job[t].on
        /\ pc[t] = "domain2" => job[t].on
        /\ pc[t] \in {"domain1", "wk_read", "wk_write", "domain2"} => half[t] = "iclk"

\* What MayCall, Proceed and Return do to a thread, in one fact: pc, half and job
\* stay well typed, and a thread that goes on has an entry to switch.
LEMMA ProceedType ==
    ASSUME NEW t \in Thread, NEW j \in [call : Entry, dev : Device, on : BOOLEAN],
           NEW H \in SUBSET Halves(j), TypeOK, CallOK,
           Proceed(t, j, H)
    PROVE  /\ pc' \in [Thread -> Label]
           /\ job' \in [Thread -> [call : Entry, dev : Device, on : BOOLEAN]]
           /\ half' \in [Thread -> Half]
           /\ pc'[t] \in {"idle", "check", "count"}
           /\ pc'[t] # "idle" => half'[t] \in Halves(job'[t])
           /\ \A u \in Thread \ {t} : pc'[u] = pc[u] /\ job'[u] = job[u] /\ half'[u] = half[u]
<1>0. NoJob \in [call : Entry, dev : Device, on : BOOLEAN]
  BY Finiteness DEF NoJob, Entry
<1>1. CASE H # {}
  <2>1. \A h \in H : h \in Half /\ h \in Halves(j)
    BY DEF Halves
  <2>2. (IF "fclk" \in H THEN "fclk" ELSE "iclk") \in H
    BY <1>1, <2>1 DEF Half
  <2>3. /\ half' = [half EXCEPT ![t] = IF "fclk" \in H THEN "fclk" ELSE "iclk"]
        /\ pc' = [pc EXCEPT ![t] = IF j.on THEN "count" ELSE "check"]
        /\ job' = [job EXCEPT ![t] = j]
    BY <1>1 DEF Proceed, GoTo
  <2> QED
    BY <2>1, <2>2, <2>3 DEF TypeOK, Label
<1>2. CASE H = {}
  <2>1. /\ pc' = [pc EXCEPT ![t] = "idle"]
        /\ job' = [job EXCEPT ![t] = NoJob]
        /\ half' = [half EXCEPT ![t] = "fclk"]
    BY <1>2 DEF Proceed, Return, GoTo
  <2> QED
    BY <1>0, <2>1 DEF TypeOK, Label, Half
<1> QED
  BY <1>1, <1>2

-----------------------------------------------------------------------------
(* Type correctness and the lock                                           *)

Core == TypeOK /\ CallOK /\ MutualExclusion

LEMMA InitCore == Init => Core
<1> SUFFICES ASSUME Init PROVE Core
  OBVIOUS
<1>1. NoJob \in [call : Entry, dev : Device, on : BOOLEAN]
  BY Finiteness DEF NoJob, Entry
<1>2. TypeOK
  BY <1>1 DEF Init, TypeOK, Label, Half
<1>3. CallOK
  BY DEF Init, CallOK, CriticalLabel
<1>4. MutualExclusion
  BY Clients DEF Init, MutualExclusion, InCritical, CriticalLabel
<1> QED
  BY <1>2, <1>3, <1>4 DEF Core

\* The entry that a thread switches, and its domain.
LEMMA CallTypes ==
    ASSUME Core, NEW t \in Thread
    PROVE  /\ Dev(t) \in Device /\ On(t) \in BOOLEAN /\ Dom(t) \in Domain
           /\ pc[t] \in {"check", "count", "lock"} \cup CriticalLabel
                => Clk(t) \in Clock /\ Clk(t) # NoClock
BY DeviceTable DEF Core, TypeOK, CallOK, Dev, On, Dom, Clk, ClockOf, Halves, Half

LEMMA CallCore ==
    ASSUME Core, NEW t \in Thread, Call(t)
    PROVE  Core'
<1>1. PICK j \in [call : Calls, dev : Device, on : BOOLEAN] :
        /\ MayCall(t, j)
        /\ \/ /\ j.call = "autoidle"
              /\ GoTo(t, "ai_lock")
              /\ job' = [job EXCEPT ![t] = j]
              /\ UNCHANGED half
           \/ /\ j.call \in {"clocks", "fclk"} /\ j.dev \in AutoidleCapable
              /\ GoTo(t, "ai_read")
              /\ job' = [job EXCEPT ![t] = j]
              /\ UNCHANGED half
           \/ Proceed(t, j, Halves(j))
  BY DEF Call
<1>2. pc[t] = "idle" /\ UNCHANGED <<tmp, sharedVars>>
  BY DEF Call
<1>3. j \in [call : Entry, dev : Device, on : BOOLEAN]
  BY Clients
<1>4. CASE j.call = "autoidle" /\ GoTo(t, "ai_lock") /\ job' = [job EXCEPT ![t] = j] /\ UNCHANGED half
  BY <1>2, <1>3, <1>4 DEF Core, TypeOK, CallOK, MutualExclusion, InCritical, GoTo, Label,
     CriticalLabel, sharedVars
<1>5. CASE j.call \in {"clocks", "fclk"} /\ GoTo(t, "ai_read") /\ job' = [job EXCEPT ![t] = j] /\ UNCHANGED half
  BY <1>2, <1>3, <1>5 DEF Core, TypeOK, CallOK, MutualExclusion, InCritical, GoTo, Label,
     CriticalLabel, sharedVars
<1>6. CASE Proceed(t, j, Halves(j))
  <2>1. /\ pc' \in [Thread -> Label]
        /\ job' \in [Thread -> [call : Entry, dev : Device, on : BOOLEAN]]
        /\ half' \in [Thread -> Half]
        /\ pc'[t] \in {"idle", "check", "count"}
        /\ pc'[t] # "idle" => half'[t] \in Halves(job'[t])
        /\ \A u \in Thread \ {t} : pc'[u] = pc[u] /\ job'[u] = job[u] /\ half'[u] = half[u]
    BY <1>3, <1>6, ProceedType DEF Core
  <2>2. TypeOK'
    BY <1>2, <2>1 DEF Core, TypeOK, sharedVars
  <2>3. CallOK'
    BY <2>1 DEF Core, CallOK, CriticalLabel, Halves
  <2>4. MutualExclusion'
    BY <1>2, <2>1 DEF Core, MutualExclusion, InCritical, CriticalLabel, sharedVars
  <2> QED
    BY <2>2, <2>3, <2>4 DEF Core
<1> QED
  BY <1>1, <1>4, <1>5, <1>6

\* A step that ends one half of a call: what NextHalf does to the thread.
LEMMA NextHalfCore ==
    ASSUME Core, NEW t \in Thread, NextHalf(t)
    PROVE  /\ pc' \in [Thread -> Label]
           /\ job' \in [Thread -> [call : Entry, dev : Device, on : BOOLEAN]]
           /\ half' \in [Thread -> Half]
           /\ pc'[t] \in {"idle", "check", "count"}
           /\ CallOK'
           /\ \A u \in Thread \ {t} : pc'[u] = pc[u] /\ job'[u] = job[u] /\ half'[u] = half[u]
<1>1. job[t] \in [call : Entry, dev : Device, on : BOOLEAN]
  BY DEF Core, TypeOK
<1>2. /\ pc' \in [Thread -> Label]
      /\ job' \in [Thread -> [call : Entry, dev : Device, on : BOOLEAN]]
      /\ half' \in [Thread -> Half]
      /\ pc'[t] \in {"idle", "check", "count"}
      /\ pc'[t] # "idle" => half'[t] \in Halves(job'[t])
      /\ \A u \in Thread \ {t} : pc'[u] = pc[u] /\ job'[u] = job[u] /\ half'[u] = half[u]
  BY <1>1, ProceedType DEF Core, NextHalf
<1>3. CallOK'
  BY <1>2 DEF Core, CallOK, CriticalLabel, Halves
<1> QED
  BY <1>2, <1>3

\* The autoidle entry point and the autoidle part of PrcmDeviceEnableFClock.
LEMMA AutoidleCore ==
    ASSUME Core, NEW t \in Thread, AutoidleLock(t) \/ AutoidleRead(t) \/ AutoidleWrite(t)
    PROVE  Core'
<1>1. CASE AutoidleLock(t)
  <2>1. enabled' \in SUBSET Device
    BY <1>1, CallTypes DEF AutoidleLock, Core, TypeOK
  <2>2. pc[t] = "ai_lock" /\ job[t].call = "autoidle"
    BY <1>1 DEF AutoidleLock, Core, CallOK
  <2> QED
    BY <1>1, <2>1, <2>2, Clients DEF AutoidleLock, Core, TypeOK, CallOK, MutualExclusion, InCritical,
       GoTo, Label, CriticalLabel
<1>2. CASE AutoidleRead(t)
  <2>1. tmp' \in [Thread -> SUBSET Bit]
    BY <1>2, CallTypes DEF AutoidleRead, ReadBit, Core, TypeOK, Bit, RegName
  <2> QED
    BY ZenonT(40), <1>2, <2>1 DEF AutoidleRead, Core, TypeOK, CallOK, MutualExclusion, InCritical, GoTo,
       Label, CriticalLabel, sharedVars
<1>3. CASE AutoidleWrite(t)
  <2>1. reg' \in [RegName -> [Domain -> SUBSET Bit]] /\ tmp' \in [Thread -> SUBSET Bit]
    BY <1>3 DEF AutoidleWrite, WriteBack, Core, TypeOK, RegName
  <2>2. CASE job[t].call = "autoidle" /\ mutex' = NoThread /\ Return(t)
    <3>1. Proceed(t, job[t], {})
      BY <2>2 DEF Proceed
    <3>2. job[t] \in [call : Entry, dev : Device, on : BOOLEAN]
      BY DEF Core, TypeOK
    <3>3. /\ pc' \in [Thread -> Label]
          /\ job' \in [Thread -> [call : Entry, dev : Device, on : BOOLEAN]]
          /\ half' \in [Thread -> Half]
          /\ \A u \in Thread \ {t} : pc'[u] = pc[u] /\ job'[u] = job[u] /\ half'[u] = half[u]
      BY <3>1, <3>2, ProceedType DEF Core
    <3>4. pc'[t] = "idle"
      BY <2>2 DEF Return, GoTo, Core, TypeOK
    <3>5. TypeOK'
      BY <1>3, <2>1, <2>2, <3>3 DEF AutoidleWrite, Core, TypeOK
    <3>6. CallOK'
      BY <3>3, <3>4 DEF Core, CallOK, CriticalLabel, Halves
    <3>7. MutualExclusion'
      BY <1>3, <2>2, <3>3, <3>4, Clients
         DEF AutoidleWrite, Core, MutualExclusion, InCritical, CriticalLabel
    <3> QED
      BY <3>5, <3>6, <3>7 DEF Core
  <2>3. CASE job[t].call # "autoidle" /\ Proceed(t, job[t], Halves(job[t])) /\ UNCHANGED mutex
    <3>2. job[t] \in [call : Entry, dev : Device, on : BOOLEAN]
      BY DEF Core, TypeOK
    <3>3. /\ pc' \in [Thread -> Label]
          /\ job' \in [Thread -> [call : Entry, dev : Device, on : BOOLEAN]]
          /\ half' \in [Thread -> Half]
          /\ pc'[t] \in {"idle", "check", "count"}
          /\ pc'[t] # "idle" => half'[t] \in Halves(job'[t])
          /\ \A u \in Thread \ {t} : pc'[u] = pc[u] /\ job'[u] = job[u] /\ half'[u] = half[u]
      BY <2>3, <3>2, ProceedType DEF Core
    <3>4. TypeOK'
      BY <1>3, <2>1, <2>3, <3>3 DEF AutoidleWrite, Core, TypeOK
    <3>5. CallOK'
      BY <3>3 DEF Core, CallOK, CriticalLabel, Halves
    <3>6. MutualExclusion'
      BY <1>3, <2>3, <3>3
         DEF AutoidleWrite, Core, MutualExclusion, InCritical, CriticalLabel
    <3> QED
      BY <3>4, <3>5, <3>6 DEF Core
  <2> QED
    BY <1>3, <2>2, <2>3 DEF AutoidleWrite
<1> QED
  BY <1>1, <1>2, <1>3

\* The count and the lock.
LEMMA CountCore ==
    ASSUME Core, NEW t \in Thread, CheckRef(t) \/ CountRef(t) \/ Acquire(t)
    PROVE  Core'
<1>1. CASE CheckRef(t)
  <2>1. CASE GoTo(t, "count") /\ UNCHANGED <<job, half>>
    BY <1>1, <2>1 DEF CheckRef, Core, TypeOK, CallOK, MutualExclusion, InCritical, GoTo,
       Label, CriticalLabel, sharedVars, Halves
  <2>2. CASE NextHalf(t)
    <3>1. /\ pc' \in [Thread -> Label]
          /\ job' \in [Thread -> [call : Entry, dev : Device, on : BOOLEAN]]
          /\ half' \in [Thread -> Half]
          /\ pc'[t] \in {"idle", "check", "count"}
          /\ CallOK'
          /\ \A u \in Thread \ {t} : pc'[u] = pc[u] /\ job'[u] = job[u] /\ half'[u] = half[u]
      BY <2>2, NextHalfCore
    <3>2. TypeOK'
      BY <1>1, <3>1 DEF CheckRef, Core, TypeOK, sharedVars
    <3>3. MutualExclusion'
      BY <1>1, <3>1 DEF CheckRef, Core, MutualExclusion, InCritical, CriticalLabel, sharedVars
    <3> QED
      BY <3>1, <3>2, <3>3 DEF Core
  <2> QED
    BY <1>1, <2>1, <2>2 DEF CheckRef
<1>2. CASE CountRef(t)
  <2>0. Clk(t) \in Clock /\ <<t, Dev(t)>> \in Thread \X Device
    BY <1>2, CallTypes DEF CountRef
  <2>1. ref' \in [Clock -> Int] /\ owner' \in [Clock -> SUBSET (Thread \X Device)]
    BY <1>2, <2>0 DEF CountRef, Core, TypeOK
  <2>2. CASE GoTo(t, "lock") /\ UNCHANGED <<job, half>>
    BY <1>2, <2>1, <2>2 DEF CountRef, Core, TypeOK, CallOK, MutualExclusion, InCritical, GoTo,
       Label, CriticalLabel, Halves
  <2>3. CASE NextHalf(t)
    <3>1. /\ pc' \in [Thread -> Label]
          /\ job' \in [Thread -> [call : Entry, dev : Device, on : BOOLEAN]]
          /\ half' \in [Thread -> Half]
          /\ pc'[t] \in {"idle", "check", "count"}
          /\ CallOK'
          /\ \A u \in Thread \ {t} : pc'[u] = pc[u] /\ job'[u] = job[u] /\ half'[u] = half[u]
      BY <2>3, NextHalfCore
    <3>2. TypeOK'
      BY <1>2, <2>1, <3>1 DEF CountRef, Core, TypeOK
    <3>3. MutualExclusion'
      BY <1>2, <3>1 DEF CountRef, Core, MutualExclusion, InCritical, CriticalLabel
    <3> QED
      BY <3>1, <3>2, <3>3 DEF Core
  <2> QED
    BY <1>2, <2>2, <2>3 DEF CountRef
<1>3. CASE Acquire(t)
  BY <1>3, Clients DEF Acquire, On, Core, TypeOK, CallOK, MutualExclusion, InCritical, GoTo,
     Label, CriticalLabel, Half
<1> QED
  BY <1>1, <1>2, <1>3

\* The domain counts and the dependencies stay well typed.
LEMMA DomainTypes ==
    ASSUME Core, NEW m \in Domain, Addref(m) \/ Release(m)
    PROVE  /\ domCount' \in [Domain -> Nat]
           /\ dep' \in [Domain -> [wake : BOOLEAN, sleep : BOOLEAN, clkst : {"DISABLED", "AUTOMATIC"}]]
<1> DEFINE D == [wake : BOOLEAN, sleep : BOOLEAN, clkst : {"DISABLED", "AUTOMATIC"}]
<1>0. domCount \in [Domain -> Nat] /\ dep \in [Domain -> D]
  BY DEF Core, TypeOK
<1>1. dep[m] \in D
  BY <1>0
<1>2. /\ (dep[m].wake \/ m \in DynamicWake) \in BOOLEAN
      /\ (dep[m].sleep \/ m \in DynamicSleep) \in BOOLEAN
      /\ (dep[m].wake /\ m \notin DynamicWake) \in BOOLEAN
      /\ (dep[m].sleep /\ m \notin DynamicSleep) \in BOOLEAN
      /\ \A b \in BOOLEAN : (IF b THEN "AUTOMATIC" ELSE dep[m].clkst) \in {"DISABLED", "AUTOMATIC"}
  BY <1>1
<1>3. CASE Addref(m)
  <2>1. domCount' \in [Domain -> Nat]
    BY <1>0, <1>3 DEF Addref
  <2>2. [wake  |-> dep[m].wake \/ m \in DynamicWake, sleep |-> dep[m].sleep \/ m \in DynamicSleep,
         clkst |-> IF m \in DynamicWake THEN "AUTOMATIC" ELSE dep[m].clkst] \in D
    BY <1>1, <1>2
  <2>3. dep' \in [Domain -> D]
    BY <1>0, <1>3, <2>2 DEF Addref
  <2> QED
    BY <2>1, <2>3
<1>4. CASE Release(m)
  <2>1. domCount' \in [Domain -> Nat]
    BY <1>0, <1>4 DEF Release
  <2>2. [wake  |-> dep[m].wake /\ m \notin DynamicWake, sleep |-> dep[m].sleep /\ m \notin DynamicSleep,
         clkst |-> IF m \in DynamicSleep THEN "AUTOMATIC" ELSE dep[m].clkst] \in D
    BY <1>1, <1>2
  <2>3. dep' \in [Domain -> D]
    BY <1>0, <1>4, <2>2 DEF Release
  <2> QED
    BY <2>1, <2>3
<1> QED
  BY <1>3, <1>4

LEMMA SourceTypes ==
    ASSUME Core, NEW d \in Device, NEW b \in BOOLEAN, UpdateSources(d, b)
    PROVE  srcRef' \in [Source -> Int]
BY DEF UpdateSources, Core, TypeOK

LEMMA LatencyTypes ==
    ASSUME Core, NEW d \in Device, NEW b \in BOOLEAN, DeviceEnabled(d, b)
    PROVE  latency' \in [core : Nat, other : Nat]
BY DEF DeviceEnabled, Core, TypeOK

\* The steps under the lock that keep it.
LEMMA UpdateCore ==
    ASSUME Core, NEW t \in Thread,
           EnableSources(t) \/ ReadClock(t) \/ WriteClock(t) \/ CountDomain(t)
             \/ ReadWakeUp(t) \/ WriteWakeUp(t) \/ CountDomainAgain(t)
    PROVE  Core'
<1>1. CASE EnableSources(t)
  <2>1. srcRef' \in [Source -> Int]
    BY <1>1, CallTypes, SourceTypes DEF EnableSources
  <2> QED
    BY <1>1, <2>1 DEF EnableSources, Core, TypeOK, CallOK, MutualExclusion, InCritical, GoTo,
       Label, CriticalLabel, Halves
<1>2. CASE ReadClock(t)
  <2>1. tmp' \in [Thread -> SUBSET Bit]
    <3>1. Clk(t) \in Bit /\ Dom(t) \in Domain /\ ClockReg(half[t]) \in RegName
      BY <1>2, CallTypes DEF ReadClock, Bit, CriticalLabel, ClockReg, RegName
    <3> QED
      BY <1>2, <3>1 DEF ReadClock, ReadBit, Core, TypeOK
  <2> QED
    BY ZenonT(40), <1>2, <2>1 DEF ReadClock, Core, TypeOK, CallOK, MutualExclusion, InCritical, GoTo,
       Label, CriticalLabel, Halves, sharedVars
<1>3. CASE WriteClock(t)
  <2>1. reg' \in [RegName -> [Domain -> SUBSET Bit]] /\ tmp' \in [Thread -> SUBSET Bit]
    BY <1>3 DEF WriteClock, WriteBack, Core, TypeOK
  <2>2. latency' \in [core : Nat, other : Nat]
    BY <1>3, CallTypes, LatencyTypes DEF WriteClock, Core, TypeOK
  <2> QED
    BY ZenonT(40), <1>3, <2>1, <2>2 DEF WriteClock, Core, TypeOK, CallOK, MutualExclusion, InCritical,
       GoTo, Label, CriticalLabel, Halves
<1>4. CASE CountDomain(t)
  <2>1. /\ domCount' \in [Domain -> Nat]
        /\ dep' \in [Domain -> [wake : BOOLEAN, sleep : BOOLEAN, clkst : {"DISABLED", "AUTOMATIC"}]]
    BY <1>4, CallTypes, DomainTypes DEF CountDomain
  <2> QED
    BY <1>4, <2>1 DEF CountDomain, On, Core, TypeOK, CallOK, MutualExclusion, InCritical, GoTo,
       Label, CriticalLabel, Halves
<1>5. CASE ReadWakeUp(t)
  <2>1. tmp' \in [Thread -> SUBSET Bit]
    BY <1>5, CallTypes DEF ReadWakeUp, ReadBit, Core, TypeOK, Bit, RegName
  <2> QED
    BY ZenonT(40), <1>5, <2>1 DEF ReadWakeUp, Core, TypeOK, CallOK, MutualExclusion, InCritical, GoTo,
       Label, CriticalLabel, Halves, sharedVars
<1>6. CASE WriteWakeUp(t)
  <2>1. reg' \in [RegName -> [Domain -> SUBSET Bit]] /\ tmp' \in [Thread -> SUBSET Bit]
    BY <1>6 DEF WriteWakeUp, WriteBack, Core, TypeOK
  <2> QED
    BY ZenonT(40), <1>6, <2>1 DEF WriteWakeUp, On, Core, TypeOK, CallOK, MutualExclusion, InCritical, GoTo,
       Label, CriticalLabel, Halves
<1>7. CASE CountDomainAgain(t)
  <2>1. /\ domCount' \in [Domain -> Nat]
        /\ dep' \in [Domain -> [wake : BOOLEAN, sleep : BOOLEAN, clkst : {"DISABLED", "AUTOMATIC"}]]
    BY <1>7, CallTypes, DomainTypes DEF CountDomainAgain
  <2> QED
    BY <1>7, <2>1 DEF CountDomainAgain, Core, TypeOK, CallOK, MutualExclusion, InCritical,
       GoTo, Label, CriticalLabel, Halves
<1> QED
  BY <1>1, <1>2, <1>3, <1>4, <1>5, <1>6, <1>7

\* The step that gives the lock back.
LEMMA FinishCore ==
    ASSUME Core, NEW t \in Thread, Finish(t)
    PROVE  Core'
<1>1. /\ pc' \in [Thread -> Label]
      /\ job' \in [Thread -> [call : Entry, dev : Device, on : BOOLEAN]]
      /\ half' \in [Thread -> Half]
      /\ pc'[t] \in {"idle", "check", "count"}
      /\ CallOK'
      /\ \A u \in Thread \ {t} : pc'[u] = pc[u] /\ job'[u] = job[u] /\ half'[u] = half[u]
  BY NextHalfCore DEF Finish
<1>2. srcRef' \in [Source -> Int]
  <2>1. CASE UNCHANGED srcRef
    BY <2>1 DEF Core, TypeOK
  <2>2. CASE UpdateSources(Dev(t), FALSE)
    BY <2>2, CallTypes, SourceTypes
  <2> QED
    BY <2>1, <2>2 DEF Finish
<1>3. domRef' \in [Domain -> Int]
  <2>1. domRef \in [Domain -> Int]
    BY DEF Core, TypeOK
  <2>2. \/ domRef' = [domRef EXCEPT ![Dom(t)] = IF On(t) THEN @ + 1 ELSE @ - 1]
        \/ UNCHANGED domRef
    BY DEF Finish
  <2> QED
    BY <2>1, <2>2
<1>4. /\ domCount' \in [Domain -> Nat]
      /\ dep' \in [Domain -> [wake : BOOLEAN, sleep : BOOLEAN, clkst : {"DISABLED", "AUTOMATIC"}]]
  <2>1. CASE UNCHANGED <<domCount, dep>>
    BY <2>1 DEF Core, TypeOK
  <2>2. CASE Release(Dom(t))
    BY <2>2, CallTypes, DomainTypes
  <2> QED
    BY <2>1, <2>2 DEF Finish
<1>5. TypeOK'
  BY <1>1, <1>2, <1>3, <1>4 DEF Finish, Core, TypeOK
<1>6. MutualExclusion'
  BY <1>1, Clients DEF Finish, Core, MutualExclusion, InCritical, CriticalLabel
<1> QED
  BY <1>1, <1>5, <1>6 DEF Core

LEMMA CoreInvariant == Core /\ [Next]_vars => Core'
<1> SUFFICES ASSUME Core, [Next]_vars PROVE Core'
  OBVIOUS
<1>1. CASE UNCHANGED vars
  BY <1>1 DEF vars, Core, TypeOK, CallOK, MutualExclusion, InCritical, CriticalLabel, Halves
<1>2. ASSUME NEW t \in Thread, Call(t) PROVE Core'
  BY <1>2, CallCore
<1>3. ASSUME NEW t \in Thread, Step(t) PROVE Core'
  BY <1>3, AutoidleCore, CountCore, UpdateCore, FinishCore DEF Step
<1> QED
  BY <1>1, <1>2, <1>3 DEF Next

\* Every variable keeps its type, in particular the domain and the latency counters
\* never go below zero.
THEOREM TypeCorrect == Spec => []TypeOK
<1>1. Core => TypeOK
  BY DEF Core
<1> QED
  BY <1>1, InitCore, CoreInvariant, PTL DEF Spec

\* Lock and Unlock of Mutex_DeviceClock pair up on every path through the entry
\* points: exactly the owner of the lock is in a locked part.
THEOREM Exclusion == Spec => []MutualExclusion
<1>1. Core => MutualExclusion
  BY DEF Core
<1> QED
  BY <1>1, InitCore, CoreInvariant, PTL DEF Spec

-----------------------------------------------------------------------------
(* Conservation of the references to source clocks                         *)

\* What a step of thread t can do to the set of threads at some labels of an update.
OthersStay(t) == \A u \in Thread \ {t} : pc'[u] = pc[u] /\ job'[u] = job[u] /\ half'[u] = half[u]

\* One thread enters or leaves a set of threads.
LEMMA OneMoves ==
    ASSUME NEW t \in Thread, NEW S \in SUBSET Thread, NEW T \in SUBSET Thread, T \ {t} = S \ {t}
    PROVE  /\ Cardinality(S) \in Nat /\ Cardinality(T) \in Nat
           /\ Cardinality(T) = Cardinality(S) + (IF t \in T THEN 1 ELSE 0)
                                              - (IF t \in S THEN 1 ELSE 0)
<1>1. /\ IsFiniteSet(S) /\ Cardinality(S) \in Nat
      /\ IsFiniteSet(T) /\ Cardinality(T) \in Nat
  BY Finiteness, FS_Subset, FS_CardinalityType
<1>2. Cardinality(S \ {t}) = IF t \in S THEN Cardinality(S) - 1 ELSE Cardinality(S)
  BY <1>1, FS_RemoveElement
<1>3. Cardinality(T \ {t}) = IF t \in T THEN Cardinality(T) - 1 ELSE Cardinality(T)
  BY <1>1, FS_RemoveElement
<1>4. (IF t \in T THEN Cardinality(T) - 1 ELSE Cardinality(T))
        = (IF t \in S THEN Cardinality(S) - 1 ELSE Cardinality(S))
  BY <1>2, <1>3
<1>5. CASE t \in S
  BY <1>1, <1>4, <1>5
<1>6. CASE t \notin S
  BY <1>1, <1>4, <1>6
<1> QED
  BY <1>5, <1>6

\* A step of one thread moves only that thread in and out of the updates.
LEMMA UpdatesStep ==
    ASSUME NEW t \in Thread, OthersStay(t), NEW C, NEW L
    PROVE  /\ Cardinality(Enabling(C, L)) \in Nat
           /\ Cardinality(Enabling(C, L)') = Cardinality(Enabling(C, L))
                + (IF t \in Enabling(C, L)' THEN 1 ELSE 0) - (IF t \in Enabling(C, L) THEN 1 ELSE 0)
           /\ Cardinality(Disabling(C, L)) \in Nat
           /\ Cardinality(Disabling(C, L)') = Cardinality(Disabling(C, L))
                + (IF t \in Disabling(C, L)' THEN 1 ELSE 0) - (IF t \in Disabling(C, L) THEN 1 ELSE 0)
<1>1. /\ Enabling(C, L) \in SUBSET Thread /\ Enabling(C, L)' \in SUBSET Thread
      /\ Disabling(C, L) \in SUBSET Thread /\ Disabling(C, L)' \in SUBSET Thread
  BY DEF Enabling, Disabling
<1>2. Enabling(C, L)' \ {t} = Enabling(C, L) \ {t}
  BY DEF OthersStay, Enabling, Clk, On, Dev, ClockOf
<1>3. Disabling(C, L)' \ {t} = Disabling(C, L) \ {t}
  BY DEF OthersStay, Disabling, Clk, On, Dev, ClockOf
<1> HIDE DEF Enabling, Disabling
<1> QED
  BY <1>1, <1>2, <1>3, OneMoves

\* The clocks in use change only when a count crosses the edge.
LEMMA InUseCount ==
    ASSUME TypeOK, NEW C \in SUBSET Clock, NEW c \in Clock, NEW n \in Int,
           ref' = [ref EXCEPT ![c] = n]
    PROVE  /\ Cardinality(InUse(C)) \in Nat
           /\ Cardinality(InUse(C)') =
                Cardinality(InUse(C)) + (IF c \in C /\ n > 0 THEN 1 ELSE 0)
                                      - (IF c \in C /\ ref[c] > 0 THEN 1 ELSE 0)
<1>1. InUse(C) \in SUBSET Clock
  BY DEF InUse
<1>2. IsFiniteSet(InUse(C)) /\ Cardinality(InUse(C)) \in Nat
  BY <1>1, Finiteness, FS_Subset, FS_CardinalityType
<1>3. /\ Cardinality(InUse(C) \cup {c}) =
           IF c \in InUse(C) THEN Cardinality(InUse(C)) ELSE Cardinality(InUse(C)) + 1
      /\ Cardinality(InUse(C) \ {c}) =
           IF c \in InUse(C) THEN Cardinality(InUse(C)) - 1 ELSE Cardinality(InUse(C))
  BY <1>2, FS_AddElement, FS_RemoveElement
<1>4. c \in InUse(C) <=> c \in C /\ ref[c] > 0
  BY DEF InUse
<1>5. InUse(C)' = IF c \in C /\ n > 0 THEN InUse(C) \cup {c} ELSE InUse(C) \ {c}
  BY DEF InUse, TypeOK
<1> QED
  BY <1>2, <1>3, <1>4, <1>5

\* A functional clock entry belongs to one device, and is no interface clock entry.
LEMMA FclkOwner ==
    ASSUME Core, NEW t \in Thread, NEW D \in SUBSET Device,
           pc[t] \in {"check", "count", "lock"} \cup CriticalLabel
    PROVE  /\ half[t] = "fclk" => (Clk(t) \in FclksOf(D) <=> Dev(t) \in D)
           /\ half[t] = "iclk" => Clk(t) \notin FclksOf(D)
<1>1. Dev(t) \in Device /\ Clk(t) # NoClock
  BY CallTypes
<1>2. half[t] = "fclk" => Clk(t) = FclkOf[Dev(t)]
  BY DEF Clk, ClockOf
<1>3. half[t] = "iclk" => Clk(t) = IclkOf[Dev(t)]
  BY DEF Clk, ClockOf
<1> QED
  BY <1>1, <1>2, <1>3, DeviceTable DEF FclksOf, FclkDevice

LEMMA FclksAreClocks ==
    ASSUME NEW D
    PROVE  FclksOf(D) \in SUBSET Clock
BY DeviceTable DEF FclksOf, FclkDevice

\* InterlockedIncrement and InterlockedDecrement: the thread that crosses the edge
\* starts an update, any other goes past it.
LEMMA BalanceCount ==
    ASSUME Core, NEW t \in Thread, CountRef(t), NEW C \in SUBSET Clock, NEW on, NEW off,
           NEW n \in Int, Conserved(n, C, on, off),
           "lock" \in on, "lock" \in off,
           "idle" \notin on, "check" \notin on, "count" \notin on,
           "idle" \notin off, "check" \notin off, "count" \notin off
    PROVE  n + Cardinality(Enabling(C, on)') = Cardinality(InUse(C)') + Cardinality(Disabling(C, off)')
<1> DEFINE c == Clk(t)
           v == IF On(t) THEN ref[c] + 1 ELSE ref[c] - 1
           e == IF On(t) THEN 1 ELSE 0
<1>1. c \in Clock /\ On(t) \in BOOLEAN /\ ref[c] \in Int
  BY CallTypes DEF CountRef, Core, TypeOK
<1>2. /\ pc[t] = "count" /\ ref' = [ref EXCEPT ![c] = v]
      /\ \/ v = e /\ GoTo(t, "lock") /\ UNCHANGED <<job, half>>
         \/ v # e /\ NextHalf(t)
  BY DEF CountRef
<1>3. OthersStay(t)
  BY <1>2, NextHalfCore DEF OthersStay, GoTo, Core, TypeOK
<1>4. v \in Int
  BY <1>1
<1>5. /\ Cardinality(InUse(C)) \in Nat
      /\ Cardinality(InUse(C)') =
           Cardinality(InUse(C)) + (IF c \in C /\ v > 0 THEN 1 ELSE 0)
                                 - (IF c \in C /\ ref[c] > 0 THEN 1 ELSE 0)
  <2> HIDE DEF c, v
  <2> QED
    BY <1>1, <1>2, <1>4, InUseCount DEF Core
<1>6. t \notin Enabling(C, on) /\ t \notin Disabling(C, off)
  BY <1>2 DEF Enabling, Disabling
<1>7. /\ Cardinality(Enabling(C, on)) \in Nat /\ Cardinality(Disabling(C, off)) \in Nat
      /\ Cardinality(Enabling(C, on)')
           = Cardinality(Enabling(C, on)) + (IF t \in Enabling(C, on)' THEN 1 ELSE 0)
      /\ Cardinality(Disabling(C, off)')
           = Cardinality(Disabling(C, off)) + (IF t \in Disabling(C, off)' THEN 1 ELSE 0)
  BY <1>3, <1>6, UpdatesStep
<1>8. n + Cardinality(Enabling(C, on)) = Cardinality(InUse(C)) + Cardinality(Disabling(C, off))
  BY DEF Conserved
<1>9. CASE v = e /\ GoTo(t, "lock") /\ UNCHANGED <<job, half>>
  <2>1. pc'[t] = "lock" /\ Clk(t)' = c /\ (On(t)' <=> On(t))
    BY <1>9 DEF GoTo, Core, TypeOK, Clk, On, Dev, ClockOf
  <2>2. /\ t \in Enabling(C, on)' <=> c \in C /\ On(t)
        /\ t \in Disabling(C, off)' <=> c \in C /\ ~On(t)
    BY <2>1 DEF Enabling, Disabling
  <2> HIDE DEF c
  <2>3. CASE On(t)
    BY <1>1, <1>5, <1>7, <1>8, <1>9, <2>2, <2>3
  <2>4. CASE ~On(t)
    BY <1>1, <1>5, <1>7, <1>8, <1>9, <2>2, <2>4
  <2> QED
    BY <2>3, <2>4
<1>10. CASE v # e /\ NextHalf(t)
  <2>1. pc'[t] \in {"idle", "check", "count"}
    BY <1>10, NextHalfCore
  <2>2. t \notin Enabling(C, on)' /\ t \notin Disabling(C, off)'
    BY <2>1 DEF Enabling, Disabling
  <2> HIDE DEF c
  <2>3. (v > 0) <=> (ref[c] > 0)
    BY <1>1, <1>10
  <2>4. Cardinality(InUse(C)') = Cardinality(InUse(C))
    BY <1>5, <2>3
  <2>5. /\ Cardinality(Enabling(C, on)') = Cardinality(Enabling(C, on))
        /\ Cardinality(Disabling(C, off)') = Cardinality(Disabling(C, off))
    BY <1>7, <2>2
  <2> QED
    BY <1>8, <2>4, <2>5
<1> QED
  BY <1>2, <1>9, <1>10

\* The labels between the edge of the count and the Unlock.
Upd == CriticalLabel \cup {"lock"}

\* The steps outside an update, other than the count itself.
LEMMA Outside ==
    ASSUME Core, NEW t \in Thread,
           Call(t) \/ AutoidleLock(t) \/ AutoidleRead(t) \/ AutoidleWrite(t) \/ CheckRef(t)
    PROVE  /\ OthersStay(t) /\ UNCHANGED <<ref, srcRef, domRef, latency>>
           /\ pc[t] \notin Upd /\ pc'[t] \notin Upd
<1>1. CASE Call(t)
  <2>1. pc[t] = "idle" /\ UNCHANGED <<ref, srcRef, domRef, latency>>
    BY <1>1 DEF Call, sharedVars
  <2>2. PICK j \in [call : Calls, dev : Device, on : BOOLEAN] :
          \/ GoTo(t, "ai_lock") /\ job' = [job EXCEPT ![t] = j] /\ UNCHANGED half
          \/ GoTo(t, "ai_read") /\ job' = [job EXCEPT ![t] = j] /\ UNCHANGED half
          \/ Proceed(t, j, Halves(j))
    BY <1>1 DEF Call
  <2>3. CASE UNCHANGED half
    BY ZenonT(40), <2>1, <2>2, <2>3, Clients, ProceedType
       DEF Core, TypeOK, GoTo, OthersStay, Upd, CriticalLabel
  <2>4. CASE Proceed(t, j, Halves(j))
    BY <2>1, <2>4, Clients, ProceedType DEF Core, OthersStay, Upd, CriticalLabel
  <2> QED
    BY <2>2, <2>3, <2>4
<1>2. CASE AutoidleLock(t) \/ AutoidleRead(t)
  BY <1>2 DEF AutoidleLock, AutoidleRead, GoTo, OthersStay, Upd, CriticalLabel, Core, TypeOK, sharedVars
<1>3. CASE AutoidleWrite(t)
  <2>1. job[t] \in [call : Entry, dev : Device, on : BOOLEAN]
    BY DEF Core, TypeOK
  <2>2. Proceed(t, job[t], {}) \/ Proceed(t, job[t], Halves(job[t]))
    BY <1>3 DEF AutoidleWrite, Proceed
  <2>3. OthersStay(t) /\ pc'[t] \in {"idle", "check", "count"}
    BY <2>1, <2>2, ProceedType DEF Core, OthersStay
  <2> QED
    BY <1>3, <2>3 DEF AutoidleWrite, Upd, CriticalLabel
<1>4. CASE CheckRef(t)
  <2>1. CASE GoTo(t, "count") /\ UNCHANGED <<job, half>>
    BY <1>4, <2>1 DEF CheckRef, GoTo, OthersStay, Upd, CriticalLabel, Core, TypeOK, sharedVars
  <2>2. CASE NextHalf(t)
    BY <1>4, <2>2, NextHalfCore DEF CheckRef, OthersStay, Upd, CriticalLabel, sharedVars
  <2> QED
    BY <1>4, <2>1, <2>2 DEF CheckRef
<1> QED
  BY <1>1, <1>2, <1>3, <1>4

\* The steps inside an update but the last: the thread stays with its clock, and the
\* update of a functional clock runs through its labels in this order.
LEMMA Inside ==
    ASSUME Core, NEW t \in Thread,
           Acquire(t) \/ EnableSources(t) \/ ReadClock(t) \/ WriteClock(t) \/ CountDomain(t)
             \/ ReadWakeUp(t) \/ WriteWakeUp(t) \/ CountDomainAgain(t)
    PROVE  /\ OthersStay(t) /\ UNCHANGED <<job, half, ref, domRef>>
           /\ pc[t] \in Upd /\ pc'[t] \in CriticalLabel
           /\ half[t] = "fclk" =>
                \/ pc[t] = "lock" /\ pc'[t] = (IF On(t) THEN "source" ELSE "read") /\ Acquire(t)
                \/ pc[t] = "source" /\ pc'[t] = "read" /\ EnableSources(t) /\ On(t)
                \/ pc[t] = "read" /\ pc'[t] = "write" /\ ReadClock(t)
                \/ pc[t] = "write" /\ pc'[t] = "end" /\ WriteClock(t)
<1>1. UNCHANGED <<job, half, ref, domRef>>
  BY DEF Acquire, EnableSources, ReadClock, WriteClock, CountDomain, ReadWakeUp, WriteWakeUp,
     CountDomainAgain, sharedVars
<1>2. /\ pc[t] \in Upd /\ pc'[t] \in CriticalLabel
      /\ \A u \in Thread \ {t} : pc'[u] = pc[u]
  BY DEF Acquire, EnableSources, ReadClock, WriteClock, CountDomain, ReadWakeUp, WriteWakeUp,
     CountDomainAgain, Upd, CriticalLabel, GoTo, Core, TypeOK
<1>3. half[t] = "fclk" => pc[t] \notin {"domain1", "wk_read", "wk_write", "domain2"}
  BY DEF Core, CallOK
<1>4. pc[t] = "source" => On(t)
  BY DEF Core, CallOK, On
<1>5. Acquire(t) => pc[t] = "lock" /\ (half[t] = "fclk" => pc'[t] = IF On(t) THEN "source" ELSE "read")
  BY DEF Acquire, GoTo, Core, TypeOK
<1>6. EnableSources(t) => pc[t] = "source" /\ pc'[t] = "read"
  BY DEF EnableSources, GoTo, Core, TypeOK
<1>7. ReadClock(t) => pc[t] = "read" /\ pc'[t] = "write"
  BY DEF ReadClock, GoTo, Core, TypeOK
<1>8. WriteClock(t) => pc[t] = "write" /\ pc'[t] = "end"
  BY DEF WriteClock, GoTo, Core, TypeOK
<1>9. half[t] = "fclk" => Acquire(t) \/ EnableSources(t) \/ ReadClock(t) \/ WriteClock(t)
  BY <1>3 DEF CountDomain, ReadWakeUp, WriteWakeUp, CountDomainAgain
<1> QED
  BY <1>1, <1>2, <1>4, <1>5, <1>6, <1>7, <1>8, <1>9 DEF OthersStay

\* The last step of an update leaves it.
LEMMA Ends ==
    ASSUME Core, NEW t \in Thread, Finish(t)
    PROVE  OthersStay(t) /\ UNCHANGED <<ref, latency>> /\ pc[t] = "end" /\ pc'[t] \notin Upd
BY NextHalfCore DEF Finish, OthersStay, Upd, CriticalLabel

\* Where thread t stands with a set of functional clocks, before a step and after it,
\* depends on its label, its device and the direction of its call only.
LEMMA Position ==
    ASSUME Core, NEW t \in Thread, NEW D \in SUBSET Device, NEW L \in SUBSET Upd
    PROVE  /\ t \in Enabling(FclksOf(D), L) <=>
                pc[t] \in L /\ half[t] = "fclk" /\ Dev(t) \in D /\ On(t)
           /\ t \in Disabling(FclksOf(D), L) <=>
                pc[t] \in L /\ half[t] = "fclk" /\ Dev(t) \in D /\ ~On(t)
<1>1. half[t] \in {"fclk", "iclk"}
  BY DEF Core, TypeOK, Half
<1>2. CASE pc[t] \in L
  <2>1. Clk(t) \in FclksOf(D) <=> half[t] = "fclk" /\ Dev(t) \in D
    BY <1>1, <1>2, FclkOwner DEF Upd
  <2> QED
    BY <1>2, <2>1 DEF Enabling, Disabling
<1>3. CASE pc[t] \notin L
  BY <1>3 DEF Enabling, Disabling
<1> QED
  BY <1>2, <1>3

LEMMA SourceKept ==
    ASSUME Core, Core', NEW s \in Source, NEW t \in Thread, Call(t) \/ Step(t),
           Conserved(srcRef[s], FclksOf({d \in Device : s \in SourcesOf[d]}),
                     {"lock", "source"}, {"lock", "read", "write", "end"})
    PROVE  Conserved(srcRef[s], FclksOf({d \in Device : s \in SourcesOf[d]}),
                     {"lock", "source"}, {"lock", "read", "write", "end"})'
<1> DEFINE D   == {d \in Device : s \in SourcesOf[d]}
           C   == FclksOf(D)
           on  == {"lock", "source"}
           off == {"lock", "read", "write", "end"}
           n   == srcRef[s]
           En  == Cardinality(Enabling(C, on))
           Dis == Cardinality(Disabling(C, off))
           Use == Cardinality(InUse(C))
<1>1. n \in Int /\ n' \in Int
  BY DEF Core, TypeOK
<1>2. on \in SUBSET Upd /\ off \in SUBSET Upd
  BY DEF Upd, CriticalLabel
<1>3. n + En = Use + Dis
  BY DEF Conserved
<1>4. SUFFICES n' + En' = Use' + Dis'
  BY DEF Conserved
<1>5. C \in SUBSET Clock /\ D \in SUBSET Device
  BY FclksAreClocks
<1>6. /\ t \in Enabling(C, on) <=> pc[t] \in on /\ half[t] = "fclk" /\ Dev(t) \in D /\ On(t)
      /\ t \in Disabling(C, off) <=> pc[t] \in off /\ half[t] = "fclk" /\ Dev(t) \in D /\ ~On(t)
  BY <1>2, Position
<1>7. /\ OthersStay(t) =>
           /\ En \in Nat /\ En' = En + (IF t \in Enabling(C, on)' THEN 1 ELSE 0)
                                     - (IF t \in Enabling(C, on) THEN 1 ELSE 0)
           /\ Dis \in Nat /\ Dis' = Dis + (IF t \in Disabling(C, off)' THEN 1 ELSE 0)
                                        - (IF t \in Disabling(C, off) THEN 1 ELSE 0)
  BY UpdatesStep
<1>8. UNCHANGED ref => Use' = Use
  BY DEF InUse
<1>0. Use \in Nat
  BY <1>5, Finiteness, FS_Subset, FS_CardinalityType DEF InUse
<1>9. CASE Call(t) \/ AutoidleLock(t) \/ AutoidleRead(t) \/ AutoidleWrite(t) \/ CheckRef(t)
  <2>1. /\ OthersStay(t) /\ UNCHANGED <<ref, srcRef>>
        /\ pc[t] \notin Upd /\ pc'[t] \notin Upd
    BY <1>9, Outside
  <2>2. /\ t \notin Enabling(C, on)  /\ t \notin Enabling(C, on)'
        /\ t \notin Disabling(C, off) /\ t \notin Disabling(C, off)'
    BY <1>2, <2>1 DEF Enabling, Disabling
  <2> HIDE DEF n, En, Dis, Use
  <2>3. En' = En /\ Dis' = Dis /\ Use' = Use
    BY <1>7, <1>8, <2>1, <2>2
  <2> QED
    BY <1>3, <2>1, <2>3 DEF n
<1>10. CASE CountRef(t)
  <2>1. n' = n
    BY <1>10 DEF CountRef
  <2> QED
    BY <1>1, <1>5, <1>10, <2>1, BalanceCount
<1>11. CASE \/ Acquire(t) \/ EnableSources(t) \/ ReadClock(t) \/ WriteClock(t) \/ CountDomain(t)
            \/ ReadWakeUp(t) \/ WriteWakeUp(t) \/ CountDomainAgain(t)
  <2>1. OthersStay(t) /\ UNCHANGED <<job, half, ref>>
    BY <1>11, Inside
  <2>2. /\ t \in Enabling(C, on)' <=> pc'[t] \in on /\ Clk(t) \in C /\ On(t)
        /\ t \in Disabling(C, off)' <=> pc'[t] \in off /\ Clk(t) \in C /\ ~On(t)
    BY <2>1 DEF Enabling, Disabling, Clk, ClockOf, Dev, On
  <2>3. Clk(t) \in C <=> half[t] = "fclk" /\ Dev(t) \in D
    BY <1>5, <1>11, Inside, FclkOwner DEF Upd, Core, TypeOK, Half
  <2>4. CASE EnableSources(t)
    <3>1. pc[t] = "source" /\ pc'[t] = "read" /\ On(t) /\ half[t] = "fclk"
      BY <2>4 DEF EnableSources, GoTo, Core, TypeOK, CallOK, On
    <3>2. n' = IF Dev(t) \in D THEN n + 1 ELSE n
      BY <2>4, CallTypes DEF EnableSources, UpdateSources
    <3>3. /\ t \notin Enabling(C, on)' /\ t \notin Disabling(C, off)' /\ t \notin Disabling(C, off)
          /\ t \in Enabling(C, on) <=> Dev(t) \in D
      BY <1>6, <2>2, <3>1
    <3> HIDE DEF n, En, Dis, Use, D, C
    <3>4. Dis' = Dis /\ Use' = Use /\ En' = En - (IF Dev(t) \in D THEN 1 ELSE 0)
      BY <1>7, <1>8, <2>1, <3>3
    <3> QED
      BY <1>1, <1>3, <1>7, <2>1, <3>2, <3>4
  <2>5. CASE ~EnableSources(t)
    <3>1. n' = n
      BY <1>11, <2>5 DEF Acquire, ReadClock, WriteClock, CountDomain, ReadWakeUp, WriteWakeUp,
         CountDomainAgain, sharedVars
    <3>2. /\ t \in Enabling(C, on)' <=> t \in Enabling(C, on)
          /\ t \in Disabling(C, off)' <=> t \in Disabling(C, off)
      BY <1>6, <1>11, <2>2, <2>3, <2>5, Inside
    <3> HIDE DEF n, En, Dis, Use
    <3>3. En' = En /\ Dis' = Dis /\ Use' = Use
      BY <1>7, <1>8, <2>1, <3>2
    <3> QED
      BY <1>3, <3>1, <3>3
  <2> QED
    BY <2>4, <2>5
<1>12. CASE Finish(t)
  <2>1. OthersStay(t) /\ UNCHANGED ref /\ pc[t] = "end" /\ pc'[t] \notin Upd
    BY <1>12, Ends
  <2>2. /\ t \notin Enabling(C, on)' /\ t \notin Disabling(C, off)' /\ t \notin Enabling(C, on)
        /\ t \in Disabling(C, off) <=> half[t] = "fclk" /\ Dev(t) \in D /\ ~On(t)
    BY <1>2, <1>6, <2>1 DEF Enabling, Disabling
  <2>3. n' = IF half[t] = "fclk" /\ Dev(t) \in D /\ ~On(t) THEN n - 1 ELSE n
    <3>1. /\ half[t] = "fclk" /\ ~On(t) => UpdateSources(Dev(t), FALSE)
          /\ half[t] # "fclk" \/ On(t) => UNCHANGED srcRef
      BY <1>12 DEF Finish
    <3>2. UpdateSources(Dev(t), FALSE) => n' = IF Dev(t) \in D THEN n - 1 ELSE n
      BY CallTypes DEF UpdateSources
    <3>3. UNCHANGED srcRef => n' = n
      OBVIOUS
    <3>4. On(t) \in BOOLEAN
      BY CallTypes
    <3> HIDE DEF n, D
    <3>5. CASE half[t] = "fclk" /\ ~On(t)
      BY <3>1, <3>2, <3>5
    <3>6. CASE ~(half[t] = "fclk" /\ ~On(t))
      BY <3>1, <3>3, <3>4, <3>6
    <3> QED
      BY <3>5, <3>6
  <2> HIDE DEF n, En, Dis, Use
  <2>4. En' = En /\ Use' = Use
    BY <1>7, <1>8, <2>1, <2>2
  <2>5. Dis' = Dis - (IF t \in Disabling(C, off) THEN 1 ELSE 0)
    BY <1>7, <2>1, <2>2
  <2> HIDE DEF D, C
  <2>6. CASE t \in Disabling(C, off)
    <3>1. n' = n - 1
      BY <2>2, <2>3, <2>6
    <3>2. Dis' = Dis - 1
      BY <2>5, <2>6
    <3> QED
      BY <1>0, <1>1, <1>3, <1>7, <2>1, <2>4, <3>1, <3>2
  <2>7. CASE t \notin Disabling(C, off)
    <3>1. n' = n /\ Dis' = Dis
      BY <1>7, <2>1, <2>2, <2>3, <2>5, <2>7
    <3> QED
      BY <1>3, <2>4, <3>1
  <2> QED
    BY <2>6, <2>7
<1> QED
  BY <1>9, <1>10, <1>11, <1>12 DEF Step

\* References to source clocks are conserved by every interleaving of the threads:
\* srcRef[s] counts the functional clocks in use that s feeds, up to the updates that
\* have not reached it.
THEOREM SourcesConserved == Spec => []SourceRefsConserved
<1>1. Init => SourceRefsConserved
  <2> SUFFICES ASSUME Init, NEW s \in Source,
                      NEW C, C = FclksOf({d \in Device : s \in SourcesOf[d]})
               PROVE  Conserved(srcRef[s], C, {"lock", "source"}, {"lock", "read", "write", "end"})
    BY DEF SourceRefsConserved
  <2>1. /\ Enabling(C, {"lock", "source"}) = {}
        /\ Disabling(C, {"lock", "read", "write", "end"}) = {}
    BY DEF Init, Enabling, Disabling
  <2>2. C \in SUBSET Clock
    BY FclksAreClocks
  <2>3. InUse(C) = {}
    BY <2>2 DEF Init, InUse
  <2> QED
    BY <2>1, <2>3, FS_EmptySet DEF Init, Conserved
<1>2. Core /\ Core' /\ SourceRefsConserved /\ [Next]_vars => SourceRefsConserved'
  <2> SUFFICES ASSUME Core, Core', SourceRefsConserved, [Next]_vars PROVE SourceRefsConserved'
    OBVIOUS
  <2>1. CASE UNCHANGED vars
    BY <2>1 DEF vars, SourceRefsConserved, Conserved, Enabling, Disabling, InUse, Clk, ClockOf,
       Dev, On
  <2>2. ASSUME NEW t \in Thread, Call(t) \/ Step(t) PROVE SourceRefsConserved'
    BY <2>2, SourceKept DEF SourceRefsConserved
  <2> QED
    BY <2>1, <2>2 DEF Next
<1> QED
  BY <1>1, <1>2, InitCore, CoreInvariant, PTL DEF Spec

-----------------------------------------------------------------------------
(* No update of a shared register is lost                                  *)

NoLost(t) ==
    /\ pc[t] = "write" =>
         \A x \in Bit \ {Clk(t)} : x \in tmp[t] <=> x \in reg[ClockReg(half[t])][Dom(t)]
    /\ pc[t] = "wk_write" =>
         \A x \in Bit \ {Dev(t)} : x \in tmp[t] <=> x \in reg["wken"][Dom(t)]

\* A thread that is about to write back is not disturbed by another thread: only the
\* owner of the lock writes the clock and wake-up registers, and autoidle bits are in a
\* register of their own.
LEMMA NotDisturbed ==
    ASSUME Core, NEW t \in Thread, NEW u \in Thread \ {t}, NoLost(t), Call(u) \/ Step(u)
    PROVE  NoLost(t)'
<1>1. OthersStay(u)
  BY Outside, Inside, Ends, NextHalfCore DEF Step, CountRef, OthersStay, GoTo, Core, TypeOK
<1>2. pc'[t] = pc[t] /\ job'[t] = job[t] /\ half'[t] = half[t]
  BY <1>1 DEF OthersStay
<1>3. tmp'[t] = tmp[t]
  BY DEF Call, Step, AutoidleLock, AutoidleRead, AutoidleWrite, CheckRef, CountRef, Acquire,
     EnableSources, ReadClock, WriteClock, CountDomain, ReadWakeUp, WriteWakeUp,
     CountDomainAgain, Finish, ReadBit, WriteBack, sharedVars, Core, TypeOK
<1>4. CASE pc[t] \notin {"write", "wk_write"}
  BY <1>2, <1>4 DEF NoLost
<1>5. CASE pc[t] \in {"write", "wk_write"}
  <2>1. pc[u] \notin {"write", "wk_write"}
    <3>1. InCritical(t) /\ mutex = t
      BY <1>5 DEF Core, MutualExclusion, InCritical, CriticalLabel
    <3> QED
      BY <3>1 DEF Core, MutualExclusion, InCritical, CriticalLabel
  <2>2. \A r \in {"fclken", "iclken", "wken"} : reg'[r] = reg[r]
    BY <2>1 DEF Call, Step, AutoidleLock, AutoidleRead, AutoidleWrite, CheckRef, CountRef, Acquire,
       EnableSources, ReadClock, WriteClock, CountDomain, ReadWakeUp, WriteWakeUp,
       CountDomainAgain, Finish, WriteBack, sharedVars, Core, TypeOK, RegName
  <2>3. ClockReg(half[t]) \in {"fclken", "iclken", "wken"}
    BY DEF ClockReg
  <2> QED
    BY <1>2, <1>3, <2>2, <2>3 DEF NoLost, Clk, ClockOf, Dom, Dev
<1> QED
  BY <1>4, <1>5

\* A thread reads the register immediately before it writes it.
LEMMA ReadsFresh ==
    ASSUME Core, NEW t \in Thread, Call(t) \/ Step(t)
    PROVE  NoLost(t)'
<1>1. CASE ReadClock(t)
  <2>1. /\ tmp'[t] = IF On(t) THEN reg[ClockReg(half[t])][Dom(t)] \cup {Clk(t)}
                              ELSE reg[ClockReg(half[t])][Dom(t)] \ {Clk(t)}
        /\ pc'[t] = "write" /\ UNCHANGED <<reg, job, half>>
    BY <1>1 DEF ReadClock, ReadBit, GoTo, Core, TypeOK, sharedVars
  <2>2. Clk(t)' = Clk(t) /\ Dom(t)' = Dom(t) /\ ClockReg(half[t])' = ClockReg(half[t])
    BY <2>1 DEF Clk, ClockOf, Dom, Dev, ClockReg
  <2> QED
    BY <2>1, <2>2 DEF NoLost
<1>2. CASE ReadWakeUp(t)
  <2>1. /\ tmp'[t] = IF On(t) THEN reg["wken"][Dom(t)] \cup {Dev(t)}
                              ELSE reg["wken"][Dom(t)] \ {Dev(t)}
        /\ pc'[t] = "wk_write" /\ UNCHANGED <<reg, job, half>>
    BY <1>2 DEF ReadWakeUp, ReadBit, GoTo, Core, TypeOK, sharedVars
  <2>2. Dev(t)' = Dev(t) /\ Dom(t)' = Dom(t)
    BY <2>1 DEF Dom, Dev
  <2> QED
    BY <2>1, <2>2 DEF NoLost
<1>3. CASE ~ReadClock(t) /\ ~ReadWakeUp(t)
  <2>1. pc'[t] \notin {"write", "wk_write"}
    <3>1. CASE Call(t) \/ AutoidleLock(t) \/ AutoidleRead(t) \/ AutoidleWrite(t) \/ CheckRef(t)
      BY <3>1, Outside DEF Upd, CriticalLabel
    <3>2. CASE CountRef(t)
      BY <3>2, NextHalfCore DEF CountRef, GoTo, Core, TypeOK
    <3>3. CASE Finish(t)
      BY <3>3, NextHalfCore DEF Finish
    <3>4. CASE \/ Acquire(t) \/ EnableSources(t) \/ WriteClock(t) \/ CountDomain(t)
               \/ WriteWakeUp(t) \/ CountDomainAgain(t)
      BY <3>4 DEF Acquire, EnableSources, WriteClock, CountDomain, WriteWakeUp,
         CountDomainAgain, GoTo, Core, TypeOK
    <3> QED
      BY <1>3, <3>1, <3>2, <3>3, <3>4 DEF Step
  <2> QED
    BY <2>1 DEF NoLost
<1> QED
  BY <1>1, <1>2, <1>3

\* Devices that share a register do not lose one another's bits, however their
\* drivers' calls interleave.
THEOREM NothingLost == Spec => []NoLostUpdate
<1>1. NoLostUpdate <=> \A t \in Thread : NoLost(t)
  BY DEF NoLostUpdate, NoLost
<1>2. Init => NoLostUpdate
  BY DEF Init, NoLostUpdate
<1>3. Core /\ (\A t \in Thread : NoLost(t)) /\ [Next]_vars => (\A t \in Thread : NoLost(t)')
  <2> SUFFICES ASSUME Core, \A t \in Thread : NoLost(t), [Next]_vars, NEW t \in Thread
               PROVE  NoLost(t)'
    OBVIOUS
  <2>1. CASE UNCHANGED vars
    BY <2>1 DEF vars, NoLost, Clk, ClockOf, Dom, Dev, ClockReg
  <2>2. ASSUME NEW u \in Thread, Call(u) \/ Step(u) PROVE NoLost(t)'
    BY <2>2, NotDisturbed, ReadsFresh
  <2> QED
    BY <2>1, <2>2 DEF Next
<1>4. NoLostUpdate' <=> \A t \in Thread : NoLost(t)'
  BY DEF NoLostUpdate, NoLost
<1>5. Core /\ NoLostUpdate /\ [Next]_vars => NoLostUpdate'
  BY <1>1, <1>3, <1>4
<1> QED
  BY <1>2, <1>5, InitCore, CoreInvariant, PTL DEF Spec
=============================================================================
