--------------------------- MODULE PrcmSupply_proofs --------------------------
(***************************************************************************)
(* What the clocks of a device get, for any table of devices and any number *)
(* of driver threads that keep to one of the two disciplines of Careful:    *)
(* the counts of the domains and of the wake-up latency code are conserved, *)
(* a running clock has its sources and its domain, and a clock without      *)
(* references is off.                                                       *)
(***************************************************************************)
EXTENDS PrcmDevice_proofs

-----------------------------------------------------------------------------
(* The discipline of the drivers                                           *)

\* The clocks that the call of a thread still has to count.
ToCount(t) ==
    IF pc[t] \in {"ai_read", "ai_write"} THEN Halves(job[t])
    ELSE IF pc[t] \in {"check", "count"} THEN (Halves(job[t]) \ {"fclk"}) \cup {half[t]}
    ELSE IF pc[t] \in Upd THEN Halves(job[t]) \ {"fclk", half[t]}
    ELSE {}

\* A careful thread counts on what it does not own and off what it owns, ...
CallOwns ==
    \A t \in Thread : \A h \in ToCount(t) :
        <<t, Dev(t)>> \in owner[ClockOf(h, Dev(t))] <=> ~On(t)

\* ... owns what it switches on, and every reference has an owner.
EnOwns == \A t \in Thread : pc[t] \in Upd /\ On(t) => <<t, Dev(t)>> \in owner[Clk(t)]
RefOwned == \A c \in Clock : ref[c] = Cardinality(owner[c])

\* A thread calls for devices of which it is a client.
Client == \A t \in Thread : pc[t] # "idle" => t \in ClientsOf[Dev(t)]

\* While a clock is being switched on it is referenced, and one thread does it.
Steady ==
    \A t \in Thread : pc[t] \in Upd /\ On(t) =>
        /\ ref[Clk(t)] > 0
        /\ \A u \in Thread : Updating(u, Clk(t), TRUE) => u = t

Discipline ==
    /\ ~Sloppy => CallOwns /\ EnOwns /\ RefOwned
    /\ OneClient => Client
    /\ Steady

-----------------------------------------------------------------------------
(* The bits                                                                *)

\* What a thread is about to write says what it has been asked for.
AboutToWrite == \A t \in Thread : pc[t] = "write" => (Clk(t) \in tmp[t] <=> On(t))

\* A clock that runs is about to be switched off, or is referenced and not about to be
\* switched on.
RunsFor(c) ==
    \/ \E t \in Thread : Updating(t, c, FALSE) /\ pc[t] # "end"
    \/ ref[c] > 0 /\ \A t \in Thread : Updating(t, c, TRUE) => pc[t] = "end"
BitsRight == \A h \in Half, d \in Device :
    ClockOf(h, d) # NoClock /\ BitOn(h, d) => RunsFor(ClockOf(h, d))

\* The dependencies of a counted domain are in place.
DepsOfCounted ==
    \A m \in Domain : domCount[m] > 0 =>
        /\ m \in DynamicWake => dep[m].wake
        /\ m \in DynamicSleep => dep[m].sleep
-----------------------------------------------------------------------------
(* The discipline is kept                                                  *)

Jobs == [call : Entry, dev : Device, on : BOOLEAN]

\* Proceed counts what it is asked to count, and nothing else.
LEMMA ProceedCounts ==
    ASSUME NEW t \in Thread, NEW j \in Jobs, NEW H \in SUBSET Halves(j),
           "fclk" \in H => H = Halves(j), TypeOK, CallOK, Proceed(t, j, H)
    PROVE  /\ OthersStay(t) /\ pc'[t] \in {"idle", "check", "count"}
           /\ pc'[t] # "idle" => job'[t] = j
           /\ ToCount(t)' \subseteq H
<1>1. OthersStay(t) /\ pc'[t] \in {"idle", "check", "count"}
  BY ProceedType DEF OthersStay, Jobs
<1>2. CASE H # {}
  <2>1. /\ half'[t] = IF "fclk" \in H THEN "fclk" ELSE "iclk"
        /\ job'[t] = j /\ pc'[t] \in {"check", "count"}
    BY <1>2 DEF Proceed, GoTo, TypeOK
  <2>2. H \subseteq {"fclk", "iclk"} /\ Halves(j) \subseteq {"fclk", "iclk"}
    BY DEF Halves, Half
  <2>3. (Halves(j) \ {"fclk"}) \cup {half'[t]} \subseteq H
    BY <1>2, <2>1, <2>2
  <2>4. ToCount(t)' = (Halves(j) \ {"fclk"}) \cup {half'[t]}
    BY <2>1 DEF ToCount
  <2> QED
    BY <1>1, <2>1, <2>3, <2>4
<1>3. CASE H = {}
  <2>1. pc'[t] = "idle"
    BY <1>3 DEF Proceed, Return, GoTo, TypeOK
  <2> QED
    BY <1>1, <2>1 DEF ToCount, Upd, CriticalLabel
<1> QED
  BY <1>2, <1>3

\* What every step but the count does to a thread's call.
LEMMA CallSteps ==
    ASSUME Core, NEW t \in Thread, Call(t) \/ Step(t), ~CountRef(t)
    PROVE  /\ OthersStay(t) /\ UNCHANGED <<ref, owner>>
           /\ pc'[t] \in Upd => pc[t] \in Upd /\ job'[t] = job[t] /\ half'[t] = half[t]
           /\ \/ pc'[t] = "idle" /\ ToCount(t)' = {}
              \/ MayCall(t, job'[t]) /\ ToCount(t)' \subseteq Halves(job'[t])
              \/ pc[t] # "idle" /\ job'[t] = job[t] /\ ToCount(t)' \subseteq ToCount(t)
<1>0. job[t] \in Jobs
  BY DEF Core, TypeOK, Jobs
<1>1. CASE Call(t)
  <2>1. PICK j \in [call : Calls, dev : Device, on : BOOLEAN] :
          /\ MayCall(t, j)
          /\ \/ GoTo(t, "ai_lock") /\ job' = [job EXCEPT ![t] = j] /\ UNCHANGED half
             \/ GoTo(t, "ai_read") /\ job' = [job EXCEPT ![t] = j] /\ UNCHANGED half
             \/ Proceed(t, j, Halves(j))
    BY <1>1 DEF Call
  <2>2. j \in Jobs /\ UNCHANGED <<ref, owner>> /\ OthersStay(t) /\ pc'[t] \notin Upd
    BY <1>1, Clients, Outside DEF Jobs, Call, sharedVars
  <2>3. CASE UNCHANGED half /\ job' = [job EXCEPT ![t] = j] /\ (GoTo(t, "ai_lock") \/ GoTo(t, "ai_read"))
    <3>1. job'[t] = j /\ pc'[t] \in {"ai_lock", "ai_read"}
      BY <2>3 DEF GoTo, Core, TypeOK
    <3>2. ToCount(t)' \subseteq Halves(job'[t])
      BY <3>1 DEF ToCount, Upd, CriticalLabel
    <3> QED
      BY <2>1, <2>2, <3>1, <3>2
  <2>4. CASE Proceed(t, j, Halves(j))
    <3>1. /\ pc'[t] # "idle" => job'[t] = j
          /\ ToCount(t)' \subseteq Halves(j)
      BY <2>2, <2>4, ProceedCounts DEF Core
    <3>2. pc'[t] = "idle" => ToCount(t)' = {}
      BY DEF ToCount, Upd, CriticalLabel
    <3> QED
      BY <2>1, <2>2, <3>1, <3>2
  <2> QED
    BY <2>1, <2>3, <2>4
<1>2. CASE AutoidleLock(t) \/ AutoidleRead(t)
  <2>1. /\ OthersStay(t) /\ UNCHANGED <<ref, owner, job, half>> /\ pc'[t] \notin Upd
        /\ pc[t] \in {"ai_lock", "ai_read"} /\ pc'[t] \in {"ai_read", "ai_write"}
    BY <1>2, Outside DEF AutoidleLock, AutoidleRead, GoTo, Core, TypeOK, sharedVars
  <2>2. pc[t] = "ai_lock" => Halves(job[t]) = {}
    BY DEF Core, CallOK, Halves, Half
  <2>3. ToCount(t)' \subseteq ToCount(t)
    BY <2>1, <2>2 DEF ToCount
  <2> QED
    BY <2>1, <2>3
<1>3. CASE AutoidleWrite(t)
  <2>1. OthersStay(t) /\ UNCHANGED <<ref, owner>> /\ pc'[t] \notin Upd /\ pc[t] = "ai_write"
    BY <1>3, Outside DEF AutoidleWrite
  <2>2. CASE Return(t)
    <3>1. pc'[t] = "idle"
      BY <2>2 DEF Return, GoTo, Core, TypeOK
    <3> QED
      BY <2>1, <3>1 DEF ToCount, Upd, CriticalLabel
  <2>3. CASE Proceed(t, job[t], Halves(job[t]))
    <3>1. /\ pc'[t] # "idle" => job'[t] = job[t]
          /\ ToCount(t)' \subseteq Halves(job[t])
      BY <1>0, <2>3, ProceedCounts DEF Core
    <3>2. ToCount(t) = Halves(job[t])
      BY <2>1 DEF ToCount
    <3>3. pc'[t] = "idle" => ToCount(t)' = {}
      BY DEF ToCount, Upd, CriticalLabel
    <3> QED
      BY <2>1, <3>1, <3>2, <3>3
  <2> QED
    BY <1>3, <2>2, <2>3 DEF AutoidleWrite
<1>4. CASE CheckRef(t)
  <2>1. OthersStay(t) /\ UNCHANGED <<ref, owner>> /\ pc'[t] \notin Upd /\ pc[t] = "check"
    BY <1>4, Outside DEF CheckRef, sharedVars
  <2>2. CASE GoTo(t, "count") /\ UNCHANGED <<job, half>>
    <3>1. pc'[t] = "count" /\ job'[t] = job[t] /\ ToCount(t)' = ToCount(t)
      BY <2>1, <2>2 DEF ToCount, GoTo, Core, TypeOK
    <3> QED
      BY <2>1, <3>1
  <2>3. CASE NextHalf(t)
    <3>1. Halves(job[t]) \ {"fclk", half[t]} \in SUBSET Halves(job[t])
      OBVIOUS
    <3>2. /\ pc'[t] # "idle" => job'[t] = job[t]
          /\ ToCount(t)' \subseteq Halves(job[t]) \ {"fclk", half[t]}
      BY <1>0, <2>3, <3>1, ProceedCounts DEF Core, NextHalf
    <3>3. pc'[t] = "idle" => ToCount(t)' = {}
      BY DEF ToCount, Upd, CriticalLabel
    <3>4. Halves(job[t]) \ {"fclk", half[t]} \subseteq ToCount(t)
      BY <2>1 DEF ToCount
    <3> QED
      BY <2>1, <3>2, <3>3, <3>4
  <2> QED
    BY <1>4, <2>2, <2>3 DEF CheckRef
<1>5. CASE \/ Acquire(t) \/ EnableSources(t) \/ ReadClock(t) \/ WriteClock(t) \/ CountDomain(t)
           \/ ReadWakeUp(t) \/ WriteWakeUp(t) \/ CountDomainAgain(t)
  <2>1. OthersStay(t) /\ UNCHANGED <<job, half, ref>> /\ pc[t] \in Upd /\ pc'[t] \in Upd
    BY <1>5, Inside DEF Upd
  <2>2. UNCHANGED owner
    BY <1>5 DEF Acquire, EnableSources, ReadClock, WriteClock, CountDomain, ReadWakeUp, WriteWakeUp,
       CountDomainAgain, sharedVars
  <2>3. ToCount(t)' = ToCount(t)
    BY <2>1 DEF ToCount, Upd, CriticalLabel
  <2>4. pc[t] # "idle"
    BY <2>1 DEF Upd, CriticalLabel
  <2> QED
    BY <2>1, <2>2, <2>3, <2>4
<1>6. CASE Finish(t)
  <2>1. OthersStay(t) /\ UNCHANGED <<ref, owner>> /\ pc[t] = "end" /\ pc'[t] \notin Upd /\ NextHalf(t)
    BY <1>6, Ends DEF Finish
  <2>2. Halves(job[t]) \ {"fclk", half[t]} \in SUBSET Halves(job[t])
    OBVIOUS
  <2>3. /\ pc'[t] # "idle" => job'[t] = job[t]
        /\ ToCount(t)' \subseteq Halves(job[t]) \ {"fclk", half[t]}
    BY <1>0, <2>1, <2>2, ProceedCounts DEF Core, NextHalf
  <2>4. pc'[t] = "idle" => ToCount(t)' = {}
    BY DEF ToCount, Upd, CriticalLabel
  <2>5. Halves(job[t]) \ {"fclk", half[t]} \subseteq ToCount(t)
    BY <2>1 DEF ToCount, Upd, CriticalLabel
  <2> QED
    BY <2>1, <2>3, <2>4, <2>5
<1> QED
  BY <1>1, <1>2, <1>3, <1>4, <1>5, <1>6 DEF Step

\* The count: the thread crosses the edge and starts an update, or goes past it.
LEMMA CountSteps ==
    ASSUME Core, NEW t \in Thread, CountRef(t), NEW c, c = Clk(t)
    PROVE  /\ OthersStay(t) /\ pc[t] = "count" /\ c \in Clock /\ half[t] \in ToCount(t)
           /\ ToCount(t)' \subseteq ToCount(t) \ {half[t]}
           /\ pc'[t] # "idle" => job'[t] = job[t]
           /\ ref' = [ref EXCEPT ![c] = IF On(t) THEN ref[c] + 1 ELSE ref[c] - 1]
           /\ owner' = [owner EXCEPT ![c] = IF On(t) THEN owner[c] \cup {<<t, Dev(t)>>}
                                                     ELSE owner[c] \ {<<t, Dev(t)>>}]
           /\ \/ /\ ref[c] = (IF On(t) THEN 0 ELSE 1)
                 /\ pc'[t] = "lock" /\ job'[t] = job[t] /\ half'[t] = half[t]
              \/ pc'[t] \notin Upd /\ ref[c] # (IF On(t) THEN 0 ELSE 1)
<1>0. job[t] \in Jobs /\ c \in Clock /\ ref[c] \in Int /\ On(t) \in BOOLEAN /\ half[t] \in Halves(job[t])
  BY CallTypes DEF CountRef, Core, TypeOK, CallOK, Jobs
<1>1. /\ pc[t] = "count"
      /\ ref' = [ref EXCEPT ![c] = IF On(t) THEN ref[c] + 1 ELSE ref[c] - 1]
      /\ owner' = [owner EXCEPT ![c] = IF On(t) THEN owner[c] \cup {<<t, Dev(t)>>}
                                                ELSE owner[c] \ {<<t, Dev(t)>>}]
  BY DEF CountRef
<1>2. half[t] \in ToCount(t) /\ Halves(job[t]) \ {"fclk", half[t]} \subseteq ToCount(t)
  BY <1>1 DEF ToCount
<1>3. CASE ref[c] = (IF On(t) THEN 0 ELSE 1)
  <2>1. GoTo(t, "lock") /\ UNCHANGED <<job, half>>
    BY <1>0, <1>3 DEF CountRef
  <2>2. pc'[t] = "lock" /\ OthersStay(t)
    BY <2>1 DEF GoTo, Core, TypeOK, OthersStay
  <2>3. ToCount(t)' = Halves(job[t]) \ {"fclk", half[t]}
    BY <2>1, <2>2 DEF ToCount, Upd
  <2> QED
    BY <1>0, <1>1, <1>2, <1>3, <2>1, <2>2, <2>3
<1>4. CASE ref[c] # (IF On(t) THEN 0 ELSE 1)
  <2>1. NextHalf(t)
    BY <1>0, <1>4 DEF CountRef
  <2>2. Halves(job[t]) \ {"fclk", half[t]} \in SUBSET Halves(job[t])
    OBVIOUS
  <2>3. /\ OthersStay(t) /\ pc'[t] \in {"idle", "check", "count"}
        /\ pc'[t] # "idle" => job'[t] = job[t]
        /\ ToCount(t)' \subseteq Halves(job[t]) \ {"fclk", half[t]}
    BY <1>0, <2>1, <2>2, ProceedCounts DEF Core, NextHalf
  <2> QED
    BY <1>0, <1>1, <1>2, <1>4, <2>3 DEF Upd, CriticalLabel
<1> QED
  BY <1>3, <1>4

\* The two clocks of a device are different entries.
LEMMA HalvesDiffer ==
    ASSUME NEW d \in Device, NEW g \in Half, NEW h \in Half, g # h,
           ClockOf(g, d) # NoClock, ClockOf(h, d) # NoClock
    PROVE  ClockOf(g, d) # ClockOf(h, d)
  BY DeviceTable DEF ClockOf, Half

LEMMA OwnersFinite ==
    ASSUME Core, NEW c \in Clock
    PROVE  IsFiniteSet(owner[c]) /\ Cardinality(owner[c]) \in Nat
<1>1. IsFiniteSet(Thread \X Device)
  BY Finiteness, FS_Product
<1> QED
  BY <1>1, FS_Subset, FS_CardinalityType DEF Core, TypeOK

LEMMA OwnedStep ==
    ASSUME Core, Core', ~Sloppy, CallOwns, EnOwns, RefOwned, NEW t \in Thread, Call(t) \/ Step(t)
    PROVE  CallOwns' /\ EnOwns' /\ RefOwned'
<1>1. CASE ~CountRef(t)
  <2>1. /\ OthersStay(t) /\ UNCHANGED <<ref, owner>>
        /\ pc'[t] \in Upd => pc[t] \in Upd /\ job'[t] = job[t] /\ half'[t] = half[t]
        /\ \/ pc'[t] = "idle" /\ ToCount(t)' = {}
           \/ MayCall(t, job'[t]) /\ ToCount(t)' \subseteq Halves(job'[t])
           \/ pc[t] # "idle" /\ job'[t] = job[t] /\ ToCount(t)' \subseteq ToCount(t)
    BY <1>1, CallSteps
  <2>2. ASSUME NEW h \in ToCount(t)'
        PROVE  <<t, Dev(t)'>> \in owner'[ClockOf(h, Dev(t)')] <=> ~On(t)'
    BY <2>1 DEF MayCall, Dev, On, CallOwns
  <2>3. ASSUME NEW u \in Thread \ {t}
        PROVE  ToCount(u)' = ToCount(u) /\ Dev(u)' = Dev(u) /\ (On(u)' <=> On(u)) /\ pc'[u] = pc[u]
               /\ Clk(u)' = Clk(u)
    BY <2>1 DEF OthersStay, ToCount, Dev, On, Clk, ClockOf
  <2>4. CallOwns'
    BY <2>1, <2>2, <2>3 DEF CallOwns
  <2>5. EnOwns'
    BY <2>1, <2>3 DEF EnOwns, Dev, On, Clk, ClockOf
  <2> QED
    BY <2>1, <2>4, <2>5 DEF RefOwned
<1>2. CASE CountRef(t)
  <2> PICK c, o : c \in Clock /\ c = Clk(t) /\ o = <<t, Dev(t)>>
    BY <1>2, CountSteps
  <2>1. /\ OthersStay(t) /\ pc[t] = "count" /\ half[t] \in ToCount(t)
        /\ ToCount(t)' \subseteq ToCount(t) \ {half[t]}
        /\ pc'[t] # "idle" => job'[t] = job[t]
        /\ ref' = [ref EXCEPT ![c] = IF On(t) THEN ref[c] + 1 ELSE ref[c] - 1]
        /\ owner' = [owner EXCEPT ![c] = IF On(t) THEN owner[c] \cup {o} ELSE owner[c] \ {o}]
        /\ \/ pc'[t] = "lock" /\ job'[t] = job[t] /\ half'[t] = half[t]
           \/ pc'[t] \notin Upd
    BY <1>2, CountSteps
  <2>2. o \in owner[c] <=> ~On(t)
    BY <2>1 DEF CallOwns, Clk
  <2>3. owner \in [Clock -> SUBSET (Thread \X Device)] /\ ref \in [Clock -> Int] /\ On(t) \in BOOLEAN
        /\ owner' \in [Clock -> SUBSET (Thread \X Device)]
    BY CallTypes DEF Core, TypeOK
  <2>4. ASSUME NEW u \in Thread \ {t}, NEW b \in Clock
        PROVE  <<u, Dev(u)>> \in owner'[b] <=> <<u, Dev(u)>> \in owner[b]
    BY <2>1, <2>3
  <2>5. ASSUME NEW u \in Thread \ {t}
        PROVE  ToCount(u)' = ToCount(u) /\ Dev(u)' = Dev(u) /\ (On(u)' <=> On(u)) /\ pc'[u] = pc[u]
               /\ Clk(u)' = Clk(u)
    BY <2>1 DEF OthersStay, ToCount, Dev, On, Clk, ClockOf
  <2>6. ASSUME NEW u \in Thread, NEW h \in ToCount(u) PROVE h \in Half /\ ClockOf(h, Dev(u)) \in Clock
    <3>1. h \in Halves(job[u])
      BY <2>6 DEF Core, CallOK, ToCount
    <3> QED
      BY <3>1, CallTypes, DeviceTable DEF Halves, ClockOf, Dev
  <2>7. ASSUME NEW h \in ToCount(t)'
        PROVE  <<t, Dev(t)'>> \in owner'[ClockOf(h, Dev(t)')] <=> ~On(t)'
    <3>1. h \in ToCount(t) /\ h # half[t] /\ pc'[t] # "idle"
      BY <2>1, <2>7 DEF ToCount, Upd, CriticalLabel
    <3>2. Dev(t)' = Dev(t) /\ (On(t)' <=> On(t))
      BY <2>1, <3>1 DEF Dev, On
    <3>3. ClockOf(h, Dev(t)) # c /\ ClockOf(h, Dev(t)) \in Clock
      BY <2>1, <2>6, <3>1, HalvesDiffer, CallTypes, DeviceTable DEF Clk
    <3>4. owner'[ClockOf(h, Dev(t))] = owner[ClockOf(h, Dev(t))]
      BY <2>1, <2>3, <3>3
    <3> QED
      BY <3>1, <3>2, <3>4 DEF CallOwns
  <2>8. CallOwns'
    <3> SUFFICES ASSUME NEW u \in Thread, NEW h \in ToCount(u)'
                 PROVE  <<u, Dev(u)'>> \in owner'[ClockOf(h, Dev(u)')] <=> ~On(u)'
      BY DEF CallOwns
    <3>1. CASE u = t
      BY <2>7, <3>1
    <3>2. CASE u # t
      <4>1. h \in ToCount(u) /\ Dev(u)' = Dev(u) /\ (On(u)' <=> On(u))
        BY <2>5, <3>2
      <4> QED
        BY <2>4, <2>6, <3>2, <4>1 DEF CallOwns
    <3> QED
      BY <3>1, <3>2
  <2>9. EnOwns'
    <3> SUFFICES ASSUME NEW u \in Thread, pc'[u] \in Upd, On(u)'
                 PROVE  <<u, Dev(u)'>> \in owner'[Clk(u)']
      BY DEF EnOwns
    <3>1. CASE u = t
      <4>1. Dev(t)' = Dev(t) /\ (On(t)' <=> On(t)) /\ Clk(t)' = c
        BY <2>1, <3>1 DEF Dev, On, Clk, ClockOf
      <4> QED
        BY <2>1, <2>3, <3>1, <4>1
    <3>2. CASE u # t
      <4>1. pc[u] \in Upd /\ On(u) /\ Dev(u)' = Dev(u) /\ Clk(u)' = Clk(u)
        BY <2>5, <3>2
      <4>2. Clk(u) \in Clock
        BY <4>1, CallTypes DEF Upd
      <4> QED
        BY <2>4, <3>2, <4>1, <4>2 DEF EnOwns
    <3> QED
      BY <3>1, <3>2
  <2>10. RefOwned'
    <3> SUFFICES ASSUME NEW b \in Clock PROVE ref'[b] = Cardinality(owner'[b])
      BY DEF RefOwned
    <3>1. CASE b # c
      BY <2>1, <2>3, <3>1 DEF RefOwned
    <3>2. CASE b = c
      <4>1. ref[c] = Cardinality(owner[c]) /\ IsFiniteSet(owner[c]) /\ Cardinality(owner[c]) \in Nat
        BY OwnersFinite DEF RefOwned
      <4>2. Cardinality(owner[c] \cup {o}) = IF o \in owner[c] THEN Cardinality(owner[c])
                                             ELSE Cardinality(owner[c]) + 1
        BY <4>1, FS_AddElement
      <4>3. Cardinality(owner[c] \ {o}) = IF o \in owner[c] THEN Cardinality(owner[c]) - 1
                                          ELSE Cardinality(owner[c])
        BY <4>1, FS_RemoveElement
      <4>4. CASE On(t)
        <5>1. ref'[c] = ref[c] + 1 /\ owner'[c] = owner[c] \cup {o} /\ o \notin owner[c]
          BY <2>1, <2>2, <2>3, <4>4
        <5> QED
          BY <3>2, <4>1, <4>2, <5>1
      <4>5. CASE ~On(t)
        <5>1. ref'[c] = ref[c] - 1 /\ owner'[c] = owner[c] \ {o} /\ o \in owner[c]
          BY <2>1, <2>2, <2>3, <4>5
        <5> QED
          BY <3>2, <4>1, <4>3, <5>1
      <4> QED
        BY <4>4, <4>5
    <3> QED
      BY <3>1, <3>2
  <2> QED
    BY <2>8, <2>9, <2>10
<1> QED
  BY <1>1, <1>2

LEMMA ClientStep ==
    ASSUME Core, Client, NEW t \in Thread, Call(t) \/ Step(t)
    PROVE  Client'
<1>1. OthersStay(t) /\ (pc'[t] # "idle" => MayCall(t, job'[t]) \/ (pc[t] # "idle" /\ job'[t] = job[t]))
  <2>1. CASE CountRef(t)
    BY <2>1, CountSteps
  <2>2. CASE ~CountRef(t)
    BY <2>2, CallSteps
  <2> QED
    BY <2>1, <2>2
<1>2. pc'[t] # "idle" => t \in ClientsOf[job'[t].dev]
  BY <1>1 DEF MayCall, Client, Dev
<1> QED
  BY <1>1, <1>2 DEF OthersStay, Client, Dev

LEMMA SteadyStep ==
    ASSUME Core, Core', Careful, Discipline, ~Sloppy => EnOwns' /\ RefOwned',
           NEW t \in Thread, Call(t) \/ Step(t)
    PROVE  Steady'
<1>1. CASE ~CountRef(t)
  <2>1. /\ OthersStay(t) /\ UNCHANGED ref
        /\ pc'[t] \in Upd => pc[t] \in Upd /\ job'[t] = job[t] /\ half'[t] = half[t]
    BY <1>1, CallSteps
  <2>2. \A u \in Thread : pc'[u] \in Upd => pc[u] \in Upd /\ Clk(u)' = Clk(u) /\ (On(u)' <=> On(u))
    BY <2>1 DEF OthersStay, Clk, ClockOf, Dev, On
  <2>3. \A u \in Thread, c \in Clock : Updating(u, c, TRUE)' => Updating(u, c, TRUE)
    BY <2>2 DEF Updating, Upd
  <2>4. ASSUME NEW v \in Thread, pc'[v] \in Upd, On(v)'
        PROVE  /\ ref'[Clk(v)'] > 0
               /\ \A u \in Thread : Updating(u, Clk(v), TRUE)' => u = v
    <3>1. Clk(v) \in Clock /\ Clk(v)' = Clk(v) /\ pc[v] \in Upd /\ On(v)
      BY <2>2, <2>4, CallTypes DEF Upd
    <3>2. \A u \in Thread : Updating(u, Clk(v), TRUE)' => Updating(u, Clk(v), TRUE)
      BY <2>2, <3>1 DEF Updating, Upd
    <3> QED
      BY <2>1, <3>1, <3>2 DEF Discipline, Steady
  <2> QED
    BY <2>4 DEF Steady
<1>2. CASE CountRef(t)
  <2> PICK c \in Clock : c = Clk(t)
    BY <1>2, CountSteps
  <2>1. /\ OthersStay(t) /\ pc[t] = "count"
        /\ ref' = [ref EXCEPT ![c] = IF On(t) THEN ref[c] + 1 ELSE ref[c] - 1]
        /\ \/ /\ ref[c] = (IF On(t) THEN 0 ELSE 1)
              /\ pc'[t] = "lock" /\ job'[t] = job[t] /\ half'[t] = half[t]
           \/ pc'[t] \notin Upd
    BY <1>2, CountSteps
  <2>2. ref \in [Clock -> Int] /\ ref[c] \in Int
    BY DEF Core, TypeOK
  <2>3. ASSUME NEW u \in Thread \ {t}
        PROVE  pc'[u] = pc[u] /\ Clk(u)' = Clk(u) /\ (On(u)' <=> On(u))
    BY <2>1 DEF OthersStay, Clk, ClockOf, Dev, On
  <2>4. pc'[t] \in Upd /\ On(t)' => ref[c] = 0 /\ ref'[c] > 0 /\ Clk(t)' = c
    <3>1. pc'[t] \in Upd => Clk(t)' = c /\ (On(t)' <=> On(t))
      BY <2>1 DEF Clk, ClockOf, Dev, On
    <3> QED
      BY <2>1, <2>2, <3>1
  <2>5. ASSUME NEW v \in Thread, pc'[v] \in Upd, On(v)'
        PROVE  /\ ref'[Clk(v)'] > 0
               /\ \A u \in Thread : Updating(u, Clk(v), TRUE)' => u = v
    <3>1. CASE v = t
      <4>1. ref[c] = 0 /\ ref'[c] > 0 /\ Clk(t)' = c
        BY <2>4, <2>5, <3>1
      <4>2. ASSUME NEW u \in Thread \ {t}, Updating(u, Clk(v), TRUE)' PROVE FALSE
        <5>1. pc[u] \in Upd /\ On(u) /\ Clk(u) = c
          BY <2>3, <3>1, <4>1, <4>2 DEF Updating, Upd
        <5>2. Steady
          BY DEF Discipline
        <5>3. ref[Clk(u)] > 0
          BY <5>1, <5>2, Zenon DEF Steady
        <5> QED
          BY <4>1, <5>1, <5>3
      <4> QED
        BY <3>1, <4>1, <4>2
    <3>2. CASE v # t
      <4>1. pc[v] \in Upd /\ On(v) /\ Clk(v)' = Clk(v) /\ Clk(v) \in Clock /\ Dev(v) \in Device
        BY <2>3, <2>5, <3>2, CallTypes DEF Upd
      <4>2. ref[Clk(v)] > 0 /\ \A u \in Thread : Updating(u, Clk(v), TRUE) => u = v
        BY <4>1 DEF Discipline, Steady
      <4>3. ref'[Clk(v)] > 0
        <5>1. CASE Clk(v) # c
          BY <2>1, <2>2, <4>1, <4>2, <5>1
        <5>2. CASE Clk(v) = c /\ ~Sloppy
          <6>1. <<v, Dev(v)'>> \in owner'[c] /\ ref'[c] = Cardinality(owner'[c])
            BY <2>5, <4>1, <5>2 DEF EnOwns, RefOwned
          <6>2. IsFiniteSet(owner'[c])
            <7>1. owner'[c] \subseteq Thread \X Device
              BY DEF Core, TypeOK
            <7> QED
              BY <7>1, Finiteness, FS_Product, FS_Subset
          <6>3. Cardinality(owner'[c]) # 0 /\ Cardinality(owner'[c]) \in Nat
            BY <6>1, <6>2, FS_EmptySet, FS_CardinalityType
          <6> QED
            BY <5>2, <6>1, <6>3
        <5>3. CASE Clk(v) = c /\ OneClient
          <6>1. t \in ClientsOf[Dev(t)] /\ v \in ClientsOf[Dev(v)]
            BY <2>1, <4>1, <5>3 DEF Discipline, Client, Upd, CriticalLabel
          <6>2. c # NoClock /\ ClockOf(half[t], Dev(t)) = c /\ ClockOf(half[v], Dev(v)) = c
                /\ half[t] \in Half /\ half[v] \in Half /\ Dev(t) \in Device
            BY <5>3, CallTypes, DeviceTable DEF Clk, Core, TypeOK
          <6> QED
            BY <3>2, <4>1, <5>3, <6>1, <6>2 DEF OneClient
        <5> QED
          BY <5>1, <5>2, <5>3 DEF Careful
      <4>4. ASSUME NEW u \in Thread, Updating(u, Clk(v), TRUE)' PROVE u = v
        <5>1. pc'[u] \in Upd /\ On(u)' /\ Clk(u)' = Clk(v)
          BY <4>1, <4>4 DEF Updating, Upd
        <5>2. CASE u = t
          BY <2>4, <4>1, <4>2, <5>1, <5>2
        <5>3. CASE u # t
          <6>1. Updating(u, Clk(v), TRUE)
            BY <2>3, <5>1, <5>3 DEF Updating, Upd
          <6> QED
            BY <4>2, <6>1
        <5> QED
          BY <5>2, <5>3
      <4> QED
        BY <4>1, <4>3, <4>4
    <3> QED
      BY <3>1, <3>2
  <2> QED
    BY <2>5 DEF Steady
<1> QED
  BY <1>1, <1>2

LEMMA DisciplineInvariant == ASSUME Careful PROVE Spec => [](Core /\ Discipline)
<1>1. Init => Discipline
  <2> SUFFICES ASSUME Init PROVE Discipline
    OBVIOUS
  <2>1. \A t \in Thread : pc[t] = "idle" /\ ToCount(t) = {}
    BY DEF Init, ToCount, Upd, CriticalLabel
  <2>2. \A c \in Clock : owner[c] = {} /\ ref[c] = 0
    BY DEF Init
  <2>3. RefOwned
    BY <2>2, FS_EmptySet DEF RefOwned
  <2> QED
    BY <2>1, <2>3 DEF Discipline, CallOwns, EnOwns, Client, Steady, Upd, CriticalLabel
<1>2. Core /\ Core' /\ Discipline /\ [Next]_vars => Discipline'
  <2> SUFFICES ASSUME Core, Core', Discipline, [Next]_vars PROVE Discipline'
    OBVIOUS
  <2>1. CASE UNCHANGED vars
    BY <2>1 DEF vars, Discipline, CallOwns, EnOwns, RefOwned, Client, Steady, ToCount, Updating,
       Halves, Dev, On, Clk, ClockOf
  <2>2. ASSUME NEW t \in Thread, Call(t) \/ Step(t) PROVE Discipline'
    <3>1. ~Sloppy => CallOwns' /\ EnOwns' /\ RefOwned'
      BY <2>2, OwnedStep DEF Discipline
    <3>2. OneClient => Client'
      BY <2>2, ClientStep DEF Discipline
    <3>3. Steady'
      BY <2>2, <3>1, SteadyStep
    <3> QED
      BY <3>1, <3>2, <3>3 DEF Discipline
  <2> QED
    BY <2>1, <2>2 DEF Next
<1> QED
  BY <1>1, <1>2, InitCore, CoreInvariant, PTL DEF Spec

-----------------------------------------------------------------------------
(* The bits follow the references                                          *)

\* A clock entry has one place in the registers.
LEMMA ClockPlace ==
    ASSUME NEW d \in Device, NEW e \in Device, NEW g \in Half, NEW h \in Half,
           ClockOf(g, d) # NoClock, ClockOf(g, d) = ClockOf(h, e)
    PROVE  g = h /\ DomainOf[d] = DomainOf[e]
  BY DeviceTable DEF ClockOf, Half

\* How an update goes on.
LEMMA UpdateSteps ==
    ASSUME Core, NEW t \in Thread, Call(t) \/ Step(t), ~CountRef(t)
    PROVE  /\ pc[t] = "end" => pc'[t] \notin Upd
           /\ pc[t] \in Upd \ {"end"} /\ ~WriteClock(t) =>
                pc'[t] \in Upd \ {"end"} /\ job'[t] = job[t] /\ half'[t] = half[t]
<1>1. CASE Call(t) \/ AutoidleLock(t) \/ AutoidleRead(t) \/ AutoidleWrite(t) \/ CheckRef(t)
  BY <1>1, Outside DEF Upd, CriticalLabel
<1>2. CASE \/ Acquire(t) \/ EnableSources(t) \/ ReadClock(t) \/ WriteClock(t) \/ CountDomain(t)
           \/ ReadWakeUp(t) \/ WriteWakeUp(t) \/ CountDomainAgain(t)
  <2>1. UNCHANGED <<job, half>> /\ pc[t] # "end"
    BY <1>2, Inside DEF Acquire, EnableSources, ReadClock, WriteClock, CountDomain, ReadWakeUp,
       WriteWakeUp, CountDomainAgain
  <2>2. ~WriteClock(t) => pc'[t] \in Upd \ {"end"}
    BY <1>2 DEF Acquire, EnableSources, ReadClock, CountDomain, ReadWakeUp, WriteWakeUp,
       CountDomainAgain, GoTo, Core, TypeOK, Upd, CriticalLabel
  <2> QED
    BY <2>1, <2>2
<1>3. CASE Finish(t)
  BY <1>3, Ends
<1> QED
  BY <1>1, <1>2, <1>3 DEF Step

LEMMA RunsForKept ==
    ASSUME Core, NEW t \in Thread, Call(t) \/ Step(t), NEW c \in Clock, RunsFor(c),
           ~(WriteClock(t) /\ Clk(t) = c)
    PROVE  RunsFor(c)'
<1>1. CASE CountRef(t)
  <2> PICK d \in Clock : d = Clk(t)
    BY <1>1, CountSteps
  <2>1. /\ OthersStay(t) /\ pc[t] = "count"
        /\ ref' = [ref EXCEPT ![d] = IF On(t) THEN ref[d] + 1 ELSE ref[d] - 1]
        /\ \/ /\ ref[d] = (IF On(t) THEN 0 ELSE 1)
              /\ pc'[t] = "lock" /\ job'[t] = job[t] /\ half'[t] = half[t]
           \/ pc'[t] \notin Upd /\ ref[d] # (IF On(t) THEN 0 ELSE 1)
    BY <1>1, CountSteps
  <2>2. ref \in [Clock -> Int] /\ On(t) \in BOOLEAN
    BY CallTypes DEF Core, TypeOK
  <2>3. ASSUME NEW u \in Thread \ {t}
        PROVE  pc'[u] = pc[u] /\ \A b \in BOOLEAN : Updating(u, c, b)' <=> Updating(u, c, b)
    BY <2>1 DEF OthersStay, Updating, Clk, ClockOf, Dev, On
  <2>4. \A b \in BOOLEAN : ~Updating(t, c, b)
    BY <2>1 DEF Updating, CriticalLabel
  <2>5. CASE pc'[t] \notin Upd
    <3>1. \A b \in BOOLEAN : ~Updating(t, c, b)'
      BY <2>5 DEF Updating, Upd
    <3>2. ref'[c] > 0 <=> ref[c] > 0
      BY <2>1, <2>2, <2>5 DEF Upd
    <3> QED
      BY <2>3, <2>4, <3>1, <3>2 DEF RunsFor
  <2>6. CASE pc'[t] = "lock" /\ d # c
    <3>1. \A b \in BOOLEAN : ~Updating(t, c, b)'
      BY <2>1, <2>6 DEF Updating, Clk, ClockOf, Dev, Upd
    <3>2. ref'[c] = ref[c]
      BY <2>1, <2>2, <2>6
    <3> QED
      BY <2>3, <2>4, <3>1, <3>2 DEF RunsFor
  <2>7. CASE pc'[t] = "lock" /\ d = c /\ On(t)
    <3>1. ref[c] = 0
      BY <2>1, <2>7 DEF Upd
    <3>2. ~(ref[c] > 0)
      BY <3>1
    <3>3. PICK u \in Thread : Updating(u, c, FALSE) /\ pc[u] # "end"
      BY <3>2, Zenon DEF RunsFor
    <3>4. u # t
      BY <2>4, <3>3
    <3>5. Updating(u, c, FALSE)' /\ pc'[u] # "end"
      BY <2>3, <3>3, <3>4
    <3> QED
      BY <3>5, Zenon DEF RunsFor
  <2>8. CASE pc'[t] = "lock" /\ d = c /\ ~On(t)
    <3>1. Updating(t, c, FALSE)' /\ pc'[t] # "end"
      BY <2>1, <2>2, <2>8 DEF Updating, Clk, ClockOf, Dev, On, Upd
    <3> QED
      BY <3>1 DEF RunsFor
  <2> QED
    BY <2>1, <2>5, <2>6, <2>7, <2>8
<1>2. CASE ~CountRef(t)
  <2>1. /\ OthersStay(t) /\ UNCHANGED ref
        /\ pc'[t] \in Upd => pc[t] \in Upd /\ job'[t] = job[t] /\ half'[t] = half[t]
    BY <1>2, CallSteps
  <2>2. ASSUME NEW u \in Thread \ {t}
        PROVE  pc'[u] = pc[u] /\ \A b \in BOOLEAN : Updating(u, c, b)' <=> Updating(u, c, b)
    BY <2>1 DEF OthersStay, Updating, Clk, ClockOf, Dev, On
  <2>3. CASE \E u \in Thread : Updating(u, c, FALSE) /\ pc[u] # "end"
    <3> PICK u \in Thread : Updating(u, c, FALSE) /\ pc[u] # "end"
      BY <2>3
    <3>1. CASE u # t
      BY <2>2, <3>1 DEF RunsFor
    <3>2. CASE u = t
      <4>1. Clk(t) = c /\ ~On(t) /\ pc[t] \in Upd \ {"end"} /\ ~WriteClock(t)
        BY <3>2 DEF Updating, Upd
      <4>2. pc'[t] \in Upd \ {"end"} /\ job'[t] = job[t] /\ half'[t] = half[t]
        BY <1>2, <4>1, UpdateSteps
      <4>3. Updating(t, c, FALSE)' /\ pc'[t] # "end"
        BY <4>1, <4>2 DEF Updating, Clk, ClockOf, Dev, On, Upd
      <4> QED
        BY <4>3 DEF RunsFor
    <3> QED
      BY <3>1, <3>2
  <2>4. CASE ref[c] > 0 /\ \A u \in Thread : Updating(u, c, TRUE) => pc[u] = "end"
    <3>1. ASSUME Updating(t, c, TRUE)' PROVE pc'[t] = "end"
      <4>1. pc'[t] \in Upd
        BY <3>1 DEF Updating, Upd
      <4>2. Updating(t, c, TRUE)
        BY <2>1, <3>1, <4>1 DEF Updating, Clk, ClockOf, Dev, On, Upd
      <4>3. pc[t] = "end"
        BY <2>4, <4>2
      <4> QED
        BY <1>2, <4>1, <4>3, UpdateSteps
    <3>2. \A u \in Thread : Updating(u, c, TRUE)' => pc'[u] = "end"
      BY <2>2, <2>4, <3>1
    <3> QED
      BY <2>1, <2>4, <3>2 DEF RunsFor
  <2> QED
    BY <2>3, <2>4 DEF RunsFor
<1> QED
  BY <1>1, <1>2

\* Only WriteClock writes a clock register, and a thread reads before it writes.
LEMMA Registers ==
    ASSUME Core, NEW t \in Thread, Call(t) \/ Step(t)
    PROVE  /\ OthersStay(t) /\ \A u \in Thread \ {t} : tmp'[u] = tmp[u]
           /\ ~WriteClock(t) => reg'["fclken"] = reg["fclken"] /\ reg'["iclken"] = reg["iclken"]
           /\ pc'[t] = "write" => ReadClock(t)
<1>1. OthersStay(t)
  BY CallSteps, CountSteps
<1>2. \A u \in Thread \ {t} : tmp'[u] = tmp[u]
  BY DEF Call, Step, AutoidleLock, AutoidleRead, AutoidleWrite, CheckRef, CountRef, Acquire,
     EnableSources, ReadClock, WriteClock, CountDomain, ReadWakeUp, WriteWakeUp,
     CountDomainAgain, Finish, ReadBit, WriteBack, sharedVars, Core, TypeOK
<1>3. ~WriteClock(t) => reg'["fclken"] = reg["fclken"] /\ reg'["iclken"] = reg["iclken"]
  BY DEF Call, Step, AutoidleLock, AutoidleRead, AutoidleWrite, CheckRef, CountRef, Acquire,
     EnableSources, ReadClock, CountDomain, ReadWakeUp, WriteWakeUp,
     CountDomainAgain, Finish, WriteBack, sharedVars, Core, TypeOK, RegName
<1>4. ASSUME ~ReadClock(t) PROVE pc'[t] # "write"
  <2>1. CASE Call(t) \/ AutoidleLock(t) \/ AutoidleRead(t) \/ AutoidleWrite(t) \/ CheckRef(t)
    BY <2>1, Outside DEF Upd, CriticalLabel
  <2>2. CASE CountRef(t)
    BY <2>2, CountSteps DEF Upd, CriticalLabel
  <2>3. CASE Finish(t)
    BY <2>3, NextHalfCore DEF Finish
  <2>4. CASE \/ Acquire(t) \/ EnableSources(t) \/ WriteClock(t) \/ CountDomain(t)
             \/ ReadWakeUp(t) \/ WriteWakeUp(t) \/ CountDomainAgain(t)
    BY <2>4 DEF Acquire, EnableSources, WriteClock, CountDomain, ReadWakeUp, WriteWakeUp,
       CountDomainAgain, GoTo, Core, TypeOK
  <2> QED
    BY <1>4, <2>1, <2>2, <2>3, <2>4 DEF Step
<1> QED
  BY <1>1, <1>2, <1>3, <1>4

LEMMA BitsStep ==
    ASSUME Core, Core', Discipline, NoLostUpdate, AboutToWrite, BitsRight,
           NEW t \in Thread, Call(t) \/ Step(t)
    PROVE  AboutToWrite' /\ BitsRight'
<1>1. AboutToWrite'
  <2>1. ASSUME NEW u \in Thread \ {t}
        PROVE  pc'[u] = pc[u] /\ tmp'[u] = tmp[u] /\ Clk(u)' = Clk(u) /\ (On(u)' <=> On(u))
    BY Registers DEF OthersStay, Clk, ClockOf, Dev, On
  <2>2. ASSUME pc'[t] = "write" PROVE Clk(t)' \in tmp'[t] <=> On(t)'
    <3>1. ReadClock(t)
      BY <2>2, Registers
    <3>2. /\ tmp'[t] = IF On(t) THEN reg[ClockReg(half[t])][Dom(t)] \cup {Clk(t)}
                                ELSE reg[ClockReg(half[t])][Dom(t)] \ {Clk(t)}
          /\ UNCHANGED <<job, half>>
      BY <3>1 DEF ReadClock, ReadBit, Core, TypeOK
    <3>3. Clk(t)' = Clk(t) /\ (On(t)' <=> On(t))
      BY <3>2 DEF Clk, ClockOf, Dev, On
    <3> QED
      BY <3>2, <3>3
  <2> QED
    BY <2>1, <2>2 DEF AboutToWrite
<1>2. BitsRight'
  <2> SUFFICES ASSUME NEW h \in Half, NEW d \in Device, NEW c \in Clock, c = ClockOf(h, d),
                      BitOn(h, d)'
               PROVE  RunsFor(c)'
    BY DeviceTable DEF BitsRight, ClockOf, Half
  <2>0. c # NoClock /\ ClockReg(h) \in {"fclken", "iclken"} /\ DomainOf[d] \in Domain
    BY DeviceTable DEF ClockReg
  <2>1. ASSUME ~WriteClock(t) PROVE RunsFor(c)'
    <3>1. BitOn(h, d)
      BY <2>0, <2>1, Registers DEF BitOn, ClockOf
    <3> QED
      BY <2>0, <2>1, <3>1, RunsForKept DEF BitsRight
  <2>2. ASSUME WriteClock(t) PROVE RunsFor(c)'
    <3>1. /\ pc[t] = "write" /\ UNCHANGED <<job, half, ref>> /\ pc'[t] = "end"
          /\ reg' = [reg EXCEPT ![ClockReg(half[t])][Dom(t)] = tmp[t]]
      BY <2>2 DEF WriteClock, WriteBack, GoTo, Core, TypeOK
    <3>2. /\ ClockReg(half[t]) \in RegName /\ Dom(t) \in Domain /\ Dev(t) \in Device /\ half[t] \in Half
          /\ reg \in [RegName -> [Domain -> SUBSET Bit]] /\ ClockReg(h) \in RegName
      BY CallTypes DEF ClockReg, RegName, Core, TypeOK
    <3>3. CASE Clk(t) = c
      <4>1. half[t] = h /\ Dom(t) = DomainOf[d]
        BY <2>0, <3>2, <3>3, ClockPlace DEF Clk, Dom
      <4>2. reg'[ClockReg(h)][DomainOf[d]] = tmp[t]
        BY <3>1, <3>2, <4>1
      <4>3. On(t)
        BY <3>1, <3>3, <4>2 DEF BitOn, AboutToWrite, ClockOf
      <4>4. ref[c] > 0 /\ \A u \in Thread : Updating(u, c, TRUE) => u = t
        BY <3>1, <3>3, <4>3 DEF Discipline, Steady, Upd, CriticalLabel
      <4>5. \A u \in Thread : Updating(u, c, TRUE)' => pc'[u] = "end"
        <5> SUFFICES ASSUME NEW u \in Thread \ {t}, Updating(u, c, TRUE)' PROVE FALSE
          BY <3>1
        <5>1. Updating(u, c, TRUE)
          BY Registers DEF OthersStay, Updating, Clk, ClockOf, Dev, On
        <5> QED
          BY <4>4, <5>1
      <4> QED
        BY <3>1, <4>4, <4>5 DEF RunsFor
    <3>4. CASE Clk(t) # c
      <4>1. BitOn(h, d)
        <5>1. CASE ClockReg(half[t]) = ClockReg(h) /\ Dom(t) = DomainOf[d]
          <6>1. c \in tmp[t] <=> c \in reg[ClockReg(half[t])][Dom(t)]
            BY <3>1, <3>4 DEF NoLostUpdate, Bit
          <6>2. c \in tmp[t]
            BY <3>1, <3>2, <5>1 DEF BitOn, ClockOf
          <6> QED
            BY <5>1, <6>1, <6>2 DEF BitOn
        <5>2. CASE ~(ClockReg(half[t]) = ClockReg(h) /\ Dom(t) = DomainOf[d])
          <6>1. reg'[ClockReg(h)][DomainOf[d]] = reg[ClockReg(h)][DomainOf[d]]
            BY <2>0, <3>1, <3>2, <5>2
          <6> QED
            BY <6>1 DEF BitOn, ClockOf
        <5> QED
          BY <5>1, <5>2
      <4> QED
        BY <2>0, <3>4, <4>1, RunsForKept DEF BitsRight
    <3> QED
      BY <3>3, <3>4
  <2> QED
    BY <2>1, <2>2
<1> QED
  BY <1>1, <1>2

LEMMA BitsInvariant ==
    ASSUME Careful
    PROVE  Spec => [](Core /\ Discipline /\ AboutToWrite /\ BitsRight)
<1>1. Init => AboutToWrite /\ BitsRight
  <2> SUFFICES ASSUME Init PROVE AboutToWrite /\ BitsRight
    OBVIOUS
  <2>1. AboutToWrite
    BY DEF Init, AboutToWrite
  <2>2. \A h \in Half, d \in Device : ~BitOn(h, d)
    BY DeviceTable DEF Init, BitOn, ClockReg, RegName
  <2> QED
    BY <2>1, <2>2 DEF BitsRight
<1>2. /\ Core /\ Core' /\ Discipline /\ NoLostUpdate /\ AboutToWrite /\ BitsRight /\ [Next]_vars
      => AboutToWrite' /\ BitsRight'
  <2> SUFFICES ASSUME Core, Core', Discipline, NoLostUpdate, AboutToWrite, BitsRight, [Next]_vars
               PROVE  AboutToWrite' /\ BitsRight'
    OBVIOUS
  <2>1. CASE UNCHANGED vars
    BY <2>1 DEF vars, AboutToWrite, BitsRight, BitOn, RunsFor, Updating, Dev, On, Clk, ClockOf
  <2>2. ASSUME NEW t \in Thread, Call(t) \/ Step(t) PROVE AboutToWrite' /\ BitsRight'
    BY <2>2, BitsStep
  <2> QED
    BY <2>1, <2>2 DEF Next
<1> QED
  BY <1>1, <1>2, DisciplineInvariant, NothingLost, PTL DEF Spec

\* A clock without references, with no update of it under way, is off: however the
\* updates of its clients interleave, the last one that reaches the register is a
\* disable.  For any table, any number of threads, and drivers that keep to a discipline.
THEOREM NoPowerLeak == ASSUME Careful PROVE Spec => []UnownedClockStops
<1>1. Core /\ BitsRight => UnownedClockStops
  <2> SUFFICES ASSUME Core, BitsRight, NEW h \in Half, NEW d \in Device,
                      ClockOf(h, d) # NoClock, ref[ClockOf(h, d)] = 0, Updated(ClockOf(h, d)),
                      BitOn(h, d)
               PROVE  FALSE
    BY DEF UnownedClockStops
  <2>1. RunsFor(ClockOf(h, d))
    BY DEF BitsRight
  <2>2. ~(ref[ClockOf(h, d)] > 0)
    OBVIOUS
  <2>3. \A t \in Thread : ~Updating(t, ClockOf(h, d), FALSE)
    BY DEF Updated
  <2> QED
    BY <2>1, <2>2, <2>3, Zenon DEF RunsFor
<1> QED
  BY <1>1, BitsInvariant, PTL
-----------------------------------------------------------------------------
(* Every update in one counter                                             *)

\* Clocks that are being switched on are in use, one thread for each: the enables under
\* way are never more than the clocks that are in use for them.
LEMMA EnablersInUse ==
    ASSUME Core, Steady, NEW C \in SUBSET Clock, NEW L \in SUBSET Upd, NEW S \in SUBSET InUse(C),
           \A t \in Enabling(C, L) : Clk(t) \in S
    PROVE  Cardinality(Enabling(C, L)) <= Cardinality(S)
<1> PICK E, f : E = Enabling(C, L) /\ f = [t \in E |-> Clk(t)]
  OBVIOUS
<1>1. IsFiniteSet(S)
  BY Finiteness, FS_Subset DEF InUse
<1>2. f \in [E -> S]
  OBVIOUS
<1>3. ASSUME NEW t \in E, NEW u \in E, f[t] = f[u] PROVE t = u
  <2>1. /\ t \in Thread /\ pc[t] \in Upd /\ On(t) /\ Clk(t) = Clk(u)
        /\ u \in Thread /\ pc[u] \in Upd /\ On(u)
    BY <1>3 DEF Enabling
  <2>2. Updating(t, Clk(u), TRUE)
    BY <2>1 DEF Updating, Upd
  <2> QED
    BY <2>1, <2>2 DEF Steady
<1>4. f \in Injection(E, S)
  BY <1>2, <1>3 DEF Injection, IsInjective
<1> QED
  BY <1>1, <1>4, FS_Injection

\* A counter that changes with the position of the thread stays balanced.
LEMMA BalanceStep ==
    ASSUME NEW t \in Thread, OthersStay(t), UNCHANGED ref,
           NEW C \in SUBSET Clock, NEW on, NEW off, NEW n \in Int, NEW k \in Int,
           Conserved(n, C, on, off),
           k + (IF t \in Enabling(C, on)' THEN 1 ELSE 0) + (IF t \in Disabling(C, off) THEN 1 ELSE 0)
             = n + (IF t \in Enabling(C, on) THEN 1 ELSE 0)
                 + (IF t \in Disabling(C, off)' THEN 1 ELSE 0)
    PROVE  k + Cardinality(Enabling(C, on)') = Cardinality(InUse(C)') + Cardinality(Disabling(C, off)')
<1> DEFINE En  == Cardinality(Enabling(C, on))
           Dis == Cardinality(Disabling(C, off))
           Use == Cardinality(InUse(C))
<1>1. /\ En \in Nat /\ En' = En + (IF t \in Enabling(C, on)' THEN 1 ELSE 0)
                                - (IF t \in Enabling(C, on) THEN 1 ELSE 0)
      /\ Dis \in Nat /\ Dis' = Dis + (IF t \in Disabling(C, off)' THEN 1 ELSE 0)
                                   - (IF t \in Disabling(C, off) THEN 1 ELSE 0)
  BY UpdatesStep
<1>2. Use' = Use /\ Use \in Nat
  BY Finiteness, FS_Subset, FS_CardinalityType DEF InUse
<1>3. n + En = Use + Dis
  BY DEF Conserved
<1> PICK a \in Int, b \in Int, c \in Int, d \in Int :
        /\ a = (IF t \in Enabling(C, on)' THEN 1 ELSE 0)
        /\ b = (IF t \in Disabling(C, off) THEN 1 ELSE 0)
        /\ c = (IF t \in Enabling(C, on) THEN 1 ELSE 0)
        /\ d = (IF t \in Disabling(C, off)' THEN 1 ELSE 0)
  OBVIOUS
<1>4. k + a + b = n + c + d /\ En' = En + a - c /\ Dis' = Dis + d - b
  BY <1>1
<1> HIDE DEF En, Dis, Use
<1>5. k + En' = Use' + Dis'
  BY <1>1, <1>2, <1>3, <1>4
<1> QED
  BY <1>5 DEF En, Dis, Use

\* Inside an update the thread stays with its clock.
LEMMA InsidePlace ==
    ASSUME NEW t \in Thread, UNCHANGED <<job, half>>, NEW C \in SUBSET Clock, NEW L
    PROVE  /\ t \in Enabling(C, L) <=> pc[t] \in L /\ Clk(t) \in C /\ On(t)
           /\ t \in Enabling(C, L)' <=> pc'[t] \in L /\ Clk(t) \in C /\ On(t)
           /\ t \in Disabling(C, L) <=> pc[t] \in L /\ Clk(t) \in C /\ ~On(t)
           /\ t \in Disabling(C, L)' <=> pc'[t] \in L /\ Clk(t) \in C /\ ~On(t)
BY DEF Enabling, Disabling, Clk, ClockOf, Dev, On
\* What an update does to its place among the labels, and what the thread of a
\* functional clock has to do with the counters of a set of devices.
LEMMA FclkPlace ==
    ASSUME Core, NEW t \in Thread, pc[t] \in Upd, NEW D \in SUBSET Device
    PROVE  Clk(t) \in FclksOf(D) <=> half[t] = "fclk" /\ Dev(t) \in D
BY FclkOwner DEF Upd, Core, TypeOK, Half

-----------------------------------------------------------------------------
(* The counters of the wake-up latency code                                *)

Before == {"lock", "source", "read", "write"}

\* DeviceEnabled at the write of a functional clock: the lower limit is never met,
\* because the devices in use outnumber the enables that are still to be counted.
LEMMA LatencyKept ==
    ASSUME Core, Steady, NEW t \in Thread, Call(t) \/ Step(t), NEW D \in SUBSET Device,
           NEW n \in Nat, NEW k \in Nat, Conserved(n, FclksOf(D), Before, Before),
           WriteClock(t) /\ half[t] = "fclk" /\ Dev(t) \in D =>
               k = IF On(t) THEN n + 1 ELSE IF n > 0 THEN n - 1 ELSE n,
           ~(WriteClock(t) /\ half[t] = "fclk" /\ Dev(t) \in D) => k = n
    PROVE  k + Cardinality(Enabling(FclksOf(D), Before)')
             = Cardinality(InUse(FclksOf(D))') + Cardinality(Disabling(FclksOf(D), Before)')
<1> PICK C \in SUBSET Clock : C = FclksOf(D)
  BY FclksAreClocks
<1>1. Before \in SUBSET Upd
  BY DEF Upd, CriticalLabel, Before
<1>2. FclksOf(D)' = C
  BY DEF FclksOf, FclkDevice
<1>3. Conserved(n, C, Before, Before)
  OBVIOUS
<1>4. SUFFICES k + Cardinality(Enabling(C, Before)')
                 = Cardinality(InUse(C)') + Cardinality(Disabling(C, Before)')
  BY DEF Enabling, Disabling, InUse
<1>5. CASE \/ Call(t) \/ AutoidleLock(t) \/ AutoidleRead(t) \/ AutoidleWrite(t) \/ CheckRef(t)
           \/ Finish(t)
  <2>1. OthersStay(t) /\ UNCHANGED ref /\ pc[t] \notin Before /\ pc'[t] \notin Before
    BY <1>1, <1>5, Outside, Ends DEF Before
  <2>2. k = n
    BY <2>1 DEF WriteClock, Before
  <2>3. /\ t \notin Enabling(C, Before)  /\ t \notin Enabling(C, Before)'
        /\ t \notin Disabling(C, Before) /\ t \notin Disabling(C, Before)'
    BY <2>1 DEF Enabling, Disabling
  <2> QED
    BY <1>3, <2>1, <2>2, <2>3, BalanceStep
<1>6. CASE CountRef(t)
  <2>1. k = n
    BY <1>6 DEF CountRef, WriteClock
  <2> QED
    BY <1>3, <1>6, <2>1, BalanceCount DEF Before
<1>7. CASE \/ Acquire(t) \/ EnableSources(t) \/ ReadClock(t) \/ WriteClock(t) \/ CountDomain(t)
           \/ ReadWakeUp(t) \/ WriteWakeUp(t) \/ CountDomainAgain(t)
  <2>1. OthersStay(t) /\ UNCHANGED <<job, half, ref>> /\ pc[t] \in Upd
    BY <1>7, Inside
  <2>2. Clk(t) \in C <=> half[t] = "fclk" /\ Dev(t) \in D
    BY <2>1, FclkPlace
  <2>3. /\ t \in Enabling(C, Before) <=> pc[t] \in Before /\ Clk(t) \in C /\ On(t)
        /\ t \in Enabling(C, Before)' <=> pc'[t] \in Before /\ Clk(t) \in C /\ On(t)
        /\ t \in Disabling(C, Before) <=> pc[t] \in Before /\ Clk(t) \in C /\ ~On(t)
        /\ t \in Disabling(C, Before)' <=> pc'[t] \in Before /\ Clk(t) \in C /\ ~On(t)
    BY <2>1, InsidePlace
  <2>4. CASE WriteClock(t) /\ Clk(t) \in C
    <3>1. pc[t] = "write" /\ pc'[t] = "end"
      BY <2>4 DEF WriteClock, GoTo, Core, TypeOK
    <3>2. t \notin Enabling(C, Before)' /\ t \notin Disabling(C, Before)'
      BY <2>3, <3>1 DEF Before
    <3>3. CASE On(t)
      <4>1. k = n + 1 /\ t \in Enabling(C, Before) /\ t \notin Disabling(C, Before)
        BY <2>2, <2>3, <2>4, <3>1, <3>3 DEF Before
      <4> QED
        BY <1>3, <2>1, <3>2, <4>1, BalanceStep
    <3>4. CASE ~On(t)
      <4>1. t \notin Enabling(C, Before) /\ t \in Disabling(C, Before)
        BY <2>3, <2>4, <3>1, <3>4 DEF Before
      <4>2. Cardinality(Enabling(C, Before)) <= Cardinality(InUse(C))
        <5>1. \A u \in Enabling(C, Before) : Clk(u) \in InUse(C)
          BY <1>1 DEF Enabling, InUse, Steady
        <5> QED
          BY <1>1, <5>1, EnablersInUse
      <4>3. IsFiniteSet(Disabling(C, Before)) /\ Cardinality(Disabling(C, Before)) \in Nat
            /\ Cardinality(InUse(C)) \in Nat /\ Cardinality(Enabling(C, Before)) \in Nat
        BY Finiteness, FS_Subset, FS_CardinalityType DEF Disabling, Enabling, InUse
      <4>4. Cardinality(Disabling(C, Before)) # 0
        BY <4>1, <4>3, FS_EmptySet
      <4>5. n > 0
        BY <1>3, <4>2, <4>3, <4>4 DEF Conserved
      <4>6. k = n - 1
        BY <2>2, <2>4, <3>4, <4>5
      <4> QED
        BY <1>3, <2>1, <3>2, <4>1, <4>6, BalanceStep
    <3> QED
      BY <3>3, <3>4
  <2>5. CASE ~(WriteClock(t) /\ Clk(t) \in C)
    <3>1. k = n
      BY <2>2, <2>5
    <3>2. Clk(t) \in C => pc[t] \in Before /\ pc'[t] \in Before
      BY <1>7, <2>2, <2>5, Inside DEF Before
    <3>3. /\ t \in Enabling(C, Before)' <=> t \in Enabling(C, Before)
          /\ t \in Disabling(C, Before)' <=> t \in Disabling(C, Before)
      BY <2>3, <3>2
    <3> QED
      BY <1>3, <2>1, <3>1, <3>3, BalanceStep
  <2> QED
    BY <2>4, <2>5
<1> QED
  BY <1>5, <1>6, <1>7 DEF Step

\* OEMIdle chooses how deep to sleep from the number of devices that are on: every
\* functional clock in use is counted exactly once, up to the updates under way, and
\* the lower limit of the counters never hides an imbalance.
THEOREM LatencyBalances == ASSUME Careful PROVE Spec => []LatencyConserved
<1>1. Init => LatencyConserved
  <2> SUFFICES ASSUME Init, NEW D \in SUBSET Device
               PROVE  Conserved(0, FclksOf(D), Before, Before)
    BY DeviceSets DEF LatencyConserved, Init, Before
  <2>1. Enabling(FclksOf(D), Before) = {} /\ Disabling(FclksOf(D), Before) = {}
    BY DEF Init, Enabling, Disabling, Before
  <2>2. InUse(FclksOf(D)) = {}
    BY FclksAreClocks DEF Init, InUse
  <2> QED
    BY <2>1, <2>2, FS_EmptySet DEF Conserved
<1>2. Core /\ Core' /\ Discipline /\ LatencyConserved /\ [Next]_vars => LatencyConserved'
  <2> SUFFICES ASSUME Core, Core', Discipline, LatencyConserved, [Next]_vars PROVE LatencyConserved'
    OBVIOUS
  <2>1. CASE UNCHANGED vars
    BY <2>1 DEF vars, LatencyConserved, Conserved, Enabling, Disabling, InUse, Clk, ClockOf,
       Dev, On, FclksOf, FclkDevice
  <2>2. ASSUME NEW t \in Thread, Call(t) \/ Step(t) PROVE LatencyConserved'
    <3>1. Steady /\ latency \in [core : Nat, other : Nat] /\ latency' \in [core : Nat, other : Nat]
      BY DEF Discipline, Core, TypeOK
    <3>2. CoreDevice \in SUBSET Device /\ OtherDevice \in SUBSET Device
      BY DeviceSets
    <3>3. ~(WriteClock(t) /\ half[t] = "fclk") => UNCHANGED latency
      <4>1. CASE Call(t) \/ AutoidleLock(t) \/ AutoidleRead(t) \/ AutoidleWrite(t) \/ CheckRef(t) \/ Finish(t)
        BY <4>1, Outside, Ends
      <4>2. CASE ~(Call(t) \/ AutoidleLock(t) \/ AutoidleRead(t) \/ AutoidleWrite(t) \/ CheckRef(t) \/ Finish(t))
        BY <2>2, <4>2 DEF Step, CountRef, Acquire, EnableSources, ReadClock, WriteClock, CountDomain,
           ReadWakeUp, WriteWakeUp, CountDomainAgain, sharedVars
      <4> QED
        BY <4>1, <4>2
    <3>4. WriteClock(t) /\ half[t] = "fclk" => DeviceEnabled(Dev(t), On(t))
      BY DEF WriteClock
    <3>5. Conserved(latency.core, FclksOf(CoreDevice), Before, Before)'
      <4> PICK n \in Nat, k \in Nat : n = latency.core /\ k = latency'.core
        BY <3>1
      <4>1. WriteClock(t) /\ half[t] = "fclk" /\ Dev(t) \in CoreDevice =>
               k = IF On(t) THEN n + 1 ELSE IF n > 0 THEN n - 1 ELSE n
        BY <3>4 DEF DeviceEnabled
      <4>2. ~(WriteClock(t) /\ half[t] = "fclk" /\ Dev(t) \in CoreDevice) => k = n
        BY <3>3, <3>4 DEF DeviceEnabled
      <4>3. Conserved(n, FclksOf(CoreDevice), Before, Before)
        BY DEF LatencyConserved, Before
      <4>4. k + Cardinality(Enabling(FclksOf(CoreDevice), Before)')
             = Cardinality(InUse(FclksOf(CoreDevice))') + Cardinality(Disabling(FclksOf(CoreDevice), Before)')
        BY <2>2, <3>1, <3>2, <4>1, <4>2, <4>3, LatencyKept
      <4> QED
        BY <4>4 DEF Conserved, FclksOf, FclkDevice
    <3>6. Conserved(latency.other, FclksOf(OtherDevice), Before, Before)'
      <4> PICK n \in Nat, k \in Nat : n = latency.other /\ k = latency'.other
        BY <3>1
      <4>1. WriteClock(t) /\ half[t] = "fclk" /\ Dev(t) \in OtherDevice =>
               k = IF On(t) THEN n + 1 ELSE IF n > 0 THEN n - 1 ELSE n
        BY <3>4 DEF DeviceEnabled
      <4>2. ~(WriteClock(t) /\ half[t] = "fclk" /\ Dev(t) \in OtherDevice) => k = n
        BY <3>3, <3>4 DEF DeviceEnabled
      <4>3. Conserved(n, FclksOf(OtherDevice), Before, Before)
        BY DEF LatencyConserved, Before
      <4>4. k + Cardinality(Enabling(FclksOf(OtherDevice), Before)')
             = Cardinality(InUse(FclksOf(OtherDevice))') + Cardinality(Disabling(FclksOf(OtherDevice), Before)')
        BY <2>2, <3>1, <3>2, <4>1, <4>2, <4>3, LatencyKept
      <4> QED
        BY <4>4 DEF Conserved, FclksOf, FclkDevice
    <3> QED
      BY <3>5, <3>6 DEF LatencyConserved, Before, Conserved
  <2> QED
    BY <2>1, <2>2 DEF Next
<1> QED
  BY <1>1, <1>2, DisciplineInvariant, PTL DEF Spec
-----------------------------------------------------------------------------
(* The references of the power domains                                     *)

DevicesIn(m) == {d \in Device : DomainOf[d] = m}

\* PrcmDomainUpdateRefCount at the end of the update of a functional clock.
LEMMA DomainRefKept ==
    ASSUME Core, Core', NEW t \in Thread, Call(t) \/ Step(t), NEW m \in Domain,
           Conserved(domRef[m], FclksOf(DevicesIn(m)), Upd, Upd)
    PROVE  Conserved(domRef[m], FclksOf(DevicesIn(m)), Upd, Upd)'
<1> PICK C \in SUBSET Clock, D \in SUBSET Device, n \in Int, k \in Int :
        C = FclksOf(D) /\ D = DevicesIn(m) /\ n = domRef[m] /\ k = domRef'[m]
  BY FclksAreClocks DEF DevicesIn, Core, TypeOK
<1>1. FclksOf(DevicesIn(m))' = C /\ Conserved(n, C, Upd, Upd)
  BY DEF FclksOf, FclkDevice, DevicesIn
<1>2. SUFFICES k + Cardinality(Enabling(C, Upd)') = Cardinality(InUse(C)') + Cardinality(Disabling(C, Upd)')
  BY <1>1 DEF Conserved, Enabling, Disabling, InUse
<1>3. Upd \in SUBSET Upd
  OBVIOUS
<1>4. CASE Call(t) \/ AutoidleLock(t) \/ AutoidleRead(t) \/ AutoidleWrite(t) \/ CheckRef(t)
  <2>1. OthersStay(t) /\ UNCHANGED <<ref, domRef>> /\ pc[t] \notin Upd /\ pc'[t] \notin Upd
    BY <1>4, Outside
  <2>2. /\ t \notin Enabling(C, Upd)  /\ t \notin Enabling(C, Upd)'
        /\ t \notin Disabling(C, Upd) /\ t \notin Disabling(C, Upd)'
    BY <2>1 DEF Enabling, Disabling
  <2>3. k = n
    BY <2>1
  <2> QED
    BY <1>1, <2>1, <2>2, <2>3, BalanceStep
<1>5. CASE CountRef(t)
  <2>1. k = n
    BY <1>5 DEF CountRef
  <2> QED
    BY <1>1, <1>5, <2>1, BalanceCount DEF Upd, CriticalLabel
<1>6. CASE \/ Acquire(t) \/ EnableSources(t) \/ ReadClock(t) \/ WriteClock(t) \/ CountDomain(t)
           \/ ReadWakeUp(t) \/ WriteWakeUp(t) \/ CountDomainAgain(t)
  <2>1. /\ OthersStay(t) /\ UNCHANGED <<job, half, ref>> /\ UNCHANGED domRef
        /\ pc[t] \in Upd /\ pc'[t] \in Upd
    BY <1>6, Inside DEF Upd
  <2>2. /\ t \in Enabling(C, Upd)' <=> t \in Enabling(C, Upd)
        /\ t \in Disabling(C, Upd)' <=> t \in Disabling(C, Upd)
    BY <2>1, InsidePlace
  <2>3. k = n
    BY <2>1
  <2> QED
    BY <1>1, <2>1, <2>2, <2>3, BalanceStep
<1>7. CASE Finish(t)
  <2>1. OthersStay(t) /\ UNCHANGED ref /\ pc[t] = "end" /\ pc[t] \in Upd /\ pc'[t] \notin Upd
    BY <1>7, Ends DEF Upd, CriticalLabel
  <2>2. /\ t \notin Enabling(C, Upd)' /\ t \notin Disabling(C, Upd)'
        /\ t \in Enabling(C, Upd) <=> half[t] = "fclk" /\ Dev(t) \in D /\ On(t)
        /\ t \in Disabling(C, Upd) <=> half[t] = "fclk" /\ Dev(t) \in D /\ ~On(t)
    BY <1>3, <2>1, Position DEF Enabling, Disabling
  <2>3. Dev(t) \in D <=> Dom(t) = m
    BY CallTypes DEF DevicesIn, Dom
  <2>4. CASE half[t] = "fclk" /\ Dev(t) \in D
    <3>1. k = IF On(t) THEN n + 1 ELSE n - 1
      BY <1>7, <2>3, <2>4 DEF Finish, Core, TypeOK
    <3>2. CASE On(t)
      <4>1. k = n + 1 /\ t \in Enabling(C, Upd) /\ t \notin Disabling(C, Upd)
        BY <2>2, <2>4, <3>1, <3>2
      <4> QED
        BY <1>1, <2>1, <2>2, <4>1, BalanceStep
    <3>3. CASE ~On(t)
      <4>1. k = n - 1 /\ t \notin Enabling(C, Upd) /\ t \in Disabling(C, Upd)
        BY <2>2, <2>4, <3>1, <3>3
      <4> QED
        BY <1>1, <2>1, <2>2, <4>1, BalanceStep
    <3> QED
      BY <3>2, <3>3
  <2>5. CASE ~(half[t] = "fclk" /\ Dev(t) \in D)
    <3>1. k = n
      BY <1>7, <2>3, <2>5, CallTypes DEF Finish, Core, TypeOK
    <3> QED
      BY <1>1, <2>1, <2>2, <2>5, <3>1, BalanceStep
  <2> QED
    BY <2>4, <2>5
<1> QED
  BY <1>4, <1>5, <1>6, <1>7 DEF Step

LEMMA IclksAreClocks ==
    ASSUME NEW m
    PROVE  IclksIn(m) \in SUBSET Clock
BY DeviceTable DEF IclksIn

\* An interface clock entry belongs to one domain, and is no functional clock entry.
LEMMA IclkPlace ==
    ASSUME Core, NEW t \in Thread, pc[t] \in Upd, NEW m \in Domain
    PROVE  Clk(t) \in IclksIn(m) <=> half[t] = "iclk" /\ Dom(t) = m
<1>1. Dev(t) \in Device /\ Clk(t) # NoClock /\ half[t] \in {"fclk", "iclk"}
  BY CallTypes DEF Upd, Core, TypeOK, Half
<1>2. CASE half[t] = "fclk"
  <2>1. Clk(t) = FclkOf[Dev(t)]
    BY <1>2 DEF Clk, ClockOf
  <2> QED
    BY <1>1, <1>2, <2>1, DeviceTable DEF IclksIn
<1>3. CASE half[t] = "iclk"
  <2>1. Clk(t) = IclkOf[Dev(t)]
    BY <1>3 DEF Clk, ClockOf
  <2>2. Dom(t) = m => Clk(t) \in IclksIn(m)
    BY <1>1, <2>1 DEF IclksIn, Dom
  <2>3. Clk(t) \in IclksIn(m) => Dom(t) = m
    BY <1>1, <2>1, DeviceTable DEF IclksIn, Dom
  <2> QED
    BY <1>3, <2>2, <2>3
<1> QED
  BY <1>1, <1>2, <1>3
One   == {"lock", "domain1"}
TwoOn == One \cup {"wk_read", "wk_write", "domain2"}

\* The count of a domain, with two references from every interface clock in use.
TwoFromEach(n, C) ==
    n + Cardinality(Enabling(C, One)) + Cardinality(Enabling(C, TwoOn))
      = 2 * Cardinality(InUse(C)) + Cardinality(Disabling(C, One)) + Cardinality(Disabling(C, Upd))

\* A domain from which a reference is still to be given back is counted: its lower
\* limit is never met.
LEMMA DomainCounted ==
    ASSUME Core, Steady, NEW t \in Thread, NEW C \in SUBSET Clock, NEW n \in Int, TwoFromEach(n, C),
           t \in Disabling(C, Upd)
    PROVE  n > 0
<1>1. One \in SUBSET Upd /\ TwoOn \in SUBSET Upd
  BY DEF One, TwoOn, Upd, CriticalLabel
<1>2. \A L \in SUBSET Upd : \A u \in Enabling(C, L) : Clk(u) \in InUse(C)
  BY DEF Enabling, InUse, Steady
<1>3. /\ Cardinality(Enabling(C, One)) <= Cardinality(InUse(C))
      /\ Cardinality(Enabling(C, TwoOn)) <= Cardinality(InUse(C))
  <2>1. InUse(C) \in SUBSET InUse(C)
    OBVIOUS
  <2> QED
    BY <1>1, <1>2, <2>1, EnablersInUse
<1>4. /\ Cardinality(Enabling(C, One)) \in Nat /\ Cardinality(Enabling(C, TwoOn)) \in Nat
      /\ Cardinality(Disabling(C, One)) \in Nat /\ Cardinality(Disabling(C, Upd)) \in Nat
      /\ Cardinality(InUse(C)) \in Nat /\ IsFiniteSet(Disabling(C, Upd))
  BY Finiteness, FS_Subset, FS_CardinalityType DEF Disabling, Enabling, InUse
<1>5. Cardinality(Disabling(C, Upd)) # 0
  BY <1>4, FS_EmptySet
<1> QED
  BY <1>3, <1>4, <1>5 DEF TwoFromEach

\* The two counters in one: each is balanced by itself.
LEMMA TwoBalances ==
    ASSUME NEW n \in Int, NEW C \in SUBSET Clock, TwoFromEach(n, C)
    PROVE  \E a \in Int, b \in Int : n = a + b /\ Conserved(a, C, One, One) /\ Conserved(b, C, TwoOn, Upd)
<1> PICK e, f, g, h, u :
        /\ e = Cardinality(Enabling(C, One)) /\ f = Cardinality(Enabling(C, TwoOn))
        /\ g = Cardinality(Disabling(C, One)) /\ h = Cardinality(Disabling(C, Upd))
        /\ u = Cardinality(InUse(C))
  OBVIOUS
<1>1. e \in Nat /\ f \in Nat /\ g \in Nat /\ h \in Nat /\ u \in Nat
  BY Finiteness, FS_Subset, FS_CardinalityType DEF Disabling, Enabling, InUse
<1>2. n + e + f = 2 * u + g + h
  BY DEF TwoFromEach
<1>3. PICK a \in Int, b \in Int : a = u + g - e /\ b = u + h - f
  BY <1>1
<1>4. a + e = u + g /\ b + f = u + h /\ n = a + b
  BY <1>1, <1>2, <1>3
<1> QED
  BY <1>4 DEF Conserved

LEMMA OneBalance ==
    ASSUME NEW n \in Int, NEW p \in Int, NEW q \in Int, n = p + q, NEW C \in SUBSET Clock,
           p + Cardinality(Enabling(C, One)') = Cardinality(InUse(C)') + Cardinality(Disabling(C, One)'),
           q + Cardinality(Enabling(C, TwoOn)') = Cardinality(InUse(C)') + Cardinality(Disabling(C, Upd)')
    PROVE  n + Cardinality(Enabling(C, One)') + Cardinality(Enabling(C, TwoOn)')
             = 2 * Cardinality(InUse(C)') + Cardinality(Disabling(C, One)') + Cardinality(Disabling(C, Upd)')
<1> PICK e, f, g, h, u :
        /\ e = Cardinality(Enabling(C, One)') /\ f = Cardinality(Enabling(C, TwoOn)')
        /\ g = Cardinality(Disabling(C, One)') /\ h = Cardinality(Disabling(C, Upd)')
        /\ u = Cardinality(InUse(C)')
  OBVIOUS
<1>1. e \in Nat /\ f \in Nat /\ g \in Nat /\ h \in Nat /\ u \in Nat
  BY Finiteness, FS_Subset, FS_CardinalityType DEF Disabling, Enabling, InUse
<1>2. p + e = u + g /\ q + f = u + h
  OBVIOUS
<1>3. n + e + f = 2 * u + g + h
  BY <1>1, <1>2
<1> QED
  BY <1>3

\* Where the thread of an interface clock stands before and after a step inside an update,
\* and what the step adds to the count of the domain.
LEMMA DomainSteps ==
    ASSUME Core, NEW t \in Thread,
           Acquire(t) \/ EnableSources(t) \/ ReadClock(t) \/ WriteClock(t) \/ CountDomain(t)
             \/ ReadWakeUp(t) \/ WriteWakeUp(t) \/ CountDomainAgain(t)
    PROVE  /\ half[t] = "iclk" /\ ~CountDomain(t) /\ ~CountDomainAgain(t) =>
                /\ pc[t] \in One <=> pc'[t] \in One
                /\ On(t) => (pc[t] \in TwoOn <=> pc'[t] \in TwoOn)
           /\ CountDomain(t) =>
                /\ pc[t] = "domain1" /\ pc'[t] \in Upd \ One /\ half[t] = "iclk"
                /\ On(t) => pc'[t] \in TwoOn
           /\ CountDomainAgain(t) =>
                pc[t] = "domain2" /\ pc'[t] = "read" /\ half[t] = "iclk" /\ On(t)
           /\ ~CountDomain(t) /\ ~CountDomainAgain(t) => UNCHANGED domCount
<1>1. half[t] = "iclk" => ~EnableSources(t)
  BY DEF EnableSources, Core, CallOK
<1>2. half[t] = "iclk" /\ ~CountDomain(t) /\ ~CountDomainAgain(t) =>
                /\ pc[t] \in One <=> pc'[t] \in One
                /\ On(t) => (pc[t] \in TwoOn <=> pc'[t] \in TwoOn)
  BY <1>1 DEF Acquire, ReadClock, WriteClock, ReadWakeUp, WriteWakeUp, GoTo, Core, TypeOK, One, TwoOn
<1>3. CountDomain(t) => /\ pc[t] = "domain1" /\ pc'[t] \in Upd \ One /\ half[t] = "iclk"
                        /\ On(t) => pc'[t] \in TwoOn
  BY DEF CountDomain, GoTo, Core, TypeOK, CallOK, One, TwoOn, Upd, CriticalLabel
<1>4. CountDomainAgain(t) => pc[t] = "domain2" /\ pc'[t] = "read" /\ half[t] = "iclk" /\ On(t)
  BY DEF CountDomainAgain, GoTo, Core, TypeOK, CallOK, On
<1>5. ~CountDomain(t) /\ ~CountDomainAgain(t) => UNCHANGED domCount
  BY DEF Acquire, EnableSources, ReadClock, WriteClock, ReadWakeUp, WriteWakeUp, sharedVars
<1> QED
  BY <1>2, <1>3, <1>4, <1>5

LEMMA AddrefCounts ==
    ASSUME domCount \in [Domain -> Nat], NEW m \in Domain, Addref(m)
    PROVE  domCount'[m] = domCount[m] + 1 /\ \A q \in Domain \ {m} : domCount'[q] = domCount[q]
<1>1. domCount' = [domCount EXCEPT ![m] = domCount[m] + 1]
  BY Zenon DEF Addref
<1> QED
  BY <1>1

LEMMA ReleaseCounts ==
    ASSUME domCount \in [Domain -> Nat], NEW m \in Domain, Release(m)
    PROVE  /\ domCount'[m] = IF domCount[m] # 0 THEN domCount[m] - 1 ELSE 0
           /\ \A q \in Domain \ {m} : domCount'[q] = domCount[q]
<1>1. domCount' = [domCount EXCEPT ![m] = IF domCount[m] # 0 THEN domCount[m] - 1 ELSE 0]
  BY Zenon DEF Release
<1> QED
  BY <1>1

LEMMA DomainCountKept ==
    ASSUME Core, Core', Steady, NEW t \in Thread, Call(t) \/ Step(t), NEW m \in Domain,
           TwoFromEach(domCount[m], IclksIn(m))
    PROVE  TwoFromEach(domCount[m], IclksIn(m))'
<1> PICK C \in SUBSET Clock, n \in Nat, k \in Nat :
        C = IclksIn(m) /\ n = domCount[m] /\ k = domCount'[m]
  BY IclksAreClocks DEF Core, TypeOK
<1>1. IclksIn(m)' = C /\ TwoFromEach(n, C)
  BY DEF IclksIn
<1> PICK a \in Int, b \in Int : n = a + b /\ Conserved(a, C, One, One) /\ Conserved(b, C, TwoOn, Upd)
  BY <1>1, TwoBalances
<1>2. SUFFICES \E p \in Int, q \in Int :
        /\ k = p + q
        /\ p + Cardinality(Enabling(C, One)') = Cardinality(InUse(C)') + Cardinality(Disabling(C, One)')
        /\ q + Cardinality(Enabling(C, TwoOn)') = Cardinality(InUse(C)') + Cardinality(Disabling(C, Upd)')
  <2>1. k + Cardinality(Enabling(C, One)') + Cardinality(Enabling(C, TwoOn)')
         = 2 * Cardinality(InUse(C)') + Cardinality(Disabling(C, One)') + Cardinality(Disabling(C, Upd)')
    BY <1>2, OneBalance
  <2>2. IclksIn(m)' = C /\ k = domCount'[m]
    BY <1>1
  <2> QED
    BY <2>1, <2>2 DEF TwoFromEach, Enabling, Disabling, InUse
<1>3. One \in SUBSET Upd /\ TwoOn \in SUBSET Upd /\ domCount \in [Domain -> Nat]
  BY DEF One, TwoOn, Upd, CriticalLabel, Core, TypeOK
<1>4. CASE Call(t) \/ AutoidleLock(t) \/ AutoidleRead(t) \/ AutoidleWrite(t) \/ CheckRef(t)
  <2>1. OthersStay(t) /\ UNCHANGED ref /\ pc[t] \notin Upd /\ pc'[t] \notin Upd
    BY <1>4, Outside
  <2>2. \A L \in SUBSET Upd :
        /\ t \notin Enabling(C, L)  /\ t \notin Enabling(C, L)'
        /\ t \notin Disabling(C, L) /\ t \notin Disabling(C, L)'
    BY <2>1 DEF Enabling, Disabling
  <2>3. UNCHANGED domCount
    BY <1>4 DEF Call, AutoidleLock, AutoidleRead, AutoidleWrite, CheckRef, sharedVars
  <2>4. k = a + b
    BY <2>3
  <2>5. a + Cardinality(Enabling(C, One)') = Cardinality(InUse(C)') + Cardinality(Disabling(C, One)')
    BY <1>3, <2>1, <2>2, BalanceStep
  <2>6. b + Cardinality(Enabling(C, TwoOn)') = Cardinality(InUse(C)') + Cardinality(Disabling(C, Upd)')
    <3>1. Upd \in SUBSET Upd
      OBVIOUS
    <3> QED
      BY <1>3, <2>1, <2>2, <3>1, BalanceStep
  <2> QED
    BY <2>4, <2>5, <2>6
<1>5. CASE CountRef(t)
  <2>1. UNCHANGED domCount
    BY <1>5 DEF CountRef
  <2>2. k = a + b
    BY <2>1
  <2>3. a + Cardinality(Enabling(C, One)') = Cardinality(InUse(C)') + Cardinality(Disabling(C, One)')
    BY <1>5, BalanceCount DEF One
  <2>4. b + Cardinality(Enabling(C, TwoOn)') = Cardinality(InUse(C)') + Cardinality(Disabling(C, Upd)')
    BY <1>5, BalanceCount DEF One, TwoOn, Upd, CriticalLabel
  <2> QED
    BY <2>2, <2>3, <2>4
<1>6. CASE \/ Acquire(t) \/ EnableSources(t) \/ ReadClock(t) \/ WriteClock(t) \/ CountDomain(t)
           \/ ReadWakeUp(t) \/ WriteWakeUp(t) \/ CountDomainAgain(t)
  <2>1. /\ OthersStay(t) /\ UNCHANGED <<job, half, ref>> /\ UNCHANGED domRef
        /\ pc[t] \in Upd /\ pc'[t] \in Upd
    BY <1>6, Inside DEF Upd
  <2>2. Clk(t) \in C <=> half[t] = "iclk" /\ Dom(t) = m
    BY <2>1, IclkPlace
  <2>3. \A L : /\ t \in Enabling(C, L) <=> pc[t] \in L /\ Clk(t) \in C /\ On(t)
               /\ t \in Enabling(C, L)' <=> pc'[t] \in L /\ Clk(t) \in C /\ On(t)
               /\ t \in Disabling(C, L) <=> pc[t] \in L /\ Clk(t) \in C /\ ~On(t)
               /\ t \in Disabling(C, L)' <=> pc'[t] \in L /\ Clk(t) \in C /\ ~On(t)
    BY <2>1, InsidePlace
  <2>4. CASE CountDomain(t) /\ Clk(t) \in C
    <3>1. pc[t] = "domain1" /\ pc'[t] \in Upd \ One /\ (On(t) => pc'[t] \in TwoOn)
      BY <1>6, <2>4, DomainSteps
    <3>2. pc[t] \in One /\ pc[t] \in TwoOn /\ pc[t] \in Upd
      BY <2>1, <3>1 DEF One, TwoOn
    <3>3. CASE On(t)
      <4>1. k = a + 1 + b
        <5>1. Addref(m)
          BY <2>2, <2>4, <3>3 DEF CountDomain
        <5>2. domCount'[m] = domCount[m] + 1
          BY <1>3, <5>1, AddrefCounts
        <5>3. k = n + 1
          BY <5>2, Zenon
        <5> QED
          BY <5>3
      <4>2. /\ t \in Enabling(C, One) /\ t \notin Enabling(C, One)'
            /\ t \notin Disabling(C, One) /\ t \notin Disabling(C, One)'
            /\ t \in Enabling(C, TwoOn) /\ t \in Enabling(C, TwoOn)'
            /\ t \notin Disabling(C, Upd) /\ t \notin Disabling(C, Upd)'
        BY <2>3, <2>4, <3>1, <3>2, <3>3
      <4>3. (a + 1) + Cardinality(Enabling(C, One)') = Cardinality(InUse(C)') + Cardinality(Disabling(C, One)')
        BY <2>1, <4>2, BalanceStep
      <4>4. b + Cardinality(Enabling(C, TwoOn)') = Cardinality(InUse(C)') + Cardinality(Disabling(C, Upd)')
        BY <2>1, <4>2, BalanceStep
      <4>5. a + 1 \in Int /\ k = (a + 1) + b
        BY <4>1
      <4> QED
        BY <4>3, <4>4, <4>5
    <3>4. CASE ~On(t)
      <4>1. /\ t \notin Enabling(C, One) /\ t \notin Enabling(C, One)'
            /\ t \in Disabling(C, One) /\ t \notin Disabling(C, One)'
            /\ t \notin Enabling(C, TwoOn) /\ t \notin Enabling(C, TwoOn)'
            /\ t \in Disabling(C, Upd) /\ t \in Disabling(C, Upd)'
        BY <2>3, <2>4, <3>1, <3>2, <3>4
      <4>2. n > 0
        BY <1>1, <4>1, DomainCounted
      <4>3. k = n - 1
        <5>1. Release(m)
          BY <2>2, <2>4, <3>4 DEF CountDomain
        <5>2. domCount'[m] = IF domCount[m] # 0 THEN domCount[m] - 1 ELSE 0
          BY <1>3, <5>1, ReleaseCounts
        <5>3. k = IF n # 0 THEN n - 1 ELSE 0
          BY <5>2, Zenon
        <5> QED
          BY <4>2, <5>3
      <4>4. (a - 1) + Cardinality(Enabling(C, One)') = Cardinality(InUse(C)') + Cardinality(Disabling(C, One)')
        BY <2>1, <4>1, BalanceStep
      <4>5. b + Cardinality(Enabling(C, TwoOn)') = Cardinality(InUse(C)') + Cardinality(Disabling(C, Upd)')
        BY <2>1, <4>1, BalanceStep
      <4>6. a - 1 \in Int /\ k = (a - 1) + b
        BY <4>3
      <4> QED
        BY <4>4, <4>5, <4>6
    <3> QED
      BY <3>3, <3>4
  <2>5. CASE CountDomainAgain(t) /\ Clk(t) \in C
    <3>1. pc[t] = "domain2" /\ pc'[t] = "read" /\ On(t)
      BY <1>6, <2>5, DomainSteps
    <3>2. k = a + b + 1
      BY <1>3, <2>2, <2>5 DEF CountDomainAgain, Addref
    <3>3. /\ t \notin Enabling(C, One) /\ t \notin Enabling(C, One)'
          /\ t \notin Disabling(C, One) /\ t \notin Disabling(C, One)'
          /\ t \in Enabling(C, TwoOn) /\ t \notin Enabling(C, TwoOn)'
          /\ t \notin Disabling(C, Upd) /\ t \notin Disabling(C, Upd)'
      BY <2>3, <2>5, <3>1 DEF One, TwoOn
    <3>4. a + Cardinality(Enabling(C, One)') = Cardinality(InUse(C)') + Cardinality(Disabling(C, One)')
      BY <2>1, <3>3, BalanceStep
    <3>5. (b + 1) + Cardinality(Enabling(C, TwoOn)') = Cardinality(InUse(C)') + Cardinality(Disabling(C, Upd)')
      BY <2>1, <3>3, BalanceStep
    <3>6. b + 1 \in Int /\ k = a + (b + 1)
      BY <3>2
    <3> QED
      BY <3>4, <3>5, <3>6
  <2>6. CASE ~((CountDomain(t) \/ CountDomainAgain(t)) /\ Clk(t) \in C)
    <3>1. k = n
      <4>1. CASE ~CountDomain(t) /\ ~CountDomainAgain(t)
        <5>1. UNCHANGED domCount
          BY <1>6, <4>1, DomainSteps
        <5> QED
          BY <5>1
      <4>2. CASE CountDomain(t) \/ CountDomainAgain(t)
        <5>1. Dom(t) # m
          BY <1>6, <2>2, <2>6, <4>2, DomainSteps
        <5> QED
          BY <1>3, <4>2, <5>1, CallTypes DEF CountDomain, CountDomainAgain, Addref, Release
      <4> QED
        BY <4>1, <4>2
    <3>2. Clk(t) \in C => /\ pc[t] \in One <=> pc'[t] \in One
                          /\ On(t) => (pc[t] \in TwoOn <=> pc'[t] \in TwoOn)
      BY <1>6, <2>2, <2>6, DomainSteps
    <3>3. /\ t \in Enabling(C, One) <=> t \in Enabling(C, One)'
          /\ t \in Disabling(C, One) <=> t \in Disabling(C, One)'
          /\ t \in Enabling(C, TwoOn) <=> t \in Enabling(C, TwoOn)'
          /\ t \in Disabling(C, Upd) <=> t \in Disabling(C, Upd)'
      BY <2>1, <2>3, <3>2
    <3>4. a + Cardinality(Enabling(C, One)') = Cardinality(InUse(C)') + Cardinality(Disabling(C, One)')
      BY <2>1, <3>3, BalanceStep
    <3>5. b + Cardinality(Enabling(C, TwoOn)') = Cardinality(InUse(C)') + Cardinality(Disabling(C, Upd)')
      BY <2>1, <3>3, BalanceStep
    <3> QED
      BY <3>1, <3>4, <3>5
  <2> QED
    BY <2>4, <2>5, <2>6
<1>7. CASE Finish(t)
  <2>1. OthersStay(t) /\ UNCHANGED ref /\ pc[t] = "end" /\ pc[t] \in Upd /\ pc'[t] \notin Upd
    BY <1>7, Ends DEF Upd, CriticalLabel
  <2>2. Clk(t) \in C <=> half[t] = "iclk" /\ Dom(t) = m
    BY <2>1, IclkPlace
  <2>3. /\ t \notin Enabling(C, One) /\ t \notin Enabling(C, One)'
        /\ t \notin Disabling(C, One) /\ t \notin Disabling(C, One)'
        /\ t \notin Enabling(C, TwoOn) /\ t \notin Enabling(C, TwoOn)'
        /\ t \notin Disabling(C, Upd)'
        /\ t \in Disabling(C, Upd) <=> Clk(t) \in C /\ ~On(t)
    BY <1>3, <2>1 DEF One, TwoOn, Enabling, Disabling
  <2>4. a + Cardinality(Enabling(C, One)') = Cardinality(InUse(C)') + Cardinality(Disabling(C, One)')
    BY <2>1, <2>3, BalanceStep
  <2>5. half[t] \in {"fclk", "iclk"} /\ On(t) \in BOOLEAN /\ Dom(t) \in Domain
    BY CallTypes DEF Core, TypeOK, Half
  <2>6. CASE Clk(t) \in C /\ ~On(t)
    <3>1. n > 0
      BY <1>1, <2>3, <2>6, DomainCounted
    <3>2. k = n - 1
      <4>1. Release(m)
        BY <1>7, <2>2, <2>6 DEF Finish
      <4>2. domCount'[m] = IF domCount[m] # 0 THEN domCount[m] - 1 ELSE 0
        BY <1>3, <4>1, ReleaseCounts
      <4>3. k = IF n # 0 THEN n - 1 ELSE 0
        BY <4>2, Zenon
      <4> QED
        BY <3>1, <4>3
    <3>3. (b - 1) + Cardinality(Enabling(C, TwoOn)') = Cardinality(InUse(C)') + Cardinality(Disabling(C, Upd)')
      BY <2>1, <2>3, <2>6, BalanceStep
    <3>4. b - 1 \in Int /\ k = a + (b - 1)
      BY <3>2
    <3> QED
      BY <2>4, <3>3, <3>4
  <2>7. CASE ~(Clk(t) \in C /\ ~On(t))
    <3>1. k = n
      BY <1>3, <1>7, <2>2, <2>5, <2>7 DEF Finish, Release
    <3>2. b + Cardinality(Enabling(C, TwoOn)') = Cardinality(InUse(C)') + Cardinality(Disabling(C, Upd)')
      BY <2>1, <2>3, <2>7, BalanceStep
    <3> QED
      BY <2>4, <3>1, <3>2
  <2> QED
    BY <2>6, <2>7
<1> QED
  BY <1>4, <1>5, <1>6, <1>7 DEF Step
\* The domain cannot be switched off under its clocks, nor stay on without them: one
\* reference from every functional clock in use, two counts from every interface clock
\* in use, whatever the order in which the threads reach the lock.
THEOREM DomainsBalance == ASSUME Careful PROVE Spec => []DomainRefsConserved
<1> DEFINE Balanced(m) == /\ Conserved(domRef[m], FclksOf(DevicesIn(m)), Upd, Upd)
                          /\ TwoFromEach(domCount[m], IclksIn(m))
<1>1. DomainRefsConserved <=> \A m \in Domain : Balanced(m)
  BY DEF DomainRefsConserved, DevicesIn, Upd, One, TwoOn, TwoFromEach
<1>2. Init => \A m \in Domain : Balanced(m)
  <2> SUFFICES ASSUME Init, NEW m \in Domain PROVE Balanced(m)
    OBVIOUS
  <2>1. \A C, L : "idle" \notin L => Enabling(C, L) = {} /\ Disabling(C, L) = {}
    BY DEF Init, Enabling, Disabling
  <2>2. InUse(FclksOf(DevicesIn(m))) = {} /\ InUse(IclksIn(m)) = {}
    BY FclksAreClocks, IclksAreClocks DEF Init, InUse
  <2>3. "idle" \notin One /\ "idle" \notin TwoOn /\ "idle" \notin Upd
    BY DEF One, TwoOn, Upd, CriticalLabel
  <2>4. domRef[m] = 0 /\ domCount[m] = 0 /\ Cardinality({}) = 0
    BY FS_EmptySet DEF Init
  <2>5. Conserved(domRef[m], FclksOf(DevicesIn(m)), Upd, Upd)
    <3>1. /\ Enabling(FclksOf(DevicesIn(m)), Upd) = {}
          /\ Disabling(FclksOf(DevicesIn(m)), Upd) = {}
      BY <2>1, <2>3
    <3> QED
      BY <2>2, <2>4, <3>1 DEF Conserved
  <2>6. TwoFromEach(domCount[m], IclksIn(m))
    <3>1. /\ Enabling(IclksIn(m), One) = {} /\ Enabling(IclksIn(m), TwoOn) = {}
          /\ Disabling(IclksIn(m), One) = {} /\ Disabling(IclksIn(m), Upd) = {}
      BY <2>1, <2>3
    <3> QED
      BY <2>2, <2>4, <3>1 DEF TwoFromEach
  <2> QED
    BY <2>5, <2>6
<1>3. Core /\ Core' /\ Discipline /\ (\A m \in Domain : Balanced(m)) /\ [Next]_vars
      => (\A m \in Domain : Balanced(m))'
  <2> SUFFICES ASSUME Core, Core', Discipline, \A m \in Domain : Balanced(m), [Next]_vars, NEW m \in Domain
               PROVE  Balanced(m)'
    OBVIOUS
  <2>1. CASE UNCHANGED vars
    <3>1. Conserved(domRef[m], FclksOf(DevicesIn(m)), Upd, Upd)'
      BY <2>1 DEF vars, Conserved, Enabling, Disabling, InUse, Clk, ClockOf, Dev, On, FclksOf,
         FclkDevice, DevicesIn
    <3>2. TwoFromEach(domCount[m], IclksIn(m))'
      BY <2>1 DEF vars, TwoFromEach, Enabling, Disabling, InUse, Clk, ClockOf, Dev, On, IclksIn
    <3> QED
      BY <3>1, <3>2
  <2>2. ASSUME NEW t \in Thread, Call(t) \/ Step(t) PROVE Balanced(m)'
    <3>1. Steady
      BY DEF Discipline
    <3>2. Conserved(domRef[m], FclksOf(DevicesIn(m)), Upd, Upd)'
      BY <2>2, DomainRefKept
    <3>3. TwoFromEach(domCount[m], IclksIn(m))'
      BY <2>2, <3>1, DomainCountKept
    <3> QED
      BY <3>2, <3>3
  <2> QED
    BY <2>1, <2>2 DEF Next
<1> HIDE DEF Balanced
<1> QED
  BY <1>1, <1>2, <1>3, DisciplineInvariant, PTL DEF Spec

-----------------------------------------------------------------------------
(* The dependencies and the sources                                        *)

LEMMA DepsStep ==
    ASSUME TypeOK, TypeOK', DepsOfCounted, NEW t \in Thread, Call(t) \/ Step(t)
    PROVE  DepsOfCounted'
<1> DEFINE Kept == UNCHANGED <<domCount, dep>>
<1>1. domCount \in [Domain -> Nat] /\ domCount' \in [Domain -> Nat]
      /\ dep \in [Domain -> [wake : BOOLEAN, sleep : BOOLEAN, clkst : {"DISABLED", "AUTOMATIC"}]]
  BY DEF TypeOK
<1>2. CASE Kept
  BY <1>2 DEF DepsOfCounted
<1>3. ASSUME NEW m \in Domain, Addref(m) PROVE DepsOfCounted'
  <2>1. domCount'[m] = domCount[m] + 1 /\ \A q \in Domain \ {m} : domCount'[q] = domCount[q]
    BY <1>1, <1>3, AddrefCounts
  <2>2. CASE domCount[m] # 0
    <3>1. dep' = dep /\ domCount[m] > 0
      BY <1>1, <1>3, <2>2 DEF Addref
    <3> QED
      BY <2>1, <3>1 DEF DepsOfCounted
  <2>3. CASE domCount[m] = 0
    <3>1. dep' = [dep EXCEPT ![m] =
                     [wake  |-> dep[m].wake  \/ m \in DynamicWake,
                      sleep |-> dep[m].sleep \/ m \in DynamicSleep,
                      clkst |-> IF m \in DynamicWake THEN "AUTOMATIC" ELSE dep[m].clkst]]
      BY <1>3, <2>3, Zenon DEF Addref
    <3>2. dep'[m].wake = (dep[m].wake  \/ m \in DynamicWake) /\ dep'[m].sleep = (dep[m].sleep \/ m \in DynamicSleep)
      BY <1>1, <3>1
    <3>3. \A q \in Domain \ {m} : dep'[q] = dep[q]
      BY <1>1, <3>1
    <3> QED
      BY <2>1, <3>2, <3>3 DEF DepsOfCounted
  <2> QED
    BY <2>2, <2>3
<1>4. ASSUME NEW m \in Domain, Release(m) PROVE DepsOfCounted'
  <2>1. /\ domCount'[m] = IF domCount[m] # 0 THEN domCount[m] - 1 ELSE 0
        /\ \A q \in Domain \ {m} : domCount'[q] = domCount[q]
    BY <1>1, <1>4, ReleaseCounts
  <2>2. CASE domCount[m] # 1
    <3>1. dep' = dep
      BY <1>4, <2>2, Zenon DEF Release
    <3>2. domCount'[m] > 0 => domCount[m] > 0
      BY <1>1, <2>1
    <3> QED
      BY <2>1, <3>1, <3>2 DEF DepsOfCounted
  <2>3. CASE domCount[m] = 1
    <3>1. dep' = [dep EXCEPT ![m] =
                     [wake  |-> dep[m].wake  /\ m \notin DynamicWake,
                      sleep |-> dep[m].sleep /\ m \notin DynamicSleep,
                      clkst |-> IF m \in DynamicSleep THEN "AUTOMATIC" ELSE dep[m].clkst]]
      BY <1>4, <2>3, Zenon DEF Release
    <3>2. \A q \in Domain \ {m} : dep'[q] = dep[q]
      BY <1>1, <3>1
    <3>3. ~(domCount'[m] > 0)
      BY <1>1, <2>1, <2>3
    <3> QED
      BY <2>1, <3>2, <3>3 DEF DepsOfCounted
  <2> QED
    BY <2>2, <2>3
<1>5. Dom(t) \in Domain /\ On(t) \in BOOLEAN
  BY DeviceTable DEF TypeOK, Dom, Dev, On
<1>6. CASE CountDomain(t) \/ CountDomainAgain(t) \/ Finish(t)
  <2>1. Addref(Dom(t)) \/ Release(Dom(t)) \/ Kept
    BY <1>6 DEF CountDomain, CountDomainAgain, Finish
  <2> QED
    BY <1>2, <1>3, <1>4, <1>5, <2>1
<1>7. CASE ~(CountDomain(t) \/ CountDomainAgain(t) \/ Finish(t))
  <2>1. Kept
    BY <1>7 DEF Step, Call, AutoidleLock, AutoidleRead, AutoidleWrite, CheckRef, CountRef, Acquire,
       EnableSources, ReadClock, WriteClock, ReadWakeUp, WriteWakeUp, sharedVars
  <2> QED
    BY <1>2, <2>1
<1> QED
  BY <1>6, <1>7

\* A counter that waits for a release from a clock that runs, or has the clock in use
\* and counted, is positive.
LEMMA EnablersElsewhere ==
    ASSUME Core, Steady, NEW C \in SUBSET Clock, NEW L \in SUBSET Upd, NEW c \in C, ref[c] > 0,
           "end" \notin L, \A t \in Thread : Updating(t, c, TRUE) => pc[t] = "end"
    PROVE  Cardinality(Enabling(C, L)) < Cardinality(InUse(C))
<1>1. InUse(C) \ {c} \in SUBSET InUse(C) /\ c \in InUse(C)
  BY DEF InUse
<1>2. \A t \in Enabling(C, L) : Clk(t) \in InUse(C) \ {c}
  <2> SUFFICES ASSUME NEW t \in Enabling(C, L) PROVE Clk(t) \in InUse(C) /\ Clk(t) # c
    OBVIOUS
  <2>1. t \in Thread /\ pc[t] \in Upd /\ pc[t] # "end" /\ On(t) /\ Clk(t) \in C
    BY DEF Enabling
  <2>2. ref[Clk(t)] > 0
    BY <2>1 DEF Steady
  <2>3. Clk(t) # c
    BY <2>1 DEF Updating, Upd
  <2> QED
    BY <2>1, <2>2, <2>3 DEF InUse
<1>3. Cardinality(Enabling(C, L)) <= Cardinality(InUse(C) \ {c})
  BY <1>1, <1>2, EnablersInUse
<1>4. IsFiniteSet(InUse(C)) /\ Cardinality(InUse(C)) \in Nat /\ Cardinality(Enabling(C, L)) \in Nat
  BY Finiteness, FS_Subset, FS_CardinalityType DEF InUse, Enabling
<1>5. Cardinality(InUse(C) \ {c}) = Cardinality(InUse(C)) - 1
  BY <1>1, <1>4, FS_RemoveElement
<1> QED
  BY <1>3, <1>4, <1>5

LEMMA SourcesThere ==
    ASSUME Core, Steady, SourceRefsConserved, NEW d \in FclkDevice, RunsFor(FclkOf[d]),
           NEW s \in SourcesOf[d]
    PROVE  srcRef[s] > 0
<1> DEFINE D   == {e \in Device : s \in SourcesOf[e]}
           on  == {"lock", "source"}
           off == {"lock", "read", "write", "end"}
<1> PICK C \in SUBSET Clock, c \in Clock : C = FclksOf(D) /\ c = FclkOf[d]
  BY FclksAreClocks, DeviceTable DEF FclkDevice
<1>1. s \in Source /\ c \in C /\ c # NoClock /\ d \in Device
  BY DeviceTable DEF FclksOf, FclkDevice
<1>2. srcRef[s] + Cardinality(Enabling(C, on)) = Cardinality(InUse(C)) + Cardinality(Disabling(C, off))
  BY <1>1 DEF SourceRefsConserved, Conserved
<1>3. /\ Cardinality(Enabling(C, on)) \in Nat /\ Cardinality(Disabling(C, off)) \in Nat
      /\ Cardinality(InUse(C)) \in Nat /\ IsFiniteSet(Disabling(C, off)) /\ srcRef[s] \in Int
  BY <1>1, Finiteness, FS_Subset, FS_CardinalityType DEF Disabling, Enabling, InUse, Core, TypeOK
<1>4. on \in SUBSET Upd /\ "end" \notin on
  BY DEF Upd, CriticalLabel
<1>5. CASE \E t \in Thread : Updating(t, c, FALSE) /\ pc[t] # "end"
  <2> PICK t \in Thread : Updating(t, c, FALSE) /\ pc[t] # "end"
    BY <1>5
  <2>1. pc[t] \in Upd /\ Clk(t) = c /\ ~On(t)
    BY DEF Updating, Upd
  <2>2. half[t] = "fclk"
    <3>1. Clk(t) \in FclksOf({d})
      BY <1>1, <2>1 DEF FclksOf, FclkDevice
    <3>2. {d} \in SUBSET Device
      BY <1>1
    <3> QED
      BY <2>1, <3>1, <3>2, FclkPlace
  <2>3. pc[t] \in off
    BY <2>1, <2>2 DEF Upd, CriticalLabel, Core, CallOK, On
  <2>4. t \in Disabling(C, off)
    BY <1>1, <2>1, <2>3 DEF Disabling
  <2>5. Cardinality(Disabling(C, off)) # 0
    BY <1>3, <2>4, FS_EmptySet
  <2>6. Cardinality(Enabling(C, on)) <= Cardinality(InUse(C))
    <3>1. \A u \in Enabling(C, on) : Clk(u) \in InUse(C)
      BY <1>4 DEF Enabling, InUse, Steady
    <3>2. InUse(C) \in SUBSET InUse(C)
      OBVIOUS
    <3> QED
      BY <1>4, <3>1, <3>2, EnablersInUse
  <2> HIDE DEF on, off
  <2> QED
    BY <1>2, <1>3, <2>5, <2>6
<1>6. CASE ref[c] > 0 /\ \A t \in Thread : Updating(t, c, TRUE) => pc[t] = "end"
  <2>1. Cardinality(Enabling(C, on)) < Cardinality(InUse(C))
    BY <1>1, <1>4, <1>6, EnablersElsewhere
  <2> HIDE DEF on, off
  <2> QED
    BY <1>2, <1>3, <2>1
<1> QED
  BY <1>5, <1>6 DEF RunsFor

LEMMA DomainThere ==
    ASSUME Core, Steady, NEW d \in Device, IclkOf[d] # NoClock, RunsFor(IclkOf[d]),
           NEW m \in Domain, m = DomainOf[d], NEW n \in Int, TwoFromEach(n, IclksIn(m))
    PROVE  n > 0
<1> PICK C \in SUBSET Clock, c \in Clock : C = IclksIn(m) /\ c = IclkOf[d]
  BY IclksAreClocks, DeviceTable
<1>1. c \in C
  BY DEF IclksIn
<1>2. CASE \E t \in Thread : Updating(t, c, FALSE) /\ pc[t] # "end"
  <2> PICK t \in Thread : Updating(t, c, FALSE)
    BY <1>2
  <2>1. t \in Disabling(C, Upd)
    BY <1>1 DEF Updating, Upd, Disabling
  <2> QED
    BY <2>1, DomainCounted
<1>3. CASE ref[c] > 0 /\ \A t \in Thread : Updating(t, c, TRUE) => pc[t] = "end"
  <2>1. One \in SUBSET Upd /\ TwoOn \in SUBSET Upd /\ "end" \notin One /\ "end" \notin TwoOn
    BY DEF One, TwoOn, Upd, CriticalLabel
  <2>2. /\ Cardinality(Enabling(C, One)) < Cardinality(InUse(C))
        /\ Cardinality(Enabling(C, TwoOn)) < Cardinality(InUse(C))
    BY <1>1, <1>3, <2>1, EnablersElsewhere
  <2>3. /\ Cardinality(Enabling(C, One)) \in Nat /\ Cardinality(Enabling(C, TwoOn)) \in Nat
        /\ Cardinality(Disabling(C, One)) \in Nat /\ Cardinality(Disabling(C, Upd)) \in Nat
        /\ Cardinality(InUse(C)) \in Nat
    BY Finiteness, FS_Subset, FS_CardinalityType DEF Disabling, Enabling, InUse
  <2> QED
    BY <2>2, <2>3 DEF TwoFromEach
<1> QED
  BY <1>2, <1>3 DEF RunsFor

\* A running clock has what it needs: all its source clocks are referenced, its domain is
\* counted and the MPU's dependencies on it are in place, whatever the other devices of
\* the domain and the other users of the sources are doing.
THEOREM RunningIsSupplied == ASSUME Careful PROVE Spec => []Supplied
<1>1. Init => DepsOfCounted
  BY DEF Init, DepsOfCounted
<1>2. TypeOK /\ TypeOK' /\ DepsOfCounted /\ [Next]_vars => DepsOfCounted'
  <2> SUFFICES ASSUME TypeOK, TypeOK', DepsOfCounted, [Next]_vars PROVE DepsOfCounted'
    OBVIOUS
  <2>1. CASE UNCHANGED vars
    BY <2>1 DEF vars, DepsOfCounted
  <2> QED
    BY <2>1, DepsStep DEF Next
<1>3. Core /\ Discipline /\ BitsRight /\ SourceRefsConserved /\ DomainRefsConserved /\ DepsOfCounted
      => Supplied
  <2> SUFFICES ASSUME Core, Discipline, BitsRight, SourceRefsConserved, DomainRefsConserved,
                      DepsOfCounted
               PROVE  Supplied
    OBVIOUS
  <2>1. Steady
    BY DEF Discipline
  <2>2. SourcesOfRunningClock
    <3> SUFFICES ASSUME NEW d \in FclkDevice, BitOn("fclk", d), NEW s \in SourcesOf[d]
                 PROVE  srcRef[s] > 0
      BY DEF SourcesOfRunningClock
    <3>1. RunsFor(FclkOf[d])
      <4>1. d \in Device /\ "fclk" \in Half /\ ClockOf("fclk", d) = FclkOf[d] /\ FclkOf[d] # NoClock
        BY DEF FclkDevice, Half, ClockOf
      <4> QED
        BY <4>1 DEF BitsRight
    <3> QED
      BY <2>1, <3>1, SourcesThere
  <2>3. DomainOfRunningClock
    <3> SUFFICES ASSUME NEW d \in Device, IclkOf[d] # NoClock, BitOn("iclk", d), NEW m, m = DomainOf[d]
                 PROVE  /\ domCount[m] > 0
                        /\ m \in DynamicWake => dep[m].wake
                        /\ m \in DynamicSleep => dep[m].sleep
      BY DEF DomainOfRunningClock
    <3>1. RunsFor(IclkOf[d])
      <4>1. "iclk" \in Half /\ ClockOf("iclk", d) = IclkOf[d]
        BY DEF Half, ClockOf
      <4> QED
        BY <4>1 DEF BitsRight
    <3>2. m \in Domain /\ domCount[m] \in Int
      BY DeviceTable DEF Core, TypeOK
    <3>3. TwoFromEach(domCount[m], IclksIn(m))
      BY <3>2 DEF DomainRefsConserved, TwoFromEach, One, TwoOn, Upd
    <3>4. domCount[m] > 0
      BY <2>1, <3>1, <3>2, <3>3, DomainThere
    <3> QED
      BY <3>2, <3>4 DEF DepsOfCounted
  <2> QED
    BY <2>2, <2>3 DEF Supplied
<1>4. Spec => []DepsOfCounted
  BY <1>1, <1>2, TypeCorrect, PTL DEF Spec
<1> QED
  BY <1>3, <1>4, BitsInvariant, SourcesConserved, DomainsBalance, PTL
-----------------------------------------------------------------------------
(* The switch of ClockSwitch, for clocks that are not shared by drivers     *)

\* The bits of the clock registers: a clock is in the register of its half and domain.
Placed ==
    \A h \in Half : \A m \in Domain : \A x \in reg[ClockReg(h)][m] :
        \E d \in Device : x = ClockOf(h, d) /\ x # NoClock /\ DomainOf[d] = m

\* An owner is a client of the row it has enabled.
OwnersAreClients ==
    \A c \in Clock : \A o \in owner[c] : \E u \in Thread, d \in Device, h \in Half :
        o = <<u, d>> /\ u \in ClientsOf[d] /\ ClockOf(h, d) = c

\* A thread about to count on does not own the clock, one about to count off does.
CountsOwn ==
    /\ \A t \in Thread : \A h \in ToCount(t) :
         On(t) => <<t, Dev(t)>> \notin owner[ClockOf(h, Dev(t))]
    /\ \A t \in Thread : pc[t] = "count" /\ ~On(t) => <<t, Dev(t)>> \in owner[Clk(t)]

\* The update under way agrees with the owners.
UpdatesOwned == \A t \in Thread : pc[t] \in Upd => (On(t) <=> owner[Clk(t)] # {})

Exclusivity == RefOwned /\ OwnersAreClients /\ CountsOwn /\ UpdatesOwned

\* Threads that refer to one entry are one thread.
LEMMA SoleClient ==
    ASSUME OneClient, NEW t \in Thread, NEW u \in Thread, NEW d \in Device, NEW e \in Device,
           NEW g \in Half, NEW h \in Half, t \in ClientsOf[d], u \in ClientsOf[e],
           ClockOf(g, d) # NoClock, ClockOf(g, d) = ClockOf(h, e)
    PROVE  t = u
BY DEF OneClient

LEMMA ExclusiveStep ==
    ASSUME Exclusive, Core, Core', Client, Discipline, Exclusivity, NEW t \in Thread, Call(t) \/ Step(t)
    PROVE  Exclusivity'
<1>0. OneClient /\ (~Sloppy \/ OneRow)
  BY DEF Exclusive
<1>1. CASE ~CountRef(t)
  <2>1. /\ OthersStay(t) /\ UNCHANGED <<ref, owner>>
        /\ pc'[t] \in Upd => pc[t] \in Upd /\ job'[t] = job[t] /\ half'[t] = half[t]
        /\ \/ pc'[t] = "idle" /\ ToCount(t)' = {}
           \/ MayCall(t, job'[t]) /\ ToCount(t)' \subseteq Halves(job'[t])
           \/ pc[t] # "idle" /\ job'[t] = job[t] /\ ToCount(t)' \subseteq ToCount(t)
    BY <1>1, CallSteps
  <2>2. ASSUME NEW u \in Thread \ {t}
        PROVE  ToCount(u)' = ToCount(u) /\ Dev(u)' = Dev(u) /\ (On(u)' <=> On(u)) /\ pc'[u] = pc[u]
               /\ Clk(u)' = Clk(u)
    BY <2>1 DEF OthersStay, ToCount, Dev, On, Clk, ClockOf
  <2>3. RefOwned' /\ OwnersAreClients'
    BY <2>1 DEF Exclusivity, RefOwned, OwnersAreClients, ClockOf
  <2>4. UpdatesOwned'
    <3>1. pc'[t] \in Upd => Clk(t)' = Clk(t) /\ (On(t)' <=> On(t)) /\ pc[t] \in Upd
      BY <2>1 DEF Clk, ClockOf, Dev, On
    <3> QED
      BY <2>1, <2>2, <3>1 DEF Exclusivity, UpdatesOwned
  <2>5. ASSUME NEW h \in ToCount(t)', On(t)'
        PROVE  <<t, Dev(t)'>> \notin owner'[ClockOf(h, Dev(t)')]
    BY <2>1, <2>5 DEF MayCall, Dev, On, Exclusivity, CountsOwn
  <2>6. ASSUME pc'[t] = "count", ~On(t)' PROVE <<t, Dev(t)'>> \in owner'[Clk(t)']
    <3>1. CASE CheckRef(t) /\ ref[Clk(t)] > 0
      <4>1. pc[t] = "check" /\ UNCHANGED <<job, half>>
        BY <3>1, CallTypes DEF CheckRef, Core, TypeOK
      <4>2. Dev(t)' = Dev(t) /\ Clk(t)' = Clk(t) /\ ~On(t)
        BY <2>6, <4>1 DEF Dev, Clk, ClockOf, On
      <4>3. <<t, Dev(t)>> \in owner[Clk(t)]
        <5>1. CASE ~Sloppy
          <6>1. half[t] \in ToCount(t)
            BY <4>1 DEF ToCount
          <6> QED
            BY <4>2, <5>1, <6>1 DEF Discipline, CallOwns, Clk
        <5>2. CASE OneRow
          <6>1. Clk(t) \in Clock /\ Clk(t) # NoClock /\ Dev(t) \in Device /\ half[t] \in Half
            BY <4>1, CallTypes DEF Core, TypeOK
          <6>2. owner[Clk(t)] # {}
            BY <3>1, <6>1, FS_EmptySet DEF Exclusivity, RefOwned
          <6>3. PICK u \in Thread, d \in Device, h \in Half :
                   <<u, d>> \in owner[Clk(t)] /\ u \in ClientsOf[d] /\ ClockOf(h, d) = Clk(t)
            BY <6>1, <6>2 DEF Exclusivity, OwnersAreClients
          <6>4. d = Dev(t)
            BY <5>2, <6>1, <6>3 DEF OneRow, Clk
          <6>5. t \in ClientsOf[Dev(t)]
            BY <4>1 DEF Client
          <6>6. u = t
            BY <1>0, <6>1, <6>3, <6>4, <6>5, SoleClient
          <6> QED
            BY <6>3, <6>4, <6>6
        <5> QED
          BY <1>0, <5>1, <5>2
      <4> QED
        BY <2>1, <4>2, <4>3
    <3>2. CASE ~(CheckRef(t) /\ ref[Clk(t)] > 0)
      <4>1. CASE CheckRef(t)
        <5>1. NextHalf(t) /\ pc[t] = "check"
          BY <3>2, <4>1 DEF CheckRef
        <5>2. \/ pc'[t] = "idle"
              \/ GoTo(t, IF On(t) THEN "count" ELSE "check") /\ job' = [job EXCEPT ![t] = job[t]]
          BY <5>1 DEF NextHalf, Proceed, Return, GoTo, Core, TypeOK, On
        <5> QED
          BY <2>6, <5>2 DEF GoTo, On, Core, TypeOK
      <4>2. CASE Finish(t)
        <5>1. \/ pc'[t] = "idle"
              \/ GoTo(t, IF On(t) THEN "count" ELSE "check") /\ job' = [job EXCEPT ![t] = job[t]]
          BY <4>2 DEF Finish, NextHalf, Proceed, Return, GoTo, Core, TypeOK, On
        <5> QED
          BY <2>6, <5>1 DEF GoTo, On, Core, TypeOK
      <4>3. CASE AutoidleWrite(t)
        <5>1. \/ pc'[t] = "idle"
              \/ GoTo(t, IF On(t) THEN "count" ELSE "check") /\ job' = [job EXCEPT ![t] = job[t]]
          BY <4>3 DEF AutoidleWrite, Proceed, Return, GoTo, Core, TypeOK, On
        <5> QED
          BY <2>6, <5>1 DEF GoTo, On, Core, TypeOK
      <4>4. CASE Call(t)
        <5>1. PICK j \in [call : Calls, dev : Device, on : BOOLEAN] :
                 \/ GoTo(t, "ai_lock") \/ GoTo(t, "ai_read")
                 \/ Proceed(t, j, Halves(j))
          BY <4>4 DEF Call
        <5>2. CASE GoTo(t, "ai_lock") \/ GoTo(t, "ai_read")
          BY <2>6, <5>2 DEF GoTo, Core, TypeOK
        <5>3. CASE Proceed(t, j, Halves(j))
          <6>1. \/ pc'[t] = "idle"
                \/ GoTo(t, IF j.on THEN "count" ELSE "check") /\ job' = [job EXCEPT ![t] = j]
            BY <5>3 DEF Proceed, Return, GoTo, Core, TypeOK
          <6> QED
            BY <2>6, <6>1 DEF GoTo, On, Core, TypeOK
        <5> QED
          BY <5>1, <5>2, <5>3
      <4>5. CASE AutoidleLock(t) \/ AutoidleRead(t)
        BY <2>6, <4>5 DEF AutoidleLock, AutoidleRead, GoTo, Core, TypeOK
      <4>6. CASE \/ Acquire(t) \/ EnableSources(t) \/ ReadClock(t) \/ WriteClock(t) \/ CountDomain(t)
                 \/ ReadWakeUp(t) \/ WriteWakeUp(t) \/ CountDomainAgain(t)
        BY <2>6, <4>6, Inside DEF CriticalLabel
      <4> QED
        BY <1>1, <4>1, <4>2, <4>3, <4>4, <4>5, <4>6 DEF Step
    <3> QED
      BY <3>1, <3>2
  <2>7. CountsOwn'
    <3>1. ASSUME NEW u \in Thread, NEW h \in ToCount(u)', On(u)'
          PROVE  <<u, Dev(u)'>> \notin owner'[ClockOf(h, Dev(u)')]
      BY <2>1, <2>2, <2>5, <3>1 DEF Exclusivity, CountsOwn
    <3>2. ASSUME NEW u \in Thread, pc'[u] = "count", ~On(u)'
          PROVE  <<u, Dev(u)'>> \in owner'[Clk(u)']
      BY <2>1, <2>2, <2>6, <3>2 DEF Exclusivity, CountsOwn
    <3> QED
      BY <3>1, <3>2 DEF CountsOwn
  <2> QED
    BY <2>3, <2>4, <2>7 DEF Exclusivity
<1>2. CASE CountRef(t)
  <2> PICK c, d, o : c \in Clock /\ d \in Device /\ c = Clk(t) /\ d = Dev(t) /\ o = <<t, d>>
    BY <1>2, CountSteps, CallTypes
  <2>1. /\ OthersStay(t) /\ pc[t] = "count" /\ half[t] \in ToCount(t)
        /\ ToCount(t)' \subseteq ToCount(t) \ {half[t]}
        /\ pc'[t] # "idle" => job'[t] = job[t]
        /\ ref' = [ref EXCEPT ![c] = IF On(t) THEN ref[c] + 1 ELSE ref[c] - 1]
        /\ owner' = [owner EXCEPT ![c] = IF On(t) THEN owner[c] \cup {o} ELSE owner[c] \ {o}]
        /\ \/ /\ ref[c] = (IF On(t) THEN 0 ELSE 1)
              /\ pc'[t] = "lock" /\ job'[t] = job[t] /\ half'[t] = half[t]
           \/ pc'[t] \notin Upd
    BY <1>2, CountSteps
  <2>2. (o \in owner[c] <=> ~On(t)) /\ ClockOf(half[t], d) = c /\ half[t] \in Half /\ c # NoClock
    BY <2>1, CallTypes DEF Exclusivity, CountsOwn, Clk, Core, TypeOK
  <2>3. owner \in [Clock -> SUBSET (Thread \X Device)] /\ ref \in [Clock -> Int] /\ On(t) \in BOOLEAN
    BY CallTypes DEF Core, TypeOK
  <2>4. ASSUME NEW u \in Thread \ {t}, NEW b \in Clock
        PROVE  <<u, Dev(u)>> \in owner'[b] <=> <<u, Dev(u)>> \in owner[b]
    BY <2>1, <2>3
  <2>5. ASSUME NEW u \in Thread \ {t}
        PROVE  ToCount(u)' = ToCount(u) /\ Dev(u)' = Dev(u) /\ (On(u)' <=> On(u)) /\ pc'[u] = pc[u]
               /\ Clk(u)' = Clk(u)
    BY <2>1 DEF OthersStay, ToCount, Dev, On, Clk, ClockOf
  <2>6. ASSUME NEW u \in Thread, NEW h \in ToCount(u) PROVE h \in Half /\ ClockOf(h, Dev(u)) \in Clock
    <3>1. h \in Halves(job[u])
      BY <2>6 DEF Core, CallOK, ToCount
    <3> QED
      BY <3>1, CallTypes, DeviceTable DEF Halves, ClockOf, Dev
  <2>7. t \in ClientsOf[d]
    BY <2>1 DEF Client
  <2>12. /\ owner'[c] = IF On(t) THEN owner[c] \cup {o} ELSE owner[c] \ {o}
         /\ ref'[c] = IF On(t) THEN ref[c] + 1 ELSE ref[c] - 1
    BY <2>1, <2>3
  <2>8. RefOwned'
    <3> SUFFICES ASSUME NEW b \in Clock PROVE ref'[b] = Cardinality(owner'[b])
      BY DEF RefOwned
    <3>1. CASE b # c
      BY <2>1, <2>3, <3>1 DEF Exclusivity, RefOwned
    <3>2. CASE b = c
      <4>1. ref[c] = Cardinality(owner[c]) /\ IsFiniteSet(owner[c]) /\ Cardinality(owner[c]) \in Nat
        BY OwnersFinite DEF Exclusivity, RefOwned
      <4>2. CASE On(t)
        <5>1. o \notin owner[c]
          BY <2>2, <4>2, Zenon
        <5>2. ref'[c] = ref[c] + 1
          BY <2>12, <4>2
        <5>3. owner'[c] = owner[c] \cup {o}
          BY <2>12, <4>2
        <5>4. Cardinality(owner[c] \cup {o}) = Cardinality(owner[c]) + 1
          BY <4>1, <5>1, FS_AddElement
        <5> QED
          BY <3>2, <4>1, <5>2, <5>3, <5>4
      <4>3. CASE ~On(t)
        <5>1. ref'[c] = ref[c] - 1 /\ owner'[c] = owner[c] \ {o} /\ o \in owner[c]
          BY <2>2, <2>12, <4>3
        <5> QED
          BY ZenonT(40), <3>2, <4>1, <5>1, FS_RemoveElement
      <4> QED
        BY <4>2, <4>3
    <3> QED
      BY <3>1, <3>2
  <2>9. OwnersAreClients'
    <3> SUFFICES ASSUME NEW b \in Clock, NEW q \in owner'[b]
                 PROVE  \E u \in Thread, e \in Device, h \in Half :
                           q = <<u, e>> /\ u \in ClientsOf[e] /\ ClockOf(h, e) = b
      BY DEF OwnersAreClients, ClockOf
    <3>1. q \in owner[b] \/ (b = c /\ q = o)
      BY <2>1, <2>3
    <3> QED
      BY <2>2, <2>7, <3>1 DEF Exclusivity, OwnersAreClients
  <2>10. CountsOwn'
    <3>1. ASSUME NEW u \in Thread, NEW h \in ToCount(u)', On(u)'
          PROVE  <<u, Dev(u)'>> \notin owner'[ClockOf(h, Dev(u)')]
      <4>1. CASE u = t
        <5>1. h \in ToCount(t) /\ h # half[t] /\ pc'[t] # "idle"
          BY <2>1, <3>1, <4>1 DEF ToCount, Upd, CriticalLabel
        <5>2. Dev(t)' = d /\ On(t)
          BY <2>1, <3>1, <4>1, <5>1 DEF Dev, On
        <5>3. ClockOf(h, d) # c /\ ClockOf(h, d) \in Clock
          BY <2>2, <2>6, <5>1, HalvesDiffer, DeviceTable
        <5>4. owner'[ClockOf(h, d)] = owner[ClockOf(h, d)]
          BY <2>1, <2>3, <5>3
        <5> QED
          BY <4>1, <5>1, <5>2, <5>4 DEF Exclusivity, CountsOwn
      <4>2. CASE u # t
        <5>1. h \in ToCount(u) /\ Dev(u)' = Dev(u) /\ On(u)
          BY <2>5, <3>1, <4>2
        <5> QED
          BY <2>4, <2>6, <4>2, <5>1 DEF Exclusivity, CountsOwn
      <4> QED
        BY <4>1, <4>2
    <3>2. ASSUME NEW u \in Thread, pc'[u] = "count", ~On(u)'
          PROVE  <<u, Dev(u)'>> \in owner'[Clk(u)']
      <4>1. CASE u = t
        <5>1. GoTo(t, "lock") \/ NextHalf(t)
          BY <1>2 DEF CountRef
        <5>2. \/ pc'[t] \in {"idle", "lock"}
              \/ GoTo(t, IF On(t) THEN "count" ELSE "check") /\ job' = [job EXCEPT ![t] = job[t]]
          BY <5>1 DEF NextHalf, Proceed, Return, GoTo, Core, TypeOK, On
        <5> QED
          BY <3>2, <4>1, <5>2 DEF GoTo, On, Core, TypeOK
      <4>2. CASE u # t
        <5>1. pc[u] = "count" /\ ~On(u) /\ Clk(u)' = Clk(u) /\ Dev(u)' = Dev(u) /\ Clk(u) \in Clock
          BY <2>5, <3>2, <4>2, CallTypes
        <5> QED
          BY <2>4, <4>2, <5>1 DEF Exclusivity, CountsOwn
      <4> QED
        BY <4>1, <4>2
    <3> QED
      BY <3>1, <3>2 DEF CountsOwn
  <2>11. UpdatesOwned'
    <3> SUFFICES ASSUME NEW u \in Thread, pc'[u] \in Upd PROVE On(u)' <=> owner'[Clk(u)'] # {}
      BY DEF UpdatesOwned
    <3>1. CASE u = t
      <4>0. ref[c] = (IF On(t) THEN 0 ELSE 1) /\ job'[t] = job[t] /\ half'[t] = half[t]
        BY <2>1, <3>1, Zenon
      <4>1. Clk(t)' = c /\ (On(t)' <=> On(t))
        BY <4>0 DEF Clk, ClockOf, Dev, On
      <4>2. ref'[c] = Cardinality(owner'[c]) /\ ref'[c] = IF On(t) THEN 1 ELSE 0
        BY <2>3, <2>8, <2>12, <4>0 DEF RefOwned
      <4>3. CASE On(t)
        BY <2>1, <2>3, <3>1, <4>1, <4>3
      <4>4. CASE ~On(t)
        <5>1. IsFiniteSet(owner'[c])
          <6>1. owner'[c] \subseteq owner[c]
            BY <2>1, <2>3, <4>4
          <6> QED
            BY <6>1, OwnersFinite, FS_Subset
        <5>2. owner'[c] = {}
          BY <4>2, <4>4, <5>1, FS_EmptySet
        <5> QED
          BY <3>1, <4>1, <4>4, <5>2
      <4> QED
        BY <2>3, <4>3, <4>4
    <3>2. CASE u # t
      <4>1. pc[u] \in Upd /\ Clk(u)' = Clk(u) /\ (On(u)' <=> On(u)) /\ Clk(u) \in Clock /\ Clk(u) # NoClock
            /\ Dev(u) \in Device /\ half[u] \in Half
        BY <2>5, <3>2, CallTypes DEF Upd, Core, TypeOK
      <4>2. Clk(u) # c
        <5>1. u \in ClientsOf[Dev(u)]
          BY <4>1 DEF Client, Upd, CriticalLabel
        <5> QED
          BY <1>0, <2>2, <2>7, <3>2, <4>1, <5>1, SoleClient DEF Clk
      <4>3. owner'[Clk(u)] = owner[Clk(u)]
        BY <2>1, <2>3, <4>1, <4>2
      <4> QED
        BY <4>1, <4>3 DEF Exclusivity, UpdatesOwned
    <3> QED
      BY <3>1, <3>2
  <2> QED
    BY <2>8, <2>9, <2>10, <2>11 DEF Exclusivity
<1> QED
  BY <1>1, <1>2
LEMMA RunningBits ==
    ASSUME NEW x
    PROVE  /\ x \in Running <=> \E h \in Half : \E m \in Domain : x \in reg[ClockReg(h)][m]
           /\ x \in Running' <=> \E h \in Half : \E m \in Domain : x \in reg'[ClockReg(h)][m]
BY DEF Running, Half, ClockReg

\* Only WriteClock writes the clock registers, and it changes one bit.
LEMMA ClockWrites ==
    ASSUME Core, NoLostUpdate, AboutToWrite, NEW t \in Thread, WriteClock(t)
    PROVE  /\ pc[t] = "write"
           /\ \A h \in Half, m \in Domain :
                reg'[ClockReg(h)][m] =
                  IF h = half[t] /\ m = Dom(t)
                  THEN IF On(t) THEN reg[ClockReg(h)][m] \cup {Clk(t)} ELSE reg[ClockReg(h)][m] \ {Clk(t)}
                  ELSE reg[ClockReg(h)][m]
<1> PICK g \in Half, q \in Domain, c \in Clock, r \in RegName :
        g = half[t] /\ q = Dom(t) /\ c = Clk(t) /\ r = ClockReg(g)
  BY CallTypes DEF WriteClock, CriticalLabel, Core, TypeOK, RegName, ClockReg
<1>1. pc[t] = "write" /\ reg' = [reg EXCEPT ![r][q] = tmp[t]]
  BY DEF WriteClock, WriteBack
<1>2. reg \in [RegName -> [Domain -> SUBSET Bit]] /\ tmp[t] \in SUBSET Bit /\ On(t) \in BOOLEAN
  BY CallTypes DEF Core, TypeOK
<1>3. /\ \A x \in Bit \ {c} : x \in tmp[t] <=> x \in reg[r][q]
      /\ c \in tmp[t] <=> On(t)
  BY <1>1 DEF NoLostUpdate, AboutToWrite
<1>4. reg[r][q] \in SUBSET Bit /\ c \in Bit
  BY <1>2 DEF Bit
<1>5. tmp[t] = IF On(t) THEN reg[r][q] \cup {c} ELSE reg[r][q] \ {c}
  BY <1>2, <1>3, <1>4
<1>6. ASSUME NEW h \in Half, NEW m \in Domain
      PROVE  reg'[ClockReg(h)][m] = IF h = g /\ m = q THEN tmp[t] ELSE reg[ClockReg(h)][m]
  <2>1. ClockReg(h) \in RegName /\ (ClockReg(h) = r <=> h = g)
    BY DEF ClockReg, RegName, Half
  <2>2. reg'[ClockReg(h)] = IF ClockReg(h) = r THEN [reg[r] EXCEPT ![q] = tmp[t]] ELSE reg[ClockReg(h)]
    BY <1>1, <1>2, <2>1
  <2>3. reg[r] \in [Domain -> SUBSET Bit]
    BY <1>2
  <2> QED
    BY <2>1, <2>2, <2>3
<1>7. ASSUME NEW h \in Half, NEW m \in Domain
      PROVE  reg'[ClockReg(h)][m] =
               IF h = g /\ m = q
               THEN IF On(t) THEN reg[ClockReg(h)][m] \cup {c} ELSE reg[ClockReg(h)][m] \ {c}
               ELSE reg[ClockReg(h)][m]
  <2>1. CASE h = g /\ m = q
    <3>1. reg'[ClockReg(h)][m] = tmp[t] /\ ClockReg(h) = r
      BY <1>6, <2>1
    <3> QED
      BY <1>5, <2>1, <3>1
  <2>2. CASE ~(h = g /\ m = q)
    BY <1>6, <2>2
  <2> QED
    BY <2>1, <2>2
<1> QED
  BY <1>1, <1>7

LEMMA RegistersKept ==
    ASSUME Core, NEW t \in Thread, Call(t) \/ Step(t), ~WriteClock(t)
    PROVE  \A h \in Half : reg'[ClockReg(h)] = reg[ClockReg(h)]
<1>1. reg \in [RegName -> [Domain -> SUBSET Bit]]
  BY DEF Core, TypeOK
<1>2. CASE AutoidleWrite(t) \/ WriteWakeUp(t)
  <2>1. \E r \in {"autoidle", "wken"}, m \in Domain : reg' = [reg EXCEPT ![r][m] = tmp[t]]
    BY <1>2, CallTypes DEF AutoidleWrite, WriteWakeUp, WriteBack
  <2> QED
    BY <1>1, <2>1 DEF Half, ClockReg, RegName
<1>3. CASE ~(AutoidleWrite(t) \/ WriteWakeUp(t))
  <2>1. UNCHANGED reg
    BY <1>3 DEF Step, Call, AutoidleLock, AutoidleRead, CheckRef, CountRef, Acquire, EnableSources,
       ReadClock, CountDomain, ReadWakeUp, CountDomainAgain, Finish, sharedVars
  <2> QED
    BY <2>1
<1> QED
  BY <1>2, <1>3

LEMMA PlacedStep ==
    ASSUME Core, NoLostUpdate, AboutToWrite, Placed, NEW t \in Thread, Call(t) \/ Step(t)
    PROVE  Placed'
<1> SUFFICES ASSUME NEW h \in Half, NEW m \in Domain, NEW x \in reg'[ClockReg(h)][m]
             PROVE  \E d \in Device : x = ClockOf(h, d) /\ x # NoClock /\ DomainOf[d] = m
  BY DEF Placed, ClockReg, ClockOf
<1>1. CASE ~WriteClock(t)
  BY <1>1, RegistersKept DEF Placed
<1>2. CASE WriteClock(t)
  <2>1. x \in reg[ClockReg(h)][m] \/ (h = half[t] /\ m = Dom(t) /\ x = Clk(t) /\ pc[t] = "write")
    <3> PICK A, B, c : A = reg'[ClockReg(h)][m] /\ B = reg[ClockReg(h)][m] /\ c = Clk(t)
      OBVIOUS
    <3>0. /\ pc[t] = "write"
          /\ \A g \in Half, q \in Domain :
               reg'[ClockReg(g)][q] =
                 IF g = half[t] /\ q = Dom(t)
                 THEN IF On(t) THEN reg[ClockReg(g)][q] \cup {c} ELSE reg[ClockReg(g)][q] \ {c}
                 ELSE reg[ClockReg(g)][q]
      BY <1>2, ClockWrites
    <3>1. A = IF h = half[t] /\ m = Dom(t) THEN IF On(t) THEN B \cup {c} ELSE B \ {c} ELSE B
      BY <3>0, Zenon
    <3>2. x \in A
      OBVIOUS
    <3> QED
      BY <3>0, <3>1, <3>2
  <2>2. CASE h = half[t] /\ m = Dom(t) /\ x = Clk(t) /\ pc[t] = "write"
    <3>1. Dev(t) \in Device /\ x = ClockOf(h, Dev(t)) /\ x # NoClock /\ DomainOf[Dev(t)] = m
      BY <2>2, CallTypes DEF CriticalLabel, Clk, Dom
    <3> QED
      BY <3>1
  <2> QED
    BY <2>1, <2>2 DEF Placed
<1> QED
  BY <1>1, <1>2

\* Every step of a thread is a step of the switch, or none.
LEMMA SwitchStep ==
    ASSUME Core, NoLostUpdate, AboutToWrite, Placed, Exclusivity, NEW t \in Thread, Call(t) \/ Step(t)
    PROVE  Switch!Next \/ UNCHANGED <<owner, Running>>
<1>1. CASE WriteClock(t)
  <2>1. UNCHANGED owner
    BY <1>1 DEF WriteClock
  <2> PICK c \in Clock, g \in Half, q \in Domain, d \in Device :
        /\ c = Clk(t) /\ g = half[t] /\ q = Dom(t) /\ d = Dev(t)
    BY <1>1, CallTypes DEF WriteClock, CriticalLabel, Core, TypeOK
  <2>2. /\ pc[t] = "write"
        /\ \A h \in Half, m \in Domain :
                reg'[ClockReg(h)][m] =
                  IF h = g /\ m = q
                  THEN IF On(t) THEN reg[ClockReg(h)][m] \cup {c} ELSE reg[ClockReg(h)][m] \ {c}
                  ELSE reg[ClockReg(h)][m]
    BY <1>1, ClockWrites
  <2>3. c # NoClock /\ c = ClockOf(g, d) /\ q = DomainOf[d] /\ On(t) \in BOOLEAN
    BY <2>2, CallTypes DEF CriticalLabel, Clk, Dom
  <2>4. \A h \in Half, m \in Domain : c \in reg[ClockReg(h)][m] => h = g /\ m = q
    BY <2>3, ClockPlace DEF Placed
  <2>5. On(t) <=> owner[c] # {}
    BY <2>2 DEF Exclusivity, UpdatesOwned, Upd, CriticalLabel
  <2>6. CASE On(t)
    <3>1. \A x : x \in Running' <=> x \in Running \/ x = c
      <4> SUFFICES ASSUME NEW x PROVE x \in Running' <=> x \in Running \/ x = c
        OBVIOUS
      <4>1. ASSUME NEW h \in Half, NEW m \in Domain
            PROVE  x \in reg'[ClockReg(h)][m] <=> x \in reg[ClockReg(h)][m] \/ (x = c /\ h = g /\ m = q)
        <5>1. reg'[ClockReg(h)][m] = IF h = g /\ m = q THEN reg[ClockReg(h)][m] \cup {c}
                                                       ELSE reg[ClockReg(h)][m]
          BY <2>2, <2>6
        <5> QED
          BY <5>1
      <4> QED
        BY <4>1, RunningBits
    <3>2. Running' = Running \cup {c}
      BY <3>1
    <3>3. CASE c \in Running
      BY <2>1, <3>2, <3>3
    <3>4. CASE c \notin Running
      <4>1. Switch!SwitchOn(c)
        BY <2>1, <2>5, <2>6, <3>2, <3>4 DEF Switch!SwitchOn
      <4> QED
        BY <4>1 DEF Switch!Next
    <3> QED
      BY <3>3, <3>4
  <2>7. CASE ~On(t)
    <3>1. \A x : x \in Running' <=> x \in Running /\ x # c
      <4> SUFFICES ASSUME NEW x PROVE x \in Running' <=> x \in Running /\ x # c
        OBVIOUS
      <4>1. ASSUME NEW h \in Half, NEW m \in Domain
            PROVE  x \in reg'[ClockReg(h)][m] <=> x \in reg[ClockReg(h)][m] /\ ~(x = c /\ h = g /\ m = q)
        <5>1. reg'[ClockReg(h)][m] = IF h = g /\ m = q THEN reg[ClockReg(h)][m] \ {c}
                                                       ELSE reg[ClockReg(h)][m]
          BY <2>2, <2>7
        <5> QED
          BY <5>1
      <4>2. \A h \in Half, m \in Domain :
               x \in reg'[ClockReg(h)][m] <=> x \in reg[ClockReg(h)][m] /\ x # c
        BY <2>4, <4>1
      <4> QED
        BY <4>2, RunningBits
    <3>2. Running' = Running \ {c}
      BY <3>1
    <3>3. CASE c \notin Running
      BY <2>1, <3>2, <3>3
    <3>4. CASE c \in Running
      <4>1. Switch!SwitchOff(c)
        BY <2>1, <2>5, <2>7, <3>2, <3>4 DEF Switch!SwitchOff
      <4> QED
        BY <4>1 DEF Switch!Next
    <3> QED
      BY <3>3, <3>4
  <2> QED
    BY <2>3, <2>6, <2>7
<1>2. CASE ~WriteClock(t)
  <2>1. UNCHANGED Running
    BY <1>2, RegistersKept DEF Running, Half, ClockReg
  <2>2. CASE ~CountRef(t)
    BY <2>1, <2>2, CallSteps
  <2>3. CASE CountRef(t)
    <3> PICK c \in Clock, o \in Thread \X Device : c = Clk(t) /\ o = <<t, Dev(t)>>
      BY <2>3, CountSteps, CallTypes
    <3>1. owner' = [owner EXCEPT ![c] = IF On(t) THEN owner[c] \cup {o} ELSE owner[c] \ {o}]
      BY <2>3, CountSteps
    <3>2. owner \in [Clock -> SUBSET (Thread \X Device)] /\ On(t) \in BOOLEAN
      BY CallTypes DEF Core, TypeOK
    <3>3. CASE On(t) /\ o \in owner[c]
      <4>1. owner' = owner
        BY <3>1, <3>2, <3>3
      <4> QED
        BY <2>1, <4>1
    <3>4. CASE On(t) /\ o \notin owner[c]
      <4>1. Switch!Claim(c, o)
        BY <2>1, <3>1, <3>4 DEF Switch!Claim
      <4> QED
        BY <4>1 DEF Switch!Next
    <3>5. CASE ~On(t) /\ o \in owner[c]
      <4>1. Switch!GiveUp(c, o)
        BY <2>1, <3>1, <3>5 DEF Switch!GiveUp
      <4> QED
        BY <4>1 DEF Switch!Next
    <3>6. CASE ~On(t) /\ o \notin owner[c]
      <4>1. owner' = owner
        BY <3>1, <3>2, <3>6
      <4> QED
        BY <2>1, <4>1
    <3> QED
      BY <3>2, <3>3, <3>4, <3>5, <3>6
  <2> QED
    BY <2>2, <2>3
<1> QED
  BY <1>1, <1>2

\* The counts, the lock and the register updates implement the switch, for clock entries
\* that drivers do not share: a clock is never switched off while somebody owns it and
\* never on without an owner.  This is the safety half of ImplementsSwitch.
THEOREM SwitchImplemented == ASSUME Exclusive PROVE Spec => Switch!Safe
<1>1. Init => Switch!Init
  <2> SUFFICES ASSUME Init PROVE Switch!Init
    OBVIOUS
  <2>1. Running = {}
    <3>1. \A m \in Domain : reg["fclken"][m] = {} /\ reg["iclken"][m] = {}
      BY DEF Init, RegName
    <3> QED
      BY <3>1 DEF Running
  <2> QED
    BY <2>1 DEF Init, Switch!Init
<1>2. Init => Client /\ Placed /\ Exclusivity
  <2> SUFFICES ASSUME Init PROVE Client /\ Placed /\ Exclusivity
    OBVIOUS
  <2>1. \A t \in Thread : pc[t] = "idle" /\ ToCount(t) = {}
    BY DEF Init, ToCount, Upd, CriticalLabel
  <2>2. \A c \in Clock : owner[c] = {} /\ ref[c] = 0
    BY DEF Init
  <2>3. RefOwned
    BY <2>2, FS_EmptySet DEF RefOwned
  <2>4. Placed
    BY DEF Init, Placed, RegName, Half, ClockReg
  <2> QED
    BY <2>1, <2>2, <2>3, <2>4 DEF Client, Exclusivity, OwnersAreClients, CountsOwn, UpdatesOwned, Upd,
       CriticalLabel
<1>3. /\ Core /\ Core' /\ Discipline /\ NoLostUpdate /\ AboutToWrite /\ Client /\ Placed /\ Exclusivity
      /\ [Next]_vars
      => Client' /\ Placed' /\ Exclusivity' /\ [Switch!Next]_(Switch!vars)
  <2> SUFFICES ASSUME Core, Core', Discipline, NoLostUpdate, AboutToWrite, Client, Placed, Exclusivity,
                      [Next]_vars
               PROVE  Client' /\ Placed' /\ Exclusivity' /\ [Switch!Next]_(Switch!vars)
    OBVIOUS
  <2>1. CASE UNCHANGED vars
    <3>1. Client' /\ Placed'
      BY <2>1 DEF vars, Client, Dev, Placed, ClockReg, ClockOf
    <3>2. Exclusivity'
      BY <2>1 DEF vars, Exclusivity, RefOwned, OwnersAreClients, CountsOwn, UpdatesOwned, ToCount, Halves,
         Dev, On, Clk, ClockOf
    <3>3. UNCHANGED <<owner, Running>>
      BY <2>1 DEF vars, Running
    <3> QED
      BY <3>1, <3>2, <3>3 DEF Switch!vars
  <2>2. ASSUME NEW t \in Thread, Call(t) \/ Step(t)
        PROVE  Client' /\ Placed' /\ Exclusivity' /\ [Switch!Next]_(Switch!vars)
    <3>1. Client' /\ Placed' /\ Exclusivity'
      BY <2>2, ClientStep, PlacedStep, ExclusiveStep
    <3>2. Switch!Next \/ UNCHANGED <<owner, Running>>
      BY <2>2, SwitchStep
    <3> QED
      BY <3>1, <3>2 DEF Switch!vars
  <2> QED
    BY <2>1, <2>2 DEF Next
<1>4. Careful
  BY DEF Exclusive, Careful
<1>5. Spec => [](Core /\ Discipline /\ AboutToWrite)
  BY <1>4, BitsInvariant, PTL
<1> QED
  BY <1>1, <1>2, <1>3, <1>5, NothingLost, PTL DEF Spec, Switch!Safe
=============================================================================
