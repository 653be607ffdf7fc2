----------------------------- MODULE PrcmDevice -----------------------------
(***************************************************************************)
(* Device clock management of the OMAP3530 PRCM driver (prcm_device.c).    *)
(*                                                                         *)
(* Driver threads switch the functional and the interface clock of their   *)
(* devices on and off.  A clock entry carries a reference count that is    *)
(* changed with Interlocked operations BEFORE the lock Mutex_DeviceClock is *)
(* taken; the thread that saw the count reach 1 (or 0) then takes the lock *)
(* and updates source clocks, domain dependencies and register bits.       *)
(* Registers are shared by all the devices of a domain and are updated by  *)
(* a read and a write (SETREG32, CLRREG32): two steps here.                *)
(***************************************************************************)
EXTENDS Integers, FiniteSets

CONSTANTS
    Thread,          \* driver threads
    Device,          \* rows of s_rgDeviceLookupTable
    Clock,           \* ClockOffsetInfo_2 entries; rows may share one
    Domain,          \* power domains
    Source,          \* source clocks
    NoClock,         \* a NULL pfclk or piclk
    NoThread,        \* the lock is free
    FclkOf, IclkOf,  \* pfclk, piclk of a device
    DomainOf,        \* powerDomain of a device
    SourcesOf,       \* pSrcClocks of a device
    WakeCapable,     \* devices with a pwken entry
    AutoidleCapable, \* devices with a pautoidle entry
    DynamicWake,     \* domains whose MPU wake-up dependency is not required
    DynamicSleep,    \* domains whose MPU sleep dependency is not required
    CoreDevice,      \* devices the wake-up latency code counts as core
    OtherDevice,     \* devices it counts as non-core
    ClientsOf,       \* the threads that use a device
    Calls,           \* the entry points the threads use
    Sloppy           \* TRUE: a thread may disable what it has not enabled

Half    == {"fclk", "iclk"}
RegName == {"fclken", "iclken", "wken", "autoidle"}
Entry   == {"clocks", "fclk", "iclk", "autoidle"}

ClockOf(h, d) == IF h = "fclk" THEN FclkOf[d] ELSE IclkOf[d]

\* A clock entry is a functional or an interface clock of one domain, and only
\* interface clock entries are shared by rows of the table.
ASSUME DeviceTable ==
    /\ FclkOf \in [Device -> Clock \cup {NoClock}] /\ NoClock \notin Clock
    /\ IclkOf \in [Device -> Clock \cup {NoClock}]
    /\ \A d, e \in Device : FclkOf[d] # NoClock => FclkOf[d] # IclkOf[e]
    /\ \A d, e \in Device : d # e /\ FclkOf[d] # NoClock => FclkOf[d] # FclkOf[e]
    /\ \A d, e \in Device : IclkOf[d] # NoClock /\ IclkOf[d] = IclkOf[e]
                              => DomainOf[d] = DomainOf[e]
    /\ DomainOf \in [Device -> Domain]
    /\ SourcesOf \in [Device -> SUBSET Source]
ASSUME DeviceSets ==
    /\ WakeCapable \subseteq Device /\ AutoidleCapable \subseteq Device
    /\ CoreDevice \subseteq Device /\ OtherDevice \subseteq Device
    /\ CoreDevice \cap OtherDevice = {}
    /\ DynamicWake \subseteq Domain /\ DynamicSleep \subseteq Domain
ASSUME Clients ==
    /\ ClientsOf \in [Device -> SUBSET Thread] /\ NoThread \notin Thread
    /\ Calls \subseteq Entry /\ Sloppy \in BOOLEAN
ASSUME Finiteness == IsFiniteSet(Thread) /\ IsFiniteSet(Device) /\ IsFiniteSet(Clock) /\ Device # {}

\* Drivers keep to one of two disciplines: nobody disables what it has not enabled, or
\* every clock entry has one client.
OneClient ==
    \A d, e \in Device, g, h \in Half :
        ClockOf(g, d) # NoClock /\ ClockOf(g, d) = ClockOf(h, e) =>
            \A t \in ClientsOf[d], u \in ClientsOf[e] : t = u
Careful == ~Sloppy \/ OneClient

\* No clock entry is shared by drivers, nor by rows when they may be sloppy.
OneRow ==
    \A d, e \in Device, g, h \in Half :
        ClockOf(g, d) # NoClock /\ ClockOf(g, d) = ClockOf(h, e) => d = e
Exclusive == OneClient /\ (~Sloppy \/ OneRow)

VARIABLES
    pc,        \* where each thread is
    job,       \* its call: entry point, device, bEnable
    half,      \* which of the two clocks it is switching
    tmp,       \* the register value it has read
    mutex,     \* owner of Mutex_DeviceClock
    ref,       \* refCount of a clock entry
    owner,     \* the <<thread, device>> pairs whose enables are not undone
    reg,       \* CM_FCLKEN, CM_ICLKEN, PM_WKEN, CM_AUTOIDLE of each domain
    enabled,   \* devices whose pautoidle->enabled flag is TRUE
    srcRef,    \* refCount of a source clock
    domCount,  \* s_rgActiveDomainDeviceCount
    domRef,    \* refCount of a power domain
    dep,       \* MPU dependencies and CLKSTCTRL of a power domain
    latency    \* _coreDevice, _otherDevice

callVars   == <<pc, job, half, tmp>>
sharedVars == <<mutex, ref, owner, reg, enabled, srcRef, domCount, domRef, dep, latency>>
vars       == <<pc, job, half, tmp, mutex, ref, owner, reg, enabled, srcRef,
                domCount, domRef, dep, latency>>

Label == {"idle", "ai_lock", "ai_read", "ai_write", "check", "count", "lock",
          "source", "domain1", "wk_read", "wk_write", "domain2",
          "read", "write", "end"}

Bit == Clock \cup Device

TypeOK ==
    /\ pc \in [Thread -> Label]
    /\ job \in [Thread -> [call : Entry, dev : Device, on : BOOLEAN]]
    /\ half \in [Thread -> Half]
    /\ tmp \in [Thread -> SUBSET Bit]
    /\ mutex \in Thread \cup {NoThread}
    /\ ref \in [Clock -> Int]
    /\ owner \in [Clock -> SUBSET (Thread \X Device)]
    /\ reg \in [RegName -> [Domain -> SUBSET Bit]]
    /\ enabled \in SUBSET Device
    /\ srcRef \in [Source -> Int]
    /\ domCount \in [Domain -> Nat]
    /\ domRef \in [Domain -> Int]
    /\ dep \in [Domain -> [wake : BOOLEAN, sleep : BOOLEAN, clkst : {"DISABLED", "AUTOMATIC"}]]
    /\ latency \in [core : Nat, other : Nat]

\* A thread that is in no call; its last arguments are forgotten.
NoJob == [call |-> "clocks", dev |-> CHOOSE d \in Device : TRUE, on |-> FALSE]

Init ==
    /\ pc = [t \in Thread |-> "idle"]
    /\ job = [t \in Thread |-> NoJob]
    /\ half = [t \in Thread |-> "fclk"]
    /\ tmp = [t \in Thread |-> {}]
    /\ mutex = NoThread
    /\ ref = [c \in Clock |-> 0]
    /\ owner = [c \in Clock |-> {}]
    /\ reg = [r \in RegName |-> [m \in Domain |-> {}]]
    /\ enabled = {}
    /\ srcRef = [s \in Source |-> 0]
    /\ domCount = [m \in Domain |-> 0]
    /\ domRef = [m \in Domain |-> 0]
    /\ dep = [m \in Domain |-> [wake |-> FALSE, sleep |-> FALSE, clkst |-> "DISABLED"]]
    /\ latency = [core |-> 0, other |-> 0]

-----------------------------------------------------------------------------
(* Abbreviations for the call a thread is in                               *)

Dev(t)     == job[t].dev
On(t)      == job[t].on
Dom(t)     == DomainOf[Dev(t)]
Clk(t)     == ClockOf(half[t], Dev(t))
GoTo(t, l) == pc' = [pc EXCEPT ![t] = l]

\* The clocks a call switches; entries that are NULL are skipped.
Halves(j) == {h \in Half : ClockOf(h, j.dev) # NoClock /\ j.call \in {"clocks", h}}

Return(t) ==
    /\ GoTo(t, "idle")
    /\ job' = [job EXCEPT ![t] = NoJob]
    /\ half' = [half EXCEPT ![t] = "fclk"]

\* Thread t, in the call j, turns to the halves H that are left to do: the
\* functional clock first; when none is left the call returns.
Proceed(t, j, H) ==
    \/ /\ H # {}
       /\ half' = [half EXCEPT ![t] = IF "fclk" \in H THEN "fclk" ELSE "iclk"]
       /\ GoTo(t, IF j.on THEN "count" ELSE "check")
       /\ job' = [job EXCEPT ![t] = j]
    \/ H = {} /\ Return(t)

NextHalf(t) == Proceed(t, job[t], Halves(job[t]) \ {"fclk", half[t]})

\* SETREG32 and CLRREG32 on a register of the domain: the register is read and bit
\* x changed in the value read; a later step writes that value back.
ReadBit(t, r, x, b) ==
    tmp' = [tmp EXCEPT ![t] = IF b THEN reg[r][Dom(t)] \cup {x} ELSE reg[r][Dom(t)] \ {x}]
WriteBack(t, r) ==
    /\ reg' = [reg EXCEPT ![r][Dom(t)] = tmp[t]]
    /\ tmp' = [tmp EXCEPT ![t] = {}]

ClockReg(h) == IF h = "fclk" THEN "fclken" ELSE "iclken"

-----------------------------------------------------------------------------
(* The driver calls an entry point.                                        *)

\* A disciplined thread enables what it does not own and disables what it owns;
\* a sloppy one also disables what it does not own.
MayCall(t, j) ==
    /\ t \in ClientsOf[j.dev]
    /\ j.call \in Calls
    /\ j.call = "autoidle" => j.dev \in AutoidleCapable
    /\ \A h \in Halves(j) :
         IF j.on THEN <<t, j.dev>> \notin owner[ClockOf(h, j.dev)]
                 ELSE Sloppy \/ <<t, j.dev>> \in owner[ClockOf(h, j.dev)]

\* PrcmDeviceEnableFClock writes the autoidle bit first, outside the lock.
Call(t) ==
    /\ pc[t] = "idle"
    /\ \E j \in [call : Calls, dev : Device, on : BOOLEAN] :
         /\ MayCall(t, j)
         /\ \/ /\ j.call = "autoidle"
               /\ GoTo(t, "ai_lock")
               /\ job' = [job EXCEPT ![t] = j]
               /\ UNCHANGED half
            \/ /\ j.call \in {"clocks", "fclk"} /\ j.dev \in AutoidleCapable
               /\ GoTo(t, "ai_read")
               /\ job' = [job EXCEPT ![t] = j]
               /\ UNCHANGED half
            \/ /\ \/ j.call = "iclk"
                  \/ j.call \in {"clocks", "fclk"} /\ j.dev \notin AutoidleCapable
               /\ Proceed(t, j, Halves(j))
    /\ UNCHANGED <<tmp, sharedVars>>

-----------------------------------------------------------------------------
(* Autoidle                                                                *)

\* PrcmDeviceEnableAutoIdle takes the lock and sets the flag ...
AutoidleLock(t) ==
    /\ pc[t] = "ai_lock" /\ mutex = NoThread
    /\ mutex' = t
    /\ enabled' = IF On(t) THEN enabled \cup {Dev(t)} ELSE enabled \ {Dev(t)}
    /\ GoTo(t, "ai_read")
    /\ UNCHANGED <<job, half, tmp, ref, owner, reg, srcRef, domCount, domRef, dep, latency>>

\* ... and _PrcmDeviceHwUpdateAutoidle copies the flag into the register, here under
\* the lock, in PrcmDeviceEnableFClock without it.
AutoidleRead(t) ==
    /\ pc[t] = "ai_read"
    /\ ReadBit(t, "autoidle", Dev(t), Dev(t) \in enabled)
    /\ GoTo(t, "ai_write")
    /\ UNCHANGED <<job, half, sharedVars>>

AutoidleWrite(t) ==
    /\ pc[t] = "ai_write"
    /\ WriteBack(t, "autoidle")
    /\ \/ job[t].call = "autoidle" /\ mutex' = NoThread /\ Return(t)
       \/ job[t].call # "autoidle" /\ Proceed(t, job[t], Halves(job[t])) /\ UNCHANGED mutex
    /\ UNCHANGED <<ref, owner, enabled, srcRef, domCount, domRef, dep, latency>>

-----------------------------------------------------------------------------
(* The reference count: Interlocked operations, no lock                    *)

\* Mutant: a disable does not look at the count.
CheckRef_NoGuard(t) ==
    /\ pc[t] = "check"
    /\ GoTo(t, "count")
    /\ UNCHANGED <<job, half, tmp, sharedVars>>

\* A disable first looks at the count and gives up unless it is positive.
CheckRef(t) ==
    /\ pc[t] = "check"
    /\ \/ ref[Clk(t)] > 0 /\ GoTo(t, "count") /\ UNCHANGED <<job, half>>
       \/ ref[Clk(t)] <= 0 /\ NextHalf(t)
    /\ UNCHANGED <<tmp, sharedVars>>

\* Mutant: the last disable is expected at a count of one.
CountRef_OffByOne(t) ==
    LET c == Clk(t)
        n == IF On(t) THEN ref[c] + 1 ELSE ref[c] - 1
        o == <<t, Dev(t)>>
    IN  /\ pc[t] = "count"
        /\ ref' = [ref EXCEPT ![c] = n]
        /\ owner' = [owner EXCEPT ![c] = IF On(t) THEN @ \cup {o} ELSE @ \ {o}]
        /\ \/ n = 1 /\ GoTo(t, "lock") /\ UNCHANGED <<job, half>>
           \/ n # 1 /\ NextHalf(t)
        /\ UNCHANGED <<tmp, mutex, reg, enabled, srcRef, domCount, domRef, dep, latency>>

\* InterlockedIncrement or InterlockedDecrement.  The thread that makes the first
\* reference or drops the last one goes on to update the hardware.
CountRef(t) ==
    LET c == Clk(t)
        n == IF On(t) THEN ref[c] + 1 ELSE ref[c] - 1
        o == <<t, Dev(t)>>
    IN  /\ pc[t] = "count"
        /\ ref' = [ref EXCEPT ![c] = n]
        /\ owner' = [owner EXCEPT ![c] = IF On(t) THEN @ \cup {o} ELSE @ \ {o}]
        /\ \/ n = (IF On(t) THEN 1 ELSE 0) /\ GoTo(t, "lock") /\ UNCHANGED <<job, half>>
           \/ n # (IF On(t) THEN 1 ELSE 0) /\ NextHalf(t)
        /\ UNCHANGED <<tmp, mutex, reg, enabled, srcRef, domCount, domRef, dep, latency>>

\* Lock(Mutex_DeviceClock)
Acquire(t) ==
    /\ pc[t] = "lock" /\ mutex = NoThread
    /\ mutex' = t
    /\ GoTo(t, IF half[t] = "iclk" THEN "domain1" ELSE IF On(t) THEN "source" ELSE "read")
    /\ UNCHANGED <<job, half, tmp, ref, owner, reg, enabled, srcRef, domCount, domRef,
                   dep, latency>>

-----------------------------------------------------------------------------
(* The hardware update, under the lock                                     *)

\* Mutant: a disable switches a source off instead of counting down.
UpdateSources_NotCounted(d, b) ==
    srcRef' = [s \in Source |-> IF s \notin SourcesOf[d] THEN srcRef[s]
                                ELSE IF b THEN srcRef[s] + 1 ELSE 0]

\* _PrcmUpdateDeviceClockSource
UpdateSources(d, b) ==
    srcRef' = [s \in Source |-> IF s \notin SourcesOf[d] THEN srcRef[s]
                                ELSE IF b THEN srcRef[s] + 1 ELSE srcRef[s] - 1]

\* An enabled functional clock gets its source clocks first.
EnableSources(t) ==
    /\ pc[t] = "source"
    /\ UpdateSources(Dev(t), TRUE)
    /\ GoTo(t, "read")
    /\ UNCHANGED <<job, half, tmp, mutex, ref, owner, reg, enabled, domCount, domRef,
                   dep, latency>>

\* Mutant: enable and disable are exchanged, and there is no lower limit.
DeviceEnabled_Exchanged(d, b) ==
    LET step(n) == IF b THEN n - 1 ELSE n + 1
    IN  latency' = [core  |-> IF d \in CoreDevice THEN step(latency.core) ELSE latency.core,
                    other |-> IF d \in OtherDevice THEN step(latency.other) ELSE latency.other]

\* Mutant: a disable resets the counter.
DeviceEnabled_Reset(d, b) ==
    LET step(n) == IF b THEN n + 1 ELSE 0
    IN  latency' = [core  |-> IF d \in CoreDevice THEN step(latency.core) ELSE latency.core,
                    other |-> IF d \in OtherDevice THEN step(latency.other) ELSE latency.other]

\* OALWakeupLatency_DeviceEnabled: a counter never goes below zero.
DeviceEnabled(d, b) ==
    LET step(n) == IF b THEN n + 1 ELSE IF n > 0 THEN n - 1 ELSE n
    IN  latency' = [core  |-> IF d \in CoreDevice THEN step(latency.core) ELSE latency.core,
                    other |-> IF d \in OtherDevice THEN step(latency.other) ELSE latency.other]

\* _PrcmDeviceEnableFClock and _PrcmDeviceEnableIClock: the register bit; a functional
\* clock then reports to the wake-up latency code.
ReadClock(t) ==
    /\ pc[t] = "read"
    /\ ReadBit(t, ClockReg(half[t]), Clk(t), On(t))
    /\ GoTo(t, "write")
    /\ UNCHANGED <<job, half, sharedVars>>

WriteClock(t) ==
    /\ pc[t] = "write"
    /\ WriteBack(t, ClockReg(half[t]))
    /\ IF half[t] = "fclk" THEN DeviceEnabled(Dev(t), On(t)) ELSE UNCHANGED latency
    /\ GoTo(t, "end")
    /\ UNCHANGED <<job, half, mutex, ref, owner, enabled, srcRef, domCount, domRef, dep>>

\* _PrcmDeviceAddrefDeviceDomain: the first reference of a domain makes the MPU depend
\* on it and wakes its clock domain up.
Addref(m) ==
    /\ domCount' = [domCount EXCEPT ![m] = @ + 1]
    /\ dep' = IF domCount[m] # 0 THEN dep
              ELSE [dep EXCEPT ![m] =
                     [wake  |-> @.wake  \/ m \in DynamicWake,
                      sleep |-> @.sleep \/ m \in DynamicSleep,
                      clkst |-> IF m \in DynamicWake THEN "AUTOMATIC" ELSE @.clkst]]

\* _PrcmDeviceReleaseDeviceDomain: the last reference undoes it.
Release(m) ==
    /\ domCount' = [domCount EXCEPT ![m] = IF @ # 0 THEN @ - 1 ELSE 0]
    /\ dep' = IF domCount[m] # 1 THEN dep
              ELSE [dep EXCEPT ![m] =
                     [wake  |-> @.wake  /\ m \notin DynamicWake,
                      sleep |-> @.sleep /\ m \notin DynamicSleep,
                      clkst |-> IF m \in DynamicSleep THEN "AUTOMATIC" ELSE @.clkst]]

\* PrcmDeviceEnableIClock counts the domain once, ...
CountDomain(t) ==
    /\ pc[t] = "domain1"
    /\ IF On(t) THEN Addref(Dom(t)) ELSE Release(Dom(t))
    /\ GoTo(t, IF Dev(t) \in WakeCapable THEN "wk_read"
               ELSE IF On(t) THEN "domain2" ELSE "read")
    /\ UNCHANGED <<job, half, tmp, mutex, ref, owner, reg, enabled, srcRef, domRef, latency>>

\* ... switches the wake-up bit (_PrcmDeviceEnableWakeUp) ...
ReadWakeUp(t) ==
    /\ pc[t] = "wk_read"
    /\ ReadBit(t, "wken", Dev(t), On(t))
    /\ GoTo(t, "wk_write")
    /\ UNCHANGED <<job, half, sharedVars>>

\* Mutant: the lock is released after the wake-up bit is written.
WriteWakeUp_UnlockEarly(t) ==
    /\ pc[t] = "wk_write"
    /\ WriteBack(t, "wken")
    /\ GoTo(t, IF On(t) THEN "domain2" ELSE "read")
    /\ mutex' = NoThread
    /\ UNCHANGED <<job, half, ref, owner, enabled, srcRef, domCount, domRef, dep, latency>>

WriteWakeUp(t) ==
    /\ pc[t] = "wk_write"
    /\ WriteBack(t, "wken")
    /\ GoTo(t, IF On(t) THEN "domain2" ELSE "read")
    /\ UNCHANGED <<job, half, mutex, ref, owner, enabled, srcRef, domCount, domRef, dep,
                   latency>>

\* Mutant: the domain is not counted a second time.
CountDomainAgain_Dropped(t) ==
    /\ pc[t] = "domain2"
    /\ GoTo(t, "read")
    /\ UNCHANGED <<job, half, tmp, sharedVars>>

\* ... and _PrcmDeviceEnableIClock counts it a second time, before it sets the bit.
CountDomainAgain(t) ==
    /\ pc[t] = "domain2"
    /\ Addref(Dom(t))
    /\ GoTo(t, "read")
    /\ UNCHANGED <<job, half, tmp, mutex, ref, owner, reg, enabled, srcRef, domRef, latency>>

\* Mutant: the lock is not released.
Finish_NoUnlock(t) ==
    /\ pc[t] = "end"
    /\ IF half[t] = "fclk"
       THEN /\ IF On(t) THEN UNCHANGED srcRef ELSE UpdateSources(Dev(t), FALSE)
            /\ domRef' = [domRef EXCEPT ![Dom(t)] = IF On(t) THEN @ + 1 ELSE @ - 1]
            /\ UNCHANGED <<domCount, dep>>
       ELSE /\ IF On(t) THEN UNCHANGED <<domCount, dep>> ELSE Release(Dom(t))
            /\ UNCHANGED <<srcRef, domRef>>
    /\ NextHalf(t)
    /\ UNCHANGED <<tmp, mutex, ref, owner, reg, enabled, latency>>

\* Mutant: the source clocks are not given back.
Finish_KeepSources(t) ==
    /\ pc[t] = "end"
    /\ IF half[t] = "fclk"
       THEN /\ domRef' = [domRef EXCEPT ![Dom(t)] = IF On(t) THEN @ + 1 ELSE @ - 1]
            /\ UNCHANGED <<srcRef, domCount, dep>>
       ELSE /\ IF On(t) THEN UNCHANGED <<domCount, dep>> ELSE Release(Dom(t))
            /\ UNCHANGED <<srcRef, domRef>>
    /\ mutex' = NoThread
    /\ NextHalf(t)
    /\ UNCHANGED <<tmp, ref, owner, reg, enabled, latency>>

\* After the bit is cleared a functional clock gives its source clocks back and an
\* interface clock the second count of its domain; PrcmDomainUpdateRefCount; Unlock.
Finish(t) ==
    /\ pc[t] = "end"
    /\ IF half[t] = "fclk"
       THEN /\ IF On(t) THEN UNCHANGED srcRef ELSE UpdateSources(Dev(t), FALSE)
            /\ domRef' = [domRef EXCEPT ![Dom(t)] = IF On(t) THEN @ + 1 ELSE @ - 1]
            /\ UNCHANGED <<domCount, dep>>
       ELSE /\ IF On(t) THEN UNCHANGED <<domCount, dep>> ELSE Release(Dom(t))
            /\ UNCHANGED <<srcRef, domRef>>
    /\ mutex' = NoThread
    /\ NextHalf(t)
    /\ UNCHANGED <<tmp, ref, owner, reg, enabled, latency>>

-----------------------------------------------------------------------------
Step(t) == \/ AutoidleLock(t) \/ AutoidleRead(t) \/ AutoidleWrite(t)
           \/ CheckRef(t) \/ CountRef(t) \/ Acquire(t)
           \/ EnableSources(t) \/ ReadClock(t) \/ WriteClock(t)
           \/ CountDomain(t) \/ ReadWakeUp(t) \/ WriteWakeUp(t) \/ CountDomainAgain(t)
           \/ Finish(t)

Next == \E t \in Thread : Call(t) \/ Step(t)

Spec == Init /\ [][Next]_vars

\* A thread in a call is scheduled; a thread that waits for the lock gets it after
\* finitely many releases (waiters of a critical section are queued).
Fairness == \A t \in Thread : /\ WF_vars(Step(t))
                              /\ SF_vars(Acquire(t)) /\ SF_vars(AutoidleLock(t))
FairSpec == Spec /\ Fairness

-----------------------------------------------------------------------------
(* Vocabulary of the properties                                            *)

CriticalLabel == {"source", "domain1", "wk_read", "wk_write", "domain2", "read", "write", "end"}

\* Thread t is between Lock and Unlock.
InCritical(t) == \/ pc[t] \in CriticalLabel
                 \/ pc[t] \in {"ai_read", "ai_write"} /\ job[t].call = "autoidle"

\* Thread t has moved the count of c across the edge and not yet finished the
\* hardware update that follows.
Updating(t, c, b) == /\ pc[t] \in CriticalLabel \cup {"lock"}
                     /\ Clk(t) = c /\ On(t) = b

Updated(c) == \A t \in Thread : \A b \in BOOLEAN : ~Updating(t, c, b)

FclkDevice == {d \in Device : FclkOf[d] # NoClock}
BitOn(h, d) == ClockOf(h, d) \in reg[ClockReg(h)][DomainOf[d]]

\* The threads that have counted a clock of C on, or off, and are at a label of L.
Enabling(C, L)  == {t \in Thread : pc[t] \in L /\ Clk(t) \in C /\ On(t)}
Disabling(C, L) == {t \in Thread : pc[t] \in L /\ Clk(t) \in C /\ ~On(t)}
InUse(C)        == {c \in C : ref[c] > 0}

\* The counter n is changed once by every update of a clock in C, when the thread
\* leaves the labels "on" (or "off"): it counts the clocks of C in use, up to the
\* updates that have not reached it.
Conserved(n, C, on, off) ==
    n + Cardinality(Enabling(C, on)) = Cardinality(InUse(C)) + Cardinality(Disabling(C, off))

FclksOf(D) == {FclkOf[d] : d \in D \cap FclkDevice}
IclksIn(m) == {IclkOf[d] : d \in {e \in Device : DomainOf[e] = m}} \ {NoClock}

-----------------------------------------------------------------------------
(* Safety                                                                  *)

\* Lock and Unlock pair up: exactly the owner of Mutex_DeviceClock is in the locked
\* part of an entry point, on every path through it.
MutualExclusion == \A t \in Thread : InCritical(t) <=> mutex = t

\* The read-modify-write of a clock or wake-up register under the lock loses no
\* update of another device: what is written back differs from the register in
\* the thread's own bit only.
NoLostUpdate ==
    \A t \in Thread :
      /\ pc[t] = "write" =>
           \A x \in Bit \ {Clk(t)} : x \in tmp[t] <=> x \in reg[ClockReg(half[t])][Dom(t)]
      /\ pc[t] = "wk_write" =>
           \A x \in Bit \ {Dev(t)} : x \in tmp[t] <=> x \in reg["wken"][Dom(t)]

\* A functional clock that runs has all its source clocks referenced: they are
\* enabled before the bit is set and given back after it is cleared, and no other
\* device's release takes the reference away.
SourcesOfRunningClock ==
    \A d \in FclkDevice : BitOn("fclk", d) => \A s \in SourcesOf[d] : srcRef[s] > 0

\* While an interface clock bit is set its domain is counted and the MPU's dynamic
\* dependencies on it are in place, so that the domain cannot sleep under it.
DomainOfRunningClock ==
    \A d \in Device : IclkOf[d] # NoClock /\ BitOn("iclk", d) =>
        LET m == DomainOf[d]
        IN  /\ domCount[m] > 0
            /\ m \in DynamicWake => dep[m].wake
            /\ m \in DynamicSleep => dep[m].sleep

\* Everything a running clock needs is there, whatever the neighbours that share the
\* source clocks and the domain are doing.
Supplied == SourcesOfRunningClock /\ DomainOfRunningClock

\* At rest - no update of the clock under way - a clock with references runs.  It
\* fails when two threads refer to one clock entry: the last disable and the next
\* enable change the count in one order and take the lock in the other.
ReferencedClockRuns ==
    \A h \in Half, d \in Device :
        /\ ClockOf(h, d) # NoClock
        /\ ref[ClockOf(h, d)] > 0 /\ Updated(ClockOf(h, d))
        => BitOn(h, d)

\* No power leak: a clock without references, with no update under way, is off.
UnownedClockStops ==
    \A h \in Half, d \in Device :
        /\ ClockOf(h, d) # NoClock
        /\ ref[ClockOf(h, d)] = 0 /\ Updated(ClockOf(h, d))
        => ~BitOn(h, d)

\* References to source clocks are conserved: a source clock is counted once for
\* every device whose functional clock is in use; nothing leaks and nothing is
\* given back twice, whatever the order of the updates.
SourceRefsConserved ==
    \A s \in Source :
        Conserved(srcRef[s], FclksOf({d \in Device : s \in SourcesOf[d]}),
                  {"lock", "source"}, {"lock", "read", "write", "end"})

\* So are the counters from which OEMIdle chooses how deep to sleep ...
LatencyConserved ==
    LET before == {"lock", "source", "read", "write"}
    IN  /\ Conserved(latency.core, FclksOf(CoreDevice), before, before)
        /\ Conserved(latency.other, FclksOf(OtherDevice), before, before)

\* ... and the reference count of a power domain; the count of active interface
\* clocks has two references from each.
DomainRefsConserved ==
    \A m \in Domain :
        /\ Conserved(domRef[m], FclksOf({d \in Device : DomainOf[d] = m}),
                     CriticalLabel \cup {"lock"}, CriticalLabel \cup {"lock"})
        /\ LET C     == IclksIn(m)
               one   == {"lock", "domain1"}
               twoOn == one \cup {"wk_read", "wk_write", "domain2"}
           IN  domCount[m] + Cardinality(Enabling(C, one)) + Cardinality(Enabling(C, twoOn))
                 = 2 * Cardinality(InUse(C)) + Cardinality(Disabling(C, one))
                     + Cardinality(Disabling(C, CriticalLabel \cup {"lock"}))

\* Outside the calls that touch it, a device's autoidle bit says what its flag says.  It
\* fails when two threads write one register: PrcmDeviceEnableFClock does so without the
\* lock, and writes back what it read before a neighbour's call for autoidle.
AutoidleFollowsFlag ==
    \A d \in AutoidleCapable :
        (\A t \in Thread : pc[t] \in {"ai_read", "ai_write"} => Dev(t) # d)
          => (d \in reg["autoidle"][DomainOf[d]] <=> d \in enabled)

-----------------------------------------------------------------------------
(* Liveness                                                                *)

\* Every call of an entry point returns: the lock is never kept and never waited
\* for in a cycle.
CallsReturn == \A t \in Thread : pc[t] # "idle" ~> pc[t] = "idle"

-----------------------------------------------------------------------------
(* Refinement: for clocks that one thread drives the counts, the lock and   *)
(* the register updates implement the switch of ClockSwitch.                *)

Running == UNION {reg["fclken"][m] \cup reg["iclken"][m] : m \in Domain}

Switch == INSTANCE ClockSwitch WITH Owner <- Thread \X Device, running <- Running

\* A clock is never switched off while a driver owns it, goes on after it has been
\* claimed and off after the last owner has given it up.
ImplementsSwitch == Switch!Spec
=============================================================================
