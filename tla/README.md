# The Z2170P board support package: TLA+ models and proofs

The repository is a Windows CE board support package for the Z2170P, a board with a TI
OMAP3530. Most of it is drivers that move data. The part with intricate shared state is what
many drivers use at the same time: the PRCM code of the kernel image (OAL), which switches the
clocks of every device, counts who uses what and decides how deep the chip may sleep; the timer
and the interrupts under it; the arbitration of operating modes above it; and the DMA channels.
A mistake there does not show up as a wrong answer but as a device that stops now and then, an
interrupt that never comes, or a battery that is empty too soon. This directory models that part.

Paths below are relative to `src/`; `PRCM/` stands for
`COMMON/SRC/SOC/COMMON_TI_V1/OMAP3530/OAL/PRCM/`, `COMMON_TI/` for
`COMMON/SRC/SOC/COMMON_TI_V1/COMMON_TI/`, `OALLIB/` for `Z2170P/SRC/OAL/OALLIB/`.

| Module | Contents |
| --- | --- |
| `PrcmDevice` | device clocks: reference counts, locks, registers, autoidle, domain and source counts |
| `ClockSwitch` | what the device clock calls promise a driver (abstract specification) |
| `PrcmClockTree` | source clocks, DPLL outputs, DPLLs, voltage domains; moving a clock to another parent |
| `WakeupLatency` | the state that idle and suspend choose; the power state registers around a sleep |
| `GpTimer` | the tick: next match, margin, wrap of the counter, posted writes, reading the time |
| `OalInterrupt` | SYSINTR allocation, masks of controller and GPIO banks, wake-up, interrupt threads |
| `DvfsConstraint` | requests for operating modes, the mode in force, devices told before and after |
| `Sdma` | DMA channels, their interrupts, lines dedicated to one client |
| `ChannelPool` | what channel reservation promises (abstract specification) |
| `PrcmDevice_proofs`, `PrcmSupply_proofs`, `PrcmClockTree_proofs`, `WakeupLatency_proofs`, `DvfsConstraint_proofs`, `GpTimer_proofs`, `OalInterrupt_proofs`, `Sdma_proofs` | theorems for every value of the constants |
| `MCPrcmDevice`, `MCPrcmClockTree`, `MCWakeupLatency`, `MCGpTimer`, `MCDvfsConstraint`, `MCSdma` | rows of the code's tables, small instances for TLC |

`PROJECT.json` names for every definition the lines it models, and lists components, runs,
hazards, findings and theorems.

## 1. Inventory

### Power management core

**Device clocks** (`PRCM/prcm_device.c`, `prcm_device.h`, `prcm_priv.h`).
State: for each device a row of `s_rgDeviceLookupTable` that points to a functional and an
interface clock entry (bit, register, `refCount`), wake-up and autoidle bits, source clocks,
and a power domain; the registers `CM_FCLKEN`, `CM_ICLKEN`, `PM_WKEN`, `CM_AUTOIDLE`, each
shared by the devices of a domain; `s_rgActiveDomainDeviceCount`; the lock `Mutex_DeviceClock`.
Operations: `PrcmDeviceEnableFClock`, `...EnableIClock`, `...EnableClocks`, `...EnableAutoIdle`,
`...SetSourceClocks`, `...EnableClocksKernel` for the power-off path. Callers: every driver
(through IOCTLs or the SOC library) and the OAL. Hard: the counts are changed with Interlocked
operations outside the lock, the hardware after them under it; registers are read, changed and
written; rows of the table share interface clock entries; a domain is counted in two functions.
Correct means: a clock a driver has enabled runs and has its source clocks and its domain; a
clock without users is off; no update is lost; counts are conserved; calls return.

**Clock tree** (`PRCM/prcm_clock.c`).
State: parent and `refCount` of each source clock, DPLL output, DPLL and voltage domain;
divisors; selection registers; `Mutex_Clock`. Operations: `ClockUpdateParentClock`,
`PrcmClockSetParent`, `PrcmClockSetDivisor`, DPLL calls. Called by the device clocks under
`Mutex_DeviceClock`, and by the clock IOCTL without it. Hard: a recursive walk over counts that
are ordinary variables; moving a clock that is in use. Correct means: counts are the number of
users, a clock in use is supplied up to its voltage domain, moving does not interrupt it.

**Power domains** (`PRCM/prcm_domain.c`, `.h`).
State: power state, logic and memory states, clock state (`CLKSTCTRL`), dependencies,
`refCount`; `Mutex_Domain`. Operations: `PrcmDomainSetPowerState`, `...SetClockState`,
wake-up and sleep dependencies. Called by the device clocks (inside their lock) and IOCTLs.
Hard: state is read before the lock and used after it is released. Correct means: a domain is in
the state last asked for when no wake-up is forced, and a dependency is there exactly
while something needs it.

**Wake-up latency, idle, suspend** (`OALLIB/oem_latency.c`, `OALLIB/oem_prcm_device.c`,
`OEMIdle` in `COMMON_TI/OAL/OMAP_GTP_TIMER/TIMER/timer.c`, `PrcmSuspend` in `PRCM/prcm.c`).
State: what the module has heard of domains, devices and operating points; the table of
latencies; the constraint; saved registers. Operations: the notifications, the choice of a state,
push and pop of the registers. Hard: the decision rests on copies of state kept up to date by
others; it must respect the next timer interrupt and a latency constraint. Correct means: a sleep
never takes power that was asked for, ends in time, and leaves no trace.

**System timer** (same `timer.c`).
State: `g_oalTimerContext` (time of the last interrupt in 64 bits and as a counter value, next
match), `CurMSec`, `dwReschedTime`; counter, match and status registers. Operations: the interrupt
handler, `OALTimerUpdateRescheduleTime`, `UpdatePeriod`, `OEMIdle`, `OEMGetTickCount`. Hard: the
three that set the next match each compute it in words that wrap while the counter runs; a
match that is missed comes back after 36 hours. Correct means: the match is ahead and near, the
kernel is called when it asked to be, the time read is the time.

**Operating points and SmartReflex** (`OALLIB/opp_map.c`, `OMAP3530/OAL/SR/oal_sr.c`):
current operating point of two supplies, order of voltage and frequency, sensors suspended
around a change. Correct means: the frequency never exceeds what the voltage allows.

**Interrupts** (`COMMON_TI/OAL/OMAP_INTR/`, `OALLIB/oem_intrex.c`, `oem_padwakeup.c`).
State: the tables between IRQs and SYSINTR values, the masks of the controller, enable and wake-up
bits of the GPIO banks. Operations: request and release of a SYSINTR, enable, done, disable, the
handler. Callers: every driver with an interrupt, and the kernel. Hard: the handler comes between
any two register writes; the tables have no lock; pins of a bank share a line. Correct means: an
interrupt is masked until its driver is done, never masked and forgotten, never unmasked for
nobody; a pin somebody waits for wakes the processor.

**IOCTLs** (`OALLIB/oem_pm.c`, `ioctl.c`): the entry from user mode to all of these.

### Policy layer

**Constraints and policies** (`COMMON_TI/PM/CONSTRAINTROOT`, `POWERPOLICYROOT`,
`COMMON_TI/PM/CONSTRAINTADAPTERS`, `OMAP3530/PM/CONSTRAINTADAPTERS`).
State: what each client asks for, how many ask for each mode, a forced mode, the mode in force.
Operations: create, update, force, close; the choice and the change under the adapter's lock. Hard:
part of an update runs without the lock; a change may fail half-way. Correct means: the strongest
request in force wins, and withdrawing it restores the next one.
**DVFS notification and load policies** (`DEVICEMEDIATOR`, `POLICYADAPTERS`, `dvfslist.cpp`): devices
told before and after a change, some of which answer with an event when their DMA has stopped. Hard: the wait
has a limit and races with the answer. Correct means: nothing switches before the devices have
answered, and the kernel and the adapter agree on what is in force.

### Buses and drivers with protocols of their own

**SDMA** (`COMMON_TI/SDMA`, `COMMON_TI/CEDDK/DMA`).
State: the channels in use, the channels with an event, enable and status registers, the channels
of each dedicated line, a count that forbids standby. Operations: reserve, register, done, release,
the interrupt thread, the same for a line. Hard: the interrupt thread does not take the lock of
the IOCTLs; status is cleared by writing ones; a reservation of several channels may run out.
Correct means: a channel has one owner, what nobody owns is quiet, no interrupt is lost.

**OAL I2C** (polled, retries, time-outs, a lock that is bypassed before post-initialisation),
**SD host** (insertion, cancelled requests), **HDQ** (byte protocol with time-outs), **USB** (OTG
role switch).

### Left aside

GPIO, SPI, McBSP, serial, display, camera, audio, touch, keypad, RTC, Ethernet, NAND: register
access and data paths behind the operating system's driver models. Three of them appear as the
users of what is modelled: the SPI driver stops its DMA for a change of mode (`DvfsConstraint`) and
drives a DMA channel (`Sdma`), the GPIO driver and the card-detect thread of the SD host open, serve and
close an interrupt (`OalInterrupt`). The power manager is the
operating system's sample. Boot loader, KITL and start-up are sequential I/O. Applications are
clients. The AM3517 port is not built for this board.

### Interactions

```
 drivers ── enable/disable ──> device clocks ── counts ──> clock tree <── IOCTL: set source
    |                             |      \── functional clock on/off ──> wake-up latency
    |                             \── domain counts, dependencies ─> power domains
 policies ── constraints ── IOCTLs ──> power domains ── state asked ──> wake-up latency
                                  \──> operating points ── opp ──────> wake-up latency
 DVFS constraint ── before / after ──> SPI ── reserve, register ──> SDMA ── events ──> SPI
 hardware ── lines ──> handler ── SYSINTR ──> interrupt threads (GPIO, SD, SDMA) ── done ──> masks
 timer: OEMIdle ── which state? ──> wake-up latency ── push / pop ──> PM_PWSTCTRL registers
```

Shared state with more than one writer is exactly where the modules look: the `refCount`s,
the shared registers, the counts of the tree, the view of the latency module, the timer's context, the
interrupt tables and masks, the table of requests, the DMA status.

## 2. Plan

Order, most important first. Done:

1. `PrcmDevice` with `ClockSwitch` as its abstract specification, and its proofs.
2. `PrcmClockTree`, composed with the device calls by the lock they hold and the references they
   take, and its proofs.
3. `WakeupLatency`, and its proofs.
4. `DvfsConstraint`: aggregation of requests composed with the two-phase notification and the SPI
   driver that answers it, and its proofs.
5. `GpTimer`: match, margin and wrap; it confirms what `WakeupLatency` takes for granted, that the
   match `OEMIdle` looks at is ahead; and its proofs.
6. `OalInterrupt`: tables, masks, GPIO pins, wake-up, composed with the drivers, and its proofs.
7. `Sdma` with `ChannelPool` as its abstract specification, and its proofs, the refinement among them.

Left, in this order:

8. `PrcmDomain`: the reads of `PrcmDomainSetPowerState` before its lock, the read-modify-write
   of `CLKSTCTRL` outside any lock, the forced wake-up. What happens then depends on how fast the
   hardware changes a domain's state, which the code only polls.
9. `OppSwitch` (order of voltage and frequency, SmartReflex) against "frequency within voltage", and
   `ClockDivisor`.
10. `OalI2c`, HDQ, SD host requests, OTG: decided by status bits of controllers.

Runs: one that passes for each instance that asks something different, on two threads and the smallest
rows of the tables in which the sharing in question happens; safety, refinement and liveness of one
instance share a run. Theorems: every invariant that a passing run checks is to be a theorem for all values of the
constants, with the discipline of the callers that it needs stated as a named hypothesis; that is done.

## 3. The modules

### PrcmDevice

Threads call the entry points; `pc`, `job`, `half` and `tmp` are a thread's place, arguments,
current clock and the register value it has read. One action per step that others can observe:

| Action | Code |
| --- | --- |
| `Call` | `PrcmDeviceEnableFClock`, `...IClock`, `...Clocks` (functional clock first) are entered |
| `AutoidleLock`, `AutoidleRead`, `AutoidleWrite` | `PrcmDeviceEnableAutoIdle`; the last two also start `PrcmDeviceEnableFClock`, there without the lock |
| `CheckRef`, `CountRef` | the test `refCount > 0` of a disable; the Interlocked operation |
| `Acquire` | `Lock(Mutex_DeviceClock)` by the thread that crossed the edge |
| `EnableSources` | source clocks of an enabled functional clock |
| `CountDomain`, `ReadWakeUp`, `WriteWakeUp`, `CountDomainAgain` | `PrcmDeviceEnableIClock` and `_PrcmDeviceEnableIClock` |
| `ReadClock`, `WriteClock` | `SETREG32`/`CLRREG32` on the enable register, and the notification of the latency module |
| `Finish` | what a disable gives back, `PrcmDomainUpdateRefCount`, `Unlock` |

`owner` is not in the code: it records who made the references. `ClientsOf` says which thread
drives which device. A thread holds at most one reference per device and clock; with
`Sloppy` it also disables what it has not enabled, which the code's count is there to absorb.

Abstractions: the bit of a clock stands for its entry; dependencies are those of PER, CAM, SGX,
DSS and USBHOST, whose `CM_*_INIT` is 0 (`bsp_def.h` 1035-1054), those of WAKEUP and CORE being
fixed; all clocks start off, since `DeviceInitialize` makes the same calls; the nested `Lock` is no
step because a critical section is re-entrant; the autoidle flag is read together with the
register; no row of the table is virtual. GPIO devices are in neither set of the latency module.
The special routines of DSS, USB host and IVA2 and the access wait are not modelled.

### ClockSwitch

Owners claim a clock and give it up; it is switched on while somebody owns it and off while
nobody does, and fairness says that it is. `PrcmDevice` maps `running` to the enable bits.
That the map is a refinement is checked for clocks with one driving thread; for shared ones the code
does not implement it (section 5).

### PrcmClockTree

A node counts its users. `walk` is the stack of activations of `ClockUpdateParentClock` and the
routines of the levels above it. `Visit` is the test for the edge and the descent, `ReadCount` and
`WriteCount` the two halves of `refCount += n`. `UpdateSource` is what a device call does, under
`Mutex_DeviceClock`; `SetSourceClocks` and `IoctlSetSourceClock` reach `PrcmClockSetParent`, the
first with that lock held and the second without. `LockClock`, `AfterWalk` and `Switch`
are that function: the new parent enabled, the old one disabled, the selection written.

`select` is what the hardware selects and `up` what the driver believes; `SupplyOn` goes along the
first. While a clock is being moved it need not be fed: the code releases the old parent
(`prcm_clock.c` 1834) before it turns the multiplexer (1840).

`PrcmClockSetParent` looks at the new parent only for the clocks that its switch lists; the switch has no
default (1681-1813). `Parents` has the listed ones, and `Accepts` lets any other clock take any parent. Such a clock gets a new
`parentClk` while `_ClockHwUpdateParentClock` writes nothing, so the driver and the hardware disagree about
it from then on. CSI2_96M in the instance is one. If it were in use, its real source would lose a reference
that it needs: this is why `HeldClocksAreFed` asks that clocks in use be moved only if they are listed.

What the function does not check, `Callers` and `Acyclic` leave to its callers: that the clock is a row of the table, that it
comes from another row and not from a DPLL output, that no clock is made its own ancestor. With an invalid
number the code jumps over the `Lock` to the `Unlock` (1677). No caller in the repository passes one, and the IOCTL
hands on what it is given; the misuse is not modelled.

Abstractions: one source clock per device call; divisors, DPLL modes and frequencies are left
out; `Level` is not in the code, it states `Acyclic`: for the table and the listed parents the tree sees to it, for
the others the callers;
a selection register holds its source by name, so that the field that `USIM` and `CM_USIM`
share is not modelled; at the start each selection is what the table says.

### WakeupLatency

`asked` is the state last asked for each domain, `reg` its `PM_PWSTCTRL`, `view` what the module
remembers, `vdd` the operating points it believes in and `opp` the real ones. `SetPowerState` is
the IOCTL with both notifications, `DeviceEnabled`, `SetOpp`, `SetConstraint` and
`SetSuspendState` the others; `GetCurrentState`, `FindState`, `GetSuspendState` the choice;
`OEMIdle` and `Suspend` go up to the idle instruction, including `PushState`, and `Wake` is
`PopState`.

Calls are single steps because `OEMIdle` runs with interrupts off and no thread ready. A failed
context save counts as no sleep; SmartReflex, voltage set-up and PRM status are left out;
EMULATION and WAKEUP have no power state, and D2 and D3 of SGX ask for ON.

### GpTimer

`now` counts ticks, the hardware shows its low `Width` bits. `timer` is `g_oalTimerContext`; `run` holds
where the interrupt handler and the kernel's own call (`"isr"`, `"task"`) are, `app` a thread in
`OEMGetTickCount`; the handler runs before the kernel, the kernel before the thread.

| Action | Code |
| --- | --- |
| `Interrupt` | `OALTimerIntrHandler`: early, it sets a new match; else it brings the time up to date and tells the kernel |
| `Ask`, `Look`, `TakeBase`, `TakeCount`, `TakeAgain`, `SetPeriod` | `OALTimerUpdateRescheduleTime` with the loop of `OEMGetTickCount` inside |
| `Read`, `Place`, `Write`, `Check` | `UpdatePeriod`: time, match, `OALTimerSetCompare`, the test for a match in the past and the next try |
| `OEMIdle`, `Wake` | `OEMIdle` moves the match ahead by the latency of the state and sleeps |
| `AppBase`, `AppCount`, `AppAgain`, `AppStore`, `AppReturn` | `OEMGetTickCount`: the loop, the store of `CurMSec`, and `CurMSec` read again for the result |
| `Tick`, `Land` | the counter; a posted write of the match register takes effect |

Time is bounded against code: a stretch of timer code takes at most `Lag` ticks (of 30 µs),
unless it starts over. The counter may move between any two register accesses. Left out: the CPU
load monitor, idle counters and profiling. `tight` is not in the code: it says that `OEMIdle` has moved the match to less than
two ticks ahead since the kernel's call last set it.

### OalInterrupt

`irqOf` and `sysOf` are the two tables, `masked` the controller's masks, `enabled` and `wake` the bits of the
GPIO banks, `raised` their status and the lines devices assert. `Request`, `MapSysIntr`, `MapIrq` are
`OALIntrRequestSysIntr` and the kernel call around it, `Release` and `Forget` the release; `freed` is the irq that
`Release` takes from the table and `Forget` goes by. `UnmaskBank`,
`UnmaskPin`, `UnmaskLine`, `AllowWakeup` are the register writes of enable and done, `MaskPin`, `MaskLine`,
`ForbidWakeup` those of disable. `Handler` is `OEMInterruptHandler`, one step because interrupts are
off; it may come between any two of the others. `Call`, `Wakes`, `TimesOut`, `Serve`, `Close` are the device
and its driver's thread, which debounces with a time-out as the card-detect thread does.

`Overlap` says whether two drivers may be inside the allocation at a time. The drivers do not exclude
it; all that holds without it is checked and proved for `Overlap = FALSE`, and the run
`interrupt_overlap` shows what goes wrong with it. Left out: interrupts the handler serves by itself (timer,
PRCM, SmartReflex), those of software, several requests for one SYSINTR.

### DvfsConstraint

`node`, `table`, `force`, `current` are those of `dvfsconstraint.cpp`; `kernel` is what the OAL has been
asked for; `lock` the adapter's section. A client's call is `Call`, then, without the lock, `TestForce` and
`WipeForce`, then `Enter`, `Update` and the change: `SkipOrAgree`, `Refuse`, `TellSpi`, `ResetInactive`,
`CheckAndHalt`, `Told` walk the list in its order, `Acknowledged` and `TimedOut` are the wait for
the events, `ChangeOpp` the IOCTL, `PostNotice`, `WakeSpi`, `Announce` the way back, `Leave` the
end of the section. `Refuse` and `TimedOut` give the change up (`failed`): the request stays counted, and the
cancel notice reaches nobody because the list forwards only the other two. `StartDma`, `HoldDma`,
`PassWait`, `StartHeldDma`, `EndDma` are the SPI driver's threads around a transfer.

A client is named by the index of its handle. Callbacks get the context 0 whichever client registered
(`Informed`); the instance has no watchers, since nothing in the repository says who is to be
told. Left out: listeners that come and go, and answers that refuse through the event.

### Sdma and ChannelPool

Each IOCTL runs under the device's lock and is one step: `Reserve`, `Register`, `RegisterFails`,
`Unregister`, `Release`, `InterruptDone`, `Stop`; `Start`, `Wake`, `TimeOut` are the client between them, in
the order of `SPI_DmaWrite`. `ReadMask`, `Signal`, `ClearMask` are the interrupt thread, which takes
no lock, and `Complete` the hardware. For a dedicated line, `DI_ReserveInterrupt` marks it, `TakeNext` takes one channel per
round of the loop, `TakingDone` and `TakingFails` end it, the latter with `ResetUsedChannelsBulk`; `BeginDrain`, `EndDrain`,
`DI_ReleaseInterrupt` give it back. `loop` is that call's locals, and no other IOCTL runs meanwhile. `MediatorEnable`
and `MediatorDisable` keep the mediator's comparison of a shifted bit with `TRUE`.

`StatusAfterSet` is the read-modify-write of a register that clears by ones: the code sets its bit in what it has read and writes ones
for every pending channel. What saves the others is hardware: a status bit stays while the channel's `DMA4_CSR` is not
cleared, which is what `dma_dedicated.c` 518-527 says of a bit that does not go away. `Acknowledged` has that assumption; `csr`
are the channels whose CSR is not cleared, and only the channel's client clears it.

A client's thread runs when the interrupt thread waits (`MayRun`), unless it is in `Urgent`. The interrupt thread has
the real-time priority 97 (`dma.reg` 12, and the default in `dma.cpp` 91). That the threads that wait for a channel run below
it is an assumption: the repository gives most of them no priority of their own, and the model has both kinds.
A client above it can answer, clear its CSR, enable its channel and start again between `Signal` and
`ClearMask`; the mask then turns its channel off with the next transfer under way. `NoLostInterrupt` is about the others.

`ChannelPool`: a request for one channel is granted in a step; a request for `n` is asked for and ends with exactly `n`
channels or, only when fewer are free, with none; a holder gives all back at once. `Sdma` maps a client to the channel it has from
`Reserve` to `Release`, a line to its channels once its loop has ended well; that this is
a refinement is checked and proved. Left out: what a transfer is set up with, failing initialisation, power states.

## 4. Model-checking runs

| Run | Question | Distinct states |
| --- | --- | --- |
| `device_exclusive` | three devices, one driver each, two domains, surplus disables: what is enabled runs with all it needs (`Supplied`), what is not is off (refines `ClockSwitch`), no update lost, every call returns | 65,566 |
| `device_shared` | two rows with one interface clock, one driver for both and a second one for CAMERA, autoidle calls included: all counts conserved, no power leak | 224,418 |
| `tree_calls` | three multiplexers, one below another, and the IOCTL on a timer and on a camera clock that the switch does not list: counts, supply along what is selected, no glitch while moving, no cycle of the two locks | 241,920 |
| `latency_idle` | all requests, devices, operating points, constraints, delays: power kept, wakes in time, registers restored | 466,560 |
| `gptimer_tick` | handler, kernel, idle and a reader race with the counter: before its turn the match is ahead and near and the kernel is called in time; the time read is right, across the turn as well | 2,700,379 |
| `interrupt_calls` | two pins of a bank and a device line: nothing masked and forgotten, wake-up follows, somebody listens, no call is lost | 55,544 |
| `dvfs_modes` | two clients, an SPI controller with DMA, a listener that refuses: requests counted, the strongest in force, kernel and adapter agree, answers before the switch, calls return | 511,081 |
| `sdma_channels` | two SPI controllers, one with a thread above the interrupt thread, and two lines on two channels: refines `ChannelPool`, unowned channels quiet, no interrupt lost to the other client, interrupts served | 104,351 |
| `device_siblings`, `device_autoidle`, `gptimer_deep`, `interrupt_overlap` | expected violations, section 5 | |

Every property is also run against a changed definition (the operators called
`<definition>_<what is wrong>` in the modules): a dropped guard, a missing unlock, a count not
given back. TLC finds each of them.

### Bounds, and why they are enough

- *Threads:* 2. The races are between the thread that moves a count and one other; the
  proofs cover any number for what they state.
- *Devices:* the rows in `MCPrcmDevice` are real ones, chosen so that each kind of sharing occurs:
  a domain and its registers and source clock (GPIO5, WDT3), a domain with fixed dependencies
  (MMC1), an interface clock entry (CAMERA, CSI2), an autoidle register (GPIO5 and WDT3 again). One device beyond those that share is
  needed to see a neighbour suffer; three give it.
- *Drivers:* one per device, or two on CAMERA and one on CSI2 (`TwoOnCamera`), which is the smallest case with several references by and
  several drivers of a clock entry. Tried besides: two on each (1,974,774 states).
- *References:* at most one per thread and device, so counts reach 3; the code only tells 0, 1 and more apart.
- `MaxHold` is 1: sharing of the nodes above already takes their counts to 2 and more.
- *Moved:* device calls move the clocks of devices, the IOCTL GPT10 and CSI2_96M, which no device uses. On a clock
  in use its walk and that of a device call hold different locks, and counts are lost (hazard at
  `prcm_clock.c:1503`). Tried besides: with the IOCTL on `48M`, which a device uses, TLC refutes each of `Balanced`, `SupplyOn`
  and `NoGlitch`; with the behaviours cut to those where the two do not overlap (`InTurn`, section 6) all three hold
  (114,960 states). That is what the theorems say.
- `WakeupLatency`: the domains `PushState` overwrites and DSS for the others; MPU and core
  operating points 0 and 1, besides the ones at boot (4 and 1), reach four of the seven rows of
  the table; the other three are equal to the last of them. Constraints 13 and 21 and delays 15, 21, 25, 400 lie between the
  latencies of the table (12, 20, 22-26, 262-333); 15 is below the margin of 20. A delay of 400 is more
  than the timer's period allows; it only adds behaviours. Suspend states 0 and 2. `MaxInt`
  (100000) stands for "no constraint". `MaxDevice` is 1 since only zero matters. The board is not
  a high-security device; the theorems cover both kinds. Operating points beyond the last one
  are not asked for by the registry (`omap_pm.reg`).

- `GpTimer`: a counter of 12 bits is the smallest whose turn is a whole number of milliseconds, as that
  of 32 bits is; it keeps the margin (20), the arithmetic of `MSEC_TO_TICK` and all distances far below half
  a turn. A behaviour starts far from the turn (1010 to 1122, long enough for a request of 2 ms, 66 ticks, to be cut, set again,
  and fall late) or just before it (4064 to 4130, for the thread that asks for the time on both sides, 4064 to 4100); it then stops, hence
  `CHECK_DEADLOCK FALSE` in both runs of this module. Latencies of 12 and 26 ticks are below and above the margin; in
  `gptimer_deep` 12 is that of the shallow states and 20 that of the chip. `Reach` = 52 is tight: with 51 TLC finds a violation. The
  kernel asks for 2 ms and is called in that millisecond (`Late` = 0). Tried besides: requests for 0 ms too, which take up to 2 ms
  (`Late` = 2, 5,635,303 states; with 1 TLC finds a violation).
- `OalInterrupt`: two pins of one bank, since they share a line and a status register, and a device
  line, on two SYSINTR values so that a request may find none free.
- `DvfsConstraint`: modes 0, 1, 2 differ in the core supply and then in the MPU supply
  (`omap_pm.reg`), so changes concern one supply, the other, or both. One client forces: two that do
  wipe each other's force (hazard at `dvfsconstraint.cpp:585`). The listeners are one with an event and one without.
- `Sdma`: two channels for two clients and two lines that ask for one or two: reservations fail at
  once and half-way, every channel changes owners, and channel 0, for which the mediator's comparison works, and another one are there. Tried besides: three
  channels (1,475,415 states).

### Fairness

`PrcmDevice!Fairness` and `PrcmClockTree!FairSpec`: a thread inside a call is scheduled (weak
fairness of its step), and a thread that waits for a lock gets it if the lock is free again and
again (strong fairness): waiters of a Windows CE critical section are queued, and the drivers' threads are
taken to have equal priorities. No fairness is assumed of the calls themselves: a driver may never
call again.

`DvfsConstraint!Fairness`: threads run, the section is entered in the end (strong, as above), a wait with
a time limit ends, a transfer ends or times out. That a transfer held back is let go is not assumed, and
after a change that was given up it is not (hazard at `spi.c:141`). `Sdma!FairSpec`: the interrupt thread runs;
its priority is a real-time one. `OalInterrupt!FairSpec`: threads run, and the handler takes a request it could
take again and again (strong, because a higher pin of the bank goes first each time). `WakeupLatency` and
`GpTimer` have no liveness property; what must happen in `GpTimer` must happen in time, which is safety.

## 5. Where the code and its documentation disagree

Each is a run with one property that TLC refutes.

1. `device_siblings` / `ReferencedClockRuns`. The count of a shared interface clock goes 1, 0, 1
   while the two updates take the lock in the other order. The clock ends off with a count of
   one and stays off. Drivers of CAMERA and CSI2, one each, suffice. Without sharing
   (`device_exclusive`) `ClockSwitch` is refined.
2. `device_autoidle` / `AutoidleFollowsFlag`. The critical sections are "used for synchronized access to PRCM
   registers" (`prcm_priv.h:197`), but `PrcmDeviceEnableFClock` reads, changes and writes `CM_AUTOIDLE`
   before it takes one (`prcm_device.c:1186`). GPIO5 and WDT3 share that register: an autoidle call for one, made between the read and
   the write for the other, is undone, and bit and flag disagree until the device's next call.
3. `gptimer_deep` / `MatchAheadAsleep`. "make sure we don't set next timer interrupt to the past" (`timer.c:244`): the
   test is `<`, a match that equals the counter passes it and is missed. `OEMIdle` gets there when it moves
   the match to less than two ticks ahead, which takes a latency of at least the margin less one.
4. `interrupt_overlap` / `SysIntrsDiffer`. "Find next available SYSINTR value" (`map.c:244`): search and
   write are not under a lock, and two drivers that open an interrupt at the same time get the same value.

Seen while modelling, without a run of its own: the clock IOCTL and the device calls change counts under
different locks (`prcm_clock.c:1503`), and on a clock in use that breaks `Balanced`, `SupplyOn` and `NoGlitch`; near the turn of the
counter the test of `timer.c:246`, which compares words, lets a match be missed (section 6); the write-back of the DMA status register
(`dmacontroller.cpp:377`) would lose interrupts but for the CSRs (section 3); a comment says that a change of `CM_USIM` is ignored unless it is the parent
of `USIM`, and the code does the reverse; the latency module starts with another operating
point of the core supply than the one in force, which with this board's table is on the safe side.

## 6. What is proved

For any numbers of threads, devices, clocks, domains, clients, channels, lines, interrupts, any table
within the named assumptions, any table of latencies, any width of the counter. The assumptions are those of the
modules: `DeviceTable` (a clock entry belongs to one domain, functional clock entries are not shared, a functional
entry is not an interface entry), `DeviceSets`, `Clients`, `Finiteness`; `Tree`, `Acyclic`; `Latencies`; `Ticks`;
`Arbitration`; `Requests`; `Shape`. TLC evaluates them on the instances.

Some theorems have a hypothesis on the constants besides, which says how the callers behave. The MC modules assert those of
them that their instances satisfy, so TLC evaluates them too:

| Hypothesis | It says | Why the code has it |
| --- | --- | --- |
| `Careful` | drivers disable only what they have enabled, or every clock entry has one client | with neither, a surplus disable takes a neighbour's reference, and counts are nobody's |
| `Exclusive` | one client per clock entry, and one row if it may be sloppy | what `device_siblings` refutes needs two |
| tree `[]InTurn` | while the IOCTL moves a clock that devices use or others come from, no other call is at work in the tree | nothing in the code ensures it: the two locks do not (`prcm_clock.c:1503`). An IOCTL for other clocks satisfies it by the locks alone, which is the theorem `OwnClocksInTurn`; `MCPrcmClockTree` asserts that case |
| `Listed` | clocks in use that are moved are among those the switch of `PrcmClockSetParent` lists | the selection of the others is never written (section 3) |
| `~Overlap` | allocations of SYSINTR values come one at a time | `interrupt_overlap` shows what happens else |
| `OppsInRange`, `LowestIsSlowest` | no operating point beyond the last one is asked for; the table of latencies is slowest with both supplies at the lowest one | the latency module is told of an operating point that was refused, and starts with the lowest one of the core supply |
| `Quick` | a stretch of timer code takes a tick (30 us) at most; `Margin` is at least 2, `Reach` at least `Margin` + 32 (a millisecond's ticks), and half a turn is beyond reach. Nothing is said of the latencies of the idle states | `DELTA_TIME` is 20; the values of `GpTimer_tick.cfg` satisfy it |
| `Late >= TICK_TO_MSEC(Margin + 40) + 1` | the bound of `ReschedInTime` leaves room for the margin, the millisecond a match is moved by and rounding; 2 ms for `DELTA_TIME` = 20, as in the run | what the code needs |
| timer `[]InTurn` | less than a turn of the counter (36 hours in hardware) passes between two interrupts that bring the time up to date | a word cannot tell one turn from two |

**`PrcmDevice_proofs`.**
- `TypeCorrect`, `Exclusion`: `TypeOK` and `MutualExclusion` together are not inductive, since the step of
  a thread depends on its call. The strengthening `Core` adds `CallOK`: a thread at a
  label is in a call that goes there and on a clock that exists. Then each label tells whether the
  lock is held, and only `Acquire` and `AutoidleLock` take it.
- `SourcesConserved`: a source clock is counted once for every functional clock in use, up to the
  updates between count and lock. The sets of threads and of clocks in the balance change by at most one
  element in a step (`OneMoves`, `InUseCount`); a crossing of the edge by `CountRef` moves both
  sides (`BalanceCount`); a step under the lock moves the count and takes its thread
  out of the set at once (`UpdatesStep`); all others move neither side.
- `NothingLost`: what a thread has read stays what the register holds, but for its own bit,
  because whoever else could write is kept out by `Exclusion` (`NotDisturbed`, `ReadsFresh`).

**`PrcmSupply_proofs`** builds on these.
- `NoPowerLeak`: `BitsRight` says why a clock that runs does so: either somebody is about to switch it
  off, or it is referenced and nobody is on the way to switch it on. It is kept because of `Discipline`: a thread
  counts on what it does not own and off what it owns, so that an enable under way has its reference and is the only one for
  its clock (`Steady`). With surplus disables the same follows from there being one client.
- `LatencyBalances`, `DomainsBalance`: balances like that of the sources. The latency counts and `domCount`
  are decremented only when they are positive; the theorems show that this test never saves anything, since
  the enables under way are no more than the clocks in use (`EnablersInUse`: each enable is on a clock of its own).
  In `domCount` every clock counts twice, with its first half before the wake-up register is written and the second after it
  (`TwoFromEach`).
- `RunningIsSupplied`: a running clock is in the balances, so its sources and its domain are counted; the
  dependencies of a counted domain are in place (`DepsOfCounted`), because they are taken back under the lock when the
  count gets to zero.
- `SwitchImplemented`: the safety half of the refinement of `ClockSwitch`. A step of `CountRef` is `Claim` or `GiveUp`, one of
  `WriteClock` is `SwitchOn` or `SwitchOff` or, when the bit is as it should be, a stutter; all others are
  stutters. `Exclusivity` says that the references of a clock are its owners' and that the update on the way does what they want.

**`PrcmClockTree_proofs`.** The IOCTL may move any clock, also one in use, as long as no other call is at work then (`InTurn`).
At any time at most one call moves references that count: `Turn` is the owner of `Mutex_Clock` if that is such an IOCTL, else
the owner of `Mutex_DeviceClock`. The counts are off while its walk is under way; `Extra` says by how much for each node, from
the step of the walk: a reference that was taken and is not yet counted, and one that was passed up and not yet taken.
`Path` ties the stack of the walk to the tree: each node on it is the parent of the next and about to cross the
edge between no and one reference, and `Level` grows along it, so no node is on it twice. With `LockOK`
(which lock a call holds), `MoveOK`, and `Spare` (the clocks in `Own` have no references) this is inductive, and
`CountsBalance` follows. `MovesWithoutGlitch` and `HeldClocksAreFed` go from there up the tree, level by level: a
node in use is a user of its parent, so the parent's count, which is `Extra` away from its users, is positive unless a
walk has just taken the last of them (`Firm`, `FirmUp`). `TypeCorrect` needs neither `InTurn` nor the counts, and its
invariant gives `OwnClocksInTurn`.

**`WakeupLatency_proofs`.** `IInv` adds to `TypeOK` that `view` is what the requests make it
(`Faithful`), that registers, or during a sleep their saved copies, are what the requests program
(`Programs`), and the three safety properties. `Permitted` says what each state of
`GetCurrentState` implies about requests and devices, `Found` that `FindState` never goes deeper, `Kept`
that `PushState` in such a state leaves everyone his power. From it `TypeCorrect`, `PowerKept`, `DevicesKept` (together
`PowerKeptForAll`), `NotSwitchedOff` and `RegistersRestored`. `Faithful` is needed because the choice is made from
`view` and the promise is about `asked`. `AlwaysInTime`: the state chosen fits by the operating points the module knows
of (`Fits`); these differ from the real ones at most in the core supply, and then the module takes the lowest
(`Tracks`), which is the slow side (`NoSlower`).

**`DvfsConstraint_proofs`.** `IInv` is `TypeOK` and four parts. `Section`: only the client that has the
lock is at a step of a change. `Position`: where in the list that step is. `Switching`: between
`ChangeOpp` and `Announce` the kernel runs the mode the change goes to, else the mode in force; this is why
`KernelAgrees` alone is not inductive. `Promised`: of the devices interested in the change those told so
far have noted it, and their event is awaited or has been seen. `Counted` ties `table` to the requests,
leaving out a handle that is being closed. From these `TypeCorrect`, `KernelAlwaysAgrees`, `AlwaysAcked`
and `RequestsAlwaysCounted`. `TheStrongestRules`, whoever forces: a client takes its own force back before it has the
lock, and another's may be gone with it; from there to its update the mode in force may be another than the
requests ask for (`Pending`). While no such client is about, the mode decided on stays the best one up to
the end of the change, since requests move under the lock only (`Directed`). The
instance of `dvfs_modes` has one client that forces; the theorem shows that the wiped force (hazard at
`dvfsconstraint.cpp:585`) loses a client's wish but never leaves a mode in force that the requests do not ask for.

**`GpTimer_proofs`.** `TypeCorrect`, with lemmas on words. `TimeIsExact`: `timer.cur` and `timer.base` are set
together, so the base is the low word of the time (`Together`); the difference of two words is that of the times if less
than a turn lies between them (`WordDifference`); so what a reader computes is a time of its call if no
interrupt has come in between, which it looks for (`ReadsTime`).
`NextMatchIsAhead` (`MatchAhead`), for idle states of any latency: a match is placed at least two ticks after the time it was computed from, be it
moved or not (`PlacedIs`, `PlacedAhead`), so it is still ahead when it is written and when it is checked a tick later
at most (`WillBeAhead`); `OEMIdle` moves it to two ticks ahead or more, or the property says nothing until the kernel sets it again (`tight`); nothing is
awaited only while somebody is about to write (`Ahead`).
`ToldInTime` (`ReschedInTime`): the kernel is told late only if the interrupt is late. `Anchor(n)` says that at time `n` the
kernel needed not be told yet and that whatever is armed, placed or about to be placed is within `Slack` ticks of `n`;
`InTime` that there is such an `n` until the kernel is told. A call of the kernel, and an interrupt that finds its time
come, re-anchor at the present (`Anchored`); an interrupt before its time, which sets the match anew, does not, and
has to stay within the slack of the old `n`. It does because it finds the match of the kernel or of `OEMIdle` in the
middle of being written, which is near or `AtOnce` (`Placing`, `Loose`).

Both properties end where the first turn of the counter, 36 hours after the start in hardware, comes within reach (`BeforeTurn`), because across it they
are false. The check after the write (`timer.c:244`) compares words: a match beyond the turn looks passed, and `UpdatePeriod(1)` puts it down
again until the counter has turned as well. TLC finds, starting 53 ticks before the turn, that the handler, nested in a call of the kernel before its write, goes
round until the counter turns; then the kernel writes its match of before the turn, which passes the check and comes a
whole turn later.

**`OalInterrupt_proofs`**, all for `~Overlap`. Allocation is exclusive, so the tables are inverse of each
other (`TablesAreInverse`) and the values different (`SysIntrsAreDifferent`); so what `Line(d)` reads is `d`, and a driver's
writes concern its own request. Then what each label knows about masks, enable and wake-up bits gives
`SomebodyAlwaysListens`, `NeverForgotten` (a request is masked only with its event set or before its thread's
done) and `WakeupAlwaysFollows`, the handler notwithstanding.

**`Sdma_proofs`.** `ChannelsCounted`: `m_ffDmaChannels` is the owned and the dedicated channels, which are
disjoint. `HandlersOfOwners` and `FreeChannelsQuiet`: only the path of release makes a channel free, and it turns it
off although the mediator does not. `StandbyBalanced`: the count is the number of lines that drain.
`PoolImplemented`: `Sdma` refines `ChannelPool`; `DI_ReserveInterrupt` is `Ask`, `TakingDone` is `Grant`: the loop's count is the
number of the channels it has found (`Counted`); `TakingFails`, reached with no channel unused, is `Refuse`, `Release` and `DI_ReleaseInterrupt` are
`GiveBack`, all other steps leave what is held alone.
`NoInterruptLost`: for a client below the interrupt thread `Delivered` follows a transfer from its start to the event: its
channel is enabled, or the interrupt thread has yet to signal it, until the event is set, and its status bit stays because nobody else clears its CSR.

## 7. Model-checked only

- Liveness (`CallsReturn`, `InterruptServed`, `CallsServed`) and the liveness half of the refinement of `ClockSwitch`:
  the proof system does not handle `ENABLED`.

## 8. Not modelled

Of the repository's 376,000 lines the models stand for a few thousand, and will not stand for a third: the bulk is
drivers that program registers and move data (display, camera, audio, USB stacks, Ethernet, NAND, serial), most of
them the chip vendor's or the operating system's sample with small changes, whose every
decision is a status bit of hardware that is not described here. A model of them would be a copy of the code with
nondeterministic inputs and no property to state. What is left aside, part by part, is in section 1 and, with
reasons, in `PROJECT.json`.

Within modelled files: divisors and DPLLs (`prcm_clock.c`); the forced wake-up and memory states
(`prcm_domain.c`); context save and restore, the PRCM interrupt and voltage control (`prcm.c`); the routines of the
DSS, USB host and IVA2 domains and the access wait (`prcm_device.c`); the order of an operating point change
(`opp_map.c`); the CPU load monitor (`timer.c`); internal and software interrupts (`intr.c`); transfers and their set-up
(`dmacontroller.cpp`, CEDDK); the other constraint adapters. The hazards in
`PROJECT.json` whose list of properties is empty say which of these matter.
