---------------------------- MODULE OalInterrupt ----------------------------
(***************************************************************************)
(* Interrupts between the hardware and the drivers (OAL/OMAP_INTR): the     *)
(* allocation of SYSINTR values to interrupt requests, the masks of the     *)
(* interrupt controller and of the GPIO banks, the interrupt handler, and a *)
(* driver that opens a GPIO or a device interrupt, serves it in a thread    *)
(* and closes it again.                                                     *)
(*                                                                         *)
(* The handler runs with interrupts off and is one step; it comes between   *)
(* any two register writes of a thread.  Nothing locks the tables, so the   *)
(* search for a free SYSINTR and the writes that follow are separate steps. *)
(* Interrupts that the handler serves by itself (timer, PRCM) and those of  *)
(* software are left out.  The kernel and the driver are external.          *)
(***************************************************************************)
EXTENDS Integers, FiniteSets

CONSTANTS
    Gpio,        \* requests of GPIO pins, IRQ_GPIO_0 + pin: 32 to a bank
    Device,      \* requests of the interrupt controller: the device lines
    NumSysIntr,  \* how many SYSINTR values there are from SYSINTR_FIRMWARE on
    Overlap      \* whether two drivers may be inside the allocation at a time

FirstGpio == 128    \* IRQ_GPIO_0
Bank(i) == 29 + (i - FirstGpio) \div 32    \* bank_irq, IRQ_GPIO1_MPU and on
Irq == Gpio \cup Device    \* each has one driver, named by the request
SysIntr == 1..NumSysIntr
Undefined == -1    \* SYSINTR_UNDEFINED, OAL_INTR_IRQ_UNDEFINED

ASSUME Requests ==
    /\ Gpio \subseteq FirstGpio..319 /\ Device \subseteq 0..95
    /\ \A i \in Gpio : Bank(i) \notin Device
    /\ NumSysIntr \in Nat \ {0} /\ Overlap \in BOOLEAN

VARIABLES
    irqOf,    \* s_oalSysIntr2Irq
    sysOf,    \* s_oalIrq2SysIntr
    masked,   \* INTC_MIR: the lines of the controller that are masked
    raised,   \* IRQSTATUS1 of the banks, and the lines the devices assert
    enabled,  \* IRQENABLE1 of the banks
    wake,     \* WAKEUPENABLE of the banks, with the pad's wake-up bit
    pc,       \* where each driver is
    sysIntr,  \* the SYSINTR each driver was given
    freed,    \* the irq that OALIntrReleaseSysIntr took from the table, a local
    event,    \* the auto-reset events of the interrupt threads that are set
    fresh     \* history: drivers whose device has called since they last looked

tables == <<irqOf, sysOf, sysIntr, freed>>
banks == <<enabled, wake>>
vars == <<tables, masked, raised, banks, pc, event, fresh>>

Attached == {"bank", "irq", "wakeup", "wait", "serve", "mask", "sleep"}
Allocating == {"found", "mapped", "forget"}

TypeOK ==
    /\ irqOf \in [SysIntr -> Irq \cup {Undefined}]
    /\ sysOf \in [Irq -> SysIntr \cup {Undefined}]
    /\ masked \subseteq 0..95 /\ raised \subseteq Irq
    /\ enabled \subseteq Gpio /\ wake \subseteq Gpio
    /\ pc \in [Irq -> {"closed", "release"} \cup Allocating \cup Attached]
    /\ sysIntr \in [Irq -> SysIntr \cup {Undefined}]
    /\ freed \in [Irq -> Irq \cup {Undefined}]
    /\ event \subseteq Irq /\ fresh \subseteq Irq

\* OALIntrInit masks every line and every pin, then unmasks the lines of the banks.
Init ==
    /\ irqOf = [s \in SysIntr |-> Undefined]
    /\ sysOf = [i \in Irq |-> Undefined]
    /\ masked = Device
    /\ raised = {} /\ enabled = {} /\ wake = {}
    /\ pc = [d \in Irq |-> "closed"]
    /\ sysIntr = [d \in Irq |-> Undefined]
    /\ freed = [d \in Irq |-> Undefined]
    /\ event = {} /\ fresh = {}

Moved(d, from, to) == pc[d] = from /\ pc' = [pc EXCEPT ![d] = to]

-----------------------------------------------------------------------------
(* SYSINTR allocation                                                      *)

\* Mutant: one value too many is handed out.
Free_NoLimit == {s \in 1..NumSysIntr + 1 : s > NumSysIntr \/ irqOf[s] = Undefined}
Free == {s \in SysIntr : irqOf[s] = Undefined}
Alone(d) == Overlap \/ \A e \in Irq \ {d} : pc[e] \notin Allocating

\* The search of OALIntrRequestSysIntr; without a free value the call fails.
Request(d) ==
    /\ Alone(d)
    /\ Moved(d, "closed", "found")
    /\ \E s \in Free : /\ \A r \in Free : s <= r
                      /\ sysIntr' = [sysIntr EXCEPT ![d] = s]
    /\ UNCHANGED <<irqOf, sysOf, freed, masked, raised, banks, event, fresh>>

MapSysIntr(d) ==
    /\ Moved(d, "found", "mapped")
    /\ irqOf' = [irqOf EXCEPT ![sysIntr[d]] = d]
    /\ UNCHANGED <<sysOf, sysIntr, freed, masked, raised, banks, event, fresh>>

\* An existing mapping of the request stays; the event is attached next.
MapIrq(d) ==
    /\ Moved(d, "mapped", IF d \in Gpio THEN "bank" ELSE "irq")
    /\ sysOf' = [sysOf EXCEPT ![d] = IF @ = Undefined THEN sysIntr[d] ELSE @]
    /\ UNCHANGED <<irqOf, sysIntr, freed, masked, raised, banks, event, fresh>>

\* OALIntrReleaseSysIntr clears the entry of one table, then that of the other for
\* the request it found there, if it points back.  An empty entry it skips.
Release(d) ==
    /\ Alone(d)
    /\ Moved(d, "release", "forget")
    /\ freed' = [freed EXCEPT ![d] = irqOf[sysIntr[d]]]
    /\ irqOf' = [irqOf EXCEPT ![sysIntr[d]] = Undefined]
    /\ UNCHANGED <<sysOf, sysIntr, masked, raised, banks, event, fresh>>

Forgotten(d) ==
    [i \in Irq |-> IF i = freed[d] /\ sysOf[i] = sysIntr[d] THEN Undefined ELSE sysOf[i]]
Forget(d) ==
    /\ Moved(d, "forget", "closed")
    /\ sysOf' = Forgotten(d)
    /\ sysIntr' = [sysIntr EXCEPT ![d] = Undefined]
    /\ freed' = [freed EXCEPT ![d] = Undefined]
    /\ UNCHANGED <<irqOf, masked, raised, banks, event, fresh>>

-----------------------------------------------------------------------------
(* OEMInterruptEnable, OEMInterruptDone and OEMInterruptDisable            *)

Line(d) == irqOf[sysIntr[d]]    \* OALIntrTranslateSysIntr

UnmaskBank(d) ==
    /\ Moved(d, "bank", "irq")
    /\ masked' = masked \ {Bank(Line(d))}
    /\ UNCHANGED <<tables, raised, banks, event, fresh>>

\* The second half of Enable, and the whole of Done.
UnmaskPin(d) ==
    /\ Moved(d, "irq", "wakeup") /\ Line(d) \in Gpio
    /\ enabled' = enabled \cup {Line(d)}
    /\ UNCHANGED <<tables, masked, raised, wake, event, fresh>>

UnmaskLine(d) ==
    /\ Moved(d, "irq", "wait") /\ Line(d) \notin Gpio
    /\ masked' = masked \ {Line(d)}
    /\ UNCHANGED <<tables, raised, banks, event, fresh>>

\* Mutant: the pin never gets its wake-up back.
WokenUp_Never(d) == wake
WokenUp(d) == wake \cup {Line(d)}
AllowWakeup(d) ==
    /\ Moved(d, "wakeup", "wait")
    /\ wake' = WokenUp(d)
    /\ UNCHANGED <<tables, masked, raised, enabled, event, fresh>>

\* After an interrupt thread has ended, Disable masks the request.
\* Mutant: the request is released as it is.
AfterJoin_Release == "release"
AfterJoin == "mask"
Close(d) ==
    /\ Moved(d, "wait", AfterJoin)
    /\ UNCHANGED <<tables, masked, raised, banks, event, fresh>>

MaskPin(d) ==
    /\ Moved(d, "mask", "sleep") /\ Line(d) \in Gpio
    /\ enabled' = enabled \ {Line(d)}
    /\ UNCHANGED <<tables, masked, raised, wake, event, fresh>>

MaskLine(d) ==
    /\ Moved(d, "mask", "release") /\ Line(d) \notin Gpio
    /\ masked' = masked \cup {Line(d)}
    /\ event' = event \ {d} /\ fresh' = fresh \ {d}
    /\ UNCHANGED <<tables, raised, banks>>

ForbidWakeup(d) ==
    /\ Moved(d, "sleep", "release")
    /\ wake' = wake \ {Line(d)}
    /\ event' = event \ {d} /\ fresh' = fresh \ {d}
    /\ UNCHANGED <<tables, masked, raised, enabled>>

-----------------------------------------------------------------------------
(* OEMInterruptHandler                                                     *)

Unmasked(i) == IF i \in Gpio THEN i \in enabled /\ Bank(i) \notin masked ELSE i \notin masked

\* The highest pin of the bank with its status and its enable bit set.
Pins(b) == {i \in raised \cap enabled : Bank(i) = b}
Chosen(i) == i \in Gpio => \A j \in Pins(Bank(i)) : j <= i

\* What is masked: the pin in its bank, or the line in the controller (a request
\* above 95 is none of its lines).
\* Mutant: the line of the whole bank is masked.
MaskedAfter_Bank(i) == masked \cup {IF i \in Gpio THEN Bank(i) ELSE i}
MaskedAfter(i) == IF i \in Gpio THEN masked ELSE masked \cup {i}
\* Mutant: the status of every pin is cleared.
RaisedAfter_AllPins(i) == raised \ Gpio
RaisedAfter(i) == raised \ ({i} \cap Gpio)
Notified(i) == {d \in Irq : pc[d] \in Attached /\ sysIntr[d] = sysOf[i]}

Handler(i) ==
    /\ i \in raised /\ Unmasked(i) /\ Chosen(i)
    /\ raised' = RaisedAfter(i)
    /\ enabled' = enabled \ {i} /\ wake' = wake \ {i}
    /\ masked' = MaskedAfter(i)
    /\ event' = event \cup Notified(i)
    /\ UNCHANGED <<tables, pc, fresh>>

-----------------------------------------------------------------------------
(* Devices and interrupt threads                                           *)

Call(i) ==
    /\ i \notin raised
    /\ raised' = raised \cup {i}
    /\ fresh' = IF pc[i] \in Attached THEN fresh \cup {i} ELSE fresh
    /\ UNCHANGED <<tables, masked, banks, pc, event>>

Wakes(d) ==
    /\ d \in event
    /\ Moved(d, "wait", "serve")
    /\ event' = event \ {d}
    /\ UNCHANGED <<tables, masked, raised, banks, fresh>>

\* The debouncing wait times out: the thread looks, and calls Done, all the same.
TimesOut(d) ==
    /\ d \notin event
    /\ Moved(d, "wait", "serve")
    /\ UNCHANGED <<tables, masked, raised, banks, event, fresh>>

\* The thread looks at its device, which lets go of its line.
Serve(d) ==
    /\ Moved(d, "serve", "irq")
    /\ fresh' = fresh \ {d}
    /\ raised' = raised \ ({d} \cap Device)
    /\ UNCHANGED <<tables, masked, banks, event>>

Step(d) == \/ MapSysIntr(d) \/ MapIrq(d) \/ Release(d) \/ Forget(d)
           \/ UnmaskBank(d) \/ UnmaskPin(d) \/ UnmaskLine(d) \/ AllowWakeup(d)
           \/ MaskPin(d) \/ MaskLine(d) \/ ForbidWakeup(d) \/ Wakes(d) \/ Serve(d)

Next == \E d \in Irq : Request(d) \/ Close(d) \/ TimesOut(d) \/ Step(d) \/ Call(d) \/ Handler(d)

Spec == Init /\ [][Next]_vars

\* Threads are scheduled.  The handler runs before any thread goes on, so a request
\* that it could take again and again is taken although a higher pin goes first.
FairSpec == Spec /\ \A d \in Irq : WF_vars(Step(d)) /\ SF_vars(Handler(d))

-----------------------------------------------------------------------------
(* Properties                                                              *)

\* The handler masks what it delivers and only the driver's Done unmasks it: a thread
\* that waits with its event unset can be woken, its request is unmasked on the way.
NotForgotten == \A d \in Irq : pc[d] = "wait" /\ d \notin event => Unmasked(d)

\* The handler also takes the wake-up of a pin away, between the two writes of Done
\* too: a pin somebody waits for wakes the processor, a closed one does not.
WakeupFollows ==
    \A d \in Gpio : /\ pc[d] = "wait" /\ d \notin event => d \in wake
                    /\ pc[d] = "closed" => d \notin wake

\* A request that can interrupt has a driver with an event and a SYSINTR that leads to
\* it: nothing is masked by the handler for nobody.
SomebodyListens == \A d \in Irq : Unmasked(d) => pc[d] \in Attached /\ sysOf[d] = sysIntr[d]

\* The two tables, written in separate steps, are inverse of each other for every
\* driver that is attached, and a closed driver's request is in neither.
TablesAgree ==
    \A d \in Irq : /\ pc[d] \in Attached => irqOf[sysIntr[d]] = d /\ sysOf[d] = sysIntr[d]
                   /\ pc[d] = "closed" => /\ sysOf[d] = Undefined
                                          /\ \A s \in SysIntr : irqOf[s] # d

\* "Find next available SYSINTR value": no two drivers are given the same.
SysIntrsDiffer ==
    \A d, e \in Irq : d # e /\ sysIntr[d] # Undefined => sysIntr[d] # sysIntr[e]

\* A call of a device is served, or its driver closes: calls that come while the bank
\* is read, while the request is masked or between the writes of Done are not lost.
CallsServed == \A d \in Irq : d \in fresh ~> d \notin fresh
=============================================================================
