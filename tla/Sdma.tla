-------------------------------- MODULE Sdma --------------------------------
(***************************************************************************)
(* The system DMA driver: reservation of logical channels, forwarding of   *)
(* the channel interrupts to the events of the clients, and interrupt lines *)
(* dedicated to one client (SDMA/dmacontroller.*, dmamediator.*, dma.cpp),  *)
(* with the calls of CEDDK/DMA and a client that uses a channel the way the *)
(* SPI driver does.                                                         *)
(*                                                                         *)
(* Every IOCTL runs under the lock of the device, so it is one step, but    *)
(* for the one that takes channels in a loop.  The interrupt thread does    *)
(* not take that lock: it reads the mask, signals and clears in steps of    *)
(* its own, and the hardware finishes transfers at any time.                *)
(***************************************************************************)
EXTENDS Integers, FiniteSets

CONSTANTS
    NumChannel,  \* m_maxChannels
    Client,      \* channel users, each with an event for its channel
    Urgent,      \* clients whose threads run above the interrupt thread (priority256)
    Line,        \* interrupt lines that can be dedicated: IRQ1 to IRQ3
    Bulk         \* how many channels are asked for with a dedicated line

Channel == 0..NumChannel - 1
Nobody == "nobody"
NoChannel == -1
NoRequest == -1

ASSUME Shape ==
    /\ NumChannel \in Nat \ {0} /\ Bulk \subseteq Nat
    /\ IsFiniteSet(Client) /\ Nobody \notin Client /\ Urgent \subseteq Client
    /\ IsFiniteSet(Line) /\ Nobody \notin Line /\ Client \cap Line = {}

VARIABLES
    used,      \* m_ffDmaChannels
    sih,       \* m_ffSIHList
    handler,   \* secondaryEventHandle of each channel: whose event it is
    enabled,   \* DMA4_IRQENABLE_L0
    status,    \* DMA4_IRQSTATUS_L0, cleared by writing ones
    csr,       \* channels whose DMA4_CSR says that a transfer has ended
    running,   \* channels with a transfer under way
    client,    \* where each client is, and its channel
    event,     \* the auto-reset event of each client
    ist,       \* the interrupt thread: the mask it read, what is left to signal
    line,      \* m_AllocatedIntArray, and whether the line is being drained
    bulk,      \* m_ffDmaChannelsPerInterrupt
    loop,      \* DI_ReserveInterrupt under way: for which line, how many, how many so far
    standby    \* m_dwDisableStandbyCount, and whether OCP_SYSCONFIG forbids standby

interrupts == <<sih, handler, enabled, status, csr>>
dedication == <<line, bulk, loop, standby>>
vars == <<used, interrupts, running, client, event, ist, dedication>>

NoLoop == [line |-> Nobody, want |-> 0, got |-> 0]

Where == {"none", "owned", "ready", "waiting", "woken", "rearmed", "late", "stopped", "leaving"}

TypeOK ==
    /\ used \subseteq Channel /\ sih \subseteq Channel
    /\ handler \in [Channel -> Client \cup {Nobody}]
    /\ enabled \subseteq Channel /\ status \subseteq Channel
    /\ csr \subseteq Channel /\ running \subseteq Channel
    /\ client \in [Client -> [at : Where, ch : Channel \cup {NoChannel}]]
    /\ event \in [Client -> BOOLEAN]
    /\ ist \in [at : {"wait", "signal"}, mask : SUBSET Channel, todo : SUBSET Channel]
    /\ line \in [Line -> {"free", "taking", "held", "draining"}]
    /\ bulk \in [Line -> SUBSET Channel]
    /\ loop \in [line : Line \cup {Nobody}, want : Nat, got : Nat]
    /\ standby \in [count : Int, off : BOOLEAN]

Init ==
    /\ used = {} /\ sih = {} /\ enabled = {} /\ status = {} /\ csr = {} /\ running = {}
    /\ handler = [i \in Channel |-> Nobody]
    /\ client = [c \in Client |-> [at |-> "none", ch |-> NoChannel]]
    /\ event = [c \in Client |-> FALSE]
    /\ ist = [at |-> "wait", mask |-> {}, todo |-> {}]
    /\ line = [l \in Line |-> "free"]
    /\ bulk = [l \in Line |-> {}]
    /\ loop = NoLoop
    /\ standby = [count |-> 0, off |-> FALSE]

At(c, where) == client[c].at = where
Ch(c) == client[c].ch
Goto(c, where) == client' = [client EXCEPT ![c].at = where]

\* The lock of the device: IOCTLs wait while one of them is in its loop.
Unlocked == loop.line = Nobody

-----------------------------------------------------------------------------
(* Interrupt registers                                                     *)

\* Writing ones to the bits W of the status register: a bit stays while the channel's
\* DMA4_CSR is not cleared (dma_dedicated.c:518-527); k is the CSRs that are not.
Acknowledged(W, k) == status \ (W \ k)

\* The register is read and written back with the bit of the channel: ones for every
\* pending channel.
StatusAfterSet(i, k) == Acknowledged(status \cup {i}, k)

\* SystemDmaController::EnableInterrupt
Enable(i)     == status' = StatusAfterSet(i, csr) /\ enabled' = enabled \cup {i}
Disable(i, k) == status' = StatusAfterSet(i, k) /\ enabled' = enabled \ {i}

\* DmaMediator::EnableInterrupt compares the bit of the list, shifted to its place, with
\* the flag: asking for interrupts works for a channel that is not in the list, turning
\* them off works for channel 0 alone.
MediatorEnable(i)  == IF i \notin sih THEN Enable(i) ELSE UNCHANGED <<status, enabled>>
MediatorDisable(i, k) ==
    IF i = 0 /\ i \in sih THEN Disable(i, k) ELSE UNCHANGED <<status, enabled>>

-----------------------------------------------------------------------------
(* Channels of the clients                                                 *)

\* Mutant: the search goes one channel too far.
Unused_OneMore(u) == 0..NumChannel \ u
\* FindUnusedChannel: the channels whose bit is clear; the lowest one is taken.
Unused(u) == Channel \ u
IsLowest(i, S) == i \in S /\ \A j \in S : i <= j

\* Mutant: the bit of the channel is not set.
Taken_NotMarked(u, i) == u
Taken(u, i) == u \cup {i}

\* DmaAllocateChannel: IOCTL_DMA_RESERVE_CHANNEL, then the caller clears the channel's CSR.
Reserve(c) ==
    /\ At(c, "none") /\ Unlocked
    /\ \E i \in Unused(used) :
         /\ IsLowest(i, Unused(used))
         /\ used' = Taken(used, i)
         /\ client' = [client EXCEPT ![c] = [at |-> "owned", ch |-> i]]
         /\ Disable(i, csr)
         /\ csr' = csr \ {i}
    /\ UNCHANGED <<sih, handler, running, event, ist, dedication>>

\* DmaEnableInterrupts: SetEventHandler with an event.
Register(c) ==
    LET i == Ch(c)
    IN /\ At(c, "owned") /\ Unlocked /\ handler[i] = Nobody
       /\ MediatorEnable(i)
       /\ sih' = sih \cup {i}
       /\ handler' = [handler EXCEPT ![i] = c]
       /\ Goto(c, "ready")
       /\ UNCHANGED <<used, csr, running, event, ist, dedication>>

\* The handle cannot be duplicated: the interrupt is turned on and, since the channel is
\* not in the list yet, not off again.
RegisterFails(c) ==
    LET i == Ch(c)
    IN /\ At(c, "owned") /\ Unlocked /\ handler[i] = Nobody
       /\ MediatorEnable(i)
       /\ UNCHANGED <<used, sih, handler, csr, running, client, event, ist, dedication>>

Forgotten(h, i) == [h EXCEPT ![i] = Nobody]

\* DmaFreeChannel: the CSR is cleared, SetEventHandler without an event ...
Unregister(c) ==
    LET i == Ch(c)
    IN /\ At(c, "owned") \/ At(c, "ready")
       /\ Unlocked
       /\ csr' = csr \ {i}
       /\ MediatorDisable(i, csr')
       /\ sih' = IF handler[i] # Nobody THEN sih \ {i} ELSE sih
       /\ handler' = Forgotten(handler, i)
       /\ Goto(c, "leaving")
       /\ UNCHANGED <<used, running, event, ist, dedication>>

\* Mutant: the channel is turned off the way the mediator does it.
Quieted_ByMediator(i) == IF i = 0 /\ i \in sih THEN enabled \ {i} ELSE enabled
Quieted(i) == enabled \ {i}

\* ... and ReleaseChannel.  The list has lost the channel already, so the mediator has
\* nothing to reset.
Release(c) ==
    LET i == Ch(c)
    IN /\ At(c, "leaving") /\ Unlocked
       /\ status' = StatusAfterSet(i, csr) /\ enabled' = Quieted(i)
       /\ used' = used \ {i}
       /\ client' = [client EXCEPT ![c] = [at |-> "none", ch |-> NoChannel]]
       /\ event' = [event EXCEPT ![c] = FALSE]    \* the event is closed, the next one is new
       /\ UNCHANGED <<sih, handler, csr, running, ist, dedication>>

-----------------------------------------------------------------------------
(* A transfer of a client (SPI_DmaWrite)                                   *)

Start(c) ==
    /\ At(c, "ready")
    /\ running' = running \cup {Ch(c)}
    /\ Goto(c, "waiting")
    /\ UNCHANGED <<used, interrupts, event, ist, dedication>>

\* The hardware finishes a transfer.
Complete(i) ==
    /\ i \in running
    /\ running' = running \ {i}
    /\ status' = status \cup {i} /\ csr' = csr \cup {i}
    /\ UNCHANGED <<used, sih, handler, enabled, client, event, ist, dedication>>

\* The wait for the event ends, and the CSR is read and cleared, ...
Wake(c) ==
    /\ At(c, "waiting") /\ event[c]
    /\ event' = [event EXCEPT ![c] = FALSE]
    /\ csr' = csr \ {Ch(c)}
    /\ Goto(c, "woken")
    /\ UNCHANGED <<used, sih, handler, enabled, status, running, ist, dedication>>

\* ... or times out.

TimeOut(c) ==
    /\ At(c, "waiting") /\ ~event[c]
    /\ Goto(c, "late")
    /\ UNCHANGED <<used, interrupts, running, event, ist, dedication>>

\* DmaInterruptDone, before the channel is stopped or, after a time-out, behind it.
InterruptDone(c) ==
    LET i == Ch(c)
    IN /\ At(c, "woken") \/ At(c, "stopped")
       /\ Unlocked
       /\ IF i \in sih THEN Enable(i) ELSE UNCHANGED <<status, enabled>>
       /\ Goto(c, IF At(c, "woken") THEN "rearmed" ELSE "ready")
       /\ UNCHANGED <<used, sih, handler, csr, running, event, ist, dedication>>

\* DmaStop
Stop(c) ==
    /\ At(c, "rearmed") \/ At(c, "late")
    /\ running' = running \ {Ch(c)}
    /\ Goto(c, IF At(c, "late") THEN "stopped" ELSE "ready")
    /\ UNCHANGED <<used, interrupts, event, ist, dedication>>

-----------------------------------------------------------------------------
(* The interrupt thread (DmaMediator::ProcessInterrupt)                    *)

Pending == status \cap enabled

ReadMask ==
    /\ ist.at = "wait" /\ Pending # {}
    /\ ist' = [at |-> "signal", mask |-> Pending, todo |-> Pending]
    /\ UNCHANGED <<used, interrupts, running, client, event, dedication>>

Signal ==
    /\ ist.at = "signal"
    /\ \E i \in ist.todo :
         /\ IsLowest(i, ist.todo)
         /\ ist' = [ist EXCEPT !.todo = @ \ {i}]
         /\ event' = [c \in Client |-> event[c] \/ (i \in sih /\ handler[i] = c)]
    /\ UNCHANGED <<used, interrupts, running, client, dedication>>

\* Mutant: the channels are left on.
Masked_Nothing(S) == S
\* Mutant: the mask is not the one that was signalled but is read once more.
Masked_ReadAgain(S) == S \ status
\* Off, for the mask that was read.
Masked(S) == S \ ist.mask

\* ClearInterruptMask; InterruptDone lets the line interrupt again.
ClearMask ==
    /\ ist.at = "signal" /\ ist.todo = {}
    /\ enabled' = Masked(enabled)
    /\ status' = Acknowledged(ist.mask, csr)
    /\ ist' = [at |-> "wait", mask |-> {}, todo |-> {}]
    /\ UNCHANGED <<used, sih, handler, csr, running, client, event, dedication>>

-----------------------------------------------------------------------------
(* Dedicated interrupt lines                                               *)

\* DI_ReserveInterrupt marks the line,
DI_ReserveInterrupt(l, n) ==
    /\ line[l] = "free" /\ Unlocked
    /\ line' = [line EXCEPT ![l] = "taking"]
    /\ bulk' = [bulk EXCEPT ![l] = {}]
    /\ loop' = [line |-> l, want |-> n, got |-> 0]
    /\ UNCHANGED <<used, interrupts, running, client, event, ist, standby>>

\* Mutant: the loop also ends well when there is no channel left.
AllTaken_RunOut(l) == loop.got = loop.want \/ Unused(used) = {}
\* All the channels that were asked for are there.
AllTaken(l) == loop.got = loop.want

\* takes one channel after the other,
TakeNext(l) ==
    /\ loop.line = l /\ ~AllTaken(l)
    /\ \E i \in Unused(used) :
         /\ IsLowest(i, Unused(used))
         /\ used' = Taken(used, i)
         /\ bulk' = [bulk EXCEPT ![l] = @ \cup {i}]
    /\ loop' = [loop EXCEPT !.got = @ + 1]
    /\ UNCHANGED <<interrupts, running, client, event, ist, line, standby>>

\* and has all of them
TakingDone(l) ==
    /\ loop.line = l /\ AllTaken(l)
    /\ line' = [line EXCEPT ![l] = "held"]
    /\ loop' = NoLoop
    /\ UNCHANGED <<used, interrupts, running, client, event, ist, bulk, standby>>

\* Mutant: the channels found before the search failed stay taken.
ResetUsedChannelsBulk_Not(u, S) == u
ResetUsedChannelsBulk(u, S) == u \ S

\* or gives back those that it found, and the line.
TakingFails(l) ==
    /\ loop.line = l /\ ~AllTaken(l) /\ Unused(used) = {}
    /\ used' = ResetUsedChannelsBulk(used, bulk[l])
    /\ bulk' = [bulk EXCEPT ![l] = {}]
    /\ line' = [line EXCEPT ![l] = "free"]
    /\ loop' = NoLoop
    /\ UNCHANGED <<interrupts, running, client, event, ist, standby>>

StandbyBack(n) == n = 0

\* DmaDiDmaFreeInterrupt: DmaDisableStandby around the wait for a channel to stop, for one
\* channel after the other,
BeginDrain(l) ==
    /\ line[l] = "held" /\ Unlocked
    /\ line' = [line EXCEPT ![l] = "draining"]
    /\ standby' = [count |-> standby.count + 1, off |-> standby.off \/ standby.count = 0]
    /\ UNCHANGED <<used, interrupts, running, client, event, ist, bulk, loop>>

EndDrain(l) ==
    /\ line[l] = "draining" /\ Unlocked
    /\ line' = [line EXCEPT ![l] = "held"]
    /\ standby' = [count |-> standby.count - 1,
                   off |-> standby.off /\ ~StandbyBack(standby.count - 1)]
    /\ UNCHANGED <<used, interrupts, running, client, event, ist, bulk, loop>>

\* and DI_ReleaseInterrupt, which an allocation that fails later calls at once.
DI_ReleaseInterrupt(l) ==
    /\ line[l] = "held" /\ Unlocked
    /\ line' = [line EXCEPT ![l] = "free"]
    /\ bulk' = [bulk EXCEPT ![l] = {}]
    /\ used' = ResetUsedChannelsBulk(used, bulk[l])
    /\ UNCHANGED <<interrupts, running, client, event, ist, loop, standby>>

-----------------------------------------------------------------------------
\* A thread below the interrupt thread runs when that one waits; a time-out is the
\* kernel's.
MayRun(c) == c \in Urgent \/ ist.at = "wait"

ClientStep(c) ==
    \/ /\ MayRun(c)
       /\ \/ Reserve(c) \/ Register(c) \/ RegisterFails(c) \/ Unregister(c) \/ Release(c)
          \/ Start(c) \/ Wake(c) \/ InterruptDone(c) \/ Stop(c)
    \/ TimeOut(c)

InterruptThread == ReadMask \/ Signal \/ ClearMask

LineStep(l) ==
    \/ \E n \in Bulk : DI_ReserveInterrupt(l, n)
    \/ TakeNext(l) \/ TakingDone(l) \/ TakingFails(l)
    \/ BeginDrain(l) \/ EndDrain(l) \/ DI_ReleaseInterrupt(l)

Next ==
    \/ \E c \in Client : ClientStep(c)
    \/ \E i \in Channel : Complete(i)
    \/ InterruptThread
    \/ \E l \in Line : LineStep(l)

Spec == Init /\ [][Next]_vars

\* The interrupt thread has a real-time priority (priority256, 97 by default).
FairSpec == Spec /\ WF_vars(InterruptThread)

-----------------------------------------------------------------------------
(* Properties                                                              *)

Owned == {Ch(c) : c \in {d \in Client : ~At(d, "none")}}
Dedicated == UNION {bulk[l] : l \in Line}

\* m_ffDmaChannels is exactly the channels that a client or a dedicated line has, also
\* while a reservation takes them one by one and after one that ran out of channels
\* half-way (dmacontroller.cpp:535-560).
UsedExactly == used = Owned \cup Dedicated

\* A channel that no client has can neither interrupt nor signal anybody: neither a failed
\* registration, nor the test of the mediator that turns nothing off, nor a late call for
\* it leaves the next owner, or a dedicated line, with an interrupt.
FreeIsQuiet ==
    \A i \in Channel \ Owned : i \notin enabled /\ i \notin sih /\ handler[i] = Nobody

\* The list and the handles say the same, and name the client that has the channel.
HandlerOfOwner ==
    \A i \in Channel :
        /\ i \in sih <=> handler[i] # Nobody
        /\ \A c \in Client : handler[i] = c => Ch(c) = i

\* Standby is forbidden exactly while somebody waits for a channel to stop.
StandbyAgrees ==
    /\ standby.count = Cardinality({l \in Line : line[l] = "draining"})
    /\ standby.off <=> standby.count > 0

\* Every pending interrupt is acknowledged or turned off in the end, however the clients
\* register, time out and finish in the meantime (ProcessInterrupt).
InterruptServed == \A i \in Channel : i \in Pending ~> i \notin Pending

Pool == INSTANCE ChannelPool WITH
    Single <- Client, Group <- Line, Size <- Bulk,
    held <- [h \in Client \cup Line |->
                IF h \in Line THEN (IF line[h] = "taking" THEN {} ELSE bulk[h])
                ELSE IF At(h, "none") THEN {} ELSE {Ch(h)}],
    asked <- [l \in Line |-> IF loop.line = l THEN loop.want ELSE NoRequest]

\* Reservations are exclusive, and one for several channels ends with all of them or with
\* none, although the channels are looked for one by one (dmacontroller.cpp:535-560).
ImplementsPool == Pool!Spec

\* A transfer that has ended while its client waits is always on the way to the client's
\* event, whatever the other clients write to the shared registers meanwhile (the status
\* register is written back as it was read, dmacontroller.cpp:377) and however late the
\* acknowledgement of an earlier transfer was.
NoLostInterrupt ==
    \A c \in Client \ Urgent :
        At(c, "waiting") /\ Ch(c) \notin running
            => event[c] \/ Ch(c) \in Pending \/ Ch(c) \in ist.todo
=============================================================================
