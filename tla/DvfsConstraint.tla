--------------------------- MODULE DvfsConstraint ---------------------------
(***************************************************************************)
(* Who decides the operating mode (dvfsconstraint.cpp), and how devices are *)
(* asked before it changes (dvfslist.cpp, with the SPI driver as the device *)
(* that has to stop its DMA).                                               *)
(*                                                                         *)
(* A client of the constraint asks for an operating mode, forces one, takes *)
(* its request back or closes its handle.  The adapter counts the requests  *)
(* per mode and follows the forced mode or else the highest one asked for.  *)
(* A change runs under the lock of the adapter: the listed devices are told *)
(* before, those with an event have to signal it within a time limit, the   *)
(* kernel switches, the devices are told in reverse order, the callbacks    *)
(* run.  A client is named by the index of its handle.                      *)
(***************************************************************************)
EXTENDS Integers, Sequences, FiniteSets

CONSTANTS
    MaxClient,   \* clients are 0..MaxClient, the indices of their handles
    Forcers,     \* clients that force a mode
    Watchers,    \* clients that have registered a callback
    MaxOpm,      \* opmCeiling
    InitOpm,     \* OpmInit of the registry
    Map,         \* rgVddMPU1, rgVddCORE1: operating point of a supply at a mode
    Spi,         \* SPI controllers: listeners with an event
    Order,       \* the list of listeners, in the order they are told
    Notified     \* m_ffDVFSNotificationType: supplies a listener wants to hear of

Client == 0..MaxClient
Opm    == 0..MaxOpm
Supply == {"mpu", "core"}
Listener == {Order[i] : i \in 1..Len(Order)}
Undefined == -1      \* kOpmUndefined, and idxForce when no mode is forced
Free == -2           \* an index that no handle has
Nobody == -1

ASSUME Arbitration ==
    /\ MaxClient \in Nat /\ Forcers \subseteq Client /\ Watchers \subseteq Client
    /\ MaxOpm \in Nat /\ InitOpm \in Opm /\ Map \in [Supply -> [Opm -> Nat]]
    /\ Order \in Seq(Listener) /\ Spi \subseteq Listener
    /\ \A i, j \in 1..Len(Order) : i # j => Order[i] # Order[j]
    /\ Notified \in [Listener -> SUBSET Supply]
    /\ \A l \in Spi : Notified[l] = {"core"}   \* the SPI driver knows that notice only

VARIABLES
    node,     \* s_IndexList: what each client asks for
    table,    \* opmTable: how many ask for each mode
    force,    \* idxForce
    current,  \* opmCurrent
    kernel,   \* operating point of each supply, as the kernel has set it
    lock,     \* owner of s_OpmInfo.cs
    call,     \* the call each client is in
    change,   \* the change under way: new mode, place in the list, events awaited
    failed,   \* whether the last change that was tried failed
    heard,    \* the mode each callback was last told
    spi,      \* bDVFSActive, hDVFSInactiveEvent, hDVFSAsyncEvent, nActiveDmaCount
    dma       \* where the thread that holds the mutex of the controller is

request == <<node, table, force>>
device  == <<spi, dma>>
vars == <<node, table, force, current, kernel, lock, call, change, failed, heard, spi, dma>>

Step == {"idle", "test", "wipe", "lock", "update", "pre", "reset", "halt", "wait",
         "opp", "post", "wake", "end"}
NoCall == [op |-> "none", opm |-> Undefined, at |-> "idle"]
NoChange == [new |-> Undefined, next |-> 0, events |-> {}]

TypeOK ==
    /\ node \in [Client -> Opm \cup {Undefined, Free}]
    /\ table \in [Opm -> Int] /\ force \in Client \cup {Nobody}
    /\ current \in Opm /\ kernel \in [Supply -> Nat] /\ lock \in Client \cup {Nobody}
    /\ call \in [Client -> [op : {"none", "request", "force", "close"},
                            opm : Opm \cup {Undefined}, at : Step]]
    /\ change \in [new : Opm \cup {Undefined}, next : 0..Len(Order) + 1, events : SUBSET Spi]
    /\ failed \in BOOLEAN /\ heard \in [Watchers -> Opm]
    /\ spi \in [Spi -> [active : BOOLEAN, inactive : BOOLEAN, ack : BOOLEAN, count : 0..1]]
    /\ dma \in [Spi -> {"none", "waiting", "entering", "running"}]

Init ==
    /\ node = [c \in Client |-> Free]
    /\ table = [o \in Opm |-> 0]
    /\ force = Nobody
    /\ current = InitOpm
    /\ kernel = [s \in Supply |-> Map[s][InitOpm]]
    /\ lock = Nobody
    /\ call = [c \in Client |-> NoCall]
    /\ change = NoChange
    /\ failed = FALSE
    /\ heard = [c \in Watchers |-> InitOpm]
    /\ spi = [l \in Spi |-> [active |-> FALSE, inactive |-> TRUE, ack |-> FALSE, count |-> 0]]
    /\ dma = [l \in Spi |-> "none"]

Goto(c, step) == call' = [call EXCEPT ![c].at = step]
At(c, step) == call[c].at = step

-----------------------------------------------------------------------------
(* The calls of a client                                                   *)

\* DVFS_CreateConstraint
Create(c) ==
    /\ node[c] = Free /\ At(c, "idle")
    /\ node' = [node EXCEPT ![c] = Undefined]
    /\ UNCHANGED <<table, force, current, kernel, lock, call, change, failed, heard, spi, dma>>

\* Mutant: the mode is taken as it comes.
Cut_Not(o) == o
\* A mode above the ceiling is cut to it; the null state asks for no mode.
Cut(o) == IF o > MaxOpm THEN MaxOpm ELSE o

\* DVFS_UpdateConstraint and DVFS_CloseConstraint, up to what they do before they lock.
Call(c, op, o) ==
    /\ node[c] # Free /\ At(c, "idle")
    /\ op = "force" => c \in Forcers
    /\ op = "close" => o = Undefined
    /\ call' = [call EXCEPT ![c] = [op |-> op, opm |-> Cut(o),
                                    at |-> IF op = "close" THEN "lock" ELSE "test"]]
    /\ UNCHANGED <<request, current, kernel, lock, change, failed, heard, device>>

\* Without the lock: whether this client forces a mode is looked up first, and its force
\* is taken back in a later step.
TestForce(c) ==
    /\ At(c, "test")
    /\ Goto(c, IF force = c THEN "wipe" ELSE "lock")
    /\ UNCHANGED <<request, current, kernel, lock, change, failed, heard, device>>

WipeForce(c) ==
    /\ At(c, "wipe")
    /\ force' = Nobody
    /\ Goto(c, "lock")
    /\ UNCHANGED <<node, table, current, kernel, lock, change, failed, heard, device>>

\* Mutant: what a client asked for before stays counted.
Moved_KeepOld(t, old, new) == [o \in Opm |-> t[o] + (IF o = new THEN 1 ELSE 0)]
\* The counts after a client that asked for old asks for new.
Moved(t, old, new) ==
    [o \in Opm |-> t[o] - (IF o = old THEN 1 ELSE 0) + (IF o = new THEN 1 ELSE 0)]

\* Under the lock: the request is counted, a forced mode is noted, a closed handle gives
\* its request and its force back.  Closing a handle that asks for nothing changes nothing.
Enter(c) ==
    /\ At(c, "lock") /\ lock = Nobody
    /\ lock' = c
    /\ table' = Moved(table, node[c], call[c].opm)
    /\ node' = IF call[c].op = "close" THEN node ELSE [node EXCEPT ![c] = call[c].opm]
    /\ force' = IF call[c].op = "force" THEN c
                ELSE IF call[c].op = "close" /\ force = c THEN Nobody ELSE force
    /\ call' = [call EXCEPT ![c].opm = Undefined, ![c].at =
                   IF call[c].op = "close" /\ node[c] = Undefined THEN "end" ELSE "update"]
    /\ UNCHANGED <<current, kernel, change, failed, heard, device>>

-----------------------------------------------------------------------------
(* UpdateOpm                                                               *)

Asked(t) == {o \in Opm : t[o] > 0}
Highest(S) == {o \in S : \A p \in S : p <= o}

\* Mutant: the lowest mode asked for.
Target_Lowest(f, n, t) ==
    IF f # Nobody /\ n[f] \in Opm THEN {n[f]}
    ELSE IF Asked(t) = {} THEN {Undefined} ELSE {o \in Asked(t) : \A p \in Asked(t) : o <= p}
\* The one mode to go for: the forced one if there is one, else the highest one asked for,
\* else none.
Target(f, n, t) ==
    IF f # Nobody /\ n[f] \in Opm THEN {n[f]}
    ELSE IF Asked(t) = {} THEN {Undefined} ELSE Highest(Asked(t))

\* The supplies that a change between two modes concerns.
Differing(o, p) == {s \in Supply : Map[s][o] # Map[s][p]}

Update(c) ==
    /\ At(c, "update")
    /\ \E new \in Target(force, node, table) :
         IF new \in {Undefined, current}
         THEN Goto(c, "end") /\ failed' = FALSE /\ UNCHANGED change
         ELSE Goto(c, "pre") /\ UNCHANGED failed
              /\ change' = [new |-> new, next |-> 1, events |-> {}]
    /\ UNCHANGED <<request, current, kernel, lock, heard, device>>

\* Mutant: the list stays at a device.
Following_Stuck(n) == n
Following(n) == n + 1

\* The device whose turn it is, and whether it is told of this change.
Turn == Order[change.next]
IsTold(l) == Notified[l] \cap Differing(current, change.new) # {}

\* Mutant: the change goes on without the events.
AfterPre_NoWait(c) == Goto(c, "opp")
\* After the last device: wait for the events, if there are any.
AfterPre(c) == Goto(c, IF change.events = {} THEN "opp" ELSE "wait")

\* The device is not interested, or it has no event and agrees.
SkipOrAgree(c) ==
    /\ At(c, "pre") /\ change.next <= Len(Order)
    /\ ~IsTold(Turn) \/ Turn \notin Spi
    /\ change' = [change EXCEPT !.next = Following(@)]
    /\ UNCHANGED <<request, current, kernel, lock, call, failed, heard, device>>

\* The change is given up: the request stays counted, the cancel notice is sent, but the
\* list handles notices before and after a change only, so no device hears of it.
Cancel(c) == Goto(c, "end") /\ failed' = TRUE

\* A device without an event refuses (the USB host always does).
Refuse(c) ==
    /\ At(c, "pre") /\ change.next <= Len(Order)
    /\ IsTold(Turn) /\ Turn \notin Spi
    /\ Cancel(c)
    /\ UNCHANGED <<request, current, kernel, lock, change, heard, device>>

\* The list resets the event of the device, which notes that a change is coming.
TellSpi(c) ==
    /\ At(c, "pre") /\ change.next <= Len(Order)
    /\ IsTold(Turn) /\ Turn \in Spi
    /\ spi' = [spi EXCEPT ![Turn].ack = FALSE, ![Turn].active = TRUE]
    /\ change' = [change EXCEPT !.events = @ \cup {Turn}]
    /\ Goto(c, "reset")
    /\ UNCHANGED <<request, current, kernel, lock, failed, heard, dma>>

ResetInactive(c) ==
    /\ At(c, "reset")
    /\ spi' = [spi EXCEPT ![Turn].inactive = FALSE]
    /\ Goto(c, "halt")
    /\ UNCHANGED <<request, current, kernel, lock, change, failed, heard, dma>>

\* CheckAndHaltAllDma: the device answers at once if it has no DMA running.
CheckAndHalt(c) ==
    /\ At(c, "halt")
    /\ spi' = [spi EXCEPT ![Turn].ack = @ \/ spi[Turn].count = 0]
    /\ change' = [change EXCEPT !.next = Following(@)]
    /\ Goto(c, "pre")
    /\ UNCHANGED <<request, current, kernel, lock, failed, heard, dma>>

Told(c) ==
    /\ At(c, "pre") /\ change.next = Len(Order) + 1
    /\ AfterPre(c)
    /\ UNCHANGED <<request, current, kernel, lock, change, failed, heard, device>>

\* WaitForAcknowledgements: one event at a time.
Acknowledged(c, l) ==
    /\ At(c, "wait") /\ l \in change.events /\ spi[l].ack
    /\ change' = [change EXCEPT !.events = @ \ {l}]
    /\ Goto(c, IF change.events = {l} THEN "opp" ELSE "wait")
    /\ UNCHANGED <<request, current, kernel, lock, failed, heard, device>>

TimedOut(c) ==
    /\ At(c, "wait") /\ \A l \in change.events : ~spi[l].ack
    /\ Cancel(c)
    /\ UNCHANGED <<request, current, kernel, lock, change, heard, device>>

\* Mutant: only the MPU supply is switched.
Switched_MpuOnly(k, o, p) == [k EXCEPT !["mpu"] = Map["mpu"][p]]
\* IOCTL_OPP_REQUEST for the supplies that differ.
Switched(k, o, p) == [s \in Supply |-> IF s \in Differing(o, p) THEN Map[s][p] ELSE k[s]]

ChangeOpp(c) ==
    /\ At(c, "opp")
    /\ kernel' = Switched(kernel, current, change.new)
    /\ change' = [change EXCEPT !.next = Len(Order), !.events = {}]
    /\ Goto(c, "post")
    /\ UNCHANGED <<request, current, lock, failed, heard, device>>

\* Whom the notice after the change reaches.
PostTold(l) == l \in Spi /\ IsTold(l)

\* Reverse order.  The SPI driver clears its flag and then sets the event its threads
\* wait for.
PostNotice(c) ==
    /\ At(c, "post") /\ change.next > 0
    /\ IF PostTold(Turn)
       THEN /\ spi' = [spi EXCEPT ![Turn].active = FALSE]
            /\ Goto(c, "wake") /\ UNCHANGED change
       ELSE change' = [change EXCEPT !.next = @ - 1] /\ UNCHANGED <<spi, call>>
    /\ UNCHANGED <<request, current, kernel, lock, failed, heard, dma>>

WakeSpi(c) ==
    /\ At(c, "wake")
    /\ spi' = [spi EXCEPT ![Turn].inactive = TRUE]
    /\ change' = [change EXCEPT !.next = @ - 1]
    /\ Goto(c, "post")
    /\ UNCHANGED <<request, current, kernel, lock, failed, heard, dma>>

\* NotifyCallbacks: the context of every callback is 0, whichever client registered it, so
\* a change made for client 0 is told to nobody and any other one to everybody.
Informed(c) == IF c = 0 THEN {} ELSE {w \in Watchers : node[w] # Free}

Announce(c) ==
    /\ At(c, "post") /\ change.next = 0
    /\ current' = change.new
    /\ heard' = [w \in Watchers |-> IF w \in Informed(c) THEN change.new ELSE heard[w]]
    /\ failed' = FALSE
    /\ Goto(c, "end")
    /\ UNCHANGED <<request, kernel, lock, change, device>>

\* The lock is left; the index of a closed handle is free again.
Leave(c) ==
    /\ At(c, "end")
    /\ lock' = Nobody
    /\ change' = NoChange
    /\ call' = [call EXCEPT ![c] = NoCall]
    /\ node' = IF call[c].op = "close" THEN [node EXCEPT ![c] = Free] ELSE node
    /\ UNCHANGED <<table, force, current, kernel, failed, heard, device>>

-----------------------------------------------------------------------------
(* DMA of an SPI controller: the calling thread holds the mutex of the     *)
(* controller from before PreDmaActivation to after PostDmaDeactivation    *)

MayStart(l) == ~spi[l].active

\* PreDmaActivation: under csDVFS, unless a change is announced ...
StartDma(l) ==
    /\ dma[l] = "none" /\ MayStart(l)
    /\ dma' = [dma EXCEPT ![l] = "running"]
    /\ spi' = [spi EXCEPT ![l].count = 1]
    /\ UNCHANGED <<request, current, kernel, lock, call, change, failed, heard>>

\* ... then the section is left to wait for the event,
HoldDma(l) ==
    /\ dma[l] = "none" /\ ~MayStart(l)
    /\ dma' = [dma EXCEPT ![l] = "waiting"]
    /\ UNCHANGED <<request, current, kernel, lock, call, change, failed, heard, spi>>

PassWait(l) ==
    /\ dma[l] = "waiting" /\ spi[l].inactive
    /\ dma' = [dma EXCEPT ![l] = "entering"]
    /\ UNCHANGED <<request, current, kernel, lock, call, change, failed, heard, spi>>

\* and the transfer starts without a second look at the flag.
StartHeldDma(l) ==
    /\ dma[l] = "entering"
    /\ dma' = [dma EXCEPT ![l] = "running"]
    /\ spi' = [spi EXCEPT ![l].count = 1]
    /\ UNCHANGED <<request, current, kernel, lock, call, change, failed, heard>>

\* The transfer ends or times out; PostDmaDeactivation.
EndDma(l) ==
    /\ dma[l] = "running"
    /\ dma' = [dma EXCEPT ![l] = "none"]
    /\ spi' = [spi EXCEPT ![l].count = 0, ![l].ack = @ \/ spi[l].active]
    /\ UNCHANGED <<request, current, kernel, lock, call, change, failed, heard>>

-----------------------------------------------------------------------------
DmaStep(l) == StartDma(l) \/ HoldDma(l) \/ PassWait(l) \/ StartHeldDma(l) \/ EndDma(l)

\* What a client does inside a call, once it has the lock or before it asks for it.
Proceed(c) ==
    \/ TestForce(c) \/ WipeForce(c) \/ Update(c)
    \/ SkipOrAgree(c) \/ Refuse(c) \/ TellSpi(c) \/ ResetInactive(c) \/ CheckAndHalt(c)
    \/ Told(c) \/ TimedOut(c) \/ (\E l \in Spi : Acknowledged(c, l))
    \/ ChangeOpp(c) \/ PostNotice(c) \/ WakeSpi(c) \/ Announce(c) \/ Leave(c)

Next ==
    \/ \E c \in Client :
          \/ Create(c)
          \/ \E op \in {"request", "force", "close"}, o \in Undefined..MaxOpm + 1 : Call(c, op, o)
          \/ Enter(c) \/ Proceed(c)
    \/ \E l \in Spi : DmaStep(l)

Spec == Init /\ [][Next]_vars

\* Threads run; a section that keeps being left is entered at last; a transfer ends or
\* times out, and a thread that waits for an event that stays set goes on.
Fairness ==
    /\ \A c \in Client : WF_vars(Proceed(c)) /\ SF_vars(Enter(c))
    /\ \A l \in Spi : WF_vars(PassWait(l) \/ StartHeldDma(l) \/ EndDma(l))

FairSpec == Spec /\ Fairness

-----------------------------------------------------------------------------
(* Properties                                                              *)

\* The counts of dvfsconstraint.cpp:591-601 and 660-664 are those of the live requests
\* whenever nobody is in the section: a leaked count keeps the chip fast for ever.
RequestsCounted ==
    lock = Nobody => \A o \in Opm : table[o] = Cardinality({c \in Client : node[c] = o})

\* When all calls have returned and the last change did not fail, the forced mode, or else
\* the highest one asked for, is the one in force, whatever order the clients came in
\* (UpdateOpm).
StrongestInForce ==
    (\A c \in Client : At(c, "idle")) /\ ~failed =>
        IF force # Nobody /\ node[force] \in Opm THEN current = node[force]
        ELSE LET asked == {node[c] : c \in Client} \cap Opm
             IN asked = {} \/ (current \in asked /\ \A o \in asked : o <= current)

\* The kernel runs the operating points of the mode the adapter believes in, also after a
\* change that a device refused or that timed out half-way.
KernelAgrees ==
    lock = Nobody => \A s \in Supply : kernel[s] = Map[s][current]

\* The kernel switches only when every listener with an event has signalled it for this
\* change (WaitForAcknowledgements) and still has it noted.
AckedBeforeChange ==
    \A c \in Client, l \in Spi :
        At(c, "opp") /\ IsTold(l) => spi[l].ack /\ spi[l].active

\* A call returns, whatever the devices do: the wait is bounded and the section is left.
CallsReturn == \A c \in Client : At(c, "lock") ~> At(c, "idle")
=============================================================================
