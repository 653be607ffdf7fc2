---------------------------- MODULE PrcmClockTree ---------------------------
(***************************************************************************)
(* The clock tree of the OMAP3530 PRCM driver (prcm_clock.c).               *)
(*                                                                         *)
(* Source clocks, DPLL outputs, DPLLs and voltage domains form a tree; each *)
(* node counts the references it has from its users: devices and the nodes  *)
(* below it that are in use.  A reference that crosses the edge between     *)
(* zero and one is first passed on to the parent, then counted.  Counts are *)
(* ordinary variables, read and written in two steps.  Device clock updates *)
(* walk the tree under Mutex_DeviceClock; PrcmClockSetParent moves a clock   *)
(* to another parent under Mutex_Clock.                                     *)
(***************************************************************************)
EXTENDS Integers, Sequences, FiniteSets

CONSTANTS
    Thread,          \* threads that call the driver
    Clock,           \* rows of s_SrcClockTable
    Fixed,           \* DPLL outputs, DPLLs and voltage domains
    Table,           \* the initial parent of every node that has one
    Parents,         \* the parents that PrcmClockSetParent lists for a clock
    Asked,           \* the parents that each of the calls "source" and "ioctl" asks for
    Held,            \* source clocks of devices
    MaxHold,         \* bound on the device references to a clock
    Moved,           \* the clocks that each of the two is made for
    Level,           \* how far below the voltage domains a node is
    Nobody           \* a free lock

Node == Clock \cup Fixed

ASSUME Tree ==
    /\ Clock \cap Fixed = {} /\ IsFiniteSet(Node)
    /\ DOMAIN Table \subseteq Node /\ Clock \subseteq DOMAIN Table
    /\ Table \in [DOMAIN Table -> Node]
    /\ Parents \in [DOMAIN Parents -> SUBSET Clock] /\ DOMAIN Parents \subseteq Clock
    /\ \A c \in DOMAIN Parents : Table[c] \in Parents[c]
    /\ Asked \in [{"source", "ioctl"} -> SUBSET Clock]
    /\ Held \subseteq Clock /\ MaxHold \in Nat
    /\ Nobody \notin Thread

\* Nothing checks the clocks that PrcmClockSetParent is called for: that they are rows of
\* the table that come from another row is up to the callers.  (It jumps over the Lock, and
\* to the Unlock, for a number that is none, and takes the new parent of a clock that
\* comes from a DPLL output for the number of such an output.)
ASSUME Callers == Moved \in [{"source", "ioctl"} -> SUBSET {c \in Clock : Table[c] \in Clock}]

\* A clock that the switch of PrcmClockSetParent does not list can be given any parent.
Accepts(c, p) == c \in DOMAIN Parents => p \in Parents[c]

\* The parents that a node can have.
ParentsOf(n) ==
    IF n \in DOMAIN Parents THEN Parents[n]
    ELSE {Table[n]} \cup UNION {Asked[call] : call \in {k \in {"source", "ioctl"} : n \in Moved[k]}}

\* No node is above itself, whatever parents the clocks are given: for the clocks that
\* are not listed this, too, is up to the callers.
ASSUME Acyclic ==
    /\ Level \in [Node -> Nat]
    /\ \A n \in DOMAIN Table : \A p \in ParentsOf(n) : Level[p] < Level[n]

\* The clocks that no device uses and no clock comes from.
Own == {c \in Clock : c \notin Held /\ \A n \in DOMAIN Table : c \notin ParentsOf(n)}

VARIABLES
    pc,       \* where each thread is
    job,      \* its call
    walk,     \* the activations of ClockUpdateParentClock, innermost first
    tmp,      \* the count it has read
    devLock,  \* owner of Mutex_DeviceClock
    clkLock,  \* owner of Mutex_Clock
    up,       \* the parent of each node (parentClk, dpllDomain, vddDomain)
    ref,      \* refCount of each node
    hold,     \* device references to a source clock that are not undone
    select    \* the source that the hardware selects for a clock

vars == <<pc, job, walk, tmp, devLock, clkLock, up, ref, hold, select>>

Label == {"idle", "lock", "visit", "read", "write", "switch"}
NoJob == [call |-> "none"]

TypeOK ==
    /\ pc \in [Thread -> Label]
    /\ \A t \in Thread :
         /\ job[t] = NoJob <=> pc[t] = "idle"
         /\ job[t] = NoJob
              \/ job[t] \in [call : {"update"}, clock : Held, on : BOOLEAN]
              \/ job[t] \in [call : {"source", "ioctl"}, clock : Clock, new : Clock,
                             old : Clock, on : BOOLEAN]
         /\ walk[t] \in Seq(Node) /\ (pc[t] \in {"visit", "read", "write"} <=> walk[t] # <<>>)
    /\ tmp \in [Thread -> Int]
    /\ devLock \in Thread \cup {Nobody} /\ clkLock \in Thread \cup {Nobody}
    /\ up \in [DOMAIN Table -> Node] /\ \A n \in DOMAIN Table : up[n] \in ParentsOf(n)
    /\ ref \in [Node -> Int] /\ hold \in [Clock -> 0..MaxHold]
    /\ select \in [DOMAIN Parents -> Clock]

Init ==
    /\ pc = [t \in Thread |-> "idle"]
    /\ job = [t \in Thread |-> NoJob]
    /\ walk = [t \in Thread |-> <<>>]
    /\ tmp = [t \in Thread |-> 0]
    /\ devLock = Nobody /\ clkLock = Nobody
    /\ up = Table
    /\ ref = [n \in Node |-> 0]
    /\ hold = [c \in Clock |-> 0]
    /\ select = [c \in DOMAIN Parents |-> Table[c]]

-----------------------------------------------------------------------------
GoTo(t, l) == pc' = [pc EXCEPT ![t] = l]
IsSwitch(t) == job[t].call \in {"source", "ioctl"}

\* A walk adds or removes a reference of node n, starting there.
Walk(t, n, b) ==
    /\ GoTo(t, "visit")
    /\ walk' = [walk EXCEPT ![t] = <<n>>]
    /\ job' = [job EXCEPT ![t].on = b]

\* Mutant: Mutex_Clock is not released.
Return_KeepClock(t) ==
    /\ GoTo(t, "idle")
    /\ job' = [job EXCEPT ![t] = NoJob]
    /\ devLock' = IF devLock = t THEN Nobody ELSE devLock
    /\ UNCHANGED clkLock

\* The call returns and gives up its locks.
Return(t) ==
    /\ GoTo(t, "idle")
    /\ job' = [job EXCEPT ![t] = NoJob]
    /\ devLock' = IF devLock = t THEN Nobody ELSE devLock
    /\ clkLock' = IF clkLock = t THEN Nobody ELSE clkLock

\* An update of a device clock: Lock(Mutex_DeviceClock), then ClockUpdateParentClock
\* for a source clock of the device.  A device gives back what it has taken.
UpdateSource(t) ==
    /\ pc[t] = "idle" /\ devLock = Nobody
    /\ \E c \in Held, b \in BOOLEAN :
         /\ IF b THEN hold[c] < MaxHold ELSE hold[c] > 0
         /\ hold' = [hold EXCEPT ![c] = IF b THEN @ + 1 ELSE @ - 1]
         /\ job' = [job EXCEPT ![t] = [call |-> "update", clock |-> c, on |-> b]]
         /\ walk' = [walk EXCEPT ![t] = <<c>>]
    /\ devLock' = t
    /\ GoTo(t, "visit")
    /\ UNCHANGED <<tmp, clkLock, up, ref, select>>

\* PrcmDeviceSetSourceClocks calls PrcmClockSetParent under Mutex_DeviceClock, ...
SetSourceClocks(t) ==
    /\ pc[t] = "idle" /\ devLock = Nobody
    /\ \E c \in Moved["source"], p \in Asked["source"] :
         job' = [job EXCEPT ![t] =
                  [call |-> "source", clock |-> c, new |-> p, old |-> p, on |-> FALSE]]
    /\ devLock' = t
    /\ GoTo(t, "lock")
    /\ UNCHANGED <<walk, tmp, clkLock, up, ref, hold, select>>

\* ... OALIoCtlPrcmClockSetSourceClock calls it without.
IoctlSetSourceClock(t) ==
    /\ pc[t] = "idle"
    /\ \E c \in Moved["ioctl"], p \in Asked["ioctl"] :
         job' = [job EXCEPT ![t] =
                  [call |-> "ioctl", clock |-> c, new |-> p, old |-> p, on |-> FALSE]]
    /\ GoTo(t, "lock")
    /\ UNCHANGED <<walk, tmp, devLock, clkLock, up, ref, hold, select>>

\* Mutant: no parent is refused.
LockClock_NotRefused(t) ==
    LET j == job[t]
    IN  /\ pc[t] = "lock" /\ clkLock = Nobody
        /\ clkLock' = t
        /\ job' = [job EXCEPT ![t].old = up[j.clock], ![t].on = TRUE]
        /\ IF ref[j.clock] > 0
           THEN GoTo(t, "visit") /\ walk' = [walk EXCEPT ![t] = <<j.new>>]
           ELSE GoTo(t, "switch") /\ UNCHANGED walk
        /\ UNCHANGED <<tmp, devLock, up, ref, hold, select>>

\* Mutant: the old parent is disabled and the new one not enabled.
LockClock_OldOnly(t) ==
    LET j == job[t]
    IN  /\ pc[t] = "lock" /\ clkLock = Nobody
        /\ \/ /\ ~Accepts(j.clock, j.new)
              /\ Return(t)
              /\ UNCHANGED walk
           \/ /\ Accepts(j.clock, j.new)
              /\ clkLock' = t
              /\ job' = [job EXCEPT ![t].old = up[j.clock]]
              /\ IF ref[j.clock] > 0
                 THEN GoTo(t, "visit") /\ walk' = [walk EXCEPT ![t] = <<up[j.clock]>>]
                 ELSE GoTo(t, "switch") /\ UNCHANGED walk
              /\ UNCHANGED devLock
        /\ UNCHANGED <<tmp, up, ref, hold, select>>

\* PrcmClockSetParent: Lock(Mutex_Clock); a parent that is not among those listed for the
\* clock is refused; if the clock is in use its new parent is enabled first.
LockClock(t) ==
    LET j == job[t]
    IN  /\ pc[t] = "lock" /\ clkLock = Nobody
        /\ \/ /\ ~Accepts(j.clock, j.new)
              /\ Return(t)
              /\ UNCHANGED walk
           \/ /\ Accepts(j.clock, j.new)
              /\ clkLock' = t
              /\ job' = [job EXCEPT ![t].old = up[j.clock], ![t].on = TRUE]
              /\ IF ref[j.clock] > 0
                 THEN GoTo(t, "visit") /\ walk' = [walk EXCEPT ![t] = <<j.new>>]
                 ELSE GoTo(t, "switch") /\ UNCHANGED walk
              /\ UNCHANGED devLock
        /\ UNCHANGED <<tmp, up, ref, hold, select>>

-----------------------------------------------------------------------------
(* ClockUpdateParentClock and _ClockUpdateDpllOutput                        *)

\* Mutant: the last reference is not passed on.
Edge_OnlyFirst(n, b) == b /\ ref[n] = 0

\* Mutant: every disable is passed on.
Edge_EveryDisable(n, b) == b => ref[n] = 0

\* The first reference is about to come, or the last one to go.
Edge(n, b) == IF b THEN ref[n] = 0 ELSE ref[n] = 1

\* On the edge the parent is updated first; a voltage domain has none.
Visit(t) ==
    LET n == Head(walk[t])
    IN  /\ pc[t] = "visit"
        /\ IF Edge(n, job[t].on) /\ n \in DOMAIN Table
           THEN walk' = [walk EXCEPT ![t] = <<up[n]>> \o @] /\ UNCHANGED pc
           ELSE GoTo(t, "read") /\ UNCHANGED walk
        /\ UNCHANGED <<job, tmp, devLock, clkLock, up, ref, hold, select>>

\* refCount += 1 or -1, for the innermost activation and then for those around it.
ReadCount(t) ==
    /\ pc[t] = "read"
    /\ tmp' = [tmp EXCEPT ![t] = ref[Head(walk[t])]]
    /\ GoTo(t, "write")
    /\ UNCHANGED <<job, walk, devLock, clkLock, up, ref, hold, select>>

\* The walk is over: PrcmClockSetParent goes on to release the old parent.
AfterWalk(t) ==
    \/ /\ IsSwitch(t) /\ job[t].on
       /\ Walk(t, job[t].old, FALSE)
       /\ UNCHANGED <<devLock, clkLock>>
    \/ /\ IsSwitch(t) /\ ~job[t].on
       /\ GoTo(t, "switch")
       /\ walk' = [walk EXCEPT ![t] = <<>>]
       /\ UNCHANGED <<job, devLock, clkLock>>
    \/ /\ ~IsSwitch(t)
       /\ walk' = [walk EXCEPT ![t] = <<>>]
       /\ Return(t)

WriteCount(t) ==
    /\ pc[t] = "write"
    /\ ref' = [ref EXCEPT ![Head(walk[t])] = tmp[t] + (IF job[t].on THEN 1 ELSE -1)]
    /\ tmp' = [tmp EXCEPT ![t] = 0]
    /\ IF Len(walk[t]) > 1
       THEN /\ GoTo(t, "read")
            /\ walk' = [walk EXCEPT ![t] = Tail(@)]
            /\ UNCHANGED <<job, devLock, clkLock>>
       ELSE AfterWalk(t)
    /\ UNCHANGED <<up, hold, select>>

-----------------------------------------------------------------------------
\* _ClockHwUpdateParentClock writes the selection of a clock, and nothing for a clock that
\* it does not list; the register fields, and the two clocks of the SIM card that share
\* one, are left out.
HwUpdateParentClock(c, p) ==
    IF c \in DOMAIN select THEN select' = [select EXCEPT ![c] = p] ELSE UNCHANGED select

\* The end of PrcmClockSetParent: parentClk, the hardware, Unlock.
Switch(t) ==
    /\ pc[t] = "switch"
    /\ up' = [up EXCEPT ![job[t].clock] = job[t].new]
    /\ HwUpdateParentClock(job[t].clock, job[t].new)
    /\ Return(t)
    /\ UNCHANGED <<walk, tmp, ref, hold>>

Step(t) == LockClock(t) \/ Visit(t) \/ ReadCount(t) \/ WriteCount(t) \/ Switch(t)
Call(t) == UpdateSource(t) \/ SetSourceClocks(t) \/ IoctlSetSourceClock(t)

Next == \E t \in Thread : Call(t) \/ Step(t)

Spec == Init /\ [][Next]_vars

\* A thread in a call is scheduled, and gets the lock it waits for.
FairSpec == Spec /\ \A t \in Thread : WF_vars(Step(t)) /\ SF_vars(LockClock(t))

-----------------------------------------------------------------------------
(* Vocabulary of the properties                                            *)

\* The nodes above n, through the parents it has now.
Above(n) ==
    LET above[m \in Node] == IF m \in DOMAIN Table THEN {up[m]} \cup above[up[m]] ELSE {}
    IN  above[n]

\* The nodes that feed n in hardware: through what each multiplexer selects and the wires
\* of the table, whatever parentClk says.
Feeding(n) ==
    LET feed(m) == IF m \in DOMAIN select THEN select[m] ELSE Table[m]
        above[m \in Node] == IF m \in DOMAIN Table THEN {feed(m)} \cup above[feed(m)] ELSE {}
    IN  above[n]

Walking(t)  == pc[t] \in {"visit", "read", "write"}
Users(n)    == {m \in DOMAIN Table : up[m] = n /\ ref[m] > 0}
HoldOf(n)   == IF n \in Clock THEN hold[n] ELSE 0
\* Thread t moves clock c to another parent.
Moving(t, c) == IsSwitch(t) /\ job[t].clock = c /\ pc[t] \notin {"idle", "lock"}

-----------------------------------------------------------------------------
(* Safety                                                                  *)

\* Between the calls every count is the number of references the node has: one for
\* every device reference and one for every node in use below it.
Balanced ==
    (\A t \in Thread : pc[t] \in {"idle", "lock"}) =>
        \A n \in Node : ref[n] = HoldOf(n) + Cardinality(Users(n))

\* A source clock that a device holds is fed: every node it comes from, as the
\* multiplexers are set, is in use, whatever other calls are doing, unless the clock
\* itself or one above it is being moved.  (Within a move it may not be: the old parent
\* is released before the multiplexer is turned.)
SupplyOn ==
    \A c \in Held :
        /\ hold[c] > 0
        /\ \A t \in Thread : pc[t] # "idle" => job[t].clock # c
        /\ \A t \in Thread, m \in {c} \cup (Feeding(c) \cap Clock) : ~Moving(t, m)
        => \A n \in Feeding(c) : ref[n] > 0

\* While a clock in use is moved, what both its parents come from stays in use: the
\* new parent is enabled before the old one is disabled.
NoGlitch ==
    \A t \in Thread :
        Moving(t, job[t].clock) /\ ref[job[t].clock] > 0 =>
            \A n \in Above(job[t].old) \cap Above(job[t].new) : ref[n] > 0

\* Every call returns: no walk goes on for ever and no lock is kept.
CallsReturn == \A t \in Thread : pc[t] # "idle" ~> pc[t] = "idle"
=============================================================================
