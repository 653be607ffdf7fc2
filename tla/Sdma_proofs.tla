---------------------------- MODULE Sdma_proofs -----------------------------
(***************************************************************************)
(* Theorems of Sdma, for any number of channels, clients and dedicated      *)
(* lines.                                                                  *)
(*                                                                         *)
(* That a channel has one holder (Exclusive) is what makes a call of one    *)
(* client harmless to the others; that only a registered client's event is  *)
(* ever attached, and attached to its own channel (Attached), is why the    *)
(* registration that fails, the mediator's test that turns nothing off and  *)
(* a late InterruptDone leave nothing behind when the channel is released.  *)
(* A dedicated line has as many channels as its loop has counted (Counted). *)
(* An interrupt reaches its client because the channel stays turned on, or  *)
(* the event is set, until the client answers (Delivered): what turns it    *)
(* off is the interrupt thread alone, behind the signal.                    *)
(***************************************************************************)
EXTENDS Sdma, FiniteSetTheorems, TLAPS

Registered == {"ready", "waiting", "woken", "rearmed", "late", "stopped"}

\* Who holds what.
Exclusive ==
    /\ \A c \in Client : At(c, "none") <=> Ch(c) = NoChannel
    /\ \A c, d \in Client : Ch(c) = Ch(d) /\ Ch(c) # NoChannel => c = d
    /\ \A c \in Client, l \in Line : Ch(c) \notin bulk[l]
    /\ \A l, m \in Line : l = m \/ bulk[l] \cap bulk[m] = {}
    /\ \A l \in Line : line[l] = "free" => bulk[l] = {}

\* The bit of a channel is set exactly when it has a holder.
Marked ==
    \A i \in Channel :
        i \in used <=> (\E c \in Client : Ch(c) = i) \/ (\E l \in Line : i \in bulk[l])

\* A channel in the list has the event of a client that is registered and owns it; a
\* channel that can interrupt is owned.
Attached ==
    /\ \A i \in Channel : i \in sih <=> handler[i] # Nobody
    /\ \A i \in Channel : \A c \in Client : handler[i] = c =>
         Ch(c) = i /\ client[c].at \in Registered
    /\ \A c \in Client : client[c].at \in Registered => handler[Ch(c)] = c
    /\ \A i \in enabled : \E c \in Client : Ch(c) = i

\* The loop of a dedicated reservation has counted the channels of its line.
Counted ==
    /\ \A l \in Line : line[l] = "taking" <=> loop.line = l
    /\ \A l \in Line : loop.line = l => loop.got = Cardinality(bulk[l]) /\ loop.got <= loop.want

\* Between a client's answer and the next signal its channel is on; once the interrupt
\* thread has signalled, the event is set until the client takes it; and a transfer that
\* has ended stays in the status register until the client clears its CSR.
Awaited(c) ==
    /\ client[c].at \in {"ready", "waiting", "rearmed"} => Ch(c) \in enabled \/ event[c]
    /\ /\ ist.at = "signal" /\ client[c].at \in Registered
       /\ Ch(c) \in ist.mask \ ist.todo
       => event[c]
    /\ At(c, "waiting") /\ Ch(c) \notin running => Ch(c) \in csr /\ Ch(c) \in status

Delivered == \A c \in Client \ Urgent : Awaited(c)

IInv == TypeOK /\ Exclusive /\ Marked /\ Attached /\ Counted

-----------------------------------------------------------------------------

LEMMA Names ==
    /\ NoChannel \notin Channel /\ Nobody \notin Client /\ Client \cap Line = {}
    /\ Nobody \notin Line /\ IsFiniteSet(Line) /\ Bulk \subseteq Nat
  BY Shape DEF NoChannel, Channel

LEMMA OneMore ==
    ASSUME NEW S, IsFiniteSet(S), NEW i, i \notin S, NEW T, T = S \cup {i}
    PROVE  Cardinality(T) = Cardinality(S) + 1
  BY FS_AddElement

LEMMA FiniteChannels == IsFiniteSet(Channel)
  BY FS_Interval, Shape DEF Channel

LEMMA InitIInv == Init => IInv
  <1> SUFFICES ASSUME Init PROVE IInv
    OBVIOUS
  <1> USE Names DEF Init, At, Ch
  <1>1. TypeOK
    BY DEF TypeOK, Where, NoLoop
  <1>2. Exclusive /\ Marked /\ Attached /\ Counted
    BY DEF Exclusive, Marked, Attached, Registered, Counted, NoLoop
  <1> QED BY <1>1, <1>2 DEF IInv

LEMMA ReserveKeeps == ASSUME IInv, NEW c \in Client, Reserve(c) PROVE IInv'
  <1> USE Names DEF IInv, Reserve, interrupts, dedication, At, Ch, Goto, Unused, Taken, Disable, StatusAfterSet, Acknowledged
  <1>1. TypeOK'
    BY DEF TypeOK, Where, Exclusive
  <1>2. Exclusive'
    BY DEF TypeOK, Where, Exclusive, Marked
  <1>3. Marked'
    BY DEF TypeOK, Where, Exclusive, Marked
  <1>4. Attached'
    BY DEF TypeOK, Where, Exclusive, Marked, Attached, Registered
  <1>5. Counted'
    BY DEF Counted
  <1> QED BY <1>1, <1>2, <1>3, <1>4, <1>5

LEMMA RegisterKeeps == ASSUME IInv, NEW c \in Client, Register(c) PROVE IInv'
  <1> USE Names DEF IInv, Register, interrupts, dedication, At, Ch, Goto, MediatorEnable, Enable, StatusAfterSet, Acknowledged
  <1>1. TypeOK'
    BY DEF TypeOK, Where, Exclusive
  <1>2. Exclusive'
    BY DEF TypeOK, Where, Exclusive, Marked
  <1>3. Marked'
    BY DEF TypeOK, Where, Exclusive, Marked
  <1>4. Attached'
    BY DEF TypeOK, Where, Exclusive, Marked, Attached, Registered
  <1>5. Counted'
    BY DEF Counted
  <1> QED BY <1>1, <1>2, <1>3, <1>4, <1>5

LEMMA RegisterFailsKeeps == ASSUME IInv, NEW c \in Client, RegisterFails(c) PROVE IInv'
  <1> USE Names DEF IInv, RegisterFails, interrupts, dedication, At, Ch, Goto, MediatorEnable, Enable, StatusAfterSet, Acknowledged
  <1>1. TypeOK'
    BY DEF TypeOK, Where, Exclusive
  <1>2. Exclusive'
    BY DEF TypeOK, Where, Exclusive, Marked
  <1>3. Marked'
    BY DEF TypeOK, Where, Exclusive, Marked
  <1>4. Attached'
    BY DEF TypeOK, Where, Exclusive, Marked, Attached, Registered
  <1>5. Counted'
    BY DEF Counted
  <1> QED BY <1>1, <1>2, <1>3, <1>4, <1>5

LEMMA UnregisterKeeps == ASSUME IInv, NEW c \in Client, Unregister(c) PROVE IInv'
  <1> USE Names DEF IInv, Unregister, interrupts, dedication, At, Ch, Goto, MediatorDisable, Disable, StatusAfterSet, Acknowledged, Forgotten
  <1>1. TypeOK'
    BY DEF TypeOK, Where, Exclusive
  <1>2. Exclusive'
    BY DEF TypeOK, Where, Exclusive, Marked
  <1>3. Marked'
    BY DEF TypeOK, Where, Exclusive, Marked
  <1>4. Attached'
    BY DEF TypeOK, Where, Exclusive, Marked, Attached, Registered
  <1>5. Counted'
    BY DEF Counted
  <1> QED BY <1>1, <1>2, <1>3, <1>4, <1>5

LEMMA ReleaseKeeps == ASSUME IInv, NEW c \in Client, Release(c) PROVE IInv'
  <1> USE Names DEF IInv, Release, interrupts, dedication, At, Ch, Goto, Quieted, StatusAfterSet, Acknowledged
  <1>1. TypeOK'
    BY DEF TypeOK, Where, Exclusive
  <1>2. Exclusive'
    BY DEF TypeOK, Where, Exclusive, Marked
  <1>3. Marked'
    BY DEF TypeOK, Where, Exclusive, Marked
  <1>4. Attached'
    BY DEF TypeOK, Where, Exclusive, Marked, Attached, Registered
  <1>5. Counted'
    BY DEF Counted
  <1> QED BY <1>1, <1>2, <1>3, <1>4, <1>5

LEMMA StartKeeps == ASSUME IInv, NEW c \in Client, Start(c) PROVE IInv'
  <1> USE Names DEF IInv, Start, interrupts, dedication, At, Ch, Goto
  <1>1. TypeOK'
    BY DEF TypeOK, Where, Exclusive
  <1>2. Exclusive'
    BY DEF TypeOK, Where, Exclusive, Marked
  <1>3. Marked'
    BY DEF TypeOK, Where, Exclusive, Marked
  <1>4. Attached'
    BY DEF TypeOK, Where, Exclusive, Marked, Attached, Registered
  <1>5. Counted'
    BY DEF Counted
  <1> QED BY <1>1, <1>2, <1>3, <1>4, <1>5

LEMMA WakeKeeps == ASSUME IInv, NEW c \in Client, Wake(c) PROVE IInv'
  <1> USE Names DEF IInv, Wake, interrupts, dedication, At, Ch, Goto
  <1>1. TypeOK'
    BY DEF TypeOK, Where, Exclusive
  <1>2. Exclusive'
    BY DEF TypeOK, Where, Exclusive, Marked
  <1>3. Marked'
    BY DEF TypeOK, Where, Exclusive, Marked
  <1>4. Attached'
    BY DEF TypeOK, Where, Exclusive, Marked, Attached, Registered
  <1>5. Counted'
    BY DEF Counted
  <1> QED BY <1>1, <1>2, <1>3, <1>4, <1>5

LEMMA TimeOutKeeps == ASSUME IInv, NEW c \in Client, TimeOut(c) PROVE IInv'
  <1> USE Names DEF IInv, TimeOut, interrupts, dedication, At, Ch, Goto
  <1>1. TypeOK'
    BY DEF TypeOK, Where, Exclusive
  <1>2. Exclusive'
    BY DEF TypeOK, Where, Exclusive, Marked
  <1>3. Marked'
    BY DEF TypeOK, Where, Exclusive, Marked
  <1>4. Attached'
    BY DEF TypeOK, Where, Exclusive, Marked, Attached, Registered
  <1>5. Counted'
    BY DEF Counted
  <1> QED BY <1>1, <1>2, <1>3, <1>4, <1>5

LEMMA InterruptDoneKeeps == ASSUME IInv, NEW c \in Client, InterruptDone(c) PROVE IInv'
  <1> USE Names DEF IInv, InterruptDone, interrupts, dedication, At, Ch, Goto, Enable, StatusAfterSet, Acknowledged
  <1>1. TypeOK'
    BY DEF TypeOK, Where, Exclusive
  <1>2. Exclusive'
    BY DEF TypeOK, Where, Exclusive, Marked
  <1>3. Marked'
    BY DEF TypeOK, Where, Exclusive, Marked
  <1>4. Attached'
    BY DEF TypeOK, Where, Exclusive, Marked, Attached, Registered
  <1>5. Counted'
    BY DEF Counted
  <1> QED BY <1>1, <1>2, <1>3, <1>4, <1>5

LEMMA StopKeeps == ASSUME IInv, NEW c \in Client, Stop(c) PROVE IInv'
  <1> USE Names DEF IInv, Stop, interrupts, dedication, At, Ch, Goto
  <1>1. TypeOK'
    BY DEF TypeOK, Where, Exclusive
  <1>2. Exclusive'
    BY DEF TypeOK, Where, Exclusive, Marked
  <1>3. Marked'
    BY DEF TypeOK, Where, Exclusive, Marked
  <1>4. Attached'
    BY DEF TypeOK, Where, Exclusive, Marked, Attached, Registered
  <1>5. Counted'
    BY DEF Counted
  <1> QED BY <1>1, <1>2, <1>3, <1>4, <1>5

LEMMA HardwareKeeps == ASSUME IInv, NEW i \in Channel, Complete(i) PROVE IInv'
  BY DEF IInv, Complete, TypeOK, Exclusive, Marked, Attached, Counted, Registered, At, Ch, dedication

LEMMA ThreadKeeps == ASSUME IInv, InterruptThread PROVE IInv'
  <1> USE DEF IInv, interrupts, dedication, At, Ch
  <1>1. CASE ReadMask
    BY <1>1 DEF ReadMask, Pending, TypeOK, Exclusive, Marked, Attached, Counted
  <1>2. CASE Signal
    <2>1. ist' \in [at : {"wait", "signal"}, mask : SUBSET Channel, todo : SUBSET Channel]
      BY <1>2 DEF Signal, TypeOK
    <2>2. event' \in [Client -> BOOLEAN]
      BY <1>2 DEF Signal, TypeOK
    <2>3. TypeOK'
      BY <1>2, <2>1, <2>2 DEF Signal, TypeOK
    <2>4. Exclusive' /\ Marked' /\ Attached' /\ Counted'
      BY <1>2 DEF Signal, Exclusive, Marked, Attached, Counted
    <2> QED BY <2>3, <2>4
  <1>3. CASE ClearMask
    BY <1>3 DEF ClearMask, Masked, Acknowledged, TypeOK, Exclusive, Marked, Attached, Counted
  <1> QED BY <1>1, <1>2, <1>3 DEF InterruptThread

LEMMA DI_ReserveInterruptKeeps ==
    ASSUME IInv, NEW l \in Line, NEW n \in Bulk, DI_ReserveInterrupt(l, n) PROVE IInv'
  <1> USE Names DEF IInv, DI_ReserveInterrupt, interrupts, At, Ch
  <1>1. TypeOK'
    BY DEF TypeOK
  <1>2. Exclusive'
    BY DEF TypeOK, Exclusive
  <1>3. Marked'
    BY DEF TypeOK, Exclusive, Marked
  <1>4. Attached'
    BY DEF TypeOK, Attached
  <1>5. Counted'
    <2>1. Cardinality({}) = 0 /\ n \in Nat
      BY FS_EmptySet
    <2>2. bulk'[l] = {} /\ loop'.line = l /\ loop'.got = 0 /\ loop'.want = n
      BY DEF TypeOK
    <2>3. \A m \in Line : line'[m] = "taking" <=> m = l
      BY DEF TypeOK, Counted, Unlocked
    <2> QED BY <2>1, <2>2, <2>3 DEF Counted
  <1> QED BY <1>1, <1>2, <1>3, <1>4, <1>5

LEMMA TakeNextKeeps == ASSUME IInv, NEW l \in Line, TakeNext(l) PROVE IInv'
  <1> USE Names DEF IInv, interrupts, At, Ch
  <1>1. PICK i \in Channel \ used : used' = used \cup {i} /\ bulk' = [bulk EXCEPT ![l] = @ \cup {i}]
    BY DEF TakeNext, Unused, Taken
  <1>2. /\ loop.line = l /\ loop.got # loop.want /\ loop' = [loop EXCEPT !.got = @ + 1]
        /\ UNCHANGED <<interrupts, running, client, event, ist, line, standby>>
    BY DEF TakeNext, AllTaken
  <1> USE <1>1, <1>2
  <1>3. TypeOK'
    BY DEF TypeOK
  <1>4. Exclusive'
    BY DEF TypeOK, Exclusive, Marked, Counted
  <1>5. Marked'
    BY DEF TypeOK, Exclusive, Marked
  <1>6. Attached'
    BY DEF TypeOK, Attached
  <1>7. Counted'
    <2>1. IsFiniteSet(bulk[l]) /\ i \notin bulk[l] /\ bulk'[l] = bulk[l] \cup {i}
      <3>1. bulk[l] \subseteq Channel
        BY DEF TypeOK
      <3>2. i \notin bulk[l] /\ bulk'[l] = bulk[l] \cup {i}
        BY DEF TypeOK, Marked
      <3> QED BY <3>1, <3>2, FiniteChannels, FS_Subset
    <2>2. Cardinality(bulk'[l]) = Cardinality(bulk[l]) + 1
      BY <2>1, OneMore
    <2>3. loop'.line = l /\ loop'.got = loop.got + 1 /\ loop'.want = loop.want
      BY DEF TypeOK
    <2>4. loop.got = Cardinality(bulk[l]) /\ loop.got + 1 <= loop.want
      <3>1. loop.got \in Nat /\ loop.want \in Nat
        BY DEF TypeOK
      <3>2. loop.got = Cardinality(bulk[l]) /\ loop.got <= loop.want
        BY DEF Counted
      <3> QED BY <3>1, <3>2
    <2> QED BY <2>2, <2>3, <2>4 DEF Counted
  <1> QED BY <1>3, <1>4, <1>5, <1>6, <1>7

LEMMA TakingDoneKeeps == ASSUME IInv, NEW l \in Line, TakingDone(l) PROVE IInv'
  <1> USE Names DEF IInv, TakingDone, NoLoop, interrupts, At, Ch
  <1>1. TypeOK'
    BY DEF TypeOK
  <1>2. Exclusive'
    BY DEF TypeOK, Exclusive, Marked
  <1>3. Marked'
    BY DEF TypeOK, Exclusive, Marked
  <1>4. Attached'
    BY DEF TypeOK, Attached
  <1>5. Counted'
    BY DEF TypeOK, Counted
  <1> QED BY <1>1, <1>2, <1>3, <1>4, <1>5

LEMMA TakingFailsKeeps == ASSUME IInv, NEW l \in Line, TakingFails(l) PROVE IInv'
  <1> USE Names DEF IInv, TakingFails, ResetUsedChannelsBulk, NoLoop, interrupts, At, Ch
  <1>1. TypeOK'
    BY DEF TypeOK
  <1>2. Exclusive'
    BY DEF TypeOK, Exclusive, Marked
  <1>3. Marked'
    BY DEF TypeOK, Exclusive, Marked
  <1>4. Attached'
    BY DEF TypeOK, Attached
  <1>5. Counted'
    BY DEF TypeOK, Counted
  <1> QED BY <1>1, <1>2, <1>3, <1>4, <1>5

LEMMA BeginDrainKeeps == ASSUME IInv, NEW l \in Line, BeginDrain(l) PROVE IInv'
  <1> USE Names DEF IInv, BeginDrain, interrupts, At, Ch
  <1>1. TypeOK'
    BY DEF TypeOK
  <1>2. Exclusive'
    BY DEF TypeOK, Exclusive, Marked
  <1>3. Marked'
    BY DEF TypeOK, Exclusive, Marked
  <1>4. Attached'
    BY DEF TypeOK, Attached
  <1>5. Counted'
    BY DEF TypeOK, Counted, Unlocked
  <1> QED BY <1>1, <1>2, <1>3, <1>4, <1>5

LEMMA EndDrainKeeps == ASSUME IInv, NEW l \in Line, EndDrain(l) PROVE IInv'
  <1> USE Names DEF IInv, EndDrain, interrupts, At, Ch
  <1>1. TypeOK'
    BY DEF TypeOK
  <1>2. Exclusive'
    BY DEF TypeOK, Exclusive, Marked
  <1>3. Marked'
    BY DEF TypeOK, Exclusive, Marked
  <1>4. Attached'
    BY DEF TypeOK, Attached
  <1>5. Counted'
    BY DEF TypeOK, Counted, Unlocked
  <1> QED BY <1>1, <1>2, <1>3, <1>4, <1>5

LEMMA DI_ReleaseInterruptKeeps == ASSUME IInv, NEW l \in Line, DI_ReleaseInterrupt(l) PROVE IInv'
  <1> USE Names DEF IInv, DI_ReleaseInterrupt, ResetUsedChannelsBulk, interrupts, At, Ch
  <1>1. TypeOK'
    BY DEF TypeOK
  <1>2. Exclusive'
    BY DEF TypeOK, Exclusive, Marked
  <1>3. Marked'
    BY DEF TypeOK, Exclusive, Marked
  <1>4. Attached'
    BY DEF TypeOK, Attached
  <1>5. Counted'
    BY DEF TypeOK, Counted, Unlocked
  <1> QED BY <1>1, <1>2, <1>3, <1>4, <1>5

LEMMA StepKeeps == IInv /\ [Next]_vars => IInv'
  <1> SUFFICES ASSUME IInv, [Next]_vars PROVE IInv'
    OBVIOUS
  <1>1. CASE UNCHANGED vars
    BY <1>1 DEF IInv, TypeOK, Exclusive, Marked, Attached, Counted, At, Ch, vars, interrupts, dedication
  <1>2. ASSUME NEW c \in Client, ClientStep(c) PROVE IInv'
    BY <1>2, ReserveKeeps, RegisterKeeps, RegisterFailsKeeps, UnregisterKeeps, ReleaseKeeps,
       StartKeeps, WakeKeeps, TimeOutKeeps, InterruptDoneKeeps, StopKeeps
       DEF ClientStep
  <1>3. ASSUME NEW l \in Line, LineStep(l) PROVE IInv'
    BY <1>3, DI_ReserveInterruptKeeps, TakeNextKeeps, TakingDoneKeeps, TakingFailsKeeps, BeginDrainKeeps, EndDrainKeeps, DI_ReleaseInterruptKeeps
       DEF LineStep
  <1> QED BY <1>1, <1>2, <1>3, HardwareKeeps, ThreadKeeps DEF Next

\* The inductive invariant holds in every behaviour.
LEMMA Invariance == Spec => []IInv
  BY InitIInv, StepKeeps, PTL DEF Spec

-----------------------------------------------------------------------------

\* The driver's bit sets, lists and handles keep their types.
THEOREM TypeCorrect == Spec => []TypeOK
  <1>1. IInv => TypeOK
    BY DEF IInv
  <1> QED BY <1>1, Invariance, PTL

\* m_ffDmaChannels is exactly the channels that somebody holds.
THEOREM ChannelsCounted == Spec => []UsedExactly
  <1>1. IInv => UsedExactly
    BY Names DEF IInv, TypeOK, Exclusive, Marked, UsedExactly, Owned, Dedicated, At, Ch
  <1> QED BY <1>1, Invariance, PTL

\* A channel that no client has can neither interrupt nor signal.
THEOREM FreeChannelsQuiet == Spec => []FreeIsQuiet
  <1>1. IInv => FreeIsQuiet
    BY Names DEF IInv, TypeOK, Exclusive, Attached, Registered, FreeIsQuiet, Owned, At, Ch
  <1> QED BY <1>1, Invariance, PTL

\* The list and the handles agree, and the handle of a channel is its owner's.
THEOREM HandlersOfOwners == Spec => []HandlerOfOwner
  <1>1. IInv => HandlerOfOwner
    BY DEF IInv, Attached, HandlerOfOwner, Ch
  <1> QED BY <1>1, Invariance, PTL

-----------------------------------------------------------------------------
(* Standby                                                                 *)

Draining == {l \in Line : line[l] = "draining"}

LEMMA StandbyStep == TypeOK /\ Counted /\ StandbyAgrees /\ [Next]_vars => StandbyAgrees'
  <1> SUFFICES ASSUME TypeOK, Counted, StandbyAgrees, [Next]_vars PROVE StandbyAgrees'
    OBVIOUS
  <1>1. /\ standby.count = Cardinality(Draining) /\ (standby.off <=> standby.count > 0)
        /\ standby.off \in BOOLEAN /\ standby.count \in Int
    BY DEF StandbyAgrees, Draining, TypeOK
  <1>2. IsFiniteSet(Draining)
    BY Names, FS_Subset DEF Draining
  <1>3. SUFFICES /\ standby'.count = Cardinality(Draining')
                 /\ standby'.off <=> standby'.count > 0
    BY DEF StandbyAgrees, Draining
  <1>4. CASE UNCHANGED standby /\ Draining' = Draining
    BY <1>1, <1>4
  <1>5. ASSUME NEW l \in Line, BeginDrain(l) PROVE StandbyAgrees'
    <2>1. Draining' = Draining \cup {l} /\ l \notin Draining
      BY <1>5 DEF BeginDrain, TypeOK, Draining
    <2>2. Cardinality(Draining') = Cardinality(Draining) + 1 /\ Cardinality(Draining) \in Nat
      BY <2>1, <1>2, FS_AddElement, FS_CardinalityType
    <2>3. /\ standby'.count = standby.count + 1
          /\ standby'.off = (standby.off \/ standby.count = 0)
      BY <1>5 DEF BeginDrain
    <2>4. standby.count = 0 \/ standby.count > 0
      BY <1>1, <2>2
    <2>5. standby'.off
      BY <1>1, <2>3, <2>4, Zenon
    <2>6. standby'.count = Cardinality(Draining') /\ standby'.count > 0
      BY <1>1, <2>2, <2>3
    <2> QED BY <2>5, <2>6 DEF StandbyAgrees, Draining
  <1>6. ASSUME NEW l \in Line, EndDrain(l) PROVE StandbyAgrees'
    <2>1. Draining' = Draining \ {l} /\ l \in Draining
      BY <1>6 DEF EndDrain, TypeOK, Draining
    <2>2. Cardinality(Draining') = Cardinality(Draining) - 1 /\ Cardinality(Draining') \in Nat
      BY <2>1, <1>2, FS_RemoveElement, FS_CardinalityType
    <2>3. /\ standby'.count = standby.count - 1
          /\ standby'.off = (standby.off /\ ~(standby.count - 1 = 0))
      BY <1>6 DEF EndDrain, StandbyBack
    <2>4. /\ standby'.count = Cardinality(Draining') /\ standby.count > 0
          /\ standby'.count > 0 <=> ~(standby.count - 1 = 0)
      BY <1>1, <2>2, <2>3
    <2>5. standby'.off <=> standby'.count > 0
      BY <1>1, <2>3, <2>4, Zenon
    <2> QED BY <2>4, <2>5 DEF StandbyAgrees, Draining
  <1>7. ASSUME NEW l \in Line, NEW n \in Bulk, DI_ReserveInterrupt(l, n)
        PROVE UNCHANGED standby /\ Draining' = Draining
    BY <1>7 DEF DI_ReserveInterrupt, TypeOK, Draining
  <1>8. ASSUME NEW l \in Line,
               DI_ReleaseInterrupt(l) \/ TakeNext(l) \/ TakingDone(l) \/ TakingFails(l)
        PROVE UNCHANGED standby /\ Draining' = Draining
    BY <1>8 DEF DI_ReleaseInterrupt, TakeNext, TakingDone, TakingFails, TypeOK, Counted, Draining
  <1>9. CASE UNCHANGED dedication
    BY <1>4, <1>9 DEF dedication, Draining
  <1>10. ASSUME NEW c \in Client, ClientStep(c) PROVE UNCHANGED dedication
    BY <1>10 DEF ClientStep, Reserve, Register, RegisterFails, Unregister, Release, Start, Wake,
                 TimeOut, InterruptDone, Stop
  <1>11. ASSUME (\E i \in Channel : Complete(i)) \/ InterruptThread PROVE UNCHANGED dedication
    BY <1>11 DEF Complete, InterruptThread, ReadMask, Signal, ClearMask
  <1>12. CASE UNCHANGED vars
    BY <1>9, <1>12 DEF vars, dedication
  <1> QED
    BY <1>4, <1>5, <1>6, <1>7, <1>8, <1>9, <1>10, <1>11, <1>12
       DEF Next, LineStep, StandbyAgrees, Draining

\* Standby is forbidden exactly while a channel is being drained.
THEOREM StandbyBalanced == Spec => []StandbyAgrees
  <1>1. Init => StandbyAgrees
    <2> SUFFICES ASSUME Init PROVE StandbyAgrees
      OBVIOUS
    <2> DEFINE D == {l \in Line : line[l] = "draining"}
    <2>1. D = {}
      BY DEF Init
    <2>2. Cardinality(D) = 0
      BY <2>1, FS_EmptySet
    <2>3. standby.count = 0 /\ standby.off = FALSE
      BY DEF Init
    <2>4. StandbyAgrees <=> standby.count = Cardinality(D) /\ (standby.off <=> standby.count > 0)
      BY DEF StandbyAgrees
    <2> HIDE DEF D
    <2> QED BY <2>2, <2>3, <2>4
  <1>2. IInv => TypeOK /\ Counted
    BY DEF IInv
  <1> QED BY <1>1, <1>2, StandbyStep, Invariance, PTL DEF Spec

-----------------------------------------------------------------------------
(* The pool                                                                *)

Held == [h \in Client \cup Line |->
            IF h \in Line THEN (IF line[h] = "taking" THEN {} ELSE bulk[h])
            ELSE IF At(h, "none") THEN {} ELSE {Ch(h)}]

Asked == [l \in Line |-> IF loop.line = l THEN loop.want ELSE NoRequest]

LEMMA NoRequests == Pool!NoRequest = NoRequest /\ NoRequest \notin Nat
  BY DEF Pool!NoRequest, NoRequest

LEMMA SameCardinality == ASSUME NEW S PROVE Pool!Cardinality(S) = Cardinality(S)
  BY DEF Pool!Cardinality, Cardinality, Pool!IsFiniteSet, IsFiniteSet

LEMMA SameHeld ==
    ASSUME UNCHANGED <<bulk, line, loop>>, \A c \in Client : At(c, "none")' <=> At(c, "none"),
           \A c \in Client : Ch(c)' = Ch(c)
    PROVE  Held' = Held /\ Asked' = Asked
  BY DEF Held, Asked

LEMMA PoolStep == IInv /\ [Next]_vars => [Pool!Next]_<<Held, Asked>>
  <1> SUFFICES ASSUME IInv, [Next]_vars PROVE Pool!Next \/ (Held' = Held /\ Asked' = Asked)
    OBVIOUS
  <1> USE Names DEF IInv
  <1>0. DOMAIN client = Client /\ DOMAIN bulk = Line /\ DOMAIN line = Line
    BY DEF TypeOK
  <1>1. ASSUME NEW c \in Client, Reserve(c) PROVE Pool!Next
    <2>1. PICK i \in Unused(used) : client' = [client EXCEPT ![c] = [at |-> "owned", ch |-> i]]
      BY <1>1 DEF Reserve
    <2>2. Held[c] = {} /\ Held' = [Held EXCEPT ![c] = {i}] /\ Asked' = Asked
      <3>1. Held[c] = {}
        BY <1>1 DEF Reserve, Held, At
      <3>2. line' = line /\ bulk' = bulk /\ loop' = loop /\ client[c].at = "none"
        BY <1>1 DEF Reserve, dedication, At
      <3>3. ASSUME NEW h \in Client \cup Line
            PROVE  Held'[h] = IF h = c THEN {i} ELSE Held[h]
        <4>1. CASE h \in Line
          BY <3>2, <4>1 DEF Held
        <4>2. CASE h \in Client
          <5>1. client'[h] = IF h = c THEN [at |-> "owned", ch |-> i] ELSE client[h]
            BY <1>0, <2>1, <4>2
          <5> QED BY <4>2, <5>1 DEF Held, At, Ch
        <4> QED BY <4>1, <4>2
      <3>4. Held' = [Held EXCEPT ![c] = {i}]
        BY <3>3 DEF Held
      <3>5. Asked' = Asked
        BY <3>2 DEF Asked
      <3> QED BY <3>1, <3>4, <3>5
    <2>3. i \in Channel /\ \A h \in Client \cup Line : i \notin Held[h]
      BY <2>1 DEF Unused, Marked, Held, At, Ch
    <2>4. i \in Pool!Unheld
      BY ZenonT(40), <2>3 DEF Pool!Unheld, Held
    <2>5. Pool!Reserve(c, i)
      BY Zenon, <2>2, <2>4 DEF Pool!Reserve, Held, Asked
    <2> QED BY <2>3, <2>5 DEF Pool!Next
  <1>2. ASSUME NEW c \in Client, Release(c) PROVE Pool!Next
    <2>1. Held' = [Held EXCEPT ![c] = {}] /\ Asked' = Asked
      BY <1>0, <1>2 DEF Release, Held, Asked, At, Ch, dedication
    <2> QED BY <2>1 DEF Pool!Next, Pool!GiveBack, Held, Asked
  <1>3. ASSUME NEW l \in Line, NEW n \in Bulk, DI_ReserveInterrupt(l, n) PROVE Pool!Next
    <2>1. Held' = Held /\ Held[l] = {}
      BY <1>0, <1>3 DEF DI_ReserveInterrupt, Exclusive, Held, At, Ch
    <2>2. Asked[l] = NoRequest /\ Asked' = [Asked EXCEPT ![l] = n]
      BY <1>3 DEF DI_ReserveInterrupt, Unlocked, Asked
    <2>3. Pool!Ask(l, n)
      BY <2>1, <2>2, NoRequests DEF Pool!Ask, Held, Asked
    <2> QED BY <2>3 DEF Pool!Next
  <1>4. ASSUME NEW l \in Line, TakeNext(l) PROVE Held' = Held /\ Asked' = Asked
    <2>1. line[l] = "taking" /\ UNCHANGED <<line, client>>
      BY <1>4 DEF TakeNext, Counted
    <2>2. PICK b : bulk' = [bulk EXCEPT ![l] = b]
      BY <1>4 DEF TakeNext
    <2>3. loop'.line = loop.line /\ loop'.want = loop.want
      BY <1>4 DEF TakeNext, TypeOK
    <2> QED BY <1>0, <2>1, <2>2, <2>3 DEF Held, Asked, At, Ch
  <1>5. ASSUME NEW l \in Line, TakingDone(l) PROVE Pool!Next
    <2>1. PICK b : b = bulk[l]
      OBVIOUS
    <2>2. /\ loop.line = l /\ loop.got = loop.want /\ loop.want \in Nat
          /\ line[l] = "taking" /\ line' = [line EXCEPT ![l] = "held"]
          /\ loop'.line = Nobody /\ UNCHANGED <<client, bulk>>
      BY <1>5 DEF TakingDone, AllTaken, Counted, TypeOK, NoLoop
    <2>3. Held' = [Held EXCEPT ![l] = b]
      BY <1>0, <2>1, <2>2 DEF Held, At, Ch
    <2>4. Asked[l] = loop.want /\ Asked' = [Asked EXCEPT ![l] = NoRequest]
      BY <2>2 DEF Asked
    <2>5. Cardinality(b) = loop.want
      BY <2>1, <2>2 DEF Counted
    <2>6. b \subseteq Channel /\ \A h \in Client \cup Line : b \cap Held[h] = {}
      BY <2>1, <2>2 DEF Exclusive, TypeOK, Held, At, Ch
    <2>7. b \in SUBSET Pool!Unheld
      BY ZenonT(40), <2>6 DEF Pool!Unheld, Held
    <2>8. Pool!Grant(l, b)
      <3>1. Asked[l] # Pool!NoRequest
        BY <2>2, <2>4, NoRequests
      <3>2. b \subseteq Pool!Unheld /\ Cardinality(b) = Asked[l]
        BY <2>4, <2>5, <2>7
      <3>3. Asked' = [Asked EXCEPT ![l] = Pool!NoRequest]
        BY <2>4, NoRequests
      <3> QED BY Zenon, SameCardinality, <2>3, <3>1, <3>2, <3>3 DEF Pool!Grant, Held, Asked
    <2> QED BY <2>6, <2>8 DEF Pool!Next
  <1>6. ASSUME NEW l \in Line, TakingFails(l) PROVE Pool!Next
    <2>1. /\ loop.line = l /\ loop.got # loop.want /\ loop.want \in Nat /\ loop.got \in Nat
          /\ line[l] = "taking" /\ line' = [line EXCEPT ![l] = "free"]
          /\ bulk' = [bulk EXCEPT ![l] = {}] /\ Channel \ used = {}
          /\ loop'.line = Nobody /\ UNCHANGED client
      BY <1>6 DEF TakingFails, AllTaken, Unused, Counted, TypeOK, NoLoop
    <2>2. Held' = Held
      BY <1>0, <2>1 DEF Held, At, Ch
    <2>3. Asked[l] = loop.want /\ Asked' = [Asked EXCEPT ![l] = NoRequest]
      BY <2>1 DEF Asked
    <2>4. \A i \in Channel : i \notin bulk[l] => \E h \in Client \cup Line : i \in Held[h]
      <3> SUFFICES ASSUME NEW i \in Channel, i \notin bulk[l]
                   PROVE  \E h \in Client \cup Line : i \in Held[h]
        OBVIOUS
      <3>1. i \in used
        BY <2>1
      <3>2. ASSUME NEW c \in Client, Ch(c) = i PROVE i \in Held[c]
        BY <3>2 DEF Exclusive, Held, At, Ch
      <3>3. ASSUME NEW m \in Line, i \in bulk[m] PROVE i \in Held[m]
        BY <2>1, <3>3 DEF Counted, Held
      <3> QED BY <3>1, <3>2, <3>3 DEF Marked
    <2>5. Pool!Unheld \subseteq bulk[l]
      BY <2>4 DEF Pool!Unheld, Held
    <2>6. Cardinality(Pool!Unheld) <= loop.got /\ Cardinality(Pool!Unheld) \in Nat
      <3>1. IsFiniteSet(bulk[l])
        BY FiniteChannels, FS_Subset DEF TypeOK
      <3>2. IsFiniteSet(Pool!Unheld) /\ Cardinality(Pool!Unheld) <= Cardinality(bulk[l])
        BY <2>5, <3>1, FS_Subset
      <3>3. loop.got = Cardinality(bulk[l])
        BY <2>1 DEF Counted
      <3> QED BY <3>2, <3>3, FS_CardinalityType
    <2>7. Cardinality(Pool!Unheld) < Asked[l]
      BY <2>1, <2>3, <2>6 DEF Counted
    <2>8. Pool!Refuse(l)
      <3>1. Asked[l] # Pool!NoRequest
        BY <2>1, <2>3, NoRequests
      <3>2. Asked' = [Asked EXCEPT ![l] = Pool!NoRequest]
        BY <2>3, NoRequests
      <3> QED BY Zenon, SameCardinality, <2>2, <2>7, <3>1, <3>2 DEF Pool!Refuse, Held, Asked
    <2> QED BY <2>8 DEF Pool!Next
  <1>7. ASSUME NEW l \in Line, DI_ReleaseInterrupt(l) PROVE Pool!Next
    <2>1. Held' = [Held EXCEPT ![l] = {}] /\ Asked' = Asked
      BY <1>0, <1>7 DEF DI_ReleaseInterrupt, Held, Asked, At, Ch
    <2> QED BY <2>1 DEF Pool!Next, Pool!GiveBack, Held, Asked
  <1>8. ASSUME NEW c \in Client, ClientStep(c), ~Reserve(c), ~Release(c)
        PROVE  Held' = Held /\ Asked' = Asked
    <2>1. PICK w \in Where \ {"none"} : client' = client \/ client' = [client EXCEPT ![c].at = w]
      BY <1>8 DEF ClientStep, Register, RegisterFails, Unregister, Start, Wake, TimeOut,
                  InterruptDone, Stop, Goto, Where
    <2>2. ~At(c, "none") \/ client' = client
      BY <1>8 DEF ClientStep, Register, RegisterFails, Unregister, Start, Wake, TimeOut,
                  InterruptDone, Stop, At
    <2>3. UNCHANGED <<bulk, line, loop>>
      BY <1>8 DEF ClientStep, Register, RegisterFails, Unregister, Start, Wake, TimeOut,
                  InterruptDone, Stop, dedication
    <2> QED BY <1>0, <2>1, <2>2, <2>3, SameHeld DEF TypeOK, At, Ch
  <1>9. CASE UNCHANGED <<client, bulk, line, loop>>
    BY <1>9 DEF Held, Asked, At, Ch
  <1>10. ASSUME NEW l \in Line, BeginDrain(l) \/ EndDrain(l) PROVE Held' = Held /\ Asked' = Asked
    BY <1>0, <1>10 DEF BeginDrain, EndDrain, Held, Asked, At, Ch
  <1>11. ASSUME \/ \E i \in Channel : Complete(i)
                \/ InterruptThread
                \/ UNCHANGED vars
         PROVE  UNCHANGED <<client, bulk, line, loop>>
    BY <1>11 DEF Complete, InterruptThread, ReadMask, Signal, ClearMask, vars, dedication
  <1> QED BY <1>1, <1>2, <1>3, <1>4, <1>5, <1>6, <1>7, <1>8, <1>9, <1>10, <1>11 DEF Next, LineStep

\* The driver implements the pool: a channel has one holder, and a request for several
\* channels ends with exactly as many or with none, the latter only when there are too few.
THEOREM PoolImplemented == Spec => ImplementsPool
  <1>1. Init => Pool!Init
    BY Names, NoRequests DEF Init, NoLoop, Pool!Init, At
  <1>2. IInv /\ [Next]_vars => [Pool!Next]_<<Held, Asked>>
    BY PoolStep
  <1> QED BY <1>1, <1>2, Invariance, PTL DEF Spec, ImplementsPool, Pool!Spec, Held, Asked

-----------------------------------------------------------------------------
(* Interrupts that arrive                                                  *)

\* A call of one client leaves the interrupt of another alone.
LEMMA OthersKept ==
    ASSUME IInv, NEW c \in Client, NEW d \in Client \ Urgent, c # d, ClientStep(c), Awaited(d)
    PROVE  Awaited(d)'
  <1> USE Names DEF IInv
  <1>1. UNCHANGED ist
    BY DEF ClientStep, Reserve, Register, RegisterFails, Unregister, Release, Start, Wake, TimeOut,
           InterruptDone, Stop
  <1>2. client'[d] = client[d] /\ event'[d] = event[d]
    BY DEF ClientStep, Reserve, Register, RegisterFails, Unregister, Release, Start, Wake, TimeOut,
           InterruptDone, Stop, Goto, TypeOK
  <1>3. CASE client[d].at \notin Registered
    BY <1>2, <1>3 DEF Awaited, Registered, At
  <1>4. CASE client[d].at \in Registered
    <2>1. PICK x : x = Ch(d)
      OBVIOUS
    <2>2. x \in Channel /\ x \in used /\ x # Ch(c)
      BY <1>4, <2>1 DEF Exclusive, Marked, TypeOK, Registered, At, Ch
    <2>3. x \in enabled => x \in enabled'
      BY <2>2 DEF ClientStep, Reserve, Register, RegisterFails, Unregister, Release, Start, Wake,
                  TimeOut, InterruptDone, Stop, MediatorEnable, MediatorDisable, Enable, Disable,
                  Unused, Quieted, interrupts
    <2>4. x \in csr => x \in csr'
      BY <2>2 DEF ClientStep, Reserve, Register, RegisterFails, Unregister, Release, Start, Wake,
                  TimeOut, InterruptDone, Stop, Unused, interrupts
    <2>5. x \in csr /\ x \in status => x \in status'
      BY <2>2 DEF ClientStep, Reserve, Register, RegisterFails, Unregister, Release, Start, Wake,
                  TimeOut, InterruptDone, Stop, MediatorEnable, MediatorDisable, Enable, Disable,
                  StatusAfterSet, Acknowledged, interrupts
    <2>6. x \notin running' => x \notin running
      BY <2>2 DEF ClientStep, Reserve, Register, RegisterFails, Unregister, Release, Start, Wake,
                  TimeOut, InterruptDone, Stop
    <2> QED BY <1>1, <1>2, <2>1, <2>3, <2>4, <2>5, <2>6 DEF Awaited, At, Ch
  <1> QED BY <1>3, <1>4

\* Nor does a client that runs when the interrupt thread waits lose its own.
LEMMA OwnKept ==
    ASSUME IInv, NEW c \in Client \ Urgent, ClientStep(c), Awaited(c)
    PROVE  Awaited(c)'
  <1> USE Names DEF IInv
  <1>1. CASE TimeOut(c)
    BY <1>1 DEF TimeOut, Awaited, TypeOK, Goto, At, Ch, Registered, interrupts
  <1>2. ASSUME MayRun(c), ~TimeOut(c) PROVE Awaited(c)'
    <2>1. ist.at = "wait" /\ UNCHANGED ist
      BY <1>2 DEF MayRun, ClientStep, Reserve, Register, RegisterFails, Unregister, Release, Start,
                  Wake, InterruptDone, Stop
    <2>2. CASE Reserve(c)
      BY <2>1, <2>2 DEF Reserve, Awaited, TypeOK, At
    <2>3. CASE Register(c)
      <3>1. Ch(c) \notin sih /\ Ch(c) \in Channel
        BY <2>3 DEF Register, Attached, Exclusive, TypeOK, At, Ch
      <3> QED BY <2>1, <2>3, <3>1 DEF Register, MediatorEnable, Enable, Awaited, TypeOK, Goto, At, Ch
    <2>4. CASE RegisterFails(c)
      BY <2>1, <2>4 DEF RegisterFails, Awaited, TypeOK, At
    <2>5. CASE Unregister(c)
      BY <2>1, <2>5 DEF Unregister, Awaited, TypeOK, Goto, At
    <2>6. CASE Release(c)
      BY <2>1, <2>6 DEF Release, Awaited, TypeOK, At
    <2>7. CASE Start(c)
      BY <2>1, <2>7 DEF Start, Awaited, TypeOK, Goto, At, Ch, interrupts
    <2>8. CASE Wake(c)
      BY <2>1, <2>8 DEF Wake, Awaited, TypeOK, Goto, At
    <2>9. CASE InterruptDone(c)
      <3>1. Ch(c) \in sih
        BY <2>9 DEF InterruptDone, Attached, Exclusive, TypeOK, Registered, At, Ch
      <3> QED BY <2>1, <2>9, <3>1 DEF InterruptDone, Enable, Awaited, TypeOK, Goto, At, Ch
    <2>10. CASE Stop(c)
      BY <2>1, <2>10 DEF Stop, Awaited, TypeOK, Goto, At, Ch, interrupts
    <2> QED BY <1>2, <2>2, <2>3, <2>4, <2>5, <2>6, <2>7, <2>8, <2>9, <2>10 DEF ClientStep
  <1> QED BY <1>1, <1>2 DEF ClientStep

LEMMA ThreadDelivers ==
    ASSUME IInv, InterruptThread, NEW c \in Client \ Urgent, Awaited(c)
    PROVE  Awaited(c)'
  <1> USE Names DEF IInv
  <1>1. CASE ReadMask
    BY <1>1 DEF ReadMask, Awaited, TypeOK, At, Ch, interrupts
  <1>2. CASE Signal
    <2>1. PICK i \in ist.todo :
            /\ ist' = [ist EXCEPT !.todo = @ \ {i}]
            /\ event'[c] = (event[c] \/ (i \in sih /\ handler[i] = c))
      BY <1>2 DEF Signal
    <2>2. event[c] => event'[c]
      BY Zenon, <2>1
    <2>3. client[c].at \in Registered /\ i = Ch(c) => event'[c]
      <3>1. client[c].at \in Registered /\ i = Ch(c) => i \in sih /\ handler[i] = c
        BY <2>1 DEF Attached, TypeOK
      <3> QED BY Zenon, <2>1, <3>1
    <2>4. /\ ist'.at = ist.at /\ ist'.mask = ist.mask /\ ist'.todo = ist.todo \ {i}
          /\ UNCHANGED <<enabled, csr, status, running, client>>
      BY <1>2, <2>1 DEF Signal, TypeOK, interrupts
    <2> QED BY <2>2, <2>3, <2>4 DEF Awaited, At, Ch
  <1>3. CASE ClearMask
    <2>1. /\ ist.at = "signal" /\ ist.todo = {} /\ ist'.at = "wait"
          /\ enabled' = enabled \ ist.mask /\ status' = status \ (ist.mask \ csr)
          /\ UNCHANGED <<csr, running, client, event>>
      BY <1>3 DEF ClearMask, Masked, Acknowledged
    <2> QED BY <2>1 DEF Awaited, Registered, At, Ch
  <1> QED BY <1>1, <1>2, <1>3 DEF InterruptThread

LEMMA DeliveredStep == IInv /\ Delivered /\ [Next]_vars => Delivered'
  <1> SUFFICES ASSUME IInv, [Next]_vars, NEW d \in Client \ Urgent, Awaited(d) PROVE Awaited(d)'
    BY DEF Delivered
  <1>1. ASSUME NEW c \in Client, ClientStep(c) PROVE Awaited(d)'
    BY <1>1, OthersKept, OwnKept
  <1>2. ASSUME NEW i \in Channel, Complete(i) PROVE Awaited(d)'
    BY <1>2 DEF Complete, Awaited, At, Ch
  <1>3. ASSUME NEW l \in Line, LineStep(l) PROVE Awaited(d)'
    BY <1>3 DEF LineStep, DI_ReserveInterrupt, TakeNext, TakingDone, TakingFails, BeginDrain,
                EndDrain, DI_ReleaseInterrupt, Awaited, At, Ch, interrupts
  <1>4. CASE UNCHANGED vars
    BY <1>4 DEF vars, interrupts, Awaited, At, Ch
  <1> QED BY <1>1, <1>2, <1>3, <1>4, ThreadDelivers DEF Next

\* A transfer that has ended while its client waits is on the way to the client's event,
\* for any number of channels and clients, as long as the client's thread does not run
\* above the interrupt thread and a status bit stays while the CSR is not cleared.
THEOREM NoInterruptLost == Spec => []NoLostInterrupt
  <1>1. Init => Delivered
    BY Names DEF Init, Delivered, Awaited, Registered, At
  <1>2. IInv /\ Delivered => NoLostInterrupt
    BY DEF Delivered, Awaited, NoLostInterrupt, Pending, At
  <1> QED BY <1>1, <1>2, DeliveredStep, Invariance, PTL DEF Spec

=============================================================================
