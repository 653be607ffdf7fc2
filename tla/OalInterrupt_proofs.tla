------------------------ MODULE OalInterrupt_proofs -------------------------
(***************************************************************************)
(* Theorems of OalInterrupt, for any set of pins and device lines and any   *)
(* number of SYSINTR values, when requests and releases come one at a time. *)
(*                                                                         *)
(* The masks are reached through the tables, so the invariant of the masks  *)
(* (Guarded) rests on that of the tables (Mapped), and that in turn on the  *)
(* driver inside the allocation being the only one there (OneInside).       *)
(***************************************************************************)
EXTENDS OalInterrupt, TLAPS

Holding == Attached \cup {"mapped", "release"}

OneInside == \A d, e \in Irq : pc[d] \in Allocating /\ pc[e] \in Allocating => d = e

\* Which entries of the tables exist: exactly those of the drivers past their writes.
Mapped ==
    \A d \in Irq :
      /\ pc[d] = "closed" <=> sysIntr[d] = Undefined
      /\ pc[d] \in Holding => irqOf[sysIntr[d]] = d
      /\ pc[d] = "forget" => freed[d] = d
      /\ pc[d] \in {"found", "forget"} => irqOf[sysIntr[d]] = Undefined
      /\ pc[d] \in Attached \cup {"release", "forget"} => sysOf[d] = sysIntr[d]
      /\ pc[d] \in {"closed", "found", "mapped"} => sysOf[d] = Undefined

Owned ==
    \A s \in SysIntr : irqOf[s] # Undefined => /\ sysIntr[irqOf[s]] = s
                                               /\ pc[irqOf[s]] \in Holding

\* Where a driver may be whose request is unmasked, or may wake the processor; and a
\* driver that waits for its event is unmasked.
Guarded ==
    /\ masked \subseteq Device
    /\ \A d \in Irq : pc[d] \in {"wakeup", "wait"} /\ d \notin event => Unmasked(d)
    /\ \A d \in enabled : pc[d] \in {"irq", "wakeup", "wait", "serve", "mask"}
    /\ \A d \in Device \ masked : pc[d] \in {"irq", "wait", "serve", "mask"}
    /\ \A d \in Gpio : pc[d] = "wait" /\ d \notin event => d \in wake
    /\ \A d \in wake : pc[d] \in {"irq", "wakeup", "wait", "serve", "mask", "sleep"}
    /\ \A d \in Irq : pc[d] \in {"bank", "wakeup", "sleep"} => d \in Gpio

IInv == TypeOK /\ OneInside /\ Mapped /\ Owned /\ Guarded

-----------------------------------------------------------------------------

LEMMA RequestShape ==
    /\ Undefined \notin SysIntr /\ Undefined \notin Irq
    /\ Gpio \cap Device = {}
    /\ \A i \in Gpio : Bank(i) \notin Device
    /\ Device \subseteq 0..95
  BY Requests DEF SysIntr, Undefined, Irq, FirstGpio

LEMMA InitIInv == Init => IInv
  <1> SUFFICES ASSUME Init PROVE IInv
    OBVIOUS
  <1>1. TypeOK
    BY RequestShape DEF Init, TypeOK
  <1>2. OneInside
    BY DEF Init, OneInside, Allocating
  <1>3. Mapped
    BY RequestShape DEF Init, Mapped, Holding, Attached
  <1>4. Owned
    BY RequestShape DEF Init, Owned
  <1>5. Guarded
    BY DEF Init, Guarded, Irq
  <1> QED BY <1>1, <1>2, <1>3, <1>4, <1>5 DEF IInv

LEMMA RequestKeeps == ASSUME IInv, ~Overlap, NEW d \in Irq, Request(d) PROVE IInv'
  <1> USE RequestShape DEF IInv, Request, Moved, tables, banks, Line, Alone, Free, Attached
  <1>1. TypeOK'
    BY DEF TypeOK, Mapped, Holding, Allocating
  <1>2. OneInside'
    BY DEF TypeOK, OneInside, Allocating
  <1>3. Mapped'
    BY DEF TypeOK, OneInside, Mapped, Owned, Holding, Allocating
  <1>4. Owned'
    BY DEF TypeOK, OneInside, Mapped, Owned, Holding, Allocating
  <1>5. Guarded'
    BY DEF TypeOK, Mapped, Guarded, Unmasked, Holding, Irq
  <1> QED BY <1>1, <1>2, <1>3, <1>4, <1>5

LEMMA MapSysIntrKeeps == ASSUME IInv, ~Overlap, NEW d \in Irq, MapSysIntr(d) PROVE IInv'
  <1> USE RequestShape DEF IInv, MapSysIntr, Moved, tables, banks, Line, Attached
  <1>1. TypeOK'
    BY DEF TypeOK, Mapped, Holding, Allocating
  <1>2. OneInside'
    BY DEF TypeOK, OneInside, Allocating
  <1>3. Mapped'
    BY DEF TypeOK, OneInside, Mapped, Owned, Holding, Allocating
  <1>4. Owned'
    BY DEF TypeOK, OneInside, Mapped, Owned, Holding, Allocating
  <1>5. Guarded'
    BY DEF TypeOK, Mapped, Guarded, Unmasked, Holding, Irq
  <1> QED BY <1>1, <1>2, <1>3, <1>4, <1>5

LEMMA MapIrqKeeps == ASSUME IInv, ~Overlap, NEW d \in Irq, MapIrq(d) PROVE IInv'
  <1> USE RequestShape DEF IInv, MapIrq, Moved, tables, banks, Line, Attached
  <1>1. TypeOK'
    BY DEF TypeOK, Mapped, Holding, Allocating
  <1>2. OneInside'
    BY DEF TypeOK, OneInside, Allocating
  <1>3. Mapped'
    BY DEF TypeOK, OneInside, Mapped, Owned, Holding, Allocating
  <1>4. Owned'
    BY DEF TypeOK, OneInside, Mapped, Owned, Holding, Allocating
  <1>5. Guarded'
    BY DEF TypeOK, Mapped, Guarded, Unmasked, Holding, Irq
  <1> QED BY <1>1, <1>2, <1>3, <1>4, <1>5

LEMMA ReleaseKeeps == ASSUME IInv, ~Overlap, NEW d \in Irq, Release(d) PROVE IInv'
  <1> USE RequestShape DEF IInv, Release, Moved, tables, banks, Line, Alone, Attached
  <1>1. TypeOK'
    BY DEF TypeOK, Mapped, Holding, Allocating
  <1>2. OneInside'
    BY DEF TypeOK, OneInside, Allocating
  <1>3. Mapped'
    BY DEF TypeOK, OneInside, Mapped, Owned, Holding, Allocating
  <1>4. Owned'
    BY DEF TypeOK, OneInside, Mapped, Owned, Holding, Allocating
  <1>5. Guarded'
    BY DEF TypeOK, Mapped, Guarded, Unmasked, Holding, Irq
  <1> QED BY <1>1, <1>2, <1>3, <1>4, <1>5

LEMMA ForgetKeeps == ASSUME IInv, ~Overlap, NEW d \in Irq, Forget(d) PROVE IInv'
  <1> USE RequestShape DEF IInv, Forget, Moved, tables, banks, Line, Forgotten, Attached
  <1>1. TypeOK'
    BY DEF TypeOK, Mapped, Holding, Allocating
  <1>2. OneInside'
    BY DEF TypeOK, OneInside, Allocating
  <1>3. Mapped'
    BY DEF TypeOK, OneInside, Mapped, Owned, Holding, Allocating
  <1>4. Owned'
    BY DEF TypeOK, OneInside, Mapped, Owned, Holding, Allocating
  <1>5. Guarded'
    BY DEF TypeOK, Mapped, Guarded, Unmasked, Holding, Irq
  <1> QED BY <1>1, <1>2, <1>3, <1>4, <1>5

LEMMA UnmaskBankKeeps == ASSUME IInv, NEW d \in Irq, UnmaskBank(d) PROVE IInv'
  <1> USE RequestShape DEF IInv, UnmaskBank, Moved, tables, banks, Attached
  <1>1. Line(d) = d
    BY DEF Mapped, Line, Holding
  <1>2. masked' \subseteq Device
    BY <1>1 DEF Guarded, Irq
  <1>3. masked' \subseteq 0..95 /\ \A i \in Gpio : Bank(i) \notin masked'
    BY <1>2
  <1>4. TypeOK'
    BY <1>1, <1>3 DEF TypeOK, Irq
  <1>5. OneInside' /\ Mapped' /\ Owned'
    BY DEF TypeOK, OneInside, Mapped, Owned, Holding, Allocating
  <1>6. Guarded'
    BY <1>1, <1>2, <1>3 DEF TypeOK, Guarded, Unmasked, Irq
  <1> QED BY <1>4, <1>5, <1>6

LEMMA UnmaskPinKeeps == ASSUME IInv, NEW d \in Irq, UnmaskPin(d) PROVE IInv'
  <1> USE RequestShape DEF IInv, UnmaskPin, Moved, tables, banks, Attached
  <1>1. Line(d) = d
    BY DEF Mapped, Line, Holding
  <1>2. masked' \subseteq Device
    BY <1>1 DEF Guarded, Irq
  <1>3. masked' \subseteq 0..95 /\ \A i \in Gpio : Bank(i) \notin masked'
    BY <1>2
  <1>4. TypeOK'
    BY <1>1, <1>3 DEF TypeOK, Irq
  <1>5. OneInside' /\ Mapped' /\ Owned'
    BY DEF TypeOK, OneInside, Mapped, Owned, Holding, Allocating
  <1>6. Guarded'
    BY <1>1, <1>2, <1>3 DEF TypeOK, Guarded, Unmasked, Irq
  <1> QED BY <1>4, <1>5, <1>6

LEMMA UnmaskLineKeeps == ASSUME IInv, NEW d \in Irq, UnmaskLine(d) PROVE IInv'
  <1> USE RequestShape DEF IInv, UnmaskLine, Moved, tables, banks, Attached
  <1>1. Line(d) = d
    BY DEF Mapped, Line, Holding
  <1>2. masked' \subseteq Device
    BY <1>1 DEF Guarded, Irq
  <1>3. masked' \subseteq 0..95 /\ \A i \in Gpio : Bank(i) \notin masked'
    BY <1>2
  <1>4. TypeOK'
    BY <1>1, <1>3 DEF TypeOK, Irq
  <1>5. OneInside' /\ Mapped' /\ Owned'
    BY DEF TypeOK, OneInside, Mapped, Owned, Holding, Allocating
  <1>6. Guarded'
    BY <1>1, <1>2, <1>3 DEF TypeOK, Guarded, Unmasked, Irq
  <1> QED BY <1>4, <1>5, <1>6

LEMMA AllowWakeupKeeps == ASSUME IInv, NEW d \in Irq, AllowWakeup(d) PROVE IInv'
  <1> USE RequestShape DEF IInv, AllowWakeup, Moved, tables, banks, WokenUp, Attached
  <1>1. Line(d) = d
    BY DEF Mapped, Line, Holding
  <1>2. masked' \subseteq Device
    BY <1>1 DEF Guarded, Irq
  <1>3. masked' \subseteq 0..95 /\ \A i \in Gpio : Bank(i) \notin masked'
    BY <1>2
  <1>4. TypeOK'
    BY <1>1, <1>3 DEF TypeOK, Guarded
  <1>5. OneInside' /\ Mapped' /\ Owned'
    BY DEF TypeOK, OneInside, Mapped, Owned, Holding, Allocating
  <1>6. Guarded'
    BY <1>1, <1>2, <1>3 DEF TypeOK, Guarded, Unmasked, Irq
  <1> QED BY <1>4, <1>5, <1>6

LEMMA CloseKeeps == ASSUME IInv, ~Overlap, NEW d \in Irq, Close(d) PROVE IInv'
  <1> USE RequestShape DEF IInv, Close, Moved, tables, banks, Line, AfterJoin, Attached
  <1>1. TypeOK'
    BY DEF TypeOK, Mapped, Holding, Allocating
  <1>2. OneInside'
    BY DEF TypeOK, OneInside, Allocating
  <1>3. Mapped'
    BY DEF TypeOK, OneInside, Mapped, Owned, Holding, Allocating
  <1>4. Owned'
    BY DEF TypeOK, OneInside, Mapped, Owned, Holding, Allocating
  <1>5. Guarded'
    BY DEF TypeOK, Mapped, Guarded, Unmasked, Holding, Irq
  <1> QED BY <1>1, <1>2, <1>3, <1>4, <1>5

LEMMA MaskPinKeeps == ASSUME IInv, NEW d \in Irq, MaskPin(d) PROVE IInv'
  <1> USE RequestShape DEF IInv, MaskPin, Moved, tables, banks, Attached
  <1>1. Line(d) = d
    BY DEF Mapped, Line, Holding
  <1>2. masked' \subseteq Device
    BY <1>1 DEF Guarded, Irq
  <1>3. masked' \subseteq 0..95 /\ \A i \in Gpio : Bank(i) \notin masked'
    BY <1>2
  <1>4. TypeOK'
    BY <1>1, <1>3 DEF TypeOK, Irq
  <1>5. OneInside' /\ Mapped' /\ Owned'
    BY DEF TypeOK, OneInside, Mapped, Owned, Holding, Allocating
  <1>6. Guarded'
    BY <1>1, <1>2, <1>3 DEF TypeOK, Guarded, Unmasked, Irq
  <1> QED BY <1>4, <1>5, <1>6

LEMMA MaskLineKeeps == ASSUME IInv, NEW d \in Irq, MaskLine(d) PROVE IInv'
  <1> USE RequestShape DEF IInv, MaskLine, Moved, tables, banks, Attached
  <1>1. Line(d) = d
    BY DEF Mapped, Line, Holding
  <1>2. masked' \subseteq Device
    BY <1>1 DEF Guarded, Irq
  <1>3. masked' \subseteq 0..95 /\ \A i \in Gpio : Bank(i) \notin masked'
    BY <1>2
  <1>4. TypeOK'
    BY <1>1, <1>3 DEF TypeOK, Irq
  <1>5. OneInside' /\ Mapped' /\ Owned'
    BY DEF TypeOK, OneInside, Mapped, Owned, Holding, Allocating
  <1>6. Guarded'
    BY <1>1, <1>2, <1>3 DEF TypeOK, Guarded, Unmasked, Irq
  <1> QED BY <1>4, <1>5, <1>6

LEMMA ForbidWakeupKeeps == ASSUME IInv, NEW d \in Irq, ForbidWakeup(d) PROVE IInv'
  <1> USE RequestShape DEF IInv, ForbidWakeup, Moved, tables, banks, Attached
  <1>1. Line(d) = d
    BY DEF Mapped, Line, Holding
  <1>2. masked' \subseteq Device
    BY <1>1 DEF Guarded, Irq
  <1>3. masked' \subseteq 0..95 /\ \A i \in Gpio : Bank(i) \notin masked'
    BY <1>2
  <1>4. TypeOK'
    BY <1>1, <1>3 DEF TypeOK, Irq
  <1>5. OneInside' /\ Mapped' /\ Owned'
    BY DEF TypeOK, OneInside, Mapped, Owned, Holding, Allocating
  <1>6. Guarded'
    BY <1>1, <1>2, <1>3 DEF TypeOK, Guarded, Unmasked, Irq
  <1> QED BY <1>4, <1>5, <1>6

LEMMA WakesKeeps == ASSUME IInv, ~Overlap, NEW d \in Irq, Wakes(d) PROVE IInv'
  <1> USE RequestShape DEF IInv, Wakes, Moved, tables, banks, Line, Attached
  <1>1. TypeOK'
    BY DEF TypeOK, Mapped, Holding, Allocating
  <1>2. OneInside'
    BY DEF TypeOK, OneInside, Allocating
  <1>3. Mapped'
    BY DEF TypeOK, OneInside, Mapped, Owned, Holding, Allocating
  <1>4. Owned'
    BY DEF TypeOK, OneInside, Mapped, Owned, Holding, Allocating
  <1>5. Guarded'
    BY DEF TypeOK, Mapped, Guarded, Unmasked, Holding, Irq
  <1> QED BY <1>1, <1>2, <1>3, <1>4, <1>5

LEMMA TimesOutKeeps == ASSUME IInv, ~Overlap, NEW d \in Irq, TimesOut(d) PROVE IInv'
  <1> USE RequestShape DEF IInv, TimesOut, Moved, tables, banks, Line, Attached
  <1>1. TypeOK'
    BY DEF TypeOK, Mapped, Holding, Allocating
  <1>2. OneInside'
    BY DEF TypeOK, OneInside, Allocating
  <1>3. Mapped'
    BY DEF TypeOK, OneInside, Mapped, Owned, Holding, Allocating
  <1>4. Owned'
    BY DEF TypeOK, OneInside, Mapped, Owned, Holding, Allocating
  <1>5. Guarded'
    BY DEF TypeOK, Mapped, Guarded, Unmasked, Holding, Irq
  <1> QED BY <1>1, <1>2, <1>3, <1>4, <1>5

LEMMA ServeKeeps == ASSUME IInv, ~Overlap, NEW d \in Irq, Serve(d) PROVE IInv'
  <1> USE RequestShape DEF IInv, Serve, Moved, tables, banks, Line, Attached
  <1>1. TypeOK'
    BY DEF TypeOK, Mapped, Holding, Allocating
  <1>2. OneInside'
    BY DEF TypeOK, OneInside, Allocating
  <1>3. Mapped'
    BY DEF TypeOK, OneInside, Mapped, Owned, Holding, Allocating
  <1>4. Owned'
    BY DEF TypeOK, OneInside, Mapped, Owned, Holding, Allocating
  <1>5. Guarded'
    BY DEF TypeOK, Mapped, Guarded, Unmasked, Holding, Irq
  <1> QED BY <1>1, <1>2, <1>3, <1>4, <1>5

LEMMA CallKeeps == ASSUME IInv, NEW d \in Irq, Call(d) PROVE IInv'
  BY DEF IInv, Call, tables, banks, TypeOK, OneInside, Mapped, Owned, Guarded, Unmasked

\* The handler masks a request, and sets the event its tables lead to: the driver's.
LEMMA HandlerKeeps == ASSUME IInv, NEW i \in Irq, Handler(i) PROVE IInv'
  <1> USE RequestShape DEF IInv, Handler, tables, banks
  <1>1. pc[i] \in Attached /\ i \in Notified(i)
    BY DEF TypeOK, Guarded, Mapped, Unmasked, Irq, Attached, Notified
  <1>2. TypeOK'
    BY <1>1 DEF TypeOK, MaskedAfter, RaisedAfter, Notified, Irq
  <1>3. OneInside' /\ Mapped' /\ Owned'
    BY DEF OneInside, Mapped, Owned
  <1>4. masked' \subseteq Device
    BY DEF Guarded, MaskedAfter, Irq
  <1>5. \A j \in Gpio : Bank(j) \notin masked'
    BY <1>4
  <1>6. Guarded'
    BY <1>1, <1>4, <1>5 DEF TypeOK, Guarded, Unmasked, MaskedAfter, Irq
  <1> QED BY <1>2, <1>3, <1>6

LEMMA StepKeeps == ~Overlap /\ IInv /\ [Next]_vars => IInv'
  <1> SUFFICES ASSUME ~Overlap, IInv, [Next]_vars PROVE IInv'
    OBVIOUS
  <1>1. CASE UNCHANGED vars
    BY <1>1 DEF IInv, TypeOK, OneInside, Mapped, Owned, Guarded, Unmasked, vars, tables, banks
  <1>2. ASSUME NEW d \in Irq, Step(d) PROVE IInv'
    BY <1>2, MapSysIntrKeeps, MapIrqKeeps, ReleaseKeeps, ForgetKeeps, UnmaskBankKeeps,
       UnmaskPinKeeps, UnmaskLineKeeps, AllowWakeupKeeps, MaskPinKeeps, MaskLineKeeps,
       ForbidWakeupKeeps, WakesKeeps, ServeKeeps
       DEF Step
  <1>3. ASSUME NEW d \in Irq, Request(d) \/ Close(d) \/ TimesOut(d) \/ Call(d) \/ Handler(d)
        PROVE IInv'
    BY <1>3, RequestKeeps, CloseKeeps, TimesOutKeeps, CallKeeps, HandlerKeeps
  <1> QED BY <1>1, <1>2, <1>3 DEF Next

\* The inductive invariant holds in every behaviour.
LEMMA Invariance == ASSUME ~Overlap PROVE Spec => []IInv
  <1>1. IInv /\ [Next]_vars => IInv'
    BY StepKeeps
  <1> QED BY <1>1, InitIInv, PTL DEF Spec

-----------------------------------------------------------------------------

\* Tables, registers and drivers keep their types: no value beyond the last SYSINTR.
THEOREM TypeCorrect == ASSUME ~Overlap PROVE Spec => []TypeOK
  <1>1. IInv => TypeOK
    BY DEF IInv
  <1> QED BY <1>1, Invariance, PTL

\* The two tables are inverse of each other for every attached driver.
THEOREM TablesAreInverse == ASSUME ~Overlap PROVE Spec => []TablesAgree
  <1>1. IInv => TablesAgree
    BY RequestShape DEF IInv, TypeOK, TablesAgree, Mapped, Owned, Holding, Attached
  <1> QED BY <1>1, Invariance, PTL

\* Requests that come one at a time are given values of their own.
THEOREM SysIntrsAreDifferent == ASSUME ~Overlap PROVE Spec => []SysIntrsDiffer
  <1>1. IInv => SysIntrsDiffer
    BY RequestShape DEF IInv, TypeOK, OneInside, SysIntrsDiffer, Mapped, Owned, Holding, Attached,
       Allocating
  <1> QED BY <1>1, Invariance, PTL

\* Nothing interrupts for nobody.
THEOREM SomebodyAlwaysListens == ASSUME ~Overlap PROVE Spec => []SomebodyListens
  <1>1. IInv => SomebodyListens
    BY RequestShape DEF IInv, TypeOK, SomebodyListens, Mapped, Guarded, Unmasked, Irq, Attached
  <1> QED BY <1>1, Invariance, PTL

\* A waiting driver's request is unmasked unless its event is set.
THEOREM NeverForgotten == ASSUME ~Overlap PROVE Spec => []NotForgotten
  <1>1. IInv => NotForgotten
    BY DEF IInv, NotForgotten, Guarded
  <1> QED BY <1>1, Invariance, PTL

\* The wake-up enable of a pin follows what its driver waits for.
THEOREM WakeupAlwaysFollows == ASSUME ~Overlap PROVE Spec => []WakeupFollows
  <1>1. IInv => WakeupFollows
    BY DEF IInv, WakeupFollows, Guarded
  <1> QED BY <1>1, Invariance, PTL

=============================================================================
