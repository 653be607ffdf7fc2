------------------------ MODULE DvfsConstraint_proofs -----------------------
(***************************************************************************)
(* Theorems of DvfsConstraint, for any number of clients and modes, any map *)
(* of modes to operating points and any list of listeners.                  *)
(*                                                                         *)
(* Everything rests on the section (Section): only the client inside it can *)
(* be at a step of a change.  What the kernel runs during a change is tied  *)
(* to the mode it goes to (Switching), and the announcement is followed     *)
(* along the list, device by device (Promised), because the notice that     *)
(* clears a listener's flag comes from a later step of the same client.     *)
(***************************************************************************)
EXTENDS DvfsConstraint, FiniteSetTheorems, TLAPS

Inside == {"update", "pre", "reset", "halt", "wait", "opp", "post", "wake", "end"}

Section ==
    /\ \A c \in Client : call[c].at \in Inside <=> lock = c
    /\ \A c \in Client : node[c] = Free => call[c].at = "idle"

\* Where in the list a change is.
Position ==
    \A c \in Client :
      /\ call[c].at \in Inside \ {"update", "end"} => change.new \in Opm
      /\ call[c].at = "pre" => change.next \in 1..Len(Order) + 1
      /\ call[c].at \in {"reset", "halt", "wake"} => change.next \in 1..Len(Order) /\ Turn \in Spi
      /\ call[c].at = "post" => change.next \in 0..Len(Order)

Switching ==
    /\ \A c \in Client : call[c].at \in {"post", "wake"} =>
         \A s \in Supply : kernel[s] = Map[s][change.new]
    /\ (\A c \in Client : call[c].at \notin {"post", "wake"}) =>
         \A s \in Supply : kernel[s] = Map[s][current]

\* The devices that have been told so far have noted it, and their event is awaited or has
\* been seen.
Promise(c, l) ==
    /\ call[c].at = "pre" =>
         \A i \in 1..change.next - 1 : Order[i] = l => spi[l].active /\ l \in change.events
    /\ call[c].at \in {"reset", "halt"} =>
         \A i \in 1..change.next : Order[i] = l => spi[l].active /\ l \in change.events
    /\ call[c].at = "wait" => spi[l].active /\ (l \in change.events \/ spi[l].ack)
    /\ call[c].at = "opp" => spi[l].active /\ spi[l].ack

Promised == \A c \in Client, l \in Spi : IsTold(l) => Promise(c, l)

CallType == [Client -> [op : {"none", "request", "force", "close"},
                        opm : Opm \cup {Undefined}, at : Step]]
ChangeType == [new : Opm \cup {Undefined}, next : 0..Len(Order) + 1, events : SUBSET Spi]
SpiType == [Spi -> [active : BOOLEAN, inactive : BOOLEAN, ack : BOOLEAN, count : 0..1]]

IInv == TypeOK /\ Section /\ Position /\ Switching /\ Promised

-----------------------------------------------------------------------------

LEMMA Listed == \A l \in Spi : \E i \in 1..Len(Order) : Order[i] = l
  <1>1. Spi \subseteq Listener
    BY Arbitration
  <1> QED BY <1>1 DEF Listener

LEMMA Shape ==
    /\ Nobody \notin Client /\ Undefined \notin Opm /\ Free \notin Opm /\ Free # Undefined
    /\ Client \subseteq Int /\ Opm \subseteq Int
    /\ InitOpm \in Opm /\ Map \in [Supply -> [Opm -> Nat]]
    /\ Len(Order) \in Nat
    /\ \A i \in 1..Len(Order) : Order[i] \in Listener
  BY Arbitration DEF Client, Opm, Nobody, Undefined, Free, Listener

\* A client goes on to another step; a device's record is changed in one field.
LEMMA Moves ==
    ASSUME call \in CallType, NEW c \in Client, NEW s \in Step, call' = [call EXCEPT ![c].at = s]
    PROVE  call' \in CallType
  <1>1. [call[c] EXCEPT !.at = s]
          \in [op : {"none", "request", "force", "close"}, opm : Opm \cup {Undefined}, at : Step]
    BY DEF CallType
  <1>2. call' = [call EXCEPT ![c] = [call[c] EXCEPT !.at = s]]
    OBVIOUS
  <1> HIDE DEF Step
  <1> QED BY <1>1, <1>2 DEF CallType

\* The supplies change between OPP_NOTIFICATION's two rounds, and there only.
Between(c) == call[c].at \in {"post", "wake"}

LEMMA SwitchingKeeps ==
    ASSUME Switching, UNCHANGED <<kernel, current>>, change'.new = change.new,
           \A d \in Client : Between(d)' = Between(d)
    PROVE  Switching'
  BY DEF Switching, Between

\* The records a call, a change and a device are.
LEMMA Types == TypeOK => call \in CallType /\ change \in ChangeType /\ spi \in SpiType
  BY DEF TypeOK, CallType, ChangeType, SpiType

\* The change goes on in the list or awaits other events.
LEMMA ChangeMoves ==
    ASSUME change \in ChangeType, NEW n \in 0..Len(Order) + 1, NEW e \in SUBSET Spi
    PROVE  /\ [change EXCEPT !.next = n] \in ChangeType
           /\ [change EXCEPT !.events = e] \in ChangeType
           /\ [change EXCEPT !.next = n, !.events = e] \in ChangeType
  BY DEF ChangeType

SpiRecord == [active : BOOLEAN, inactive : BOOLEAN, ack : BOOLEAN, count : 0..1]

\* A controller's record with one of its fields changed.
LEMMA SpiMoves ==
    ASSUME spi \in SpiType, NEW l \in Spi, NEW a \in BOOLEAN
    PROVE  /\ [spi EXCEPT ![l].active = a] \in SpiType
           /\ [spi EXCEPT ![l].inactive = a] \in SpiType
           /\ [spi EXCEPT ![l].ack = a] \in SpiType
  <1>1. spi[l] \in SpiRecord
    BY DEF SpiType, SpiRecord
  <1>2. /\ [spi[l] EXCEPT !.active = a] \in SpiRecord /\ [spi[l] EXCEPT !.inactive = a] \in SpiRecord
        /\ [spi[l] EXCEPT !.ack = a] \in SpiRecord
    BY <1>1 DEF SpiRecord
  <1>3. /\ [spi EXCEPT ![l].active = a] = [spi EXCEPT ![l] = [spi[l] EXCEPT !.active = a]]
        /\ [spi EXCEPT ![l].inactive = a] = [spi EXCEPT ![l] = [spi[l] EXCEPT !.inactive = a]]
        /\ [spi EXCEPT ![l].ack = a] = [spi EXCEPT ![l] = [spi[l] EXCEPT !.ack = a]]
    OBVIOUS
  <1> QED BY <1>2, <1>3 DEF SpiType, SpiRecord

LEMMA CountMoves ==
    ASSUME spi \in SpiType, NEW l \in Spi, NEW n \in 0..1
    PROVE  [spi EXCEPT ![l].count = n] \in SpiType
  <1>1. spi[l] \in SpiRecord
    BY DEF SpiType, SpiRecord
  <1>2. [spi[l] EXCEPT !.count = n] \in SpiRecord
    BY <1>1 DEF SpiRecord
  <1>3. [spi EXCEPT ![l].count = n] = [spi EXCEPT ![l] = [spi[l] EXCEPT !.count = n]]
    OBVIOUS
  <1> QED BY <1>2, <1>3 DEF SpiType, SpiRecord

LEMMA InitIInv == Init => IInv
  <1> SUFFICES ASSUME Init PROVE IInv
    OBVIOUS
  <1> USE Shape DEF Init
  <1>a. call \in CallType
    BY DEF CallType, NoCall, Step
  <1>b. change \in ChangeType
    BY DEF ChangeType, NoChange
  <1>c. spi \in SpiType
    BY DEF SpiType
  <1>d. node \in [Client -> Opm \cup {Undefined, Free}] /\ table \in [Opm -> Int]
    OBVIOUS
  <1>e. kernel \in [Supply -> Nat] /\ heard \in [Watchers -> Opm] /\ current \in Opm
    <2>1. \A s \in Supply : Map[s][InitOpm] \in Nat
      OBVIOUS
    <2> QED BY <2>1
  <1>f. dma \in [Spi -> {"none", "waiting", "entering", "running"}]
    OBVIOUS
  <1>1. TypeOK
    BY <1>a, <1>b, <1>c, <1>d, <1>e, <1>f DEF TypeOK, CallType, ChangeType, SpiType
  <1>2. Section /\ Position
    BY DEF Section, Position, NoCall, Inside
  <1>3. Switching /\ Promised
    BY DEF Switching, Promised, Promise, NoCall, Supply
  <1> QED BY <1>1, <1>2, <1>3 DEF IInv

LEMMA CreateKeeps == ASSUME IInv, NEW c \in Client, Create(c) PROVE IInv'
  <1> USE Shape DEF IInv, Create, request, device, At, Goto
  <1>a. call' \in CallType
    BY DEF TypeOK, CallType
  <1>b. change' \in ChangeType
    BY DEF TypeOK, ChangeType, Position, Turn
  <1>c. spi' \in SpiType
    BY DEF TypeOK, SpiType
  <1>1. TypeOK'
    BY <1>a, <1>b, <1>c DEF TypeOK, CallType, ChangeType, SpiType
  <1>2. Section'
    BY DEF TypeOK, Section, Inside
  <1>3. Position'
    BY DEF TypeOK, Section, Position, Inside, Turn
  <1>4. Switching'
    <2>1. \A d \in Client : Between(d)' = Between(d)
      BY DEF TypeOK, Between
    <2> QED BY <2>1, SwitchingKeeps DEF TypeOK
  <1>5. Promised'
    BY DEF TypeOK, Section, Promised, Promise, Inside, IsTold
  <1> QED BY <1>1, <1>2, <1>3, <1>4, <1>5

LEMMA CallKeeps == ASSUME IInv, NEW c \in Client, NEW op \in {"request", "force", "close"},
           NEW o \in Undefined..MaxOpm + 1, Call(c, op, o) PROVE IInv'
  <1> USE Shape DEF IInv, Call, request, device, At, Goto, Cut
  <1>a. call' \in CallType
    <2>1. Cut(o) \in Opm \cup {Undefined}
      BY Arbitration DEF Opm, Undefined, Cut
    <2>2. [op |-> op, opm |-> Cut(o), at |-> IF op = "close" THEN "lock" ELSE "test"]
            \in [op : {"none", "request", "force", "close"}, opm : Opm \cup {Undefined}, at : Step]
      BY <2>1 DEF Step
    <2>3. call \in CallType
      BY Types
    <2> QED BY <2>2, <2>3 DEF CallType
  <1>b. change' \in ChangeType
    BY DEF TypeOK, ChangeType, Position, Turn
  <1>c. spi' \in SpiType
    BY DEF TypeOK, SpiType
  <1>1. TypeOK'
    BY <1>a, <1>b, <1>c DEF TypeOK, CallType, ChangeType, SpiType
  <1>2. Section'
    BY DEF TypeOK, Section, Inside
  <1>3. Position'
    BY DEF TypeOK, Section, Position, Inside, Turn
  <1>4. Switching'
    <2>1. \A d \in Client : Between(d)' = Between(d)
      BY DEF TypeOK, Between
    <2> QED BY <2>1, SwitchingKeeps DEF TypeOK
  <1>5. Promised'
    BY DEF TypeOK, Section, Promised, Promise, Inside, IsTold
  <1> QED BY <1>1, <1>2, <1>3, <1>4, <1>5

LEMMA TestForceKeeps == ASSUME IInv, NEW c \in Client, TestForce(c) PROVE IInv'
  <1> USE Shape DEF IInv, TestForce, request, device, At, Goto
  <1>a. call' \in CallType
    BY Moves DEF TypeOK, CallType, Step
  <1>b. change' \in ChangeType
    BY DEF TypeOK, ChangeType, Position, Turn
  <1>c. spi' \in SpiType
    BY DEF TypeOK, SpiType
  <1>1. TypeOK'
    BY <1>a, <1>b, <1>c DEF TypeOK, CallType, ChangeType, SpiType
  <1>2. Section'
    BY DEF TypeOK, Section, Inside
  <1>3. Position'
    BY DEF TypeOK, Section, Position, Inside, Turn
  <1>4. Switching'
    <2>1. \A d \in Client : Between(d)' = Between(d)
      BY DEF TypeOK, Between
    <2> QED BY <2>1, SwitchingKeeps DEF TypeOK
  <1>5. Promised'
    BY DEF TypeOK, Section, Promised, Promise, Inside, IsTold
  <1> QED BY <1>1, <1>2, <1>3, <1>4, <1>5

LEMMA WipeForceKeeps == ASSUME IInv, NEW c \in Client, WipeForce(c) PROVE IInv'
  <1> USE Shape DEF IInv, WipeForce, request, device, At, Goto
  <1>a. call' \in CallType
    BY Moves DEF TypeOK, CallType, Step
  <1>b. change' \in ChangeType
    BY DEF TypeOK, ChangeType, Position, Turn
  <1>c. spi' \in SpiType
    BY DEF TypeOK, SpiType
  <1>1. TypeOK'
    BY <1>a, <1>b, <1>c DEF TypeOK, CallType, ChangeType, SpiType
  <1>2. Section'
    BY DEF TypeOK, Section, Inside
  <1>3. Position'
    BY DEF TypeOK, Section, Position, Inside, Turn
  <1>4. Switching'
    <2>1. \A d \in Client : Between(d)' = Between(d)
      BY DEF TypeOK, Between
    <2> QED BY <2>1, SwitchingKeeps DEF TypeOK
  <1>5. Promised'
    BY DEF TypeOK, Section, Promised, Promise, Inside, IsTold
  <1> QED BY <1>1, <1>2, <1>3, <1>4, <1>5

LEMMA EnterKeeps == ASSUME IInv, NEW c \in Client, Enter(c) PROVE IInv'
  <1> USE Shape DEF IInv, Enter, request, device, At, Goto, Moved
  <1>a. call' \in CallType
    <2>1. call[c] \in [op : {"none", "request", "force", "close"}, opm : Opm \cup {Undefined}, at : Step]
      BY Types DEF CallType
    <2>2. PICK s \in {"end", "update"} : call' = [call EXCEPT ![c].opm = Undefined, ![c].at = s]
      OBVIOUS
    <2>3. [call[c] EXCEPT !.opm = Undefined, !.at = s]
            \in [op : {"none", "request", "force", "close"}, opm : Opm \cup {Undefined}, at : Step]
      BY <2>1 DEF Step
    <2>4. call' = [call EXCEPT ![c] = [call[c] EXCEPT !.opm = Undefined, !.at = s]]
      BY <2>2
    <2>5. call \in CallType
      BY Types
    <2> QED BY <2>3, <2>4, <2>5 DEF CallType
  <1>b. change' \in ChangeType
    BY DEF TypeOK, ChangeType, Position, Turn
  <1>c. spi' \in SpiType
    BY DEF TypeOK, SpiType
  <1>1. TypeOK'
    BY SMTT(20), <1>a, <1>b, <1>c DEF TypeOK, CallType, ChangeType, SpiType
  <1>2. Section'
    BY DEF TypeOK, Section, Inside
  <1>3. Position'
    BY DEF TypeOK, Section, Position, Inside, Turn
  <1>4. Switching'
    <2>1. \A d \in Client : Between(d)' = Between(d)
      BY DEF TypeOK, Between
    <2> QED BY <2>1, SwitchingKeeps DEF TypeOK
  <1>5. Promised'
    BY DEF TypeOK, Section, Promised, Promise, Inside, IsTold
  <1> QED BY <1>1, <1>2, <1>3, <1>4, <1>5

LEMMA UpdateKeeps == ASSUME IInv, NEW c \in Client, Update(c) PROVE IInv'
  <1> USE Shape DEF IInv, request, device, At, Goto
  <1>0. PICK new \in Target(force, node, table) :
           IF new \in {Undefined, current}
           THEN Goto(c, "end") /\ UNCHANGED change
           ELSE Goto(c, "pre") /\ change' = [new |-> new, next |-> 1, events |-> {}]
    BY DEF Update
  <1>n. new \in Opm \cup {Undefined}
    BY DEF Target, Highest, Asked
  <1>u. /\ call[c].at = "update"
        /\ failed' \in {failed, FALSE}
        /\ UNCHANGED <<node, table, force, current, kernel, lock, heard, spi, dma>>
    BY DEF Update
  <1>1. TypeOK'
    <2>1. call' \in CallType
      BY <1>0, Types, Moves DEF Step
    <2>2. change' \in ChangeType
      BY <1>0, <1>n, Types DEF ChangeType
    <2>3. failed' \in BOOLEAN
      BY <1>u DEF TypeOK
    <2> QED BY <1>u, <2>1, <2>2, <2>3 DEF TypeOK, CallType, ChangeType
  <1>2. \A d \in Client : call'[d].at = IF d = c THEN (IF new \in {Undefined, current} THEN "end" ELSE "pre")
                                       ELSE call[d].at
    BY <1>0, Types DEF CallType
  <1>3. Section'
    BY <1>2, <1>u DEF TypeOK, Section, Inside
  <1>4. \A d \in Client : d # c => call[d].at \notin Inside
    BY <1>u DEF Section, Inside
  <1>5. Position'
    BY <1>0, <1>n, <1>2, <1>4 DEF Position, Turn, Inside
  <1>6. Switching'
    <2>1. \A d \in Client : call[d].at \notin {"post", "wake"} /\ call'[d].at \notin {"post", "wake"}
      BY <1>u, <1>2, <1>4 DEF Inside
    <2> QED BY <1>u, <2>1 DEF Switching
  <1>7. Promised'
    BY <1>0, <1>2, <1>4 DEF Promised, Promise, Inside
  <1> QED BY <1>1, <1>3, <1>5, <1>6, <1>7

LEMMA SkipOrAgreeKeeps == ASSUME IInv, NEW c \in Client, SkipOrAgree(c) PROVE IInv'
  <1> USE Shape DEF IInv, SkipOrAgree, request, device, At, Goto, Following
  <1>a. call' \in CallType
    BY Moves DEF TypeOK, CallType, Step
  <1>t. /\ change.next \in 1..Len(Order) /\ change.next \in Nat
        /\ change.next + 1 \in 0..Len(Order) + 1
    BY DEF Position, TypeOK
  <1>b. change' \in ChangeType
    BY <1>t, Types, ChangeMoves
  <1>c. spi' \in SpiType
    BY DEF TypeOK, SpiType
  <1>1. TypeOK'
    BY <1>a, <1>b, <1>c DEF TypeOK, CallType, ChangeType, SpiType
  <1>2. Section'
    BY DEF TypeOK, Section, Inside
  <1>3. Position'
    BY SMTT(20) DEF TypeOK, Section, Position, Inside, Turn
  <1>4. Switching'
    <2>1. \A d \in Client : Between(d)' = Between(d)
      BY DEF TypeOK, Between
    <2> QED BY <2>1, SwitchingKeeps DEF TypeOK
  <1>5. Promised'
    <2> SUFFICES ASSUME NEW d \in Client, NEW k \in Spi, IsTold(k)' PROVE Promise(d, k)'
      BY DEF Promised
    <2>1. CASE d # c
      <3>1. call[d].at \notin Inside /\ call'[d] = call[d]
        BY <2>1 DEF Section, Inside, TypeOK
      <3> QED BY <3>1 DEF Promise, Inside
    <2>2. CASE d = c
      <3>1. /\ call[c].at = "pre" /\ call' = call /\ spi' = spi /\ IsTold(k)
            /\ change'.events = change.events /\ change'.next - 1 = change.next
        BY Types, <1>t DEF IsTold, ChangeType
      <3>2. \A i \in 1..change.next : i # change.next => i \in 1..change.next - 1
        BY <1>t
      <3>3. k # Order[change.next]
        BY <3>1 DEF Turn
      <3>4. Promise(c, k)
        BY <3>1 DEF Promised
      <3> QED BY <2>2, <3>1, <3>2, <3>3, <3>4 DEF Promise
    <2> QED BY <2>1, <2>2
  <1> QED BY <1>1, <1>2, <1>3, <1>4, <1>5

LEMMA RefuseKeeps == ASSUME IInv, NEW c \in Client, Refuse(c) PROVE IInv'
  <1> USE Shape DEF IInv, Refuse, request, device, At, Goto, Cancel
  <1>a. call' \in CallType
    BY Moves DEF TypeOK, CallType, Step
  <1>b. change' \in ChangeType
    BY DEF TypeOK, ChangeType, Position, Turn
  <1>c. spi' \in SpiType
    BY DEF TypeOK, SpiType
  <1>1. TypeOK'
    BY <1>a, <1>b, <1>c DEF TypeOK, CallType, ChangeType, SpiType
  <1>2. Section'
    BY DEF TypeOK, Section, Inside
  <1>3. Position'
    BY DEF TypeOK, Section, Position, Inside, Turn
  <1>4. Switching'
    <2>1. \A d \in Client : Between(d)' = Between(d)
      BY DEF TypeOK, Between
    <2> QED BY <2>1, SwitchingKeeps DEF TypeOK
  <1>5. Promised'
    BY DEF TypeOK, Section, Promised, Promise, Inside, IsTold
  <1> QED BY <1>1, <1>2, <1>3, <1>4, <1>5

LEMMA TellSpiKeeps == ASSUME IInv, NEW c \in Client, TellSpi(c) PROVE IInv'
  <1> USE Shape DEF IInv, TellSpi, request, device, At, Goto
  <1>a. call' \in CallType
    BY Moves DEF TypeOK, CallType, Step
  <1>t. /\ change.next \in 1..Len(Order) /\ Turn \in Spi /\ change.next \in Nat
    BY DEF Position, TypeOK
  <1>b. change' \in ChangeType
    BY DEF TypeOK, ChangeType, Position, Turn
  <1>c. spi' \in SpiType
    <2>1. spi[Turn] \in SpiRecord /\ spi \in SpiType
      BY <1>t, Types DEF SpiType, SpiRecord
    <2>2. [spi[Turn] EXCEPT !.ack = FALSE, !.active = TRUE] \in SpiRecord
      BY <2>1 DEF SpiRecord
    <2>3. spi' = [spi EXCEPT ![Turn] = [spi[Turn] EXCEPT !.ack = FALSE, !.active = TRUE]]
      OBVIOUS
    <2> QED BY <1>t, <2>1, <2>2, <2>3 DEF SpiType, SpiRecord
  <1>1. TypeOK'
    BY <1>a, <1>b, <1>c DEF TypeOK, CallType, ChangeType, SpiType
  <1>2. Section'
    BY DEF TypeOK, Section, Inside
  <1>3. Position'
    BY DEF TypeOK, Section, Position, Inside, Turn
  <1>4. Switching'
    <2>1. \A d \in Client : Between(d)' = Between(d)
      BY DEF TypeOK, Between
    <2> QED BY <2>1, SwitchingKeeps DEF TypeOK
  <1>5. Promised'
    <2> SUFFICES ASSUME NEW d \in Client, NEW k \in Spi, IsTold(k)' PROVE Promise(d, k)'
      BY DEF Promised
    <2>1. CASE d # c
      <3>1. call[d].at \notin Inside /\ call'[d] = call[d]
        BY <2>1 DEF Section, Inside, TypeOK
      <3> QED BY <3>1 DEF Promise, Inside
    <2>2. CASE d = c
      <3>1. /\ call[c].at = "pre" /\ call'[c].at = "reset" /\ IsTold(k)
            /\ change'.events = change.events \cup {Turn} /\ change'.next = change.next
        BY Types DEF IsTold, ChangeType, CallType
      <3>2. \A i \in 1..change.next : i # change.next => i \in 1..change.next - 1
        BY <1>t
      <3>3. Promise(c, k)
        BY <3>1 DEF Promised
      <3>4. spi'[k].active = (k = Turn \/ spi[k].active)
        BY <1>t, Types DEF SpiType
      <3> QED BY <2>2, <3>1, <3>2, <3>3, <3>4 DEF Promise, Turn
    <2> QED BY <2>1, <2>2
  <1> QED BY <1>1, <1>2, <1>3, <1>4, <1>5

LEMMA ResetInactiveKeeps == ASSUME IInv, NEW c \in Client, ResetInactive(c) PROVE IInv'
  <1> USE Shape DEF IInv, ResetInactive, request, device, At, Goto
  <1>a. call' \in CallType
    BY Moves DEF TypeOK, CallType, Step
  <1>t. /\ change.next \in 1..Len(Order) /\ Turn \in Spi /\ change.next \in Nat
    BY DEF Position, TypeOK
  <1>b. change' \in ChangeType
    BY DEF TypeOK, ChangeType, Position, Turn
  <1>c. spi' \in SpiType
    BY <1>t, Types, SpiMoves, FALSE \in BOOLEAN
  <1>1. TypeOK'
    BY <1>a, <1>b, <1>c DEF TypeOK, CallType, ChangeType, SpiType
  <1>2. Section'
    BY DEF TypeOK, Section, Inside
  <1>3. Position'
    BY DEF TypeOK, Section, Position, Inside, Turn
  <1>4. Switching'
    <2>1. \A d \in Client : Between(d)' = Between(d)
      BY DEF TypeOK, Between
    <2> QED BY <2>1, SwitchingKeeps DEF TypeOK
  <1>5. Promised'
    BY DEF TypeOK, Section, Promised, Promise, Inside, IsTold
  <1> QED BY <1>1, <1>2, <1>3, <1>4, <1>5

LEMMA CheckAndHaltKeeps == ASSUME IInv, NEW c \in Client, CheckAndHalt(c) PROVE IInv'
  <1> USE Shape DEF IInv, CheckAndHalt, request, device, At, Goto, Following
  <1>a. call' \in CallType
    BY Moves DEF TypeOK, CallType, Step
  <1>t. /\ change.next \in 1..Len(Order) /\ Turn \in Spi
        /\ change.next \in Nat /\ change.next - 1 \in 0..Len(Order) + 1
        /\ change.next + 1 \in 0..Len(Order) + 1
    BY SMTT(20) DEF Position, TypeOK
  <1>b. change' \in ChangeType
    BY <1>t, Types, ChangeMoves
  <1>c. spi' \in SpiType
    BY <1>t, Types, SpiMoves DEF SpiType
  <1>1. TypeOK'
    BY <1>a, <1>b, <1>c DEF TypeOK, CallType, ChangeType, SpiType
  <1>2. Section'
    BY DEF TypeOK, Section, Inside
  <1>3. Position'
    <2>1. change.new \in Opm /\ change'.new = change.new /\ change'.next = change.next + 1
      BY <1>t, Types DEF ChangeType, Position, Inside
    <2>2. \A d \in Client \ {c} : call'[d] = call[d] /\ call[d].at \notin Inside
      BY DEF Section, Inside, TypeOK
    <2>3. call'[c].at = "pre"
      BY DEF TypeOK
    <2>4. change.next + 1 \in 1..Len(Order) + 1
      BY <1>t
    <2> QED BY <2>1, <2>2, <2>3, <2>4 DEF Position, Inside
  <1>4. Switching'
    <2>1. \A d \in Client : Between(d)' = Between(d)
      BY DEF TypeOK, Between
    <2> QED BY <2>1, SwitchingKeeps DEF TypeOK
  <1>5. Promised'
    <2> SUFFICES ASSUME NEW d \in Client, NEW k \in Spi, IsTold(k)' PROVE Promise(d, k)'
      BY DEF Promised
    <2>1. CASE d # c
      <3>1. call[d].at \notin Inside /\ call'[d] = call[d]
        BY <2>1 DEF Section, Inside, TypeOK
      <3> QED BY <3>1 DEF Promise, Inside
    <2>2. CASE d = c
      <3>1. /\ call[c].at = "halt" /\ call'[c].at = "pre" /\ IsTold(k)
            /\ change'.events = change.events /\ change'.next - 1 = change.next
        BY <1>t, Types DEF IsTold, ChangeType, CallType
      <3>2. Promise(c, k)
        BY <3>1 DEF Promised
      <3>3. spi'[k].active = spi[k].active
        BY <1>t, Types DEF SpiType
      <3> QED BY <2>2, <3>1, <3>2, <3>3 DEF Promise
    <2> QED BY <2>1, <2>2
  <1> QED BY <1>1, <1>2, <1>3, <1>4, <1>5

LEMMA ToldKeeps == ASSUME IInv, NEW c \in Client, Told(c) PROVE IInv'
  <1> USE Shape DEF IInv, Told, request, device, At, Goto, AfterPre
  <1>a. call' \in CallType
    BY Moves DEF TypeOK, CallType, Step
  <1>b. change' \in ChangeType
    BY DEF TypeOK, ChangeType, Position, Turn
  <1>c. spi' \in SpiType
    BY DEF TypeOK, SpiType
  <1>1. TypeOK'
    BY <1>a, <1>b, <1>c DEF TypeOK, CallType, ChangeType, SpiType
  <1>2. Section'
    BY DEF TypeOK, Section, Inside
  <1>3. Position'
    BY DEF TypeOK, Section, Position, Inside, Turn
  <1>4. Switching'
    <2>1. \A d \in Client : Between(d)' = Between(d)
      BY DEF TypeOK, Between
    <2> QED BY <2>1, SwitchingKeeps DEF TypeOK
  <1>5. Promised'
    <2> SUFFICES ASSUME NEW d \in Client, NEW k \in Spi, IsTold(k)' PROVE Promise(d, k)'
      BY DEF Promised
    <2>1. CASE d # c
      <3>1. call[d].at \notin Inside /\ call'[d] = call[d]
        BY <2>1 DEF Section, Inside, TypeOK
      <3> QED BY <3>1 DEF Promise, Inside
    <2>2. CASE d = c
      <3>1. /\ call[c].at = "pre" /\ change' = change /\ spi' = spi /\ IsTold(k)
            /\ call'[c].at = IF change.events = {} THEN "opp" ELSE "wait"
            /\ change.next - 1 = Len(Order)
        BY Types DEF IsTold, CallType
      <3>2. Promise(c, k)
        BY <3>1 DEF Promised
      <3>3. spi[k].active /\ k \in change.events
        BY <3>1, <3>2, Listed DEF Promise
      <3> QED BY <2>2, <3>1, <3>3 DEF Promise
    <2> QED BY <2>1, <2>2
  <1> QED BY <1>1, <1>2, <1>3, <1>4, <1>5

LEMMA AcknowledgedKeeps == ASSUME IInv, NEW c \in Client, NEW l \in Spi, Acknowledged(c, l) PROVE IInv'
  <1> USE Shape DEF IInv, Acknowledged, request, device, At, Goto
  <1>a. call' \in CallType
    BY Moves DEF TypeOK, CallType, Step
  <1>b. change' \in ChangeType
    BY Types, ChangeMoves DEF ChangeType
  <1>c. spi' \in SpiType
    BY DEF TypeOK, SpiType
  <1>1. TypeOK'
    BY <1>a, <1>b, <1>c DEF TypeOK, CallType, ChangeType, SpiType
  <1>2. Section'
    BY DEF TypeOK, Section, Inside
  <1>3. Position'
    BY DEF TypeOK, Section, Position, Inside, Turn
  <1>4. Switching'
    <2>1. \A d \in Client : Between(d)' = Between(d)
      BY DEF TypeOK, Between
    <2> QED BY <2>1, SwitchingKeeps DEF TypeOK
  <1>5. Promised'
    BY DEF TypeOK, Section, Promised, Promise, Inside, IsTold
  <1> QED BY <1>1, <1>2, <1>3, <1>4, <1>5

LEMMA TimedOutKeeps == ASSUME IInv, NEW c \in Client, TimedOut(c) PROVE IInv'
  <1> USE Shape DEF IInv, TimedOut, request, device, At, Goto, Cancel
  <1>a. call' \in CallType
    BY Moves DEF TypeOK, CallType, Step
  <1>b. change' \in ChangeType
    BY DEF TypeOK, ChangeType, Position, Turn
  <1>c. spi' \in SpiType
    BY DEF TypeOK, SpiType
  <1>1. TypeOK'
    BY <1>a, <1>b, <1>c DEF TypeOK, CallType, ChangeType, SpiType
  <1>2. Section'
    BY DEF TypeOK, Section, Inside
  <1>3. Position'
    BY DEF TypeOK, Section, Position, Inside, Turn
  <1>4. Switching'
    <2>1. \A d \in Client : Between(d)' = Between(d)
      BY DEF TypeOK, Between
    <2> QED BY <2>1, SwitchingKeeps DEF TypeOK
  <1>5. Promised'
    BY DEF TypeOK, Section, Promised, Promise, Inside, IsTold
  <1> QED BY <1>1, <1>2, <1>3, <1>4, <1>5

LEMMA ChangeOppKeeps == ASSUME IInv, NEW c \in Client, ChangeOpp(c) PROVE IInv'
  <1> USE Shape DEF IInv, ChangeOpp, request, device, At, Goto, Switched, Differing
  <1>a. call' \in CallType
    BY Moves DEF TypeOK, CallType, Step
  <1>b. change' \in ChangeType
    <2>1. Len(Order) \in 0..Len(Order) + 1 /\ {} \in SUBSET Spi
      OBVIOUS
    <2> QED BY <2>1, Types, ChangeMoves
  <1>c. spi' \in SpiType
    BY DEF TypeOK, SpiType
  <1>d. kernel' \in [Supply -> Nat]
    <2>1. change.new \in Opm
      BY DEF Position, Inside
    <2> QED BY <2>1 DEF TypeOK
  <1>1. TypeOK'
    BY <1>a, <1>b, <1>c, <1>d DEF TypeOK, CallType, ChangeType, SpiType
  <1>2. Section'
    BY DEF TypeOK, Section, Inside
  <1>3. Position'
    BY DEF TypeOK, Section, Position, Inside, Turn
  <1>4. Switching'
    BY DEF TypeOK, Section, Switching, Inside
  <1>5. Promised'
    BY DEF TypeOK, Section, Promised, Promise, Inside, IsTold
  <1> QED BY <1>1, <1>2, <1>3, <1>4, <1>5

\* A device that is told is left for later; the others are passed over.
LEMMA PostNoticeKeeps == ASSUME IInv, NEW c \in Client, PostNotice(c) PROVE IInv'
  <1> USE Shape DEF IInv, request, device, At, Goto
  <1>0. /\ call[c].at = "post" /\ change.next \in 1..Len(Order) /\ change.new \in Opm
        /\ UNCHANGED <<node, table, force, current, kernel, lock, failed, heard, dma>>
    <2>1. /\ call[c].at = "post" /\ change.next > 0
          /\ UNCHANGED <<node, table, force, current, kernel, lock, failed, heard, dma>>
      BY DEF PostNotice
    <2>2. change.next \in 0..Len(Order) /\ change.new \in Opm
      BY <2>1 DEF Position, Inside
    <2> QED BY <2>1, <2>2
  <1>1. \A d \in Client : d # c => call[d].at \notin Inside
    BY <1>0 DEF Section, Inside
  <1>2. CASE PostTold(Turn)
    <2>1. /\ Turn \in Spi /\ spi' = [spi EXCEPT ![Turn].active = FALSE]
          /\ call' = [call EXCEPT ![c].at = "wake"] /\ UNCHANGED change
      BY <1>2 DEF PostNotice, PostTold
    <2>2. call' \in CallType
      BY <2>1, Types, Moves DEF Step
    <2>3. spi' \in SpiType
      BY <2>1, Types, SpiMoves, FALSE \in BOOLEAN
    <2>4. \A d \in Client : call'[d].at = IF d = c THEN "wake" ELSE call[d].at
      BY <2>1, Types DEF CallType
    <2>5. TypeOK'
      BY <1>0, <2>1, <2>2, <2>3 DEF TypeOK, CallType, SpiType
    <2>6. Section' /\ Position'
      BY <1>0, <1>1, <2>1, <2>4 DEF Section, Position, Turn, Inside, TypeOK
    <2>7. Switching'
      BY <1>0, <1>1, <2>1, <2>4 DEF Switching, Inside
    <2>8. Promised'
      BY <1>1, <2>4 DEF Promised, Promise, Inside
    <2> QED BY <2>5, <2>6, <2>7, <2>8
  <1>3. CASE ~PostTold(Turn)
    <2>1. change' = [change EXCEPT !.next = @ - 1] /\ UNCHANGED <<spi, call>>
      BY <1>3 DEF PostNotice
    <2>2. change.next - 1 \in 0..Len(Order) + 1 /\ change.next - 1 \in 0..Len(Order)
      BY <1>0
    <2>3. change' \in ChangeType /\ change'.next = change.next - 1 /\ change'.new = change.new
      BY <2>1, <2>2, Types, ChangeMoves DEF ChangeType
    <2>4. TypeOK'
      BY <1>0, <2>1, <2>3 DEF TypeOK, ChangeType
    <2>5. Section' /\ Switching'
      BY <1>0, <2>1, <2>3 DEF Section, Switching, Inside
    <2>6. Position'
      BY <1>0, <1>1, <2>1, <2>2, <2>3 DEF Position, Turn, Inside
    <2>7. Promised'
      BY <1>0, <1>1, <2>1 DEF Promised, Promise, Inside
    <2> QED BY <2>4, <2>5, <2>6, <2>7
  <1> QED BY <1>2, <1>3

LEMMA WakeSpiKeeps == ASSUME IInv, NEW c \in Client, WakeSpi(c) PROVE IInv'
  <1> USE Shape DEF IInv, WakeSpi, request, device, At, Goto
  <1>a. call' \in CallType
    BY Moves DEF TypeOK, CallType, Step
  <1>t. /\ change.next \in 1..Len(Order) /\ Turn \in Spi
        /\ change.next \in Nat /\ change.next - 1 \in 0..Len(Order) + 1
        /\ change.next + 1 \in 0..Len(Order) + 1
    BY SMTT(20) DEF Position, TypeOK
  <1>b. change' \in ChangeType
    BY <1>t, Types, ChangeMoves
  <1>c. spi' \in SpiType
    BY <1>t, Types, SpiMoves
  <1>1. TypeOK'
    BY <1>a, <1>b, <1>c DEF TypeOK, CallType, ChangeType, SpiType
  <1>2. Section'
    BY DEF TypeOK, Section, Inside
  <1>3. Position'
    BY DEF TypeOK, Section, Position, Inside, Turn
  <1>4. Switching'
    <2>1. \A d \in Client : Between(d)' = Between(d)
      BY DEF TypeOK, Between
    <2> QED BY <2>1, SwitchingKeeps DEF TypeOK
  <1>5. Promised'
    BY DEF TypeOK, Section, Promised, Promise, Inside, IsTold
  <1> QED BY <1>1, <1>2, <1>3, <1>4, <1>5

LEMMA AnnounceKeeps == ASSUME IInv, NEW c \in Client, Announce(c) PROVE IInv'
  <1> USE Shape DEF IInv, Announce, request, device, At, Goto, Informed
  <1>a. call' \in CallType
    BY Moves DEF TypeOK, CallType, Step
  <1>b. change' \in ChangeType
    BY DEF TypeOK, ChangeType, Position, Turn
  <1>c. spi' \in SpiType
    BY DEF TypeOK, SpiType
  <1>d. current' \in Opm /\ heard' \in [Watchers -> Opm] /\ failed' \in BOOLEAN
    <2>1. change.new \in Opm
      BY DEF Position, Inside
    <2> QED BY <2>1 DEF TypeOK
  <1>1. TypeOK'
    BY <1>a, <1>b, <1>c, <1>d DEF TypeOK, CallType, ChangeType, SpiType
  <1>2. Section'
    BY DEF TypeOK, Section, Inside
  <1>3. Position'
    BY DEF TypeOK, Section, Position, Inside, Turn
  <1>4. Switching'
    BY DEF TypeOK, Section, Switching, Inside
  <1>5. Promised'
    BY DEF TypeOK, Section, Promised, Promise, Inside, IsTold
  <1> QED BY <1>1, <1>2, <1>3, <1>4, <1>5

LEMMA LeaveKeeps == ASSUME IInv, NEW c \in Client, Leave(c) PROVE IInv'
  <1> USE Shape DEF IInv, Leave, request, device, At, Goto, NoCall, NoChange
  <1>a. call' \in CallType
    BY Moves DEF TypeOK, CallType, Step
  <1>b. change' \in ChangeType
    BY DEF TypeOK, ChangeType, Position, Turn
  <1>c. spi' \in SpiType
    BY DEF TypeOK, SpiType
  <1>1. TypeOK'
    BY <1>a, <1>b, <1>c DEF TypeOK, CallType, ChangeType, SpiType
  <1>2. Section'
    BY DEF TypeOK, Section, Inside
  <1>3. Position'
    BY DEF TypeOK, Section, Position, Inside, Turn
  <1>4. Switching'
    <2>1. \A d \in Client : call[d].at \notin {"post", "wake"} /\ call'[d].at \notin {"post", "wake"}
      BY DEF TypeOK, Section, Inside
    <2> QED BY <2>1 DEF Switching
  <1>5. Promised'
    BY DEF TypeOK, Section, Promised, Promise, Inside, IsTold
  <1> QED BY <1>1, <1>2, <1>3, <1>4, <1>5

\* A step of the SPI driver's own: it forgets no flag, and the change is not its business.
LEMMA DmaKeeps ==
    ASSUME IInv, UNCHANGED <<request, current, kernel, lock, call, change, failed, heard>>,
           spi' \in SpiType, dma' \in [Spi -> {"none", "waiting", "entering", "running"}],
           \A k \in Spi : spi'[k].active = spi[k].active /\ (spi[k].ack => spi'[k].ack)
    PROVE  IInv'
  <1> USE DEF IInv, request
  <1>1. TypeOK'
    BY DEF TypeOK, SpiType
  <1>2. Section'
    BY DEF Section
  <1>3. Position'
    BY DEF Position, Turn
  <1>4. Switching'
    BY DEF Switching
  <1>5. Promised'
    <2> SUFFICES ASSUME NEW d \in Client, NEW k \in Spi, IsTold(k)' PROVE Promise(d, k)'
      BY DEF Promised
    <2>1. Promise(d, k) /\ call' = call /\ change' = change
      BY DEF Promised, IsTold
    <2> QED BY <2>1 DEF Promise
  <1> QED BY <1>1, <1>2, <1>3, <1>4, <1>5

LEMMA StartDmaKeeps == ASSUME IInv, NEW l \in Spi, StartDma(l) PROVE IInv'
  <1>1. spi' \in SpiType
    BY Types, CountMoves, 1 \in 0..1 DEF StartDma, IInv
  <1>2. \A k \in Spi : spi'[k].active = spi[k].active /\ spi'[k].ack = spi[k].ack
    BY Types DEF StartDma, IInv, SpiType
  <1> QED BY <1>1, <1>2, DmaKeeps DEF StartDma, IInv, TypeOK

LEMMA HoldDmaKeeps == ASSUME IInv, NEW l \in Spi, HoldDma(l) PROVE IInv'
  BY Types, DmaKeeps DEF HoldDma, IInv, TypeOK

LEMMA PassWaitKeeps == ASSUME IInv, NEW l \in Spi, PassWait(l) PROVE IInv'
  BY Types, DmaKeeps DEF PassWait, IInv, TypeOK

LEMMA StartHeldDmaKeeps == ASSUME IInv, NEW l \in Spi, StartHeldDma(l) PROVE IInv'
  <1>1. spi' \in SpiType
    BY Types, CountMoves, 1 \in 0..1 DEF StartHeldDma, IInv
  <1>2. \A k \in Spi : spi'[k].active = spi[k].active /\ spi'[k].ack = spi[k].ack
    BY Types DEF StartHeldDma, IInv, SpiType
  <1> QED BY <1>1, <1>2, DmaKeeps DEF StartHeldDma, IInv, TypeOK

LEMMA EndDmaKeeps == ASSUME IInv, NEW l \in Spi, EndDma(l) PROVE IInv'
  <1>1. spi' \in SpiType
    <2>1. spi[l] \in SpiRecord /\ spi \in SpiType
      BY Types DEF SpiType, SpiRecord, IInv
    <2>2. PICK b \in BOOLEAN : spi' = [spi EXCEPT ![l].count = 0, ![l].ack = b]
      BY DEF EndDma
    <2>3. [spi[l] EXCEPT !.count = 0, !.ack = b] \in SpiRecord
      BY <2>1, 0 \in 0..1 DEF SpiRecord
    <2>4. spi' = [spi EXCEPT ![l] = [spi[l] EXCEPT !.count = 0, !.ack = b]]
      BY <2>2
    <2> QED BY <2>1, <2>3, <2>4 DEF SpiType, SpiRecord
  <1>2. \A k \in Spi : spi'[k].active = spi[k].active /\ (spi[k].ack => spi'[k].ack)
    BY Types DEF EndDma, IInv, SpiType
  <1> QED BY <1>1, <1>2, DmaKeeps DEF EndDma, IInv, TypeOK

LEMMA StepKeeps == IInv /\ [Next]_vars => IInv'
  <1> SUFFICES ASSUME IInv, [Next]_vars PROVE IInv'
    OBVIOUS
  <1>1. CASE UNCHANGED vars
    BY <1>1 DEF IInv, TypeOK, Section, Position, Switching, Promised, Promise, Turn, IsTold, vars
  <1>2. ASSUME NEW c \in Client, Proceed(c) PROVE IInv'
    BY <1>2, TestForceKeeps, WipeForceKeeps, UpdateKeeps, SkipOrAgreeKeeps, RefuseKeeps,
       TellSpiKeeps, ResetInactiveKeeps, CheckAndHaltKeeps, ToldKeeps, AcknowledgedKeeps,
       TimedOutKeeps, ChangeOppKeeps, PostNoticeKeeps, WakeSpiKeeps, AnnounceKeeps, LeaveKeeps
       DEF Proceed
  <1>3. ASSUME NEW c \in Client,
               \/ Create(c) \/ Enter(c)
               \/ \E op \in {"request", "force", "close"}, o \in Undefined..MaxOpm + 1 : Call(c, op, o)
        PROVE IInv'
    BY <1>3, CreateKeeps, CallKeeps, EnterKeeps
  <1>4. ASSUME NEW l \in Spi, DmaStep(l) PROVE IInv'
    BY <1>4, StartDmaKeeps, HoldDmaKeeps, PassWaitKeeps, StartHeldDmaKeeps, EndDmaKeeps DEF DmaStep
  <1> QED BY <1>1, <1>2, <1>3, <1>4 DEF Next

\* The inductive invariant holds in every behaviour.
LEMMA Invariance == Spec => []IInv
  BY InitIInv, StepKeeps, PTL DEF Spec

-----------------------------------------------------------------------------

\* Counts, handles, positions in the list and events keep their types.
THEOREM TypeCorrect == Spec => []TypeOK
  <1>1. IInv => TypeOK
    BY DEF IInv
  <1> QED BY <1>1, Invariance, PTL

\* Outside a change the kernel runs the operating points of the current mode.
THEOREM KernelAlwaysAgrees == Spec => []KernelAgrees
  <1>1. IInv => KernelAgrees
    BY Shape DEF IInv, Section, Switching, Inside, KernelAgrees
  <1> QED BY <1>1, Invariance, PTL

\* The kernel never switches before the listeners have answered.
THEOREM AlwaysAcked == Spec => []AckedBeforeChange
  <1>1. IInv => AckedBeforeChange
    BY DEF IInv, Promised, Promise, AckedBeforeChange, At
  <1> QED BY <1>1, Invariance, PTL

-----------------------------------------------------------------------------
(* The counts.  A client that closes its handle gives its request back on   *)
(* entering the section and its index on leaving it, so that in between it  *)
(* has an index and asks for nothing.                                       *)

Asking(o) == {c \in Client : node[c] = o /\ ~(call[c].op = "close" /\ lock = c)}

Counted ==
    /\ \A o \in Opm : table[o] = Cardinality(Asking(o))
    /\ \A c \in Client : call[c].op = "close" => call[c].opm = Undefined

LEMMA FiniteAsking == \A o : IsFiniteSet(Asking(o))
  <1>1. IsFiniteSet(Client)
    BY FS_Interval, Arbitration DEF Client
  <1> QED BY <1>1, FS_Subset DEF Asking

LEMMA InitCounted == Init => Counted
  <1> SUFFICES ASSUME Init PROVE Counted
    OBVIOUS
  <1>1. \A o \in Opm : Asking(o) = {}
    BY Shape DEF Init, Asking
  <1> QED BY <1>1, FS_EmptySet DEF Init, Counted, NoCall

\* Steps that touch neither a request, nor the lock, nor the kind of a call.
LEMMA QuietKeeps ==
    ASSUME Counted, UNCHANGED <<node, table, lock>>,
           \A d \in Client : call'[d].op = call[d].op /\ call'[d].opm = call[d].opm
    PROVE  Counted'
  <1>1. \A o \in Opm : Asking(o)' = Asking(o)
    BY DEF Asking
  <1> QED BY <1>1 DEF Counted

LEMMA GotoIsQuiet ==
    ASSUME IInv, NEW c \in Client, NEW s, Goto(c, s)
    PROVE  \A d \in Client : call'[d].op = call[d].op /\ call'[d].opm = call[d].opm
  BY Types DEF IInv, Goto, CallType

LEMMA CallCounts ==
    ASSUME IInv, Counted, NEW c \in Client, NEW op \in {"request", "force", "close"},
           NEW o \in Undefined..MaxOpm + 1, Call(c, op, o)
    PROVE  Counted'
  <1>1. lock # c
    BY DEF IInv, Section, Inside, Call, At
  <1>2. \A d \in Client : d # c => call'[d] = call[d]
    BY Types DEF IInv, Call, CallType
  <1>3. call'[c].op = op /\ call'[c].opm = Cut(o)
    BY Types DEF IInv, Call, CallType
  <1>4. op = "close" => Cut(o) = Undefined
    BY Arbitration DEF Call, Cut, Undefined
  <1>5. \A p \in Opm : Asking(p)' = Asking(p)
    BY <1>1, <1>2 DEF Asking, Call, request
  <1> QED BY <1>2, <1>3, <1>4, <1>5 DEF Counted, Call, request

LEMMA EnterCounts == ASSUME IInv, Counted, NEW c \in Client, Enter(c) PROVE Counted'
  <1>1. /\ lock = Nobody /\ lock' = c /\ table' = Moved(table, node[c], call[c].opm)
        /\ node' = IF call[c].op = "close" THEN node ELSE [node EXCEPT ![c] = call[c].opm]
    BY DEF Enter
  <1>2. \A d \in Client : call'[d].op = call[d].op /\ (d # c => call'[d] = call[d])
    BY Types DEF IInv, Enter, CallType
  <1>3. call'[c].opm = Undefined
    BY Types DEF IInv, Enter, CallType
  <1>4. ASSUME NEW o \in Opm PROVE table'[o] = Cardinality(Asking(o)')
    <2>1. table[o] \in Int /\ table[o] = Cardinality(Asking(o))
      BY <1>4 DEF IInv, TypeOK, Counted
    <2>2. table'[o] = table[o] - (IF o = node[c] THEN 1 ELSE 0) + (IF o = call[c].opm THEN 1 ELSE 0)
      BY <1>1, <1>4 DEF Moved
    <2>3. c \in Asking(o) <=> o = node[c]
      BY <1>1, Shape DEF Asking
    <2>4. \A d \in Client : d # c => (d \in Asking(o)' <=> d \in Asking(o))
      BY <1>1, <1>2, Shape DEF Asking, IInv, TypeOK
    <2>5. c \in Asking(o)' <=> o = call[c].opm
      BY <1>1, <1>2, <1>4, Shape DEF Asking, IInv, TypeOK, Counted
    <2>6. Asking(o) \subseteq Client /\ Asking(o)' \subseteq Client
      BY DEF Asking
    <2>7. CASE o = node[c] <=> o = call[c].opm
      <3>1. Asking(o)' = Asking(o)
        BY <2>3, <2>4, <2>5, <2>6, <2>7
      <3> QED BY <2>1, <2>2, <2>7, <3>1
    <2>8. CASE o = node[c] /\ o # call[c].opm
      <3>1. Asking(o)' = Asking(o) \ {c}
        BY <2>3, <2>4, <2>5, <2>6, <2>8
      <3>2. Cardinality(Asking(o) \ {c}) = Cardinality(Asking(o)) - 1
        BY <2>3, <2>8, FS_RemoveElement, FiniteAsking
      <3>3. table'[o] = table[o] - 1
        BY <2>1, <2>2, <2>8
      <3> QED BY <2>1, <3>1, <3>2, <3>3
    <2>9. CASE o # node[c] /\ o = call[c].opm
      <3>1. Asking(o)' = Asking(o) \cup {c}
        BY <2>3, <2>4, <2>5, <2>6, <2>9
      <3>2. Cardinality(Asking(o) \cup {c}) = Cardinality(Asking(o)) + 1
        BY <2>3, <2>9, FS_AddElement, FiniteAsking
      <3>3. table'[o] = table[o] + 1
        BY <2>1, <2>2, <2>9
      <3> QED BY <2>1, <3>1, <3>2, <3>3
    <2> QED BY <2>7, <2>8, <2>9
  <1> QED BY <1>2, <1>3, <1>4 DEF Counted

LEMMA LeaveCounts == ASSUME IInv, Counted, NEW c \in Client, Leave(c) PROVE Counted'
  <1>1. lock = c /\ lock' = Nobody /\ table' = table
    BY DEF IInv, Section, Inside, Leave, At
  <1>2. call'[c] = NoCall /\ \A d \in Client : d # c => call'[d] = call[d]
    BY Types DEF IInv, Leave, CallType
  <1>3. /\ call[c].op = "close" => node'[c] = Free
        /\ call[c].op # "close" => node'[c] = node[c]
        /\ \A d \in Client : d # c => node'[d] = node[d]
    BY DEF IInv, TypeOK, Leave
  <1>4. \A o \in Opm : Asking(o)' = Asking(o)
    BY ZenonT(40), <1>1, <1>2, <1>3, Shape DEF Asking, NoCall
  <1> QED BY <1>1, <1>2, <1>4 DEF Counted, NoCall

LEMMA CountsKept == IInv /\ Counted /\ [Next]_vars => Counted'
  <1> SUFFICES ASSUME IInv, Counted, [Next]_vars PROVE Counted'
    OBVIOUS
  <1>1. CASE UNCHANGED vars
    BY <1>1, QuietKeeps DEF vars
  <1>2. ASSUME NEW c \in Client, Create(c) PROVE Counted'
    <2>1. \A o \in Opm : Asking(o)' = Asking(o)
      BY <1>2, Shape DEF Create, Asking, IInv, TypeOK
    <2> QED BY <1>2, <2>1 DEF Counted, Create
  <1>3. ASSUME NEW c \in Client,
               Proceed(c), ~Leave(c)
        PROVE  Counted'
    <2>1. UNCHANGED <<node, table, lock>>
      BY <1>3 DEF Proceed, TestForce, WipeForce, Update, SkipOrAgree, Refuse, TellSpi, ResetInactive,
         CheckAndHalt, Told, Acknowledged, TimedOut, ChangeOpp, PostNotice, WakeSpi, Announce,
         request
    <2>2. call' = call \/ \E s : Goto(c, s)
      BY <1>3 DEF Proceed, TestForce, WipeForce, Update, SkipOrAgree, Refuse, TellSpi, ResetInactive,
         CheckAndHalt, Told, AfterPre, Acknowledged, TimedOut, Cancel, ChangeOpp, PostNotice, WakeSpi,
         Announce
    <2> QED BY <2>1, <2>2, GotoIsQuiet, QuietKeeps
  <1>4. ASSUME NEW l \in Spi, DmaStep(l) PROVE Counted'
    BY <1>4, QuietKeeps DEF DmaStep, StartDma, HoldDma, PassWait, StartHeldDma, EndDma, request
  <1> QED BY <1>1, <1>2, <1>3, <1>4, CallCounts, EnterCounts, LeaveCounts DEF Next

\* No request is leaked and none is counted twice.
THEOREM RequestsAlwaysCounted == Spec => []RequestsCounted
  <1>1. IInv /\ Counted => RequestsCounted
    <2>1. lock = Nobody => \A o \in Opm : Asking(o) = {c \in Client : node[c] = o}
      BY Shape DEF Asking
    <2> QED BY <2>1 DEF Counted, RequestsCounted
  <1> QED BY <1>1, InitCounted, CountsKept, Invariance, PTL DEF Spec
-----------------------------------------------------------------------------
(* Who is in force.  A client that has called to request or to force a mode *)
(* takes its own force back before it locks, and from there to its update   *)
(* the mode in force may be another than the requests ask for: Pending.     *)
(* When no such client is about, a mode that was decided on stays the right *)
(* one until the change is done, because requests move under the lock only. *)

Going == {"pre", "reset", "halt", "wait", "opp", "post", "wake"}

Best(o) ==
    IF force # Nobody /\ node[force] \in Opm THEN o = node[force]
    ELSE Asked(table) = {} \/ o \in Highest(Asked(table))

Pending == \E c \in Client : call[c].at = "lock" /\ call[c].op # "close"

Directed ==
    /\ lock = Nobody => Pending \/ failed \/ Best(current)
    /\ \A c \in Client :
          /\ call[c].at \in Going => Pending \/ Best(change.new)
          /\ call[c].at = "end" => Pending \/ failed \/ Best(current)
          /\ call[c].at \in {"test", "wipe"} => call[c].op # "close"
          /\ lock = c /\ call[c].op = "close" => force # c

LEMMA InitDirected == Init => Directed
  <1> SUFFICES ASSUME Init PROVE Directed
    OBVIOUS
  <1>1. \A c \in Client : call[c].at = "idle" /\ call[c].op = "none"
    BY DEF Init, NoCall
  <1>2. Asked(table) = {}
    BY DEF Init, Asked
  <1>3. Best(current)
    BY <1>2 DEF Init, Best
  <1> QED BY <1>1, <1>3 DEF Directed, Going

\* A mode stays the best one as long as the requests and the force stand.
LEMMA BestStands == ASSUME UNCHANGED <<node, table, force>>, NEW o PROVE Best(o) => Best(o)'
  BY DEF Best

\* A client that waits for the lock with a request keeps the others excused.
LEMMA PendingStands ==
    ASSUME Pending, NEW c \in Client, ~(call[c].at = "lock" /\ call[c].op # "close"),
           \A d \in Client : d # c => call'[d] = call[d]
    PROVE  Pending'
  BY DEF Pending

\* Steps along the list of listeners, of the kernel and of the devices.
LEMMA AlongKeeps ==
    ASSUME IInv, Directed, UNCHANGED <<node, table, force, current, lock, failed>>,
           change'.new = change.new,
           \A d \in Client : /\ call'[d].op = call[d].op
                             /\ call'[d].at = call[d].at \/ {call[d].at, call'[d].at} \subseteq Going
    PROVE  Directed'
  <1>1. Pending => Pending'
    BY DEF Pending, Going
  <1>2. PICK o : o = current
    OBVIOUS
  <1>3. PICK n : n = change.new
    OBVIOUS
  <1>4. (Best(current) => Best(current)') /\ (Best(change.new) => Best(change.new)')
    BY <1>2, <1>3, BestStands
  <1>5. lock' = Nobody => (Pending \/ failed \/ Best(current))'
    BY <1>1, <1>4 DEF Directed
  <1>6. ASSUME NEW c \in Client
        PROVE  /\ call'[c].at \in Going => (Pending \/ Best(change.new))'
               /\ call'[c].at = "end" => (Pending \/ failed \/ Best(current))'
               /\ call'[c].at \in {"test", "wipe"} => call'[c].op # "close"
               /\ lock' = c /\ call'[c].op = "close" => force' # c
    <2>1. /\ call'[c].at \in Going => call[c].at \in Going
          /\ call'[c].at \notin Going => call'[c].at = call[c].at
      BY <1>6
    <2>2. "end" \notin Going /\ "test" \notin Going /\ "wipe" \notin Going
      BY DEF Going
    <2> QED BY <1>1, <1>4, <2>1, <2>2 DEF Directed
  <1> QED BY <1>5, <1>6 DEF Directed

\* How a step moves the calls.
LEMMA GoesTo ==
    ASSUME IInv, NEW c \in Client, NEW s, Goto(c, s)
    PROVE  /\ call'[c].at = s /\ call'[c].op = call[c].op
           /\ \A d \in Client : d # c => call'[d] = call[d]
  BY Types DEF IInv, Goto, CallType

LEMMA CallDirects ==
    ASSUME IInv, Directed, NEW c \in Client, NEW op \in {"request", "force", "close"},
           NEW o \in Undefined..MaxOpm + 1, Call(c, op, o)
    PROVE  Directed'
  <1>1. /\ call[c].at = "idle" /\ lock # c
        /\ UNCHANGED <<node, table, force, current, lock, failed, change>>
    BY DEF IInv, Section, Inside, Call, At, request
  <1>2. /\ \A d \in Client : d # c => call'[d] = call[d]
        /\ call'[c].op = op /\ call'[c].at = IF op = "close" THEN "lock" ELSE "test"
    BY Types DEF IInv, Call, CallType
  <1>3. Pending => Pending'
    BY <1>1, <1>2, PendingStands
  <1>4. PICK p, n : p = current /\ n = change.new
    OBVIOUS
  <1>5. (Best(current) => Best(current)') /\ (Best(change.new) => Best(change.new)')
    BY <1>1, <1>4, BestStands
  <1>6. lock' = Nobody => (Pending \/ failed \/ Best(current))'
    BY <1>1, <1>3, <1>5 DEF Directed
  <1>7. ASSUME NEW d \in Client, d # c
        PROVE  /\ call'[d].at \in Going => (Pending \/ Best(change.new))'
               /\ call'[d].at = "end" => (Pending \/ failed \/ Best(current))'
               /\ call'[d].at \in {"test", "wipe"} => call'[d].op # "close"
               /\ lock' = d /\ call'[d].op = "close" => force' # d
    BY <1>1, <1>2, <1>3, <1>5, <1>7 DEF Directed
  <1>8. /\ call'[c].at \notin Going /\ call'[c].at # "end" /\ lock' # c
        /\ call'[c].at \in {"test", "wipe"} => call'[c].op # "close"
    BY <1>1, <1>2 DEF Going
  <1> QED BY <1>6, <1>7, <1>8 DEF Directed

\* The client that has wiped its own force excuses what follows; one that forces nothing
\* changes nothing.
LEMMA TestDirects == ASSUME IInv, Directed, NEW c \in Client, TestForce(c) PROVE Directed'
  <1>1. /\ call[c].at = "test" /\ call[c].op # "close" /\ lock # c
        /\ UNCHANGED <<node, table, force, current, lock, failed, change>>
    BY DEF IInv, Section, Inside, TestForce, At, request, Directed
  <1>2. /\ \A d \in Client : d # c => call'[d] = call[d]
        /\ call'[c].op = call[c].op /\ call'[c].at \in {"wipe", "lock"}
    BY GoesTo DEF TestForce
  <1>3. Pending => Pending'
    BY <1>1, <1>2, PendingStands
  <1>4. PICK p, n : p = current /\ n = change.new
    OBVIOUS
  <1>5. (Best(current) => Best(current)') /\ (Best(change.new) => Best(change.new)')
    BY <1>1, <1>4, BestStands
  <1>6. lock' = Nobody => (Pending \/ failed \/ Best(current))'
    BY <1>1, <1>3, <1>5 DEF Directed
  <1>7. ASSUME NEW d \in Client, d # c
        PROVE  /\ call'[d].at \in Going => (Pending \/ Best(change.new))'
               /\ call'[d].at = "end" => (Pending \/ failed \/ Best(current))'
               /\ call'[d].at \in {"test", "wipe"} => call'[d].op # "close"
               /\ lock' = d /\ call'[d].op = "close" => force' # d
    BY <1>1, <1>2, <1>3, <1>5, <1>7 DEF Directed
  <1>8. /\ call'[c].at \notin Going /\ call'[c].at # "end" /\ lock' # c
        /\ call'[c].op # "close"
    BY <1>1, <1>2 DEF Going
  <1> QED BY <1>6, <1>7, <1>8 DEF Directed

LEMMA WipeDirects == ASSUME IInv, Directed, NEW c \in Client, WipeForce(c) PROVE Directed'
  <1>1. /\ call[c].at = "wipe" /\ call[c].op # "close" /\ lock # c /\ force' = Nobody
        /\ UNCHANGED <<node, table, current, lock, failed, change>>
    BY DEF IInv, Section, Inside, WipeForce, At, Directed
  <1>2. /\ \A d \in Client : d # c => call'[d] = call[d]
        /\ call'[c].op = call[c].op /\ call'[c].at = "lock"
    BY GoesTo DEF WipeForce
  <1>3. Pending'
    BY <1>1, <1>2 DEF Pending
  <1>4. \A d \in Client : /\ call'[d].at \in {"test", "wipe"} => call'[d].op # "close"
                          /\ force' # d
    BY <1>1, <1>2, Shape DEF Directed
  <1> QED BY <1>3, <1>4 DEF Directed

\* A client enters: all that may be at an end already is the closing of a handle that asks
\* for nothing, and the best mode is the one it was.
LEMMA EnterDirects == ASSUME IInv, Counted, Directed, NEW c \in Client, Enter(c) PROVE Directed'
  <1>1. /\ call[c].at = "lock" /\ lock = Nobody /\ lock' = c
        /\ UNCHANGED <<current, failed, change>>
    BY DEF Enter, At
  <1>2. /\ \A d \in Client : call'[d].op = call[d].op /\ (d # c => call'[d] = call[d])
        /\ call'[c].at = IF call[c].op = "close" /\ node[c] = Undefined THEN "end" ELSE "update"
    BY Types DEF IInv, Enter, CallType
  <1>3. \A d \in Client : call[d].at \notin Inside
    BY <1>1, Shape DEF IInv, Section
  <1>4. \A d \in Client : d # c => call'[d].at \notin Going /\ call'[d].at # "end"
    BY <1>2, <1>3 DEF Inside, Going
  <1>5. \A d \in Client : d # c => (call'[d].at \in {"test", "wipe"} => call'[d].op # "close")
    BY <1>2 DEF Directed
  <1>6. call'[c].at \notin Going /\ call'[c].at \notin {"test", "wipe"}
    BY <1>2 DEF Going
  <1>7. call'[c].op = "close" => force' # c
    BY <1>2, Shape DEF Enter
  <1>8. ASSUME call'[c].at = "end" PROVE (Pending \/ failed \/ Best(current))'
    <2>1. call[c].op = "close" /\ node[c] = Undefined
      BY <1>2, <1>8
    <2>2. Pending => Pending'
      BY <1>2, <2>1, PendingStands
    <2>3. PICK p : p = current
      OBVIOUS
    <2>4. node' = node /\ (force' = force \/ (force = c /\ force' = Nobody))
      <3>1. call[c].op # "force"
        BY <2>1
      <3>2. node' = node /\ force' = IF force = c THEN Nobody ELSE force
        BY <2>1, <3>1 DEF Enter
      <3> QED BY <3>2
    <2>5. table' = table
      <3>1. table' = Moved(table, Undefined, Undefined) /\ table \in [Opm -> Int]
        BY <2>1 DEF Enter, IInv, TypeOK, Counted
      <3>2. \A o \in Opm : table'[o] = table[o]
        BY <3>1, Shape DEF Moved
      <3> QED BY <3>1, <3>2 DEF Moved
    <2>6. Best(p) => Best(p)'
      <3>1. CASE force' = force
        BY <2>4, <2>5, <3>1, BestStands
      <3>2. CASE force = c /\ force' = Nobody
        <4>1. ~(force # Nobody /\ node[force] \in Opm)
          BY <2>1, <3>2, Shape
        <4> QED BY <2>5, <3>2, <4>1 DEF Best
      <3> QED BY <2>4, <3>1, <3>2
    <2>7. Pending \/ failed \/ Best(current)
      BY <1>1 DEF Directed
    <2> QED BY <1>1, <2>2, <2>3, <2>6, <2>7
  <1>9. lock' # Nobody
    BY <1>1, Shape
  <1> QED BY <1>1, <1>4, <1>5, <1>6, <1>7, <1>8, <1>9 DEF Directed
\* The update decides by the requests as they are, and the section keeps them so.
LEMMA UpdateDirects == ASSUME IInv, Directed, NEW c \in Client, Update(c) PROVE Directed'
  <1>0. PICK new \in Target(force, node, table) :
           IF new \in {Undefined, current}
           THEN Goto(c, "end") /\ failed' = FALSE /\ UNCHANGED change
           ELSE Goto(c, "pre") /\ UNCHANGED failed
                /\ change' = [new |-> new, next |-> 1, events |-> {}]
    BY DEF Update
  <1>1. /\ call[c].at = "update" /\ lock = c
        /\ UNCHANGED <<node, table, force, current, lock>>
    BY DEF IInv, Section, Inside, Update, At, request
  <1>2. PICK s \in {"end", "pre"} : Goto(c, s) /\ (s = "end" <=> new \in {Undefined, current})
    BY <1>0
  <1>3. /\ \A d \in Client : d # c => call'[d] = call[d]
        /\ call'[c].op = call[c].op /\ call'[c].at = s
    BY <1>2, GoesTo
  <1>4. \A d \in Client : d # c => call[d].at \notin Inside
    BY <1>1 DEF IInv, Section
  <1>5. lock' # Nobody
    BY <1>1, Shape
  <1>6. PICK p : p = current
    OBVIOUS
  <1>7. new = Undefined => Asked(table) = {} /\ ~(force # Nobody /\ node[force] \in Opm)
    BY Shape DEF Target, Highest, Asked
  <1>8. new # Undefined => Best(new)
    BY DEF Target, Best
  <1>9. s = "end" => (failed \/ Best(current))'
    <2>1. s = "end" => Best(current)
      BY <1>2, <1>7, <1>8 DEF Best
    <2> QED BY <1>1, <1>6, <2>1, BestStands
  <1>10. s = "pre" => Best(change.new)'
    <2>1. s = "pre" => change'.new = new /\ new # Undefined
      BY <1>0, <1>2
    <2>2. new # Undefined => Best(new)'
      BY <1>1, <1>8, BestStands
    <2> QED BY <2>1, <2>2 DEF Best
  <1>11. ASSUME NEW d \in Client, d # c
         PROVE  /\ call'[d].at \notin Going /\ call'[d].at # "end"
                /\ call'[d].at \in {"test", "wipe"} => call'[d].op # "close"
                /\ lock' # d
    BY <1>1, <1>3, <1>4, <1>11 DEF Inside, Going, Directed
  <1>12. /\ call'[c].at \in Going => s = "pre"
         /\ call'[c].at = "end" => s = "end"
         /\ call'[c].at \notin {"test", "wipe"}
         /\ call'[c].op = "close" => force' # c
    BY <1>1, <1>3 DEF Going, Directed
  <1> QED BY <1>5, <1>9, <1>10, <1>11, <1>12 DEF Directed

\* A change that is given up is excused by its failure.
LEMMA CancelDirects ==
    ASSUME IInv, Directed, NEW c \in Client, lock = c, Cancel(c),
           UNCHANGED <<node, table, force, current, lock, change>>
    PROVE  Directed'
  <1>1. /\ \A d \in Client : d # c => call'[d] = call[d]
        /\ call'[c].op = call[c].op /\ call'[c].at = "end" /\ failed'
    BY GoesTo DEF Cancel
  <1>2. \A d \in Client : d # c => call[d].at \notin Inside
    BY DEF IInv, Section
  <1>3. lock' # Nobody
    BY Shape
  <1>4. ASSUME NEW d \in Client
        PROVE  /\ call'[d].at \notin Going
               /\ call'[d].at \in {"test", "wipe"} => call'[d].op # "close"
               /\ lock' = d /\ call'[d].op = "close" => force' # d
    BY <1>1, <1>2, <1>4 DEF Inside, Going, Directed
  <1> QED BY <1>1, <1>3, <1>4 DEF Directed

\* The mode that was decided on becomes the current one.
LEMMA AnnounceDirects == ASSUME IInv, Directed, NEW c \in Client, Announce(c) PROVE Directed'
  <1>1. /\ call[c].at = "post" /\ lock = c /\ current' = change.new /\ ~failed'
        /\ UNCHANGED <<node, table, force, lock, change>>
    BY DEF IInv, Section, Inside, Announce, At, request
  <1>2. /\ \A d \in Client : d # c => call'[d] = call[d]
        /\ call'[c].op = call[c].op /\ call'[c].at = "end"
    BY GoesTo DEF Announce
  <1>3. \A d \in Client : d # c => call[d].at \notin Inside
    BY <1>1 DEF IInv, Section
  <1>4. lock' # Nobody
    BY <1>1, Shape
  <1>5. Pending \/ Best(change.new)
    BY <1>1 DEF Directed, Going
  <1>6. Pending => Pending'
    BY <1>1, <1>2, PendingStands
  <1>7. Best(change.new) => Best(current)'
    <2>1. PICK n : n = change.new
      OBVIOUS
    <2>2. Best(n) => Best(n)'
      BY <1>1, BestStands
    <2>3. current' = n
      BY <1>1, <2>1
    <2> QED BY <2>1, <2>2, <2>3 DEF Best
  <1>8. ASSUME NEW d \in Client
        PROVE  /\ call'[d].at \notin Going
               /\ call'[d].at \in {"test", "wipe"} => call'[d].op # "close"
               /\ lock' = d /\ call'[d].op = "close" => force' # d
    BY <1>1, <1>2, <1>3, <1>8 DEF Inside, Going, Directed
  <1> QED BY <1>4, <1>5, <1>6, <1>7, <1>8 DEF Directed

\* The index that is freed is that of no force.
LEMMA LeaveDirects == ASSUME IInv, Directed, NEW c \in Client, Leave(c) PROVE Directed'
  <1>1. /\ call[c].at = "end" /\ lock = c /\ lock' = Nobody
        /\ UNCHANGED <<table, force, current, failed>>
        /\ node' = IF call[c].op = "close" THEN [node EXCEPT ![c] = Free] ELSE node
    BY DEF IInv, Section, Inside, Leave, At
  <1>2. call'[c] = NoCall /\ \A d \in Client : d # c => call'[d] = call[d]
    BY Types DEF IInv, Leave, CallType
  <1>3. \A d \in Client : d # c => call[d].at \notin Inside
    BY <1>1 DEF IInv, Section
  <1>4. Pending \/ failed \/ Best(current)
    BY <1>1 DEF Directed
  <1>5. Pending => Pending'
    BY <1>1, <1>2, PendingStands
  <1>6. force' # Nobody => node'[force'] = node[force]
    <2>1. force \in Client \cup {Nobody} /\ node \in [Client -> Opm \cup {Undefined, Free}]
      BY DEF IInv, TypeOK
    <2>2. call[c].op = "close" => force # c
      BY <1>1 DEF Directed
    <2> QED BY <1>1, <2>1, <2>2
  <1>7. Best(current) => Best(current)'
    <2>1. PICK p : p = current
      OBVIOUS
    <2>2. Best(p) => Best(p)'
      BY <1>1, <1>6 DEF Best
    <2> QED BY <1>1, <2>1, <2>2
  <1>8. ASSUME NEW d \in Client
        PROVE  /\ call'[d].at \notin Going /\ call'[d].at # "end"
               /\ call'[d].at \in {"test", "wipe"} => call'[d].op # "close"
               /\ lock' # d
    BY <1>1, <1>2, <1>3, <1>8, Shape DEF Inside, Going, Directed, NoCall
  <1> QED BY <1>1, <1>4, <1>5, <1>7, <1>8 DEF Directed

LEMMA CreateDirects == ASSUME IInv, Directed, NEW c \in Client, Create(c) PROVE Directed'
  <1>1. /\ UNCHANGED <<table, force, current, lock, call, change, failed>>
        /\ node[c] = Free /\ node' = [node EXCEPT ![c] = Undefined]
    BY DEF Create
  <1>2. force # Nobody => (node'[force] \in Opm <=> node[force] \in Opm)
                          /\ (node[force] \in Opm => node'[force] = node[force])
    <2>1. force \in Client \cup {Nobody} /\ node \in [Client -> Opm \cup {Undefined, Free}]
      BY DEF IInv, TypeOK
    <2> QED BY <1>1, <2>1, Shape
  <1>3. PICK p, n : p = current /\ n = change.new
    OBVIOUS
  <1>4. (Best(p) => Best(p)') /\ (Best(n) => Best(n)')
    BY <1>1, <1>2 DEF Best
  <1>5. (Best(current) => Best(current)') /\ (Best(change.new) => Best(change.new)')
    BY <1>1, <1>3, <1>4
  <1>6. Pending' <=> Pending
    BY <1>1 DEF Pending
  <1> QED BY <1>1, <1>5, <1>6 DEF Directed

\* The steps that only go along a change.
Along(c) ==
    \/ SkipOrAgree(c) \/ TellSpi(c) \/ ResetInactive(c) \/ CheckAndHalt(c) \/ Told(c)
    \/ (\E l \in Spi : Acknowledged(c, l)) \/ ChangeOpp(c) \/ PostNotice(c) \/ WakeSpi(c)

LEMMA AlongDirects == ASSUME IInv, Directed, NEW c \in Client, Along(c) PROVE Directed'
  <1>1. UNCHANGED <<node, table, force, current, lock, failed>>
    BY DEF Along, SkipOrAgree, TellSpi, ResetInactive, CheckAndHalt, Told, Acknowledged, ChangeOpp,
       PostNotice, WakeSpi, request
  <1>2. call[c].at \in Going
    BY DEF Along, SkipOrAgree, TellSpi, ResetInactive, CheckAndHalt, Told, Acknowledged, ChangeOpp,
       PostNotice, WakeSpi, At, Going
  <1>3. call' = call \/ \E s \in Going : Goto(c, s)
    BY DEF Along, SkipOrAgree, TellSpi, ResetInactive, CheckAndHalt, Told, AfterPre, Acknowledged,
       ChangeOpp, PostNotice, WakeSpi, Going
  <1>4. \A d \in Client : /\ call'[d].op = call[d].op
                          /\ call'[d].at = call[d].at \/ {call[d].at, call'[d].at} \subseteq Going
    BY <1>2, <1>3, GoesTo
  <1>5. change'.new = change.new
    BY Types DEF IInv, ChangeType, Along, SkipOrAgree, TellSpi, ResetInactive, CheckAndHalt, Told,
       Acknowledged, ChangeOpp, PostNotice, WakeSpi
  <1> QED BY <1>1, <1>4, <1>5, AlongKeeps

LEMMA DirectionKept == IInv /\ Counted /\ Directed /\ [Next]_vars => Directed'
  <1> SUFFICES ASSUME IInv, Counted, Directed, [Next]_vars PROVE Directed'
    OBVIOUS
  <1>1. CASE UNCHANGED vars
    BY <1>1, AlongKeeps DEF vars
  <1>2. ASSUME NEW c \in Client, Proceed(c) PROVE Directed'
    <2>1. CASE Refuse(c) \/ TimedOut(c)
      <3>1. lock = c /\ Cancel(c) /\ UNCHANGED <<node, table, force, current, lock, change>>
        BY <2>1 DEF IInv, Section, Inside, Refuse, TimedOut, At, request
      <3> QED BY <3>1, CancelDirects
    <2>2. CASE Along(c)
      BY <2>2, AlongDirects
    <2> QED BY <1>2, <2>1, <2>2, TestDirects, WipeDirects, UpdateDirects, AnnounceDirects,
               LeaveDirects DEF Proceed, Along
  <1>3. ASSUME NEW c \in Client,
               \/ Create(c) \/ Enter(c)
               \/ \E op \in {"request", "force", "close"}, o \in Undefined..MaxOpm + 1 : Call(c, op, o)
        PROVE Directed'
    BY <1>3, CreateDirects, CallDirects, EnterDirects
  <1>4. ASSUME NEW l \in Spi, DmaStep(l) PROVE Directed'
    BY <1>4, AlongKeeps DEF DmaStep, StartDma, HoldDma, PassWait, StartHeldDma, EndDma, request
  <1> QED BY <1>1, <1>2, <1>3, <1>4 DEF Next

\* The counts tell which modes are asked for.
LEMMA CountsTell ==
    ASSUME IInv, RequestsCounted, lock = Nobody
    PROVE  Asked(table) = {node[c] : c \in Client} \cap Opm
  <1>1. IsFiniteSet(Client)
    BY FS_Interval, Arbitration DEF Client
  <1>2. ASSUME NEW o \in Opm PROVE table[o] > 0 <=> \E c \in Client : node[c] = o
    <2>1. IsFiniteSet({c \in Client : node[c] = o})
      BY <1>1, FS_Subset
    <2>2. table[o] = Cardinality({c \in Client : node[c] = o})
      BY <1>2 DEF RequestsCounted
    <2>3. /\ Cardinality({c \in Client : node[c] = o}) \in Nat
          /\ Cardinality({c \in Client : node[c] = o}) = 0 <=> {c \in Client : node[c] = o} = {}
      BY <2>1, FS_CardinalityType, FS_EmptySet
    <2>4. table[o] > 0 <=> {c \in Client : node[c] = o} # {}
      BY <2>2, <2>3
    <2> QED BY <2>4
  <1> QED BY <1>2 DEF Asked

\* When all calls have returned and the last change did not fail, the forced mode or else the
\* highest one asked for is in force, whatever order the clients came in.
THEOREM TheStrongestRules == Spec => []StrongestInForce
  <1>1. ASSUME IInv, RequestsCounted, Directed PROVE StrongestInForce
    <2> SUFFICES ASSUME \A c \in Client : At(c, "idle"), ~failed
                 PROVE  IF force # Nobody /\ node[force] \in Opm THEN current = node[force]
                        ELSE \/ {node[c] : c \in Client} \cap Opm = {}
                             \/ /\ current \in {node[c] : c \in Client} \cap Opm
                                /\ \A o \in {node[c] : c \in Client} \cap Opm : o <= current
      BY DEF StrongestInForce
    <2>1. lock = Nobody
      BY <1>1 DEF At, IInv, TypeOK, Section, Inside
    <2>2. ~Pending
      BY DEF Pending, At
    <2>3. Best(current)
      BY <1>1, <2>1, <2>2 DEF Directed
    <2>4. Asked(table) = {node[c] : c \in Client} \cap Opm
      BY <1>1, <2>1, CountsTell
    <2> QED BY <2>3, <2>4 DEF Best, Highest
  <1>2. Spec => []Directed
    BY InitDirected, DirectionKept, InitCounted, CountsKept, Invariance, PTL DEF Spec
  <1> QED BY <1>1, <1>2, Invariance, RequestsAlwaysCounted, PTL
=============================================================================
