------------------------ MODULE PrcmClockTree_proofs ------------------------
(***************************************************************************)
(* Proofs about PrcmClockTree, for any tree, any number of threads and any  *)
(* calls.  Two walks must not overlap: Mutex_DeviceClock sees to it between  *)
(* the calls of devices, and InTurn asks it of the IOCTL, which has only     *)
(* Mutex_Clock, for a clock that belongs to the tree in use.                 *)
(*                                                                         *)
(* A count is changed by a walk some steps after the reference that it       *)
(* stands for was taken, and a reference is counted some steps before the   *)
(* node above becomes one in use.  Extra says, for every moment of a call,   *)
(* how far the count of a node is ahead of its users.                       *)
(***************************************************************************)
EXTENDS PrcmClockTree, FiniteSetTheorems, SequenceTheorems, NaturalsInduction,
        WellFoundedInduction, TLAPS

Update == [call : {"update"}, clock : Held, on : BOOLEAN]
Switching == [call : {"source", "ioctl"}, clock : Clock, new : Clock, old : Clock,
              on : BOOLEAN]

\* A call that walks, or that moves a clock and has begun to.
Busy(t) == Walking(t) \/ pc[t] = "switch"

\* The IOCTL moves a clock that devices use, or that others come from.
Intrudes(t) == job[t].call = "ioctl" /\ job[t].clock \notin Own

\* No other call is at work in the tree while the IOCTL moves such a clock.
InTurn == \A t \in Thread : Busy(t) /\ Intrudes(t) => \A u \in Thread \ {t} : ~Busy(u)

Types ==
    /\ pc \in [Thread -> Label]
    /\ job \in [Thread -> {NoJob} \cup Update \cup Switching]
    /\ \A t \in Thread : job[t] = NoJob <=> pc[t] = "idle"
    /\ walk \in [Thread -> Seq(Node)]
    /\ \A t \in Thread : Walking(t) <=> walk[t] # <<>>
    /\ tmp \in [Thread -> Int]
    /\ devLock \in Thread \cup {Nobody} /\ clkLock \in Thread \cup {Nobody}
    /\ up \in [DOMAIN Table -> Node] /\ \A n \in DOMAIN Table : up[n] \in ParentsOf(n)
    /\ ref \in [Node -> Nat] /\ hold \in [Clock -> 0..MaxHold]
    /\ select = [c \in DOMAIN Parents |-> up[c]]

\* A device call has Mutex_DeviceClock from its first step to its last, a move of a clock
\* has Mutex_Clock once it has begun, and a clock of its own gives the IOCTL no walk to do.
LockOK(t) ==
    /\ devLock = t <=> job[t].call \in {"update", "source"}
    /\ clkLock = t <=> IsSwitch(t) /\ pc[t] \in {"visit", "read", "write", "switch"}
    /\ job[t].call = "update" => Walking(t)
    /\ job[t].call = "ioctl" /\ ~Intrudes(t) => pc[t] \in {"lock", "switch"}

\* What a move of a clock was given, and what it has found.
MoveOK(t) ==
    IsSwitch(t) =>
        /\ job[t].clock \in Moved[job[t].call] /\ job[t].new \in Asked[job[t].call]
        /\ pc[t] \in {"visit", "read", "write", "switch"} =>
             job[t].new \in ParentsOf(job[t].clock) /\ job[t].old = up[job[t].clock]
        /\ Walking(t) => ref[job[t].clock] > 0

\* Where a walk began.
Target(t) == IF ~IsSwitch(t) THEN job[t].clock
             ELSE IF job[t].on THEN job[t].new ELSE job[t].old

\* A walk leads up the tree, from its target through nodes that are all about to get their
\* first reference or to lose their last one.
Path(t, w) ==
    /\ w[Len(w)] = Target(t)
    /\ \A i \in 1..Len(w) - 1 :
         w[i + 1] \in DOMAIN Table /\ up[w[i + 1]] = w[i] /\ Edge(w[i + 1], job[t].on)
    /\ \A i, k \in 1..Len(w) : i < k => Level[w[i]] < Level[w[k]]
    /\ \A i \in 1..Len(w) :
         /\ w[i] \notin Own
         /\ IsSwitch(t) => Level[w[i]] < Level[job[t].clock]
    /\ ~job[t].on => ref[w[1]] > 0

ChainOK(t) ==
    Walking(t) => Path(t, walk[t]) /\ (pc[t] = "write" => tmp[t] = ref[walk[t][1]])

Spare == \A c \in Own : ref[c] = 0

Sign(t) == IF job[t].on THEN 1 ELSE -1
One(b) == IF b THEN 1 ELSE 0

\* References that the call has taken or given back and not counted yet, and those it
\* has counted for a clock that is not there yet.
Given(t, n) ==
    IF ~IsSwitch(t) THEN (IF Walking(t) /\ n = job[t].clock THEN 0 - Sign(t) ELSE 0)
    ELSE IF Walking(t) THEN One(~job[t].on /\ n = job[t].new)
    ELSE IF pc[t] = "switch" /\ ref[job[t].clock] > 0
         THEN One(n = job[t].new) - One(n = job[t].old)
         ELSE 0

\* The reference that has been passed on by the node whose turn it is.
Passing(t, h) == h \in DOMAIN Table /\ Edge(h, job[t].on)
Passed(t, n) ==
    IF /\ pc[t] \in {"read", "write"} /\ Passing(t, walk[t][1])
       /\ n = up[walk[t][1]]
    THEN Sign(t) ELSE 0

\* The call whose turn it is to count: the device call, unless the IOCTL is in its place.
Turn == IF clkLock # Nobody /\ Intrudes(clkLock) THEN clkLock ELSE devLock

Extra(n) == IF Turn = Nobody THEN 0 ELSE Given(Turn, n) + Passed(Turn, n)

Counted == \A n \in Node : ref[n] = HoldOf(n) + Cardinality(Users(n)) + Extra(n)

IInv ==
    /\ Types
    /\ \A t \in Thread : LockOK(t) /\ MoveOK(t) /\ ChainOK(t)
    /\ Spare
    /\ Counted
    /\ InTurn

-----------------------------------------------------------------------------
(* Nodes, calls and users                                                  *)

LEMMA NodeTypes ==
    /\ Clock \subseteq Node /\ DOMAIN Table \subseteq Node /\ Clock \subseteq DOMAIN Table
    /\ DOMAIN Parents \subseteq Clock /\ Held \subseteq Clock
    /\ \A n \in DOMAIN Table : ParentsOf(n) \subseteq Node
    /\ \A n \in DOMAIN Table : \A p \in ParentsOf(n) : p \notin Own
    /\ Own \subseteq Clock /\ Held \cap Own = {}
    /\ \A n \in Node : Level[n] \in Nat
    /\ \A n \in DOMAIN Table : \A p \in ParentsOf(n) : Level[p] < Level[n]
<1>1. \A n \in DOMAIN Table : ParentsOf(n) \subseteq Node
  BY Tree DEF Node, ParentsOf
<1>2. \A n \in DOMAIN Table : \A p \in ParentsOf(n) : p \notin Own
  BY DEF Own
<1> QED
  BY <1>1, <1>2, Tree, Acyclic DEF Node, Own

\* The clocks that calls move, and the parents that they get.
LEMMA MovedTypes ==
    ASSUME NEW k \in {"source", "ioctl"}, NEW c \in Moved[k]
    PROVE  /\ c \in Clock /\ c \in Node /\ c \in DOMAIN Table /\ ParentsOf(c) \subseteq Clock
           /\ \A p \in Asked[k] : p \in Clock /\ (Accepts(c, p) => p \in ParentsOf(c))
<1>1. c \in Clock /\ Table[c] \in Clock /\ c \in DOMAIN Table /\ c \in Node
  BY Callers, NodeTypes
<1>2. \A p \in Asked[k] : p \in Clock /\ (Accepts(c, p) => p \in ParentsOf(c))
  BY Tree DEF Accepts, ParentsOf
<1>3. \A call \in {"source", "ioctl"} : Asked[call] \subseteq Clock
  BY Tree
<1>4. ParentsOf(c) \subseteq Clock
  BY <1>1, <1>3, Tree DEF ParentsOf
<1> QED
  BY <1>1, <1>2, <1>4

LEMMA JobTypes ==
    ASSUME Types, NEW t \in Thread
    PROVE  /\ job[t].call \in {"none", "update", "source", "ioctl"}
           /\ job[t].call = "none" <=> pc[t] = "idle"
           /\ job[t].call = "update" => job[t] \in Update
           /\ IsSwitch(t) => job[t] \in Switching
           /\ IsSwitch(t) <=> job[t].call \notin {"none", "update"}
           /\ IsSwitch(t) => pc[t] \in {"lock", "visit", "read", "write", "switch"}
BY DEF Types, Update, Switching, NoJob, IsSwitch, Label

\* The last node of a walk, the first and the rest.
LEMMA WalkTypes ==
    ASSUME Types, NEW t \in Thread, Walking(t)
    PROVE  /\ Len(walk[t]) \in Nat /\ Len(walk[t]) >= 1
           /\ \A i \in 1..Len(walk[t]) : walk[t][i] \in Node
           /\ Head(walk[t]) = walk[t][1]
           /\ Tail(walk[t]) \in Seq(Node) /\ Len(Tail(walk[t])) = Len(walk[t]) - 1
           /\ \A i \in 1..Len(walk[t]) - 1 : Tail(walk[t])[i] = walk[t][i + 1]
<1>1. walk[t] \in Seq(Node) /\ walk[t] # <<>>
  BY DEF Types
<1>2. Len(walk[t]) \in Nat /\ Len(walk[t]) >= 1 /\ \A i \in 1..Len(walk[t]) : walk[t][i] \in Node
  BY <1>1, EmptySeq, LenProperties, ElementOfSeq
<1> QED
  BY <1>1, <1>2, HeadTailProperties

\* A longer walk.
LEMMA PushTypes ==
    ASSUME NEW w \in Seq(Node), NEW n \in Node
    PROVE  /\ <<n>> \o w \in Seq(Node) /\ <<n>> \o w # <<>>
           /\ Len(<<n>> \o w) = Len(w) + 1
           /\ (<<n>> \o w)[1] = n
           /\ \A i \in 1..Len(w) : (<<n>> \o w)[i + 1] = w[i]
<1>1. <<n>> \in Seq(Node) /\ Len(<<n>>) = 1 /\ <<n>>[1] = n
  OBVIOUS
<1>2. Len(w) \in Nat
  BY LenProperties
<1>3. /\ <<n>> \o w \in Seq(Node)
      /\ Len(<<n>> \o w) = 1 + Len(w)
      /\ \A i \in 1..1 + Len(w) : (<<n>> \o w)[i] = IF i <= 1 THEN <<n>>[i] ELSE w[i - 1]
  BY <1>1, ConcatProperties
<1>4. \A i \in 1..Len(w) : (<<n>> \o w)[i + 1] = w[i]
  BY <1>2, <1>3
<1> QED
  BY <1>1, <1>2, <1>3, <1>4, EmptySeq

LEMMA UsersFinite ==
    ASSUME NEW n
    PROVE  IsFiniteSet(Users(n)) /\ Cardinality(Users(n)) \in Nat
<1>1. IsFiniteSet(DOMAIN Table)
  BY Tree, FS_Subset
<1> QED
  BY <1>1, FS_Subset, FS_CardinalityType DEF Users

LEMMA LevelUp ==
    ASSUME Types, NEW n \in DOMAIN Table
    PROVE  up[n] \in Node /\ Level[up[n]] < Level[n] /\ up[n] # n
BY NodeTypes DEF Types

-----------------------------------------------------------------------------
(* What a step leaves alone                                                *)

\* A thread that has not moved, in a tree that has not changed.
LEMMA Others ==
    ASSUME Types, NEW u \in Thread, LockOK(u), MoveOK(u), ChainOK(u),
           pc'[u] = pc[u], job'[u] = job[u], walk'[u] = walk[u], tmp'[u] = tmp[u],
           devLock' = u <=> devLock = u, clkLock' = u <=> clkLock = u,
           UNCHANGED <<up, ref>>
    PROVE  LockOK(u)' /\ MoveOK(u)' /\ ChainOK(u)'
<1>1. IsSwitch(u)' = IsSwitch(u) /\ Walking(u)' = Walking(u) /\ Target(u)' = Target(u)
  BY DEF IsSwitch, Walking, Target
<1>2. LockOK(u)' /\ MoveOK(u)'
  <2>1. Intrudes(u)' = Intrudes(u)
    BY DEF Intrudes
  <2>2. LockOK(u)'
    BY <1>1, <2>1 DEF LockOK
  <2>3. MoveOK(u)'
    BY <1>1 DEF MoveOK
  <2> QED
    BY <2>2, <2>3
<1>3. \A n : Edge(n, job[u].on)' = Edge(n, job[u].on)
  BY DEF Edge
<1>4. ChainOK(u)'
  BY <1>1, <1>3 DEF ChainOK, Path
<1> QED
  BY <1>2, <1>4

\* The same locks and calls: the same turn.
LEMMA SameTurn ==
    ASSUME devLock' = devLock, clkLock' = clkLock,
           clkLock # Nobody => job'[clkLock].call = job[clkLock].call
                               /\ job'[clkLock].clock = job[clkLock].clock
    PROVE  Turn' = Turn
<1>1. \A x : x = clkLock /\ x # Nobody => Intrudes(x)' = Intrudes(x)
  BY DEF Intrudes
<1>2. \A x : x = clkLock => x = clkLock'
  OBVIOUS
<1> QED
  BY <1>1, <1>2 DEF Turn

\* A step of a thread whose turn it is not, or one that keeps what Extra reads.
LEMMA SameExtra ==
    ASSUME Turn' = Turn,
           Turn # Nobody =>
             /\ pc'[Turn] = pc[Turn] /\ job'[Turn] = job[Turn]
             /\ walk'[Turn] = walk[Turn]
             /\ Walking(Turn) => up'[walk[Turn][1]] = up[walk[Turn][1]],
           ref' = ref, NEW n
    PROVE  Extra(n)' = Extra(n)
<1> USE DEF Edge, IsSwitch, Walking, Sign, One
<1>1. CASE Turn = Nobody
  BY <1>1 DEF Extra
<1>2. CASE Turn # Nobody
  <2> DEFINE d == Turn
  <2>1. /\ d' = d /\ pc'[d] = pc[d] /\ job'[d] = job[d] /\ walk'[d] = walk[d]
        /\ Walking(d) => up'[walk[d][1]] = up[walk[d][1]]
        /\ ref' = ref
    BY <1>2
  <2> HIDE DEF d
  <2>2. \A e : e = d => Given(e, n)' = Given(e, n) /\ Passed(e, n)' = Passed(e, n)
    BY <2>1 DEF Given, Passed, Passing
  <2> QED
    BY <2>1, <2>2 DEF Extra, d
<1> QED
  BY <1>1, <1>2

LEMMA SameUsers ==
    ASSUME UNCHANGED <<up, ref>>, NEW n
    PROVE  Users(n)' = Users(n)
BY DEF Users

-----------------------------------------------------------------------------
(* The calls                                                               *)

LEMMA InitInv == Init => IInv
<1> SUFFICES ASSUME Init PROVE IInv
  OBVIOUS
<1>1. Types
  <2>1. up \in [DOMAIN Table -> Node] /\ \A n \in DOMAIN Table : up[n] \in ParentsOf(n)
    BY Tree DEF Init, ParentsOf
  <2>2. hold \in [Clock -> 0..MaxHold]
    BY Tree DEF Init
  <2>3. select = [c \in DOMAIN Parents |-> up[c]]
    BY DEF Init
  <2>4. pc \in [Thread -> Label] /\ walk \in [Thread -> Seq(Node)]
    BY DEF Init, Label
  <2> QED
    BY <2>1, <2>2, <2>3, <2>4 DEF Init, Types, Walking
<1>2. \A t \in Thread : LockOK(t) /\ MoveOK(t) /\ ChainOK(t)
  BY Tree DEF Init, LockOK, MoveOK, ChainOK, IsSwitch, Walking, NoJob
<1>3. Spare
  BY NodeTypes DEF Init, Spare
<1>4. ASSUME NEW n \in Node PROVE ref[n] = HoldOf(n) + Cardinality(Users(n)) + Extra(n)
  <2>1. Users(n) = {}
    BY NodeTypes DEF Init, Users
  <2>2. HoldOf(n) = 0 /\ Extra(n) = 0 /\ ref[n] = 0
    BY DEF Init, HoldOf, Extra, Turn
  <2> QED
    BY <2>1, <2>2, FS_EmptySet
<1>5. InTurn
  BY DEF Init, InTurn, Busy, Walking
<1> QED
  BY <1>1, <1>2, <1>3, <1>4, <1>5 DEF IInv, Counted

\* Who is at work has the turn, and nobody else walks.
LEMMA TurnFacts ==
    ASSUME Types, InTurn, \A u \in Thread : LockOK(u)
    PROVE  /\ Turn \in Thread \cup {Nobody}
           /\ \A t \in Thread : Walking(t) => Turn = t
           /\ \A t \in Thread : job[t].call \in {"update", "source"} /\ Busy(t) => Turn = t
           /\ \A t \in Thread : Intrudes(t) /\ pc[t] # "lock" => Busy(t) /\ Turn = t /\ clkLock = t
           /\ \A t \in Thread : Turn = t <=>
                 \/ Intrudes(t) /\ clkLock = t
                 \/ devLock = t /\ ~(clkLock # Nobody /\ Intrudes(clkLock))
<1>1. /\ devLock \in Thread \cup {Nobody} /\ clkLock \in Thread \cup {Nobody}
      /\ Nobody \notin Thread
  BY Tree DEF Types
<1>2. \A t \in Thread : Turn = t <=>
          \/ Intrudes(t) /\ clkLock = t
          \/ devLock = t /\ ~(clkLock # Nobody /\ Intrudes(clkLock))
  BY <1>1 DEF Turn
<1>3. ASSUME NEW t \in Thread, Intrudes(t), pc[t] # "lock" PROVE Busy(t) /\ clkLock = t
  <2>1. IsSwitch(t) /\ pc[t] \in {"visit", "read", "write", "switch"}
    BY <1>3, JobTypes DEF Intrudes, IsSwitch
  <2> QED
    BY <2>1 DEF LockOK, Busy, Walking
<1>4. ASSUME NEW t \in Thread, job[t].call \in {"update", "source"}, Busy(t) PROVE Turn = t
  <2>1. devLock = t
    BY <1>4 DEF LockOK
  <2>2. ~(clkLock # Nobody /\ Intrudes(clkLock))
    <3> SUFFICES ASSUME clkLock # Nobody, Intrudes(clkLock) PROVE FALSE
      OBVIOUS
    <3>1. clkLock \in Thread /\ clkLock # t
      BY <1>1, <1>4 DEF Intrudes
    <3>2. Busy(clkLock)
      BY <3>1 DEF LockOK, Busy, Walking
    <3> QED
      BY <1>4, <3>1, <3>2 DEF InTurn
  <2> QED
    BY <1>2, <2>1, <2>2
<1>5. ASSUME NEW t \in Thread, Walking(t) PROVE Turn = t
  <2>1. job[t].call \in {"update", "source", "ioctl"} /\ Busy(t) /\ pc[t] \notin {"lock", "switch"}
    BY <1>5, JobTypes DEF Walking, Busy
  <2>2. job[t].call = "ioctl" => Intrudes(t)
    BY <2>1 DEF LockOK
  <2> QED
    BY <1>2, <1>3, <1>4, <2>1, <2>2
<1>6. Turn \in Thread \cup {Nobody}
  BY <1>1 DEF Turn
<1> QED
  BY <1>2, <1>3, <1>4, <1>5, <1>6

LEMMA UpdateSourceInv ==
    ASSUME IInv, InTurn', NEW t \in Thread, UpdateSource(t)
    PROVE  IInv'
<1> PICK c \in Held, b \in BOOLEAN :
         /\ IF b THEN hold[c] < MaxHold ELSE hold[c] > 0
         /\ hold' = [hold EXCEPT ![c] = IF b THEN @ + 1 ELSE @ - 1]
         /\ job' = [job EXCEPT ![t] = [call |-> "update", clock |-> c, on |-> b]]
         /\ walk' = [walk EXCEPT ![t] = <<c>>]
  BY DEF UpdateSource
<1>0. Types /\ Spare /\ Counted /\ InTurn /\ \A u \in Thread : LockOK(u) /\ MoveOK(u) /\ ChainOK(u)
  BY DEF IInv
<1>1. /\ pc[t] = "idle" /\ devLock = Nobody /\ devLock' = t
      /\ pc' = [pc EXCEPT ![t] = "visit"]
      /\ UNCHANGED <<tmp, clkLock, up, ref, select>>
  BY DEF UpdateSource, GoTo
<1>2. c \in Clock /\ c \in Node /\ c \in DOMAIN Table /\ c \notin Own
  BY NodeTypes
<1>3. /\ pc'[t] = "visit" /\ walk'[t] = <<c>>
      /\ job'[t] = [call |-> "update", clock |-> c, on |-> b]
      /\ hold' \in [Clock -> 0..MaxHold] /\ hold'[c] = hold[c] + (IF b THEN 1 ELSE -1)
      /\ \A d \in Clock \ {c} : hold'[d] = hold[d]
  <2>1. /\ pc'[t] = "visit" /\ walk'[t] = <<c>>
        /\ job'[t] = [call |-> "update", clock |-> c, on |-> b]
    BY <1>0, <1>1 DEF Types
  <2>2. /\ hold \in [Clock -> 0..MaxHold] /\ hold[c] \in 0..MaxHold /\ MaxHold \in Nat
        /\ hold[c] + (IF b THEN 1 ELSE -1) \in 0..MaxHold
    <3>1. hold \in [Clock -> 0..MaxHold] /\ hold[c] \in 0..MaxHold /\ MaxHold \in Nat
      BY <1>0, <1>2, Tree DEF Types
    <3> QED
      BY <3>1
  <2>3. hold' = [hold EXCEPT ![c] = hold[c] + (IF b THEN 1 ELSE -1)]
    BY <2>2
  <2> QED
    BY <1>2, <2>1, <2>2, <2>3
<1>4. <<c>> \in Seq(Node) /\ <<c>> # <<>> /\ Len(<<c>>) = 1 /\ <<c>>[1] = c
  BY <1>2
\* The IOCTL is not in its place.
<1>9. Turn = Nobody /\ Turn' = t /\ t # Nobody
  <2>1. ~(clkLock # Nobody /\ Intrudes(clkLock))
    <3> SUFFICES ASSUME clkLock # Nobody, Intrudes(clkLock) PROVE FALSE
      OBVIOUS
    <3> PICK x \in Thread : x = clkLock
      BY <1>0 DEF Types
    <3>1. x # t /\ pc[x] \in {"visit", "read", "write", "switch"}
      BY <1>0, <1>1 DEF LockOK
    <3>2. pc'[x] = pc[x] /\ job'[x] = job[x]
      BY <1>0, <1>1, <3>1 DEF Types
    <3>3. Busy(x)' /\ Intrudes(x)' /\ Busy(t)'
      BY <1>3, <3>1, <3>2 DEF Busy, Walking, Intrudes
    <3> QED
      BY <3>1, <3>3 DEF InTurn
  <2>2. clkLock # t /\ t # Nobody
    BY <1>0, <1>1, Tree DEF LockOK
  <2>3. clkLock # Nobody => job'[clkLock] = job[clkLock]
    BY <1>0, <2>2 DEF Types
  <2>4. ~(clkLock' # Nobody /\ Intrudes(clkLock)')
    <3>1. \A x : x = clkLock /\ x # Nobody => Intrudes(x)' = Intrudes(x)
      BY <2>3 DEF Intrudes
    <3> QED
      BY <1>1, <2>1, <3>1
  <2> QED
    BY <1>1, <2>1, <2>2, <2>4 DEF Turn
<1>5. Types'
  <2>1. pc' \in [Thread -> Label] /\ walk' \in [Thread -> Seq(Node)]
    BY <1>0, <1>1, <1>4 DEF Types, Label
  <2>2. job' \in [Thread -> {NoJob} \cup Update \cup Switching]
    BY <1>0 DEF Types, Update
  <2>3. \A u \in Thread : (job[u] = NoJob <=> pc[u] = "idle")'
    BY <1>0, <1>1, <1>3 DEF Types, NoJob
  <2>4. \A u \in Thread : (Walking(u) <=> walk[u] # <<>>)'
    BY <1>0, <1>1, <1>3, <1>4 DEF Types, Walking
  <2> QED
    BY <1>0, <1>1, <1>3, <2>1, <2>2, <2>3, <2>4 DEF Types
<1>6. ASSUME NEW u \in Thread PROVE LockOK(u)' /\ MoveOK(u)' /\ ChainOK(u)'
  <2>1. CASE u = t
    <3>1. ~IsSwitch(u)' /\ Walking(u)' /\ Target(u)' = c
      BY <1>3, <2>1 DEF IsSwitch, Walking, Target
    <3>2. ~b => ref[c] > 0
      <4>1. hold[c] \in Nat /\ HoldOf(c) = hold[c] /\ ref[c] \in Nat
        BY <1>0, <1>2, Tree DEF Types, HoldOf
      <4>2. Extra(c) = 0 /\ ref[c] = HoldOf(c) + Cardinality(Users(c)) + Extra(c)
        BY <1>0, <1>2, <1>9 DEF Extra, Counted
      <4>3. ~b => hold[c] > 0
        OBVIOUS
      <4> QED
        BY <4>1, <4>2, <4>3, UsersFinite
    <3>3. LockOK(u)' /\ MoveOK(u)'
      BY <1>0, <1>1, <1>3, <2>1, <3>1, Tree DEF LockOK, MoveOK, IsSwitch, Intrudes
    <3>4. ChainOK(u)'
      BY <1>1, <1>2, <1>3, <1>4, <2>1, <3>1, <3>2 DEF ChainOK, Path
    <3> QED
      BY <3>3, <3>4
  <2>2. CASE u # t
    <3>1. pc'[u] = pc[u] /\ job'[u] = job[u] /\ walk'[u] = walk[u] /\ tmp'[u] = tmp[u]
      BY <1>0, <1>1, <2>2 DEF Types
    <3> QED
      BY <1>0, <1>1, <2>2, <3>1, Others, Tree
  <2> QED
    BY <2>1, <2>2
<1>7. Spare'
  BY <1>0, <1>1 DEF Spare
<1>8. ASSUME NEW n \in Node PROVE ref'[n] = HoldOf(n)' + Cardinality(Users(n))' + Extra(n)'
  <2>1. ref[n] = HoldOf(n) + Cardinality(Users(n)) + Extra(n) /\ Extra(n) = 0
    BY <1>0, <1>9 DEF Counted, Extra
  <2>2. Users(n)' = Users(n) /\ Cardinality(Users(n)) \in Nat
    BY <1>1, SameUsers, UsersFinite
  <2>3. Extra(n)' = IF n = c THEN (IF b THEN -1 ELSE 1) ELSE 0
    <3>1. Given(t, n)' = IF n = c THEN (IF b THEN -1 ELSE 1) ELSE 0
      BY <1>3 DEF Given, IsSwitch, Walking, Sign
    <3>2. Passed(t, n)' = 0
      BY <1>3 DEF Passed
    <3> QED
      BY <1>9, <3>1, <3>2 DEF Extra
  <2>4. HoldOf(n) \in Nat /\ HoldOf(n)' = HoldOf(n) + IF n = c THEN (IF b THEN 1 ELSE -1) ELSE 0
    <3>1. HoldOf(n) \in Nat
      BY <1>0, Tree DEF HoldOf, Types
    <3>2. CASE n = c
      BY <1>2, <1>3, <3>1, <3>2 DEF HoldOf
    <3>3. CASE n # c
      BY <1>2, <1>3, <3>1, <3>3 DEF HoldOf
    <3> QED
      BY <3>1, <3>2, <3>3
  <2>5. HoldOf(n)' + Extra(n)' = HoldOf(n) /\ HoldOf(n)' \in Int /\ Extra(n)' \in Int
    <3>1. CASE n = c /\ b
      BY <2>3, <2>4, <3>1
    <3>2. CASE n = c /\ ~b
      BY <2>3, <2>4, <3>2
    <3>3. CASE n # c
      BY <2>3, <2>4, <3>3
    <3> QED
      BY <3>1, <3>2, <3>3
  <2> QED
    BY <1>1, <2>1, <2>2, <2>4, <2>5
<1> QED
  BY <1>5, <1>6, <1>7, <1>8 DEF IInv, Counted

\* A call that is about to wait for Mutex_Clock.
LEMMA MoveCallInv ==
    ASSUME IInv, InTurn', NEW t \in Thread, NEW k \in {"source", "ioctl"},
           NEW c \in Moved[k], NEW p \in Asked[k],
           pc[t] = "idle",
           job' = [job EXCEPT ![t] =
                    [call |-> k, clock |-> c, new |-> p, old |-> p, on |-> FALSE]],
           pc' = [pc EXCEPT ![t] = "lock"],
           k = "source" => devLock = Nobody /\ devLock' = t,
           k = "ioctl" => devLock' = devLock,
           UNCHANGED <<walk, tmp, clkLock, up, ref, hold, select>>
    PROVE  IInv'
<1>0. Types /\ Spare /\ Counted /\ \A u \in Thread : LockOK(u) /\ MoveOK(u) /\ ChainOK(u)
  BY DEF IInv
<1>1. c \in Clock /\ p \in Clock
  BY MovedTypes
<1>2. /\ pc'[t] = "lock" /\ walk'[t] = walk[t]
      /\ job'[t] = [call |-> k, clock |-> c, new |-> p, old |-> p, on |-> FALSE]
  BY <1>0 DEF Types
<1>9. job[t] = NoJob /\ devLock # t /\ clkLock # t /\ ~Walking(t)
  <2>1. job[t] = NoJob /\ ~Walking(t)
    BY <1>0 DEF Types, Walking
  <2> QED
    BY <1>0, <2>1 DEF LockOK, NoJob, IsSwitch
<1>3. Types'
  <2>1. pc' \in [Thread -> Label]
    BY <1>0 DEF Types, Label
  <2>2. job' \in [Thread -> {NoJob} \cup Update \cup Switching]
    BY <1>0, <1>1 DEF Types, Switching
  <2>3. \A u \in Thread : (job[u] = NoJob <=> pc[u] = "idle")'
    BY <1>0, <1>2 DEF Types, NoJob
  <2>4. \A u \in Thread : (Walking(u) <=> walk[u] # <<>>)'
    BY <1>0, <1>2, <1>9 DEF Types, Walking
  <2>5. devLock' \in Thread \cup {Nobody}
    BY <1>0 DEF Types
  <2> QED
    BY <1>0, <2>1, <2>2, <2>3, <2>4, <2>5 DEF Types
<1>4. ASSUME NEW u \in Thread PROVE LockOK(u)' /\ MoveOK(u)' /\ ChainOK(u)'
  <2>1. CASE u = t
    BY <1>0, <1>2, <1>9, <2>1, Tree DEF LockOK, MoveOK, ChainOK, IsSwitch, Walking, NoJob, Intrudes
  <2>2. CASE u # t
    <3>1. pc'[u] = pc[u] /\ job'[u] = job[u] /\ walk'[u] = walk[u] /\ tmp'[u] = tmp[u]
      BY <1>0, <2>2 DEF Types
    <3> QED
      BY <1>0, <2>2, <3>1, Others, Tree
  <2> QED
    BY <2>1, <2>2
<1>5. ASSUME NEW n \in Node PROVE Extra(n)' = Extra(n)
  <2>0. clkLock # Nobody => job'[clkLock] = job[clkLock]
    BY <1>0, <1>9 DEF Types
  <2>1. CASE k = "source" /\ ~(clkLock # Nobody /\ Intrudes(clkLock))
    <3>1. t # Nobody /\ Extra(n) = 0
      BY <2>1, Tree DEF Extra, Turn
    <3>2. Given(t, n)' = 0 /\ Passed(t, n)' = 0
      BY <1>2, <2>1 DEF Given, Passed, IsSwitch, Walking
    <3>3. \A x : x = clkLock /\ x # Nobody => Intrudes(x)' = Intrudes(x)
      BY <2>0 DEF Intrudes
    <3>4. Turn' = t
      BY <2>1, <3>3 DEF Turn
    <3> QED
      BY <3>1, <3>2, <3>4 DEF Extra
  <2>2. CASE k = "ioctl" \/ (clkLock # Nobody /\ Intrudes(clkLock))
    <3>1. \A x : x = clkLock /\ x # Nobody => Intrudes(x)' = Intrudes(x)
      BY <2>0 DEF Intrudes
    <3>2. Turn' = Turn /\ Turn \in {clkLock, devLock}
      BY <2>2, <3>1 DEF Turn
    <3>3. Turn # t /\ Turn \in Thread \cup {Nobody}
      BY <1>0, <1>9, <3>2 DEF Types
    <3>4. Turn # Nobody => pc'[Turn] = pc[Turn] /\ job'[Turn] = job[Turn]
      BY <1>0, <3>3 DEF Types
    <3> QED
      BY <3>2, <3>4, SameExtra
  <2> QED
    BY <2>1, <2>2
<1>6. Counted'
  <2>1. ASSUME NEW n \in Node PROVE HoldOf(n)' = HoldOf(n) /\ Users(n)' = Users(n)
    BY SameUsers DEF HoldOf
  <2> QED
    BY <1>0, <1>5, <2>1 DEF Counted
<1>7. Spare'
  BY <1>0 DEF Spare
<1> QED
  BY <1>3, <1>4, <1>6, <1>7 DEF IInv

LEMMA SetSourceClocksInv ==
    ASSUME IInv, InTurn', NEW t \in Thread, SetSourceClocks(t)
    PROVE  IInv'
BY MoveCallInv DEF SetSourceClocks, GoTo

LEMMA IoctlSetSourceClockInv ==
    ASSUME IInv, InTurn', NEW t \in Thread, IoctlSetSourceClock(t)
    PROVE  IInv'
BY MoveCallInv DEF IoctlSetSourceClock, GoTo

-----------------------------------------------------------------------------
(* The steps of a call                                                     *)

\* What Return does.
LEMMA ReturnTypes ==
    ASSUME Types, NEW t \in Thread, LockOK(t), Return(t)
    PROVE  /\ pc' \in [Thread -> Label] /\ pc'[t] = "idle" /\ job'[t] = NoJob
           /\ job' \in [Thread -> {NoJob} \cup Update \cup Switching]
           /\ \A u \in Thread : job'[u] = NoJob <=> pc'[u] = "idle"
           /\ \A u \in Thread \ {t} : pc'[u] = pc[u] /\ job'[u] = job[u]
           /\ devLock' \in Thread \cup {Nobody} /\ clkLock' \in Thread \cup {Nobody}
           /\ devLock' # t /\ clkLock' # t
           /\ \A u \in Thread \ {t} : devLock' = u <=> devLock = u
           /\ \A u \in Thread \ {t} : clkLock' = u <=> clkLock = u
           /\ devLock = t => devLock' = Nobody
           /\ devLock # t => devLock' = devLock
BY Tree DEF Return, GoTo, Types, Label, NoJob

\* PrcmClockSetParent takes the lock: nothing is counted yet.
LEMMA LockClockInv ==
    ASSUME IInv, InTurn', NEW t \in Thread, LockClock(t)
    PROVE  IInv'
<1> DEFINE j == job[t]
<1>0. Types /\ Spare /\ Counted /\ InTurn /\ \A u \in Thread : LockOK(u) /\ MoveOK(u) /\ ChainOK(u)
  BY DEF IInv
<1>1. /\ pc[t] = "lock" /\ clkLock = Nobody
      /\ UNCHANGED <<tmp, up, ref, hold, select>>
  BY DEF LockClock
<1>2. /\ IsSwitch(t) /\ j \in Switching /\ ~Walking(t) /\ walk[t] = <<>>
      /\ j.call \in {"source", "ioctl"} /\ j.clock \in Moved[j.call] /\ j.new \in Asked[j.call]
  <2>1. IsSwitch(t) /\ j \in Switching
    BY <1>0, <1>1, JobTypes DEF LockOK, Walking
  <2> QED
    BY <1>0, <1>1, <2>1 DEF Types, Walking, Switching, MoveOK
<1>3. ASSUME NEW n \in Node PROVE Given(t, n) = 0 /\ Passed(t, n) = 0
  BY <1>1, <1>2 DEF Given, Passed, Walking
<1>4. ASSUME NEW n \in Node PROVE HoldOf(n)' = HoldOf(n) /\ Users(n)' = Users(n)
  BY <1>1, SameUsers DEF HoldOf
<1>5. Spare'
  BY <1>0, <1>1 DEF Spare
<1>6. CASE ~Accepts(j.clock, j.new) /\ Return(t) /\ UNCHANGED walk
  <2>1. Types'
    BY <1>0, <1>1, <1>2, <1>6, ReturnTypes DEF Types, Walking
  <2>2. ASSUME NEW u \in Thread PROVE LockOK(u)' /\ MoveOK(u)' /\ ChainOK(u)'
    <3>1. CASE u = t
      BY <1>0, <1>6, <3>1, ReturnTypes DEF LockOK, MoveOK, ChainOK, IsSwitch, Walking, NoJob
    <3>2. CASE u # t
      <4>1. /\ pc'[u] = pc[u] /\ job'[u] = job[u] /\ walk'[u] = walk[u] /\ tmp'[u] = tmp[u]
            /\ (devLock' = u <=> devLock = u) /\ (clkLock' = u <=> clkLock = u)
        BY <1>0, <1>1, <1>6, <3>2, ReturnTypes
      <4> QED
        BY <1>0, <1>1, <4>1, Others
    <3> QED
      BY <3>1, <3>2
  <2>3. ASSUME NEW n \in Node PROVE Extra(n)' = Extra(n)
    <3>0. clkLock' = Nobody /\ Turn = devLock /\ Turn' = devLock'
      <4>1. clkLock' = Nobody
        BY <1>0, <1>1, <1>6, ReturnTypes, Tree DEF Return
      <4> QED
        BY <1>1, <4>1 DEF Turn
    <3>1. CASE devLock = t
      BY <1>0, <1>3, <1>6, <3>0, <3>1, ReturnTypes DEF Extra
    <3>2. CASE devLock # t
      <4>1. devLock' = devLock
        BY <1>0, <1>6, <3>2, ReturnTypes
      <4>2. Turn # Nobody =>
              pc'[Turn] = pc[Turn] /\ job'[Turn] = job[Turn] /\ walk'[Turn] = walk[Turn]
        BY <1>0, <1>6, <3>0, <3>2, ReturnTypes DEF Types
      <4> QED
        BY <1>1, <3>0, <4>1, <4>2, SameExtra
    <3> QED
      BY <3>1, <3>2
  <2> QED
    BY <1>0, <1>1, <1>4, <1>5, <2>1, <2>2, <2>3 DEF IInv, Counted
<1>7. CASE /\ Accepts(j.clock, j.new) /\ clkLock' = t /\ UNCHANGED devLock
           /\ job' = [job EXCEPT ![t].old = up[j.clock], ![t].on = TRUE]
           /\ IF ref[j.clock] > 0
              THEN GoTo(t, "visit") /\ walk' = [walk EXCEPT ![t] = <<j.new>>]
              ELSE GoTo(t, "switch") /\ UNCHANGED walk
  <2> DEFINE c == j.clock
             p == j.new
  <2>1. /\ c \in DOMAIN Table /\ up[c] \in Clock /\ p \in ParentsOf(c)
        /\ p \in Node /\ p \in Clock /\ p \notin Own /\ Level[p] < Level[c] /\ c \in Node
    <3>1. c \in DOMAIN Table /\ ParentsOf(c) \subseteq Clock /\ c \in Node /\ p \in ParentsOf(c)
      BY <1>2, <1>7, MovedTypes
    <3>2. up[c] \in Clock
      BY <1>0, <3>1 DEF Types
    <3>3. p \in Clock /\ p \in Node /\ Level[p] < Level[c]
      BY <3>1, NodeTypes
    <3>4. p \notin Own
      BY <3>1, NodeTypes
    <3> QED
      BY <3>1, <3>2, <3>3, <3>4
  <2>2. /\ job'[t] \in Switching /\ job'[t].call = j.call /\ job'[t].clock = c /\ job'[t].new = p
        /\ job'[t].old = up[c] /\ job'[t].on = TRUE
        /\ job' \in [Thread -> {NoJob} \cup Update \cup Switching]
        /\ \A u \in Thread \ {t} : job'[u] = job[u]
    <3>1. job' = [job EXCEPT ![t] = [j EXCEPT !.old = up[c], !.on = TRUE]]
      BY <1>7
    <3>2. /\ [j EXCEPT !.old = up[c], !.on = TRUE] \in Switching
          /\ [j EXCEPT !.old = up[c], !.on = TRUE].call = j.call
          /\ [j EXCEPT !.old = up[c], !.on = TRUE].clock = c
          /\ [j EXCEPT !.old = up[c], !.on = TRUE].new = p
          /\ [j EXCEPT !.old = up[c], !.on = TRUE].old = up[c]
          /\ [j EXCEPT !.old = up[c], !.on = TRUE].on = TRUE
      BY <1>2, <2>1 DEF Switching
    <3> HIDE DEF j
    <3> QED
      BY <1>0, <3>1, <3>2 DEF Types
  <2> HIDE DEF c, p, j
  <2>3. /\ pc'[t] = (IF ref[c] > 0 THEN "visit" ELSE "switch")
        /\ walk'[t] = (IF ref[c] > 0 THEN <<p>> ELSE <<>>)
        /\ \A u \in Thread \ {t} : pc'[u] = pc[u] /\ walk'[u] = walk[u]
        /\ pc' \in [Thread -> Label] /\ walk' \in [Thread -> Seq(Node)]
    <3>1. <<p>> \in Seq(Node)
      BY <2>1
    <3>2. CASE ref[c] > 0
      <4>1. pc' = [pc EXCEPT ![t] = "visit"] /\ walk' = [walk EXCEPT ![t] = <<p>>]
        BY <1>7, <3>2 DEF GoTo, c, p
      <4> QED
        BY <1>0, <3>1, <3>2, <4>1 DEF Types, Label
    <3>3. CASE ~(ref[c] > 0)
      <4>1. pc' = [pc EXCEPT ![t] = "switch"] /\ walk' = walk
        BY <1>7, <3>3 DEF GoTo, c
      <4> QED
        BY <1>0, <1>2, <3>3, <4>1 DEF Types, Label
    <3> QED
      BY <3>2, <3>3
  <2>4. <<p>> # <<>> /\ Len(<<p>>) = 1 /\ <<p>>[1] = p
    OBVIOUS
  <2>5. Types'
    <3>1. \A u \in Thread : (job[u] = NoJob <=> pc[u] = "idle")'
      <4>1. job'[t].call # NoJob.call
        BY <2>2 DEF Switching, NoJob
      <4>2. job'[t] # NoJob /\ pc'[t] # "idle"
        BY <2>3, <4>1
      <4>3. \A u \in Thread : job[u] = NoJob <=> pc[u] = "idle"
        BY <1>0 DEF Types
      <4>4. ASSUME NEW u \in Thread PROVE job'[u] = NoJob <=> pc'[u] = "idle"
        <5>1. CASE u = t
          BY <4>2, <5>1
        <5>2. CASE u # t
          BY <2>2, <2>3, <4>3, <5>2
        <5> QED
          BY <5>1, <5>2
      <4> QED
        BY <4>4 DEF NoJob
    <3>2. \A u \in Thread : (Walking(u) <=> walk[u] # <<>>)'
      BY <1>0, <2>3, <2>4 DEF Types, Walking
    <3> QED
      BY <1>0, <1>1, <1>7, <2>2, <2>3, <3>1, <3>2 DEF Types
  <2>6. j.call \in {"source", "ioctl"} /\ (j.call = "source" => devLock = t)
    BY <1>0, <1>2 DEF Switching, LockOK, j
  <2>7. j.call = "ioctl" /\ c \in Own => ref[c] = 0
    BY <1>0 DEF Spare
  <2>8. ASSUME NEW u \in Thread PROVE LockOK(u)' /\ MoveOK(u)' /\ ChainOK(u)'
    <3>1. CASE u = t
      <4>1. IsSwitch(t)' /\ (Walking(t)' <=> ref[c] > 0) /\ Target(t)' = p
        BY <2>2, <2>3, <2>6 DEF IsSwitch, Walking, Target
      <4>2. LockOK(t)'
        BY <1>0, <1>7, <2>2, <2>3, <2>6, <2>7, <4>1 DEF LockOK, j, Walking, Intrudes
      <4>3. MoveOK(t)'
        BY <1>1, <1>2, <1>7, <2>1, <2>2, <4>1 DEF MoveOK, c, j, p
      <4>4. ChainOK(t)'
        BY <1>1, <2>1, <2>2, <2>3, <2>4, <4>1 DEF ChainOK, Path
      <4> QED
        BY <3>1, <4>2, <4>3, <4>4
    <3>2. CASE u # t
      BY <1>0, <1>1, <1>7, <2>2, <2>3, <3>2, Others, Tree
    <3> QED
      BY <3>1, <3>2
  <2>9. ASSUME NEW n \in Node PROVE Extra(n)' = Extra(n)
    <3>0. Turn = devLock /\ t # Nobody /\ devLock' = devLock /\ clkLock' = t
      BY <1>1, <1>7, Tree DEF Turn
    <3>1. Given(t, n)' = 0 /\ Passed(t, n)' = 0
      BY <1>1, <2>2, <2>3, <2>6 DEF Given, Passed, IsSwitch, Walking, One
    <3>2. Intrudes(t)' <=> Intrudes(t)
      BY <2>2 DEF Intrudes, c, j
    \* The IOCTL takes the place of a device call that waits, if there is one.
    <3>3. CASE Intrudes(t)
      <4>1. Turn' = t
        BY <3>0, <3>2, <3>3 DEF Turn
      <4>2. ASSUME devLock # Nobody PROVE Given(devLock, n) = 0 /\ Passed(devLock, n) = 0
        <5> PICK d \in Thread : d = devLock
          BY <1>0, <4>2 DEF Types
        <5>1. d # t
          BY <1>0, <3>3 DEF LockOK, Intrudes
        <5>2. Busy(t)' /\ Intrudes(t)'
          BY <2>3, <3>2, <3>3 DEF Busy, Walking
        <5>3. ~Busy(d)'
          BY <5>1, <5>2 DEF InTurn
        <5>4. ~Walking(d) /\ pc[d] # "switch"
          BY <2>3, <5>1, <5>3 DEF Busy, Walking
        <5> QED
          BY <5>4 DEF Given, Passed, Walking
      <4>3. Extra(n) = 0
        BY <3>0, <4>2 DEF Extra
      <4> QED
        BY <3>0, <3>1, <4>1, <4>3 DEF Extra
    <3>4. CASE ~Intrudes(t)
      <4>1. Turn' = devLock
        BY <3>0, <3>2, <3>4 DEF Turn
      <4>2. CASE devLock = t
        BY <1>3, <3>0, <3>1, <4>1, <4>2 DEF Extra
      <4>3. CASE devLock # t
        <5>1. Turn # Nobody =>
                pc'[Turn] = pc[Turn] /\ job'[Turn] = job[Turn] /\ walk'[Turn] = walk[Turn]
          BY <1>0, <2>2, <2>3, <3>0, <4>3 DEF Types
        <5> QED
          BY <1>1, <3>0, <4>1, <5>1, SameExtra
      <4> QED
        BY <4>2, <4>3
    <3> QED
      BY <3>3, <3>4
  <2> QED
    BY <1>0, <1>1, <1>4, <1>5, <2>5, <2>8, <2>9 DEF IInv, Counted
<1> QED
  BY <1>6, <1>7 DEF LockClock

\* The thread whose turn it is to walk.
LEMMA Walker ==
    ASSUME IInv, NEW t \in Thread, Walking(t)
    PROVE  /\ Turn = t /\ t # Nobody /\ Path(t, walk[t]) /\ job[t].on \in BOOLEAN
           /\ ~IsSwitch(t) => job[t] \in Update /\ devLock = t
           /\ IsSwitch(t) => /\ job[t] \in Switching /\ clkLock = t /\ ref[job[t].clock] > 0
                             /\ job[t].clock \in Clock /\ job[t].clock \in DOMAIN Table
                             /\ job[t].new \in ParentsOf(job[t].clock)
                             /\ job[t].old = up[job[t].clock]
                             /\ job[t].new \in Node /\ job[t].old \in Node
           /\ \A u \in Thread \ {t} : ~Walking(u)
           /\ \A n : Extra(n) = Given(t, n) + Passed(t, n)
           /\ \A i \in 1..Len(walk[t]) : walk[t][i] \in Node
<1>0. Types /\ Counted /\ InTurn /\ \A u \in Thread : LockOK(u) /\ MoveOK(u) /\ ChainOK(u)
  BY DEF IInv
<1>1. /\ job[t].call \in {"update", "source", "ioctl"}
      /\ ~IsSwitch(t) => job[t] \in Update
      /\ IsSwitch(t) => job[t] \in Switching
  BY <1>0, JobTypes DEF Walking
<1>2. Turn = t /\ t # Nobody /\ (~IsSwitch(t) => devLock = t)
  BY <1>0, <1>1, TurnFacts, Tree DEF LockOK, IsSwitch
<1>3. IsSwitch(t) =>
        /\ clkLock = t /\ ref[job[t].clock] > 0
        /\ job[t].clock \in Clock /\ job[t].clock \in DOMAIN Table
        /\ job[t].new \in ParentsOf(job[t].clock) /\ job[t].old = up[job[t].clock]
        /\ job[t].new \in Node /\ job[t].old \in Node
  BY <1>0, <1>1, NodeTypes DEF LockOK, MoveOK, Walking, Switching, Types
<1>4. ASSUME NEW u \in Thread \ {t} PROVE ~Walking(u)
  BY <1>0, <1>2, TurnFacts
<1>5. job[t].on \in BOOLEAN /\ Path(t, walk[t])
  BY <1>0, <1>1 DEF Update, Switching, ChainOK
<1>6. \A i \in 1..Len(walk[t]) : walk[t][i] \in Node
  BY <1>0, WalkTypes
<1> QED
  BY <1>1, <1>2, <1>3, <1>4, <1>5, <1>6 DEF Extra

LEMMA SamePath ==
    ASSUME NEW t, NEW w, job'[t] = job[t], UNCHANGED <<up, ref>>, Path(t, w)
    PROVE  Path(t, w)'
<1>1. IsSwitch(t)' = IsSwitch(t) /\ Target(t)' = Target(t)
  BY DEF IsSwitch, Target
<1>2. \A n, b : Edge(n, b)' = Edge(n, b)
  BY DEF Edge
<1> QED
  BY <1>1, <1>2 DEF Path

\* The walk goes up an edge.
LEMMA PathPush ==
    ASSUME Types, NEW t, NEW w \in Seq(Node), w # <<>>, Path(t, w),
           NEW n \in Node, w[1] \in DOMAIN Table, n = up[w[1]], Edge(w[1], job[t].on),
           Level[n] < Level[w[1]], n \notin Own, ~job[t].on => ref[n] > 0,
           IsSwitch(t) => job[t].clock \in Node
    PROVE  Path(t, <<n>> \o w)
<1> DEFINE v == <<n>> \o w
<1>1. /\ Len(w) \in Nat /\ Len(w) >= 1 /\ Len(v) = Len(w) + 1 /\ v[1] = n
      /\ \A i \in 1..Len(w) : v[i + 1] = w[i] /\ w[i] \in Node
  BY PushTypes, EmptySeq, LenProperties, ElementOfSeq
<1>2. \A i \in 2..Len(v) : i - 1 \in 1..Len(w) /\ v[i] = w[i - 1]
  BY <1>1
<1> HIDE DEF v
<1>3. v[Len(v)] = w[Len(w)]
  BY <1>1, <1>2
<1>4. ASSUME NEW i \in 1..Len(v) - 1
      PROVE  v[i + 1] \in DOMAIN Table /\ up[v[i + 1]] = v[i] /\ Edge(v[i + 1], job[t].on)
  <2>1. CASE i = 1
    BY <1>1, <2>1
  <2>2. CASE i # 1
    <3>1. /\ v[i + 1] = w[i] /\ v[i] = w[i - 1]
          /\ i - 1 \in 1..Len(w) - 1 /\ (i - 1) + 1 = i
      BY <1>1, <1>2, <2>2
    <3> QED
      BY <3>1 DEF Path
  <2> QED
    BY <2>1, <2>2
<1>5. ASSUME NEW i \in 1..Len(v)
      PROVE  /\ v[i] \notin Own /\ Level[v[i]] \in Nat
             /\ IsSwitch(t) => Level[v[i]] < Level[job[t].clock]
             /\ i # 1 => Level[v[1]] < Level[v[i]]
  <2>1. /\ w[1] \in Node /\ Level[w[1]] \in Nat /\ Level[n] \in Nat
        /\ IsSwitch(t) => Level[w[1]] < Level[job[t].clock] /\ Level[job[t].clock] \in Nat
    BY <1>1, NodeTypes DEF Path
  <2>2. CASE i = 1
    BY <1>1, <2>1, <2>2
  <2>3. CASE i # 1
    <3>1. i - 1 \in 1..Len(w) /\ v[i] = w[i - 1] /\ Level[w[i - 1]] \in Nat
      BY <1>1, <1>2, <2>3, NodeTypes
    <3>2. i - 1 # 1 => Level[w[1]] < Level[w[i - 1]]
      BY <1>1, <3>1 DEF Path
    <3>3. Level[n] < Level[w[i - 1]]
      BY <2>1, <3>1, <3>2
    <3> QED
      BY <1>1, <2>3, <3>1, <3>3 DEF Path
  <2> QED
    BY <2>2, <2>3
<1>6. ASSUME NEW i \in 1..Len(v), NEW k \in 1..Len(v), i < k PROVE Level[v[i]] < Level[v[k]]
  <2>1. CASE i = 1
    BY <1>5, <1>6, <2>1
  <2>2. CASE i # 1
    <3>1. i - 1 \in 1..Len(w) /\ k - 1 \in 1..Len(w) /\ v[i] = w[i - 1] /\ v[k] = w[k - 1] /\ i - 1 < k - 1
      BY <1>1, <1>2, <1>6, <2>2
    <3> QED
      BY <3>1 DEF Path
  <2> QED
    BY <2>1, <2>2
<1>7. Path(t, v)
  BY <1>1, <1>3, <1>4, <1>5, <1>6 DEF Path
<1> QED
  BY <1>7 DEF v

LEMMA VisitInv ==
    ASSUME IInv, InTurn', NEW t \in Thread, Visit(t)
    PROVE  IInv'
<1> DEFINE h == walk[t][1]
           b == job[t].on
<1>0. Types /\ Spare /\ Counted /\ \A u \in Thread : LockOK(u) /\ MoveOK(u) /\ ChainOK(u)
  BY DEF IInv
<1>1. pc[t] = "visit" /\ Walking(t) /\ UNCHANGED <<job, tmp, devLock, clkLock, up, ref, hold, select>>
  BY DEF Visit, Walking
<1>2. h \in Node /\ h = Head(walk[t]) /\ walk[t] \in Seq(Node) /\ walk[t] # <<>>
  BY <1>0, <1>1, WalkTypes DEF Types
<1>3. /\ Turn = t /\ t # Nobody /\ Path(t, walk[t])
      /\ \A n : Extra(n) = Given(t, n) + Passed(t, n)
  BY <1>1, Walker
<1> HIDE DEF h
<1>4. IF Edge(h, b) /\ h \in DOMAIN Table
      THEN walk' = [walk EXCEPT ![t] = <<up[h]>> \o @] /\ pc' = pc
      ELSE pc' = [pc EXCEPT ![t] = "read"] /\ walk' = walk
  BY <1>2 DEF Visit, GoTo
<1>5. /\ Types'
      /\ pc'[t] \in {"visit", "read"} /\ (pc'[t] = "read" => ~Passing(t, h) /\ walk'[t] = walk[t])
      /\ Path(t, walk'[t])
      /\ \A u \in Thread \ {t} : pc'[u] = pc[u] /\ walk'[u] = walk[u]
  <2>1. CASE Edge(h, b) /\ h \in DOMAIN Table
    <3>1. walk' = [walk EXCEPT ![t] = <<up[h]>> \o walk[t]] /\ pc' = pc
      BY <1>4, <2>1
    <3>2. up[h] \in Node /\ Level[up[h]] < Level[h] /\ up[h] \in ParentsOf(h)
      BY <1>0, <2>1, LevelUp DEF Types
    <3>3. <<up[h]>> \o walk[t] \in Seq(Node) /\ <<up[h]>> \o walk[t] # <<>>
      BY <1>2, <3>2, PushTypes
    <3>4. up[h] \notin Own
      BY <2>1, <3>2, NodeTypes
    <3>5. ~b => ref[up[h]] > 0
      <4> SUFFICES ASSUME ~b PROVE ref[up[h]] > 0
        OBVIOUS
      <4>1. h \in Users(up[h])
        BY <1>0, <1>2, <2>1 DEF Users, Edge, Types
      <4>2. Cardinality(Users(up[h])) \in Nat /\ Cardinality(Users(up[h])) # 0
        BY <4>1, UsersFinite, FS_EmptySet
      <4>3. Passed(t, up[h]) = 0 /\ Given(t, up[h]) \in {0, 1}
        <5>1. Sign(t) = -1
          BY DEF Sign
        <5> QED
          BY <1>1, <5>1 DEF Passed, Given, One
      <4>4. HoldOf(up[h]) \in Nat
        BY <1>0, Tree DEF Types, HoldOf
      <4>5. ref[up[h]] = HoldOf(up[h]) + Cardinality(Users(up[h])) + Extra(up[h])
        BY <1>0, <3>2 DEF Counted
      <4>6. Extra(up[h]) = Given(t, up[h]) + Passed(t, up[h])
        BY <1>3
      <4> QED
        BY <4>2, <4>3, <4>4, <4>5, <4>6
    <3>6. IsSwitch(t) => job[t].clock \in Node
      BY <1>1, Walker, NodeTypes
    <3>7. Path(t, <<up[h]>> \o walk[t])
      BY <1>0, <1>2, <1>3, <2>1, <3>2, <3>4, <3>5, <3>6, PathPush DEF h
    <3>8. Types'
      BY <1>0, <1>1, <3>1, <3>3 DEF Types, Walking
    <3> QED
      BY <1>0, <1>1, <3>1, <3>7, <3>8 DEF Types
  <2>2. CASE ~(Edge(h, b) /\ h \in DOMAIN Table)
    <3>1. walk' = walk /\ pc' = [pc EXCEPT ![t] = "read"]
      BY <1>4, <2>2
    <3>2. ~Passing(t, h)
      BY <2>2 DEF Passing
    <3>3. Types'
      BY <1>0, <1>1, <3>1 DEF Types, Walking, Label
    <3> QED
      BY <1>0, <1>3, <3>1, <3>2, <3>3 DEF Types
  <2> QED
    BY <2>1, <2>2
<1>6. ASSUME NEW u \in Thread PROVE LockOK(u)' /\ MoveOK(u)' /\ ChainOK(u)'
  <2>1. CASE u = t
    <3>1. Walking(t)' /\ IsSwitch(t)' = IsSwitch(t)
      BY <1>1, <1>5 DEF Walking, IsSwitch
    <3>2. LockOK(t)' /\ MoveOK(t)'
      BY <1>0, <1>1, <1>5, <3>1 DEF LockOK, MoveOK, Walking, Intrudes
    <3>3. \A w : Path(t, w) => Path(t, w)'
      BY <1>1, SamePath
    <3>4. ChainOK(t)'
      BY <1>5, <3>3 DEF ChainOK
    <3> QED
      BY <2>1, <3>2, <3>4
  <2>2. CASE u # t
    BY <1>0, <1>1, <1>5, <2>2, Others
  <2> QED
    BY <2>1, <2>2
<1>7. ASSUME NEW n \in Node PROVE Extra(n)' = Extra(n)
  <2>1. Given(t, n)' = Given(t, n)
    BY <1>1, <1>5 DEF Given, IsSwitch, Walking, Sign, One
  <2>2. Passed(t, n) = 0
    BY <1>1 DEF Passed
  <2>3. Passed(t, n)' = 0
    BY <1>1, <1>5 DEF Passed, Passing, Edge, h
  <2>4. Turn' = Turn
    BY <1>1, SameTurn
  <2> QED
    BY <1>1, <1>3, <2>1, <2>2, <2>3, <2>4 DEF Extra
<1>8. ASSUME NEW n \in Node PROVE HoldOf(n)' = HoldOf(n) /\ Users(n)' = Users(n)
  BY <1>1, SameUsers DEF HoldOf
<1>9. Counted'
  BY <1>0, <1>1, <1>7, <1>8 DEF Counted
<1> QED
  BY <1>0, <1>1, <1>5, <1>6, <1>9 DEF IInv, Spare

LEMMA ReadCountInv ==
    ASSUME IInv, InTurn', NEW t \in Thread, ReadCount(t)
    PROVE  IInv'
<1>0. Types /\ Spare /\ Counted /\ \A u \in Thread : LockOK(u) /\ MoveOK(u) /\ ChainOK(u)
  BY DEF IInv
<1>1. /\ pc[t] = "read" /\ Walking(t)
      /\ tmp' = [tmp EXCEPT ![t] = ref[Head(walk[t])]] /\ pc' = [pc EXCEPT ![t] = "write"]
      /\ UNCHANGED <<job, walk, devLock, clkLock, up, ref, hold, select>>
  BY DEF ReadCount, Walking, GoTo
<1>2. walk[t][1] \in Node /\ Head(walk[t]) = walk[t][1] /\ Turn = t
  BY <1>0, <1>1, Walker, WalkTypes
<1>3. pc'[t] = "write" /\ tmp'[t] = ref[walk[t][1]]
  BY <1>0, <1>1, <1>2 DEF Types
<1>4. Types'
  BY <1>0, <1>1, <1>2 DEF Types, Walking, Label
<1>5. ASSUME NEW u \in Thread PROVE LockOK(u)' /\ MoveOK(u)' /\ ChainOK(u)'
  <2>1. CASE u = t
    <3>1. Walking(t)' /\ IsSwitch(t)' = IsSwitch(t)
      BY <1>1, <1>3 DEF Walking, IsSwitch
    <3>2. LockOK(t)' /\ MoveOK(t)'
      BY <1>0, <1>1, <1>3, <3>1 DEF LockOK, MoveOK, Walking, Intrudes
    <3>3. Path(t, walk[t]) /\ \A w : Path(t, w) => Path(t, w)'
      BY <1>0, <1>1, SamePath DEF ChainOK
    <3>4. ChainOK(t)'
      BY <1>1, <1>3, <3>3 DEF ChainOK
    <3> QED
      BY <2>1, <3>2, <3>4
  <2>2. CASE u # t
    <3>1. pc'[u] = pc[u] /\ tmp'[u] = tmp[u]
      BY <1>0, <1>1, <2>2 DEF Types
    <3> QED
      BY <1>0, <1>1, <3>1, Others
  <2> QED
    BY <2>1, <2>2
<1>6. ASSUME NEW n \in Node PROVE Extra(n)' = Extra(n)
  <2>1. Given(t, n)' = Given(t, n) /\ Passed(t, n)' = Passed(t, n)
    BY <1>1, <1>3 DEF Given, Passed, Passing, Edge, IsSwitch, Walking, Sign, One
  <2>2. Turn' = Turn
    BY <1>1, SameTurn
  <2> QED
    BY <1>1, <1>2, <2>1, <2>2 DEF Extra
<1>7. ASSUME NEW n \in Node PROVE HoldOf(n)' = HoldOf(n) /\ Users(n)' = Users(n)
  BY <1>1, SameUsers DEF HoldOf
<1> QED
  BY <1>0, <1>1, <1>4, <1>5, <1>6, <1>7 DEF IInv, Counted, Spare

-----------------------------------------------------------------------------
(* The count is written                                                    *)

LEMMA WriteFacts ==
    ASSUME IInv, NEW t \in Thread, WriteCount(t)
    PROVE  /\ pc[t] = "write" /\ Walking(t) /\ walk[t][1] \in Node
           /\ walk[t][1] \notin Own
           /\ Sign(t) \in {1, -1} /\ (Sign(t) = 1 <=> job[t].on)
           /\ ~job[t].on => ref[walk[t][1]] > 0
           /\ ref' \in [Node -> Nat]
           /\ ref'[walk[t][1]] = ref[walk[t][1]] + Sign(t)
           /\ \A n \in Node \ {walk[t][1]} : ref'[n] = ref[n]
           /\ IsSwitch(t) => job[t].clock # walk[t][1] /\ job[t].clock \in Node
           /\ tmp' \in [Thread -> Int] /\ UNCHANGED <<up, hold, select>>
<1> DEFINE h == walk[t][1]
<1>1. pc[t] = "write" /\ Walking(t) /\ Types
  BY DEF WriteCount, Walking, IInv
<1>2. h \in Node /\ h = Head(walk[t]) /\ 1 \in 1..Len(walk[t])
  BY <1>1, WalkTypes
<1>3. /\ tmp[t] = ref[h] /\ h \notin Own /\ (~job[t].on => ref[h] > 0)
      /\ IsSwitch(t) => Level[h] < Level[job[t].clock]
  <2>1. ChainOK(t)
    BY DEF IInv
  <2> QED
    BY <1>1, <1>2, <2>1 DEF ChainOK, Path
<1>4. Sign(t) \in {1, -1} /\ (Sign(t) = 1 <=> job[t].on)
  BY DEF Sign
<1>5. ref' = [ref EXCEPT ![h] = ref[h] + Sign(t)]
  BY <1>2, <1>3 DEF WriteCount, Sign
<1>6. ref[h] + Sign(t) \in Nat
  BY <1>1, <1>2, <1>3, <1>4 DEF Types
<1>7. IsSwitch(t) => job[t].clock # h /\ job[t].clock \in Node
  <2>1. IsSwitch(t) => job[t].clock \in Node
    BY <1>1, Walker, NodeTypes
  <2> QED
    BY <1>2, <1>3, <2>1, NodeTypes
<1>8. tmp' \in [Thread -> Int] /\ UNCHANGED <<up, hold, select>>
  BY <1>1 DEF WriteCount, Types
<1> HIDE DEF h
<1>9. /\ ref' \in [Node -> Nat] /\ ref'[h] = ref[h] + Sign(t)
      /\ \A n \in Node \ {h} : ref'[n] = ref[n]
  BY <1>1, <1>2, <1>5, <1>6 DEF Types
<1> QED
  BY <1>1, <1>2, <1>3, <1>4, <1>7, <1>8, <1>9 DEF h

\* The node above has one user more, or one less, when the reference was passed on.
LEMMA WriteUsers ==
    ASSUME IInv, NEW t \in Thread, WriteCount(t), NEW n \in Node
    PROVE  Cardinality(Users(n))' = Cardinality(Users(n)) + Passed(t, n)
<1> DEFINE h == walk[t][1]
<1>1. /\ pc[t] = "write" /\ h \in Node /\ Sign(t) \in {1, -1} /\ (Sign(t) = 1 <=> job[t].on)
      /\ ~job[t].on => ref[h] > 0
      /\ ref'[h] = ref[h] + Sign(t) /\ (\A m \in Node \ {h} : ref'[m] = ref[m])
      /\ up' = up /\ ref[h] \in Nat
  BY WriteFacts DEF IInv, Types
<1>2. Passed(t, n) = IF Passing(t, h) /\ n = up[h] THEN Sign(t) ELSE 0
  BY <1>1 DEF Passed
<1> HIDE DEF h
<1>3. \A m \in DOMAIN Table \ {h} : m \in Users(n)' <=> m \in Users(n)
  BY <1>1, NodeTypes DEF Users
<1>4. h \in Users(n)  <=> h \in DOMAIN Table /\ up[h] = n /\ ref[h] > 0
  BY DEF Users
<1>5. h \in Users(n)' <=> h \in DOMAIN Table /\ up[h] = n /\ ref[h] + Sign(t) > 0
  BY <1>1 DEF Users
<1>6. Users(n) \subseteq DOMAIN Table /\ Users(n)' \subseteq DOMAIN Table
  BY DEF Users
<1>7. Passing(t, h) <=> h \in DOMAIN Table /\ IF job[t].on THEN ref[h] = 0 ELSE ref[h] = 1
  BY DEF Passing, Edge
<1>8. CASE ~(Passing(t, h) /\ n = up[h])
  <2>1. h \in Users(n)' <=> h \in Users(n)
    BY <1>1, <1>4, <1>5, <1>7, <1>8
  <2>2. Users(n)' = Users(n)
    BY <1>3, <1>6, <2>1
  <2> QED
    BY <1>2, <1>8, <2>2, UsersFinite
<1>9. CASE Passing(t, h) /\ n = up[h] /\ Sign(t) = 1
  <2>1. h \notin Users(n) /\ h \in Users(n)'
    BY <1>1, <1>4, <1>5, <1>7, <1>9
  <2>2. Users(n)' = Users(n) \cup {h}
    BY <1>3, <1>6, <2>1
  <2> QED
    BY <1>2, <1>9, <2>1, <2>2, UsersFinite, FS_AddElement
<1>10. CASE Passing(t, h) /\ n = up[h] /\ Sign(t) = -1
  <2>1. h \in Users(n) /\ h \notin Users(n)'
    BY <1>1, <1>4, <1>5, <1>7, <1>10
  <2>2. Users(n)' = Users(n) \ {h}
    BY <1>3, <1>6, <2>1
  <2>3. Cardinality(Users(n)') = Cardinality(Users(n)) - 1
    BY <2>1, <2>2, UsersFinite, FS_RemoveElement
  <2> QED
    BY <1>2, <1>10, <2>3, UsersFinite
<1> QED
  BY <1>1, <1>8, <1>9, <1>10

\* What the call owes after the write makes up for the count.
LEMMA WriteCounted ==
    ASSUME IInv, NEW t \in Thread, WriteCount(t),
           \A n \in Node :
              Extra(n)' = Given(t, n) + (IF n = walk[t][1] THEN Sign(t) ELSE 0)
    PROVE  Counted'
<1> SUFFICES ASSUME NEW n \in Node
             PROVE  ref'[n] = HoldOf(n)' + Cardinality(Users(n))' + Extra(n)'
  BY DEF Counted
<1>1. /\ Walking(t) /\ pc[t] = "write" /\ Sign(t) \in {1, -1} /\ hold' = hold
      /\ ref'[n] = ref[n] + (IF n = walk[t][1] THEN Sign(t) ELSE 0)
  <2>1. ref[n] \in Nat
    BY DEF IInv, Types
  <2> QED
    BY <2>1, WriteFacts
<1>2. ref[n] = HoldOf(n) + Cardinality(Users(n)) + (Given(t, n) + Passed(t, n))
  BY <1>1, Walker DEF IInv, Counted
<1>3. Cardinality(Users(n))' = Cardinality(Users(n)) + Passed(t, n)
  BY WriteUsers
<1>4. /\ Cardinality(Users(n)) \in Nat /\ HoldOf(n)' = HoldOf(n) /\ HoldOf(n) \in Int
      /\ Given(t, n) \in Int /\ Passed(t, n) \in Int
  <2>1. HoldOf(n)' = HoldOf(n) /\ HoldOf(n) \in Int
    BY <1>1, Tree DEF HoldOf, IInv, Types
  <2>2. Given(t, n) \in Int
    BY <1>1 DEF Given, One
  <2>3. Passed(t, n) \in Int
    BY <1>1 DEF Passed
  <2> QED
    BY <2>1, <2>2, <2>3, UsersFinite
<1> QED
  BY <1>1, <1>2, <1>3, <1>4

\* The parts of a path in the next state.
LEMMA PathAfter ==
    ASSUME NEW t, NEW v,
           v[Len(v)] = Target(t)',
           \A i \in 1..Len(v) - 1 :
               v[i + 1] \in DOMAIN Table /\ up'[v[i + 1]] = v[i] /\ Edge(v[i + 1], job[t].on)',
           \A i, k \in 1..Len(v) : i < k => Level[v[i]] < Level[v[k]],
           \A i \in 1..Len(v) :
               /\ v[i] \notin Own
               /\ IsSwitch(t)' => Level[v[i]] < Level[job'[t].clock],
           ~job'[t].on => ref'[v[1]] > 0
    PROVE  Path(t, v)'
  BY Zenon DEF Path

LEMMA PathPop ==
    ASSUME IInv, NEW t \in Thread, WriteCount(t), NEW w, w = walk[t], Len(w) > 1,
           job'[t] = job[t]
    PROVE  /\ Path(t, Tail(w))' /\ Tail(w) \in Seq(Node) /\ Tail(w) # <<>>
           /\ Tail(w)[1] = w[2] /\ w[2] \in DOMAIN Table
           /\ up[w[2]] = w[1] /\ Edge(w[2], job[t].on)'
<1> DEFINE v == Tail(w)
<1>1. Walking(t) /\ Types /\ Path(t, w) /\ up' = up
  BY Walker, WriteFacts DEF IInv
<1>2. /\ Len(w) \in Nat /\ Len(w) > 1 /\ v \in Seq(Node) /\ Len(v) = Len(w) - 1
      /\ \A i \in 1..Len(v) : i + 1 \in 1..Len(w) /\ v[i] = w[i + 1]
      /\ \A i \in 1..Len(w) : w[i] \in Node
  BY <1>1, WalkTypes
<1>3. \A n \in Node \ {w[1]} : ref'[n] = ref[n]
  BY WriteFacts
<1>4. IsSwitch(t)' = IsSwitch(t) /\ Target(t)' = Target(t)
  BY DEF IsSwitch, Target
<1> HIDE DEF v
<1>5. ASSUME NEW i \in 2..Len(w) PROVE w[i] # w[1] /\ w[i] \in Node /\ ref'[w[i]] = ref[w[i]]
  <2>1. Level[w[1]] < Level[w[i]] /\ w[1] \in Node /\ w[i] \in Node
    BY <1>1, <1>2 DEF Path
  <2> QED
    BY <1>3, <2>1, NodeTypes
<1>6. ASSUME NEW i \in 1..Len(w) - 1
      PROVE  w[i + 1] \in DOMAIN Table /\ up[w[i + 1]] = w[i] /\ Edge(w[i + 1], job[t].on)'
  <2>1. w[i + 1] \in DOMAIN Table /\ up[w[i + 1]] = w[i] /\ Edge(w[i + 1], job[t].on)
    BY <1>1 DEF Path
  <2>2. i + 1 \in 2..Len(w)
    BY <1>2
  <2> QED
    BY <1>5, <2>1, <2>2 DEF Edge
<1>7. v[1] = w[2] /\ v # <<>>
  BY <1>2, EmptySeq
<1>8. Path(t, v)'
  <2>1. (v[Len(v)] = Target(t))'
    BY <1>1, <1>2, <1>4 DEF Path
  <2>2. ASSUME NEW i \in 1..Len(v) - 1
        PROVE  v[i + 1] \in DOMAIN Table /\ up[v[i + 1]] = v[i] /\ Edge(v[i + 1], job[t].on)'
    <3>1. i \in 1..Len(v) /\ i + 1 \in 1..Len(v) /\ i + 1 \in 1..Len(w) - 1
      BY <1>2
    <3>2. v[i] = w[i + 1] /\ v[i + 1] = w[(i + 1) + 1]
      BY <1>2, <3>1
    <3> QED
      BY <1>6, <3>1, <3>2
  <2>3. ASSUME NEW i \in 1..Len(v), NEW k \in 1..Len(v), i < k
        PROVE  Level[v[i]] < Level[v[k]]
    <3>1. /\ i + 1 \in 1..Len(w) /\ k + 1 \in 1..Len(w)
          /\ v[i] = w[i + 1] /\ v[k] = w[k + 1]
      BY <1>2
    <3>2. i + 1 < k + 1
      BY <1>2, <2>3
    <3>3. Level[w[i + 1]] < Level[w[k + 1]]
      BY <1>1, <3>1, <3>2 DEF Path
    <3> QED
      BY <3>1, <3>3
  <2>4. \A i \in 1..Len(v) :
          v[i] \notin Own /\ (IsSwitch(t) => Level[v[i]] < Level[job[t].clock])
    BY <1>1, <1>2 DEF Path
  <2>5. ~job[t].on => ref'[v[1]] > 0
    <3>1. 1 \in 1..Len(w) - 1 /\ 1 + 1 = 2
      BY <1>2
    <3>2. Edge(w[1 + 1], job[t].on)'
      BY <1>6, <3>1
    <3> QED
      BY <1>7, <3>1, <3>2 DEF Edge
  <2>6. /\ v[Len(v)] = Target(t)'
        /\ \A i \in 1..Len(v) - 1 :
             v[i + 1] \in DOMAIN Table /\ up'[v[i + 1]] = v[i] /\ Edge(v[i + 1], job[t].on)'
    BY <1>1, <2>1, <2>2
  <2>7. /\ \A i \in 1..Len(v) :
             /\ v[i] \notin Own
             /\ IsSwitch(t)' => Level[v[i]] < Level[job'[t].clock]
        /\ ~job'[t].on => ref'[v[1]] > 0
    BY <1>4, <2>4, <2>5
  <2> QED
    BY <2>3, <2>6, <2>7, PathAfter
<1>9. w[2] \in DOMAIN Table /\ up[w[2]] = w[1] /\ Edge(w[2], job[t].on)'
  <2>1. 1 \in 1..Len(w) - 1 /\ 1 + 1 = 2
    BY <1>2
  <2> QED
    BY <1>6, <2>1
<1>10. v \in Seq(Node) /\ v # <<>> /\ v[1] = w[2] /\ Path(t, v)'
  BY <1>2, <1>7, <1>8
<1> QED
  BY <1>9, <1>10 DEF v

LEMMA WriteCountInv ==
    ASSUME IInv, InTurn', NEW t \in Thread, WriteCount(t)
    PROVE  IInv'
<1> DEFINE h == walk[t][1]
           c == job[t].clock
<1>0. Types /\ Spare /\ Counted /\ InTurn /\ \A u \in Thread : LockOK(u) /\ MoveOK(u) /\ ChainOK(u)
  BY DEF IInv
<1>1. /\ pc[t] = "write" /\ Walking(t) /\ h \in Node /\ h \notin Own
      /\ Sign(t) \in {1, -1} /\ (Sign(t) = 1 <=> job[t].on)
      /\ ref' \in [Node -> Nat] /\ ref'[h] = ref[h] + Sign(t)
      /\ \A n \in Node \ {h} : ref'[n] = ref[n]
      /\ IsSwitch(t) => c # h /\ c \in Node
      /\ tmp' \in [Thread -> Int] /\ UNCHANGED <<up, hold, select>>
  BY WriteFacts
<1>2. /\ Turn = t /\ t # Nobody /\ job[t].on \in BOOLEAN /\ Path(t, walk[t])
      /\ \A u \in Thread \ {t} : ~Walking(u)
      /\ ~IsSwitch(t) => devLock = t
      /\ IsSwitch(t) => /\ job[t] \in Switching /\ clkLock = t /\ ref[c] > 0
                        /\ c \in Clock /\ c \in DOMAIN Table
                        /\ job[t].new \in ParentsOf(c) /\ job[t].old = up[c]
                        /\ job[t].new \in Node /\ job[t].old \in Node
  BY <1>1, Walker
<1>3. Len(walk[t]) \in Nat /\ Len(walk[t]) >= 1
  BY <1>0, <1>1, WalkTypes
<1>4. Spare'
  <2>1. ASSUME NEW d \in Own PROVE ref'[d] = 0
    <3>1. d \in Node /\ d # h /\ ref[d] = 0
      BY <1>0, <1>1, NodeTypes DEF Spare
    <3> QED
      BY <1>1, <3>1
  <2> QED
    BY <2>1 DEF Spare
<1>5. IsSwitch(t) => ref'[c] = ref[c] /\ ref'[c] > 0
  BY <1>1, <1>2
\* The others are not walking.
<1>6. ASSUME NEW u \in Thread \ {t}, pc'[u] = pc[u], job'[u] = job[u], walk'[u] = walk[u],
             devLock' = u <=> devLock = u, clkLock' = u <=> clkLock = u
      PROVE  LockOK(u)' /\ MoveOK(u)' /\ ChainOK(u)'
  <2>1. IsSwitch(u)' = IsSwitch(u) /\ Walking(u)' = Walking(u) /\ ~Walking(u)
    BY <1>2, <1>6 DEF IsSwitch, Walking
  <2>2. LockOK(u)'
    BY <1>0, <1>6, <2>1 DEF LockOK, Intrudes
  <2>3. MoveOK(u)'
    BY <1>0, <1>1, <1>6, <2>1 DEF MoveOK
  <2>4. ChainOK(u)'
    BY <2>1 DEF ChainOK
  <2> QED
    BY <2>2, <2>3, <2>4
<1>7. CASE Len(walk[t]) > 1
  <2>1. /\ pc' = [pc EXCEPT ![t] = "read"] /\ walk' = [walk EXCEPT ![t] = Tail(walk[t])]
        /\ UNCHANGED <<job, devLock, clkLock>>
    BY <1>7 DEF WriteCount, GoTo
  <2>2. /\ pc'[t] = "read" /\ walk'[t] = Tail(walk[t])
        /\ \A u \in Thread \ {t} : pc'[u] = pc[u] /\ walk'[u] = walk[u]
    BY <1>0, <2>1 DEF Types
  <2>3. /\ Path(t, walk[t])' /\ walk'[t] \in Seq(Node) /\ walk'[t] # <<>>
        /\ walk'[t][1] = walk[t][2] /\ walk[t][2] \in DOMAIN Table
        /\ up[walk[t][2]] = h
        /\ ref'[walk[t][2]] = IF job[t].on THEN 0 ELSE 1
    <3>1. ASSUME NEW w, w = walk[t]
          PROVE  /\ Path(t, Tail(w))'
                 /\ Tail(w) \in Seq(Node) /\ Tail(w) # <<>>
                 /\ Tail(w)[1] = w[2] /\ w[2] \in DOMAIN Table
                 /\ up[w[2]] = w[1] /\ Edge(w[2], job[t].on)'
      BY <1>7, <2>1, <3>1, PathPop
    <3>2. ASSUME NEW w, w = walk[t]
          PROVE  ref'[w[2]] = IF job[t].on THEN 0 ELSE 1
      BY <2>1, <3>1, <3>2 DEF Edge
    <3>3. \A w : w = walk[t] => Path(t, Tail(w))'
      BY <3>1
    <3>4. \A w : w = walk[t] => Tail(w) = walk'[t]
      BY <2>2
    <3>5. \A x : x = walk'[t] => Path(t, x)'
      BY <3>3, <2>2
    <3>6. Path(t, walk[t])'
      BY <3>5
    <3> QED
      BY <2>2, <3>1, <3>2, <3>6
  <2>4. Types'
    <3>1. pc' \in [Thread -> Label] /\ walk' \in [Thread -> Seq(Node)]
      BY <1>0, <2>1, <2>2, <2>3 DEF Types, Label
    <3>2. \A u \in Thread : (job[u] = NoJob <=> pc[u] = "idle")'
      BY <1>0, <1>1, <2>1, <2>2 DEF Types
    <3>3. \A u \in Thread : (Walking(u) <=> walk[u] # <<>>)'
      BY <1>0, <2>2, <2>3 DEF Types, Walking
    <3> QED
      BY <1>0, <1>1, <2>1, <3>1, <3>2, <3>3 DEF Types
  <2>5. ASSUME NEW u \in Thread PROVE LockOK(u)' /\ MoveOK(u)' /\ ChainOK(u)'
    <3>1. CASE u = t
      <4>1. Walking(t)' /\ IsSwitch(t)' = IsSwitch(t)
        BY <2>1, <2>2 DEF Walking, IsSwitch
      <4>2. LockOK(t)'
        BY <1>0, <1>1, <2>1, <2>2, <4>1 DEF LockOK, Intrudes, Walking
      <4>3. MoveOK(t)'
        BY <1>0, <1>1, <1>5, <2>1, <4>1 DEF MoveOK, Walking
      <4>4. ChainOK(t)'
        BY <2>2, <2>3 DEF ChainOK
      <4> QED
        BY <3>1, <4>2, <4>3, <4>4
    <3>2. CASE u # t
      BY <1>6, <2>1, <2>2, <3>2
    <3> QED
      BY <3>1, <3>2
  <2>6. ASSUME NEW n \in Node PROVE Extra(n)' = Given(t, n) + (IF n = h THEN Sign(t) ELSE 0)
    <3>1. Given(t, n)' = Given(t, n)
      BY <1>1, <2>1, <2>2 DEF Given, IsSwitch, Walking, Sign, One
    <3>2. Passed(t, n)' = IF n = h THEN Sign(t) ELSE 0
      <4>1. Passed(t, n)' =
              IF /\ pc'[t] \in {"read", "write"} /\ walk'[t][1] \in DOMAIN Table
                 /\ IF job'[t].on THEN ref'[walk'[t][1]] = 0 ELSE ref'[walk'[t][1]] = 1
                 /\ n = up'[walk'[t][1]]
              THEN Sign(t)' ELSE 0
        BY DEF Passed, Passing, Edge
      <4>2. Sign(t)' = Sign(t) /\ job'[t].on = job[t].on /\ up' = up
        BY <1>1, <2>1 DEF Sign
      <4> QED
        BY <2>2, <2>3, <4>1, <4>2
    <3>3. Turn' = Turn
      BY <2>1, SameTurn
    <3> QED
      BY <1>2, <2>1, <3>1, <3>2, <3>3 DEF Extra
  <2>7. Counted'
    BY <2>6, WriteCounted
  <2> QED
    BY <1>4, <2>4, <2>5, <2>7 DEF IInv
<1>8. CASE Len(walk[t]) = 1
  <2>1. AfterWalk(t) /\ h = Target(t)
    BY <1>2, <1>3, <1>8 DEF WriteCount, Path
  <2>2. CASE IsSwitch(t) /\ job[t].on /\ Walk(t, job[t].old, FALSE) /\ UNCHANGED <<devLock, clkLock>>
    <3> PICK o \in Node : o = job[t].old
      BY <1>2, <2>2
    <3>1. /\ pc' = [pc EXCEPT ![t] = "visit"] /\ walk' = [walk EXCEPT ![t] = <<o>>]
          /\ job' = [job EXCEPT ![t].on = FALSE]
      BY <2>2 DEF Walk, GoTo
    <3>2. /\ job' \in [Thread -> {NoJob} \cup Update \cup Switching]
          /\ job'[t] \in Switching /\ job'[t].call = job[t].call /\ job'[t].clock = c
          /\ job'[t].new = job[t].new /\ job'[t].old = o /\ job'[t].on = FALSE
          /\ \A u \in Thread \ {t} : job'[u] = job[u]
      <4>1. job' = [job EXCEPT ![t] = [job[t] EXCEPT !.on = FALSE]]
        BY <3>1
      <4>2. /\ [job[t] EXCEPT !.on = FALSE] \in Switching
            /\ [job[t] EXCEPT !.on = FALSE].call = job[t].call
            /\ [job[t] EXCEPT !.on = FALSE].clock = c
            /\ [job[t] EXCEPT !.on = FALSE].new = job[t].new
            /\ [job[t] EXCEPT !.on = FALSE].old = o
            /\ [job[t] EXCEPT !.on = FALSE].on = FALSE
        BY <1>2, <2>2 DEF Switching
      <4> QED
        BY <1>0, <4>1, <4>2 DEF Types
    <3>11. Turn' = t
      <4>1. clkLock # Nobody => job'[clkLock].call = job[clkLock].call /\ job'[clkLock].clock = job[clkLock].clock
        BY <1>0, <3>2 DEF Types
      <4> QED
        BY <1>2, <2>2, <4>1, SameTurn
    <3>3. <<o>> \in Seq(Node) /\ <<o>> # <<>> /\ Len(<<o>>) = 1 /\ <<o>>[1] = o
      BY <1>2, <2>2
    <3>4. /\ pc'[t] = "visit" /\ walk'[t] = <<o>>
          /\ \A u \in Thread \ {t} : pc'[u] = pc[u] /\ walk'[u] = walk[u]
          /\ pc' \in [Thread -> Label] /\ walk' \in [Thread -> Seq(Node)]
      BY <1>0, <3>1, <3>3 DEF Types, Label
    <3>5. Types'
      <4>1. job'[t] # NoJob
        <5>1. job'[t].call = job[t].call
          BY <3>2
        <5>2. job[t].call \in {"source", "ioctl"}
          BY <2>2 DEF IsSwitch
        <5> QED
          BY <5>1, <5>2 DEF NoJob
      <4>2. \A u \in Thread : (job[u] = NoJob <=> pc[u] = "idle")'
        BY <1>0, <3>2, <3>4, <4>1 DEF Types
      <4>3. \A u \in Thread : (Walking(u) <=> walk[u] # <<>>)'
        BY <1>0, <3>3, <3>4 DEF Types, Walking
      <4> QED
        BY ZenonT(40), <1>0, <1>1, <2>2, <3>2, <3>4, <4>2, <4>3 DEF Types
    <3>6. IsSwitch(t)' /\ Walking(t)' /\ Target(t)' = o /\ h = job[t].new
      BY <1>2, <2>1, <2>2, <3>2, <3>4 DEF IsSwitch, Walking, Target
    <3>7. ASSUME NEW n \in Node PROVE Extra(n)' = Given(t, n) + (IF n = h THEN Sign(t) ELSE 0)
      <4>1. Given(t, n)' = One(n = h) /\ Passed(t, n)' = 0
        BY <3>2, <3>4, <3>6 DEF Given, Passed, One
      <4>2. Given(t, n) = 0 /\ Sign(t) = 1
        BY <1>1, <2>2 DEF Given, One, Sign
      <4> QED
        BY <1>2, <3>11, <4>1, <4>2 DEF Extra, One
    <3>8. Counted'
      BY <3>7, WriteCounted
    <3>9. ref'[o] > 0
      <4>1. /\ ref'[o] = HoldOf(o)' + Cardinality(Users(o))' + Extra(o)'
            /\ HoldOf(o)' \in Nat
        BY <3>5, <3>8, Tree DEF Counted, HoldOf, Types
      <4>2. Extra(o)' >= 0
        BY <1>2, <3>2, <3>4, <3>6, <3>11 DEF Extra, Given, Passed, One
      <4>3. c \in Users(o)'
        BY <1>1, <1>2, <1>5, <2>2 DEF Users
      <4>4. Cardinality(Users(o))' \in Nat /\ Cardinality(Users(o))' # 0
        <5>1. IsFiniteSet(DOMAIN Table) /\ Users(o)' \subseteq DOMAIN Table
          BY Tree, FS_Subset DEF Users
        <5> QED
          BY <4>3, <5>1, FS_Subset, FS_CardinalityType, FS_EmptySet
      <4>5. Extra(o)' \in Int
        BY <1>2, <3>2, <3>4, <3>6, <3>11 DEF Extra, Given, Passed, One
      <4> QED
        BY <4>1, <4>2, <4>4, <4>5
    <3>10. ASSUME NEW u \in Thread PROVE LockOK(u)' /\ MoveOK(u)' /\ ChainOK(u)'
      <4>1. CASE u = t
        <5>1. LockOK(t)'
          BY <1>0, <1>1, <2>2, <3>2, <3>4, <3>6 DEF LockOK, IsSwitch, Walking, Intrudes
        <5>2. MoveOK(t)'
          BY <1>0, <1>1, <1>2, <1>5, <2>2, <3>2, <3>4, <3>6 DEF MoveOK
        <5>3. ChainOK(t)'
          <6>1. Level[o] < Level[c]
            BY <1>0, <1>2, <2>2, LevelUp
          <6>2. o \notin Own
            BY <1>4, <3>9 DEF Spare
          <6> QED
            BY <3>2, <3>3, <3>4, <3>6, <3>9, <6>1, <6>2 DEF ChainOK, Path
        <5> QED
          BY <4>1, <5>1, <5>2, <5>3
      <4>2. CASE u # t
        BY <1>6, <2>2, <3>2, <3>4, <4>2
      <4> QED
        BY <4>1, <4>2
    <3> QED
      BY <1>4, <3>5, <3>8, <3>10 DEF IInv
  <2>3. CASE /\ IsSwitch(t) /\ ~job[t].on /\ GoTo(t, "switch")
             /\ walk' = [walk EXCEPT ![t] = <<>>] /\ UNCHANGED <<job, devLock, clkLock>>
    <3>1. /\ pc'[t] = "switch" /\ walk'[t] = <<>>
          /\ \A u \in Thread \ {t} : pc'[u] = pc[u] /\ walk'[u] = walk[u]
          /\ pc' \in [Thread -> Label] /\ walk' \in [Thread -> Seq(Node)]
      BY <1>0, <2>3 DEF Types, Label, GoTo
    <3>2. Types'
      <4>1. \A u \in Thread : (job[u] = NoJob <=> pc[u] = "idle")'
        BY SMTT(20), <1>0, <1>1, <2>3, <3>1 DEF Types
      <4>2. \A u \in Thread : (Walking(u) <=> walk[u] # <<>>)'
        BY <1>0, <3>1 DEF Types, Walking
      <4> QED
        BY <1>0, <1>1, <2>3, <3>1, <4>1, <4>2 DEF Types
    <3>3. IsSwitch(t)' = IsSwitch(t) /\ ~Walking(t)' /\ h = job[t].old
      BY <2>1, <2>3, <3>1 DEF IsSwitch, Walking, Target
    <3>4. ASSUME NEW u \in Thread PROVE LockOK(u)' /\ MoveOK(u)' /\ ChainOK(u)'
      <4>1. CASE u = t
        <5>1. LockOK(t)'
          BY <1>0, <1>1, <1>2, <2>3, <3>1, <3>3 DEF LockOK, IsSwitch, Walking, Intrudes
        <5>2. MoveOK(t)'
          BY <1>0, <1>1, <2>3, <3>1, <3>3 DEF MoveOK
        <5>3. ChainOK(t)'
          BY <3>3 DEF ChainOK
        <5> QED
          BY <4>1, <5>1, <5>2, <5>3
      <4>2. CASE u # t
        BY <1>6, <2>3, <3>1, <4>2
      <4> QED
        BY <4>1, <4>2
    <3>5. ASSUME NEW n \in Node PROVE Extra(n)' = Given(t, n) + (IF n = h THEN Sign(t) ELSE 0)
      <4>1. Given(t, n)' = One(n = job[t].new) - One(n = h) /\ Passed(t, n)' = 0
        BY <1>5, <2>3, <3>1, <3>3 DEF Given, Passed, One
      <4>2. Given(t, n) = One(n = job[t].new) /\ Sign(t) = -1
        BY <1>1, <2>3 DEF Given, One, Sign
      <4>3. Turn' = t
        BY <1>2, <2>3, SameTurn
      <4> QED
        BY <1>2, <4>1, <4>2, <4>3 DEF Extra, One
    <3>6. Counted'
      BY <3>5, WriteCounted
    <3> QED
      BY <1>4, <3>2, <3>4, <3>6 DEF IInv
  <2>4. CASE ~IsSwitch(t) /\ walk' = [walk EXCEPT ![t] = <<>>] /\ Return(t)
    <3>1. /\ pc' \in [Thread -> Label] /\ pc'[t] = "idle" /\ job'[t] = NoJob
          /\ job' \in [Thread -> {NoJob} \cup Update \cup Switching]
          /\ \A u \in Thread : job'[u] = NoJob <=> pc'[u] = "idle"
          /\ \A u \in Thread \ {t} : pc'[u] = pc[u] /\ job'[u] = job[u]
          /\ clkLock' \in Thread \cup {Nobody}
          /\ devLock' = Nobody /\ clkLock' # t
          /\ \A u \in Thread \ {t} : devLock' = u <=> devLock = u
          /\ \A u \in Thread \ {t} : clkLock' = u <=> clkLock = u
      BY <1>0, <1>2, <2>4, ReturnTypes
    <3>2. /\ walk'[t] = <<>> /\ walk' \in [Thread -> Seq(Node)]
          /\ \A u \in Thread \ {t} : walk'[u] = walk[u]
      BY <1>0, <2>4 DEF Types
    <3>3. Types'
      <4>1. \A u \in Thread : (Walking(u) <=> walk[u] # <<>>)'
        BY <1>0, <3>1, <3>2 DEF Types, Walking
      <4> QED
        BY <1>0, <1>1, <3>1, <3>2, <4>1 DEF Types
    <3>4. ASSUME NEW u \in Thread PROVE LockOK(u)' /\ MoveOK(u)' /\ ChainOK(u)'
      <4>1. CASE u = t
        BY <1>2, <3>1, <4>1 DEF LockOK, MoveOK, ChainOK, IsSwitch, Walking, NoJob, Intrudes
      <4>2. CASE u # t
        BY <1>6, <3>1, <3>2, <4>2
      <4> QED
        BY <4>1, <4>2
    <3>5. ASSUME NEW n \in Node PROVE Extra(n)' = Given(t, n) + (IF n = h THEN Sign(t) ELSE 0)
      <4>1. Given(t, n) = IF n = h THEN 0 - Sign(t) ELSE 0
        BY <1>1, <2>1, <2>4 DEF Given, Target
      <4>2. Turn' = Nobody
        <5>1. ~(clkLock # Nobody /\ Intrudes(clkLock)) /\ clkLock # t
          <6>1. LockOK(t) /\ ~IsSwitch(t)
            BY <1>0, <2>4
          <6>2. clkLock # t
            BY <6>1 DEF LockOK
          <6>3. clkLock # Nobody /\ Intrudes(clkLock) => Turn = clkLock
            BY DEF Turn
          <6> QED
            BY <1>2, <6>2, <6>3
        <5>2. clkLock' = clkLock
          BY <2>4, <5>1 DEF Return
        <5>3. clkLock # Nobody => job'[clkLock] = job[clkLock]
          BY <1>0, <3>1, <5>1 DEF Types
        <5>4. \A x : x = clkLock /\ x # Nobody => Intrudes(x)' = Intrudes(x)
          BY <5>3 DEF Intrudes
        <5> QED
          BY <3>1, <5>1, <5>2, <5>4 DEF Turn
      <4> QED
        BY <1>1, <4>1, <4>2 DEF Extra
    <3>6. Counted'
      BY <3>5, WriteCounted
    <3> QED
      BY <1>4, <3>3, <3>4, <3>6 DEF IInv
  <2> QED
    BY <2>1, <2>2, <2>3, <2>4 DEF AfterWalk
<1>9. Len(walk[t]) > 1 \/ Len(walk[t]) = 1
  <2>1. \A k \in Nat : k >= 1 => k > 1 \/ k = 1
    OBVIOUS
  <2> QED
    BY <1>3, <2>1, Zenon
<1> QED
  BY <1>7, <1>8, <1>9

-----------------------------------------------------------------------------
(* The end of a move                                                       *)

LEMMA SwitchInv ==
    ASSUME IInv, InTurn', NEW t \in Thread, Switch(t)
    PROVE  IInv'
<1>0. Types /\ Spare /\ Counted /\ InTurn /\ \A u \in Thread : LockOK(u) /\ MoveOK(u) /\ ChainOK(u)
  BY DEF IInv
<1>1. /\ pc[t] = "switch" /\ ~Walking(t) /\ Return(t)
      /\ up' = [up EXCEPT ![job[t].clock] = job[t].new]
      /\ HwUpdateParentClock(job[t].clock, job[t].new)
      /\ UNCHANGED <<walk, tmp, ref, hold>>
  BY DEF Switch, Walking
<1>2. IsSwitch(t) /\ job[t] \in Switching /\ clkLock = t
  BY <1>0, <1>1, JobTypes DEF LockOK, Walking
<1>3. /\ job[t].clock \in Clock /\ job[t].new \in ParentsOf(job[t].clock) /\ job[t].new \in Clock
      /\ job[t].old = up[job[t].clock] /\ job[t].clock \in Moved[job[t].call]
      /\ job[t].call \in {"source", "ioctl"}
  BY <1>0, <1>1, <1>2 DEF MoveOK, Switching
<1> PICK c \in Clock : c = job[t].clock
  BY <1>3
<1> PICK p \in Clock : p = job[t].new
  BY <1>3
<1>4. /\ c \in DOMAIN Table /\ c \in Node /\ p \in Node /\ p \in Clock /\ p \in ParentsOf(c)
      /\ up[c] \in Node
  BY <1>0, <1>3, NodeTypes DEF Types
<1>5. /\ up' \in [DOMAIN Table -> Node] /\ up'[c] = p
      /\ \A n \in DOMAIN Table \ {c} : up'[n] = up[n]
  BY <1>0, <1>1, <1>4 DEF Types
<1>6. /\ pc' \in [Thread -> Label] /\ pc'[t] = "idle" /\ job'[t] = NoJob
      /\ job' \in [Thread -> {NoJob} \cup Update \cup Switching]
      /\ \A u \in Thread : job'[u] = NoJob <=> pc'[u] = "idle"
      /\ \A u \in Thread \ {t} : pc'[u] = pc[u] /\ job'[u] = job[u]
      /\ devLock' \in Thread \cup {Nobody} /\ clkLock' \in Thread \cup {Nobody}
      /\ devLock' # t /\ clkLock' # t
      /\ \A u \in Thread \ {t} : devLock' = u <=> devLock = u
      /\ \A u \in Thread \ {t} : clkLock' = u <=> clkLock = u
      /\ devLock = t => devLock' = Nobody
      /\ devLock # t => devLock' = devLock
  BY <1>0, <1>1, ReturnTypes
<1>7. Types'
  <2>1. \A n \in DOMAIN Table : up'[n] \in ParentsOf(n)
    BY <1>0, <1>4, <1>5 DEF Types
  <2>2. select' = [d \in DOMAIN Parents |-> up'[d]]
    <3>0. select = [d \in DOMAIN Parents |-> up[d]]
      BY <1>0 DEF Types
    <3>1. select' = [d \in DOMAIN Parents |-> IF d = c THEN p ELSE up[d]]
      BY <1>1, <3>0 DEF HwUpdateParentClock
    <3>2. \A d \in DOMAIN Parents : (IF d = c THEN p ELSE up[d]) = up'[d]
      BY <1>5, NodeTypes
    <3> QED
      BY <3>1, <3>2
  <2>3. \A u \in Thread : (Walking(u) <=> walk[u] # <<>>)'
    BY <1>0, <1>1, <1>6 DEF Types, Walking
  <2> QED
    BY <1>0, <1>1, <1>5, <1>6, <2>1, <2>2, <2>3 DEF Types
<1>8. job[t].call = "ioctl" /\ ~Intrudes(t) => c \in Own /\ ref[c] = 0
  BY <1>0 DEF Spare, Intrudes
<1>9. job[t].call = "source" <=> devLock = t
  BY <1>0, <1>3 DEF LockOK
\* A thread that walks meanwhile keeps clear of the clock of the IOCTL.
<1>10. ASSUME NEW u \in Thread \ {t}, Walking(u)
       PROVE  /\ job[t].call = "ioctl" /\ ~IsSwitch(u) /\ Turn = u
              /\ \A i \in 1..Len(walk[u]) : walk[u][i] # c /\ walk[u][i] \in Node
  <2>1. /\ Turn = u /\ (IsSwitch(u) => clkLock = u) /\ Path(u, walk[u])
        /\ ~IsSwitch(u) => devLock = u
        /\ \A i \in 1..Len(walk[u]) : walk[u][i] \in Node
    BY <1>10, Walker
  <2>2. job[t].call = "ioctl" /\ ~IsSwitch(u)
    BY <1>2, <1>3, <1>9, <2>1
  <2>3. ~Intrudes(t)
    BY <1>0, <1>1, <1>10 DEF InTurn, Busy
  <2> QED
    BY <1>8, <2>1, <2>2, <2>3 DEF Path
<1>11. ASSUME NEW u \in Thread PROVE LockOK(u)' /\ MoveOK(u)' /\ ChainOK(u)'
  <2>1. CASE u = t
    BY <1>6, <2>1 DEF LockOK, MoveOK, ChainOK, IsSwitch, Walking, NoJob, Intrudes
  <2>2. CASE u # t
    <3>1. /\ pc'[u] = pc[u] /\ job'[u] = job[u] /\ walk'[u] = walk[u] /\ tmp'[u] = tmp[u]
          /\ (devLock' = u <=> devLock = u) /\ (clkLock' = u <=> clkLock = u)
      BY <1>1, <1>6, <2>2
    <3>2. IsSwitch(u)' = IsSwitch(u) /\ Walking(u)' = Walking(u) /\ Target(u)' = Target(u)
      BY <3>1 DEF IsSwitch, Walking, Target
    <3>3. LockOK(u)'
      BY <1>0, <3>1, <3>2 DEF LockOK, Intrudes
    <3>4. MoveOK(u)'
      <4>1. IsSwitch(u) => pc[u] \notin {"visit", "read", "write", "switch"}
        BY <1>0, <1>2, <2>2 DEF LockOK
      <4>2. ~(IsSwitch(u) /\ Walking(u))
        BY <4>1 DEF Walking
      <4> QED
        BY <1>0, <3>1, <3>2, <4>1, <4>2 DEF MoveOK
    <3>5. CASE Walking(u)
      <4>1. /\ ~IsSwitch(u)
            /\ \A i \in 1..Len(walk[u]) : walk[u][i] # c /\ walk[u][i] \in Node
        BY <1>10, <2>2, <3>5
      <4>2. Len(walk[u]) \in Nat
        BY <1>0, <3>5, WalkTypes
      <4>3. Path(u, walk[u]) /\ (pc[u] = "write" => tmp[u] = ref[walk[u][1]])
        BY <1>0, <3>5 DEF ChainOK
      <4>4. ASSUME NEW w, w = walk[u] PROVE Path(u, w)'
        <5>1. /\ w[Len(w)] = Target(u)
              /\ \A i, k \in 1..Len(w) : i < k => Level[w[i]] < Level[w[k]]
              /\ \A i \in 1..Len(w) : w[i] \notin Own
              /\ ~job[u].on => ref[w[1]] > 0
          BY <4>3, <4>4 DEF Path
        <5>2. ASSUME NEW i \in 1..Len(w) - 1
              PROVE  w[i + 1] \in DOMAIN Table /\ up'[w[i + 1]] = w[i] /\ Edge(w[i + 1], job[u].on)'
          <6>1. w[i + 1] \in DOMAIN Table /\ up[w[i + 1]] = w[i] /\ Edge(w[i + 1], job[u].on)
            BY <4>3, <4>4 DEF Path
          <6>2. i + 1 \in 1..Len(w)
            BY <4>2, <4>4
          <6>3. w[i + 1] # c
            BY <4>1, <4>4, <6>2
          <6> QED
            BY <1>1, <1>5, <3>1, <6>1, <6>3 DEF Edge
        <5> QED
          BY <1>1, <3>1, <3>2, <4>1, <5>1, <5>2 DEF Path
      <4>5. \A w : w = walk'[u] => Path(u, w)'
        BY <3>1, <4>4
      <4>6. Path(u, walk[u])'
        BY <4>5
      <4>7. (pc[u] = "write" => tmp[u] = ref[walk[u][1]])'
        BY <1>1, <3>1, <4>3
      <4>8. ChainOK(u)'
        BY <4>6, <4>7 DEF ChainOK
      <4> QED
        BY <3>3, <3>4, <4>8
    <3>6. CASE ~Walking(u)
      <4>1. ~Walking(u)'
        BY <3>2, <3>6
      <4>2. ChainOK(u)'
        BY <4>1 DEF ChainOK
      <4> QED
        BY <3>3, <3>4, <4>2
    <3> QED
      BY <3>5, <3>6
  <2> QED
    BY <2>1, <2>2
\* The turn passes to nobody, or to a device call that waits.
<1>13. ASSUME Turn = t, NEW n PROVE Extra(n)' = 0
  <2>1. clkLock' = Nobody /\ Turn' = devLock'
    BY <1>1, <1>2 DEF Return, Turn
  <2>2. CASE devLock = t
    BY <1>6, <2>1, <2>2 DEF Extra
  <2>3. CASE devLock # t
    <3>1. devLock' = devLock /\ Intrudes(t)
      BY <1>0, <1>6, <1>13, <2>3, TurnFacts
    <3>2. ASSUME devLock # Nobody PROVE Given(devLock, n)' = 0 /\ Passed(devLock, n)' = 0
      <4> PICK d \in Thread \ {t} : d = devLock
        BY <1>0, <2>3, <3>2 DEF Types
      <4>1. ~Busy(d)
        BY <1>0, <1>1, <3>1 DEF InTurn, Busy
      <4>2. pc'[d] \notin {"visit", "read", "write", "switch"}
        BY <1>6, <4>1 DEF Busy, Walking
      <4>3. Given(d, n)' = 0 /\ Passed(d, n)' = 0
        BY <4>2 DEF Given, Passed, Walking
      <4>4. \A x : x = d => Given(x, n)' = 0 /\ Passed(x, n)' = 0
        BY <4>3
      <4> QED
        BY <3>1, <4>4
    <3> QED
      BY <2>1, <3>1, <3>2 DEF Extra
  <2> QED
    BY <2>2, <2>3
\* The IOCTL moves a clock that has no part in what a device call counts.
<1>14. ASSUME Turn # t
       PROVE  /\ Turn' = Turn /\ Turn \in Thread \cup {Nobody}
              /\ job[t].call = "ioctl" /\ ~Intrudes(t)
  <2>1. job[t].call = "ioctl" /\ ~Intrudes(t) /\ Turn \in Thread \cup {Nobody}
    BY <1>0, <1>1, <1>2, <1>3, <1>14, TurnFacts DEF Busy
  <2>2. Turn = devLock /\ devLock # t
    BY <1>2, <1>9, <2>1 DEF Turn
  <2>3. clkLock' = Nobody /\ devLock' = devLock
    BY <1>1, <1>2, <1>6, <2>2 DEF Return
  <2> QED
    BY <2>1, <2>2, <2>3 DEF Turn
<1>12. ASSUME NEW n \in Node PROVE ref'[n] = HoldOf(n)' + Cardinality(Users(n))' + Extra(n)'
  <2>1. /\ ref[n] = HoldOf(n) + Cardinality(Users(n)) + Extra(n)
        /\ HoldOf(n)' = HoldOf(n) /\ HoldOf(n) \in Int
    BY SMTT(20), <1>0, <1>1, Tree DEF Counted, HoldOf, Types
  <2>2. IsFiniteSet(Users(n)) /\ Cardinality(Users(n)) \in Nat
    BY UsersFinite
  <2>3. \A m \in DOMAIN Table \ {c} : m \in Users(n)' <=> m \in Users(n)
    BY <1>1, <1>5 DEF Users
  <2>4. /\ c \in Users(n) <=> up[c] = n /\ ref[c] > 0
        /\ c \in Users(n)' <=> p = n /\ ref[c] > 0
        /\ Users(n) \subseteq DOMAIN Table /\ Users(n)' \subseteq DOMAIN Table
    BY <1>1, <1>4, <1>5 DEF Users
  <2>5. CASE ~(ref[c] > 0)
    <3>1. Users(n)' = Users(n)
      BY <2>3, <2>4, <2>5
    <3>2. Extra(n)' = Extra(n)
      <4>1. CASE Turn = t
        <5>1. Given(t, n) = 0 /\ Passed(t, n) = 0
          BY <1>1, <1>2, <2>5 DEF Given, Passed
        <5> QED
          BY <1>13, <4>1, <5>1, Tree DEF Extra
      <4>2. CASE Turn # t
        <5>1. Turn # Nobody =>
                /\ pc'[Turn] = pc[Turn] /\ job'[Turn] = job[Turn]
                /\ walk'[Turn] = walk[Turn]
          BY <1>1, <1>6, <1>14, <4>2
        <5>2. ASSUME Turn # Nobody, Walking(Turn)
              PROVE  up'[walk[Turn][1]] = up[walk[Turn][1]]
          <6>1. Turn \in Thread \ {t}
            BY <1>14, <4>2, <5>2
          <6>2. 1 \in 1..Len(walk[Turn])
            BY <1>0, <5>2, <6>1, WalkTypes
          <6>3. walk[Turn][1] # c
            BY <1>10, <5>2, <6>1, <6>2
          <6> QED
            BY <1>0, <1>1, <6>3 DEF Types
        <5> QED
          BY <1>1, <1>14, <4>2, <5>1, <5>2, SameExtra
      <4> QED
        BY <4>1, <4>2
    <3> QED
      BY <1>1, <2>1, <3>1, <3>2
  <2>6. CASE ref[c] > 0
    <3>1. Turn = t /\ t # Nobody
      BY <1>8, <1>14, <2>6, Tree
    <3>2. Extra(n) = One(n = p) - One(n = up[c]) /\ Extra(n)' = 0
      <4>1. Given(t, n) = One(n = p) - One(n = up[c])
        BY <1>1, <1>2, <1>3, <2>6 DEF Given, Walking
      <4>2. Passed(t, n) = 0
        BY <1>1 DEF Passed
      <4> QED
        BY <1>13, <3>1, <4>1, <4>2 DEF Extra, One
    <3>3. CASE p = n /\ up[c] = n
      <4>1. Users(n)' = Users(n)
        BY <2>3, <2>4, <2>6, <3>3
      <4> QED
        BY <1>1, <2>1, <2>2, <3>2, <3>3, <4>1 DEF One
    <3>4. CASE p = n /\ up[c] # n
      <4>1. Users(n)' = Users(n) \cup {c} /\ c \notin Users(n)
        BY <1>4, <2>3, <2>4, <2>6, <3>4
      <4>2. Cardinality(Users(n)') = Cardinality(Users(n)) + 1
        BY <2>2, <4>1, FS_AddElement
      <4>3. Extra(n) = 1 /\ Extra(n)' = 0
        BY <3>2, <3>4 DEF One
      <4> QED
        BY <1>1, <2>1, <2>2, <4>2, <4>3
    <3>5. CASE p # n /\ up[c] = n
      <4>1. Users(n)' = Users(n) \ {c} /\ c \in Users(n)
        BY <1>4, <2>3, <2>4, <2>6, <3>5
      <4>4. Cardinality(Users(n) \ {c}) = Cardinality(Users(n)) - 1
        BY <2>2, <4>1, FS_RemoveElement, Zenon
      <4>2. Cardinality(Users(n)') = Cardinality(Users(n)) - 1
        BY <4>1, <4>4
      <4>3. Extra(n) = -1 /\ Extra(n)' = 0
        BY <3>2, <3>5 DEF One
      <4> QED
        BY <1>1, <2>1, <2>2, <4>2, <4>3
    <3>6. CASE p # n /\ up[c] # n
      <4>1. Users(n)' = Users(n)
        BY <2>3, <2>4, <3>6
      <4> QED
        BY <1>1, <2>1, <2>2, <3>2, <3>6, <4>1 DEF One
    <3> QED
      BY <3>3, <3>4, <3>5, <3>6
  <2> QED
    BY <2>5, <2>6
<1> QED
  BY <1>0, <1>1, <1>7, <1>11, <1>12 DEF IInv, Counted, Spare

-----------------------------------------------------------------------------
(* The theorems about the counts                                           *)

LEMMA NextInv ==
    ASSUME IInv, InTurn', [Next]_vars
    PROVE  IInv'
<1>1. ASSUME NEW t \in Thread, Call(t) PROVE IInv'
  BY <1>1, UpdateSourceInv, SetSourceClocksInv, IoctlSetSourceClockInv DEF Call
<1>2. ASSUME NEW t \in Thread, Step(t) PROVE IInv'
  BY <1>2, LockClockInv, VisitInv, ReadCountInv, WriteCountInv, SwitchInv DEF Step
<1>3. ASSUME UNCHANGED vars PROVE IInv'
  <2>1. UNCHANGED <<pc, job, walk, tmp, devLock, clkLock, up, ref, hold, select>>
    BY <1>3 DEF vars
  <2>2. Types'
    BY <2>1 DEF IInv, Types, Walking
  <2>3. ASSUME NEW u \in Thread PROVE LockOK(u)' /\ MoveOK(u)' /\ ChainOK(u)'
    BY <2>1, Others DEF IInv
  <2>4. ASSUME NEW n \in Node PROVE Extra(n)' = Extra(n) /\ Users(n)' = Users(n) /\ HoldOf(n)' = HoldOf(n)
    BY <2>1, SameTurn, SameExtra, SameUsers DEF HoldOf
  <2> QED
    BY <2>1, <2>2, <2>3, <2>4 DEF IInv, Spare, Counted
<1> QED
  BY <1>1, <1>2, <1>3 DEF Next

LEMMA Invariance == Spec /\ []InTurn => []IInv
<1>1. Init => IInv
  BY InitInv
<1>2. IInv /\ InTurn' /\ [Next]_vars => IInv'
  BY NextInv
<1> QED
  BY <1>1, <1>2, PTL DEF Spec

-----------------------------------------------------------------------------
(* The nodes above a node                                                  *)

\* A parent for every node that has one.
IsParents(p) == p \in [DOMAIN Table -> Node] /\ \A n \in DOMAIN Table : p[n] \in ParentsOf(n)

IsAbove(f, p) ==
    f = [m \in Node |-> IF m \in DOMAIN Table THEN {p[m]} \cup f[p[m]] ELSE {}]

\* Every node with all that is reached from it: closed sets of nodes, the least one.
Closed(S, p) == S \subseteq Node /\ \A m \in S \cap DOMAIN Table : p[m] \in S
Reached(n, p) == {x \in Node : \A S \in SUBSET Node :
                               Closed(S, p) /\ (n \in DOMAIN Table => p[n] \in S) => x \in S}

\* There is a function that gives the nodes above each node.
LEMMA AboveExists ==
    ASSUME NEW p, IsParents(p)
    PROVE  \E f : IsAbove(f, p)
<1> DEFINE r(n) == IF n \in DOMAIN Table THEN Reached(n, p) ELSE {}
           f == [n \in Node |-> r(n)]
<1>1. ASSUME NEW n \in Node PROVE f[n] = IF n \in DOMAIN Table THEN {p[n]} \cup f[p[n]] ELSE {}
  <2>1. CASE n \notin DOMAIN Table
    BY <2>1
  <2>2. CASE n \in DOMAIN Table
    <3>1. p[n] \in Node
      BY <2>2 DEF IsParents
    <3>2. f[n] = Reached(n, p) /\ f[p[n]] = r(p[n])
      BY <2>2, <3>1
    <3>3. ASSUME NEW x \in {p[n]} \cup r(p[n]) PROVE x \in Reached(n, p)
      <4>1. ASSUME NEW S \in SUBSET Node, Closed(S, p), p[n] \in S PROVE x \in S
        <5>1. CASE x = p[n]
          BY <4>1, <5>1
        <5>2. CASE x \in r(p[n])
          <6>1. p[n] \in DOMAIN Table /\ x \in Reached(p[n], p)
            BY <5>2
          <6>2. p[p[n]] \in S
            BY <4>1, <6>1 DEF Closed
          <6> QED
            BY <4>1, <6>1, <6>2 DEF Reached
        <5> QED
          BY <5>1, <5>2
      <4>2. x \in Node
        BY <3>1 DEF Reached
      <4> QED
        BY <2>2, <4>1, <4>2 DEF Reached
    <3>4. ASSUME NEW x \in Reached(n, p) PROVE x \in {p[n]} \cup r(p[n])
      <4> DEFINE S == {p[n]} \cup r(p[n])
      <4>1. S \in SUBSET Node
        BY <3>1 DEF Reached
      <4>2. ASSUME NEW m \in S, m \in DOMAIN Table PROVE p[m] \in S
        <5>1. p[m] \in Node
          BY <4>2 DEF IsParents
        <5>2. CASE m = p[n]
          <6>1. p[m] \in Reached(m, p)
            BY <4>2, <5>1 DEF Reached
          <6> QED
            BY <4>2, <5>2, <6>1
        <5>3. CASE m \in r(p[n])
          <6>1. p[n] \in DOMAIN Table /\ m \in Reached(p[n], p)
            BY <5>3
          <6>2. p[m] \in Reached(p[n], p)
            BY <4>2, <5>1, <6>1 DEF Reached, Closed
          <6> QED
            BY <6>1, <6>2
        <5> QED
          BY <5>2, <5>3
      <4>3. Closed(S, p) /\ p[n] \in S
        BY <4>1, <4>2 DEF Closed
      <4> HIDE DEF S
      <4>4. x \in S
        BY <4>1, <4>3 DEF Reached
      <4> QED
        BY <4>4 DEF S
    <3> QED
      BY <2>2, <3>2, <3>3, <3>4
  <2> QED
    BY <2>1, <2>2
<1>2. f = [n \in Node |-> f[n]]
  OBVIOUS
<1> HIDE DEF f
<1>3. IsAbove(f, p)
  BY <1>1, <1>2 DEF IsAbove
<1> QED
  BY <1>3

LEMMA UpIs == Types => IsParents(up)
BY DEF Types, IsParents

LEMMA AboveIs ==
    ASSUME Types
    PROVE  \E f : IsAbove(f, up) /\ \A n : Above(n) = f[n]
<1> DEFINE f == CHOOSE g : IsAbove(g, up)
<1>1. IsAbove(f, up)
  BY AboveExists, UpIs
<1>2. \A n : Above(n) = f[n]
  BY DEF Above, IsAbove
<1> QED
  BY <1>1, <1>2

\* What feeds a node is above it, along what the multiplexers select and the wires: these
\* are its parents, but for clocks without a multiplexer that calls have moved.
Source(m) == IF m \in DOMAIN select THEN select[m] ELSE Table[m]
Sources == [m \in DOMAIN Table |-> Source(m)]

LEMMA SourcesAre ==
    ASSUME Types
    PROVE  /\ IsParents(Sources)
           /\ \A m \in DOMAIN Table : Sources[m] = Source(m)
           /\ \A m \in DOMAIN Table :
                m \in DOMAIN Parents \/ (\A k \in {"source", "ioctl"} : m \notin Moved[k])
                  => Sources[m] = up[m]
<1>1. DOMAIN select = DOMAIN Parents /\ \A m \in DOMAIN Parents : select[m] = up[m]
  BY DEF Types
<1>2. ASSUME NEW m \in DOMAIN Table PROVE Source(m) \in ParentsOf(m) /\ Source(m) \in Node
  <2>1. CASE m \in DOMAIN Parents
    BY <1>1, <2>1, NodeTypes DEF Types, Source
  <2>2. CASE m \notin DOMAIN Parents
    <3>1. Source(m) = Table[m]
      BY <1>1, <2>2 DEF Source
    <3> QED
      BY <2>2, <3>1, Tree DEF ParentsOf
  <2> QED
    BY <2>1, <2>2
<1>3. \A m \in DOMAIN Table : Sources[m] = Source(m)
  BY DEF Sources
<1>4. ASSUME NEW m \in DOMAIN Table,
             m \in DOMAIN Parents \/ (\A k \in {"source", "ioctl"} : m \notin Moved[k])
      PROVE  Source(m) = up[m]
  <2>1. CASE m \in DOMAIN Parents
    BY <1>1, <2>1 DEF Source
  <2>2. CASE m \notin DOMAIN Parents
    <3>1. ParentsOf(m) = {Table[m]}
      BY <1>4, <2>2 DEF ParentsOf
    <3> QED
      BY <1>1, <2>2, <3>1 DEF Types, Source
  <2> QED
    BY <2>1, <2>2
<1>5. IsParents(Sources)
  BY <1>2, <1>3 DEF IsParents, Sources
<1> QED
  BY <1>3, <1>4, <1>5

LEMMA FeedingIs ==
    ASSUME Types
    PROVE  \E f : IsAbove(f, Sources) /\ \A n : Feeding(n) = f[n]
<1> DEFINE Fed(g) == g = [m \in Node |->
                            IF m \in DOMAIN Table THEN {Source(m)} \cup g[Source(m)] ELSE {}]
           f == CHOOSE g : Fed(g)
<1>1. \A m \in DOMAIN Table : Sources[m] = Source(m)
  BY SourcesAre
<1>2. ASSUME NEW g PROVE Fed(g) <=> IsAbove(g, Sources)
  <2>1. \A m \in Node :
          (IF m \in DOMAIN Table THEN {Source(m)} \cup g[Source(m)] ELSE {})
            = (IF m \in DOMAIN Table THEN {Sources[m]} \cup g[Sources[m]] ELSE {})
    BY <1>1
  <2>2. [m \in Node |-> IF m \in DOMAIN Table THEN {Source(m)} \cup g[Source(m)] ELSE {}]
          = [m \in Node |-> IF m \in DOMAIN Table THEN {Sources[m]} \cup g[Sources[m]] ELSE {}]
    BY <2>1
  <2> QED
    BY <2>2 DEF IsAbove
<1>3. \E g : Fed(g)
  BY <1>2, AboveExists, SourcesAre
<1>4. Fed(f)
  BY <1>3
<1>5. \A n : Feeding(n) = f[n]
  BY DEF Feeding, Source
<1> HIDE DEF Fed, f
<1> QED
  BY <1>2, <1>4, <1>5

\* Induction up the tree, from the bottom: a set that holds the parents of its nodes holds
\* all that is above them.
LEMMA AboveClosed ==
    ASSUME NEW p, IsParents(p), NEW f, IsAbove(f, p), NEW S, Closed(S, p), NEW n \in S
    PROVE  f[n] \subseteq S
<1>1. ASSUME NEW m \in Node
      PROVE  f[m] = IF m \in DOMAIN Table THEN {p[m]} \cup f[p[m]] ELSE {}
  BY DEF IsAbove
<1> DEFINE Bad == {k \in Nat : \E m \in S : Level[m] = k /\ ~(f[m] \subseteq S)}
<1>2. Bad = {}
  <2> SUFFICES ASSUME Bad # {} PROVE FALSE
    OBVIOUS
  <2>1. PICK k \in Bad : \A i \in Bad : ~(<<i, k>> \in OpToRel(<, Nat))
    BY NatLessThanWellFounded, WFMin, Zenon
  <2>2. PICK m \in S : Level[m] = k /\ ~(f[m] \subseteq S)
    OBVIOUS
  <2>3. m \in Node
    BY DEF Closed
  <2>4. m \in DOMAIN Table /\ f[m] = {p[m]} \cup f[p[m]]
    BY <1>1, <2>2, <2>3
  <2>5. p[m] \in S /\ p[m] \in Node /\ Level[p[m]] \in Nat /\ Level[p[m]] < k
    BY <2>2, <2>4, NodeTypes DEF Closed, IsParents
  <2>6. ~(f[p[m]] \subseteq S)
    BY <2>2, <2>4, <2>5
  <2>7. Level[p[m]] \in Bad
    BY <2>5, <2>6
  <2>8. <<Level[p[m]], k>> \in OpToRel(<, Nat)
    BY <2>5 DEF OpToRel
  <2> QED
    BY <2>1, <2>7, <2>8, Zenon
<1>3. n \in Node /\ Level[n] \in Nat
  BY NodeTypes DEF Closed
<1>4. f[n] \subseteq S
  BY <1>2, <1>3
<1> QED
  BY <1>4

-----------------------------------------------------------------------------
(* Supply                                                                  *)

\* A device call that adds a reference is already among those of its clock.
HoldOK ==
    \A t \in Thread : job[t].call = "update" /\ job[t].on => hold[job[t].clock] > 0

LEMMA HoldStep ==
    ASSUME IInv, HoldOK, [Next]_vars
    PROVE  HoldOK'
<1>0. Types /\ \A u \in Thread : LockOK(u)
  BY DEF IInv
<1>1. ASSUME UNCHANGED hold, NEW t \in Thread, ~(job'[t].call = "update" /\ job'[t] # job[t]),
             \A u \in Thread \ {t} : job'[u] = job[u]
      PROVE  HoldOK'
  BY <1>1 DEF HoldOK
<1>2. ASSUME UNCHANGED <<job, hold>> PROVE HoldOK'
  BY <1>2 DEF HoldOK
<1>3. ASSUME NEW t \in Thread, UpdateSource(t) PROVE HoldOK'
  <2> PICK c \in Held, b \in BOOLEAN :
         /\ IF b THEN hold[c] < MaxHold ELSE hold[c] > 0
         /\ hold' = [hold EXCEPT ![c] = IF b THEN @ + 1 ELSE @ - 1]
         /\ job' = [job EXCEPT ![t] = [call |-> "update", clock |-> c, on |-> b]]
    BY <1>3 DEF UpdateSource
  <2>1. \A u \in Thread \ {t} : job[u].call # "update" /\ job'[u] = job[u]
    BY <1>0, <1>3, Tree DEF UpdateSource, LockOK, Types
  <2>2. b => hold'[c] > 0
    <3>1. c \in Clock /\ hold[c] \in Nat
      BY <1>0, Tree DEF Types
    <3> QED
      BY <1>0, <3>1 DEF Types
  <2>3. job'[t] = [call |-> "update", clock |-> c, on |-> b]
    BY <1>0 DEF Types
  <2> QED
    BY <2>1, <2>2, <2>3 DEF HoldOK
<1>4. ASSUME NEW t \in Thread, NEW k \in {"source", "ioctl"}, NEW c, NEW p,
             job' = [job EXCEPT ![t] =
                      [call |-> k, clock |-> c, new |-> p, old |-> p, on |-> FALSE]],
             UNCHANGED hold
      PROVE  HoldOK'
  <2>1. job'[t].call # "update" /\ \A u \in Thread \ {t} : job'[u] = job[u]
    BY <1>0, <1>4 DEF Types
  <2> QED
    BY <1>1, <1>4, <2>1
<1>5. ASSUME NEW t \in Thread, Return(t), UNCHANGED hold PROVE HoldOK'
  <2>1. job'[t] = NoJob /\ \A u \in Thread \ {t} : job'[u] = job[u]
    BY <1>0, <1>5 DEF Types, Return
  <2>2. job'[t].call # "update"
    BY <2>1 DEF NoJob
  <2> QED
    BY <1>1, <1>5, <2>1, <2>2
<1>6. ASSUME NEW t \in Thread, job[t].call # "update", NEW j, j.call # "update",
             job' = [job EXCEPT ![t] = j], UNCHANGED hold
      PROVE  HoldOK'
  <2>1. job'[t].call # "update" /\ \A u \in Thread \ {t} : job'[u] = job[u]
    BY <1>0, <1>6 DEF Types
  <2> QED
    BY <1>1, <1>6, <2>1
<1>7. ASSUME NEW t \in Thread, LockClock(t) PROVE HoldOK'
  <2>0. UNCHANGED hold
    BY <1>7 DEF LockClock
  <2>1. CASE Return(t)
    BY <1>5, <2>0, <2>1
  <2>2. CASE job' = [job EXCEPT ![t].old = up[job[t].clock], ![t].on = TRUE]
    <3>1. IsSwitch(t) /\ job[t] \in Switching
      BY <1>0, <1>7, JobTypes DEF LockClock, LockOK, Walking
    <3>2. job' = [job EXCEPT ![t] = [job[t] EXCEPT !.old = up[job[t].clock], !.on = TRUE]]
      BY <2>2
    <3>3. [job[t] EXCEPT !.old = up[job[t].clock], !.on = TRUE].call = job[t].call
      BY <3>1 DEF Switching
    <3>4. job[t].call # "update"
      BY <3>1 DEF IsSwitch
    <3> QED
      BY <1>6, <2>0, <3>2, <3>3, <3>4
  <2> QED
    BY <1>7, <2>1, <2>2 DEF LockClock
<1>8. ASSUME NEW t \in Thread, WriteCount(t) PROVE HoldOK'
  <2>0. UNCHANGED hold
    BY <1>8 DEF WriteCount
  <2>1. CASE UNCHANGED job
    BY <1>2, <2>0, <2>1
  <2>2. CASE Return(t)
    BY <1>5, <2>0, <2>2
  <2>3. CASE IsSwitch(t) /\ Walk(t, job[t].old, FALSE)
    <3>1. job' = [job EXCEPT ![t] = [job[t] EXCEPT !.on = FALSE]]
      BY <2>3 DEF Walk
    <3>2. [job[t] EXCEPT !.on = FALSE].call = job[t].call
      BY <1>0, <2>3, JobTypes DEF Switching
    <3>3. job[t].call # "update"
      BY <2>3 DEF IsSwitch
    <3> QED
      BY <1>6, <2>0, <3>1, <3>2, <3>3
  <2> QED
    BY <1>8, <2>1, <2>2, <2>3 DEF WriteCount, AfterWalk
<1>9. CASE UNCHANGED vars
  BY <1>2, <1>9 DEF vars
<1>10. ASSUME NEW t \in Thread, Call(t) \/ Step(t) PROVE HoldOK'
  <2>1. CASE SetSourceClocks(t)
    BY <1>4, <2>1 DEF SetSourceClocks
  <2>2. CASE IoctlSetSourceClock(t)
    BY <1>4, <2>2 DEF IoctlSetSourceClock
  <2>3. CASE Visit(t)
    BY <1>2, <2>3 DEF Visit
  <2>4. CASE ReadCount(t)
    BY <1>2, <2>4 DEF ReadCount
  <2>5. CASE Switch(t)
    BY <1>5, <2>5 DEF Switch
  <2> QED
    BY <1>3, <1>7, <1>8, <1>10, <2>1, <2>2, <2>3, <2>4, <2>5 DEF Call, Step
<1> QED
  BY <1>9, <1>10 DEF Next

\* A node in use that no walk is about to put out of use.
Firm(n) ==
    /\ n \in Node /\ ref[n] > 0
    /\ \A t \in Thread : Walking(t) /\ ~job[t].on =>
         \A i \in 1..Len(walk[t]) : walk[t][i] = n => ref[n] > 1

LEMMA TwoUsers ==
    ASSUME NEW n, NEW x \in Users(n), NEW y \in Users(n), x # y
    PROVE  Cardinality(Users(n)) > 1
<1>1. IsFiniteSet(Users(n)) /\ Cardinality(Users(n)) \in Nat
  BY UsersFinite
<1>2. /\ IsFiniteSet(Users(n) \ {x}) /\ Cardinality(Users(n) \ {x}) = Cardinality(Users(n)) - 1
  BY <1>1, FS_RemoveElement, Zenon
<1>3. Cardinality(Users(n) \ {x}) # 0 /\ Cardinality(Users(n) \ {x}) \in Nat
  BY <1>2, FS_EmptySet, FS_CardinalityType
<1> QED
  BY <1>1, <1>2, <1>3

LEMMA OneUser ==
    ASSUME NEW n, NEW x \in Users(n)
    PROVE  Cardinality(Users(n)) > 0
<1>1. IsFiniteSet(Users(n)) /\ Cardinality(Users(n)) \in Nat /\ Cardinality(Users(n)) # 0
  BY UsersFinite, FS_EmptySet
<1> QED
  BY <1>1

\* What the count of a node comes to: Extra takes at most one from it, and only in three
\* ways: a new device reference that is not counted, the end of a move away from the node,
\* a user that has passed on its last reference.
LEMMA AtLeast ==
    ASSUME IInv, NEW n \in Node
    PROVE  /\ ref[n] = HoldOf(n) + Cardinality(Users(n)) + Extra(n)
           /\ HoldOf(n) \in Nat /\ Cardinality(Users(n)) \in Nat /\ Extra(n) \in Int
           /\ \/ Extra(n) >= 0
              \/ Extra(n) = -1 /\ Turn \in Thread
                 /\ \/ Walking(Turn) /\ ~IsSwitch(Turn) /\ job[Turn].on
                       /\ n = job[Turn].clock
                    \/ IsSwitch(Turn) /\ pc[Turn] = "switch"
                       /\ ref[job[Turn].clock] > 0 /\ n = job[Turn].old
                       /\ n # job[Turn].new
                    \/ Walking(Turn) /\ ~job[Turn].on
                       /\ Passing(Turn, walk[Turn][1]) /\ n = up[walk[Turn][1]]
<1>0. Types /\ Counted
  BY DEF IInv
<1>1. /\ ref[n] = HoldOf(n) + Cardinality(Users(n)) + Extra(n)
      /\ HoldOf(n) \in Nat /\ Cardinality(Users(n)) \in Nat
  BY <1>0, UsersFinite, Tree DEF Counted, HoldOf, Types
<1>2. CASE Turn = Nobody
  BY <1>1, <1>2 DEF Extra
<1>3. CASE Turn # Nobody
  <2>1. Turn \in Thread
    BY <1>0, <1>3, TurnFacts DEF IInv
  <2> PICK d \in Thread : d = Turn
    BY <2>1
  <2>2. Extra(n) = Given(d, n) + Passed(d, n)
    BY <1>3 DEF Extra
  <2>3. CASE Walking(d)
    <3>1. job[d].on \in BOOLEAN /\ pc[d] # "switch"
      BY <2>3, Walker DEF Walking
    <3>2. Given(d, n) =
            IF ~IsSwitch(d) THEN (IF n = job[d].clock THEN 0 - Sign(d) ELSE 0)
            ELSE IF ~job[d].on /\ n = job[d].new THEN 1 ELSE 0
      BY <2>3 DEF Given, One
    <3>3. Passed(d, n) = 0 \/ (Passed(d, n) = Sign(d) /\ Passing(d, walk[d][1]) /\ n = up[walk[d][1]])
      BY DEF Passed
    <3>4. Sign(d) = IF job[d].on THEN 1 ELSE -1
      BY DEF Sign
    <3>5. CASE job[d].on
      BY <1>1, <2>1, <2>2, <2>3, <3>2, <3>3, <3>4, <3>5
    <3>6. CASE ~job[d].on
      BY <1>1, <2>1, <2>2, <2>3, <3>2, <3>3, <3>4, <3>6
    <3> QED
      BY <3>5, <3>6
  <2>4. CASE ~Walking(d)
    <3>1. Passed(d, n) = 0
      BY <2>4 DEF Passed, Walking
    <3>2. Given(d, n) =
            IF IsSwitch(d) /\ pc[d] = "switch" /\ ref[job[d].clock] > 0
            THEN One(n = job[d].new) - One(n = job[d].old) ELSE 0
      BY <2>4 DEF Given
    <3>3. CASE IsSwitch(d) /\ pc[d] = "switch" /\ ref[job[d].clock] > 0
      <4>1. CASE n = job[d].old /\ n # job[d].new
        BY <1>1, <2>1, <2>2, <3>1, <3>2, <3>3, <4>1 DEF One
      <4>2. CASE ~(n = job[d].old /\ n # job[d].new)
        <5>1. Given(d, n) \in {0, 1}
          BY <3>2, <3>3, <4>2 DEF One
        <5> QED
          BY <1>1, <2>2, <3>1, <5>1
      <4> QED
        BY <4>1, <4>2
    <3>4. CASE ~(IsSwitch(d) /\ pc[d] = "switch" /\ ref[job[d].clock] > 0)
      BY <1>1, <2>2, <3>1, <3>2, <3>4
    <3> QED
      BY <3>3, <3>4
  <2> QED
    BY <2>3, <2>4
<1> QED
  BY <1>2, <1>3

\* A node that a walk which disables goes through has a user, besides what the call owes.
LEMMA OnTheWay ==
    ASSUME IInv, NEW d \in Thread, Walking(d), ~job[d].on,
           NEW i \in 1..Len(walk[d]), NEW n, n = walk[d][i]
    PROVE  /\ Extra(n) >= 0
           /\ \/ i = Len(walk[d]) /\ ~IsSwitch(d) /\ n = job[d].clock /\ Extra(n) = 1
              \/ i = Len(walk[d]) /\ IsSwitch(d) /\ job[d].clock \in Users(n)
              \/ i < Len(walk[d]) /\ walk[d][i + 1] \in Users(n) /\ ref[walk[d][i + 1]] = 1
<1>1. /\ Types /\ Path(d, walk[d]) /\ \A x : Extra(x) = Given(d, x) + Passed(d, x)
      /\ n \in Node /\ Len(walk[d]) \in Nat
      /\ \A k \in 1..Len(walk[d]) : walk[d][k] \in Node
      /\ IsSwitch(d) => job[d].old = up[job[d].clock] /\ ref[job[d].clock] > 0
                        /\ job[d].clock \in DOMAIN Table
  BY Walker, WalkTypes DEF IInv
<1>2. Passed(d, n) = 0
  <2>1. SUFFICES ASSUME Passing(d, walk[d][1]), n = up[walk[d][1]] PROVE FALSE
    BY DEF Passed
  <2>2. /\ 1 \in 1..Len(walk[d]) /\ walk[d][1] \in DOMAIN Table /\ Level[n] < Level[walk[d][1]]
        /\ Level[n] \in Nat /\ Level[walk[d][1]] \in Nat
    BY <1>1, <2>1, LevelUp, NodeTypes DEF Passing
  <2>3. CASE i = 1
    BY <2>2, <2>3
  <2>4. CASE i # 1
    <3>1. 1 < i
      BY <2>4
    <3>2. Level[walk[d][1]] < Level[n]
      BY <1>1, <2>2, <3>1 DEF Path
    <3> QED
      BY <2>2, <3>2
  <2> QED
    BY <2>3, <2>4
<1>3. /\ Given(d, n) \in {0, 1}
      /\ ~IsSwitch(d) /\ n = job[d].clock => Given(d, n) = 1
  <2>1. Sign(d) = -1
    BY DEF Sign
  <2> QED
    BY <2>1 DEF Given, One
<1>4. CASE i = Len(walk[d])
  <2>1. n = Target(d)
    BY <1>1, <1>4 DEF Path
  <2>2. CASE ~IsSwitch(d)
    BY <1>1, <1>2, <1>3, <1>4, <2>1, <2>2 DEF Target
  <2>3. CASE IsSwitch(d)
    <3>1. n = job[d].old
      BY <2>1, <2>3 DEF Target
    <3>2. job[d].clock \in Users(n)
      BY <1>1, <2>3, <3>1 DEF Users
    <3> QED
      BY <1>1, <1>2, <1>3, <1>4, <2>3, <3>2
  <2> QED
    BY <2>2, <2>3
<1>5. CASE i # Len(walk[d])
  <2>1. i \in 1..Len(walk[d]) - 1 /\ i < Len(walk[d])
    BY <1>1, <1>5
  <2>2. /\ walk[d][i + 1] \in DOMAIN Table /\ up[walk[d][i + 1]] = n
        /\ Edge(walk[d][i + 1], job[d].on)
    BY <1>1, <2>1 DEF Path
  <2>3. ref[walk[d][i + 1]] = 1
    BY <2>2 DEF Edge
  <2>4. walk[d][i + 1] \in Users(n)
    BY <2>2, <2>3 DEF Users
  <2> QED
    BY <1>1, <1>2, <1>3, <2>1, <2>3, <2>4
<1> QED
  BY <1>4, <1>5

LEMMA MovingFacts ==
    ASSUME IInv, NEW t \in Thread, NEW c, Moving(t, c)
    PROVE  /\ clkLock = t /\ IsSwitch(t) /\ c = job[t].clock /\ c \in Clock
           /\ c \in DOMAIN Table /\ job[t].old = up[c] /\ job[t].new \in Node
           /\ job[t].old \in Node /\ Level[job[t].new] < Level[c] /\ Level[job[t].old] < Level[c]
           /\ pc[t] = "switch" \/ Walking(t)
           /\ ref[c] > 0 => Turn = t /\ c \in Users(job[t].old)
<1>0. Types /\ Spare /\ InTurn /\ MoveOK(t) /\ \A u \in Thread : LockOK(u)
  BY DEF IInv
<1>1. /\ IsSwitch(t) /\ c = job[t].clock /\ pc[t] \notin {"idle", "lock"}
      /\ job[t] \in Switching /\ pc[t] \in {"visit", "read", "write", "switch"}
  BY <1>0, JobTypes DEF Moving
<1> PICK k \in {"source", "ioctl"} : k = job[t].call
  BY <1>1 DEF IsSwitch
<1>2. /\ clkLock = t /\ job[t].new \in ParentsOf(c) /\ job[t].old = up[c]
      /\ c \in Moved[k] /\ (pc[t] = "switch" \/ Walking(t))
  BY <1>0, <1>1 DEF LockOK, MoveOK, Walking
<1>3. c \in DOMAIN Table /\ c \in Clock
  BY <1>2, MovedTypes
<1>4. /\ job[t].new \in Node /\ job[t].old \in Node
      /\ Level[job[t].new] < Level[c] /\ Level[job[t].old] < Level[c]
  BY <1>0, <1>2, <1>3, NodeTypes, LevelUp
<1>5. ASSUME ref[c] > 0 PROVE Turn = t /\ c \in Users(job[t].old)
  <2>1. c \notin Own
    BY <1>0, <1>5 DEF Spare
  <2>2. Busy(t)
    BY <1>2 DEF Busy
  <2>3. Turn = t
    <3>1. CASE k = "source"
      BY <1>0, <2>2, <3>1, TurnFacts
    <3>2. CASE k = "ioctl"
      BY <1>0, <1>1, <2>1, <3>2, TurnFacts DEF Intrudes
    <3> QED
      BY <3>1, <3>2
  <2> QED
    BY <1>2, <1>3, <1>5, <2>3 DEF Users
<1> QED
  BY <1>1, <1>2, <1>3, <1>4, <1>5

\* A node with a user that is firm and is not being moved.
LEMMA FirmUp ==
    ASSUME IInv, HoldOK, NEW m \in DOMAIN Table, Firm(m), \A t \in Thread : ~Moving(t, m)
    PROVE  Firm(up[m])
<1> PICK n \in Node : n = up[m]
  BY LevelUp DEF IInv
<1>0. Types
  BY DEF IInv
<1>1. m \in Users(n) /\ Cardinality(Users(n)) > 0
  <2>1. m \in Users(n)
    BY DEF Users, Firm
  <2> QED
    BY <2>1, OneUser
<1>2. ASSUME NEW t \in Thread, Walking(t), ~job[t].on, NEW i \in 1..Len(walk[t]), walk[t][i] = n
      PROVE  ref[n] > 1
  <2>1. /\ Extra(n) >= 0
        /\ \/ i = Len(walk[t]) /\ ~IsSwitch(t) /\ n = job[t].clock /\ Extra(n) = 1
           \/ i = Len(walk[t]) /\ IsSwitch(t) /\ job[t].clock \in Users(n)
           \/ i < Len(walk[t]) /\ walk[t][i + 1] \in Users(n) /\ ref[walk[t][i + 1]] = 1
    BY <1>2, OnTheWay
  <2>2. CASE Extra(n) = 1
    BY <1>1, <2>2, AtLeast
  <2>3. CASE IsSwitch(t) /\ job[t].clock \in Users(n)
    <3>1. job[t].clock # m
      BY <1>2, <2>3 DEF Moving, Walking
    <3>2. Cardinality(Users(n)) > 1
      BY <1>1, <2>3, <3>1, TwoUsers
    <3> QED
      BY <2>1, <3>2, AtLeast
  <2>4. CASE i < Len(walk[t]) /\ walk[t][i + 1] \in Users(n) /\ ref[walk[t][i + 1]] = 1
    <3>1. Len(walk[t]) \in Nat /\ i + 1 \in 1..Len(walk[t])
      BY <1>0, <1>2, <2>4, WalkTypes
    <3>2. walk[t][i + 1] # m
      BY <1>2, <2>4, <3>1 DEF Firm
    <3>3. Cardinality(Users(n)) > 1
      BY <1>1, <2>4, <3>2, TwoUsers
    <3> QED
      BY <2>1, <3>3, AtLeast
  <2> QED
    BY <2>1, <2>2, <2>3, <2>4
<1>3. ref[n] > 0
  <2>1. CASE Extra(n) >= 0
    BY <1>1, <2>1, AtLeast
  <2>2. CASE /\ Turn \in Thread /\ Extra(n) = -1
             /\ Walking(Turn) /\ ~IsSwitch(Turn) /\ job[Turn].on
             /\ n = job[Turn].clock
    <3>1. job[Turn] \in Update /\ job[Turn].call = "update"
      BY <2>2, Walker DEF Update
    <3>2. n \in Clock /\ hold[n] > 0 /\ HoldOf(n) = hold[n]
      BY <2>2, <3>1, NodeTypes DEF HoldOK, Update, HoldOf
    <3> QED
      BY <1>1, <2>2, <3>2, AtLeast
  <2>3. CASE /\ Turn \in Thread /\ Extra(n) = -1
             /\ IsSwitch(Turn) /\ pc[Turn] = "switch"
             /\ ref[job[Turn].clock] > 0 /\ n = job[Turn].old
    <3>1. Moving(Turn, job[Turn].clock)
      BY <2>3 DEF Moving
    <3>2. job[Turn].clock \in Users(n) /\ job[Turn].clock # m
      BY <2>3, <3>1, MovingFacts
    <3>3. Cardinality(Users(n)) > 1
      BY <1>1, <3>2, TwoUsers
    <3> QED
      BY <2>3, <3>3, AtLeast
  <2>4. CASE /\ Turn \in Thread /\ Extra(n) = -1
             /\ Walking(Turn) /\ ~job[Turn].on
             /\ Passing(Turn, walk[Turn][1]) /\ n = up[walk[Turn][1]]
    <3>1. ref[walk[Turn][1]] = 1 /\ walk[Turn][1] \in Users(n)
      BY <2>4 DEF Passing, Edge, Users
    <3>2. 1 \in 1..Len(walk[Turn])
      BY <1>0, <2>4, WalkTypes
    <3>3. walk[Turn][1] # m
      BY <2>4, <3>1, <3>2 DEF Firm
    <3>4. Cardinality(Users(n)) > 1
      BY <1>1, <3>1, <3>3, TwoUsers
    <3> QED
      BY <2>4, <3>4, AtLeast
  <2> QED
    BY <2>1, <2>2, <2>3, <2>4, AtLeast
<1> QED
  BY <1>2, <1>3 DEF Firm

\* A node that has a reference of its own besides its users, and no call at work on it:
\* a clock that a device holds, or the parent that a clock is being moved to.
LEMMA FirmAlone ==
    ASSUME IInv, NEW n \in Node,
           \/ HoldOf(n) > 0 /\ \A t \in Thread : pc[t] # "idle" => job[t].clock # n
           \/ Extra(n) = 1 /\ Turn \in Thread /\ IsSwitch(Turn)
    PROVE  Firm(n)
<1>0. Types
  BY DEF IInv
<1>1. ASSUME NEW t \in Thread, Walking(t), ~job[t].on, NEW i \in 1..Len(walk[t]), walk[t][i] = n
      PROVE  ref[n] > 1
  <2>1. /\ Extra(n) >= 0
        /\ \/ i = Len(walk[t]) /\ ~IsSwitch(t) /\ n = job[t].clock
           \/ i = Len(walk[t]) /\ IsSwitch(t) /\ job[t].clock \in Users(n)
           \/ i < Len(walk[t]) /\ walk[t][i + 1] \in Users(n)
    BY <1>1, OnTheWay
  <2>2. CASE ~IsSwitch(t) /\ n = job[t].clock
    BY <1>1, <2>2, Walker DEF Walking
  <2>3. CASE \E x : x \in Users(n)
    <3>1. Cardinality(Users(n)) > 0
      BY <2>3, OneUser
    <3> QED
      BY <2>1, <3>1, AtLeast
  <2> QED
    BY <2>1, <2>2, <2>3
<1>2. ref[n] > 0
  <2>1. CASE Extra(n) >= 0
    BY <2>1, AtLeast
  <2>2. CASE ~(Extra(n) >= 0)
    <3>1. /\ HoldOf(n) > 0 /\ Extra(n) = -1 /\ Turn \in Thread
          /\ \A t \in Thread : pc[t] # "idle" => job[t].clock # n
      BY <2>2, AtLeast
    <3>2. CASE Walking(Turn) /\ ~IsSwitch(Turn) /\ n = job[Turn].clock
      BY <3>1, <3>2 DEF Walking
    <3>3. CASE \E x : x \in Users(n)
      <4>1. Cardinality(Users(n)) > 0
        BY <3>3, OneUser
      <4> QED
        BY <3>1, <4>1, AtLeast
    <3>4. CASE /\ IsSwitch(Turn) /\ pc[Turn] = "switch"
               /\ ref[job[Turn].clock] > 0 /\ n = job[Turn].old
      <4>1. Moving(Turn, job[Turn].clock)
        BY <3>4 DEF Moving
      <4> QED
        BY <3>1, <3>3, <3>4, <4>1, MovingFacts
    <3>5. CASE /\ Walking(Turn) /\ ~job[Turn].on
               /\ Passing(Turn, walk[Turn][1]) /\ n = up[walk[Turn][1]]
      <4>1. walk[Turn][1] \in Users(n)
        BY <3>5 DEF Passing, Edge, Users
      <4> QED
        BY <3>3, <4>1
    <3> QED
      BY <2>2, <3>2, <3>4, <3>5, AtLeast
  <2> QED
    BY <2>1, <2>2
<1> QED
  BY <1>1, <1>2 DEF Firm

-----------------------------------------------------------------------------
(* The theorems                                                            *)

LEMMA HoldInvariance == Spec /\ []InTurn => []HoldOK
<1>1. Init => HoldOK
  BY DEF Init, HoldOK, NoJob
<1>2. IInv /\ HoldOK /\ [Next]_vars => HoldOK'
  BY HoldStep
<1> QED
  BY <1>1, <1>2, Invariance, PTL DEF Spec

\* Whenever no call is between its steps, the count of every source clock, DPLL and voltage
\* domain is the number of device references to it and of nodes in use below it, if the
\* IOCTL has never moved a clock of the tree in use in the middle of another call.
THEOREM CountsBalance == Spec /\ []InTurn => []Balanced
<1>1. ASSUME IInv PROVE Balanced
  <2> SUFFICES ASSUME \A t \in Thread : pc[t] \in {"idle", "lock"}, NEW n \in Node
               PROVE  ref[n] = HoldOf(n) + Cardinality(Users(n))
    BY DEF Balanced
  <2>1. Extra(n) = 0
    <3>1. CASE Turn = Nobody
      BY <3>1 DEF Extra
    <3>2. CASE Turn # Nobody
      <4>1. Turn \in Thread
        BY <1>1, <3>2, TurnFacts DEF IInv
      <4>2. pc[Turn] \in {"idle", "lock"}
        BY <4>1
      <4>3. Given(Turn, n) = 0 /\ Passed(Turn, n) = 0
        BY <4>2 DEF Given, Passed, Walking
      <4> QED
        BY <3>2, <4>3 DEF Extra
    <3> QED
      BY <3>1, <3>2
  <2> QED
    BY <1>1, <2>1, AtLeast
<1> QED
  BY <1>1, Invariance, PTL

\* The clocks that are moved and that devices use, or others come from, have a multiplexer.
Listed == \A k \in {"source", "ioctl"} : Moved[k] \subseteq Own \cup DOMAIN Parents

\* A source clock that a device holds is fed through every multiplexer above it, whatever
\* other calls are doing, unless it or a clock above it is being moved, if the IOCTL has
\* never moved a clock of the tree in use in the middle of another call.
THEOREM HeldClocksAreFed == ASSUME Listed PROVE Spec /\ []InTurn => []SupplyOn
<1>1. ASSUME IInv, HoldOK PROVE SupplyOn
  <2>0. Types
    BY <1>1 DEF IInv
  <2> SUFFICES ASSUME NEW c \in Held, hold[c] > 0,
                      \A t \in Thread : pc[t] # "idle" => job[t].clock # c,
                      \A t \in Thread, m \in {c} \cup (Feeding(c) \cap Clock) : ~Moving(t, m)
               PROVE  \A n \in Feeding(c) : ref[n] > 0
    BY DEF SupplyOn
  <2> PICK f : IsAbove(f, Sources) /\ \A n : Feeding(n) = f[n]
    BY <2>0, FeedingIs
  <2>1. ASSUME NEW m \in Node, m \in DOMAIN Table
        PROVE  f[m] = {Sources[m]} \cup f[Sources[m]]
    BY <2>1 DEF IsAbove
  <2> DEFINE Clear(n) == \A t \in Thread, m \in {n} \cup (f[n] \cap Clock) : ~Moving(t, m)
             S == {n \in Node : Firm(n) /\ Clear(n) /\ n \notin Own}
  <2>2. c \in S
    <3>1. c \in Node /\ c \in Clock /\ c \notin Own
      BY NodeTypes
    <3>2. HoldOf(c) > 0
      BY <3>1 DEF HoldOf
    <3>3. Firm(c)
      BY <1>1, <3>1, <3>2, FirmAlone
    <3> QED
      BY <3>1, <3>3
  <2>3. ASSUME NEW m \in S, m \in DOMAIN Table PROVE Sources[m] \in S
    <3>0. Sources[m] = up[m]
      BY <2>0, <2>3, SourcesAre DEF Listed
    <3>1. up[m] \in Node /\ up[m] \notin Own /\ f[m] = {up[m]} \cup f[up[m]]
      BY <2>0, <2>1, <2>3, <3>0, LevelUp, NodeTypes DEF Types
    <3>2. Firm(up[m])
      BY <1>1, <2>3, FirmUp
    <3>3. ASSUME NEW t \in Thread, up[m] \notin Clock PROVE ~Moving(t, up[m])
      BY <1>1, <3>3, MovingFacts, NodeTypes
    <3>4. Clear(up[m])
      BY <3>1, <3>3
    <3> QED
      BY <3>0, <3>1, <3>2, <3>4
  <2>4. Closed(S, Sources)
    BY <2>3 DEF Closed
  <2> HIDE DEF Clear
  <2>5. \A n \in S : ref[n] > 0
    BY DEF Firm
  <2> HIDE DEF S
  <2>6. f[c] \subseteq S
    BY <2>0, <2>2, <2>4, AboveClosed, SourcesAre
  <2> QED
    BY <2>5, <2>6
<1> QED
  BY <1>1, Invariance, HoldInvariance, PTL

\* While a clock in use is moved, what both its parents come from stays in use, if the
\* IOCTL has never moved a clock of the tree in use in the middle of another call.
THEOREM MovesWithoutGlitch == Spec /\ []InTurn => []NoGlitch
<1>1. ASSUME IInv, HoldOK PROVE NoGlitch
  <2>0. Types
    BY <1>1 DEF IInv
  <2> SUFFICES ASSUME NEW t \in Thread, Moving(t, job[t].clock), ref[job[t].clock] > 0
               PROVE  \A n \in Above(job[t].old) \cap Above(job[t].new) : ref[n] > 0
    BY DEF NoGlitch
  <2> PICK f : IsAbove(f, up) /\ \A n : Above(n) = f[n]
    BY <2>0, AboveIs
  <2> DEFINE c == job[t].clock
             S == {n \in Node : Firm(n) /\ Level[n] < Level[c]}
  <2>1. /\ clkLock = t /\ IsSwitch(t) /\ c \in Clock /\ c \in DOMAIN Table
        /\ job[t].old = up[c] /\ job[t].new \in Node /\ job[t].old \in Node
        /\ Level[job[t].new] < Level[c] /\ Level[job[t].old] < Level[c]
        /\ pc[t] = "switch" \/ Walking(t)
        /\ Turn = t /\ c \in Users(job[t].old)
    BY <1>1, MovingFacts
  <2>2. t # Nobody /\ c \in Node /\ Level[c] \in Nat
    BY <2>1, NodeTypes, Tree
  <2>3. ASSUME NEW m \in S, m \in DOMAIN Table PROVE up[m] \in S
    <3>1. up[m] \in Node /\ Level[up[m]] < Level[m] /\ Level[m] \in Nat /\ Level[up[m]] \in Nat
      BY <2>0, <2>3, LevelUp, NodeTypes
    <3>2. ASSUME NEW u \in Thread PROVE ~Moving(u, m)
      <4>1. SUFFICES ASSUME Moving(u, m) PROVE FALSE
        OBVIOUS
      <4>2. clkLock = u /\ m = job[u].clock
        BY <1>1, <4>1, MovingFacts
      <4>3. m = c
        BY <2>1, <4>2
      <4> QED
        BY <2>2, <4>3
    <3>3. Firm(up[m])
      BY <1>1, <2>3, <3>2, FirmUp
    <3> QED
      BY <2>2, <3>1, <3>3
  <2>4. Closed(S, up)
    BY <2>3 DEF Closed
  <2>5. \A n \in S : ref[n] > 0
    BY DEF Firm
  <2>6. \A n \in Node : Firm(n) /\ Level[n] < Level[c] => n \in S
    OBVIOUS
  <2> HIDE DEF S
  <2>7. \A n \in Node : Extra(n) = Given(t, n) + Passed(t, n)
    BY <2>1, <2>2 DEF Extra
  \* The old parent is still in use, ...
  <2>8. CASE Walking(t) /\ job[t].on
    <3> PICK o \in Node : o = job[t].old
      BY <2>1
    <3>1. Cardinality(Users(o)) > 0
      BY <2>1, OneUser
    <3>2. Extra(o) >= 0
      <4>1. ~(pc[t] = "switch")
        BY <2>8 DEF Walking
      <4> QED
        BY <1>1, <2>1, <2>8, <4>1, AtLeast
    <3>3. ref[o] > 0
      BY <1>1, <3>1, <3>2, AtLeast
    <3>4. \A u \in Thread : Walking(u) => u = t
      BY <1>1, <2>1, Walker
    <3>5. Firm(o)
      BY <2>8, <3>3, <3>4 DEF Firm
    <3>6. f[o] \subseteq S
      BY <2>0, <2>1, <2>4, <2>6, <3>5, AboveClosed, UpIs
    <3> QED
      BY <2>5, <3>6
  \* ... or the new one is already.
  <2>9. CASE ~(Walking(t) /\ job[t].on)
    <3> PICK p \in Node : p = job[t].new
      BY <2>1
    <3>1. Firm(p)
      <4>1. CASE Extra(p) = 1
        BY <1>1, <2>1, <4>1, FirmAlone
      <4>2. CASE Extra(p) # 1
        <5>1. Passed(t, p) # 0 \/ Given(t, p) # 1
          BY <2>7, <4>2
        <5>2. CASE Walking(t)
          <6>1. ~job[t].on /\ Given(t, p) = 1 /\ pc[t] # "switch"
            BY <2>1, <2>9, <5>2 DEF Given, One, Walking
          <6>2. Sign(t) = -1
            BY <6>1 DEF Sign
          <6>3. Extra(p) = 0 /\ Passing(t, walk[t][1]) /\ p = up[walk[t][1]]
            BY <2>7, <5>1, <6>1, <6>2 DEF Passed
          <6>4. walk[t][1] \in Users(p)
            BY <6>1, <6>3 DEF Passing, Edge, Users
          <6>5. Cardinality(Users(p)) > 0
            BY <6>4, OneUser
          <6>6. ref[p] > 0
            BY <1>1, <6>3, <6>5, AtLeast
          <6>7. ASSUME NEW u \in Thread, Walking(u), ~job[u].on,
                       NEW i \in 1..Len(walk[u]), walk[u][i] = p
                PROVE  FALSE
            <7>1. u = t
              BY <1>1, <2>1, <6>7, Walker
            <7>2. /\ walk[t][1] \in DOMAIN Table /\ Level[p] < Level[walk[t][1]]
                  /\ Level[p] \in Nat /\ Level[walk[t][1]] \in Nat
              BY <2>0, <6>3, LevelUp, NodeTypes DEF Passing
            <7>3. i # 1 /\ 1 \in 1..Len(walk[t]) /\ 1 < i
              BY <6>7, <7>1, <7>2
            <7>4. Level[walk[t][1]] < Level[p]
              BY <1>1, <5>2, <6>7, <7>1, <7>3, Walker DEF Path
            <7> QED
              BY <7>2, <7>4
          <6> QED
            BY <6>6, <6>7 DEF Firm
        <5>3. CASE ~Walking(t)
          <6>1. pc[t] = "switch" /\ Passed(t, p) = 0
            BY <2>1, <5>3 DEF Passed
          <6>2. Given(t, p) = One(p = job[t].new) - One(p = job[t].old)
            BY <2>1, <5>3, <6>1 DEF Given
          <6>3. p = job[t].old /\ Extra(p) = 0
            BY <2>7, <5>1, <6>1, <6>2 DEF One
          <6>4. Cardinality(Users(p)) > 0
            BY <2>1, <6>3, OneUser
          <6>5. ref[p] > 0
            BY <1>1, <6>3, <6>4, AtLeast
          <6>6. \A u \in Thread : ~Walking(u)
            BY <1>1, <2>1, <5>3, Walker
          <6> QED
            BY <6>5, <6>6 DEF Firm
        <5> QED
          BY <5>2, <5>3
      <4> QED
        BY <4>1, <4>2
    <3>2. f[p] \subseteq S
      BY <2>0, <2>1, <2>4, <2>6, <3>1, AboveClosed, UpIs
    <3> QED
      BY <2>5, <3>2
  <2> QED
    BY <2>8, <2>9
<1> QED
  BY <1>1, Invariance, HoldInvariance, PTL

-----------------------------------------------------------------------------
(* Type correctness, whatever clocks the IOCTL moves                        *)

Asks(j) == j.clock \in Moved[j.call] /\ j.new \in Asked[j.call]

TInv ==
    /\ pc \in [Thread -> Label]
    /\ job \in [Thread -> {NoJob} \cup Update \cup Switching]
    /\ walk \in [Thread -> Seq(Node)]
    /\ \A t \in Thread :
         /\ job[t] = NoJob <=> pc[t] = "idle"
         /\ Walking(t) <=> walk[t] # <<>>
         /\ pc[t] \in {"lock", "switch"} => job[t] \in Switching
         /\ job[t] \in Switching => Asks(job[t])
         /\ job[t] \in Switching /\ pc[t] \in {"visit", "read", "write", "switch"} =>
              job[t].new \in ParentsOf(job[t].clock)
    /\ tmp \in [Thread -> Int]
    /\ devLock \in Thread \cup {Nobody} /\ clkLock \in Thread \cup {Nobody}
    /\ up \in [DOMAIN Table -> Node] /\ \A n \in DOMAIN Table : up[n] \in ParentsOf(n)
    /\ ref \in [Node -> Int] /\ hold \in [Clock -> 0..MaxHold]
    /\ select \in [DOMAIN Parents -> Clock]

\* The kinds of call are told apart by their name.
LEMMA Kinds ==
    /\ NoJob \notin Update \cup Switching
    /\ \A j \in Update : j \notin Switching /\ j.call = "update"
    /\ \A j \in Switching : j.call \in {"source", "ioctl"}
<1>1. NoJob.call = "none"
  BY DEF NoJob
<1>2. \A j \in Update : j.call = "update"
  BY DEF Update
<1>3. \A j \in Switching : j.call \in {"source", "ioctl"}
  BY DEF Switching
<1> QED
  BY <1>1, <1>2, <1>3

LEMMA TInvInit == Init => TInv
<1> SUFFICES ASSUME Init PROVE TInv
  OBVIOUS
<1>1. up \in [DOMAIN Table -> Node] /\ \A n \in DOMAIN Table : up[n] \in ParentsOf(n)
  BY Tree DEF Init, ParentsOf
<1>2. hold \in [Clock -> 0..MaxHold] /\ select \in [DOMAIN Parents -> Clock]
  BY Tree DEF Init
<1>3. pc \in [Thread -> Label] /\ walk \in [Thread -> Seq(Node)]
  BY DEF Init, Label
<1>4. NoJob \notin Switching
  BY Kinds
<1>5. ASSUME NEW t \in Thread
      PROVE  /\ job[t] = NoJob /\ pc[t] = "idle" /\ walk[t] = <<>> /\ ~Walking(t)
  BY DEF Init, Walking
<1>6. job \in [Thread -> {NoJob} \cup Update \cup Switching]
  BY DEF Init
<1>7. /\ tmp \in [Thread -> Int] /\ devLock = Nobody /\ clkLock = Nobody /\ ref \in [Node -> Int]
  BY DEF Init
<1> QED
  BY <1>1, <1>2, <1>3, <1>4, <1>5, <1>6, <1>7 DEF TInv

\* A step of thread t that leaves it with a call, a place and a walk that fit.
LEMMA TInvThread ==
    ASSUME TInv, NEW t \in Thread, NEW l \in Label,
           NEW j \in {NoJob} \cup Update \cup Switching, NEW w \in Seq(Node),
           pc' = [pc EXCEPT ![t] = l], job' = [job EXCEPT ![t] = j],
           walk' = [walk EXCEPT ![t] = w],
           j = NoJob <=> l = "idle",
           l \in {"visit", "read", "write"} <=> w # <<>>,
           l \in {"lock", "switch"} => j \in Switching,
           j \in Switching => Asks(j),
           j \in Switching /\ l \in {"visit", "read", "write", "switch"} => j.new \in ParentsOf(j.clock),
           tmp' \in [Thread -> Int],
           devLock' \in Thread \cup {Nobody}, clkLock' \in Thread \cup {Nobody},
           up' \in [DOMAIN Table -> Node], \A n \in DOMAIN Table : up'[n] \in ParentsOf(n),
           ref' \in [Node -> Int], hold' \in [Clock -> 0..MaxHold],
           select' \in [DOMAIN Parents -> Clock]
    PROVE  TInv'
<1>1. /\ pc' \in [Thread -> Label] /\ job' \in [Thread -> {NoJob} \cup Update \cup Switching]
      /\ walk' \in [Thread -> Seq(Node)]
      /\ pc'[t] = l /\ job'[t] = j /\ walk'[t] = w
      /\ \A u \in Thread \ {t} : pc'[u] = pc[u] /\ job'[u] = job[u] /\ walk'[u] = walk[u]
  BY DEF TInv
<1>2. ASSUME NEW u \in Thread
      PROVE  /\ job'[u] = NoJob <=> pc'[u] = "idle"
             /\ pc'[u] \in {"visit", "read", "write"} <=> walk'[u] # <<>>
             /\ pc'[u] \in {"lock", "switch"} => job'[u] \in Switching
             /\ job'[u] \in Switching => Asks(job'[u])
             /\ job'[u] \in Switching /\ pc'[u] \in {"visit", "read", "write", "switch"} =>
                  job'[u].new \in ParentsOf(job'[u].clock)
  <2>1. CASE u = t
    BY <1>1, <2>1
  <2>2. CASE u # t
    BY <1>1, <2>2 DEF TInv, Walking
  <2> QED
    BY <2>1, <2>2
<1> QED
  BY <1>1, <1>2 DEF TInv, Walking

LEMMA TInvReturn ==
    ASSUME TInv, NEW t \in Thread, Return(t), walk' = [walk EXCEPT ![t] = <<>>],
           tmp' \in [Thread -> Int],
           up' \in [DOMAIN Table -> Node], \A n \in DOMAIN Table : up'[n] \in ParentsOf(n),
           ref' \in [Node -> Int], hold' \in [Clock -> 0..MaxHold],
           select' \in [DOMAIN Parents -> Clock]
    PROVE  TInv'
<1>1. /\ pc' = [pc EXCEPT ![t] = "idle"] /\ job' = [job EXCEPT ![t] = NoJob]
      /\ devLock' \in Thread \cup {Nobody} /\ clkLock' \in Thread \cup {Nobody}
  BY DEF Return, GoTo, TInv
<1>2. "idle" \in Label /\ <<>> \in Seq(Node) /\ NoJob \notin Switching
  BY Kinds DEF Label
<1> QED
  BY <1>1, <1>2, TInvThread

LEMMA TInvCall ==
    ASSUME TInv, NEW t \in Thread, Call(t)
    PROVE  TInv'
<1>0. pc \in [Thread -> Label] /\ walk \in [Thread -> Seq(Node)] /\ (pc[t] = "idle" => walk[t] = <<>>)
  BY DEF TInv, Walking
<1>1. ASSUME UpdateSource(t) PROVE TInv'
  <2> PICK c \in Held, b \in BOOLEAN :
         /\ IF b THEN hold[c] < MaxHold ELSE hold[c] > 0
         /\ hold' = [hold EXCEPT ![c] = IF b THEN @ + 1 ELSE @ - 1]
         /\ job' = [job EXCEPT ![t] = [call |-> "update", clock |-> c, on |-> b]]
         /\ walk' = [walk EXCEPT ![t] = <<c>>]
    BY <1>1 DEF UpdateSource
  <2>1. c \in Clock /\ <<c>> \in Seq(Node) /\ <<c>> # <<>> /\ "visit" \in Label
    BY NodeTypes DEF Label
  <2>2. hold' \in [Clock -> 0..MaxHold]
    BY SMTT(20), <2>1, Tree DEF TInv
  <2>3. [call |-> "update", clock |-> c, on |-> b] \in Update
    BY DEF Update
  <2> QED
    BY <1>1, <2>1, <2>2, <2>3, Kinds, TInvThread DEF UpdateSource, GoTo, TInv
<1>2. ASSUME NEW k \in {"source", "ioctl"}, NEW c \in Moved[k], NEW p \in Asked[k], pc[t] = "idle",
             job' = [job EXCEPT ![t] =
                      [call |-> k, clock |-> c, new |-> p, old |-> p, on |-> FALSE]],
             pc' = [pc EXCEPT ![t] = "lock"], devLock' \in {t, devLock},
             UNCHANGED <<walk, tmp, clkLock, up, ref, hold, select>>
      PROVE  TInv'
  <2>1. /\ [call |-> k, clock |-> c, new |-> p, old |-> p, on |-> FALSE] \in Switching
        /\ "lock" \in Label
    BY MovedTypes DEF Switching, Label
  <2>2. walk' = [walk EXCEPT ![t] = <<>>] /\ <<>> \in Seq(Node)
    BY <1>0, <1>2
  <2>3. devLock' \in Thread \cup {Nobody}
    BY <1>2 DEF TInv
  <2> PICK j \in Switching : j = [call |-> k, clock |-> c, new |-> p, old |-> p, on |-> FALSE]
    BY <2>1
  <2>4. Asks(j)
    BY DEF Asks
  <2>5. job' = [job EXCEPT ![t] = j]
    BY <1>2
  <2> QED
    BY <1>2, <2>1, <2>2, <2>3, <2>4, <2>5, Kinds, TInvThread DEF TInv
<1>3. ASSUME SetSourceClocks(t) PROVE TInv'
  BY <1>2, <1>3 DEF SetSourceClocks, GoTo
<1>4. ASSUME IoctlSetSourceClock(t) PROVE TInv'
  BY <1>2, <1>4 DEF IoctlSetSourceClock, GoTo
<1> QED
  BY <1>1, <1>3, <1>4 DEF Call

LEMMA TInvLockClock ==
    ASSUME TInv, NEW t \in Thread, LockClock(t)
    PROVE  TInv'
<1>1. /\ pc[t] = "lock" /\ UNCHANGED <<tmp, up, ref, hold, select>> /\ job[t] \in Switching
      /\ walk \in [Thread -> Seq(Node)] /\ walk[t] = <<>> /\ pc \in [Thread -> Label]
  BY DEF LockClock, TInv, Walking
<1>2. CASE Return(t) /\ UNCHANGED walk
  <2>1. walk' = [walk EXCEPT ![t] = <<>>]
    BY <1>1, <1>2
  <2> QED
    BY <1>1, <1>2, <2>1, TInvReturn DEF TInv
<1>3. CASE /\ Accepts(job[t].clock, job[t].new) /\ clkLock' = t /\ UNCHANGED devLock
           /\ job' = [job EXCEPT ![t].old = up[job[t].clock], ![t].on = TRUE]
           /\ IF ref[job[t].clock] > 0
              THEN GoTo(t, "visit") /\ walk' = [walk EXCEPT ![t] = <<job[t].new>>]
              ELSE GoTo(t, "switch") /\ UNCHANGED walk
  <2>1. /\ job[t].clock \in DOMAIN Table /\ up[job[t].clock] \in Clock /\ job[t].new \in Node
        /\ job[t].new \in ParentsOf(job[t].clock)
    <3>1. job[t].call \in {"source", "ioctl"} /\ Asks(job[t])
      BY <1>1, Kinds DEF TInv
    <3>2. /\ job[t].clock \in DOMAIN Table /\ ParentsOf(job[t].clock) \subseteq Clock
          /\ job[t].new \in ParentsOf(job[t].clock)
      BY <1>3, <3>1, MovedTypes DEF Asks
    <3> QED
      BY <3>2, NodeTypes DEF TInv
  <2> PICK j : j = [job[t] EXCEPT !.old = up[job[t].clock], !.on = TRUE]
    OBVIOUS
  <2>2. /\ j \in Switching /\ Asks(j) /\ j.new \in ParentsOf(j.clock)
        /\ job' = [job EXCEPT ![t] = j]
    <3>1. /\ j \in Switching /\ j.new = job[t].new /\ j.clock = job[t].clock
          /\ j.call = job[t].call
      BY <1>1, <2>1 DEF Switching
    <3>3. Asks(job[t])
      BY <1>1 DEF TInv
    <3>2. job' = [job EXCEPT ![t] = [job[t] EXCEPT !.old = up[job[t].clock], !.on = TRUE]]
      BY <1>3
    <3> QED
      BY <2>1, <3>1, <3>2, <3>3 DEF Asks
  <2>3. clkLock' \in Thread \cup {Nobody} /\ devLock' \in Thread \cup {Nobody}
    BY <1>3 DEF TInv
  <2>4. CASE ref[job[t].clock] > 0
    <3> PICK p \in Node : p = job[t].new
      BY <2>1
    <3>1. <<p>> \in Seq(Node) /\ <<p>> # <<>> /\ "visit" \in Label
      BY DEF Label
    <3>2. pc' = [pc EXCEPT ![t] = "visit"] /\ walk' = [walk EXCEPT ![t] = <<p>>]
      BY <1>3, <2>4 DEF GoTo
    <3> QED
      BY <1>1, <2>2, <2>3, <3>1, <3>2, Kinds, TInvThread DEF TInv
  <2>5. CASE ~(ref[job[t].clock] > 0)
    <3>1. pc' = [pc EXCEPT ![t] = "switch"] /\ walk' = [walk EXCEPT ![t] = <<>>]
      BY <1>1, <1>3, <2>5 DEF GoTo
    <3>2. <<>> \in Seq(Node) /\ "switch" \in Label
      BY DEF Label
    <3> QED
      BY <1>1, <2>2, <2>3, <3>1, <3>2, Kinds, TInvThread DEF TInv
  <2> QED
    BY <2>4, <2>5
<1> QED
  BY <1>2, <1>3 DEF LockClock

\* A step within a walk leaves the call as it is.
LEMMA TInvWalkOn ==
    ASSUME TInv, NEW t \in Thread, Walking(t), NEW l \in {"visit", "read", "write"},
           NEW w \in Seq(Node), w # <<>>, job' = job,
           pc' = [pc EXCEPT ![t] = l], walk' = [walk EXCEPT ![t] = w],
           tmp' \in [Thread -> Int], ref' \in [Node -> Int],
           UNCHANGED <<devLock, clkLock, up, hold, select>>
    PROVE  TInv'
<1> PICK j : j = job[t]
  OBVIOUS
<1>1. /\ j \in {NoJob} \cup Update \cup Switching /\ j # NoJob
      /\ j \in Switching => Asks(j) /\ j.new \in ParentsOf(j.clock)
  BY DEF TInv, Walking
<1>2. job' = [job EXCEPT ![t] = j] /\ l \in Label /\ l # "idle" /\ l \notin {"lock", "switch"}
  BY DEF TInv, Label
<1>3. /\ devLock' \in Thread \cup {Nobody} /\ clkLock' \in Thread \cup {Nobody}
      /\ up' \in [DOMAIN Table -> Node] /\ \A n \in DOMAIN Table : up'[n] \in ParentsOf(n)
      /\ hold' \in [Clock -> 0..MaxHold] /\ select' \in [DOMAIN Parents -> Clock]
  BY DEF TInv
<1> QED
  BY <1>1, <1>2, <1>3, TInvThread

\* What is left of a walk.
LEMMA TailTypes ==
    ASSUME NEW w \in Seq(Node), w # <<>>
    PROVE  Head(w) \in Node /\ Tail(w) \in Seq(Node) /\ (Len(w) > 1 => Tail(w) # <<>>)
<1>1. Len(w) \in Nat /\ Len(Tail(w)) = Len(w) - 1 /\ Head(w) \in Node /\ Tail(w) \in Seq(Node)
  BY HeadTailProperties, LenProperties
<1>2. Len(w) > 1 => Len(Tail(w)) # 0
  BY <1>1
<1>3. Tail(w) = <<>> => Len(Tail(w)) = 0
  BY EmptySeq
<1> QED
  BY <1>1, <1>2, <1>3

LEMMA TInvWalk ==
    ASSUME TInv, NEW t \in Thread, Visit(t) \/ ReadCount(t) \/ WriteCount(t)
    PROVE  TInv'
<1>1. /\ Walking(t) /\ walk[t] \in Seq(Node) /\ walk[t] # <<>> /\ walk \in [Thread -> Seq(Node)]
      /\ pc \in [Thread -> Label] /\ UNCHANGED <<up, hold, select>>
  BY DEF Visit, ReadCount, WriteCount, Walking, TInv
<1> PICK v \in Seq(Node) : v = walk[t]
  BY <1>1
<1>2. /\ v # <<>> /\ Head(v) \in Node /\ Tail(v) \in Seq(Node) /\ (Len(v) > 1 => Tail(v) # <<>>)
      /\ walk = [walk EXCEPT ![t] = v]
  BY <1>1, TailTypes
<1>3. /\ job[t] \in {NoJob} \cup Update \cup Switching /\ job[t] # NoJob
      /\ job = [job EXCEPT ![t] = job[t]]
      /\ IsSwitch(t) => job[t] \in Switching
      /\ job[t] \in Switching => Asks(job[t]) /\ job[t].new \in ParentsOf(job[t].clock)
  <2>1. job[t] \in {NoJob} \cup Update \cup Switching /\ job[t] # NoJob
    BY <1>1 DEF TInv, Walking
  <2>2. IsSwitch(t) => job[t] \in Switching
    BY <2>1, Kinds DEF IsSwitch
  <2> QED
    BY <1>1, <2>1, <2>2 DEF TInv, Walking
<1>4. ASSUME Visit(t) PROVE TInv'
  <2>0. pc[t] = "visit" /\ UNCHANGED <<job, devLock, clkLock, ref, tmp>>
        /\ tmp' \in [Thread -> Int] /\ ref' \in [Node -> Int]
    BY <1>4 DEF Visit, TInv
  <2>1. CASE Edge(Head(v), job[t].on) /\ Head(v) \in DOMAIN Table
    <3> PICK n \in Node : n = up[Head(v)]
      BY <2>1 DEF TInv
    <3> PICK w \in Seq(Node) : w = <<n>> \o v /\ w # <<>>
      BY PushTypes
    <3>1. walk' = [walk EXCEPT ![t] = w] /\ pc' = [pc EXCEPT ![t] = "visit"]
      BY <1>1, <1>4, <2>0, <2>1 DEF Visit
    <3> QED
      BY <1>1, <2>0, <3>1, TInvWalkOn
  <2>2. CASE ~(Edge(Head(v), job[t].on) /\ Head(v) \in DOMAIN Table)
    <3>1. walk' = [walk EXCEPT ![t] = v] /\ pc' = [pc EXCEPT ![t] = "read"]
      BY <1>2, <1>4, <2>2 DEF Visit, GoTo
    <3> QED
      BY <1>1, <1>2, <2>0, <3>1, TInvWalkOn
  <2> QED
    BY <2>1, <2>2
<1>5. ASSUME ReadCount(t) PROVE TInv'
  <2>1. /\ walk' = [walk EXCEPT ![t] = v] /\ pc' = [pc EXCEPT ![t] = "write"] /\ job' = job
        /\ UNCHANGED <<devLock, clkLock, up, hold, select>>
    BY <1>2, <1>5 DEF ReadCount, GoTo
  <2>2. tmp' \in [Thread -> Int] /\ ref' \in [Node -> Int]
    BY <1>2, <1>5 DEF ReadCount, TInv
  <2> QED
    BY <1>1, <1>2, <2>1, <2>2, TInvWalkOn
<1>6. ASSUME WriteCount(t) PROVE TInv'
  <2>1. ref' \in [Node -> Int] /\ tmp' \in [Thread -> Int] /\ UNCHANGED <<up, hold, select>>
    BY <1>2, <1>6 DEF WriteCount, TInv
  <2>2. CASE Len(v) > 1
    <3> PICK w \in Seq(Node) : w = Tail(v) /\ w # <<>>
      BY <1>2, <2>2
    <3>1. /\ walk' = [walk EXCEPT ![t] = w] /\ pc' = [pc EXCEPT ![t] = "read"]
          /\ UNCHANGED <<job, devLock, clkLock>>
      BY <1>6, <2>2 DEF WriteCount, GoTo
    <3> QED
      BY <1>1, <2>1, <3>1, TInvWalkOn
  <2>3. CASE IsSwitch(t) /\ Walk(t, job[t].old, FALSE) /\ UNCHANGED <<devLock, clkLock>>
    <3> PICK o \in Node : o = job[t].old
      BY <1>3, <2>3, NodeTypes DEF Switching
    <3> PICK j : j = [job[t] EXCEPT !.on = FALSE]
      OBVIOUS
    <3>1. /\ j \in Switching /\ Asks(j) /\ j.new \in ParentsOf(j.clock)
          /\ job' = [job EXCEPT ![t] = j]
      <4>1. /\ j \in Switching /\ j.new = job[t].new /\ j.clock = job[t].clock
            /\ j.call = job[t].call
        BY <1>3, <2>3 DEF Switching
      <4>2. job' = [job EXCEPT ![t] = [job[t] EXCEPT !.on = FALSE]]
        BY <2>3 DEF Walk
      <4> QED
        BY <1>3, <2>3, <4>1, <4>2 DEF Asks
    <3>2. /\ pc' = [pc EXCEPT ![t] = "visit"] /\ walk' = [walk EXCEPT ![t] = <<o>>]
          /\ <<o>> \in Seq(Node) /\ <<o>> # <<>> /\ "visit" \in Label
      BY <2>3 DEF Walk, GoTo, Label
    <3> QED
      BY <2>1, <2>3, <3>1, <3>2, Kinds, TInvThread DEF TInv
  <2>4. CASE /\ IsSwitch(t) /\ GoTo(t, "switch") /\ walk' = [walk EXCEPT ![t] = <<>>]
             /\ UNCHANGED <<job, devLock, clkLock>>
    <3>1. pc' = [pc EXCEPT ![t] = "switch"] /\ <<>> \in Seq(Node) /\ "switch" \in Label
      BY <2>4 DEF GoTo, Label
    <3> QED
      BY <1>3, <2>1, <2>4, <3>1, TInvThread DEF TInv
  <2>5. CASE walk' = [walk EXCEPT ![t] = <<>>] /\ Return(t)
    BY <2>1, <2>5, TInvReturn DEF TInv
  <2> QED
    BY <1>6, <2>2, <2>3, <2>4, <2>5 DEF WriteCount, AfterWalk
<1> QED
  BY <1>4, <1>5, <1>6

LEMMA TInvSwitch ==
    ASSUME TInv, NEW t \in Thread, Switch(t)
    PROVE  TInv'
<1>1. /\ pc[t] = "switch" /\ job[t] \in Switching /\ Return(t) /\ UNCHANGED <<walk, tmp, ref, hold>>
      /\ walk \in [Thread -> Seq(Node)] /\ walk[t] = <<>>
      /\ Asks(job[t]) /\ job[t].new \in ParentsOf(job[t].clock)
      /\ up' = [up EXCEPT ![job[t].clock] = job[t].new]
      /\ HwUpdateParentClock(job[t].clock, job[t].new)
  BY DEF Switch, TInv, Walking
<1> PICK k \in {"source", "ioctl"} : k = job[t].call
  BY <1>1, Kinds
<1> PICK c \in Moved[k] : c = job[t].clock
  BY <1>1 DEF Asks
<1> PICK p \in Asked[k] : p = job[t].new
  BY <1>1 DEF Asks
<1>2. c \in DOMAIN Table /\ p \in Node /\ p \in Clock /\ p \in ParentsOf(c)
  BY <1>1, MovedTypes, NodeTypes
<1>3. /\ up' \in [DOMAIN Table -> Node] /\ \A n \in DOMAIN Table : up'[n] \in ParentsOf(n)
      /\ select' \in [DOMAIN Parents -> Clock]
  <2>1. /\ up' \in [DOMAIN Table -> Node] /\ \A n \in DOMAIN Table : up'[n] \in ParentsOf(n)
    BY <1>1, <1>2 DEF TInv
  <2>2. select' \in [DOMAIN Parents -> Clock]
    BY <1>1, <1>2 DEF TInv, HwUpdateParentClock
  <2> QED
    BY <2>1, <2>2
<1>4. walk' = [walk EXCEPT ![t] = <<>>]
  BY <1>1
<1> QED
  BY <1>1, <1>3, <1>4, TInvReturn DEF TInv

LEMMA TInvNext == TInv /\ [Next]_vars => TInv'
<1> SUFFICES ASSUME TInv, [Next]_vars PROVE TInv'
  OBVIOUS
<1>1. ASSUME UNCHANGED vars PROVE TInv'
  BY <1>1 DEF vars, TInv, Walking
<1>2. ASSUME NEW t \in Thread, Call(t) \/ Step(t) PROVE TInv'
  BY <1>2, TInvCall, TInvLockClock, TInvWalk, TInvSwitch DEF Step
<1> QED
  BY <1>1, <1>2 DEF Next

\* Every variable keeps its type: every call goes through its own steps, every walk ends
\* when its thread leaves the tree, and a clock only gets a parent that it may have.
THEOREM TypeCorrect == Spec => []TypeOK
<1>1. Init => TInv
  BY TInvInit
<1>2. TInv /\ [Next]_vars => TInv'
  BY TInvNext
<1>3. TInv => TypeOK
  <2> SUFFICES ASSUME TInv PROVE TypeOK
    OBVIOUS
  <2> QED
    BY DEF TInv, TypeOK, Update, Switching, Walking
<1> QED
  BY <1>1, <1>2, <1>3, PTL DEF Spec

\* If the IOCTL is only made for clocks that no device uses and no clock comes from, it
\* never comes between the steps of another call.
THEOREM OwnClocksInTurn == ASSUME Moved["ioctl"] \subseteq Own PROVE Spec => []InTurn
<1>1. Init => TInv
  BY TInvInit
<1>2. TInv /\ [Next]_vars => TInv'
  BY TInvNext
<1>3. ASSUME TInv PROVE InTurn
  <2>1. ASSUME NEW t \in Thread, job[t].call = "ioctl" PROVE job[t].clock \in Own
    <3>1. job[t] \in Switching
      <4>1. job[t] \in {NoJob} \cup Update \cup Switching
        BY <1>3 DEF TInv
      <4>2. NoJob.call # "ioctl" /\ \A j \in Update : j.call # "ioctl"
        BY Kinds DEF NoJob
      <4> QED
        BY <2>1, <4>1, <4>2
    <3> QED
      BY <1>3, <2>1, <3>1 DEF TInv, Asks
  <2> QED
    BY <2>1 DEF InTurn, Intrudes
<1> QED
  BY <1>1, <1>2, <1>3, PTL DEF Spec

=============================================================================
