---------------------------- MODULE ChannelPool ----------------------------
(***************************************************************************)
(* What the DMA driver promises its callers: a channel belongs to at most  *)
(* one holder; a request for n channels is granted with exactly n channels *)
(* or refused with none; a holder gives all its channels back at once.     *)
(***************************************************************************)
EXTENDS Integers, FiniteSets

CONSTANTS
    Channel,
    Single,     \* holders of one channel, reserved in one step
    Group,      \* holders that ask for a number of channels
    Size        \* the numbers they ask for

VARIABLES
    held,       \* the channels of each holder
    asked       \* how many channels a request under way is for

NoRequest == -1

Init ==
    /\ held = [h \in Single \cup Group |-> {}]
    /\ asked = [h \in Group |-> NoRequest]

Unheld == Channel \ UNION {held[h] : h \in Single \cup Group}

Reserve(h, i) ==
    /\ held[h] = {} /\ i \in Unheld
    /\ held' = [held EXCEPT ![h] = {i}]
    /\ UNCHANGED asked

Ask(h, n) ==
    /\ held[h] = {} /\ asked[h] = NoRequest
    /\ asked' = [asked EXCEPT ![h] = n]
    /\ UNCHANGED held

Grant(h, taken) ==
    /\ asked[h] # NoRequest /\ taken \subseteq Unheld /\ Cardinality(taken) = asked[h]
    /\ held' = [held EXCEPT ![h] = taken]
    /\ asked' = [asked EXCEPT ![h] = NoRequest]

\* Only when there are too few channels.
Refuse(h) ==
    /\ asked[h] # NoRequest /\ Cardinality(Unheld) < asked[h]
    /\ asked' = [asked EXCEPT ![h] = NoRequest]
    /\ UNCHANGED held

GiveBack(h) == held' = [held EXCEPT ![h] = {}] /\ UNCHANGED asked

Next ==
    \/ \E h \in Single : \E i \in Channel : Reserve(h, i)
    \/ \E h \in Group :
         \/ \E n \in Size : Ask(h, n)
         \/ \E taken \in SUBSET Channel : Grant(h, taken)
         \/ Refuse(h)
    \/ \E h \in Single \cup Group : GiveBack(h)

Spec == Init /\ [][Next]_<<held, asked>>
=============================================================================
