---------------------------- MODULE ClockSwitch -----------------------------
(***************************************************************************)
(* What the device clock management promises its drivers: a clock is a      *)
(* switch that many owners share.  It is switched on after an owner claimed *)
(* it, never switched off while somebody owns it, and switched off after    *)
(* the last owner has given it up.                                          *)
(***************************************************************************)
CONSTANTS Clock, Owner

VARIABLES owner,   \* the owners of each clock
          running  \* the clocks that run

vars == <<owner, running>>

TypeOK == owner \in [Clock -> SUBSET Owner] /\ running \in SUBSET Clock

Init == owner = [c \in Clock |-> {}] /\ running = {}

Claim(c, o)  == /\ o \notin owner[c]
                /\ owner' = [owner EXCEPT ![c] = @ \cup {o}]
                /\ UNCHANGED running
GiveUp(c, o) == /\ o \in owner[c]
                /\ owner' = [owner EXCEPT ![c] = @ \ {o}]
                /\ UNCHANGED running
SwitchOn(c)  == owner[c] # {} /\ c \notin running /\ running' = running \cup {c} /\ UNCHANGED owner
SwitchOff(c) == owner[c] = {} /\ c \in running /\ running' = running \ {c} /\ UNCHANGED owner

Next == \E c \in Clock : \/ \E o \in Owner : Claim(c, o) \/ GiveUp(c, o)
                         \/ SwitchOn(c) \/ SwitchOff(c)

Safe == Init /\ [][Next]_vars
Spec == Safe /\ \A c \in Clock : WF_vars(SwitchOn(c)) /\ WF_vars(SwitchOff(c))
=============================================================================
