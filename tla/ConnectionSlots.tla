--------------------------- MODULE ConnectionSlots ---------------------------
(***************************************************************************)
(* What ServerManager promises about Core servers: each server has one     *)
(* slot.  A connection attempt takes a free slot, either fails or turns    *)
(* into the connection that holds the slot, and a connection that has left *)
(* its slot never comes back to one.                                       *)
(***************************************************************************)
CONSTANTS Servers, Conns, None

VARIABLES
    slot,  \* for each server the state of its slot and who holds it
    used   \* the connections that have been begun

vars == <<slot, used>>

Free     == [state |-> "free", conn |-> None]
Busy(c)  == [state |-> "busy", conn |-> c]
Up(c)    == [state |-> "up", conn |-> c]

Init == slot = [s \in Servers |-> Free] /\ used = {}

Begin(s, c) ==
    /\ slot[s] = Free
    /\ c \notin used
    /\ slot' = [slot EXCEPT ![s] = Busy(c)]
    /\ used' = used \cup {c}

Establish(s, c) ==
    /\ slot[s] = Busy(c)
    /\ slot' = [slot EXCEPT ![s] = Up(c)]
    /\ UNCHANGED used

\* One change of the configuration can end connections to several servers.
End(S) ==
    /\ slot' = [s \in Servers |-> IF s \in S THEN Free ELSE slot[s]]
    /\ UNCHANGED used

Next ==
    \/ \E s \in Servers, c \in Conns : Begin(s, c) \/ Establish(s, c)
    \/ \E S \in SUBSET Servers : End(S)

Spec == Init /\ [][Next]_vars
=============================================================================
