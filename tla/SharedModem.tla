----------------------------- MODULE SharedModem -----------------------------
(***************************************************************************)
(* What softserial_open and softserial_close promise the processes that    *)
(* share the modem: one of them starts it, the others join, and it is      *)
(* stopped by the last one that leaves, for nobody.  Device is shown to    *)
(* implement it.                                                           *)
(***************************************************************************)
CONSTANT Procs

VARIABLES
    power,   \* what the modem is doing, or "lost" if nothing is promised
    users    \* the processes that have it open

svars == <<power, users>>

STypeOK ==
    /\ power \in {"off", "starting", "on", "stopping", "lost"}
    /\ users \subseteq Procs

SInit ==
    /\ power = "off"
    /\ users = {}

Start ==
    /\ power = "off"
    /\ power' = "starting"
    /\ UNCHANGED users

\* The process that started the modem has it open.
Started(p) ==
    /\ power = "starting"
    /\ power' = "on"
    /\ p \notin users
    /\ users' = users \cup {p}

StartFails ==
    /\ power = "starting"
    /\ users = {}
    /\ power' = "off"
    /\ UNCHANGED users

\* Another one opens it, even before it has been started.
Join(p) ==
    /\ power \in {"starting", "on"}
    /\ p \notin users
    /\ users' = users \cup {p}
    /\ UNCHANGED power

Leave(p) ==
    /\ p \in users
    /\ power = "starting" \/ users # {p}
    /\ users' = users \ {p}
    /\ UNCHANGED power

LastLeaves(p) ==
    /\ power = "on"
    /\ users = {p}
    /\ power' = "stopping"
    /\ users' = {}

Stopped ==
    /\ power = "stopping"
    /\ power' = "off"
    /\ UNCHANGED users

\* The count has gone wrong, or the modem was started while it was being stopped.
Lose ==
    /\ power' = "lost"
    /\ users' = {}

SNext ==
    \/ Start
    \/ StartFails
    \/ \E p \in Procs : Started(p) \/ Join(p) \/ Leave(p) \/ LastLeaves(p)
    \/ Stopped
    \/ Lose

SSpec == SInit /\ [][SNext]_svars
=============================================================================
