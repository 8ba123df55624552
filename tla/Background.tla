----------------------------- MODULE Background -----------------------------
(***************************************************************************)
(* What Real-Time Services promise the modem core, which runs in clm_bg on *)
(* one of the workers: one run at a time; while the device is open a run   *)
(* that is due takes place, and one that has yielded is resumed; no run    *)
(* begins once a close has waited for the last one.  Rts is shown to       *)
(* implement it.                                                           *)
(***************************************************************************)
CONSTANT Workers

VARIABLES
    session,  \* what opens and closes have come to, or "lost" if nothing is promised
    due,      \* a run has been asked for and has not begun
    inside,   \* the workers inside clm_bg
    asleep    \* the run inside has yielded and nobody has resumed it

bvars == <<session, due, inside, asleep>>

BTypeOK ==
    /\ session \in {"off", "opening", "open", "closing", "quiet", "abandoned", "lost"}
    /\ due \in BOOLEAN
    /\ inside \subseteq Workers
    /\ asleep \in BOOLEAN

BInit ==
    /\ session = "off"
    /\ due = FALSE
    /\ inside = {}
    /\ asleep = FALSE

-----------------------------------------------------------------------------

Move(from, to) ==
    /\ session \in from
    /\ session' = to
    /\ UNCHANGED <<due, inside, asleep>>

Open == Move({"off", "abandoned"}, "opening")

\* An open finds nothing left of the last session.
Opened ==
    /\ ~due /\ inside = {}
    /\ Move({"opening"}, "open")

Close == Move({"open"}, "closing")

\* The close has waited for the run it met.
Completed ==
    /\ ~due /\ inside = {}
    /\ Move({"closing"}, "quiet")

GiveUp == Move({"closing"}, "abandoned")

Stop == Move({"quiet"}, "off")

\* The services are started with a run left over.
Lose ==
    /\ session = "opening"
    /\ session' = "lost"
    /\ due' = FALSE
    /\ inside' = {}
    /\ asleep' = FALSE

-----------------------------------------------------------------------------

\* A scheduler that has passed its tests may come late, even after Completed.
Schedule ==
    /\ session \notin {"off", "opening", "lost"}
    /\ ~due /\ inside = {}
    /\ due' = TRUE
    /\ UNCHANGED <<session, inside, asleep>>

Enter(w) ==
    /\ session \notin {"quiet", "off", "lost"}
    /\ due /\ inside = {}
    /\ due' = FALSE
    /\ inside' = {w}
    /\ UNCHANGED <<session, asleep>>

TurnAway ==
    /\ session \notin {"opening", "open", "lost"}
    /\ due
    /\ due' = FALSE
    /\ UNCHANGED <<session, inside, asleep>>

Yield ==
    /\ inside # {} /\ ~asleep
    /\ asleep' = TRUE
    /\ UNCHANGED <<session, due, inside>>

Resume ==
    /\ session \in {"open", "closing", "abandoned"}
    /\ asleep
    /\ asleep' = FALSE
    /\ UNCHANGED <<session, due, inside>>

Finish ==
    /\ inside # {} /\ ~asleep
    /\ inside' = {}
    /\ UNCHANGED <<session, due, asleep>>

BNext ==
    \/ Open \/ Opened \/ Lose
    \/ Close \/ Completed \/ GiveUp \/ Stop
    \/ Schedule \/ TurnAway
    \/ \E w \in Workers : Enter(w)
    \/ Yield \/ Resume \/ Finish

BSpec == BInit /\ [][BNext]_bvars
=============================================================================
