----------------------------- MODULE OamSession -----------------------------
(***************************************************************************)
(* What an OAM session between the OLT and a passive ONU promises, with    *)
(* the frames, timers and state machines left out: a three-way handshake.  *)
(* The ONU speaks only after it was spoken to, the OLT hears the ONU only  *)
(* after that, and the ONU opens the link for all OAMPDUs only after the   *)
(* OLT has heard it.  The link may close again at any time; a              *)
(* registration starts the session afresh.                                 *)
(***************************************************************************)
VARIABLES
    onuHeard,   \* the ONU has accepted the OLT's information
    oltHeard,   \* the OLT has received an Information OAMPDU of the ONU
    open        \* the ONU sends and accepts every OAMPDU

session == <<onuHeard, oltHeard, open>>

SessionInit == onuHeard = FALSE /\ oltHeard = FALSE /\ open = FALSE

Restart == onuHeard' = FALSE /\ oltHeard' = FALSE /\ open' = FALSE

OnuHears == ~onuHeard /\ onuHeard' = TRUE /\ UNCHANGED <<oltHeard, open>>

OltHears ==
    /\ onuHeard /\ ~oltHeard
    /\ oltHeard' = TRUE
    /\ UNCHANGED <<onuHeard, open>>

Open ==
    /\ onuHeard /\ oltHeard /\ ~open
    /\ open' = TRUE
    /\ UNCHANGED <<onuHeard, oltHeard>>

Close == open /\ open' = FALSE /\ UNCHANGED <<onuHeard, oltHeard>>

SessionNext == Restart \/ OnuHears \/ OltHears \/ Open \/ Close

SessionSpec == SessionInit /\ [][SessionNext]_session
=============================================================================
