----------------------------- MODULE MCOamEvent -----------------------------
(***************************************************************************)
(* Time is counted in half seconds (a poll is 2), so that a window need    *)
(* not be a whole number of polls.                                         *)
(***************************************************************************)
EXTENDS OamEvent

MCWinMin == [k \in Kind |-> IF k = "FRAME_PERIOD" THEN 1 ELSE 2]
MCWinMax == [k \in Kind |-> IF k = "FRAME_PERIOD" THEN 4 ELSE
                            IF k = "FRAME_SUMM" THEN 6 ELSE
                            IF k = "SYM_PERIOD" THEN 7 ELSE 5]
MCDefWindow == [k \in Kind |->
    CASE k = "SYM_PERIOD" -> 3 [] k = "FRAME" -> 2
      [] k = "FRAME_PERIOD" -> 2 [] k = "FRAME_SUMM" -> 4]
MCDefThreshold == [k \in Kind |-> IF k = "FRAME_SUMM" THEN 2 ELSE 1]

\* Windows that grow and shrink, one that is not a whole number of polls, one that is
\* out of range, and one (9 symbols) that wraps.
MCCommands ==
    {[type |-> "FRAME", win |-> 5, threshold |-> 2],
     [type |-> "FRAME", win |-> 2, threshold |-> 1],
     [type |-> "FRAME", win |-> 1, threshold |-> 1],
     [type |-> "SYM_PERIOD", win |-> 5, threshold |-> 1],
     [type |-> "SYM_PERIOD", win |-> 7, threshold |-> 1]}
=============================================================================
