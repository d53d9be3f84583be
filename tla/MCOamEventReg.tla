--------------------------- MODULE MCOamEventReg ---------------------------
(***************************************************************************)
(* The link monitor with the statistics at the last registration kept as a *)
(* history variable.                                                       *)
(***************************************************************************)
EXTENDS MCOamEvent

VARIABLE at_reg     \* history: stats when the LLID was last registered

RegInit == Init /\ at_reg = ZeroCounter
RegNext ==
    /\ Next
    /\ at_reg' = CASE Register               -> stats
                   [] onu_pon_link_down_proc -> ZeroCounter
                   [] OTHER                  -> at_reg
RegSpec == RegInit /\ [][RegNext]_<<vars, at_reg>>

\* "reset the port stats and start polling", says the handler of the
\* registration event (port_stats.c:590): after a registration the link
\* monitor counts no error from before it.
FreshAfterRegistration ==
    poll = NoPoll =>
        \A k \in Kind \ {"FRAME_SUMM"} :
            Counted(k) <= Source(stats, k) - Source(at_reg, k)
=============================================================================
