---------------------------- MODULE OamLoopback ----------------------------
(***************************************************************************)
(* Remote loopback: what the OLT's Loopback Control OAMPDUs do to the OAM  *)
(* interface and, through oam_mux_par.c and oam_sdl_if.c, to the data path *)
(* of the ONU, and what the Information OAMPDUs say about it.              *)
(*                                                                         *)
(* Three things remember whether the ONU loops frames back: the interface  *)
(* (lb_state_self and the mux and parser actions), the static variable     *)
(* g_oam_loopback of oam_sdl_port_lpbk_set, and the hardware.  A           *)
(* registration starts the first afresh and leaves the other two alone.    *)
(*                                                                         *)
(* Of the discovery machine only three stages are kept: no LLID,           *)
(* discovering, and SEND_ANY, where alone Loopback Control OAMPDUs pass    *)
(* oam_rx_rule_passed.  FAULT is entered by a registration only.           *)
(***************************************************************************)
EXTENDS Naturals

CONSTANTS
    RevMod      \* revision_next_tx counts modulo this, 2^16 in the code
ASSUME RevModAssumption == RevMod \in Nat /\ RevMod > 1

Port == {"UNI1", "PON"}
Tlv == [rev : 0 .. RevMod - 1, mux : {"FWD", "DISCARD"}, par : {"FWD", "LB"}]
Nothing == [rev |-> 0, mux |-> "FWD", par |-> "FWD"]

VARIABLES
    disc,               \* "none", "up" or "any"
    lb_state_self,      \* "NORM" or "LB"
    local_mux_action,   \* "FWD" or "DISCARD"
    local_par_action,   \* "FWD" or "LB"
    info_tlv_changed,
    revision_next_tx,
    g_oam_loopback,     \* static variable of oam_sdl_port_lpbk_set
    loops,              \* the ports whose hardware loops back
    depth,              \* CFG_ID_LOOPBACK_DEPTH, as the port it stands for
    reported,           \* history: the last Information TLV, and the one before
    disturbed           \* history: a call failed, or the depth changed while
                        \* frames were looped back, since the board started

path == <<g_oam_loopback, loops, disturbed>>
actions == <<lb_state_self, local_mux_action, local_par_action>>
tlv == <<info_tlv_changed, revision_next_tx, reported>>
vars == <<disc, actions, tlv, path, depth>>

Init ==
    /\ disc = "none"
    /\ lb_state_self = "NORM"
    /\ local_mux_action = "FWD"
    /\ local_par_action = "FWD"
    /\ info_tlv_changed = FALSE
    /\ revision_next_tx = 0
    /\ g_oam_loopback = FALSE
    /\ loops = {}
    /\ depth \in Port
    /\ reported = [last |-> Nothing, before |-> Nothing]
    /\ disturbed = FALSE

(***************************************************************************)
(* The Information TLV                                                     *)
(***************************************************************************)
\* Mutants: the revision is not stepped; it grows past its width.
Mut_RevisionKept(changed) ==
    /\ info_tlv_changed' = FALSE
    /\ UNCHANGED revision_next_tx
    /\ reported' = [last   |-> [rev |-> revision_next_tx',
                                mux |-> local_mux_action',
                                par |-> local_par_action'],
                    before |-> reported.last]

Mut_RevisionUnwrapped(changed) ==
    /\ info_tlv_changed' = FALSE
    /\ revision_next_tx' = IF changed THEN revision_next_tx + 1
                           ELSE revision_next_tx
    /\ reported' = [last   |-> [rev |-> revision_next_tx',
                                mux |-> local_mux_action',
                                par |-> local_par_action'],
                    before |-> reported.last]

\* oam_build_pdu_info, with the actions as they are after the handler.
oam_build_pdu_info(changed) ==
    /\ info_tlv_changed' = FALSE
    /\ revision_next_tx' = IF changed THEN (revision_next_tx + 1) % RevMod
                           ELSE revision_next_tx
    /\ reported' = [last   |-> [rev |-> revision_next_tx',
                                mux |-> local_mux_action',
                                par |-> local_par_action'],
                    before |-> reported.last]

\* An Information OAMPDU that is not the reply to a loopback command.
SendInfo ==
    /\ disc # "none"
    /\ UNCHANGED <<disc, actions, path, depth>>
    /\ oam_build_pdu_info(info_tlv_changed)

(***************************************************************************)
(* The data path                                                           *)
(***************************************************************************)
\* epon_request_onu_port_lpbk_set on the port the depth stands for.
PortLoopback(on) == loops' = IF on THEN loops \cup {depth} ELSE loops \ {depth}

\* Mutant: the port is switched on every time and off never.
Mut_NeverOff(on, ok) ==
    /\ g_oam_loopback' = on
    /\ IF ok /\ on THEN PortLoopback(on) ELSE UNCHANGED loops
    /\ disturbed' = (disturbed \/ ~ok)

\* The flag is set before the calls that can fail; the result is ignored.
oam_sdl_port_lpbk_set(on, ok) ==
    IF g_oam_loopback = on THEN UNCHANGED path
    ELSE /\ g_oam_loopback' = on
         /\ IF ok THEN PortLoopback(on) ELSE UNCHANGED loops
         /\ disturbed' = (disturbed \/ ~ok)

\* The only caller of oam_req_oam_ctl that masks the actions in sets both.
oam_mux_par_ctl_req(on, ok) ==
    /\ local_mux_action' = IF on THEN "DISCARD" ELSE "FWD"
    /\ local_par_action' = IF on THEN "LB" ELSE "FWD"
    /\ oam_sdl_port_lpbk_set(on, ok)

(***************************************************************************)
(* Handlers of the application thread                                      *)
(***************************************************************************)
\* Mutant: a disable command is taken whatever lb_state_self is.
Mut_AnyDisable(on, ok, replied) ==
    /\ disc = "any"
    /\ on => lb_state_self = "NORM"
    /\ lb_state_self' = IF on THEN "LB" ELSE "NORM"
    /\ oam_mux_par_ctl_req(on, ok)
    /\ IF replied THEN oam_build_pdu_info(TRUE)
       ELSE info_tlv_changed' = TRUE /\ UNCHANGED <<revision_next_tx, reported>>
    /\ UNCHANGED <<disc, depth>>

\* A Loopback Control OAMPDU that agrees with lb_state_self is ignored.  ok:
\* the calls below the OAM sublayer succeed; replied: the budget of the
\* transmit machine let the Information OAMPDU out.
oam_proc_pdu_loopback(on, ok, replied) ==
    /\ disc = "any"
    /\ lb_state_self = IF on THEN "NORM" ELSE "LB"
    /\ lb_state_self' = IF on THEN "LB" ELSE "NORM"
    /\ oam_mux_par_ctl_req(on, ok)
    /\ IF replied THEN oam_build_pdu_info(TRUE)
       ELSE info_tlv_changed' = TRUE /\ UNCHANGED <<revision_next_tx, reported>>
    /\ UNCHANGED <<disc, depth>>

\* Registration: oam_intf_init and the FAULT state of the discovery machine.
oam_llid_registration ==
    /\ disc' = "up"
    /\ lb_state_self' = "NORM"
    /\ local_mux_action' = "FWD"
    /\ local_par_action' = "FWD"
    /\ info_tlv_changed' = FALSE
    /\ revision_next_tx' = 0
    /\ reported' = [last |-> Nothing, before |-> Nothing]
    /\ UNCHANGED <<path, depth>>

\* Deregistration: the board resets; the depth is in the flash.
onu_pon_link_down_proc ==
    /\ disc # "none"
    /\ disc' = "none"
    /\ lb_state_self' = "NORM"
    /\ local_mux_action' = "FWD"
    /\ local_par_action' = "FWD"
    /\ info_tlv_changed' = FALSE
    /\ revision_next_tx' = 0
    /\ g_oam_loopback' = FALSE
    /\ loops' = {}
    /\ reported' = [last |-> Nothing, before |-> Nothing]
    /\ disturbed' = FALSE
    /\ UNCHANGED depth

\* The discovery machine reaches SEND_ANY, or leaves it.
oam_sm_disc_transition ==
    /\ disc # "none"
    /\ disc' = IF disc = "up" THEN "any" ELSE "up"
    /\ UNCHANGED <<actions, tlv, path, depth>>

\* The command "app lpbk <depth>".
SetDepth(port) ==
    /\ port # depth
    /\ depth' = port
    /\ disturbed' = (disturbed \/ g_oam_loopback)
    /\ UNCHANGED <<disc, actions, tlv, g_oam_loopback, loops>>

Next ==
    \/ SendInfo
    \/ \E on, ok, replied \in BOOLEAN : oam_proc_pdu_loopback(on, ok, replied)
    \/ oam_llid_registration
    \/ onu_pon_link_down_proc
    \/ oam_sm_disc_transition
    \/ \E port \in Port : SetDepth(port)

Spec == Init /\ [][Next]_vars

(***************************************************************************)
(* Properties                                                              *)
(***************************************************************************)
\* Every variable has its type; the revision stays within its width.
TypeOK ==
    /\ disc \in {"none", "up", "any"}
    /\ lb_state_self \in {"NORM", "LB"}
    /\ local_mux_action \in {"FWD", "DISCARD"}
    /\ local_par_action \in {"FWD", "LB"}
    /\ info_tlv_changed \in BOOLEAN
    /\ revision_next_tx \in 0 .. RevMod - 1
    /\ g_oam_loopback \in BOOLEAN
    /\ loops \subseteq Port
    /\ depth \in Port
    /\ reported \in [last : Tlv, before : Tlv]
    /\ disturbed \in BOOLEAN

\* The static flag says what the hardware does, across commands, failed
\* discoveries and registrations: exactly the configured port loops back while
\* it is set, and none while it is not, unless a call below failed or the
\* depth was changed in the middle of a loopback.
FlagIsHardware ==
    ~disturbed => loops = IF g_oam_loopback THEN {depth} ELSE {}

\* The revision tells the OLT when the state bits changed: two consecutive
\* Information TLVs with the same revision have the same state, even if the
\* reply to a loopback command was dropped for want of budget in between.
RevisionTellsState ==
    reported.last.rev = reported.before.rev => reported.last = reported.before

\* A loopback that a registration has cut off from its interface (the flag is
\* set, lb_state_self is NORM) stays in the hardware until the OLT sends an
\* enable command: a disable command alone is ignored, and only a board reset
\* ends it otherwise.
OrphanedLoopback ==
    [][g_oam_loopback /\ lb_state_self = "NORM" /\ disc' # "none" =>
            g_oam_loopback' /\ loops' = loops]_vars
=============================================================================
