------------------------- MODULE OamLoopbackProofs -------------------------
(***************************************************************************)
(* The properties of OamLoopback for every width of the revision counter.  *)
(***************************************************************************)
EXTENDS OamLoopback, TLAPS

\* A revision steps to another revision of the same width.
LEMMA RevisionStep ==
    ASSUME NEW r \in 0 .. RevMod - 1
    PROVE  /\ (r + 1) % RevMod \in 0 .. RevMod - 1
           /\ (r + 1) % RevMod # r
<1>1. CASE r = RevMod - 1
  <2>1. (r + 1) % RevMod = 0
    BY <1>1, RevModAssumption, SMT
  <2>2. QED
    BY <1>1, <2>1, RevModAssumption, SMT
<1>2. CASE r # RevMod - 1
  <2>1. (r + 1) % RevMod = r + 1
    BY <1>2, RevModAssumption, SMT
  <2>2. QED
    BY <1>2, <2>1, RevModAssumption, SMT
<1>3. QED
  BY <1>1, <1>2

\* What oam_build_pdu_info does to the fields of the TLV.
LEMMA BuiltTlv ==
    ASSUME TypeOK,
           local_mux_action' \in {"FWD", "DISCARD"},
           local_par_action' \in {"FWD", "LB"},
           NEW changed \in BOOLEAN,
           oam_build_pdu_info(changed)
    PROVE  /\ info_tlv_changed' = FALSE
           /\ revision_next_tx' \in 0 .. RevMod - 1
           /\ changed => revision_next_tx' # revision_next_tx
           /\ ~changed => revision_next_tx' = revision_next_tx
           /\ reported' \in [last : Tlv, before : Tlv]
           /\ reported'.last = [rev |-> revision_next_tx',
                                mux |-> local_mux_action',
                                par |-> local_par_action']
           /\ reported'.before = reported.last
<1>1. revision_next_tx \in 0 .. RevMod - 1
  BY DEF TypeOK
<1>2. /\ (revision_next_tx + 1) % RevMod \in 0 .. RevMod - 1
      /\ (revision_next_tx + 1) % RevMod # revision_next_tx
  BY <1>1, RevisionStep
<1>3. /\ revision_next_tx' \in 0 .. RevMod - 1
      /\ changed => revision_next_tx' # revision_next_tx
      /\ ~changed => revision_next_tx' = revision_next_tx
  BY <1>1, <1>2, Zenon DEF oam_build_pdu_info
<1>4. reported' = [last   |-> [rev |-> revision_next_tx',
                               mux |-> local_mux_action',
                               par |-> local_par_action'],
                   before |-> reported.last]
  BY DEF oam_build_pdu_info
<1>5. reported.last \in Tlv
  BY DEF TypeOK
<1>6. QED
  BY <1>3, <1>4, <1>5 DEF oam_build_pdu_info, Tlv

\* Every step keeps the types.
LEMMA TypeStep == TypeOK /\ [Next]_vars => TypeOK'
<1> SUFFICES ASSUME TypeOK, [Next]_vars PROVE TypeOK'
  OBVIOUS
<1> USE RevModAssumption
<1>z. 0 \in 0 .. RevMod - 1 /\ Nothing \in Tlv
  BY DEF Nothing, Tlv
<1>1. CASE SendInfo
  <2>1. info_tlv_changed \in BOOLEAN
    BY DEF TypeOK
  <2>2. /\ oam_build_pdu_info(info_tlv_changed)
        /\ UNCHANGED <<disc, actions, path, depth>>
    BY <1>1 DEF SendInfo
  <2>3. /\ local_mux_action' \in {"FWD", "DISCARD"}
        /\ local_par_action' \in {"FWD", "LB"}
    BY <2>2 DEF TypeOK, actions
  <2>4. /\ info_tlv_changed' = FALSE
        /\ revision_next_tx' \in 0 .. RevMod - 1
        /\ reported' \in [last : Tlv, before : Tlv]
    BY <2>1, <2>2, <2>3, BuiltTlv
  <2>5. QED
    BY <2>2, <2>4, Zenon DEF TypeOK, actions, path
<1>2. ASSUME NEW on \in BOOLEAN, NEW ok \in BOOLEAN, NEW replied \in BOOLEAN,
             oam_proc_pdu_loopback(on, ok, replied)
      PROVE  TypeOK'
  <2>1. /\ lb_state_self' \in {"NORM", "LB"}
        /\ local_mux_action' \in {"FWD", "DISCARD"}
        /\ local_par_action' \in {"FWD", "LB"}
        /\ UNCHANGED <<disc, depth>>
    BY <1>2 DEF oam_proc_pdu_loopback, oam_mux_par_ctl_req
  <2>2. /\ info_tlv_changed' \in BOOLEAN
        /\ revision_next_tx' \in 0 .. RevMod - 1
        /\ reported' \in [last : Tlv, before : Tlv]
    <3>1. CASE replied
      BY <1>2, <2>1, <3>1, BuiltTlv DEF oam_proc_pdu_loopback
    <3>2. CASE ~replied
      BY <1>2, <3>2 DEF oam_proc_pdu_loopback, TypeOK
    <3>3. QED
      BY <3>1, <3>2
  <2>3. /\ g_oam_loopback' \in BOOLEAN
        /\ loops' \subseteq Port
        /\ disturbed' \in BOOLEAN
    <3>1. oam_sdl_port_lpbk_set(on, ok)
      BY <1>2 DEF oam_proc_pdu_loopback, oam_mux_par_ctl_req
    <3>2. QED
      BY <3>1, Zenon DEF oam_sdl_port_lpbk_set, PortLoopback, path, TypeOK
  <2>4. QED
    BY <2>1, <2>2, <2>3, Zenon DEF TypeOK
<1>3. CASE oam_llid_registration
  BY <1>3, <1>z DEF oam_llid_registration, TypeOK, path
<1>4. CASE onu_pon_link_down_proc
  BY <1>4, <1>z DEF onu_pon_link_down_proc, TypeOK
<1>5. CASE oam_sm_disc_transition
  BY <1>5, Zenon DEF oam_sm_disc_transition, TypeOK, actions, tlv, path
<1>6. ASSUME NEW port \in Port, SetDepth(port) PROVE TypeOK'
  BY <1>6, Zenon DEF SetDepth, TypeOK, actions, tlv
<1>7. CASE UNCHANGED vars
  BY <1>7, Zenon DEF vars, TypeOK, actions, tlv, path
<1>8. QED
  BY <1>1, <1>2, <1>3, <1>4, <1>5, <1>6, <1>7 DEF Next

\* At power-up they hold.
LEMMA TypeInit == Init => TypeOK
<1> SUFFICES ASSUME Init PROVE TypeOK
  OBVIOUS
<1>1. Nothing \in Tlv /\ 0 \in 0 .. RevMod - 1
  BY RevModAssumption DEF Nothing, Tlv
<1>2. reported \in [last : Tlv, before : Tlv]
  BY <1>1 DEF Init
<1>3. loops \subseteq Port
  BY DEF Init
<1>4. QED
  BY <1>1, <1>2, <1>3, Zenon DEF Init, TypeOK

\* Every variable of the loopback keeps its type, whatever the width of the
\* revision counter of oam_build_pdu_info.
THEOREM LoopbackTypeCorrect == Spec => []TypeOK
  BY TypeInit, TypeStep, PTL DEF Spec

(***************************************************************************)
(* FlagIsHardware is inductive with the type invariant.  Only three        *)
(* actions touch what it speaks about.                                     *)
(***************************************************************************)
LEMMA FlagStep == TypeOK /\ FlagIsHardware /\ [Next]_vars => FlagIsHardware'
<1> SUFFICES ASSUME TypeOK, FlagIsHardware, [Next]_vars
             PROVE  FlagIsHardware'
  OBVIOUS
<1>1. CASE UNCHANGED <<path, depth>>
  BY <1>1 DEF path, FlagIsHardware
<1>2. ASSUME NEW on \in BOOLEAN, NEW ok \in BOOLEAN, NEW replied \in BOOLEAN,
             oam_proc_pdu_loopback(on, ok, replied)
      PROVE  FlagIsHardware'
  <2>1. oam_sdl_port_lpbk_set(on, ok) /\ depth' = depth
    BY <1>2 DEF oam_proc_pdu_loopback, oam_mux_par_ctl_req
  <2>2. CASE g_oam_loopback = on
    BY <1>1, <2>1, <2>2 DEF oam_sdl_port_lpbk_set
  <2>3. CASE g_oam_loopback # on
    <3>1. SUFFICES ASSUME ~disturbed'
                   PROVE  loops' = IF g_oam_loopback' THEN {depth} ELSE {}
      BY <2>1, Zenon DEF FlagIsHardware
    <3>2. /\ ~disturbed
          /\ g_oam_loopback' = on
          /\ loops' = IF on THEN loops \cup {depth} ELSE loops \ {depth}
      BY <2>1, <2>3, <3>1, Zenon DEF oam_sdl_port_lpbk_set, PortLoopback
    <3>3. loops = IF ~on THEN {depth} ELSE {}
      BY <2>3, <3>2 DEF FlagIsHardware, TypeOK
    <3>4. QED
      BY <3>2, <3>3
  <2>4. QED
    BY <2>2, <2>3
<1>3. CASE onu_pon_link_down_proc
  BY <1>3 DEF onu_pon_link_down_proc, FlagIsHardware
<1>4. ASSUME NEW port \in Port, SetDepth(port) PROVE FlagIsHardware'
  <2>1. SUFFICES ASSUME ~disturbed'
                 PROVE  loops' = IF g_oam_loopback' THEN {depth'} ELSE {}
    BY DEF FlagIsHardware
  <2>2. ~disturbed /\ ~g_oam_loopback /\ ~g_oam_loopback' /\ loops' = loops
    BY <1>4, <2>1, Zenon DEF SetDepth
  <2>3. QED
    BY <2>2 DEF FlagIsHardware
<1>5. QED
  BY <1>1, <1>2, <1>3, <1>4
     DEF Next, SendInfo, oam_llid_registration, oam_sm_disc_transition, vars

\* g_oam_loopback says what the hardware does, unless a call of
\* oam_sdl_port_lpbk_set failed or the depth changed while it was set.
THEOREM LoopbackFlag == Spec => []FlagIsHardware
<1>1. Init => FlagIsHardware
  BY DEF Init, FlagIsHardware
<1>2. QED
  BY <1>1, FlagStep, LoopbackTypeCorrect, PTL DEF Spec

(***************************************************************************)
(* RevisionTellsState is not inductive: that the next TLV carries either   *)
(* the next revision or the state of the last one needs to be known        *)
(* between TLVs too, from the revision that went out last and from         *)
(* info_tlv_changed.                                                       *)
(***************************************************************************)
LastReport ==
    /\ reported.last.rev = revision_next_tx
    /\ ~info_tlv_changed => /\ reported.last.mux = local_mux_action
                            /\ reported.last.par = local_par_action

RevisionInv == LastReport /\ RevisionTellsState

\* A TLV that is built keeps the invariant if the state changed since the
\* last one only with info_tlv_changed.
LEMMA ReportStep ==
    ASSUME TypeOK, RevisionInv,
           local_mux_action' \in {"FWD", "DISCARD"},
           local_par_action' \in {"FWD", "LB"},
           NEW changed \in BOOLEAN,
           oam_build_pdu_info(changed),
           ~changed => /\ reported.last.mux = local_mux_action'
                       /\ reported.last.par = local_par_action'
    PROVE  RevisionInv'
<1>1. /\ info_tlv_changed' = FALSE
      /\ changed => revision_next_tx' # revision_next_tx
      /\ ~changed => revision_next_tx' = revision_next_tx
      /\ reported'.last = [rev |-> revision_next_tx',
                           mux |-> local_mux_action',
                           par |-> local_par_action']
      /\ reported'.before = reported.last
  BY BuiltTlv, Zenon
<1>2. LastReport'
  BY <1>1 DEF LastReport
<1>3. reported.last.rev = revision_next_tx /\ reported.last \in Tlv
  BY DEF RevisionInv, LastReport, TypeOK
<1>4. RevisionTellsState'
  <2>1. CASE changed
    BY <1>1, <1>3, <2>1 DEF RevisionTellsState
  <2>2. CASE ~changed
    <3>1. reported.last = [rev |-> revision_next_tx',
                           mux |-> local_mux_action',
                           par |-> local_par_action']
      BY <1>1, <1>3, <2>2 DEF Tlv
    <3>2. QED
      BY <1>1, <3>1 DEF RevisionTellsState
  <2>3. QED
    BY <2>1, <2>2
<1>5. QED
  BY <1>2, <1>4 DEF RevisionInv

\* Every step keeps the revision accounted for.
LEMMA RevisionStepInv == TypeOK /\ RevisionInv /\ [Next]_vars => RevisionInv'
<1> SUFFICES ASSUME TypeOK, RevisionInv, [Next]_vars
             PROVE  RevisionInv'
  OBVIOUS
<1>1. CASE UNCHANGED <<actions, tlv>>
  BY <1>1 DEF actions, tlv, RevisionInv, LastReport, RevisionTellsState
<1>2. CASE SendInfo
  <2>1. /\ oam_build_pdu_info(info_tlv_changed)
        /\ UNCHANGED <<local_mux_action, local_par_action>>
    BY <1>2 DEF SendInfo, actions
  <2>2. /\ local_mux_action' \in {"FWD", "DISCARD"}
        /\ local_par_action' \in {"FWD", "LB"}
        /\ info_tlv_changed \in BOOLEAN
    BY <2>1 DEF TypeOK
  <2>3. ~info_tlv_changed => /\ reported.last.mux = local_mux_action'
                             /\ reported.last.par = local_par_action'
    BY <2>1 DEF RevisionInv, LastReport
  <2>4. QED
    BY <2>1, <2>2, <2>3, ReportStep
<1>3. ASSUME NEW on \in BOOLEAN, NEW ok \in BOOLEAN, NEW replied \in BOOLEAN,
             oam_proc_pdu_loopback(on, ok, replied)
      PROVE  RevisionInv'
  <2>1. /\ local_mux_action' \in {"FWD", "DISCARD"}
        /\ local_par_action' \in {"FWD", "LB"}
    BY <1>3 DEF oam_proc_pdu_loopback, oam_mux_par_ctl_req
  <2>2. CASE replied
    <3>1. oam_build_pdu_info(TRUE)
      BY <1>3, <2>2 DEF oam_proc_pdu_loopback
    <3>2. QED
      BY <2>1, <3>1, ReportStep
  <2>3. CASE ~replied
    BY <1>3, <2>3 DEF oam_proc_pdu_loopback, RevisionInv, LastReport,
                      RevisionTellsState
  <2>4. QED
    BY <2>2, <2>3
<1>4. CASE oam_llid_registration
  BY <1>4 DEF oam_llid_registration, RevisionInv, LastReport,
              RevisionTellsState, Nothing
<1>5. CASE onu_pon_link_down_proc
  BY <1>5 DEF onu_pon_link_down_proc, RevisionInv, LastReport,
              RevisionTellsState, Nothing
<1>6. QED
  BY <1>1, <1>2, <1>3, <1>4, <1>5
     DEF Next, oam_sm_disc_transition, SetDepth, vars

\* Two consecutive Information TLVs with the same revision have the same
\* state, for every width of the revision counter above one.
THEOREM LoopbackRevision == Spec => []RevisionTellsState
<1>1. Init => RevisionInv
  BY DEF Init, RevisionInv, LastReport, RevisionTellsState, Nothing
<1>2. RevisionInv => RevisionTellsState
  BY DEF RevisionInv
<1>3. QED
  BY <1>1, <1>2, RevisionStepInv, LoopbackTypeCorrect, PTL DEF Spec

\* A loopback that lost its interface to a registration stays in the hardware
\* until an enable command or a board reset.
THEOREM LoopbackOrphaned == Spec => OrphanedLoopback
<1>1. ASSUME [Next]_vars, g_oam_loopback, lb_state_self = "NORM",
             disc' # "none"
      PROVE  g_oam_loopback' /\ loops' = loops
  <2>1. CASE UNCHANGED path
    BY <1>1, <2>1 DEF path
  <2>2. ASSUME NEW on \in BOOLEAN, NEW ok \in BOOLEAN,
               NEW replied \in BOOLEAN, oam_proc_pdu_loopback(on, ok, replied)
        PROVE  g_oam_loopback' /\ loops' = loops
    <3>1. on /\ oam_sdl_port_lpbk_set(on, ok)
      BY <1>1, <2>2 DEF oam_proc_pdu_loopback, oam_mux_par_ctl_req
    <3>2. QED
      BY <1>1, <2>1, <3>1 DEF oam_sdl_port_lpbk_set
  <2>3. CASE onu_pon_link_down_proc
    BY <1>1, <2>3 DEF onu_pon_link_down_proc
  <2>4. ASSUME NEW port \in Port, SetDepth(port)
        PROVE  g_oam_loopback' /\ loops' = loops
    BY <1>1, <2>4 DEF SetDepth
  <2>5. QED
    BY <1>1, <2>1, <2>2, <2>3, <2>4
       DEF Next, SendInfo, oam_llid_registration, oam_sm_disc_transition, vars
<1>2. QED
  BY <1>1, PTL DEF Spec, OrphanedLoopback
=============================================================================
