------------------------- MODULE OamControlProofs -------------------------
(***************************************************************************)
(* Proofs about OamControl, for every value of its constants:              *)
(*                                                                         *)
(*   TypeCorrect         Spec => []TypeOK                                  *)
(*   DiscoverySettles    Spec => []DiscSettled                             *)
(*   RunTerminates       Spec => []SmRunTerminates                         *)
(*   RateLimited         Spec => []RateLimit                               *)
(*   NothingLeftPending  Spec => []NothingPending                          *)
(*   StableFlagTrue      Spec => []StableFlag                              *)
(*   KeepAliveSent       Spec => KeepAlive                                 *)
(*   RevisionNeeded      Spec => NewRevisionNeeded                         *)
(*   ExtensionAnswered   Spec => ExtAnswered                               *)
(*                                                                         *)
(* The type lemmas follow the call graph of OamIf from the bottom up: each *)
(* operator maps Intf into Intf.  They rest on Updates, which says that    *)
(* assigning a field a value of its range keeps the record's type.         *)
(*                                                                         *)
(* The other theorems follow it once more.  HInv holds whenever no loop of *)
(* oam_sm_run is under way, LInv inside the loop; Dist and TxDist count    *)
(* the transitions the two machines still have ahead of them, and bound    *)
(* the passes.                                                             *)
(***************************************************************************)
EXTENDS OamControl, TLAPS, WellFoundedInduction

(***************************************************************************)
(* The record                                                              *)
(***************************************************************************)
\* The numbers the code assigns are in the ranges of the fields they go to.
LEMMA Ranges ==
    /\ PktCount \in PduCount
    /\ \A n \in PduCount : n # 0 => n - 1 \in PduCount
    /\ PduTimer \in PduTicks
    /\ \A n \in PduTicks : (IF n > 0 THEN n - 1 ELSE n) \in PduTicks
    /\ LinkLost \in LostTicks
    /\ \A n \in LostTicks : (IF n > 0 THEN n - 1 ELSE n) \in LostTicks
    /\ 0 \in Burst
    /\ \A n \in Burst : n <= PktCount => n + 1 \in Burst
    /\ 0 \in PduCount /\ 0 \in PduTicks /\ 0 \in LostTicks
    BY PktCountAssumption, PduTimerAssumption, LinkLostAssumption
    DEF PduCount, PduTicks, LostTicks, Burst

\* So are the revisions, sequence numbers and versions.
LEMMA Sentinels ==
    /\ NoRev \in RevRx /\ Revs \subseteq RevRx
    /\ NoSeq \in SeqRx /\ Seqs \subseteq SeqRx
    /\ NoVersion \in ExtVer /\ Version \subseteq ExtVer
    BY DEF RevRx, SeqRx, ExtVer

\* The fields of an interface are in their ranges.
LEMMA Fields ==
    ASSUME NEW i \in Intf
    PROVE  /\ i.BEGIN \in BOOLEAN /\ i.valid \in BOOLEAN
           /\ i.state_disc \in DiscState /\ i.state_tx \in TxState
           /\ i.local_satisfied \in BOOLEAN /\ i.remote_state_valid \in BOOLEAN
           /\ i.remote_stable \in BOOLEAN /\ i.local_pdu \in LocalPdu
           /\ i.pdu_cnt \in PduCount /\ i.pdu_timer \in PduTicks
           /\ i.local_lost_link_timer \in LostTicks
           /\ i.pdu_timer_done \in BOOLEAN /\ i.pdu_parm \in PduParm
           /\ i.pdu_func \in PduFunc
           /\ i.ext_status \in ExtStatus /\ i.burst \in Burst
           /\ i.tx \in Seq(TxPdu) /\ i.runaway \in BOOLEAN
           /\ i.lb_self \in BOOLEAN /\ i.pdu_req \in PduReq
    BY Zenon DEF Intf

\* Assigning one field a value of its range gives an interface again.
LEMMA Updates ==
    /\ \A i \in Intf, v \in BOOLEAN : [i EXCEPT !.valid = v] \in Intf
    /\ \A i \in Intf, v \in BOOLEAN : [i EXCEPT !.BEGIN = v] \in Intf
    /\ \A i \in Intf, v \in DiscState : [i EXCEPT !.state_disc = v] \in Intf
    /\ \A i \in Intf, v \in TxState : [i EXCEPT !.state_tx = v] \in Intf
    /\ \A i \in Intf, v \in BOOLEAN : [i EXCEPT !.local_critical_event = v] \in Intf
    /\ \A i \in Intf, v \in BOOLEAN : [i EXCEPT !.local_dying_gasp = v] \in Intf
    /\ \A i \in Intf, v \in BOOLEAN : [i EXCEPT !.local_satisfied = v] \in Intf
    /\ \A i \in Intf, v \in BOOLEAN : [i EXCEPT !.local_stable = v] \in Intf
    /\ \A i \in Intf, v \in BOOLEAN : [i EXCEPT !.remote_state_valid = v] \in Intf
    /\ \A i \in Intf, v \in BOOLEAN : [i EXCEPT !.remote_stable = v] \in Intf
    /\ \A i \in Intf, v \in LocalPdu : [i EXCEPT !.local_pdu = v] \in Intf
    /\ \A i \in Intf, v \in PduCount : [i EXCEPT !.pdu_cnt = v] \in Intf
    /\ \A i \in Intf, v \in PduReq : [i EXCEPT !.pdu_req = v] \in Intf
    /\ \A i \in Intf, v \in PduTicks : [i EXCEPT !.pdu_timer = v] \in Intf
    /\ \A i \in Intf, v \in BOOLEAN : [i EXCEPT !.pdu_timer_done = v] \in Intf
    /\ \A i \in Intf, v \in LostTicks : [i EXCEPT !.local_lost_link_timer = v] \in Intf
    /\ \A i \in Intf, v \in RevRx : [i EXCEPT !.revision_last_rx = v] \in Intf
    /\ \A i \in Intf, v \in SeqRx : [i EXCEPT !.seq_num_last_rx = v] \in Intf
    /\ \A i \in Intf, v \in BOOLEAN : [i EXCEPT !.remote_active = v] \in Intf
    /\ \A i \in Intf, v \in BOOLEAN : [i EXCEPT !.lb_self = v] \in Intf
    /\ \A i \in Intf, v \in PduFunc : [i EXCEPT !.pdu_func = v] \in Intf
    /\ \A i \in Intf, v \in PduParm : [i EXCEPT !.pdu_parm = v] \in Intf
    /\ \A i \in Intf, v \in ExtStatus : [i EXCEPT !.ext_status = v] \in Intf
    /\ \A i \in Intf, v \in BOOLEAN : [i EXCEPT !.ext_valid = v] \in Intf
    /\ \A i \in Intf, v \in ExtVer : [i EXCEPT !.ext_version = v] \in Intf
    /\ \A i \in Intf, v \in Seq(TxPdu) : [i EXCEPT !.tx = v] \in Intf
    /\ \A i \in Intf, v \in BOOLEAN : [i EXCEPT !.sent = v] \in Intf
    /\ \A i \in Intf, v \in BOOLEAN : [i EXCEPT !.dropped = v] \in Intf
    /\ \A i \in Intf, v \in Burst : [i EXCEPT !.burst = v] \in Intf
    /\ \A i \in Intf, v \in BOOLEAN : [i EXCEPT !.runaway = v] \in Intf
    <1>1. \A i \in Intf, v \in BOOLEAN : [i EXCEPT !.valid = v] \in Intf
        BY Zenon DEF Intf
    <1>2. \A i \in Intf, v \in BOOLEAN : [i EXCEPT !.BEGIN = v] \in Intf
        BY Zenon DEF Intf
    <1>3. \A i \in Intf, v \in DiscState : [i EXCEPT !.state_disc = v] \in Intf
        BY Zenon DEF Intf
    <1>4. \A i \in Intf, v \in TxState : [i EXCEPT !.state_tx = v] \in Intf
        BY Zenon DEF Intf
    <1>5. \A i \in Intf, v \in BOOLEAN : [i EXCEPT !.local_critical_event = v] \in Intf
        BY Zenon DEF Intf
    <1>6. \A i \in Intf, v \in BOOLEAN : [i EXCEPT !.local_dying_gasp = v] \in Intf
        BY Zenon DEF Intf
    <1>7. \A i \in Intf, v \in BOOLEAN : [i EXCEPT !.local_satisfied = v] \in Intf
        BY Zenon DEF Intf
    <1>8. \A i \in Intf, v \in BOOLEAN : [i EXCEPT !.local_stable = v] \in Intf
        BY Zenon DEF Intf
    <1>9. \A i \in Intf, v \in BOOLEAN : [i EXCEPT !.remote_state_valid = v] \in Intf
        BY Zenon DEF Intf
    <1>10. \A i \in Intf, v \in BOOLEAN : [i EXCEPT !.remote_stable = v] \in Intf
        BY Zenon DEF Intf
    <1>11. \A i \in Intf, v \in LocalPdu : [i EXCEPT !.local_pdu = v] \in Intf
        BY Zenon DEF Intf
    <1>12. \A i \in Intf, v \in PduCount : [i EXCEPT !.pdu_cnt = v] \in Intf
        BY Zenon DEF Intf
    <1>13. \A i \in Intf, v \in PduReq : [i EXCEPT !.pdu_req = v] \in Intf
        BY Zenon DEF Intf
    <1>14. \A i \in Intf, v \in PduTicks : [i EXCEPT !.pdu_timer = v] \in Intf
        BY Zenon DEF Intf
    <1>15. \A i \in Intf, v \in BOOLEAN : [i EXCEPT !.pdu_timer_done = v] \in Intf
        BY Zenon DEF Intf
    <1>16. \A i \in Intf, v \in LostTicks : [i EXCEPT !.local_lost_link_timer = v] \in Intf
        BY Zenon DEF Intf
    <1>17. \A i \in Intf, v \in RevRx : [i EXCEPT !.revision_last_rx = v] \in Intf
        BY Zenon DEF Intf
    <1>18. \A i \in Intf, v \in SeqRx : [i EXCEPT !.seq_num_last_rx = v] \in Intf
        BY Zenon DEF Intf
    <1>19. \A i \in Intf, v \in BOOLEAN : [i EXCEPT !.remote_active = v] \in Intf
        BY Zenon DEF Intf
    <1>20. \A i \in Intf, v \in BOOLEAN : [i EXCEPT !.lb_self = v] \in Intf
        BY Zenon DEF Intf
    <1>21. \A i \in Intf, v \in PduFunc : [i EXCEPT !.pdu_func = v] \in Intf
        BY Zenon DEF Intf
    <1>22. \A i \in Intf, v \in PduParm : [i EXCEPT !.pdu_parm = v] \in Intf
        BY Zenon DEF Intf
    <1>23. \A i \in Intf, v \in ExtStatus : [i EXCEPT !.ext_status = v] \in Intf
        BY Zenon DEF Intf
    <1>24. \A i \in Intf, v \in BOOLEAN : [i EXCEPT !.ext_valid = v] \in Intf
        BY Zenon DEF Intf
    <1>25. \A i \in Intf, v \in ExtVer : [i EXCEPT !.ext_version = v] \in Intf
        BY Zenon DEF Intf
    <1>26. \A i \in Intf, v \in Seq(TxPdu) : [i EXCEPT !.tx = v] \in Intf
        BY Zenon DEF Intf
    <1>27. \A i \in Intf, v \in BOOLEAN : [i EXCEPT !.sent = v] \in Intf
        BY Zenon DEF Intf
    <1>28. \A i \in Intf, v \in BOOLEAN : [i EXCEPT !.dropped = v] \in Intf
        BY Zenon DEF Intf
    <1>29. \A i \in Intf, v \in Burst : [i EXCEPT !.burst = v] \in Intf
        BY Zenon DEF Intf
    <1>30. \A i \in Intf, v \in BOOLEAN : [i EXCEPT !.runaway = v] \in Intf
        BY Zenon DEF Intf
    <1> QED
        BY <1>1, <1>2, <1>3, <1>4, <1>5, <1>6, <1>7, <1>8,
           <1>9, <1>10, <1>11, <1>12, <1>13, <1>14, <1>15, <1>16,
           <1>17, <1>18, <1>19, <1>20, <1>21, <1>22, <1>23, <1>24,
           <1>25, <1>26, <1>27, <1>28, <1>29, <1>30, Zenon

(***************************************************************************)
(* Types                                                                   *)
(***************************************************************************)
\* Restarting a timer keeps the type.
LEMMA TimerTypes ==
    ASSUME NEW i \in Intf
    PROVE  /\ oam_start_pdu_timer(i) \in Intf
           /\ oam_start_local_lost_link_timer(i) \in Intf
    BY Ranges, Updates
    DEF oam_start_pdu_timer, oam_start_local_lost_link_timer

\* What oam_build_pdu_hdr builds is an OAMPDU.
LEMMA HdrType ==
    ASSUME NEW i \in Intf, NEW code \in {"INFO", "VAR_RSP", "EVENT"}
    PROVE  oam_build_pdu_hdr(i, code) \in TxPdu
    <1>1. ExtToSend(i) \in {"none", "list", "ack", "nack"}
        BY DEF ExtToSend
    <1> QED
        BY <1>1, Zenon DEF Intf, TxPdu, oam_build_pdu_hdr

\* Sending an OAMPDU keeps the type.
LEMMA SendType ==
    ASSUME NEW i \in Intf, NEW p \in TxPdu
    PROVE  oam_send(i, p) \in Intf
    <1>1. Append(i.tx, p) \in Seq(TxPdu)
        BY Fields
    <1> QED
        BY <1>1, Updates DEF oam_send

\* Building an Information OAMPDU keeps the type.
LEMMA BuildInfoType ==
    ASSUME NEW i \in Intf
    PROVE  oam_ctc_build_pdu_info(i) \in Intf
    <1> DEFINE e == CASE ExtToSend(i) = "list" -> "INFO_SNT"
                      [] ExtToSend(i) = "ack"  -> "COMPLETED"
                      [] ExtToSend(i) = "nack" -> "NOTSUPPORTED"
                      [] OTHER                 -> i.ext_status
    <1>1. e \in ExtStatus
        BY Fields DEF ExtStatus
    <1> HIDE DEF e
    <1>2. oam_ctc_build_pdu_info(i) = [i EXCEPT !.ext_status = e]
        BY DEF oam_ctc_build_pdu_info, e
    <1> QED
        BY <1>1, <1>2, Updates

\* The transmit rule keeps the type.
LEMMA TxByRuleType ==
    ASSUME NEW i \in Intf
    PROVE  oam_tx_by_rule(i) \in Intf
    <1>1. /\ oam_send(i, oam_build_pdu_hdr(i, "INFO")) \in Intf
          /\ oam_send(i, oam_build_pdu_hdr(i, "VAR_RSP")) \in Intf
        BY HdrType, SendType
    <1>2. oam_ctc_build_pdu_info(oam_send(i, oam_build_pdu_hdr(i, "INFO"))) \in Intf
        BY <1>1, BuildInfoType
    <1>3. "NULL" \in PduFunc /\ "NULL" \in PduParm
        BY DEF PduFunc, PduParm
    <1>4. [i EXCEPT !.pdu_func = "NULL", !.pdu_parm = "NULL", !.dropped = TRUE] \in Intf
        BY <1>3, Updates
    <1> QED
        BY <1>1, <1>2, <1>3, <1>4, Updates, Zenon DEF oam_tx_by_rule

\* Every entry into a discovery state keeps the type.
LEMMA DiscStepTypes ==
    ASSUME NEW i \in Intf
    PROVE  /\ oam_sm_disc_into_fault(i) \in Intf
           /\ oam_sm_disc_into_passive_wait(i) \in Intf
           /\ oam_sm_disc_into_send_local_remote(i) \in Intf
           /\ oam_sm_disc_into_send_local_remote_ok(i) \in Intf
           /\ oam_sm_disc_into_send_any(i) \in Intf
    <1>1. /\ {"FAULT", "PASSIVE_WAIT", "SEND_LOCAL_REMOTE",
              "SEND_LOCAL_REMOTE_OK", "SEND_ANY"} \subseteq DiscState
          /\ {"RX_INFO", "INFO", "ANY"} \subseteq LocalPdu
        BY DEF DiscState, LocalPdu
    <1>2. oam_sm_disc_into_fault(i) \in Intf
        BY <1>1, Sentinels, TimerTypes, Updates DEF oam_sm_disc_into_fault
    <1>3. oam_sm_disc_into_passive_wait(i) \in Intf
        BY <1>1, Updates DEF oam_sm_disc_into_passive_wait
    <1>4. oam_sm_disc_into_send_local_remote(i) \in Intf
        BY <1>1, Updates DEF oam_sm_disc_into_send_local_remote
    <1>5. oam_sm_disc_into_send_local_remote_ok(i) \in Intf
        BY <1>1, Updates DEF oam_sm_disc_into_send_local_remote_ok
    <1>6. oam_sm_disc_into_send_any(i) \in Intf
        BY <1>1, Updates DEF oam_sm_disc_into_send_any
    <1> QED
        BY <1>2, <1>3, <1>4, <1>5, <1>6

\* A transition of the discovery machine is one of its entries or nothing.
LEMMA DiscTransitionCases ==
    ASSUME NEW i
    PROVE  oam_sm_disc_transition(i) \in
            {oam_sm_disc_into_fault(i), oam_sm_disc_into_passive_wait(i),
             oam_sm_disc_into_send_local_remote(i),
             oam_sm_disc_into_send_local_remote_ok(i),
             oam_sm_disc_into_send_any(i), i}
    BY DEF oam_sm_disc_transition

\* A transition of the discovery machine keeps the type.
LEMMA DiscTransitionType ==
    ASSUME NEW i \in Intf
    PROVE  oam_sm_disc_transition(i) \in Intf
    BY DiscTransitionCases, DiscStepTypes, Zenon

\* Every entry into a transmit state keeps the type.
LEMMA TxStepTypes ==
    ASSUME NEW i \in Intf
    PROVE  /\ oam_sm_tx_into_reset(i) \in Intf
           /\ oam_sm_tx_into_wait_for_tx(i) \in Intf
           /\ oam_sm_tx_into_dec_pdu_cnt(i) \in Intf
           /\ oam_sm_tx_into_tx_oampdu(i) \in Intf
    <1>0. {"RESET", "WAIT_FOR_TX", "DEC_PDU_CNT", "TX_OAMPDU"} \subseteq TxState
        BY DEF TxState
    <1>1. oam_sm_tx_into_reset(i) \in Intf
        BY <1>0, Ranges, TimerTypes, Updates DEF oam_sm_tx_into_reset
    <1>2. oam_sm_tx_into_wait_for_tx(i) \in Intf
        BY <1>0, Updates DEF oam_sm_tx_into_wait_for_tx
    <1>3. oam_sm_tx_into_dec_pdu_cnt(i) \in Intf
        <2>1. (IF i.pdu_req = "NORMAL" /\ i.pdu_cnt # 0
               THEN i.pdu_cnt - 1 ELSE i.pdu_cnt) \in PduCount
            BY Fields, Ranges
        <2> QED
            BY <2>1, <1>0, Updates DEF oam_sm_tx_into_dec_pdu_cnt
    <1>4. [i EXCEPT !.state_tx = "TX_OAMPDU"] \in Intf
        BY <1>0, Updates
    <1> QED
        BY <1>1, <1>2, <1>3, <1>4, TxByRuleType, Zenon
        DEF oam_sm_tx_into_tx_oampdu

\* WAIT_FOR_TX keeps the type.
LEMMA WaitForTxType ==
    ASSUME NEW i \in Intf
    PROVE  WaitForTx(i) \in Intf
    <1>1. {"info", "NULL"} \subseteq PduFunc /\ "NULL" \in PduParm
        BY DEF PduFunc, PduParm
    <1>2. /\ [i EXCEPT !.pdu_func = "info", !.pdu_parm = "NULL"] \in Intf
          /\ [i EXCEPT !.pdu_func = "NULL"] \in Intf
        BY <1>1, Updates
    <1> QED
        BY <1>2, TxStepTypes, Zenon DEF WaitForTx

\* The count of the OAMPDUs sent keeps the type.
LEMMA CountBurstType ==
    ASSUME NEW i \in Intf, NEW j \in Intf
    PROVE  CountBurst(i, j) \in Intf
    <1>1. CASE i.burst <= PktCount
        <2>1. i.burst + 1 \in Burst
            BY <1>1, Fields, Ranges
        <2> QED
            BY <2>1, Updates DEF CountBurst
    <1> QED
        BY <1>1, Zenon DEF CountBurst

\* A transition of the transmit machine keeps the type.
LEMMA TxTransitionType ==
    ASSUME NEW i \in Intf
    PROVE  oam_sm_tx_transition(i) \in Intf
    <1>1. [WaitForTx(i) EXCEPT !.pdu_req = "NONE"] \in Intf
        BY WaitForTxType, Updates DEF PduReq
    <1>2. CountBurst(i, oam_sm_tx_into_tx_oampdu(i)) \in Intf
        BY TxStepTypes, CountBurstType
    <1>3. oam_sm_tx_transition(i) \in
            {oam_sm_tx_into_reset(i), oam_sm_tx_into_wait_for_tx(i),
             [WaitForTx(i) EXCEPT !.pdu_req = "NONE"],
             CountBurst(i, oam_sm_tx_into_tx_oampdu(i))}
        BY Fields DEF oam_sm_tx_transition, TxState
    <1> QED
        BY <1>1, <1>2, <1>3, TxStepTypes, Zenon

\* The loop of oam_sm_run is on an interface and a flag.
Loop == [intf : Intf, moved : BOOLEAN]

\* A pass of the loop keeps the type.
LEMMA SmPassType ==
    ASSUME NEW s \in Loop
    PROVE  SmPass(s) \in Loop
    <1>1. s.intf \in Intf
        BY DEF Loop
    <1>2. oam_sm_tx_transition(oam_sm_disc_transition(s.intf)) \in Intf
        BY <1>1, DiscTransitionType, TxTransitionType
    <1> QED
        BY <1>2 DEF Loop, SmPass

\* oam_sm_run keeps the type.
LEMMA SmRunType ==
    ASSUME NEW i \in Intf
    PROVE  oam_sm_run(i) \in Intf
    <1>1. [intf |-> i, moved |-> TRUE] \in Loop
        BY DEF Loop
    <1>2. \A s \in Loop : SmPass4(s) \in Loop
        BY SmPassType DEF SmPass4
    <1> DEFINE r == SmPass4(SmPass4(SmPass4([intf |-> i, moved |-> TRUE])))
    <1>3. r \in Loop
        BY <1>1, <1>2
    <1> HIDE DEF r
    <1>4. r.intf \in Intf /\ (r.intf.runaway \/ r.moved) \in BOOLEAN
        BY <1>3, Fields DEF Loop
    <1>5. oam_sm_run(i) = [r.intf EXCEPT !.runaway = r.intf.runaway \/ r.moved]
        BY DEF oam_sm_run, r
    <1> QED
        BY <1>4, <1>5, Updates

\* Requests to the control sublayer keep the type.
LEMMA RequestTypes ==
    ASSUME NEW i \in Intf, NEW func \in PduFunc, NEW parm \in PduParm
    PROVE  /\ oam_req_oampdu(i, func, parm) \in Intf
           /\ oam_discovery_send(i, func, parm) \in Intf
    <1> DEFINE j == [i EXCEPT !.pdu_req = RequestClass(i)]
               k == [j EXCEPT !.pdu_func = func, !.pdu_parm = parm]
    <1>1. RequestClass(i) \in PduReq
        BY DEF RequestClass, PduReq
    <1>2. j \in Intf
        BY <1>1, Updates
    <1> HIDE DEF j
    <1>3. k \in Intf
        BY <1>2, Updates
    <1> HIDE DEF k
    <1>4. oam_sm_run(k) \in Intf /\ oam_tx_by_rule(k) \in Intf
        BY <1>3, SmRunType, TxByRuleType
    <1>5. /\ oam_req_oampdu(i, func, parm) \in {j, oam_sm_run(k)}
          /\ oam_discovery_send(i, func, parm) \in {j, oam_tx_by_rule(k)}
        BY Zenon DEF oam_req_oampdu, oam_discovery_send, j, k
    <1> QED
        BY <1>2, <1>4, <1>5, Zenon

\* A change of what the discovery machine reads keeps the type.
LEMMA CtlType ==
    ASSUME NEW i \in Intf, NEW satisfied \in BOOLEAN,
           NEW state_valid \in BOOLEAN, NEW stable \in BOOLEAN
    PROVE  oam_req_oam_ctl(i, satisfied, state_valid, stable) \in Intf
    <1> DEFINE j == [i EXCEPT !.local_satisfied = satisfied,
                              !.remote_state_valid = state_valid,
                              !.remote_stable = stable]
    <1>1. j \in Intf
        BY Updates
    <1> HIDE DEF j
    <1>2. oam_req_oam_ctl(i, satisfied, state_valid, stable)
            \in {j, oam_sm_run(j)}
        BY Zenon DEF oam_req_oam_ctl, j
    <1> QED
        BY <1>1, <1>2, SmRunType, Zenon

\* The interface that is not in use is an interface.
LEMMA ZeroType == ZeroIntf \in Intf
    <1>1. <<>> \in Seq(TxPdu)
        OBVIOUS
    <1> QED
        BY <1>1, Ranges, Sentinels, Zenon
        DEF Intf, ZeroIntf, DiscState, TxState, LocalPdu, PduReq, PduFunc,
            PduParm, ExtStatus

\* So is a newly registered one.
LEMMA RegisterType ==
    ASSUME NEW i
    PROVE  oam_enable(oam_intf_init(i)) \in Intf
    <1>1. [ZeroIntf EXCEPT !.valid = TRUE] \in Intf
        BY ZeroType, Updates
    <1>2. \A j \in Intf : oam_disable(j) \in Intf /\ oam_enable(j) \in Intf
        BY SmRunType, Updates DEF oam_disable, oam_enable
    <1> QED
        BY <1>1, <1>2 DEF oam_intf_init

\* A set of natural numbers that is not empty has a least element.
LEMMA SmallestIndex ==
    ASSUME NEW T \in SUBSET Nat, T # {}
    PROVE  \E k \in T : \A m \in T : k <= m
    <1> DEFINE R == {ss \in Nat \X Nat : ss[1] < ss[2]}
    <1>1. IsWellFoundedOn(R, Nat)
        BY NatLessThanWellFounded, Zenon DEF OpToRel
    <1>2. \A m, k \in Nat : m < k => <<m, k>> \in R
        OBVIOUS
    <1> HIDE DEF R
    <1>3. PICK k \in T : \A m \in T : <<m, k>> \notin R
        BY <1>1, WFMin, Zenon
    <1>4. \A m \in T : ~(m < k)
        BY <1>2, <1>3
    <1> QED
        BY <1>4

\* A version of the OLT's, or one of ours, gives an interface again.
LEMMA ExtTypes ==
    ASSUME NEW i \in Intf, NEW tlv \in ExtTlv
    PROVE  /\ tlv.kind = "short" => ExtShort(i, tlv) \in Intf
           /\ tlv.kind = "list" => ExtList(i, tlv) \in Intf
    <1>1. \A e \in ExtStatus : ExtAdvance(e) \in ExtStatus
        BY DEF ExtAdvance, ExtStatus
    <1>2. {"NACK", "NOTSUPPORTED"} \subseteq ExtStatus
        BY DEF ExtStatus
    <1>3. ASSUME tlv.kind = "short"
          PROVE  ExtShort(i, tlv) \in Intf
        <2>1. tlv.ver \in ExtVer
            BY <1>3, Sentinels DEF ExtTlv
        <2>2. (IF tlv.support THEN ExtAdvance(i.ext_status)
               ELSE "NOTSUPPORTED") \in ExtStatus
            BY <1>1, <1>2, Fields
        <2> QED
            BY <2>1, <2>2, Updates DEF ExtShort
    <1>4. ASSUME tlv.kind = "list"
          PROVE  ExtList(i, tlv) \in Intf
        <2>1. CASE Matched(tlv.vers) = {}
            BY <2>1, <1>2, Updates DEF ExtList
        <2>2. CASE Matched(tlv.vers) # {}
            <3>1. Matched(tlv.vers) \subseteq 1 .. Len(VerList)
                BY DEF Matched
            <3>2. Matched(tlv.vers) \in SUBSET Nat
                BY <3>1, VerListAssumption
            <3>3. \E k \in Matched(tlv.vers) : \A m \in Matched(tlv.vers) : k <= m
                BY <3>2, <2>2, SmallestIndex
            <3>4. ChosenVersion(tlv.vers) \in Version
                BY <3>1, <3>3, VerListAssumption DEF ChosenVersion
            <3>5. ExtAdvance(i.ext_status) \in ExtStatus
                BY <1>1, Fields
            <3> QED
                BY <2>2, <3>4, <3>5, Sentinels, Updates DEF ExtList
        <2> QED
            BY <2>1, <2>2
    <1> QED
        BY <1>3, <1>4

\* CTC extended discovery keeps the type.
LEMMA ExtType ==
    ASSUME NEW i \in Intf, NEW tlv \in ExtTlv
    PROVE  oam_ctc_proc_pdu_info(i, tlv) \in Intf
    <1>1. "info" \in PduFunc /\ "NULL" \in PduParm
        BY DEF PduFunc, PduParm
    <1>2. tlv.kind \in {"none", "short", "list"}
        BY DEF ExtTlv
    <1>3. CASE tlv.kind = "none"
        BY <1>3, Zenon DEF oam_ctc_proc_pdu_info
    <1>4. CASE tlv.kind = "short"
        <2>1. oam_ctc_proc_pdu_info(i, tlv) =
                oam_discovery_send(ExtShort(i, tlv), "info", "NULL")
            BY <1>4 DEF oam_ctc_proc_pdu_info
        <2> QED
            BY <2>1, <1>1, <1>4, ExtTypes, RequestTypes
    <1>5. CASE tlv.kind = "list"
        <2>1. oam_ctc_proc_pdu_info(i, tlv) =
                oam_discovery_send(ExtList(i, tlv), "info", "NULL")
            BY <1>5 DEF oam_ctc_proc_pdu_info
        <2> QED
            BY <2>1, <1>1, <1>5, ExtTypes, RequestTypes
    <1> QED
        BY <1>2, <1>3, <1>4, <1>5

\* Processing a header and a fault keeps the type.
LEMMA HeaderTypes ==
    ASSUME NEW i \in Intf, NEW p \in RxPdu
    PROVE  oam_proc_hdr(i, p) \in Intf /\ RemoteFault(i) \in Intf
    <1>1. p.stable \in BOOLEAN
        BY DEF RxPdu
    <1>2. oam_req_oam_ctl(i, i.local_satisfied, i.remote_state_valid, p.stable)
            \in Intf
        BY <1>1, Fields, CtlType
    <1>3. RemoteFault(i) \in Intf
        BY Fields, CtlType DEF RemoteFault
    <1> QED
        BY <1>2, <1>3, Zenon DEF oam_proc_hdr

\* Processing an Information OAMPDU keeps the type.
LEMMA InfoType ==
    ASSUME NEW i \in Intf, NEW p \in RxPdu, p.code = "INFO"
    PROVE  oam_proc_pdu_info(i, p) \in Intf
    <1>1. /\ p.rev \in Revs /\ p.active \in BOOLEAN /\ p.good \in BOOLEAN
          /\ p.ext \in ExtTlv
        BY DEF RxPdu
    <1> DEFINE a == [i EXCEPT !.revision_last_rx = p.rev,
                              !.remote_active = p.active]
               j == oam_req_oam_ctl(a, p.good, TRUE, i.remote_stable)
               k == oam_req_oampdu(j, "info", "NULL")
    <1>2. a \in Intf
        BY <1>1, Sentinels, Updates
    <1> HIDE DEF a
    <1>3. j \in Intf
        BY <1>1, <1>2, Fields, CtlType
    <1> HIDE DEF j
    <1>4. k \in Intf
        BY <1>3, RequestTypes DEF PduFunc, PduParm
    <1> HIDE DEF k
    <1>5. oam_proc_pdu_info(i, p) \in
            {RemoteFault(i), oam_ctc_proc_pdu_info(i, p.ext),
             oam_ctc_proc_pdu_info(k, p.ext), oam_ctc_proc_pdu_info(j, p.ext)}
        BY Zenon DEF oam_proc_pdu_info, a, j, k
    <1>6. /\ oam_ctc_proc_pdu_info(i, p.ext) \in Intf
          /\ oam_ctc_proc_pdu_info(k, p.ext) \in Intf
          /\ oam_ctc_proc_pdu_info(j, p.ext) \in Intf
        BY <1>1, <1>3, <1>4, ExtType
    <1> QED
        BY <1>5, <1>6, HeaderTypes, Zenon

\* Processing any other OAMPDU keeps the type.
LEMMA OtherPduTypes ==
    ASSUME NEW i \in Intf, NEW p \in RxPdu
    PROVE  /\ p.code = "EVENT" => oam_proc_pdu_event(i, p) \in Intf
           /\ oam_proc_pdu_var_req(i) \in Intf
           /\ p.code = "LOOPBACK" => oam_proc_pdu_loopback(i, p) \in Intf
    <1>1. ASSUME p.code = "EVENT"
          PROVE  oam_proc_pdu_event(i, p) \in Intf
        <2> DEFINE j == [i EXCEPT !.seq_num_last_rx = p.seq]
        <2>1. p.seq \in SeqRx
            BY <1>1, Sentinels DEF RxPdu
        <2>2. j \in Intf
            BY <2>1, Updates
        <2> HIDE DEF j
        <2>3. oam_proc_pdu_event(i, p) \in {RemoteFault(j), j}
            BY Zenon DEF oam_proc_pdu_event, j
        <2> QED
            BY <2>2, <2>3, HeaderTypes, Zenon
    <1>2. oam_proc_pdu_var_req(i) \in Intf
        BY RequestTypes DEF oam_proc_pdu_var_req, PduFunc, PduParm
    <1>3. ASSUME p.code = "LOOPBACK"
          PROVE  oam_proc_pdu_loopback(i, p) \in Intf
        <2> DEFINE j == [i EXCEPT !.lb_self = p.enable]
        <2>1. p.enable \in BOOLEAN
            BY <1>3 DEF RxPdu
        <2>2. j \in Intf
            BY <2>1, Updates
        <2> HIDE DEF j
        <2>3. oam_req_oampdu(j, "info", "NULL") \in Intf
            BY <2>2, RequestTypes DEF PduFunc, PduParm
        <2>4. oam_proc_pdu_loopback(i, p) \in
                {i, oam_req_oampdu(j, "info", "NULL")}
            BY Zenon DEF oam_proc_pdu_loopback, j
        <2> QED
            BY <2>3, <2>4, Zenon
    <1> QED
        BY <1>1, <1>2, <1>3

\* Processing an OAMPDU keeps the type.
LEMMA IndType ==
    ASSUME NEW i \in Intf, NEW p \in RxPdu
    PROVE  oam_ind_oampdu(i, p) \in Intf
    <1> DEFINE j == oam_start_local_lost_link_timer(oam_proc_hdr(i, p))
    <1>1. j \in Intf
        BY HeaderTypes, TimerTypes
    <1> HIDE DEF j
    <1>2. p.code \in {"INFO", "EVENT", "VAR_REQ", "LOOPBACK", "ORG_SPEC",
                      "PASSAVE_PING"}
        BY DEF RxPdu
    <1>3. CASE p.code = "INFO"
        BY <1>1, <1>3, InfoType DEF oam_ind_oampdu, j
    <1>4. CASE p.code = "EVENT"
        BY <1>1, <1>4, OtherPduTypes DEF oam_ind_oampdu, j
    <1>5. CASE p.code = "VAR_REQ"
        BY <1>1, <1>5, OtherPduTypes DEF oam_ind_oampdu, j
    <1>6. CASE p.code = "LOOPBACK"
        BY <1>1, <1>6, OtherPduTypes DEF oam_ind_oampdu, j
    <1>7. CASE p.code \in {"ORG_SPEC", "PASSAVE_PING"}
        BY <1>1, <1>7 DEF oam_ind_oampdu, j
    <1> QED
        BY <1>2, <1>3, <1>4, <1>5, <1>6, <1>7

\* Entering a handler keeps the type.
LEMMA EnterType ==
    ASSUME NEW i \in Intf
    PROVE  Enter(i) \in Intf
    <1>1. <<>> \in Seq(TxPdu)
        OBVIOUS
    <1> QED
        BY <1>1, Updates DEF Enter

\* So does returning from it.
LEMMA ReturnType ==
    ASSUME NEW i \in Intf
    PROVE  Return(i) \in Intf
    <1>1. (IF i.pdu_parm = "frame" THEN "returned" ELSE i.pdu_parm) \in PduParm
        BY Fields DEF PduParm
    <1> QED
        BY <1>1, Updates DEF Return

\* A received frame keeps the type.
LEMMA ReceiveType ==
    ASSUME NEW i \in Intf, NEW p \in RxPdu
    PROVE  oam_ind_oami(i, p) \in Intf
    <1>1. Return(oam_ind_oampdu(Enter(i), p)) \in Intf
        BY EnterType, IndType, ReturnType
    <1> QED
        BY <1>1, EnterType, Zenon DEF oam_ind_oami

\* The one-second tick keeps the type.
LEMMA TickType ==
    ASSUME NEW i \in Intf
    PROVE  oam_keep_alive(i) \in Intf
    <1> DEFINE a == IF i.pdu_timer > 0 THEN i.pdu_timer - 1 ELSE i.pdu_timer
               b == i.pdu_timer_done \/ i.pdu_timer = 1
               c == IF i.local_lost_link_timer > 0
                    THEN i.local_lost_link_timer - 1
                    ELSE i.local_lost_link_timer
               j == [i EXCEPT !.pdu_timer = a, !.pdu_timer_done = b,
                              !.local_lost_link_timer = c]
    <1>1. a \in PduTicks /\ c \in LostTicks
        BY Fields, Ranges
    <1>2. b \in BOOLEAN
        OBVIOUS
    <1>3. oam_keep_alive(i) \in {j, oam_sm_run(j)}
        BY Zenon DEF oam_keep_alive
    <1> HIDE DEF a, b, c
    <1>4. j \in Intf
        BY <1>1, <1>2, Updates
    <1> HIDE DEF j
    <1> QED
        BY <1>3, <1>4, SmRunType, Zenon

\* Every reachable state has its type: the transmit budget, both timers and
\* the status of the extended discovery stay in the ranges oam_if_t gives them.
THEOREM TypeCorrect == Spec => []TypeOK
    <1>1. Init => TypeOK
        BY ZeroType DEF Init, TypeOK
    <1>2. TypeOK /\ [Next]_vars => TypeOK'
        <2> SUFFICES ASSUME TypeOK, [Next]_vars
                     PROVE  TypeOK'
            OBVIOUS
        <2>0. intf \in Intf /\ gasping \in BOOLEAN /\ gasped \in BOOLEAN
            BY DEF TypeOK
        <2>e. \A i \in Intf : Enter(i) \in Intf
            BY EnterType
        <2>1. CASE oam_llid_registration
            BY <2>0, <2>1, RegisterType DEF oam_llid_registration, TypeOK
        <2>2. CASE onu_pon_link_down_proc
            BY <2>2, ZeroType DEF onu_pon_link_down_proc, TypeOK
        <2>3. CASE \E p \in OltPdus : Receive(p)
            <3>1. PICK p \in OltPdus : Receive(p)
                BY <2>3
            <3>2. oam_ind_oami(intf, p) \in Intf
                BY <2>0, ReceiveType, OltPdusAssumption
            <3> QED
                BY <2>0, <3>1, <3>2 DEF Receive, TypeOK
        <2>4. CASE oam_time_msg_proc
            BY <2>0, <2>4, <2>e, TickType DEF oam_time_msg_proc, TypeOK
        <2>5. CASE \E crossed \in BOOLEAN : oam_event_process_polling(crossed)
            <3>1. PICK crossed \in BOOLEAN : oam_event_process_polling(crossed)
                BY <2>5
            <3> DEFINE s == oam_send(Enter(intf),
                                     oam_build_pdu_hdr(intf, "EVENT"))
                       j == IF crossed /\ intf.state_disc = "SEND_ANY"
                            THEN s ELSE Enter(intf)
            <3>2. s \in Intf
                BY <2>0, <2>e, HdrType, SendType
            <3>3. j \in Intf
                BY <3>2, <2>0, <2>e, Zenon
            <3>4. intf' = [j EXCEPT !.local_critical_event = FALSE]
                BY <3>1 DEF oam_event_process_polling
            <3> HIDE DEF j
            <3>5. intf' \in Intf
                BY <3>3, <3>4, Updates
            <3> QED
                BY <2>0, <3>1, <3>5 DEF oam_event_process_polling, TypeOK
        <2>6. CASE DyingGaspBegin
            <3> DEFINE i == [Enter(intf) EXCEPT !.local_dying_gasp = TRUE,
                                                !.local_critical_event = TRUE]
            <3>1. i \in Intf
                BY <2>0, <2>e, Updates
            <3>2. intf' = oam_ctc_build_pdu_info(
                            oam_send(i, oam_build_pdu_hdr(i, "INFO")))
                BY <2>6 DEF DyingGaspBegin
            <3> HIDE DEF i
            <3>3. intf' \in Intf
                BY <3>1, <3>2, HdrType, SendType, BuildInfoType
            <3> QED
                BY <3>3, <2>6 DEF DyingGaspBegin, TypeOK
        <2>7. CASE DyingGaspEnd
            <3>1. intf' \in Intf
                BY <2>0, <2>e, <2>7, Updates DEF DyingGaspEnd
            <3> QED
                BY <2>0, <2>7, <3>1 DEF DyingGaspEnd, TypeOK
        <2>8. CASE UNCHANGED vars
            BY <2>0, <2>8 DEF vars, TypeOK
        <2> QED
            BY <2>1, <2>2, <2>3, <2>4, <2>5, <2>6, <2>7, <2>8 DEF Next
    <1> QED
        BY <1>1, <1>2, PTL DEF Spec

(***************************************************************************)
(* The discovery machine comes to rest                                     *)
(*                                                                         *)
(* The transmit machine leaves alone what the discovery machine reads and  *)
(* writes (SameDisc).  Without BEGIN a pass of oam_sm_run either takes the *)
(* discovery machine one step closer to the state its inputs call for or   *)
(* finds it there (Dist), so after four passes it is there.                *)
(***************************************************************************)
SameDisc(i, j) ==
    /\ j.BEGIN = i.BEGIN
    /\ j.state_disc = i.state_disc
    /\ j.local_satisfied = i.local_satisfied
    /\ j.remote_state_valid = i.remote_state_valid
    /\ j.remote_stable = i.remote_stable

\* The same, but the state of the discovery machine may differ.
SameInputs(i, j) ==
    /\ j.BEGIN = i.BEGIN
    /\ j.local_satisfied = i.local_satisfied
    /\ j.remote_state_valid = i.remote_state_valid
    /\ j.remote_stable = i.remote_stable

\* How many steps the discovery machine is away from rest, at most.
Dist(i) ==
    CASE i.state_disc = "FAULT"                -> 4
      [] i.state_disc = "PASSIVE_WAIT"         ->
            IF i.remote_state_valid THEN 3 ELSE 0
      [] i.state_disc = "SEND_LOCAL_REMOTE"    ->
            IF i.local_satisfied THEN 2 ELSE 0
      [] i.state_disc = "SEND_LOCAL_REMOTE_OK" ->
            IF i.local_satisfied /\ ~i.remote_stable THEN 0 ELSE 1
      [] i.state_disc = "SEND_ANY"             ->
            IF i.local_satisfied /\ i.remote_stable THEN 0 ELSE 1

\* The inductive form of DiscSettled for one interface.
Settled(i) ==
    /\ ~i.BEGIN
    /\ Dist(i) = 0
    /\ i.local_satisfied => i.remote_state_valid

\* Building, sending and the transmit rule are of no concern to discovery.
LEMMA TxRuleSame ==
    ASSUME NEW i \in Intf
    PROVE  SameDisc(i, oam_tx_by_rule(i))
    <1>1. \A k \in Intf : SameDisc(k, oam_ctc_build_pdu_info(k))
        BY DEF Intf, oam_ctc_build_pdu_info, SameDisc
    <1>2. \A k \in Intf, p \in TxPdu : SameDisc(k, oam_send(k, p))
        BY DEF Intf, oam_send, SameDisc
    <1>3. \A k \in Intf : SameDisc(k, [k EXCEPT !.pdu_func = "NULL"])
        BY DEF Intf, SameDisc
    <1>4. SameDisc(i, [i EXCEPT !.pdu_func = "NULL", !.pdu_parm = "NULL",
                                !.dropped = TRUE])
        BY DEF Intf, SameDisc
    <1> DEFINE a == oam_send(i, oam_build_pdu_hdr(i, "INFO"))
               b == oam_ctc_build_pdu_info(a)
               c == oam_send(i, oam_build_pdu_hdr(i, "VAR_RSP"))
    <1>5. a \in Intf /\ b \in Intf /\ c \in Intf
        BY HdrType, SendType, BuildInfoType
    <1>6. SameDisc(i, a) /\ SameDisc(i, c)
        BY <1>2, HdrType
    <1>7. SameDisc(a, b)
        BY <1>1, <1>5
    <1>8. oam_tx_by_rule(i) \in
            {i, [i EXCEPT !.pdu_func = "NULL", !.pdu_parm = "NULL",
                          !.dropped = TRUE],
             [b EXCEPT !.pdu_func = "NULL"], [c EXCEPT !.pdu_func = "NULL"]}
        BY Zenon DEF oam_tx_by_rule
    <1> HIDE DEF a, b, c
    <1>9. /\ SameDisc(b, [b EXCEPT !.pdu_func = "NULL"])
          /\ SameDisc(c, [c EXCEPT !.pdu_func = "NULL"])
        BY <1>3, <1>5
    <1>10. SameDisc(i, i)
        BY DEF SameDisc
    <1>11. /\ SameDisc(i, [b EXCEPT !.pdu_func = "NULL"])
           /\ SameDisc(i, [c EXCEPT !.pdu_func = "NULL"])
        BY <1>6, <1>7, <1>9 DEF SameDisc
    <1> QED
        BY <1>4, <1>8, <1>10, <1>11, Zenon

\* No transition of the transmit machine is, either.
LEMMA TxTransitionSame ==
    ASSUME NEW i \in Intf
    PROVE  SameDisc(i, oam_sm_tx_transition(i))
    <1>1. SameDisc(i, oam_sm_tx_into_reset(i))
        BY DEF Intf, oam_sm_tx_into_reset, oam_start_pdu_timer, SameDisc
    <1>2. SameDisc(i, oam_sm_tx_into_wait_for_tx(i))
        BY DEF Intf, oam_sm_tx_into_wait_for_tx, SameDisc
    <1>3. SameDisc(i, oam_sm_tx_into_dec_pdu_cnt(i))
        BY DEF Intf, oam_sm_tx_into_dec_pdu_cnt, SameDisc
    <1>4. \A k \in Intf : SameDisc(k, oam_sm_tx_into_tx_oampdu(k))
        <2> TAKE k \in Intf
        <2> DEFINE m == [k EXCEPT !.state_tx = "TX_OAMPDU"]
        <2>1. m \in Intf
            BY Updates DEF TxState
        <2>2. SameDisc(k, m)
            BY DEF Intf, SameDisc
        <2> HIDE DEF m
        <2>3. SameDisc(m, oam_tx_by_rule(m))
            BY <2>1, TxRuleSame
        <2>4. oam_sm_tx_into_tx_oampdu(k) = oam_tx_by_rule(m)
            BY DEF oam_sm_tx_into_tx_oampdu, m
        <2> QED
            BY <2>2, <2>3, <2>4 DEF SameDisc
    <1>5. SameDisc(i, WaitForTx(i))
        <2> DEFINE m == [i EXCEPT !.pdu_func = "info", !.pdu_parm = "NULL"]
        <2>1. m \in Intf
            BY Updates DEF PduFunc, PduParm
        <2>2. SameDisc(i, m) /\ SameDisc(i, [i EXCEPT !.pdu_func = "NULL"])
            BY DEF Intf, SameDisc
        <2>3. WaitForTx(i) \in
                {oam_sm_tx_into_reset(i), oam_sm_tx_into_tx_oampdu(m),
                 oam_sm_tx_into_dec_pdu_cnt(i),
                 [i EXCEPT !.pdu_func = "NULL"], i}
            BY Zenon DEF WaitForTx
        <2> HIDE DEF m
        <2>4. SameDisc(m, oam_sm_tx_into_tx_oampdu(m))
            BY <2>1, <1>4
        <2>5. SameDisc(i, oam_sm_tx_into_tx_oampdu(m)) /\ SameDisc(i, i)
            BY <2>2, <2>4 DEF SameDisc
        <2> QED
            BY <1>1, <1>3, <2>2, <2>3, <2>5, Zenon
    <1>6. SameDisc(i, [WaitForTx(i) EXCEPT !.pdu_req = "NONE"])
        <2>1. \A k \in Intf : SameDisc(k, [k EXCEPT !.pdu_req = "NONE"])
            BY DEF Intf, SameDisc
        <2>2. SameDisc(WaitForTx(i), [WaitForTx(i) EXCEPT !.pdu_req = "NONE"])
            BY <2>1, WaitForTxType
        <2> QED
            BY <1>5, <2>2 DEF SameDisc
    <1>7. SameDisc(i, CountBurst(i, oam_sm_tx_into_tx_oampdu(i)))
        <2> DEFINE j == oam_sm_tx_into_tx_oampdu(i)
        <2>1. j \in Intf
            BY TxStepTypes
        <2>2. SameDisc(i, j)
            BY <1>4
        <2> HIDE DEF j
        <2>3. SameDisc(j, [j EXCEPT !.burst = i.burst + 1])
            BY <2>1 DEF Intf, SameDisc
        <2>4. CountBurst(i, j) \in {j, [j EXCEPT !.burst = i.burst + 1]}
            BY Zenon DEF CountBurst
        <2>5. SameDisc(i, [j EXCEPT !.burst = i.burst + 1])
            BY <2>2, <2>3 DEF SameDisc
        <2>6. SameDisc(i, CountBurst(i, j))
            BY <2>2, <2>4, <2>5, Zenon
        <2> QED
            BY <2>6 DEF j
    <1>8. oam_sm_tx_transition(i) \in
            {oam_sm_tx_into_reset(i), oam_sm_tx_into_wait_for_tx(i),
             [WaitForTx(i) EXCEPT !.pdu_req = "NONE"],
             CountBurst(i, oam_sm_tx_into_tx_oampdu(i))}
        BY Fields DEF oam_sm_tx_transition, TxState
    <1> QED
        BY <1>1, <1>2, <1>6, <1>7, <1>8, Zenon

\* A transition of the discovery machine without BEGIN leaves its inputs
\* alone and takes it closer to rest; it changes state unless it is at rest.
LEMMA DiscTransitionStep ==
    ASSUME NEW i \in Intf, ~i.BEGIN
    PROVE  LET j == oam_sm_disc_transition(i) IN
           /\ SameInputs(i, j)
           /\ Dist(i) = 0 => Dist(j) = 0
           /\ Dist(i) # 0 => /\ Dist(j) <= Dist(i) - 1
                             /\ j.state_disc # i.state_disc
    <1>1. /\ i.state_disc \in DiscState /\ i.BEGIN = FALSE
          /\ i.local_satisfied \in BOOLEAN /\ i.remote_stable \in BOOLEAN
          /\ i.remote_state_valid \in BOOLEAN
        BY Fields
    <1>2. /\ SameInputs(i, oam_sm_disc_into_passive_wait(i))
          /\ oam_sm_disc_into_passive_wait(i).state_disc = "PASSIVE_WAIT"
        BY DEF Intf, oam_sm_disc_into_passive_wait, SameInputs
    <1>3. /\ SameInputs(i, oam_sm_disc_into_send_local_remote(i))
          /\ oam_sm_disc_into_send_local_remote(i).state_disc
                = "SEND_LOCAL_REMOTE"
        BY DEF Intf, oam_sm_disc_into_send_local_remote, SameInputs
    <1>4. /\ SameInputs(i, oam_sm_disc_into_send_local_remote_ok(i))
          /\ oam_sm_disc_into_send_local_remote_ok(i).state_disc
                = "SEND_LOCAL_REMOTE_OK"
        BY DEF Intf, oam_sm_disc_into_send_local_remote_ok, SameInputs
    <1>5. /\ SameInputs(i, oam_sm_disc_into_send_any(i))
          /\ oam_sm_disc_into_send_any(i).state_disc = "SEND_ANY"
        BY DEF Intf, oam_sm_disc_into_send_any, SameInputs
    <1>6. CASE i.state_disc = "FAULT"
        <2>1. oam_sm_disc_transition(i) = oam_sm_disc_into_passive_wait(i)
            BY <1>1, <1>6 DEF oam_sm_disc_transition
        <2> QED
            BY <2>1, <1>1, <1>2, <1>6 DEF Dist, SameInputs
    <1>7. CASE i.state_disc = "PASSIVE_WAIT"
        <2>1. oam_sm_disc_transition(i) =
                IF i.remote_state_valid
                THEN oam_sm_disc_into_send_local_remote(i) ELSE i
            BY <1>1, <1>7 DEF oam_sm_disc_transition
        <2> QED
            BY <2>1, <1>1, <1>3, <1>7 DEF Dist, SameInputs
    <1>8. CASE i.state_disc = "SEND_LOCAL_REMOTE"
        <2>1. oam_sm_disc_transition(i) =
                IF i.local_satisfied
                THEN oam_sm_disc_into_send_local_remote_ok(i) ELSE i
            BY <1>1, <1>8 DEF oam_sm_disc_transition
        <2> QED
            BY <2>1, <1>1, <1>4, <1>8 DEF Dist, SameInputs
    <1>9. CASE i.state_disc = "SEND_LOCAL_REMOTE_OK"
        <2>1. oam_sm_disc_transition(i) =
                IF ~i.local_satisfied
                THEN oam_sm_disc_into_send_local_remote(i)
                ELSE IF i.remote_stable THEN oam_sm_disc_into_send_any(i)
                ELSE i
            BY <1>1, <1>9 DEF oam_sm_disc_transition
        <2> QED
            BY <2>1, <1>1, <1>3, <1>5, <1>9 DEF Dist, SameInputs
    <1>10. CASE i.state_disc = "SEND_ANY"
        <2>1. oam_sm_disc_transition(i) =
                IF ~i.local_satisfied
                THEN oam_sm_disc_into_send_local_remote(i)
                ELSE IF ~i.remote_stable
                THEN oam_sm_disc_into_send_local_remote_ok(i)
                ELSE i
            BY <1>1, <1>10 DEF oam_sm_disc_transition
        <2> QED
            BY <2>1, <1>1, <1>3, <1>4, <1>10 DEF Dist, SameInputs
    <1> QED
        BY <1>1, <1>6, <1>7, <1>8, <1>9, <1>10 DEF DiscState

\* Dist is a number, and only its inputs and the state matter to it.
LEMMA DistFacts ==
    /\ \A i \in Intf : Dist(i) \in 0 .. 4
    /\ \A i, j \in Intf : SameDisc(i, j) => Dist(i) = Dist(j)
    <1>1. ASSUME NEW i \in Intf
          PROVE  Dist(i) \in 0 .. 4
        BY Fields DEF Dist, DiscState
    <1>2. ASSUME NEW i \in Intf, NEW j \in Intf, SameDisc(i, j)
          PROVE  Dist(i) = Dist(j)
        BY <1>2 DEF Dist, SameDisc
    <1> QED
        BY <1>1, <1>2

\* The loop stops only at rest.
LoopOK(s) == ~s.intf.BEGIN /\ (s.moved \/ Dist(s.intf) = 0)

\* A pass of the loop brings the discovery machine closer to rest.
LEMMA SmPassStep ==
    ASSUME NEW s \in Loop, LoopOK(s)
    PROVE  LET t == SmPass(s) IN
           /\ t \in Loop /\ LoopOK(t) /\ SameInputs(s.intf, t.intf)
           /\ Dist(t.intf) = 0 \/ Dist(t.intf) <= Dist(s.intf) - 1
    <1> DEFINE i == s.intf
               j == oam_sm_disc_transition(i)
               k == oam_sm_tx_transition(j)
               t == SmPass(s)
    <1>0. i \in Intf /\ ~i.BEGIN /\ t \in Loop
        BY SmPassType DEF Loop, LoopOK
    <1>1. CASE ~s.moved
        <2>1. t = s
            BY <1>1 DEF SmPass
        <2> QED
            BY <2>1, <1>0, <1>1 DEF LoopOK, SameInputs
    <1>2. CASE s.moved
        <2>1. j \in Intf /\ k \in Intf
            BY <1>0, DiscTransitionType, TxTransitionType
        <2>2. SameDisc(j, k)
            BY <2>1, TxTransitionSame
        <2>3. /\ SameInputs(i, j)
              /\ Dist(i) = 0 => Dist(j) = 0
              /\ Dist(i) # 0 => /\ Dist(j) <= Dist(i) - 1
                                /\ j.state_disc # i.state_disc
            BY <1>0, DiscTransitionStep
        <2>4. t.intf = k
            BY <1>2 DEF SmPass
        <2>5. t.moved <=> k.state_disc # i.state_disc \/ k.state_tx # i.state_tx
            BY <1>2 DEF SmPass
        <2> HIDE DEF i, j, k, t
        <2>6. Dist(k) = Dist(j) /\ SameInputs(i, k)
            BY <2>1, <2>2, <2>3, DistFacts DEF SameDisc, SameInputs
        <2>7. ~k.BEGIN
            BY <1>0, <2>6 DEF SameInputs
        <2>8. t.moved \/ Dist(k) = 0
            BY <2>2, <2>3, <2>5, <2>6 DEF SameDisc
        <2>9. Dist(k) = 0 \/ Dist(k) <= Dist(i) - 1
            BY <2>3, <2>6
        <2>10. t \in Loop /\ LoopOK(t) /\ SameInputs(i, t.intf)
            BY <1>0, <2>4, <2>6, <2>7, <2>8 DEF LoopOK
        <2> QED
            BY <2>4, <2>9, <2>10 DEF i, t
    <1> QED
        BY <1>0, <1>1, <1>2 DEF Loop

\* Four passes reach rest, and further ones stay there.
LEMMA SmPass4Step ==
    ASSUME NEW s \in Loop, LoopOK(s)
    PROVE  LET t == SmPass4(s) IN
           /\ t \in Loop /\ LoopOK(t) /\ SameInputs(s.intf, t.intf)
           /\ Dist(t.intf) = 0
    <1> DEFINE a == SmPass(s)
               b == SmPass(a)
               c == SmPass(b)
               d == SmPass(c)
    <1>1. /\ a \in Loop /\ LoopOK(a) /\ SameInputs(s.intf, a.intf)
          /\ Dist(a.intf) = 0 \/ Dist(a.intf) <= Dist(s.intf) - 1
        BY SmPassStep
    <1> HIDE DEF a
    <1>2. /\ b \in Loop /\ LoopOK(b) /\ SameInputs(a.intf, b.intf)
          /\ Dist(b.intf) = 0 \/ Dist(b.intf) <= Dist(a.intf) - 1
        BY <1>1, SmPassStep
    <1> HIDE DEF b
    <1>3. /\ c \in Loop /\ LoopOK(c) /\ SameInputs(b.intf, c.intf)
          /\ Dist(c.intf) = 0 \/ Dist(c.intf) <= Dist(b.intf) - 1
        BY <1>2, SmPassStep
    <1> HIDE DEF c
    <1>4. /\ d \in Loop /\ LoopOK(d) /\ SameInputs(c.intf, d.intf)
          /\ Dist(d.intf) = 0 \/ Dist(d.intf) <= Dist(c.intf) - 1
        BY <1>3, SmPassStep
    <1> HIDE DEF d
    <1>5. /\ s.intf \in Intf /\ a.intf \in Intf /\ b.intf \in Intf
          /\ c.intf \in Intf /\ d.intf \in Intf
        BY <1>1, <1>2, <1>3, <1>4 DEF Loop
    <1>6. /\ Dist(s.intf) \in 0 .. 4 /\ Dist(a.intf) \in 0 .. 4
          /\ Dist(b.intf) \in 0 .. 4 /\ Dist(c.intf) \in 0 .. 4
          /\ Dist(d.intf) \in 0 .. 4
        BY <1>5, DistFacts
    <1>7. Dist(d.intf) = 0
        BY <1>1, <1>2, <1>3, <1>4, <1>6
    <1>8. SameInputs(s.intf, d.intf)
        BY <1>1, <1>2, <1>3, <1>4 DEF SameInputs
    <1>9. SmPass4(s) = d
        BY DEF SmPass4, a, b, c, d
    <1> QED
        BY <1>4, <1>7, <1>8, <1>9

\* oam_sm_run without BEGIN leaves the inputs alone and ends at rest.
LEMMA SmRunSettles ==
    ASSUME NEW i \in Intf, ~i.BEGIN
    PROVE  LET j == oam_sm_run(i) IN
           ~j.BEGIN /\ SameInputs(i, j) /\ Dist(j) = 0
    <1> DEFINE s == [intf |-> i, moved |-> TRUE]
               a == SmPass4(s)
               b == SmPass4(a)
               r == SmPass4(b)
    <1>1. s \in Loop /\ LoopOK(s) /\ s.intf = i
        BY DEF Loop, LoopOK
    <1>2. a \in Loop /\ LoopOK(a) /\ SameInputs(s.intf, a.intf)
        BY <1>1, SmPass4Step
    <1> HIDE DEF a
    <1>3. b \in Loop /\ LoopOK(b) /\ SameInputs(a.intf, b.intf)
        BY <1>2, SmPass4Step
    <1> HIDE DEF b
    <1>4. /\ r \in Loop /\ LoopOK(r) /\ SameInputs(b.intf, r.intf)
          /\ Dist(r.intf) = 0
        BY <1>3, SmPass4Step
    <1>5. oam_sm_run(i) = [r.intf EXCEPT !.runaway = r.intf.runaway \/ r.moved]
        BY DEF oam_sm_run, r, b, a, s
    <1> HIDE DEF r
    <1>6. r.intf \in Intf
        BY <1>4 DEF Loop
    <1>7. SameDisc(r.intf, oam_sm_run(i))
        BY <1>5, <1>6 DEF Intf, SameDisc
    <1>8. Dist(oam_sm_run(i)) = 0
        BY <1>4, <1>6, <1>7, DistFacts, SmRunType
    <1>9. SameInputs(i, oam_sm_run(i))
        BY <1>1, <1>2, <1>3, <1>4, <1>7 DEF SameInputs, SameDisc
    <1> QED
        BY <1>8, <1>9 DEF SameInputs

\* A transition with BEGIN makes no interface satisfied.
LEMMA BeginUnsatisfied ==
    ASSUME NEW i \in Intf, i.BEGIN, ~i.local_satisfied
    PROVE  ~oam_sm_run(i).local_satisfied
    <1> DEFINE Ok(s) == s.intf.BEGIN /\ ~s.intf.local_satisfied
    <1>1. ASSUME NEW s \in Loop, Ok(s)
          PROVE  SmPass(s) \in Loop /\ Ok(SmPass(s))
        <2> DEFINE j == oam_sm_disc_transition(s.intf)
        <2>0. s.intf \in Intf
            BY DEF Loop
        <2>1. j = oam_sm_disc_into_fault(s.intf)
            BY <1>1, <2>0, Fields DEF oam_sm_disc_transition
        <2>2. /\ oam_sm_disc_into_fault(s.intf).BEGIN = s.intf.BEGIN
              /\ oam_sm_disc_into_fault(s.intf).local_satisfied = FALSE
            BY <2>0 DEF Intf, oam_sm_disc_into_fault,
                        oam_start_local_lost_link_timer
        <2>3. j \in Intf
            BY <2>0, DiscTransitionType
        <2>4. SameDisc(j, oam_sm_tx_transition(j))
            BY <2>3, TxTransitionSame
        <2>5. SmPass(s).intf \in {s.intf, oam_sm_tx_transition(j)}
            BY DEF SmPass
        <2> QED
            BY <1>1, <2>1, <2>2, <2>4, <2>5, SmPassType DEF SameDisc
    <1> DEFINE z == [intf |-> i, moved |-> TRUE]
               r == SmPass4(SmPass4(SmPass4(z)))
    <1>2. z \in Loop /\ Ok(z)
        BY DEF Loop
    <1>3. \A s \in Loop : Ok(s) => SmPass(s) \in Loop /\ Ok(SmPass(s))
        BY <1>1
    <1> HIDE DEF Ok
    <1>4. ASSUME NEW s \in Loop, Ok(s)
          PROVE  SmPass4(s) \in Loop /\ Ok(SmPass4(s))
        BY <1>3, <1>4 DEF SmPass4
    <1>5. r \in Loop /\ Ok(r)
        BY <1>2, <1>4
    <1>6. oam_sm_run(i) = [r.intf EXCEPT !.runaway = r.intf.runaway \/ r.moved]
        BY DEF oam_sm_run
    <1> HIDE DEF r
    <1>7. r.intf \in Intf
        BY <1>5 DEF Loop
    <1>8. SameDisc(r.intf, oam_sm_run(i))
        BY <1>6, <1>7 DEF Intf, SameDisc
    <1> QED
        BY <1>5, <1>8 DEF SameDisc, Ok

\* What the discovery machine does not read does not unsettle it.
LEMMA SettledSame ==
    ASSUME NEW i \in Intf, NEW j \in Intf, Settled(i), SameDisc(i, j)
    PROVE  Settled(j)
    BY DistFacts DEF Settled, SameDisc

\* A run of the machines settles every interface whose inputs make sense.
LEMMA RunSettled ==
    ASSUME NEW i \in Intf, ~i.BEGIN,
           i.local_satisfied => i.remote_state_valid
    PROVE  Settled(oam_sm_run(i))
    BY SmRunSettles DEF Settled, SameInputs

\* Requests for transmission leave a settled interface settled.
LEMMA RequestsSettled ==
    ASSUME NEW i \in Intf, NEW func \in PduFunc, NEW parm \in PduParm,
           Settled(i)
    PROVE  /\ Settled(oam_req_oampdu(i, func, parm))
           /\ Settled(oam_discovery_send(i, func, parm))
    <1> DEFINE j == [i EXCEPT !.pdu_req = RequestClass(i)]
               k == [j EXCEPT !.pdu_func = func, !.pdu_parm = parm]
    <1>1. RequestClass(i) \in PduReq
        BY DEF RequestClass, PduReq
    <1>2. j \in Intf
        BY <1>1, Updates
    <1>3. SameDisc(i, j)
        BY DEF Intf, SameDisc
    <1>0. /\ oam_req_oampdu(i, func, parm) \in {j, oam_sm_run(k)}
          /\ oam_discovery_send(i, func, parm) \in {j, oam_tx_by_rule(k)}
        BY Zenon DEF oam_req_oampdu, oam_discovery_send
    <1> HIDE DEF j
    <1>4. k \in Intf
        BY <1>2, Updates
    <1>5. SameDisc(j, k)
        BY <1>2 DEF Intf, SameDisc
    <1> HIDE DEF k
    <1>6. SameDisc(i, k) /\ ~k.BEGIN
        BY <1>3, <1>5 DEF SameDisc, Settled
    <1>7. Settled(j)
        BY <1>2, <1>3, SettledSame
    <1>8. Settled(oam_sm_run(k))
        BY <1>4, <1>6, RunSettled DEF Settled, SameDisc
    <1>9. SameDisc(i, oam_tx_by_rule(k))
        BY <1>4, <1>6, TxRuleSame DEF SameDisc
    <1>10. Settled(oam_tx_by_rule(k))
        BY <1>4, <1>9, TxByRuleType, SettledSame
    <1> QED
        BY <1>0, <1>7, <1>8, <1>10

\* So does a change of its inputs, since it runs the machines.
LEMMA CtlSettled ==
    ASSUME NEW i \in Intf, NEW satisfied \in BOOLEAN,
           NEW state_valid \in BOOLEAN, NEW stable \in BOOLEAN,
           Settled(i), satisfied => state_valid
    PROVE  Settled(oam_req_oam_ctl(i, satisfied, state_valid, stable))
    <1> DEFINE j == [i EXCEPT !.local_satisfied = satisfied,
                              !.remote_state_valid = state_valid,
                              !.remote_stable = stable]
    <1>1. j \in Intf
        BY Updates
    <1>2. /\ j.BEGIN = i.BEGIN
          /\ j.state_disc = i.state_disc
          /\ j.local_satisfied = satisfied /\ j.remote_stable = stable
          /\ j.remote_state_valid = state_valid
        BY DEF Intf
    <1>3. oam_req_oam_ctl(i, satisfied, state_valid, stable) =
            IF \/ satisfied # i.local_satisfied
               \/ state_valid # i.remote_state_valid
               \/ stable # i.remote_stable
            THEN oam_sm_run(j) ELSE j
        BY DEF oam_req_oam_ctl
    <1> HIDE DEF j
    <1>4. ~j.BEGIN
        BY <1>2 DEF Settled
    <1>5. Settled(oam_sm_run(j))
        BY <1>1, <1>2, <1>4, RunSettled
    <1>6. CASE /\ satisfied = i.local_satisfied
               /\ state_valid = i.remote_state_valid
               /\ stable = i.remote_stable
        <2>1. SameDisc(i, j)
            BY <1>2, <1>6 DEF SameDisc
        <2> QED
            BY <1>1, <1>2, <1>3, <1>6, <2>1, SettledSame
    <1> QED
        BY <1>3, <1>5, <1>6

\* So does the extended discovery.
LEMMA ExtSettled ==
    ASSUME NEW i \in Intf, NEW tlv \in ExtTlv, Settled(i)
    PROVE  Settled(oam_ctc_proc_pdu_info(i, tlv))
    <1>1. CASE tlv.kind = "none"
        BY <1>1, Zenon DEF oam_ctc_proc_pdu_info
    <1>2. CASE tlv.kind # "none"
        <2> DEFINE j == IF tlv.kind = "short" THEN ExtShort(i, tlv)
                        ELSE ExtList(i, tlv)
        <2>1. j \in Intf
            BY <1>2, ExtTypes DEF ExtTlv
        <2>2. SameDisc(i, ExtShort(i, tlv))
            BY DEF Intf, ExtShort, SameDisc
        <2>3. SameDisc(i, ExtList(i, tlv))
            BY DEF Intf, ExtList, SameDisc
        <2>4. SameDisc(i, j)
            BY <2>2, <2>3, Zenon
        <2>5. oam_ctc_proc_pdu_info(i, tlv) =
                oam_discovery_send(j, "info", "NULL")
            BY <1>2 DEF oam_ctc_proc_pdu_info
        <2> HIDE DEF j
        <2>6. Settled(j)
            BY <2>1, <2>4, SettledSame
        <2> QED
            BY <2>1, <2>5, <2>6, RequestsSettled DEF PduFunc, PduParm
    <1> QED
        BY <1>1, <1>2

\* The processing of every kind of OAMPDU leaves the interface settled.
LEMMA ReceiveSettled ==
    ASSUME NEW i \in Intf, NEW p \in RxPdu, Settled(i)
    PROVE  Settled(oam_ind_oami(i, p))
    <1>1. \A k \in Intf : Settled(k) => Settled(RemoteFault(k))
        BY Fields, CtlSettled DEF RemoteFault
    <1>2. \A k \in Intf : Enter(k) \in Intf /\ SameDisc(k, Enter(k))
        <2>1. \A k \in Intf : SameDisc(k, Enter(k))
            BY DEF Intf, Enter, SameDisc
        <2> QED
            BY <2>1, EnterType
    <1>3. Settled(Enter(i)) /\ Enter(i) \in Intf
        BY <1>2, SettledSame
    <1> DEFINE e == Enter(i)
               h == oam_proc_hdr(e, p)
               j == oam_start_local_lost_link_timer(h)
               a == oam_ind_oampdu(e, p)
    <1> HIDE DEF e
    <1>4. e \in Intf /\ Settled(e)
        BY <1>3 DEF e
    <1>5. h \in Intf /\ Settled(h)
        <2>1. p.stable \in BOOLEAN
            BY DEF RxPdu
        <2>2. e.local_satisfied => e.remote_state_valid
            BY <1>4 DEF Settled
        <2>3. Settled(oam_req_oam_ctl(e, e.local_satisfied,
                                      e.remote_state_valid, p.stable))
            BY <1>4, <2>1, <2>2, Fields, CtlSettled
        <2> QED
            BY <1>4, <2>3, HeaderTypes, Zenon DEF oam_proc_hdr
    <1> HIDE DEF h
    <1>6. j \in Intf /\ Settled(j)
        <2>1. SameDisc(h, j)
            BY <1>5 DEF Intf, oam_start_local_lost_link_timer, SameDisc
        <2> QED
            BY <1>5, <2>1, TimerTypes, SettledSame
    <1>7. a = CASE p.code = "INFO"     -> oam_proc_pdu_info(j, p)
                [] p.code = "EVENT"    -> oam_proc_pdu_event(j, p)
                [] p.code = "VAR_REQ"  -> oam_proc_pdu_var_req(j)
                [] p.code = "LOOPBACK" -> oam_proc_pdu_loopback(j, p)
                [] OTHER               -> j
        BY DEF oam_ind_oampdu, h
    <1> HIDE DEF j
    <1>8. ASSUME p.code = "INFO"
          PROVE  Settled(a)
        <2>1. /\ p.rev \in Revs /\ p.active \in BOOLEAN /\ p.good \in BOOLEAN
              /\ p.ext \in ExtTlv
            BY <1>8 DEF RxPdu
        <2> DEFINE b == [j EXCEPT !.revision_last_rx = p.rev,
                                  !.remote_active = p.active]
                   c == oam_req_oam_ctl(b, p.good, TRUE, j.remote_stable)
                   d == oam_req_oampdu(c, "info", "NULL")
        <2>2. b \in Intf
            BY <1>6, <2>1, Sentinels, Updates
        <2>3. SameDisc(j, b)
            BY <1>6 DEF Intf, SameDisc
        <2>4. oam_proc_pdu_info(j, p) \in
                {RemoteFault(j), oam_ctc_proc_pdu_info(j, p.ext),
                 oam_ctc_proc_pdu_info(d, p.ext),
                 oam_ctc_proc_pdu_info(c, p.ext)}
            BY Zenon DEF oam_proc_pdu_info
        <2> HIDE DEF b
        <2>5. Settled(b)
            BY <1>6, <2>2, <2>3, SettledSame
        <2>6. c \in Intf /\ Settled(c)
            BY <1>6, <2>1, <2>2, <2>5, Fields, CtlType, CtlSettled
        <2> HIDE DEF c
        <2>7. d \in Intf /\ Settled(d)
            BY <2>6, RequestTypes, RequestsSettled DEF PduFunc, PduParm
        <2> HIDE DEF d
        <2>8. /\ Settled(oam_ctc_proc_pdu_info(j, p.ext))
              /\ Settled(oam_ctc_proc_pdu_info(c, p.ext))
              /\ Settled(oam_ctc_proc_pdu_info(d, p.ext))
            BY <1>6, <2>1, <2>6, <2>7, ExtSettled
        <2>9. Settled(RemoteFault(j))
            BY <1>1, <1>6
        <2>10. Settled(oam_proc_pdu_info(j, p))
            BY <2>4, <2>8, <2>9, Zenon
        <2> QED
            BY <1>7, <1>8, <2>10
    <1>9. ASSUME p.code = "EVENT"
          PROVE  Settled(a)
        <2> DEFINE b == [j EXCEPT !.seq_num_last_rx = p.seq]
        <2>1. p.seq \in SeqRx
            BY <1>9, Sentinels DEF RxPdu
        <2>2. b \in Intf
            BY <1>6, <2>1, Updates
        <2>3. SameDisc(j, b)
            BY <1>6 DEF Intf, SameDisc
        <2>4. oam_proc_pdu_event(j, p) \in {RemoteFault(b), b}
            BY Zenon DEF oam_proc_pdu_event
        <2> HIDE DEF b
        <2>5. Settled(b) /\ Settled(RemoteFault(b))
            BY <1>1, <1>6, <2>2, <2>3, SettledSame
        <2> QED
            BY <1>7, <1>9, <2>4, <2>5
    <1>10. ASSUME p.code = "VAR_REQ"
          PROVE  Settled(a)
        BY <1>6, <1>7, <1>10, RequestsSettled
        DEF oam_proc_pdu_var_req, PduFunc, PduParm
    <1>11. ASSUME p.code = "LOOPBACK"
          PROVE  Settled(a)
        <2> DEFINE b == [j EXCEPT !.lb_self = p.enable]
        <2>1. p.enable \in BOOLEAN
            BY <1>11 DEF RxPdu
        <2>2. b \in Intf
            BY <1>6, <2>1, Updates
        <2>3. SameDisc(j, b)
            BY <1>6 DEF Intf, SameDisc
        <2>4. oam_proc_pdu_loopback(j, p) \in
                {j, oam_req_oampdu(b, "info", "NULL")}
            BY Zenon DEF oam_proc_pdu_loopback
        <2> HIDE DEF b
        <2>5. Settled(b)
            BY <1>6, <2>2, <2>3, SettledSame
        <2>6. Settled(oam_req_oampdu(b, "info", "NULL"))
            BY <2>2, <2>5, RequestsSettled DEF PduFunc, PduParm
        <2> QED
            BY <1>6, <1>7, <1>11, <2>4, <2>6
    <1>12. ASSUME p.code \notin {"INFO", "EVENT", "VAR_REQ", "LOOPBACK"}
          PROVE  Settled(a)
        BY <1>6, <1>7, <1>12
    <1>13. a \in Intf /\ Settled(a)
        BY <1>4, <1>8, <1>9, <1>10, <1>11, <1>12, IndType
    <1> HIDE DEF a
    <1>14. SameDisc(a, Return(a)) /\ Return(a) \in Intf
        BY <1>13, ReturnType DEF Intf, Return, SameDisc
    <1>15. Settled(Return(a))
        BY <1>13, <1>14, SettledSame
    <1> QED
        BY <1>3, <1>15, Zenon DEF oam_ind_oami, a, e

\* The one-second tick leaves the interface settled.
LEMMA TickSettled ==
    ASSUME NEW i \in Intf, Settled(i)
    PROVE  Settled(oam_keep_alive(i))
    <1> DEFINE a == IF i.pdu_timer > 0 THEN i.pdu_timer - 1 ELSE i.pdu_timer
               b == i.pdu_timer_done \/ i.pdu_timer = 1
               c == IF i.local_lost_link_timer > 0
                    THEN i.local_lost_link_timer - 1
                    ELSE i.local_lost_link_timer
               j == [i EXCEPT !.pdu_timer = a, !.pdu_timer_done = b,
                              !.local_lost_link_timer = c]
    <1>1. a \in PduTicks /\ c \in LostTicks
        BY Fields, Ranges
    <1>2. oam_keep_alive(i) \in {j, oam_sm_run(j)}
        BY Zenon DEF oam_keep_alive
    <1>3. b \in BOOLEAN
        OBVIOUS
    <1> HIDE DEF a, b, c
    <1>4. j \in Intf
        BY <1>1, <1>3, Updates
    <1>5. SameDisc(i, j)
        BY DEF Intf, SameDisc
    <1> HIDE DEF j
    <1>6. Settled(j)
        BY <1>4, <1>5, SettledSame
    <1>7. Settled(oam_sm_run(j))
        BY <1>4, <1>6, RunSettled DEF Settled
    <1> QED
        BY <1>2, <1>6, <1>7

\* A registration settles the interface, whatever it was doing before.
LEMMA RegisterSettled ==
    ASSUME NEW i
    PROVE  Settled(oam_enable(oam_intf_init(i)))
    <1> DEFINE z == [ZeroIntf EXCEPT !.valid = TRUE]
               a == [z EXCEPT !.BEGIN = TRUE]
               b == oam_sm_run(a)
               c == [b EXCEPT !.BEGIN = FALSE]
    <1>1. z \in Intf
        BY ZeroType, Updates
    <1>2. z.local_satisfied = FALSE
        BY DEF ZeroIntf
    <1>3. oam_enable(oam_intf_init(i)) = oam_sm_run(c)
        BY DEF oam_enable, oam_intf_init, oam_disable
    <1> HIDE DEF z
    <1>4. a \in Intf /\ a.BEGIN /\ ~a.local_satisfied
        <2>1. a \in Intf
            BY <1>1, Updates
        <2> QED
            BY <1>1, <1>2, <2>1 DEF Intf
    <1> HIDE DEF a
    <1>5. b \in Intf /\ ~b.local_satisfied
        BY <1>4, SmRunType, BeginUnsatisfied
    <1> HIDE DEF b
    <1>6. c \in Intf
        BY <1>5, Updates
    <1>7. ~c.BEGIN /\ ~c.local_satisfied
        BY <1>5 DEF Intf
    <1> HIDE DEF c
    <1> QED
        BY <1>3, <1>6, <1>7, RunSettled

\* The inductive invariant of discovery.
DInv == TypeOK /\ (intf.valid => Settled(intf))

\* Between two handlers the discovery state is the one its inputs call for:
\* every handler that changes local_satisfied, remote_state_valid or
\* remote_stable runs the machines, and oam_sm_run does not stop before the
\* discovery machine is at rest.
THEOREM DiscoverySettles == Spec => []DiscSettled
    <1>1. Init => DInv
        <2>1. ~ZeroIntf.valid
            BY DEF ZeroIntf
        <2> QED
            BY <2>1, ZeroType DEF Init, DInv, TypeOK
    <1>2. TypeOK /\ TypeOK' /\ DInv /\ [Next]_vars => DInv'
        <2> SUFFICES ASSUME TypeOK, TypeOK', DInv, [Next]_vars
                     PROVE  intf'.valid => Settled(intf')
            BY DEF DInv
        <2>0. /\ intf \in Intf /\ intf' \in Intf
              /\ intf.valid => Settled(intf)
            BY DEF TypeOK, DInv
        <2>e. /\ Enter(intf) \in Intf
              /\ SameDisc(intf, Enter(intf))
              /\ intf.valid => Settled(Enter(intf))
            <3>2. Enter(intf) \in Intf
                BY <2>0, EnterType
            <3>3. SameDisc(intf, Enter(intf))
                BY <2>0 DEF Intf, Enter, SameDisc
            <3> QED
                BY <2>0, <3>2, <3>3, SettledSame
        <2>1. CASE oam_llid_registration
            BY <2>1, RegisterSettled DEF oam_llid_registration
        <2>2. CASE onu_pon_link_down_proc
            BY <2>2 DEF onu_pon_link_down_proc, ZeroIntf
        <2>3. CASE \E p \in OltPdus : Receive(p)
            <3>1. PICK p \in OltPdus : Receive(p)
                BY <2>3
            <3> QED
                BY <2>0, <3>1, ReceiveSettled, OltPdusAssumption DEF Receive
        <2>4. CASE oam_time_msg_proc
            BY <2>e, <2>4, TickSettled DEF oam_time_msg_proc
        <2>5. CASE \E crossed \in BOOLEAN : oam_event_process_polling(crossed)
            <3>1. PICK crossed \in BOOLEAN : oam_event_process_polling(crossed)
                BY <2>5
            <3> DEFINE s == oam_send(Enter(intf),
                                     oam_build_pdu_hdr(intf, "EVENT"))
                       j == IF crossed /\ intf.state_disc = "SEND_ANY"
                            THEN s ELSE Enter(intf)
            <3>2. s \in Intf
                BY <2>0, <2>e, HdrType, SendType
            <3>3. SameDisc(Enter(intf), s)
                BY <2>e DEF Intf, oam_send, SameDisc
            <3>4. j \in Intf /\ SameDisc(intf, j)
                BY <3>2, <3>3, <2>e DEF SameDisc
            <3>5. intf' = [j EXCEPT !.local_critical_event = FALSE]
                BY <3>1 DEF oam_event_process_polling
            <3> HIDE DEF j
            <3>6. SameDisc(j, intf')
                BY <3>4, <3>5 DEF Intf, SameDisc
            <3>7. SameDisc(intf, intf')
                BY <3>4, <3>6 DEF SameDisc
            <3>8. intf.valid
                BY <3>1 DEF oam_event_process_polling
            <3> QED
                BY <2>0, <3>7, <3>8, SettledSame
        <2>6. CASE DyingGaspBegin
            <3> DEFINE i == [Enter(intf) EXCEPT !.local_dying_gasp = TRUE,
                                                !.local_critical_event = TRUE]
                       s == oam_send(i, oam_build_pdu_hdr(i, "INFO"))
            <3>1. i \in Intf
                BY <2>e, Updates
            <3>2. SameDisc(Enter(intf), i)
                BY <2>e DEF Intf, SameDisc
            <3>3. intf' = oam_ctc_build_pdu_info(s) /\ intf.valid
                BY <2>6 DEF DyingGaspBegin
            <3> HIDE DEF i
            <3>4. s \in Intf
                BY <3>1, HdrType, SendType
            <3>5. SameDisc(i, s)
                BY <3>1 DEF Intf, oam_send, SameDisc
            <3> HIDE DEF s
            <3>6. SameDisc(s, intf')
                BY <3>3, <3>4 DEF Intf, oam_ctc_build_pdu_info, SameDisc
            <3>7. SameDisc(intf, intf')
                BY <2>e, <3>2, <3>5, <3>6 DEF SameDisc
            <3> QED
                BY <2>0, <3>3, <3>7, SettledSame
        <2>7. CASE DyingGaspEnd
            <3>1. /\ SameDisc(Enter(intf), intf')
                  /\ intf'.valid = Enter(intf).valid
                BY <2>e, <2>7 DEF Intf, DyingGaspEnd, SameDisc
            <3>2. SameDisc(intf, intf')
                BY <2>e, <3>1 DEF SameDisc
            <3>3. Enter(intf).valid = intf.valid
                BY <2>0 DEF Intf, Enter
            <3> QED
                BY <2>0, <3>1, <3>2, <3>3, SettledSame
        <2>8. CASE UNCHANGED vars
            BY <2>0, <2>8 DEF vars
        <2> QED
            BY <2>1, <2>2, <2>3, <2>4, <2>5, <2>6, <2>7, <2>8 DEF Next
    <1>3. DInv => DiscSettled
        <2> SUFFICES ASSUME DInv, intf.valid
                     PROVE  DiscSettled
            BY DEF DiscSettled
        <2>1. intf \in Intf /\ Settled(intf)
            BY DEF DInv, TypeOK
        <2>2. /\ intf.state_disc \in DiscState
              /\ intf.local_satisfied \in BOOLEAN
              /\ intf.remote_stable \in BOOLEAN
              /\ intf.remote_state_valid \in BOOLEAN
            BY <2>1, Fields
        <2> QED
            BY <2>1, <2>2 DEF Settled, Dist, DiscState, DiscSettled
    <1> QED
        BY <1>1, <1>2, <1>3, TypeCorrect, PTL DEF Spec

(***************************************************************************)
(* What the two machines leave alone                                       *)
(***************************************************************************)
\* What the transmit machine does not touch.
Untouched(i, j) ==
    /\ SameDisc(i, j)
    /\ j.local_pdu = i.local_pdu /\ j.local_stable = i.local_stable
    /\ j.local_dying_gasp = i.local_dying_gasp
    /\ j.local_critical_event = i.local_critical_event
    /\ j.revision_last_rx = i.revision_last_rx
    /\ j.runaway = i.runaway /\ j.valid = i.valid
    /\ j.ext_valid = i.ext_valid /\ j.ext_version = i.ext_version

\* What building and sending do not touch either.
SameBudget(i, j) ==
    /\ j.state_tx = i.state_tx /\ j.pdu_req = i.pdu_req
    /\ j.pdu_timer_done = i.pdu_timer_done /\ j.pdu_cnt = i.pdu_cnt
    /\ j.burst = i.burst

\* What the discovery machine does not touch while BEGIN is off.
SameTx(i, j) ==
    /\ SameInputs(i, j) /\ SameBudget(i, j)
    /\ j.pdu_func = i.pdu_func /\ j.tx = i.tx
    /\ j.sent = i.sent /\ j.dropped = i.dropped
    /\ j.local_dying_gasp = i.local_dying_gasp
    /\ j.local_critical_event = i.local_critical_event
    /\ j.revision_last_rx = i.revision_last_rx
    /\ j.runaway = i.runaway /\ j.valid = i.valid
    /\ j.ext_valid = i.ext_valid /\ j.ext_version = i.ext_version
    /\ j.ext_status = i.ext_status

\* local_pdu and local_stable follow the state of the discovery machine.
Mode(i) ==
    /\ i.local_pdu = "RX_INFO" <=> i.state_disc \in {"FAULT", "PASSIVE_WAIT"}
    /\ i.local_stable <=> i.state_disc \in {"SEND_LOCAL_REMOTE_OK", "SEND_ANY"}

\* An OAMPDU built now carries a STABLE flag that is true.
Truthful(i) == i.local_stable <=> i.remote_state_valid /\ i.local_satisfied

\* At most one step of the discovery machine away from that.
Near(i) ==
    ~(/\ i.remote_state_valid /\ i.local_satisfied
      /\ i.state_disc \in {"FAULT", "PASSIVE_WAIT"})

\* A step of the discovery machine, seen from the transmit machine.
LEMMA DiscEffect ==
    ASSUME NEW i \in Intf, ~i.BEGIN, Mode(i),
           i.local_satisfied => i.remote_state_valid,
           i.state_disc = "FAULT" => ~i.local_satisfied
    PROVE  LET j == oam_sm_disc_transition(i) IN
           /\ SameTx(i, j) /\ Mode(j) /\ Near(j)
           /\ Near(i) => Truthful(j)
           /\ j.state_disc # "FAULT"
           /\ j.local_pdu = "RX_INFO" => i.local_pdu = "RX_INFO"
           /\ i.local_pdu = "RX_INFO" /\ ~i.remote_state_valid =>
                j.local_pdu = "RX_INFO"
           /\ Dist(i) = 0 => j = i
    <1>1. /\ i.state_disc \in DiscState /\ i.BEGIN = FALSE
          /\ i.local_satisfied \in BOOLEAN /\ i.remote_stable \in BOOLEAN
          /\ i.remote_state_valid \in BOOLEAN
        BY Fields
    <1>2. /\ SameTx(i, oam_sm_disc_into_passive_wait(i))
          /\ oam_sm_disc_into_passive_wait(i).state_disc = "PASSIVE_WAIT"
          /\ oam_sm_disc_into_passive_wait(i).local_pdu = "RX_INFO"
          /\ oam_sm_disc_into_passive_wait(i).local_stable = i.local_stable
        BY DEF Intf, oam_sm_disc_into_passive_wait, SameTx, SameInputs, SameBudget
    <1>3. /\ SameTx(i, oam_sm_disc_into_send_local_remote(i))
          /\ oam_sm_disc_into_send_local_remote(i).state_disc
                = "SEND_LOCAL_REMOTE"
          /\ oam_sm_disc_into_send_local_remote(i).local_pdu = "INFO"
          /\ oam_sm_disc_into_send_local_remote(i).local_stable = FALSE
        BY DEF Intf, oam_sm_disc_into_send_local_remote, SameTx, SameInputs, SameBudget
    <1>4. /\ SameTx(i, oam_sm_disc_into_send_local_remote_ok(i))
          /\ oam_sm_disc_into_send_local_remote_ok(i).state_disc
                = "SEND_LOCAL_REMOTE_OK"
          /\ oam_sm_disc_into_send_local_remote_ok(i).local_pdu = "INFO"
          /\ oam_sm_disc_into_send_local_remote_ok(i).local_stable = TRUE
        BY DEF Intf, oam_sm_disc_into_send_local_remote_ok, SameTx, SameInputs, SameBudget
    <1>5. /\ SameTx(i, oam_sm_disc_into_send_any(i))
          /\ oam_sm_disc_into_send_any(i).state_disc = "SEND_ANY"
          /\ oam_sm_disc_into_send_any(i).local_pdu = "ANY"
          /\ oam_sm_disc_into_send_any(i).local_stable = i.local_stable
        BY DEF Intf, oam_sm_disc_into_send_any, SameTx, SameInputs, SameBudget
    <1>s. SameTx(i, i)
        BY DEF SameTx, SameInputs, SameBudget
    <1>6. CASE i.state_disc = "FAULT"
        <2>1. oam_sm_disc_transition(i) = oam_sm_disc_into_passive_wait(i)
            BY <1>1, <1>6 DEF oam_sm_disc_transition
        <2> QED
            BY <2>1, <1>1, <1>2, <1>6
            DEF Dist, SameTx, SameInputs, Mode, Near, Truthful
    <1>7. CASE i.state_disc = "PASSIVE_WAIT"
        <2>1. oam_sm_disc_transition(i) =
                IF i.remote_state_valid
                THEN oam_sm_disc_into_send_local_remote(i) ELSE i
            BY <1>1, <1>7 DEF oam_sm_disc_transition
        <2> QED
            BY <2>1, <1>1, <1>3, <1>7, <1>s
            DEF Dist, SameTx, SameInputs, Mode, Near, Truthful
    <1>8. CASE i.state_disc = "SEND_LOCAL_REMOTE"
        <2>1. oam_sm_disc_transition(i) =
                IF i.local_satisfied
                THEN oam_sm_disc_into_send_local_remote_ok(i) ELSE i
            BY <1>1, <1>8 DEF oam_sm_disc_transition
        <2> QED
            BY <2>1, <1>1, <1>4, <1>8, <1>s
            DEF Dist, SameTx, SameInputs, Mode, Near, Truthful
    <1>9. CASE i.state_disc = "SEND_LOCAL_REMOTE_OK"
        <2>1. oam_sm_disc_transition(i) =
                IF ~i.local_satisfied
                THEN oam_sm_disc_into_send_local_remote(i)
                ELSE IF i.remote_stable THEN oam_sm_disc_into_send_any(i)
                ELSE i
            BY <1>1, <1>9 DEF oam_sm_disc_transition
        <2> QED
            BY <2>1, <1>1, <1>3, <1>5, <1>9, <1>s
            DEF Dist, SameTx, SameInputs, Mode, Near, Truthful
    <1>10. CASE i.state_disc = "SEND_ANY"
        <2>1. oam_sm_disc_transition(i) =
                IF ~i.local_satisfied
                THEN oam_sm_disc_into_send_local_remote(i)
                ELSE IF ~i.remote_stable
                THEN oam_sm_disc_into_send_local_remote_ok(i)
                ELSE i
            BY <1>1, <1>10 DEF oam_sm_disc_transition
        <2> QED
            BY <2>1, <1>1, <1>3, <1>4, <1>10, <1>s
            DEF Dist, SameTx, SameInputs, Mode, Near, Truthful
    <1> QED
        BY <1>1, <1>6, <1>7, <1>8, <1>9, <1>10 DEF DiscState

\* How building Information OAMPDUs may advance the CTC extended discovery.
ExtMoves(i, j) ==
    \/ j.ext_status = i.ext_status
    \/ i.ext_valid /\ i.ext_status = "INFO_RCV" /\ j.ext_status = "INFO_SNT"
    \/ i.ext_valid /\ i.ext_status = "ACK_RCV" /\ j.ext_status = "COMPLETED"
    \/ i.ext_valid /\ i.ext_status = "NACK" /\ j.ext_status = "NOTSUPPORTED"

\* The transmit rule does nothing ...
Idle(i) == i.pdu_func = "NULL" \/ i.local_pdu = "RX_INFO"

\* ... or drops the request ...
Drops(i, j) ==
    /\ i.pdu_func # "info"
    /\ j.tx = i.tx /\ j.sent = i.sent /\ j.dropped = TRUE
    /\ j.ext_status = i.ext_status

\* ... or sends what was requested.
Sends(i, j) ==
    /\ j.sent = TRUE /\ j.dropped = i.dropped
    /\ i.pdu_func = "info" => j.tx = Append(i.tx, oam_build_pdu_hdr(i, "INFO"))
    /\ i.pdu_func # "info" => j.tx = Append(i.tx, oam_build_pdu_hdr(i, "VAR_RSP"))

\* What the transmit rule does.
LEMMA RuleEffect ==
    ASSUME NEW i \in Intf
    PROVE  LET j == oam_tx_by_rule(i) IN
           /\ Untouched(i, j) /\ SameBudget(i, j) /\ ExtMoves(i, j)
           /\ Idle(i) => j = i
           /\ ~Idle(i) => j.pdu_func = "NULL" /\ (Drops(i, j) \/ Sends(i, j))
    <1> DEFINE hi == oam_build_pdu_hdr(i, "INFO")
               hv == oam_build_pdu_hdr(i, "VAR_RSP")
               a == oam_send(i, hi)
               b == oam_ctc_build_pdu_info(a)
               c == oam_send(i, hv)
               d == [i EXCEPT !.pdu_func = "NULL", !.pdu_parm = "NULL",
                              !.dropped = TRUE]
               m == [b EXCEPT !.pdu_func = "NULL"]
               n == [c EXCEPT !.pdu_func = "NULL"]
    <1>1. a \in Intf /\ b \in Intf /\ c \in Intf
        BY HdrType, SendType, BuildInfoType
    <1>2. /\ Untouched(i, d) /\ SameBudget(i, d) /\ d.ext_status = i.ext_status
          /\ d.pdu_func = "NULL" /\ d.tx = i.tx /\ d.sent = i.sent
          /\ d.dropped = TRUE
        BY DEF Intf, Untouched, SameDisc, SameBudget
    <1> HIDE DEF hi, hv
    <1>3. \A k \in Intf : \A p : LET q == oam_send(k, p) IN
            /\ Untouched(k, q) /\ SameBudget(k, q)
            /\ q.ext_status = k.ext_status /\ q.tx = Append(k.tx, p)
            /\ q.sent = TRUE /\ q.dropped = k.dropped
        BY DEF Intf, oam_send, Untouched, SameDisc, SameBudget
    <1>4. /\ Untouched(i, a) /\ SameBudget(i, a)
          /\ a.ext_status = i.ext_status /\ a.tx = Append(i.tx, hi)
          /\ a.sent = TRUE /\ a.dropped = i.dropped
        BY <1>3
    <1>5. /\ Untouched(i, c) /\ SameBudget(i, c)
          /\ c.ext_status = i.ext_status /\ c.tx = Append(i.tx, hv)
          /\ c.sent = TRUE /\ c.dropped = i.dropped
        BY <1>3
    <1>8. oam_tx_by_rule(i) =
            IF Idle(i) THEN i
            ELSE IF i.local_pdu = "INFO" /\ i.pdu_func # "info" THEN d
            ELSE IF i.pdu_func = "info" THEN m ELSE n
        BY Zenon DEF oam_tx_by_rule, Idle, hi, hv
    <1> HIDE DEF a
    <1>6. /\ Untouched(a, b) /\ SameBudget(a, b)
          /\ b.tx = a.tx /\ b.sent = a.sent /\ b.dropped = a.dropped
          /\ ExtMoves(a, b)
        <2> DEFINE e == CASE ExtToSend(a) = "list" -> "INFO_SNT"
                          [] ExtToSend(a) = "ack"  -> "COMPLETED"
                          [] ExtToSend(a) = "nack" -> "NOTSUPPORTED"
                          [] OTHER                 -> a.ext_status
        <2>1. \/ e = a.ext_status
              \/ a.ext_valid /\ a.ext_status = "INFO_RCV" /\ e = "INFO_SNT"
              \/ a.ext_valid /\ a.ext_status = "ACK_RCV" /\ e = "COMPLETED"
              \/ a.ext_valid /\ a.ext_status = "NACK" /\ e = "NOTSUPPORTED"
            BY <1>1, Fields DEF ExtToSend
        <2>2. b = [a EXCEPT !.ext_status = e]
            BY DEF oam_ctc_build_pdu_info
        <2> HIDE DEF e, b
        <2>3. /\ Untouched(a, b) /\ SameBudget(a, b)
              /\ b.tx = a.tx /\ b.sent = a.sent /\ b.dropped = a.dropped
              /\ b.ext_status = e
            BY <1>1, <2>2 DEF Intf, Untouched, SameDisc, SameBudget
        <2> QED
            BY <2>1, <2>3 DEF ExtMoves
    <1> HIDE DEF b, c, d
    <1>7. /\ Untouched(b, m) /\ SameBudget(b, m)
          /\ m.tx = b.tx /\ m.sent = b.sent /\ m.dropped = b.dropped
          /\ m.ext_status = b.ext_status /\ m.pdu_func = "NULL"
          /\ Untouched(c, n) /\ SameBudget(c, n)
          /\ n.tx = c.tx /\ n.sent = c.sent /\ n.dropped = c.dropped
          /\ n.ext_status = c.ext_status /\ n.pdu_func = "NULL"
        BY <1>1 DEF Intf, Untouched, SameDisc, SameBudget
    <1> HIDE DEF m, n
    <1>9. CASE Idle(i)
        BY <1>8, <1>9 DEF Untouched, SameDisc, SameBudget, ExtMoves
    <1>10. CASE ~Idle(i) /\ i.local_pdu = "INFO" /\ i.pdu_func # "info"
        BY <1>2, <1>8, <1>10 DEF ExtMoves, Drops
    <1>11. CASE ~Idle(i) /\ i.pdu_func = "info"
        <2>1. oam_tx_by_rule(i) = m
            BY <1>8, <1>11
        <2>2. Untouched(i, m) /\ SameBudget(i, m) /\ ExtMoves(i, m)
            BY <1>4, <1>6, <1>7 DEF Untouched, SameDisc, SameBudget, ExtMoves
        <2> QED
            BY <1>4, <1>6, <1>7, <1>11, <2>1, <2>2 DEF Sends, hi
    <1>12. CASE /\ ~Idle(i) /\ i.pdu_func # "info"
                /\ ~(i.local_pdu = "INFO" /\ i.pdu_func # "info")
        <2>1. oam_tx_by_rule(i) = n
            BY <1>8, <1>12
        <2>2. Untouched(i, n) /\ SameBudget(i, n) /\ ExtMoves(i, n)
            BY <1>5, <1>7 DEF Untouched, SameDisc, SameBudget, ExtMoves
        <2> QED
            BY <1>5, <1>7, <1>12, <2>1, <2>2 DEF Sends, hv
    <1> QED
        BY <1>9, <1>10, <1>11, <1>12

\* An OAMPDU that says what the interface is like.
BuiltBy(i, p) ==
    /\ p.stable = (i.remote_state_valid /\ i.local_satisfied)
    /\ p.local_stable = i.local_stable
    /\ p.ext \in {"none", ExtToSend(i)}

Adds(i, j) == \E p \in TxPdu : BuiltBy(i, p) /\ j.tx = Append(i.tx, p)

\* What oam_build_pdu_hdr builds says so.
LEMMA HdrBuilt ==
    ASSUME NEW i \in Intf, NEW code \in {"INFO", "VAR_RSP", "EVENT"}
    PROVE  /\ oam_build_pdu_hdr(i, code) \in TxPdu
           /\ BuiltBy(i, oam_build_pdu_hdr(i, code))
           /\ oam_build_pdu_hdr(i, code).code = code
    BY HdrType DEF BuiltBy, oam_build_pdu_hdr

\* The parts of the steps of the transmit machine.
SameSent(i, j) ==
    j.burst = i.burst /\ j.tx = i.tx /\ j.sent = i.sent /\ j.dropped = i.dropped

Resets(i, j) ==
    /\ j.state_tx = "RESET" /\ j.pdu_cnt = PktCount /\ j.pdu_timer_done = FALSE
    /\ j.sent = FALSE /\ j.dropped = FALSE /\ j.burst = 0
    /\ j.tx = i.tx /\ j.pdu_func = i.pdu_func

\* A step of the transmit machine from DEC_PDU_CNT.
TxStep(i, j) ==
    /\ j.state_tx = "TX_OAMPDU" /\ j.pdu_req = i.pdu_req
    /\ j.pdu_cnt = i.pdu_cnt /\ j.pdu_timer_done = i.pdu_timer_done
    /\ Idle(i) => SameSent(i, j) /\ j.pdu_func = i.pdu_func
    /\ ~Idle(i) =>
        /\ j.pdu_func = "NULL"
        /\ \/ /\ j.burst = i.burst /\ j.tx = i.tx /\ j.sent = i.sent
              /\ j.dropped = TRUE /\ i.pdu_func # "info"
           \/ /\ Adds(i, j) /\ j.sent = TRUE /\ j.dropped = i.dropped
              /\ j.burst = IF i.burst <= PktCount THEN i.burst + 1 ELSE i.burst

\* A step from WAIT_FOR_TX.
WaitStep(i, j) ==
    /\ j.pdu_req = "NONE"
    /\ i.pdu_timer_done /\ (i.local_pdu = "RX_INFO" \/ i.pdu_cnt # PktCount) =>
        Resets(i, j)
    /\ i.pdu_timer_done /\ i.local_pdu # "RX_INFO" /\ i.pdu_cnt = PktCount =>
        /\ j.state_tx = "TX_OAMPDU" /\ j.pdu_cnt = i.pdu_cnt
        /\ j.pdu_timer_done = i.pdu_timer_done /\ j.burst = i.burst
        /\ j.pdu_func = "NULL" /\ Adds(i, j) /\ j.sent = TRUE
        /\ j.dropped = i.dropped
    /\ ~i.pdu_timer_done =>
        /\ j.pdu_timer_done = i.pdu_timer_done /\ SameSent(i, j)
        /\ MayTransmit(i) =>
            /\ j.state_tx = "DEC_PDU_CNT" /\ j.pdu_func = i.pdu_func
            /\ j.pdu_cnt = IF i.pdu_req = "NORMAL" /\ i.pdu_cnt # 0
                           THEN i.pdu_cnt - 1 ELSE i.pdu_cnt
        /\ ~MayTransmit(i) =>
            /\ j.state_tx = "WAIT_FOR_TX" /\ j.pdu_cnt = i.pdu_cnt
            /\ j.pdu_func = IF i.pdu_req = "NORMAL" THEN "NULL"
                            ELSE i.pdu_func

\* The transmit rule, applied in TX_OAMPDU.
LEMMA IntoTxEffect ==
    ASSUME NEW i \in Intf
    PROVE  LET j == oam_sm_tx_into_tx_oampdu(i) IN
           /\ j \in Intf
           /\ Untouched(i, j) /\ ExtMoves(i, j)
           /\ j.state_tx = "TX_OAMPDU" /\ j.pdu_req = i.pdu_req
           /\ j.pdu_timer_done = i.pdu_timer_done
           /\ j.pdu_cnt = i.pdu_cnt /\ j.burst = i.burst
           /\ Idle(i) => SameSent(i, j) /\ j.pdu_func = i.pdu_func
           /\ ~Idle(i) =>
                /\ j.pdu_func = "NULL"
                /\ \/ /\ j.tx = i.tx /\ j.sent = i.sent /\ j.dropped = TRUE
                      /\ i.pdu_func # "info"
                   \/ Adds(i, j) /\ j.sent = TRUE /\ j.dropped = i.dropped
    <1> DEFINE k == [i EXCEPT !.state_tx = "TX_OAMPDU"]
               j == oam_tx_by_rule(k)
    <1>1. k \in Intf
        BY Updates DEF TxState
    <1>2. /\ Untouched(i, k) /\ k.state_tx = "TX_OAMPDU"
          /\ k.pdu_req = i.pdu_req /\ k.pdu_timer_done = i.pdu_timer_done
          /\ k.pdu_cnt = i.pdu_cnt /\ k.burst = i.burst
          /\ k.tx = i.tx /\ k.sent = i.sent /\ k.dropped = i.dropped
          /\ k.pdu_func = i.pdu_func /\ k.ext_status = i.ext_status
        BY DEF Intf, Untouched, SameDisc
    <1>3. oam_sm_tx_into_tx_oampdu(i) = j
        BY DEF oam_sm_tx_into_tx_oampdu
    <1> HIDE DEF k
    <1>4. /\ Untouched(k, j) /\ SameBudget(k, j) /\ ExtMoves(k, j)
          /\ Idle(k) => j = k
          /\ ~Idle(k) => j.pdu_func = "NULL" /\ (Drops(k, j) \/ Sends(k, j))
        BY <1>1, RuleEffect
    <1>5. j \in Intf
        BY <1>1, TxByRuleType
    <1> HIDE DEF j
    <1>6. Untouched(i, j) /\ ExtMoves(i, j)
        BY <1>2, <1>4 DEF Untouched, SameDisc, ExtMoves
    <1>7. Idle(i) <=> Idle(k)
        BY <1>2 DEF Idle, Untouched
    <1>8. ASSUME Sends(k, j) PROVE Adds(i, j)
        <2>1. \A p : BuiltBy(k, p) => BuiltBy(i, p)
            BY <1>2 DEF BuiltBy, ExtToSend, Untouched, SameDisc
        <2> QED
            BY <1>1, <1>2, <1>8, <2>1, HdrBuilt DEF Sends, Adds
    <1> QED
        BY <1>2, <1>3, <1>4, <1>5, <1>6, <1>7, <1>8
        DEF SameBudget, SameSent, Drops, Sends

\* A step of the transmit machine while BEGIN is off.
LEMMA TxEffect ==
    ASSUME NEW i \in Intf, ~i.BEGIN
    PROVE  LET j == oam_sm_tx_transition(i) IN
           /\ Untouched(i, j) /\ ExtMoves(i, j)
           /\ i.state_tx = "RESET" \/ (i.state_tx = "TX_OAMPDU" /\ ~i.pdu_timer_done) =>
                /\ j.state_tx = "WAIT_FOR_TX" /\ j.pdu_req = i.pdu_req
                /\ j.pdu_timer_done = i.pdu_timer_done /\ j.pdu_cnt = i.pdu_cnt
                /\ j.pdu_func = i.pdu_func /\ SameSent(i, j)
           /\ i.state_tx = "TX_OAMPDU" /\ i.pdu_timer_done =>
                Resets(i, j) /\ j.pdu_req = i.pdu_req
           /\ i.state_tx = "DEC_PDU_CNT" => TxStep(i, j)
           /\ i.state_tx = "WAIT_FOR_TX" => WaitStep(i, j)
    <1> DEFINE j == oam_sm_tx_transition(i)
    <1>0. i.BEGIN = FALSE /\ i.state_tx \in TxState
        BY Fields
    <1>1. \A k \in Intf : LET r == oam_sm_tx_into_reset(k) IN
            /\ Untouched(k, r) /\ Resets(k, r) /\ r.pdu_req = k.pdu_req
            /\ r.ext_status = k.ext_status
        BY DEF Intf, oam_sm_tx_into_reset, oam_start_pdu_timer, Untouched,
               SameDisc, Resets
    <1>2. LET r == oam_sm_tx_into_wait_for_tx(i) IN
            /\ Untouched(i, r) /\ r.state_tx = "WAIT_FOR_TX"
            /\ r.pdu_req = i.pdu_req /\ r.ext_status = i.ext_status
            /\ r.pdu_timer_done = i.pdu_timer_done /\ r.pdu_cnt = i.pdu_cnt
            /\ r.pdu_func = i.pdu_func /\ SameSent(i, r)
        BY DEF Intf, oam_sm_tx_into_wait_for_tx, Untouched, SameDisc, SameSent
    <1>3. CASE i.state_tx = "RESET"
        <2>1. j = oam_sm_tx_into_wait_for_tx(i)
            BY <1>0, <1>3 DEF oam_sm_tx_transition
        <2> QED
            BY <1>2, <1>3, <2>1 DEF ExtMoves
    <1>4. CASE i.state_tx = "TX_OAMPDU" /\ ~i.pdu_timer_done
        <2>1. j = oam_sm_tx_into_wait_for_tx(i)
            BY <1>0, <1>4 DEF oam_sm_tx_transition
        <2> QED
            BY <1>2, <1>4, <2>1 DEF ExtMoves
    <1>5. CASE i.state_tx = "TX_OAMPDU" /\ i.pdu_timer_done
        <2>1. j = oam_sm_tx_into_reset(i)
            BY <1>0, <1>5 DEF oam_sm_tx_transition
        <2> QED
            BY <1>1, <1>5, <2>1 DEF ExtMoves
    <1>6. CASE i.state_tx = "DEC_PDU_CNT"
        <2> DEFINE k == oam_sm_tx_into_tx_oampdu(i)
        <2>1. j = CountBurst(i, k)
            BY <1>0, <1>6 DEF oam_sm_tx_transition
        <2>2. /\ k \in Intf
              /\ Untouched(i, k) /\ ExtMoves(i, k)
              /\ k.state_tx = "TX_OAMPDU" /\ k.pdu_req = i.pdu_req
              /\ k.pdu_timer_done = i.pdu_timer_done
              /\ k.pdu_cnt = i.pdu_cnt /\ k.burst = i.burst
              /\ Idle(i) => SameSent(i, k) /\ k.pdu_func = i.pdu_func
              /\ ~Idle(i) =>
                   /\ k.pdu_func = "NULL"
                   /\ \/ /\ k.tx = i.tx /\ k.sent = i.sent /\ k.dropped = TRUE
                         /\ i.pdu_func # "info"
                      \/ Adds(i, k) /\ k.sent = TRUE /\ k.dropped = i.dropped
            BY IntoTxEffect
        <2> HIDE DEF j, k
        <2>3. i.tx \in Seq(TxPdu)
            BY Fields
        <2>4. Adds(i, k) => k.tx # i.tx
            BY <2>3 DEF Adds
        <2>5. CASE k.tx = i.tx
            <3>1. j = k
                BY <2>1, <2>5 DEF CountBurst
            <3>2. Idle(i) => SameSent(i, j) /\ j.pdu_func = i.pdu_func
                BY <2>2, <3>1
            <3>3. ~Idle(i) =>
                        /\ j.pdu_func = "NULL" /\ j.burst = i.burst
                        /\ j.tx = i.tx /\ j.sent = i.sent /\ j.dropped = TRUE
                        /\ i.pdu_func # "info"
                BY <2>2, <2>4, <2>5, <3>1
            <3>4. TxStep(i, j)
                BY <2>2, <3>1, <3>2, <3>3 DEF TxStep
            <3> QED
                BY <1>6, <2>2, <3>1, <3>4 DEF j
        <2>6. CASE k.tx # i.tx
            <3>1. ~Idle(i) /\ Adds(i, k) /\ k.sent = TRUE /\ k.dropped = i.dropped
                  /\ k.pdu_func = "NULL"
                BY <2>2, <2>6 DEF SameSent
            <3>2. /\ Untouched(k, j) /\ j.state_tx = k.state_tx
                  /\ j.pdu_req = k.pdu_req /\ j.pdu_timer_done = k.pdu_timer_done
                  /\ j.pdu_cnt = k.pdu_cnt /\ j.tx = k.tx /\ j.sent = k.sent
                  /\ j.dropped = k.dropped /\ j.pdu_func = k.pdu_func
                  /\ j.ext_status = k.ext_status
                BY <2>1, <2>2 DEF CountBurst, Intf, Untouched, SameDisc
            <3>3. j.burst = IF i.burst <= PktCount THEN i.burst + 1 ELSE i.burst
                BY <2>1, <2>2, <2>6 DEF CountBurst, Intf
            <3>4. Untouched(i, j) /\ ExtMoves(i, j)
                BY <2>2, <3>2 DEF Untouched, SameDisc, ExtMoves
            <3>5. Adds(i, j)
                BY <3>1, <3>2 DEF Adds
            <3>6. TxStep(i, j)
                BY <2>2, <3>1, <3>2, <3>3, <3>5 DEF TxStep
            <3> QED
                BY <1>6, <3>4, <3>6 DEF j
        <2> QED
            BY <2>5, <2>6
    <1>7. CASE i.state_tx = "WAIT_FOR_TX"
        <2> DEFINE m == [i EXCEPT !.pdu_func = "info", !.pdu_parm = "NULL"]
                   k == WaitForTx(i)
                   u == oam_sm_tx_into_tx_oampdu(m)
        <2>1. j = [k EXCEPT !.pdu_req = "NONE"]
            BY <1>0, <1>7 DEF oam_sm_tx_transition
        <2>2. k \in Intf
            BY WaitForTxType
        <2>3. m \in Intf
            BY Updates DEF PduFunc, PduParm
        <2>4. /\ Untouched(i, m) /\ m.ext_status = i.ext_status
              /\ m.state_tx = i.state_tx /\ m.pdu_cnt = i.pdu_cnt
              /\ m.pdu_timer_done = i.pdu_timer_done /\ SameSent(i, m)
              /\ m.pdu_func = "info"
            BY DEF Intf, Untouched, SameDisc, SameSent
        <2>5. k = IF i.pdu_timer_done
                  THEN IF i.local_pdu = "RX_INFO" \/ i.pdu_cnt # PktCount
                       THEN oam_sm_tx_into_reset(i) ELSE u
                  ELSE IF MayTransmit(i) THEN oam_sm_tx_into_dec_pdu_cnt(i)
                  ELSE IF i.pdu_req = "NORMAL" THEN [i EXCEPT !.pdu_func = "NULL"]
                  ELSE i
            BY DEF WaitForTx
        <2> HIDE DEF m, k, j
        <2>6. /\ Untouched(k, j) /\ j.state_tx = k.state_tx
              /\ j.pdu_req = "NONE" /\ j.pdu_timer_done = k.pdu_timer_done
              /\ j.pdu_cnt = k.pdu_cnt /\ SameSent(k, j)
              /\ j.pdu_func = k.pdu_func /\ j.ext_status = k.ext_status
            BY <2>1, <2>2 DEF Intf, Untouched, SameDisc, SameSent
        <2>7. CASE i.pdu_timer_done /\ (i.local_pdu = "RX_INFO" \/ i.pdu_cnt # PktCount)
            <3>1. k = oam_sm_tx_into_reset(i)
                BY <2>5, <2>7
            <3>2. Untouched(i, k) /\ Resets(i, k) /\ k.ext_status = i.ext_status
                BY <1>1, <3>1
            <3>3. Untouched(i, j) /\ ExtMoves(i, j) /\ Resets(i, j)
                BY <2>6, <3>2 DEF Untouched, SameDisc, ExtMoves, Resets, SameSent
            <3>4. WaitStep(i, j)
                BY <2>6, <2>7, <3>3 DEF WaitStep
            <3> QED
                BY <1>7, <3>3, <3>4 DEF j
        <2>8. CASE i.pdu_timer_done /\ i.local_pdu # "RX_INFO" /\ i.pdu_cnt = PktCount
            <3>1. k = u
                BY <2>5, <2>8
            <3>2. ~Idle(m)
                BY <2>4, <2>8 DEF Idle, Untouched
            <3>3. /\ Untouched(m, u) /\ ExtMoves(m, u)
                  /\ u.state_tx = "TX_OAMPDU"
                  /\ u.pdu_timer_done = m.pdu_timer_done
                  /\ u.pdu_cnt = m.pdu_cnt /\ u.burst = m.burst
                  /\ u.pdu_func = "NULL"
                  /\ Adds(m, u) /\ u.sent = TRUE /\ u.dropped = m.dropped
                BY <2>3, <2>4, <3>2, IntoTxEffect
            <3> HIDE DEF u
            <3>4. Untouched(i, j) /\ ExtMoves(i, j)
                BY <2>4, <2>6, <3>1, <3>3 DEF Untouched, SameDisc, ExtMoves
            <3>5. PICK p \in TxPdu : BuiltBy(m, p) /\ u.tx = Append(m.tx, p)
                BY <3>3 DEF Adds
            <3>6. BuiltBy(i, p)
                BY <2>4, <3>5 DEF BuiltBy, ExtToSend, Untouched, SameDisc
            <3>7. Adds(i, j)
                BY <2>4, <2>6, <3>1, <3>5, <3>6 DEF Adds, SameSent
            <3>8. WaitStep(i, j)
                BY <2>4, <2>6, <2>8, <3>1, <3>3, <3>7 DEF WaitStep, SameSent
            <3> QED
                BY <1>7, <3>4, <3>8 DEF j
        <2>9. CASE ~i.pdu_timer_done /\ MayTransmit(i)
            <3> DEFINE c == IF i.pdu_req = "NORMAL" /\ i.pdu_cnt # 0
                            THEN i.pdu_cnt - 1 ELSE i.pdu_cnt
            <3>1. k = [i EXCEPT !.state_tx = "DEC_PDU_CNT", !.pdu_cnt = c]
                BY <2>5, <2>9 DEF oam_sm_tx_into_dec_pdu_cnt
            <3>2. /\ j.pdu_cnt = IF i.pdu_req = "NORMAL" /\ i.pdu_cnt # 0
                                 THEN i.pdu_cnt - 1 ELSE i.pdu_cnt
                  /\ k.pdu_cnt = j.pdu_cnt
                BY <2>6, <3>1 DEF Intf
            <3> HIDE DEF c
            <3>3. /\ Untouched(i, k) /\ k.state_tx = "DEC_PDU_CNT"
                  /\ k.pdu_timer_done = i.pdu_timer_done /\ SameSent(i, k)
                  /\ k.pdu_func = i.pdu_func /\ k.ext_status = i.ext_status
                BY <3>1 DEF Intf, Untouched, SameDisc, SameSent
            <3>4. Untouched(i, j) /\ ExtMoves(i, j) /\ SameSent(i, j)
                BY <2>6, <3>3 DEF Untouched, SameDisc, ExtMoves, SameSent
            <3>5. WaitStep(i, j)
                BY <2>6, <2>9, <3>2, <3>3, <3>4 DEF WaitStep
            <3> QED
                BY <1>7, <3>4, <3>5 DEF j
        <2>10. CASE ~i.pdu_timer_done /\ ~MayTransmit(i)
            <3>1. k = IF i.pdu_req = "NORMAL" THEN [i EXCEPT !.pdu_func = "NULL"]
                      ELSE i
                BY <2>5, <2>10
            <3>2. k.pdu_func = IF i.pdu_req = "NORMAL" THEN "NULL" ELSE i.pdu_func
                BY <3>1 DEF Intf
            <3>3. /\ Untouched(i, k) /\ k.state_tx = i.state_tx
                  /\ k.pdu_timer_done = i.pdu_timer_done /\ SameSent(i, k)
                  /\ k.pdu_cnt = i.pdu_cnt /\ k.ext_status = i.ext_status
                BY <3>1 DEF Intf, Untouched, SameDisc, SameSent
            <3>4. Untouched(i, j) /\ ExtMoves(i, j) /\ SameSent(i, j)
                BY <2>6, <3>3 DEF Untouched, SameDisc, ExtMoves, SameSent
            <3>5. WaitStep(i, j)
                BY <1>7, <2>6, <2>10, <3>2, <3>3, <3>4 DEF WaitStep
            <3> QED
                BY <1>7, <3>4, <3>5 DEF j
        <2> QED
            BY <2>7, <2>8, <2>9, <2>10
    <1> QED
        BY <1>0, <1>3, <1>4, <1>5, <1>6, <1>7 DEF TxState

(***************************************************************************)
(* The invariant of the loop                                               *)
(*                                                                         *)
(* g stands for a dying gasp that may have set the critical flag, w for    *)
(* "no request is pending from before", c for "the OLT's versions and ours *)
(* have nothing in common".                                                *)
(***************************************************************************)
\* Every OAMPDU of this handler had a true STABLE flag.
TrueFlags(i) == \A n \in DOMAIN i.tx : i.tx[n].stable <=> i.tx[n].local_stable

\* Without a gasp no request is critical, and budget and burst add up.
Budget(i, g) ==
    ~g => /\ ~i.local_dying_gasp /\ ~i.local_critical_event
          /\ i.pdu_req # "CRITICAL"
          /\ i.burst + i.pdu_cnt + (IF i.state_tx = "DEC_PDU_CNT" THEN 1 ELSE 0)
                <= PktCount

\* A request that is pending is one the machine is about to deal with.
AboutToGo(i, g, w) ==
    ~g /\ w /\ i.pdu_func # "NULL" =>
        \/ /\ i.state_tx = "WAIT_FOR_TX" /\ i.pdu_req = "NORMAL"
           /\ ~i.pdu_timer_done
        \/ i.state_tx = "DEC_PDU_CNT" /\ i.local_pdu # "RX_INFO"

\* Budget is used up, and a request left behind, only by an OAMPDU that was
\* sent or dropped.
Spent(i) ==
    /\ i.pdu_req # "NONE" /\ i.pdu_func = "NULL" => i.sent \/ i.dropped
    /\ i.pdu_cnt # PktCount =>
        \/ i.sent \/ i.dropped
        \/ /\ i.state_tx = "DEC_PDU_CNT"
           /\ i.pdu_func # "NULL" /\ i.local_pdu # "RX_INFO"

\* Without a gasp the ONU speaks only when the discovery machine lets it.
SpokenTo(i, g) == ~g /\ i.tx # <<>> => i.local_pdu # "RX_INFO"

\* CTC TLVs are sent only once the OLT has offered its versions, and none but
\* the refusal if there is nothing in common.
Offers(i, c) ==
    /\ ~i.ext_valid => /\ i.ext_status = "SEND_WAIT"
                       /\ \A n \in DOMAIN i.tx : i.tx[n].ext = "none"
    /\ i.ext_valid /\ c =>
        /\ i.ext_status \in {"NACK", "NOTSUPPORTED"}
        /\ \A n \in DOMAIN i.tx : i.tx[n].ext \in {"none", "nack"}

LInv(i, g, w, c) ==
    /\ ~i.BEGIN
    /\ i.local_satisfied => i.remote_state_valid
    /\ i.state_disc = "FAULT" => ~i.local_satisfied
    /\ Mode(i)
    /\ Near(i) \/ (~i.pdu_timer_done /\ i.state_tx # "DEC_PDU_CNT")
    /\ i.state_tx # "WAIT_FOR_TX" => i.pdu_req = "NONE"
    /\ TrueFlags(i) /\ Budget(i, g) /\ AboutToGo(i, g, w) /\ Spent(i)
    /\ SpokenTo(i, g) /\ Offers(i, c)

\* Between the operations of a handler.
HInv(i, g, w, c) ==
    /\ Settled(i) /\ Mode(i)
    /\ i.state_tx = "WAIT_FOR_TX" /\ ~i.pdu_timer_done /\ ~i.runaway
    /\ TrueFlags(i) /\ Budget(i, g) /\ Spent(i)
    /\ ~g /\ w => i.pdu_func = "NULL"
    /\ SpokenTo(i, g) /\ Offers(i, c)

\* The discovery machine keeps the invariant of the loop, and makes what is
\* sent in the same pass truthful.
LEMMA DiscKeeps ==
    ASSUME NEW i \in Intf, NEW g, NEW w, NEW c, LInv(i, g, w, c)
    PROVE  LET j == oam_sm_disc_transition(i) IN
           /\ LInv(j, g, w, c) /\ Near(j) /\ SameTx(i, j)
           /\ i.pdu_timer_done \/ i.state_tx = "DEC_PDU_CNT" => Truthful(j)
           /\ j.local_pdu = "RX_INFO" => i.local_pdu = "RX_INFO"
           /\ i.local_pdu = "RX_INFO" /\ ~i.remote_state_valid =>
                j.local_pdu = "RX_INFO"
           /\ Dist(i) = 0 => j = i
    <1> DEFINE j == oam_sm_disc_transition(i)
    <1>1. /\ SameTx(i, j) /\ Mode(j) /\ Near(j)
          /\ Near(i) => Truthful(j)
          /\ j.state_disc # "FAULT"
          /\ j.local_pdu = "RX_INFO" => i.local_pdu = "RX_INFO"
          /\ i.local_pdu = "RX_INFO" /\ ~i.remote_state_valid =>
               j.local_pdu = "RX_INFO"
          /\ Dist(i) = 0 => j = i
        BY DiscEffect DEF LInv
    <1> HIDE DEF j
    <1>2. TrueFlags(j)
        BY <1>1 DEF LInv, SameTx, TrueFlags
    <1>3. Budget(j, g)
        BY <1>1 DEF LInv, SameTx, SameBudget, Budget
    <1>4. AboutToGo(j, g, w) /\ Spent(j)
        BY <1>1 DEF LInv, SameTx, SameBudget, AboutToGo, Spent
    <1>5. SpokenTo(j, g) /\ Offers(j, c)
        BY <1>1 DEF LInv, SameTx, SpokenTo, Offers
    <1>6. LInv(j, g, w, c)
        BY <1>1, <1>2, <1>3, <1>4, <1>5 DEF LInv, SameTx, SameInputs, SameBudget
    <1>7. i.pdu_timer_done \/ i.state_tx = "DEC_PDU_CNT" => Truthful(j)
        BY <1>1 DEF LInv
    <1> QED
        BY <1>1, <1>6, <1>7 DEF j

\* A truthful interface adds a truthful OAMPDU.
LEMMA AddsTruth ==
    ASSUME NEW i \in Intf, NEW j, NEW c, Adds(i, j), Untouched(i, j), ExtMoves(i, j),
           Truthful(i), TrueFlags(i), Offers(i, c)
    PROVE  TrueFlags(j) /\ Offers(j, c) /\ j.tx # <<>>
    <1>1. PICK p \in TxPdu : BuiltBy(i, p) /\ j.tx = Append(i.tx, p)
        BY DEF Adds
    <1>2. i.tx \in Seq(TxPdu)
        BY Fields
    <1>3. /\ Len(i.tx) \in Nat /\ DOMAIN i.tx = 1 .. Len(i.tx)
          /\ DOMAIN j.tx = 1 .. Len(i.tx) + 1
          /\ j.tx[Len(i.tx) + 1] = p
          /\ \A n \in 1 .. Len(i.tx) : j.tx[n] = i.tx[n]
        BY <1>1, <1>2
    <1>4. p.stable <=> p.local_stable
        BY <1>1 DEF BuiltBy, Truthful
    <1>5. \A n \in DOMAIN j.tx : n \in DOMAIN i.tx \/ n = Len(i.tx) + 1
        BY <1>3
    <1>6. TrueFlags(j)
        BY <1>3, <1>4, <1>5 DEF TrueFlags
    <1>7. j.tx # <<>>
        BY <1>3
    <1>8. i.ext_valid \in BOOLEAN
        BY DEF Intf
    <1>9. ~i.ext_valid => p.ext = "none"
        BY <1>1, <1>8 DEF BuiltBy, ExtToSend
    <1>10. i.ext_status \in {"NACK", "NOTSUPPORTED"} => p.ext \in {"none", "nack"}
        <2>1. i.ext_status \in {"NACK", "NOTSUPPORTED"} =>
                ExtToSend(i) \in {"none", "nack"}
            BY DEF ExtToSend
        <2> QED
            BY <1>1, <2>1 DEF BuiltBy
    <1>11. ASSUME ~j.ext_valid
           PROVE  /\ j.ext_status = "SEND_WAIT"
                  /\ \A n \in DOMAIN j.tx : j.tx[n].ext = "none"
        <2>1. ~i.ext_valid
            BY <1>11 DEF Untouched
        <2> QED
            BY <1>3, <1>5, <1>9, <2>1 DEF Offers, ExtMoves
    <1>12. ASSUME j.ext_valid, c
           PROVE  /\ j.ext_status \in {"NACK", "NOTSUPPORTED"}
                  /\ \A n \in DOMAIN j.tx : j.tx[n].ext \in {"none", "nack"}
        <2>1. i.ext_valid
            BY <1>12 DEF Untouched
        <2> QED
            BY <1>3, <1>5, <1>10, <1>12, <2>1 DEF Offers, ExtMoves
    <1> QED
        BY <1>6, <1>7, <1>11, <1>12 DEF Offers

\* Nothing added leaves what was sent as it was.
LEMMA SameTruth ==
    ASSUME NEW i \in Intf, NEW j, NEW c, j.tx = i.tx, Untouched(i, j),
           ExtMoves(i, j), TrueFlags(i), Offers(i, c)
    PROVE  TrueFlags(j) /\ Offers(j, c)
    BY DEF TrueFlags, Offers, Untouched, ExtMoves

\* A step of the transmit machine keeps the invariant of the loop.
LEMMA TxKeeps ==
    ASSUME NEW i \in Intf, NEW g, NEW w, NEW c, LInv(i, g, w, c), Near(i),
           i.pdu_timer_done \/ i.state_tx = "DEC_PDU_CNT" => Truthful(i)
    PROVE  LET j == oam_sm_tx_transition(i) IN
           LInv(j, g, w, c) /\ Near(j) /\ (i.tx # <<>> => j.tx # <<>>)
    <1> DEFINE j == oam_sm_tx_transition(i)
    <1>0. ~i.BEGIN /\ i.pdu_timer_done \in BOOLEAN /\ i.state_tx \in TxState
          /\ i.burst \in Nat /\ i.pdu_cnt \in Nat /\ PktCount \in Nat
          /\ i.tx \in Seq(TxPdu)
        BY Fields, PktCountAssumption DEF LInv, Burst, PduCount
    <1>1. /\ Untouched(i, j) /\ ExtMoves(i, j)
          /\ i.state_tx = "RESET" \/ (i.state_tx = "TX_OAMPDU" /\ ~i.pdu_timer_done) =>
               /\ j.state_tx = "WAIT_FOR_TX" /\ j.pdu_req = i.pdu_req
               /\ j.pdu_timer_done = i.pdu_timer_done /\ j.pdu_cnt = i.pdu_cnt
               /\ j.pdu_func = i.pdu_func /\ SameSent(i, j)
          /\ i.state_tx = "TX_OAMPDU" /\ i.pdu_timer_done =>
               Resets(i, j) /\ j.pdu_req = i.pdu_req
          /\ i.state_tx = "DEC_PDU_CNT" => TxStep(i, j)
          /\ i.state_tx = "WAIT_FOR_TX" => WaitStep(i, j)
        BY <1>0, TxEffect
    <1> HIDE DEF j
    <1>2. /\ ~j.BEGIN /\ (j.local_satisfied => j.remote_state_valid)
          /\ j.state_disc = "FAULT" => ~j.local_satisfied
          /\ Mode(j) /\ Near(j)
        BY <1>1 DEF LInv, Untouched, SameDisc, Mode, Near
    <1>3. \/ j.tx = i.tx
          \/ Adds(i, j) /\ (i.pdu_timer_done \/ i.state_tx = "DEC_PDU_CNT")
             /\ i.local_pdu # "RX_INFO"
        BY <1>0, <1>1 DEF TxState, SameSent, Resets, TxStep, WaitStep, Idle
    <1>4. TrueFlags(j) /\ Offers(j, c) /\ (i.tx # <<>> => j.tx # <<>>)
        <2>1. TrueFlags(i) /\ Offers(i, c)
            BY DEF LInv
        <2>2. CASE j.tx = i.tx
            BY <1>1, <2>1, <2>2, SameTruth
        <2>3. CASE j.tx # i.tx
            BY <1>1, <1>3, <2>1, <2>3, AddsTruth
        <2> QED
            BY <2>2, <2>3
    <1>5. SpokenTo(j, g)
        BY <1>1, <1>3 DEF SpokenTo, LInv, Untouched
    <1>6. j.state_tx # "WAIT_FOR_TX" => j.pdu_req = "NONE"
        BY <1>0, <1>1 DEF LInv, TxState, SameSent, Resets, TxStep, WaitStep
    <1>7. Budget(j, g)
        <2> SUFFICES ASSUME ~g PROVE Budget(j, g)
            BY DEF Budget
        <2>1. /\ ~i.local_dying_gasp /\ ~i.local_critical_event
              /\ i.pdu_req # "CRITICAL"
              /\ i.burst + i.pdu_cnt + (IF i.state_tx = "DEC_PDU_CNT" THEN 1 ELSE 0)
                <= PktCount
            BY DEF LInv, Budget
        <2>2. /\ ~j.local_dying_gasp /\ ~j.local_critical_event
            BY <1>1, <2>1 DEF Untouched
        <2>3. j.pdu_req # "CRITICAL"
            BY <1>0, <1>1, <2>1 DEF TxState, TxStep, WaitStep
        <2>4. j.burst + j.pdu_cnt + (IF j.state_tx = "DEC_PDU_CNT" THEN 1 ELSE 0)
                <= PktCount
            <3>1. CASE i.state_tx = "RESET" \/ i.state_tx = "TX_OAMPDU"
                BY <1>0, <1>1, <2>1, <3>1 DEF SameSent, Resets
            <3>2. CASE i.state_tx = "DEC_PDU_CNT"
                BY <1>0, <1>1, <2>1, <3>2 DEF TxStep, SameSent
            <3>3. CASE i.state_tx = "WAIT_FOR_TX"
                <4>1. MayTransmit(i) => i.pdu_req = "NORMAL" /\ i.pdu_cnt # 0
                    BY <2>1 DEF MayTransmit
                <4> QED
                    BY <1>0, <1>1, <2>1, <3>3, <4>1 DEF WaitStep, SameSent, Resets
            <3> QED
                BY <1>0, <3>1, <3>2, <3>3 DEF TxState
        <2> QED
            BY <2>2, <2>3, <2>4 DEF Budget
    <1>8. AboutToGo(j, g, w)
        <2> SUFFICES ASSUME ~g, w, j.pdu_func # "NULL"
                     PROVE  AboutToGo(j, g, w)
            BY DEF AboutToGo
        <2>1. i.pdu_func # "NULL" =>
                \/ /\ i.state_tx = "WAIT_FOR_TX" /\ i.pdu_req = "NORMAL"
                   /\ ~i.pdu_timer_done
                \/ i.state_tx = "DEC_PDU_CNT" /\ i.local_pdu # "RX_INFO"
            BY DEF LInv, AboutToGo
        <2>2. j.local_pdu = i.local_pdu /\ i.pdu_req # "CRITICAL"
            BY <1>1 DEF Untouched, LInv, Budget
        <2>3. MayTransmit(i) => i.local_pdu # "RX_INFO"
            BY DEF MayTransmit
        <2>4. /\ i.state_tx = "WAIT_FOR_TX" /\ ~i.pdu_timer_done /\ MayTransmit(i)
              /\ j.state_tx = "DEC_PDU_CNT"
            BY <1>0, <1>1, <2>1 DEF TxState, SameSent, Resets, TxStep, WaitStep, Idle
        <2> QED
            BY <2>2, <2>3, <2>4 DEF AboutToGo
    <1>9. Spent(j)
        <2>0. /\ i.pdu_req # "NONE" /\ i.pdu_func = "NULL" => i.sent \/ i.dropped
              /\ i.pdu_cnt # PktCount =>
                    \/ i.sent \/ i.dropped
                    \/ /\ i.state_tx = "DEC_PDU_CNT"
                       /\ i.pdu_func # "NULL" /\ i.local_pdu # "RX_INFO"
              /\ i.state_tx # "WAIT_FOR_TX" => i.pdu_req = "NONE"
            BY DEF LInv, Spent
        <2>1. CASE i.state_tx = "RESET" \/ i.state_tx = "TX_OAMPDU"
            BY <1>0, <1>1, <2>0, <2>1 DEF Spent, SameSent, Resets
        <2>2. CASE i.state_tx = "DEC_PDU_CNT"
            BY <1>1, <2>0, <2>2 DEF Spent, SameSent, TxStep, Idle
        <2>3. CASE i.state_tx = "WAIT_FOR_TX"
            <3>1. j.local_pdu = i.local_pdu
                BY <1>1 DEF Untouched
            <3>2. MayTransmit(i) /\ i.pdu_req = "NORMAL" => i.local_pdu # "RX_INFO"
                BY DEF MayTransmit
            <3> QED
                BY <1>1, <2>0, <2>3, <3>1, <3>2 DEF Spent, WaitStep, SameSent, Resets
        <2> QED
            BY <1>0, <2>1, <2>2, <2>3 DEF TxState
    <1>10. LInv(j, g, w, c)
        BY <1>2, <1>4, <1>5, <1>6, <1>7, <1>8, <1>9 DEF LInv
    <1> QED
        BY <1>2, <1>4, <1>10 DEF j

(***************************************************************************)
(* The loop comes to rest                                                  *)
(***************************************************************************)
\* How many steps the transmit machine is away from rest, at most.
TxDist(i) ==
    IF i.state_tx = "WAIT_FOR_TX"
    THEN IF ~i.pdu_timer_done /\ i.pdu_req = "NONE" THEN 0 ELSE 3
    ELSE IF i.state_tx = "DEC_PDU_CNT" THEN IF i.pdu_timer_done THEN 3 ELSE 2
    ELSE IF i.state_tx = "TX_OAMPDU" THEN IF i.pdu_timer_done THEN 2 ELSE 1
    ELSE IF i.pdu_timer_done THEN 4 ELSE 1

\* A step of the transmit machine brings it closer, and changes its state
\* unless it is at rest afterwards.
LEMMA TxDistStep ==
    ASSUME NEW i \in Intf, ~i.BEGIN,
           i.state_tx # "WAIT_FOR_TX" => i.pdu_req = "NONE"
    PROVE  LET j == oam_sm_tx_transition(i) IN
           /\ TxDist(i) = 0 => TxDist(j) = 0 /\ j.state_tx = i.state_tx
           /\ TxDist(i) # 0 => /\ TxDist(j) <= TxDist(i) - 1
                               /\ j.state_tx # i.state_tx \/ TxDist(j) = 0
    <1> DEFINE j == oam_sm_tx_transition(i)
    <1>0. i.pdu_timer_done \in BOOLEAN /\ i.state_tx \in TxState
        BY Fields
    <1>1. /\ i.state_tx = "RESET" \/ (i.state_tx = "TX_OAMPDU" /\ ~i.pdu_timer_done) =>
               /\ j.state_tx = "WAIT_FOR_TX" /\ j.pdu_req = i.pdu_req
               /\ j.pdu_timer_done = i.pdu_timer_done
          /\ i.state_tx = "TX_OAMPDU" /\ i.pdu_timer_done =>
               j.state_tx = "RESET" /\ j.pdu_timer_done = FALSE
          /\ i.state_tx = "DEC_PDU_CNT" =>
               /\ j.state_tx = "TX_OAMPDU"
               /\ j.pdu_timer_done = i.pdu_timer_done
          /\ i.state_tx = "WAIT_FOR_TX" => WaitStep(i, j)
        BY TxEffect DEF Resets, TxStep
    <1>2. i.state_tx = "WAIT_FOR_TX" =>
            /\ j.pdu_req = "NONE"
            /\ i.pdu_timer_done =>
                \/ j.state_tx = "RESET" /\ j.pdu_timer_done = FALSE
                \/ j.state_tx = "TX_OAMPDU"
            /\ ~i.pdu_timer_done =>
                /\ j.pdu_timer_done = i.pdu_timer_done
                /\ j.state_tx \in {"DEC_PDU_CNT", "WAIT_FOR_TX"}
                /\ i.pdu_req = "NONE" => j.state_tx = "WAIT_FOR_TX"
        BY <1>0, <1>1 DEF WaitStep, Resets, MayTransmit
    <1> HIDE DEF j
    <1>3. /\ TxDist(i) = 0 => TxDist(j) = 0 /\ j.state_tx = i.state_tx
          /\ TxDist(i) # 0 => /\ TxDist(j) <= TxDist(i) - 1
                              /\ j.state_tx # i.state_tx \/ TxDist(j) = 0
        BY <1>0, <1>1, <1>2 DEF TxDist, TxState
    <1> QED
        BY <1>3 DEF j

\* What a pass of the loop, and so a run, preserves.
Onward(i, j) ==
    /\ SameInputs(i, j)
    /\ j.revision_last_rx = i.revision_last_rx
    /\ j.runaway = i.runaway /\ j.valid = i.valid
    /\ j.ext_valid = i.ext_valid /\ j.ext_version = i.ext_version
    /\ ExtMoves(i, j)
    /\ j.local_pdu = "RX_INFO" => i.local_pdu = "RX_INFO"
    /\ i.local_pdu = "RX_INFO" /\ ~i.remote_state_valid =>
            j.local_pdu = "RX_INFO"
    /\ i.tx # <<>> => j.tx # <<>>

\* What a handler does in two parts it does as a whole.
LEMMA OnwardTransitive ==
    ASSUME NEW i, NEW j, NEW k, Onward(i, j), Onward(j, k)
    PROVE  Onward(i, k)
    BY DEF Onward, SameInputs, ExtMoves

\* The loop stops only at rest.
AtRest(i) == Dist(i) = 0 /\ TxDist(i) = 0

PassOK(s, g, w, c) ==
    /\ s \in Loop /\ LInv(s.intf, g, w, c)
    /\ s.moved \/ AtRest(s.intf)

\* A pass keeps the invariant, brings both machines closer to rest, and moves
\* neither when they are there.
LEMMA PassStep ==
    ASSUME NEW s, NEW g, NEW w, NEW c, PassOK(s, g, w, c)
    PROVE  LET t == SmPass(s) IN
           /\ PassOK(t, g, w, c) /\ Onward(s.intf, t.intf)
           /\ Dist(t.intf) = 0 \/ Dist(t.intf) <= Dist(s.intf) - 1
           /\ TxDist(t.intf) = 0 \/ TxDist(t.intf) <= TxDist(s.intf) - 1
           /\ AtRest(s.intf) => t.moved = FALSE
    <1> DEFINE i == s.intf
               j == oam_sm_disc_transition(i)
               k == oam_sm_tx_transition(j)
               t == SmPass(s)
    <1>0. s \in Loop /\ i \in Intf /\ LInv(i, g, w, c) /\ t \in Loop
          /\ (s.moved \/ AtRest(i)) /\ s.moved \in BOOLEAN
        BY SmPassType DEF PassOK, Loop
    <1>1. CASE ~s.moved
        <2>1. t = s
            BY <1>1 DEF SmPass
        <2> QED
            BY <1>0, <1>1, <2>1 DEF AtRest, Onward, SameInputs, ExtMoves
    <1>2. CASE s.moved
        <2>1. j \in Intf /\ k \in Intf
            BY <1>0, DiscTransitionType, TxTransitionType
        <2>2. /\ LInv(j, g, w, c) /\ Near(j) /\ SameTx(i, j)
              /\ i.pdu_timer_done \/ i.state_tx = "DEC_PDU_CNT" => Truthful(j)
              /\ j.local_pdu = "RX_INFO" => i.local_pdu = "RX_INFO"
              /\ i.local_pdu = "RX_INFO" /\ ~i.remote_state_valid =>
                   j.local_pdu = "RX_INFO"
              /\ Dist(i) = 0 => j = i
            BY <1>0, DiscKeeps
        <2>3. /\ Dist(i) = 0 => Dist(j) = 0
              /\ Dist(i) # 0 => /\ Dist(j) <= Dist(i) - 1
                                /\ j.state_disc # i.state_disc
            BY <1>0, DiscTransitionStep DEF LInv
        <2>4. t.intf = k
            BY <1>2 DEF SmPass
        <2>5. t.moved <=> k.state_disc # i.state_disc \/ k.state_tx # i.state_tx
            BY <1>2 DEF SmPass
        <2>6. t.moved \in BOOLEAN
            BY <1>0 DEF Loop
        <2> HIDE DEF t, j
        <2>7. LInv(k, g, w, c) /\ Near(k) /\ (j.tx # <<>> => k.tx # <<>>)
            BY <2>1, <2>2, TxKeeps DEF SameTx, SameBudget
        <2>8. Untouched(j, k) /\ ExtMoves(j, k)
            BY <2>1, <2>2, TxEffect DEF LInv
        <2>9. /\ TxDist(j) = 0 => TxDist(k) = 0 /\ k.state_tx = j.state_tx
              /\ TxDist(j) # 0 => /\ TxDist(k) <= TxDist(j) - 1
                                  /\ k.state_tx # j.state_tx \/ TxDist(k) = 0
            BY <2>1, <2>2, TxDistStep DEF LInv
        <2> HIDE DEF k
        <2>10. TxDist(j) = TxDist(i) /\ j.state_tx = i.state_tx
            BY <2>2 DEF SameTx, SameBudget, TxDist
        <2>11. Dist(k) = Dist(j) /\ k.state_disc = j.state_disc
            BY <2>1, <2>8, DistFacts DEF Untouched, SameDisc
        <2>12. Onward(i, k)
            BY <2>2, <2>7, <2>8
            DEF Onward, SameTx, SameInputs, Untouched, SameDisc, ExtMoves
        <2> HIDE DEF i
        <2>13. t.moved \/ AtRest(k)
            BY <2>3, <2>5, <2>9, <2>10, <2>11 DEF AtRest
        <2>14. AtRest(i) => t.moved = FALSE
            BY <2>2, <2>5, <2>6, <2>9, <2>10, <2>11 DEF AtRest
        <2>15. PassOK(t, g, w, c)
            BY <1>0, <2>4, <2>7, <2>13 DEF PassOK
        <2> QED
            BY <2>3, <2>4, <2>9, <2>10, <2>11, <2>12, <2>14, <2>15 DEF i, t
    <1> QED
        BY <1>0, <1>1, <1>2

\* Both distances are numbers.
LEMMA DistRanges ==
    ASSUME NEW s, NEW g, NEW w, NEW c, PassOK(s, g, w, c)
    PROVE  Dist(s.intf) \in 0 .. 4 /\ TxDist(s.intf) \in 0 .. 4
    BY DistFacts DEF PassOK, Loop, TxDist

\* Four passes bring both machines to rest.
LEMMA Pass4Step ==
    ASSUME NEW s, NEW g, NEW w, NEW c, PassOK(s, g, w, c)
    PROVE  LET t == SmPass4(s) IN
           /\ PassOK(t, g, w, c) /\ Onward(s.intf, t.intf)
           /\ AtRest(t.intf)
           /\ AtRest(s.intf) => t.moved = FALSE
    <1> DEFINE a == SmPass(s)
               b == SmPass(a)
               p == SmPass(b)
               d == SmPass(p)
    <1>1. /\ PassOK(a, g, w, c) /\ Onward(s.intf, a.intf)
          /\ Dist(a.intf) = 0 \/ Dist(a.intf) <= Dist(s.intf) - 1
          /\ TxDist(a.intf) = 0 \/ TxDist(a.intf) <= TxDist(s.intf) - 1
        BY PassStep
    <1> HIDE DEF a
    <1>2. /\ PassOK(b, g, w, c) /\ Onward(a.intf, b.intf)
          /\ Dist(b.intf) = 0 \/ Dist(b.intf) <= Dist(a.intf) - 1
          /\ TxDist(b.intf) = 0 \/ TxDist(b.intf) <= TxDist(a.intf) - 1
        BY <1>1, PassStep
    <1> HIDE DEF b
    <1>3. /\ PassOK(p, g, w, c) /\ Onward(b.intf, p.intf)
          /\ Dist(p.intf) = 0 \/ Dist(p.intf) <= Dist(b.intf) - 1
          /\ TxDist(p.intf) = 0 \/ TxDist(p.intf) <= TxDist(b.intf) - 1
        BY <1>2, PassStep
    <1> HIDE DEF p
    <1>4. /\ PassOK(d, g, w, c) /\ Onward(p.intf, d.intf)
          /\ Dist(d.intf) = 0 \/ Dist(d.intf) <= Dist(p.intf) - 1
          /\ TxDist(d.intf) = 0 \/ TxDist(d.intf) <= TxDist(p.intf) - 1
          /\ AtRest(p.intf) => d.moved = FALSE
        BY <1>3, PassStep
    <1> HIDE DEF d
    <1>5. /\ Dist(s.intf) \in 0 .. 4 /\ Dist(a.intf) \in 0 .. 4
          /\ Dist(b.intf) \in 0 .. 4 /\ Dist(p.intf) \in 0 .. 4
          /\ Dist(d.intf) \in 0 .. 4
        BY <1>1, <1>2, <1>3, <1>4, DistRanges
    <1>6. /\ TxDist(s.intf) \in 0 .. 4 /\ TxDist(a.intf) \in 0 .. 4
          /\ TxDist(b.intf) \in 0 .. 4 /\ TxDist(p.intf) \in 0 .. 4
          /\ TxDist(d.intf) \in 0 .. 4
        BY <1>1, <1>2, <1>3, <1>4, DistRanges
    <1>7. Dist(d.intf) = 0
        BY <1>1, <1>2, <1>3, <1>4, <1>5
    <1>8. TxDist(d.intf) = 0
        BY <1>1, <1>2, <1>3, <1>4, <1>6
    <1>9. AtRest(s.intf) => AtRest(p.intf)
        <2>1. Dist(s.intf) = 0 => Dist(p.intf) = 0
            BY <1>1, <1>2, <1>3, <1>5
        <2>2. TxDist(s.intf) = 0 => TxDist(p.intf) = 0
            BY <1>1, <1>2, <1>3, <1>6
        <2> QED
            BY <2>1, <2>2 DEF AtRest
    <1>10. Onward(s.intf, d.intf)
        <2>1. Onward(s.intf, b.intf)
            BY <1>1, <1>2, OnwardTransitive
        <2>2. Onward(s.intf, p.intf)
            BY <1>3, <2>1, OnwardTransitive
        <2> QED
            BY <1>4, <2>2, OnwardTransitive
    <1>11. SmPass4(s) = d
        BY DEF SmPass4, a, b, p, d
    <1> QED
        BY <1>4, <1>7, <1>8, <1>9, <1>10, <1>11 DEF AtRest

(***************************************************************************)
(* The operations of a handler                                             *)
(***************************************************************************)
\* A settled interface is at rest in a state that its flags describe.
LEMMA SettledFacts ==
    ASSUME NEW i \in Intf, Settled(i), Mode(i)
    PROVE  /\ i.state_disc # "FAULT" /\ Near(i) /\ Truthful(i)
           /\ i.state_disc = "PASSIVE_WAIT" => ~i.remote_state_valid
    <1>1. /\ i.state_disc \in DiscState
          /\ i.local_satisfied \in BOOLEAN /\ i.remote_stable \in BOOLEAN
          /\ i.remote_state_valid \in BOOLEAN
        BY Fields
    <1> QED
        BY <1>1 DEF Settled, Dist, DiscState, Mode, Near, Truthful

\* Between two operations the invariant of the loop holds too.
LEMMA HandlerLoop ==
    ASSUME NEW i \in Intf, NEW g, NEW w, NEW c, HInv(i, g, w, c)
    PROVE  LInv(i, g, w, c)
    <1>1. Near(i) /\ i.state_disc # "FAULT"
        BY SettledFacts DEF HInv
    <1> QED
        BY <1>1 DEF HInv, LInv, Settled, AboutToGo

\* A run of the machines leads from the one to the other.
LEMMA RunGood ==
    ASSUME NEW i \in Intf, NEW g, NEW w, NEW c, LInv(i, g, w, c), ~i.runaway
    PROVE  LET j == oam_sm_run(i) IN
           j \in Intf /\ HInv(j, g, w, c) /\ Onward(i, j)
    <1> DEFINE s == [intf |-> i, moved |-> TRUE]
               a == SmPass4(s)
               b == SmPass4(a)
               r == SmPass4(b)
               j == oam_sm_run(i)
    <1>1. PassOK(s, g, w, c) /\ s.intf = i
        BY DEF PassOK, Loop
    <1>2. PassOK(a, g, w, c) /\ Onward(s.intf, a.intf) /\ AtRest(a.intf)
        BY <1>1, Pass4Step
    <1> HIDE DEF a
    <1>3. PassOK(b, g, w, c) /\ Onward(a.intf, b.intf) /\ AtRest(b.intf)
        BY <1>2, Pass4Step
    <1> HIDE DEF b
    <1>4. /\ PassOK(r, g, w, c) /\ Onward(b.intf, r.intf) /\ AtRest(r.intf)
          /\ r.moved = FALSE
        BY <1>3, Pass4Step
    <1>5. j = [r.intf EXCEPT !.runaway = r.intf.runaway \/ r.moved]
        BY DEF oam_sm_run, r, b, a, s
    <1>6. j \in Intf
        BY SmRunType
    <1> HIDE DEF r, j
    <1>7. r.intf \in Intf /\ LInv(r.intf, g, w, c)
        BY <1>4 DEF PassOK, Loop
    <1>8. Onward(i, r.intf)
        BY <1>1, <1>2, <1>3, <1>4, OnwardTransitive
    <1>9. r.intf.runaway = FALSE
        <2>1. r.intf.runaway = i.runaway /\ i.runaway \in BOOLEAN
            BY <1>8, Fields DEF Onward
        <2> QED
            BY <2>1
    <1>10. j = [r.intf EXCEPT !.runaway = FALSE]
        BY <1>4, <1>5, <1>9
    <1>11. j = r.intf
        BY <1>7, <1>9, <1>10 DEF Intf
    <1>12. /\ Settled(j) /\ j.state_tx = "WAIT_FOR_TX" /\ ~j.pdu_timer_done
           /\ j.pdu_req = "NONE"
        BY <1>4, <1>7, <1>11, Fields DEF AtRest, TxDist, Settled, LInv, TxState
    <1>13. ~g /\ w => j.pdu_func = "NULL"
        BY <1>7, <1>11, <1>12 DEF LInv, AboutToGo
    <1>14. HInv(j, g, w, c)
        BY <1>7, <1>9, <1>11, <1>12, <1>13 DEF LInv, HInv
    <1> QED
        BY <1>6, <1>8, <1>11, <1>14 DEF j

\* Interfaces that differ in nothing the invariant is about.
Alike(i, j) ==
    /\ SameDisc(i, j) /\ SameBudget(i, j)
    /\ j.local_pdu = i.local_pdu /\ j.local_stable = i.local_stable
    /\ j.local_dying_gasp = i.local_dying_gasp
    /\ j.local_critical_event = i.local_critical_event
    /\ j.pdu_func = i.pdu_func /\ j.tx = i.tx
    /\ j.sent = i.sent /\ j.dropped = i.dropped
    /\ j.runaway = i.runaway /\ j.valid = i.valid
    /\ j.ext_valid = i.ext_valid /\ j.ext_status = i.ext_status

\* The invariant does not depend on the remaining fields.
LEMMA AlikeGood ==
    ASSUME NEW i \in Intf, NEW j \in Intf, Alike(i, j),
           NEW g, NEW w, NEW c, HInv(i, g, w, c)
    PROVE  HInv(j, g, w, c)
    <1>1. Settled(j)
        BY SettledSame DEF HInv, Alike
    <1>2. Mode(j) /\ TrueFlags(j) /\ Spent(j)
        BY DEF HInv, Alike, SameDisc, SameBudget, Mode, TrueFlags, Spent
    <1>3. Budget(j, g)
        BY DEF HInv, Alike, SameBudget, Budget
    <1>4. SpokenTo(j, g) /\ Offers(j, c)
        BY DEF HInv, Alike, SpokenTo, Offers
    <1> QED
        BY <1>1, <1>2, <1>3, <1>4 DEF HInv, Alike, SameBudget

\* A change of what the discovery machine reads.
LEMMA CtlGood ==
    ASSUME NEW i \in Intf, NEW satisfied \in BOOLEAN,
           NEW state_valid \in BOOLEAN, NEW stable \in BOOLEAN,
           satisfied => state_valid, NEW g, NEW w, NEW c, HInv(i, g, w, c)
    PROVE  LET j == oam_req_oam_ctl(i, satisfied, state_valid, stable) IN
           /\ j \in Intf /\ HInv(j, g, w, c)
           /\ j.local_satisfied = satisfied /\ j.remote_state_valid = state_valid
           /\ j.remote_stable = stable
           /\ j.revision_last_rx = i.revision_last_rx /\ j.valid = i.valid
           /\ j.ext_valid = i.ext_valid /\ j.ext_version = i.ext_version
           /\ ExtMoves(i, j)
           /\ j.local_pdu = "RX_INFO" => i.local_pdu = "RX_INFO"
           /\ i.local_pdu = "RX_INFO" /\ ~state_valid => j.local_pdu = "RX_INFO"
    <1> DEFINE k == [i EXCEPT !.local_satisfied = satisfied,
                              !.remote_state_valid = state_valid,
                              !.remote_stable = stable]
               j == oam_req_oam_ctl(i, satisfied, state_valid, stable)
    <1>1. k \in Intf
        BY Updates
    <1>2. /\ k.BEGIN = i.BEGIN /\ k.state_disc = i.state_disc
          /\ k.local_satisfied = satisfied /\ k.remote_stable = stable
          /\ k.remote_state_valid = state_valid
          /\ SameBudget(i, k)
          /\ k.local_pdu = i.local_pdu /\ k.local_stable = i.local_stable
          /\ k.local_dying_gasp = i.local_dying_gasp
          /\ k.local_critical_event = i.local_critical_event
          /\ k.pdu_func = i.pdu_func /\ k.tx = i.tx
          /\ k.sent = i.sent /\ k.dropped = i.dropped
          /\ k.runaway = i.runaway /\ k.valid = i.valid
          /\ k.ext_valid = i.ext_valid /\ k.ext_status = i.ext_status
          /\ k.ext_version = i.ext_version
          /\ k.revision_last_rx = i.revision_last_rx
        BY DEF Intf, SameBudget
    <1>3. j = IF \/ satisfied # i.local_satisfied
                 \/ state_valid # i.remote_state_valid
                 \/ stable # i.remote_stable
              THEN oam_sm_run(k) ELSE k
        BY DEF oam_req_oam_ctl
    <1> HIDE DEF k, j
    <1>4. CASE /\ satisfied = i.local_satisfied
               /\ state_valid = i.remote_state_valid
               /\ stable = i.remote_stable
        <2>1. j = k
            BY <1>3, <1>4
        <2>2. Alike(i, k)
            BY <1>2, <1>4 DEF Alike, SameDisc
        <2>3. HInv(k, g, w, c)
            BY <1>1, <2>2, AlikeGood
        <2> QED
            BY <1>1, <1>2, <2>1, <2>3 DEF j, ExtMoves
    <1>5. CASE \/ satisfied # i.local_satisfied
               \/ state_valid # i.remote_state_valid
               \/ stable # i.remote_stable
        <2>1. j = oam_sm_run(k)
            BY <1>3, <1>5
        <2>2. i.state_disc # "FAULT"
            BY SettledFacts DEF HInv
        <2>3. Mode(k) /\ TrueFlags(k) /\ Spent(k)
            BY <1>2 DEF HInv, SameBudget, Mode, TrueFlags, Spent
        <2>4. Budget(k, g)
            BY <1>2 DEF HInv, SameBudget, Budget
        <2>5. SpokenTo(k, g) /\ Offers(k, c) /\ AboutToGo(k, g, w)
            BY <1>2 DEF HInv, SpokenTo, Offers, AboutToGo
        <2>6. LInv(k, g, w, c) /\ ~k.runaway
            BY <1>2, <2>2, <2>3, <2>4, <2>5 DEF HInv, LInv, Settled, SameBudget
        <2>7. j \in Intf /\ HInv(j, g, w, c) /\ Onward(k, j)
            BY <1>1, <2>1, <2>6, RunGood
        <2> QED
            BY <1>2, <2>7 DEF Onward, SameInputs, ExtMoves, j
    <1> QED
        BY <1>4, <1>5

\* A request is classified; without a gasp it is a normal one.  One that
\* finds another pending changes nothing else; one that does not is posted.
LEMMA ClassifyGood ==
    ASSUME NEW i \in Intf, NEW func \in PduFunc, NEW parm \in PduParm,
           func # "NULL", NEW g, NEW w, NEW c, HInv(i, g, w, c)
    PROVE  LET j == [i EXCEPT !.pdu_req = RequestClass(i)]
               k == [j EXCEPT !.pdu_func = func, !.pdu_parm = parm] IN
           /\ j \in Intf /\ Untouched(i, j) /\ j.tx = i.tx
           /\ j.ext_status = i.ext_status
           /\ i.pdu_func # "NULL" => HInv(j, g, w, c)
           /\ k \in Intf /\ Untouched(i, k) /\ k.tx = i.tx
           /\ k.ext_status = i.ext_status /\ k.pdu_func = func
           /\ k.state_tx = i.state_tx /\ k.pdu_timer_done = i.pdu_timer_done
           /\ ~g => k.pdu_req = "NORMAL"
           /\ Settled(k) /\ Mode(k) /\ TrueFlags(k) /\ Offers(k, c)
           /\ SpokenTo(k, g) /\ Budget(k, g) /\ Spent(k)
    <1> DEFINE j == [i EXCEPT !.pdu_req = RequestClass(i)]
               k == [j EXCEPT !.pdu_func = func, !.pdu_parm = parm]
    <1>1. RequestClass(i) \in PduReq
        BY DEF RequestClass, PduReq
    <1>2. j \in Intf
        BY <1>1, Updates
    <1>3. /\ j.state_tx = i.state_tx /\ j.pdu_req = RequestClass(i)
          /\ j.pdu_timer_done = i.pdu_timer_done /\ j.pdu_cnt = i.pdu_cnt
          /\ j.burst = i.burst /\ Untouched(i, j)
          /\ j.pdu_func = i.pdu_func /\ j.tx = i.tx
          /\ j.sent = i.sent /\ j.dropped = i.dropped
          /\ j.ext_status = i.ext_status
        BY DEF Intf, SameDisc, Untouched
    <1> HIDE DEF j
    <1>4. k \in Intf
        BY <1>2, Updates
    <1>5. /\ Untouched(j, k) /\ SameBudget(j, k)
          /\ k.pdu_func = func /\ k.tx = j.tx
          /\ k.sent = j.sent /\ k.dropped = j.dropped
          /\ k.ext_status = j.ext_status
        BY <1>2 DEF Intf, SameDisc, Untouched, SameBudget
    <1> HIDE DEF k
    <1>6. ~g => RequestClass(i) = "NORMAL"
        BY DEF HInv, Budget, RequestClass
    <1>7. \A q \in {j, k} :
            /\ Untouched(i, q) /\ Settled(q) /\ Mode(q) /\ TrueFlags(q)
            /\ SpokenTo(q, g) /\ Offers(q, c)
        <2> TAKE q \in {j, k}
        <2>1. /\ SameDisc(i, q) /\ Untouched(i, q) /\ q.tx = i.tx
              /\ q.ext_status = i.ext_status /\ q \in Intf
            BY <1>2, <1>3, <1>4, <1>5 DEF SameDisc, Untouched
        <2>2. Settled(q)
            BY <2>1, SettledSame DEF HInv
        <2> QED
            BY <2>1, <2>2 DEF HInv, Mode, TrueFlags, SpokenTo, Offers, Untouched,
                              SameDisc
    <1>8. Budget(j, g) /\ Budget(k, g)
        BY <1>3, <1>5, <1>6 DEF HInv, Budget, Untouched, SameBudget
    <1>9. Spent(k) /\ (i.pdu_func # "NULL" => Spent(j))
        BY <1>3, <1>5 DEF HInv, Spent, SameBudget
    <1>10. i.pdu_func # "NULL" => HInv(j, g, w, c)
        BY <1>3, <1>7, <1>8, <1>9 DEF HInv, Untouched
    <1>11. /\ k.state_tx = i.state_tx /\ k.pdu_timer_done = i.pdu_timer_done
           /\ ~g => k.pdu_req = "NORMAL"
        BY <1>3, <1>5, <1>6 DEF SameBudget
    <1> QED
        BY <1>2, <1>3, <1>4, <1>5, <1>7, <1>8, <1>9, <1>10, <1>11 DEF j, k

\* What Untouched keeps, Onward allows.
LEMMA UntouchedOnward ==
    ASSUME NEW i, NEW j, Untouched(i, j), ExtMoves(i, j), i.tx # <<>> => j.tx # <<>>
    PROVE  Onward(i, j)
    BY DEF Untouched, Onward, SameDisc, SameInputs

\* A request to the transmit machine.
LEMMA RequestGood ==
    ASSUME NEW i \in Intf, NEW func \in PduFunc, NEW parm \in PduParm,
           func # "NULL", NEW g, NEW w, NEW c, HInv(i, g, w, c)
    PROVE  LET r == oam_req_oampdu(i, func, parm) IN
           r \in Intf /\ HInv(r, g, w, c) /\ Onward(i, r)
    <1> DEFINE j == [i EXCEPT !.pdu_req = RequestClass(i)]
               k == [j EXCEPT !.pdu_func = func, !.pdu_parm = parm]
    <1>1. /\ j \in Intf /\ Untouched(i, j) /\ j.tx = i.tx
          /\ j.ext_status = i.ext_status
          /\ i.pdu_func # "NULL" => HInv(j, g, w, c)
          /\ k \in Intf /\ Untouched(i, k) /\ k.tx = i.tx
          /\ k.ext_status = i.ext_status /\ k.pdu_func = func
          /\ k.state_tx = i.state_tx /\ k.pdu_timer_done = i.pdu_timer_done
          /\ ~g => k.pdu_req = "NORMAL"
          /\ Settled(k) /\ Mode(k) /\ TrueFlags(k) /\ Offers(k, c)
          /\ SpokenTo(k, g) /\ Budget(k, g) /\ Spent(k)
        BY ClassifyGood
    <1>2. oam_req_oampdu(i, func, parm) =
            IF i.pdu_func # "NULL" THEN j ELSE oam_sm_run(k)
        BY DEF oam_req_oampdu
    <1> HIDE DEF j, k
    <1>3. CASE i.pdu_func # "NULL"
        BY <1>1, <1>2, <1>3, UntouchedOnward DEF ExtMoves
    <1>4. CASE i.pdu_func = "NULL"
        <2>1. Onward(i, k)
            BY <1>1, UntouchedOnward DEF ExtMoves
        <2>2. Near(k) /\ k.state_disc # "FAULT"
            BY <1>1, SettledFacts
        <2>3. k.state_tx = "WAIT_FOR_TX" /\ ~k.pdu_timer_done /\ ~k.runaway
            BY <1>1 DEF HInv, Untouched
        <2>4. LInv(k, g, w, c)
            BY <1>1, <2>2, <2>3 DEF LInv, Settled, AboutToGo
        <2>5. /\ oam_sm_run(k) \in Intf /\ HInv(oam_sm_run(k), g, w, c)
              /\ Onward(k, oam_sm_run(k))
            BY <1>1, <2>3, <2>4, RunGood
        <2> QED
            BY <1>2, <1>4, <2>1, <2>5, OnwardTransitive
    <1> QED
        BY <1>3, <1>4

\* An Information OAMPDU handed to the transmit rule directly.
LEMMA DirectGood ==
    ASSUME NEW i \in Intf, NEW g, NEW w, NEW c, HInv(i, g, w, c),
           g \/ ~w \/ i.local_pdu # "RX_INFO"
    PROVE  LET r == oam_discovery_send(i, "info", "NULL") IN
           /\ r \in Intf /\ HInv(r, g, w, c) /\ Onward(i, r)
           /\ i.pdu_func = "NULL" /\ i.local_pdu # "RX_INFO" =>
                \E n \in DOMAIN r.tx : r.tx[n].code = "INFO"
    <1> DEFINE j == [i EXCEPT !.pdu_req = RequestClass(i)]
               k == [j EXCEPT !.pdu_func = "info", !.pdu_parm = "NULL"]
               r == oam_discovery_send(i, "info", "NULL")
               h == oam_build_pdu_hdr(k, "INFO")
    <1>0. "info" \in PduFunc /\ "NULL" \in PduParm /\ "info" # "NULL"
        BY DEF PduFunc, PduParm
    <1>1. /\ j \in Intf /\ Untouched(i, j) /\ j.tx = i.tx
          /\ j.ext_status = i.ext_status
          /\ i.pdu_func # "NULL" => HInv(j, g, w, c)
          /\ k \in Intf /\ Untouched(i, k) /\ k.tx = i.tx
          /\ k.ext_status = i.ext_status /\ k.pdu_func = "info"
          /\ k.state_tx = i.state_tx /\ k.pdu_timer_done = i.pdu_timer_done
          /\ ~g => k.pdu_req = "NORMAL"
          /\ Settled(k) /\ Mode(k) /\ TrueFlags(k) /\ Offers(k, c)
          /\ SpokenTo(k, g) /\ Budget(k, g) /\ Spent(k)
        BY <1>0, ClassifyGood
    <1>2. r = IF i.pdu_func # "NULL" THEN j ELSE oam_tx_by_rule(k)
        BY DEF oam_discovery_send
    <1>3. r \in Intf
        BY <1>0, RequestTypes
    <1> HIDE DEF j, k, r
    <1>4. CASE i.pdu_func # "NULL"
        <2>1. HInv(r, g, w, c) /\ Onward(i, r)
            BY <1>1, <1>2, <1>4, UntouchedOnward DEF ExtMoves
        <2> QED
            BY <1>3, <1>4, <2>1 DEF r
    <1>5. CASE i.pdu_func = "NULL"
        <2>1. r = oam_tx_by_rule(k)
            BY <1>2, <1>5
        <2>2. /\ Untouched(k, r) /\ SameBudget(k, r) /\ ExtMoves(k, r)
              /\ Idle(k) => r = k
              /\ ~Idle(k) => r.pdu_func = "NULL" /\ (Drops(k, r) \/ Sends(k, r))
            BY <1>1, <2>1, RuleEffect
        <2>3. Untouched(i, r) /\ ExtMoves(i, r)
            BY <1>1, <2>2 DEF Untouched, SameDisc, ExtMoves
        <2>4. Idle(k) <=> i.local_pdu = "RX_INFO"
            BY <1>1 DEF Idle, Untouched
        <2>5. CASE i.local_pdu = "RX_INFO"
            <3>1. r = k
                BY <2>2, <2>4, <2>5
            <3>2. HInv(r, g, w, c)
                BY <1>1, <2>5, <3>1 DEF HInv, Untouched
            <3>3. Onward(i, r)
                BY <1>1, <2>3, <3>1, UntouchedOnward
            <3> QED
                BY <1>3, <2>5, <3>2, <3>3 DEF r
        <2>6. CASE i.local_pdu # "RX_INFO"
            <3>1. /\ r.pdu_func = "NULL" /\ r.sent = TRUE
                  /\ r.tx = Append(k.tx, h) /\ r.dropped = k.dropped
                BY <1>1, <2>2, <2>4, <2>6 DEF Drops, Sends
            <3>2. h \in TxPdu /\ BuiltBy(k, h) /\ h.code = "INFO"
                BY <1>1, HdrBuilt
            <3> HIDE DEF h
            <3>3. Adds(k, r)
                BY <3>1, <3>2 DEF Adds
            <3>4. Truthful(k)
                BY <1>1, SettledFacts
            <3>5. TrueFlags(r) /\ Offers(r, c) /\ r.tx # <<>>
                BY <1>1, <2>2, <3>3, <3>4, AddsTruth
            <3>6. Settled(r)
                BY <1>1, <1>3, <2>2, SettledSame DEF Untouched
            <3>7. Mode(r) /\ Budget(r, g)
                BY <1>1, <2>2 DEF Mode, Budget, Untouched, SameDisc, SameBudget
            <3>8. Spent(r) /\ SpokenTo(r, g)
                BY <2>3, <2>6, <3>1 DEF Spent, SpokenTo, Untouched
            <3>9. HInv(r, g, w, c)
                BY <1>1, <2>2, <2>3, <3>1, <3>5, <3>6, <3>7, <3>8
                DEF HInv, Untouched, SameBudget
            <3>10. Onward(i, r)
                BY <2>3, <3>5, UntouchedOnward
            <3>11. \E n \in DOMAIN r.tx : r.tx[n].code = "INFO"
                <4>1. k.tx \in Seq(TxPdu)
                    BY <1>1, Fields
                <4>2. Len(k.tx) + 1 \in DOMAIN r.tx /\ r.tx[Len(k.tx) + 1] = h
                    BY <3>1, <4>1
                <4> QED
                    BY <3>2, <4>2
            <3> QED
                BY <1>3, <3>9, <3>10, <3>11 DEF r
        <2> QED
            BY <2>5, <2>6
    <1> QED
        BY <1>4, <1>5
\* Where the version of the extended discovery comes from.
VersionFrom(i, tlv, j) ==
    j.ext_valid =>
        \/ i.ext_valid /\ j.ext_version = i.ext_version
        \/ tlv.kind = "short" /\ j.ext_version = tlv.ver
        \/ /\ tlv.kind = "list"
           /\ Matched(tlv.vers) = {} \/ j.ext_version = ChosenVersion(tlv.vers)

\* What a handler may not change, but for the extended discovery.
Carries(i, j) ==
    /\ SameInputs(i, j)
    /\ j.revision_last_rx = i.revision_last_rx /\ j.valid = i.valid
    /\ j.local_pdu = "RX_INFO" => i.local_pdu = "RX_INFO"
    /\ i.local_pdu = "RX_INFO" /\ ~i.remote_state_valid =>
            j.local_pdu = "RX_INFO"

\* Reading a TLV changes nothing but the extended discovery.
LEMMA ReadTlvGood ==
    ASSUME NEW i \in Intf, NEW tlv \in ExtTlv, tlv.kind # "none",
           NEW g, NEW w, NEW c, HInv(i, g, w, c),
           c /\ tlv.kind = "list" => Matched(tlv.vers) = {}
    PROVE  LET m == IF tlv.kind = "short" THEN ExtShort(i, tlv)
                    ELSE ExtList(i, tlv) IN
           /\ m \in Intf /\ HInv(m, g, w, c) /\ Carries(i, m)
           /\ VersionFrom(i, tlv, m)
           /\ m.pdu_func = i.pdu_func /\ m.local_pdu = i.local_pdu
    <1> DEFINE m == IF tlv.kind = "short" THEN ExtShort(i, tlv)
                    ELSE ExtList(i, tlv)
    <1>1. m \in Intf
        BY ExtTypes DEF ExtTlv
    <1>2. /\ Carries(i, m) /\ SameDisc(i, m) /\ SameBudget(i, m)
          /\ m.local_pdu = i.local_pdu /\ m.local_stable = i.local_stable
          /\ m.local_dying_gasp = i.local_dying_gasp
          /\ m.local_critical_event = i.local_critical_event
          /\ m.pdu_func = i.pdu_func /\ m.tx = i.tx
          /\ m.sent = i.sent /\ m.dropped = i.dropped
          /\ m.runaway = i.runaway
        BY DEF Intf, ExtShort, ExtList, Carries, SameInputs, SameDisc, SameBudget
    <1>3. i.ext_valid \in BOOLEAN /\ i.ext_status \in ExtStatus
        BY DEF Intf
    <1>4. \A e \in {"NACK", "NOTSUPPORTED"} : ExtAdvance(e) = e
        BY DEF ExtAdvance
    <1>5. CASE tlv.kind = "short"
        <2> DEFINE e == IF tlv.support THEN ExtAdvance(i.ext_status)
                        ELSE "NOTSUPPORTED"
        <2>1. m = IF ~i.ext_valid THEN i
                  ELSE [i EXCEPT !.ext_status = e, !.ext_version = tlv.ver]
            BY <1>5 DEF ExtShort
        <2>2. i.ext_status \in {"NACK", "NOTSUPPORTED"} =>
                e \in {"NACK", "NOTSUPPORTED"}
            BY <1>4
        <2> HIDE DEF e, m
        <2>3. /\ m.ext_valid = i.ext_valid
              /\ ~i.ext_valid => m.ext_status = i.ext_status
              /\ i.ext_valid => m.ext_status = e /\ m.ext_version = tlv.ver
            BY <1>3, <2>1 DEF Intf
        <2>4. Offers(m, c)
            BY <1>2, <2>2, <2>3 DEF HInv, Offers
        <2>5. VersionFrom(i, tlv, m)
            BY <1>5, <2>3 DEF VersionFrom
        <2>6. Settled(m) /\ Mode(m) /\ TrueFlags(m) /\ Spent(m)
            BY <1>1, <1>2, SettledSame
            DEF HInv, Mode, TrueFlags, Spent, SameDisc, SameBudget
        <2>7. Budget(m, g) /\ SpokenTo(m, g)
            BY <1>2 DEF HInv, Budget, SpokenTo, SameBudget
        <2>8. HInv(m, g, w, c)
            BY <1>2, <2>4, <2>6, <2>7 DEF HInv, SameBudget
        <2> QED
            BY <1>1, <1>2, <2>5, <2>8 DEF m
    <1>6. CASE tlv.kind = "list"
        <2>1. m = IF Matched(tlv.vers) = {}
                  THEN [i EXCEPT !.ext_valid = TRUE, !.ext_status = "NACK"]
                  ELSE [i EXCEPT !.ext_valid = TRUE,
                                 !.ext_status = ExtAdvance(i.ext_status),
                                 !.ext_version = ChosenVersion(tlv.vers)]
            BY <1>6 DEF ExtList
        <2> HIDE DEF m
        <2>2. /\ m.ext_valid = TRUE
              /\ Matched(tlv.vers) = {} => m.ext_status = "NACK"
              /\ Matched(tlv.vers) # {} => m.ext_version = ChosenVersion(tlv.vers)
            BY <2>1 DEF Intf
        <2>3. c => \A n \in DOMAIN i.tx : i.tx[n].ext \in {"none", "nack"}
            BY <1>3 DEF HInv, Offers
        <2>4. Offers(m, c)
            BY <1>2, <1>6, <2>2, <2>3 DEF Offers
        <2>5. VersionFrom(i, tlv, m)
            BY <1>6, <2>2 DEF VersionFrom
        <2>6. Settled(m) /\ Mode(m) /\ TrueFlags(m) /\ Spent(m)
            BY <1>1, <1>2, SettledSame
            DEF HInv, Mode, TrueFlags, Spent, SameDisc, SameBudget
        <2>7. Budget(m, g) /\ SpokenTo(m, g)
            BY <1>2 DEF HInv, Budget, SpokenTo, SameBudget
        <2>8. HInv(m, g, w, c)
            BY <1>2, <2>4, <2>6, <2>7 DEF HInv, SameBudget
        <2> QED
            BY <1>1, <1>2, <2>5, <2>8 DEF m
    <1> QED
        BY <1>5, <1>6 DEF ExtTlv

\* The CTC TLV of an Information OAMPDU and its answer.
LEMMA ExtGood ==
    ASSUME NEW i \in Intf, NEW tlv \in ExtTlv,
           NEW g, NEW w, NEW c, HInv(i, g, w, c),
           c /\ tlv.kind = "list" => Matched(tlv.vers) = {},
           tlv.kind = "none" \/ g \/ ~w \/ i.local_pdu # "RX_INFO"
    PROVE  LET r == oam_ctc_proc_pdu_info(i, tlv) IN
           /\ r \in Intf /\ HInv(r, g, w, c) /\ Carries(i, r)
           /\ VersionFrom(i, tlv, r)
           /\ (/\ tlv.kind # "none" /\ i.pdu_func = "NULL"
               /\ i.local_pdu # "RX_INFO") =>
                \E n \in DOMAIN r.tx : r.tx[n].code = "INFO"
    <1>1. CASE tlv.kind = "none"
        <2>1. oam_ctc_proc_pdu_info(i, tlv) = i
            BY <1>1 DEF oam_ctc_proc_pdu_info
        <2> QED
            BY <1>1, <2>1 DEF Carries, SameInputs, VersionFrom
    <1>2. CASE tlv.kind # "none"
        <2> DEFINE m == IF tlv.kind = "short" THEN ExtShort(i, tlv)
                        ELSE ExtList(i, tlv)
                   r == oam_discovery_send(m, "info", "NULL")
        <2>1. /\ m \in Intf /\ HInv(m, g, w, c) /\ Carries(i, m)
              /\ VersionFrom(i, tlv, m)
              /\ m.pdu_func = i.pdu_func /\ m.local_pdu = i.local_pdu
            BY <1>2, ReadTlvGood
        <2>2. oam_ctc_proc_pdu_info(i, tlv) = r
            BY <1>2 DEF oam_ctc_proc_pdu_info
        <2> HIDE DEF m
        <2>3. /\ r \in Intf /\ HInv(r, g, w, c) /\ Onward(m, r)
              /\ m.pdu_func = "NULL" /\ m.local_pdu # "RX_INFO" =>
                    \E n \in DOMAIN r.tx : r.tx[n].code = "INFO"
            BY <1>2, <2>1, DirectGood
        <2> HIDE DEF r
        <2>4. Carries(i, r) /\ VersionFrom(i, tlv, r)
            BY <2>1, <2>3 DEF Carries, SameInputs, Onward, VersionFrom
        <2> QED
            BY <1>2, <2>1, <2>2, <2>3, <2>4
    <1> QED
        BY <1>1, <1>2

\* What the processing of an OAMPDU may do to an interface.
Handled(i, p, j) ==
    /\ j.valid = i.valid
    /\ j.local_satisfied /\ ~i.local_satisfied =>
            j.revision_last_rx # i.revision_last_rx
    /\ j.remote_stable => i.remote_stable \/ p.stable
    /\ j.local_pdu = "RX_INFO" =>
            /\ i.local_pdu = "RX_INFO"
            /\ j.revision_last_rx = i.revision_last_rx
    /\ i.local_pdu = "RX_INFO" /\ j.local_pdu # "RX_INFO" =>
            /\ j.remote_state_valid
            /\ p.code = "INFO" /\ p.rev # i.revision_last_rx
    /\ IF p.code = "INFO" THEN VersionFrom(i, p.ext, j)
       ELSE j.ext_valid => i.ext_valid /\ j.ext_version = i.ext_version

\* A fault the OLT flags.
LEMMA FaultGood ==
    ASSUME NEW i \in Intf, NEW g, NEW w, NEW c, HInv(i, g, w, c)
    PROVE  LET j == RemoteFault(i) IN
           /\ j \in Intf /\ HInv(j, g, w, c)
           /\ ~j.local_satisfied /\ j.remote_stable = i.remote_stable
           /\ j.revision_last_rx = i.revision_last_rx /\ j.valid = i.valid
           /\ j.ext_valid = i.ext_valid /\ j.ext_version = i.ext_version
           /\ j.local_pdu = "RX_INFO" <=> i.local_pdu = "RX_INFO"
    <1>1. i.remote_stable \in BOOLEAN
        BY Fields
    <1>2. PICK no \in BOOLEAN : no = FALSE
        OBVIOUS
    <1>3. RemoteFault(i) = oam_req_oam_ctl(i, no, no, i.remote_stable)
        BY <1>2 DEF RemoteFault
    <1> DEFINE j == oam_req_oam_ctl(i, no, no, i.remote_stable)
    <1>4. /\ j \in Intf /\ HInv(j, g, w, c)
          /\ j.local_satisfied = no /\ j.remote_stable = i.remote_stable
          /\ j.revision_last_rx = i.revision_last_rx /\ j.valid = i.valid
          /\ j.ext_valid = i.ext_valid /\ j.ext_version = i.ext_version
          /\ j.local_pdu = "RX_INFO" => i.local_pdu = "RX_INFO"
          /\ i.local_pdu = "RX_INFO" /\ ~no => j.local_pdu = "RX_INFO"
        BY <1>1, CtlGood
    <1> HIDE DEF j
    <1> QED
        BY <1>2, <1>3, <1>4 DEF j

\* An Information OAMPDU.
LEMMA InfoGood ==
    ASSUME NEW i \in Intf, NEW p \in RxPdu, p.code = "INFO",
           NEW g, NEW w, NEW c, HInv(i, g, w, c),
           c /\ p.ext.kind = "list" => Matched(p.ext.vers) = {},
           \/ p.ext.kind = "none" \/ g \/ ~w
           \/ i.local_pdu # "RX_INFO" \/ p.rev # i.revision_last_rx
    PROVE  LET r == oam_proc_pdu_info(i, p) IN
           /\ r \in Intf /\ HInv(r, g, w, c) /\ Handled(i, p, r)
           /\ ~g /\ w /\ ~p.fault /\ p.ext.kind # "none" =>
                \E n \in DOMAIN r.tx : r.tx[n].code = "INFO"
    <1>1. /\ p.rev \in Revs /\ p.active \in BOOLEAN /\ p.good \in BOOLEAN
          /\ p.ext \in ExtTlv /\ p.fault \in BOOLEAN
        BY DEF RxPdu
    <1>2. ~g /\ w => i.pdu_func = "NULL"
        BY DEF HInv
    <1> DEFINE r == oam_proc_pdu_info(i, p)
    <1>3. CASE p.fault
        <2>1. r = RemoteFault(i)
            BY <1>3 DEF oam_proc_pdu_info
        <2>2. /\ r \in Intf /\ HInv(r, g, w, c)
              /\ ~r.local_satisfied /\ r.remote_stable = i.remote_stable
              /\ r.revision_last_rx = i.revision_last_rx /\ r.valid = i.valid
              /\ r.ext_valid = i.ext_valid /\ r.ext_version = i.ext_version
              /\ r.local_pdu = "RX_INFO" <=> i.local_pdu = "RX_INFO"
            BY <2>1, FaultGood
        <2> HIDE DEF r
        <2>3. Handled(i, p, r)
            BY <2>2 DEF Handled, VersionFrom
        <2> QED
            BY <1>3, <2>2, <2>3 DEF r
    <1>4. CASE ~p.fault /\ p.rev = i.revision_last_rx
        <2>1. r = oam_ctc_proc_pdu_info(i, p.ext)
            BY <1>4 DEF oam_proc_pdu_info
        <2>2. /\ r \in Intf /\ HInv(r, g, w, c) /\ Carries(i, r)
              /\ VersionFrom(i, p.ext, r)
              /\ (/\ p.ext.kind # "none" /\ i.pdu_func = "NULL"
                  /\ i.local_pdu # "RX_INFO") =>
                    \E n \in DOMAIN r.tx : r.tx[n].code = "INFO"
            BY <1>1, <1>4, <2>1, ExtGood
        <2> HIDE DEF r
        <2>3. i.local_pdu = "RX_INFO" => ~i.remote_state_valid
            BY SettledFacts DEF HInv, Mode
        <2>4. Handled(i, p, r)
            BY <2>2, <2>3 DEF Handled, Carries, SameInputs
        <2> QED
            BY <1>2, <1>4, <2>2, <2>4 DEF r
    <1>5. CASE ~p.fault /\ p.rev # i.revision_last_rx
        <2>0. PICK yes \in BOOLEAN, good \in BOOLEAN, stable \in BOOLEAN :
                yes = TRUE /\ good = p.good /\ stable = i.remote_stable
            BY <1>1, Fields
        <2> DEFINE a == [i EXCEPT !.revision_last_rx = p.rev,
                                  !.remote_active = p.active]
                   b == oam_req_oam_ctl(a, good, yes, stable)
                   d == oam_req_oampdu(b, "info", "NULL")
                   reply == i.local_pdu = "RX_INFO"
                                \/ (i.remote_stable /\ i.local_pdu # "ANY")
                   k == IF reply THEN d ELSE b
        <2>1. a \in Intf
            BY <1>1, Sentinels, Updates
        <2>2. /\ Alike(i, a) /\ a.revision_last_rx = p.rev
              /\ a.ext_version = i.ext_version
            BY DEF Intf, Alike, SameDisc, SameBudget
        <2>3. r = oam_ctc_proc_pdu_info(k, p.ext)
            BY <1>5, <2>0, Zenon DEF oam_proc_pdu_info
        <2> HIDE DEF a, r
        <2>4. HInv(a, g, w, c)
            BY <2>1, <2>2, AlikeGood
        <2>5. /\ yes \in BOOLEAN /\ good \in BOOLEAN /\ stable \in BOOLEAN
              /\ good => yes
            BY <2>0
        <2>6. /\ b \in Intf /\ HInv(b, g, w, c)
              /\ b.remote_state_valid = yes
              /\ b.remote_stable = stable
              /\ b.revision_last_rx = a.revision_last_rx /\ b.valid = a.valid
              /\ b.ext_valid = a.ext_valid /\ b.ext_version = a.ext_version
            BY <2>1, <2>4, <2>5, CtlGood
        <2> HIDE DEF b
        <2>7. d \in Intf /\ HInv(d, g, w, c) /\ Onward(b, d)
            BY <2>6, RequestGood DEF PduFunc, PduParm
        <2> HIDE DEF d
        <2>8. /\ k \in Intf /\ HInv(k, g, w, c)
              /\ k.remote_state_valid = TRUE
              /\ k.remote_stable = i.remote_stable
              /\ k.revision_last_rx = p.rev /\ k.valid = i.valid
              /\ k.ext_valid = i.ext_valid /\ k.ext_version = i.ext_version
            BY <2>0, <2>2, <2>6, <2>7 DEF Onward, SameInputs, Alike
        <2> HIDE DEF k
        <2>9. k.local_pdu # "RX_INFO"
            BY <2>8, SettledFacts DEF HInv, Mode
        <2>10. ~g /\ w => k.pdu_func = "NULL"
            BY <2>8 DEF HInv
        <2>11. /\ r \in Intf /\ HInv(r, g, w, c) /\ Carries(k, r)
               /\ VersionFrom(k, p.ext, r)
               /\ (/\ p.ext.kind # "none" /\ k.pdu_func = "NULL"
                   /\ k.local_pdu # "RX_INFO") =>
                    \E n \in DOMAIN r.tx : r.tx[n].code = "INFO"
            BY <1>1, <2>3, <2>8, <2>9, ExtGood
        <2>12. Handled(i, p, r)
            BY <1>5, <2>8, <2>9, <2>11
            DEF Handled, Carries, SameInputs, VersionFrom
        <2> QED
            BY <2>9, <2>10, <2>11, <2>12 DEF r
    <1> QED
        BY <1>1, <1>3, <1>4, <1>5

\* What is done before an OAMPDU is looked at: its flags are taken over and
\* the lost-link timer restarts.
Flagged(i, p, j) ==
    /\ j.local_satisfied = i.local_satisfied
    /\ j.remote_state_valid = i.remote_state_valid
    /\ j.remote_stable => i.remote_stable \/ p.stable
    /\ j.revision_last_rx = i.revision_last_rx /\ j.valid = i.valid
    /\ j.ext_valid = i.ext_valid /\ j.ext_version = i.ext_version
    /\ j.local_pdu = "RX_INFO" <=> i.local_pdu = "RX_INFO"

\* The flags of an OAMPDU.
LEMMA FlagsGood ==
    ASSUME NEW i \in Intf, NEW p \in RxPdu, NEW g, NEW w, NEW c, HInv(i, g, w, c)
    PROVE  LET j == oam_start_local_lost_link_timer(oam_proc_hdr(i, p)) IN
           j \in Intf /\ HInv(j, g, w, c) /\ Flagged(i, p, j)
    <1> DEFINE h == oam_proc_hdr(i, p)
               j == oam_start_local_lost_link_timer(h)
    <1>1. h \in Intf /\ HInv(h, g, w, c) /\ Flagged(i, p, h)
        <2>1. CASE p.code \in {"ORG_SPEC", "PASSAVE_PING"}
            <3>1. h = i
                BY <2>1 DEF oam_proc_hdr
            <3> QED
                BY <3>1 DEF Flagged
        <2>2. CASE p.code \notin {"ORG_SPEC", "PASSAVE_PING"}
            <3>1. p.stable \in BOOLEAN
                BY DEF RxPdu
            <3>2. PICK good \in BOOLEAN, val \in BOOLEAN, stable \in BOOLEAN :
                    /\ good = i.local_satisfied /\ val = i.remote_state_valid
                    /\ stable = p.stable
                BY <3>1, Fields
            <3>3. /\ good \in BOOLEAN /\ val \in BOOLEAN /\ stable \in BOOLEAN
                  /\ good => val
                BY <3>2 DEF HInv, Settled
            <3> DEFINE k == oam_req_oam_ctl(i, good, val, stable)
            <3>4. h = k
                BY <2>2, <3>2, Zenon DEF oam_proc_hdr
            <3>5. /\ k \in Intf /\ HInv(k, g, w, c)
                  /\ k.local_satisfied = good /\ k.remote_state_valid = val
                  /\ k.remote_stable = stable
                  /\ k.revision_last_rx = i.revision_last_rx /\ k.valid = i.valid
                  /\ k.ext_valid = i.ext_valid /\ k.ext_version = i.ext_version
                  /\ k.local_pdu = "RX_INFO" => i.local_pdu = "RX_INFO"
                  /\ i.local_pdu = "RX_INFO" /\ ~val => k.local_pdu = "RX_INFO"
                BY <3>3, CtlGood
            <3> HIDE DEF k, h
            <3>6. i.local_pdu = "RX_INFO" => ~val
                BY <3>2, SettledFacts DEF HInv, Mode
            <3> QED
                BY <3>2, <3>4, <3>5, <3>6 DEF Flagged
        <2> QED
            BY <2>1, <2>2
    <1> HIDE DEF h
    <1>2. j \in Intf
        BY <1>1, TimerTypes
    <1>3. /\ Alike(h, j) /\ j.revision_last_rx = h.revision_last_rx
          /\ j.ext_version = h.ext_version
        BY <1>1 DEF Intf, oam_start_local_lost_link_timer, Alike, SameDisc,
                    SameBudget
    <1> HIDE DEF j
    <1>4. HInv(j, g, w, c)
        BY <1>1, <1>2, <1>3, AlikeGood
    <1>5. Flagged(i, p, j)
        BY <1>1, <1>3 DEF Flagged, Alike, SameDisc
    <1> QED
        BY <1>2, <1>4, <1>5 DEF j, h

\* The OAMPDUs other than the Information OAMPDU.
LEMMA OtherGood ==
    ASSUME NEW i \in Intf, NEW p \in RxPdu, NEW g, NEW w, NEW c, HInv(i, g, w, c)
    PROVE  /\ p.code = "EVENT" =>
                LET r == oam_proc_pdu_event(i, p) IN
                HInv(r, g, w, c) /\ Handled(i, p, r)
           /\ p.code = "VAR_REQ" =>
                LET r == oam_proc_pdu_var_req(i) IN
                HInv(r, g, w, c) /\ Handled(i, p, r)
           /\ p.code = "LOOPBACK" =>
                LET r == oam_proc_pdu_loopback(i, p) IN
                HInv(r, g, w, c) /\ Handled(i, p, r)
    <1>0. i.local_pdu = "RX_INFO" => ~i.remote_state_valid
        BY SettledFacts DEF HInv, Mode
    <1>1. ASSUME NEW j \in Intf, NEW r, Alike(i, j), Onward(j, r),
                 j.revision_last_rx = i.revision_last_rx,
                 j.ext_version = i.ext_version, p.code # "INFO"
          PROVE  Handled(i, p, r)
        <2>1. /\ r.valid = i.valid /\ r.local_satisfied = i.local_satisfied
              /\ r.remote_stable = i.remote_stable
              /\ r.revision_last_rx = i.revision_last_rx
              /\ r.ext_valid = i.ext_valid /\ r.ext_version = i.ext_version
              /\ r.local_pdu = "RX_INFO" <=> i.local_pdu = "RX_INFO"
            BY <1>0, <1>1 DEF Alike, SameDisc, Onward, SameInputs
        <2> QED
            BY <1>1, <2>1 DEF Handled
    <1>2. ASSUME p.code = "EVENT"
          PROVE  LET r == oam_proc_pdu_event(i, p) IN
                 HInv(r, g, w, c) /\ Handled(i, p, r)
        <2> DEFINE j == [i EXCEPT !.seq_num_last_rx = p.seq]
                   f == RemoteFault(j)
        <2>1. p.seq \in SeqRx
            BY <1>2, Sentinels DEF RxPdu
        <2>2. j \in Intf
            BY <2>1, Updates
        <2>3. /\ Alike(i, j) /\ j.revision_last_rx = i.revision_last_rx
              /\ j.ext_version = i.ext_version
            BY DEF Intf, Alike, SameDisc, SameBudget
        <2>4. oam_proc_pdu_event(i, p) = IF p.fault THEN f ELSE j
            BY DEF oam_proc_pdu_event
        <2> HIDE DEF j
        <2>5. HInv(j, g, w, c)
            BY <2>2, <2>3, AlikeGood
        <2>6. /\ f \in Intf /\ HInv(f, g, w, c)
              /\ ~f.local_satisfied /\ f.remote_stable = j.remote_stable
              /\ f.revision_last_rx = j.revision_last_rx /\ f.valid = j.valid
              /\ f.ext_valid = j.ext_valid /\ f.ext_version = j.ext_version
              /\ f.local_pdu = "RX_INFO" <=> j.local_pdu = "RX_INFO"
            BY <2>2, <2>5, FaultGood
        <2> HIDE DEF f
        <2>7. Handled(i, p, f)
            BY <1>2, <2>3, <2>6 DEF Handled, Alike, SameDisc
        <2>8. Handled(i, p, j)
            BY <1>2, <2>3 DEF Handled, Alike, SameDisc
        <2> QED
            BY <2>4, <2>5, <2>6, <2>7, <2>8
    <1>3. ASSUME p.code = "VAR_REQ"
          PROVE  LET r == oam_proc_pdu_var_req(i) IN
                 HInv(r, g, w, c) /\ Handled(i, p, r)
        <2> DEFINE r == oam_req_oampdu(i, "var_rsp", "frame")
        <2>1. r \in Intf /\ HInv(r, g, w, c) /\ Onward(i, r)
            BY RequestGood DEF PduFunc, PduParm
        <2>2. Alike(i, i)
            BY DEF Alike, SameDisc, SameBudget
        <2> HIDE DEF r
        <2>3. Handled(i, p, r)
            BY <1>1, <1>3, <2>1, <2>2
        <2> QED
            BY <2>1, <2>3 DEF oam_proc_pdu_var_req, r
    <1>4. ASSUME p.code = "LOOPBACK"
          PROVE  LET r == oam_proc_pdu_loopback(i, p) IN
                 HInv(r, g, w, c) /\ Handled(i, p, r)
        <2> DEFINE j == [i EXCEPT !.lb_self = p.enable]
                   r == oam_req_oampdu(j, "info", "NULL")
        <2>1. p.enable \in BOOLEAN
            BY <1>4 DEF RxPdu
        <2>2. j \in Intf
            BY <2>1, Updates
        <2>3. /\ Alike(i, j) /\ j.revision_last_rx = i.revision_last_rx
              /\ j.ext_version = i.ext_version
            BY DEF Intf, Alike, SameDisc, SameBudget
        <2>4. oam_proc_pdu_loopback(i, p) = IF p.enable = i.lb_self THEN i ELSE r
            BY DEF oam_proc_pdu_loopback
        <2> HIDE DEF j
        <2>5. HInv(j, g, w, c)
            BY <2>2, <2>3, AlikeGood
        <2>6. r \in Intf /\ HInv(r, g, w, c) /\ Onward(j, r)
            BY <2>2, <2>5, RequestGood DEF PduFunc, PduParm
        <2> HIDE DEF r
        <2>7. Handled(i, p, r)
            BY <1>1, <1>4, <2>2, <2>3, <2>6
        <2>8. Handled(i, p, i)
            BY <1>4 DEF Handled
        <2> QED
            BY <2>4, <2>6, <2>7, <2>8
    <1> QED
        BY <1>2, <1>3, <1>4

\* A handler starts with nothing sent.
LEMMA EnterGood ==
    ASSUME NEW i \in Intf, NEW g, NEW w, NEW c, HInv(i, g, w, c)
    PROVE  LET e == Enter(i) IN
           /\ e \in Intf /\ HInv(e, g, w, c) /\ Untouched(i, e)
           /\ e.tx = <<>> /\ e.pdu_func = i.pdu_func /\ SameBudget(i, e)
           /\ e.sent = i.sent /\ e.dropped = i.dropped
           /\ e.ext_status = i.ext_status /\ e.pdu_timer = i.pdu_timer
    <1> DEFINE e == Enter(i)
    <1>1. e \in Intf
        BY EnterType
    <1>2. /\ Untouched(i, e) /\ SameBudget(i, e)
          /\ e.tx = <<>> /\ e.pdu_func = i.pdu_func
          /\ e.sent = i.sent /\ e.dropped = i.dropped
          /\ e.ext_status = i.ext_status /\ e.pdu_timer = i.pdu_timer
        BY DEF Intf, Enter, Untouched, SameDisc, SameBudget
    <1> HIDE DEF e
    <1>3. Settled(e)
        BY <1>1, <1>2, SettledSame DEF HInv, Untouched
    <1>4. Mode(e) /\ Spent(e)
        BY <1>2 DEF HInv, Untouched, SameDisc, SameBudget, Mode, Spent
    <1>5. Budget(e, g)
        BY <1>2 DEF HInv, Untouched, SameBudget, Budget
    <1>6. TrueFlags(e) /\ SpokenTo(e, g) /\ Offers(e, c)
        BY <1>2 DEF HInv, Untouched, TrueFlags, SpokenTo, Offers
    <1> QED
        BY <1>1, <1>2, <1>3, <1>4, <1>5, <1>6 DEF HInv, Untouched, SameBudget, e

\* A received frame.
LEMMA ReceiveGood ==
    ASSUME NEW i \in Intf, NEW p \in RxPdu, NEW g, NEW w, NEW c, HInv(i, g, w, c),
           c /\ p.code = "INFO" /\ p.ext.kind = "list" => Matched(p.ext.vers) = {},
           p.code = "INFO" =>
                \/ p.ext.kind = "none" \/ g \/ ~w
                \/ i.local_pdu # "RX_INFO" \/ p.rev # i.revision_last_rx
    PROVE  LET r == oam_ind_oami(i, p) IN
           /\ r \in Intf /\ HInv(r, g, w, c) /\ Handled(i, p, r)
           /\ (/\ oam_proc_pdu_sanity(i, p) /\ p.code = "INFO"
               /\ ~g /\ w /\ ~p.fault /\ p.ext.kind # "none") =>
                \E n \in DOMAIN r.tx : r.tx[n].code = "INFO"
    <1> DEFINE e == Enter(i)
               j == oam_start_local_lost_link_timer(oam_proc_hdr(e, p))
               a == oam_ind_oampdu(e, p)
               b == Return(a)
               r == oam_ind_oami(i, p)
    <1>1. /\ e \in Intf /\ HInv(e, g, w, c) /\ Untouched(i, e)
          /\ e.pdu_func = i.pdu_func
        BY EnterGood
    <1>2. r = IF oam_rx_rule_passed(i, p) /\ oam_proc_pdu_sanity(i, p) THEN b ELSE e
        BY DEF oam_ind_oami
    <1> HIDE DEF e
    <1>3. j \in Intf /\ HInv(j, g, w, c) /\ Flagged(e, p, j)
        BY <1>1, FlagsGood
    <1>4. a = CASE p.code = "INFO"     -> oam_proc_pdu_info(j, p)
                [] p.code = "EVENT"    -> oam_proc_pdu_event(j, p)
                [] p.code = "VAR_REQ"  -> oam_proc_pdu_var_req(j)
                [] p.code = "LOOPBACK" -> oam_proc_pdu_loopback(j, p)
                [] OTHER               -> j
        BY DEF oam_ind_oampdu
    <1> HIDE DEF j
    <1>5. /\ HInv(a, g, w, c) /\ Handled(j, p, a)
          /\ p.code = "INFO" /\ ~g /\ w /\ ~p.fault /\ p.ext.kind # "none" =>
                \E n \in DOMAIN a.tx : a.tx[n].code = "INFO"
        <2>1. CASE p.code = "INFO"
            <3>1. a = oam_proc_pdu_info(j, p)
                BY <1>4, <2>1
            <3>2. \/ p.ext.kind = "none" \/ g \/ ~w
                  \/ j.local_pdu # "RX_INFO" \/ p.rev # j.revision_last_rx
                BY <1>1, <1>3, <2>1 DEF Flagged, Untouched
            <3> HIDE DEF a
            <3> QED
                BY <1>3, <2>1, <3>1, <3>2, InfoGood
        <2>2. CASE p.code \in {"EVENT", "VAR_REQ", "LOOPBACK"}
            <3>1. /\ p.code = "EVENT" => a = oam_proc_pdu_event(j, p)
                  /\ p.code = "VAR_REQ" => a = oam_proc_pdu_var_req(j)
                  /\ p.code = "LOOPBACK" => a = oam_proc_pdu_loopback(j, p)
                BY <1>4
            <3> HIDE DEF a
            <3> QED
                BY <1>3, <2>2, <3>1, OtherGood
        <2>3. CASE p.code \in {"ORG_SPEC", "PASSAVE_PING"}
            <3>1. a = j
                BY <1>4, <2>3
            <3> HIDE DEF a
            <3>2. Handled(j, p, j)
                BY <2>3 DEF Handled
            <3> QED
                BY <1>3, <2>3, <3>1, <3>2
        <2> QED
            BY <2>1, <2>2, <2>3 DEF RxPdu
    <1>6. a \in Intf
        BY <1>1, IndType
    <1> HIDE DEF a
    <1>7. b \in Intf
        BY <1>6, ReturnType
    <1>8. /\ Alike(a, b) /\ b.revision_last_rx = a.revision_last_rx
          /\ b.ext_version = a.ext_version
        BY <1>6 DEF Intf, Return, Alike, SameDisc, SameBudget
    <1> HIDE DEF b
    <1>9. HInv(b, g, w, c)
        BY <1>5, <1>6, <1>7, <1>8, AlikeGood
    <1>10. Handled(i, p, b)
        <2>1. /\ a.valid = i.valid
              /\ a.local_satisfied /\ ~i.local_satisfied =>
                    a.revision_last_rx # i.revision_last_rx
              /\ a.remote_stable => i.remote_stable \/ p.stable
              /\ a.local_pdu = "RX_INFO" =>
                    /\ i.local_pdu = "RX_INFO"
                    /\ a.revision_last_rx = i.revision_last_rx
              /\ i.local_pdu = "RX_INFO" /\ a.local_pdu # "RX_INFO" =>
                    /\ a.remote_state_valid
                    /\ p.code = "INFO" /\ p.rev # i.revision_last_rx
            BY <1>1, <1>3, <1>5 DEF Handled, Flagged, Untouched, SameDisc
        <2>2. IF p.code = "INFO" THEN VersionFrom(i, p.ext, a)
              ELSE a.ext_valid => i.ext_valid /\ a.ext_version = i.ext_version
            BY <1>1, <1>3, <1>5 DEF Handled, Flagged, Untouched, VersionFrom
        <2> QED
            BY <1>8, <2>1, <2>2 DEF Handled, Alike, SameDisc, VersionFrom
    <1>11. Handled(i, p, e)
        BY <1>1 DEF Handled, Untouched, SameDisc, VersionFrom
    <1>12. oam_proc_pdu_sanity(i, p) /\ p.code = "INFO" => r = b
        BY <1>2 DEF oam_rx_rule_passed
    <1> HIDE DEF r
    <1> QED
        BY <1>1, <1>2, <1>5, <1>7, <1>8, <1>9, <1>10, <1>11, <1>12 DEF r, Alike

\* What the first pass of a run sends is not taken back by the others.
LEMMA FirstPass ==
    ASSUME NEW i \in Intf, NEW g, NEW w, NEW c, LInv(i, g, w, c)
    PROVE  LET k == oam_sm_tx_transition(oam_sm_disc_transition(i)) IN
           k.tx # <<>> => oam_sm_run(i).tx # <<>>
    <1> DEFINE k == oam_sm_tx_transition(oam_sm_disc_transition(i))
               s == [intf |-> i, moved |-> TRUE]
               p == SmPass(s)
               q == SmPass(p)
               t == SmPass(q)
               a == SmPass(t)
               b == SmPass4(a)
               r == SmPass4(b)
    <1>1. PassOK(s, g, w, c)
        BY DEF PassOK, Loop
    <1>2. p.intf = k
        BY DEF SmPass
    <1>3. PassOK(p, g, w, c)
        BY <1>1, PassStep
    <1>4. oam_sm_run(i) = [r.intf EXCEPT !.runaway = r.intf.runaway \/ r.moved]
        BY DEF oam_sm_run, SmPass4
    <1> HIDE DEF p
    <1>5. PassOK(q, g, w, c) /\ Onward(p.intf, q.intf)
        BY <1>3, PassStep
    <1> HIDE DEF q
    <1>6. PassOK(t, g, w, c) /\ Onward(q.intf, t.intf)
        BY <1>5, PassStep
    <1> HIDE DEF t
    <1>7. PassOK(a, g, w, c) /\ Onward(t.intf, a.intf)
        BY <1>6, PassStep
    <1> HIDE DEF a
    <1>8. PassOK(b, g, w, c) /\ Onward(a.intf, b.intf)
        BY <1>7, Pass4Step
    <1> HIDE DEF b
    <1>9. PassOK(r, g, w, c) /\ Onward(b.intf, r.intf)
        BY <1>8, Pass4Step
    <1> HIDE DEF r, k
    <1>10. k.tx # <<>> => r.intf.tx # <<>>
        BY <1>2, <1>5, <1>6, <1>7, <1>8, <1>9 DEF Onward
    <1>11. r.intf \in Intf
        BY <1>9 DEF PassOK, Loop
    <1>12. oam_sm_run(i).tx = r.intf.tx
        BY <1>4, <1>11 DEF Intf
    <1> QED
        BY <1>10, <1>12 DEF k

\* The one-second tick.
LEMMA TickGood ==
    ASSUME NEW i \in Intf, NEW g, NEW w, NEW c, HInv(i, g, w, c)
    PROVE  LET r == oam_keep_alive(i) IN
           /\ r \in Intf /\ HInv(r, g, w, c) /\ Onward(i, r)
           /\ (/\ i.pdu_timer = 1 /\ i.local_pdu # "RX_INFO"
               /\ ~i.sent /\ ~i.dropped) => r.tx # <<>>
    <1> DEFINE a == IF i.pdu_timer > 0 THEN i.pdu_timer - 1 ELSE i.pdu_timer
               b == i.pdu_timer_done \/ i.pdu_timer = 1
               l == IF i.local_lost_link_timer > 0
                    THEN i.local_lost_link_timer - 1
                    ELSE i.local_lost_link_timer
               j == [i EXCEPT !.pdu_timer = a, !.pdu_timer_done = b,
                              !.local_lost_link_timer = l]
               r == oam_keep_alive(i)
    <1>1. a \in PduTicks /\ l \in LostTicks
        BY Fields, Ranges
    <1>2. b \in BOOLEAN /\ (b <=> i.pdu_timer = 1)
        BY DEF HInv
    <1>3. r = IF i.pdu_timer = 1 \/ i.local_lost_link_timer = 1
              THEN oam_sm_run(j) ELSE j
        BY Zenon DEF oam_keep_alive
    <1> HIDE DEF a, b, l
    <1>4. j \in Intf
        BY <1>1, <1>2, Updates
    <1>5. /\ Untouched(i, j) /\ j.pdu_timer_done = b
          /\ j.state_tx = i.state_tx /\ j.pdu_req = i.pdu_req
          /\ j.pdu_cnt = i.pdu_cnt /\ j.burst = i.burst
          /\ j.pdu_func = i.pdu_func /\ j.tx = i.tx
          /\ j.sent = i.sent /\ j.dropped = i.dropped
          /\ j.ext_status = i.ext_status
        BY DEF Intf, Untouched, SameDisc
    <1> HIDE DEF j, r
    <1>6. Onward(i, j)
        BY <1>5, UntouchedOnward DEF ExtMoves
    <1>7. CASE ~(i.pdu_timer = 1 \/ i.local_lost_link_timer = 1)
        <2>1. r = j
            BY <1>3, <1>7
        <2>2. j.pdu_timer_done = i.pdu_timer_done
            <3>1. b = FALSE
                BY <1>2, <1>7
            <3>2. i.pdu_timer_done = FALSE
                BY Fields DEF HInv
            <3> QED
                BY <1>5, <3>1, <3>2
        <2>3. Alike(i, j)
            BY <1>5, <2>2 DEF Alike, SameBudget, Untouched
        <2>4. HInv(j, g, w, c)
            BY <1>4, <2>3, AlikeGood
        <2> QED
            BY <1>4, <1>6, <1>7, <2>1, <2>4 DEF r
    <1>8. CASE i.pdu_timer = 1 \/ i.local_lost_link_timer = 1
        <2>1. r = oam_sm_run(j)
            BY <1>3, <1>8
        <2>2. Near(j) /\ j.state_disc # "FAULT" /\ Settled(j) /\ Mode(j)
            <3>1. Settled(j)
                BY <1>4, <1>5, SettledSame DEF HInv, Untouched
            <3>2. Mode(j)
                BY <1>5 DEF HInv, Mode, Untouched, SameDisc
            <3> QED
                BY <1>4, <3>1, <3>2, SettledFacts
        <2>3. TrueFlags(j) /\ Spent(j)
            BY <1>5 DEF HInv, TrueFlags, Spent, Untouched
        <2>4. Budget(j, g)
            BY <1>5 DEF HInv, Budget, Untouched
        <2>5. SpokenTo(j, g) /\ Offers(j, c) /\ AboutToGo(j, g, w)
            BY <1>5 DEF HInv, SpokenTo, Offers, AboutToGo, Untouched
        <2>6. LInv(j, g, w, c) /\ ~j.runaway
            BY <1>5, <2>2, <2>3, <2>4, <2>5 DEF HInv, LInv, Settled, Untouched
        <2>7. r \in Intf /\ HInv(r, g, w, c) /\ Onward(j, r)
            BY <1>4, <2>1, <2>6, RunGood
        <2>8. Onward(i, r)
            BY <1>6, <2>7, OnwardTransitive
        <2>9. ASSUME i.pdu_timer = 1, i.local_pdu # "RX_INFO",
                     ~i.sent, ~i.dropped
              PROVE  r.tx # <<>>
            <3>1. oam_sm_disc_transition(j) = j
                BY <1>4, <2>2, <2>6, DiscKeeps DEF Settled
            <3> DEFINE k == oam_sm_tx_transition(j)
            <3>2. WaitStep(j, k)
                BY <1>4, <1>5, <2>2, TxEffect DEF HInv, Settled
            <3> HIDE DEF k
            <3>3. i.pdu_cnt = PktCount
                BY <2>9 DEF HInv, Spent
            <3>4. j.pdu_timer_done /\ j.local_pdu # "RX_INFO" /\ j.pdu_cnt = PktCount
                BY <1>2, <1>5, <2>9, <3>3 DEF Untouched
            <3>5. Adds(j, k)
                BY <3>2, <3>4 DEF WaitStep
            <3>6. k.tx # <<>>
                <4>1. j.tx \in Seq(TxPdu)
                    BY <1>4, Fields
                <4> QED
                    BY <3>5, <4>1 DEF Adds
            <3> QED
                BY <1>4, <2>1, <2>6, <3>1, <3>6, FirstPass DEF k
        <2> QED
            BY <2>7, <2>8, <2>9 DEF r
    <1> QED
        BY <1>7, <1>8

\* An interface that oam_disable holds in its initial states.
Held(i) ==
    /\ i.BEGIN = TRUE /\ i.state_disc = "FAULT" /\ i.state_tx = "RESET"
    /\ i.local_critical_event = FALSE /\ i.local_dying_gasp = FALSE
    /\ i.local_satisfied = FALSE /\ i.local_stable = FALSE
    /\ i.remote_state_valid = FALSE /\ i.remote_stable = FALSE
    /\ i.local_pdu = "RX_INFO" /\ i.pdu_req = "NONE"
    /\ i.pdu_timer_done = FALSE /\ i.revision_last_rx = NoRev
    /\ i.pdu_func = "NULL" /\ i.ext_status = "SEND_WAIT"
    /\ i.ext_valid = FALSE /\ i.tx = <<>> /\ i.sent = FALSE
    /\ i.dropped = FALSE /\ i.burst = 0 /\ i.runaway = FALSE
    /\ i.valid = TRUE

\* A pass with BEGIN keeps it there and fills the budget.
LEMMA HeldPass ==
    ASSUME NEW i \in Intf, Held(i)
    PROVE  LET k == oam_sm_tx_transition(oam_sm_disc_transition(i)) IN
           k \in Intf /\ Held(k) /\ k.pdu_cnt = PktCount
    <1> DEFINE j == oam_sm_disc_transition(i)
               k == oam_sm_tx_transition(j)
    <1>1. j \in Intf /\ k \in Intf
        BY DiscTransitionType, TxTransitionType
    <1>2. j = oam_sm_disc_into_fault(i)
        BY DEF Held, oam_sm_disc_transition
    <1>3. Held(j)
        BY <1>2 DEF Held, Intf, oam_sm_disc_into_fault,
                    oam_start_local_lost_link_timer
    <1> HIDE DEF j
    <1>4. k = oam_sm_tx_into_reset(j)
        BY <1>3 DEF Held, oam_sm_tx_transition
    <1>5. Held(k) /\ k.pdu_cnt = PktCount
        BY <1>1, <1>3, <1>4 DEF Held, Intf, oam_sm_tx_into_reset,
                                oam_start_pdu_timer
    <1> QED
        BY <1>1, <1>5 DEF j, k

\* Where the machines stand when a registration lets go of them.
Fresh(d) ==
    /\ d.BEGIN = FALSE /\ d.state_disc = "FAULT" /\ d.state_tx = "RESET"
    /\ d.local_critical_event = FALSE /\ d.local_dying_gasp = FALSE
    /\ d.local_satisfied = FALSE /\ d.local_stable = FALSE
    /\ d.remote_state_valid = FALSE /\ d.remote_stable = FALSE
    /\ d.local_pdu = "RX_INFO" /\ d.pdu_req = "NONE"
    /\ d.pdu_timer_done = FALSE /\ d.revision_last_rx = NoRev
    /\ d.pdu_func = "NULL" /\ d.ext_status = "SEND_WAIT"
    /\ d.ext_valid = FALSE /\ d.tx = <<>> /\ d.sent = FALSE
    /\ d.dropped = FALSE /\ d.burst = 0 /\ d.runaway = FALSE
    /\ d.valid = TRUE /\ d.pdu_cnt = PktCount

\* A registration starts both machines from there.
LEMMA RegisterStarts ==
    ASSUME NEW i, NEW g, NEW w, NEW c
    PROVE  \E d \in Intf : /\ oam_enable(oam_intf_init(i)) = oam_sm_run(d)
                           /\ Fresh(d) /\ LInv(d, g, w, c)
    <1> DEFINE z == [ZeroIntf EXCEPT !.valid = TRUE]
               a == [z EXCEPT !.BEGIN = TRUE]
               b == oam_sm_run(a)
               d == [b EXCEPT !.BEGIN = FALSE]
               r == oam_enable(oam_intf_init(i))
    <1>1. z \in Intf
        BY ZeroType, Updates
    <1>2. a \in Intf
        BY <1>1, Updates
    <1>3. Held(a)
        BY DEF Held, ZeroIntf
    <1>4. r = oam_sm_run(d)
        BY DEF oam_enable, oam_intf_init, oam_disable
    <1> HIDE DEF z, a
    <1> DEFINE k == oam_sm_tx_transition(oam_sm_disc_transition(a))
               s == [intf |-> a, moved |-> TRUE]
               t == [intf |-> k, moved |-> FALSE]
    <1>5. k \in Intf /\ Held(k) /\ k.pdu_cnt = PktCount
        BY <1>2, <1>3, HeldPass
    <1>6. SmPass(s) = t
        <2>1. k.state_disc = a.state_disc /\ k.state_tx = a.state_tx
            BY <1>3, <1>5 DEF Held
        <2>2. SmPass(s) = [intf |-> k,
                           moved |-> \/ k.state_disc # a.state_disc
                                     \/ k.state_tx # a.state_tx]
            BY DEF SmPass
        <2> QED
            BY <2>1, <2>2
    <1>7. SmPass(t) = t
        BY DEF SmPass
    <1> HIDE DEF s, t
    <1>8. b = [t.intf EXCEPT !.runaway = t.intf.runaway \/ t.moved]
        BY <1>6, <1>7 DEF oam_sm_run, SmPass4, s
    <1>9. b \in Intf
        BY <1>2, SmRunType
    <1> HIDE DEF k, b
    <1>10. b = [k EXCEPT !.runaway = FALSE]
        BY <1>5, <1>8 DEF t, Held
    <1>11. Held(b) /\ b.pdu_cnt = PktCount
        BY <1>5, <1>10 DEF Held, Intf
    <1>12. d \in Intf
        BY <1>9, Updates
    <1>13. /\ d.BEGIN = FALSE /\ d.state_disc = "FAULT" /\ d.state_tx = "RESET"
           /\ d.local_critical_event = FALSE /\ d.local_dying_gasp = FALSE
           /\ d.local_satisfied = FALSE /\ d.local_stable = FALSE
           /\ d.remote_state_valid = FALSE /\ d.remote_stable = FALSE
           /\ d.local_pdu = "RX_INFO" /\ d.pdu_req = "NONE"
           /\ d.pdu_timer_done = FALSE /\ d.revision_last_rx = NoRev
           /\ d.pdu_func = "NULL" /\ d.ext_status = "SEND_WAIT"
           /\ d.ext_valid = FALSE /\ d.tx = <<>> /\ d.sent = FALSE
           /\ d.dropped = FALSE /\ d.burst = 0 /\ d.runaway = FALSE
           /\ d.valid = TRUE /\ d.pdu_cnt = PktCount
        BY <1>9, <1>11 DEF Held, Intf
    <1> HIDE DEF d, r
    <1>14. Mode(d) /\ Near(d) /\ TrueFlags(d)
        BY <1>13 DEF Mode, Near, TrueFlags
    <1>15. Budget(d, g)
        BY <1>13, PktCountAssumption DEF Budget
    <1>16. AboutToGo(d, g, w) /\ Spent(d) /\ SpokenTo(d, g) /\ Offers(d, c)
        BY <1>13 DEF AboutToGo, Spent, SpokenTo, Offers
    <1>17. LInv(d, g, w, c)
        BY <1>13, <1>14, <1>15, <1>16 DEF LInv
    <1> QED
        BY <1>4, <1>12, <1>13, <1>17 DEF Fresh, r

\* A registration.
LEMMA RegisterGood ==
    ASSUME NEW i, NEW g, NEW w, NEW c
    PROVE  LET r == oam_enable(oam_intf_init(i)) IN
           /\ r \in Intf /\ HInv(r, g, w, c)
           /\ r.valid /\ r.local_pdu = "RX_INFO" /\ r.revision_last_rx = NoRev
           /\ ~r.local_satisfied /\ ~r.remote_state_valid /\ ~r.remote_stable
           /\ ~r.ext_valid
    <1> DEFINE r == oam_enable(oam_intf_init(i))
    <1>1. PICK d \in Intf : r = oam_sm_run(d) /\ Fresh(d) /\ LInv(d, g, w, c)
        BY RegisterStarts
    <1> HIDE DEF r
    <1>2. r \in Intf /\ HInv(r, g, w, c) /\ Onward(d, r)
        BY <1>1, RunGood DEF Fresh
    <1>3. /\ r.valid = TRUE /\ r.local_pdu = "RX_INFO"
          /\ r.revision_last_rx = NoRev /\ r.local_satisfied = FALSE
          /\ r.remote_state_valid = FALSE /\ r.remote_stable = FALSE
          /\ r.ext_valid = FALSE
        BY <1>1, <1>2 DEF Onward, SameInputs, Fresh
    <1> QED
        BY <1>2, <1>3 DEF r

\* The flags of a dying gasp may change, once there was one.
LEMMA CriticalGood ==
    ASSUME NEW i \in Intf, NEW j \in Intf, NEW g, NEW w, NEW c, HInv(i, g, w, c),
           SameDisc(i, j), SameBudget(i, j),
           j.local_pdu = i.local_pdu, j.local_stable = i.local_stable,
           j.pdu_func = i.pdu_func, j.tx = i.tx,
           j.sent = i.sent, j.dropped = i.dropped, j.runaway = i.runaway,
           j.ext_valid = i.ext_valid, j.ext_status = i.ext_status,
           ~g => ~j.local_dying_gasp /\ ~j.local_critical_event
    PROVE  HInv(j, g, w, c)
    <1>1. Settled(j)
        BY SettledSame DEF HInv
    <1>2. Mode(j) /\ TrueFlags(j) /\ Spent(j)
        BY DEF HInv, SameDisc, SameBudget, Mode, TrueFlags, Spent
    <1>3. Budget(j, g)
        BY DEF HInv, SameBudget, Budget
    <1>4. SpokenTo(j, g) /\ Offers(j, c)
        BY DEF HInv, SpokenTo, Offers
    <1> QED
        BY <1>1, <1>2, <1>3, <1>4 DEF HInv, SameBudget

\* An OAMPDU that does not go through the transmit machine.
LEMMA StraightGood ==
    ASSUME NEW i \in Intf, NEW p \in TxPdu, BuiltBy(i, p),
           NEW g, NEW w, NEW c, HInv(i, g, w, c),
           g \/ i.local_pdu # "RX_INFO"
    PROVE  LET j == oam_send(i, p) IN
           /\ j \in Intf /\ HInv(j, g, w, c) /\ Untouched(i, j)
           /\ j.pdu_func = i.pdu_func /\ j.ext_status = i.ext_status
    <1> DEFINE j == oam_send(i, p)
    <1>1. j \in Intf
        BY SendType
    <1>2. /\ Untouched(i, j) /\ SameBudget(i, j)
          /\ j.ext_status = i.ext_status /\ j.tx = Append(i.tx, p)
          /\ j.sent = TRUE /\ j.dropped = i.dropped /\ j.pdu_func = i.pdu_func
        BY DEF Intf, oam_send, Untouched, SameDisc, SameBudget
    <1> HIDE DEF j
    <1>3. Adds(i, j) /\ ExtMoves(i, j)
        BY <1>2 DEF Adds, ExtMoves
    <1>4. Truthful(i)
        BY SettledFacts DEF HInv
    <1>5. TrueFlags(j) /\ Offers(j, c)
        BY <1>2, <1>3, <1>4, AddsTruth DEF HInv
    <1>6. Settled(j)
        BY <1>1, <1>2, SettledSame DEF HInv, Untouched
    <1>7. Mode(j) /\ Spent(j)
        BY <1>2 DEF HInv, Untouched, SameDisc, SameBudget, Mode, Spent
    <1>8. Budget(j, g)
        BY <1>2 DEF HInv, Untouched, SameBudget, Budget
    <1>9. SpokenTo(j, g)
        BY <1>2 DEF SpokenTo, Untouched
    <1> QED
        BY <1>1, <1>2, <1>5, <1>6, <1>7, <1>8, <1>9
        DEF HInv, Untouched, SameBudget, j

\* Building an Information OAMPDU advances the extended discovery.
LEMMA BuildGood ==
    ASSUME NEW i \in Intf, NEW g, NEW w, NEW c, HInv(i, g, w, c)
    PROVE  LET j == oam_ctc_build_pdu_info(i) IN
           j \in Intf /\ HInv(j, g, w, c) /\ Untouched(i, j)
    <1> DEFINE e == CASE ExtToSend(i) = "list" -> "INFO_SNT"
                      [] ExtToSend(i) = "ack"  -> "COMPLETED"
                      [] ExtToSend(i) = "nack" -> "NOTSUPPORTED"
                      [] OTHER                 -> i.ext_status
               j == oam_ctc_build_pdu_info(i)
    <1>1. \/ e = i.ext_status
          \/ i.ext_valid /\ i.ext_status = "INFO_RCV" /\ e = "INFO_SNT"
          \/ i.ext_valid /\ i.ext_status = "ACK_RCV" /\ e = "COMPLETED"
          \/ i.ext_valid /\ i.ext_status = "NACK" /\ e = "NOTSUPPORTED"
        BY Fields DEF ExtToSend
    <1>2. j = [i EXCEPT !.ext_status = e]
        BY DEF oam_ctc_build_pdu_info
    <1>3. j \in Intf
        BY BuildInfoType
    <1> HIDE DEF e, j
    <1>4. /\ Untouched(i, j) /\ SameBudget(i, j)
          /\ j.tx = i.tx /\ j.sent = i.sent /\ j.dropped = i.dropped
          /\ j.pdu_func = i.pdu_func /\ j.ext_status = e
        BY <1>2 DEF Intf, Untouched, SameDisc, SameBudget
    <1>5. TrueFlags(j) /\ Offers(j, c)
        BY <1>1, <1>4, SameTruth DEF HInv, ExtMoves
    <1>6. Settled(j)
        BY <1>3, <1>4, SettledSame DEF HInv, Untouched
    <1>7. Mode(j) /\ Spent(j)
        BY <1>4 DEF HInv, Untouched, SameDisc, SameBudget, Mode, Spent
    <1>8. Budget(j, g)
        BY <1>4 DEF HInv, Untouched, SameBudget, Budget
    <1>9. SpokenTo(j, g)
        BY <1>4 DEF HInv, SpokenTo, Untouched
    <1> QED
        BY <1>3, <1>4, <1>5, <1>6, <1>7, <1>8, <1>9
        DEF HInv, Untouched, SameBudget, j

\* The poll of the link monitor.
LEMMA PollGood ==
    ASSUME NEW i \in Intf, NEW crossed \in BOOLEAN,
           NEW g, NEW w, NEW c, HInv(i, g, w, c)
    PROVE  LET r == [IF crossed /\ i.state_disc = "SEND_ANY"
                     THEN oam_send(Enter(i), oam_build_pdu_hdr(i, "EVENT"))
                     ELSE Enter(i)
                     EXCEPT !.local_critical_event = FALSE] IN
           /\ HInv(r, g, w, c) /\ SameDisc(i, r)
           /\ r.valid = i.valid /\ r.revision_last_rx = i.revision_last_rx
           /\ r.local_pdu = i.local_pdu
    <1> DEFINE e == Enter(i)
               h == oam_build_pdu_hdr(i, "EVENT")
               s == oam_send(e, h)
               m == IF crossed /\ i.state_disc = "SEND_ANY" THEN s ELSE e
               r == [m EXCEPT !.local_critical_event = FALSE]
    <1>1. /\ e \in Intf /\ HInv(e, g, w, c) /\ Untouched(i, e)
          /\ e.ext_status = i.ext_status
        BY EnterGood
    <1>2. h \in TxPdu /\ BuiltBy(i, h)
        BY HdrBuilt
    <1> HIDE DEF e, h
    <1>3. BuiltBy(e, h)
        <2>1. ExtToSend(e) = ExtToSend(i)
            BY <1>1 DEF ExtToSend, Untouched
        <2> QED
            BY <1>1, <1>2, <2>1 DEF BuiltBy, Untouched, SameDisc
    <1>4. i.state_disc = "SEND_ANY" =>
            s \in Intf /\ HInv(s, g, w, c) /\ Untouched(e, s)
        <2>1. i.state_disc = "SEND_ANY" => e.local_pdu # "RX_INFO"
            BY <1>1 DEF HInv, Mode, Untouched
        <2> QED
            BY <1>1, <1>2, <1>3, <2>1, StraightGood
    <1> HIDE DEF s
    <1>5. m \in Intf /\ HInv(m, g, w, c) /\ Untouched(i, m)
        BY <1>1, <1>4 DEF Untouched, SameDisc
    <1> HIDE DEF m
    <1>6. r \in Intf
        BY <1>5, Updates
    <1>7. /\ SameDisc(m, r) /\ SameBudget(m, r)
          /\ r.local_pdu = m.local_pdu /\ r.local_stable = m.local_stable
          /\ r.pdu_func = m.pdu_func /\ r.tx = m.tx
          /\ r.sent = m.sent /\ r.dropped = m.dropped /\ r.runaway = m.runaway
          /\ r.ext_valid = m.ext_valid /\ r.ext_status = m.ext_status
          /\ r.local_dying_gasp = m.local_dying_gasp
          /\ r.local_critical_event = FALSE /\ r.valid = m.valid
          /\ r.revision_last_rx = m.revision_last_rx
        BY <1>5 DEF Intf, SameDisc, SameBudget
    <1> HIDE DEF r
    <1>8. ~g => ~r.local_dying_gasp /\ ~r.local_critical_event
        BY <1>5, <1>7 DEF HInv, Budget
    <1>9. HInv(r, g, w, c)
        BY <1>5, <1>6, <1>7, <1>8, CriticalGood
    <1> QED
        BY <1>5, <1>7, <1>9 DEF r, m, s, h, e, Untouched, SameDisc

\* Flags of a dying gasp, set on the way into its handler.
LEMMA GaspFlags ==
    ASSUME NEW i \in Intf, NEW gasp \in BOOLEAN,
           NEW g, NEW w, NEW c, HInv(i, g, w, c)
    PROVE  LET j == [Enter(i) EXCEPT !.local_dying_gasp = gasp,
                                     !.local_critical_event = TRUE] IN
           /\ j \in Intf /\ SameDisc(i, j)
           /\ j.valid = i.valid /\ j.revision_last_rx = i.revision_last_rx
           /\ j.local_pdu = i.local_pdu
           /\ \A h : h => HInv(j, h, w, c)
    <1> DEFINE e == Enter(i)
               j == [e EXCEPT !.local_dying_gasp = gasp,
                              !.local_critical_event = TRUE]
    <1>1. e \in Intf /\ HInv(e, g, w, c) /\ Untouched(i, e)
        BY EnterGood
    <1> HIDE DEF e
    <1>2. j \in Intf
        BY <1>1, Updates
    <1>3. /\ SameDisc(e, j) /\ SameBudget(e, j)
          /\ j.local_pdu = e.local_pdu /\ j.local_stable = e.local_stable
          /\ j.pdu_func = e.pdu_func /\ j.tx = e.tx
          /\ j.sent = e.sent /\ j.dropped = e.dropped /\ j.runaway = e.runaway
          /\ j.ext_valid = e.ext_valid /\ j.ext_status = e.ext_status
          /\ j.valid = e.valid
          /\ j.revision_last_rx = e.revision_last_rx
        BY <1>1 DEF Intf, SameDisc, SameBudget
    <1> HIDE DEF j
    <1>4. ASSUME NEW h, h
          PROVE  HInv(j, h, w, c)
        <2>1. HInv(e, h, w, c)
            BY <1>1, <1>4 DEF HInv, Budget, SpokenTo
        <2> QED
            BY <1>1, <1>2, <1>3, <1>4, <2>1, CriticalGood
    <1> QED
        BY <1>1, <1>2, <1>3, <1>4 DEF j, e, Untouched, SameDisc

\* A dying gasp is sent past both machines.
LEMMA GaspGood ==
    ASSUME NEW i \in Intf, NEW g, NEW w, NEW c, HInv(i, g, w, c), NEW h, h
    PROVE  LET j == [Enter(i) EXCEPT !.local_dying_gasp = TRUE,
                                     !.local_critical_event = TRUE]
               r == oam_ctc_build_pdu_info(
                        oam_send(j, oam_build_pdu_hdr(j, "INFO"))) IN
           /\ HInv(r, h, w, c) /\ SameDisc(i, r)
           /\ r.valid = i.valid /\ r.revision_last_rx = i.revision_last_rx
           /\ r.local_pdu = i.local_pdu
    <1>0. PICK yes \in BOOLEAN : yes = TRUE
        OBVIOUS
    <1> DEFINE j == [Enter(i) EXCEPT !.local_dying_gasp = yes,
                                     !.local_critical_event = TRUE]
               p == oam_build_pdu_hdr(j, "INFO")
               s == oam_send(j, p)
               r == oam_ctc_build_pdu_info(s)
    <1>1. /\ j \in Intf /\ SameDisc(i, j)
          /\ j.valid = i.valid /\ j.revision_last_rx = i.revision_last_rx
          /\ j.local_pdu = i.local_pdu
          /\ HInv(j, h, w, c)
        BY GaspFlags
    <1> HIDE DEF j
    <1>2. p \in TxPdu /\ BuiltBy(j, p)
        BY <1>1, HdrBuilt
    <1> HIDE DEF p
    <1>3. s \in Intf /\ HInv(s, h, w, c) /\ Untouched(j, s)
        BY <1>1, <1>2, StraightGood
    <1> HIDE DEF s
    <1>4. r \in Intf /\ HInv(r, h, w, c) /\ Untouched(s, r)
        BY <1>3, BuildGood
    <1> HIDE DEF r
    <1>5. /\ HInv(r, h, w, c) /\ SameDisc(i, r)
          /\ r.valid = i.valid /\ r.revision_last_rx = i.revision_last_rx
          /\ r.local_pdu = i.local_pdu
        BY <1>1, <1>3, <1>4 DEF Untouched, SameDisc
    <1> QED
        BY <1>0, <1>5 DEF r, s, p, j

(***************************************************************************)
(* The invariant of the interface                                          *)
(***************************************************************************)
\* No OLT uses the revision that stands for "none yet".
Unambiguous == NoRev \notin Revs

\* A passive ONU that has heard nothing knows no revision.
RevInv(i) == i.local_pdu = "RX_INFO" => i.revision_last_rx = NoRev

\* Between two handlers a registered interface is as every operation of a
\* handler leaves it; one that is not registered is as at power-up.
TInv ==
    /\ TypeOK
    /\ gasping => gasped
    /\ gasped => intf.valid
    /\ ~intf.valid => intf = ZeroIntf
    /\ intf.valid => HInv(intf, gasped, Unambiguous, FALSE) /\ RevInv(intf)

\* Every handler keeps it.
LEMMA HandlersKeep ==
    ASSUME TInv, TypeOK', [Next]_vars
    PROVE  TInv'
    <1>0. PICK no \in BOOLEAN : no = FALSE
        OBVIOUS
    <1>1. /\ intf \in Intf /\ intf' \in Intf
          /\ gasping \in BOOLEAN /\ gasped \in BOOLEAN
          /\ (gasping => gasped) /\ (gasped => intf.valid)
          /\ ~intf.valid => intf = ZeroIntf
          /\ intf.valid => HInv(intf, gasped, Unambiguous, no) /\ RevInv(intf)
        BY <1>0 DEF TInv, TypeOK
    <1>2. SUFFICES
            /\ gasping' => gasped'
            /\ gasped' => intf'.valid
            /\ ~intf'.valid => intf' = ZeroIntf
            /\ intf'.valid =>
                HInv(intf', gasped', Unambiguous, no) /\ RevInv(intf')
        BY <1>0 DEF TInv, Unambiguous
    <1>3. CASE oam_llid_registration
        <2>1. /\ HInv(intf', gasped', Unambiguous, no)
              /\ intf'.valid /\ intf'.revision_last_rx = NoRev
            BY <1>3, RegisterGood DEF oam_llid_registration
        <2> QED
            BY <1>3, <2>1 DEF oam_llid_registration, RevInv
    <1>4. CASE onu_pon_link_down_proc
        BY <1>4 DEF onu_pon_link_down_proc, ZeroIntf
    <1>5. CASE \E p \in OltPdus : Receive(p)
        <2>1. PICK p \in OltPdus : Receive(p)
            BY <1>5
        <2>2. /\ p \in RxPdu /\ intf.valid /\ gasping' = gasping
              /\ gasped' = gasped /\ intf' = oam_ind_oami(intf, p)
            BY <2>1, OltPdusAssumption DEF Receive
        <2>3. p.code = "INFO" =>
                \/ p.ext.kind = "none" \/ gasped \/ ~Unambiguous
                \/ intf.local_pdu # "RX_INFO" \/ p.rev # intf.revision_last_rx
            <3>1. p.code = "INFO" => p.rev \in Revs
                BY <2>2 DEF RxPdu
            <3> QED
                BY <1>1, <2>2, <3>1 DEF Unambiguous, RevInv
        <2>4. HInv(intf', gasped, Unambiguous, no) /\ Handled(intf, p, intf')
            BY <1>0, <1>1, <2>2, <2>3, ReceiveGood
        <2>5. RevInv(intf') /\ intf'.valid
            BY <1>1, <2>2, <2>4 DEF RevInv, Handled
        <2> QED
            BY <1>1, <2>2, <2>4, <2>5
    <1>6. CASE oam_time_msg_proc
        <2> DEFINE e == Enter(intf)
        <2>1. /\ intf.valid /\ gasping' = gasping
              /\ gasped' = gasped /\ intf' = oam_keep_alive(e)
            BY <1>6 DEF oam_time_msg_proc
        <2>2. e \in Intf /\ HInv(e, gasped, Unambiguous, no) /\ Untouched(intf, e)
            BY <1>1, <2>1, EnterGood
        <2> HIDE DEF e
        <2>3. HInv(intf', gasped, Unambiguous, no) /\ Onward(e, intf')
            BY <2>1, <2>2, TickGood
        <2>4. RevInv(intf') /\ intf'.valid
            BY <1>1, <2>1, <2>2, <2>3 DEF RevInv, Onward, Untouched
        <2> QED
            BY <1>1, <2>1, <2>3, <2>4
    <1>7. CASE \E crossed \in BOOLEAN : oam_event_process_polling(crossed)
        <2>1. PICK crossed \in BOOLEAN : oam_event_process_polling(crossed)
            BY <1>7
        <2>2. /\ intf.valid /\ gasping' = gasping /\ gasped' = gasped
              /\ intf' = [IF crossed /\ intf.state_disc = "SEND_ANY"
                          THEN oam_send(Enter(intf),
                                        oam_build_pdu_hdr(intf, "EVENT"))
                          ELSE Enter(intf)
                          EXCEPT !.local_critical_event = FALSE]
            BY <2>1 DEF oam_event_process_polling
        <2>3. /\ HInv(intf', gasped, Unambiguous, no) /\ intf'.valid = intf.valid
              /\ intf'.revision_last_rx = intf.revision_last_rx
              /\ intf'.local_pdu = intf.local_pdu
            BY <1>1, <2>1, <2>2, PollGood
        <2>4. RevInv(intf')
            BY <1>1, <2>2, <2>3 DEF RevInv
        <2> QED
            BY <1>1, <2>2, <2>3, <2>4
    <1>8. CASE DyingGaspBegin
        <2> DEFINE j == [Enter(intf) EXCEPT !.local_dying_gasp = TRUE,
                                            !.local_critical_event = TRUE]
        <2>1. /\ intf.valid /\ gasping' = TRUE /\ gasped' = TRUE
              /\ intf' = oam_ctc_build_pdu_info(
                            oam_send(j, oam_build_pdu_hdr(j, "INFO")))
            BY <1>8 DEF DyingGaspBegin
        <2>2. /\ HInv(intf', gasped', Unambiguous, no) /\ intf'.valid = intf.valid
              /\ intf'.revision_last_rx = intf.revision_last_rx
              /\ intf'.local_pdu = intf.local_pdu
            BY <1>1, <2>1, GaspGood
        <2>3. RevInv(intf')
            BY <1>1, <2>1, <2>2 DEF RevInv
        <2> QED
            BY <1>1, <2>1, <2>2, <2>3
    <1>9. CASE DyingGaspEnd
        <2>1. /\ gasping /\ gasping' = FALSE /\ gasped' = gasped
              /\ intf' = [Enter(intf) EXCEPT !.local_dying_gasp = no,
                                             !.local_critical_event = TRUE]
            BY <1>0, <1>9 DEF DyingGaspEnd
        <2>2. intf.valid /\ gasped
            BY <1>1, <2>1
        <2>3. /\ HInv(intf', gasped, Unambiguous, no) /\ intf'.valid = intf.valid
              /\ intf'.revision_last_rx = intf.revision_last_rx
              /\ intf'.local_pdu = intf.local_pdu
            BY <1>0, <1>1, <2>1, <2>2, GaspFlags
        <2>4. RevInv(intf')
            BY <1>1, <2>2, <2>3 DEF RevInv
        <2> QED
            BY <1>1, <2>1, <2>2, <2>3, <2>4
    <1>10. CASE UNCHANGED vars
        BY <1>1, <1>10 DEF vars
    <1> QED
        BY <1>3, <1>4, <1>5, <1>6, <1>7, <1>8, <1>9, <1>10 DEF Next

\* At power-up.
LEMMA StartsAtZero == Init => TInv
    <1>1. ZeroIntf.valid = FALSE
        BY DEF ZeroIntf
    <1> QED
        BY <1>1, ZeroType DEF Init, TInv, TypeOK

\* It is an invariant of the specification.
LEMMA AlwaysTInv == Spec => []TInv
    <1>1. TInv /\ TypeOK' /\ [Next]_vars => TInv'
        BY HandlersKeep
    <1> QED
        BY <1>1, StartsAtZero, TypeCorrect, PTL DEF Spec

\* What it says of every state.
LEMMA TInvSays == TInv => SmRunTerminates /\ RateLimit /\ NothingPending /\ StableFlag
    <1> SUFFICES ASSUME TInv
                 PROVE  SmRunTerminates /\ RateLimit /\ NothingPending /\ StableFlag
        OBVIOUS
    <1>1. CASE intf.valid
        <2>1. HInv(intf, gasped, Unambiguous, FALSE) /\ intf \in Intf
            BY <1>1 DEF TInv, TypeOK
        <2>2. SmRunTerminates /\ StableFlag
            BY <2>1 DEF HInv, SmRunTerminates, StableFlag, TrueFlags
        <2>3. NothingPending
            BY <2>1 DEF HInv, NothingPending, Unambiguous
        <2>4. RateLimit
            <3>1. intf.state_tx # "DEC_PDU_CNT"
                BY <2>1 DEF HInv
            <3>2. intf.burst \in Nat /\ intf.pdu_cnt \in Nat
                BY <2>1, Fields DEF Burst, PduCount
            <3>3. ~gasped => intf.burst + intf.pdu_cnt + 0 <= PktCount
                BY <2>1, <3>1 DEF HInv, Budget
            <3> QED
                BY <3>2, <3>3 DEF RateLimit
        <2> QED
            BY <2>2, <2>3, <2>4
    <1>2. CASE ~intf.valid
        <2>1. intf = ZeroIntf
            BY <1>2 DEF TInv
        <2>2. /\ intf.runaway = FALSE /\ intf.tx = <<>> /\ intf.pdu_func = "NULL"
              /\ intf.burst = 0 /\ intf.pdu_cnt = 0 /\ intf.valid = FALSE
            BY <2>1 DEF ZeroIntf
        <2>3. RateLimit
            BY <2>2, PktCountAssumption DEF RateLimit
        <2> QED
            BY <2>2, <2>3 DEF SmRunTerminates, StableFlag, NothingPending
    <1> QED
        BY <1>1, <1>2

\* oam_sm_run comes to rest within its twelve passes, from every state a
\* sequence of handlers reaches, and leaves the transmit machine waiting: each
\* pass brings both machines closer to rest (Dist, TxDist).
THEOREM RunTerminates == Spec => []SmRunTerminates
    BY AlwaysTInv, TInvSays, PTL

\* Between two resets of the transmit machine no more than
\* OAM_PKT_COUNT_PER_SECOND requested OAMPDUs leave, for every value of that
\* constant: what was sent and what is left of pdu_cnt never exceed it.
THEOREM RateLimited == Spec => []RateLimit
    BY AlwaysTInv, TInvSays, PTL

\* pdu_func is NULL whenever a handler has returned, so pdu_parm is not used
\* after the stack frame it points into is gone; unless a dying gasp made the
\* request critical or the OLT uses the revision 0xffff.
THEOREM NothingLeftPending == Spec => []NothingPending
    BY AlwaysTInv, TInvSays, PTL

\* The STABLE flag oam_build_pdu_hdr computes is the discovery machine's
\* local_stable, in every OAMPDU of every handler.
THEOREM StableFlagTrue == Spec => []StableFlag
    BY AlwaysTInv, TInvSays, PTL

\* The tick that expires the OAMPDU timer of an ONU that may speak sends an
\* OAMPDU, unless one was sent, or dropped by the transmit rule, since the last
\* reset: only those can have used the budget oam_sm_tx_transition looks at.
THEOREM KeepAliveSent == Spec => KeepAlive
    <1> DEFINE A == oam_time_msg_proc /\ intf.local_pdu # "RX_INFO" =>
                        \/ intf'.tx # <<>>
                        \/ intf.sent \/ intf.dropped
                        \/ intf.pdu_timer # 1
    <1>1. TInv /\ [Next]_vars => [A]_vars
        <2> SUFFICES ASSUME TInv, oam_time_msg_proc, intf.local_pdu # "RX_INFO",
                            ~intf.sent, ~intf.dropped, intf.pdu_timer = 1
                     PROVE  intf'.tx # <<>>
            OBVIOUS
        <2> DEFINE e == Enter(intf)
        <2>1. intf.valid /\ intf' = oam_keep_alive(e)
            BY DEF oam_time_msg_proc
        <2>2. PICK no \in BOOLEAN : no = FALSE
            OBVIOUS
        <2>3. HInv(intf, gasped, Unambiguous, no) /\ intf \in Intf
            BY <2>1, <2>2 DEF TInv, TypeOK
        <2>4. /\ e \in Intf /\ HInv(e, gasped, Unambiguous, no)
              /\ e.local_pdu = intf.local_pdu /\ e.pdu_timer = intf.pdu_timer
              /\ e.sent = intf.sent /\ e.dropped = intf.dropped
            BY <2>3, EnterGood DEF Untouched
        <2> HIDE DEF e
        <2> QED
            BY <2>1, <2>4, TickGood
    <1> QED
        BY <1>1, AlwaysTInv, PTL DEF Spec, KeepAlive

\* An ONU that fell back to SEND_LOCAL_REMOTE comes up again only for an
\* Information OAMPDU with a new revision, whatever else it receives: no other
\* path through the handlers sets local_satisfied.
THEOREM RevisionNeeded == Spec => NewRevisionNeeded
    <1> DEFINE A == intf.state_disc = "SEND_LOCAL_REMOTE"
                    /\ intf'.state_disc \in {"SEND_LOCAL_REMOTE_OK", "SEND_ANY"} =>
                        intf'.revision_last_rx # intf.revision_last_rx
    <1>1. TInv /\ TInv' /\ [Next]_vars => [A]_vars
        <2> SUFFICES ASSUME TInv, TInv', Next,
                            intf.state_disc = "SEND_LOCAL_REMOTE",
                            intf'.state_disc \in {"SEND_LOCAL_REMOTE_OK", "SEND_ANY"}
                     PROVE  intf'.revision_last_rx # intf.revision_last_rx
            OBVIOUS
        <2>0. PICK no \in BOOLEAN : no = FALSE
            OBVIOUS
        <2>1. /\ intf \in Intf /\ intf' \in Intf /\ intf.valid /\ intf'.valid
            <3>1. ZeroIntf.state_disc = "FAULT"
                BY DEF ZeroIntf
            <3> QED
                BY <3>1 DEF TInv, TypeOK
        <2>2. /\ HInv(intf, gasped, Unambiguous, no)
              /\ HInv(intf', gasped', Unambiguous, no)
              /\ RevInv(intf)
            BY <2>0, <2>1 DEF TInv, Unambiguous
        <2>3. ~intf.local_satisfied /\ intf'.local_satisfied
            <3>1. Dist(intf) = 0 /\ Dist(intf') = 0
                BY <2>2 DEF HInv, Settled
            <3> QED
                BY <3>1, <2>1, Fields DEF Dist
        <2>4. CASE oam_llid_registration
            BY <2>3, <2>4, RegisterGood DEF oam_llid_registration
        <2>5. CASE onu_pon_link_down_proc
            BY <2>1, <2>5 DEF onu_pon_link_down_proc, ZeroIntf
        <2>6. CASE \E p \in OltPdus : Receive(p)
            <3>1. PICK p \in OltPdus : Receive(p)
                BY <2>6
            <3>2. p \in RxPdu /\ intf' = oam_ind_oami(intf, p)
                BY <3>1, OltPdusAssumption DEF Receive
            <3>3. p.code = "INFO" =>
                    \/ p.ext.kind = "none" \/ gasped \/ ~Unambiguous
                    \/ intf.local_pdu # "RX_INFO" \/ p.rev # intf.revision_last_rx
                BY <2>2 DEF HInv, Mode
            <3>4. Handled(intf, p, intf')
                BY <2>0, <2>1, <2>2, <3>2, <3>3, ReceiveGood
            <3> QED
                BY <2>3, <3>4 DEF Handled
        <2>7. CASE oam_time_msg_proc
            <3> DEFINE e == Enter(intf)
            <3>1. intf' = oam_keep_alive(e)
                BY <2>7 DEF oam_time_msg_proc
            <3>2. /\ e \in Intf /\ HInv(e, gasped, Unambiguous, no)
                  /\ Untouched(intf, e)
                BY <2>1, <2>2, EnterGood
            <3> HIDE DEF e
            <3>3. Onward(e, intf')
                BY <3>1, <3>2, TickGood
            <3> QED
                BY <2>3, <3>2, <3>3 DEF Onward, SameInputs, Untouched, SameDisc
        <2>8. CASE \E crossed \in BOOLEAN : oam_event_process_polling(crossed)
            <3>1. PICK crossed \in BOOLEAN : oam_event_process_polling(crossed)
                BY <2>8
            <3>2. SameDisc(intf, intf')
                BY <2>1, <2>2, <3>1, PollGood DEF oam_event_process_polling
            <3> QED
                BY <2>3, <3>2 DEF SameDisc
        <2>9. CASE DyingGaspBegin
            <3>0. gasped'
                BY <2>9 DEF DyingGaspBegin
            <3>1. SameDisc(intf, intf')
                BY <2>1, <2>2, <2>9, <3>0, GaspGood DEF DyingGaspBegin
            <3> QED
                BY <2>3, <3>1 DEF SameDisc
        <2>10. CASE DyingGaspEnd
            <3>1. intf' = [Enter(intf) EXCEPT !.local_dying_gasp = no,
                                              !.local_critical_event = TRUE]
                BY <2>0, <2>10 DEF DyingGaspEnd
            <3>2. SameDisc(intf, intf')
                BY <2>0, <2>1, <2>2, <3>1, GaspFlags
            <3> QED
                BY <2>3, <3>2 DEF SameDisc
        <2> QED
            BY <2>4, <2>5, <2>6, <2>7, <2>8, <2>9, <2>10 DEF Next
    <1> QED
        BY <1>1, AlwaysTInv, PTL DEF Spec, NewRevisionNeeded

\* Every Information OAMPDU with a CTC TLV that is processed outside RX_INFO is
\* answered by an Information OAMPDU of the same handler: the request made on
\* the way by oam_proc_pdu_info is never still pending when
\* oam_discovery_send looks at pdu_func, unless it was when the handler began.
THEOREM ExtensionAnswered == Spec => ExtAnswered
    <1> DEFINE A ==
           \/ \E n \in DOMAIN intf'.tx : intf'.tx[n].code = "INFO"
           \/ gasped \/ intf.pdu_func # "NULL" \/ intf'.local_pdu = "RX_INFO"
           \/ \A p \in {q \in OltPdus : q.code = "INFO"} :
                p.fault \/ p.ext.kind = "none"
                \/ ~(oam_proc_pdu_sanity(intf, p) /\ Receive(p))
    <1>1. TInv /\ [Next]_vars => [A]_vars
        <2> SUFFICES ASSUME TInv, ~gasped, intf.pdu_func = "NULL",
                            intf'.local_pdu # "RX_INFO",
                            NEW p \in OltPdus, p.code = "INFO",
                            ~p.fault, p.ext.kind # "none",
                            oam_proc_pdu_sanity(intf, p), Receive(p)
                     PROVE  \E n \in DOMAIN intf'.tx : intf'.tx[n].code = "INFO"
            OBVIOUS
        <2>0. PICK no \in BOOLEAN, yes \in BOOLEAN : no = FALSE /\ yes = TRUE
            OBVIOUS
        <2>1. p \in RxPdu /\ intf.valid /\ intf' = oam_ind_oami(intf, p)
            BY OltPdusAssumption DEF Receive
        <2>2. intf \in Intf /\ HInv(intf, gasped, Unambiguous, no)
            BY <2>0, <2>1 DEF TInv, TypeOK
        <2>3. HInv(intf, no, yes, no) /\ HInv(intf, no, no, no)
            BY <2>0, <2>2 DEF HInv, Budget, SpokenTo
        <2>4. Handled(intf, p, intf')
            BY <2>0, <2>1, <2>2, <2>3, ReceiveGood
        <2>5. intf.local_pdu # "RX_INFO" \/ p.rev # intf.revision_last_rx
            BY <2>4 DEF Handled
        <2> QED
            BY <2>0, <2>1, <2>2, <2>3, <2>5, ReceiveGood
    <1> QED
        BY <1>1, AlwaysTInv, PTL DEF Spec, ExtAnswered

(***************************************************************************)
(* The refusal of an unmatched list of versions                            *)
(*                                                                         *)
(* NACK is the status between an unmatched list and its refusal.  It must  *)
(* not outlive the handler, but oam_discovery_send gives up if a request is *)
(* pending, and WAIT_FOR_TX drops a request that finds no budget.  So what *)
(* has to be shown is that a request that is pending between two handlers  *)
(* is an Information OAMPDU and has the whole budget before it.            *)
(***************************************************************************)
\* Before the ONU is spoken to nothing is spent, and what waits is the answer.
Unspent(i) ==
    /\ i.pdu_cnt = PktCount /\ i.state_tx # "DEC_PDU_CNT"
    /\ i.pdu_func # "var_rsp"
    /\ i.pdu_req # "NONE" => i.pdu_func = "info"

\* An Information OAMPDU that nothing can drop is waiting or about to leave.
Posted(i) ==
    i.pdu_func = "info" /\ (i.pdu_cnt = PktCount \/ i.state_tx = "DEC_PDU_CNT")

\* The transmit machine is about to deal with a request.
Going(i) ==
    \/ i.state_tx = "DEC_PDU_CNT"
    \/ i.state_tx = "WAIT_FOR_TX" /\ i.pdu_req = "NORMAL" /\ ~i.pdu_timer_done

\* Between two passes.  m is "due" while oam_proc_pdu_info has still to request
\* the answer to the frame that moved the ONU out of PASSIVE_WAIT.
RefusalRuns(i, m) ==
    IF i.local_pdu = "RX_INFO" THEN Unspent(i)
    ELSE /\ i.ext_status = "NACK" => Posted(i) \/ (m = "due" /\ Unspent(i))
         /\ i.pdu_func # "NULL" => Posted(i) \/ Going(i)

\* Between two operations of a handler.
Refusal(i, m) ==
    /\ RefusalRuns(i, m)
    /\ i.local_pdu # "RX_INFO" /\ i.pdu_func # "NULL" => Posted(i)

\* A run that leaves RX_INFO is one that is followed by the answer.
InTurn(i, m) == m = "due" \/ i.local_pdu # "RX_INFO" \/ ~i.remote_state_valid

\* Sending the Information OAMPDU sends the refusal.
LEMMA RefusalSent ==
    ASSUME NEW i \in Intf, i.pdu_func = "info", i.local_pdu # "RX_INFO", i.ext_valid
    PROVE  oam_tx_by_rule(i).ext_status # "NACK"
    <1> DEFINE h == oam_build_pdu_hdr(i, "INFO")
               a == oam_send(i, h)
               b == oam_ctc_build_pdu_info(a)
    <1>1. oam_tx_by_rule(i) = [b EXCEPT !.pdu_func = "NULL"]
        BY DEF oam_tx_by_rule
    <1>2. h \in TxPdu
        BY HdrType
    <1> HIDE DEF h
    <1>3. a \in Intf /\ a.ext_valid = i.ext_valid
        BY <1>2, SendType DEF Intf, oam_send
    <1> HIDE DEF a
    <1>4. a.ext_valid = TRUE
        BY <1>3, Fields
    <1>5. b.ext_status # "NACK" /\ b \in Intf
        BY <1>3, <1>4, BuildInfoType DEF oam_ctc_build_pdu_info, ExtToSend, Intf
    <1> QED
        BY <1>1, <1>5 DEF Intf

\* The two transitions of the transmit machine that send it.
LEMMA RefusalLeaves ==
    ASSUME NEW i \in Intf, ~i.BEGIN, i.local_pdu # "RX_INFO", i.ext_valid,
           \/ i.state_tx = "DEC_PDU_CNT" /\ i.pdu_func = "info"
           \/ /\ i.state_tx = "WAIT_FOR_TX" /\ i.pdu_timer_done
              /\ i.pdu_cnt = PktCount
    PROVE  oam_sm_tx_transition(i).ext_status # "NACK"
    <1>0. i.BEGIN = FALSE
        BY Fields
    <1>1. ASSUME NEW k \in Intf, k.local_pdu # "RX_INFO", k.ext_valid, k.pdu_func = "info"
          PROVE  /\ oam_sm_tx_into_tx_oampdu(k).ext_status # "NACK"
                 /\ oam_sm_tx_into_tx_oampdu(k) \in Intf
        <2> DEFINE n == [k EXCEPT !.state_tx = "TX_OAMPDU"]
        <2>1. n \in Intf
            BY <1>1, Updates DEF TxState
        <2>2. n.local_pdu # "RX_INFO" /\ n.ext_valid /\ n.pdu_func = "info"
            BY <1>1 DEF Intf
        <2>3. oam_sm_tx_into_tx_oampdu(k) = oam_tx_by_rule(n)
            BY DEF oam_sm_tx_into_tx_oampdu
        <2> HIDE DEF n
        <2> QED
            BY <2>1, <2>2, <2>3, RefusalSent, TxByRuleType
    <1>2. CASE i.state_tx = "DEC_PDU_CNT" /\ i.pdu_func = "info"
        <2> DEFINE k == oam_sm_tx_into_tx_oampdu(i)
        <2>1. k.ext_status # "NACK" /\ k \in Intf
            BY <1>1, <1>2
        <2>2. oam_sm_tx_transition(i) = CountBurst(i, k)
            BY <1>0, <1>2 DEF oam_sm_tx_transition
        <2> HIDE DEF k
        <2> QED
            BY <2>1, <2>2 DEF CountBurst, Intf
    <1>3. CASE /\ i.state_tx = "WAIT_FOR_TX" /\ i.pdu_timer_done
               /\ i.pdu_cnt = PktCount
        <2> DEFINE n == [i EXCEPT !.pdu_func = "info", !.pdu_parm = "NULL"]
                   k == oam_sm_tx_into_tx_oampdu(n)
        <2>1. n \in Intf
            BY Updates DEF PduFunc, PduParm
        <2>2. n.local_pdu # "RX_INFO" /\ n.ext_valid /\ n.pdu_func = "info"
            BY DEF Intf
        <2>3. oam_sm_tx_transition(i) = [k EXCEPT !.pdu_req = "NONE"]
            BY <1>0, <1>3 DEF oam_sm_tx_transition, WaitForTx
        <2> HIDE DEF n
        <2>4. k.ext_status # "NACK" /\ k \in Intf
            BY <1>1, <2>1, <2>2
        <2> HIDE DEF k
        <2> QED
            BY <2>3, <2>4 DEF Intf
    <1> QED
        BY <1>2, <1>3

\* A step of the discovery machine keeps the request where it is.
LEMMA DiscRefuses ==
    ASSUME NEW i \in Intf, NEW g, NEW w, NEW c, LInv(i, g, w, c),
           NEW m, RefusalRuns(i, m), InTurn(i, m)
    PROVE  LET j == oam_sm_disc_transition(i) IN
           RefusalRuns(j, m) /\ InTurn(j, m)
    <1> DEFINE j == oam_sm_disc_transition(i)
    <1>1. /\ SameTx(i, j)
          /\ j.local_pdu = "RX_INFO" => i.local_pdu = "RX_INFO"
          /\ i.local_pdu = "RX_INFO" /\ ~i.remote_state_valid =>
                j.local_pdu = "RX_INFO"
        BY DiscKeeps
    <1> HIDE DEF j
    <1>2. /\ Unspent(i) <=> Unspent(j)
          /\ Posted(i) <=> Posted(j)
          /\ Going(i) <=> Going(j)
        BY <1>1 DEF SameTx, SameBudget, Unspent, Posted, Going
    <1>3. InTurn(j, m)
        BY <1>1 DEF InTurn, SameTx, SameInputs
    <1>4. i.pdu_func \in PduFunc
        BY Fields
    <1>5. CASE i.local_pdu = "RX_INFO" /\ j.local_pdu # "RX_INFO"
        <2>1. Unspent(i) /\ m = "due"
            BY <1>1, <1>5 DEF RefusalRuns, InTurn
        <2>2. i.pdu_func # "NULL" => Posted(i)
            BY <1>4, <2>1 DEF Unspent, Posted, PduFunc
        <2> QED
            BY <1>1, <1>2, <1>3, <1>5, <2>1, <2>2 DEF RefusalRuns, SameTx, j
    <1>6. CASE ~(i.local_pdu = "RX_INFO" /\ j.local_pdu # "RX_INFO")
        BY <1>1, <1>2, <1>3, <1>6 DEF RefusalRuns, SameTx, j
    <1> QED
        BY <1>5, <1>6

\* Neither does one of the transmit machine, until it sends it.
LEMMA TxRefuses ==
    ASSUME NEW i \in Intf, NEW g, NEW w, NEW c, LInv(i, g, w, c),
           NEW m, RefusalRuns(i, m), InTurn(i, m)
    PROVE  LET j == oam_sm_tx_transition(i) IN
           RefusalRuns(j, m) /\ InTurn(j, m)
    <1> DEFINE j == oam_sm_tx_transition(i)
    <1>0. ~i.BEGIN /\ i.state_tx \in TxState /\ i.pdu_func \in PduFunc
        BY Fields DEF LInv
    <1>1. /\ Untouched(i, j) /\ ExtMoves(i, j)
          /\ i.state_tx = "RESET" \/ (i.state_tx = "TX_OAMPDU" /\ ~i.pdu_timer_done) =>
                /\ j.state_tx = "WAIT_FOR_TX" /\ j.pdu_req = i.pdu_req
                /\ j.pdu_timer_done = i.pdu_timer_done /\ j.pdu_cnt = i.pdu_cnt
                /\ j.pdu_func = i.pdu_func /\ SameSent(i, j)
          /\ i.state_tx = "TX_OAMPDU" /\ i.pdu_timer_done =>
                Resets(i, j) /\ j.pdu_req = i.pdu_req
          /\ i.state_tx = "DEC_PDU_CNT" => TxStep(i, j)
          /\ i.state_tx = "WAIT_FOR_TX" => WaitStep(i, j)
        BY <1>0, TxEffect
    <1>2. (/\ i.local_pdu # "RX_INFO" /\ i.ext_valid
           /\ \/ i.state_tx = "DEC_PDU_CNT" /\ i.pdu_func = "info"
              \/ /\ i.state_tx = "WAIT_FOR_TX" /\ i.pdu_timer_done
                 /\ i.pdu_cnt = PktCount) => j.ext_status # "NACK"
        BY <1>0, RefusalLeaves
    <1>3. i.ext_status = "NACK" => i.ext_valid
        BY DEF LInv, Offers
    <1> HIDE DEF j
    <1>4. InTurn(j, m) /\ j.local_pdu = i.local_pdu
        BY <1>1 DEF InTurn, Untouched, SameDisc
    <1>5. j.ext_status = "NACK" => i.ext_status = "NACK"
        BY <1>1 DEF ExtMoves
    <1>6. PktCount # 0
        BY PktCountAssumption
    <1>7. CASE i.local_pdu = "RX_INFO"
        <2>1. Unspent(i)
            BY <1>7 DEF RefusalRuns
        <2>2. ~MayTransmit(i)
            BY <1>7 DEF MayTransmit
        <2>3. Unspent(j)
            BY <1>0, <1>1, <1>7, <2>1, <2>2
            DEF Unspent, WaitStep, Resets, TxState, PduFunc
        <2> QED
            BY <1>4, <1>7, <2>3 DEF RefusalRuns, j
    <1>8. CASE i.local_pdu # "RX_INFO"
        <2>1. /\ i.ext_status = "NACK" => Posted(i) \/ (m = "due" /\ Unspent(i))
              /\ i.pdu_func # "NULL" => Posted(i) \/ Going(i)
            BY <1>8 DEF RefusalRuns
        <2>2. SUFFICES
                /\ j.ext_status = "NACK" => Posted(j) \/ (m = "due" /\ Unspent(j))
                /\ j.pdu_func # "NULL" => Posted(j) \/ Going(j)
            BY <1>4, <1>8 DEF RefusalRuns, j
        <2>3. CASE i.state_tx = "RESET" \/ (i.state_tx = "TX_OAMPDU" /\ ~i.pdu_timer_done)
            BY <1>1, <1>5, <2>1, <2>3 DEF Posted, Unspent, Going
        <2>4. CASE i.state_tx = "TX_OAMPDU" /\ i.pdu_timer_done
            BY <1>1, <1>5, <2>1, <2>4 DEF Posted, Unspent, Going, Resets
        <2>5. CASE i.state_tx = "DEC_PDU_CNT"
            <3>1. j.ext_status # "NACK"
                BY <1>2, <1>3, <1>5, <1>8, <2>1, <2>5 DEF Posted, Unspent
            <3>2. j.pdu_func = "NULL"
                BY <1>1, <1>8, <2>5 DEF TxStep, Idle
            <3> QED
                BY <3>1, <3>2
        <2>6. CASE i.state_tx = "WAIT_FOR_TX" /\ i.pdu_timer_done
            <3>1. i.ext_status = "NACK" => i.pdu_cnt = PktCount
                BY <2>1, <2>6 DEF Posted, Unspent
            <3>2. j.ext_status # "NACK"
                BY <1>2, <1>3, <1>5, <1>8, <2>6, <3>1
            <3>3. j.pdu_func = "NULL"
                BY <1>1, <1>8, <2>1, <2>6 DEF WaitStep, Resets, Posted, Going
            <3> QED
                BY <3>2, <3>3
        <2>7. CASE i.state_tx = "WAIT_FOR_TX" /\ ~i.pdu_timer_done
            <3>1. /\ j.pdu_req = "NONE"
                  /\ MayTransmit(i) =>
                        j.state_tx = "DEC_PDU_CNT" /\ j.pdu_func = i.pdu_func
                  /\ ~MayTransmit(i) =>
                        /\ j.state_tx = "WAIT_FOR_TX" /\ j.pdu_cnt = i.pdu_cnt
                        /\ j.pdu_func = IF i.pdu_req = "NORMAL" THEN "NULL"
                                        ELSE i.pdu_func
                BY <1>1, <2>7 DEF WaitStep
            <3>2. CASE MayTransmit(i)
                <4>1. i.pdu_req # "NONE"
                    BY <3>2 DEF MayTransmit
                <4>2. i.ext_status = "NACK" => i.pdu_func = "info"
                    BY <2>1, <4>1 DEF Posted, Unspent
                <4> QED
                    BY <1>5, <3>1, <3>2, <4>2 DEF Posted, Going
            <3>3. CASE ~MayTransmit(i)
                <4>1. i.pdu_cnt = PktCount => i.pdu_req # "NORMAL"
                    BY <1>6, <1>8, <3>3 DEF MayTransmit
                <4> QED
                    BY <1>5, <2>1, <2>7, <3>1, <3>3, <4>1
                    DEF Posted, Unspent, Going
            <3> QED
                BY <3>2, <3>3
        <2> QED
            BY <1>0, <2>3, <2>4, <2>5, <2>6, <2>7 DEF TxState
    <1> QED
        BY <1>7, <1>8

\* A pass of the loop, and four of them.
LEMMA PassRefuses ==
    ASSUME NEW s, NEW g, NEW w, NEW c, PassOK(s, g, w, c),
           NEW m, RefusalRuns(s.intf, m), InTurn(s.intf, m)
    PROVE  LET t == SmPass(s) IN
           PassOK(t, g, w, c) /\ RefusalRuns(t.intf, m) /\ InTurn(t.intf, m)
    <1> DEFINE i == s.intf
               j == oam_sm_disc_transition(i)
               k == oam_sm_tx_transition(j)
               t == SmPass(s)
    <1>1. PassOK(t, g, w, c)
        BY PassStep
    <1>2. i \in Intf /\ LInv(i, g, w, c) /\ s.moved \in BOOLEAN
        BY DEF PassOK, Loop
    <1>3. j \in Intf /\ LInv(j, g, w, c) /\ RefusalRuns(j, m) /\ InTurn(j, m)
        BY <1>2, DiscTransitionType, DiscKeeps, DiscRefuses
    <1>4. t.intf = IF s.moved THEN k ELSE i
        BY DEF SmPass
    <1> HIDE DEF j
    <1>5. RefusalRuns(k, m) /\ InTurn(k, m)
        BY <1>3, TxRefuses
    <1> QED
        BY <1>1, <1>4, <1>5

\* Four passes.
LEMMA Pass4Refuses ==
    ASSUME NEW s, NEW g, NEW w, NEW c, PassOK(s, g, w, c),
           NEW m, RefusalRuns(s.intf, m), InTurn(s.intf, m)
    PROVE  LET t == SmPass4(s) IN
           PassOK(t, g, w, c) /\ RefusalRuns(t.intf, m) /\ InTurn(t.intf, m)
    <1> DEFINE a == SmPass(s)
               b == SmPass(a)
               p == SmPass(b)
    <1>1. PassOK(a, g, w, c) /\ RefusalRuns(a.intf, m) /\ InTurn(a.intf, m)
        BY PassRefuses
    <1> HIDE DEF a
    <1>2. PassOK(b, g, w, c) /\ RefusalRuns(b.intf, m) /\ InTurn(b.intf, m)
        BY <1>1, PassRefuses
    <1> HIDE DEF b
    <1>3. PassOK(p, g, w, c) /\ RefusalRuns(p.intf, m) /\ InTurn(p.intf, m)
        BY <1>2, PassRefuses
    <1> HIDE DEF p
    <1> QED
        BY <1>3, PassRefuses DEF SmPass4, p, b, a

\* A run of the machines leaves no refusal behind that is not posted or due.
LEMMA RunRefuses ==
    ASSUME NEW i \in Intf, NEW g, NEW w, NEW c, LInv(i, g, w, c), ~i.runaway,
           NEW m, RefusalRuns(i, m), InTurn(i, m)
    PROVE  Refusal(oam_sm_run(i), m)
    <1> DEFINE s == [intf |-> i, moved |-> TRUE]
               a == SmPass4(s)
               b == SmPass4(a)
               r == SmPass4(b)
               j == oam_sm_run(i)
    <1>1. PassOK(s, g, w, c) /\ s.intf = i
        BY DEF PassOK, Loop
    <1>2. /\ PassOK(a, g, w, c) /\ RefusalRuns(a.intf, m) /\ InTurn(a.intf, m)
          /\ AtRest(a.intf)
        BY <1>1, Pass4Refuses, Pass4Step
    <1> HIDE DEF a
    <1>3. PassOK(b, g, w, c) /\ RefusalRuns(b.intf, m) /\ InTurn(b.intf, m)
        BY <1>2, Pass4Refuses
    <1> HIDE DEF b
    <1>4. /\ PassOK(r, g, w, c) /\ RefusalRuns(r.intf, m) /\ InTurn(r.intf, m)
          /\ AtRest(r.intf)
        BY <1>3, Pass4Refuses, Pass4Step
    <1>5. j = [r.intf EXCEPT !.runaway = r.intf.runaway \/ r.moved]
        BY DEF oam_sm_run, r, b, a, s
    <1> HIDE DEF r, j
    <1>6. r.intf \in Intf /\ LInv(r.intf, g, w, c)
        BY <1>4 DEF PassOK, Loop
    <1>7. /\ j.local_pdu = r.intf.local_pdu /\ j.ext_status = r.intf.ext_status
          /\ j.pdu_func = r.intf.pdu_func /\ SameBudget(r.intf, j)
        BY <1>5, <1>6 DEF Intf, SameBudget
    <1>8. RefusalRuns(j, m)
        BY <1>4, <1>7 DEF RefusalRuns, Unspent, Posted, Going, SameBudget
    <1>9. j.state_tx = "WAIT_FOR_TX" /\ j.pdu_req = "NONE"
        BY <1>4, <1>6, <1>7, Fields DEF AtRest, TxDist, TxState, SameBudget
    <1> QED
        BY <1>8, <1>9 DEF Refusal, RefusalRuns, Going, j

\* A discovery that failed does not come back, and a refusal that was not left
\* behind before is not left behind now.
Refused == {"NACK", "NOTSUPPORTED"}

Final(i, j) == i.ext_status \in Refused => j.ext_status \in Refused

Keeps(i, j, g) ==
    /\ Final(i, j)
    /\ ~g /\ Refusal(i, "done") => Refusal(j, "done")

\* Building an Information OAMPDU moves a failed discovery to NOTSUPPORTED.
LEMMA MovesFinal ==
    ASSUME NEW i, NEW j, ExtMoves(i, j)
    PROVE  Final(i, j)
    BY DEF ExtMoves, Final, Refused

\* What the transmit machine and the extended discovery look at decides.
LEMMA AlikeRefuses ==
    ASSUME NEW i, NEW j, SameBudget(i, j), j.local_pdu = i.local_pdu,
           j.pdu_func = i.pdu_func, j.ext_status = i.ext_status, NEW g, NEW m
    PROVE  Keeps(i, j, g) /\ (Refusal(i, m) => Refusal(j, m))
    BY DEF Keeps, Final, Refusal, RefusalRuns, Unspent, Posted, Going, SameBudget

\* A change of what the discovery machine reads.
LEMMA CtlRefuses ==
    ASSUME NEW i \in Intf, NEW satisfied \in BOOLEAN,
           NEW state_valid \in BOOLEAN, NEW stable \in BOOLEAN,
           satisfied => state_valid, NEW g, NEW w, NEW c, HInv(i, g, w, c),
           NEW m, Refusal(i, "done"),
           m = "due" \/ i.local_pdu # "RX_INFO" \/ ~state_valid
    PROVE  Refusal(oam_req_oam_ctl(i, satisfied, state_valid, stable), m)
    <1> DEFINE k == [i EXCEPT !.local_satisfied = satisfied,
                              !.remote_state_valid = state_valid,
                              !.remote_stable = stable]
               j == oam_req_oam_ctl(i, satisfied, state_valid, stable)
    <1>1. k \in Intf
        BY Updates
    <1>2. /\ k.BEGIN = i.BEGIN /\ k.state_disc = i.state_disc
          /\ k.local_satisfied = satisfied /\ k.remote_stable = stable
          /\ k.remote_state_valid = state_valid
          /\ SameBudget(i, k)
          /\ k.local_pdu = i.local_pdu /\ k.local_stable = i.local_stable
          /\ k.local_dying_gasp = i.local_dying_gasp
          /\ k.local_critical_event = i.local_critical_event
          /\ k.pdu_func = i.pdu_func /\ k.tx = i.tx
          /\ k.sent = i.sent /\ k.dropped = i.dropped
          /\ k.runaway = i.runaway
          /\ k.ext_valid = i.ext_valid /\ k.ext_status = i.ext_status
        BY DEF Intf, SameBudget
    <1>3. j \in {k, oam_sm_run(k)}
        BY Zenon DEF oam_req_oam_ctl
    <1> HIDE DEF k, j
    <1>4. Refusal(k, "done")
        BY <1>2, AlikeRefuses
    <1>5. Refusal(k, m) /\ RefusalRuns(k, m)
        BY <1>4 DEF Refusal, RefusalRuns
    <1>6. InTurn(k, m)
        BY <1>2 DEF InTurn
    <1>7. i.state_disc # "FAULT"
        BY SettledFacts DEF HInv
    <1>8. Mode(k) /\ TrueFlags(k) /\ Spent(k)
        BY <1>2 DEF HInv, SameBudget, Mode, TrueFlags, Spent
    <1>9. Budget(k, g)
        BY <1>2 DEF HInv, SameBudget, Budget
    <1>10. SpokenTo(k, g) /\ Offers(k, c) /\ AboutToGo(k, g, w)
        BY <1>2 DEF HInv, SpokenTo, Offers, AboutToGo
    <1>11. LInv(k, g, w, c) /\ ~k.runaway
        BY <1>2, <1>7, <1>8, <1>9, <1>10 DEF HInv, LInv, Settled, SameBudget
    <1>12. Refusal(oam_sm_run(k), m)
        BY <1>1, <1>5, <1>6, <1>11, RunRefuses
    <1> QED
        BY <1>3, <1>5, <1>12 DEF j

\* A request.  The answer that is due is one.
LEMMA RequestRefuses ==
    ASSUME NEW i \in Intf, NEW func \in PduFunc, NEW parm \in PduParm,
           func # "NULL", NEW g, NEW w, NEW c, HInv(i, g, w, c), ~g,
           NEW m, Refusal(i, m),
           func = "info" \/ (m = "done" /\ i.local_pdu # "RX_INFO")
    PROVE  Refusal(oam_req_oampdu(i, func, parm), "done")
    <1> DEFINE j == [i EXCEPT !.pdu_req = RequestClass(i)]
               k == [j EXCEPT !.pdu_func = func, !.pdu_parm = parm]
    <1>1. /\ j \in Intf /\ Untouched(i, j) /\ j.tx = i.tx
          /\ j.ext_status = i.ext_status
          /\ i.pdu_func # "NULL" => HInv(j, g, w, c)
          /\ k \in Intf /\ Untouched(i, k) /\ k.tx = i.tx
          /\ k.ext_status = i.ext_status /\ k.pdu_func = func
          /\ k.state_tx = i.state_tx /\ k.pdu_timer_done = i.pdu_timer_done
          /\ ~g => k.pdu_req = "NORMAL"
          /\ Settled(k) /\ Mode(k) /\ TrueFlags(k) /\ Offers(k, c)
          /\ SpokenTo(k, g) /\ Budget(k, g) /\ Spent(k)
        BY ClassifyGood
    <1>2. /\ j.local_pdu = i.local_pdu /\ j.ext_status = i.ext_status
          /\ j.pdu_func = i.pdu_func /\ j.pdu_cnt = i.pdu_cnt
          /\ j.state_tx = i.state_tx /\ j.pdu_timer_done = i.pdu_timer_done
          /\ k.pdu_cnt = i.pdu_cnt
        BY DEF Intf
    <1>3. oam_req_oampdu(i, func, parm) =
            IF i.pdu_func # "NULL" THEN j ELSE oam_sm_run(k)
        BY DEF oam_req_oampdu
    <1> HIDE DEF j, k
    <1>4. i.pdu_func \in PduFunc /\ i.state_tx = "WAIT_FOR_TX" /\ ~i.pdu_timer_done
        BY Fields DEF HInv
    <1>5. CASE i.pdu_func # "NULL"
        <2>1. Refusal(j, "done")
            BY <1>2, <1>4, <1>5
            DEF Refusal, RefusalRuns, Unspent, Posted, Going, PduFunc
        <2> QED
            BY <1>3, <1>5, <2>1
    <1>6. CASE i.pdu_func = "NULL"
        <2>1. k.local_pdu = i.local_pdu /\ k.runaway = i.runaway
            BY <1>1 DEF Untouched
        <2>4. RefusalRuns(k, "done")
            <3>1. CASE i.local_pdu = "RX_INFO"
                <4>1. Unspent(k)
                    BY <1>1, <1>2, <3>1 DEF Refusal, RefusalRuns, Unspent
                <4> QED
                    BY <2>1, <3>1, <4>1 DEF RefusalRuns
            <3>2. CASE i.local_pdu # "RX_INFO"
                <4>1. i.ext_status = "NACK" => m = "due" /\ Unspent(i)
                    BY <1>6, <3>2 DEF Refusal, RefusalRuns, Posted
                <4>2. k.ext_status = "NACK" => Posted(k)
                    BY <1>1, <1>2, <4>1, <3>2 DEF Unspent, Posted
                <4>3. Going(k)
                    BY <1>1, <1>4 DEF Going
                <4> QED
                    BY <2>1, <3>2, <4>2, <4>3 DEF RefusalRuns
            <3> QED
                BY <3>1, <3>2
        <2>5. Near(k) /\ k.state_disc # "FAULT" /\ ~k.runaway
            BY <1>1, <2>1, SettledFacts DEF HInv
        <2>6. LInv(k, g, w, c)
            BY <1>1, <1>4, <2>5 DEF LInv, Settled, AboutToGo
        <2>7. InTurn(k, "done")
            BY <1>1, SettledFacts DEF InTurn, Mode
        <2>8. Refusal(oam_sm_run(k), "done")
            BY <1>1, <2>4, <2>5, <2>6, <2>7, RunRefuses
        <2> QED
            BY <1>3, <1>6, <2>8
    <1> QED
        BY <1>5, <1>6

\* The answer to a TLV goes out past the transmit machine, or is waiting.
LEMMA DirectRefuses ==
    ASSUME NEW i \in Intf, NEW g, NEW w, NEW c, HInv(i, g, w, c),
           i.local_pdu = "RX_INFO" => Unspent(i),
           i.local_pdu # "RX_INFO" /\ i.pdu_func # "NULL" => Posted(i)
    PROVE  Refusal(oam_discovery_send(i, "info", "NULL"), "done")
    <1> DEFINE j == [i EXCEPT !.pdu_req = RequestClass(i)]
               k == [j EXCEPT !.pdu_func = "info", !.pdu_parm = "NULL"]
               r == oam_discovery_send(i, "info", "NULL")
    <1>0. "info" \in PduFunc /\ "NULL" \in PduParm /\ "info" # "NULL"
        BY DEF PduFunc, PduParm
    <1>1. /\ j \in Intf /\ Untouched(i, j) /\ j.tx = i.tx
          /\ j.ext_status = i.ext_status
          /\ i.pdu_func # "NULL" => HInv(j, g, w, c)
          /\ k \in Intf /\ Untouched(i, k) /\ k.tx = i.tx
          /\ k.ext_status = i.ext_status /\ k.pdu_func = "info"
          /\ k.state_tx = i.state_tx /\ k.pdu_timer_done = i.pdu_timer_done
          /\ ~g => k.pdu_req = "NORMAL"
          /\ Settled(k) /\ Mode(k) /\ TrueFlags(k) /\ Offers(k, c)
          /\ SpokenTo(k, g) /\ Budget(k, g) /\ Spent(k)
        BY <1>0, ClassifyGood
    <1>2. /\ j.local_pdu = i.local_pdu /\ j.ext_status = i.ext_status
          /\ j.pdu_func = i.pdu_func /\ j.pdu_cnt = i.pdu_cnt
          /\ j.state_tx = i.state_tx /\ k.pdu_cnt = i.pdu_cnt
        BY DEF Intf
    <1>3. r = IF i.pdu_func # "NULL" THEN j ELSE oam_tx_by_rule(k)
        BY DEF oam_discovery_send
    <1> HIDE DEF j, k, r
    <1>4. i.pdu_func \in PduFunc
        BY Fields
    <1>5. CASE i.pdu_func # "NULL"
        <2>1. Refusal(j, "done")
            BY <1>2, <1>4, <1>5
            DEF Refusal, RefusalRuns, Unspent, Posted, PduFunc
        <2> QED
            BY <1>3, <1>5, <2>1 DEF r
    <1>6. CASE i.pdu_func = "NULL"
        <2>1. r = oam_tx_by_rule(k) /\ k.local_pdu = i.local_pdu
            BY <1>1, <1>3, <1>6 DEF Untouched
        <2>2. /\ Untouched(k, r) /\ ExtMoves(k, r)
              /\ Idle(k) => r = k
              /\ ~Idle(k) => r.pdu_func = "NULL"
            BY <1>1, <2>1, RuleEffect
        <2>3. CASE i.local_pdu = "RX_INFO"
            <3>1. r = k
                BY <2>1, <2>2, <2>3 DEF Idle
            <3>2. Unspent(k)
                BY <1>1, <1>2, <2>3 DEF Unspent
            <3> QED
                BY <2>1, <2>3, <3>1, <3>2 DEF Refusal, RefusalRuns, r
        <2>4. CASE i.local_pdu # "RX_INFO"
            <3>1. r.pdu_func = "NULL" /\ r.local_pdu # "RX_INFO"
                BY <1>1, <2>1, <2>2, <2>4 DEF Idle, Untouched
            <3>2. k.ext_status = "NACK" => k.ext_valid
                BY <1>1 DEF Offers
            <3>3. r.ext_status # "NACK"
                BY <1>1, <2>1, <2>2, <2>4, <3>2, RefusalSent DEF ExtMoves
            <3> QED
                BY <3>1, <3>3 DEF Refusal, RefusalRuns, r
        <2> QED
            BY <2>3, <2>4
    <1> QED
        BY <1>5, <1>6

\* A CTC TLV and its answer.
LEMMA ExtRefuses ==
    ASSUME NEW i \in Intf, NEW tlv \in ExtTlv,
           NEW g, NEW w, NEW c, HInv(i, g, w, c), ~w,
           c /\ tlv.kind = "list" => Matched(tlv.vers) = {}
    PROVE  Keeps(i, oam_ctc_proc_pdu_info(i, tlv), g)
    <1>1. CASE tlv.kind = "none"
        <2>1. oam_ctc_proc_pdu_info(i, tlv) = i
            BY <1>1 DEF oam_ctc_proc_pdu_info
        <2> QED
            BY <2>1 DEF Keeps, Final
    <1>2. CASE tlv.kind # "none"
        <2> DEFINE m == IF tlv.kind = "short" THEN ExtShort(i, tlv)
                        ELSE ExtList(i, tlv)
                   r == oam_discovery_send(m, "info", "NULL")
        <2>1. m \in Intf /\ HInv(m, g, w, c)
            BY <1>2, ReadTlvGood
        <2>2. /\ SameBudget(i, m) /\ m.local_pdu = i.local_pdu
              /\ m.pdu_func = i.pdu_func
            BY DEF Intf, ExtShort, ExtList, SameBudget
        <2>3. Final(i, m)
            <3>1. i.ext_status \in Refused => ExtAdvance(i.ext_status) \in Refused
                BY DEF Refused, ExtAdvance
            <3>2. m.ext_status \in {i.ext_status, ExtAdvance(i.ext_status),
                                    "NOTSUPPORTED", "NACK"}
                BY DEF Intf, ExtShort, ExtList
            <3> QED
                BY <3>1, <3>2 DEF Final, Refused
        <2>4. oam_ctc_proc_pdu_info(i, tlv) = r
            BY <1>2 DEF oam_ctc_proc_pdu_info
        <2> HIDE DEF m
        <2>5. Onward(m, r)
            BY <2>1, DirectGood
        <2>6. Final(i, r)
            BY <2>3, <2>5, MovesFinal DEF Onward, Final
        <2>7. ASSUME Refusal(i, "done")
              PROVE  Refusal(r, "done")
            <3>1. m.local_pdu = "RX_INFO" => Unspent(m)
                BY <2>2, <2>7
                DEF Refusal, RefusalRuns, Unspent, SameBudget
            <3>2. m.local_pdu # "RX_INFO" /\ m.pdu_func # "NULL" => Posted(m)
                BY <2>2, <2>7 DEF Refusal, Posted, SameBudget
            <3> QED
                BY <2>1, <3>1, <3>2, DirectRefuses
        <2> QED
            BY <2>4, <2>6, <2>7 DEF Keeps
    <1> QED
        BY <1>1, <1>2

\* A fault the OLT flags.
LEMMA FaultRefuses ==
    ASSUME NEW i \in Intf, NEW g, NEW w, NEW c, HInv(i, g, w, c)
    PROVE  Keeps(i, RemoteFault(i), g)
    <1>1. i.remote_stable \in BOOLEAN
        BY Fields
    <1>2. PICK no \in BOOLEAN : no = FALSE
        OBVIOUS
    <1> DEFINE j == oam_req_oam_ctl(i, no, no, i.remote_stable)
    <1>3. RemoteFault(i) = j
        BY <1>2 DEF RemoteFault
    <1>4. ExtMoves(i, j)
        BY <1>1, CtlGood
    <1>5. ASSUME Refusal(i, "done")
          PROVE  Refusal(j, "done")
        BY <1>1, <1>2, <1>5, CtlRefuses
    <1> QED
        BY <1>3, <1>4, <1>5, MovesFinal DEF Keeps

\* An Information OAMPDU.  The one that moves the ONU out of PASSIVE_WAIT is
\* answered before its TLV is read.
LEMMA InfoRefuses ==
    ASSUME NEW i \in Intf, NEW p \in RxPdu, p.code = "INFO",
           NEW g, NEW w, NEW c, HInv(i, g, w, c), ~w,
           c /\ p.ext.kind = "list" => Matched(p.ext.vers) = {}
    PROVE  Keeps(i, oam_proc_pdu_info(i, p), g)
    <1>1. /\ p.rev \in Revs /\ p.active \in BOOLEAN /\ p.good \in BOOLEAN
          /\ p.ext \in ExtTlv /\ p.fault \in BOOLEAN
        BY DEF RxPdu
    <1> DEFINE r == oam_proc_pdu_info(i, p)
    <1>2. CASE p.fault
        BY <1>2, FaultRefuses DEF oam_proc_pdu_info
    <1>3. CASE ~p.fault /\ p.rev = i.revision_last_rx
        <2>1. r = oam_ctc_proc_pdu_info(i, p.ext)
            BY <1>3 DEF oam_proc_pdu_info
        <2> QED
            BY <1>1, <2>1, ExtRefuses
    <1>4. CASE ~p.fault /\ p.rev # i.revision_last_rx
        <2>0. PICK yes \in BOOLEAN, good \in BOOLEAN, stable \in BOOLEAN :
                yes = TRUE /\ good = p.good /\ stable = i.remote_stable
            BY <1>1, Fields
        <2> DEFINE a == [i EXCEPT !.revision_last_rx = p.rev,
                                  !.remote_active = p.active]
                   b == oam_req_oam_ctl(a, good, yes, stable)
                   d == oam_req_oampdu(b, "info", "NULL")
                   reply == i.local_pdu = "RX_INFO"
                                \/ (i.remote_stable /\ i.local_pdu # "ANY")
                   k == IF reply THEN d ELSE b
                   m == IF i.local_pdu = "RX_INFO" THEN "due" ELSE "done"
        <2>1. a \in Intf
            BY <1>1, Sentinels, Updates
        <2>2. Alike(i, a)
            BY DEF Intf, Alike, SameDisc, SameBudget
        <2>3. r = oam_ctc_proc_pdu_info(k, p.ext)
            BY <1>4, <2>0, Zenon DEF oam_proc_pdu_info
        <2> HIDE DEF a, r
        <2>4. HInv(a, g, w, c)
            BY <2>1, <2>2, AlikeGood
        <2>5. /\ yes \in BOOLEAN /\ good \in BOOLEAN /\ stable \in BOOLEAN
              /\ good => yes
            BY <2>0
        <2>6. b \in Intf /\ HInv(b, g, w, c) /\ ExtMoves(a, b)
            BY <2>1, <2>4, <2>5, CtlGood
        <2>7. ASSUME Refusal(i, "done")
              PROVE  Refusal(b, m)
            <3>1. Refusal(a, "done")
                BY <2>2, <2>7, AlikeRefuses DEF Alike
            <3>2. m = "due" \/ a.local_pdu # "RX_INFO"
                BY <2>2 DEF Alike
            <3> HIDE DEF m
            <3> QED
                BY <2>1, <2>4, <2>5, <3>1, <3>2, CtlRefuses
        <2> HIDE DEF b
        <2>8. d \in Intf /\ HInv(d, g, w, c) /\ Onward(b, d)
            BY <2>6, RequestGood DEF PduFunc, PduParm
        <2>9. ASSUME ~g, Refusal(b, m)
              PROVE  Refusal(d, "done")
            BY <2>6, <2>9, RequestRefuses DEF PduFunc, PduParm
        <2> HIDE DEF d
        <2>10. k \in Intf /\ HInv(k, g, w, c)
            BY <2>6, <2>8
        <2>11. Final(i, k)
            <3>1. Final(i, b)
                BY <2>2, <2>6, MovesFinal DEF Final, Alike
            <3>2. Final(b, d)
                BY <2>8, MovesFinal DEF Onward
            <3> QED
                BY <3>1, <3>2 DEF Final
        <2>12. ~g /\ Refusal(i, "done") => Refusal(k, "done")
            BY <2>7, <2>9
        <2> HIDE DEF k
        <2>13. Keeps(k, r, g)
            BY <1>1, <2>3, <2>10, ExtRefuses
        <2> QED
            BY <2>11, <2>12, <2>13 DEF Keeps, Final, r
    <1> QED
        BY <1>1, <1>2, <1>3, <1>4

\* The flags of an OAMPDU.
LEMMA FlagsRefuse ==
    ASSUME NEW i \in Intf, NEW p \in RxPdu, NEW g, NEW w, NEW c, HInv(i, g, w, c)
    PROVE  Keeps(i, oam_start_local_lost_link_timer(oam_proc_hdr(i, p)), g)
    <1> DEFINE h == oam_proc_hdr(i, p)
               j == oam_start_local_lost_link_timer(h)
    <1>1. h \in Intf /\ Keeps(i, h, g)
        <2>1. CASE p.code \in {"ORG_SPEC", "PASSAVE_PING"}
            <3>1. h = i
                BY <2>1 DEF oam_proc_hdr
            <3> QED
                BY <3>1 DEF Keeps, Final
        <2>2. CASE p.code \notin {"ORG_SPEC", "PASSAVE_PING"}
            <3>1. p.stable \in BOOLEAN
                BY DEF RxPdu
            <3>2. PICK good \in BOOLEAN, val \in BOOLEAN, stable \in BOOLEAN :
                    /\ good = i.local_satisfied /\ val = i.remote_state_valid
                    /\ stable = p.stable
                BY <3>1, Fields
            <3>3. good => val
                BY <3>2 DEF HInv, Settled
            <3> DEFINE k == oam_req_oam_ctl(i, good, val, stable)
            <3>4. h = k
                BY <2>2, <3>2, Zenon DEF oam_proc_hdr
            <3>5. k \in Intf /\ ExtMoves(i, k)
                BY <3>3, CtlGood
            <3>6. i.local_pdu # "RX_INFO" \/ ~val
                BY <3>2, SettledFacts DEF HInv, Mode
            <3>7. Refusal(i, "done") => Refusal(k, "done")
                BY <3>3, <3>6, CtlRefuses
            <3> QED
                BY <3>4, <3>5, <3>7, MovesFinal DEF Keeps
        <2> QED
            BY <2>1, <2>2
    <1> HIDE DEF h
    <1>2. /\ SameBudget(h, j) /\ j.local_pdu = h.local_pdu
          /\ j.pdu_func = h.pdu_func /\ j.ext_status = h.ext_status
        BY <1>1 DEF Intf, oam_start_local_lost_link_timer, SameBudget
    <1> HIDE DEF j
    <1>3. Keeps(h, j, g)
        BY <1>2, AlikeRefuses
    <1> QED
        BY <1>1, <1>3 DEF Keeps, Final, j, h

\* The OAMPDUs other than the Information OAMPDU.  A variable request is not
\* let in before the ONU may answer.
LEMMA OtherRefuse ==
    ASSUME NEW i \in Intf, NEW p \in RxPdu, NEW g, NEW w, NEW c, HInv(i, g, w, c)
    PROVE  /\ p.code = "EVENT" => Keeps(i, oam_proc_pdu_event(i, p), g)
           /\ p.code = "VAR_REQ" /\ i.local_pdu # "RX_INFO" =>
                Keeps(i, oam_proc_pdu_var_req(i), g)
           /\ p.code = "LOOPBACK" => Keeps(i, oam_proc_pdu_loopback(i, p), g)
    <1>1. ASSUME p.code = "EVENT"
          PROVE  Keeps(i, oam_proc_pdu_event(i, p), g)
        <2> DEFINE j == [i EXCEPT !.seq_num_last_rx = p.seq]
        <2>1. p.seq \in SeqRx
            BY <1>1, Sentinels DEF RxPdu
        <2>2. j \in Intf
            BY <2>1, Updates
        <2>3. Alike(i, j)
            BY DEF Intf, Alike, SameDisc, SameBudget
        <2>4. oam_proc_pdu_event(i, p) = IF p.fault THEN RemoteFault(j) ELSE j
            BY DEF oam_proc_pdu_event
        <2> HIDE DEF j
        <2>5. HInv(j, g, w, c)
            BY <2>2, <2>3, AlikeGood
        <2>6. Keeps(i, j, g)
            BY <2>3, AlikeRefuses DEF Alike
        <2>7. Keeps(j, RemoteFault(j), g)
            BY <2>2, <2>5, FaultRefuses
        <2> QED
            BY <2>4, <2>6, <2>7 DEF Keeps, Final
    <1>2. ASSUME i.local_pdu # "RX_INFO"
          PROVE  Keeps(i, oam_proc_pdu_var_req(i), g)
        <2> DEFINE r == oam_req_oampdu(i, "var_rsp", "frame")
        <2>1. Onward(i, r)
            BY RequestGood DEF PduFunc, PduParm
        <2>2. ASSUME ~g, Refusal(i, "done")
              PROVE  Refusal(r, "done")
            BY <1>2, <2>2, RequestRefuses DEF PduFunc, PduParm
        <2> HIDE DEF r
        <2>3. Keeps(i, r, g)
            BY <2>1, <2>2, MovesFinal DEF Onward, Keeps
        <2> QED
            BY <2>3 DEF oam_proc_pdu_var_req, r
    <1>3. ASSUME p.code = "LOOPBACK"
          PROVE  Keeps(i, oam_proc_pdu_loopback(i, p), g)
        <2> DEFINE j == [i EXCEPT !.lb_self = p.enable]
                   r == oam_req_oampdu(j, "info", "NULL")
        <2>1. p.enable \in BOOLEAN
            BY <1>3 DEF RxPdu
        <2>2. j \in Intf
            BY <2>1, Updates
        <2>3. Alike(i, j)
            BY DEF Intf, Alike, SameDisc, SameBudget
        <2>4. oam_proc_pdu_loopback(i, p) = IF p.enable = i.lb_self THEN i ELSE r
            BY DEF oam_proc_pdu_loopback
        <2> HIDE DEF j
        <2>5. HInv(j, g, w, c)
            BY <2>2, <2>3, AlikeGood
        <2>6. Keeps(i, j, g)
            BY <2>3, AlikeRefuses DEF Alike
        <2>7. Onward(j, r)
            BY <2>2, <2>5, RequestGood DEF PduFunc, PduParm
        <2>8. ASSUME ~g, Refusal(j, "done")
              PROVE  Refusal(r, "done")
            BY <2>2, <2>5, <2>8, RequestRefuses DEF PduFunc, PduParm
        <2> HIDE DEF r
        <2>9. Keeps(j, r, g)
            BY <2>7, <2>8, MovesFinal DEF Onward, Keeps
        <2>10. Keeps(i, i, g)
            BY DEF Keeps, Final
        <2> QED
            BY <2>4, <2>6, <2>9, <2>10 DEF Keeps, Final
    <1> QED
        BY <1>1, <1>2, <1>3

\* A received frame.
LEMMA ReceiveRefuses ==
    ASSUME NEW i \in Intf, NEW p \in RxPdu,
           NEW g, NEW w, NEW c, HInv(i, g, w, c), ~w, ~c
    PROVE  Keeps(i, oam_ind_oami(i, p), g)
    <1> DEFINE e == Enter(i)
               j == oam_start_local_lost_link_timer(oam_proc_hdr(e, p))
               a == oam_ind_oampdu(e, p)
               b == Return(a)
    <1>1. /\ e \in Intf /\ HInv(e, g, w, c) /\ Untouched(i, e)
          /\ e.pdu_func = i.pdu_func /\ SameBudget(i, e)
          /\ e.ext_status = i.ext_status
        BY EnterGood
    <1>2. oam_ind_oami(i, p) =
            IF oam_rx_rule_passed(i, p) /\ oam_proc_pdu_sanity(i, p) THEN b ELSE e
        BY DEF oam_ind_oami
    <1> HIDE DEF e
    <1>3. Keeps(i, e, g)
        BY <1>1, AlikeRefuses DEF Untouched
    <1>4. j \in Intf /\ HInv(j, g, w, c) /\ Flagged(e, p, j) /\ Keeps(e, j, g)
        BY <1>1, FlagsGood, FlagsRefuse
    <1>5. a = CASE p.code = "INFO"     -> oam_proc_pdu_info(j, p)
                [] p.code = "EVENT"    -> oam_proc_pdu_event(j, p)
                [] p.code = "VAR_REQ"  -> oam_proc_pdu_var_req(j)
                [] p.code = "LOOPBACK" -> oam_proc_pdu_loopback(j, p)
                [] OTHER               -> j
        BY DEF oam_ind_oampdu
    <1>6. a \in Intf
        BY <1>1, IndType
    <1> HIDE DEF j
    <1>7. ASSUME oam_rx_rule_passed(i, p)
          PROVE  Keeps(j, a, g)
        <2>1. CASE p.code = "INFO"
            <3>1. a = oam_proc_pdu_info(j, p)
                BY <1>5, <2>1
            <3> HIDE DEF a
            <3> QED
                BY <1>4, <2>1, <3>1, InfoRefuses
        <2>2. CASE p.code \in {"EVENT", "VAR_REQ", "LOOPBACK"}
            <3>1. /\ p.code = "EVENT" => a = oam_proc_pdu_event(j, p)
                  /\ p.code = "VAR_REQ" => a = oam_proc_pdu_var_req(j)
                  /\ p.code = "LOOPBACK" => a = oam_proc_pdu_loopback(j, p)
                BY <1>5
            <3> HIDE DEF a
            <3>2. j.local_pdu # "RX_INFO"
                BY <1>1, <1>4, <1>7, <2>2
                DEF oam_rx_rule_passed, Flagged, Untouched
            <3> QED
                BY <1>4, <2>2, <3>1, <3>2, OtherRefuse
        <2>3. CASE p.code \in {"ORG_SPEC", "PASSAVE_PING"}
            <3>1. a = j
                BY <1>5, <2>3
            <3> HIDE DEF a
            <3> QED
                BY <3>1 DEF Keeps, Final
        <2> QED
            BY <2>1, <2>2, <2>3 DEF RxPdu
    <1> HIDE DEF a
    <1>8. /\ SameBudget(a, b) /\ b.local_pdu = a.local_pdu
          /\ b.pdu_func = a.pdu_func /\ b.ext_status = a.ext_status
        BY <1>6 DEF Intf, Return, SameBudget
    <1> HIDE DEF b
    <1>9. Keeps(a, b, g)
        BY <1>8, AlikeRefuses
    <1>10. oam_rx_rule_passed(i, p) => Keeps(i, b, g)
        BY <1>3, <1>4, <1>7, <1>9 DEF Keeps, Final
    <1> QED
        BY <1>2, <1>3, <1>10

\* The one-second tick.
LEMMA TickRefuses ==
    ASSUME NEW i \in Intf, NEW g, NEW w, NEW c, HInv(i, g, w, c)
    PROVE  Keeps(i, oam_keep_alive(i), g)
    <1> DEFINE a == IF i.pdu_timer > 0 THEN i.pdu_timer - 1 ELSE i.pdu_timer
               b == i.pdu_timer_done \/ i.pdu_timer = 1
               l == IF i.local_lost_link_timer > 0
                    THEN i.local_lost_link_timer - 1
                    ELSE i.local_lost_link_timer
               j == [i EXCEPT !.pdu_timer = a, !.pdu_timer_done = b,
                              !.local_lost_link_timer = l]
               r == oam_keep_alive(i)
    <1>0. Onward(i, r)
        BY TickGood
    <1>1. a \in PduTicks /\ l \in LostTicks
        BY Fields, Ranges
    <1>2. b \in BOOLEAN /\ (b <=> i.pdu_timer = 1)
        BY DEF HInv
    <1>3. r = IF i.pdu_timer = 1 \/ i.local_lost_link_timer = 1
              THEN oam_sm_run(j) ELSE j
        BY Zenon DEF oam_keep_alive
    <1> HIDE DEF a, b, l
    <1>4. j \in Intf
        BY <1>1, <1>2, Updates
    <1>5. /\ Untouched(i, j) /\ j.pdu_timer_done = b
          /\ j.state_tx = i.state_tx /\ j.pdu_req = i.pdu_req
          /\ j.pdu_cnt = i.pdu_cnt /\ j.burst = i.burst
          /\ j.pdu_func = i.pdu_func /\ j.tx = i.tx
          /\ j.sent = i.sent /\ j.dropped = i.dropped
          /\ j.ext_status = i.ext_status
        BY DEF Intf, Untouched, SameDisc
    <1> HIDE DEF j, r
    <1>6. ASSUME Refusal(i, "done")
          PROVE  Refusal(r, "done")
        <2>1. /\ j.local_pdu = "RX_INFO" => Unspent(j)
              /\ j.local_pdu # "RX_INFO" /\ j.pdu_func # "NULL" => Posted(j)
              /\ j.local_pdu # "RX_INFO" /\ j.ext_status = "NACK" => Posted(j)
            BY <1>5, <1>6
            DEF Refusal, RefusalRuns, Unspent, Posted, Untouched
        <2>2. Refusal(j, "done") /\ RefusalRuns(j, "done")
            BY <2>1 DEF Refusal, RefusalRuns
        <2>3. CASE ~(i.pdu_timer = 1 \/ i.local_lost_link_timer = 1)
            BY <1>3, <2>2, <2>3
        <2>4. CASE i.pdu_timer = 1 \/ i.local_lost_link_timer = 1
            <3>1. Near(j) /\ j.state_disc # "FAULT" /\ Settled(j) /\ Mode(j)
                <4>1. Settled(j)
                    BY <1>4, <1>5, SettledSame DEF HInv, Untouched
                <4>2. Mode(j)
                    BY <1>5 DEF HInv, Mode, Untouched, SameDisc
                <4> QED
                    BY <1>4, <4>1, <4>2, SettledFacts
            <3>2. TrueFlags(j) /\ Spent(j)
                BY <1>5 DEF HInv, TrueFlags, Spent, Untouched
            <3>3. Budget(j, g)
                BY <1>5 DEF HInv, Budget, Untouched
            <3>4. SpokenTo(j, g) /\ Offers(j, c) /\ AboutToGo(j, g, w)
                BY <1>5 DEF HInv, SpokenTo, Offers, AboutToGo, Untouched
            <3>5. LInv(j, g, w, c) /\ ~j.runaway
                BY <1>5, <3>1, <3>2, <3>3, <3>4 DEF HInv, LInv, Settled, Untouched
            <3>6. InTurn(j, "done")
                BY <1>4, <3>1, SettledFacts DEF InTurn, Mode
            <3> QED
                BY <1>3, <1>4, <2>2, <2>4, <3>5, <3>6, RunRefuses
        <2> QED
            BY <2>3, <2>4
    <1> QED
        BY <1>0, <1>6, MovesFinal DEF Onward, Keeps, r

\* A registration begins with the whole budget and nothing to answer.
LEMMA RegisterRefuses ==
    ASSUME NEW i
    PROVE  Refusal(oam_enable(oam_intf_init(i)), "done")
    <1>0. PICK no \in BOOLEAN : no = FALSE
        OBVIOUS
    <1>1. PICK d \in Intf : /\ oam_enable(oam_intf_init(i)) = oam_sm_run(d)
                            /\ Fresh(d) /\ LInv(d, no, no, no)
        BY RegisterStarts
    <1>2. RefusalRuns(d, "done") /\ InTurn(d, "done") /\ ~d.runaway
        BY <1>1 DEF Fresh, RefusalRuns, Unspent, InTurn
    <1> QED
        BY <1>1, <1>2, RunRefuses

\* The poll of the link monitor sends past both machines.
LEMMA PollRefuses ==
    ASSUME NEW i \in Intf, NEW crossed \in BOOLEAN, NEW g
    PROVE  Keeps(i, [IF crossed /\ i.state_disc = "SEND_ANY"
                     THEN oam_send(Enter(i), oam_build_pdu_hdr(i, "EVENT"))
                     ELSE Enter(i)
                     EXCEPT !.local_critical_event = FALSE], g)
    <1> DEFINE e == Enter(i)
               s == oam_send(e, oam_build_pdu_hdr(i, "EVENT"))
               m == IF crossed /\ i.state_disc = "SEND_ANY" THEN s ELSE e
               r == [m EXCEPT !.local_critical_event = FALSE]
    <1>1. /\ SameBudget(i, r) /\ r.local_pdu = i.local_pdu
          /\ r.pdu_func = i.pdu_func /\ r.ext_status = i.ext_status
        BY DEF Intf, Enter, oam_send, SameBudget
    <1> HIDE DEF r
    <1> QED
        BY <1>1, AlikeRefuses DEF r

\* Both steps of a dying gasp leave a failed discovery failed.
LEMMA GaspFinal ==
    ASSUME NEW i \in Intf, NEW gasp \in BOOLEAN
    PROVE  LET j == [Enter(i) EXCEPT !.local_dying_gasp = gasp,
                                     !.local_critical_event = TRUE] IN
           /\ Final(i, j)
           /\ Final(i, oam_ctc_build_pdu_info(
                            oam_send(j, oam_build_pdu_hdr(j, "INFO"))))
    <1> DEFINE e == Enter(i)
               j == [e EXCEPT !.local_dying_gasp = gasp,
                              !.local_critical_event = TRUE]
               h == oam_build_pdu_hdr(j, "INFO")
               s == oam_send(j, h)
               r == oam_ctc_build_pdu_info(s)
    <1>1. e \in Intf /\ e.ext_status = i.ext_status
        BY EnterType DEF Intf, Enter
    <1> HIDE DEF e
    <1>2. j \in Intf /\ j.ext_status = i.ext_status
        <2>1. j \in Intf
            BY <1>1, Updates
        <2>2. j.ext_status = e.ext_status
            BY <1>1 DEF Intf
        <2> QED
            BY <1>1, <2>1, <2>2
    <1> HIDE DEF j
    <1>3. h \in TxPdu
        BY <1>2, HdrType
    <1> HIDE DEF h
    <1>4. s \in Intf /\ s.ext_status = j.ext_status
        <2>1. s \in Intf
            BY <1>2, <1>3, SendType
        <2>2. s.ext_status = j.ext_status
            BY <1>2 DEF Intf, oam_send
        <2> QED
            BY <2>1, <2>2
    <1> HIDE DEF s
    <1>5. Final(s, r)
        BY <1>4 DEF Final, Refused, oam_ctc_build_pdu_info, ExtToSend, Intf
    <1> HIDE DEF r
    <1> QED
        BY <1>2, <1>4, <1>5 DEF Final, r, s, h, j, e

\* No refusal stays behind between two handlers.
RInv == intf.valid /\ ~gasped => Refusal(intf, "done")

\* Every handler keeps it, and leaves a failed discovery failed.
LEMMA HandlersRefuse ==
    ASSUME TInv, [Next]_vars
    PROVE  /\ RInv => RInv'
           /\ Final(intf, intf') \/ ~intf'.ext_valid
    <1>0. PICK no \in BOOLEAN : no = FALSE
        OBVIOUS
    <1>1. /\ intf \in Intf /\ gasping \in BOOLEAN /\ gasped \in BOOLEAN
          /\ gasping => gasped
          /\ intf.valid => HInv(intf, gasped, no, no)
        BY <1>0 DEF TInv, TypeOK, HInv
    <1>2. ASSUME intf.valid, Keeps(intf, intf', gasped), gasped' = gasped
          PROVE  /\ RInv => RInv'
                 /\ Final(intf, intf') \/ ~intf'.ext_valid
        BY <1>2 DEF RInv, Keeps
    <1>3. CASE oam_llid_registration
        <2>1. intf' = oam_enable(oam_intf_init(intf))
            BY <1>3 DEF oam_llid_registration
        <2>2. ~intf'.ext_valid
            BY <1>0, <2>1, RegisterGood
        <2>3. Refusal(intf', "done")
            BY <2>1, RegisterRefuses
        <2> QED
            BY <2>2, <2>3 DEF RInv
    <1>4. CASE onu_pon_link_down_proc
        BY <1>4 DEF onu_pon_link_down_proc, ZeroIntf, RInv
    <1>5. CASE \E p \in OltPdus : Receive(p)
        <2>1. PICK p \in OltPdus : Receive(p)
            BY <1>5
        <2>2. /\ p \in RxPdu /\ intf.valid /\ gasped' = gasped
              /\ intf' = oam_ind_oami(intf, p)
            BY <2>1, OltPdusAssumption DEF Receive
        <2>3. Keeps(intf, intf', gasped)
            BY <1>0, <1>1, <2>2, ReceiveRefuses
        <2> QED
            BY <1>2, <2>2, <2>3
    <1>6. CASE oam_time_msg_proc
        <2> DEFINE e == Enter(intf)
        <2>1. intf.valid /\ gasped' = gasped /\ intf' = oam_keep_alive(e)
            BY <1>6 DEF oam_time_msg_proc
        <2>2. /\ e \in Intf /\ HInv(e, gasped, no, no) /\ Untouched(intf, e)
              /\ e.pdu_func = intf.pdu_func /\ SameBudget(intf, e)
              /\ e.ext_status = intf.ext_status
            BY <1>1, <2>1, EnterGood
        <2> HIDE DEF e
        <2>3. Keeps(intf, e, gasped)
            BY <2>2, AlikeRefuses DEF Untouched
        <2>4. Keeps(e, intf', gasped)
            BY <2>1, <2>2, TickRefuses
        <2> QED
            BY <1>2, <2>1, <2>3, <2>4 DEF Keeps, Final
    <1>7. CASE \E crossed \in BOOLEAN : oam_event_process_polling(crossed)
        <2>1. PICK crossed \in BOOLEAN : oam_event_process_polling(crossed)
            BY <1>7
        <2>2. /\ intf.valid /\ gasped' = gasped
              /\ intf' = [IF crossed /\ intf.state_disc = "SEND_ANY"
                          THEN oam_send(Enter(intf),
                                        oam_build_pdu_hdr(intf, "EVENT"))
                          ELSE Enter(intf)
                          EXCEPT !.local_critical_event = FALSE]
            BY <2>1 DEF oam_event_process_polling
        <2>3. Keeps(intf, intf', gasped)
            BY <1>1, <2>1, <2>2, PollRefuses
        <2> QED
            BY <1>2, <2>2, <2>3
    <1>8. CASE DyingGaspBegin
        <2>1. PICK yes \in BOOLEAN : yes = TRUE
            OBVIOUS
        <2> DEFINE j == [Enter(intf) EXCEPT !.local_dying_gasp = yes,
                                            !.local_critical_event = TRUE]
        <2>2. /\ gasped' = TRUE
              /\ intf' = oam_ctc_build_pdu_info(
                            oam_send(j, oam_build_pdu_hdr(j, "INFO")))
            BY <1>8, <2>1 DEF DyingGaspBegin
        <2>3. Final(intf, intf')
            BY <1>1, <2>2, GaspFinal
        <2> QED
            BY <2>2, <2>3 DEF RInv
    <1>9. CASE DyingGaspEnd
        <2>1. /\ gasping /\ gasped' = gasped
              /\ intf' = [Enter(intf) EXCEPT !.local_dying_gasp = no,
                                             !.local_critical_event = TRUE]
            BY <1>0, <1>9 DEF DyingGaspEnd
        <2>2. Final(intf, intf')
            BY <1>1, <2>1, GaspFinal
        <2> QED
            BY <1>1, <2>1, <2>2 DEF RInv
    <1>10. CASE UNCHANGED vars
        BY <1>10 DEF vars, RInv, Final
    <1> QED
        BY <1>3, <1>4, <1>5, <1>6, <1>7, <1>8, <1>9, <1>10 DEF Next

\* It is an invariant of the specification.
LEMMA AlwaysRInv == Spec => []RInv
    <1>1. Init => RInv
        BY DEF Init, RInv, ZeroIntf
    <1>2. TInv /\ RInv /\ [Next]_vars => RInv'
        BY HandlersRefuse
    <1> QED
        BY <1>1, <1>2, AlwaysTInv, PTL DEF Spec

\* A list of versions with nothing in common is refused at once and for good:
\* no handler but one of a dying gasp leaves NACK behind without a request
\* that is pending, and NOTSUPPORTED lasts until the next registration,
\* although oam_discovery_send gives up if a request is pending and
\* WAIT_FOR_TX drops one that finds no budget.
THEOREM RefusalIsFinal == Spec => ExtRefusalFinal
    <1> DEFINE A == /\ ~gasped' /\ intf'.pdu_func = "NULL"
                            /\ intf'.local_pdu # "RX_INFO"
                        => intf'.ext_status # "NACK"
                    /\ intf.ext_status = "NOTSUPPORTED" =>
                        \/ intf'.ext_status \in {"NOTSUPPORTED", "NACK"}
                        \/ ~intf'.ext_valid
    <1>1. ASSUME TInv, TInv', RInv', [Next]_vars
          PROVE  A
        <2>1. Final(intf, intf') \/ ~intf'.ext_valid
            BY <1>1, HandlersRefuse
        <2>2. ASSUME ~gasped', intf'.pdu_func = "NULL",
                     intf'.local_pdu # "RX_INFO"
              PROVE  intf'.ext_status # "NACK"
            <3>1. intf'.valid
                <4>1. ZeroIntf.local_pdu = "RX_INFO"
                    BY DEF ZeroIntf
                <4> QED
                    BY <1>1, <2>2, <4>1 DEF TInv
            <3> QED
                BY <1>1, <2>2, <3>1
                DEF RInv, Refusal, RefusalRuns, Posted
        <2> QED
            BY <2>1, <2>2 DEF Final, Refused
    <1>2. TInv /\ TInv' /\ RInv' /\ [Next]_vars => [A]_vars
        BY <1>1
    <1> QED
        BY <1>2, AlwaysTInv, AlwaysRInv, PTL DEF Spec, ExtRefusalFinal

=============================================================================
