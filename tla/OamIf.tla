------------------------------- MODULE OamIf -------------------------------
(***************************************************************************)
(* One 802.3ah OAM interface of the ONU: the record oam_if_t and the       *)
(* functions that read and write it.                                       *)
(*                                                                         *)
(*   oam_control.c     discovery machine, transmit machine, oam_sm_run     *)
(*   oam_client.c      building and processing of OAMPDUs                  *)
(*   oam_ctc_client.c  China Telecom (CTC) extended discovery              *)
(*                                                                         *)
(* Every C function that changes the interface is an operator from the     *)
(* record before the call to the record after it, under the name it has in *)
(* C.  All of them run in the single application thread (app_thread), so a *)
(* handler is one application of such an operator.                         *)
(*                                                                         *)
(* Left out because no reachable state of this build distinguishes them:   *)
(* local_link_status (oam_intf_init sets OK and no caller of               *)
(* oam_req_oam_ctl passes its mask), local_oam_mode (always PASSIVE),      *)
(* lb_state_peer (always NORM), d2_compatible and disable_oampdu_limit     *)
(* (always 0), local_lost_link_timer_done (its only assignment to TRUE is  *)
(* under #if 0 in oam_timer.c), reply (read only where no vendor hook is   *)
(* registered), oam_len_check (always FALSE).  remote_flags and the copies *)
(* of the peer's TLV are echoed to the peer and steer nothing here.        *)
(***************************************************************************)
EXTENDS Naturals, Sequences

CONSTANTS
    PktCount,     \* OAM_PKT_COUNT_PER_SECOND, 100 in the code
    PduTimer,     \* OAM_PDU_TIMER, 1 second in the code
    LinkLost,     \* OAM_LINK_LOST_TIMER, 5 seconds in the code
    Revs,         \* revisions an OLT puts in its Information TLV
    NoRev,        \* the initial value 0xffff of revision_last_rx
    Seqs,         \* sequence numbers an OLT puts in its Event OAMPDUs
    NoSeq,        \* the initial value 0xffff of seq_num_last_rx
    Version,      \* CTC versions a TLV can carry
    VerList       \* g_ctc_ver_list, in the order oam_org_init fills it

ASSUME PktCountAssumption == PktCount \in Nat \ {0}
ASSUME PduTimerAssumption == PduTimer \in Nat \ {0}
ASSUME LinkLostAssumption == LinkLost \in Nat \ {0}
ASSUME VerListAssumption  == VerList \in Seq(Version)

(***************************************************************************)
(* Types                                                                   *)
(***************************************************************************)
DiscState == {"FAULT", "PASSIVE_WAIT", "SEND_LOCAL_REMOTE",
              "SEND_LOCAL_REMOTE_OK", "SEND_ANY"}
TxState   == {"RESET", "WAIT_FOR_TX", "DEC_PDU_CNT", "TX_OAMPDU"}
PduReq    == {"NONE", "CRITICAL", "NORMAL"}
LocalPdu  == {"RX_INFO", "INFO", "ANY"}
ExtStatus == {"SEND_WAIT", "INFO_RCV", "INFO_SNT", "ACK_RCV", "COMPLETED",
              "NACK", "NOTSUPPORTED"}
NoVersion == "NoVersion"
PduFunc   == {"NULL", "info", "var_rsp"}
PduCount  == 0 .. PktCount
PduTicks  == 0 .. PduTimer
LostTicks == 0 .. LinkLost
Burst     == 0 .. PktCount + 1
RevRx     == Revs \cup {NoRev}
SeqRx     == Seqs \cup {NoSeq}
ExtVer    == Version \cup {NoVersion}

\* pdu_parm: no parameter, a parameter in the stack frame of the handler that
\* is running, or one in the frame of a handler that has returned.
PduParm   == {"NULL", "frame", "returned"}

\* The organisation specific TLV of a received Information OAMPDU: none, a
\* short one (support and version) or a long one (a list of versions).
ExtTlv == [kind : {"none"}] \cup
          [kind : {"short"}, support : BOOLEAN, ver : Version] \cup
          [kind : {"list"}, vers : SUBSET Version]

\* A received OAMPDU.  fault: LINK_FAULT or DYING_GASP is flagged; active: the
\* sender's oam_config has the OAM_MODE bit; good: version and maximum size
\* of the sender are acceptable.
RxPdu == [code : {"INFO"}, eval : BOOLEAN, stable : BOOLEAN, fault : BOOLEAN,
             rev : Revs, good : BOOLEAN, active : BOOLEAN, ext : ExtTlv] \cup
         [code : {"EVENT"}, eval : BOOLEAN, stable : BOOLEAN, fault : BOOLEAN,
             seq : Seqs] \cup
         [code : {"VAR_REQ"}, eval : BOOLEAN, stable : BOOLEAN] \cup
         [code : {"LOOPBACK"}, eval : BOOLEAN, stable : BOOLEAN,
             enable : BOOLEAN] \cup
         [code : {"ORG_SPEC", "PASSAVE_PING"}, eval : BOOLEAN,
             stable : BOOLEAN]

\* A transmitted OAMPDU.  ext: the CTC TLV of an Information OAMPDU.  fresh:
\* the parameter it was built from was still in a live stack frame.
\* local_stable and any: the state of the discovery machine at that moment.
TxPdu == [code : {"INFO", "VAR_RSP", "EVENT"}, eval : BOOLEAN,
          stable : BOOLEAN, critical : BOOLEAN, fault : BOOLEAN,
          ext : {"none", "list", "ack", "nack"}, fresh : BOOLEAN,
          local_stable : BOOLEAN, any : BOOLEAN]

\* oam_if_t.  The fields after ext_version are history: the OAMPDUs the
\* current handler sent; whether an OAMPDU was sent, or dropped by the
\* transmit rule, since the transmit machine was last reset; how many
\* OAMPDUs used up the transmit budget since then; whether a run of the two
\* machines was cut off by the bound on its passes.
Intf == [valid : BOOLEAN, BEGIN : BOOLEAN,
         state_disc : DiscState, state_tx : TxState,
         local_critical_event : BOOLEAN, local_dying_gasp : BOOLEAN,
         local_satisfied : BOOLEAN, local_stable : BOOLEAN,
         remote_state_valid : BOOLEAN, remote_stable : BOOLEAN,
         local_pdu : LocalPdu,
         pdu_cnt : PduCount, pdu_req : PduReq,
         pdu_timer : PduTicks, pdu_timer_done : BOOLEAN,
         local_lost_link_timer : LostTicks,
         revision_last_rx : RevRx,
         seq_num_last_rx : SeqRx,
         remote_active : BOOLEAN, lb_self : BOOLEAN,
         pdu_func : PduFunc, pdu_parm : PduParm,
         ext_status : ExtStatus, ext_valid : BOOLEAN,
         ext_version : ExtVer,
         tx : Seq(TxPdu), sent : BOOLEAN, dropped : BOOLEAN,
         burst : Burst, runaway : BOOLEAN]

(***************************************************************************)
(* Timers                                                                  *)
(***************************************************************************)
oam_start_pdu_timer(i) ==
    [i EXCEPT !.pdu_timer = PduTimer, !.pdu_timer_done = FALSE]

oam_start_local_lost_link_timer(i) ==
    [i EXCEPT !.local_lost_link_timer = LinkLost]

(***************************************************************************)
(* CTC extended discovery: what an Information OAMPDU that is being built  *)
(* carries, and how building it advances the status.                       *)
(***************************************************************************)
ExtToSend(i) ==
    IF ~i.ext_valid THEN "none"
    ELSE CASE i.ext_status = "INFO_RCV" -> "list"
           [] i.ext_status = "ACK_RCV"  -> "ack"
           [] i.ext_status = "NACK"     -> "nack"
           [] OTHER                     -> "none"

oam_ctc_build_pdu_info(i) ==
    [i EXCEPT !.ext_status =
        CASE ExtToSend(i) = "list" -> "INFO_SNT"
          [] ExtToSend(i) = "ack"  -> "COMPLETED"
          [] ExtToSend(i) = "nack" -> "NOTSUPPORTED"
          [] OTHER                 -> @]

(***************************************************************************)
(* Building and sending                                                    *)
(***************************************************************************)
oam_build_pdu_hdr(i, code) ==
    [code |-> code, eval |-> ~i.remote_state_valid,
     stable |-> i.remote_state_valid /\ i.local_satisfied,
     critical |-> i.local_critical_event, fault |-> i.local_dying_gasp,
     ext |-> IF code = "INFO" THEN ExtToSend(i) ELSE "none",
     fresh |-> code # "VAR_RSP" \/ i.pdu_parm = "frame",
     local_stable |-> i.local_stable, any |-> i.local_pdu = "ANY"]

oam_send(i, p) == [i EXCEPT !.tx = Append(@, p), !.sent = TRUE]

\* oam_tx_by_rule.  local_pdu RX_INFO leaves the request where it is.
oam_tx_by_rule(i) ==
    IF i.pdu_func = "NULL" \/ i.local_pdu = "RX_INFO" THEN i
    ELSE IF i.local_pdu = "INFO" /\ i.pdu_func # "info"
    THEN [i EXCEPT !.pdu_func = "NULL", !.pdu_parm = "NULL", !.dropped = TRUE]
    ELSE IF i.pdu_func = "info"
    THEN [oam_ctc_build_pdu_info(oam_send(i, oam_build_pdu_hdr(i, "INFO")))
            EXCEPT !.pdu_func = "NULL"]
    ELSE [oam_send(i, oam_build_pdu_hdr(i, "VAR_RSP"))
            EXCEPT !.pdu_func = "NULL"]

(***************************************************************************)
(* Discovery machine                                                       *)
(***************************************************************************)
oam_sm_disc_into_fault(i) ==
    [oam_start_local_lost_link_timer(i) EXCEPT
        !.state_disc = "FAULT", !.local_pdu = "RX_INFO",
        !.local_satisfied = FALSE, !.local_stable = FALSE,
        !.remote_stable = FALSE, !.remote_state_valid = FALSE,
        !.seq_num_last_rx = NoSeq, !.revision_last_rx = NoRev]

\* Mutant: the passive ONU speaks first.
Mut_SpeaksFirst(i) ==
    [i EXCEPT !.state_disc = "PASSIVE_WAIT", !.local_pdu = "INFO"]

oam_sm_disc_into_passive_wait(i) ==
    [i EXCEPT !.state_disc = "PASSIVE_WAIT", !.local_pdu = "RX_INFO"]

oam_sm_disc_into_send_local_remote(i) ==
    [i EXCEPT !.state_disc = "SEND_LOCAL_REMOTE", !.local_pdu = "INFO",
              !.local_stable = FALSE]

\* Mutant: local_stable is not raised.
Mut_NoLocalStable(i) ==
    [i EXCEPT !.state_disc = "SEND_LOCAL_REMOTE_OK", !.local_pdu = "INFO"]

oam_sm_disc_into_send_local_remote_ok(i) ==
    [i EXCEPT !.state_disc = "SEND_LOCAL_REMOTE_OK", !.local_pdu = "INFO",
              !.local_stable = TRUE]

oam_sm_disc_into_send_any(i) ==
    [i EXCEPT !.state_disc = "SEND_ANY", !.local_pdu = "ANY"]

oam_sm_disc_transition(i) ==
    CASE i.BEGIN ->
            oam_sm_disc_into_fault(i)
      [] ~i.BEGIN /\ i.state_disc = "FAULT" ->
            oam_sm_disc_into_passive_wait(i)
      [] ~i.BEGIN /\ i.state_disc = "PASSIVE_WAIT" /\ i.remote_state_valid ->
            oam_sm_disc_into_send_local_remote(i)
      [] ~i.BEGIN /\ i.state_disc = "SEND_LOCAL_REMOTE" /\ i.local_satisfied ->
            oam_sm_disc_into_send_local_remote_ok(i)
      [] ~i.BEGIN /\ i.state_disc \in {"SEND_LOCAL_REMOTE_OK", "SEND_ANY"}
                  /\ ~i.local_satisfied ->
            oam_sm_disc_into_send_local_remote(i)
      [] ~i.BEGIN /\ i.state_disc = "SEND_LOCAL_REMOTE_OK"
                  /\ i.local_satisfied /\ i.remote_stable ->
            oam_sm_disc_into_send_any(i)
      [] ~i.BEGIN /\ i.state_disc = "SEND_ANY"
                  /\ i.local_satisfied /\ ~i.remote_stable ->
            oam_sm_disc_into_send_local_remote_ok(i)
      [] OTHER -> i

(***************************************************************************)
(* Transmit machine                                                        *)
(***************************************************************************)
oam_sm_tx_into_reset(i) ==
    [oam_start_pdu_timer(i) EXCEPT
        !.state_tx = "RESET", !.pdu_cnt = PktCount,
        !.sent = FALSE, !.dropped = FALSE, !.burst = 0]

oam_sm_tx_into_wait_for_tx(i) == [i EXCEPT !.state_tx = "WAIT_FOR_TX"]

oam_sm_tx_into_dec_pdu_cnt(i) ==
    [i EXCEPT !.state_tx = "DEC_PDU_CNT",
              !.pdu_cnt = IF i.pdu_req = "NORMAL" /\ @ # 0 THEN @ - 1 ELSE @]

oam_sm_tx_into_tx_oampdu(i) ==
    oam_tx_by_rule([i EXCEPT !.state_tx = "TX_OAMPDU"])

\* Mutant: the budget is not consulted.
Mut_NoBudget(i) ==
    \/ i.local_pdu # "RX_INFO" /\ i.pdu_req = "NORMAL"
    \/ i.local_pdu = "ANY" /\ i.pdu_req = "CRITICAL"

MayTransmit(i) ==
    \/ i.local_pdu # "RX_INFO" /\ i.pdu_req = "NORMAL" /\ i.pdu_cnt # 0
    \/ i.local_pdu = "ANY" /\ i.pdu_req = "CRITICAL"

\* Mutants: a request over budget stays queued; the keep-alive is sent in
\* SEND_ANY only.
Mut_RequestStays(i) ==
    IF i.pdu_timer_done
    THEN IF i.local_pdu = "RX_INFO" \/ i.pdu_cnt # PktCount
         THEN oam_sm_tx_into_reset(i)
         ELSE oam_sm_tx_into_tx_oampdu(
                [i EXCEPT !.pdu_func = "info", !.pdu_parm = "NULL"])
    ELSE IF MayTransmit(i) THEN oam_sm_tx_into_dec_pdu_cnt(i)
    ELSE i

Mut_KeepAliveInAny(i) ==
    IF i.pdu_timer_done
    THEN IF i.local_pdu # "ANY" \/ i.pdu_cnt # PktCount
         THEN oam_sm_tx_into_reset(i)
         ELSE oam_sm_tx_into_tx_oampdu(
                [i EXCEPT !.pdu_func = "info", !.pdu_parm = "NULL"])
    ELSE IF MayTransmit(i) THEN oam_sm_tx_into_dec_pdu_cnt(i)
    ELSE IF i.pdu_req = "NORMAL" THEN [i EXCEPT !.pdu_func = "NULL"]
    ELSE i

\* WAIT_FOR_TX: timer expired, transmit, drop, or stay.
WaitForTx(i) ==
    IF i.pdu_timer_done
    THEN IF i.local_pdu = "RX_INFO" \/ i.pdu_cnt # PktCount
         THEN oam_sm_tx_into_reset(i)
         ELSE oam_sm_tx_into_tx_oampdu(
                [i EXCEPT !.pdu_func = "info", !.pdu_parm = "NULL"])
    ELSE IF MayTransmit(i) THEN oam_sm_tx_into_dec_pdu_cnt(i)
    ELSE IF i.pdu_req = "NORMAL" THEN [i EXCEPT !.pdu_func = "NULL"]
    ELSE i

\* History: the OAMPDUs that left through DEC_PDU_CNT in this period.
CountBurst(i, j) ==
    IF j.tx # i.tx /\ i.burst <= PktCount
    THEN [j EXCEPT !.burst = i.burst + 1] ELSE j

\* Mutant: pdu_req survives WAIT_FOR_TX.
Mut_RequestNotCleared(i) ==
    CASE i.BEGIN -> oam_sm_tx_into_reset(i)
      [] ~i.BEGIN /\ i.state_tx = "RESET" -> oam_sm_tx_into_wait_for_tx(i)
      [] ~i.BEGIN /\ i.state_tx = "WAIT_FOR_TX" -> WaitForTx(i)
      [] ~i.BEGIN /\ i.state_tx = "DEC_PDU_CNT" ->
            CountBurst(i, oam_sm_tx_into_tx_oampdu(i))
      [] ~i.BEGIN /\ i.state_tx = "TX_OAMPDU" ->
            IF i.pdu_timer_done THEN oam_sm_tx_into_reset(i)
            ELSE oam_sm_tx_into_wait_for_tx(i)

oam_sm_tx_transition(i) ==
    CASE i.BEGIN -> oam_sm_tx_into_reset(i)
      [] ~i.BEGIN /\ i.state_tx = "RESET" -> oam_sm_tx_into_wait_for_tx(i)
      [] ~i.BEGIN /\ i.state_tx = "WAIT_FOR_TX" ->
            [WaitForTx(i) EXCEPT !.pdu_req = "NONE"]
      [] ~i.BEGIN /\ i.state_tx = "DEC_PDU_CNT" ->
            CountBurst(i, oam_sm_tx_into_tx_oampdu(i))
      [] ~i.BEGIN /\ i.state_tx = "TX_OAMPDU" ->
            IF i.pdu_timer_done THEN oam_sm_tx_into_reset(i)
            ELSE oam_sm_tx_into_wait_for_tx(i)

(***************************************************************************)
(* oam_sm_run repeats a pass over both machines while one of them moved.   *)
(* SmPass is the loop body, on an interface and the loop condition; twelve *)
(* of them are more than any run takes, which runaway records.             *)
(***************************************************************************)
SmPass(s) ==
    IF ~s.moved THEN s
    ELSE LET j == oam_sm_tx_transition(oam_sm_disc_transition(s.intf))
         IN  [intf  |-> j,
              moved |-> \/ j.state_disc # s.intf.state_disc
                        \/ j.state_tx # s.intf.state_tx]

SmPass4(s) == SmPass(SmPass(SmPass(SmPass(s))))

oam_sm_run(i) ==
    LET r == SmPass4(SmPass4(SmPass4([intf |-> i, moved |-> TRUE])))
    IN  [r.intf EXCEPT !.runaway = @ \/ r.moved]

(***************************************************************************)
(* Requests to the control sublayer                                        *)
(***************************************************************************)
RequestClass(i) ==
    IF i.local_dying_gasp \/ i.local_critical_event
    THEN "CRITICAL" ELSE "NORMAL"

\* A request is classified first; an earlier one that is still pending wins.
oam_req_oampdu(i, func, parm) ==
    LET j == [i EXCEPT !.pdu_req = RequestClass(i)]
    IN  IF i.pdu_func # "NULL" THEN j
        ELSE oam_sm_run([j EXCEPT !.pdu_func = func, !.pdu_parm = parm])

\* The same request, handed to the transmit rule directly.
oam_discovery_send(i, func, parm) ==
    LET j == [i EXCEPT !.pdu_req = RequestClass(i)]
    IN  IF i.pdu_func # "NULL" THEN j
        ELSE oam_tx_by_rule([j EXCEPT !.pdu_func = func, !.pdu_parm = parm])

\* Mutant: a change of remote_stable alone does not run the machines.
Mut_StableWithoutRun(i, satisfied, state_valid, stable) ==
    LET j == [i EXCEPT !.local_satisfied = satisfied,
                       !.remote_state_valid = state_valid,
                       !.remote_stable = stable]
    IN  IF \/ satisfied # i.local_satisfied
           \/ state_valid # i.remote_state_valid
        THEN oam_sm_run(j) ELSE j

\* oam_req_oam_ctl for the fields its callers mask in.  A field that is not
\* masked in is passed with the value it already has: the code compares before
\* it assigns, so both leave it alone.  The mux and parser actions follow
\* lb_self and are modelled with the data path in OamLoopback.
oam_req_oam_ctl(i, satisfied, state_valid, stable) ==
    LET j == [i EXCEPT !.local_satisfied = satisfied,
                       !.remote_state_valid = state_valid,
                       !.remote_stable = stable]
    IN  IF \/ satisfied # i.local_satisfied
           \/ state_valid # i.remote_state_valid
           \/ stable # i.remote_stable
        THEN oam_sm_run(j) ELSE j

oam_disable(i) == oam_sm_run([i EXCEPT !.BEGIN = TRUE])

oam_enable(i) == oam_sm_run([i EXCEPT !.BEGIN = FALSE])

\* oam_intf_init: memset, the fields that are not 0, oam_disable.
ZeroIntf ==
    [valid |-> FALSE, BEGIN |-> FALSE, state_disc |-> "FAULT",
     state_tx |-> "RESET", local_critical_event |-> FALSE,
     local_dying_gasp |-> FALSE, local_satisfied |-> FALSE,
     local_stable |-> FALSE, remote_state_valid |-> FALSE,
     remote_stable |-> FALSE, local_pdu |-> "RX_INFO",
     pdu_cnt |-> 0, pdu_req |-> "NONE", pdu_timer |-> 0,
     pdu_timer_done |-> FALSE, local_lost_link_timer |-> 0,
     revision_last_rx |-> NoRev, seq_num_last_rx |-> NoSeq,
     remote_active |-> FALSE, lb_self |-> FALSE, pdu_func |-> "NULL",
     pdu_parm |-> "NULL", ext_status |-> "SEND_WAIT", ext_valid |-> FALSE,
     ext_version |-> NoVersion, tx |-> <<>>, sent |-> FALSE,
     dropped |-> FALSE, burst |-> 0, runaway |-> FALSE]

oam_intf_init(i) == oam_disable([ZeroIntf EXCEPT !.valid = TRUE])

(***************************************************************************)
(* CTC extended discovery: a received organisation specific TLV            *)
(***************************************************************************)
\* The version chosen from a list: the first of g_ctc_ver_list it contains.
Matched(vers) == {k \in 1 .. Len(VerList) : VerList[k] \in vers}

\* Mutant: the ONU's first version, whatever the peer has.
Mut_OwnFirst(vers) == VerList[1]

ChosenVersion(vers) ==
    VerList[CHOOSE k \in Matched(vers) : \A m \in Matched(vers) : k <= m]

\* Mutant: any TLV restarts a refused discovery.
Mut_RestartRefused(status) ==
    CASE status = "INFO_SNT" -> "ACK_RCV"
      [] OTHER               -> "INFO_RCV"

\* Mutant: an offer does not restart a completed discovery.
Mut_CompletedStays(status) ==
    CASE status = "SEND_WAIT" -> "INFO_RCV"
      [] status = "INFO_SNT"  -> "ACK_RCV"
      [] OTHER                -> status

\* Where a TLV the ONU supports takes the status.
ExtAdvance(status) ==
    CASE status \in {"SEND_WAIT", "COMPLETED"} -> "INFO_RCV"
      [] status = "INFO_SNT"                   -> "ACK_RCV"
      [] OTHER                                 -> status

ExtShort(i, tlv) ==
    IF ~i.ext_valid THEN i
    ELSE [i EXCEPT !.ext_status = IF tlv.support THEN ExtAdvance(@)
                                  ELSE "NOTSUPPORTED",
                   !.ext_version = tlv.ver]

ExtList(i, tlv) ==
    IF Matched(tlv.vers) = {}
    THEN [i EXCEPT !.ext_valid = TRUE, !.ext_status = "NACK"]
    ELSE [i EXCEPT !.ext_valid = TRUE, !.ext_status = ExtAdvance(@),
                   !.ext_version = ChosenVersion(tlv.vers)]

\* Mutant: the reply to a short TLV is left to the transmit machine.
Mut_ShortNotAnswered(i, tlv) ==
    CASE tlv.kind = "none"  -> i
      [] tlv.kind = "short" -> ExtShort(i, tlv)
      [] tlv.kind = "list"  -> oam_discovery_send(ExtList(i, tlv), "info",
                                                  "NULL")

oam_ctc_proc_pdu_info(i, tlv) ==
    IF tlv.kind = "none" THEN i
    ELSE oam_discovery_send(IF tlv.kind = "short" THEN ExtShort(i, tlv)
                            ELSE ExtList(i, tlv), "info", "NULL")

(***************************************************************************)
(* Processing of received OAMPDUs                                          *)
(***************************************************************************)
oam_proc_pdu_sanity(i, p) ==
    /\ ~(p.eval /\ p.stable)
    /\ p.code = "EVENT" => p.seq # i.seq_num_last_rx
    /\ p.code \in {"VAR_REQ", "LOOPBACK"} => i.remote_active

oam_rx_rule_passed(i, p) == i.local_pdu = "ANY" \/ p.code = "INFO"

\* remote_stable follows the flags of every OAMPDU but the vendors' own.
oam_proc_hdr(i, p) ==
    IF p.code \in {"ORG_SPEC", "PASSAVE_PING"} THEN i
    ELSE oam_req_oam_ctl(i, i.local_satisfied, i.remote_state_valid, p.stable)

\* LINK_FAULT or DYING_GASP in an Information or Event OAMPDU.
RemoteFault(i) == oam_req_oam_ctl(i, FALSE, FALSE, i.remote_stable)

\* Mutant: a TLV is processed whatever its revision.
Mut_IgnoreRevision(i, p) ==
    IF p.fault THEN RemoteFault(i)
    ELSE oam_ctc_proc_pdu_info(
            oam_req_oam_ctl([i EXCEPT !.revision_last_rx = p.rev,
                                      !.remote_active = p.active],
                            p.good, TRUE, i.remote_stable), p.ext)

\* The vendor hook is registered in this build, so a TLV whose revision did
\* not change goes to it and nowhere else.
oam_proc_pdu_info(i, p) ==
    IF p.fault THEN RemoteFault(i)
    ELSE IF p.rev = i.revision_last_rx THEN oam_ctc_proc_pdu_info(i, p.ext)
    ELSE LET reply == i.local_pdu = "RX_INFO"
                        \/ (i.remote_stable /\ i.local_pdu # "ANY")
             j == oam_req_oam_ctl([i EXCEPT !.revision_last_rx = p.rev,
                                            !.remote_active = p.active],
                                  p.good, TRUE, i.remote_stable)
             k == IF reply THEN oam_req_oampdu(j, "info", "NULL") ELSE j
         IN  oam_ctc_proc_pdu_info(k, p.ext)

oam_proc_pdu_event(i, p) ==
    LET j == [i EXCEPT !.seq_num_last_rx = p.seq]
    IN  IF p.fault THEN RemoteFault(j) ELSE j

oam_proc_pdu_var_req(i) == oam_req_oampdu(i, "var_rsp", "frame")

oam_proc_pdu_loopback(i, p) ==
    IF p.enable = i.lb_self THEN i
    ELSE oam_req_oampdu([i EXCEPT !.lb_self = p.enable], "info", "NULL")

\* Vendor OAMPDUs are answered through oam_send by handlers that leave the
\* fields of this record alone; no handler is registered for PASSAVE_PING.
oam_ind_oampdu(i, p) ==
    LET j == oam_start_local_lost_link_timer(oam_proc_hdr(i, p))
    IN  CASE p.code = "INFO"     -> oam_proc_pdu_info(j, p)
          [] p.code = "EVENT"    -> oam_proc_pdu_event(j, p)
          [] p.code = "VAR_REQ"  -> oam_proc_pdu_var_req(j)
          [] p.code = "LOOPBACK" -> oam_proc_pdu_loopback(j, p)
          [] OTHER               -> j

\* Entering a handler starts its transcript; returning from it leaves a
\* parameter that is still pending in a stack frame that no longer exists.
Enter(i) == [i EXCEPT !.tx = <<>>]

Return(i) == [i EXCEPT !.pdu_parm = IF @ = "frame" THEN "returned" ELSE @]

oam_ind_oami(i, p) ==
    IF oam_rx_rule_passed(i, p) /\ oam_proc_pdu_sanity(i, p)
    THEN Return(oam_ind_oampdu(Enter(i), p))
    ELSE Enter(i)

\* Mutant: the lost-link timer is decremented past zero.
Mut_TimerUnderflow(i) ==
    LET pduExpired == i.pdu_timer = 1
        lost       == i.local_lost_link_timer = 1
        j == [i EXCEPT
                !.pdu_timer = IF @ > 0 THEN @ - 1 ELSE @,
                !.pdu_timer_done = @ \/ pduExpired,
                !.local_lost_link_timer = @ - 1]
    IN  IF pduExpired \/ lost THEN oam_sm_run(j) ELSE j

(***************************************************************************)
(* oam_keep_alive, once a second: both timers of the interface, then the   *)
(* machines if one of them expired.                                        *)
(***************************************************************************)
oam_keep_alive(i) ==
    LET pduExpired == i.pdu_timer = 1
        lost       == i.local_lost_link_timer = 1
        j == [i EXCEPT
                !.pdu_timer = IF @ > 0 THEN @ - 1 ELSE @,
                !.pdu_timer_done = @ \/ pduExpired,
                !.local_lost_link_timer = IF @ > 0 THEN @ - 1 ELSE @]
    IN  IF pduExpired \/ lost THEN oam_sm_run(j) ELSE j
=============================================================================
