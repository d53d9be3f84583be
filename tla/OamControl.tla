---------------------------- MODULE OamControl ----------------------------
(***************************************************************************)
(* The OAM sublayer of the ONU's LLID: the application thread runs one     *)
(* handler at a time on the interface, in whatever order app_msg_q         *)
(* delivers registration events, frames and timer messages; the power-fail *)
(* path oam_send_dying_gasp runs in another thread, beside it.             *)
(***************************************************************************)
EXTENDS OamIf

CONSTANT OltPdus    \* the OAMPDUs the OLT may send
ASSUME OltPdusAssumption == OltPdus \subseteq RxPdu

VARIABLES
    intf,     \* the interface of the ONU's LLID
    gasping,  \* oam_send_dying_gasp is between its first and last assignment
    gasped    \* history: it has started since the interface was initialised

vars == <<intf, gasping, gasped>>

Init == intf = ZeroIntf /\ gasping = FALSE /\ gasped = FALSE

\* EPON_EVENT_REG_CHANGE, registered: whatever the interface was doing, it
\* starts afresh.
oam_llid_registration ==
    /\ intf' = oam_enable(oam_intf_init(intf))
    /\ gasped' = gasping
    /\ UNCHANGED gasping

\* EPON_EVENT_REG_CHANGE, deregistered: onu_pon_link_down_proc is an earlier
\* handler of the event and resets the board.
onu_pon_link_down_proc ==
    /\ intf.valid
    /\ intf' = ZeroIntf
    /\ gasping' = FALSE
    /\ gasped' = FALSE

\* A frame from the OLT.
Receive(p) ==
    /\ intf.valid
    /\ intf' = oam_ind_oami(intf, p)
    /\ UNCHANGED <<gasping, gasped>>

oam_time_msg_proc ==
    /\ intf.valid
    /\ intf' = oam_keep_alive(Enter(intf))
    /\ UNCHANGED <<gasping, gasped>>

\* The poll of the link monitor: an Event OAMPDU goes straight to oam_send in
\* SEND_ANY when a threshold was crossed.  The buffer manager's status, which
\* is FALSE in this build, becomes the critical event flag.
oam_event_process_polling(crossed) ==
    /\ intf.valid
    /\ intf' = [IF crossed /\ intf.state_disc = "SEND_ANY"
                THEN oam_send(Enter(intf), oam_build_pdu_hdr(intf, "EVENT"))
                ELSE Enter(intf)
                EXCEPT !.local_critical_event = FALSE]
    /\ UNCHANGED <<gasping, gasped>>

\* oam_send_dying_gasp builds and sends its OAMPDU beside the application
\* thread, whatever the discovery state is ...
DyingGaspBegin ==
    /\ intf.valid /\ ~gasping
    /\ LET i == [Enter(intf) EXCEPT !.local_dying_gasp = TRUE,
                                    !.local_critical_event = TRUE]
       IN  intf' = oam_ctc_build_pdu_info(
                        oam_send(i, oam_build_pdu_hdr(i, "INFO")))
    /\ gasping' = TRUE
    /\ gasped' = TRUE

\* ... and leaves the critical event flag set.
DyingGaspEnd ==
    /\ gasping
    /\ intf' = [Enter(intf) EXCEPT !.local_dying_gasp = FALSE,
                                   !.local_critical_event = TRUE]
    /\ gasping' = FALSE
    /\ UNCHANGED gasped

Next ==
    \/ oam_llid_registration
    \/ onu_pon_link_down_proc
    \/ \E p \in OltPdus : Receive(p)
    \/ oam_time_msg_proc
    \/ \E crossed \in BOOLEAN : oam_event_process_polling(crossed)
    \/ DyingGaspBegin
    \/ DyingGaspEnd

Spec == Init /\ [][Next]_vars

(***************************************************************************)
(* Properties                                                              *)
(***************************************************************************)
\* The interface has its type: in particular the transmit budget and both
\* timers of oam_if_t stay within their ranges.
TypeOK == intf \in Intf /\ gasping \in BOOLEAN /\ gasped \in BOOLEAN

\* Between two handlers the discovery state is the one its inputs call for:
\* no handler changes local_satisfied, remote_state_valid or remote_stable
\* without running oam_sm_disc_transition far enough, whatever the order in
\* which frames, ticks and registrations arrive.
DiscSettled ==
    LET d == intf.state_disc IN
    intf.valid =>
        /\ d = "SEND_ANY" <=> intf.local_satisfied /\ intf.remote_stable
        /\ d = "SEND_LOCAL_REMOTE_OK" <=>
                intf.local_satisfied /\ ~intf.remote_stable
        /\ d = "PASSIVE_WAIT" => ~intf.remote_state_valid
        /\ intf.local_satisfied => intf.remote_state_valid
        /\ d # "FAULT"

\* oam_sm_run comes to rest: no sequence of handlers makes its do-while loop
\* run on, and it always leaves the transmit machine waiting.
SmRunTerminates ==
    ~intf.runaway /\ (intf.valid => intf.state_tx = "WAIT_FOR_TX")

\* No more than OAM_PKT_COUNT_PER_SECOND requested OAMPDUs leave between two
\* resets of the transmit machine (critical requests, which only a dying gasp
\* makes possible, are outside the budget).
RateLimit == ~gasped => intf.burst + intf.pdu_cnt <= PktCount

\* A request never outlives the handler that made it: pdu_func is NULL when
\* the handler returns, so a later request is not refused and pdu_parm, which
\* points into the handler's stack frame, is never used after it is gone.
\* Only the critical flag of a dying gasp, or an OLT whose revision is the
\* 0xffff that stands for "none yet", can leave a request pending.
NothingPending ==
    ~gasped /\ NoRev \notin Revs => intf.pdu_func = "NULL"

\* The LOCAL_STABLE flag of every OAMPDU, computed by oam_build_pdu_hdr from
\* remote_state_valid and local_satisfied, says what the discovery machine
\* says: the peer is never told "stable" by an ONU that is still evaluating.
StableFlag ==
    \A n \in DOMAIN intf.tx : intf.tx[n].stable <=> intf.tx[n].local_stable

\* Keep-alive: when the one-second OAM timer fires on an ONU that is past
\* PASSIVE_WAIT, an OAMPDU leaves now, or one has left since the last reset of
\* the transmit machine, or the transmit rule dropped one (which uses up the
\* budget that would have triggered the keep-alive).
KeepAlive ==
    [][oam_time_msg_proc /\ intf.local_pdu # "RX_INFO" =>
          \/ intf'.tx # <<>>
          \/ intf.sent \/ intf.dropped
          \/ intf.pdu_timer # 1]_vars

\* Once the ONU fell back to SEND_LOCAL_REMOTE it leaves that state upwards
\* only for an Information OAMPDU with a revision other than the last one: the
\* vendor hook's early return skips a TLV whose revision did not change.
NewRevisionNeeded ==
    [][intf.state_disc = "SEND_LOCAL_REMOTE"
        /\ intf'.state_disc \in {"SEND_LOCAL_REMOTE_OK", "SEND_ANY"} =>
            intf'.revision_last_rx # intf.revision_last_rx]_vars

\* Every Information OAMPDU with a CTC TLV that the ONU processes outside
\* RX_INFO is answered by an Information OAMPDU in the same handler, although
\* oam_discovery_send refuses when a request is pending: the steps before it
\* in the handler leave none, unless one was pending when it began.
ExtAnswered ==
    [][\/ \E n \in DOMAIN intf'.tx : intf'.tx[n].code = "INFO"
       \/ gasped \/ intf.pdu_func # "NULL" \/ intf'.local_pdu = "RX_INFO"
       \/ \A p \in {q \in OltPdus : q.code = "INFO"} :
            p.fault \/ p.ext.kind = "none"
            \/ ~(oam_proc_pdu_sanity(intf, p) /\ Receive(p))]_vars

\* An unmatched version list is refused at once, and for good: once the ONU
\* may speak NACK survives the handler only behind a pending request, and
\* NOTSUPPORTED lasts until the next registration, whatever the OLT offers
\* afterwards.
ExtRefusalFinal ==
    [][/\ ~gasped' /\ intf'.pdu_func = "NULL" /\ intf'.local_pdu # "RX_INFO"
            => intf'.ext_status # "NACK"
       /\ intf.ext_status = "NOTSUPPORTED" =>
            intf'.ext_status \in {"NOTSUPPORTED", "NACK"} \/ ~intf'.ext_valid
      ]_vars
=============================================================================
