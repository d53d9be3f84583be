------------------------------ MODULE OamLink ------------------------------
(***************************************************************************)
(* The ONU's OAM interface (OamControl) and the OLT at the two ends of a   *)
(* fibre that loses frames.                                                *)
(*                                                                         *)
(* The OLT is not part of this repository.  It is modelled by what the ONU *)
(* expects of an active 802.3ah peer with the CTC extension: once a second *)
(* it sends an Information OAMPDU; it flags STABLE once it has heard the   *)
(* ONU; it offers its versions until the ONU offers its own, acknowledges  *)
(* one that both have until the ONU confirms, and then sends no CTC TLV;   *)
(* or it declines the ONU's offer, because its operator wants it so.       *)
(* It may restart its OAM client, or report a fault, in the middle of      *)
(* everything, and it sees a registration when the ONU does.               *)
(***************************************************************************)
EXTENDS OamControl, SequencesExt

CONSTANTS
    OltVersions,    \* the sets of versions an OLT may have
    Cap,            \* bound: frames under way in each direction
    MaxUpsets       \* bound: registrations, restarts and faults of the OLT

ASSUME OltVersionsAssumption == OltVersions \subseteq SUBSET Version
ASSUME CapAssumption == Cap \in Nat

VARIABLES
    second,     \* parity of the ONU's clock, which ticks once a second
    olt,        \* the OLT's end: heard, revision, CTC status and version
    down, up,   \* frames under way to the ONU and to the OLT
    upsets,     \* how often the link was upset so far
    onuHeard,   \* history: since the registration, the ONU took the OLT's TLV
    oltHeard    \* history: ... and the OLT received a frame of the ONU

linkVars == <<intf, gasping, gasped, second, olt, down, up, upsets,
              onuHeard, oltHeard>>

OltFresh(r, vs) ==
    [heard |-> FALSE, fault |-> FALSE, rev |-> r, vers |-> vs,
     ext |-> "offer", ver |-> NoVersion]

LinkInit ==
    /\ Init
    /\ second = 0
    /\ \E r \in Revs, vs \in OltVersions : olt = OltFresh(r, vs)
    /\ down = <<>> /\ up = <<>>
    /\ upsets = 0
    /\ onuHeard = FALSE /\ oltHeard = FALSE

(***************************************************************************)
(* The OLT                                                                 *)
(***************************************************************************)
OltTlv ==
    CASE olt.ext = "offer" -> [kind |-> "list", vers |-> olt.vers]
      [] olt.ext \in {"ack", "declined"} ->
            [kind |-> "short", support |-> olt.ext = "ack", ver |-> olt.ver]
      [] OTHER -> [kind |-> "none"]

OltSend ==
    /\ Len(down) < Cap
    /\ down' = Append(down,
            [code |-> "INFO", eval |-> FALSE, stable |-> olt.heard,
             fault |-> olt.fault, rev |-> olt.rev, good |-> TRUE,
             active |-> TRUE, ext |-> OltTlv])
    /\ olt' = [olt EXCEPT !.fault = FALSE]
    /\ UNCHANGED <<intf, gasping, gasped, second, up, upsets, onuHeard, oltHeard>>

\* Versions that both ends have.
Common == olt.vers \cap Range(VerList)

OltReceive ==
    /\ up # <<>>
    /\ LET tlv == Head(up) IN
       \E v \in IF Common = {} THEN {NoVersion} ELSE Common,
          verdict \in {"ack", "declined"} :
        olt' = [olt EXCEPT
            !.heard = TRUE,
            !.ext = CASE tlv.ext = "list" /\ @ = "offer" -> verdict
                      [] tlv.ext = "ack" -> "done"
                      [] tlv.ext = "nack" -> "refused"
                      [] OTHER -> @,
            !.ver = CASE tlv.ext = "list" /\ olt.ext = "offer" -> v
                      [] tlv.ext = "ack" -> tlv.ver
                      [] OTHER -> @]
    /\ up' = Tail(up)
    /\ oltHeard' = TRUE
    /\ UNCHANGED <<intf, gasping, gasped, second, down, upsets, onuHeard>>

\* The OLT restarts its OAM client, with the old revision or another one.
OltRestart(r) ==
    /\ intf.valid /\ upsets < MaxUpsets
    /\ olt' = OltFresh(r, olt.vers)
    /\ upsets' = upsets + 1
    /\ UNCHANGED <<intf, gasping, gasped, second, down, up, onuHeard, oltHeard>>

\* The OLT flags a fault in its next frame.
OltFault ==
    /\ intf.valid /\ upsets < MaxUpsets
    /\ olt' = [olt EXCEPT !.fault = TRUE]
    /\ upsets' = upsets + 1
    /\ UNCHANGED <<intf, gasping, gasped, second, down, up, onuHeard, oltHeard>>

(***************************************************************************)
(* The fibre                                                               *)
(***************************************************************************)
LoseDown ==
    /\ down # <<>>
    /\ down' = Tail(down)
    /\ UNCHANGED <<intf, gasping, gasped, second, olt, up, upsets, onuHeard,
                   oltHeard>>

LoseUp ==
    /\ up # <<>>
    /\ up' = Tail(up)
    /\ UNCHANGED <<intf, gasping, gasped, second, olt, down, upsets, onuHeard,
                   oltHeard>>

\* What the ONU's handler sent goes onto the fibre, as far as there is room:
\* Information OAMPDUs, since this OLT requests no variables.
Transmit ==
    LET frames == [n \in DOMAIN intf'.tx |->
                        [ext |-> intf'.tx[n].ext, ver |-> intf'.ext_version]]
        room == Cap - Len(up)
    IN  up' = up \o SubSeq(frames, 1, IF Len(frames) < room
                                      THEN Len(frames) ELSE room)

(***************************************************************************)
(* The ONU                                                                 *)
(***************************************************************************)
OnuReceive ==
    /\ down # <<>>
    /\ Receive(Head(down))
    /\ Transmit
    /\ down' = Tail(down)
    /\ onuHeard' = (onuHeard \/ intf'.remote_state_valid)
    /\ UNCHANGED <<second, olt, upsets, oltHeard>>

OnuTick ==
    /\ oam_time_msg_proc
    /\ second' = 1 - second
    /\ Transmit
    /\ UNCHANGED <<olt, down, upsets, onuHeard, oltHeard>>

\* A registration is seen at both ends, and nothing of before it arrives.
LinkRegister(r) ==
    /\ upsets < MaxUpsets
    /\ oam_llid_registration
    /\ olt' = OltFresh(r, olt.vers)
    /\ down' = <<>> /\ up' = <<>>
    /\ upsets' = upsets + 1
    /\ onuHeard' = FALSE /\ oltHeard' = FALSE
    /\ UNCHANGED second

LinkNext ==
    \/ OltSend \/ OltReceive \/ OltFault
    \/ \E r \in Revs : OltRestart(r) \/ LinkRegister(r)
    \/ LoseDown \/ LoseUp
    \/ OnuReceive \/ OnuTick

\* The OLT keeps sending, the ONU's timer keeps running, and the fibre does
\* not lose every frame: of the frames of a kind that is sent again and again
\* one arrives again and again.  The fairness of the ONU's two actions, weak
\* and strong, is written out with the states in which they are enabled.
LinkFairness ==
    /\ WF_linkVars(OltSend)
    /\ \A x \in {"none", "list", "ack", "nack"} :
            []<>(\E n \in DOMAIN intf.tx : intf.tx[n].ext = x)
                => []<><<OltReceive /\ Head(up).ext = x>>_linkVars
    /\ <>[]intf.valid => []<><<OnuTick>>_linkVars
    /\ []<>(intf.valid /\ down # <<>>) => []<><<OnuReceive>>_linkVars

LinkSpec == LinkInit /\ [][LinkNext]_linkVars
FairLinkSpec == LinkSpec /\ LinkFairness

(***************************************************************************)
(* Properties                                                              *)
(***************************************************************************)
Session == INSTANCE OamSession WITH
    open <- intf.state_disc = "SEND_ANY"

\* The two machines, the reception rule and the timers together implement the
\* three-way handshake of OamSession over a fibre that loses frames.
ImplementsSession == Session!SessionSpec

\* The ONU takes the OLT's revision for the one it has already dealt with,
\* though it is not satisfied.
Deaf == olt.rev = intf.revision_last_rx /\ ~intf.local_satisfied

\* Once the link is no longer upset, a registered ONU reaches SEND_ANY and
\* stays there, whatever was lost on the way; unless it is deaf for the
\* OLT's revision, because that one is 0xffff, the value for "none yet", or
\* because the OLT flagged a fault and went on with the same revision.
ComesUp == <>[](intf.valid => intf.state_disc = "SEND_ANY" \/ Deaf)

\* The CTC discovery comes to an end at the OLT too, agreed or refused: no
\* loss or restart leaves the two ends waiting for each other, although the
\* ONU sends a CTC TLV only in reply to one.  Two ONUs do not: one that hears
\* nothing but revision 0xffff never speaks, and one that was declined once
\* ignores the offers of an OLT that restarted since.
CtcSettles ==
    <>[](intf.valid => \/ olt.ext \in {"done", "refused", "declined"}
                       \/ intf.state_disc = "PASSIVE_WAIT"
                       \/ intf.ext_status = "NOTSUPPORTED" /\ Common # {})

\* The ONU takes the version of a short TLV over without a look at its list,
\* and a repeated offer for an acknowledgement.  Still a completed CTC
\* discovery has a version both ends have, whatever frames were lost and
\* whenever the OLT restarted.
VersionCommon ==
    intf.ext_status = "COMPLETED" => intf.ext_version \in Common
=============================================================================
