--------------------------- MODULE OamLinkProofs ---------------------------
(***************************************************************************)
(* Proofs about OamLink, for every revision the OLT may use, every set of  *)
(* versions, and however many frames the fibre holds:                      *)
(*                                                                         *)
(*   LinkImplementsSession  the ONU's handlers over a fibre that loses     *)
(*                          frames implement the handshake of OamSession   *)
(*   VersionsAgree          a completed CTC discovery has a version both   *)
(*                          ends have                                      *)
(*                                                                         *)
(* The ONU's part of the invariant is HInv, which every operation of a     *)
(* handler preserves (OamControlProofs); what is added here relates it to  *)
(* the frames under way and to what the OLT knows.                         *)
(***************************************************************************)
EXTENDS OamLink, OamControlProofs

\* Versions of both ends, for an OLT with the versions vs.
Both(vs) == vs \cap Range(VerList)

\* A frame under way to the ONU: it says STABLE only if the OLT has heard the
\* ONU, and it carries the OLT's versions or one that both ends have.
DownOK(f, heard, vs) ==
    /\ f \in RxPdu /\ f.code = "INFO"
    /\ f.stable => heard
    /\ f.ext.kind = "list" => f.ext.vers = vs
    /\ f.ext.kind = "short" => f.ext.ver \in Both(vs)

\* A frame under way to the OLT: no version is offered or confirmed if there
\* is none in common.
UpFrame == [ext : {"none", "list", "ack", "nack"}, ver : ExtVer]

UpOK(f, vs) == f.ext \in {"list", "ack"} => Both(vs) # {}

OltRecord ==
    [heard : BOOLEAN, fault : BOOLEAN, rev : Revs, vers : OltVersions,
     ext : {"offer", "ack", "declined", "done", "refused"}, ver : ExtVer]

OltOK(o, heard) ==
    /\ o \in OltRecord
    /\ o.heard => heard
    /\ o.ext \in {"ack", "declined"} => o.ver \in Both(o.vers)

\* The ONU: as every handler leaves it, and what it knows of the OLT happened.
Calm(i, c) == HInv(i, FALSE, FALSE, c)

OnuOK(i, vs, spoken, heard) ==
    /\ i \in Intf
    /\ i.valid => \A c \in BOOLEAN : (c => Both(vs) = {}) => Calm(i, c)
    /\ ~i.valid => i = ZeroIntf
    /\ i.remote_stable => heard
    /\ i.local_pdu # "RX_INFO" => spoken
    /\ i.ext_valid /\ Both(vs) # {} => i.ext_version \in Both(vs)

KInv ==
    /\ onuHeard \in BOOLEAN /\ oltHeard \in BOOLEAN
    /\ oltHeard => onuHeard
    /\ down \in Seq(RxPdu)
    /\ \A n \in DOMAIN down : DownOK(down[n], oltHeard, olt.vers)
    /\ up \in Seq(UpFrame) /\ Len(up) <= Cap
    /\ up # <<>> => onuHeard
    /\ \A n \in DOMAIN up : UpOK(up[n], olt.vers)
    /\ OltOK(olt, oltHeard) /\ OnuOK(intf, olt.vers, onuHeard, oltHeard)

(***************************************************************************)
(* The versions                                                            *)
(***************************************************************************)
\* The version chosen from the OLT's list is one of both ends, and there is
\* one if they have any in common.
LEMMA ChosenIsCommon ==
    ASSUME NEW vs
    PROVE  /\ Matched(vs) = {} <=> Both(vs) = {}
           /\ Matched(vs) # {} => ChosenVersion(vs) \in Both(vs)
    <1>1. /\ DOMAIN VerList = 1 .. Len(VerList) /\ Len(VerList) \in Nat
        BY VerListAssumption
    <1>2. Range(VerList) = {VerList[k] : k \in 1 .. Len(VerList)}
        BY <1>1 DEF Range
    <1>3. Matched(vs) = {} <=> Both(vs) = {}
        BY <1>2 DEF Matched, Both
    <1>4. ASSUME Matched(vs) # {}
          PROVE  ChosenVersion(vs) \in Both(vs)
        <2> DEFINE T == Matched(vs)
                   x == CHOOSE k \in T : \A m \in T : k <= m
        <2>1. T \in SUBSET Nat
            BY <1>1 DEF Matched
        <2> HIDE DEF T
        <2>2. \E k \in T : \A m \in T : k <= m
            BY <1>4, <2>1, SmallestIndex DEF T
        <2>3. x \in T
            BY <2>2
        <2>4. ChosenVersion(vs) = VerList[x]
            BY DEF ChosenVersion, T
        <2> HIDE DEF x
        <2> QED
            BY <1>2, <2>3, <2>4 DEF T, Matched, Both
    <1> QED
        BY <1>3, <1>4

(***************************************************************************)
(* The ONU                                                                 *)
(***************************************************************************)
\* What a handler sent fits what the two ends have in common.
LEMMA SentFits ==
    ASSUME NEW i \in Intf, NEW vs, i.valid,
           \A c \in BOOLEAN : (c => Both(vs) = {}) => Calm(i, c)
    PROVE  /\ \A n \in DOMAIN i.tx : i.tx[n].ext \in {"list", "ack"} => Both(vs) # {}
           /\ i.tx # <<>> => i.local_pdu # "RX_INFO"
           /\ i.state_disc = "SEND_ANY" <=> i.local_satisfied /\ i.remote_stable
           /\ i.ext_status = "COMPLETED" => i.ext_valid /\ Both(vs) # {}
    <1>0. PICK no \in BOOLEAN, yes \in BOOLEAN : no = FALSE /\ yes = TRUE
        OBVIOUS
    <1>1. HInv(i, no, no, no)
        BY <1>0 DEF Calm
    <1>2. Both(vs) = {} => HInv(i, no, no, yes)
        BY <1>0 DEF Calm
    <1>3. i.tx # <<>> => i.local_pdu # "RX_INFO"
        BY <1>0, <1>1 DEF HInv, SpokenTo
    <1>4. i.state_disc = "SEND_ANY" <=> i.local_satisfied /\ i.remote_stable
        BY <1>1, Fields DEF HInv, Settled, Dist, DiscState
    <1>5. i.ext_valid \in BOOLEAN
        BY DEF Intf
    <1>6. /\ ~i.ext_valid => /\ i.ext_status = "SEND_WAIT"
                             /\ \A n \in DOMAIN i.tx : i.tx[n].ext = "none"
          /\ i.ext_valid /\ Both(vs) = {} =>
                /\ i.ext_status \in {"NACK", "NOTSUPPORTED"}
                /\ \A n \in DOMAIN i.tx : i.tx[n].ext \in {"none", "nack"}
        BY <1>0, <1>1, <1>2 DEF HInv, Offers
    <1> QED
        BY <1>3, <1>4, <1>5, <1>6

\* The ONU receives a frame.
LEMMA OnuReceives ==
    ASSUME NEW i, NEW vs, NEW spoken \in BOOLEAN, NEW heard \in BOOLEAN,
           OnuOK(i, vs, spoken, heard), i.valid,
           NEW f, DownOK(f, heard, vs)
    PROVE  LET r == oam_ind_oami(i, f) IN
           OnuOK(r, vs, spoken \/ r.remote_state_valid, heard) /\ r.valid
    <1> DEFINE r == oam_ind_oami(i, f)
    <1>0. PICK no \in BOOLEAN : no = FALSE
        OBVIOUS
    <1>1. i \in Intf /\ f \in RxPdu /\ f.code = "INFO"
        BY DEF OnuOK, DownOK
    <1>2. ASSUME NEW c \in BOOLEAN, c => Both(vs) = {}
          PROVE  r \in Intf /\ HInv(r, no, no, c) /\ Handled(i, f, r)
        <2>1. HInv(i, no, no, c)
            BY <1>0, <1>2 DEF OnuOK, Calm
        <2>2. c /\ f.code = "INFO" /\ f.ext.kind = "list" =>
                Matched(f.ext.vers) = {}
            BY <1>2, ChosenIsCommon DEF DownOK
        <2> QED
            BY <1>0, <1>1, <2>1, <2>2, ReceiveGood
    <1>3. r \in Intf /\ Handled(i, f, r)
        BY <1>0, <1>2
    <1> HIDE DEF r
    <1>4. \A c \in BOOLEAN : (c => Both(vs) = {}) => Calm(r, c)
        BY <1>0, <1>2 DEF Calm
    <1>5. /\ r.valid /\ (r.remote_stable => heard)
          /\ r.local_pdu # "RX_INFO" => spoken \/ r.remote_state_valid
        BY <1>3 DEF Handled, OnuOK, DownOK
    <1>6. r.ext_valid /\ Both(vs) # {} => r.ext_version \in Both(vs)
        <2>1. VersionFrom(i, f.ext, r)
            BY <1>1, <1>3 DEF Handled
        <2> QED
            BY <2>1, ChosenIsCommon DEF VersionFrom, OnuOK, DownOK
    <1> QED
        BY <1>3, <1>4, <1>5, <1>6 DEF OnuOK, r

\* The ONU's timer ticks.
LEMMA OnuTicks ==
    ASSUME NEW i, NEW vs, NEW spoken \in BOOLEAN, NEW heard \in BOOLEAN,
           OnuOK(i, vs, spoken, heard), i.valid
    PROVE  LET r == oam_keep_alive(Enter(i)) IN
           OnuOK(r, vs, spoken, heard) /\ SameInputs(i, r) /\ r.valid
    <1> DEFINE e == Enter(i)
               r == oam_keep_alive(e)
    <1>0. PICK no \in BOOLEAN : no = FALSE
        OBVIOUS
    <1>1. i \in Intf
        BY DEF OnuOK
    <1>2. ASSUME NEW c \in BOOLEAN, c => Both(vs) = {}
          PROVE  /\ r \in Intf /\ HInv(r, no, no, c)
                 /\ Untouched(i, e) /\ Onward(e, r)
        <2>1. HInv(i, no, no, c)
            BY <1>0, <1>2 DEF OnuOK, Calm
        <2>2. e \in Intf /\ HInv(e, no, no, c) /\ Untouched(i, e)
            BY <1>1, <2>1, EnterGood
        <2> HIDE DEF e
        <2> QED
            BY <2>2, TickGood
    <1>3. r \in Intf /\ Untouched(i, e) /\ Onward(e, r)
        BY <1>0, <1>2
    <1> HIDE DEF r, e
    <1>4. \A c \in BOOLEAN : (c => Both(vs) = {}) => Calm(r, c)
        BY <1>0, <1>2 DEF Calm
    <1>5. /\ SameInputs(i, r) /\ r.valid
          /\ r.local_pdu # "RX_INFO" => spoken
          /\ r.ext_valid = i.ext_valid /\ r.ext_version = i.ext_version
        <2>1. /\ SameInputs(i, r) /\ r.valid = i.valid
              /\ r.ext_valid = i.ext_valid /\ r.ext_version = i.ext_version
            BY <1>3 DEF Untouched, SameDisc, Onward, SameInputs
        <2>2. i.local_pdu = "RX_INFO" => r.local_pdu = "RX_INFO"
            <3>1. HInv(i, no, no, no)
                BY <1>0 DEF OnuOK, Calm
            <3>2. i.local_pdu = "RX_INFO" => ~i.remote_state_valid
                BY <1>1, <3>1, SettledFacts DEF HInv, Mode
            <3> QED
                BY <1>3, <3>2 DEF Untouched, SameDisc, Onward
        <2> QED
            BY <2>1, <2>2 DEF OnuOK
    <1> QED
        BY <1>3, <1>4, <1>5 DEF OnuOK, SameInputs, r, e

\* The fibre with the frames u on it, once a handler has sent tx.
Fibre(u, tx, v) ==
    LET frames == [n \in DOMAIN tx |-> [ext |-> tx[n].ext, ver |-> v]]
        room == Cap - Len(u)
    IN  u \o SubSeq(frames, 1, IF Len(frames) < room THEN Len(frames) ELSE room)

\* What a handler sent goes onto the fibre.
LEMMA FibreTakes ==
    ASSUME NEW u \in Seq(UpFrame), Len(u) <= Cap, NEW tx \in Seq(TxPdu),
           NEW v \in ExtVer, NEW vs,
           \A n \in DOMAIN u : UpOK(u[n], vs),
           \A n \in DOMAIN tx : tx[n].ext \in {"list", "ack"} => Both(vs) # {}
    PROVE  /\ Fibre(u, tx, v) \in Seq(UpFrame) /\ Len(Fibre(u, tx, v)) <= Cap
           /\ \A n \in DOMAIN Fibre(u, tx, v) : UpOK(Fibre(u, tx, v)[n], vs)
           /\ Fibre(u, tx, v) # <<>> => u # <<>> \/ tx # <<>>
    <1> DEFINE frames == [n \in DOMAIN tx |-> [ext |-> tx[n].ext, ver |-> v]]
               room == Cap - Len(u)
               m == IF Len(frames) < room THEN Len(frames) ELSE room
               s == SubSeq(frames, 1, m)
               w == u \o s
    <1>1. DOMAIN tx = 1 .. Len(tx) /\ Len(tx) \in Nat
        OBVIOUS
    <1>2. \A n \in DOMAIN tx : tx[n].ext \in {"none", "list", "ack", "nack"}
        <2>1. \A p \in TxPdu : p.ext \in {"none", "list", "ack", "nack"}
            BY DEF TxPdu
        <2>2. \A n \in DOMAIN tx : tx[n] \in TxPdu
            OBVIOUS
        <2> QED
            BY <2>1, <2>2
    <1>3. /\ frames \in Seq(UpFrame) /\ Len(frames) = Len(tx)
          /\ \A n \in 1 .. Len(tx) : frames[n].ext = tx[n].ext
        <2>1. \A n \in DOMAIN tx : [ext |-> tx[n].ext, ver |-> v] \in UpFrame
            BY <1>2 DEF UpFrame
        <2>2. frames \in [1 .. Len(tx) -> UpFrame]
            BY <1>1, <2>1
        <2> QED
            BY <1>1, <2>2
    <1> HIDE DEF frames
    <1>4. room \in Nat
        BY CapAssumption
    <1>5. m \in Nat /\ m <= Len(tx) /\ m <= Cap - Len(u)
        BY <1>1, <1>3, <1>4
    <1> HIDE DEF m
    <1>6. /\ s \in Seq(UpFrame) /\ Len(s) = m
          /\ \A n \in 1 .. m : s[n] = frames[n]
        BY <1>1, <1>3, <1>5
    <1> HIDE DEF s
    <1>7. /\ w \in Seq(UpFrame) /\ Len(w) = Len(u) + m
          /\ \A n \in 1 .. Len(u) : w[n] = u[n]
          /\ \A n \in (Len(u) + 1) .. (Len(u) + m) : w[n] = s[n - Len(u)]
        <2>1. Len(u) \in Nat
            OBVIOUS
        <2>2. w \in Seq(UpFrame) /\ Len(w) = Len(u) + m
            BY <1>5, <1>6
        <2>3. \A n \in 1 .. Len(u) : w[n] = u[n]
            BY <1>5, <1>6, <2>1
        <2>4. ASSUME NEW n \in (Len(u) + 1) .. (Len(u) + m)
              PROVE  w[n] = s[n - Len(u)]
            BY <1>5, <1>6, <2>1
        <2> QED
            BY <2>2, <2>3, <2>4
    <1> HIDE DEF w
    <1>8. Len(w) <= Cap
        BY <1>5, <1>7, CapAssumption
    <1>9. ASSUME NEW n \in DOMAIN w
          PROVE  UpOK(w[n], vs)
        <2>1. CASE n \in 1 .. Len(u)
            BY <1>7, <2>1
        <2>2. CASE n \notin 1 .. Len(u)
            <3>1. n \in (Len(u) + 1) .. (Len(u) + m) /\ n - Len(u) \in 1 .. m
                BY <1>5, <1>7, <1>9, <2>2
            <3>2. w[n] = frames[n - Len(u)] /\ n - Len(u) \in 1 .. Len(tx)
                BY <1>1, <1>5, <1>6, <1>7, <3>1
            <3>3. w[n].ext = tx[n - Len(u)].ext
                BY <1>3, <3>2
            <3> QED
                BY <1>1, <3>2, <3>3 DEF UpOK
        <2> QED
            BY <2>1, <2>2
    <1>10. w # <<>> => u # <<>> \/ tx # <<>>
        BY <1>1, <1>5, <1>7
    <1> QED
        BY <1>7, <1>8, <1>9, <1>10 DEF w, s, m, frames, Fibre

(***************************************************************************)
(* The invariant                                                           *)
(***************************************************************************)
\* The versions the OLT chooses from are those of both ends.
LEMMA CommonIsBoth == Common = Both(olt.vers)
    BY DEF Common, Both

\* At power-up.
LEMMA LinkStarts == LinkInit => KInv
    <1> SUFFICES ASSUME LinkInit PROVE KInv
        OBVIOUS
    <1>1. PICK r \in Revs, vs \in OltVersions : olt = OltFresh(r, vs)
        BY DEF LinkInit
    <1>2. OltOK(olt, oltHeard)
        BY <1>1, Sentinels DEF OltFresh, OltOK, OltRecord
    <1>3. /\ ZeroIntf.valid = FALSE /\ ZeroIntf.remote_stable = FALSE
          /\ ZeroIntf.local_pdu = "RX_INFO" /\ ZeroIntf.ext_valid = FALSE
        BY DEF ZeroIntf
    <1>4. OnuOK(intf, olt.vers, onuHeard, oltHeard)
        BY <1>3, ZeroType DEF LinkInit, Init, OnuOK
    <1>5. up = <<>> /\ down = <<>> /\ onuHeard = FALSE /\ oltHeard = FALSE
        BY DEF LinkInit
    <1>6. up \in Seq(UpFrame) /\ Len(up) <= Cap /\ down \in Seq(RxPdu)
        BY <1>5, CapAssumption
    <1>7. /\ \A n \in DOMAIN down : DownOK(down[n], oltHeard, olt.vers)
          /\ \A n \in DOMAIN up : UpOK(up[n], olt.vers)
        BY <1>5
    <1> QED
        BY <1>2, <1>4, <1>5, <1>6, <1>7 DEF KInv

\* The frame the OLT sends.
LEMMA OltFrame ==
    ASSUME KInv
    PROVE  DownOK([code |-> "INFO", eval |-> FALSE, stable |-> olt.heard,
                   fault |-> olt.fault, rev |-> olt.rev, good |-> TRUE,
                   active |-> TRUE, ext |-> OltTlv], oltHeard, olt.vers)
    <1>1. OltOK(olt, oltHeard)
        BY DEF KInv
    <1>2. /\ olt.heard \in BOOLEAN /\ olt.fault \in BOOLEAN /\ olt.rev \in Revs
          /\ olt.vers \in OltVersions /\ olt.vers \in SUBSET Version
        BY <1>1, OltVersionsAssumption DEF OltOK, OltRecord
    <1>3. /\ OltTlv \in ExtTlv
          /\ OltTlv.kind = "list" => OltTlv.vers = olt.vers
          /\ OltTlv.kind = "short" => OltTlv.ver \in Both(olt.vers)
        <2>1. CASE olt.ext = "offer"
            <3>1. OltTlv = [kind |-> "list", vers |-> olt.vers]
                BY <2>1 DEF OltTlv
            <3> QED
                BY <1>2, <3>1 DEF ExtTlv
        <2>2. CASE olt.ext \in {"ack", "declined"}
            <3>1. OltTlv = [kind |-> "short", support |-> olt.ext = "ack",
                            ver |-> olt.ver]
                BY <2>2 DEF OltTlv
            <3>2. olt.ver \in Both(olt.vers) /\ olt.ver \in Version
                BY <1>1, <1>2, <2>2 DEF OltOK, Both
            <3>3. PICK ok \in BOOLEAN : ok = (olt.ext = "ack")
                OBVIOUS
            <3>4. OltTlv = [kind |-> "short", support |-> ok, ver |-> olt.ver]
                BY <3>1, <3>3
            <3> QED
                BY <3>2, <3>3, <3>4 DEF ExtTlv
        <2>3. CASE olt.ext \notin {"offer", "ack", "declined"}
            <3>1. OltTlv = [kind |-> "none"]
                BY <2>3 DEF OltTlv
            <3> QED
                BY <3>1 DEF ExtTlv
        <2> QED
            BY <2>1, <2>2, <2>3
    <1>4. olt.heard => oltHeard
        BY <1>1 DEF OltOK
    <1> DEFINE t == OltTlv
               f == [code |-> "INFO", eval |-> FALSE, stable |-> olt.heard,
                     fault |-> olt.fault, rev |-> olt.rev, good |-> TRUE,
                     active |-> TRUE, ext |-> t]
    <1> HIDE DEF t
    <1>5. t \in ExtTlv
        BY <1>3 DEF t
    <1>6. f \in RxPdu
        BY <1>2, <1>5 DEF RxPdu
    <1>7. f.code = "INFO" /\ f.stable = olt.heard /\ f.ext = t
        OBVIOUS
    <1> HIDE DEF f
    <1> QED
        BY <1>3, <1>4, <1>6, <1>7 DEF DownOK, f, t

\* The head of a sequence is one of its members, its tail a sequence.
LEMMA HeadTail ==
    ASSUME NEW S, NEW s \in Seq(S), s # <<>>
    PROVE  /\ 1 \in DOMAIN s /\ Head(s) = s[1]
           /\ Tail(s) \in Seq(S) /\ Len(Tail(s)) <= Len(s)
           /\ \A n \in DOMAIN Tail(s) :
                n + 1 \in DOMAIN s /\ Tail(s)[n] = s[n + 1]
    OBVIOUS

\* What the OLT makes of a frame of the ONU.
LEMMA OltTakes ==
    ASSUME KInv, OltReceive
    PROVE  OltOK(olt', TRUE) /\ olt'.vers = olt.vers
    <1> DEFINE tlv == Head(up)
    <1>1. PICK v \in IF Common = {} THEN {NoVersion} ELSE Common,
               verdict \in {"ack", "declined"} :
            olt' = [olt EXCEPT
                !.heard = TRUE,
                !.ext = CASE tlv.ext = "list" /\ olt.ext = "offer" -> verdict
                          [] tlv.ext = "ack" -> "done"
                          [] tlv.ext = "nack" -> "refused"
                          [] OTHER -> olt.ext,
                !.ver = CASE tlv.ext = "list" /\ olt.ext = "offer" -> v
                          [] tlv.ext = "ack" -> tlv.ver
                          [] OTHER -> olt.ver]
        BY DEF OltReceive
    <1>2. tlv \in UpFrame /\ UpOK(tlv, olt.vers)
        <2>1. up # <<>> /\ up \in Seq(UpFrame)
            BY DEF OltReceive, KInv
        <2>2. 1 \in DOMAIN up /\ tlv = up[1]
            BY <2>1, HeadTail
        <2> QED
            BY <2>1, <2>2 DEF KInv
    <1> HIDE DEF tlv
    <1> DEFINE e == CASE tlv.ext = "list" /\ olt.ext = "offer" -> verdict
                      [] tlv.ext = "ack" -> "done"
                      [] tlv.ext = "nack" -> "refused"
                      [] OTHER -> olt.ext
               x == CASE tlv.ext = "list" /\ olt.ext = "offer" -> v
                      [] tlv.ext = "ack" -> tlv.ver
                      [] OTHER -> olt.ver
    <1>3. olt' = [olt EXCEPT !.heard = TRUE, !.ext = e, !.ver = x]
        BY <1>1
    <1>4. /\ olt \in OltRecord /\ olt.ver \in ExtVer
          /\ olt.ext \in {"offer", "ack", "declined", "done", "refused"}
          /\ olt.ext \in {"ack", "declined"} => olt.ver \in Both(olt.vers)
          /\ olt.vers \in SUBSET Version
        BY OltVersionsAssumption DEF KInv, OltOK, OltRecord
    <1>5. tlv.ver \in ExtVer
        BY <1>2 DEF UpFrame
    <1>6. v \in ExtVer
        BY <1>1, <1>4, Sentinels DEF Common
    <1>7. /\ e \in {"offer", "ack", "declined", "done", "refused"}
          /\ x \in ExtVer
          /\ e \in {"ack", "declined"} => x \in Both(olt.vers)
        <2>1. CASE tlv.ext = "list" /\ olt.ext = "offer"
            <3>1. e = verdict /\ x = v
                BY <2>1
            <3>2. v \in Both(olt.vers)
                BY <1>1, <1>2, <2>1, CommonIsBoth DEF UpOK
            <3> QED
                BY <1>1, <1>6, <3>1, <3>2
        <2>2. CASE ~(tlv.ext = "list" /\ olt.ext = "offer") /\ tlv.ext = "ack"
            <3>1. e = "done" /\ x = tlv.ver
                BY <2>2
            <3> QED
                BY <1>5, <3>1
        <2>3. CASE ~(tlv.ext = "list" /\ olt.ext = "offer") /\ tlv.ext = "nack"
            <3>1. e = "refused" /\ x = olt.ver
                BY <2>3
            <3> QED
                BY <1>4, <3>1
        <2>4. CASE ~(tlv.ext = "list" /\ olt.ext = "offer")
                   /\ tlv.ext \notin {"ack", "nack"}
            <3>1. e = olt.ext /\ x = olt.ver
                BY <2>4
            <3> QED
                BY <1>4, <3>1
        <2> QED
            BY <2>1, <2>2, <2>3, <2>4
    <1> HIDE DEF e, x
    <1>8. /\ olt' \in OltRecord /\ olt'.ext = e /\ olt'.ver = x
          /\ olt'.vers = olt.vers
        BY <1>3, <1>4, <1>7 DEF OltRecord
    <1> QED
        BY <1>7, <1>8 DEF OltOK

\* What was under way stays as it should be while it waits, and when its head
\* is taken or lost.
LEMMA Waiting ==
    ASSUME KInv
    PROVE  /\ down # <<>> =>
                /\ Tail(down) \in Seq(RxPdu)
                /\ \A n \in DOMAIN Tail(down) :
                        DownOK(Tail(down)[n], oltHeard, olt.vers)
                /\ DownOK(Head(down), oltHeard, olt.vers)
           /\ up # <<>> =>
                /\ Tail(up) \in Seq(UpFrame) /\ Len(Tail(up)) <= Cap
                /\ \A n \in DOMAIN Tail(up) : UpOK(Tail(up)[n], olt.vers)
           /\ \A n \in DOMAIN down : DownOK(down[n], TRUE, olt.vers)
    <1>1. /\ down \in Seq(RxPdu) /\ up \in Seq(UpFrame) /\ Len(up) <= Cap
          /\ \A n \in DOMAIN down : DownOK(down[n], oltHeard, olt.vers)
          /\ \A n \in DOMAIN up : UpOK(up[n], olt.vers)
        BY DEF KInv
    <1>2. ASSUME down # <<>>
          PROVE  /\ Tail(down) \in Seq(RxPdu)
                 /\ \A n \in DOMAIN Tail(down) :
                        DownOK(Tail(down)[n], oltHeard, olt.vers)
                 /\ DownOK(Head(down), oltHeard, olt.vers)
        <2>1. /\ 1 \in DOMAIN down /\ Head(down) = down[1]
              /\ Tail(down) \in Seq(RxPdu)
              /\ \A n \in DOMAIN Tail(down) :
                    n + 1 \in DOMAIN down /\ Tail(down)[n] = down[n + 1]
            BY <1>1, <1>2, HeadTail
        <2> QED
            BY <1>1, <2>1
    <1>3. ASSUME up # <<>>
          PROVE  /\ Tail(up) \in Seq(UpFrame) /\ Len(Tail(up)) <= Cap
                 /\ \A n \in DOMAIN Tail(up) : UpOK(Tail(up)[n], olt.vers)
        <2>1. /\ Tail(up) \in Seq(UpFrame) /\ Len(Tail(up)) <= Len(up)
              /\ \A n \in DOMAIN Tail(up) :
                    n + 1 \in DOMAIN up /\ Tail(up)[n] = up[n + 1]
            BY <1>1, <1>3, HeadTail
        <2>2. Len(Tail(up)) \in Nat /\ Len(up) \in Nat
            BY <1>1, <2>1
        <2> QED
            BY <1>1, <2>1, <2>2, CapAssumption
    <1>4. \A n \in DOMAIN down : DownOK(down[n], TRUE, olt.vers)
        BY <1>1 DEF DownOK
    <1> QED
        BY <1>2, <1>3, <1>4

\* Every step of the ONU, the OLT and the fibre keeps the invariant.
LEMMA LinkKeeps ==
    ASSUME KInv, [LinkNext]_linkVars
    PROVE  KInv'
    <1>1. /\ onuHeard \in BOOLEAN /\ oltHeard \in BOOLEAN
          /\ oltHeard => onuHeard
          /\ down \in Seq(RxPdu)
          /\ \A n \in DOMAIN down : DownOK(down[n], oltHeard, olt.vers)
          /\ up \in Seq(UpFrame) /\ Len(up) <= Cap
          /\ up # <<>> => onuHeard
          /\ \A n \in DOMAIN up : UpOK(up[n], olt.vers)
          /\ OltOK(olt, oltHeard)
          /\ OnuOK(intf, olt.vers, onuHeard, oltHeard)
        BY DEF KInv
    <1>2. olt \in OltRecord /\ olt.vers \in OltVersions
        BY <1>1 DEF OltOK, OltRecord
    <1>3. CASE OltSend
        <2> DEFINE f == [code |-> "INFO", eval |-> FALSE, stable |-> olt.heard,
                         fault |-> olt.fault, rev |-> olt.rev, good |-> TRUE,
                         active |-> TRUE, ext |-> OltTlv]
        <2>1. /\ down' = Append(down, f) /\ olt' = [olt EXCEPT !.fault = FALSE]
              /\ intf' = intf /\ up' = up
              /\ onuHeard' = onuHeard /\ oltHeard' = oltHeard
            BY <1>3 DEF OltSend
        <2>2. DownOK(f, oltHeard, olt.vers)
            BY OltFrame
        <2> HIDE DEF f
        <2>3. /\ olt' \in OltRecord /\ olt'.vers = olt.vers
              /\ olt'.heard = olt.heard /\ olt'.ext = olt.ext
              /\ olt'.ver = olt.ver
            BY <1>2, <2>1 DEF OltRecord
        <2>4. OltOK(olt', oltHeard)
            BY <1>1, <2>3 DEF OltOK
        <2>5. f \in RxPdu
            BY <2>2 DEF DownOK
        <2>6. /\ down' \in Seq(RxPdu)
              /\ \A n \in DOMAIN down' : down'[n] = f \/
                    (n \in DOMAIN down /\ down'[n] = down[n])
            BY <1>1, <2>1, <2>5
        <2>7. \A n \in DOMAIN down' : DownOK(down'[n], oltHeard, olt.vers)
            BY <1>1, <2>2, <2>6
        <2> QED
            BY <1>1, <2>1, <2>3, <2>4, <2>6, <2>7 DEF KInv
    <1>4. CASE OltReceive
        <2>1. OltOK(olt', TRUE) /\ olt'.vers = olt.vers
            BY <1>4, OltTakes
        <2>2. /\ up # <<>> /\ up' = Tail(up) /\ oltHeard' = TRUE
              /\ intf' = intf /\ down' = down /\ onuHeard' = onuHeard
            BY <1>4 DEF OltReceive
        <2>3. /\ up' \in Seq(UpFrame) /\ Len(up') <= Cap
              /\ \A n \in DOMAIN up' : UpOK(up'[n], olt.vers)
              /\ \A n \in DOMAIN down : DownOK(down[n], TRUE, olt.vers)
            BY <2>2, Waiting
        <2>4. onuHeard
            BY <1>1, <2>2
        <2>5. OnuOK(intf, olt.vers, onuHeard, TRUE)
            BY <1>1 DEF OnuOK
        <2> QED
            BY <1>1, <2>1, <2>2, <2>3, <2>4, <2>5 DEF KInv
    <1>5. CASE OltFault
        <2>1. /\ olt' = [olt EXCEPT !.fault = TRUE]
              /\ intf' = intf /\ up' = up /\ down' = down
              /\ onuHeard' = onuHeard /\ oltHeard' = oltHeard
            BY <1>5 DEF OltFault
        <2>2. /\ olt' \in OltRecord /\ olt'.vers = olt.vers
              /\ olt'.heard = olt.heard /\ olt'.ext = olt.ext
              /\ olt'.ver = olt.ver
            BY <1>2, <2>1 DEF OltRecord
        <2>3. OltOK(olt', oltHeard)
            BY <1>1, <2>2 DEF OltOK
        <2> QED
            BY <1>1, <2>1, <2>2, <2>3 DEF KInv
    <1>6. CASE \E r \in Revs : OltRestart(r)
        <2>1. PICK r \in Revs : OltRestart(r)
            BY <1>6
        <2>2. /\ olt' = OltFresh(r, olt.vers)
              /\ intf' = intf /\ up' = up /\ down' = down
              /\ onuHeard' = onuHeard /\ oltHeard' = oltHeard
            BY <2>1 DEF OltRestart
        <2>3. OltOK(olt', oltHeard) /\ olt'.vers = olt.vers
            BY <1>2, <2>2, Sentinels DEF OltFresh, OltOK, OltRecord
        <2> QED
            BY <1>1, <2>2, <2>3 DEF KInv
    <1>7. CASE \E r \in Revs : LinkRegister(r)
        <2>1. PICK r \in Revs : LinkRegister(r)
            BY <1>7
        <2>2. /\ olt' = OltFresh(r, olt.vers) /\ down' = <<>> /\ up' = <<>>
              /\ onuHeard' = FALSE /\ oltHeard' = FALSE
              /\ intf' = oam_enable(oam_intf_init(intf))
            BY <2>1 DEF LinkRegister, oam_llid_registration
        <2>3. OltOK(olt', FALSE) /\ olt'.vers = olt.vers
            BY <1>2, <2>2, Sentinels DEF OltFresh, OltOK, OltRecord
        <2>4. OnuOK(intf', olt.vers, FALSE, FALSE)
            <3>1. \A g, w, c : HInv(intf', g, w, c)
                BY <2>2, RegisterGood
            <3>2. /\ intf' \in Intf /\ intf'.valid
                  /\ intf'.local_pdu = "RX_INFO" /\ ~intf'.remote_stable
                  /\ ~intf'.ext_valid
                BY <2>2, RegisterGood
            <3> QED
                BY <3>1, <3>2 DEF OnuOK, Calm
        <2>5. /\ up' \in Seq(UpFrame) /\ Len(up') <= Cap /\ down' \in Seq(RxPdu)
            BY <2>2, CapAssumption
        <2>6. /\ \A n \in DOMAIN down' : DownOK(down'[n], FALSE, olt.vers)
              /\ \A n \in DOMAIN up' : UpOK(up'[n], olt.vers)
            BY <2>2
        <2> QED
            BY <2>2, <2>3, <2>4, <2>5, <2>6 DEF KInv
    <1>8. CASE LoseDown
        <2>1. /\ down # <<>> /\ down' = Tail(down)
              /\ intf' = intf /\ olt' = olt /\ up' = up
              /\ onuHeard' = onuHeard /\ oltHeard' = oltHeard
            BY <1>8 DEF LoseDown
        <2> QED
            BY <1>1, <2>1, Waiting DEF KInv
    <1>9. CASE LoseUp
        <2>1. /\ up # <<>> /\ up' = Tail(up)
              /\ intf' = intf /\ olt' = olt /\ down' = down
              /\ onuHeard' = onuHeard /\ oltHeard' = oltHeard
            BY <1>9 DEF LoseUp
        <2> QED
            BY <1>1, <2>1, Waiting DEF KInv
    <1>10. ASSUME Transmit, NEW spoken \in BOOLEAN, onuHeard => spoken,
                  OnuOK(intf', olt.vers, spoken, oltHeard), intf'.valid
           PROVE  /\ up' \in Seq(UpFrame) /\ Len(up') <= Cap
                  /\ up' # <<>> => spoken
                  /\ \A n \in DOMAIN up' : UpOK(up'[n], olt.vers)
        <2>1. /\ intf' \in Intf
              /\ \A c \in BOOLEAN : (c => Both(olt.vers) = {}) => Calm(intf', c)
              /\ intf'.local_pdu # "RX_INFO" => spoken
            BY <1>10 DEF OnuOK
        <2>2. /\ \A n \in DOMAIN intf'.tx :
                    intf'.tx[n].ext \in {"list", "ack"} => Both(olt.vers) # {}
              /\ intf'.tx # <<>> => intf'.local_pdu # "RX_INFO"
            BY <1>10, <2>1, SentFits
        <2>3. intf'.tx \in Seq(TxPdu) /\ intf'.ext_version \in ExtVer
            BY <2>1 DEF Intf
        <2>4. /\ up' \in Seq(UpFrame) /\ Len(up') <= Cap
              /\ \A n \in DOMAIN up' : UpOK(up'[n], olt.vers)
              /\ up' # <<>> => up # <<>> \/ intf'.tx # <<>>
            <3>1. PICK u, tx, v, vs : /\ u = up /\ tx = intf'.tx /\ v = intf'.ext_version
                                      /\ vs = olt.vers
                OBVIOUS
            <3>2. up' = Fibre(u, tx, v)
                BY <1>10, <3>1 DEF Transmit, Fibre
            <3>3. /\ u \in Seq(UpFrame) /\ Len(u) <= Cap /\ tx \in Seq(TxPdu)
                  /\ v \in ExtVer
                  /\ \A n \in DOMAIN u : UpOK(u[n], vs)
                BY <1>1, <2>3, <3>1
            <3>4. \A n \in DOMAIN tx : tx[n].ext \in {"list", "ack"} => Both(vs) # {}
                BY <2>2, <3>1
            <3>5. /\ Fibre(u, tx, v) \in Seq(UpFrame) /\ Len(Fibre(u, tx, v)) <= Cap
                  /\ \A n \in DOMAIN Fibre(u, tx, v) : UpOK(Fibre(u, tx, v)[n], vs)
                  /\ Fibre(u, tx, v) # <<>> => u # <<>> \/ tx # <<>>
                BY <3>3, <3>4, FibreTakes
            <3> QED
                BY <3>1, <3>2, <3>5
        <2> QED
            BY <1>1, <1>10, <2>1, <2>2, <2>4
    <1>11. CASE OnuReceive
        <2>1. /\ down # <<>> /\ intf.valid
              /\ intf' = oam_ind_oami(intf, Head(down))
              /\ down' = Tail(down) /\ olt' = olt /\ oltHeard' = oltHeard
              /\ onuHeard' = (onuHeard \/ intf'.remote_state_valid)
            BY <1>11 DEF OnuReceive, Receive
        <2>2. /\ down' \in Seq(RxPdu)
              /\ \A n \in DOMAIN down' : DownOK(down'[n], oltHeard, olt.vers)
              /\ DownOK(Head(down), oltHeard, olt.vers)
            BY <2>1, Waiting
        <2>3. /\ OnuOK(intf', olt.vers, onuHeard \/ intf'.remote_state_valid,
                       oltHeard)
              /\ intf'.valid
            BY <1>1, <2>1, <2>2, OnuReceives
        <2>4. onuHeard' \in BOOLEAN /\ (onuHeard => onuHeard')
            BY <1>1, <2>1
        <2>5. OnuOK(intf', olt.vers, onuHeard', oltHeard)
            BY <2>1, <2>3
        <2>6. /\ up' \in Seq(UpFrame) /\ Len(up') <= Cap
              /\ up' # <<>> => onuHeard'
              /\ \A n \in DOMAIN up' : UpOK(up'[n], olt.vers)
            BY <1>10, <1>11, <2>3, <2>4, <2>5 DEF OnuReceive
        <2> QED
            BY <1>1, <2>1, <2>2, <2>4, <2>5, <2>6 DEF KInv
    <1>12. CASE OnuTick
        <2>1. /\ intf.valid /\ intf' = oam_keep_alive(Enter(intf))
              /\ down' = down /\ olt' = olt /\ oltHeard' = oltHeard
              /\ onuHeard' = onuHeard
            BY <1>12 DEF OnuTick, oam_time_msg_proc
        <2>2. OnuOK(intf', olt.vers, onuHeard, oltHeard) /\ intf'.valid
            BY <1>1, <2>1, OnuTicks
        <2>3. /\ up' \in Seq(UpFrame) /\ Len(up') <= Cap
              /\ up' # <<>> => onuHeard
              /\ \A n \in DOMAIN up' : UpOK(up'[n], olt.vers)
            BY <1>1, <1>10, <1>12, <2>2 DEF OnuTick
        <2> QED
            BY <1>1, <2>1, <2>2, <2>3 DEF KInv
    <1>13. CASE UNCHANGED linkVars
        BY <1>1, <1>13 DEF linkVars, KInv
    <1> QED
        BY <1>3, <1>4, <1>5, <1>6, <1>7, <1>8, <1>9, <1>11, <1>12, <1>13
        DEF LinkNext

\* It is an invariant of the specification.
LEMMA AlwaysKInv == LinkSpec => []KInv
    BY LinkStarts, LinkKeeps, PTL DEF LinkSpec
(***************************************************************************)
(* The theorems                                                            *)
(***************************************************************************)
\* When the link is open, at the ONU.
LEMMA OpenMeans ==
    ASSUME NEW i, NEW vs, NEW spoken, NEW heard, OnuOK(i, vs, spoken, heard)
    PROVE  /\ i.state_disc = "SEND_ANY" <=> i.local_satisfied /\ i.remote_stable
           /\ i.state_disc = "SEND_ANY" => heard
    <1>1. CASE i.valid
        <2>1. /\ i \in Intf
              /\ \A c \in BOOLEAN : (c => Both(vs) = {}) => Calm(i, c)
              /\ i.remote_stable => heard
            BY <1>1 DEF OnuOK
        <2>2. i.state_disc = "SEND_ANY" <=> i.local_satisfied /\ i.remote_stable
            BY <1>1, <2>1, SentFits
        <2> QED
            BY <2>1, <2>2
    <1>2. CASE ~i.valid
        <2>1. /\ i.state_disc = "FAULT" /\ i.local_satisfied = FALSE
            BY <1>2 DEF OnuOK, ZeroIntf
        <2> QED
            BY <2>1
    <1> QED
        BY <1>1, <1>2

\* VersionCommon, for every list of versions of the ONU and of the OLT: once
\* the CTC discovery at the ONU is COMPLETED, the version in use is one that
\* both ends have, although oam_ctc_disc takes the version of a short TLV
\* over unseen and frames are lost and repeated.
THEOREM VersionsAgree == LinkSpec => []VersionCommon
    <1>1. ASSUME KInv, intf.ext_status = "COMPLETED"
          PROVE  intf.ext_version \in Common
        <2>1. OnuOK(intf, olt.vers, onuHeard, oltHeard)
            BY <1>1 DEF KInv
        <2>2. intf.valid
            BY <1>1, <2>1 DEF OnuOK, ZeroIntf
        <2>3. /\ intf \in Intf
              /\ \A c \in BOOLEAN : (c => Both(olt.vers) = {}) => Calm(intf, c)
            BY <2>1, <2>2 DEF OnuOK
        <2>4. intf.ext_valid /\ Both(olt.vers) # {}
            BY <1>1, <2>2, <2>3, SentFits
        <2>5. intf.ext_version \in Both(olt.vers)
            BY <2>1, <2>4 DEF OnuOK
        <2> QED
            BY <2>5, CommonIsBoth
    <1>2. KInv => VersionCommon
        BY <1>1 DEF VersionCommon
    <1> QED
        BY <1>2, AlwaysKInv, PTL

\* A step of the ONU, the OLT or the fibre is a step of the session, or
\* changes nothing of it.
LEMMA StepOfSession ==
    ASSUME KInv, KInv', [LinkNext]_linkVars
    PROVE  [Session!SessionNext]_(Session!session)
    <1> DEFINE o == intf.state_disc = "SEND_ANY"
    <1>1. /\ onuHeard \in BOOLEAN /\ oltHeard \in BOOLEAN
          /\ onuHeard' \in BOOLEAN /\ oltHeard' \in BOOLEAN
          /\ oltHeard => onuHeard
          /\ up # <<>> => onuHeard
        BY DEF KInv
    <1>2. /\ OnuOK(intf, olt.vers, onuHeard, oltHeard)
          /\ OnuOK(intf', olt'.vers, onuHeard', oltHeard')
        BY DEF KInv
    <1>3. /\ o <=> intf.local_satisfied /\ intf.remote_stable
          /\ o' <=> intf'.local_satisfied /\ intf'.remote_stable
          /\ o => oltHeard
          /\ o' => oltHeard'
        BY <1>2, OpenMeans
    <1>4. ASSUME intf' = intf, onuHeard' = onuHeard, oltHeard' = oltHeard
          PROVE  UNCHANGED Session!session
        BY <1>4 DEF Session!session
    <1>5. CASE OltSend \/ OltFault \/ LoseDown \/ LoseUp \/ UNCHANGED linkVars
               \/ \E r \in Revs : OltRestart(r)
        BY <1>4, <1>5 DEF OltSend, OltFault, LoseDown, LoseUp, linkVars, OltRestart
    <1>6. CASE OltReceive
        <2>1. /\ onuHeard /\ oltHeard' = TRUE
              /\ intf' = intf /\ onuHeard' = onuHeard
            BY <1>1, <1>6 DEF OltReceive
        <2>2. CASE oltHeard
            BY <1>1, <1>4, <2>1, <2>2
        <2>3. CASE ~oltHeard
            BY <2>1, <2>3 DEF Session!SessionNext, Session!OltHears
        <2> QED
            BY <2>2, <2>3
    <1>7. CASE \E r \in Revs : LinkRegister(r)
        <2>1. /\ onuHeard' = FALSE /\ oltHeard' = FALSE
            BY <1>7 DEF LinkRegister
        <2>2. ~o'
            BY <1>3, <2>1
        <2> QED
            BY <2>1, <2>2 DEF Session!SessionNext, Session!Restart
    <1>8. CASE OnuReceive
        <2>1. /\ oltHeard' = oltHeard /\ (onuHeard => onuHeard')
            BY <1>1, <1>8 DEF OnuReceive
        <2>2. CASE onuHeard
            <3>1. onuHeard' = onuHeard
                BY <1>1, <2>1, <2>2
            <3>2. CASE (o' <=> o)
                BY <2>1, <3>1, <3>2 DEF Session!session
            <3>3. CASE o /\ ~o'
                BY <2>1, <3>1, <3>3 DEF Session!SessionNext, Session!Close
            <3>4. CASE ~o /\ o'
                BY <1>3, <2>1, <2>2, <3>1, <3>4
                DEF Session!SessionNext, Session!Open
            <3> QED
                BY <3>2, <3>3, <3>4
        <2>3. CASE ~onuHeard
            <3>1. ~o /\ ~o'
                BY <1>1, <1>3, <2>1, <2>3
            <3>2. CASE onuHeard'
                BY <1>1, <2>1, <2>3, <3>1, <3>2
                DEF Session!SessionNext, Session!OnuHears
            <3>3. CASE ~onuHeard'
                BY <1>1, <2>1, <2>3, <3>1, <3>3 DEF Session!session
            <3> QED
                BY <3>2, <3>3
        <2> QED
            BY <2>2, <2>3
    <1>9. CASE OnuTick
        <2>1. /\ intf.valid /\ intf' = oam_keep_alive(Enter(intf))
              /\ onuHeard' = onuHeard /\ oltHeard' = oltHeard
            BY <1>9 DEF OnuTick, oam_time_msg_proc
        <2>2. SameInputs(intf, intf')
            BY <1>1, <1>2, <2>1, OnuTicks
        <2>3. o' <=> o
            BY <1>3, <2>2 DEF SameInputs
        <2> QED
            BY <2>1, <2>3 DEF Session!session
    <1> QED
        BY <1>5, <1>6, <1>7, <1>8, <1>9 DEF LinkNext

\* ImplementsSession: over a fibre that loses frames, with an OLT that
\* restarts or reports faults and with registrations in between, the
\* handlers of the ONU implement the three-way handshake of OamSession.  The
\* ONU is spoken to first, the OLT hears it, and only then oam_sm_run reaches
\* SEND_ANY.
THEOREM LinkImplementsSession == LinkSpec => ImplementsSession
    <1>1. LinkInit => Session!SessionInit
        BY DEF LinkInit, Init, ZeroIntf, Session!SessionInit
    <1>2. KInv /\ KInv' /\ [LinkNext]_linkVars =>
            [Session!SessionNext]_(Session!session)
        BY StepOfSession
    <1> QED
        BY <1>1, <1>2, AlwaysKInv, PTL
        DEF LinkSpec, ImplementsSession, Session!SessionSpec


=============================================================================
