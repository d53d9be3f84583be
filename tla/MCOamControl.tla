---------------------------- MODULE MCOamControl ----------------------------
(***************************************************************************)
(* A small instance of OamControl.  DiscPdus exercises the two state       *)
(* machines with every code and flag an OLT can send and no CTC TLV; the   *)
(* extended discovery is exercised by OamLink.                             *)
(***************************************************************************)
EXTENDS OamControl

MCVerList == <<"v21", "v20">>

NoExt == [kind |-> "none"]

\* EVALUATING and STABLE exclude each other, except in one malformed frame.
DiscPdus ==
    [code : {"INFO"}, eval : {FALSE}, stable : BOOLEAN, fault : BOOLEAN,
     rev : Revs, good : BOOLEAN, active : {TRUE}, ext : {NoExt}]
    \cup [code : {"INFO"}, eval : {TRUE}, stable : {TRUE}, fault : {FALSE},
          rev : Revs, good : {TRUE}, active : {FALSE}, ext : {NoExt}]
    \cup [code : {"INFO"}, eval : {FALSE}, stable : {TRUE}, fault : {FALSE},
          rev : Revs, good : {TRUE}, active : {FALSE}, ext : {NoExt}]
    \cup [code : {"EVENT"}, eval : {FALSE}, stable : BOOLEAN, fault : BOOLEAN,
          seq : Seqs]
    \cup [code : {"VAR_REQ"}, eval : {FALSE}, stable : BOOLEAN]
    \cup [code : {"LOOPBACK"}, eval : {FALSE}, stable : {TRUE},
          enable : BOOLEAN]
    \cup [code : {"ORG_SPEC", "PASSAVE_PING"}, eval : {FALSE},
          stable : {TRUE}]
=============================================================================
