----------------------------- MODULE MCOamLink -----------------------------
(***************************************************************************)
(* OamLink for an OLT with both versions of the ONU, one that shares only  *)
(* the ONU's second choice and one that shares none.                       *)
(***************************************************************************)
EXTENDS OamLink

MCVerList == <<"v21", "v20">>

MCOltVersions == {{"v20", "v21"}, {"v20", "v30"}, {"v30"}}

MCOltPdus ==
    [code : {"INFO"}, eval : {FALSE}, stable : BOOLEAN, fault : BOOLEAN,
     rev : Revs, good : {TRUE}, active : {TRUE},
     ext : [kind : {"none"}] \cup [kind : {"list"}, vers : MCOltVersions]
           \cup [kind : {"short"}, support : BOOLEAN, ver : Version]]
=============================================================================
