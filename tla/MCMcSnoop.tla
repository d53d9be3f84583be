----------------------------- MODULE MCMcSnoop -----------------------------
(***************************************************************************)
(* Two groups that share a MAC address.  Port p1 has hosts of IGMPv2 and   *)
(* IGMPv3 for g1, and both ports have hosts for g2; one report joins both  *)
(* groups, of which only the first can get in.  The third source is one    *)
(* too many for the list of an entry.                                      *)
(***************************************************************************)
EXTENDS McSnoop

CONSTANTS p1, p2, g1, g2, g3, s1, s2, s3

MCMac == [g \in Groups |-> IF g = g2 THEN "n" ELSE "m"]
MCDftGroup == [g \in Groups |-> IF g = g2 THEN g2 ELSE g1]

Rec(g, type, src) == [grp |-> g, type |-> type, src |-> src, asm |-> FALSE, static |-> FALSE]
V2Report(g) == [Rec(g, "IS_EX", {}) EXCEPT !.asm = TRUE]
V2Leave(g) == Rec(g, "TO_IN", {})

SrcLists == {{}, {s1}, {s1, s2}}
V3Records == {Rec(g1, type, src) : type \in RecordTypes, src \in SrcLists}
\* "no src, it is an illegal report"
Legal(rec) == rec.src = {} => rec.type \in {"IS_EX", "TO_EX", "TO_IN", "BLOCK"}

MCReports ==
  {<<p1, <<rec>>>> : rec \in {r \in V3Records : Legal(r)}}
  \cup {<<p1, <<rec>>>> : rec \in {V2Report(g1), Rec(g1, "ALLOW", {s3}), V2Report(g3)}}
  \cup {<<p2, <<V2Report(g2)>>>>, <<p1, <<Rec(g2, "TO_EX", {}), Rec(g3, "TO_EX", {})>>>>}

\* ... and the illegal report, which mc_grp_record_parse lets through
SourcelessReports == {<<p1, <<V2Report(g1)>>>>, <<p1, <<Rec(g1, "IS_IN", {})>>>>}
=============================================================================
