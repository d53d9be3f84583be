---------------------------- MODULE MCPortStats ----------------------------
(***************************************************************************)
(* Two threads count a statistic whose hardware counter wraps after a few  *)
(* frames.                                                                 *)
(***************************************************************************)
EXTENDS PortStats, TLC

CONSTANTS app, shell
Symmetry == Permutations({app, shell})
=============================================================================
