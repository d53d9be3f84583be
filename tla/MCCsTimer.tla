----------------------------- MODULE MCCsTimer -----------------------------
(***************************************************************************)
(* Instances of CsTimer, all with the application as the only user of      *)
(* timers: _app with periodic message timers and a one-shot timer nobody   *)
(* deletes, _lost with the laser control, which deletes a one-shot timer,  *)
(* beside a periodic one.                                                  *)
(***************************************************************************)
EXTENDS CsTimer, TLC

Symmetric == Permutations(Block)
=============================================================================
