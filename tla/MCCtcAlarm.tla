----------------------------- MODULE MCCtcAlarm -----------------------------
(***************************************************************************)
(* Two polled alarms, so that one keeps the timer when the other is        *)
(* switched off, and one alarm that is not polled.                         *)
(***************************************************************************)
EXTENDS CtcAlarm

CONSTANTS rx_power, voltage, link_loss
=============================================================================
