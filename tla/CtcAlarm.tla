------------------------------ MODULE CtcAlarm ------------------------------
(***************************************************************************)
(* The CTC alarms, app_alarm_ctc.c.  The OLT switches each alarm on or     *)
(* off.  Some alarms (optical power, voltage, temperature) are polled: a   *)
(* timer runs while at least one of them is on and compares the measured   *)
(* value with a raise and a clear threshold.  The others (link, auto       *)
(* negotiation, congestion) come from a callback when their cause changes. *)
(* An alarm event is sent when an alarm that is on changes its state.      *)
(*                                                                         *)
(* All handlers run in the application thread, one at a time; the timer    *)
(* thread only puts messages into app_msg_q.                               *)
(*                                                                         *)
(* The thresholds, their four comparisons and the measured value are       *)
(* abstracted to what the poll makes of them: the value is at the raise    *)
(* threshold, past the clear threshold, or between the two.                *)
(***************************************************************************)
EXTENDS Integers, FiniteSets

CONSTANTS
    Alarm,      \* alarms of the configuration tables
    Polled      \* the ones with polling_need

ASSUME AlarmAssumption == IsFiniteSet(Alarm) /\ Polled \subseteq Alarm

Op == {"RAISE", "CLEAR"}
Level == {"RAISE", "BETWEEN", "CLEAR"}

VARIABLES
    enable,                  \* per alarm, CTC_ALARM_ON
    alarm_state,             \* per alarm, RAISE or CLEAR
    level,                   \* per alarm, what its cause calls for
    polling_enable_counter,  \* g_alarm_polling_cb
    timer_handler,           \* ... whether its timer runs
    queued,                  \* a message of the timer is in app_msg_q
    registered,              \* oam_intf_find succeeds
    completed,               \* the CTC discovery is complete
    sensor,                  \* the optical module answers on the I2C bus
    no_timer                 \* history: the timer could not be had when the
                             \* first polled alarm was last switched on

vars == <<enable, alarm_state, level, polling_enable_counter, timer_handler,
          queued, registered, completed, sensor, no_timer>>

Init ==
    /\ enable = [a \in Alarm |-> FALSE]
    /\ alarm_state = [a \in Alarm |-> "CLEAR"]
    /\ level = [a \in Alarm |-> "CLEAR"]
    /\ polling_enable_counter = 0
    /\ timer_handler = FALSE
    /\ queued = FALSE
    /\ registered = FALSE
    /\ completed = FALSE
    /\ sensor = TRUE
    /\ no_timer = FALSE

(***************************************************************************)
(* Alarm events                                                            *)
(***************************************************************************)
\* The state of alarm a after ctc_oam_build_alarm_event(a, op); an event is
\* sent exactly when it differs from the state before.
ctc_oam_build_alarm_event(a, op) ==
    IF registered /\ enable[a] /\ op \in Op THEN op ELSE alarm_state[a]

\* The cause of an alarm that is not polled changes: link, auto negotiation
\* or congestion callback.
ctc_oam_alarm_port_callback(a, op) ==
    /\ level' = [level EXCEPT ![a] = op]
    /\ alarm_state' = [alarm_state EXCEPT ![a] =
                            ctc_oam_build_alarm_event(a, op)]
    /\ UNCHANGED <<enable, polling_enable_counter, timer_handler, queued,
                   registered, completed, sensor, no_timer>>

\* Mutant: the poll raises alarms and never clears them.
Mut_PollNeverClears ==
    /\ queued
    /\ queued' = FALSE
    /\ alarm_state' = [a \in Alarm |->
            IF completed /\ a \in Polled /\ sensor /\ level[a] = "RAISE"
            THEN ctc_oam_build_alarm_event(a, level[a])
            ELSE alarm_state[a]]
    /\ UNCHANGED <<enable, level, polling_enable_counter, timer_handler,
                   registered, completed, sensor, no_timer>>

\* The message of the timer.  It may come after the timer was deleted.
ctc_oam_alarm_polling ==
    /\ queued
    /\ queued' = FALSE
    /\ alarm_state' = [a \in Alarm |->
            IF completed /\ a \in Polled /\ enable[a] /\ sensor
            THEN ctc_oam_build_alarm_event(a, level[a])
            ELSE alarm_state[a]]
    /\ UNCHANGED <<enable, level, polling_enable_counter, timer_handler,
                   registered, completed, sensor, no_timer>>

(***************************************************************************)
(* Switching an alarm on and off, by the OLT's extended variable requests  *)
(***************************************************************************)
\* The first polled alarm starts the timer; got: a timer could be had.
ctc_alarm_start_polling_timer(got) ==
    IF polling_enable_counter' = 1
    THEN timer_handler' = got /\ no_timer' = ~got
    ELSE UNCHANGED <<timer_handler, no_timer>>

\* The last one stops it.
ctc_alarm_stop_polling_timer ==
    IF polling_enable_counter' = 0
    THEN timer_handler' = FALSE /\ no_timer' = FALSE
    ELSE UNCHANGED <<timer_handler, no_timer>>

SwitchOn(a, got) ==
    /\ enable' = [enable EXCEPT ![a] = TRUE]
    /\ IF a \in Polled
       THEN /\ polling_enable_counter' = polling_enable_counter + 1
            /\ ctc_alarm_start_polling_timer(got)
       ELSE UNCHANGED <<polling_enable_counter, timer_handler, no_timer>>

SwitchOff(a) ==
    /\ enable' = [enable EXCEPT ![a] = FALSE]
    /\ IF a \in Polled /\ polling_enable_counter > 0
       THEN /\ polling_enable_counter' = polling_enable_counter - 1
            /\ ctc_alarm_stop_polling_timer
       ELSE UNCHANGED <<polling_enable_counter, timer_handler, no_timer>>

\* Mutant: a repeated request is applied again.
Mut_AlwaysApplied(a, on, got) ==
    /\ IF on THEN SwitchOn(a, got) ELSE SwitchOff(a)
    /\ UNCHANGED <<alarm_state, level, queued, registered, completed, sensor>>

\* A request that does not change the setting does nothing.
ctc_oam_set_alarm_config(a, on, got) ==
    /\ on # enable[a]
    /\ IF on THEN SwitchOn(a, got) ELSE SwitchOff(a)
    /\ UNCHANGED <<alarm_state, level, queued, registered, completed, sensor>>

(***************************************************************************)
(* The surroundings                                                        *)
(***************************************************************************)
\* The timer thread puts a message into app_msg_q.
TimerFires ==
    /\ timer_handler
    /\ queued' = TRUE
    /\ UNCHANGED <<enable, alarm_state, level, polling_enable_counter,
                   timer_handler, registered, completed, sensor, no_timer>>

\* A measured value moves, or the OLT sets other thresholds.
ctc_oam_set_alarm_threshold(a, l) ==
    /\ level' = [level EXCEPT ![a] = l]
    /\ UNCHANGED <<enable, alarm_state, polling_enable_counter, timer_handler,
                   queued, registered, completed, sensor, no_timer>>

\* The I2C bus fails or works again: while it fails the poll skips the alarm.
SensorChange ==
    /\ sensor' = ~sensor
    /\ UNCHANGED <<enable, alarm_state, level, polling_enable_counter,
                   timer_handler, queued, registered, completed, no_timer>>

\* Registration starts the CTC discovery afresh and leaves the alarms alone.
Register ==
    /\ registered' = TRUE
    /\ completed' = FALSE
    /\ UNCHANGED <<enable, alarm_state, level, polling_enable_counter,
                   timer_handler, queued, sensor, no_timer>>

\* The CTC discovery completes, or the OLT starts it again.
ctc_oam_discovery_result_get ==
    /\ registered
    /\ completed' = ~completed
    /\ UNCHANGED <<enable, alarm_state, level, polling_enable_counter,
                   timer_handler, queued, registered, sensor, no_timer>>

\* Deregistration: the board resets.
onu_pon_link_down_proc ==
    /\ registered
    /\ enable' = [a \in Alarm |-> FALSE]
    /\ alarm_state' = [a \in Alarm |-> "CLEAR"]
    /\ polling_enable_counter' = 0
    /\ timer_handler' = FALSE
    /\ queued' = FALSE
    /\ registered' = FALSE
    /\ completed' = FALSE
    /\ no_timer' = FALSE
    /\ UNCHANGED <<level, sensor>>

Next ==
    \/ \E a \in Alarm \ Polled, op \in Op : ctc_oam_alarm_port_callback(a, op)
    \/ ctc_oam_alarm_polling
    \/ \E a \in Alarm, on, got \in BOOLEAN :
            registered /\ ctc_oam_set_alarm_config(a, on, got)
    \/ TimerFires
    \/ \E a \in Polled, l \in Level : ctc_oam_set_alarm_threshold(a, l)
    \/ SensorChange
    \/ Register
    \/ ctc_oam_discovery_result_get
    \/ onu_pon_link_down_proc

\* The timer is periodic and the application thread handles its messages.
Spec == Init /\ [][Next]_vars /\ WF_vars(TimerFires)
             /\ WF_vars(ctc_oam_alarm_polling)

(***************************************************************************)
(* Properties                                                              *)
(***************************************************************************)
\* The alarm state has its type.
TypeOK ==
    /\ enable \in [Alarm -> BOOLEAN]
    /\ alarm_state \in [Alarm -> Op]
    /\ level \in [Alarm -> Level]
    /\ polling_enable_counter \in Nat
    /\ {timer_handler, queued, registered, completed, sensor, no_timer}
            \subseteq BOOLEAN

\* The polling timer runs exactly while a polled alarm is switched on, however
\* often the OLT repeats its requests: unless the timer could not be had at
\* the moment the first polled alarm was switched on.
TimerWhileNeeded ==
    /\ TypeOK
    /\ polling_enable_counter = Cardinality({a \in Polled : enable[a]})
    /\ timer_handler <=> polling_enable_counter > 0 /\ ~no_timer

\* The ONU stays able to report a: it is switched on, the CTC discovery is
\* complete, the optical module answers and a timer could be had.
Watched(a) == enable[a] /\ completed /\ sensor /\ ~no_timer

\* A polled alarm follows its cause: if it is watched for good and the value
\* stays at the raise (clear) threshold, it is raised (cleared) for good.
AlarmFollowsCause ==
    \A a \in Polled, op \in Op :
        <>[](Watched(a) /\ level[a] = op) => <>[](alarm_state[a] = op)

=============================================================================
