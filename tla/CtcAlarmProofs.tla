--------------------------- MODULE CtcAlarmProofs ---------------------------
(***************************************************************************)
(* Proofs about CtcAlarm, for every finite set of alarms and every choice  *)
(* of the polled ones.                                                     *)
(***************************************************************************)
EXTENDS CtcAlarm, FiniteSetTheorems, TLAPS

\* The polled alarms that are on, which polling_enable_counter counts.
PolledOn(e) == {a \in Polled : e[a]}

\* They are finitely many.
LEMMA PolledOnFinite ==
    ASSUME NEW e
    PROVE  /\ IsFiniteSet(PolledOn(e))
           /\ Cardinality(PolledOn(e)) \in Nat
           /\ Cardinality(PolledOn(e)) = 0 <=> PolledOn(e) = {}
<1>1. PolledOn(e) \in SUBSET Alarm /\ IsFiniteSet(Alarm)
  BY AlarmAssumption DEF PolledOn
<1>2. IsFiniteSet(PolledOn(e))
  BY <1>1, FS_Subset
<1> QED
  BY <1>2, FS_CardinalityType, FS_EmptySet

\* Switching an alarm that is not polled changes nothing.
LEMMA PolledOnOther ==
    ASSUME NEW e \in [Alarm -> BOOLEAN], NEW a \in Alarm \ Polled,
           NEW on \in BOOLEAN
    PROVE  PolledOn([e EXCEPT ![a] = on]) = PolledOn(e)
  BY AlarmAssumption DEF PolledOn

\* Switching a polled alarm that is off on counts one more, and switching one
\* that is on off counts one less.
LEMMA PolledOnSwitched ==
    ASSUME NEW e \in [Alarm -> BOOLEAN], NEW a \in Polled
    PROVE  /\ ~e[a] => Cardinality(PolledOn([e EXCEPT ![a] = TRUE]))
                        = Cardinality(PolledOn(e)) + 1
           /\ e[a] => /\ Cardinality(PolledOn([e EXCEPT ![a] = FALSE]))
                            = Cardinality(PolledOn(e)) - 1
                      /\ Cardinality(PolledOn(e)) > 0
<1>f. IsFiniteSet(PolledOn(e)) /\ Cardinality(PolledOn(e)) \in Nat
  BY PolledOnFinite
<1>1. ASSUME ~e[a]
      PROVE  Cardinality(PolledOn([e EXCEPT ![a] = TRUE]))
                = Cardinality(PolledOn(e)) + 1
  <2>1. PolledOn([e EXCEPT ![a] = TRUE]) = PolledOn(e) \cup {a}
    BY AlarmAssumption DEF PolledOn
  <2>2. a \notin PolledOn(e)
    BY <1>1 DEF PolledOn
  <2> QED
    BY <1>f, <2>1, <2>2, FS_AddElement
<1>2. ASSUME e[a]
      PROVE  /\ Cardinality(PolledOn([e EXCEPT ![a] = FALSE]))
                    = Cardinality(PolledOn(e)) - 1
             /\ Cardinality(PolledOn(e)) > 0
  <2>1. PolledOn([e EXCEPT ![a] = FALSE]) = PolledOn(e) \ {a}
    BY AlarmAssumption DEF PolledOn
  <2>2. a \in PolledOn(e)
    BY <1>2 DEF PolledOn
  <2>3. PolledOn(e) # {}
    BY <2>2
  <2>4. Cardinality(PolledOn(e)) > 0
    BY <1>f, <2>3, PolledOnFinite
  <2> QED
    BY <1>f, <2>1, <2>2, <2>4, FS_RemoveElement
<1> QED
  BY <1>1, <1>2

\* ctc_oam_build_alarm_event leaves RAISE or CLEAR.
LEMMA AlarmEventType ==
    ASSUME TypeOK, NEW a \in Alarm, NEW op \in Level
    PROVE  ctc_oam_build_alarm_event(a, op) \in Op
  BY DEF TypeOK, ctc_oam_build_alarm_event

\* The fields the counting does not look at keep their types.
LEMMA TypeStep ==
    ASSUME TypeOK, [Next]_vars
    PROVE  /\ enable' \in [Alarm -> BOOLEAN]
           /\ alarm_state' \in [Alarm -> Op]
           /\ level' \in [Alarm -> Level]
           /\ {queued', registered', completed', sensor'} \subseteq BOOLEAN
<1>t. /\ enable \in [Alarm -> BOOLEAN] /\ alarm_state \in [Alarm -> Op]
      /\ level \in [Alarm -> Level]
      /\ {queued, registered, completed, sensor} \subseteq BOOLEAN
      /\ Op \subseteq Level /\ Polled \subseteq Alarm
  BY AlarmAssumption DEF TypeOK, Op, Level
<1>1. ASSUME NEW a \in Alarm \ Polled, NEW op \in Op,
             ctc_oam_alarm_port_callback(a, op)
      PROVE  level' \in [Alarm -> Level] /\ alarm_state' \in [Alarm -> Op]
  <2>1. ctc_oam_build_alarm_event(a, op) \in Op
    BY <1>t, AlarmEventType
  <2> QED
    BY <1>1, <1>t, <2>1 DEF ctc_oam_alarm_port_callback
<1>2. ASSUME ctc_oam_alarm_polling
      PROVE  alarm_state' \in [Alarm -> Op]
  <2>1. \A a \in Alarm : ctc_oam_build_alarm_event(a, level[a]) \in Op
    BY <1>t, AlarmEventType
  <2> QED
    BY <1>2, <1>t, <2>1 DEF ctc_oam_alarm_polling
<1>3. CASE \E a \in Alarm \ Polled, op \in Op : ctc_oam_alarm_port_callback(a, op)
  BY <1>1, <1>3, <1>t DEF ctc_oam_alarm_port_callback
<1>4. CASE ctc_oam_alarm_polling
  BY <1>2, <1>4, <1>t DEF ctc_oam_alarm_polling
<1>5. CASE \E a \in Alarm, on, got \in BOOLEAN : ctc_oam_set_alarm_config(a, on, got)
  BY <1>5, <1>t DEF ctc_oam_set_alarm_config, SwitchOn, SwitchOff
<1>6. CASE TimerFires
  BY <1>6, <1>t DEF TimerFires
<1>7. CASE \E a \in Polled, l \in Level : ctc_oam_set_alarm_threshold(a, l)
  BY <1>7, <1>t DEF ctc_oam_set_alarm_threshold
<1>8. CASE SensorChange
  BY <1>8, <1>t DEF SensorChange
<1>9. CASE Register
  BY <1>9, <1>t DEF Register
<1>10. CASE ctc_oam_discovery_result_get
  BY <1>10, <1>t DEF ctc_oam_discovery_result_get
<1>11. CASE onu_pon_link_down_proc
  BY <1>11, <1>t DEF onu_pon_link_down_proc, Op
<1>12. CASE UNCHANGED vars
  BY <1>12, <1>t DEF vars
<1> QED
  BY <1>3, <1>4, <1>5, <1>6, <1>7, <1>8, <1>9, <1>10, <1>11, <1>12 DEF Next

\* The counter, the timer and the polled alarms agree.
CountInv ==
    /\ polling_enable_counter = Cardinality(PolledOn(enable))
    /\ timer_handler <=> polling_enable_counter > 0 /\ ~no_timer
    /\ timer_handler \in BOOLEAN /\ no_timer \in BOOLEAN

\* A request of the OLT keeps them in agreement: the early return for a
\* setting that is already made is what the proof turns on.
LEMMA ConfigCounts ==
    ASSUME TypeOK, CountInv, NEW a \in Alarm, NEW on \in BOOLEAN,
           NEW got \in BOOLEAN, ctc_oam_set_alarm_config(a, on, got)
    PROVE  CountInv'
<1> DEFINE n == Cardinality(PolledOn(enable))
<1>t. enable \in [Alarm -> BOOLEAN] /\ n \in Nat
      /\ polling_enable_counter = n
      /\ timer_handler \in BOOLEAN /\ no_timer \in BOOLEAN
      /\ (timer_handler <=> n > 0 /\ ~no_timer)
  BY PolledOnFinite DEF TypeOK, CountInv
<1>1. CASE a \notin Polled
  <2>1. /\ UNCHANGED <<polling_enable_counter, timer_handler, no_timer>>
        /\ enable' = [enable EXCEPT ![a] = on]
    BY <1>1 DEF ctc_oam_set_alarm_config, SwitchOn, SwitchOff
  <2>2. PolledOn(enable') = PolledOn(enable)
    BY <1>1, <1>t, <2>1, PolledOnOther
  <2> QED
    BY <2>1, <2>2 DEF CountInv
<1>2. CASE a \in Polled /\ on
  <2>1. /\ ~enable[a] /\ enable' = [enable EXCEPT ![a] = TRUE]
        /\ polling_enable_counter' = n + 1
        /\ ctc_alarm_start_polling_timer(got)
    BY <1>2, <1>t DEF ctc_oam_set_alarm_config, SwitchOn
  <2>2. Cardinality(PolledOn(enable')) = n + 1
    BY <1>2, <1>t, <2>1, PolledOnSwitched
  <2>3. CASE n = 0
    <3>1. timer_handler' = got /\ no_timer' = ~got
      BY <2>1, <2>3 DEF ctc_alarm_start_polling_timer
    <3>2. polling_enable_counter' > 0
      BY <2>1, <2>3
    <3> QED
      BY <2>1, <2>2, <3>1, <3>2, Zenon DEF CountInv
  <2>4. CASE n # 0
    <3>1. UNCHANGED <<timer_handler, no_timer>>
      BY <1>t, <2>1, <2>4 DEF ctc_alarm_start_polling_timer
    <3> QED
      BY <1>t, <2>1, <2>2, <2>4, <3>1 DEF CountInv
  <2> QED
    BY <2>3, <2>4
<1>3. CASE a \in Polled /\ ~on
  <2>0. enable[a]
    BY <1>3, <1>t DEF ctc_oam_set_alarm_config
  <2>1. n > 0
    BY <1>3, <1>t, <2>0, PolledOnSwitched
  <2>2. /\ enable' = [enable EXCEPT ![a] = FALSE]
        /\ polling_enable_counter' = n - 1
        /\ ctc_alarm_stop_polling_timer
    BY <1>3, <1>t, <2>1 DEF ctc_oam_set_alarm_config, SwitchOff
  <2>3. Cardinality(PolledOn(enable')) = n - 1
    BY <1>3, <1>t, <2>0, <2>2, PolledOnSwitched
  <2>4. CASE n = 1
    <3>1. timer_handler' = FALSE /\ no_timer' = FALSE
      BY <2>2, <2>4 DEF ctc_alarm_stop_polling_timer
    <3>2. ~(polling_enable_counter' > 0)
      BY <2>2, <2>4
    <3> QED
      BY <2>2, <2>3, <3>1, <3>2, Zenon DEF CountInv
  <2>5. CASE n # 1
    <3>1. UNCHANGED <<timer_handler, no_timer>>
      BY <1>t, <2>1, <2>2, <2>5 DEF ctc_alarm_stop_polling_timer
    <3> QED
      BY <1>t, <2>1, <2>2, <2>3, <2>5, <3>1 DEF CountInv
  <2> QED
    BY <2>4, <2>5
<1> QED
  BY <1>1, <1>2, <1>3

\* Every step keeps them in agreement.
LEMMA CountStep == TypeOK /\ CountInv /\ [Next]_vars => CountInv'
<1> SUFFICES ASSUME TypeOK, CountInv, [Next]_vars PROVE CountInv'
  OBVIOUS
<1>1. ASSUME UNCHANGED <<enable, polling_enable_counter, timer_handler, no_timer>>
      PROVE  CountInv'
  BY <1>1 DEF CountInv
<1>2. CASE \E a \in Alarm, on, got \in BOOLEAN : ctc_oam_set_alarm_config(a, on, got)
  BY <1>2, ConfigCounts
<1>3. CASE onu_pon_link_down_proc
  <2>1. PolledOn(enable') = {}
    BY <1>3, AlarmAssumption DEF onu_pon_link_down_proc, PolledOn
  <2>2. Cardinality(PolledOn(enable')) = 0
    BY <2>1, FS_EmptySet
  <2>3. polling_enable_counter' = 0 /\ ~timer_handler' /\ ~no_timer'
        /\ timer_handler' \in BOOLEAN /\ no_timer' \in BOOLEAN
    BY <1>3, Zenon DEF onu_pon_link_down_proc
  <2>4. ~(polling_enable_counter' > 0)
    BY <2>3
  <2> QED
    BY <2>2, <2>3, <2>4, Zenon DEF CountInv
<1> QED
  BY <1>1, <1>2, <1>3
  DEF Next, vars, ctc_oam_alarm_port_callback, ctc_oam_alarm_polling, TimerFires,
      ctc_oam_set_alarm_threshold, SensorChange, Register,
      ctc_oam_discovery_result_get

\* At boot no alarm is on and no timer runs.
LEMMA AlarmInit == Init => TypeOK /\ CountInv
<1> SUFFICES ASSUME Init PROVE TypeOK /\ CountInv
  OBVIOUS
<1>1. PolledOn(enable) = {}
  BY AlarmAssumption DEF Init, PolledOn
<1>2. Cardinality(PolledOn(enable)) = 0
  BY <1>1, FS_EmptySet
<1>3. TypeOK
  BY DEF Init, TypeOK, Op, Level
<1>4. ~(0 > 0)
  OBVIOUS
<1> QED
  BY <1>2, <1>3, <1>4, Zenon DEF Init, CountInv

\* The polling timer runs exactly while a polled alarm is on, unless no timer
\* could be had for the first of them: for any number of alarms, any split
\* into polled and other ones and any sequence of requests, repeated ones
\* included, polling_enable_counter never drifts from what it counts.
THEOREM AlarmTimerWhileNeeded == Spec => []TimerWhileNeeded
<1>1. TypeOK /\ CountInv /\ [Next]_vars => TypeOK' /\ CountInv'
  <2> SUFFICES ASSUME TypeOK, CountInv, [Next]_vars PROVE TypeOK' /\ CountInv'
    OBVIOUS
  <2>1. CountInv'
    BY CountStep
  <2>2. polling_enable_counter' \in Nat
    BY <2>1, PolledOnFinite DEF CountInv
  <2>3. timer_handler' \in BOOLEAN /\ no_timer' \in BOOLEAN
    BY <2>1 DEF CountInv
  <2> QED
    BY <2>1, <2>2, <2>3, TypeStep DEF TypeOK
<1>2. TypeOK /\ CountInv => TimerWhileNeeded
  BY DEF TimerWhileNeeded, CountInv, PolledOn
<1> QED
  BY <1>1, <1>2, AlarmInit, PTL DEF Spec
=============================================================================
