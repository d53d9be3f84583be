# The OAM sublayer of the GT873M EPON ONU, in TLA+

This directory holds a verification project for the firmware in `src/`: an ONU
(subscriber box) of an Ethernet passive optical network, running on eCos. The
modules model the 802.3ah OAM sublayer and what hangs on it: how the ONU is
discovered and managed by the OLT (head end), how it reports errors and alarms,
and how it counts; the software timers everything else rests on; and the
multicast snooping that decides which streams reach a subscriber's port. All paths below are relative to the repository's root, which
is `src/`; `oam/` is short for `src/cmn/apps/oam/`, `lynx/` for
`src/onu/apps/lynx/`.

## 1. Inventory

### Threads

eCos is preemptive with fixed priorities (a lower number wins): shell 6, timer
thread 8, application thread 10, daemon 17, telnet 19. Nearly all protocol code
runs in the **application thread** (`app_thread`, `lynx/cortina/app_init.c`),
which takes one message at a time from the priority queue `app_msg_q`: received
frames, events of the driver (registration, link, buffer congestion) and
messages of timers. A handler runs to its end before the next one starts; the
timer thread only puts messages into the queue. What really runs beside the
application thread is the shell and telnet (commands that change windows,
thresholds and the loopback depth, or count statistics) and the power-fail path
(`oam_send_dying_gasp`).

### Components

| component | source | state | operations | modelled in |
|---|---|---|---|---|
| OAM interface | `oam/oam_control.c`, `oam_core.c`, `oam_timer.c`, `oam_mux_par.c` | `oam_if_t`: discovery state, transmit state, budget, two timers, one pending request | `oam_sm_run`, `oam_req_oampdu`, `oam_req_oam_ctl`, `oam_keep_alive`, registration | `OamIf`, `OamControl` |
| OAM client | `oam/oam_client.c`, `oam_main.c`, `lynx/oam/ctc/oam_ctc_client.c` | last revision and sequence number received, status of the CTC extended discovery | one handler per OAMPDU code, builders | `OamIf`, `OamControl`; with an OLT in `OamLink` |
| remote loopback | `oam/oam_client.c`, `oam_mux_par.c`, `oam_sdl_if.c` | `lb_state_self`, mux and parser action, revision, a static flag, the hardware | loopback command, Information TLV, `app lpbk` | `OamLoopback` |
| link monitor | `oam/oam_event.c` | windows, values, running totals, baseline of the statistics | poll, resets, `app errevt` | `OamEvent` |
| port statistics | `lynx/cortina/port_stats.c` | 64-bit counters and last readings | count, clear | `PortStats` |
| CTC alarms | `lynx/oam/ctc/app_alarm_ctc.c` | switch and state per alarm, polling timer | switch, poll, callbacks | `CtcAlarm` |
| event delivery | `lynx/cortina/app_evt.c`, `app_init.c` | `app_msg_q` | `event_detect`, `app_thread` | as the interleaving of handlers |
| CTC attributes | `lynx/oam/ctc/app_oam_ctc*.c` | none of their own | get/set per attribute | no |
| CTC statistics monitor | `lynx/oam/ctc/app_stats_ctc.c` | history of statistics | timer, get, clear | planned |
| IGMP/MLD snooping | `src/cmn/apps/mcast/src/`, `lynx/mcast/` | port groups with source lists and timers, counters and limits, the switch's L2 table | report, query, ageing, control entries of the OLT, settings | `McSnoop` |
| GWD vendor OAM | `src/onu/apps/gwd/` | loop detection per port, remote shell | vendor OAMPDUs | planned |
| timers | `src/cmn/plat/cs_timer.c`, `util/util_list.c` | two lists of timers, their flags | add, delete, pass of the timer thread | `CsTimer` |
| memory pools | `src/cmn/plat/mempool.c` | bitmap and count of free elements | allocate, free | `CsTimer` (the timer pool) |
| configuration, images | `src/cmn/plat/{startup_cfg,image}.c` | TLVs in flash, two images | save, upgrade | planned |
| shell, web, telnet, drivers | `src/cmn/plat/shell.c`, `lynx/web`, `lynx/trmsvr`, `src/onu/sdl` | text and register I/O | – | no |
| eCos, switch library | – | – | – | no (third party) |

### How they interact

* The driver's registration event runs a list of handlers in one message:
  `onu_pon_link_down_proc` resets the whole board when the LLID was lost; when it
  was gained, `oam_intf_init` and `oam_enable` start the interface afresh and
  `oam_link_event_reset` the link monitor.
* A frame goes through `oam_rx_rule_passed` and `oam_proc_pdu_sanity` to
  `oam_ind_oampdu`; its handler changes the inputs of the discovery machine
  (`oam_req_oam_ctl`), asks for a reply (`oam_req_oampdu`) or hands it to the
  transmit rule itself (`oam_discovery_send`). Each of these ends in
  `oam_sm_run`, which alternates the discovery and the transmit machine until
  neither moves.
* The OAM timer (one second) runs both timers of the interface; the link
  monitor's timer polls the statistics that a third timer, or the shell, keeps
  up to date; the alarm timer polls the optical module.
* Error events and CTC alarms share the interface's sequence number.
* IGMP and MLD frames, the ageing message (one second) and the OLT's multicast
  attributes all reach the snooping code in the application thread; every change
  of the port group table is followed by a call of the switch driver, whose
  table has one entry per MAC address and port.

### What is hard here

The individual functions are short. The trouble is between them: which handler
leaves which input of a machine behind; requests that hold a pointer into a
stack frame; state that a registration resets in one place and not in another
(loopback flag, statistics, alarms); hardware that is read before a mutex is
taken; shell commands in the middle of a poll; counters at zero and at a wrap.
`PROJECT.json` lists these hazards line by line with the property that looks at
each.

### What correct means

* **Interface** – the discovery state always is the one its inputs call for; a
  request never outlives its handler; the budget of OAMPDUs per second holds; the
  peer hears a keep-alive; `oam_sm_run` ends.
* **Client** – flags sent tell the truth about the discovery state; a CTC TLV is
  answered; a refusal is final.
* **Loopback** – flag and hardware agree; the revision announces every change.
* **Link monitor** – no error lost or counted twice; numbers without gaps;
  running totals only of what was sent; every window ends.
* **Statistics** – exact through wraps and clears.
* **Alarms** – the polling timer runs exactly when needed; an alarm follows its
  cause.
* **Session** – the three-way handshake; the link comes up and the CTC discovery
  ends whatever was lost.
* **Timers** – no timer lost, freed twice or used after its end; a deleted timer
  is silent, a periodic one fires.
* **Snooping** – the switch forwards exactly what the table says; records do what
  the tables in the comments say; limits hold; silence empties the table.

## 2. Modules

### `OamIf` and `OamControl`

`OamIf` has the record `Intf` (= `oam_if_t`) and one operator per C function
that changes it, under the function's name. Because a handler runs to its end,
a handler is a composition of such operators and one action of `OamControl`:
`oam_llid_registration`, `onu_pon_link_down_proc`, `Receive(p)` for a frame from
the OLT, `oam_time_msg_proc`, `oam_event_process_polling`; the dying gasp is two
actions (`DyingGaspBegin`, `DyingGaspEnd`), since it runs in another thread and
the application thread can run between its assignments.

`oam_sm_run` is a `do … while` loop. `SmPass` is its body, and the loop is
unrolled to twelve passes; `runaway` records that this was not enough, and
`SmRunTerminates` says it never is. Frames carry what the code looks at: code,
flags, revision, acceptability of the sender's settings, and the CTC TLV.
History fields (`tx`, `sent`, `dropped`, `burst`, `runaway`) remember what left the
interface. `pdu_parm` records whether the parameter of the pending request lies
in a live stack frame.

Fields no reachable state of this build distinguishes are left out; the
header of `OamIf` lists them. Two of them matter for reading the model: the reset
after a lost link is compiled out (`oam/oam_timer.c:133`), and `FAULT` is entered by a
registration only.

### `OamLoopback`

Three things remember whether the ONU loops frames back, and they are separate
variables: the interface (`lb_state_self`, mux and parser action), the static
`g_oam_loopback` of `oam_sdl_port_lpbk_set`, and the hardware (`loops`). The
driver call may fail, and the reply may be dropped for want of budget (`ok`,
`replied`). Of the discovery machine only three stages are kept (no LLID,
discovering, `SEND_ANY`). `reported` remembers the last two Information TLVs.

### `OamEvent`

A poll is split at the points where the shell can matter: `PollBegin` reads the
growth of the statistics, then `PollAdd` and `PollClose` for each of the four kinds
of errors, then `PollSend`. The command `app errevt` is two steps (window, then
threshold) that may fall anywhere between them. The stages of discovery are the
three of `OamLoopback`.

### `PortStats`

One counter: `Frame` is the hardware, `ReadHardware` and `Update` the two halves of
`app_pon_stats_count`/`app_uni_stats_count` by each of several threads,
`app_stats_reset_uni` the clear. `Slack = 0` is `COUNT_STATS`, a positive one is
`oam_count_stats_offset` of the multicast and broadcast counters. That fewer
than a full counter width of frames come between two updates is assumed in `Frame`;
the statistics are polled every second, and 2^32 frames take far longer.

### `CtcAlarm`

Switching alarms on and off (with the count of polled ones that starts and stops
the timer), the poll, the callbacks, and the surroundings: the timer thread, the
measured values, the optical module on the I2C bus, registrations, the CTC
discovery. Thresholds and measured values are reduced to what the poll makes of them:
at the raise threshold, past the clear threshold, or between.

### `OamLink` and `OamSession`

`OamLink` puts `OamControl` at one end of a fibre and an OLT at the other. The
OLT is not in this repository; it is modelled by what the ONU expects of an
active peer (send once a second, flag STABLE when the ONU was heard, offer,
acknowledge or decline versions), and may restart, report a fault, or use the
revision 0xffff. Frames in both directions may be lost. `OamSession` is the
abstract specification: ONU hears, OLT hears, link opens, in this order, until a
restart. `ImplementsSession` is `OamSession` with `open` mapped to "the discovery
state is SEND_ANY" and the history variables `onuHeard` and `oltHeard`. Proved for every
capacity of the fibre and every list of versions, section 5.

### `CsTimer`

The mutex of `cs_timer.c` is held for a look or a single change, so every C function
is several steps, named by `pc`: `StopFlag`, `StopLookup`, `StopDelete`,
`DestroyFlag`, `DestroyLookup`, `cs_mem_free` for a delete, `cs_create_timer`,
`StartFlag` … `Assign` for an add, `Collect`, `GetExpired`, `Callback`/`AppCallback` for the pass.
`MayRun` is the eCos scheduler: strict priority between the timer thread and the
threads of `User`, those in `Above` being higher. `StopDelete` models what
`cs_lst_delete` does to the list when the node is no longer in it.

### `McSnoop`

The table maps a pair of group and port to a record of filter mode, source list
with timers, list of blocked sources, group timer, static flag and `update_time`.
The four operations on lists, the handlers of the six record types, the update
and the addition of an entry, the ageing and the flush are operators with the
C functions' names on a pair of node and switch table; the actions apply them. The
call of the driver is part of the operator that makes it: `mc_port_fdb_add`
refuses a MAC address the port already has, `_update` adds, `_del` deletes.
`update_time`, a clock of 10 ms, is kept as "now", "last", "old", "never" (0) and
"ahead" (wrapped below 0), and whether a second has passed since "last" is left open.
Each query about a group takes 200 off it (`Earlier`): 0 wraps at once, an old time at any
query, since nothing bounds how many there were since the last report that set it.
In manual mode the parsers replace a group by the default one with the same low bits
(`mc_set_dft_ip`); `DftGroup` says which that is.
`Table` is the reference: the tables of RFC 3376 as the comments of `mc_report.c`
give them, without the code's update flags and lists.

### Proof modules

`OamControlProofs`, `OamLinkProofs` (which builds on it), `OamLoopbackProofs`,
`OamEventProofs`, `PortStatsProofs`, `CtcAlarmProofs`, `CsTimerProofs` and `McSnoopProofs`
hold theorems and their lemmas only, see section 5. `MC*` modules hold
constants for TLC. Operators named `Mut_…` are deliberate errors placed before the
operator they vary; each shows that a property can fail.

## 3. Runs

| run | states | properties | shows |
|---|---|---|---|
| `oam_discovery` | 65,283 | `TypeOK` `DiscSettled` `SmRunTerminates` `RateLimit` `NothingPending` `StableFlag` `KeepAlive` `NewRevisionNeeded` | both machines stay consistent and no request is left behind, for any order of registrations, ticks, polls, a dying gasp, and frames with any code and flags |
| `oam_link` | 56,776 | `VersionCommon` `ImplementsSession` `ComesUp` `CtcSettles` `ExtAnswered` `ExtRefusalFinal` | over a fibre that loses frames, with restarts, faults and registrations, the ONU implements the handshake, the link comes up, the CTC discovery ends with a version both ends have |
| `loopback` | 1,462 | `TypeOK` `FlagIsHardware` `RevisionTellsState` `OrphanedLoopback` | flag and hardware agree unless a call failed or the depth moved; every change is announced; a loopback orphaned by a registration stays until it is enabled again |
| `link_monitor` | 3,843,984 | `TypeOK` `ErrorConservation` `EventNumbers` `TotalsDelivered` `ClosedInTime` | the shell in the middle of a poll loses no error, and events are numbered without gaps |
| `link_monitor_registration` | violation | `FreshAfterRegistration` | finding 1 |
| `port_stats` | 473,336 | `ExactAlone` `OffByWraps` `NoPhantomBeforeWrap` | exact without overlap, off by whole wraps with it; the slack protects the multicast counters until the first wrap |
| `port_stats_race` | violation | `NoPhantomFrames` | finding 2 |
| `ctc_alarm` | 16,164 | `TimerWhileNeeded` `AlarmFollowsCause` | the polling timer runs exactly while it is needed; a watched alarm follows its cause |
| `timer_app` | 152,368 | `PoolCount` `NoFreedTimer` `Accounted` `DeletedIsSilent` `PeriodicFires` | the application's adds and deletes against the timer thread: nothing lost, freed twice or fired late |
| `timer_lost` | violation | `Accounted` | finding 3 |
| `mcast` | 236,536 | `FdbFollowsState` `CountsExact` `EntriesWellFormed` `RecordTable` `ForwardedIsServed` `AnswerIsHeard` `AgesOut` | switch and counters follow the table, records do what the comments say, forwarded joins are served, answers are heard until `update_time` wraps, silence empties the table in time |
| `mcast_sourceless` | violation | `FdbFollowsState` | finding 4 |

`OffByWraps`, `TimerWhileNeeded`, `PoolCount` and `EntriesWellFormed` contain the
type invariant of their module. `AgesOut` states a deadline rather than a
liveness property: it applies the ageing `GMI` times to every reachable state.

Deadlock is checked in every run.

### Bounds, and why they are enough

* **Interface.** `PktCount` 2 in place of 100: a budget that is full, touched
  and used up. `PduTimer` 1 as in the code, `LinkLost` 2 in place of 5: the timer
  does nothing but run the machines. Two revisions tell "changed" from "unchanged"
  from any state; one sequence number, against the initial value, does the same
  for events. `DiscPdus` has every code with every relevant flag,
  including the frame that is both evaluating and stable. The version list has two
  of the four entries of the code's (0x21, 0x20, 0x13, 0x01): a version in common and one
  that is not are what the list is searched for.
* **Link.** One frame under way per direction, any of which may be lost, and two
  upsets (a registration, restart or fault on top of another); OLTs with a version
  in common and without; revisions 1 and 0xffff. More frames under way would only
  repeat what the OLT sends every second.
* **Loopback.** `RevMod` 4 in place of 2^16: consecutive TLVs are at most one
  change apart, so any modulus above 1 gives the same answer (proved, section 5).
* **Link monitor.** Time in half seconds, so that a window need not be a whole
  number of polls; windows up to three polls; commands that lengthen, shorten, and
  are refused; `WordMod` 7 in place of 2^32, so that one command's window of symbols wraps when it is
  multiplied (`oam_event.c:425`); numbers modulo 3, so that they wrap and are given back at 0; up to
  two errors and two frames per boot, so that a threshold of one or two is missed,
  met and exceeded.
* **Statistics.** Width 8, slack 0 and 3, up to 17 frames: two wraps. Two
  readers suffice for one overtaking another; they are interchangeable, hence the
  symmetry. `MaxLag` bounds how far a reading can be out of date, below the slack
  where it is used: that fewer than the code's ten thousand frames pass while a
  thread is preempted between read and update is an assumption of that run.
* **Alarms.** Two polled alarms, so that one keeps the timer when the other goes,
  and one that is not polled. The run is finite without bounds.
* **Timers.** Three blocks and three clients (two periodic message timers, one
  one-shot callback timer), so that the pool runs empty; in `timer_lost` two
  clients, the laser's one-shot callback timer, whose handle is kept, and a periodic message
  timer. Both have one user of timers, the application thread below the timer
  thread. Which timers run out in a pass is any subset.
* **Snooping.** Two ports; three groups, two of them with one MAC address, so that
  a port can hold two groups and be refused a third; `GMI` 2 and `LMQT` 1, so that a
  fresh timer outlives a tick and a lowered one does not; g3 stands for g1 in manual mode,
  so that a report for one finds the other's entry; `update_time` may wrap at any query; lists of two
  sources at most with a third source in use; every record type with no, one
  and two sources, single V2 reports, and one report with two records; all values of
  both limits, with one change of a limit or of the leave mode per behaviour: a
  lowered limit is not combined with fast leave. The proofs of section 5 have none
  of these bounds.

### Fairness

* `CtcAlarm`: weak fairness of `TimerFires`: the timer is periodic and the timer
  thread has a higher priority than the application thread. Weak fairness of
  `ctc_oam_alarm_polling`: the application thread serves its queue for ever, and timer
  messages have the highest priority in it. Nothing is assumed about the OLT, the
  sensor or the measured value; the property's premise says they stay as they
  are. The model has one place for the timer's message, so it does not cover a
  queue that stays full.
* `OamLink`: the OLT keeps sending, the ONU's one-second timer keeps running, the
  application thread serves its queue, and of the frames of one kind that are sent
  again and again one arrives again and again. Upsets are finitely many.
* `CsTimer`: weak fairness of the timer thread's steps, which nothing of lower priority
  can stop; strong fairness of a user thread's, which is preempted but not for ever;
  and a timer that stays listed runs out again and again.

## 4. Findings

1. **`port_stats.c:590`** – the comment says "reset the port stats and start
   polling", but the call below it is commented out, while `oam_link_event_reset`
   (line 593) sets the link monitor's baseline to zero. After a registration the
   first poll counts every error since boot as new. The run
   `link_monitor_registration` shows it in a few steps.
2. **`port_stats.c:177`** – the hardware is read before the mutex is taken (line
   184). A thread preempted in between updates with an older reading than the
   last one; `COUNT_STATS` takes it for a wrap and adds almost 2^32 frames. The
   comment at line 100 says the last value is kept to tell whether the counter "has
   run over 32 bit". `port_stats_race` shows it with two threads; `OffByWraps`
   shows how far the damage goes.

3. **`cs_timer.c:274`** – `cs_stop_timer` looks a timer up and cuts it out of the list
   in two sections of the mutex. If the timer is a one-shot that runs out in between,
   it is in no list any more, and `cs_lst_delete` of a node with two empty links
   sets head and tail of `timer_list` to NULL: every other timer stops. Its
   description says the node "is only cut off". It takes a thread of higher priority than the
   timer thread, or one that is interrupted between the two sections. `timer_lost`
   shows the second with the laser timer of the CTC attribute, deleted by the application
   thread. In `timer_app`, where only periodic timers are deleted, it cannot happen.

   The same timer breaks `PoolCount`, which no run shows: `app_oam_ctc_adapt.c:1724` reads its handle
   ("stop previous timer") and passes it to `cs_timer_del`; if the timer runs out before
   `cs_stop_timer` looks for it, the timer thread frees the block, and `cs_timer_del` finds it in
   no list and frees it again, although `cs_mem_free` is to "free the memory which you
   allocated" (`mempool.c:427`). With `PoolCount` in place of `Accounted` in
   `MCCsTimer_lost.cfg`, TLC finds this in 21 states. Afterwards the pool counts one free block
   more than it has.
4. **`mc_report.c:833`** – `mc_add_isin_record` returns an error for a record without
   sources ("no src, it is an illegal report", line 784), which its caller ignores.
   The entry goes into table and switch. At the next tick nothing in it changes, so
   the switch is not told, and the entry is removed from the table only
   (`mc_fdb.c:204`, "port fdb is aged out and delete it"). The port keeps the stream, and later joins for
   that MAC address are refused. `mcast` therefore has legal reports only.

Behaviour that is surprising but that no document speaks against is stated as a
property instead: `OrphanedLoopback`, `NewRevisionNeeded`, `ExtRefusalFinal`, the third
alternative of `KeepAlive`, the exception of `TimerWhileNeeded`.

## 5. Theorems

All proofs are checked by TLAPS with the SMT, Zenon and LS4 backends.

**`OamControlProofs`** assumes what `OamIf` and `OamControl` assume about their
constants: the budget and the timers are positive naturals, the version list is a
sequence of versions, the OLT's OAMPDUs have their type. Nothing is assumed about
how large these are, which OAMPDUs the OLT has, or about the sentinels
`NoRev` and `NoSeq` (they may even be values the OLT sends).

* `TypeCorrect`: `Spec => []TypeOK`. `TypeOK` is inductive. The record has thirty
  fields, so one lemma (`Updates`) says once that assigning any one field a value of
  its type keeps the record's type; then there is one lemma per operator
  of `OamIf`, in the order of the call graph, up to one step per action.
* `DiscoverySettles`: `Spec => []DiscSettled`. `DiscSettled` is not inductive; its
  strengthening `Settled` adds that `BEGIN` is off and that the machine is at rest. The
  argument is about `oam_sm_run`. `Dist` counts how many steps, at most four, the
  discovery machine is from the state its inputs call for. A pass with `BEGIN` off
  leaves the inputs alone, lowers `Dist` until it is 0, and the loop cannot stop
  before that (`LoopOK`), for a discovery machine that is not at rest moves; the
  transmit machine touches neither inputs nor state. So every `oam_sm_run` ends at
  rest. What is left is that each handler either ends in such a run with
  `local_satisfied` implying `remote_state_valid`, or changes nothing the discovery
  machine reads.

* The rest is about the transmit machine, and about what the two machines tell each
  other. The four invariants are not inductive, and not even true between two passes
  of the loop in `oam_sm_run`, where a request waits for the next pass. So there are
  two strengthenings. `HInv` holds between the operations of a handler: discovery
  settled, transmit machine in `WAIT_FOR_TX`, `local_pdu` and `local_stable` those of
  the discovery state (`Mode`), every OAMPDU sent so far truthful (`TrueFlags`), what
  was sent plus what is left of `pdu_cnt` within the budget (`Budget`), an empty budget
  only after something was sent or dropped (`Spent`), nothing sent before the ONU was
  spoken to (`SpokenTo`), CTC status and TLVs that fit each other (`Offers`). `LInv`
  holds between two passes and allows for a pending request, a raised timer flag and a
  machine under way. One lemma per transition shows that a pass keeps `LInv`; `TxDist`
  (at most 4, like `Dist`) counts the transitions the transmit machine has ahead of it, and a pass
  lowers whichever of the two is not 0, so twelve passes are enough
  and `LInv` at rest is `HInv`. Then one lemma per operation of a handler, in the order
  of the call graph, and one step per action (`TInv`).
  * `RunTerminates`, `RateLimited`, `NothingLeftPending`, `StableFlagTrue`: invariants
    that follow from `TInv`. `NothingPending` excepts the dying gasp
    and an OLT that uses the revision 0xffff, and so does `TInv`.
  * `KeepAliveSent`, `RevisionNeeded`, `ExtensionAnswered`: action properties, from `TInv`
    and from what the lemmas say of the handler as a whole (`Handled`, `Onward`: which
    fields a handler can change, and what it sends).
  * `RefusalIsFinal`: `HInv` does not say where a refusal is, so there is a second
    invariant, `RInv`. NACK stands between an unmatched list and its refusal, and two
    things could leave it there: `oam_discovery_send` gives up if a request is pending, and
    WAIT_FOR_TX drops a request that finds no budget. `Refusal` says that while the ONU
    may speak, a pending request is an Information OAMPDU with the whole budget
    before it (`Posted`), and that there is one if the status is NACK; before it may
    speak, nothing is spent (`Unspent`). The hard case is an OLT whose revision is 0xffff:
    a request made in PASSIVE_WAIT stays pending, which `NothingPending` excepts and this
    property does not. One lemma per transition, run and operation again, with the
    mode "due" for the run that leaves PASSIVE_WAIT and is answered in the same handler.

**`OamLinkProofs`** assumes, besides, that the OLT's versions are versions and that the
capacity of the fibre is a natural number: any number of frames may be under
way, and any OLT of `OltVersions` may be at the other end. Upsets are bounded
by `MaxUpsets`, of which nothing is assumed.

* `LinkImplementsSession`: the refinement, safety included in full. The inductive
  invariant `KInv` says of every frame under way what it proves about its sender: a
  frame that says STABLE was sent by an OLT that heard the ONU, a frame to the OLT
  by an ONU that was spoken to, a version that is acknowledged is one of both ends. With
  `HInv` for the ONU, SEND_ANY is "satisfied and the peer is stable", so it cannot be
  reached before both have heard each other. Each action then maps to one step of
  `OamSession` or to a stutter (`StepOfSession`).
* `VersionsAgree`: from `KInv`, whose part about the ONU says that a valid
  version of the OLT is in the common list whenever that list is not empty, and from
  `Offers`, by which an ONU that shares no version never gets to COMPLETED.

**`OamLoopbackProofs`** assumes a revision modulus above 1.

* `LoopbackTypeCorrect`: the types, inductive as they stand.
* `LoopbackFlag`: `FlagIsHardware` is inductive together with the types: the early
  return of `oam_sdl_port_lpbk_set` is what keeps a repeated command from
  disturbing it.
* `LoopbackRevision`: `RevisionTellsState` is not inductive. The strengthening
  `LastReport` relates the last TLV to the state now: its revision is the
  current one, and unless a change is waiting to be announced
  (`info_tlv_changed`) its state bits are too.
* `LoopbackOrphaned`: the action property, from the definitions.

**`PortStatsProofs`** assumes a positive width, slacks below the width and at least
one thread. It starts with four lemmas on `%` (what division with remainder is, that
the remainder is unique), which the solver cannot find by itself.

* `StatsOffByWraps`: `OffByWraps` is inductive as it stands; `UpdateIsModular` says
  that each branch of the counting moves the counter from the last reading to the
  one that is kept, modulo the width.
* `StatsExactAlone`: `ExactAlone` is not inductive. The strengthening `ExactInv`
  adds that the hardware counts modulo the width, that the counter lags by less than
  a wrap less the slack, and that every pending reading lies between the counter and
  the frames so far; `CountExact` then shows that the branch taken counts exactly the
  difference. The bound on the lag is the guard of `Frame`, the assumption that the
  hardware is polled often enough.
* `StatsNoPhantom`: the strengthening `PlainInv` says that before the first wrap and
  clear readings are plain numbers of frames at most `MaxLag` old.

**`OamEventProofs`** assumes positive rates, a positive width of the numbers and of the
word a window is converted in (`WordMod`), for
each kind a shortest window that is not longer than the longest, and default values
the shell's own checks accept. `TInv` types the state with the poll in progress.

* `EventTypeCorrect`, `EventConservation`, `EventNumbering`, `EventTotals`, `EventClosedInTime`. The
  properties are about the time between polls, but the shell may preempt a poll between
  any two of its steps, so each is strengthened to what holds inside one: `Conserved`
  adds what the poll has read and not yet added, `Numbered` the number it has taken,
  `Told` the TLVs it has built and not yet sent, `InPeriod` the window it is about to close.
  `InPeriod` also ties the length of a window to its age in polls, which is what makes a
  window that was shortened by the shell close at its next poll.

**`CtcAlarmProofs`** assumes a finite set of alarms of which some are polled.

* `AlarmTimerWhileNeeded`: inductive as it stands. The counter is a cardinality, so the
  work is in `PolledOnSwitched`: an alarm that changes its state counts one up or down, one that
  is switched on twice does not.

**`CsTimerProofs`** assumes a finite pool, a timer thread that is no user, at
least one client. Its theorems have the hypothesis `Disciplined`: one thread below
the timer thread adds and deletes timers, callbacks without a message are one-shot timers,
and the handle of a one-shot timer is not kept. That is how the application uses timers with
one exception, the laser timer of `app_oam_ctc_adapt.c:1724`, a one-shot timer whose handle
is kept. The theorems do not cover it, and with it they are false (finding 3).

* `TimerPoolCount`, `TimersNotFreed`, `TimersAccounted`, `DeletedTimersSilent`: one inductive
  invariant, with what every thread knows at each of its steps (`AtWork`), that a
  handle is the one of a live timer (`Handles`) and the other way round (`Known`), and
  that nothing allocated is out of everyone's hands (`Held`). `Disciplined` is needed
  where the timer thread runs between look and cut of a delete: the timer found is
  periodic, so the timer thread has put it back before the user goes on.

**`McSnoopProofs`** assumes finite sets of ports, groups and sources, a MAC address for
each group, a last member query time no longer than the member interval, default groups that have the
MAC address of the groups they stand for (`DftAssumption`), and records
with no more sources than `mc_ssm_record_src_parse` lets through (`mc_parser.c:310`).
Nothing is assumed about capacities, how groups share MAC addresses, how long reports are or
how often the settings change. All seven theorems have the hypothesis `LegalReports`: no
IS_IN or ALLOW record without sources. Without it they are false (finding 4).

* `SwitchFollowsTable`, `CountersExact`, `EntriesStayFormed`: the inductive invariant
  `Inv` puts the three together (`Sane`), for each needs the others. An entry is only
  told apart from another one on the switch by its MAC address, so a refused `mc_port_fdb_add`
  must leave no entry behind; an entry that forwards nothing would stay on the switch, so
  what the handlers leave in the lists matters (`Good`, `Full`); a counter is decreased for
  each entry that goes, so it must have counted it. `Limits` adds that the counters
  are within the settings. One lemma per list operation and per record handler
  (`Does`) says what it leaves in both lists, for lists of any length and sources of
  any number, and one per operation on the table that `Sane` is kept
  (`RecordHandled`, `FlushDoes`, `AgeDoes`). A report is a list of records, and
  induction is not at hand: `ListFollows` takes the first record that would break the
  invariant and shows that it does not (`LeastNumber`, `UpTo`).
* `RecordsFollowTables`: from the same lemmas, whose `Does` is stated against the router
  states of `Table`.
* `ForwardedServed`: from `ListFollows`. It has one more hypothesis, `NoLeaveAfterJoin`:
  no report leaves a group (TO_IN) that an earlier record of the same report joins.
* `AnswersHeard`: in every state with the invariant, the report after a query finds
  `update_time` old enough for the flood check and starts the group timer, unless the time has
  wrapped; within two seconds of a report it has not. After the wrap (no
  IGMPv1/v2 or MLDv1 report ever, or none for more than `update_time / 200` queries) the
  report is refused and changes nothing: the theorem says both.
* `SilentHostsAgeOut`: not about the invariant alone. `Quiet` says of the n-th tick
  without a report that every timer left is at most `GMI - n`; the end of a group timer
  changes the mode of an entry but starts no timer, so at `GMI` only static entries are
  left.

**Model-checked only.** Liveness (`AlarmFollowsCause`, `ComesUp`, `CtcSettles`,
`PeriodicFires`) and ENABLED are out of the prover's reach; every other property
of a passing run is the subject of a theorem. The four runs that expect a
violation have nothing to prove.

## 6. What is not modelled

* Register access, flash, text I/O, web, telnet: pure input and output.
* The values behind CTC attributes and MIB variables: no protocol state.
* The layout of TLVs in bytes, length checks, MAC addresses, timestamps.
* The table of interfaces: this ONU has one LLID.
* The dying gasp in the middle of a handler: the power-fail thread can preempt the application
  thread anywhere, the model has whole handlers between the two halves of the dying gasp.
* `app_msg_q` being full, and memory running out while an OAMPDU is built: an event
  dropped by `event_detect` (`app_evt.c:67`) leaves the interface in its old state.
  In `app_thread`, `free_msg` keeps its value from an earlier message
  (`app_init.c:366`), and the mailbox of the loop detection is only looked at when a
  message arrives (line 313).
* Of the timers: their lengths and the order of the list, and `cs_timer_stop`,
  `_start`, `_restart`, `_retiming`, which nothing calls. Handles start as none; the CTC
  statistics monitor, which is no client of the model (section 7), starts its handle as 1
  (`app_stats_ctc.c:135`) and passes that to `cs_timer_del` when it is first stopped.
* Of the snooping: packets, the translation of IGMPv3 reports to IGMPv2, independent
  VLAN learning, proxy mode, and the IP forwarding engine, which this switch
  rejects. Of the driver's failures there is only the MAC address a port already has; an
  add that fails for another reason, such as a full table, takes the same path, and a
  failed update or delete is left out. The sources of a record are a set, so one that is
  listed twice counts once. Known and not stated as properties: BLOCK and TO_EX in exclude
  mode lower sources whose timers are still 0, so that they go at the next tick
  (`mc_report.c:618`); with the control type "MAC" entries are stored under VLAN 0 and a
  delete that names another VLAN finds nothing and succeeds (`mc_ctcctrl.c:231`);
  `mc_node_set_fwd_engine` changes the engine before it flushes.
* Also known: an alarm switched on after its cause appeared is not raised unless it is
  polled (`app_alarm_ctc.c:936`); a window of symbols of 35 s and more wraps when it is converted
  and becomes a shorter one (`oam_event.c:425`; modelled, and `ClosedInTime` bounds it from
  above only); after `update_time` has wrapped an entry hears no IGMPv1/v2 or MLDv1 report any
  more (`mc_query.c:125`; modelled, and stated in `AnswerIsHeard`); the frame period window counts errored frames
  twice (`oam_event.c:277`).
* PPPoE, PTP, out-of-band management and the older loop detection are switched
  off in this build.

## 7. Plan

In this order; each module composes with the ones above through the names given.

1. **`AppQueue`**: the priority queue (`osal_api_core.c`), `event_detect` dropping
   events when it is full, the main loop with `free_msg` and the mailbox of the
   loop detection.
2. The CTC statistics monitor, the GWD loop detection, the startup configuration and
   the dual image with a power failure between two writes.
3. **`OamTable`**: several LLIDs and the slot that is handed out twice
   (`oam_core.c:177`).
