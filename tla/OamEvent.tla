------------------------------ MODULE OamEvent ------------------------------
(***************************************************************************)
(* The link monitor of the OAM sublayer, oam_event.c: once a second it     *)
(* reads the statistics of the PON port, adds the growth to the windows of *)
(* four kinds of errors, and reports the windows that closed at or above   *)
(* their threshold in one Event OAMPDU.                                    *)
(*                                                                         *)
(* The poll runs in the application thread (priority 10); the command      *)
(* "app errevt", which changes a window and then its threshold, runs in    *)
(* the shell thread (priority 6) and can preempt the poll anywhere.        *)
(* Everything else here runs in the application thread, between polls.     *)
(*                                                                         *)
(* Left out: enable (set by the reset that comes with every registration,  *)
(* and without a registered LLID the poll returns), count and count_save   *)
(* (count_save of the summary is OAM_LINK_ERROR_FRAME_WIN_MIN /            *)
(* OAM_LINK_EVENT_POLL_ACCURACY = 1, the others are never read), the       *)
(* timestamp of a TLV and the widths of its fields.                        *)
(***************************************************************************)
EXTENDS Integers, Sequences

CONSTANTS
    Poll,           \* OAM_LINK_EVENT_POLL_ACCURACY: time between two polls
    SymbolsPerPoll, \* OAM_LINK_ERROR_SYMBOL_PER_SECOND
    FramesPerPoll,  \* OAM_LINK_ERROR_PERIOD_PER_SECOND
    WinMin, WinMax, \* per kind of error, the windows the command accepts
    Commands,       \* arguments of "app errevt" that are tried
    DefWindow,      \* per kind of error, the window of oam_err_event_init
    DefThreshold,   \* ... and its threshold
    WordMod,        \* 2^32: the unit conversion of a window of symbols wraps at it
    SeqMod,         \* seq_num_next_tx counts modulo this, 2^16 in the code
    MaxFrames,      \* bounds of the port's statistics
    MaxErrors,
    MaxSymbols

Kind == {"SYM_PERIOD", "FRAME", "FRAME_PERIOD", "FRAME_SUMM"}

\* event_list: the order in which a poll visits the kinds of errors.
event_list == <<"SYM_PERIOD", "FRAME", "FRAME_PERIOD", "FRAME_SUMM">>

Command == [type : Kind, win : Nat, threshold : Nat]

ASSUME RatesAssumption ==
    {Poll, SymbolsPerPoll, FramesPerPoll, WordMod, SeqMod} \subseteq Nat \ {0}
ASSUME WindowsAssumption ==
    /\ {WinMin, WinMax, DefWindow, DefThreshold} \subseteq [Kind -> Nat]
    /\ \A k \in Kind : Poll <= WinMin[k] \/ k = "FRAME_PERIOD"
    /\ \A k \in Kind : WinMin[k] <= WinMax[k]
\* The defaults are windows that the command accepts too.
ASSUME DefaultsAssumption ==
    /\ DefWindow["SYM_PERIOD"] <= (WinMax["SYM_PERIOD"] \div Poll) * SymbolsPerPoll
    /\ \A k \in {"FRAME", "FRAME_SUMM"} : DefWindow[k] <= WinMax[k]
ASSUME CommandsAssumption == Commands \subseteq Command
ASSUME BoundsAssumption == {MaxFrames, MaxErrors, MaxSymbols} \subseteq Nat

Counter == [in_frames : Nat, in_errors : Nat, in_err_symb : Nat]
ZeroCounter == [in_frames |-> 0, in_errors |-> 0, in_err_symb |-> 0]

\* An entry of oam_link_event_table.  The last three fields are history: the errors
\* of windows that closed below their threshold, the Event TLVs that were sent,
\* and, for a window that is counted in time, the polls since it was last
\* closed, all since the last reset.
Entry == [window : Nat, threshold : Nat, cur_window : Nat, cur_value : Nat,
          error_running_total : Nat, event_running_total : Nat,
          discarded : Nat, delivered : Nat, age : Nat]

NoPoll == [at |-> "idle"]
NoCommand == [at |-> "idle"]

VARIABLES
    stats,           \* app_onu_pon_stats_summary_get
    g_last_counter,
    table,           \* oam_link_event_table
    disc,            \* "none" no LLID, "up" discovering, "any" SEND_ANY
    seq_num_next_tx,
    poll,            \* where the poll is, and its local variables
    shell,           \* where the command is, and its arguments
    last_seq         \* history: the number in the last Event OAMPDU sent

vars == <<stats, g_last_counter, table, disc, seq_num_next_tx, poll, shell,
          last_seq>>

(***************************************************************************)
(* oam_err_event_init and oam_link_event_reset                             *)
(***************************************************************************)
oam_err_event_init ==
    [k \in Kind |->
        [window |-> DefWindow[k], threshold |-> DefThreshold[k],
         cur_window |-> 0, cur_value |-> 0,
         error_running_total |-> 0, event_running_total |-> 0,
         discarded |-> 0, delivered |-> 0, age |-> 0]]

Init ==
    /\ stats = ZeroCounter
    /\ g_last_counter = ZeroCounter
    /\ table = oam_err_event_init
    /\ disc = "none"
    /\ seq_num_next_tx = 0
    /\ poll = NoPoll
    /\ shell = NoCommand
    /\ last_seq = 0

oam_link_event_reset ==
    /\ table' = [k \in Kind |->
                    [oam_err_event_init[k] EXCEPT
                        !.window = table[k].window,
                        !.threshold = table[k].threshold]]
    /\ g_last_counter' = ZeroCounter

(***************************************************************************)
(* The application thread between polls                                    *)
(***************************************************************************)
\* EPON_EVENT_REG_CHANGE, registered: a new interface (numbers from 0) and a
\* reset of the link monitor.  The statistics are left as they are.
Register ==
    /\ poll = NoPoll
    /\ oam_link_event_reset
    /\ disc' = "up"
    /\ seq_num_next_tx' = 0
    /\ last_seq' = 0
    /\ UNCHANGED <<stats, poll, shell>>

\* EPON_EVENT_REG_CHANGE, deregistered: the board resets.
onu_pon_link_down_proc ==
    /\ poll = NoPoll
    /\ disc # "none"
    /\ stats' = ZeroCounter
    /\ g_last_counter' = ZeroCounter
    /\ table' = oam_err_event_init
    /\ disc' = "none"
    /\ seq_num_next_tx' = 0
    /\ last_seq' = 0
    /\ shell' = NoCommand
    /\ UNCHANGED poll

\* Mutant: entering SEND_ANY does not reset the link monitor.
Mut_CompleteWithoutReset ==
    /\ poll = NoPoll /\ disc = "up" /\ disc' = "any"
    /\ UNCHANGED <<stats, g_last_counter, table, seq_num_next_tx, poll, shell,
                   last_seq>>

\* The discovery machine enters SEND_ANY.
oam_link_complete ==
    /\ poll = NoPoll
    /\ disc = "up"
    /\ disc' = "any"
    /\ oam_link_event_reset
    /\ UNCHANGED <<stats, seq_num_next_tx, poll, shell, last_seq>>

\* The discovery machine leaves SEND_ANY: the peer reports a fault, is no
\* longer acceptable, or is no longer stable.  The numbers go on (FAULT, which
\* restarts them, is entered by a registration only).
FallBack ==
    /\ poll = NoPoll
    /\ disc = "any"
    /\ disc' = "up"
    /\ UNCHANGED <<stats, g_last_counter, table, seq_num_next_tx, poll, shell,
                   last_seq>>

\* The statistics task counted good and errored frames and symbol errors;
\* in_frames includes the errored ones.
app_pon_stats_count(good, bad, symb) ==
    /\ poll = NoPoll
    /\ stats' = [in_frames   |-> stats.in_frames + good + bad,
                 in_errors   |-> stats.in_errors + bad,
                 in_err_symb |-> stats.in_err_symb + symb]
    /\ stats'.in_frames <= MaxFrames
    /\ stats'.in_errors <= MaxErrors
    /\ stats'.in_err_symb <= MaxSymbols
    /\ UNCHANGED <<g_last_counter, table, disc, seq_num_next_tx, poll, shell,
                   last_seq>>

\* A CTC alarm that is enabled and changes state: an Event OAMPDU from the
\* same number space, whatever the discovery state is.
ctc_oam_build_alarm_event ==
    /\ poll = NoPoll
    /\ disc # "none"
    /\ seq_num_next_tx' = (seq_num_next_tx + 1) % SeqMod
    /\ last_seq' = seq_num_next_tx'
    /\ UNCHANGED <<stats, g_last_counter, table, disc, poll, shell>>

(***************************************************************************)
(* The poll: oam_event_process_polling                                     *)
(***************************************************************************)
\* Mutant: the growth of the errors has the wrong sign.
Mut_GrowthReversed ==
    [in_frames   |-> stats.in_frames - g_last_counter.in_frames,
     in_errors   |-> g_last_counter.in_errors - stats.in_errors,
     in_err_symb |-> stats.in_err_symb - g_last_counter.in_err_symb]

Growth == [in_frames   |-> stats.in_frames - g_last_counter.in_frames,
           in_errors   |-> stats.in_errors - g_last_counter.in_errors,
           in_err_symb |-> stats.in_err_symb - g_last_counter.in_err_symb]

\* Mutant: the last reading is not kept.
Mut_BaselineKept ==
    /\ poll' = [at |-> "add", rest |-> event_list, in |-> Growth,
                seq |-> seq_num_next_tx', send |-> {}]
    /\ UNCHANGED g_last_counter

\* The growth of the statistics since the last poll, the locals of the rest.
oam_event_period_counter_get ==
    /\ poll' = [at |-> "add", rest |-> event_list, in |-> Growth,
                seq |-> seq_num_next_tx', send |-> {}]
    /\ g_last_counter' = stats

PollBegin ==
    /\ poll = NoPoll
    /\ disc # "none"
    /\ seq_num_next_tx' = (seq_num_next_tx + 1) % SeqMod
    /\ oam_event_period_counter_get
    /\ UNCHANGED <<stats, table, disc, shell, last_seq>>

\* How far the poll moves the window of kind k, and what it counts in it.
WindowStep(k) ==
    CASE k = "SYM_PERIOD"   -> SymbolsPerPoll
      [] k = "FRAME"        -> Poll
      [] k = "FRAME_PERIOD" -> poll.in.in_frames + poll.in.in_errors
      [] k = "FRAME_SUMM"   -> Poll

ValueStep(k) ==
    CASE k = "SYM_PERIOD"                -> poll.in.in_err_symb
      [] k \in {"FRAME", "FRAME_PERIOD"} -> poll.in.in_errors
      [] k = "FRAME_SUMM"   -> IF poll.in.in_errors > 0 THEN 1 ELSE 0

\* Entry e of kind k after the poll has added to it.
Added(e, k) ==
    [e EXCEPT !.cur_window = @ + WindowStep(k), !.cur_value = @ + ValueStep(k),
              !.age = IF k = "FRAME_PERIOD" THEN @ ELSE @ + 1]

PollAdd ==
    /\ poll.at = "add"
    /\ LET k == Head(poll.rest) IN table' = [table EXCEPT ![k] = Added(@, k)]
    /\ poll' = [poll EXCEPT !.at = "close"]
    /\ UNCHANGED <<stats, g_last_counter, disc, seq_num_next_tx, shell,
                   last_seq>>

\* Mutant: a window is over only at its exact length.
Mut_WindowExact(e) == e.cur_window = e.window

WindowOver(e) == e.cur_window >= e.window

\* An entry whose window is over: it is reported when the threshold is met.
Close(e) ==
    LET crossed == e.cur_value >= e.threshold IN
    [e EXCEPT !.error_running_total = IF crossed THEN @ + e.cur_value ELSE @,
              !.event_running_total = IF crossed THEN @ + 1 ELSE @,
              !.discarded = IF crossed THEN @ ELSE @ + e.cur_value,
              !.cur_window = 0, !.cur_value = 0, !.age = 0]

PollClose ==
    /\ poll.at = "close"
    /\ LET k    == Head(poll.rest)
           over == WindowOver(table[k])
       IN  /\ table' = IF over THEN [table EXCEPT ![k] = Close(@)] ELSE table
           /\ poll' = [poll EXCEPT
                    !.rest = Tail(@),
                    !.at = IF Tail(poll.rest) = <<>> THEN "send" ELSE "add",
                    !.send = IF over /\ table[k].cur_value >= table[k].threshold
                             THEN @ \cup {k} ELSE @]
    /\ UNCHANGED <<stats, g_last_counter, disc, seq_num_next_tx, shell,
                   last_seq>>

\* Mutant: a number that was not used is not given back.
Mut_NumberKept ==
    /\ poll.at = "send"
    /\ IF poll.send # {} /\ disc = "any"
       THEN /\ table' = [k \in Kind |-> IF k \in poll.send
                    THEN [table[k] EXCEPT !.delivered = @ + 1] ELSE table[k]]
            /\ last_seq' = poll.seq
       ELSE UNCHANGED <<table, last_seq>>
    /\ poll' = NoPoll
    /\ UNCHANGED <<stats, g_last_counter, disc, seq_num_next_tx, shell>>

\* The Event OAMPDU leaves in SEND_ANY only; otherwise its number is given
\* back.
PollSend ==
    /\ poll.at = "send"
    /\ IF poll.send # {} /\ disc = "any"
       THEN /\ table' = [k \in Kind |-> IF k \in poll.send
                    THEN [table[k] EXCEPT !.delivered = @ + 1] ELSE table[k]]
            /\ last_seq' = poll.seq
            /\ UNCHANGED seq_num_next_tx
       ELSE /\ seq_num_next_tx' = (seq_num_next_tx - 1) % SeqMod
            /\ UNCHANGED <<table, last_seq>>
    /\ poll' = NoPoll
    /\ UNCHANGED <<stats, g_last_counter, disc, shell>>

(***************************************************************************)
(* The shell thread: "app errevt <type> <win> <threshold>"                 *)
(***************************************************************************)
\* A window in the unit its kind is counted in.  That of symbol errors is multiplied in
\* 32 bits: a window of 35 seconds or more becomes a short one.
Converted(c) ==
    CASE c.type = "SYM_PERIOD"   -> ((c.win \div Poll) * SymbolsPerPoll) % WordMod
      [] c.type = "FRAME_PERIOD" -> (c.win * FramesPerPoll) \div Poll
      [] OTHER                   -> c.win

Accepted(c) == WinMin[c.type] <= c.win /\ c.win <= WinMax[c.type]

\* A command that is refused changes nothing.
oam_link_event_window_set(c) ==
    /\ shell = NoCommand
    /\ Accepted(c)
    /\ table' = [table EXCEPT ![c.type].window = Converted(c)]
    /\ shell' = [at |-> "threshold", arg |-> c]
    /\ UNCHANGED <<stats, g_last_counter, disc, seq_num_next_tx, poll,
                   last_seq>>

oam_link_event_threshold_set ==
    /\ shell.at = "threshold"
    /\ table' = [table EXCEPT ![shell.arg.type].threshold =
                                shell.arg.threshold]
    /\ shell' = NoCommand
    /\ UNCHANGED <<stats, g_last_counter, disc, seq_num_next_tx, poll,
                   last_seq>>

Next ==
    \/ Register
    \/ onu_pon_link_down_proc
    \/ oam_link_complete
    \/ FallBack
    \/ \E good, bad, symb \in 0 .. 1 : app_pon_stats_count(good, bad, symb)
    \/ ctc_oam_build_alarm_event
    \/ PollBegin \/ PollAdd \/ PollClose \/ PollSend
    \/ \E c \in Commands : oam_link_event_window_set(c)
    \/ oam_link_event_threshold_set

Spec == Init /\ [][Next]_vars

(***************************************************************************)
(* Properties                                                              *)
(***************************************************************************)
\* The link monitor's state has its type; no counter or window goes negative.
TypeOK ==
    /\ stats \in Counter /\ g_last_counter \in Counter
    /\ table \in [Kind -> Entry]
    /\ disc \in {"none", "up", "any"}
    /\ seq_num_next_tx \in 0 .. SeqMod - 1
    /\ last_seq \in 0 .. SeqMod - 1
    /\ poll.at \in {"idle", "add", "close", "send"}
    /\ shell.at \in {"idle", "threshold"}

\* The statistic that a kind of error is counted from.
Source(c, k) == IF k = "SYM_PERIOD" THEN c.in_err_symb ELSE c.in_errors

\* All errors of kind k that the link monitor has counted since its reset.
Counted(k) == table[k].cur_value + table[k].error_running_total
                + table[k].discarded

\* No error is lost and none is counted twice: between two polls the errors
\* in the open window, in the running total and in the windows that closed
\* below their threshold add up to the statistics at the last poll, whatever
\* the shell does to windows and thresholds while a poll runs.
ErrorConservation ==
    poll = NoPoll =>
        \A k \in Kind \ {"FRAME_SUMM"} :
            Counted(k) = Source(g_last_counter, k)

\* Event OAMPDUs are numbered without gap or repetition: between two polls
\* the counter is the number of the last Event OAMPDU that left, be it an
\* error event, whose number is taken before it is known whether it will be
\* sent, or a CTC alarm from the same number space.
EventNumbers == poll = NoPoll => seq_num_next_tx = last_seq

\* While the ONU is in SEND_ANY the peer has been told of every event in the
\* running totals: events counted while nothing could be sent are cleared
\* when SEND_ANY is entered.
TotalsDelivered ==
    poll = NoPoll /\ disc = "any" =>
        \A k \in Kind : table[k].event_running_total = table[k].delivered

\* The number of polls that the longest window the shell accepts lasts.
MaxPolls(k) ==
    IF k = "SYM_PERIOD" THEN WinMax[k] \div Poll
    ELSE (WinMax[k] + Poll - 1) \div Poll

\* A window that is counted in time is closed within its longest length, even
\* if the shell shortens it to less than what has already passed of it.
ClosedInTime ==
    \A k \in Kind \ {"FRAME_PERIOD"} : poll = NoPoll => table[k].age < MaxPolls(k)

=============================================================================
