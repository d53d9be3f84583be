--------------------------- MODULE OamEventProofs ---------------------------
(***************************************************************************)
(* Proofs about OamEvent, for every window, threshold, rate and command,   *)
(* every width of the event numbers and every bound of the statistics.     *)
(***************************************************************************)
EXTENDS OamEvent, TLAPS

(***************************************************************************)
(* Arithmetic                                                              *)
(***************************************************************************)
\* What division with remainder is.
LEMMA DivMod ==
    ASSUME NEW W \in Nat \ {0}, NEW a \in Int
    PROVE  /\ a % W \in 0 .. W - 1
           /\ a \div W \in Int
           /\ a = (W * (a \div W)) + (a % W)
<1>1. W > 0
  OBVIOUS
<1> QED
  BY <1>1, Z3

\* A positive factor can be cancelled.
LEMMA Cancel ==
    ASSUME NEW a \in Int, NEW b \in Int, NEW s \in Nat \ {0}, a * s < b * s
    PROVE  a < b
<1> SUFFICES ASSUME a >= b PROVE FALSE
  OBVIOUS
<1>1. a * s >= b * s
  BY Z3
<1> QED
  BY <1>1

\* A factor keeps the order.
LEMMA Scale ==
    ASSUME NEW a \in Int, NEW b \in Int, NEW s \in Nat, a <= b
    PROVE  a * s <= b * s
  BY Z3

\* Division keeps the order, and naturals natural.
LEMMA DivOrder ==
    ASSUME NEW a \in Nat, NEW b \in Nat, NEW W \in Nat \ {0}, a <= b
    PROVE  a \div W \in Nat /\ a \div W <= b \div W
<1> DEFINE p == a \div W
           q == b \div W
<1>1. /\ p \in Int /\ a % W \in 0 .. W - 1 /\ a = (W * p) + (a % W)
      /\ q \in Int /\ b % W \in 0 .. W - 1 /\ b = (W * q) + (b % W)
  BY DivMod
<1> HIDE DEF p, q
<1>2. p * W < (q + 1) * W
  BY <1>1, Z3
<1>3. p < q + 1
  BY <1>1, <1>2, Cancel
<1>4. (0 - 1) * W < p * W
  BY <1>1, Z3
<1>5. 0 - 1 < p
  BY <1>1, <1>4, Cancel
<1>6. p \in Nat /\ p <= q
  BY <1>1, <1>3, <1>5
<1> QED
  BY <1>6 DEF p, q

\* A wrap makes no number larger.
LEMMA Wrapped ==
    ASSUME NEW a \in Nat, NEW W \in Nat \ {0}
    PROVE  a % W \in Nat /\ a % W <= a
<1> DEFINE q == a \div W
           r == a % W
<1>1. r \in 0 .. W - 1 /\ q \in Int /\ a = (W * q) + r
  BY DivMod
<1>2. 0 <= q
  BY DivOrder
<1> HIDE DEF q, r
<1>3. 0 <= W * q
  BY <1>1, <1>2, Z3
<1>4. r \in Nat /\ r <= a
  BY <1>1, <1>3
<1> QED
  BY <1>4 DEF r

\* A number that is taken and given back.
LEMMA TakenBack ==
    ASSUME NEW W \in Nat \ {0}, NEW a \in 0 .. W - 1
    PROVE  /\ (a + 1) % W \in 0 .. W - 1
           /\ (((a + 1) % W) - 1) % W = a
<1>1. CASE a + 1 < W
  <2>1. (a + 1) % W = a + 1
    BY <1>1, Z3
  <2>2. a % W = a
    BY <1>1, Z3
  <2> QED
    BY <1>1, <2>1, <2>2
<1>2. CASE a + 1 = W
  <2>1. (a + 1) % W = 0
    BY <1>2, Z3
  <2>2. (0 - 1) % W = W - 1
    <3> DEFINE q == (0 - 1) \div W
               r == (0 - 1) % W
    <3>1. q \in Int /\ r \in 0 .. W - 1 /\ 0 - 1 = (W * q) + r
      BY DivMod
    <3> HIDE DEF q, r
    <3>2. (0 - 2) * W < q * W /\ q * W < 0 * W
      BY <3>1, Z3
    <3>3. 0 - 2 < q /\ q < 0
      BY <3>1, <3>2, Cancel
    <3>4. q = 0 - 1
      BY <3>1, <3>3
    <3>5. r = W - 1
      BY <3>1, <3>4
    <3> QED
      BY <3>5 DEF r
  <2> QED
    BY <1>2, <2>1, <2>2
<1> QED
  BY <1>1, <1>2

(***************************************************************************)
(* The list of kinds that a poll still has to visit                        *)
(***************************************************************************)
\* What is left of event_list after none, one, two or three visits.
Rests == {event_list, <<"FRAME", "FRAME_PERIOD", "FRAME_SUMM">>,
          <<"FRAME_PERIOD", "FRAME_SUMM">>, <<"FRAME_SUMM">>}

Todo(rest) ==
    CASE rest = event_list -> Kind
      [] rest = <<"FRAME", "FRAME_PERIOD", "FRAME_SUMM">> ->
            {"FRAME", "FRAME_PERIOD", "FRAME_SUMM"}
      [] rest = <<"FRAME_PERIOD", "FRAME_SUMM">> -> {"FRAME_PERIOD", "FRAME_SUMM"}
      [] rest = <<"FRAME_SUMM">> -> {"FRAME_SUMM"}
      [] OTHER -> {}

\* A visit takes the first kind off the list.
LEMMA Visit ==
    ASSUME NEW rest \in Rests
    PROVE  /\ Head(rest) \in Kind
           /\ Head(rest) \in Todo(rest)
           /\ Todo(Tail(rest)) = Todo(rest) \ {Head(rest)}
           /\ Tail(rest) # <<>> => Tail(rest) \in Rests
           /\ Tail(rest) = <<>> => Todo(rest) = {Head(rest)}
<1> DEFINE R2 == <<"FRAME", "FRAME_PERIOD", "FRAME_SUMM">>
           R3 == <<"FRAME_PERIOD", "FRAME_SUMM">>
           R4 == <<"FRAME_SUMM">>
<1>1. /\ Head(event_list) = "SYM_PERIOD" /\ Tail(event_list) = R2
      /\ Head(R2) = "FRAME" /\ Tail(R2) = R3
      /\ Head(R3) = "FRAME_PERIOD" /\ Tail(R3) = R4
      /\ Head(R4) = "FRAME_SUMM" /\ Tail(R4) = <<>>
  BY DEF event_list
<1>2. /\ event_list # R2 /\ event_list # R3 /\ event_list # R4
      /\ R2 # R3 /\ R2 # R4 /\ R3 # R4
      /\ event_list # <<>> /\ R2 # <<>> /\ R3 # <<>> /\ R4 # <<>>
  BY DEF event_list
<1>3. rest \in {event_list, R2, R3, R4}
  BY DEF Rests
<1>4. /\ Todo(event_list) = Kind
      /\ Todo(R2) = {"FRAME", "FRAME_PERIOD", "FRAME_SUMM"}
      /\ Todo(R3) = {"FRAME_PERIOD", "FRAME_SUMM"}
      /\ Todo(R4) = {"FRAME_SUMM"}
      /\ Todo(<<>>) = {}
  <2> HIDE DEF R2, R3, R4
  <2> QED
    BY <1>2, Zenon DEF Todo, R2, R3, R4
<1>5. {R2, R3, R4} \subseteq Rests
  BY DEF Rests
<1> HIDE DEF R2, R3, R4
<1>6. CASE rest = event_list
  BY <1>1, <1>2, <1>4, <1>5, <1>6 DEF Kind
<1>7. CASE rest = R2
  BY <1>1, <1>2, <1>4, <1>5, <1>7 DEF Kind
<1>8. CASE rest = R3
  BY <1>1, <1>2, <1>4, <1>5, <1>8 DEF Kind
<1>9. CASE rest = R4
  BY <1>1, <1>2, <1>4, <1>5, <1>9 DEF Kind
<1> QED
  BY <1>3, <1>6, <1>7, <1>8, <1>9

\* A poll begins with all kinds.
LEMMA AllTodo == event_list \in Rests /\ Todo(event_list) = Kind
<1>1. event_list \in Rests
  BY DEF Rests
<1>2. /\ event_list # <<"FRAME", "FRAME_PERIOD", "FRAME_SUMM">>
      /\ event_list # <<"FRAME_PERIOD", "FRAME_SUMM">>
      /\ event_list # <<"FRAME_SUMM">>
  BY DEF event_list
<1>3. Todo(event_list) = Kind
  BY <1>2, Zenon DEF Todo
<1> QED
  BY <1>1, <1>3

(***************************************************************************)
(* Types, with what a poll and the command keep between their steps        *)
(***************************************************************************)
Polling(at, rests) ==
    [at : at, rest : rests, in : Counter, seq : 0 .. SeqMod - 1, send : SUBSET Kind]

PollOK ==
    \/ poll = NoPoll
    \/ poll \in Polling({"add", "close"}, Rests)
    \/ poll \in Polling({"send"}, {<<>>})

ShellOK ==
    \/ shell = NoCommand
    \/ shell \in [at : {"threshold"}, arg : Command]

\* A poll never reads a statistic that is below the last reading.
Grown ==
    /\ g_last_counter.in_frames <= stats.in_frames
    /\ g_last_counter.in_errors <= stats.in_errors
    /\ g_last_counter.in_err_symb <= stats.in_err_symb

TInv ==
    /\ stats \in Counter
    /\ g_last_counter \in Counter
    /\ Grown
    /\ table \in [Kind -> Entry]
    /\ disc \in {"none", "up", "any"}
    /\ seq_num_next_tx \in 0 .. SeqMod - 1
    /\ last_seq \in 0 .. SeqMod - 1
    /\ PollOK
    /\ ShellOK

\* Which thread is where can be told from the first field.
LEMMA Where ==
    ASSUME PollOK, ShellOK
    PROVE  /\ poll.at \in {"idle", "add", "close", "send"}
           /\ poll = NoPoll <=> poll.at = "idle"
           /\ poll.at \in {"add", "close"} => poll \in Polling({"add", "close"}, Rests)
           /\ poll.at = "send" => poll \in Polling({"send"}, {<<>>})
           /\ shell.at \in {"idle", "threshold"}
           /\ shell.at = "threshold" =>
                shell \in [at : {"threshold"}, arg : Command]
  BY DEF PollOK, ShellOK, Polling, NoPoll, NoCommand

\* The start-up table and the table after a reset.
LEMMA InitTable ==
    /\ oam_err_event_init \in [Kind -> Entry]
    /\ \A k \in Kind :
        oam_err_event_init[k] =
            [window |-> DefWindow[k], threshold |-> DefThreshold[k],
             cur_window |-> 0, cur_value |-> 0,
             error_running_total |-> 0, event_running_total |-> 0,
             discarded |-> 0, delivered |-> 0, age |-> 0]
  BY WindowsAssumption DEF oam_err_event_init, Entry

\* oam_link_event_reset clears what was counted and keeps the windows.
LEMMA ResetTable ==
    ASSUME table \in [Kind -> Entry], oam_link_event_reset
    PROVE  /\ table' \in [Kind -> Entry]
           /\ \A k \in Kind :
                /\ table'[k].window = table[k].window
                /\ table'[k].cur_window = 0 /\ table'[k].age = 0
                /\ table'[k].cur_value = 0 /\ table'[k].error_running_total = 0
                /\ table'[k].discarded = 0
                /\ table'[k].event_running_total = 0 /\ table'[k].delivered = 0
           /\ g_last_counter' = ZeroCounter
  BY WindowsAssumption DEF oam_link_event_reset, oam_err_event_init, Entry

\* What a poll adds is a natural number.
LEMMA AddsNat ==
    ASSUME NEW k \in Kind, poll.in \in Counter
    PROVE  WindowStep(k) \in Nat /\ ValueStep(k) \in Nat
<1>1. /\ SymbolsPerPoll \in Nat /\ Poll \in Nat
      /\ poll.in.in_frames + poll.in.in_errors \in Nat
      /\ poll.in.in_err_symb \in Nat /\ poll.in.in_errors \in Nat
      /\ (IF poll.in.in_errors > 0 THEN 1 ELSE 0) \in Nat
  BY RatesAssumption DEF Counter
<1>2. /\ "SYM_PERIOD" # "FRAME" /\ "SYM_PERIOD" # "FRAME_PERIOD"
      /\ "SYM_PERIOD" # "FRAME_SUMM" /\ "FRAME" # "FRAME_PERIOD"
      /\ "FRAME" # "FRAME_SUMM" /\ "FRAME_PERIOD" # "FRAME_SUMM"
  OBVIOUS
<1>3. WindowStep(k) \in Nat
  BY <1>1, <1>2, Zenon DEF WindowStep, Kind
<1>4. ValueStep(k) \in Nat
  BY <1>1, <1>2, Zenon DEF ValueStep, Kind
<1> QED
  BY <1>3, <1>4

\* An entry that was added to, field by field.
LEMMA AddedFields ==
    ASSUME NEW e \in Entry, NEW k \in Kind, poll.in \in Counter
    PROVE  LET a == Added(e, k) IN
           /\ a \in Entry
           /\ a.window = e.window /\ a.threshold = e.threshold
           /\ a.cur_window = e.cur_window + WindowStep(k)
           /\ a.cur_value = e.cur_value + ValueStep(k)
           /\ a.error_running_total = e.error_running_total
           /\ a.event_running_total = e.event_running_total
           /\ a.discarded = e.discarded /\ a.delivered = e.delivered
           /\ a.age = IF k = "FRAME_PERIOD" THEN e.age ELSE e.age + 1
<1> DEFINE x == e.cur_window + WindowStep(k)
           y == e.cur_value + ValueStep(k)
           z == IF k = "FRAME_PERIOD" THEN e.age ELSE e.age + 1
<1>1. x \in Nat /\ y \in Nat /\ z \in Nat
  BY AddsNat DEF Entry
<1>2. Added(e, k) = [e EXCEPT !.cur_window = x, !.cur_value = y, !.age = z]
  BY DEF Added
<1> HIDE DEF x, y, z
<1>3. LET a == Added(e, k) IN
      /\ a \in Entry
      /\ a.window = e.window /\ a.threshold = e.threshold
      /\ a.cur_window = x /\ a.cur_value = y
      /\ a.error_running_total = e.error_running_total
      /\ a.event_running_total = e.event_running_total
      /\ a.discarded = e.discarded /\ a.delivered = e.delivered
      /\ a.age = z
  BY <1>1, <1>2 DEF Entry
<1> QED
  BY <1>3 DEF x, y, z

\* What PollAdd does to the entries.
LEMMA AddTable ==
    ASSUME TInv, PollAdd
    PROVE  LET h == Head(poll.rest) IN
           /\ h \in Kind /\ poll.in \in Counter
           /\ table' \in [Kind -> Entry]
           /\ \A k \in Kind \ {h} : table'[k] = table[k]
           /\ table'[h] = Added(table[h], h)
<1> DEFINE h == Head(poll.rest)
<1>1. poll \in Polling({"add", "close"}, Rests) /\ table \in [Kind -> Entry]
  BY Where DEF TInv, PollAdd
<1>2. h \in Kind /\ poll.in \in Counter
  BY <1>1, Visit DEF Polling
<1>3. table' = [table EXCEPT ![h] = Added(table[h], h)]
  BY DEF PollAdd
<1> HIDE DEF h
<1>4. Added(table[h], h) \in Entry
  BY <1>1, <1>2, AddedFields
<1>5. /\ table' \in [Kind -> Entry]
      /\ \A k \in Kind \ {h} : table'[k] = table[k]
      /\ table'[h] = Added(table[h], h)
  BY <1>1, <1>2, <1>3, <1>4
<1> QED
  BY <1>2, <1>5 DEF h

\* A closed entry, field by field.
LEMMA CloseFields ==
    ASSUME NEW e \in Entry
    PROVE  LET c == Close(e)
               crossed == e.cur_value >= e.threshold
           IN
           /\ c \in Entry
           /\ c.window = e.window /\ c.threshold = e.threshold
           /\ c.cur_window = 0 /\ c.cur_value = 0 /\ c.age = 0
           /\ c.error_running_total =
                IF crossed THEN e.error_running_total + e.cur_value
                           ELSE e.error_running_total
           /\ c.discarded =
                IF crossed THEN e.discarded ELSE e.discarded + e.cur_value
           /\ c.event_running_total =
                IF crossed THEN e.event_running_total + 1
                           ELSE e.event_running_total
           /\ c.delivered = e.delivered
<1> DEFINE crossed == e.cur_value >= e.threshold
           x == IF crossed THEN e.error_running_total + e.cur_value
                           ELSE e.error_running_total
           y == IF crossed THEN e.event_running_total + 1
                           ELSE e.event_running_total
           z == IF crossed THEN e.discarded ELSE e.discarded + e.cur_value
<1>1. x \in Nat /\ y \in Nat /\ z \in Nat
  BY DEF Entry
<1>2. Close(e) = [e EXCEPT !.error_running_total = x, !.event_running_total = y,
                    !.discarded = z, !.cur_window = 0, !.cur_value = 0, !.age = 0]
  BY DEF Close
<1> DEFINE d == [e EXCEPT !.error_running_total = x, !.event_running_total = y,
                          !.discarded = z]
<1>3. Close(e) = [d EXCEPT !.cur_window = 0, !.cur_value = 0, !.age = 0]
  BY <1>2
<1> HIDE DEF x, y, z
<1>4. /\ d \in Entry
      /\ d.window = e.window /\ d.threshold = e.threshold
      /\ d.error_running_total = x /\ d.event_running_total = y
      /\ d.discarded = z /\ d.delivered = e.delivered
  BY <1>1 DEF Entry
<1> HIDE DEF d
<1>0. 0 \in Nat
  OBVIOUS
<1>5. LET c == Close(e) IN
      /\ c \in Entry
      /\ c.window = d.window /\ c.threshold = d.threshold
      /\ c.cur_window = 0 /\ c.cur_value = 0 /\ c.age = 0
      /\ c.error_running_total = d.error_running_total
      /\ c.discarded = d.discarded
      /\ c.event_running_total = d.event_running_total
      /\ c.delivered = d.delivered
  BY <1>0, <1>3, <1>4, Zenon DEF Entry
<1> QED
  BY <1>4, <1>5 DEF x, y, z

\* What PollClose does to the entries and to the poll.
LEMMA CloseTable ==
    ASSUME TInv, PollClose
    PROVE  LET h == Head(poll.rest)
               over == WindowOver(table[h])
           IN
           /\ h \in Kind
           /\ table' \in [Kind -> Entry]
           /\ \A k \in Kind \ {h} : table'[k] = table[k]
           /\ table'[h] = IF over THEN Close(table[h]) ELSE table[h]
           /\ poll' = [at |-> IF Tail(poll.rest) = <<>> THEN "send" ELSE "add",
                       rest |-> Tail(poll.rest), in |-> poll.in, seq |-> poll.seq,
                       send |-> IF over /\ table[h].cur_value >= table[h].threshold
                                THEN poll.send \cup {h} ELSE poll.send]
<1> DEFINE h == Head(poll.rest)
           over == WindowOver(table[h])
<1>1. poll \in Polling({"add", "close"}, Rests) /\ table \in [Kind -> Entry]
  BY Where DEF TInv, PollClose
<1>2. h \in Kind
  BY <1>1, Visit DEF Polling
<1>3. table' = IF over THEN [table EXCEPT ![h] = Close(table[h])] ELSE table
  BY DEF PollClose
<1>4. poll' = [at |-> IF Tail(poll.rest) = <<>> THEN "send" ELSE "add",
               rest |-> Tail(poll.rest), in |-> poll.in, seq |-> poll.seq,
               send |-> IF over /\ table[h].cur_value >= table[h].threshold
                        THEN poll.send \cup {h} ELSE poll.send]
  BY <1>1 DEF PollClose, Polling
<1> HIDE DEF h, over
<1>5. Close(table[h]) \in Entry
  BY <1>1, <1>2, CloseFields
<1>6. /\ table' \in [Kind -> Entry]
      /\ \A k \in Kind \ {h} : table'[k] = table[k]
      /\ table'[h] = IF over THEN Close(table[h]) ELSE table[h]
  BY <1>1, <1>2, <1>3, <1>5
<1> QED
  BY <1>2, <1>4, <1>6 DEF h, over

\* An entry whose event was sent.
LEMMA SentFields ==
    ASSUME NEW e \in Entry
    PROVE  LET d == [e EXCEPT !.delivered = @ + 1] IN
           /\ d \in Entry
           /\ d.window = e.window /\ d.cur_window = e.cur_window
           /\ d.cur_value = e.cur_value /\ d.age = e.age
           /\ d.error_running_total = e.error_running_total
           /\ d.event_running_total = e.event_running_total
           /\ d.discarded = e.discarded
           /\ d.delivered = e.delivered + 1
<1> DEFINE n == e.delivered + 1
           d == [e EXCEPT !.delivered = n]
<1>1. n \in Nat
  BY DEF Entry
<1> HIDE DEF n
<1>2. /\ d \in Entry
      /\ d.window = e.window /\ d.cur_window = e.cur_window
      /\ d.cur_value = e.cur_value /\ d.age = e.age
      /\ d.error_running_total = e.error_running_total
      /\ d.event_running_total = e.event_running_total
      /\ d.discarded = e.discarded
      /\ d.delivered = n
  BY <1>1 DEF Entry
<1> QED
  BY <1>2 DEF n

\* What the command does to an entry.
LEMMA WindowFields ==
    ASSUME table \in [Kind -> Entry], NEW h \in Kind, NEW v \in Nat
    PROVE  LET t == [table EXCEPT ![h].window = v] IN
           /\ t \in [Kind -> Entry]
           /\ \A k \in Kind \ {h} : t[k] = table[k]
           /\ t[h].window = v
           /\ \A k \in Kind :
                /\ t[k].cur_window = table[k].cur_window
                /\ t[k].cur_value = table[k].cur_value
                /\ t[k].error_running_total = table[k].error_running_total
                /\ t[k].event_running_total = table[k].event_running_total
                /\ t[k].discarded = table[k].discarded
                /\ t[k].delivered = table[k].delivered
                /\ t[k].age = table[k].age
  BY DEF Entry

\* A new threshold changes no other field.
LEMMA ThresholdFields ==
    ASSUME table \in [Kind -> Entry], NEW h \in Kind, NEW v \in Nat
    PROVE  LET t == [table EXCEPT ![h].threshold = v] IN
           /\ t \in [Kind -> Entry]
           /\ \A k \in Kind :
                /\ t[k].window = table[k].window
                /\ t[k].cur_window = table[k].cur_window
                /\ t[k].cur_value = table[k].cur_value
                /\ t[k].error_running_total = table[k].error_running_total
                /\ t[k].event_running_total = table[k].event_running_total
                /\ t[k].discarded = table[k].discarded
                /\ t[k].delivered = table[k].delivered
                /\ t[k].age = table[k].age
  BY DEF Entry

(***************************************************************************)
(* Windows counted in time                                                 *)
(***************************************************************************)
Timed == Kind \ {"FRAME_PERIOD"}

\* What a poll adds to such a window, and the longest one.
StepOf(k) == IF k = "SYM_PERIOD" THEN SymbolsPerPoll ELSE Poll
Longest(k) ==
    IF k = "SYM_PERIOD" THEN (WinMax[k] \div Poll) * SymbolsPerPoll ELSE WinMax[k]

\* What a window grows by in one poll, for the kinds measured in time.
LEMMA TimedStep ==
    ASSUME NEW k \in Timed
    PROVE  WindowStep(k) = StepOf(k)
<1>1. /\ "SYM_PERIOD" # "FRAME" /\ "SYM_PERIOD" # "FRAME_PERIOD"
      /\ "SYM_PERIOD" # "FRAME_SUMM" /\ "FRAME" # "FRAME_PERIOD"
      /\ "FRAME" # "FRAME_SUMM" /\ "FRAME_PERIOD" # "FRAME_SUMM"
  OBVIOUS
<1> QED
  BY <1>1, Zenon DEF WindowStep, StepOf, Timed, Kind

\* The polls of a window that is not over yet are fewer than MaxPolls.
LEMMA InTime ==
    ASSUME NEW k \in Timed, NEW n \in Nat, n * StepOf(k) < Longest(k)
    PROVE  n < MaxPolls(k)
<1>1. /\ Poll \in Nat \ {0} /\ SymbolsPerPoll \in Nat \ {0} /\ WinMax[k] \in Nat
  BY RatesAssumption, WindowsAssumption DEF Timed
<1>2. CASE k = "SYM_PERIOD"
  <2> DEFINE q == WinMax[k] \div Poll
  <2>1. q \in Int
    BY <1>1, DivMod
  <2>2. n * SymbolsPerPoll < q * SymbolsPerPoll
    BY <1>2 DEF StepOf, Longest
  <2> HIDE DEF q
  <2>3. n < q
    BY <1>1, <2>1, <2>2, Cancel
  <2> QED
    BY <1>2, <2>3 DEF MaxPolls, q
<1>3. CASE k # "SYM_PERIOD"
  <2> DEFINE m == WinMax[k] + Poll - 1
             q == m \div Poll
  <2>1. m \in Int /\ n * Poll < WinMax[k]
    BY <1>1, <1>3 DEF StepOf, Longest
  <2>2. q \in Int /\ m % Poll \in 0 .. Poll - 1 /\ m = (Poll * q) + (m % Poll)
    BY <1>1, <2>1, DivMod
  <2>3. MaxPolls(k) = q
    BY <1>3 DEF MaxPolls
  <2>4. WinMax[k] = m + 1 - Poll
    BY <1>1
  <2> HIDE DEF q, m
  <2>5. n * Poll < q * Poll
    BY <1>1, <2>1, <2>2, <2>4, Z3
  <2>6. n < q
    BY <1>1, <2>2, <2>5, Cancel
  <2> QED
    BY <2>3, <2>6
<1> QED
  BY <1>2, <1>3

\* A window that has just been opened is in time.
LEMMA FreshInTime ==
    ASSUME NEW k \in Timed
    PROVE  0 < MaxPolls(k)
<1>1. /\ Poll \in Nat \ {0} /\ SymbolsPerPoll \in Nat \ {0} /\ WinMax[k] \in Nat
      /\ Poll <= WinMax[k]
  BY RatesAssumption, WindowsAssumption DEF Timed
<1>2. 0 * StepOf(k) = 0
  BY <1>1 DEF StepOf
<1>3. CASE k = "SYM_PERIOD"
  <2> DEFINE q == WinMax[k] \div Poll
  <2>1. Poll \div Poll <= q
    BY <1>1, DivOrder
  <2>2. Poll \div Poll = 1
    BY <1>1, Z3
  <2>3. q \in Nat
    BY <1>1, DivOrder
  <2> HIDE DEF q
  <2>4. 0 < q * SymbolsPerPoll
    BY <1>1, <2>1, <2>2, <2>3, Z3
  <2>5. 0 < Longest(k)
    BY <1>3, <2>4 DEF Longest, q
  <2> QED
    BY <1>2, <2>5, InTime
<1>4. CASE k # "SYM_PERIOD"
  <2>1. 0 < Longest(k)
    BY <1>1, <1>4 DEF Longest
  <2> QED
    BY <1>2, <2>1, InTime
<1> QED
  BY <1>3, <1>4

\* The window that an accepted command sets.
LEMMA CommandWindow ==
    ASSUME NEW c \in Command, Accepted(c)
    PROVE  /\ Converted(c) \in Nat
           /\ c.type \in Timed => Converted(c) <= Longest(c.type)
<1>1. /\ c.type \in Kind /\ c.win \in Nat /\ WinMax[c.type] \in Nat
      /\ c.win <= WinMax[c.type]
      /\ Poll \in Nat \ {0} /\ SymbolsPerPoll \in Nat \ {0} /\ FramesPerPoll \in Nat
      /\ WordMod \in Nat \ {0}
  BY RatesAssumption, WindowsAssumption DEF Command, Accepted
<1>2. "SYM_PERIOD" # "FRAME_PERIOD"
  OBVIOUS
<1>3. CASE c.type = "SYM_PERIOD"
  <2> DEFINE p == c.win \div Poll
             q == WinMax[c.type] \div Poll
  <2>1. p \in Nat /\ p <= q /\ q \in Nat
    BY <1>1, DivOrder
  <2> DEFINE n == p * SymbolsPerPoll
             m == q * SymbolsPerPoll
  <2>2. Converted(c) = n % WordMod
    BY <1>2, <1>3, Zenon DEF Converted
  <2>3. Longest(c.type) = m
    BY <1>3 DEF Longest
  <2> HIDE DEF p, q
  <2>4. n <= m
    BY <1>1, <2>1, Scale
  <2>5. n \in Nat /\ m \in Nat
    BY <1>1, <2>1, Z3
  <2> HIDE DEF n, m
  <2>6. n % WordMod \in Nat /\ n % WordMod <= n
    BY <1>1, <2>5, Wrapped
  <2> QED
    BY <2>2, <2>3, <2>4, <2>5, <2>6
<1>4. CASE c.type = "FRAME_PERIOD"
  <2> DEFINE n == c.win * FramesPerPoll
  <2>1. n \in Nat
    BY <1>1, Z3
  <2>2. Converted(c) = n \div Poll
    BY <1>2, <1>4, Zenon DEF Converted
  <2> HIDE DEF n
  <2>3. n \div Poll \in Nat
    BY <1>1, <2>1, DivOrder
  <2> QED
    BY <1>4, <2>2, <2>3 DEF Timed
<1>5. CASE c.type # "SYM_PERIOD" /\ c.type # "FRAME_PERIOD"
  <2>1. Converted(c) = c.win
    BY <1>5, Zenon DEF Converted
  <2>2. Longest(c.type) = WinMax[c.type]
    BY <1>5 DEF Longest
  <2> QED
    BY <1>1, <2>1, <2>2
<1> QED
  BY <1>3, <1>4, <1>5

(***************************************************************************)
(* Types are preserved                                                     *)
(***************************************************************************)
LEMMA ZeroType == ZeroCounter \in Counter
  BY DEF ZeroCounter, Counter

\* Between two polls there is nothing to show of the poll.
LEMMA BetweenPolls ==
    ASSUME poll = NoPoll
    PROVE  PollOK
  BY DEF PollOK

\* Frames are counted.
LEMMA CountType ==
    ASSUME TInv, NEW good \in 0 .. 1, NEW bad \in 0 .. 1, NEW symb \in 0 .. 1,
           app_pon_stats_count(good, bad, symb)
    PROVE  stats' \in Counter /\ Grown'
<1>1. stats \in Counter /\ g_last_counter \in Counter /\ Grown
      /\ g_last_counter' = g_last_counter
  BY DEF TInv, app_pon_stats_count
<1>2. /\ stats'.in_frames = stats.in_frames + good + bad
      /\ stats'.in_errors = stats.in_errors + bad
      /\ stats'.in_err_symb = stats.in_err_symb + symb
      /\ stats' \in Counter
  BY <1>1 DEF app_pon_stats_count, Counter
<1> QED
  BY <1>1, <1>2 DEF Counter, Grown

\* A poll reads the counters and takes its sequence number.
LEMMA BeginType ==
    ASSUME TInv, PollBegin
    PROVE  /\ PollOK' /\ Grown' /\ g_last_counter' \in Counter
           /\ seq_num_next_tx' \in 0 .. SeqMod - 1
           /\ poll'.at = "add" /\ poll'.rest = event_list
           /\ poll'.in = Growth /\ poll'.send = {} /\ poll'.seq = seq_num_next_tx'
<1>1. seq_num_next_tx' \in 0 .. SeqMod - 1
  BY TakenBack, RatesAssumption DEF PollBegin, TInv
<1>2. Growth \in Counter
  BY DEF TInv, Grown, Counter, Growth
<1>3. poll' = [at |-> "add", rest |-> event_list, in |-> Growth,
               seq |-> seq_num_next_tx', send |-> {}]
  BY DEF PollBegin, oam_event_period_counter_get
<1>4. poll' \in Polling({"add", "close"}, Rests)
  BY <1>1, <1>2, <1>3, AllTodo DEF Polling
<1>5. PollOK'
  BY <1>4 DEF PollOK, Polling
<1>6. stats' = stats /\ g_last_counter' = stats /\ stats \in Counter
  BY DEF PollBegin, oam_event_period_counter_get, TInv
<1>7. Grown'
  BY <1>6 DEF Grown, Counter
<1> QED
  BY <1>1, <1>3, <1>5, <1>6, <1>7

\* A poll adds what it read to an entry.
LEMMA AddType ==
    ASSUME TInv, PollAdd
    PROVE  /\ PollOK'
           /\ poll'.at = "close" /\ poll'.rest = poll.rest /\ poll'.in = poll.in
           /\ poll'.seq = poll.seq /\ poll'.send = poll.send
<1>1. poll \in Polling({"add", "close"}, Rests)
  BY Where DEF TInv, PollAdd
<1>2. poll' = [poll EXCEPT !.at = "close"]
  BY DEF PollAdd
<1>3. /\ poll' \in Polling({"add", "close"}, Rests)
      /\ poll'.at = "close" /\ poll'.rest = poll.rest /\ poll'.in = poll.in
      /\ poll'.seq = poll.seq /\ poll'.send = poll.send
  BY <1>1, <1>2 DEF Polling
<1> QED
  BY <1>3 DEF PollOK, Polling

\* A poll closes the window of an entry.
LEMMA CloseType ==
    ASSUME TInv, PollClose
    PROVE  PollOK'
<1> DEFINE h == Head(poll.rest)
           more == WindowOver(table[h]) /\ table[h].cur_value >= table[h].threshold
<1>1. poll \in Polling({"add", "close"}, Rests)
  BY Where DEF TInv, PollClose
<1>2. /\ h \in Kind
      /\ poll' = [at |-> IF Tail(poll.rest) = <<>> THEN "send" ELSE "add",
                  rest |-> Tail(poll.rest), in |-> poll.in, seq |-> poll.seq,
                  send |-> IF more THEN poll.send \cup {h} ELSE poll.send]
  BY CloseTable
<1>3. poll.rest \in Rests /\ poll.in \in Counter /\ poll.seq \in 0 .. SeqMod - 1
      /\ poll.send \in SUBSET Kind
  BY <1>1 DEF Polling
<1>4. Tail(poll.rest) # <<>> => Tail(poll.rest) \in Rests
  BY <1>3, Visit
<1> HIDE DEF h, more
<1>5. CASE Tail(poll.rest) = <<>>
  <2>1. poll' \in Polling({"send"}, {<<>>})
    BY <1>2, <1>3, <1>5 DEF Polling
  <2> QED
    BY <2>1 DEF PollOK, Polling
<1>6. CASE Tail(poll.rest) # <<>>
  <2>1. poll' \in Polling({"add", "close"}, Rests)
    BY <1>2, <1>3, <1>4, <1>6 DEF Polling
  <2> QED
    BY <2>1 DEF PollOK, Polling
<1> QED
  BY <1>5, <1>6

\* What PollSend leaves.
LEMMA SendTable ==
    ASSUME TInv, PollSend
    PROVE  /\ table' \in [Kind -> Entry]
           /\ poll \in Polling({"send"}, {<<>>})
           /\ seq_num_next_tx' \in 0 .. SeqMod - 1 /\ last_seq' \in 0 .. SeqMod - 1
<1>1. poll \in Polling({"send"}, {<<>>}) /\ table \in [Kind -> Entry]
  BY Where DEF TInv, PollSend
<1>2. SeqMod \in Nat \ {0} /\ seq_num_next_tx \in 0 .. SeqMod - 1
      /\ last_seq \in 0 .. SeqMod - 1 /\ poll.seq \in 0 .. SeqMod - 1
  BY <1>1, RatesAssumption DEF TInv, Polling
<1>3. CASE poll.send # {} /\ disc = "any"
  <2>1. table' = [k \in Kind |-> IF k \in poll.send
                    THEN [table[k] EXCEPT !.delivered = @ + 1] ELSE table[k]]
        /\ last_seq' = poll.seq /\ seq_num_next_tx' = seq_num_next_tx
    BY <1>3 DEF PollSend
  <2>2. \A k \in Kind : [table[k] EXCEPT !.delivered = @ + 1] \in Entry
    BY <1>1, SentFields
  <2>3. table' \in [Kind -> Entry]
    BY <1>1, <2>1, <2>2, Zenon
  <2> QED
    BY <1>1, <1>2, <2>1, <2>3
<1>4. CASE ~ (poll.send # {} /\ disc = "any")
  <2>1. seq_num_next_tx' = (seq_num_next_tx - 1) % SeqMod
        /\ table' = table /\ last_seq' = last_seq
    BY <1>4 DEF PollSend
  <2>2. (seq_num_next_tx - 1) % SeqMod \in 0 .. SeqMod - 1
    BY <1>2, DivMod
  <2> QED
    BY <1>1, <1>2, <2>1, <2>2
<1> QED
  BY <1>3, <1>4

\* What the command leaves.
LEMMA CommandTable ==
    ASSUME TInv, NEW c \in Commands, oam_link_event_window_set(c)
    PROVE  /\ table' \in [Kind -> Entry] /\ ShellOK'
           /\ c.type \in Kind /\ c \in Command
           /\ \A k \in Kind \ {c.type} : table'[k] = table[k]
           /\ table'[c.type].window = Converted(c)
           /\ \A k \in Kind :
                /\ table'[k].cur_window = table[k].cur_window
                /\ table'[k].cur_value = table[k].cur_value
                /\ table'[k].error_running_total = table[k].error_running_total
                /\ table'[k].event_running_total = table[k].event_running_total
                /\ table'[k].discarded = table[k].discarded
                /\ table'[k].delivered = table[k].delivered
                /\ table'[k].age = table[k].age
<1>1. c \in Command /\ c.type \in Kind
  BY CommandsAssumption DEF Command
<1>2. Converted(c) \in Nat
  BY <1>1, CommandWindow DEF oam_link_event_window_set
<1>3. table' = [table EXCEPT ![c.type].window = Converted(c)]
  BY DEF oam_link_event_window_set
<1>4. ShellOK'
  BY <1>1 DEF oam_link_event_window_set, ShellOK
<1>5. table \in [Kind -> Entry]
  BY DEF TInv
<1> DEFINE h == c.type
           v == Converted(c)
           t == [table EXCEPT ![h].window = v]
<1>6. h \in Kind /\ v \in Nat
  BY <1>1, <1>2
<1>7. table' = t
  BY <1>3
<1> HIDE DEF h, v
<1>8. /\ t \in [Kind -> Entry]
      /\ \A k \in Kind \ {h} : t[k] = table[k]
      /\ t[h].window = v
      /\ \A k \in Kind :
           /\ t[k].cur_window = table[k].cur_window
           /\ t[k].cur_value = table[k].cur_value
           /\ t[k].error_running_total = table[k].error_running_total
           /\ t[k].event_running_total = table[k].event_running_total
           /\ t[k].discarded = table[k].discarded
           /\ t[k].delivered = table[k].delivered
           /\ t[k].age = table[k].age
  BY <1>5, <1>6, WindowFields
<1> HIDE DEF t
<1> QED
  BY <1>1, <1>4, <1>7, <1>8 DEF h, v

\* The shell sets a threshold.
LEMMA ThresholdTable ==
    ASSUME TInv, oam_link_event_threshold_set
    PROVE  /\ table' \in [Kind -> Entry] /\ ShellOK'
           /\ \A k \in Kind :
                /\ table'[k].window = table[k].window
                /\ table'[k].cur_window = table[k].cur_window
                /\ table'[k].cur_value = table[k].cur_value
                /\ table'[k].error_running_total = table[k].error_running_total
                /\ table'[k].event_running_total = table[k].event_running_total
                /\ table'[k].discarded = table[k].discarded
                /\ table'[k].delivered = table[k].delivered
                /\ table'[k].age = table[k].age
<1> DEFINE h == shell.arg.type
           v == shell.arg.threshold
           t == [table EXCEPT ![h].threshold = v]
<1>1. h \in Kind /\ v \in Nat
  BY Where DEF TInv, oam_link_event_threshold_set, Command
<1>2. table' = t /\ table \in [Kind -> Entry]
  BY DEF oam_link_event_threshold_set, TInv
<1>3. ShellOK'
  BY DEF oam_link_event_threshold_set, ShellOK
<1> HIDE DEF h, v
<1>4. /\ t \in [Kind -> Entry]
      /\ \A k \in Kind :
           /\ t[k].window = table[k].window
           /\ t[k].cur_window = table[k].cur_window
           /\ t[k].cur_value = table[k].cur_value
           /\ t[k].error_running_total = table[k].error_running_total
           /\ t[k].event_running_total = table[k].event_running_total
           /\ t[k].discarded = table[k].discarded
           /\ t[k].delivered = table[k].delivered
           /\ t[k].age = table[k].age
  BY <1>1, <1>2, ThresholdFields
<1> HIDE DEF t
<1> QED
  BY <1>2, <1>3, <1>4

\* Every step keeps the types.
LEMMA TypeStep ==
    ASSUME TInv, [Next]_vars
    PROVE  TInv'
<1> USE DEF TInv
<1>0. SeqMod \in Nat \ {0} /\ 0 \in 0 .. SeqMod - 1
  BY RatesAssumption
<1>z. ZeroCounter \in Counter
      /\ (g_last_counter' = ZeroCounter /\ stats' \in Counter => Grown')
  BY ZeroType DEF Grown, ZeroCounter, Counter
<1>1. CASE Register
  BY <1>0, <1>1, <1>z, ResetTable, BetweenPolls DEF Register, ShellOK, PollOK
<1>2. CASE onu_pon_link_down_proc
  BY <1>0, <1>2, <1>z, InitTable DEF onu_pon_link_down_proc, ShellOK, PollOK
<1>3. CASE oam_link_complete
  BY <1>0, <1>3, <1>z, ResetTable DEF oam_link_complete, ShellOK, PollOK
<1>4. CASE FallBack
  BY <1>4 DEF FallBack, Grown, ShellOK, PollOK
<1>5. CASE \E good, bad, symb \in 0 .. 1 : app_pon_stats_count(good, bad, symb)
  <2>1. PICK good \in 0 .. 1, bad \in 0 .. 1, symb \in 0 .. 1 :
            app_pon_stats_count(good, bad, symb)
    BY <1>5
  <2>2. stats' \in Counter /\ Grown'
    BY <2>1, CountType
  <2>3. UNCHANGED <<g_last_counter, table, disc, seq_num_next_tx, poll, shell, last_seq>>
    BY <2>1 DEF app_pon_stats_count
  <2> QED
    BY <2>2, <2>3 DEF ShellOK, PollOK
<1>6. CASE ctc_oam_build_alarm_event
  <2>1. (seq_num_next_tx + 1) % SeqMod \in 0 .. SeqMod - 1
    BY <1>0, TakenBack
  <2> QED
    BY <1>6, <2>1 DEF ctc_oam_build_alarm_event, Grown, ShellOK, PollOK
<1>7. CASE PollBegin
  BY <1>7, BeginType DEF PollBegin, ShellOK
<1>8. CASE PollAdd
  BY <1>8, AddType, AddTable DEF PollAdd, Grown, ShellOK
<1>9. CASE PollClose
  BY <1>9, CloseType, CloseTable DEF PollClose, Grown, ShellOK
<1>10. CASE PollSend
  BY <1>10, SendTable DEF PollSend, Grown, ShellOK, PollOK
<1>11. CASE \E c \in Commands : oam_link_event_window_set(c)
  <2>1. PICK c \in Commands : oam_link_event_window_set(c)
    BY <1>11
  <2>2. table' \in [Kind -> Entry] /\ ShellOK'
    BY <2>1, CommandTable
  <2> QED
    BY <2>1, <2>2 DEF oam_link_event_window_set, Grown, PollOK
<1>12. CASE oam_link_event_threshold_set
  BY <1>12, ThresholdTable DEF oam_link_event_threshold_set, Grown, PollOK
<1>13. CASE UNCHANGED vars
  BY <1>13 DEF vars, Grown, ShellOK, PollOK
<1> QED
  BY <1>1, <1>2, <1>3, <1>4, <1>5, <1>6, <1>7, <1>8, <1>9, <1>10, <1>11, <1>12, <1>13
     DEF Next

(***************************************************************************)
(* The inductive invariant                                                 *)
(***************************************************************************)
\* The kinds whose share of the growth the running poll has still to add.
Ahead ==
    IF poll.at = "add" THEN Todo(poll.rest)
    ELSE IF poll.at = "close" THEN Todo(poll.rest) \ {Head(poll.rest)} ELSE {}

Pending(k) == IF k \in Ahead THEN Source(poll.in, k) ELSE 0

\* ErrorConservation within a poll: what it has still to add makes up the
\* difference.
Conserved ==
    \A k \in Kind \ {"FRAME_SUMM"} :
        Counted(k) + Pending(k) = Source(g_last_counter, k)

\* EventNumbers within a poll: its number is taken.
Numbered ==
    IF poll.at = "idle" THEN seq_num_next_tx = last_seq
    ELSE /\ seq_num_next_tx = (last_seq + 1) % SeqMod
         /\ poll.seq = seq_num_next_tx

\* TotalsDelivered within a poll: the TLVs it has built are still to be sent,
\* and it has built none for a kind that it has still to close.
Told ==
    /\ poll.at \in {"add", "close"} => poll.send \cap Todo(poll.rest) = {}
    /\ disc = "any" =>
        \A k \in Kind :
            table[k].event_running_total =
                table[k].delivered
                    + (IF poll.at # "idle" /\ k \in poll.send THEN 1 ELSE 0)

\* ClosedInTime within a poll: only the window that it is about to close may
\* have reached its longest length.
InPeriod ==
    \A k \in Timed :
        /\ table[k].cur_window = table[k].age * StepOf(k)
        /\ table[k].window <= Longest(k)
        /\ table[k].age < MaxPolls(k) \/ (poll.at = "close" /\ k = Head(poll.rest))

\* Every step keeps the numbers of the events in order.
LEMMA NumberedStep ==
    ASSUME TInv, Numbered, [Next]_vars
    PROVE  Numbered'
<1>0. SeqMod \in Nat \ {0} /\ last_seq \in 0 .. SeqMod - 1
  BY RatesAssumption DEF TInv
<1>1. CASE Register
  BY <1>1 DEF Register, Numbered, NoPoll
<1>2. CASE onu_pon_link_down_proc
  BY <1>2 DEF onu_pon_link_down_proc, Numbered, NoPoll
<1>3. CASE ctc_oam_build_alarm_event
  BY <1>3 DEF ctc_oam_build_alarm_event, Numbered, NoPoll
<1>4. CASE PollBegin
  <2>1. poll'.at = "add" /\ poll'.seq = seq_num_next_tx'
    BY <1>4, BeginType
  <2>2. /\ seq_num_next_tx' = (seq_num_next_tx + 1) % SeqMod
        /\ last_seq' = last_seq /\ poll.at = "idle"
    BY <1>4 DEF PollBegin, NoPoll
  <2> QED
    BY <2>1, <2>2 DEF Numbered
<1>5. CASE PollAdd
  <2>1. poll'.at = "close" /\ poll'.seq = poll.seq
    BY <1>5, AddType
  <2>2. poll.at = "add" /\ seq_num_next_tx' = seq_num_next_tx /\ last_seq' = last_seq
    BY <1>5 DEF PollAdd
  <2> QED
    BY <2>1, <2>2 DEF Numbered
<1>6. CASE PollClose
  <2>1. poll'.at # "idle" /\ poll'.seq = poll.seq
    BY <1>6, CloseTable
  <2>2. poll.at = "close" /\ seq_num_next_tx' = seq_num_next_tx /\ last_seq' = last_seq
    BY <1>6 DEF PollClose
  <2> QED
    BY <2>1, <2>2 DEF Numbered
<1>7. CASE PollSend
  <2>1. /\ seq_num_next_tx = (last_seq + 1) % SeqMod
        /\ poll.seq = seq_num_next_tx
    BY <1>7 DEF PollSend, Numbered
  <2>2. (((last_seq + 1) % SeqMod) - 1) % SeqMod = last_seq
    BY <1>0, TakenBack
  <2>3. poll'.at = "idle"
    BY <1>7 DEF PollSend, NoPoll
  <2>4. CASE poll.send # {} /\ disc = "any"
    BY <1>7, <2>1, <2>3, <2>4 DEF PollSend, Numbered
  <2>5. CASE ~ (poll.send # {} /\ disc = "any")
    <3>1. seq_num_next_tx' = (seq_num_next_tx - 1) % SeqMod /\ last_seq' = last_seq
      BY <1>7, <2>5 DEF PollSend
    <3> QED
      BY <2>1, <2>2, <2>3, <3>1 DEF Numbered
  <2> QED
    BY <2>4, <2>5
<1>8. CASE UNCHANGED <<poll, seq_num_next_tx, last_seq>>
  BY <1>8 DEF Numbered
<1>9. CASE oam_link_complete \/ FallBack \/ oam_link_event_threshold_set
           \/ (\E good, bad, symb \in 0 .. 1 : app_pon_stats_count(good, bad, symb))
           \/ (\E c \in Commands : oam_link_event_window_set(c)) \/ UNCHANGED vars
  BY <1>8, <1>9 DEF oam_link_complete, FallBack, oam_link_event_threshold_set,
                    app_pon_stats_count, oam_link_event_window_set, vars
<1> QED
  BY <1>1, <1>2, <1>3, <1>4, <1>5, <1>6, <1>7, <1>9 DEF Next

\* What a poll adds to a window of errors is the growth of their statistic.
LEMMA AddsSource ==
    ASSUME NEW k \in Kind \ {"FRAME_SUMM"}
    PROVE  ValueStep(k) = Source(poll.in, k)
<1>1. /\ "SYM_PERIOD" # "FRAME" /\ "SYM_PERIOD" # "FRAME_PERIOD"
      /\ "SYM_PERIOD" # "FRAME_SUMM"
  OBVIOUS
<1> QED
  BY <1>1, Zenon DEF ValueStep, Source, Kind

\* Conserved is about the counted errors, the poll and the last reading only.
LEMMA ConservedSame ==
    ASSUME Conserved, poll' = poll, g_last_counter' = g_last_counter,
           \A k \in Kind :
                /\ table'[k].cur_value = table[k].cur_value
                /\ table'[k].error_running_total = table[k].error_running_total
                /\ table'[k].discarded = table[k].discarded
    PROVE  Conserved'
  BY DEF Conserved, Counted, Pending, Ahead, Source

\* After a reset nothing is counted, and nothing was read.
LEMMA ConservedReset ==
    ASSUME g_last_counter' = ZeroCounter, poll' = NoPoll,
           \A k \in Kind : /\ table'[k].cur_value = 0
                           /\ table'[k].error_running_total = 0
                           /\ table'[k].discarded = 0
    PROVE  Conserved'
<1>1. Ahead' = {}
  BY DEF Ahead, NoPoll
<1> QED
  BY <1>1 DEF Conserved, Counted, Pending, Source, ZeroCounter

\* What a poll has read it still has to add.
LEMMA ConservedBegin ==
    ASSUME TInv, Conserved, PollBegin
    PROVE  Conserved'
<1>1. Ahead' = Kind /\ poll'.in = Growth
  BY BeginType, AllTodo DEF Ahead
<1>2. Ahead = {}
  BY DEF PollBegin, Ahead, NoPoll
<1>3. table' = table /\ g_last_counter' = stats
  BY DEF PollBegin, oam_event_period_counter_get
<1> SUFFICES ASSUME NEW k \in Kind \ {"FRAME_SUMM"}
             PROVE  Counted(k)' + Pending(k)' = Source(g_last_counter', k)
  BY DEF Conserved, Source
<1>4. Counted(k)' = Counted(k) /\ Counted(k) \in Int
  BY <1>3 DEF Counted, TInv, Entry
<1>5. Pending(k)' = Source(Growth, k) /\ Pending(k) = 0
  BY <1>1, <1>2 DEF Pending, Source
<1>6. Counted(k) = Source(g_last_counter, k)
  BY <1>4, <1>5 DEF Conserved
<1>7. Source(Growth, k) = Source(stats, k) - Source(g_last_counter, k)
  BY DEF Source, Growth
<1>8. Source(stats, k) \in Int /\ Source(g_last_counter, k) \in Int
  BY DEF TInv, Counter, Source
<1> QED
  BY <1>3, <1>4, <1>5, <1>6, <1>7, <1>8

\* What a poll adds to an entry it has read before.
LEMMA ConservedAdd ==
    ASSUME TInv, Conserved, PollAdd
    PROVE  Conserved'
<1> DEFINE h == Head(poll.rest)
<1>1. poll \in Polling({"add", "close"}, Rests) /\ poll.at = "add"
      /\ table \in [Kind -> Entry]
  BY Where DEF TInv, PollAdd
<1>2. Ahead = Todo(poll.rest) /\ h \in Todo(poll.rest)
  BY <1>1, Visit DEF Ahead, Polling
<1>3. Ahead' = Ahead \ {h} /\ poll'.in = poll.in
  BY <1>2, AddType DEF Ahead
<1>4. /\ h \in Kind /\ poll.in \in Counter
      /\ \A k \in Kind \ {h} : table'[k] = table[k]
      /\ table'[h] = Added(table[h], h)
  BY AddTable
<1>5. g_last_counter' = g_last_counter
  BY DEF PollAdd
<1> HIDE DEF h
<1> SUFFICES ASSUME NEW k \in Kind \ {"FRAME_SUMM"}
             PROVE  Counted(k)' + Pending(k)' = Counted(k) + Pending(k)
  BY <1>5 DEF Conserved, Source
<1>6. CASE k # h
  BY <1>3, <1>4, <1>6 DEF Counted, Pending, Source
<1>7. CASE k = h
  <2>1. /\ table'[k].cur_value = table[k].cur_value + ValueStep(k)
        /\ table'[k].error_running_total = table[k].error_running_total
        /\ table'[k].discarded = table[k].discarded
    BY <1>1, <1>4, <1>7, AddedFields
  <2>2. ValueStep(k) = Source(poll.in, k) /\ ValueStep(k) \in Nat
    BY <1>4, <1>7, AddsSource, AddsNat
  <2>3. Pending(k) = ValueStep(k) /\ Pending(k)' = 0
    BY <1>2, <1>3, <1>7, <2>2 DEF Pending, Source
  <2>4. table[k] \in Entry
    BY <1>1
  <2>5. Counted(k)' = Counted(k) + ValueStep(k) /\ Counted(k) \in Nat
    BY <2>1, <2>2, <2>4 DEF Counted, Entry
  <2> QED
    BY <2>2, <2>3, <2>5
<1> QED
  BY <1>6, <1>7

\* A closed window moves what it counted into the totals.
LEMMA ConservedClose ==
    ASSUME TInv, Conserved, PollClose
    PROVE  Conserved'
<1> DEFINE h == Head(poll.rest)
           over == WindowOver(table[h])
<1>1. poll \in Polling({"add", "close"}, Rests) /\ poll.at = "close"
      /\ table \in [Kind -> Entry]
  BY Where DEF TInv, PollClose
<1>2. /\ Todo(Tail(poll.rest)) = Todo(poll.rest) \ {h}
      /\ Tail(poll.rest) = <<>> => Todo(poll.rest) = {h}
  BY <1>1, Visit DEF Polling
<1>3. /\ h \in Kind
      /\ \A k \in Kind \ {h} : table'[k] = table[k]
      /\ table'[h] = IF over THEN Close(table[h]) ELSE table[h]
      /\ poll'.at = IF Tail(poll.rest) = <<>> THEN "send" ELSE "add"
      /\ poll'.rest = Tail(poll.rest)
      /\ poll'.in = poll.in
  BY CloseTable
<1>4. Ahead' = Ahead
  BY <1>1, <1>2, <1>3 DEF Ahead
<1>5. g_last_counter' = g_last_counter
  BY DEF PollClose
<1> HIDE DEF h, over
<1> SUFFICES ASSUME NEW k \in Kind \ {"FRAME_SUMM"}
             PROVE  Counted(k)' = Counted(k)
  BY <1>3, <1>4, <1>5 DEF Conserved, Source, Pending
<1>6. CASE k # h \/ ~ over
  BY <1>3, <1>6 DEF Counted
<1>7. CASE k = h /\ over
  <2> DEFINE e == table[h]
  <2>1. e \in Entry /\ table'[h] = Close(e)
    BY <1>1, <1>3, <1>7
  <2> HIDE DEF e
  <2>2. Close(e).cur_value + Close(e).error_running_total + Close(e).discarded
            = e.cur_value + e.error_running_total + e.discarded
    <3>1. CASE e.cur_value >= e.threshold
      BY <2>1, <3>1, CloseFields DEF Entry
    <3>2. CASE ~ (e.cur_value >= e.threshold)
      BY <2>1, <3>2, CloseFields DEF Entry
    <3> QED
      BY <3>1, <3>2
  <2> QED
    BY <1>7, <2>1, <2>2 DEF Counted, e
<1> QED
  BY <1>6, <1>7

\* Sending an event leaves the windows and the totals alone.
LEMMA SendSame ==
    ASSUME TInv, PollSend
    PROVE  \A k \in Kind :
            /\ table'[k].window = table[k].window
            /\ table'[k].cur_window = table[k].cur_window
            /\ table'[k].cur_value = table[k].cur_value
            /\ table'[k].age = table[k].age
            /\ table'[k].error_running_total = table[k].error_running_total
            /\ table'[k].event_running_total = table[k].event_running_total
            /\ table'[k].discarded = table[k].discarded
            /\ table'[k].delivered =
                 IF poll.send # {} /\ disc = "any" /\ k \in poll.send
                 THEN table[k].delivered + 1 ELSE table[k].delivered
<1> SUFFICES ASSUME NEW k \in Kind
             PROVE  /\ table'[k].window = table[k].window
                    /\ table'[k].cur_window = table[k].cur_window
                    /\ table'[k].cur_value = table[k].cur_value
                    /\ table'[k].age = table[k].age
                    /\ table'[k].error_running_total = table[k].error_running_total
                    /\ table'[k].event_running_total = table[k].event_running_total
                    /\ table'[k].discarded = table[k].discarded
                    /\ table'[k].delivered =
                         IF poll.send # {} /\ disc = "any" /\ k \in poll.send
                         THEN table[k].delivered + 1 ELSE table[k].delivered
  OBVIOUS
<1>1. table[k] \in Entry
  BY DEF TInv
<1>2. CASE poll.send # {} /\ disc = "any" /\ k \in poll.send
  <2>1. table'[k] = [table[k] EXCEPT !.delivered = @ + 1]
    BY <1>2, Zenon DEF PollSend
  <2> QED
    BY <1>1, <1>2, <2>1, SentFields
<1>3. CASE ~ (poll.send # {} /\ disc = "any" /\ k \in poll.send)
  <2>1. table'[k] = table[k]
    BY <1>3, Zenon DEF PollSend
  <2> QED
    BY <1>3, <2>1
<1> QED
  BY <1>2, <1>3

\* Every step keeps the errors conserved.
LEMMA ConservedStep ==
    ASSUME TInv, Conserved, [Next]_vars
    PROVE  Conserved'
<1>t. table \in [Kind -> Entry]
  BY DEF TInv
<1>1. CASE Register \/ oam_link_complete
  <2>1. oam_link_event_reset /\ poll' = NoPoll
    BY <1>1 DEF Register, oam_link_complete
  <2> QED
    <3>1. /\ g_last_counter' = ZeroCounter
          /\ \A k \in Kind : /\ table'[k].cur_value = 0
                             /\ table'[k].error_running_total = 0
                             /\ table'[k].discarded = 0
      BY <1>t, <2>1, ResetTable
    <3>2. poll' = NoPoll
      BY <2>1
    <3> QED
      BY <3>1, <3>2, ConservedReset
<1>2. CASE onu_pon_link_down_proc
  <2>1. table' = oam_err_event_init /\ poll' = NoPoll /\ g_last_counter' = ZeroCounter
    BY <1>2 DEF onu_pon_link_down_proc
  <2> QED
    BY <2>1, InitTable, ConservedReset
<1>3. CASE PollBegin
  BY <1>3, ConservedBegin
<1>4. CASE PollAdd
  BY <1>4, ConservedAdd
<1>5. CASE PollClose
  BY <1>5, ConservedClose
<1>6. CASE PollSend
  <2>1. poll.at = "send" /\ poll'.at = "idle" /\ g_last_counter' = g_last_counter
    BY <1>6 DEF PollSend, NoPoll
  <2>2. Ahead = {} /\ Ahead' = {}
    BY <2>1 DEF Ahead
  <2>3. \A k \in Kind : Counted(k)' = Counted(k)
    BY <1>6, SendSame DEF Counted
  <2> QED
    BY <2>1, <2>2, <2>3 DEF Conserved, Pending, Source
<1>7. CASE \E c \in Commands : oam_link_event_window_set(c)
  <2>1. PICK c \in Commands : oam_link_event_window_set(c)
    BY <1>7
  <2>2. poll' = poll /\ g_last_counter' = g_last_counter
    BY <2>1 DEF oam_link_event_window_set
  <2> QED
    BY <2>1, <2>2, CommandTable, ConservedSame
<1>8. CASE oam_link_event_threshold_set
  <2>1. poll' = poll /\ g_last_counter' = g_last_counter
    BY <1>8 DEF oam_link_event_threshold_set
  <2> QED
    BY <1>8, <2>1, ThresholdTable, ConservedSame
<1>9. CASE FallBack \/ ctc_oam_build_alarm_event \/ UNCHANGED vars
           \/ (\E good, bad, symb \in 0 .. 1 : app_pon_stats_count(good, bad, symb))
  <2>1. poll' = poll /\ g_last_counter' = g_last_counter /\ table' = table
    BY <1>9 DEF FallBack, ctc_oam_build_alarm_event, vars, app_pon_stats_count
  <2> QED
    BY <2>1, ConservedSame
<1> QED
  BY <1>1, <1>2, <1>3, <1>4, <1>5, <1>6, <1>7, <1>8, <1>9 DEF Next

\* Told depends on the totals and on the poll.
LEMMA ToldSame ==
    ASSUME Told, poll' = poll, disc' = disc,
           \A k \in Kind :
                /\ table'[k].event_running_total = table[k].event_running_total
                /\ table'[k].delivered = table[k].delivered
    PROVE  Told'
  BY DEF Told

\* A window that is closed above its threshold is to be told.
LEMMA ToldClose ==
    ASSUME TInv, Told, PollClose
    PROVE  Told'
<1> DEFINE h == Head(poll.rest)
           over == WindowOver(table[h])
           crossed == over /\ table[h].cur_value >= table[h].threshold
<1>1. poll \in Polling({"add", "close"}, Rests) /\ poll.at = "close"
      /\ table \in [Kind -> Entry]
  BY Where DEF TInv, PollClose
<1>2. /\ h \in Todo(poll.rest)
      /\ Todo(Tail(poll.rest)) = Todo(poll.rest) \ {h}
  BY <1>1, Visit DEF Polling
<1>3. /\ h \in Kind
      /\ \A k \in Kind \ {h} : table'[k] = table[k]
      /\ table'[h] = IF over THEN Close(table[h]) ELSE table[h]
      /\ poll'.at \in {"send", "add"}
      /\ poll'.rest = Tail(poll.rest)
      /\ poll'.send = IF crossed THEN poll.send \cup {h} ELSE poll.send
  BY CloseTable
<1>4. disc' = disc
  BY DEF PollClose
<1>5. poll.send \cap Todo(poll.rest) = {}
  BY <1>1 DEF Told
<1>6. h \notin poll.send
  BY <1>2, <1>5
<1>7. poll'.send \cap Todo(poll'.rest) = {}
  BY <1>2, <1>3, <1>5
<1>8. ASSUME disc = "any", NEW k \in Kind
      PROVE  table'[k].event_running_total =
                table'[k].delivered + (IF k \in poll'.send THEN 1 ELSE 0)
  <2>1. table[k].event_running_total =
            table[k].delivered + (IF k \in poll.send THEN 1 ELSE 0)
    BY <1>1, <1>8 DEF Told
  <2>2. table[k] \in Entry /\ table[h] \in Entry
    BY <1>1, <1>3
  <2> HIDE DEF h, over
  <2>3. CASE k # h
    <3>1. table'[k] = table[k] /\ (k \in poll'.send <=> k \in poll.send)
      BY <1>3, <2>3
    <3> QED
      BY <2>1, <3>1
  <2>4. CASE k = h /\ crossed
    <3>1. /\ table'[h] = Close(table[h]) /\ h \in poll'.send
          /\ table[h].cur_value >= table[h].threshold
      BY <1>3, <2>4
    <3>2. /\ table'[h].event_running_total = table[h].event_running_total + 1
          /\ table'[h].delivered = table[h].delivered
      BY <2>2, <3>1, CloseFields
    <3>3. table[h].event_running_total = table[h].delivered
      BY <1>6, <2>1, <2>2, <2>4 DEF Entry
    <3> QED
      BY <2>2, <2>4, <3>1, <3>2, <3>3 DEF Entry
  <2>5. CASE k = h /\ ~ crossed
    <3>1. poll'.send = poll.send
      BY <1>3, <2>5
    <3>2. CASE ~ over
      BY <1>3, <2>1, <2>5, <3>1, <3>2
    <3>3. CASE over
      <4>1. table'[h] = Close(table[h]) /\ ~ (table[h].cur_value >= table[h].threshold)
        BY <1>3, <2>5, <3>3
      <4>2. /\ table'[h].event_running_total = table[h].event_running_total
            /\ table'[h].delivered = table[h].delivered
        BY <2>2, <4>1, CloseFields
      <4> QED
        BY <2>1, <2>5, <3>1, <4>2
    <3> QED
      BY <3>2, <3>3
  <2> QED
    BY <2>3, <2>4, <2>5
<1>9. poll'.at # "idle"
  BY <1>3
<1> QED
  BY <1>4, <1>7, <1>8, <1>9 DEF Told

\* Every step keeps the totals told.
LEMMA ToldStep ==
    ASSUME TInv, Told, [Next]_vars
    PROVE  Told'
<1>t. table \in [Kind -> Entry]
  BY DEF TInv
<1>1. CASE Register \/ onu_pon_link_down_proc \/ FallBack
  <2>1. disc' # "any" /\ poll'.at = "idle"
    BY <1>1 DEF Register, onu_pon_link_down_proc, FallBack, NoPoll
  <2> QED
    BY <2>1 DEF Told
<1>2. CASE oam_link_complete
  <2>1. oam_link_event_reset /\ poll'.at = "idle"
    BY <1>2 DEF oam_link_complete, NoPoll
  <2>2. \A k \in Kind : table'[k].event_running_total = 0 /\ table'[k].delivered = 0
    BY <1>t, <2>1, ResetTable
  <2> QED
    BY <2>1, <2>2 DEF Told
<1>3. CASE PollBegin
  <2>1. poll'.at = "add" /\ poll'.send = {}
    BY <1>3, BeginType
  <2>2. poll.at = "idle" /\ table' = table /\ disc' = disc
    BY <1>3 DEF PollBegin, NoPoll
  <2> QED
    BY <2>1, <2>2 DEF Told
<1>4. CASE PollAdd
  <2>1. /\ poll'.at = "close" /\ poll'.send = poll.send /\ poll'.rest = poll.rest
        /\ poll.at = "add" /\ disc' = disc
    BY <1>4, AddType DEF PollAdd
  <2> DEFINE h == Head(poll.rest)
  <2>2. /\ h \in Kind /\ poll.in \in Counter
        /\ \A k \in Kind \ {h} : table'[k] = table[k]
        /\ table'[h] = Added(table[h], h)
    BY <1>4, AddTable
  <2> HIDE DEF h
  <2>3. /\ table'[h].event_running_total = table[h].event_running_total
        /\ table'[h].delivered = table[h].delivered
    BY <1>t, <2>2, AddedFields
  <2>4. \A k \in Kind :
            /\ table'[k].event_running_total = table[k].event_running_total
            /\ table'[k].delivered = table[k].delivered
    BY <2>2, <2>3
  <2> QED
    BY <2>1, <2>4 DEF Told
<1>5. CASE PollClose
  BY <1>5, ToldClose
<1>6. CASE PollSend
  <2>1. poll.at = "send" /\ poll'.at = "idle" /\ disc' = disc
    BY <1>6 DEF PollSend, NoPoll
  <2>2. ASSUME disc = "any", NEW k \in Kind
        PROVE  table'[k].event_running_total = table'[k].delivered
    <3>1. table[k].event_running_total =
            table[k].delivered + (IF k \in poll.send THEN 1 ELSE 0)
      BY <2>1, <2>2 DEF Told
    <3>2. /\ table'[k].event_running_total = table[k].event_running_total
          /\ table'[k].delivered =
                 IF poll.send # {} /\ disc = "any" /\ k \in poll.send
                 THEN table[k].delivered + 1 ELSE table[k].delivered
      BY <1>6, SendSame
    <3>3. table[k].delivered \in Nat
      BY <1>t DEF Entry
    <3>4. CASE k \in poll.send
      <4>1. poll.send # {}
        BY <3>4
      <4> QED
        BY <2>2, <3>1, <3>2, <3>4, <4>1
    <3>5. CASE k \notin poll.send
      BY <3>1, <3>2, <3>3, <3>5
    <3> QED
      BY <3>4, <3>5
  <2>3. \A k \in Kind : table'[k].delivered \in Nat
    BY <1>6, SendTable DEF Entry
  <2> QED
    BY <2>1, <2>2, <2>3 DEF Told
<1>7. CASE \E c \in Commands : oam_link_event_window_set(c)
  <2>1. PICK c \in Commands : oam_link_event_window_set(c)
    BY <1>7
  <2>2. poll' = poll /\ disc' = disc
    BY <2>1 DEF oam_link_event_window_set
  <2> QED
    BY <2>1, <2>2, CommandTable, ToldSame
<1>8. CASE oam_link_event_threshold_set
  <2>1. poll' = poll /\ disc' = disc
    BY <1>8 DEF oam_link_event_threshold_set
  <2> QED
    BY <1>8, <2>1, ThresholdTable, ToldSame
<1>9. CASE ctc_oam_build_alarm_event \/ UNCHANGED vars
           \/ (\E good, bad, symb \in 0 .. 1 : app_pon_stats_count(good, bad, symb))
  <2>1. poll' = poll /\ disc' = disc /\ table' = table
    BY <1>9 DEF ctc_oam_build_alarm_event, vars, app_pon_stats_count
  <2> QED
    BY <2>1, ToldSame
<1> QED
  BY <1>1, <1>2, <1>3, <1>4, <1>5, <1>6, <1>7, <1>8, <1>9 DEF Next

(***************************************************************************)
(* Windows are closed in time                                              *)
(***************************************************************************)
LEMMA StepNat == \A k \in Timed : StepOf(k) \in Nat /\ Longest(k) \in Int
                                  /\ MaxPolls(k) \in Int
<1> SUFFICES ASSUME NEW k \in Timed
             PROVE  StepOf(k) \in Nat /\ Longest(k) \in Int /\ MaxPolls(k) \in Int
  OBVIOUS
<1>1. /\ Poll \in Nat \ {0} /\ SymbolsPerPoll \in Nat \ {0} /\ WinMax[k] \in Nat
  BY RatesAssumption, WindowsAssumption DEF Timed
<1>2. WinMax[k] \div Poll \in Nat /\ (WinMax[k] + Poll - 1) \div Poll \in Nat
  <2>1. WinMax[k] + Poll - 1 \in Nat
    BY <1>1
  <2> QED
    BY <1>1, <2>1, DivOrder
<1>3. (WinMax[k] \div Poll) * SymbolsPerPoll \in Int
  BY <1>1, <1>2, Z3
<1> QED
  BY <1>1, <1>2, <1>3 DEF StepOf, Longest, MaxPolls

\* A table of new windows.
LEMMA InPeriodReset ==
    ASSUME poll' = NoPoll,
           \A k \in Timed : /\ table'[k].cur_window = 0 /\ table'[k].age = 0
                            /\ table'[k].window <= Longest(k)
    PROVE  InPeriod'
<1> SUFFICES ASSUME NEW k \in Timed
             PROVE  /\ table'[k].cur_window = table'[k].age * StepOf(k)
                    /\ table'[k].window <= Longest(k)
                    /\ table'[k].age < MaxPolls(k)
  BY DEF InPeriod, StepOf, Longest, MaxPolls
<1>1. 0 * StepOf(k) = 0
  BY StepNat
<1> QED
  BY <1>1, FreshInTime

\* Steps that leave the poll alone do not touch ages or what was counted.
LEMMA InPeriodSame ==
    ASSUME InPeriod,
           poll'.at = poll.at, poll'.at = "close" => poll'.rest = poll.rest,
           \A k \in Timed : /\ table'[k].cur_window = table[k].cur_window
                            /\ table'[k].age = table[k].age
                            /\ table'[k].window <= Longest(k)
    PROVE  InPeriod'
  BY DEF InPeriod, StepOf, Longest, MaxPolls

\* An entry ages by what its window grows.
LEMMA InPeriodAdd ==
    ASSUME TInv, InPeriod, PollAdd
    PROVE  InPeriod'
<1> DEFINE h == Head(poll.rest)
<1>1. /\ poll'.at = "close" /\ poll'.rest = poll.rest /\ poll.at = "add"
      /\ table \in [Kind -> Entry]
  BY AddType DEF PollAdd, TInv
<1>2. /\ h \in Kind /\ poll.in \in Counter
      /\ \A k \in Kind \ {h} : table'[k] = table[k]
      /\ table'[h] = Added(table[h], h)
  BY AddTable
<1>3. Head(poll'.rest) = h
  BY <1>1
<1> HIDE DEF h
<1> SUFFICES ASSUME NEW k \in Timed
             PROVE  /\ table'[k].cur_window = table'[k].age * StepOf(k)
                    /\ table'[k].window <= Longest(k)
                    /\ table'[k].age < MaxPolls(k) \/ k = h
  BY <1>1, <1>3 DEF InPeriod, StepOf, Longest, MaxPolls
<1>4. k \in Kind /\ k # "FRAME_PERIOD"
  BY DEF Timed
<1>5. /\ table[k].cur_window = table[k].age * StepOf(k)
      /\ table[k].window <= Longest(k)
      /\ table[k].age < MaxPolls(k)
  BY <1>1 DEF InPeriod
<1>6. CASE k # h
  BY <1>2, <1>4, <1>5, <1>6
<1>7. CASE k = h
  <2>1. /\ table'[k].cur_window = table[k].cur_window + StepOf(k)
        /\ table'[k].window = table[k].window
        /\ table'[k].age = table[k].age + 1
    BY <1>1, <1>2, <1>4, <1>7, AddedFields, TimedStep
  <2> DEFINE n == table[k].age
             d == StepOf(k)
  <2>2. n \in Nat /\ d \in Nat
    BY <1>1, <1>4, StepNat DEF Entry
  <2> HIDE DEF n, d
  <2>3. (n + 1) * d = n * d + d
    BY <2>2, Z3
  <2> QED
    BY <1>5, <1>7, <2>1, <2>3 DEF n, d
<1> QED
  BY <1>6, <1>7

\* A window is closed as soon as it is complete.
LEMMA InPeriodClose ==
    ASSUME TInv, InPeriod, PollClose
    PROVE  InPeriod'
<1> DEFINE h == Head(poll.rest)
           over == WindowOver(table[h])
<1>1. poll.at = "close" /\ table \in [Kind -> Entry]
  BY DEF PollClose, TInv
<1>2. /\ h \in Kind
      /\ \A k \in Kind \ {h} : table'[k] = table[k]
      /\ table'[h] = IF over THEN Close(table[h]) ELSE table[h]
  BY CloseTable
<1> SUFFICES ASSUME NEW k \in Timed
             PROVE  /\ table'[k].cur_window = table'[k].age * StepOf(k)
                    /\ table'[k].window <= Longest(k)
                    /\ table'[k].age < MaxPolls(k)
  BY DEF InPeriod, StepOf, Longest, MaxPolls
<1>3. k \in Kind /\ table[k] \in Entry
  BY <1>1 DEF Timed
<1>4. /\ table[k].cur_window = table[k].age * StepOf(k)
      /\ table[k].window <= Longest(k)
      /\ table[k].age < MaxPolls(k) \/ k = h
  BY DEF InPeriod
<1>5. over = (table[h].cur_window >= table[h].window)
  BY DEF WindowOver
<1> HIDE DEF h, over
<1>6. CASE k # h
  BY <1>2, <1>3, <1>4, <1>6
<1>7. CASE k = h /\ over
  <2>1. table'[k] = Close(table[k])
    BY <1>2, <1>7
  <2>2. /\ table'[k].cur_window = 0 /\ table'[k].age = 0
        /\ table'[k].window = table[k].window
    BY <1>3, <2>1, CloseFields
  <2>3. 0 * StepOf(k) = 0 /\ 0 < MaxPolls(k)
    BY StepNat, FreshInTime
  <2> QED
    BY <1>4, <2>2, <2>3
<1>8. CASE k = h /\ ~ over
  <2>1. table'[k] = table[k]
    BY <1>2, <1>8
  <2>2. table[k].cur_window \in Nat /\ table[k].window \in Nat /\ table[k].age \in Nat
        /\ Longest(k) \in Int
    BY <1>3, StepNat DEF Entry
  <2>3. ~ (table[k].cur_window >= table[k].window)
    BY <1>5, <1>8
  <2>4. table[k].age * StepOf(k) < Longest(k)
    BY <1>4, <2>2, <2>3
  <2>5. table[k].age < MaxPolls(k)
    BY <2>2, <2>4, InTime
  <2> QED
    BY <1>4, <2>1, <2>5
<1> QED
  BY <1>6, <1>7, <1>8

\* Every step keeps the windows in their period.
LEMMA InPeriodStep ==
    ASSUME TInv, InPeriod, [Next]_vars
    PROVE  InPeriod'
<1>t. table \in [Kind -> Entry] /\ Timed \subseteq Kind
  BY DEF TInv, Timed
<1>w. \A k \in Timed : table[k].window <= Longest(k)
  BY DEF InPeriod
<1>1. CASE Register \/ oam_link_complete
  <2>1. oam_link_event_reset /\ poll' = NoPoll
    BY <1>1 DEF Register, oam_link_complete
  <2>2. \A k \in Timed : /\ table'[k].cur_window = 0 /\ table'[k].age = 0
                         /\ table'[k].window <= Longest(k)
    BY <1>t, <1>w, <2>1, ResetTable
  <2>3. poll' = NoPoll
    BY <2>1
  <2> QED
    BY <2>2, <2>3, InPeriodReset
<1>2. CASE onu_pon_link_down_proc
  <2>1. table' = oam_err_event_init /\ poll' = NoPoll
    BY <1>2 DEF onu_pon_link_down_proc
  <2>2. \A k \in Timed : /\ table'[k].cur_window = 0 /\ table'[k].age = 0
                         /\ table'[k].window = DefWindow[k]
    BY <1>t, <2>1, InitTable
  <2>3. \A k \in Timed : DefWindow[k] <= Longest(k)
    BY DefaultsAssumption DEF Timed, Kind, Longest
  <2> QED
    BY <2>1, <2>2, <2>3, InPeriodReset
<1>3. CASE PollBegin
  <2>1. poll'.at = "add" /\ table' = table /\ poll.at = "idle"
    BY <1>3, BeginType DEF PollBegin, NoPoll
  <2> QED
    BY <2>1 DEF InPeriod, StepOf, Longest, MaxPolls
<1>4. CASE PollAdd
  BY <1>4, InPeriodAdd
<1>5. CASE PollClose
  BY <1>5, InPeriodClose
<1>6. CASE PollSend
  <2>1. poll.at = "send" /\ poll'.at = "idle"
    BY <1>6 DEF PollSend, NoPoll
  <2>2. \A k \in Timed : /\ table'[k].cur_window = table[k].cur_window
                         /\ table'[k].age = table[k].age
                         /\ table'[k].window = table[k].window
    BY <1>t, <1>6, SendSame
  <2> QED
    BY <2>1, <2>2 DEF InPeriod, StepOf, Longest, MaxPolls
<1>7. CASE \E c \in Commands : oam_link_event_window_set(c)
  <2>1. PICK c \in Commands : oam_link_event_window_set(c)
    BY <1>7
  <2>2. poll' = poll /\ Accepted(c)
    BY <2>1 DEF oam_link_event_window_set
  <2>3. /\ c \in Command
        /\ \A k \in Kind \ {c.type} : table'[k] = table[k]
        /\ table'[c.type].window = Converted(c)
        /\ \A k \in Kind : /\ table'[k].cur_window = table[k].cur_window
                           /\ table'[k].age = table[k].age
    BY <2>1, CommandTable
  <2>4. c.type \in Timed => Converted(c) <= Longest(c.type)
    BY <2>2, <2>3, CommandWindow
  <2>5. \A k \in Timed : /\ table'[k].cur_window = table[k].cur_window
                         /\ table'[k].age = table[k].age
                         /\ table'[k].window <= Longest(k)
    BY <1>t, <1>w, <2>3, <2>4
  <2> QED
    BY <2>2, <2>5, InPeriodSame
<1>8. CASE oam_link_event_threshold_set
  <2>1. poll' = poll
    BY <1>8 DEF oam_link_event_threshold_set
  <2>2. \A k \in Timed : /\ table'[k].cur_window = table[k].cur_window
                         /\ table'[k].age = table[k].age
                         /\ table'[k].window = table[k].window
    BY <1>t, <1>8, ThresholdTable
  <2>3. \A k \in Timed : table'[k].window <= Longest(k)
    BY <1>w, <2>2
  <2> QED
    BY <2>1, <2>2, <2>3, InPeriodSame
<1>9. CASE FallBack \/ ctc_oam_build_alarm_event \/ UNCHANGED vars
           \/ (\E good, bad, symb \in 0 .. 1 : app_pon_stats_count(good, bad, symb))
  <2>1. poll' = poll /\ table' = table
    BY <1>9 DEF FallBack, ctc_oam_build_alarm_event, vars, app_pon_stats_count
  <2> QED
    BY <1>w, <2>1, InPeriodSame
<1> QED
  BY <1>1, <1>2, <1>3, <1>4, <1>5, <1>6, <1>7, <1>8, <1>9 DEF Next

(***************************************************************************)
(* The theorems                                                            *)
(***************************************************************************)
LEMMA Initially ==
    ASSUME Init
    PROVE  TInv /\ Conserved /\ Numbered /\ Told /\ InPeriod
<1>1. poll.at = "idle" /\ Ahead = {}
  BY DEF Init, NoPoll, Ahead
<1>2. table = oam_err_event_init
  BY DEF Init
<1>3. TInv
  BY <1>2, ZeroType, InitTable, RatesAssumption
     DEF Init, TInv, Grown, ZeroCounter, Counter, PollOK, ShellOK
<1>4. \A k \in Kind : /\ table[k].cur_value = 0 /\ table[k].error_running_total = 0
                      /\ table[k].discarded = 0 /\ table[k].event_running_total = 0
                      /\ table[k].delivered = 0 /\ table[k].cur_window = 0
                      /\ table[k].age = 0 /\ table[k].window = DefWindow[k]
  BY <1>2, InitTable
<1>5. Conserved
  <2>1. g_last_counter = ZeroCounter
    BY DEF Init
  <2> QED
    BY <1>1, <1>4, <2>1 DEF Conserved, Counted, Pending, Source, ZeroCounter
<1>6. Numbered
  BY <1>1 DEF Init, Numbered
<1>7. Told
  BY <1>1, <1>4 DEF Told
<1>8. InPeriod
  <2>1. \A k \in Timed : DefWindow[k] <= Longest(k)
    BY DefaultsAssumption DEF Timed, Kind, Longest
  <2>2. \A k \in Timed : 0 * StepOf(k) = 0 /\ 0 < MaxPolls(k)
    BY StepNat, FreshInTime
  <2>3. Timed \subseteq Kind
    BY DEF Timed
  <2> QED
    BY <1>4, <2>1, <2>2, <2>3 DEF InPeriod
<1> QED
  BY <1>3, <1>5, <1>6, <1>7, <1>8

\* The invariant of the specification.
LEMMA Always == Spec => [](TInv /\ Conserved /\ Numbered /\ Told /\ InPeriod)
<1>1. Init => TInv /\ Conserved /\ Numbered /\ Told /\ InPeriod
  BY Initially
<1>2. TInv /\ Conserved /\ Numbered /\ Told /\ InPeriod /\ [Next]_vars
        => (TInv /\ Conserved /\ Numbered /\ Told /\ InPeriod)'
  BY TypeStep, ConservedStep, NumberedStep, ToldStep, InPeriodStep
<1> QED
  BY <1>1, <1>2, PTL DEF Spec

\* The link monitor's state has its type in every reachable state.
THEOREM EventTypeCorrect == Spec => []TypeOK
<1>1. TInv => TypeOK
  BY Where DEF TInv, TypeOK
<1> QED
  BY <1>1, Always, PTL

\* No error is lost or counted twice between two polls, for every window,
\* threshold and command, whichever step of a poll the command preempts.
THEOREM EventConservation == Spec => []ErrorConservation
<1>1. TInv /\ Conserved => ErrorConservation
  <2> SUFFICES ASSUME TInv, Conserved, poll = NoPoll, NEW k \in Kind \ {"FRAME_SUMM"}
               PROVE  Counted(k) = Source(g_last_counter, k)
    BY DEF ErrorConservation
  <2>1. Pending(k) = 0
    BY DEF Pending, Ahead, NoPoll
  <2>2. Counted(k) \in Nat
    BY DEF TInv, Counted, Entry
  <2> QED
    BY <2>1, <2>2 DEF Conserved
<1> QED
  BY <1>1, Always, PTL

\* Event OAMPDUs are numbered without gap or repetition, whatever the width of
\* the number.
THEOREM EventNumbering == Spec => []EventNumbers
<1>1. Numbered => EventNumbers
  BY DEF Numbered, EventNumbers, NoPoll
<1> QED
  BY <1>1, Always, PTL

\* In SEND_ANY the peer has been told of every event in the running totals.
THEOREM EventTotals == Spec => []TotalsDelivered
<1>1. TInv /\ Told => TotalsDelivered
  <2> SUFFICES ASSUME TInv, Told, poll = NoPoll, disc = "any", NEW k \in Kind
               PROVE  table[k].event_running_total = table[k].delivered
    BY DEF TotalsDelivered
  <2>1. table[k].delivered \in Nat
    BY DEF TInv, Entry
  <2> QED
    BY <2>1 DEF Told, NoPoll
<1> QED
  BY <1>1, Always, PTL

\* A window counted in time is closed within the longest length that the
\* command accepts, for every poll interval and every sequence of commands.
THEOREM EventClosedInTime == Spec => []ClosedInTime
<1>1. InPeriod => ClosedInTime
  BY DEF InPeriod, ClosedInTime, NoPoll, Timed
<1> QED
  BY <1>1, Always, PTL
=============================================================================
