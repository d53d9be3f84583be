--------------------------- MODULE PortStatsProofs --------------------------
(***************************************************************************)
(* Proofs about PortStats, for every width of the hardware counter, every  *)
(* set of threads and every slack below the width.                         *)
(***************************************************************************)
EXTENDS PortStats, TLAPS

(***************************************************************************)
(* Arithmetic modulo a width                                               *)
(***************************************************************************)
\* What division with remainder is.
LEMMA DivMod ==
    ASSUME NEW W \in Nat \ {0}, NEW a \in Int
    PROVE  /\ a % W \in 0 .. W - 1
           /\ a \div W \in Int
           /\ a = (W * (a \div W)) + (a % W)
<1>1. W > 0
  OBVIOUS
<1> QED
  BY <1>1, Z3

\* Only zero is a multiple of W that lies strictly between -W and W.
LEMMA SmallMultiple ==
    ASSUME NEW W \in Nat \ {0}, NEW d \in Int, -W < W * d, W * d < W
    PROVE  d = 0
<1>1. CASE d >= 1
  <2>1. W * d >= W
    BY <1>1, Z3
  <2> QED
    BY <2>1
<1>2. CASE d <= -1
  <2>1. W * d <= -W
    BY <1>2, Z3
  <2> QED
    BY <2>1
<1> QED
  BY <1>1, <1>2

\* The remainder is the only number below W that differs from a multiple.
LEMMA ModUnique ==
    ASSUME NEW W \in Nat \ {0}, NEW q \in Int, NEW r \in 0 .. W - 1
    PROVE  ((W * q) + r) % W = r
<1> DEFINE a == (W * q) + r
           p == a \div W
           m == a % W
<1>1. a \in Int
  OBVIOUS
<1>2. m \in 0 .. W - 1 /\ p \in Int /\ a = (W * p) + m
  BY <1>1, DivMod
<1> HIDE DEF p, m
<1>3. W * (q - p) = m - r
  BY <1>2
<1>4. q - p \in Int /\ -W < m - r /\ m - r < W
  BY <1>2
<1>5. q - p = 0
  BY <1>3, <1>4, SmallMultiple
<1>6. m = r
  BY <1>2, <1>3, <1>5
<1> QED
  BY <1>6 DEF m

\* Counting one on in the hardware is counting one on modulo the width.
LEMMA ModSucc ==
    ASSUME NEW W \in Nat \ {0}, NEW a \in Nat
    PROVE  (a + 1) % W = ((a % W) + 1) % W
<1> DEFINE q == a \div W
           m == a % W
           n == (m + 1) \div W
           k == (m + 1) % W
<1>1. m \in 0 .. W - 1 /\ q \in Int /\ a = (W * q) + m
  BY DivMod
<1> HIDE DEF q, m
<1>2. k \in 0 .. W - 1 /\ n \in Int /\ m + 1 = (W * n) + k
  BY <1>1, DivMod
<1> HIDE DEF n, k
<1>3. a + 1 = (W * (q + n)) + k
  BY <1>1, <1>2
<1>4. ((W * (q + n)) + k) % W = k
  BY <1>1, <1>2, ModUnique
<1> QED
  BY <1>3, <1>4 DEF k, m

(***************************************************************************)
(* The counting                                                            *)
(***************************************************************************)
\* The three cases of the counting, without CASE.
LEMMA CountCases ==
    ASSUME NEW c \in 0 .. Width - 1, NEW l \in 0 .. Width - 1, slack \in Int
    PROVE  /\ c >= l => COUNT_STATS(c, l) = c - l
           /\ c < l /\ l - c < slack => COUNT_STATS(c, l) = 0
           /\ c < l /\ l - c >= slack => COUNT_STATS(c, l) = Width - l + c
<1>1. c \in Int /\ l \in Int /\ Width \in Int
  BY WidthAssumption
<1> QED
  BY <1>1 DEF COUNT_STATS

\* One update adds to the 64-bit counter what takes it, modulo the width,
\* from the last reading to the one that is kept.
LEMMA UpdateIsModular ==
    ASSUME NEW s \in Nat, NEW c \in 0 .. Width - 1, slack \in Int,
           NEW l, s % Width = l
    PROVE  /\ COUNT_STATS(c, l) \in Nat
           /\ Kept(c, l) \in 0 .. Width - 1
           /\ (s + COUNT_STATS(c, l)) % Width = Kept(c, l)
<1> DEFINE q == s \div Width
<1>w. Width \in Nat \ {0}
  BY WidthAssumption
<1>1. l \in 0 .. Width - 1 /\ q \in Int /\ s = (Width * q) + l
  BY <1>w, DivMod
<1> HIDE DEF q
<1>2. CASE c >= l
  <2>1. COUNT_STATS(c, l) = c - l
    BY <1>1, <1>2, CountCases
  <2>2. Kept(c, l) = c
    BY <1>1, <2>1, <1>w DEF Kept
  <2>3. s + (c - l) = (Width * q) + c
    BY <1>1, <1>w
  <2>4. ((Width * q) + c) % Width = c
    BY <1>1, <1>w, ModUnique
  <2> QED
    BY <1>1, <1>2, <1>w, <2>1, <2>2, <2>3, <2>4
<1>3. CASE c < l /\ l - c < slack
  <2>1. COUNT_STATS(c, l) = 0
    BY <1>1, <1>3, CountCases
  <2>2. Kept(c, l) = l
    BY <2>1 DEF Kept
  <2> QED
    BY <1>1, <2>1, <2>2
<1>4. CASE c < l /\ l - c >= slack
  <2>1. COUNT_STATS(c, l) = Width - l + c
    BY <1>1, <1>4, CountCases
  <2>2. Width - l + c \in Nat \ {0}
    BY <1>1, <1>w
  <2>3. Kept(c, l) = c
    BY <2>1, <2>2 DEF Kept
  <2>4. s + (Width - l + c) = (Width * (q + 1)) + c
    BY <1>1, <1>w
  <2>5. ((Width * (q + 1)) + c) % Width = c
    BY <1>1, <1>w, ModUnique
  <2> QED
    BY <2>1, <2>2, <2>3, <2>4, <2>5
<1> QED
  BY <1>1, <1>2, <1>3, <1>4, <1>w

(***************************************************************************)
(* OffByWraps                                                              *)
(***************************************************************************)
\* What the assumptions say of the slack.
LEMMA SlackInt == TypeOK => slack \in 0 .. Width - 1
  BY SlackAssumption DEF TypeOK

\* Every step keeps the software counter congruent to the last reading.
LEMMA OffByWrapsStep == OffByWraps /\ [Next]_vars => OffByWraps'
<1> SUFFICES ASSUME OffByWraps, [Next]_vars PROVE OffByWraps'
  OBVIOUS
<1>w. Width \in Nat \ {0}
  BY WidthAssumption
<1>t. TypeOK /\ stats % Width = stats_last
  BY DEF OffByWraps
<1>1. CASE Frame
  <2>1. hw' \in 0 .. Width - 1
    BY <1>1, <1>t, <1>w, DivMod DEF Frame, TypeOK
  <2> QED
    BY <1>1, <1>t, <2>1 DEF Frame, TypeOK, OffByWraps
<1>2. ASSUME NEW r \in Reader, ReadHardware(r) PROVE OffByWraps'
  <2>1. hw \in 0 .. Width
    BY <1>t, <1>w DEF TypeOK
  <2>2. local' \in [Reader -> 0 .. Width] /\ read_at' \in [Reader -> Nat]
    BY <1>2, <1>t, <2>1 DEF ReadHardware, TypeOK
  <2> QED
    BY <1>2, <1>t, <2>2 DEF ReadHardware, TypeOK, OffByWraps
<1>3. ASSUME NEW r \in Reader, Update(r) PROVE OffByWraps'
  <2>1. local[r] \in 0 .. Width - 1 /\ stats \in Nat /\ slack \in Int
    BY <1>3, <1>t, <1>w, SlackInt DEF Update, TypeOK, None
  <2>2. /\ stats' \in Nat
        /\ stats_last' \in 0 .. Width - 1
        /\ stats' % Width = stats_last'
    <3>1. /\ COUNT_STATS(local[r], stats_last) \in Nat
          /\ Kept(local[r], stats_last) \in 0 .. Width - 1
          /\ (stats + COUNT_STATS(local[r], stats_last)) % Width
                = Kept(local[r], stats_last)
      BY <1>t, <2>1, UpdateIsModular
    <3> QED
      BY <1>3, <2>1, <3>1 DEF Update
  <2>3. local' \in [Reader -> 0 .. Width]
    BY <1>3, <1>t, <1>w DEF Update, TypeOK, None
  <2>4. overlap' \in BOOLEAN
    BY <1>3, <1>t DEF Update, TypeOK
  <2> QED
    BY <1>3, <1>t, <2>2, <2>3, <2>4 DEF Update, TypeOK, OffByWraps
<1>4. CASE app_stats_reset_uni
  <2>1. 0 % Width = 0 /\ 0 \in 0 .. Width - 1
    BY <1>w
  <2>2. overlap' \in BOOLEAN
    BY <1>4, <1>t DEF app_stats_reset_uni, TypeOK
  <2> QED
    BY <1>4, <1>t, <2>1, <2>2 DEF app_stats_reset_uni, TypeOK, OffByWraps
<1>5. CASE UNCHANGED vars
  BY <1>5, <1>t DEF vars, TypeOK, OffByWraps
<1> QED
  BY <1>1, <1>2, <1>3, <1>4, <1>5 DEF Next

\* The counters are zero at boot.
LEMMA OffByWrapsInit == Init => OffByWraps
<1> SUFFICES ASSUME Init PROVE OffByWraps
  OBVIOUS
<1>1. 0 % Width = 0 /\ 0 \in 0 .. Width - 1 /\ None \in 0 .. Width
  BY WidthAssumption DEF None
<1> QED
  BY <1>1 DEF Init, TypeOK, OffByWraps

\* However the threads that read, count and clear the statistic interleave,
\* and whatever the width of the hardware counter is, the 64-bit counter is
\* the last reading modulo the width: a race costs whole wraps, never a few
\* frames (port_stats.c, COUNT_STATS and oam_count_stats_offset).
THEOREM StatsOffByWraps == Spec => []OffByWraps
<1> QED
  BY OffByWrapsInit, OffByWrapsStep, PTL DEF Spec

(***************************************************************************)
(* ExactAlone                                                              *)
(*                                                                         *)
(* The property itself is not inductive: that the next update lands on     *)
(* read_at[r] follows from how far the reading is ahead of the counter,    *)
(* which must be less than a wrap, less the slack.                         *)
(***************************************************************************)
\* The hardware counts the frames modulo its width, always.
HardwareCounts == hw = since % Width

\* The reading of a thread is what the hardware showed at read_at, at or
\* after the frames already counted.
ReadingAhead(r) ==
    /\ local[r] = read_at[r] % Width
    /\ stats <= read_at[r]
    /\ read_at[r] <= since

\* Without an overlap the counter lags by less than a wrap.
Alone ==
    /\ stats <= since
    /\ since + slack < stats + Width
    /\ \A r \in Reader : local[r] # None => ReadingAhead(r)
    /\ Reading = {} => \E r \in Reader : stats \in {0, read_at[r]}

ExactInv ==
    /\ OffByWraps
    /\ HardwareCounts
    /\ ~overlap => Alone

\* A reading that is ahead of the counter by less than a wrap, less the
\* slack, counts exactly the frames between.
LEMMA CountExact ==
    ASSUME NEW s \in Nat, NEW b \in Nat, slack \in Nat,
           s <= b, b + slack < s + Width,
           NEW c, c = b % Width, NEW l, l = s % Width
    PROVE  s + COUNT_STATS(c, l) = b
<1> DEFINE q == s \div Width
           p == b \div Width
<1>w. Width \in Nat \ {0}
  BY WidthAssumption
<1>1. /\ l \in 0 .. Width - 1 /\ q \in Int /\ s = (Width * q) + l
      /\ c \in 0 .. Width - 1 /\ p \in Int /\ b = (Width * p) + c
  BY <1>w, DivMod
<1> HIDE DEF q, p
<1>2. b - s = (Width * (p - q)) + (c - l)
  BY <1>1, <1>w
<1>3. p - q \in Int /\ Width * (p - q) \in Int
  BY <1>1, <1>w
<1>4. CASE c >= l
  <2>1. -Width < Width * (p - q) /\ Width * (p - q) < Width
    BY <1>1, <1>2, <1>3, <1>4, <1>w
  <2>2. p - q = 0
    BY <1>3, <1>w, <2>1, SmallMultiple
  <2>3. Width * (p - q) = 0
    BY <2>2, <1>w
  <2>4. b - s = c - l
    BY <1>1, <1>2, <2>3
  <2>5. COUNT_STATS(c, l) = c - l
    BY <1>1, <1>4, CountCases
  <2> QED
    BY <2>4, <2>5, <1>1
<1>5. CASE c < l
  <2>1. Width * ((p - q) - 1) = (Width * (p - q)) - Width
    BY <1>3, <1>w
  <2>2. /\ (p - q) - 1 \in Int
        /\ -Width < Width * ((p - q) - 1)
        /\ Width * ((p - q) - 1) < Width
    BY <1>1, <1>2, <1>3, <1>5, <1>w, <2>1
  <2>3. (p - q) - 1 = 0
    BY <1>w, <2>2, SmallMultiple
  <2>4. Width * (p - q) = Width
    BY <2>3, <2>1, <1>3, <1>w
  <2>5. b - s = Width + (c - l)
    BY <1>2, <2>4
  <2>6. l - c >= slack
    BY <2>5, <1>1, <1>w
  <2>7. COUNT_STATS(c, l) = Width - l + c
    BY <1>1, <1>5, <2>6, CountCases
  <2> QED
    BY <2>5, <2>7, <1>1, <1>w
<1> QED
  BY <1>1, <1>4, <1>5, <1>w

\* What Alone says of the next update.
LEMMA ReadingExact ==
    ASSUME OffByWraps, Alone, NEW r \in Reader, local[r] # None
    PROVE  stats + COUNT_STATS(local[r], stats_last) = read_at[r]
<1>1. /\ stats \in Nat /\ since \in Nat /\ read_at[r] \in Nat
      /\ Width \in Nat /\ slack \in Nat
      /\ stats_last = stats % Width
  BY SlackInt, WidthAssumption DEF OffByWraps, TypeOK
<1>2. ReadingAhead(r) /\ since + slack < stats + Width
  BY DEF Alone
<1>3. /\ stats <= read_at[r]
      /\ read_at[r] + slack < stats + Width
      /\ local[r] = read_at[r] % Width
  BY <1>1, <1>2 DEF ReadingAhead
<1> QED
  BY <1>1, <1>3, CountExact

\* The inductive invariant implies the property.
LEMMA ExactFromInv == ExactInv => ExactAlone
<1> SUFFICES ASSUME ExactInv, ~overlap
             PROVE  /\ stats <= since
                    /\ Reading = {} => \E r \in Reader : stats \in {0, read_at[r]}
                    /\ \A r \in Reading :
                         stats + COUNT_STATS(local[r], stats_last) = read_at[r]
  BY DEF ExactAlone
<1>1. OffByWraps /\ Alone
  BY DEF ExactInv
<1>2. ASSUME NEW r \in Reading
      PROVE  stats + COUNT_STATS(local[r], stats_last) = read_at[r]
  <2>1. r \in Reader /\ local[r] # None
    BY DEF Reading
  <2> QED
    BY <1>1, <2>1, ReadingExact
<1> QED
  BY <1>1, <1>2 DEF Alone

\* The hardware counter stays the frames modulo the width.
LEMMA HardwareStep ==
    OffByWraps /\ HardwareCounts /\ [Next]_vars => HardwareCounts'
<1> SUFFICES ASSUME OffByWraps, HardwareCounts, [Next]_vars
             PROVE  HardwareCounts'
  OBVIOUS
<1>1. CASE Frame
  <2>1. since \in Nat /\ Width \in Nat \ {0}
    BY WidthAssumption DEF OffByWraps, TypeOK
  <2>2. (since + 1) % Width = ((since % Width) + 1) % Width
    BY <2>1, ModSucc
  <2> QED
    BY <1>1, <2>2 DEF Frame, HardwareCounts
<1>2. CASE app_stats_reset_uni
  <2>1. 0 % Width = 0
    BY WidthAssumption
  <2> QED
    BY <1>2, <2>1 DEF app_stats_reset_uni, HardwareCounts
<1>3. ASSUME UNCHANGED <<hw, since>> PROVE HardwareCounts'
  BY <1>3 DEF HardwareCounts
<1> QED
  BY <1>1, <1>2, <1>3 DEF Next, ReadHardware, Update, vars

\* Every step that leaves overlap false keeps the counter less than a wrap
\* behind and every reading ahead of it.
LEMMA AloneStep ==
    ASSUME ExactInv, [Next]_vars, ~overlap'
    PROVE  Alone'
<1>w. Width \in Nat \ {0} /\ slack \in 0 .. Width - 1
  BY WidthAssumption, SlackInt DEF ExactInv, OffByWraps
<1>t. /\ stats \in Nat /\ since \in Nat
      /\ local \in [Reader -> 0 .. Width] /\ read_at \in [Reader -> Nat]
      /\ hw \in 0 .. Width - 1 /\ overlap \in BOOLEAN
  BY DEF ExactInv, OffByWraps, TypeOK
<1>1. CASE Frame
  <2>1. ~overlap /\ UNCHANGED <<slack, stats, local, read_at>>
    BY <1>1 DEF Frame
  <2>2. Alone
    BY <2>1 DEF ExactInv
  <2>3. since' = since + 1 /\ since' + slack < stats + Width
    BY <1>1 DEF Frame
  <2>4. stats' <= since' /\ since' + slack' < stats' + Width
    BY <1>t, <1>w, <2>1, <2>2, <2>3 DEF Alone
  <2>5. ASSUME NEW r \in Reader, local'[r] # None PROVE ReadingAhead(r)'
    <3>1. ReadingAhead(r) /\ read_at[r] \in Nat
      BY <1>t, <2>1, <2>2, <2>5 DEF Alone
    <3> QED
      BY <1>t, <2>1, <2>3, <3>1 DEF ReadingAhead
  <2>6. (Reading = {} => \E r \in Reader : stats \in {0, read_at[r]})'
    BY <2>1, <2>2 DEF Alone, Reading
  <2> QED
    BY <2>4, <2>5, <2>6 DEF Alone, None
<1>2. ASSUME NEW r \in Reader, ReadHardware(r) PROVE Alone'
  <2>1. ~overlap /\ UNCHANGED <<slack, stats, since>>
    BY <1>2 DEF ReadHardware
  <2>2. Alone /\ HardwareCounts
    BY <2>1 DEF ExactInv
  <2>3. /\ local' = [local EXCEPT ![r] = hw]
        /\ read_at' = [read_at EXCEPT ![r] = since]
    BY <1>2 DEF ReadHardware
  <2>4. stats' <= since' /\ since' + slack' < stats' + Width
    BY <2>1, <2>2 DEF Alone
  <2>5. ASSUME NEW i \in Reader, local'[i] # None PROVE ReadingAhead(i)'
    <3>1. CASE i = r
      <4>1. local'[i] = hw /\ read_at'[i] = since
        BY <1>t, <2>3, <3>1
      <4> QED
        BY <1>t, <2>1, <2>4, <4>1, <2>2 DEF ReadingAhead, HardwareCounts
    <3>2. CASE i # r
      <4>1. local'[i] = local[i] /\ read_at'[i] = read_at[i]
        BY <1>t, <2>3, <3>2
      <4>2. ReadingAhead(i)
        BY <2>2, <2>5, <4>1 DEF Alone
      <4> QED
        BY <2>1, <4>1, <4>2 DEF ReadingAhead
    <3> QED
      BY <3>1, <3>2
  <2>6. r \in Reading'
    <3>1. local'[r] = hw /\ hw # None
      BY <1>t, <1>w, <2>3 DEF None
    <3> QED
      BY <3>1 DEF Reading, None
  <2> QED
    BY <2>4, <2>5, <2>6 DEF Alone, None
<1>3. ASSUME NEW r \in Reader, Update(r) PROVE Alone'
  <2>1. /\ ~overlap /\ Reading = {r}
        /\ local[r] # None
        /\ UNCHANGED <<slack, since, read_at>>
        /\ local' = [local EXCEPT ![r] = None]
    BY <1>3, <1>t DEF Update
  <2>2. Alone /\ OffByWraps
    BY <2>1 DEF ExactInv
  <2>3. stats' = read_at[r]
    BY <1>3, <2>1, <2>2, ReadingExact DEF Update
  <2>4. stats <= read_at[r] /\ read_at[r] <= since
    BY <2>1, <2>2 DEF Alone, ReadingAhead
  <2>5. read_at[r] \in Nat
    BY <1>t
  <2>6. stats' <= since' /\ since' + slack' < stats' + Width
    BY <1>t, <1>w, <2>1, <2>2, <2>3, <2>4, <2>5 DEF Alone
  <2>7. \A i \in Reader : local'[i] = None
    BY <1>t, <2>1 DEF Reading
  <2>8. stats' \in {0, read_at'[r]}
    BY <2>1, <2>3
  <2> QED
    BY <2>6, <2>7, <2>8 DEF Alone, None
<1>4. CASE app_stats_reset_uni
  <2>1. /\ stats' = 0 /\ since' = 0 /\ ~overlap /\ Reading = {}
        /\ UNCHANGED <<slack, local, read_at>>
    BY <1>4, <1>t DEF app_stats_reset_uni
  <2>2. \A i \in Reader : local'[i] = None
    BY <2>1 DEF Reading
  <2>3. stats' <= since' /\ since' + slack' < stats' + Width
    BY <1>w, <2>1
  <2>4. \E i \in Reader : stats' \in {0, read_at'[i]}
    BY <2>1, ReaderAssumption
  <2> QED
    BY <2>2, <2>3, <2>4 DEF Alone, None
<1>5. CASE UNCHANGED vars
  BY <1>5 DEF vars, ExactInv, Alone, Reading, ReadingAhead, None
<1> QED
  BY <1>1, <1>2, <1>3, <1>4, <1>5 DEF Next

\* At boot nothing is read and nothing is counted.
LEMMA ExactInit == Init => ExactInv
<1> SUFFICES ASSUME Init PROVE ExactInv
  OBVIOUS
<1>1. OffByWraps
  BY OffByWrapsInit
<1>2. Width \in Nat \ {0} /\ slack \in 0 .. Width - 1
  BY <1>1, WidthAssumption, SlackInt DEF OffByWraps
<1>3. 0 % Width = 0
  BY <1>2
<1>4. HardwareCounts
  BY <1>3 DEF Init, HardwareCounts
<1>5. stats <= since /\ since + slack < stats + Width
  BY <1>2 DEF Init
<1>6. \A r \in Reader : local[r] = None
  BY DEF Init
<1>7. \E r \in Reader : stats \in {0, read_at[r]}
  BY ReaderAssumption DEF Init
<1>8. Alone
  BY <1>5, <1>6, <1>7 DEF Alone
<1> QED
  BY <1>1, <1>4, <1>8 DEF ExactInv

\* As long as no thread gets between the reading and the update of another,
\* the software counter is exact, for every width of the hardware counter and
\* every slack below it, through any number of wraps and clears.
THEOREM StatsExactAlone == Spec => []ExactAlone
<1>1. ExactInv /\ [Next]_vars => ExactInv'
  BY OffByWrapsStep, HardwareStep, AloneStep DEF ExactInv
<1> QED
  BY <1>1, ExactInit, ExactFromInv, PTL DEF Spec

(***************************************************************************)
(* NoPhantomBeforeWrap                                                     *)
(*                                                                         *)
(* Before the first wrap and the first clear nothing is modulo anything: a *)
(* reading is a number of frames, and one below the counter is below it by *)
(* at most MaxLag, so that the slack has it ignored.                       *)
(***************************************************************************)
\* The statistic is one with enough slack, not wrapped and not cleared.
Fresh == slack > MaxLag /\ frames < Width /\ since = frames

\* Counters and readings are plain numbers of frames.
Plain ==
    /\ stats = stats_last /\ stats <= since /\ hw = since
    /\ \A r \in Reader : local[r] # None =>
        local[r] <= since /\ since <= local[r] + MaxLag
        /\ read_at[r] = local[r]

PlainInv == OffByWraps /\ since <= frames /\ (Fresh => Plain)

\* Every step that leaves the statistic fresh keeps the readings plain.
LEMMA PlainStep ==
    ASSUME PlainInv, [Next]_vars, Fresh'
    PROVE  Plain'
<1>w. Width \in Nat \ {0} /\ slack \in 0 .. Width - 1 /\ MaxLag \in Nat
  BY WidthAssumption, BoundAssumption, SlackInt DEF PlainInv, OffByWraps
<1>t. /\ stats \in Nat /\ since \in Nat /\ frames \in Nat /\ since <= frames
      /\ local \in [Reader -> 0 .. Width] /\ read_at \in [Reader -> Nat]
      /\ hw \in 0 .. Width - 1
  BY DEF PlainInv, OffByWraps, TypeOK
<1>1. CASE Frame
  <2>1. /\ UNCHANGED <<slack, stats, stats_last, local, read_at>>
        /\ since' = since + 1 /\ frames' = frames + 1
        /\ hw' = (hw + 1) % Width
        /\ \A r \in Reading : since < read_at[r] + MaxLag
    BY <1>1 DEF Frame
  <2>2. Fresh /\ since + 1 < Width
    <3>1. slack' > MaxLag /\ frames' < Width /\ since' = frames'
      BY DEF Fresh
    <3>2. slack > MaxLag /\ frames + 1 < Width /\ since + 1 = frames + 1
      BY <2>1, <3>1
    <3> QED
      BY <1>t, <1>w, <3>2 DEF Fresh
  <2>3. Plain
    BY <2>2 DEF PlainInv
  <2>4. hw' = since'
    <3>1. hw + 1 \in 0 .. Width - 1 /\ hw = since
      BY <1>t, <1>w, <2>2, <2>3 DEF Plain
    <3>2. (hw + 1) % Width = hw + 1
      BY <3>1, <1>w, Z3
    <3> QED
      BY <2>1, <3>1, <3>2
  <2>5. ASSUME NEW r \in Reader, local[r] # None
        PROVE  local[r] <= since' /\ since' <= local[r] + MaxLag
               /\ read_at[r] = local[r]
    <3>1. r \in Reading /\ local[r] \in 0 .. Width
      BY <1>t, <2>5 DEF Reading
    <3>2. local[r] <= since /\ read_at[r] = local[r]
      BY <2>3, <2>5 DEF Plain
    <3> QED
      BY <1>t, <1>w, <2>1, <3>1, <3>2
  <2>6. stats' = stats_last' /\ stats' <= since'
    BY <1>t, <2>1, <2>3 DEF Plain
  <2> QED
    BY <2>1, <2>4, <2>5, <2>6 DEF Plain, None
<1>2. ASSUME NEW r \in Reader, ReadHardware(r) PROVE Plain'
  <2>1. /\ UNCHANGED <<slack, hw, stats, stats_last, frames, since>>
        /\ local' = [local EXCEPT ![r] = hw]
        /\ read_at' = [read_at EXCEPT ![r] = since]
    BY <1>2 DEF ReadHardware
  <2>2. Plain
    BY <2>1 DEF Fresh, PlainInv
  <2>3. ASSUME NEW i \in Reader, local'[i] # None
        PROVE  local'[i] <= since /\ since <= local'[i] + MaxLag
               /\ read_at'[i] = local'[i]
    <3>1. CASE i = r
      BY <1>t, <1>w, <2>1, <2>2, <3>1 DEF Plain
    <3>2. CASE i # r
      <4>1. local'[i] = local[i] /\ read_at'[i] = read_at[i]
        BY <1>t, <2>1, <3>2
      <4> QED
        BY <2>2, <2>3, <4>1 DEF Plain
    <3> QED
      BY <3>1, <3>2
  <2> QED
    BY <2>1, <2>2, <2>3 DEF Plain, None
<1>3. ASSUME NEW r \in Reader, Update(r) PROVE Plain'
  <2>1. /\ UNCHANGED <<slack, hw, frames, since, read_at>>
        /\ local[r] # None
        /\ stats' = stats + COUNT_STATS(local[r], stats_last)
        /\ stats_last' = Kept(local[r], stats_last)
        /\ local' = [local EXCEPT ![r] = None]
    BY <1>3 DEF Update
  <2>2. Plain /\ slack > MaxLag
    BY <2>1 DEF Fresh, PlainInv
  <2>3. /\ local[r] \in 0 .. Width - 1 /\ stats_last \in 0 .. Width - 1
        /\ local[r] <= since /\ since <= local[r] + MaxLag
    BY <1>t, <1>w, <2>1, <2>2 DEF Plain, None, PlainInv, OffByWraps, TypeOK
  <2>4. stats' = stats_last' /\ stats' <= since
    <3>1. CASE local[r] >= stats_last
      <4>1. COUNT_STATS(local[r], stats_last) = local[r] - stats_last
        BY <1>w, <2>3, <3>1, CountCases
      <4>2. stats_last' = local[r]
        BY <2>1, <2>3, <4>1, <1>w DEF Kept
      <4> QED
        BY <1>t, <1>w, <2>1, <2>2, <2>3, <4>1, <4>2 DEF Plain
    <3>2. CASE local[r] < stats_last
      <4>1. stats_last - local[r] < slack
        BY <1>t, <1>w, <2>2, <2>3, <3>2 DEF Plain
      <4>2. COUNT_STATS(local[r], stats_last) = 0
        BY <1>w, <2>3, <3>2, <4>1, CountCases
      <4> QED
        BY <1>t, <2>1, <2>2, <4>2 DEF Plain, Kept
    <3> QED
      BY <2>3, <1>w, <3>1, <3>2
  <2>5. \A i \in Reader : local'[i] # None => local'[i] = local[i]
    BY <1>t, <2>1
  <2> QED
    BY <2>1, <2>2, <2>4, <2>5 DEF Plain, None
<1>4. CASE app_stats_reset_uni
  <2>1. /\ hw' = 0 /\ stats' = 0 /\ stats_last' = 0 /\ since' = 0
        /\ UNCHANGED <<slack, local, frames, read_at>>
    BY <1>4 DEF app_stats_reset_uni
  <2>2. since = 0 /\ Fresh
    <3>1. slack' > MaxLag /\ frames' < Width /\ since' = frames'
      BY DEF Fresh
    <3>2. frames = 0 /\ slack > MaxLag
      BY <2>1, <3>1
    <3> QED
      BY <1>t, <1>w, <3>2 DEF Fresh
  <2>3. Plain
    BY <2>2 DEF PlainInv
  <2> QED
    BY <2>1, <2>2, <2>3 DEF Plain, None
<1>5. CASE UNCHANGED vars
  BY <1>5 DEF vars, PlainInv, Fresh, Plain, None
<1> QED
  BY <1>1, <1>2, <1>3, <1>4, <1>5 DEF Next

\* No frame is cleared before it was on the wire.
LEMMA SinceStep ==
    PlainInv /\ [Next]_vars => (since <= frames)'
<1> SUFFICES ASSUME PlainInv, [Next]_vars PROVE since' <= frames'
  OBVIOUS
<1>1. since \in Nat /\ frames \in Nat /\ since <= frames
  BY DEF PlainInv, OffByWraps, TypeOK
<1>2. CASE Frame
  BY <1>1, <1>2 DEF Frame
<1>3. CASE app_stats_reset_uni
  BY <1>1, <1>3 DEF app_stats_reset_uni
<1>4. CASE UNCHANGED <<since, frames>>
  BY <1>1, <1>4
<1> QED
  BY <1>2, <1>3, <1>4 DEF Next, ReadHardware, Update, vars

\* With a slack above the frames that can pass while a thread is between its
\* two steps, no frame is counted that was not on the wire before the first
\* wrap and the first clear, however many threads overtake each other
\* (oam_count_stats_offset).
THEOREM StatsNoPhantom == Spec => []NoPhantomBeforeWrap
<1>1. Init => PlainInv
  <2> SUFFICES ASSUME Init PROVE PlainInv
    OBVIOUS
  <2>1. since <= frames /\ Plain
    BY DEF Init, Plain
  <2> QED
    BY <2>1, OffByWrapsInit DEF PlainInv
<1>2. PlainInv /\ [Next]_vars => PlainInv'
  BY OffByWrapsStep, SinceStep, PlainStep DEF PlainInv
<1>3. PlainInv => NoPhantomBeforeWrap
  BY DEF PlainInv, Fresh, Plain, NoPhantomBeforeWrap
<1> QED
  BY <1>1, <1>2, <1>3, PTL DEF Spec
=============================================================================
