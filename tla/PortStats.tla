------------------------------ MODULE PortStats -----------------------------
(***************************************************************************)
(* One statistic of a port, port_stats.c: a 32-bit counter of the hardware *)
(* is extended to 64 bits by adding its growth since the last reading.     *)
(*                                                                         *)
(* app_pon_stats_count and app_uni_stats_count read the hardware before    *)
(* they take the mutex, and they are called from several threads: the      *)
(* application thread's timer, "app show stats pon" in the shell, the      *)
(* vendor's OAM requests.  app_stats_reset_uni, from the shell and telnet, *)
(* clears hardware and software counters under the mutex.                  *)
(*                                                                         *)
(* The multicast and broadcast counters of a UNI port use                  *)
(* oam_count_stats_offset, which takes a reading just below the last one   *)
(* for what it is and not for a wrap; all others use COUNT_STATS.  Both    *)
(* are one operator here: slack = 0 is COUNT_STATS.                        *)
(***************************************************************************)
EXTENDS Integers

CONSTANTS
    Reader,     \* threads that count
    Width,      \* the hardware counts modulo this, 2^32 in the code
    Slacks,     \* 10000 in oam_count_stats_offset; 0 for COUNT_STATS
    Clearing,   \* whether the statistic can be cleared: UNI yes, PON no
    MaxFrames,  \* bound: frames on the wire
    MaxLag      \* bound: frames while a reader is between its two steps

ASSUME ReaderAssumption == Reader # {}
ASSUME WidthAssumption == Width \in Nat \ {0}
ASSUME SlackAssumption == Slacks \subseteq 0 .. Width - 1
ASSUME ClearingAssumption == Clearing \in BOOLEAN
ASSUME BoundAssumption == MaxFrames \in Nat /\ MaxLag \in Nat

None == Width           \* not a reading

VARIABLES
    slack,      \* which of the two the statistic uses; it never changes
    hw,         \* the hardware counter
    stats,      \* g_pon_stats, g_uni_stats
    stats_last, \* g_pon_stats_last, g_uni_stats_last
    local,      \* per thread, its reading, from the read to the update
    frames,     \* history: frames on the wire since boot
    since,      \* history: frames on the wire since the last clear
    read_at,    \* history: per thread, since at its reading
    overlap     \* history: a thread updated or cleared within another's steps

vars == <<slack, hw, stats, stats_last, local, frames, since, read_at, overlap>>

Init ==
    /\ slack \in Slacks
    /\ hw = 0 /\ stats = 0 /\ stats_last = 0
    /\ local = [r \in Reader |-> None]
    /\ frames = 0 /\ since = 0
    /\ read_at = [r \in Reader |-> 0]
    /\ overlap = FALSE

Reading == {r \in Reader : local[r] # None}

\* A frame is counted by the hardware.  The hardware is polled every second:
\* far fewer than Width, even less the slack, come between two readings.
Frame ==
    /\ frames < MaxFrames
    /\ since + 1 + slack < stats + Width
    /\ \A r \in Reading : since < read_at[r] + MaxLag
    /\ hw' = (hw + 1) % Width
    /\ frames' = frames + 1
    /\ since' = since + 1
    /\ UNCHANGED <<slack, stats, stats_last, local, read_at, overlap>>

\* epon_request_onu_pon_stats_get, before the mutex is taken.  When it fails
\* the function returns and nothing has changed.
ReadHardware(r) ==
    /\ local[r] = None
    /\ local' = [local EXCEPT ![r] = hw]
    /\ read_at' = [read_at EXCEPT ![r] = since]
    /\ UNCHANGED <<slack, hw, stats, stats_last, frames, since, overlap>>

\* Mutant: a wrap counts nothing.
Mut_NoWrap(cur, last) == IF cur >= last THEN cur - last ELSE 0

\* Mutant: a wrap counts one too few.
Mut_OffByOne(cur, last) ==
    IF cur >= last THEN cur - last ELSE (Width - 1 - last) + cur

\* Mutant: every lower reading is a wrap.
Mut_NoSlack(cur, last) ==
    IF cur >= last THEN cur - last ELSE (Width - 1 - last) + cur + 1

\* COUNT_STATS and oam_count_stats_offset.
COUNT_STATS(cur, last) ==
    CASE cur >= last                        -> cur - last
      [] cur < last /\ last - cur < slack   -> 0
      [] cur < last /\ last - cur >= slack  -> (Width - 1 - last) + cur + 1

\* The reading that is kept: an ignored one of oam_count_stats_offset is not.
Kept(cur, last) ==
    IF COUNT_STATS(cur, last) = 0 THEN last ELSE cur

\* The update under the mutex.
Update(r) ==
    /\ local[r] # None
    /\ stats' = stats + COUNT_STATS(local[r], stats_last)
    /\ stats_last' = Kept(local[r], stats_last)
    /\ local' = [local EXCEPT ![r] = None]
    /\ overlap' = (overlap \/ Reading # {r})
    /\ UNCHANGED <<slack, hw, frames, since, read_at>>

\* app_stats_reset_uni, all of it under the mutex.
app_stats_reset_uni ==
    /\ Clearing
    /\ hw' = 0 /\ stats' = 0 /\ stats_last' = 0
    /\ since' = 0
    /\ overlap' = (overlap \/ Reading # {})
    /\ UNCHANGED <<slack, local, frames, read_at>>

Next ==
    \/ Frame
    \/ \E r \in Reader : ReadHardware(r) \/ Update(r)
    \/ app_stats_reset_uni

Spec == Init /\ [][Next]_vars

(***************************************************************************)
(* Properties                                                              *)
(***************************************************************************)
\* Types; the software counter has 64 bits, so it has no bound of its own.
TypeOK ==
    /\ slack \in Slacks
    /\ hw \in 0 .. Width - 1
    /\ stats \in Nat
    /\ stats_last \in 0 .. Width - 1
    /\ local \in [Reader -> 0 .. Width]
    /\ frames \in Nat /\ since \in Nat
    /\ read_at \in [Reader -> Nat]
    /\ overlap \in BOOLEAN

\* As long as no thread got between the reading and the update of another,
\* the software counter is exact: through any number of wraps of the hardware
\* counter and any number of clears, it is the number of frames at the latest
\* reading, and so at most one wrap behind.
ExactAlone ==
    ~overlap =>
        /\ stats <= since
        /\ Reading = {} => \E r \in Reader : stats \in {0, read_at[r]}
        /\ \A r \in Reading :
            stats + COUNT_STATS(local[r], stats_last) = read_at[r]

\* Whatever the threads do, the software counter is off by a multiple of the
\* hardware counter's width only: modulo the width it is the last reading,
\* which is one the hardware can give (TypeOK).
OffByWraps ==
    /\ TypeOK
    /\ stats % Width = stats_last

\* With the slack of oam_count_stats_offset, threads that overtake each other
\* by less than the slack count no frame that was not on the wire, until the
\* hardware counter wraps for the first time or the statistic is cleared.
NoPhantomBeforeWrap ==
    slack > MaxLag /\ frames < Width /\ since = frames => stats <= frames

\* "need compare it with next time get to make sure the next get has run over
\* 32 bit" (port_stats.c:100): a reading below the last one means a wrap.  So
\* no frame is counted that was not on the wire.
NoPhantomFrames == stats <= frames
=============================================================================
