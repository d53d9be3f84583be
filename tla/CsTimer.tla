------------------------------ MODULE CsTimer ------------------------------
(***************************************************************************)
(* The software timers, cs_timer.c, with the memory pool they are taken    *)
(* from, mempool.c.  The timer thread moves the timers that ran out from   *)
(* timer_list to expire_timer_list and calls their callbacks; the other    *)
(* threads add and delete timers.  The mutex of the lists is held only for *)
(* a look or a single change: cs_timer_del takes it twice and frees the    *)
(* block outside of it.  A step of the model is what runs between two      *)
(* points where another thread can get in.                                 *)
(*                                                                         *)
(* eCos schedules strictly by priority.  The timer thread (8) runs its     *)
(* whole pass before the application (10) or a telnet session (19) goes    *)
(* on, and the serial shell (6) interrupts the pass anywhere.  A thread    *)
(* waiting for the mutex of a lower one is the same as that one running    *)
(* first, since no step reads what the waiting thread just wrote.          *)
(*                                                                         *)
(* A client is a variable that keeps a handle, such as                     *)
(* g_laser_tx_power_timer or the timer of a statistics monitor, with the   *)
(* code that deletes the old timer and adds the new one.  How long a timer *)
(* runs is left open: each pass finds any of the listed timers run out.    *)
(***************************************************************************)
EXTENDS Integers, FiniteSets

CONSTANTS
    Block,      \* elements of the timer pool
    Client,     \* users of timers
    Once,       \* clients with one-shot timers; the others are periodic
    Plain,      \* clients with a callback; the others get a message
    Keeps,      \* clients that keep the handle, to delete the timer
    User,       \* threads that add and delete timers
    Above,      \* ... those of higher priority than the timer thread
    Timer,      \* the timer thread
    None        \* handle 0

ASSUME TimerAssumption ==
    /\ IsFiniteSet(Block) /\ None \notin Block /\ Client # {}
    /\ Once \subseteq Client /\ Plain \subseteq Client /\ Keeps \subseteq Client
    /\ Above \subseteq User /\ Timer \notin User

Thread == User \cup {Timer}
Flag == {"NO_STOPPED", "STOPPED", "DESTROYED"}
Label == {"idle", "stop", "stop_lookup", "stop_delete", "destroy",
          "destroy_lookup", "free", "clear", "create", "start",
          "start_lookup", "insert", "assign", "expire", "callback", "app"}

VARIABLES
    free,               \* mem_bit_map of the timer pool
    free_elem_num,      \* ... and its count of free elements
    timer_list,
    expire_timer_list,
    stop_flag,          \* per block
    owner,              \* per block, the client its data belongs to
    handle,             \* per client, the handle it keeps
    pc,                 \* per thread, where it is
    pTimer,             \* per thread, the timer it works on
    client,             \* per user thread, whose timer that is
    renew               \* per user thread, a new timer follows the old one

vars == <<free, free_elem_num, timer_list, expire_timer_list, stop_flag,
          owner, handle, pc, pTimer, client, renew>>
pool == <<free, free_elem_num>>
lists == <<timer_list, expire_timer_list>>
data == <<stop_flag, owner>>
request == <<client, renew>>

\* No client has a handle.  (The statistics monitor, app_stats_ctc.c:135, is
\* not one of the clients: its handle starts as 1, which names no timer.)
Init ==
    /\ free = Block
    /\ free_elem_num = Cardinality(Block)
    /\ timer_list = {} /\ expire_timer_list = {}
    /\ stop_flag = [b \in Block |-> "NO_STOPPED"]
    /\ owner = [b \in Block |-> CHOOSE c \in Client : TRUE]
    /\ handle = [c \in Client |-> None]
    /\ pc = [t \in Thread |-> "idle"]
    /\ pTimer = [t \in Thread |-> None]
    /\ client = [u \in User |-> CHOOSE c \in Client : TRUE]
    /\ renew = [u \in User |-> FALSE]

(***************************************************************************)
(* Scheduling                                                              *)
(***************************************************************************)
Busy(t) == pc[t] # "idle"

\* Mutant: the threads share the processor without priorities.
Mut_NoPriorities(t) == t \in Thread

\* Thread t is the one that runs: everything of a higher priority sleeps.
MayRun(t) ==
    /\ t \notin Above => \A u \in Above : ~Busy(u)
    /\ t \in User \ Above => ~Busy(Timer)

At(t, l) == pc[t] = l /\ MayRun(t)
Goto(t, l) == pc' = [pc EXCEPT ![t] = l]

\* Where thread t goes on after cs_destroy_timer and after cs_start_timer.
Destroyed(t) == IF t = Timer THEN "expire" ELSE "clear"
Started(t) == IF t = Timer THEN "expire" ELSE "assign"

(***************************************************************************)
(* cs_stop_timer, cs_destroy_timer and cs_start_timer, in any thread       *)
(***************************************************************************)
SetFlag(t, f) == stop_flag' = [stop_flag EXCEPT ![pTimer[t]] = f]

StopFlag(t) ==
    /\ At(t, "stop")
    /\ SetFlag(t, "STOPPED")
    /\ Goto(t, "stop_lookup")
    /\ UNCHANGED <<pool, lists, owner, handle, pTimer, request>>

\* Mutant: the timer is taken for inactive.
Mut_NotCut(t) ==
    /\ At(t, "stop_lookup")
    /\ Goto(t, "destroy")
    /\ UNCHANGED <<pool, lists, data, handle, pTimer, request>>

StopLookup(t) ==
    /\ At(t, "stop_lookup")
    /\ Goto(t, IF pTimer[t] \in timer_list THEN "stop_delete" ELSE "destroy")
    /\ UNCHANGED <<pool, lists, data, handle, pTimer, request>>

\* Cutting a node that is no longer in the list hangs the head and the tail
\* of the list on the pointers the node still has: some of the timers behind
\* them are lost, or all of them.
StopDelete(t) ==
    /\ At(t, "stop_delete")
    /\ IF pTimer[t] \in timer_list
       THEN timer_list' = timer_list \ {pTimer[t]}
       ELSE timer_list' \in SUBSET timer_list
    /\ Goto(t, "destroy")
    /\ UNCHANGED <<pool, expire_timer_list, data, handle, pTimer, request>>

DestroyFlag(t) ==
    /\ At(t, "destroy")
    /\ SetFlag(t, "DESTROYED")
    /\ Goto(t, "destroy_lookup")
    /\ UNCHANGED <<pool, lists, owner, handle, pTimer, request>>

\* A timer that is active is left alone, and its block is not freed.
DestroyLookup(t) ==
    /\ At(t, "destroy_lookup")
    /\ Goto(t, IF pTimer[t] \in timer_list THEN Destroyed(t) ELSE "free")
    /\ UNCHANGED <<pool, lists, data, handle, pTimer, request>>

\* cs_mem_free does not look whether the block is allocated.
cs_mem_free(t) ==
    /\ At(t, "free")
    /\ free' = free \cup {pTimer[t]}
    /\ free_elem_num' = free_elem_num + 1
    /\ Goto(t, Destroyed(t))
    /\ UNCHANGED <<lists, data, handle, pTimer, request>>

StartFlag(t) ==
    /\ At(t, "start")
    /\ SetFlag(t, "NO_STOPPED")
    /\ Goto(t, "start_lookup")
    /\ UNCHANGED <<pool, lists, owner, handle, pTimer, request>>

StartLookup(t) ==
    /\ At(t, "start_lookup")
    /\ Goto(t, IF pTimer[t] \in timer_list THEN Started(t) ELSE "insert")
    /\ UNCHANGED <<pool, lists, data, handle, pTimer, request>>

StartInsert(t) ==
    /\ At(t, "insert")
    /\ timer_list' = timer_list \cup {pTimer[t]}
    /\ Goto(t, Started(t))
    /\ UNCHANGED <<pool, expire_timer_list, data, handle, pTimer, request>>

(***************************************************************************)
(* A request of a client, in thread u: delete the old timer, if there is   *)
(* one, and add a new one if the client wants one (again)                  *)
(***************************************************************************)
Request(u, c, again) ==
    /\ At(u, "idle")
    /\ client' = [client EXCEPT ![u] = c]
    /\ renew' = [renew EXCEPT ![u] = again]
    /\ \/ /\ handle[c] # None
          /\ pTimer' = [pTimer EXCEPT ![u] = handle[c]]
          /\ Goto(u, "stop")
       \/ /\ handle[c] = None /\ again
          /\ Goto(u, "create")
          /\ UNCHANGED pTimer
    /\ UNCHANGED <<pool, lists, data, handle>>

\* Mutant: the handle is kept when no new timer follows.
Mut_HandleKept(u) ==
    /\ At(u, "clear")
    /\ handle' = [handle EXCEPT ![client[u]] = IF renew[u] THEN None ELSE @]
    /\ Goto(u, IF renew[u] THEN "create" ELSE "idle")
    /\ UNCHANGED <<pool, lists, data, pTimer, request>>

\* cs_timer_del has returned: the client forgets its handle.
Forget(u) ==
    /\ At(u, "clear")
    /\ handle' = [handle EXCEPT ![client[u]] = None]
    /\ Goto(u, IF renew[u] THEN "create" ELSE "idle")
    /\ UNCHANGED <<pool, lists, data, pTimer, request>>

\* cs_mem_malloc and the memset of cs_create_timer; CS_INVALID_TIMER when the
\* pool is empty.
cs_create_timer(u) ==
    /\ At(u, "create")
    /\ \/ /\ free_elem_num > 0
          /\ \E b \in free :
                /\ free' = free \ {b}
                /\ stop_flag' = [stop_flag EXCEPT ![b] = "NO_STOPPED"]
                /\ owner' = [owner EXCEPT ![b] = client[u]]
                /\ pTimer' = [pTimer EXCEPT ![u] = b]
          /\ free_elem_num' = free_elem_num - 1
          /\ Goto(u, "start")
       \/ /\ free_elem_num <= 0 \/ free = {}
          /\ Goto(u, "idle")
          /\ UNCHANGED <<pool, data, pTimer>>
    /\ UNCHANGED <<lists, handle, request>>

\* The add function has returned the handle.
Assign(u) ==
    /\ At(u, "assign")
    /\ handle' = [handle EXCEPT ![client[u]] =
                        IF client[u] \in Keeps THEN pTimer[u] ELSE None]
    /\ Goto(u, "idle")
    /\ UNCHANGED <<pool, lists, data, pTimer, request>>

(***************************************************************************)
(* The timer thread                                                        *)
(***************************************************************************)
\* A pass of cs_process_timer: the timers in S ran out.
Collect(S) ==
    /\ At(Timer, "idle")
    /\ timer_list' = timer_list \ S
    /\ expire_timer_list' = S
    /\ Goto(Timer, "expire")
    /\ UNCHANGED <<pool, data, handle, pTimer, request>>

\* The next timer that ran out, or the end of the pass.
GetExpired ==
    /\ At(Timer, "expire")
    /\ \/ \E b \in expire_timer_list :
            /\ expire_timer_list' = expire_timer_list \ {b}
            /\ pTimer' = [pTimer EXCEPT ![Timer] = b]
            /\ Goto(Timer, "callback")
       \/ /\ expire_timer_list = {}
          /\ Goto(Timer, "idle")
          /\ UNCHANGED <<expire_timer_list, pTimer>>
    /\ UNCHANGED <<pool, timer_list, data, handle, request>>

Mine == pTimer[Timer]
IsOnce(b) == owner[b] \in Once

Tested == owner[Mine] \in Plain \ Once

\* The head of cs_timer_app_callback: a periodic timer that was stopped or
\* deleted meanwhile is not called.  cs_msg_timer_app_callback has no such
\* test.
Callback ==
    /\ At(Timer, "callback")
    /\ Goto(Timer,
            CASE Tested /\ stop_flag[Mine] = "DESTROYED" -> "free"
              [] Tested /\ stop_flag[Mine] = "STOPPED" -> "expire"
              [] OTHER -> "app")
    /\ IF pc'[Timer] = "app" /\ owner[Mine] \in Plain
       THEN SetFlag(Timer, "NO_STOPPED")
       ELSE UNCHANGED stop_flag
    /\ UNCHANGED <<pool, lists, owner, handle, pTimer, request>>

\* Mutant: a periodic timer whose message could not be queued is dropped.
Mut_NotRestarted ==
    /\ At(Timer, "app")
    /\ handle' = IF owner[Mine] \in Once \cap Plain
                 THEN [handle EXCEPT ![owner[Mine]] = None]
                 ELSE handle
    /\ \/ Goto(Timer, IF IsOnce(Mine) THEN "destroy" ELSE "start")
       \/ Goto(Timer, "expire")
    /\ UNCHANGED <<pool, lists, data, pTimer, request>>

\* The callback of the client, or the message into its queue.  The callback
\* of a one-shot timer whose handle is kept (__laser_tx_power_on) clears it.
AppCallback ==
    /\ At(Timer, "app")
    /\ handle' = IF owner[Mine] \in Once \cap Plain
                 THEN [handle EXCEPT ![owner[Mine]] = None]
                 ELSE handle
    /\ Goto(Timer, IF IsOnce(Mine) THEN "destroy" ELSE "start")
    /\ UNCHANGED <<pool, lists, data, pTimer, request>>

Next ==
    \/ \E t \in Thread :
        \/ StopFlag(t) \/ StopLookup(t) \/ StopDelete(t)
        \/ DestroyFlag(t) \/ DestroyLookup(t) \/ cs_mem_free(t)
        \/ StartFlag(t) \/ StartLookup(t) \/ StartInsert(t)
    \/ \E u \in User :
        \/ \E c \in Client, again \in BOOLEAN : Request(u, c, again)
        \/ Forget(u) \/ cs_create_timer(u) \/ Assign(u)
    \/ \E S \in SUBSET timer_list : S # {} /\ Collect(S)
    \/ GetExpired \/ Callback \/ AppCallback

Spec == Init /\ [][Next]_vars

(***************************************************************************)
(* Fairness                                                                *)
(***************************************************************************)
ProcedureStep(t) ==
    \/ StopFlag(t) \/ StopLookup(t) \/ StopDelete(t)
    \/ DestroyFlag(t) \/ DestroyLookup(t) \/ cs_mem_free(t)
    \/ StartFlag(t) \/ StartLookup(t) \/ StartInsert(t)

\* The timer thread finishes its pass, and sleeps 10 ms before the next one,
\* in which the other threads go on.  A listed timer runs out some day.
Fairness ==
    /\ WF_vars(ProcedureStep(Timer) \/ GetExpired \/ Callback \/ AppCallback)
    /\ \A u \in User : SF_vars(\/ ProcedureStep(u) \/ Forget(u)
                               \/ cs_create_timer(u) \/ Assign(u))
    /\ \A b \in Block :
            SF_vars(\E S \in SUBSET timer_list : b \in S /\ Collect(S))

FairSpec == Spec /\ Fairness

(***************************************************************************)
(* Properties                                                              *)
(***************************************************************************)
\* The pool, the lists and the threads have their types; the pool's count of
\* free elements, which nothing in mempool.c bounds, stays within the pool.
TypeOK ==
    /\ free \subseteq Block /\ free_elem_num \in 0..Cardinality(Block)
    /\ timer_list \subseteq Block /\ expire_timer_list \subseteq Block
    /\ stop_flag \in [Block -> Flag] /\ owner \in [Block -> Client]
    /\ handle \in [Client -> Block \cup {None}]
    /\ pc \in [Thread -> Label]
    /\ pTimer \in [Thread -> Block \cup {None}]
    /\ client \in [User -> Client] /\ renew \in [User -> BOOLEAN]

\* The timers a thread has in its hands, in no list.
InHand(t) ==
    IF pc[t] \in {"idle", "clear", "create", "expire", "assign"}
    THEN {} ELSE {pTimer[t]}

\* No block is freed twice: the pool's count of free elements is the number
\* of bits set in its bitmap.  cs_mem_free counts up without looking at the
\* bit: a second free leaves the count too high, or frees the block of whoever
\* was given it meanwhile.
PoolCount ==
    /\ TypeOK
    /\ free_elem_num = Cardinality(free)

\* No freed block is in a list of the timer thread or in its hands: the timer
\* that runs out is one somebody asked for.
NoFreedTimer ==
    (timer_list \cup expire_timer_list \cup InHand(Timer)) \cap free = {}

\* No timer is lost: a block that is allocated is in a list, or some thread
\* is at work on it.  A timer that was stopped and never freed, or cut off
\* with a damaged list, would be neither.
Accounted ==
    \A b \in Block \ free :
        \/ b \in timer_list \cup expire_timer_list
        \/ \E t \in Thread : b \in InHand(t)

\* A client that keeps its handle is called only while the handle is the one
\* of this timer, or while it is just adding or deleting it: after
\* cs_timer_del no callback of the deleted timer runs and no message of it is
\* queued.
DeletedIsSilent ==
    pc[Timer] = "app" /\ owner[Mine] \in Keeps =>
        \/ handle[owner[Mine]] = Mine
        \/ \E u \in User : Busy(u) /\ client[u] = owner[Mine]

\* A periodic timer fires again and again until it is deleted, whatever its
\* owner and the timer thread do to the lists in between.
PeriodicFires ==
    \A c \in Keeps \ Once, b \in Block :
        [](handle[c] = b => <>(\/ handle[c] # b
                               \/ pc[Timer] = "app" /\ Mine = b))
=============================================================================
