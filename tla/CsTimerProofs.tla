--------------------------- MODULE CsTimerProofs ---------------------------
(***************************************************************************)
(* Proofs about CsTimer, for every pool and every set of clients, where    *)
(* the timers are used as most of the firmware uses them (Disciplined).    *)
(***************************************************************************)
EXTENDS CsTimer, FiniteSetTheorems, TLAPS

\* One thread below the timer thread adds and deletes timers; a periodic timer
\* sends a message, and the handle of a one-shot timer is not kept.  The run
\* timer_lost shows what happens when it is kept.
Disciplined ==
    /\ Above = {}
    /\ \A u, v \in User : u = v
    /\ Plain \subseteq Once
    /\ Keeps \cap Once = {}

(***************************************************************************)
(* The inductive invariant                                                 *)
(***************************************************************************)
TimerLabel == {"idle", "expire", "callback", "app", "destroy", "destroy_lookup",
               "free", "start", "start_lookup", "insert"}
Stopping == {"stop", "stop_lookup", "stop_delete"}
Freeing == {"destroy", "destroy_lookup", "free"}
Starting == {"start", "start_lookup", "insert"}
UserLabel == {"idle", "clear", "create", "assign"}
                \cup Stopping \cup Freeing \cup Starting

\* The timers that are listed or in the hands of the timer thread.
Live == timer_list \cup expire_timer_list \cup InHand(Timer)

Types ==
    /\ free \subseteq Block /\ free_elem_num = Cardinality(free)
    /\ timer_list \subseteq Block /\ expire_timer_list \subseteq Block
    /\ stop_flag \in [Block -> Flag] /\ owner \in [Block -> Client]
    /\ handle \in [Client -> Block \cup {None}]
    /\ pc \in [Thread -> Label]
    /\ pc[Timer] \in TimerLabel
    /\ \A u \in User : pc[u] \in UserLabel
    /\ pTimer \in [Thread -> Block \cup {None}]
    /\ client \in [User -> Client] /\ renew \in [User -> BOOLEAN]

\* A timer is in one list or in the timer thread's hands, and only once; only a
\* one-shot timer is destroyed by the timer thread.
Lists ==
    /\ timer_list \cap expire_timer_list = {}
    /\ InHand(Timer) \subseteq Block
    /\ InHand(Timer) \cap (timer_list \cup expire_timer_list) = {}
    /\ pc[Timer] = "idle" => expire_timer_list = {}
    /\ pc[Timer] \in Freeing => owner[Mine] \in Once
    /\ Live \cap free = {}

\* What a user thread knows of the timer it works on.
AtWork(u) ==
    LET p == pTimer[u]
        c == client[u]
    IN  /\ pc[u] \in Stopping =>
            p = handle[c] /\ p \in Live /\ owner[p] = c /\ c \in Keeps
        /\ pc[u] \in Freeing =>
            p = handle[c] /\ p \in Block /\ p \notin Live /\ p \notin free
        /\ pc[u] = "clear" => p = handle[c] /\ p \notin Live
        /\ pc[u] \in Starting =>
            p \in Block /\ p \notin Live /\ p \notin free /\ owner[p] = c
        /\ pc[u] = "assign" =>
            p \in Block /\ (c \notin Once => p \in Live /\ owner[p] = c)
        /\ pc[u] \in {"create", "assign"} \cup Starting => handle[c] = None

Users == \A u \in User : AtWork(u)

\* A handle that is kept is the one of a live timer, unless it is just deleted.
Handles ==
    \A c \in Client : handle[c] # None =>
        /\ c \in Keeps
        /\ \/ handle[c] \in Live /\ owner[handle[c]] = c
           \/ \E u \in User : client[u] = c /\ pc[u] \in Freeing \cup {"clear"}

\* A live timer of a client that keeps handles is the one of its handle, or of
\* the handle about to be assigned.
Known ==
    \A b \in Live : owner[b] \in Keeps =>
        \/ handle[owner[b]] = b
        \/ \E u \in User : pc[u] = "assign" /\ client[u] = owner[b] /\ pTimer[u] = b

\* An allocated timer is live or a user thread works on it.
Held == \A b \in Block \ free : b \in Live \/ \E u \in User : b \in InHand(u)

IInv == Types /\ Lists /\ Users /\ Handles /\ Known /\ Held

(***************************************************************************)
(* Steps of the timer thread                                               *)
(***************************************************************************)
\* A step that changes neither the set of live timers nor anything that the
\* users see.
LEMMA Unseen ==
    ASSUME IInv, Types', Lists', Live' = Live,
           free' = free, owner' = owner, handle' = handle, client' = client,
           \A u \in User : pc'[u] = pc[u] /\ pTimer'[u] = pTimer[u]
    PROVE  IInv'
<1>1. Users'
  <2> SUFFICES ASSUME NEW u \in User PROVE AtWork(u)'
    BY DEF Users
  <2>1. AtWork(u) /\ pc'[u] = pc[u] /\ pTimer'[u] = pTimer[u]
    BY DEF IInv, Users
  <2> QED
    BY <2>1 DEF AtWork
<1>2. Handles'
  BY DEF IInv, Handles
<1>3. Known'
  BY DEF IInv, Known
<1>4. Held'
  <2>1. \A u \in User : InHand(u)' = InHand(u)
    BY DEF InHand
  <2> QED
    BY <2>1 DEF IInv, Held
<1> QED
  BY <1>1, <1>2, <1>3, <1>4 DEF IInv

\* Where the timer thread is when it has a timer in its hands.
LEMMA TimerHand ==
    ASSUME Types, Lists
    PROVE  /\ Timer \in Thread /\ User \subseteq Thread
           /\ \A u \in User : u # Timer
           /\ pc[Timer] \notin {"idle", "expire"} =>
                /\ InHand(Timer) = {Mine} /\ Mine \in Block
                /\ Mine \in Live
                /\ Mine \notin timer_list /\ Mine \notin expire_timer_list
                /\ Mine \notin free
           /\ pc[Timer] \in {"idle", "expire"} => InHand(Timer) = {}
  BY TimerAssumption DEF Types, Lists, TimerLabel, InHand, Mine, Live, Thread

\* The timer thread moves on with the same timer in its hands.
LEMMA TimerMoves ==
    ASSUME IInv, NEW l \in TimerLabel \ {"idle", "expire"},
           pc[Timer] \notin {"idle", "expire"}, Goto(Timer, l),
           l \in Freeing => owner[Mine] \in Once,
           UNCHANGED <<pool, lists, owner, handle, pTimer, request>>,
           stop_flag' \in [Block -> Flag]
    PROVE  IInv'
<1>1. Types /\ Lists
  BY DEF IInv
<1>2. /\ Timer \in Thread /\ \A u \in User : u # Timer /\ u \in Thread
      /\ InHand(Timer) = {Mine}
  BY <1>1, TimerHand DEF Thread
<1>3. pc' = [pc EXCEPT ![Timer] = l] /\ pc \in [Thread -> Label] /\ l \in Label
  BY <1>1 DEF Goto, Types, TimerLabel, Label
<1>4. /\ pc' \in [Thread -> Label] /\ pc'[Timer] = l
      /\ \A u \in User : pc'[u] = pc[u]
  BY <1>2, <1>3
<1>5. Mine' = Mine
  BY DEF Mine
<1>6. InHand(Timer)' = InHand(Timer)
  BY <1>2, <1>4, <1>5 DEF InHand, Mine, TimerLabel
<1>7. Live' = Live
  BY <1>6 DEF Live, lists
<1>8. Types'
  BY <1>1, <1>4 DEF Types, pool, lists, request
<1>9. Lists'
  BY <1>1, <1>4, <1>5, <1>6, <1>7 DEF Lists, pool, lists
<1> QED
  BY <1>4, <1>7, <1>8, <1>9, Unseen DEF pool, request

\* A flag written by any thread is one of the flags.
LEMMA FlagType ==
    ASSUME Types, NEW t \in Thread, pTimer[t] \in Block, NEW f \in Flag, SetFlag(t, f)
    PROVE  stop_flag' \in [Block -> Flag]
  BY DEF Types, SetFlag

\* The timer thread takes its timer up, puts it back into timer_list, or moves
\* the timers that ran out: the live timers stay the same.
LEMMA TimerRelists ==
    ASSUME IInv, NEW l \in {"idle", "expire", "callback"}, Goto(Timer, l),
           UNCHANGED <<pool, data, handle, request>>,
           pTimer' \in [Thread -> Block \cup {None}],
           \A u \in User : pTimer'[u] = pTimer[u],
           timer_list' \subseteq Block, expire_timer_list' \subseteq Block,
           timer_list' \cap expire_timer_list' = {},
           l = "idle" => expire_timer_list' = {},
           l = "callback" => /\ pTimer'[Timer] \in Block
                             /\ pTimer'[Timer] \notin timer_list' \cup expire_timer_list',
           timer_list' \cup expire_timer_list'
              \cup (IF l = "callback" THEN {pTimer'[Timer]} ELSE {}) = Live
    PROVE  IInv'
<1>1. Types /\ Lists
  BY DEF IInv
<1>2. Timer \in Thread /\ \A u \in User : u # Timer /\ u \in Thread
  BY <1>1, TimerHand DEF Thread
<1>3. pc' = [pc EXCEPT ![Timer] = l] /\ pc \in [Thread -> Label] /\ l \in Label
  BY <1>1 DEF Goto, Types, Label
<1>4. /\ pc' \in [Thread -> Label] /\ pc'[Timer] = l /\ pc'[Timer] \in TimerLabel
      /\ \A u \in User : pc'[u] = pc[u]
  BY <1>2, <1>3 DEF TimerLabel
<1>5. InHand(Timer)' = IF l = "callback" THEN {pTimer'[Timer]} ELSE {}
  BY <1>4 DEF InHand
<1>6. Live' = Live
  BY <1>5 DEF Live
<1>7. Types'
  BY <1>1, <1>4 DEF Types, pool, data, request
<1>8. l \notin Freeing
  BY DEF Freeing
<1>9. Lists'
  BY <1>1, <1>4, <1>5, <1>6, <1>8 DEF Lists, pool
<1> QED
  BY <1>4, <1>6, <1>7, <1>9, Unseen DEF pool, data, request

\* The timer thread frees a block of its pass.
LEMMA TimerFrees ==
    ASSUME IInv, Disciplined, cs_mem_free(Timer)
    PROVE  IInv'
<1>1. Types /\ Lists /\ pc[Timer] = "free"
  BY DEF IInv, cs_mem_free, At
<1>2. /\ Timer \in Thread /\ \A u \in User : u # Timer /\ u \in Thread
      /\ InHand(Timer) = {Mine} /\ Mine \in Block /\ Mine \in Live
      /\ Mine \notin timer_list /\ Mine \notin expire_timer_list
      /\ Mine \notin free
  BY <1>1, TimerHand DEF Thread
<1>3. owner[Mine] \in Once /\ owner[Mine] \notin Keeps
  BY <1>1 DEF Lists, Freeing, Disciplined
<1>4. /\ free' = free \cup {Mine} /\ free_elem_num' = free_elem_num + 1
      /\ pc' = [pc EXCEPT ![Timer] = "expire"]
      /\ timer_list' = timer_list /\ expire_timer_list' = expire_timer_list
      /\ stop_flag' = stop_flag /\ owner' = owner
      /\ handle' = handle /\ pTimer' = pTimer /\ client' = client /\ renew' = renew
  BY DEF cs_mem_free, Goto, Destroyed, Mine, lists, data, request
<1>5. /\ pc' \in [Thread -> Label] /\ pc'[Timer] = "expire"
      /\ \A u \in User : pc'[u] = pc[u]
  BY <1>1, <1>2, <1>4 DEF Types, Label
<1>6. InHand(Timer)' = {} /\ Live' = Live \ {Mine}
  <2>1. InHand(Timer)' = {}
    BY <1>5 DEF InHand
  <2> QED
    BY <1>2, <1>4, <2>1 DEF Live
<1>7. Types'
  <2>1. IsFiniteSet(Block) /\ free \subseteq Block /\ free_elem_num = Cardinality(free)
    BY <1>1, TimerAssumption DEF Types
  <2>2. IsFiniteSet(free)
    BY <2>1, FS_Subset
  <2>3. Cardinality(free \cup {Mine}) = Cardinality(free) + 1
    BY <1>2, <2>2, FS_AddElement
  <2>4. free' \subseteq Block /\ free_elem_num' = Cardinality(free')
    BY <1>2, <1>4, <2>1, <2>3
  <2> QED
    BY <1>1, <1>4, <1>5, <2>4 DEF Types, TimerLabel
<1>8. Lists'
  BY <1>1, <1>2, <1>4, <1>5, <1>6 DEF Lists, Freeing
<1>9. Users'
  <2> SUFFICES ASSUME NEW u \in User PROVE AtWork(u)'
    BY DEF Users
  <2>1. AtWork(u) /\ pc'[u] = pc[u] /\ pTimer'[u] = pTimer[u]
    BY <1>4, <1>5 DEF IInv, Users
  <2>2. pTimer[u] \in Live /\ owner[pTimer[u]] \notin Once =>
            pTimer[u] \in Live'
    BY <1>3, <1>6
  <2>3. pTimer[u] \notin Live => pTimer[u] \notin Live' /\ pTimer[u] # Mine
    BY <1>2, <1>6
  <2>4. \A c \in Keeps : c \notin Once
    BY DEF Disciplined
  <2> QED
    BY <1>4, <2>1, <2>2, <2>3, <2>4 DEF AtWork
<1>10. Handles'
  <2> SUFFICES ASSUME NEW c \in Client, handle[c] # None
               PROVE  /\ c \in Keeps
                      /\ \/ handle[c] \in Live' /\ owner[handle[c]] = c
                         \/ \E u \in User : client[u] = c /\ pc[u] \in Freeing \cup {"clear"}
    BY <1>4, <1>5 DEF Handles
  <2> QED
    BY <1>3, <1>6 DEF IInv, Handles
<1>11. Known'
  BY <1>4, <1>5, <1>6 DEF IInv, Known
<1>12. Held'
  <2>1. \A u \in User : InHand(u)' = InHand(u)
    BY <1>4, <1>5 DEF InHand
  <2> QED
    BY <1>4, <1>6, <2>1 DEF IInv, Held
<1> QED
  BY <1>7, <1>8, <1>9, <1>10, <1>11, <1>12 DEF IInv

\* The timer thread's steps inside cs_timer procedures.
LEMMA TimerStep ==
    ASSUME IInv, Disciplined, ProcedureStep(Timer)
    PROVE  IInv'
<1>1. Types /\ Lists /\ Timer \in Thread
  BY DEF IInv, Thread
<1>2. pc[Timer] \notin {"stop", "stop_lookup", "stop_delete"}
  BY <1>1 DEF Types, TimerLabel
<1>3. pc[Timer] \notin {"idle", "expire"} =>
        /\ pTimer[Timer] \in Block /\ pTimer[Timer] \notin timer_list
        /\ pTimer[Timer] \notin expire_timer_list
        /\ InHand(Timer) = {pTimer[Timer]}
  BY <1>1, TimerHand DEF Mine
<1>4. stop_flag \in [Block -> Flag]
  BY <1>1 DEF Types
<1>5. CASE DestroyFlag(Timer)
  <2>1. pc[Timer] = "destroy" /\ owner[Mine] \in Once
    BY <1>1, <1>5 DEF DestroyFlag, At, Lists, Freeing
  <2>2. stop_flag' \in [Block -> Flag]
    BY <1>1, <1>3, <1>5, <2>1, FlagType DEF DestroyFlag, Flag
  <2>3. "destroy_lookup" \in TimerLabel \ {"idle", "expire"}
    BY DEF TimerLabel
  <2> QED
    BY <1>5, <2>1, <2>2, <2>3, TimerMoves DEF DestroyFlag
<1>6. CASE DestroyLookup(Timer)
  <2>1. pc[Timer] = "destroy_lookup" /\ owner[Mine] \in Once
    BY <1>1, <1>6 DEF DestroyLookup, At, Lists, Freeing
  <2>2. Goto(Timer, "free")
    BY <1>3, <1>6, <2>1 DEF DestroyLookup
  <2>3. "free" \in TimerLabel \ {"idle", "expire"}
    BY DEF TimerLabel
  <2> QED
    BY <1>4, <1>6, <2>1, <2>2, <2>3, TimerMoves DEF DestroyLookup, data
<1>7. CASE cs_mem_free(Timer)
  BY <1>7, TimerFrees
<1>8. CASE StartFlag(Timer)
  <2>1. pc[Timer] = "start"
    BY <1>8 DEF StartFlag, At
  <2>2. stop_flag' \in [Block -> Flag]
    BY <1>1, <1>3, <1>8, <2>1, FlagType DEF StartFlag, Flag
  <2>3. "start_lookup" \in TimerLabel \ {"idle", "expire"} /\ "start_lookup" \notin Freeing
    BY DEF TimerLabel, Freeing
  <2> QED
    BY <1>8, <2>1, <2>2, <2>3, TimerMoves DEF StartFlag
<1>9. CASE StartLookup(Timer)
  <2>1. pc[Timer] = "start_lookup"
    BY <1>9 DEF StartLookup, At
  <2>2. Goto(Timer, "insert")
    BY <1>3, <1>9, <2>1 DEF StartLookup
  <2>3. "insert" \in TimerLabel \ {"idle", "expire"} /\ "insert" \notin Freeing
    BY DEF TimerLabel, Freeing
  <2> QED
    BY <1>4, <1>9, <2>1, <2>2, <2>3, TimerMoves DEF StartLookup, data
<1>10. CASE StartInsert(Timer)
  <2>1. pc[Timer] = "insert"
    BY <1>10 DEF StartInsert, At
  <2>2. /\ Goto(Timer, "expire") /\ timer_list' = timer_list \cup {pTimer[Timer]}
        /\ UNCHANGED <<pool, expire_timer_list, data, handle, pTimer, request>>
    BY <1>10 DEF StartInsert, Started
  <2>3. /\ timer_list' \subseteq Block /\ expire_timer_list' \subseteq Block
        /\ timer_list' \cap expire_timer_list' = {}
        /\ timer_list' \cup expire_timer_list' = Live
        /\ pTimer' \in [Thread -> Block \cup {None}]
    BY <1>1, <1>3, <2>1, <2>2 DEF Types, Lists, Live
  <2> QED
    BY <2>2, <2>3, TimerRelists
<1> QED
  BY <1>2, <1>5, <1>6, <1>7, <1>8, <1>9, <1>10
     DEF ProcedureStep, StopFlag, StopLookup, StopDelete, At

\* The timer thread collects, takes and calls back the expired timers.
LEMMA PassStep ==
    ASSUME IInv, Disciplined,
           \/ \E S \in SUBSET timer_list : S # {} /\ Collect(S)
           \/ GetExpired \/ Callback \/ AppCallback
    PROVE  IInv'
<1>1. Types /\ Lists /\ Timer \in Thread /\ pTimer \in [Thread -> Block \cup {None}]
      /\ \A u \in User : u # Timer /\ u \in Thread
  BY TimerAssumption DEF IInv, Thread, Types
<1>2. pc[Timer] \notin {"idle", "expire"} =>
        /\ pTimer[Timer] \in Block /\ pTimer[Timer] \notin timer_list
        /\ pTimer[Timer] \notin expire_timer_list
        /\ Mine = pTimer[Timer] /\ InHand(Timer) = {pTimer[Timer]}
  BY <1>1, TimerHand DEF Mine
<1>3. CASE \E S \in SUBSET timer_list : S # {} /\ Collect(S)
  <2>1. PICK S \in SUBSET timer_list : Collect(S)
    BY <1>3
  <2>2. /\ pc[Timer] = "idle" /\ Goto(Timer, "expire")
        /\ timer_list' = timer_list \ S /\ expire_timer_list' = S
        /\ UNCHANGED <<pool, data, handle, pTimer, request>>
    BY <2>1 DEF Collect, At
  <2>3. Live = timer_list
    BY <1>1, <2>2, TimerHand DEF Lists, Live
  <2>4. /\ timer_list' \subseteq Block /\ expire_timer_list' \subseteq Block
        /\ timer_list' \cap expire_timer_list' = {}
        /\ timer_list' \cup expire_timer_list' = Live
    BY <1>1, <2>2, <2>3 DEF Types
  <2>5. pTimer' \in [Thread -> Block \cup {None}]
        /\ \A u \in User : pTimer'[u] = pTimer[u]
    BY <1>1, <2>2
  <2> QED
    BY <2>2, <2>4, <2>5, TimerRelists
<1>4. CASE GetExpired
  <2>1. /\ pc[Timer] = "expire" /\ timer_list' = timer_list
        /\ UNCHANGED <<pool, data, handle, request>>
    BY <1>4 DEF GetExpired, At
  <2>2. Live = timer_list \cup expire_timer_list
    BY <1>1, <2>1, TimerHand DEF Live
  <2>3. CASE \E b \in expire_timer_list :
                /\ expire_timer_list' = expire_timer_list \ {b}
                /\ pTimer' = [pTimer EXCEPT ![Timer] = b]
                /\ Goto(Timer, "callback")
    <3>1. PICK b \in expire_timer_list :
                /\ expire_timer_list' = expire_timer_list \ {b}
                /\ pTimer' = [pTimer EXCEPT ![Timer] = b]
                /\ Goto(Timer, "callback")
      BY <2>3
    <3>2. b \in Block /\ b \notin timer_list
      BY <1>1 DEF Types, Lists
    <3>3. /\ pTimer' \in [Thread -> Block \cup {None}] /\ pTimer'[Timer] = b
          /\ \A u \in User : pTimer'[u] = pTimer[u]
      BY <1>1, <3>1, <3>2
    <3>4. /\ timer_list' \subseteq Block /\ expire_timer_list' \subseteq Block
          /\ timer_list' \cap expire_timer_list' = {}
          /\ b \notin timer_list' \cup expire_timer_list'
          /\ timer_list' \cup expire_timer_list' \cup {b} = Live
      BY <1>1, <2>1, <2>2, <3>1, <3>2 DEF Types, Lists
    <3> QED
      BY <2>1, <3>1, <3>2, <3>3, <3>4, TimerRelists
  <2>4. CASE /\ expire_timer_list = {}
             /\ Goto(Timer, "idle")
             /\ UNCHANGED <<expire_timer_list, pTimer>>
    <3>1. /\ timer_list' \subseteq Block /\ expire_timer_list' = {}
          /\ timer_list' = Live
      BY <1>1, <2>1, <2>2, <2>4 DEF Types
    <3>2. pTimer' \in [Thread -> Block \cup {None}]
          /\ \A u \in User : pTimer'[u] = pTimer[u]
      BY <1>1, <2>4
    <3> QED
      BY <2>1, <2>4, <3>1, <3>2, TimerRelists
  <2> QED
    BY <1>4, <2>3, <2>4 DEF GetExpired
<1>5. CASE Callback
  <2>1. pc[Timer] = "callback" /\ ~ Tested
    BY <1>5 DEF Callback, At, Tested, Disciplined
  <2>2. Goto(Timer, "app")
    BY <1>5, <2>1, Zenon DEF Callback
  <2>3. stop_flag' \in [Block -> Flag]
    <3>1. CASE SetFlag(Timer, "NO_STOPPED")
      BY <1>1, <1>2, <2>1, <3>1, FlagType DEF Flag
    <3>2. CASE UNCHANGED stop_flag
      BY <1>1, <3>2 DEF Types
    <3> QED
      BY <1>5, <3>1, <3>2 DEF Callback
  <2>4. "app" \in TimerLabel \ {"idle", "expire"} /\ "app" \notin Freeing
    BY DEF TimerLabel, Freeing
  <2>5. UNCHANGED <<pool, lists, owner, handle, pTimer, request>>
    BY <1>5 DEF Callback
  <2> QED
    BY <2>1, <2>2, <2>3, <2>4, <2>5, TimerMoves
<1>6. CASE AppCallback
  <2>1. pc[Timer] = "app"
    BY <1>6 DEF AppCallback, At
  <2>2. owner[Mine] \in Client /\ handle \in [Client -> Block \cup {None}]
    BY <1>1, <1>2, <2>1 DEF Types
  <2>3. handle' = handle
    <3>1. CASE owner[Mine] \in Once \cap Plain
      <4>1. handle[owner[Mine]] = None
        BY <2>2, <3>1 DEF IInv, Handles, Disciplined
      <4>2. handle' = [handle EXCEPT ![owner[Mine]] = None]
        BY <1>6, <3>1 DEF AppCallback
      <4> QED
        BY <2>2, <4>1, <4>2
    <3>2. CASE owner[Mine] \notin Once \cap Plain
      BY <1>6, <3>2 DEF AppCallback
    <3> QED
      BY <3>1, <3>2
  <2> DEFINE l == IF IsOnce(Mine) THEN "destroy" ELSE "start"
  <2>4. /\ l \in TimerLabel \ {"idle", "expire"}
        /\ l \in Freeing => owner[Mine] \in Once
    BY DEF TimerLabel, Freeing, IsOnce
  <2>5. Goto(Timer, l) /\ UNCHANGED <<pool, lists, data, pTimer, request>>
    BY <1>6 DEF AppCallback
  <2>6. stop_flag' \in [Block -> Flag]
    BY <1>1, <2>5 DEF Types, data
  <2> HIDE DEF l
  <2> QED
    BY <2>1, <2>3, <2>4, <2>5, <2>6, TimerMoves DEF data
<1> QED
  BY <1>3, <1>4, <1>5, <1>6

(***************************************************************************)
(* Steps of the user thread                                                *)
(***************************************************************************)
\* A user thread runs only while the timer thread sleeps.
LEMMA TimerSleeps ==
    ASSUME IInv, Disciplined, NEW u \in User, MayRun(u)
    PROVE  /\ pc[Timer] = "idle" /\ expire_timer_list = {} /\ InHand(Timer) = {}
           /\ Live = timer_list
           /\ u \in Thread /\ u # Timer /\ \A v \in User : v = u
           /\ pc \in [Thread -> Label] /\ pTimer \in [Thread -> Block \cup {None}]
           /\ AtWork(u) /\ client[u] \in Client
<1>1. pc[Timer] = "idle"
  BY DEF MayRun, Busy, Disciplined
<1>2. InHand(Timer) = {} /\ expire_timer_list = {}
  BY <1>1 DEF InHand, IInv, Lists
<1> QED
  BY <1>1, <1>2, TimerAssumption DEF Live, Thread, Disciplined, IInv, Users, Types

\* What is left to show of a step of a user thread.
LEMMA UserMoves ==
    ASSUME IInv, Disciplined, NEW u \in User, MayRun(u),
           NEW l \in UserLabel, Goto(u, l),
           expire_timer_list' = expire_timer_list, pTimer'[Timer] = pTimer[Timer],
           pTimer' \in [Thread -> Block \cup {None}],
           timer_list' \subseteq Block, timer_list' \cap free' = {},
           free' \subseteq Block, free_elem_num' = Cardinality(free'),
           stop_flag' \in [Block -> Flag], owner' \in [Block -> Client],
           handle' \in [Client -> Block \cup {None}],
           client' \in [User -> Client], renew' \in [User -> BOOLEAN],
           pc'[u] = l /\ Live' = timer_list' => AtWork(u)',
           pc'[u] = l /\ Live' = timer_list' => Handles',
           pc'[u] = l /\ Live' = timer_list' => Known',
           pc'[u] = l /\ Live' = timer_list' => Held'
    PROVE  IInv'
<1>1. /\ pc[Timer] = "idle" /\ expire_timer_list = {}
      /\ u \in Thread /\ u # Timer /\ \A v \in User : v = u
      /\ pc \in [Thread -> Label]
  BY TimerSleeps
<1>2. /\ pc' \in [Thread -> Label] /\ pc'[u] = l /\ pc'[Timer] = "idle"
  BY <1>1 DEF Goto, UserLabel, Stopping, Freeing, Starting, Label, Thread
<1>3. InHand(Timer)' = {}
  BY <1>2 DEF InHand
<1>4. Live' = timer_list'
  BY <1>1, <1>3 DEF Live
<1>5. Types'
  BY <1>1, <1>2 DEF Types, IInv, TimerLabel
<1>6. Lists'
  BY <1>1, <1>2, <1>3, <1>4 DEF Lists, Freeing
<1>7. Users'
  BY <1>1, <1>2, <1>4 DEF Users
<1> QED
  BY <1>2, <1>4, <1>5, <1>6, <1>7 DEF IInv

\* A step to another label, with everything but the flag unchanged.
LEMMA UserGoes ==
    ASSUME IInv, Disciplined, NEW u \in User, MayRun(u),
           NEW l \in UserLabel, Goto(u, l), stop_flag' \in [Block -> Flag],
           UNCHANGED <<pool, lists, owner, handle, pTimer, request>>,
           \/ {pc[u], l} \subseteq Stopping
           \/ {pc[u], l} \subseteq Freeing
           \/ {pc[u], l} \subseteq Starting
    PROVE  IInv'
<1>1. /\ Live = timer_list /\ AtWork(u) /\ \A v \in User : v = u
      /\ Types /\ Lists /\ Handles /\ Known /\ Held
  BY TimerSleeps DEF IInv
<1>2. ASSUME pc'[u] = l /\ Live' = timer_list'
      PROVE  AtWork(u)' /\ Handles' /\ Known' /\ Held'
  <2>1. Live' = Live
    BY <1>1, <1>2 DEF lists
  <2>2. AtWork(u)'
    BY <1>1, <1>2, <2>1
       DEF AtWork, pool, request, Stopping, Freeing, Starting
  <2>3. Handles'
    BY <1>1, <1>2, <2>1 DEF Handles, request, Stopping, Freeing, Starting
  <2>4. Known'
    BY <1>1, <1>2, <2>1 DEF Known, request, Stopping, Freeing, Starting
  <2>5. InHand(u)' = InHand(u)
    BY <1>2 DEF InHand, Stopping, Freeing, Starting
  <2>6. Held'
    BY <1>1, <2>1, <2>5 DEF Held, pool
  <2> QED
    BY <2>2, <2>3, <2>4, <2>6
<1>3. /\ expire_timer_list' = expire_timer_list /\ pTimer'[Timer] = pTimer[Timer]
      /\ pTimer' \in [Thread -> Block \cup {None}]
      /\ timer_list' \subseteq Block /\ timer_list' \cap free' = {}
      /\ free' \subseteq Block /\ free_elem_num' = Cardinality(free')
      /\ owner' \in [Block -> Client]
      /\ handle' \in [Client -> Block \cup {None}]
      /\ client' \in [User -> Client] /\ renew' \in [User -> BOOLEAN]
  BY <1>1 DEF Types, Lists, pool, lists, request
<1> QED
  BY <1>2, <1>3, UserMoves

\* A client stops or deletes a timer.
LEMMA UserStopDelete ==
    ASSUME IInv, Disciplined, NEW u \in User, StopDelete(u)
    PROVE  IInv'
<1>1. pc[u] = "stop_delete" /\ MayRun(u) /\ Goto(u, "destroy")
  BY DEF StopDelete, At
<1>2. /\ Live = timer_list /\ AtWork(u) /\ \A v \in User : v = u
      /\ Types /\ Lists /\ Handles /\ Known /\ Held
  BY <1>1, TimerSleeps DEF IInv
<1> DEFINE p == pTimer[u]
<1>3. p \in timer_list /\ p = handle[client[u]] /\ p \in Block /\ p \notin free
      /\ owner[p] = client[u]
  BY <1>1, <1>2 DEF AtWork, Stopping, Types, Lists
<1>4. /\ timer_list' = timer_list \ {p}
      /\ UNCHANGED <<pool, expire_timer_list, data, handle, pTimer, request>>
  BY <1>3 DEF StopDelete
<1> HIDE DEF p
<1>5. ASSUME pc'[u] = "destroy" /\ Live' = timer_list'
      PROVE  AtWork(u)' /\ Handles' /\ Known' /\ Held'
  <2>1. Live' = Live \ {p} /\ pTimer'[u] = p /\ client'[u] = client[u]
    BY <1>2, <1>4, <1>5 DEF p, request
  <2>2. AtWork(u)'
    BY <1>3, <1>4, <1>5, <2>1
       DEF AtWork, pool, data, request, Stopping, Freeing, Starting
  <2>3. Handles'
    <3> SUFFICES ASSUME NEW c \in Client, handle[c] # None
                 PROVE  /\ c \in Keeps
                        /\ \/ handle[c] \in Live' /\ owner[handle[c]] = c
                           \/ client[u] = c
      BY <1>2, <1>4, <1>5 DEF Handles, data, request, Freeing
    <3>1. c \in Keeps /\ handle[c] \in Live /\ owner[handle[c]] = c
      BY <1>1, <1>2 DEF Handles, Freeing
    <3> QED
      BY <1>3, <2>1, <3>1
  <2>4. Known'
    BY <1>1, <1>2, <1>4, <2>1 DEF Known, data
  <2>5. InHand(u)' = {p}
    BY <1>5, <2>1 DEF InHand
  <2>6. Held'
    BY <1>1, <1>2, <1>4, <2>1, <2>5 DEF Held, pool, InHand, p
  <2> QED
    BY <2>2, <2>3, <2>4, <2>6
<1>6. /\ expire_timer_list' = expire_timer_list /\ pTimer'[Timer] = pTimer[Timer]
      /\ pTimer' \in [Thread -> Block \cup {None}]
      /\ timer_list' \subseteq Block /\ timer_list' \cap free' = {}
      /\ free' \subseteq Block /\ free_elem_num' = Cardinality(free')
      /\ stop_flag' \in [Block -> Flag] /\ owner' \in [Block -> Client]
      /\ handle' \in [Client -> Block \cup {None}]
      /\ client' \in [User -> Client] /\ renew' \in [User -> BOOLEAN]
  BY <1>2, <1>4 DEF Types, Lists, Live, pool, data, request
<1>7. "destroy" \in UserLabel
  BY DEF UserLabel, Freeing
<1> QED
  BY <1>1, <1>5, <1>6, <1>7, UserMoves

\* A client's delete frees the block.
LEMMA UserFrees ==
    ASSUME IInv, Disciplined, NEW u \in User, cs_mem_free(u)
    PROVE  IInv'
<1>1. pc[u] = "free" /\ MayRun(u) /\ u # Timer
  BY TimerAssumption DEF cs_mem_free, At
<1>2. /\ Live = timer_list /\ AtWork(u) /\ \A v \in User : v = u
      /\ Types /\ Lists /\ Handles /\ Known /\ Held
  BY <1>1, TimerSleeps DEF IInv
<1> DEFINE p == pTimer[u]
<1>3. p \notin timer_list /\ p = handle[client[u]] /\ p \in Block /\ p \notin free
  BY <1>1, <1>2 DEF AtWork, Freeing
<1>4. /\ Goto(u, "clear") /\ free' = free \cup {p} /\ free_elem_num' = free_elem_num + 1
      /\ UNCHANGED <<lists, data, handle, pTimer, request>>
  BY <1>1 DEF cs_mem_free, Destroyed
<1> HIDE DEF p
<1>5. ASSUME pc'[u] = "clear" /\ Live' = timer_list'
      PROVE  AtWork(u)' /\ Handles' /\ Known' /\ Held'
  <2>1. Live' = Live /\ pTimer'[u] = p /\ client'[u] = client[u]
    BY <1>2, <1>4, <1>5 DEF p, lists, request
  <2>2. AtWork(u)'
    BY <1>2, <1>3, <1>4, <1>5, <2>1
       DEF AtWork, data, request, Stopping, Freeing, Starting
  <2>3. Handles'
    BY <1>1, <1>2, <1>4, <1>5, <2>1 DEF Handles, data, request, Freeing
  <2>4. Known'
    BY <1>1, <1>2, <1>4, <2>1 DEF Known, data
  <2>5. Held'
    BY <1>1, <1>2, <1>4, <2>1 DEF Held, InHand, p
  <2> QED
    BY <2>2, <2>3, <2>4, <2>5
<1>6. free' \subseteq Block /\ free_elem_num' = Cardinality(free')
  <2>1. IsFiniteSet(Block) /\ free \subseteq Block /\ free_elem_num = Cardinality(free)
    BY <1>2, TimerAssumption DEF Types
  <2>2. IsFiniteSet(free)
    BY <2>1, FS_Subset
  <2>3. Cardinality(free \cup {p}) = Cardinality(free) + 1
    BY <1>3, <2>2, FS_AddElement
  <2> QED
    BY <1>3, <1>4, <2>1, <2>3
<1>7. /\ expire_timer_list' = expire_timer_list /\ pTimer'[Timer] = pTimer[Timer]
      /\ pTimer' \in [Thread -> Block \cup {None}]
      /\ timer_list' \subseteq Block /\ timer_list' \cap free' = {}
      /\ stop_flag' \in [Block -> Flag] /\ owner' \in [Block -> Client]
      /\ handle' \in [Client -> Block \cup {None}]
      /\ client' \in [User -> Client] /\ renew' \in [User -> BOOLEAN]
  BY <1>2, <1>3, <1>4 DEF Types, Lists, Live, lists, data, request
<1>8. "clear" \in UserLabel
  BY DEF UserLabel
<1> QED
  BY <1>1, <1>4, <1>5, <1>6, <1>7, <1>8, UserMoves

\* A client's start puts the timer into the list.
LEMMA UserInserts ==
    ASSUME IInv, Disciplined, NEW u \in User, StartInsert(u)
    PROVE  IInv'
<1>1. pc[u] = "insert" /\ MayRun(u) /\ u # Timer
  BY TimerAssumption DEF StartInsert, At
<1>2. /\ Live = timer_list /\ AtWork(u) /\ \A v \in User : v = u
      /\ Types /\ Lists /\ Handles /\ Known /\ Held
  BY <1>1, TimerSleeps DEF IInv
<1> DEFINE p == pTimer[u]
<1>3. p \in Block /\ p \notin free /\ owner[p] = client[u] /\ handle[client[u]] = None
  BY <1>1, <1>2 DEF AtWork, Starting
<1>4. /\ Goto(u, "assign") /\ timer_list' = timer_list \cup {p}
      /\ UNCHANGED <<pool, expire_timer_list, data, handle, pTimer, request>>
  BY <1>1 DEF StartInsert, Started
<1> HIDE DEF p
<1>5. ASSUME pc'[u] = "assign" /\ Live' = timer_list'
      PROVE  AtWork(u)' /\ Handles' /\ Known' /\ Held'
  <2>1. Live' = Live \cup {p} /\ pTimer'[u] = p /\ client'[u] = client[u]
    BY <1>2, <1>4, <1>5 DEF p, request
  <2>2. AtWork(u)'
    BY <1>3, <1>4, <1>5, <2>1
       DEF AtWork, data, request, Stopping, Freeing, Starting
  <2>3. Handles'
    BY <1>1, <1>2, <1>4, <2>1 DEF Handles, data, request, Freeing
  <2>4. Known'
    <3> SUFFICES ASSUME NEW b \in Live', owner[b] \in Keeps
                 PROVE  handle[owner[b]] = b \/ (client[u] = owner[b] /\ p = b)
      BY <1>4, <1>5, <2>1 DEF Known, data, request
    <3>1. CASE b = p
      BY <1>3, <3>1
    <3>2. CASE b \in Live
      BY <1>1, <1>2, <3>2 DEF Known
    <3> QED
      BY <2>1, <3>1, <3>2
  <2>5. Held'
    BY <1>1, <1>2, <1>4, <2>1 DEF Held, InHand, pool, p
  <2> QED
    BY <2>2, <2>3, <2>4, <2>5
<1>6. /\ expire_timer_list' = expire_timer_list /\ pTimer'[Timer] = pTimer[Timer]
      /\ pTimer' \in [Thread -> Block \cup {None}]
      /\ timer_list' \subseteq Block /\ timer_list' \cap free' = {}
      /\ free' \subseteq Block /\ free_elem_num' = Cardinality(free')
      /\ stop_flag' \in [Block -> Flag] /\ owner' \in [Block -> Client]
      /\ handle' \in [Client -> Block \cup {None}]
      /\ client' \in [User -> Client] /\ renew' \in [User -> BOOLEAN]
  BY <1>2, <1>3, <1>4 DEF Types, Lists, Live, pool, data, request
<1>7. "assign" \in UserLabel
  BY DEF UserLabel
<1> QED
  BY <1>1, <1>4, <1>5, <1>6, <1>7, UserMoves

\* A client begins a procedure.
LEMMA UserRequests ==
    ASSUME IInv, Disciplined, NEW u \in User, NEW c \in Client, NEW again \in BOOLEAN,
           Request(u, c, again)
    PROVE  IInv'
<1>1. pc[u] = "idle" /\ MayRun(u)
  BY DEF Request, At
<1>2. /\ Live = timer_list /\ AtWork(u) /\ \A v \in User : v = u /\ u \in Thread
      /\ u # Timer /\ Types /\ Lists /\ Handles /\ Known /\ Held
  BY <1>1, TimerSleeps DEF IInv
<1>3. /\ client' = [client EXCEPT ![u] = c] /\ renew' = [renew EXCEPT ![u] = again]
      /\ UNCHANGED <<pool, lists, data, handle>>
  BY DEF Request
<1>4. client' \in [User -> Client] /\ renew' \in [User -> BOOLEAN] /\ client'[u] = c
  BY <1>2, <1>3 DEF Types
<1>5. /\ timer_list' \subseteq Block /\ timer_list' \cap free' = {}
      /\ expire_timer_list' = expire_timer_list
      /\ free' \subseteq Block /\ free_elem_num' = Cardinality(free')
      /\ stop_flag' \in [Block -> Flag] /\ owner' \in [Block -> Client]
      /\ handle' \in [Client -> Block \cup {None}]
  BY <1>2, <1>3 DEF Types, Lists, Live, pool, lists, data
<1>6. ASSUME NEW l \in {"stop", "create"}, Live' = timer_list', pc'[u] = l
      PROVE  Handles' /\ Known' /\ Held'
  <2>1. Live' = Live
    BY <1>2, <1>3, <1>6 DEF lists
  <2>2. Handles'
    BY <1>1, <1>2, <1>3, <2>1 DEF Handles, data, Freeing
  <2>3. Known'
    BY <1>1, <1>2, <1>3, <2>1 DEF Known, data
  <2>4. InHand(u) = {}
    BY <1>1 DEF InHand
  <2>5. Held'
    BY <1>2, <1>3, <2>1, <2>4 DEF Held, pool
  <2> QED
    BY <2>2, <2>3, <2>5
<1>7. CASE /\ handle[c] # None
           /\ pTimer' = [pTimer EXCEPT ![u] = handle[c]]
           /\ Goto(u, "stop")
  <2>1. handle[c] \in Live /\ owner[handle[c]] = c /\ c \in Keeps /\ handle[c] \in Block
    BY <1>1, <1>2, <1>7 DEF Handles, Freeing, Types
  <2>2. /\ pTimer' \in [Thread -> Block \cup {None}] /\ pTimer'[u] = handle[c]
        /\ pTimer'[Timer] = pTimer[Timer]
    BY <1>2, <1>7, <2>1 DEF Types, Thread
  <2>3. ASSUME Live' = timer_list', pc'[u] = "stop"
        PROVE  AtWork(u)'
    <3>1. Live' = Live
      BY <1>2, <1>3, <2>3 DEF lists
    <3> QED
      BY <1>3, <1>4, <2>1, <2>2, <2>3, <3>1
         DEF AtWork, data, Stopping, Freeing, Starting
  <2>4. "stop" \in UserLabel
    BY DEF UserLabel, Stopping
  <2> QED
    BY <1>1, <1>4, <1>5, <1>6, <1>7, <2>2, <2>3, <2>4, UserMoves
<1>8. CASE /\ handle[c] = None /\ again
           /\ Goto(u, "create")
           /\ UNCHANGED pTimer
  <2>1. /\ pTimer' \in [Thread -> Block \cup {None}]
        /\ pTimer'[Timer] = pTimer[Timer]
    BY <1>2, <1>8 DEF Types
  <2>2. ASSUME Live' = timer_list', pc'[u] = "create"
        PROVE  AtWork(u)'
    BY <1>3, <1>4, <1>8, <2>2 DEF AtWork, Stopping, Freeing, Starting
  <2>3. "create" \in UserLabel
    BY DEF UserLabel
  <2> QED
    BY <1>1, <1>4, <1>5, <1>6, <1>8, <2>1, <2>2, <2>3, UserMoves
<1> QED
  BY <1>7, <1>8 DEF Request

\* A client gives its handle up.
LEMMA UserForgets ==
    ASSUME IInv, Disciplined, NEW u \in User, Forget(u)
    PROVE  IInv'
<1>1. pc[u] = "clear" /\ MayRun(u)
  BY DEF Forget, At
<1>2. /\ Live = timer_list /\ AtWork(u) /\ \A v \in User : v = u
      /\ client[u] \in Client
      /\ Types /\ Lists /\ Handles /\ Known /\ Held
  BY <1>1, TimerSleeps DEF IInv
<1> DEFINE l == IF renew[u] THEN "create" ELSE "idle"
           k == client[u]
<1>3. /\ handle' = [handle EXCEPT ![k] = None] /\ Goto(u, l)
      /\ UNCHANGED <<pool, lists, data, pTimer, request>>
  BY DEF Forget
<1>4. l \in {"create", "idle"} /\ l \in UserLabel /\ k \in Client
  BY <1>2 DEF UserLabel
<1>5. /\ handle' \in [Client -> Block \cup {None}] /\ handle'[k] = None
      /\ \A c \in Client \ {k} : handle'[c] = handle[c]
  BY <1>2, <1>3, <1>4 DEF Types
<1>6. pTimer[u] = handle[k] /\ handle[k] \notin Live
  BY <1>1, <1>2 DEF AtWork
<1>k. client'[u] = k
  BY <1>3 DEF request
<1> HIDE DEF l, k
<1>7. ASSUME pc'[u] = l /\ Live' = timer_list'
      PROVE  AtWork(u)' /\ Handles' /\ Known' /\ Held'
  <2>1. Live' = Live
    BY <1>2, <1>3, <1>7 DEF lists
  <2>2. AtWork(u)'
    BY <1>4, <1>5, <1>7, <1>k DEF AtWork, Stopping, Freeing, Starting
  <2>3. Handles'
    <3> SUFFICES ASSUME NEW c \in Client, handle'[c] # None
                 PROVE  c \in Keeps /\ handle'[c] \in Live /\ owner[handle'[c]] = c
      BY <1>3, <2>1 DEF Handles, data
    <3>1. c # k /\ handle'[c] = handle[c]
      BY <1>5
    <3>2. \A v \in User : client[v] # c
      BY <1>2, <3>1 DEF k
    <3> QED
      BY <1>2, <3>1, <3>2 DEF Handles
  <2>4. Known'
    <3> SUFFICES ASSUME NEW b \in Live, owner[b] \in Keeps
                 PROVE  handle'[owner[b]] = b
      BY <1>3, <2>1 DEF Known, data
    <3>1. handle[owner[b]] = b
      BY <1>1, <1>2 DEF Known
    <3>2. owner[b] \in Client
      BY <1>2 DEF Types, Lists, Live
    <3> QED
      BY <1>5, <1>6, <3>1, <3>2
  <2>5. InHand(u) = {}
    BY <1>1 DEF InHand
  <2>6. Held'
    BY <1>2, <1>3, <2>1, <2>5 DEF Held, pool
  <2> QED
    BY <2>2, <2>3, <2>4, <2>6
<1>8. /\ expire_timer_list' = expire_timer_list /\ pTimer'[Timer] = pTimer[Timer]
      /\ pTimer' \in [Thread -> Block \cup {None}]
      /\ timer_list' \subseteq Block /\ timer_list' \cap free' = {}
      /\ free' \subseteq Block /\ free_elem_num' = Cardinality(free')
      /\ stop_flag' \in [Block -> Flag] /\ owner' \in [Block -> Client]
      /\ client' \in [User -> Client] /\ renew' \in [User -> BOOLEAN]
  BY <1>2, <1>3 DEF Types, Lists, Live, pool, lists, data, request
<1> QED
  BY <1>1, <1>3, <1>4, <1>5, <1>7, <1>8, UserMoves

\* A client allocates a block, or finds the pool empty.
LEMMA UserCreates ==
    ASSUME IInv, Disciplined, NEW u \in User, cs_create_timer(u)
    PROVE  IInv'
<1>1. pc[u] = "create" /\ MayRun(u) /\ UNCHANGED <<lists, handle, request>>
  BY DEF cs_create_timer, At
<1>2. /\ Live = timer_list /\ AtWork(u) /\ \A v \in User : v = u
      /\ client[u] \in Client /\ u \in Thread /\ u # Timer
      /\ Types /\ Lists /\ Handles /\ Known /\ Held
  BY <1>1, TimerSleeps DEF IInv
<1>3. handle[client[u]] = None /\ InHand(u) = {}
  BY <1>1, <1>2 DEF AtWork, InHand
<1>4. /\ expire_timer_list' = expire_timer_list
      /\ timer_list' = timer_list /\ timer_list' \subseteq Block
      /\ timer_list \cap free = {}
      /\ handle' = handle /\ handle' \in [Client -> Block \cup {None}]
      /\ client' = client
      /\ client' \in [User -> Client] /\ renew' \in [User -> BOOLEAN]
  BY <1>1, <1>2 DEF Types, Lists, Live, lists, request
<1>5. CASE /\ \E b \in free :
                /\ free' = free \ {b}
                /\ stop_flag' = [stop_flag EXCEPT ![b] = "NO_STOPPED"]
                /\ owner' = [owner EXCEPT ![b] = client[u]]
                /\ pTimer' = [pTimer EXCEPT ![u] = b]
           /\ free_elem_num' = free_elem_num - 1
           /\ Goto(u, "start")
  <2>1. PICK b \in free :
                /\ free' = free \ {b}
                /\ stop_flag' = [stop_flag EXCEPT ![b] = "NO_STOPPED"]
                /\ owner' = [owner EXCEPT ![b] = client[u]]
                /\ pTimer' = [pTimer EXCEPT ![u] = b]
    BY <1>5
  <2>2. b \in Block /\ b \notin timer_list
    BY <1>2, <1>4 DEF Types
  <2>3. /\ owner' \in [Block -> Client] /\ owner'[b] = client[u]
        /\ \A d \in Block \ {b} : owner'[d] = owner[d]
    BY <1>2, <2>1, <2>2 DEF Types
  <2>4. /\ pTimer' \in [Thread -> Block \cup {None}] /\ pTimer'[u] = b
        /\ pTimer'[Timer] = pTimer[Timer]
    BY <1>2, <2>1, <2>2 DEF Types, Thread
  <2>5. stop_flag' \in [Block -> Flag]
    BY <1>2, <2>1 DEF Types, Flag
  <2>6. free' \subseteq Block /\ free_elem_num' = Cardinality(free')
    <3>1. IsFiniteSet(Block) /\ free \subseteq Block /\ free_elem_num = Cardinality(free)
      BY <1>2, TimerAssumption DEF Types
    <3>2. IsFiniteSet(free)
      BY <3>1, FS_Subset
    <3>3. Cardinality(free \ {b}) = Cardinality(free) - 1
      BY <3>2, FS_RemoveElement
    <3> QED
      BY <1>5, <2>1, <3>1, <3>3
  <2>7. ASSUME pc'[u] = "start" /\ Live' = timer_list'
        PROVE  AtWork(u)' /\ Handles' /\ Known' /\ Held'
    <3>1. Live' = Live /\ b \notin Live /\ Live \subseteq Block
      BY <1>2, <1>4, <2>2, <2>7
    <3>2. AtWork(u)'
      BY <1>3, <1>4, <2>1, <2>2, <2>3, <2>4, <2>7, <3>1
         DEF AtWork, Stopping, Freeing, Starting
    <3>3. Handles'
      BY <1>1, <1>2, <1>4, <2>3, <3>1 DEF Handles, Freeing
    <3>4. Known'
      <4> SUFFICES ASSUME NEW d \in Live, owner[d] \in Keeps
                   PROVE  handle[owner[d]] = d
        BY <1>4, <2>3, <3>1 DEF Known
      <4> QED
        BY <1>1, <1>2 DEF Known
    <3>5. InHand(u)' = {b}
      BY <2>4, <2>7 DEF InHand
    <3>6. Held'
      BY <1>2, <1>3, <2>1, <3>1, <3>5 DEF Held
    <3> QED
      BY <3>2, <3>3, <3>4, <3>6
  <2>8. timer_list' \cap free' = {} /\ "start" \in UserLabel
    BY <1>4, <2>1 DEF UserLabel, Starting
  <2> QED
    BY <1>1, <1>4, <1>5, <2>3, <2>4, <2>5, <2>6, <2>7, <2>8, UserMoves
<1>6. CASE Goto(u, "idle") /\ UNCHANGED <<pool, data, pTimer>>
  <2>1. ASSUME pc'[u] = "idle" /\ Live' = timer_list'
        PROVE  AtWork(u)' /\ Handles' /\ Known' /\ Held'
    <3>1. Live' = Live
      BY <1>2, <1>4, <2>1
    <3>2. AtWork(u)'
      BY <2>1 DEF AtWork, Stopping, Freeing, Starting
    <3>3. Handles'
      BY <1>1, <1>2, <1>4, <1>6, <3>1 DEF Handles, data, Freeing
    <3>4. Known'
      BY <1>1, <1>2, <1>4, <1>6, <3>1 DEF Known, data
    <3>5. Held'
      BY <1>2, <1>3, <1>6, <3>1 DEF Held, pool
    <3> QED
      BY <3>2, <3>3, <3>4, <3>5
  <2>2. /\ pTimer' \in [Thread -> Block \cup {None}] /\ pTimer'[Timer] = pTimer[Timer]
        /\ timer_list' \cap free' = {}
        /\ free' \subseteq Block /\ free_elem_num' = Cardinality(free')
        /\ stop_flag' \in [Block -> Flag] /\ owner' \in [Block -> Client]
        /\ "idle" \in UserLabel
    BY <1>2, <1>4, <1>6 DEF Types, pool, data, UserLabel
  <2> QED
    BY <1>1, <1>4, <1>6, <2>1, <2>2, UserMoves
<1> QED
  BY <1>5, <1>6 DEF cs_create_timer

\* A client stores the handle of the timer it created.
LEMMA UserAssigns ==
    ASSUME IInv, Disciplined, NEW u \in User, Assign(u)
    PROVE  IInv'
<1>1. pc[u] = "assign" /\ MayRun(u)
  BY DEF Assign, At
<1>2. /\ Live = timer_list /\ AtWork(u) /\ \A v \in User : v = u
      /\ client[u] \in Client
      /\ Types /\ Lists /\ Handles /\ Known /\ Held
  BY <1>1, TimerSleeps DEF IInv
<1> DEFINE p == pTimer[u]
           k == client[u]
<1>3. /\ handle' = [handle EXCEPT ![k] = IF k \in Keeps THEN p ELSE None]
      /\ Goto(u, "idle")
      /\ UNCHANGED <<pool, lists, data, pTimer, request>>
  BY DEF Assign
<1>4. /\ k \in Client /\ p \in Block /\ handle[k] = None
      /\ k \in Keeps => p \in Live /\ owner[p] = k
  BY <1>1, <1>2 DEF AtWork, Disciplined
<1>5. /\ handle' \in [Client -> Block \cup {None}]
      /\ handle'[k] = IF k \in Keeps THEN p ELSE None
      /\ \A c \in Client \ {k} : handle'[c] = handle[c]
  BY <1>2, <1>3, <1>4 DEF Types
<1>6. InHand(u) = {}
  BY <1>1 DEF InHand
<1>k. \A v \in User : client[v] = k /\ pTimer[v] = p
  BY <1>2
<1> HIDE DEF p, k
<1>7. ASSUME pc'[u] = "idle" /\ Live' = timer_list'
      PROVE  AtWork(u)' /\ Handles' /\ Known' /\ Held'
  <2>1. Live' = Live
    BY <1>2, <1>3, <1>7 DEF lists
  <2>2. AtWork(u)'
    BY <1>7 DEF AtWork, Stopping, Freeing, Starting
  <2>3. Handles'
    <3> SUFFICES ASSUME NEW c \in Client, handle'[c] # None
                 PROVE  c \in Keeps /\ handle'[c] \in Live /\ owner[handle'[c]] = c
      BY <1>3, <2>1 DEF Handles, data
    <3>1. CASE c = k
      BY <1>4, <1>5, <3>1
    <3>2. CASE c # k
      BY <1>2, <1>5, <1>k, <3>2 DEF Handles
    <3> QED
      BY <3>1, <3>2
  <2>4. Known'
    <3> SUFFICES ASSUME NEW b \in Live, owner[b] \in Keeps
                 PROVE  handle'[owner[b]] = b
      BY <1>3, <2>1 DEF Known, data
    <3>1. handle[owner[b]] = b \/ (owner[b] = k /\ b = p)
      BY <1>2, <1>k DEF Known
    <3>2. owner[b] \in Client /\ b \in Block /\ b # None
      BY <1>2, TimerAssumption DEF Types, Lists, Live
    <3> QED
      BY <1>4, <1>5, <3>1, <3>2
  <2>5. Held'
    BY <1>2, <1>3, <1>6, <2>1 DEF Held, pool
  <2> QED
    BY <2>2, <2>3, <2>4, <2>5
<1>8. /\ expire_timer_list' = expire_timer_list /\ pTimer'[Timer] = pTimer[Timer]
      /\ pTimer' \in [Thread -> Block \cup {None}]
      /\ timer_list' \subseteq Block /\ timer_list' \cap free' = {}
      /\ free' \subseteq Block /\ free_elem_num' = Cardinality(free')
      /\ stop_flag' \in [Block -> Flag] /\ owner' \in [Block -> Client]
      /\ client' \in [User -> Client] /\ renew' \in [User -> BOOLEAN]
      /\ "idle" \in UserLabel
  BY <1>2, <1>3 DEF Types, Lists, Live, pool, lists, data, request, UserLabel
<1> QED
  BY <1>1, <1>3, <1>5, <1>7, <1>8, UserMoves

\* The clients' steps, together.
LEMMA UserStep ==
    ASSUME IInv, Disciplined, NEW u \in User, ProcedureStep(u)
    PROVE  IInv'
<1>1. MayRun(u)
  BY DEF ProcedureStep, StopFlag, StopLookup, StopDelete, DestroyFlag, DestroyLookup,
         cs_mem_free, StartFlag, StartLookup, StartInsert, At
<1>2. /\ Live = timer_list /\ AtWork(u) /\ u \in Thread /\ u # Timer
      /\ Types /\ Lists /\ stop_flag \in [Block -> Flag]
  BY <1>1, TimerSleeps DEF IInv, Types
<1> DEFINE p == pTimer[u]
<1>3. /\ pc[u] \in Stopping => p \in timer_list /\ p \in Block
      /\ pc[u] \in Freeing => p \notin timer_list /\ p \in Block
      /\ pc[u] \in Starting => p \notin timer_list /\ p \in Block
  BY <1>2 DEF AtWork, Types
<1>4. Stopping \subseteq UserLabel /\ Freeing \subseteq UserLabel
      /\ Starting \subseteq UserLabel
  BY DEF UserLabel
<1>5. CASE StopFlag(u)
  <2>1. /\ {pc[u], "stop_lookup"} \subseteq Stopping /\ Goto(u, "stop_lookup")
        /\ SetFlag(u, "STOPPED")
        /\ UNCHANGED <<pool, lists, owner, handle, pTimer, request>>
    BY <1>5 DEF StopFlag, At, Stopping
  <2>2. stop_flag' \in [Block -> Flag]
    BY <1>2, <1>3, <2>1, FlagType DEF Flag
  <2> QED
    BY <1>1, <1>4, <2>1, <2>2, UserGoes
<1>6. CASE StopLookup(u)
  <2>1. {pc[u], "stop_delete"} \subseteq Stopping
    BY <1>6 DEF StopLookup, At, Stopping
  <2>2. Goto(u, "stop_delete") /\ UNCHANGED <<pool, lists, data, handle, pTimer, request>>
    BY <1>3, <1>6, <2>1 DEF StopLookup
  <2> QED
    BY <1>1, <1>2, <1>4, <2>1, <2>2, UserGoes DEF data
<1>7. CASE StopDelete(u)
  BY <1>7, UserStopDelete
<1>8. CASE DestroyFlag(u)
  <2>1. /\ {pc[u], "destroy_lookup"} \subseteq Freeing /\ Goto(u, "destroy_lookup")
        /\ SetFlag(u, "DESTROYED")
        /\ UNCHANGED <<pool, lists, owner, handle, pTimer, request>>
    BY <1>8 DEF DestroyFlag, At, Freeing
  <2>2. stop_flag' \in [Block -> Flag]
    BY <1>2, <1>3, <2>1, FlagType DEF Flag
  <2> QED
    BY <1>1, <1>4, <2>1, <2>2, UserGoes
<1>9. CASE DestroyLookup(u)
  <2>1. {pc[u], "free"} \subseteq Freeing
    BY <1>9 DEF DestroyLookup, At, Freeing
  <2>2. Goto(u, "free") /\ UNCHANGED <<pool, lists, data, handle, pTimer, request>>
    BY <1>3, <1>9, <2>1 DEF DestroyLookup
  <2> QED
    BY <1>1, <1>2, <1>4, <2>1, <2>2, UserGoes DEF data
<1>10. CASE cs_mem_free(u)
  BY <1>10, UserFrees
<1>11. CASE StartFlag(u)
  <2>1. /\ {pc[u], "start_lookup"} \subseteq Starting /\ Goto(u, "start_lookup")
        /\ SetFlag(u, "NO_STOPPED")
        /\ UNCHANGED <<pool, lists, owner, handle, pTimer, request>>
    BY <1>11 DEF StartFlag, At, Starting
  <2>2. stop_flag' \in [Block -> Flag]
    BY <1>2, <1>3, <2>1, FlagType DEF Flag
  <2> QED
    BY <1>1, <1>4, <2>1, <2>2, UserGoes
<1>12. CASE StartLookup(u)
  <2>1. {pc[u], "insert"} \subseteq Starting
    BY <1>12 DEF StartLookup, At, Starting
  <2>2. Goto(u, "insert") /\ UNCHANGED <<pool, lists, data, handle, pTimer, request>>
    BY <1>3, <1>12, <2>1 DEF StartLookup
  <2> QED
    BY <1>1, <1>2, <1>4, <2>1, <2>2, UserGoes DEF data
<1>13. CASE StartInsert(u)
  BY <1>13, UserInserts
<1> QED
  BY <1>5, <1>6, <1>7, <1>8, <1>9, <1>10, <1>11, <1>12, <1>13 DEF ProcedureStep

(***************************************************************************)
(* The theorems                                                            *)
(***************************************************************************)
LEMMA TimerInvariant ==
    ASSUME Disciplined
    PROVE  Spec => []IInv
<1>1. Init => IInv
  <2> SUFFICES ASSUME Init PROVE IInv
    OBVIOUS
  <2>1. (CHOOSE c \in Client : TRUE) \in Client
    BY TimerAssumption
  <2>2. Types
    BY <2>1 DEF Init, Types, Flag, Label, TimerLabel, UserLabel, Thread
  <2>3. InHand(Timer) = {} /\ Live = {} /\ \A u \in User : pc[u] = "idle"
    BY DEF Init, InHand, Live, Thread
  <2>4. Lists
    BY <2>3 DEF Init, Lists, Freeing, Thread
  <2>5. Users
    BY <2>3 DEF Users, AtWork, Stopping, Freeing, Starting
  <2>6. Handles /\ Known /\ Held
    BY <2>3 DEF Init, Handles, Known, Held
  <2> QED
    BY <2>2, <2>4, <2>5, <2>6 DEF IInv
<1>2. IInv /\ [Next]_vars => IInv'
  <2> SUFFICES ASSUME IInv, [Next]_vars PROVE IInv'
    OBVIOUS
  <2>1. CASE \E t \in Thread : ProcedureStep(t)
    BY <2>1, TimerStep, UserStep DEF Thread
  <2>2. CASE \E u \in User : \/ \E c \in Client, again \in BOOLEAN : Request(u, c, again)
                             \/ Forget(u) \/ cs_create_timer(u) \/ Assign(u)
    BY <2>2, UserRequests, UserForgets, UserCreates, UserAssigns
  <2>3. CASE \/ \E S \in SUBSET timer_list : S # {} /\ Collect(S)
             \/ GetExpired \/ Callback \/ AppCallback
    BY <2>3, PassStep
  <2>4. CASE UNCHANGED vars
    <3>1. Types'
      BY <2>4 DEF vars, IInv, Types
    <3>2. InHand(Timer)' = InHand(Timer) /\ Live' = Live /\ Mine' = Mine
      BY <2>4 DEF vars, InHand, Live, Mine
    <3>3. Lists'
      BY <2>4, <3>2 DEF vars, IInv, Lists
    <3> QED
      BY <2>4, <3>1, <3>2, <3>3, Unseen DEF vars
  <2> QED
    BY <2>1, <2>2, <2>3, <2>4 DEF Next, ProcedureStep
<1> QED
  BY <1>1, <1>2, PTL DEF Spec

\* No block of the timer pool is freed twice, and the state has its type: the
\* count of free elements is the number of bits in the pool's bitmap.
THEOREM TimerPoolCount ==
    ASSUME Disciplined
    PROVE  Spec => []PoolCount
<1>1. IInv => PoolCount
  <2> SUFFICES ASSUME IInv PROVE PoolCount
    OBVIOUS
  <2>1. Types /\ IsFiniteSet(Block)
    BY TimerAssumption DEF IInv
  <2>2. /\ IsFiniteSet(free) /\ Cardinality(free) <= Cardinality(Block)
    BY <2>1, FS_Subset DEF Types
  <2>3. Cardinality(free) \in Nat /\ Cardinality(Block) \in Nat
    BY <2>1, <2>2, FS_CardinalityType
  <2>4. free_elem_num \in 0 .. Cardinality(Block)
    BY <2>1, <2>2, <2>3 DEF Types
  <2> QED
    BY <2>1, <2>4 DEF Types, PoolCount, TypeOK
<1> QED
  BY <1>1, TimerInvariant, PTL

\* The timer thread never has a freed block in a list or in its hands.
THEOREM TimersNotFreed ==
    ASSUME Disciplined
    PROVE  Spec => []NoFreedTimer
<1>1. IInv => NoFreedTimer
  BY DEF IInv, Lists, Live, NoFreedTimer
<1> QED
  BY <1>1, TimerInvariant, PTL

\* No timer is lost: an allocated block is listed, or a thread works on it.
THEOREM TimersAccounted ==
    ASSUME Disciplined
    PROVE  Spec => []Accounted
<1>1. IInv => Accounted
  BY DEF IInv, Held, Live, Accounted, Thread
<1> QED
  BY <1>1, TimerInvariant, PTL

\* After cs_timer_del has returned no callback of the deleted timer runs.
THEOREM DeletedTimersSilent ==
    ASSUME Disciplined
    PROVE  Spec => []DeletedIsSilent
<1>1. IInv => DeletedIsSilent
  <2> SUFFICES ASSUME IInv, pc[Timer] = "app", owner[Mine] \in Keeps
               PROVE  \/ handle[owner[Mine]] = Mine
                      \/ \E u \in User : Busy(u) /\ client[u] = owner[Mine]
    BY DEF DeletedIsSilent
  <2>1. Mine \in Live
    BY TimerHand DEF IInv
  <2> QED
    BY <2>1 DEF IInv, Known, Busy
<1> QED
  BY <1>1, TimerInvariant, PTL
=============================================================================
