--------------------------- MODULE McSnoopProofs ---------------------------
(***************************************************************************)
(* Proofs about McSnoop, for every number of ports, groups and sources,    *)
(* every capacity and interval, and reports of any length.                 *)
(*                                                                         *)
(* The theorems are at the end: SwitchFollowsTable, CountersExact,         *)
(* EntriesStayFormed, RecordsFollowTables, ForwardedServed, AnswersHeard,  *)
(* SilentHostsAgeOut.  All have the hypothesis LegalReports: no record of  *)
(* type IS_IN or ALLOW comes without sources.  mc_add_isin_record calls    *)
(* such a report illegal and then keeps its entry, see the findings in     *)
(* README.md.  They follow from one inductive invariant, Inv; the lemmas   *)
(* show, from the lists up to the actions, that every operation keeps it.  *)
(***************************************************************************)
EXTENDS McSnoop, FiniteSetTheorems, WellFoundedInduction, TLAPS

(***************************************************************************)
(* Source lists                                                            *)
(***************************************************************************)
\* Functions from some of S to T.
Partial(S, T) == UNION {[D -> T] : D \in SUBSET S}

\* What it takes to be one.
LEMMA PartialDef ==
    ASSUME NEW S, NEW T, NEW f
    PROVE  f \in Partial(S, T) <=> DOMAIN f \subseteq S /\ f \in [DOMAIN f -> T]
  BY DEF Partial

SrcList == Partial(Sources, Timers)

\* Timers stay within member_interval.
LEMMA TimerTypes ==
    /\ GMI \in 0..GMI /\ LMQT \in 0..GMI /\ 0 \in 0..GMI
    /\ \A age \in 0..GMI, flag \in Flags : Timer(age, flag) \in Timers
    /\ \A t \in Timers, age \in 0..GMI, flag \in Flags :
            mc_timer_set(t, age, flag) \in Timers
    /\ \A t \in Timers, static \in BOOLEAN : mc_timer_age(t, static) \in Timers
<1>1. GMI \in Nat /\ LMQT \in 0..GMI
  BY TimerAssumption
<1>2. \A age \in 0..GMI, flag \in Flags : Timer(age, flag) \in Timers
  BY DEF Timer, Timers
<1>3. \A t \in Timers : t.age \in 0..GMI /\ t.flag \in Flags
  BY DEF Timers
<1>4. \A t \in Timers, age \in 0..GMI, flag \in Flags :
            mc_timer_set(t, age, flag) \in Timers
  BY <1>2, <1>3 DEF mc_timer_set
<1>5. \A n \in 0..GMI : Less(n, 1) \in 0..GMI
  BY <1>1 DEF Less
<1>6. "STOP" \in Flags
  BY DEF Flags
<1>7. \A t \in Timers, static \in BOOLEAN : mc_timer_age(t, static) \in Timers
  BY <1>2, <1>3, <1>5, <1>6 DEF mc_timer_age
<1> QED
  BY <1>1, <1>2, <1>4, <1>7

\* Setting all timers of a list.
LEMMA SetTimers ==
    ASSUME NEW x \in SrcList, NEW age \in 0..GMI, NEW flag \in Flags
    PROVE  /\ mc_x_mc_timer_set(x, age, flag) \in SrcList
           /\ DOMAIN mc_x_mc_timer_set(x, age, flag) = DOMAIN x
<1>1. DOMAIN x \subseteq Sources /\ x \in [DOMAIN x -> Timers]
  BY PartialDef DEF SrcList
<1>2. \A s \in DOMAIN x : mc_timer_set(x[s], age, flag) \in Timers
  BY <1>1, TimerTypes
<1>3. /\ mc_x_mc_timer_set(x, age, flag) \in [DOMAIN x -> Timers]
      /\ DOMAIN mc_x_mc_timer_set(x, age, flag) = DOMAIN x
  BY <1>2 DEF mc_x_mc_timer_set
<1> QED
  BY <1>1, <1>3, PartialDef DEF SrcList

\* Sources of a record.
LEMMA RecordLists ==
    ASSUME NEW A \in SUBSET Sources
    PROVE  /\ FromRecord(A) \in SrcList /\ DOMAIN FromRecord(A) = A
           /\ Refreshed(A) \in SrcList /\ DOMAIN Refreshed(A) = A
<1>1. {"STOP", "START"} \subseteq Flags
  BY DEF Flags
<1>2. Timer(0, "STOP") \in Timers
  BY <1>1, TimerTypes
<1>3. FromRecord(A) \in [A -> Timers] /\ DOMAIN FromRecord(A) = A
  BY <1>2 DEF FromRecord
<1>4. FromRecord(A) \in SrcList
  BY <1>3, PartialDef DEF SrcList
<1> QED
  BY <1>1, <1>3, <1>4, TimerTypes, SetTimers DEF Refreshed

\* Parts of a list.
LEMMA ListParts ==
    ASSUME NEW x \in SrcList, NEW A
    PROVE  /\ mc_x_minus(x, A) \in SrcList /\ DOMAIN mc_x_minus(x, A) = DOMAIN x \ A
           /\ mc_x_intersection(x, A) \in SrcList
           /\ DOMAIN mc_x_intersection(x, A) = DOMAIN x \cap A
<1>1. DOMAIN x \subseteq Sources /\ x \in [DOMAIN x -> Timers]
  BY PartialDef DEF SrcList
<1>2. ASSUME NEW D \in SUBSET DOMAIN x
      PROVE  Restrict(x, D) \in SrcList /\ DOMAIN Restrict(x, D) = D
  <2>1. Restrict(x, D) \in [D -> Timers] /\ DOMAIN Restrict(x, D) = D
    BY <1>1 DEF Restrict
  <2> QED
    BY <1>1, <2>1, PartialDef DEF SrcList
<1>3. DOMAIN x \ A \in SUBSET DOMAIN x /\ DOMAIN x \cap A \in SUBSET DOMAIN x
  OBVIOUS
<1> QED
  BY <1>2, <1>3 DEF mc_x_minus, mc_x_intersection

\* Two lists together.
LEMMA ListUnion ==
    ASSUME NEW x \in SrcList, NEW y \in SrcList
    PROVE  /\ mc_x_union_subset(x, y) \in SrcList
           /\ DOMAIN mc_x_union_subset(x, y) = DOMAIN x \cup DOMAIN y
<1> DEFINE D == DOMAIN x \cup DOMAIN y
<1>1. /\ DOMAIN x \subseteq Sources /\ x \in [DOMAIN x -> Timers]
      /\ DOMAIN y \subseteq Sources /\ y \in [DOMAIN y -> Timers]
  BY PartialDef DEF SrcList
<1>2. \A t \in Timers : t.age \in 0..GMI /\ t.flag \in Flags
  BY DEF Timers
<1>3. ASSUME NEW s \in D
      PROVE  (IF s \notin DOMAIN x THEN y[s]
              ELSE IF s \in DOMAIN y THEN mc_timer_set(x[s], y[s].age, y[s].flag)
              ELSE x[s]) \in Timers
  BY <1>1, <1>2, <1>3, TimerTypes
<1>4. mc_x_union_subset(x, y) \in [D -> Timers] /\ DOMAIN mc_x_union_subset(x, y) = D
  BY <1>3 DEF mc_x_union_subset
<1> QED
  BY <1>1, <1>4, PartialDef DEF SrcList
(***************************************************************************)
(* Port groups                                                             *)
(***************************************************************************)
Entry == [filter_mode : {"INCLUDE", "EXCLUDE"}, src : SrcList, aged : SUBSET Sources,
          grp_timer : Timers, static : BOOLEAN, upd : UpdateTimes]

\* The entry n has these parts, and the others of e.
Parts(n, e, mode, x, y, t) ==
    /\ n \in Entry
    /\ n.filter_mode = mode /\ n.src = x /\ n.aged = y /\ n.grp_timer = t
    /\ n.static = e.static /\ n.upd = e.upd

\* The fields of an entry.
LEMMA EntryFields ==
    ASSUME NEW e \in Entry
    PROVE  /\ e.filter_mode \in {"INCLUDE", "EXCLUDE"} /\ e.src \in SrcList
           /\ e.aged \in SUBSET Sources /\ e.grp_timer \in Timers
           /\ e.static \in BOOLEAN /\ e.upd \in UpdateTimes
           /\ DOMAIN e.src \in SUBSET Sources
<1>1. e.src \in SrcList
  BY DEF Entry
<1>2. DOMAIN e.src \subseteq Sources
  BY <1>1, PartialDef DEF SrcList
<1> QED
  BY <1>2 DEF Entry

\* The lists of an entry are apart, and only in exclude mode sources are blocked.
Good(e) ==
    /\ e \in Entry
    /\ DOMAIN e.src \cap e.aged = {}
    /\ e.filter_mode = "INCLUDE" => e.aged = {}

Leave == {"FAST", "NON_FAST"}

\* A handler takes the entry e where the table says, and asks for an update if
\* that is elsewhere.
Does(e, type, A, leave, r) ==
    /\ r.update \in BOOLEAN
    /\ Good(r.new)
    /\ StateOf(r.new) = Table(StateOf(e), type, A, leave)
    /\ ~r.update => StateOf(r.new) = StateOf(e)
    /\ r.new.static = e.static /\ r.new.upd = e.upd
    /\ type = "IS_EX" => r.new.grp_timer = Timer(GMI, "START")

\* Timers that handlers set.
LEMMA HandlerTimers ==
    ASSUME NEW t \in Timers
    PROVE  /\ mc_timer_set(t, GMI, "START") \in Timers
           /\ mc_timer_set(t, GMI, "START") = Timer(GMI, "START")
           /\ mc_timer_set(t, LMQT, "DELAY_STOP") \in Timers
           /\ mc_timer_set(t, 0, "STOP") \in Timers
<1>1. {"STOP", "START", "DELAY_STOP"} \subseteq Flags
  BY DEF Flags
<1> QED
  BY <1>1, TimerTypes DEF mc_timer_set

\* The state of an entry, as the tables see it.
LEMMA StateParts ==
    ASSUME NEW e
    PROVE  /\ StateOf(e).mode = e.filter_mode /\ StateOf(e).x = DOMAIN e.src
           /\ StateOf(e).y = e.aged
  BY DEF StateOf, State

\* IS_IN and ALLOW.
LEMMA IsinDoes ==
    ASSUME NEW e, Good(e), NEW A \in SUBSET Sources, NEW leave \in Leave,
           NEW type \in {"IS_IN", "ALLOW"}
    PROVE  Does(e, type, A, leave, mc_record_isin_handle(e, A))
<1> DEFINE r == mc_record_isin_handle(e, A)
           x == DOMAIN e.src
<1>1. e \in Entry /\ x \cap e.aged = {} /\ (e.filter_mode = "INCLUDE" => e.aged = {})
  BY DEF Good
<1>2. /\ e.src \in SrcList /\ e.aged \in SUBSET Sources /\ x \in SUBSET Sources
      /\ e.filter_mode \in {"INCLUDE", "EXCLUDE"} /\ e.grp_timer \in Timers
  BY <1>1, EntryFields
<1>3. CASE e.filter_mode = "INCLUDE"
  <2> DEFINE X == mc_x_union_subset(e.src, Refreshed(A))
             Y == e.aged
             t == e.grp_timer
  <2>1. r.new = [e EXCEPT !.src = X]
    BY <1>3 DEF mc_record_isin_handle, Changed
  <2>2. r.update \in BOOLEAN /\ (~r.update => A \subseteq x)
    BY <1>1, <1>3 DEF mc_record_isin_handle, Changed
  <2>3. X \in SrcList /\ DOMAIN X = x \cup A
    <3>1. Refreshed(A) \in SrcList /\ DOMAIN Refreshed(A) = A
      BY RecordLists
    <3> QED
      BY <1>2, <3>1, ListUnion
  <2>4. t \in Timers
    BY <1>2
  <2> HIDE DEF r, X, t
  <2>5. Y \in SUBSET Sources /\ DOMAIN X \cap Y = {} /\ Y = {}
    BY <1>1, <1>2, <1>3, <2>3
  <2>6. ~r.update => DOMAIN X = x /\ Y = e.aged /\ e.filter_mode = "INCLUDE"
    BY <1>1, <1>3, <2>2, <2>3, <2>5
  <2>7. Table(StateOf(e), type, A, leave) = State("INCLUDE", x \cup A, {})
    BY <1>3, StateParts, Zenon DEF Table
  <2> HIDE DEF Y
  <2>8. Parts(r.new, e, "INCLUDE", X, Y, t)
    BY <1>1, <1>3, <2>1, <2>3, <2>4, <2>5 DEF Parts, Entry, t, Y
  <2>9. Does(e, type, A, leave, r)
    <3>1. Good(r.new)
      BY <2>5, <2>8 DEF Good, Parts
    <3>2. StateOf(r.new) = State("INCLUDE", DOMAIN X, Y)
      BY <2>8 DEF StateOf, Parts
    <3>3. StateOf(r.new) = Table(StateOf(e), type, A, leave)
      BY <2>3, <2>5, <2>7, <3>2
    <3>4. ~r.update => StateOf(r.new) = StateOf(e)
      BY <2>6, <3>2 DEF StateOf
    <3> QED
      BY <2>2, <2>4, <2>8, <3>1, <3>3, <3>4 DEF Does, Parts
  <2> QED
    BY <2>9 DEF r
<1>4. CASE e.filter_mode = "EXCLUDE"
  <2> DEFINE X == mc_x_union_subset(e.src, Refreshed(A))
             Y == e.aged \ A
             t == e.grp_timer
  <2>1. r.new = [e EXCEPT !.src = X, !.aged = Y]
    BY <1>4 DEF mc_record_isin_handle, Changed
  <2>2. r.update \in BOOLEAN /\ (~r.update => A \subseteq x /\ e.aged \cap A = {})
    BY <1>1, <1>4 DEF mc_record_isin_handle, Changed
  <2>3. X \in SrcList /\ DOMAIN X = x \cup A
    <3>1. Refreshed(A) \in SrcList /\ DOMAIN Refreshed(A) = A
      BY RecordLists
    <3> QED
      BY <1>2, <3>1, ListUnion
  <2>4. t \in Timers
    BY <1>2
  <2> HIDE DEF r, X, t
  <2>5. Y \in SUBSET Sources /\ DOMAIN X \cap Y = {} /\ Y = e.aged \ A
    BY <1>1, <1>2, <1>4, <2>3
  <2>6. ~r.update => DOMAIN X = x /\ Y = e.aged /\ e.filter_mode = "EXCLUDE"
    BY <1>1, <1>4, <2>2, <2>3, <2>5
  <2>7. Table(StateOf(e), type, A, leave) = State("EXCLUDE", x \cup A, e.aged \ A)
    BY <1>4, StateParts, Zenon DEF Table
  <2> HIDE DEF Y
  <2>8. Parts(r.new, e, "EXCLUDE", X, Y, t)
    BY <1>1, <1>4, <2>1, <2>3, <2>4, <2>5 DEF Parts, Entry, t
  <2>9. Does(e, type, A, leave, r)
    <3>1. Good(r.new)
      BY <2>5, <2>8 DEF Good, Parts
    <3>2. StateOf(r.new) = State("EXCLUDE", DOMAIN X, Y)
      BY <2>8 DEF StateOf, Parts
    <3>3. StateOf(r.new) = Table(StateOf(e), type, A, leave)
      BY <2>3, <2>5, <2>7, <3>2
    <3>4. ~r.update => StateOf(r.new) = StateOf(e)
      BY <2>6, <3>2 DEF StateOf
    <3> QED
      BY <2>2, <2>4, <2>8, <3>1, <3>3, <3>4 DEF Does, Parts
  <2> QED
    BY <2>9 DEF r
<1> QED
  BY <1>2, <1>3, <1>4 DEF Leave

\* IS_EX.
LEMMA IsexDoes ==
    ASSUME NEW e, Good(e), NEW A \in SUBSET Sources, NEW leave \in Leave
    PROVE  Does(e, "IS_EX", A, leave, mc_record_isex_handle(e, A))
<1> DEFINE r == mc_record_isex_handle(e, A)
           x == DOMAIN e.src
           type == "IS_EX"
<1>1. e \in Entry /\ x \cap e.aged = {} /\ (e.filter_mode = "INCLUDE" => e.aged = {})
  BY DEF Good
<1>2. /\ e.src \in SrcList /\ e.aged \in SUBSET Sources /\ x \in SUBSET Sources
      /\ e.filter_mode \in {"INCLUDE", "EXCLUDE"} /\ e.grp_timer \in Timers
  BY <1>1, EntryFields
<1>3. CASE e.filter_mode = "INCLUDE"
  <2> DEFINE X == mc_x_intersection(e.src, A)
             Y == e.aged \cup (A \ x)
             t == mc_timer_set(e.grp_timer, GMI, "START")
  <2>1. r.new = [e EXCEPT !.src = X, !.aged = Y, !.filter_mode = "EXCLUDE", !.grp_timer = t]
    BY <1>3 DEF mc_record_isex_handle, Changed
  <2>2. r.update \in BOOLEAN /\ (~r.update => FALSE)
    BY <1>1, <1>3 DEF mc_record_isex_handle, Changed
  <2>3. X \in SrcList /\ DOMAIN X = x \cap A
    BY <1>2, ListParts
  <2>4. t \in Timers /\ t = Timer(GMI, "START")
    BY <1>2, HandlerTimers
  <2> HIDE DEF r, X, t
  <2>5. Y \in SUBSET Sources /\ DOMAIN X \cap Y = {} /\ Y = A \ x
    BY <1>1, <1>2, <1>3, <2>3
  <2>6. ~r.update => DOMAIN X = x /\ Y = e.aged /\ e.filter_mode = "EXCLUDE"
    BY <1>1, <1>3, <2>2, <2>3, <2>5
  <2>7. Table(StateOf(e), type, A, leave) = State("EXCLUDE", x \cap A, A \ x)
    BY <1>3, StateParts, Zenon DEF Table
  <2> HIDE DEF Y
  <2>8. Parts(r.new, e, "EXCLUDE", X, Y, t)
    BY <1>1, <1>3, <2>1, <2>3, <2>4, <2>5 DEF Parts, Entry
  <2>9. Does(e, type, A, leave, r)
    <3>1. Good(r.new)
      BY <2>5, <2>8 DEF Good, Parts
    <3>2. StateOf(r.new) = State("EXCLUDE", DOMAIN X, Y)
      BY <2>8 DEF StateOf, Parts
    <3>3. StateOf(r.new) = Table(StateOf(e), type, A, leave)
      BY <2>3, <2>5, <2>7, <3>2
    <3>4. ~r.update => StateOf(r.new) = StateOf(e)
      BY <2>6, <3>2 DEF StateOf
    <3> QED
      BY <2>2, <2>4, <2>8, <3>1, <3>3, <3>4 DEF Does, Parts
  <2> QED
    BY <2>9 DEF r
<1>4. CASE e.filter_mode = "EXCLUDE"
  <2> DEFINE X == mc_x_union_subset(mc_x_intersection(e.src, A), Refreshed((A \ e.aged) \ x))
             Y == e.aged \cap A
             t == mc_timer_set(e.grp_timer, GMI, "START")
  <2>1. r.new = [e EXCEPT !.src = X, !.aged = Y, !.filter_mode = "EXCLUDE", !.grp_timer = t]
    BY <1>4 DEF mc_record_isex_handle, Changed
  <2>2. r.update \in BOOLEAN /\ (~r.update => DOMAIN X = x /\ Y = e.aged)
    BY <1>1, <1>4 DEF mc_record_isex_handle, Changed
  <2>3. X \in SrcList /\ DOMAIN X = A \ e.aged
    <3> DEFINE R == (A \ e.aged) \ x
    <3>1. Refreshed(R) \in SrcList /\ DOMAIN Refreshed(R) = R
      <4>1. R \in SUBSET Sources
        OBVIOUS
      <4> QED
        BY <4>1, RecordLists
    <3>2. /\ mc_x_intersection(e.src, A) \in SrcList
          /\ DOMAIN mc_x_intersection(e.src, A) = x \cap A
      BY <1>2, ListParts
    <3>3. X \in SrcList /\ DOMAIN X = (x \cap A) \cup R
      BY <3>1, <3>2, ListUnion
    <3> QED
      BY <1>1, <3>3
  <2>4. t \in Timers /\ t = Timer(GMI, "START")
    BY <1>2, HandlerTimers
  <2> HIDE DEF r, X, t
  <2>5. Y \in SUBSET Sources /\ DOMAIN X \cap Y = {} /\ Y = e.aged \cap A
    BY <1>1, <1>2, <1>4, <2>3
  <2>6. ~r.update => DOMAIN X = x /\ Y = e.aged /\ e.filter_mode = "EXCLUDE"
    BY <1>1, <1>4, <2>2, <2>3, <2>5
  <2>7. Table(StateOf(e), type, A, leave) = State("EXCLUDE", A \ e.aged, e.aged \cap A)
    BY <1>4, StateParts, Zenon DEF Table
  <2> HIDE DEF Y
  <2>8. Parts(r.new, e, "EXCLUDE", X, Y, t)
    BY <1>1, <1>4, <2>1, <2>3, <2>4, <2>5 DEF Parts, Entry
  <2>9. Does(e, type, A, leave, r)
    <3>1. Good(r.new)
      BY <2>5, <2>8 DEF Good, Parts
    <3>2. StateOf(r.new) = State("EXCLUDE", DOMAIN X, Y)
      BY <2>8 DEF StateOf, Parts
    <3>3. StateOf(r.new) = Table(StateOf(e), type, A, leave)
      BY <2>3, <2>5, <2>7, <3>2
    <3>4. ~r.update => StateOf(r.new) = StateOf(e)
      BY <2>6, <3>2 DEF StateOf
    <3> QED
      BY <2>2, <2>4, <2>8, <3>1, <3>3, <3>4 DEF Does, Parts
  <2> QED
    BY <2>9 DEF r
<1> QED
  BY <1>2, <1>3, <1>4 DEF Leave

\* TO_IN.
LEMMA ToinDoes ==
    ASSUME NEW e, Good(e), NEW A \in SUBSET Sources, NEW leave \in Leave
    PROVE  Does(e, "TO_IN", A, leave, mc_record_toin_handle(e, A, leave))
<1> DEFINE r == mc_record_toin_handle(e, A, leave)
           x == DOMAIN e.src
           type == "TO_IN"
<1>1. e \in Entry /\ x \cap e.aged = {} /\ (e.filter_mode = "INCLUDE" => e.aged = {})
  BY DEF Good
<1>2. /\ e.src \in SrcList /\ e.aged \in SUBSET Sources /\ x \in SUBSET Sources
      /\ e.filter_mode \in {"INCLUDE", "EXCLUDE"} /\ e.grp_timer \in Timers
  BY <1>1, EntryFields
<1>3. CASE e.filter_mode = "INCLUDE" /\ leave = "NON_FAST"
  <2> DEFINE X == mc_x_union_subset(mc_x_mc_timer_set(e.src, LMQT, "DELAY_STOP"), Refreshed(A))
             Y == e.aged
             t == e.grp_timer
  <2>1. r.new = [e EXCEPT !.src = X]
    BY <1>3 DEF mc_record_toin_handle, Changed
  <2>2. r.update \in BOOLEAN /\ (~r.update => A \subseteq x)
    BY <1>1, <1>3 DEF mc_record_toin_handle, Changed
  <2>3. X \in SrcList /\ DOMAIN X = x \cup A
    <3>1. Refreshed(A) \in SrcList /\ DOMAIN Refreshed(A) = A
      BY RecordLists
    <3>2. /\ mc_x_mc_timer_set(e.src, LMQT, "DELAY_STOP") \in SrcList
          /\ DOMAIN mc_x_mc_timer_set(e.src, LMQT, "DELAY_STOP") = x
      BY <1>2, SetTimers, TimerTypes DEF Flags
    <3> QED
      BY <3>1, <3>2, ListUnion
  <2>4. t \in Timers
    BY <1>2
  <2> HIDE DEF r, X, t
  <2>5. Y \in SUBSET Sources /\ DOMAIN X \cap Y = {} /\ Y = {}
    BY <1>1, <1>2, <1>3, <2>3
  <2>6. ~r.update => DOMAIN X = x /\ Y = e.aged /\ e.filter_mode = "INCLUDE"
    BY <1>1, <1>3, <2>2, <2>3, <2>5
  <2>7. Table(StateOf(e), type, A, leave) = State("INCLUDE", x \cup A, {})
    BY <1>3, StateParts, Zenon DEF Table
  <2> HIDE DEF Y
  <2>8. Parts(r.new, e, "INCLUDE", X, Y, t)
    BY <1>1, <1>3, <2>1, <2>3, <2>4, <2>5 DEF Parts, Entry, t, Y
  <2>9. Does(e, type, A, leave, r)
    <3>1. Good(r.new)
      BY <2>5, <2>8 DEF Good, Parts
    <3>2. StateOf(r.new) = State("INCLUDE", DOMAIN X, Y)
      BY <2>8 DEF StateOf, Parts
    <3>3. StateOf(r.new) = Table(StateOf(e), type, A, leave)
      BY <2>3, <2>5, <2>7, <3>2
    <3>4. ~r.update => StateOf(r.new) = StateOf(e)
      BY <2>6, <3>2 DEF StateOf
    <3> QED
      BY <2>2, <2>4, <2>8, <3>1, <3>3, <3>4 DEF Does, Parts
  <2> QED
    BY <2>9 DEF r
<1>4. CASE e.filter_mode = "INCLUDE" /\ leave = "FAST"
  <2> DEFINE X == Refreshed(A)
             Y == e.aged
             t == e.grp_timer
  <2>1. r.new = [e EXCEPT !.src = X]
    BY <1>4 DEF mc_record_toin_handle, Changed
  <2>2. r.update \in BOOLEAN /\ (~r.update => x = A)
    BY <1>1, <1>4 DEF mc_record_toin_handle, Changed
  <2>3. X \in SrcList /\ DOMAIN X = A
    BY RecordLists
  <2>4. t \in Timers
    BY <1>2
  <2> HIDE DEF r, X, t
  <2>5. Y \in SUBSET Sources /\ DOMAIN X \cap Y = {} /\ Y = {}
    BY <1>1, <1>2, <1>4, <2>3
  <2>6. ~r.update => DOMAIN X = x /\ Y = e.aged /\ e.filter_mode = "INCLUDE"
    BY <1>1, <1>4, <2>2, <2>3, <2>5
  <2>7. Table(StateOf(e), type, A, leave) = State("INCLUDE", A, {})
    BY <1>4, StateParts, Zenon DEF Table
  <2> HIDE DEF Y
  <2>8. Parts(r.new, e, "INCLUDE", X, Y, t)
    BY <1>1, <1>4, <2>1, <2>3, <2>4, <2>5 DEF Parts, Entry, t, Y
  <2>9. Does(e, type, A, leave, r)
    <3>1. Good(r.new)
      BY <2>5, <2>8 DEF Good, Parts
    <3>2. StateOf(r.new) = State("INCLUDE", DOMAIN X, Y)
      BY <2>8 DEF StateOf, Parts
    <3>3. StateOf(r.new) = Table(StateOf(e), type, A, leave)
      BY <2>3, <2>5, <2>7, <3>2
    <3>4. ~r.update => StateOf(r.new) = StateOf(e)
      BY <2>6, <3>2 DEF StateOf
    <3> QED
      BY <2>2, <2>4, <2>8, <3>1, <3>3, <3>4 DEF Does, Parts
  <2> QED
    BY <2>9 DEF r
<1>5. CASE e.filter_mode = "EXCLUDE" /\ leave = "NON_FAST"
  <2> DEFINE X == mc_x_union_subset(mc_x_mc_timer_set(e.src, LMQT, "DELAY_STOP"), Refreshed(A))
             Y == e.aged \ A
             t == mc_timer_set(e.grp_timer, LMQT, "DELAY_STOP")
  <2>1. r.new = [e EXCEPT !.src = X, !.aged = Y, !.grp_timer = t]
    BY <1>5 DEF mc_record_toin_handle, Changed
  <2>2. r.update \in BOOLEAN /\ (~r.update => A \subseteq x /\ e.aged \cap A = {})
    BY <1>1, <1>5 DEF mc_record_toin_handle, Changed
  <2>3. X \in SrcList /\ DOMAIN X = x \cup A
    <3>1. Refreshed(A) \in SrcList /\ DOMAIN Refreshed(A) = A
      BY RecordLists
    <3>2. /\ mc_x_mc_timer_set(e.src, LMQT, "DELAY_STOP") \in SrcList
          /\ DOMAIN mc_x_mc_timer_set(e.src, LMQT, "DELAY_STOP") = x
      BY <1>2, SetTimers, TimerTypes DEF Flags
    <3> QED
      BY <3>1, <3>2, ListUnion
  <2>4. t \in Timers
    BY <1>2, HandlerTimers
  <2> HIDE DEF r, X, t
  <2>5. Y \in SUBSET Sources /\ DOMAIN X \cap Y = {} /\ Y = e.aged \ A
    BY <1>1, <1>2, <1>5, <2>3
  <2>6. ~r.update => DOMAIN X = x /\ Y = e.aged /\ e.filter_mode = "EXCLUDE"
    BY <1>1, <1>5, <2>2, <2>3, <2>5
  <2>7. Table(StateOf(e), type, A, leave) = State("EXCLUDE", x \cup A, e.aged \ A)
    BY <1>5, StateParts, Zenon DEF Table
  <2> HIDE DEF Y
  <2>8. Parts(r.new, e, "EXCLUDE", X, Y, t)
    BY <1>1, <1>5, <2>1, <2>3, <2>4, <2>5 DEF Parts, Entry
  <2>9. Does(e, type, A, leave, r)
    <3>1. Good(r.new)
      BY <2>5, <2>8 DEF Good, Parts
    <3>2. StateOf(r.new) = State("EXCLUDE", DOMAIN X, Y)
      BY <2>8 DEF StateOf, Parts
    <3>3. StateOf(r.new) = Table(StateOf(e), type, A, leave)
      BY <2>3, <2>5, <2>7, <3>2
    <3>4. ~r.update => StateOf(r.new) = StateOf(e)
      BY <2>6, <3>2 DEF StateOf
    <3> QED
      BY <2>2, <2>4, <2>8, <3>1, <3>3, <3>4 DEF Does, Parts
  <2> QED
    BY <2>9 DEF r
<1>6. CASE e.filter_mode = "EXCLUDE" /\ leave = "FAST"
  <2> DEFINE X == Refreshed(A)
             Y == {}
             t == mc_timer_set(e.grp_timer, 0, "STOP")
  <2>1. r.new = [e EXCEPT !.src = X, !.aged = Y, !.filter_mode = "INCLUDE", !.grp_timer = t]
    BY <1>6 DEF mc_record_toin_handle, Changed
  <2>2. r.update \in BOOLEAN /\ (~r.update => FALSE)
    BY <1>1, <1>6 DEF mc_record_toin_handle, Changed
  <2>3. X \in SrcList /\ DOMAIN X = A
    BY RecordLists
  <2>4. t \in Timers
    BY <1>2, HandlerTimers
  <2> HIDE DEF r, X, t
  <2>5. Y \in SUBSET Sources /\ DOMAIN X \cap Y = {} /\ Y = {}
    BY <1>1, <1>2, <1>6, <2>3
  <2>6. ~r.update => DOMAIN X = x /\ Y = e.aged /\ e.filter_mode = "INCLUDE"
    BY <1>1, <1>6, <2>2, <2>3, <2>5
  <2>7. Table(StateOf(e), type, A, leave) = State("INCLUDE", A, {})
    BY <1>6, StateParts, Zenon DEF Table
  <2> HIDE DEF Y
  <2>8. Parts(r.new, e, "INCLUDE", X, Y, t)
    BY <1>1, <1>6, <2>1, <2>3, <2>4, <2>5 DEF Parts, Entry
  <2>9. Does(e, type, A, leave, r)
    <3>1. Good(r.new)
      BY <2>5, <2>8 DEF Good, Parts
    <3>2. StateOf(r.new) = State("INCLUDE", DOMAIN X, Y)
      BY <2>8 DEF StateOf, Parts
    <3>3. StateOf(r.new) = Table(StateOf(e), type, A, leave)
      BY <2>3, <2>5, <2>7, <3>2
    <3>4. ~r.update => StateOf(r.new) = StateOf(e)
      BY <2>6, <3>2 DEF StateOf
    <3> QED
      BY <2>2, <2>4, <2>8, <3>1, <3>3, <3>4 DEF Does, Parts
  <2> QED
    BY <2>9 DEF r
<1> QED
  BY <1>2, <1>3, <1>4, <1>5, <1>6 DEF Leave

\* TO_EX.
LEMMA ToexDoes ==
    ASSUME NEW e, Good(e), NEW A \in SUBSET Sources, NEW leave \in Leave
    PROVE  Does(e, "TO_EX", A, leave, mc_record_toex_handle(e, A, leave))
<1> DEFINE r == mc_record_toex_handle(e, A, leave)
           x == DOMAIN e.src
           type == "TO_EX"
<1>1. e \in Entry /\ x \cap e.aged = {} /\ (e.filter_mode = "INCLUDE" => e.aged = {})
  BY DEF Good
<1>2. /\ e.src \in SrcList /\ e.aged \in SUBSET Sources /\ x \in SUBSET Sources
      /\ e.filter_mode \in {"INCLUDE", "EXCLUDE"} /\ e.grp_timer \in Timers
  BY <1>1, EntryFields
<1>3. CASE e.filter_mode = "INCLUDE" /\ leave = "NON_FAST"
  <2> DEFINE X == mc_x_mc_timer_set(mc_x_intersection(e.src, A), LMQT, "DELAY_STOP")
             Y == e.aged \cup (A \ x)
             t == mc_timer_set(e.grp_timer, GMI, "START")
  <2>1. r.new = [[e EXCEPT !.filter_mode = "EXCLUDE", !.grp_timer = t] EXCEPT !.src = X, !.aged = Y]
    BY <1>3 DEF mc_record_toex_handle, Changed
  <2>2. r.update \in BOOLEAN /\ (~r.update => FALSE)
    BY <1>1, <1>3 DEF mc_record_toex_handle, Changed
  <2>3. X \in SrcList /\ DOMAIN X = x \cap A
    <3> DEFINE l == mc_x_intersection(e.src, A)
    <3>1. l \in SrcList /\ DOMAIN l = x \cap A
      BY <1>2, ListParts
    <3> HIDE DEF l
    <3>2. X = mc_x_mc_timer_set(l, LMQT, "DELAY_STOP")
      BY DEF l
    <3> HIDE DEF X
    <3> QED
      BY <3>1, <3>2, SetTimers, TimerTypes DEF Flags
  <2>4. t \in Timers /\ t = Timer(GMI, "START")
    BY <1>2, HandlerTimers
  <2> HIDE DEF r, X, t
  <2>5. Y \in SUBSET Sources /\ DOMAIN X \cap Y = {} /\ Y = A \ x
    BY <1>1, <1>2, <1>3, <2>3
  <2>6. ~r.update => DOMAIN X = x /\ Y = e.aged /\ e.filter_mode = "EXCLUDE"
    BY <1>1, <1>3, <2>2, <2>3, <2>5
  <2>7. Table(StateOf(e), type, A, leave) = State("EXCLUDE", x \cap A, A \ x)
    BY <1>3, StateParts, Zenon DEF Table
  <2> HIDE DEF Y
  <2>8. Parts(r.new, e, "EXCLUDE", X, Y, t)
    BY <1>1, <1>3, <2>1, <2>3, <2>4, <2>5 DEF Parts, Entry
  <2>9. Does(e, type, A, leave, r)
    <3>1. Good(r.new)
      BY <2>5, <2>8 DEF Good, Parts
    <3>2. StateOf(r.new) = State("EXCLUDE", DOMAIN X, Y)
      BY <2>8 DEF StateOf, Parts
    <3>3. StateOf(r.new) = Table(StateOf(e), type, A, leave)
      BY <2>3, <2>5, <2>7, <3>2
    <3>4. ~r.update => StateOf(r.new) = StateOf(e)
      BY <2>6, <3>2 DEF StateOf
    <3> QED
      BY <2>2, <2>4, <2>8, <3>1, <3>3, <3>4 DEF Does, Parts
  <2> QED
    BY <2>9 DEF r
<1>4. CASE e.filter_mode = "INCLUDE" /\ leave = "FAST"
  <2> DEFINE X == <<>>
             Y == A
             t == mc_timer_set(e.grp_timer, GMI, "START")
  <2>1. r.new = [[e EXCEPT !.filter_mode = "EXCLUDE", !.grp_timer = t] EXCEPT !.src = X, !.aged = Y]
    BY <1>4 DEF mc_record_toex_handle, Changed
  <2>2. r.update \in BOOLEAN /\ (~r.update => FALSE)
    BY <1>1, <1>4 DEF mc_record_toex_handle, Changed
  <2>3. X \in SrcList /\ DOMAIN X = {}
    <3>1. X \in [{} -> Timers] /\ DOMAIN X = {}
      OBVIOUS
    <3> QED
      BY <3>1, PartialDef DEF SrcList
  <2>4. t \in Timers /\ t = Timer(GMI, "START")
    BY <1>2, HandlerTimers
  <2> HIDE DEF r, X, t
  <2>5. Y \in SUBSET Sources /\ DOMAIN X \cap Y = {} /\ Y = A
    BY <1>1, <1>2, <1>4, <2>3
  <2>6. ~r.update => DOMAIN X = x /\ Y = e.aged /\ e.filter_mode = "EXCLUDE"
    BY <1>1, <1>4, <2>2, <2>3, <2>5
  <2>7. Table(StateOf(e), type, A, leave) = State("EXCLUDE", {}, A)
    BY <1>4, StateParts, Zenon DEF Table
  <2> HIDE DEF Y
  <2>8. Parts(r.new, e, "EXCLUDE", X, Y, t)
    BY <1>1, <1>4, <2>1, <2>3, <2>4, <2>5 DEF Parts, Entry
  <2>9. Does(e, type, A, leave, r)
    <3>1. Good(r.new)
      BY <2>5, <2>8 DEF Good, Parts
    <3>2. StateOf(r.new) = State("EXCLUDE", DOMAIN X, Y)
      BY <2>8 DEF StateOf, Parts
    <3>3. StateOf(r.new) = Table(StateOf(e), type, A, leave)
      BY <2>3, <2>5, <2>7, <3>2
    <3>4. ~r.update => StateOf(r.new) = StateOf(e)
      BY <2>6, <3>2 DEF StateOf
    <3> QED
      BY <2>2, <2>4, <2>8, <3>1, <3>3, <3>4 DEF Does, Parts
  <2> QED
    BY <2>9 DEF r
<1>5. CASE e.filter_mode = "EXCLUDE" /\ leave = "NON_FAST"
  <2> DEFINE X == mc_x_mc_timer_set(FromRecord(A \ e.aged), LMQT, "DELAY_STOP")
             Y == e.aged \cap A
             t == mc_timer_set(e.grp_timer, GMI, "START")
  <2>1. r.new = [[e EXCEPT !.filter_mode = "EXCLUDE", !.grp_timer = t] EXCEPT !.src = X, !.aged = Y]
    BY <1>5 DEF mc_record_toex_handle, Changed
  <2>2. r.update \in BOOLEAN /\ (~r.update => x = A \ e.aged /\ e.aged = A)
    BY <1>1, <1>5 DEF mc_record_toex_handle, Changed
  <2>3. X \in SrcList /\ DOMAIN X = A \ e.aged
    <3> DEFINE l == FromRecord(A \ e.aged)
    <3>1. l \in SrcList /\ DOMAIN l = A \ e.aged
      <4>1. A \ e.aged \in SUBSET Sources
        OBVIOUS
      <4> QED
        BY <4>1, RecordLists
    <3> HIDE DEF l
    <3>2. X = mc_x_mc_timer_set(l, LMQT, "DELAY_STOP")
      BY DEF l
    <3> HIDE DEF X
    <3> QED
      BY <3>1, <3>2, SetTimers, TimerTypes DEF Flags
  <2>4. t \in Timers /\ t = Timer(GMI, "START")
    BY <1>2, HandlerTimers
  <2> HIDE DEF r, X, t
  <2>5. Y \in SUBSET Sources /\ DOMAIN X \cap Y = {} /\ Y = e.aged \cap A
    BY <1>1, <1>2, <1>5, <2>3
  <2>6. ~r.update => DOMAIN X = x /\ Y = e.aged /\ e.filter_mode = "EXCLUDE"
    BY <1>1, <1>5, <2>2, <2>3, <2>5
  <2>7. Table(StateOf(e), type, A, leave) = State("EXCLUDE", A \ e.aged, e.aged \cap A)
    BY <1>5, StateParts, Zenon DEF Table
  <2> HIDE DEF Y
  <2>8. Parts(r.new, e, "EXCLUDE", X, Y, t)
    BY <1>1, <1>5, <2>1, <2>3, <2>4, <2>5 DEF Parts, Entry
  <2>9. Does(e, type, A, leave, r)
    <3>1. Good(r.new)
      BY <2>5, <2>8 DEF Good, Parts
    <3>2. StateOf(r.new) = State("EXCLUDE", DOMAIN X, Y)
      BY <2>8 DEF StateOf, Parts
    <3>3. StateOf(r.new) = Table(StateOf(e), type, A, leave)
      BY <2>3, <2>5, <2>7, <3>2
    <3>4. ~r.update => StateOf(r.new) = StateOf(e)
      BY <2>6, <3>2 DEF StateOf
    <3> QED
      BY <2>2, <2>4, <2>8, <3>1, <3>3, <3>4 DEF Does, Parts
  <2> QED
    BY <2>9 DEF r
<1>6. CASE e.filter_mode = "EXCLUDE" /\ leave = "FAST"
  <2> DEFINE X == <<>>
             Y == A
             t == mc_timer_set(e.grp_timer, GMI, "START")
  <2>1. r.new = [[e EXCEPT !.filter_mode = "EXCLUDE", !.grp_timer = t] EXCEPT !.src = X, !.aged = Y]
    BY <1>6 DEF mc_record_toex_handle, Changed
  <2>2. r.update \in BOOLEAN /\ (~r.update => x = {} /\ e.aged = A)
    BY <1>1, <1>6 DEF mc_record_toex_handle, Changed
  <2>3. X \in SrcList /\ DOMAIN X = {}
    <3>1. X \in [{} -> Timers] /\ DOMAIN X = {}
      OBVIOUS
    <3> QED
      BY <3>1, PartialDef DEF SrcList
  <2>4. t \in Timers /\ t = Timer(GMI, "START")
    BY <1>2, HandlerTimers
  <2> HIDE DEF r, X, t
  <2>5. Y \in SUBSET Sources /\ DOMAIN X \cap Y = {} /\ Y = A
    BY <1>1, <1>2, <1>6, <2>3
  <2>6. ~r.update => DOMAIN X = x /\ Y = e.aged /\ e.filter_mode = "EXCLUDE"
    BY <1>1, <1>6, <2>2, <2>3, <2>5
  <2>7. Table(StateOf(e), type, A, leave) = State("EXCLUDE", {}, A)
    BY <1>6, StateParts, Zenon DEF Table
  <2> HIDE DEF Y
  <2>8. Parts(r.new, e, "EXCLUDE", X, Y, t)
    BY <1>1, <1>6, <2>1, <2>3, <2>4, <2>5 DEF Parts, Entry
  <2>9. Does(e, type, A, leave, r)
    <3>1. Good(r.new)
      BY <2>5, <2>8 DEF Good, Parts
    <3>2. StateOf(r.new) = State("EXCLUDE", DOMAIN X, Y)
      BY <2>8 DEF StateOf, Parts
    <3>3. StateOf(r.new) = Table(StateOf(e), type, A, leave)
      BY <2>3, <2>5, <2>7, <3>2
    <3>4. ~r.update => StateOf(r.new) = StateOf(e)
      BY <2>6, <3>2 DEF StateOf
    <3> QED
      BY <2>2, <2>4, <2>8, <3>1, <3>3, <3>4 DEF Does, Parts
  <2> QED
    BY <2>9 DEF r
<1> QED
  BY <1>2, <1>3, <1>4, <1>5, <1>6 DEF Leave

\* BLOCK.
LEMMA BlockDoes ==
    ASSUME NEW e, Good(e), NEW A \in SUBSET Sources, NEW leave \in Leave
    PROVE  Does(e, "BLOCK", A, leave, mc_record_block_handle(e, A, leave))
<1> DEFINE r == mc_record_block_handle(e, A, leave)
           x == DOMAIN e.src
           type == "BLOCK"
<1>1. e \in Entry /\ x \cap e.aged = {} /\ (e.filter_mode = "INCLUDE" => e.aged = {})
  BY DEF Good
<1>2. /\ e.src \in SrcList /\ e.aged \in SUBSET Sources /\ x \in SUBSET Sources
      /\ e.filter_mode \in {"INCLUDE", "EXCLUDE"} /\ e.grp_timer \in Timers
  BY <1>1, EntryFields
<1>3. CASE e.filter_mode = "INCLUDE" /\ leave = "NON_FAST"
  <2> DEFINE X == mc_x_union_subset(e.src, mc_x_mc_timer_set(mc_x_intersection(e.src, A), LMQT, "DELAY_STOP"))
             Y == e.aged
             t == e.grp_timer
  <2>1. r.new = [e EXCEPT !.src = X]
    BY <1>3 DEF mc_record_block_handle, Changed
  <2>2. r.update \in BOOLEAN /\ (~r.update => TRUE)
    BY <1>1, <1>3 DEF mc_record_block_handle, Changed
  <2>3. X \in SrcList /\ DOMAIN X = x
    <3> DEFINE l == mc_x_intersection(e.src, A)
    <3>1. l \in SrcList /\ DOMAIN l = x \cap A
      BY <1>2, ListParts
    <3> HIDE DEF l
    <3> DEFINE m == mc_x_mc_timer_set(l, LMQT, "DELAY_STOP")
    <3>2. m \in SrcList /\ DOMAIN m = x \cap A
      BY <3>1, SetTimers, TimerTypes DEF Flags
    <3>3. X = mc_x_union_subset(e.src, m)
      BY DEF l
    <3> HIDE DEF X, m
    <3>4. X \in SrcList /\ DOMAIN X = x \cup (x \cap A)
      BY <1>2, <3>2, <3>3, ListUnion
    <3> QED
      BY <3>4
  <2>4. t \in Timers
    BY <1>2
  <2> HIDE DEF r, X, t
  <2>5. Y \in SUBSET Sources /\ DOMAIN X \cap Y = {} /\ Y = {}
    BY <1>1, <1>2, <1>3, <2>3
  <2>6. ~r.update => DOMAIN X = x /\ Y = e.aged /\ e.filter_mode = "INCLUDE"
    BY <1>1, <1>3, <2>2, <2>3, <2>5
  <2>7. Table(StateOf(e), type, A, leave) = State("INCLUDE", x, {})
    BY <1>3, StateParts, Zenon DEF Table
  <2> HIDE DEF Y
  <2>8. Parts(r.new, e, "INCLUDE", X, Y, t)
    BY <1>1, <1>3, <2>1, <2>3, <2>4, <2>5 DEF Parts, Entry, t, Y
  <2>9. Does(e, type, A, leave, r)
    <3>1. Good(r.new)
      BY <2>5, <2>8 DEF Good, Parts
    <3>2. StateOf(r.new) = State("INCLUDE", DOMAIN X, Y)
      BY <2>8 DEF StateOf, Parts
    <3>3. StateOf(r.new) = Table(StateOf(e), type, A, leave)
      BY <2>3, <2>5, <2>7, <3>2
    <3>4. ~r.update => StateOf(r.new) = StateOf(e)
      BY <2>6, <3>2 DEF StateOf
    <3> QED
      BY <2>2, <2>4, <2>8, <3>1, <3>3, <3>4 DEF Does, Parts
  <2> QED
    BY <2>9 DEF r
<1>4. CASE e.filter_mode = "INCLUDE" /\ leave = "FAST"
  <2> DEFINE X == mc_x_minus(e.src, A)
             Y == e.aged
             t == e.grp_timer
  <2>1. r.new = [e EXCEPT !.src = X]
    BY <1>4 DEF mc_record_block_handle, Changed
  <2>2. r.update \in BOOLEAN /\ (~r.update => x \cap A = {})
    BY <1>1, <1>4 DEF mc_record_block_handle, Changed
  <2>3. X \in SrcList /\ DOMAIN X = x \ A
    BY <1>2, ListParts
  <2>4. t \in Timers
    BY <1>2
  <2> HIDE DEF r, X, t
  <2>5. Y \in SUBSET Sources /\ DOMAIN X \cap Y = {} /\ Y = {}
    BY <1>1, <1>2, <1>4, <2>3
  <2>6. ~r.update => DOMAIN X = x /\ Y = e.aged /\ e.filter_mode = "INCLUDE"
    BY <1>1, <1>4, <2>2, <2>3, <2>5
  <2>7. Table(StateOf(e), type, A, leave) = State("INCLUDE", x \ A, {})
    BY <1>4, StateParts, Zenon DEF Table
  <2> HIDE DEF Y
  <2>8. Parts(r.new, e, "INCLUDE", X, Y, t)
    BY <1>1, <1>4, <2>1, <2>3, <2>4, <2>5 DEF Parts, Entry, t, Y
  <2>9. Does(e, type, A, leave, r)
    <3>1. Good(r.new)
      BY <2>5, <2>8 DEF Good, Parts
    <3>2. StateOf(r.new) = State("INCLUDE", DOMAIN X, Y)
      BY <2>8 DEF StateOf, Parts
    <3>3. StateOf(r.new) = Table(StateOf(e), type, A, leave)
      BY <2>3, <2>5, <2>7, <3>2
    <3>4. ~r.update => StateOf(r.new) = StateOf(e)
      BY <2>6, <3>2 DEF StateOf
    <3> QED
      BY <2>2, <2>4, <2>8, <3>1, <3>3, <3>4 DEF Does, Parts
  <2> QED
    BY <2>9 DEF r
<1>5. CASE e.filter_mode = "EXCLUDE" /\ leave = "NON_FAST"
  <2> DEFINE X == mc_x_union_subset(e.src, mc_x_mc_timer_set(FromRecord(A \ e.aged), LMQT, "DELAY_STOP"))
             Y == e.aged
             t == e.grp_timer
  <2>1. r.new = [e EXCEPT !.src = X]
    BY <1>5 DEF mc_record_block_handle, Changed
  <2>2. r.update \in BOOLEAN /\ (~r.update => A \ e.aged \subseteq x)
    BY <1>1, <1>5 DEF mc_record_block_handle, Changed
  <2>3. X \in SrcList /\ DOMAIN X = x \cup (A \ e.aged)
    <3> DEFINE l == FromRecord(A \ e.aged)
    <3>1. l \in SrcList /\ DOMAIN l = A \ e.aged
      <4>1. A \ e.aged \in SUBSET Sources
        OBVIOUS
      <4> QED
        BY <4>1, RecordLists
    <3> HIDE DEF l
    <3> DEFINE m == mc_x_mc_timer_set(l, LMQT, "DELAY_STOP")
    <3>2. m \in SrcList /\ DOMAIN m = A \ e.aged
      BY <3>1, SetTimers, TimerTypes DEF Flags
    <3>3. X = mc_x_union_subset(e.src, m)
      BY DEF l
    <3> HIDE DEF X, m
    <3>4. X \in SrcList /\ DOMAIN X = x \cup (A \ e.aged)
      BY <1>2, <3>2, <3>3, ListUnion
    <3> QED
      BY <3>4
  <2>4. t \in Timers
    BY <1>2
  <2> HIDE DEF r, X, t
  <2>5. Y \in SUBSET Sources /\ DOMAIN X \cap Y = {} /\ Y = e.aged
    BY <1>1, <1>2, <1>5, <2>3
  <2>6. ~r.update => DOMAIN X = x /\ Y = e.aged /\ e.filter_mode = "EXCLUDE"
    BY <1>1, <1>5, <2>2, <2>3, <2>5
  <2>7. Table(StateOf(e), type, A, leave) = State("EXCLUDE", x \cup (A \ e.aged), e.aged)
    BY <1>5, StateParts, Zenon DEF Table
  <2> HIDE DEF Y
  <2>8. Parts(r.new, e, "EXCLUDE", X, Y, t)
    BY <1>1, <1>5, <2>1, <2>3, <2>4, <2>5 DEF Parts, Entry, t, Y
  <2>9. Does(e, type, A, leave, r)
    <3>1. Good(r.new)
      BY <2>5, <2>8 DEF Good, Parts
    <3>2. StateOf(r.new) = State("EXCLUDE", DOMAIN X, Y)
      BY <2>8 DEF StateOf, Parts
    <3>3. StateOf(r.new) = Table(StateOf(e), type, A, leave)
      BY <2>3, <2>5, <2>7, <3>2
    <3>4. ~r.update => StateOf(r.new) = StateOf(e)
      BY <2>6, <3>2 DEF StateOf
    <3> QED
      BY <2>2, <2>4, <2>8, <3>1, <3>3, <3>4 DEF Does, Parts
  <2> QED
    BY <2>9 DEF r
<1>6. CASE e.filter_mode = "EXCLUDE" /\ leave = "FAST"
  <2> DEFINE X == mc_x_minus(e.src, A)
             Y == e.aged \cup A
             t == e.grp_timer
  <2>1. r.new = [e EXCEPT !.src = X, !.aged = Y]
    BY <1>6 DEF mc_record_block_handle, Changed
  <2>2. r.update \in BOOLEAN /\ (~r.update => x \cap A = {} /\ A \subseteq e.aged)
    BY <1>1, <1>6 DEF mc_record_block_handle, Changed
  <2>3. X \in SrcList /\ DOMAIN X = x \ A
    BY <1>2, ListParts
  <2>4. t \in Timers
    BY <1>2
  <2> HIDE DEF r, X, t
  <2>5. Y \in SUBSET Sources /\ DOMAIN X \cap Y = {} /\ Y = e.aged \cup A
    BY <1>1, <1>2, <1>6, <2>3
  <2>6. ~r.update => DOMAIN X = x /\ Y = e.aged /\ e.filter_mode = "EXCLUDE"
    BY <1>1, <1>6, <2>2, <2>3, <2>5
  <2>7. Table(StateOf(e), type, A, leave) = State("EXCLUDE", x \ A, e.aged \cup A)
    BY <1>6, StateParts, Zenon DEF Table
  <2> HIDE DEF Y
  <2>8. Parts(r.new, e, "EXCLUDE", X, Y, t)
    BY <1>1, <1>6, <2>1, <2>3, <2>4, <2>5 DEF Parts, Entry, t
  <2>9. Does(e, type, A, leave, r)
    <3>1. Good(r.new)
      BY <2>5, <2>8 DEF Good, Parts
    <3>2. StateOf(r.new) = State("EXCLUDE", DOMAIN X, Y)
      BY <2>8 DEF StateOf, Parts
    <3>3. StateOf(r.new) = Table(StateOf(e), type, A, leave)
      BY <2>3, <2>5, <2>7, <3>2
    <3>4. ~r.update => StateOf(r.new) = StateOf(e)
      BY <2>6, <3>2 DEF StateOf
    <3> QED
      BY <2>2, <2>4, <2>8, <3>1, <3>3, <3>4 DEF Does, Parts
  <2> QED
    BY <2>9 DEF r
<1> QED
  BY <1>2, <1>3, <1>4, <1>5, <1>6 DEF Leave
\* A record of any type.
LEMMA UpdateDoes ==
    ASSUME NEW e, Good(e), NEW rec \in Records, NEW leave \in Leave
    PROVE  Does(e, rec.type, rec.src, leave, mc_port_grp_update(e, rec, leave))
<1>1. rec.src \in SUBSET Sources /\ rec.type \in RecordTypes
  BY DEF Records
<1>2. CASE rec.type \in {"IS_IN", "ALLOW"}
  <2>1. mc_port_grp_update(e, rec, leave) = mc_record_isin_handle(e, rec.src)
    BY <1>2, Zenon DEF mc_port_grp_update
  <2> QED
    BY <1>1, <1>2, <2>1, IsinDoes
<1>3. CASE rec.type = "IS_EX"
  <2>1. mc_port_grp_update(e, rec, leave) = mc_record_isex_handle(e, rec.src)
    BY <1>3, Zenon DEF mc_port_grp_update
  <2> QED
    BY <1>1, <1>3, <2>1, IsexDoes
<1>4. CASE rec.type = "TO_IN"
  <2>1. mc_port_grp_update(e, rec, leave) = mc_record_toin_handle(e, rec.src, leave)
    BY <1>4, Zenon DEF mc_port_grp_update
  <2> QED
    BY <1>1, <1>4, <2>1, ToinDoes
<1>5. CASE rec.type = "TO_EX"
  <2>1. mc_port_grp_update(e, rec, leave) = mc_record_toex_handle(e, rec.src, leave)
    BY <1>5, Zenon DEF mc_port_grp_update
  <2> QED
    BY <1>1, <1>5, <2>1, ToexDoes
<1>6. CASE rec.type = "BLOCK"
  <2>1. mc_port_grp_update(e, rec, leave) = mc_record_block_handle(e, rec.src, leave)
    BY <1>6, Zenon DEF mc_port_grp_update
  <2> QED
    BY <1>1, <1>6, <2>1, BlockDoes
<1> QED
  BY <1>1, <1>2, <1>3, <1>4, <1>5, <1>6 DEF RecordTypes

\* In exclude mode a group stays there, but for a TO_IN.
LEMMA StaysExclude ==
    ASSUME NEW s, s.mode = "EXCLUDE", NEW type \in RecordTypes \ {"TO_IN"}, NEW A,
           NEW leave \in Leave
    PROVE  Table(s, type, A, leave).mode = "EXCLUDE"
<1>1. \A x, y : State("EXCLUDE", x, y).mode = "EXCLUDE"
  BY DEF State
<1>2. CASE type \in {"IS_IN", "ALLOW"}
  <2>1. Table(s, type, A, leave) = State("EXCLUDE", s.x \cup A, s.y \ A)
    BY <1>2, Zenon DEF Table
  <2> QED
    BY <1>1, <2>1
<1>3. CASE type = "IS_EX"
  <2>1. Table(s, type, A, leave) = State("EXCLUDE", A \ s.y, s.y \cap A)
    BY <1>3, Zenon DEF Table
  <2> QED
    BY <1>1, <2>1
<1>4. CASE type = "TO_EX"
  <2>1. \/ Table(s, type, A, leave) = State("EXCLUDE", A \ s.y, s.y \cap A)
        \/ Table(s, type, A, leave) = State("EXCLUDE", {}, A)
    BY <1>4, Zenon DEF Table, Leave
  <2> QED
    BY <1>1, <2>1
<1>5. CASE type = "BLOCK"
  <2>1. \/ Table(s, type, A, leave) = State("EXCLUDE", s.x \cup (A \ s.y), s.y)
        \/ Table(s, type, A, leave) = State("EXCLUDE", s.x \ A, s.y \cup A)
    BY <1>5, Zenon DEF Table, Leave
  <2> QED
    BY <1>1, <2>1
<1> QED
  BY <1>2, <1>3, <1>4, <1>5 DEF RecordTypes

\* Whatever its mode was, after an IS_EX or TO_EX a group is in exclude mode.
LEMMA GoesExclude ==
    ASSUME NEW s, s.mode \in {"INCLUDE", "EXCLUDE"}, NEW type \in {"IS_EX", "TO_EX"},
           NEW A, NEW leave \in Leave
    PROVE  Table(s, type, A, leave).mode = "EXCLUDE"
<1>1. \A x, y : State("EXCLUDE", x, y).mode = "EXCLUDE"
  BY DEF State
<1>2. CASE s.mode = "INCLUDE"
  <2>1. \/ Table(s, type, A, leave) = State("EXCLUDE", s.x \cap A, A \ s.x)
        \/ Table(s, type, A, leave) = State("EXCLUDE", {}, A)
    BY <1>2, Zenon DEF Table, Leave
  <2> QED
    BY <1>1, <2>1
<1>3. CASE s.mode = "EXCLUDE"
  BY <1>3, StaysExclude DEF RecordTypes
<1> QED
  BY <1>2, <1>3
(***************************************************************************)
(* The table and its counters                                              *)
(***************************************************************************)
Keys == Groups \X Ports
OfPort(E, p) == {k \in E : k[2] = p}
GroupsOf(E) == {k[1] : k \in E}

\* Entries and groups can be counted.
LEMMA KeySets ==
    ASSUME NEW E \in SUBSET Keys
    PROVE  /\ IsFiniteSet(E)
           /\ \A p : /\ IsFiniteSet(OfPort(E, p))
                     /\ Cardinality(OfPort(E, p)) \in Nat
           /\ IsFiniteSet(GroupsOf(E)) /\ GroupsOf(E) \subseteq Groups
           /\ Cardinality(GroupsOf(E)) \in Nat
<1>1. IsFiniteSet(Keys)
  BY FiniteAssumption, FS_Product DEF Keys
<1>2. IsFiniteSet(E)
  BY <1>1, FS_Subset
<1>3. ASSUME NEW p
      PROVE  IsFiniteSet(OfPort(E, p)) /\ Cardinality(OfPort(E, p)) \in Nat
  <2>1. OfPort(E, p) \in SUBSET E
    BY DEF OfPort
  <2> QED
    BY <1>2, <2>1, FS_Subset, FS_CardinalityType
<1>4. GroupsOf(E) \in SUBSET Groups
  BY DEF GroupsOf, Keys
<1>5. IsFiniteSet(GroupsOf(E))
  BY <1>4, FiniteAssumption, FS_Subset
<1> QED
  BY <1>2, <1>3, <1>4, <1>5, FS_CardinalityType

\* A part of a finite set is taken out of it.
LEMMA LessCounts ==
    ASSUME NEW S, IsFiniteSet(S), NEW T \in SUBSET S
    PROVE  /\ Cardinality(S \ T) = Less(Cardinality(S), Cardinality(T))
           /\ Cardinality(S \ T) <= Cardinality(S)
<1>1. S \cap T = T /\ IsFiniteSet(T) /\ Cardinality(T) <= Cardinality(S)
  BY FS_Subset
<1>2. Cardinality(S) \in Nat /\ Cardinality(T) \in Nat
  BY <1>1, FS_CardinalityType
<1>3. Cardinality(S \ T) = Cardinality(S) - Cardinality(T)
  BY <1>1, FS_Difference
<1> QED
  BY <1>1, <1>2, <1>3 DEF Less

\* The counters go with the entries.
LEMMA EntriesGo ==
    ASSUME NEW E \in SUBSET Keys, NEW gone \in SUBSET E
    PROVE  LET rest == E \ gone IN
           /\ \A p : /\ Cardinality(OfPort(rest, p))
                            = Less(Cardinality(OfPort(E, p)), Cardinality(OfPort(gone, p)))
                     /\ Cardinality(OfPort(rest, p)) <= Cardinality(OfPort(E, p))
           /\ Cardinality(GroupsOf(rest)) = Less(Cardinality(GroupsOf(E)),
                                                 Cardinality(GroupsOf(gone) \ GroupsOf(rest)))
           /\ Cardinality(GroupsOf(rest)) <= Cardinality(GroupsOf(E))
<1> DEFINE rest == E \ gone
           lost == GroupsOf(gone) \ GroupsOf(rest)
<1>1. ASSUME NEW p
      PROVE  /\ Cardinality(OfPort(rest, p))
                    = Less(Cardinality(OfPort(E, p)), Cardinality(OfPort(gone, p)))
             /\ Cardinality(OfPort(rest, p)) <= Cardinality(OfPort(E, p))
  <2>1. OfPort(rest, p) = OfPort(E, p) \ OfPort(gone, p)
    BY DEF OfPort
  <2>2. OfPort(gone, p) \in SUBSET OfPort(E, p)
    BY DEF OfPort
  <2>3. IsFiniteSet(OfPort(E, p))
    BY KeySets
  <2> QED
    BY <2>1, <2>2, <2>3, LessCounts
<1>2. GroupsOf(rest) = GroupsOf(E) \ lost /\ lost \in SUBSET GroupsOf(E)
  BY DEF GroupsOf
<1>3. IsFiniteSet(GroupsOf(E))
  BY KeySets
<1> HIDE DEF lost
<1>4. /\ Cardinality(GroupsOf(rest)) = Less(Cardinality(GroupsOf(E)), Cardinality(lost))
      /\ Cardinality(GroupsOf(rest)) <= Cardinality(GroupsOf(E))
  BY <1>2, <1>3, LessCounts
<1> QED
  BY <1>1, <1>4 DEF lost

\* An entry comes in.
LEMMA EntryComes ==
    ASSUME NEW E \in SUBSET Keys, NEW k \in Keys, k \notin E
    PROVE  LET more == E \cup {k} IN
           /\ more \in SUBSET Keys
           /\ \A p : Cardinality(OfPort(more, p)) =
                        Cardinality(OfPort(E, p)) + (IF p = k[2] THEN 1 ELSE 0)
           /\ Cardinality(GroupsOf(more)) =
                Cardinality(GroupsOf(E)) + (IF k[1] \in GroupsOf(E) THEN 0 ELSE 1)
<1> DEFINE more == E \cup {k}
<1>1. ASSUME NEW p
      PROVE  Cardinality(OfPort(more, p)) =
                Cardinality(OfPort(E, p)) + (IF p = k[2] THEN 1 ELSE 0)
  <2>1. IsFiniteSet(OfPort(E, p)) /\ Cardinality(OfPort(E, p)) \in Nat
    BY KeySets
  <2>2. CASE p = k[2]
    <3>1. OfPort(more, p) = OfPort(E, p) \cup {k} /\ k \notin OfPort(E, p)
      BY <2>2 DEF OfPort
    <3> QED
      BY <2>1, <2>2, <3>1, FS_AddElement
  <2>3. CASE p # k[2]
    <3>1. OfPort(more, p) = OfPort(E, p)
      BY <2>3 DEF OfPort
    <3> QED
      BY <2>1, <2>3, <3>1
  <2> QED
    BY <2>2, <2>3
<1>2. Cardinality(GroupsOf(more)) =
        Cardinality(GroupsOf(E)) + (IF k[1] \in GroupsOf(E) THEN 0 ELSE 1)
  <2>1. GroupsOf(more) = GroupsOf(E) \cup {k[1]}
    BY DEF GroupsOf
  <2>2. IsFiniteSet(GroupsOf(E)) /\ Cardinality(GroupsOf(E)) \in Nat
    BY KeySets
  <2>3. CASE k[1] \in GroupsOf(E)
    <3>1. GroupsOf(more) = GroupsOf(E)
      BY <2>1, <2>3
    <3> QED
      BY <2>2, <2>3, <3>1
  <2>4. CASE k[1] \notin GroupsOf(E)
    <3>1. Cardinality(GroupsOf(E) \cup {k[1]}) = Cardinality(GroupsOf(E)) + 1
      BY <2>2, <2>4, FS_AddElement
    <3> QED
      BY <2>1, <2>4, <3>1
  <2> QED
    BY <2>3, <2>4
<1> QED
  BY <1>1, <1>2

PortTable == Partial(Keys, Entry)

Node == [tbl : PortTable, grp_count : [Ports -> Nat], cur_grp_num : Nat,
         max_grp_num : 0..GrpCap, max_grp : [Ports -> 0..PortGrpCap],
         leave_mode : [Ports -> Leave], mode : Modes \cup {"DISABLE"}]

\* The counters are the numbers of entries and groups.
Exact(n) ==
    /\ \A p \in Ports : n.grp_count[p] = Cardinality(OfPort(Entries(n), p))
    /\ n.cur_grp_num = Cardinality(GroupsOf(Entries(n)))

\* They are within the limits.
Limits(n) ==
    /\ \A p \in Ports : n.grp_count[p] <= n.max_grp[p]
    /\ n.cur_grp_num <= n.max_grp_num

\* Both have the same configuration.
SameSettings(n, m) ==
    /\ m.max_grp_num = n.max_grp_num /\ m.max_grp = n.max_grp
    /\ m.leave_mode = n.leave_mode /\ m.mode = n.mode

\* The fields of a node.
LEMMA NodeFields ==
    ASSUME NEW n \in Node
    PROVE  /\ n.tbl \in PortTable /\ Entries(n) \in SUBSET Keys
           /\ n.tbl \in [Entries(n) -> Entry]
           /\ n.grp_count \in [Ports -> Nat] /\ n.cur_grp_num \in Nat
           /\ n.max_grp_num \in 0..GrpCap /\ n.max_grp \in [Ports -> 0..PortGrpCap]
           /\ n.leave_mode \in [Ports -> Leave] /\ n.mode \in Modes \cup {"DISABLE"}
<1>1. n.tbl \in PortTable
  BY DEF Node
<1>2. Entries(n) \in SUBSET Keys /\ n.tbl \in [Entries(n) -> Entry]
  BY <1>1, PartialDef DEF PortTable, Entries
<1> QED
  BY <1>1, <1>2 DEF Node

\* Entries are taken out of the table.
LEMMA WithoutDoes ==
    ASSUME NEW n \in Node, Exact(n), NEW gone \in SUBSET Entries(n)
    PROVE  LET r == Without(n, gone) IN
           /\ r \in Node /\ Exact(r) /\ SameSettings(n, r)
           /\ Entries(r) = Entries(n) \ gone
           /\ \A k \in Entries(r) : r.tbl[k] = n.tbl[k]
           /\ \A p \in Ports : r.grp_count[p] <= n.grp_count[p]
           /\ r.cur_grp_num <= n.cur_grp_num
<1> DEFINE r == Without(n, gone)
           E == Entries(n)
           rest == E \ gone
           T == Restrict(n.tbl, rest)
           C == [p \in Ports |-> Less(n.grp_count[p], Cardinality({k \in gone : k[2] = p}))]
           G == Less(n.cur_grp_num, Cardinality({k[1] : k \in gone} \ {k[1] : k \in rest}))
<1>1. E \in SUBSET Keys /\ n.tbl \in [E -> Entry]
  BY NodeFields
<1>2. T \in [rest -> Entry] /\ DOMAIN T = rest /\ \A k \in rest : T[k] = n.tbl[k]
  BY <1>1 DEF Restrict
<1>3. rest \in SUBSET Keys /\ T \in PortTable
  BY <1>1, <1>2, PartialDef DEF PortTable
<1>4. ASSUME NEW p \in Ports
      PROVE  /\ C[p] = Cardinality(OfPort(rest, p))
             /\ C[p] <= n.grp_count[p]
  <2>1. C[p] = Less(Cardinality(OfPort(E, p)), Cardinality(OfPort(gone, p)))
    BY DEF Exact, OfPort
  <2>2. /\ Cardinality(OfPort(rest, p))
                = Less(Cardinality(OfPort(E, p)), Cardinality(OfPort(gone, p)))
        /\ Cardinality(OfPort(rest, p)) <= Cardinality(OfPort(E, p))
    BY <1>1, EntriesGo
  <2> QED
    BY <2>1, <2>2 DEF Exact
<1>5. G = Cardinality(GroupsOf(rest)) /\ G <= n.cur_grp_num
  BY <1>1, EntriesGo DEF Exact, GroupsOf
<1>6. C \in [Ports -> Nat] /\ G \in Nat
  <2>1. \A p \in Ports : C[p] \in Nat
    BY <1>3, <1>4, KeySets
  <2>2. C \in [Ports -> Nat]
    BY <2>1
  <2> QED
    BY <1>3, <1>5, <2>2, KeySets
<1>7. r = [n EXCEPT !.tbl = T, !.grp_count = C, !.cur_grp_num = G]
  BY DEF Without
<1> HIDE DEF r, T, C, G
<1>8. /\ r \in Node /\ SameSettings(n, r)
      /\ r.tbl = T /\ r.grp_count = C /\ r.cur_grp_num = G
  BY <1>3, <1>6, <1>7 DEF Node, SameSettings
<1>9. Entries(r) = rest
  BY <1>2, <1>8 DEF Entries
<1> QED
  BY <1>2, <1>4, <1>5, <1>8, <1>9 DEF Exact, r
(***************************************************************************)
(* States that follow one another                                          *)
(***************************************************************************)
\* What the switch has of entries.
HwKeys(E) == {HwKey(k) : k \in E}

\* An entry that the switch can hold and that forwards something.
Full(e) ==
    /\ Good(e)
    /\ Cardinality(DOMAIN e.src) + Cardinality(e.aged) <= MaxSrc
    /\ mc_port_grp_exist(e)

\* The entries are well-formed and counted, and the switch has each of them, apart
\* from the others.
Sane(st) ==
    /\ st.node \in Node
    /\ \A k \in Entries(st.node) : Full(st.node.tbl[k])
    /\ Exact(st.node)
    /\ st.l2 = {HwKey(k) : k \in Entries(st.node)}
    /\ \A j, k \in Entries(st.node) : HwKey(j) = HwKey(k) => j = k

\* The state after is sane, and within the limits if the state before is.
Follows(st, after) ==
    /\ Sane(after)
    /\ SameSettings(st.node, after.node)
    /\ Limits(st.node) => Limits(after.node)

\* Entries are written over.
LEMMA EntriesChange ==
    ASSUME NEW st, Sane(st), NEW T \in [Entries(st.node) -> Entry],
           \A k \in Entries(st.node) : Full(T[k])
    PROVE  LET after == [node |-> [st.node EXCEPT !.tbl = T], l2 |-> st.l2] IN
           /\ Follows(st, after)
           /\ Entries(after.node) = Entries(st.node)
           /\ after.node.tbl = T
<1> DEFINE n == st.node
           m == [n EXCEPT !.tbl = T]
           after == [node |-> m, l2 |-> st.l2]
<1>1. n \in Node /\ Entries(n) \in SUBSET Keys
  BY NodeFields DEF Sane
<1>2. T \in PortTable /\ DOMAIN T = Entries(n)
  BY <1>1, PartialDef DEF PortTable
<1>3. /\ m \in Node /\ m.tbl = T /\ SameSettings(n, m)
      /\ m.grp_count = n.grp_count /\ m.cur_grp_num = n.cur_grp_num
  BY <1>1, <1>2 DEF Node, SameSettings
<1>4. Entries(m) = Entries(n)
  BY <1>2, <1>3 DEF Entries
<1>5. after.node = m /\ after.l2 = st.l2
  OBVIOUS
<1> HIDE DEF m, after
<1>6. Exact(m)
  BY <1>3, <1>4 DEF Exact, Sane
<1>7. Limits(n) => Limits(m)
  BY <1>3 DEF Limits, SameSettings
<1>8. Sane(after)
  BY <1>3, <1>4, <1>5, <1>6 DEF Sane
<1>9. Follows(st, after) /\ Entries(after.node) = Entries(n) /\ after.node.tbl = T
  BY <1>3, <1>4, <1>5, <1>7, <1>8 DEF Follows
<1> QED
  BY <1>9 DEF after, m, n

\* Entries go, and the switch forgets them.
LEMMA EntriesLeave ==
    ASSUME NEW st, Sane(st), NEW gone \in SUBSET Entries(st.node), NEW after,
           after.node = Without(st.node, gone), after.l2 = st.l2 \ HwKeys(gone)
    PROVE  /\ Follows(st, after)
           /\ Entries(after.node) = Entries(st.node) \ gone
           /\ \A k \in Entries(after.node) : after.node.tbl[k] = st.node.tbl[k]
           /\ \A p \in Ports : after.node.grp_count[p] <= st.node.grp_count[p]
           /\ after.node.cur_grp_num <= st.node.cur_grp_num
<1> DEFINE n == st.node
           m == Without(n, gone)
<1>1. /\ m \in Node /\ Exact(m) /\ SameSettings(n, m)
      /\ Entries(m) = Entries(n) \ gone
      /\ \A k \in Entries(m) : m.tbl[k] = n.tbl[k]
      /\ \A p \in Ports : m.grp_count[p] <= n.grp_count[p]
      /\ m.cur_grp_num <= n.cur_grp_num
  BY WithoutDoes DEF Sane
<1>2. after.node = m
  OBVIOUS
<1> HIDE DEF m
<1>3. after.l2 = {HwKey(k) : k \in Entries(m)}
  BY <1>1 DEF Sane, HwKeys
<1>4. Sane(after)
  BY <1>1, <1>2, <1>3 DEF Sane
<1>5. Limits(n) => Limits(m)
  <2>1. /\ n.grp_count \in [Ports -> Nat] /\ n.max_grp \in [Ports -> 0..PortGrpCap]
        /\ n.cur_grp_num \in Nat /\ n.max_grp_num \in 0..GrpCap
    BY NodeFields DEF Sane
  <2>2. m.grp_count \in [Ports -> Nat] /\ m.cur_grp_num \in Nat
    BY <1>1, NodeFields
  <2>3. m.max_grp = n.max_grp /\ m.max_grp_num = n.max_grp_num
    BY <1>1 DEF SameSettings
  <2>4. ASSUME Limits(n), NEW p \in Ports
        PROVE  m.grp_count[p] <= m.max_grp[p]
    <3>1. /\ n.grp_count[p] \in Nat /\ n.max_grp[p] \in Nat /\ m.grp_count[p] \in Nat
      BY <2>1, <2>2
    <3>2. n.grp_count[p] <= n.max_grp[p] /\ m.grp_count[p] <= n.grp_count[p]
      BY <1>1, <2>4 DEF Limits
    <3> QED
      BY <2>3, <3>1, <3>2
  <2>5. ASSUME Limits(n)
        PROVE  m.cur_grp_num <= m.max_grp_num
    BY <1>1, <2>1, <2>2, <2>3, <2>5 DEF Limits
  <2> QED
    BY <2>4, <2>5 DEF Limits
<1> QED
  BY <1>1, <1>2, <1>4, <1>5 DEF Follows

(***************************************************************************)
(* A record                                                                *)
(***************************************************************************)
\* An entry in the same state as a full one is full.
LEMMA StateFull ==
    ASSUME NEW e, Full(e), NEW new, Good(new), StateOf(new) = StateOf(e)
    PROVE  Full(new)
<1>1. /\ new.filter_mode = e.filter_mode /\ DOMAIN new.src = DOMAIN e.src
      /\ new.aged = e.aged
  BY StateParts
<1> QED
  BY <1>1 DEF Full, mc_port_grp_exist

\* Taking over the timers leaves an entry in its state.
LEMMA TimersTaken ==
    ASSUME NEW e, Full(e), NEW new, Good(new), StateOf(new) = StateOf(e)
    PROVE  /\ Full(TimersOf(e, new)) /\ StateOf(TimersOf(e, new)) = StateOf(e)
           /\ TimersOf(e, new).grp_timer = new.grp_timer
<1> DEFINE x == [s \in DOMAIN e.src |-> IF s \in DOMAIN new.src THEN new.src[s] ELSE e.src[s]]
           f == TimersOf(e, new)
<1>1. /\ e \in Entry /\ new \in Entry
      /\ e.src \in SrcList /\ new.src \in SrcList /\ new.grp_timer \in Timers
  <2>1. e \in Entry /\ new \in Entry
    BY DEF Full, Good
  <2> QED
    BY <2>1, EntryFields
<1>2. DOMAIN new.src = DOMAIN e.src
  BY StateParts
<1>3. x \in [DOMAIN e.src -> Timers] /\ DOMAIN x = DOMAIN e.src
  BY <1>1, <1>2, PartialDef DEF SrcList
<1>4. x \in SrcList
  BY <1>1, <1>3, PartialDef DEF SrcList
<1>5. f = [e EXCEPT !.grp_timer = new.grp_timer, !.src = x]
  BY DEF TimersOf
<1> HIDE DEF x, f
<1>6. /\ f \in Entry /\ f.grp_timer = new.grp_timer /\ f.src = x
      /\ f.filter_mode = e.filter_mode /\ f.aged = e.aged
  BY <1>1, <1>4, <1>5 DEF Entry
<1>7. StateOf(f) = StateOf(e)
  BY <1>3, <1>6 DEF StateOf
<1>8. Good(f)
  BY <1>3, <1>6 DEF Good, Full
<1>9. Full(f)
  BY <1>7, <1>8, StateFull
<1> QED
  BY <1>6, <1>7, <1>9 DEF f

\* Only the entry k is touched.
Others(n, m, k) ==
    \A j \in Keys \ {k} : /\ j \in Entries(m) <=> j \in Entries(n)
                          /\ j \in Entries(n) => m.tbl[j] = n.tbl[j]

\* The entry k is in this router state, and gone if it forwards nothing.
Reaches(n, k, want) ==
    IF want = State("INCLUDE", {}, {}) THEN k \notin Entries(n)
    ELSE k \in Entries(n) /\ StateOf(n.tbl[k]) = want

\* One entry is written over.
LEMMA EntryChanges ==
    ASSUME NEW st, Sane(st), NEW k \in Entries(st.node), NEW e, Full(e), NEW hw, hw = st.l2
    PROVE  LET after == [node |-> [st.node EXCEPT !.tbl[k] = e], l2 |-> hw] IN
           /\ Follows(st, after)
           /\ Others(st.node, after.node, k)
           /\ k \in Entries(after.node) /\ after.node.tbl[k] = e
<1> DEFINE n == st.node
           T == [n.tbl EXCEPT ![k] = e]
           after == [node |-> [n EXCEPT !.tbl = T], l2 |-> st.l2]
<1>1. n.tbl \in [Entries(n) -> Entry] /\ Entries(n) \in SUBSET Keys
  BY NodeFields DEF Sane
<1>2. e \in Entry
  BY DEF Full, Good
<1>3. T \in [Entries(n) -> Entry] /\ T[k] = e /\ \A j \in Entries(n) : j # k => T[j] = n.tbl[j]
  BY <1>1, <1>2
<1> HIDE DEF T
<1>4. \A j \in Entries(n) : Full(T[j])
  BY <1>3 DEF Sane
<1>5. Follows(st, after) /\ Entries(after.node) = Entries(n) /\ after.node.tbl = T
  BY <1>3, <1>4, EntriesChange
<1> HIDE DEF after
<1>6. Others(n, after.node, k)
  BY <1>3, <1>5 DEF Others
<1>7. [node |-> [n EXCEPT !.tbl[k] = e], l2 |-> hw] = after
  BY DEF after, T
<1> QED
  BY <1>3, <1>5, <1>6, <1>7

\* An entry is deleted.
LEMMA EntryLeaves ==
    ASSUME NEW st, Sane(st), NEW k \in Entries(st.node)
    PROVE  LET after == mc_port_fdb_entry_del(st, k) IN
           /\ Follows(st, after)
           /\ Others(st.node, after.node, k)
           /\ k \notin Entries(after.node)
<1> DEFINE after == mc_port_fdb_entry_del(st, k)
           one == {k}
<1>1. after.node = Without(st.node, one) /\ after.l2 = st.l2 \ HwKeys(one)
  BY DEF mc_port_fdb_entry_del, HwKeys
<1>2. one \in SUBSET Entries(st.node) /\ one = {k}
  OBVIOUS
<1> HIDE DEF after, one
<1>3. /\ Follows(st, after)
      /\ Entries(after.node) = Entries(st.node) \ one
      /\ \A j \in Entries(after.node) : after.node.tbl[j] = st.node.tbl[j]
  <2>1. one \in SUBSET Entries(st.node)
    BY <1>2
  <2>2. after.node = Without(st.node, one)
    BY <1>1
  <2>3. after.l2 = st.l2 \ HwKeys(one)
    BY <1>1
  <2> QED
    BY <2>1, <2>2, <2>3, EntriesLeave
<1>4. Others(st.node, after.node, k) /\ k \notin Entries(after.node)
  BY <1>2, <1>3 DEF Others
<1> QED
  BY <1>3, <1>4 DEF after

\* A state follows itself.
LEMMA FollowsItself ==
    ASSUME NEW st, Sane(st), NEW after, after.node = st.node, after.l2 = st.l2
    PROVE  Follows(st, after) /\ \A k : Others(st.node, after.node, k)
  BY DEF Follows, Sane, SameSettings, Others

\* A result is made of its parts.
LEMMA ReturnParts ==
    ASSUME NEW ret, NEW n, NEW hw
    PROVE  /\ Return(ret, n, hw).ret = ret
           /\ Return(ret, n, hw).st = [node |-> n, l2 |-> hw]
  BY DEF Return

\* What becomes of an entry when a record of its group arrives: the state of the
\* tables, unless the record is refused; a query that is answered without sources,
\* past the flood check, starts the group timer again.
Updates(st, k, rec, late, r) ==
    /\ Follows(st, r.st)
    /\ Others(st.node, r.st.node, k)
    /\ r.ret = "OK" => Reaches(r.st.node, k, Table(StateOf(st.node.tbl[k]), rec.type, rec.src,
                                                   st.node.leave_mode[k[2]]))
    /\ rec.type = "IS_EX" /\ rec.src = {} /\ ~TooFast(st.node.tbl[k].upd, late) =>
            r.ret = "OK" /\ r.st.node.tbl[k].grp_timer = Timer(GMI, "START")

\* An entry has a state to forward exactly if it exists.
LEMMA ExistState ==
    ASSUME NEW e, Good(e)
    PROVE  mc_port_grp_exist(e) <=> StateOf(e) # State("INCLUDE", {}, {})
<1>1. e.filter_mode \in {"INCLUDE", "EXCLUDE"} /\ (e.filter_mode = "INCLUDE" => e.aged = {})
  BY EntryFields DEF Good
<1> QED
  BY <1>1 DEF mc_port_grp_exist, StateOf, State

\* Without sources an IS_EX leaves no list to an entry.
LEMMA AnswerState ==
    ASSUME NEW s, s.mode \in {"INCLUDE", "EXCLUDE"}, NEW leave \in Leave
    PROVE  Table(s, "IS_EX", {}, leave) = State("EXCLUDE", {}, {})
<1>1. CASE s.mode = "INCLUDE"
  <2>1. Table(s, "IS_EX", {}, leave) = State("EXCLUDE", s.x \cap {}, {} \ s.x)
    BY <1>1, Zenon DEF Table
  <2>2. s.x \cap {} = {} /\ {} \ s.x = {}
    OBVIOUS
  <2> QED
    BY <2>1, <2>2
<1>2. CASE s.mode = "EXCLUDE"
  <2>1. Table(s, "IS_EX", {}, leave) = State("EXCLUDE", {} \ s.y, s.y \cap {})
    BY <1>2, Zenon DEF Table
  <2>2. {} \ s.y = {} /\ s.y \cap {} = {}
    OBVIOUS
  <2> QED
    BY <2>1, <2>2
<1> QED
  BY <1>1, <1>2

\* mc_update_port_grp_entry.
LEMMA RecordUpdates ==
    ASSUME NEW st, Sane(st), NEW k \in Entries(st.node), NEW rec \in Records, NEW late
    PROVE  Updates(st, k, rec, late, mc_update_port_grp_entry(st, k, rec, late))
<1> DEFINE e == st.node.tbl[k]
           cur == IF rec.asm THEN [e EXCEPT !.upd = "now"] ELSE e
           leave == st.node.leave_mode[k[2]]
           r == mc_port_grp_update(cur, rec, leave)
           Keep(entry) == [st.node EXCEPT !.tbl[k] = entry]
           want == Table(StateOf(e), rec.type, rec.src, leave)
           res == mc_update_port_grp_entry(st, k, rec, late)
           refused == rec.asm /\ TooFast(e.upd, late)
           answer == rec.type = "IS_EX" /\ rec.src = {} /\ ~TooFast(e.upd, late)
           many == Cardinality(DOMAIN r.new.src) + Cardinality(r.new.aged) > MaxSrc
<1>1. Full(e) /\ Good(e) /\ e \in Entry
  BY DEF Sane, Full, Good
<1>2. leave \in Leave
  BY NodeFields DEF Sane, Keys
<1>3. Good(cur) /\ StateOf(cur) = StateOf(e) /\ Full(cur)
  <2>1. CASE ~rec.asm
    BY <1>1, <2>1
  <2>2. CASE rec.asm
    <3> DEFINE c == [e EXCEPT !.upd = "now"]
    <3>1. /\ c \in Entry /\ c.filter_mode = e.filter_mode /\ c.src = e.src /\ c.aged = e.aged
      BY <1>1 DEF Entry, UpdateTimes
    <3> HIDE DEF c
    <3>2. StateOf(c) = StateOf(e)
      BY <3>1 DEF StateOf
    <3>3. Good(c)
      BY <1>1, <3>1 DEF Good
    <3>4. Full(c)
      BY <1>1, <3>2, <3>3, StateFull
    <3>5. cur = c
      BY <2>2 DEF c
    <3> QED
      BY <3>2, <3>3, <3>4, <3>5
  <2> QED
    BY <2>1, <2>2
<1>4. res = IF refused THEN Return("ERROR", st.node, st.l2)
            ELSE IF ~r.update THEN Return("OK", Keep(TimersOf(cur, r.new)), st.l2)
            ELSE IF ~mc_port_grp_exist(r.new)
              THEN [ret |-> "OK", st |-> mc_port_fdb_entry_del(st, k)]
            ELSE IF many THEN Return("RESOURCE", Keep(cur), st.l2)
            ELSE Return("OK", Keep(r.new), st.l2 \cup {HwKey(k)})
  BY Zenon DEF mc_update_port_grp_entry
<1> HIDE DEF cur, res
<1>5. Does(cur, rec.type, rec.src, leave, r)
  BY <1>2, <1>3, UpdateDoes
<1> HIDE DEF r, leave
<1>6. /\ r.update \in BOOLEAN /\ Good(r.new) /\ StateOf(r.new) = want
      /\ ~r.update => StateOf(r.new) = StateOf(cur)
      /\ rec.type = "IS_EX" => r.new.grp_timer = Timer(GMI, "START")
  BY <1>3, <1>5 DEF Does
<1>7. answer => mc_port_grp_exist(r.new) /\ ~many
  <2> SUFFICES ASSUME answer
               PROVE  mc_port_grp_exist(r.new) /\ ~many
    OBVIOUS
  <2>1. StateOf(e).mode \in {"INCLUDE", "EXCLUDE"}
    BY <1>1, EntryFields, StateParts
  <2>2. want = State("EXCLUDE", {}, {})
    <3>1. want = Table(StateOf(e), "IS_EX", {}, leave)
      OBVIOUS
    <3> QED
      BY <1>2, <2>1, <3>1, AnswerState
  <2>3. r.new.filter_mode = "EXCLUDE" /\ DOMAIN r.new.src = {} /\ r.new.aged = {}
    BY <1>6, <2>2 DEF StateOf, State
  <2>4. Cardinality({}) = 0
    BY FS_EmptySet
  <2> QED
    BY <2>3, <2>4, SrcAssumption DEF mc_port_grp_exist
<1> HIDE DEF want
<1>8. CASE refused
  <2>1. res.ret = "ERROR" /\ res.st = [node |-> st.node, l2 |-> st.l2]
    BY <1>4, <1>8, ReturnParts
  <2>2. res.st.node = st.node /\ res.st.l2 = st.l2
    BY <2>1
  <2>3. Follows(st, res.st) /\ Others(st.node, res.st.node, k)
    BY <2>2, FollowsItself
  <2> QED
    BY <1>8, <2>1, <2>3 DEF Updates, res
<1>9. CASE ~refused /\ ~r.update
  <2> DEFINE new == TimersOf(cur, r.new)
  <2>1. Full(new) /\ StateOf(new) = StateOf(cur) /\ new.grp_timer = r.new.grp_timer
    BY <1>3, <1>6, <1>9, TimersTaken
  <2>2. res.ret = "OK" /\ res.st = [node |-> [st.node EXCEPT !.tbl[k] = new], l2 |-> st.l2]
    BY <1>4, <1>9, ReturnParts
  <2> HIDE DEF new
  <2>3. /\ Follows(st, res.st) /\ Others(st.node, res.st.node, k)
        /\ k \in Entries(res.st.node) /\ res.st.node.tbl[k] = new
    BY <2>1, <2>2, EntryChanges
  <2>4. StateOf(new) = want
    BY <1>6, <1>9, <2>1
  <2>5. Good(new) /\ mc_port_grp_exist(new)
    BY <2>1 DEF Full
  <2>6. Reaches(res.st.node, k, want)
    BY <2>3, <2>4, <2>5, ExistState DEF Reaches
  <2>7. answer => res.st.node.tbl[k].grp_timer = Timer(GMI, "START")
    BY <1>6, <2>1, <2>3
  <2> QED
    BY <2>2, <2>3, <2>6, <2>7 DEF Updates, res, want, leave
<1>10. CASE ~refused /\ r.update /\ ~mc_port_grp_exist(r.new)
  <2>1. res = [ret |-> "OK", st |-> mc_port_fdb_entry_del(st, k)]
    BY <1>4, <1>10
  <2>2. res.ret = "OK" /\ res.st = mc_port_fdb_entry_del(st, k)
    BY <2>1
  <2>3. /\ Follows(st, res.st) /\ Others(st.node, res.st.node, k)
        /\ k \notin Entries(res.st.node)
    BY <2>2, EntryLeaves
  <2>4. want = State("INCLUDE", {}, {})
    BY <1>6, <1>10, ExistState
  <2>5. Reaches(res.st.node, k, want)
    BY <2>3, <2>4 DEF Reaches
  <2> QED
    BY <1>7, <1>10, <2>2, <2>3, <2>5 DEF Updates, res, want, leave
<1>11. CASE ~refused /\ r.update /\ mc_port_grp_exist(r.new) /\ many
  <2>1. res.ret = "RESOURCE" /\ res.st = [node |-> [st.node EXCEPT !.tbl[k] = cur], l2 |-> st.l2]
    BY <1>4, <1>11, ReturnParts
  <2>2. Follows(st, res.st) /\ Others(st.node, res.st.node, k)
    BY <1>3, <2>1, EntryChanges
  <2> QED
    BY <1>7, <1>11, <2>1, <2>2 DEF Updates, res
<1>12. CASE ~refused /\ r.update /\ mc_port_grp_exist(r.new) /\ ~many
  <2> DEFINE new == r.new
             hw == st.l2 \cup {HwKey(k)}
  <2>1. res.ret = "OK" /\ res.st = [node |-> [st.node EXCEPT !.tbl[k] = new], l2 |-> hw]
    <3> HIDE DEF many, refused
    <3>1. res = Return("OK", Keep(new), hw)
      BY <1>4, <1>12
    <3> QED
      BY <3>1, ReturnParts
  <2>2. hw = st.l2
    BY DEF Sane
  <2>3. Full(new)
    <3>1. new \in Entry
      BY <1>6 DEF Good
    <3>2. DOMAIN new.src \in SUBSET Sources /\ new.aged \in SUBSET Sources
      BY <3>1, EntryFields
    <3>3. Cardinality(DOMAIN new.src) \in Nat /\ Cardinality(new.aged) \in Nat
      BY <3>2, FiniteAssumption, FS_Subset, FS_CardinalityType
    <3>4. Cardinality(DOMAIN new.src) + Cardinality(new.aged) <= MaxSrc
      BY <1>12, <3>3, SrcAssumption
    <3> QED
      BY <1>6, <1>12, <3>4 DEF Full
  <2> HIDE DEF new, hw
  <2>4. /\ Follows(st, res.st) /\ Others(st.node, res.st.node, k)
        /\ k \in Entries(res.st.node) /\ res.st.node.tbl[k] = new
    BY <2>1, <2>2, <2>3, EntryChanges
  <2>5. StateOf(new) = want
    BY <1>6 DEF new
  <2>6. Good(new) /\ mc_port_grp_exist(new)
    BY <2>3 DEF Full
  <2>7. Reaches(res.st.node, k, want)
    BY <2>4, <2>5, <2>6, ExistState DEF Reaches
  <2>8. answer => res.st.node.tbl[k].grp_timer = Timer(GMI, "START")
    BY <1>6, <2>4 DEF new
  <2> QED
    BY <2>1, <2>4, <2>7, <2>8 DEF Updates, res, want, leave
<1>13. \/ refused \/ (~refused /\ ~r.update)
       \/ (~refused /\ r.update /\ ~mc_port_grp_exist(r.new))
       \/ (~refused /\ r.update /\ mc_port_grp_exist(r.new) /\ many)
       \/ (~refused /\ r.update /\ mc_port_grp_exist(r.new) /\ ~many)
  OBVIOUS
<1> QED
  BY <1>8, <1>9, <1>10, <1>11, <1>12, <1>13

\* A record that the parser lets through, and not "illegal" for having no source.
LegalRecord(rec) ==
    /\ rec \in Records /\ Cardinality(rec.src) <= MaxSrc
    /\ rec.src = {} => rec.type \notin {"IS_IN", "ALLOW"}

\* The modes that mc_add_isin_record and mc_add_isex_record give a new entry.
NewMode(type) == IF type \in {"IS_IN", "TO_IN", "ALLOW"} THEN "INCLUDE" ELSE "EXCLUDE"

\* New entries are full.
LEMMA NewEntryFull ==
    ASSUME NEW rec, LegalRecord(rec), rec.type = "TO_IN" => rec.src # {}
    PROVE  Full(NewEntry(rec)) /\ NewEntry(rec).filter_mode = NewMode(rec.type)
<1> DEFINE e == NewEntry(rec)
           in == rec.type \in {"IS_IN", "TO_IN", "ALLOW"}
           upd == IF rec.asm THEN "now" ELSE "never"
<1>1. rec.src \in SUBSET Sources /\ rec.static \in BOOLEAN
  BY DEF LegalRecord, Records
<1>2. upd \in UpdateTimes
  BY DEF UpdateTimes
<1>3. Timer(0, "STOP") \in Timers /\ Timer(GMI, "START") \in Timers
  BY TimerTypes DEF Flags
<1>4. IsFiniteSet(rec.src) /\ Cardinality(rec.src) \in Nat /\ Cardinality({}) = 0
  BY <1>1, FiniteAssumption, FS_Subset, FS_CardinalityType, FS_EmptySet
<1> HIDE DEF upd
<1>5. CASE in
  <2> DEFINE x == Refreshed(rec.src)
  <2>1. e = [filter_mode |-> "INCLUDE", src |-> x, aged |-> {}, grp_timer |-> Timer(0, "STOP"),
             static |-> rec.static, upd |-> upd]
    BY <1>5 DEF NewEntry, upd
  <2>2. x \in SrcList /\ DOMAIN x = rec.src
    BY <1>1, RecordLists
  <2> HIDE DEF x, e
  <2>3. /\ e \in Entry /\ e.src = x /\ e.aged = {} /\ e.filter_mode = "INCLUDE"
    BY <1>1, <1>2, <1>3, <2>1, <2>2 DEF Entry
  <2>4. Good(e)
    BY <2>3 DEF Good
  <2>5. rec.src # {}
    BY <1>5 DEF LegalRecord
  <2>6. mc_port_grp_exist(e)
    BY <2>2, <2>3, <2>5 DEF mc_port_grp_exist
  <2>7. Cardinality(DOMAIN e.src) + Cardinality(e.aged) <= MaxSrc
    BY <1>4, <2>2, <2>3 DEF LegalRecord
  <2>8. Full(e) /\ e.filter_mode = NewMode(rec.type)
    BY <1>5, <2>3, <2>4, <2>6, <2>7 DEF Full, NewMode
  <2> QED
    BY <2>8 DEF e
<1>6. CASE ~in
  <2> DEFINE x == <<>>
  <2>1. e = [filter_mode |-> "EXCLUDE", src |-> x, aged |-> rec.src,
             grp_timer |-> Timer(GMI, "START"), static |-> rec.static, upd |-> upd]
    BY <1>6 DEF NewEntry, upd
  <2>2. x \in SrcList /\ DOMAIN x = {}
    <3>1. x \in [{} -> Timers] /\ DOMAIN x = {}
      OBVIOUS
    <3> QED
      BY <3>1, PartialDef DEF SrcList
  <2> HIDE DEF x, e
  <2>3. /\ e \in Entry /\ e.src = x /\ e.aged = rec.src /\ e.filter_mode = "EXCLUDE"
    BY <1>1, <1>2, <1>3, <2>1, <2>2 DEF Entry
  <2>4. Good(e) /\ mc_port_grp_exist(e)
    BY <2>2, <2>3 DEF Good, mc_port_grp_exist
  <2>5. Cardinality(DOMAIN e.src) + Cardinality(e.aged) <= MaxSrc
    BY <1>4, <2>2, <2>3 DEF LegalRecord
  <2>6. Full(e) /\ e.filter_mode = NewMode(rec.type)
    BY <1>6, <2>3, <2>4, <2>5 DEF Full, NewMode
  <2> QED
    BY <2>6 DEF e
<1> QED
  BY <1>5, <1>6

\* Groups that have an entry.
LEMMA GroupExists ==
    ASSUME NEW n, Entries(n) \in SUBSET Keys
    PROVE  \A g : mc_grp_exist(n, g) <=> g \in GroupsOf(Entries(n))
<1>1. ASSUME NEW g, mc_grp_exist(n, g)
      PROVE  g \in GroupsOf(Entries(n))
  <2>1. PICK p \in Ports : <<g, p>> \in Entries(n)
    BY <1>1 DEF mc_grp_exist
  <2>2. <<g, p>>[1] = g
    OBVIOUS
  <2> QED
    BY <2>1, <2>2 DEF GroupsOf
<1>2. ASSUME NEW g \in GroupsOf(Entries(n))
      PROVE  mc_grp_exist(n, g)
  <2>1. PICK k \in Entries(n) : g = k[1]
    BY DEF GroupsOf
  <2>2. k = <<g, k[2]>> /\ k[2] \in Ports
    BY <2>1 DEF Keys
  <2> QED
    BY <2>2 DEF mc_grp_exist
<1> QED
  BY <1>1, <1>2

\* The node with the entry e at k, which is of a new group or not.
Added(n, k, e, new) ==
    [n EXCEPT !.tbl = [x \in DOMAIN @ \cup {k} |-> IF x = k THEN e ELSE @[x]],
              !.grp_count[k[2]] = @ + 1,
              !.cur_grp_num = IF new THEN @ + 1 ELSE @]

\* A new entry comes into the table and the switch.
LEMMA EntryArrives ==
    ASSUME NEW st, Sane(st), NEW k \in Keys, k \notin Entries(st.node), HwKey(k) \notin st.l2,
           NEW e, Full(e), NEW after, after.l2 = st.l2 \cup {HwKey(k)},
           NEW new, new = ~mc_grp_exist(st.node, k[1]),
           after.node = Added(st.node, k, e, new),
           ~(new /\ st.node.cur_grp_num = st.node.max_grp_num),
           st.node.grp_count[k[2]] # st.node.max_grp[k[2]]
    PROVE  /\ Follows(st, after)
           /\ Others(st.node, after.node, k)
           /\ k \in Entries(after.node) /\ after.node.tbl[k] = e
<1> DEFINE n == st.node
           m == after.node
           p == k[2]
           E == Entries(n)
           more == E \cup {k}
           T == [x \in DOMAIN n.tbl \cup {k} |-> IF x = k THEN e ELSE n.tbl[x]]
           C == [n.grp_count EXCEPT ![p] = n.grp_count[p] + 1]
           G == IF new THEN n.cur_grp_num + 1 ELSE n.cur_grp_num
<1>1. /\ n \in Node /\ E \in SUBSET Keys /\ n.tbl \in [E -> Entry]
      /\ n.grp_count \in [Ports -> Nat] /\ n.cur_grp_num \in Nat
      /\ n.max_grp_num \in 0..GrpCap /\ n.max_grp \in [Ports -> 0..PortGrpCap]
  BY NodeFields DEF Sane
<1>2. e \in Entry /\ p \in Ports
  BY DEF Full, Good, Keys
<1>3. DOMAIN n.tbl = E
  BY DEF Entries
<1>4. /\ T \in [more -> Entry] /\ DOMAIN T = more
      /\ T[k] = e /\ \A x \in E : T[x] = n.tbl[x]
  BY <1>1, <1>2, <1>3
<1>5. T \in PortTable
  BY <1>1, <1>4, PartialDef DEF PortTable
<1>6. C \in [Ports -> Nat] /\ \A q \in Ports : C[q] = n.grp_count[q] + (IF q = p THEN 1 ELSE 0)
  BY <1>1, <1>2
<1>7. G \in Nat
  BY <1>1
<1>8. m = [n EXCEPT !.tbl = T, !.grp_count = C, !.cur_grp_num = G]
  BY DEF Added
<1> HIDE DEF m, T, C, G
<1>9. /\ m \in Node /\ SameSettings(n, m)
      /\ m.tbl = T /\ m.grp_count = C /\ m.cur_grp_num = G
  BY <1>1, <1>5, <1>6, <1>7, <1>8 DEF Node, SameSettings
<1>10. Entries(m) = more
  BY <1>4, <1>9 DEF Entries
<1>11. /\ \A q : Cardinality(OfPort(more, q)) =
                        Cardinality(OfPort(E, q)) + (IF q = p THEN 1 ELSE 0)
       /\ Cardinality(GroupsOf(more)) =
                Cardinality(GroupsOf(E)) + (IF k[1] \in GroupsOf(E) THEN 0 ELSE 1)
  BY <1>1, EntryComes
<1>12. new <=> k[1] \notin GroupsOf(E)
  <2>1. mc_grp_exist(n, k[1]) <=> k[1] \in GroupsOf(E)
    BY <1>1, GroupExists
  <2> QED
    BY <2>1
<1>13. Exact(m)
  <2>1. ASSUME NEW q \in Ports
        PROVE  m.grp_count[q] = Cardinality(OfPort(Entries(m), q))
    <3>1. n.grp_count[q] = Cardinality(OfPort(E, q))
      BY DEF Sane, Exact
    <3>2. m.grp_count[q] = n.grp_count[q] + (IF q = p THEN 1 ELSE 0)
      BY <1>6, <1>9
    <3>3. Cardinality(OfPort(more, q)) = Cardinality(OfPort(E, q)) + (IF q = p THEN 1 ELSE 0)
      BY <1>11
    <3> QED
      BY <1>10, <3>1, <3>2, <3>3
  <2>2. m.cur_grp_num = Cardinality(GroupsOf(Entries(m)))
    <3>1. n.cur_grp_num = Cardinality(GroupsOf(E))
      BY DEF Sane, Exact
    <3> QED
      BY <1>1, <1>9, <1>10, <1>11, <1>12, <3>1 DEF G
  <2> QED
    BY <2>1, <2>2 DEF Exact
<1>14. Limits(n) => Limits(m)
  <2> SUFFICES ASSUME Limits(n)
               PROVE  Limits(m)
    OBVIOUS
  <2>1. ASSUME NEW q \in Ports
        PROVE  m.grp_count[q] <= m.max_grp[q]
    <3>1. n.grp_count[q] <= n.max_grp[q] /\ n.grp_count[q] \in Nat /\ n.max_grp[q] \in Nat
      BY <1>1 DEF Limits
    <3>2. m.grp_count[q] = n.grp_count[q] + (IF q = p THEN 1 ELSE 0) /\ m.max_grp = n.max_grp
      BY <1>6, <1>9 DEF SameSettings
    <3> QED
      BY <3>1, <3>2
  <2>2. m.cur_grp_num <= m.max_grp_num
    <3>1. n.cur_grp_num <= n.max_grp_num /\ m.max_grp_num = n.max_grp_num
      BY <1>9 DEF Limits, SameSettings
    <3> QED
      BY <1>1, <1>9, <3>1 DEF G
  <2> QED
    BY <2>1, <2>2 DEF Limits
<1>15. Sane(after)
  <2>1. \A j \in more : Full(m.tbl[j])
    BY <1>4, <1>9 DEF Sane
  <2>2. after.l2 = {HwKey(j) : j \in more}
    BY DEF Sane
  <2>3. \A i, j \in more : HwKey(i) = HwKey(j) => i = j
    BY DEF Sane
  <2> QED
    BY <1>9, <1>10, <1>13, <2>1, <2>2, <2>3 DEF Sane, m
<1>16. Others(n, m, k) /\ k \in Entries(m) /\ m.tbl[k] = e
  BY <1>4, <1>9, <1>10 DEF Others
<1> QED
  BY <1>9, <1>14, <1>15, <1>16 DEF Follows, m

\* A group that had no entry at the port has one, in the mode the record calls for.
Adds(st, k, rec, r) ==
    /\ Follows(st, r.st)
    /\ Others(st.node, r.st.node, k)
    /\ r.ret = "OK" => /\ k \in Entries(r.st.node)
                       /\ r.st.node.tbl[k].filter_mode = NewMode(rec.type)

\* mc_add_port_grp_entry.
LEMMA RecordAdds ==
    ASSUME NEW st, Sane(st), NEW k \in Keys, k \notin Entries(st.node), NEW rec, LegalRecord(rec)
    PROVE  Adds(st, k, rec, mc_add_port_grp_entry(st, k, rec))
<1> DEFINE n == st.node
           new == ~mc_grp_exist(n, k[1])
           e == NewEntry(rec)
           added == Added(n, k, e, new)
           res == mc_add_port_grp_entry(st, k, rec)
           useless == rec.type = "BLOCK" \/ (rec.type = "TO_IN" /\ rec.src = {})
           allgroups == new /\ n.cur_grp_num = n.max_grp_num
           portfull == n.grp_count[k[2]] = n.max_grp[k[2]]
           hw == st.l2 \cup {HwKey(k)}
<1>1. res = IF useless THEN Return("NOT_FOUND", n, st.l2)
            ELSE IF allgroups THEN Return("RESOURCE", n, st.l2)
            ELSE IF portfull THEN Return("RESOURCE", n, st.l2)
            ELSE IF HwKey(k) \in st.l2 THEN Return("ERROR", n, st.l2)
            ELSE Return("OK", added, hw)
  BY Zenon DEF mc_add_port_grp_entry, Added
<1> HIDE DEF res
<1>2. CASE useless \/ allgroups \/ portfull \/ HwKey(k) \in st.l2
  <2>1. PICK ret \in {"NOT_FOUND", "RESOURCE", "ERROR"} : res = Return(ret, n, st.l2)
    <3> HIDE DEF useless, allgroups, portfull
    <3> QED
      BY <1>1, <1>2
  <2>2. res.ret # "OK" /\ res.st = [node |-> n, l2 |-> st.l2]
    BY <2>1, ReturnParts
  <2>3. res.st.node = st.node /\ res.st.l2 = st.l2
    BY <2>2
  <2>4. Follows(st, res.st) /\ Others(st.node, res.st.node, k)
    BY <2>3, FollowsItself
  <2> QED
    BY <2>2, <2>4 DEF Adds, res
<1>3. CASE ~(useless \/ allgroups \/ portfull \/ HwKey(k) \in st.l2)
  <2>1. res = Return("OK", added, hw)
    <3> HIDE DEF useless, allgroups, portfull, added, hw
    <3> QED
      BY <1>1, <1>3
  <2>2. Full(e) /\ e.filter_mode = NewMode(rec.type)
    BY <1>3, NewEntryFull
  <2> DEFINE b == new
  <2>3. /\ res.ret = "OK" /\ res.st = [node |-> added, l2 |-> hw]
    <3> HIDE DEF added, hw
    <3> QED
      BY <2>1, ReturnParts
  <2>4. res.st.node = added /\ res.st.l2 = hw
    BY <2>3
  <2> HIDE DEF e
  <2> DEFINE after == res.st
  <2>5. /\ Follows(st, after) /\ Others(st.node, after.node, k)
        /\ k \in Entries(after.node) /\ after.node.tbl[k] = e
    <3>1. HwKey(k) \notin st.l2
      BY <1>3
    <3>2. after.l2 = st.l2 \cup {HwKey(k)}
      BY <2>4
    <3>3. PICK c : c = new
      OBVIOUS
    <3>4. c = ~mc_grp_exist(st.node, k[1])
      BY <3>3
    <3>5. after.node = Added(st.node, k, e, c)
      BY <2>4, <3>3
    <3>6. ~(c /\ st.node.cur_grp_num = st.node.max_grp_num)
      BY <1>3, <3>3
    <3>7. st.node.grp_count[k[2]] # st.node.max_grp[k[2]]
      BY <1>3
    <3>8. Full(e)
      BY <2>2
    <3> HIDE DEF after
    <3> QED
      BY <3>1, <3>2, <3>4, <3>5, <3>6, <3>7, <3>8, EntryArrives
  <2> QED
    BY <2>2, <2>3, <2>5 DEF Adds, res
<1> QED
  BY <1>2, <1>3

\* What mc_grp_record_handle makes of a record.
Handled(st, p, rec, late, r) ==
    LET k == <<rec.grp, p>> IN
    /\ Follows(st, r.st)
    /\ Others(st.node, r.st.node, k)
    /\ k \in Entries(st.node) => Updates(st, k, rec, late, r)
    /\ k \notin Entries(st.node) /\ st.node.mode = "SNOOPING" => Adds(st, k, rec, r)

\* mc_grp_record_handle.
LEMMA RecordHandled ==
    ASSUME NEW st, Sane(st), NEW p \in Ports, NEW rec, LegalRecord(rec), NEW late
    PROVE  Handled(st, p, rec, late, mc_grp_record_handle(st, p, rec, late))
<1> DEFINE k == <<rec.grp, p>>
           res == mc_grp_record_handle(st, p, rec, late)
           manual == st.node.mode = "MANUAL" /\ ~rec.static
<1>1. rec \in Records /\ rec.grp \in Groups
  BY DEF LegalRecord, Records
<1>2. k \in Keys
  BY <1>1 DEF Keys
<1>3. res = IF k \in Entries(st.node) THEN mc_update_port_grp_entry(st, k, rec, late)
            ELSE IF manual THEN Return("OK", st.node, st.l2)
            ELSE mc_add_port_grp_entry(st, k, rec)
  BY Zenon DEF mc_grp_record_handle
<1> HIDE DEF k, res
<1>4. CASE k \in Entries(st.node)
  <2>1. Updates(st, k, rec, late, res)
    BY <1>1, <1>3, <1>4, RecordUpdates
  <2> QED
    BY <1>4, <2>1 DEF Updates, Handled, k, res
<1>5. CASE k \notin Entries(st.node) /\ manual
  <2>1. res.st = [node |-> st.node, l2 |-> st.l2]
    BY <1>3, <1>5, ReturnParts
  <2>2. res.st.node = st.node /\ res.st.l2 = st.l2
    BY <2>1
  <2>3. Follows(st, res.st) /\ Others(st.node, res.st.node, k)
    BY <2>2, FollowsItself
  <2> QED
    BY <1>5, <2>3 DEF Handled, k, res
<1>6. CASE k \notin Entries(st.node) /\ ~manual
  <2>1. Adds(st, k, rec, res)
    BY <1>2, <1>3, <1>6, RecordAdds
  <2> QED
    BY <1>6, <2>1 DEF Adds, Handled, k, res
<1> QED
  BY <1>4, <1>5, <1>6

\* A group in exclude mode has an entry at the port.
Served(n, g, p) == <<g, p>> \in Entries(n) /\ n.tbl[<<g, p>>].filter_mode = "EXCLUDE"

\* A record that joins a group gets its port served in snooping mode, and does not end
\* the service of another group, nor of its own unless it is a TO_IN.
LEMMA RecordServes ==
    ASSUME NEW st, Sane(st), st.node.mode = "SNOOPING", NEW p \in Ports,
           NEW rec, LegalRecord(rec), NEW late, NEW r,
           r = mc_grp_record_handle(st, p, rec, late), r.ret = "OK"
    PROVE  /\ rec.type \in {"IS_EX", "TO_EX"} => Served(r.st.node, rec.grp, p)
           /\ \A g \in Groups : Served(st.node, g, p) /\ (g = rec.grp => rec.type # "TO_IN")
                    => Served(r.st.node, g, p)
<1> DEFINE k == <<rec.grp, p>>
           leave == st.node.leave_mode[k[2]]
           want == Table(StateOf(st.node.tbl[k]), rec.type, rec.src, leave)
<1>1. Handled(st, p, rec, late, r)
  BY RecordHandled
<1>2. rec.type \in RecordTypes /\ rec.grp \in Groups
  BY DEF LegalRecord, Records
<1>3. k[2] = p /\ k[1] = rec.grp /\ leave \in Leave
  BY NodeFields DEF Sane
<1> HIDE DEF leave
<1>4. ASSUME want.mode = "EXCLUDE", k \in Entries(st.node)
      PROVE  Served(r.st.node, rec.grp, p)
  <2>1. Reaches(r.st.node, k, want)
    BY <1>1, <1>4 DEF Handled, Updates, leave
  <2>2. want # State("INCLUDE", {}, {})
    BY <1>4 DEF State
  <2> HIDE DEF want
  <2>3. k \in Entries(r.st.node) /\ StateOf(r.st.node.tbl[k]) = want
    BY <2>1, <2>2 DEF Reaches
  <2>4. r.st.node.tbl[k].filter_mode = "EXCLUDE"
    BY <1>4, <2>3, StateParts
  <2> QED
    BY <2>3, <2>4 DEF Served
<1>5. ASSUME rec.type \in {"IS_EX", "TO_EX"}
      PROVE  Served(r.st.node, rec.grp, p)
  <2>1. CASE k \in Entries(st.node)
    <3>1. st.node.tbl[k] \in Entry
      BY <2>1 DEF Sane, Full, Good
    <3>2. StateOf(st.node.tbl[k]).mode \in {"INCLUDE", "EXCLUDE"}
      BY <3>1, EntryFields, StateParts
    <3>3. want.mode = "EXCLUDE"
      BY <1>3, <1>5, <3>2, GoesExclude
    <3> QED
      BY <1>4, <2>1, <3>3
  <2>2. CASE k \notin Entries(st.node)
    <3>1. Adds(st, k, rec, r)
      BY <1>1, <2>2 DEF Handled
    <3>2. NewMode(rec.type) = "EXCLUDE"
      BY <1>5 DEF NewMode
    <3> QED
      BY <3>1, <3>2 DEF Adds, Served
  <2> QED
    BY <2>1, <2>2
<1>6. ASSUME NEW g \in Groups, Served(st.node, g, p), g = rec.grp => rec.type # "TO_IN"
      PROVE  Served(r.st.node, g, p)
  <2>1. CASE g = rec.grp
    <3>1. StateOf(st.node.tbl[k]).mode = "EXCLUDE" /\ k \in Entries(st.node)
      BY <1>6, <2>1, StateParts DEF Served
    <3>2. want.mode = "EXCLUDE"
      BY <1>2, <1>3, <1>6, <2>1, <3>1, StaysExclude
    <3> QED
      BY <1>4, <2>1, <3>1, <3>2
  <2>2. CASE g # rec.grp
    <3>1. <<g, p>> \in Keys \ {k}
      BY <2>2 DEF Keys
    <3>2. Others(st.node, r.st.node, k)
      BY <1>1 DEF Handled
    <3> QED
      BY <1>6, <3>1, <3>2 DEF Others, Served
  <2> QED
    BY <2>1, <2>2
<1> QED
  BY <1>5, <1>6

(***************************************************************************)
(* A report                                                                *)
(***************************************************************************)
\* A set of natural numbers that is not empty has a least element.
LEMMA LeastNumber ==
    ASSUME NEW T \in SUBSET Nat, T # {}
    PROVE  \E k \in T : \A m \in T : k <= m
<1> DEFINE R == {ss \in Nat \X Nat : ss[1] < ss[2]}
<1>1. IsWellFoundedOn(R, Nat)
  BY NatLessThanWellFounded, Zenon DEF OpToRel
<1>2. \A m, k \in Nat : m < k => <<m, k>> \in R
  OBVIOUS
<1> HIDE DEF R
<1>3. PICK k \in T : \A m \in T : <<m, k>> \notin R
  BY <1>1, WFMin, Zenon
<1>4. \A m \in T : ~(m < k)
  BY <1>2, <1>3
<1> QED
  BY <1>4

\* Numbers up to N are in a set that has 0 and with each of them the next.
LEMMA UpTo ==
    ASSUME NEW N \in Nat, NEW T, 0 \in T, \A i \in 0..N : i < N /\ i \in T => i + 1 \in T
    PROVE  0..N \subseteq T
<1> DEFINE Out == {i \in 0..N : i \notin T}
<1>1. SUFFICES ASSUME Out # {} PROVE FALSE
  OBVIOUS
<1>2. Out \in SUBSET Nat
  OBVIOUS
<1> HIDE DEF Out
<1>3. PICK k \in Out : \A m \in Out : k <= m
  BY <1>1, <1>2, LeastNumber
<1>4. k \in 0..N /\ k \notin T /\ k # 0
  BY <1>3 DEF Out
<1>5. k - 1 \in 0..N /\ k - 1 < N /\ k - 1 + 1 = k /\ ~(k <= k - 1)
  BY <1>4
<1>6. k - 1 \in T
  BY <1>3, <1>5 DEF Out
<1> QED
  BY <1>4, <1>5, <1>6

\* The next record, unless one before it failed.
Then(before, p, rec, late) ==
    IF before.ret # "OK" THEN before ELSE mc_grp_record_handle(before.st, p, rec, late)

\* f holds the results after each of the first n records.
IsChain(f, st, p, recs, late, n) ==
    f = [i \in 0..n |-> IF i = 0 THEN [ret |-> "OK", st |-> st]
                        ELSE Then(f[i-1], p, recs[i], late)]

Chain(st, p, recs, late, n) == CHOOSE f : IsChain(f, st, p, recs, late, n)

\* A chain can be continued.
LEMMA ChainGoesOn ==
    ASSUME NEW st, NEW p, NEW recs, NEW late, NEW n \in Nat,
           NEW f, IsChain(f, st, p, recs, late, n)
    PROVE  \E g : IsChain(g, st, p, recs, late, n + 1)
<1> DEFINE g == [i \in 0..(n + 1) |->
                    IF i = n + 1 THEN Then(f[n], p, recs[n + 1], late) ELSE f[i]]
           h == [i \in 0..(n + 1) |-> IF i = 0 THEN [ret |-> "OK", st |-> st]
                                      ELSE Then(g[i-1], p, recs[i], late)]
<1>1. \A i \in 0..n : f[i] = IF i = 0 THEN [ret |-> "OK", st |-> st]
                             ELSE Then(f[i-1], p, recs[i], late)
  BY DEF IsChain
<1>2. /\ \A i \in 0..n : g[i] = f[i]
      /\ g[n + 1] = Then(f[n], p, recs[n + 1], late)
  OBVIOUS
<1>3. ASSUME NEW i \in 0..(n + 1)
      PROVE  g[i] = IF i = 0 THEN [ret |-> "OK", st |-> st]
                    ELSE Then(g[i-1], p, recs[i], late)
  <2> HIDE DEF g
  <2>1. CASE i = n + 1
    <3>1. i - 1 = n /\ i # 0 /\ n \in 0..n
      BY <2>1
    <3> QED
      BY <1>2, <2>1, <3>1
  <2>2. CASE i = 0
    <3>1. 0 \in 0..n
      OBVIOUS
    <3> QED
      BY <1>1, <1>2, <2>2, <3>1
  <2>3. CASE i # 0 /\ i # n + 1
    <3>1. i \in 0..n /\ i - 1 \in 0..n
      BY <2>3
    <3> QED
      BY <1>1, <1>2, <2>3, <3>1
  <2> QED
    BY <2>1, <2>2, <2>3
<1>4. g = h
  BY <1>3
<1>5. IsChain(g, st, p, recs, late, n + 1)
  BY <1>4, Zenon DEF IsChain
<1> QED
  BY <1>5

\* There is a chain of any length.
LEMMA ChainExists ==
    ASSUME NEW st, NEW p, NEW recs, NEW late, NEW n \in Nat
    PROVE  IsChain(Chain(st, p, recs, late, n), st, p, recs, late, n)
<1> DEFINE T == {i \in 0..n : \E f : IsChain(f, st, p, recs, late, i)}
<1>1. 0 \in T
  <2> DEFINE f == [i \in 0..0 |-> [ret |-> "OK", st |-> st]]
             g == [i \in 0..0 |-> IF i = 0 THEN [ret |-> "OK", st |-> st]
                                  ELSE Then(f[i-1], p, recs[i], late)]
  <2>1. \A i \in 0..0 : i = 0
    OBVIOUS
  <2>2. f = g
    BY <2>1
  <2>3. IsChain(f, st, p, recs, late, 0)
    BY <2>2, Zenon DEF IsChain
  <2>4. 0 \in 0..n
    OBVIOUS
  <2> QED
    BY <2>3, <2>4
<1>2. ASSUME NEW i \in 0..n, i < n, i \in T
      PROVE  i + 1 \in T
  <2>1. PICK f : IsChain(f, st, p, recs, late, i)
    BY <1>2
  <2>2. \E g : IsChain(g, st, p, recs, late, i + 1)
    BY <2>1, ChainGoesOn
  <2>3. i + 1 \in 0..n
    BY <1>2
  <2> QED
    BY <2>2, <2>3
<1> HIDE DEF T
<1>3. n \in 0..n
  OBVIOUS
<1>4. n \in T
  BY <1>1, <1>2, <1>3, UpTo
<1>5. \E f : IsChain(f, st, p, recs, late, n)
  BY <1>4 DEF T
<1> QED
  BY <1>5, Zenon DEF Chain

\* mc_grp_record_list_proc goes along the chain.
LEMMA ListIsChain ==
    ASSUME NEW st, NEW p, NEW recs, NEW late
    PROVE  mc_grp_record_list_proc(st, p, recs, late) =
                Chain(st, p, recs, late, Len(recs))[Len(recs)]
  BY DEF mc_grp_record_list_proc, Chain, IsChain, Then

\* The records of a legal report.
LegalRecords(recs) ==
    recs \in Seq(Records) /\ \A i \in DOMAIN recs : LegalRecord(recs[i])

\* The results along the chain.
LEMMA ChainSteps ==
    ASSUME NEW st, NEW p, NEW recs, NEW late, Len(recs) \in Nat
    PROVE  LET n == Len(recs)
               f == Chain(st, p, recs, late, n) IN
           /\ f[0] = [ret |-> "OK", st |-> st]
           /\ \A i \in 1..n : f[i] = Then(f[i-1], p, recs[i], late)
           /\ mc_grp_record_list_proc(st, p, recs, late) = f[n]
<1> DEFINE n == Len(recs)
           f == Chain(st, p, recs, late, n)
<1>1. IsChain(f, st, p, recs, late, n)
  BY ChainExists
<1>2. f[n] = mc_grp_record_list_proc(st, p, recs, late)
  BY ListIsChain
<1> HIDE DEF f
<1>3. \A i \in 0..n : f[i] = IF i = 0 THEN [ret |-> "OK", st |-> st]
                             ELSE Then(f[i-1], p, recs[i], late)
  BY <1>1 DEF IsChain
<1>4. 0 \in 0..n /\ \A i \in 1..n : i \in 0..n /\ i # 0
  OBVIOUS
<1>5. /\ f[0] = [ret |-> "OK", st |-> st]
      /\ \A i \in 1..n : f[i] = Then(f[i-1], p, recs[i], late)
  BY <1>3, <1>4
<1> QED
  BY <1>2, <1>5 DEF f

\* A report of one record.
LEMMA OneRecord ==
    ASSUME NEW st, NEW p, NEW recs, NEW late, Len(recs) = 1
    PROVE  mc_grp_record_list_proc(st, p, recs, late) =
                mc_grp_record_handle(st, p, recs[1], late)
<1> DEFINE f == Chain(st, p, recs, late, Len(recs))
<1>1. Len(recs) \in Nat
  OBVIOUS
<1>2. /\ f[0] = [ret |-> "OK", st |-> st]
      /\ \A i \in 1..Len(recs) : f[i] = Then(f[i-1], p, recs[i], late)
      /\ mc_grp_record_list_proc(st, p, recs, late) = f[Len(recs)]
  BY <1>1, ChainSteps
<1> HIDE DEF f
<1>3. 1 \in 1..Len(recs) /\ 1 - 1 = 0
  OBVIOUS
<1>4. f[1] = Then(f[0], p, recs[1], late)
  BY <1>2, <1>3
<1>5. f[0].ret = "OK" /\ f[0].st = st
  BY <1>2
<1> QED
  BY <1>2, <1>4, <1>5 DEF Then

\* Steps add up.
LEMMA FollowsOn ==
    ASSUME NEW st, NEW mid, Follows(st, mid), NEW after, Follows(mid, after)
    PROVE  Follows(st, after)
  BY DEF Follows, SameSettings

\* No record leaves a group that one before it in the same report joins.
NoLeaveAfterJoin(recs) ==
    \A i, j \in DOMAIN recs :
        i < j /\ recs[i].type \in {"IS_EX", "TO_EX"} /\ recs[j].grp = recs[i].grp
            => recs[j].type # "TO_IN"

\* mc_grp_record_list_proc.
LEMMA ListFollows ==
    ASSUME NEW st, Sane(st), NEW p \in Ports, NEW recs, LegalRecords(recs), NEW late,
           NEW r, r = mc_grp_record_list_proc(st, p, recs, late)
    PROVE  /\ Follows(st, r.st)
           /\ r.ret = "OK" /\ st.node.mode = "SNOOPING" /\ NoLeaveAfterJoin(recs) =>
                \A i \in DOMAIN recs : recs[i].type \in {"IS_EX", "TO_EX"} =>
                    Served(r.st.node, recs[i].grp, p)
<1> DEFINE n == Len(recs)
           f == Chain(st, p, recs, late, n)
           Joined(b, i) == \A j \in 1..i : recs[j].type \in {"IS_EX", "TO_EX"} =>
                                Served(b.st.node, recs[j].grp, p)
           Calm == st.node.mode = "SNOOPING" /\ NoLeaveAfterJoin(recs)
           T == {i \in 0..n : /\ Follows(st, f[i].st)
                              /\ f[i].ret = "OK" /\ Calm => Joined(f[i], i)}
<1>1. n \in Nat /\ DOMAIN recs = 1..n /\ \A i \in 1..n : LegalRecord(recs[i])
  BY DEF LegalRecords
<1>2. /\ f[0] = [ret |-> "OK", st |-> st]
      /\ \A i \in 1..n : f[i] = Then(f[i-1], p, recs[i], late)
      /\ r = f[n]
  BY <1>1, ChainSteps
<1> HIDE DEF n, f, Calm
<1>3. 0 \in T
  <2>1. Follows(st, st)
    BY FollowsItself
  <2>2. f[0].st = st
    BY <1>2
  <2>3. 0 \in 0..n /\ 1..0 = {}
    BY <1>1
  <2> QED
    BY <2>1, <2>2, <2>3
<1>4. ASSUME NEW i \in 0..n, i < n, i \in T
      PROVE  i + 1 \in T
  <2> DEFINE b == f[i]
             a == f[i + 1]
             rec == recs[i + 1]
  <2>1. i + 1 \in 1..n /\ i + 1 \in 0..n /\ i + 1 - 1 = i
    BY <1>1, <1>4
  <2>2. a = Then(b, p, rec, late)
    BY <1>2, <2>1
  <2>3. LegalRecord(rec)
    BY <1>1, <2>1
  <2>4. Follows(st, b.st) /\ (b.ret = "OK" /\ Calm => Joined(b, i))
    BY <1>4
  <2>5. CASE b.ret # "OK"
    <3>1. a = b
      BY <2>2, <2>5 DEF Then
    <3> QED
      BY <2>1, <2>4, <2>5, <3>1
  <2>6. CASE b.ret = "OK"
    <3> HIDE DEF a, b, rec
    <3>1. a = mc_grp_record_handle(b.st, p, rec, late)
      BY <2>2, <2>6 DEF Then
    <3>2. Sane(b.st)
      BY <2>4 DEF Follows
    <3>3. Follows(b.st, a.st)
      <4>1. Handled(b.st, p, rec, late, a)
        BY <2>3, <3>1, <3>2, RecordHandled
      <4> QED
        BY <4>1 DEF Handled
    <3>4. Follows(st, a.st)
      BY <2>4, <3>3, FollowsOn
    <3>5. ASSUME a.ret = "OK", Calm
          PROVE  Joined(a, i + 1)
      <4>1. b.st.node.mode = "SNOOPING"
        BY <2>4, <3>5 DEF Calm, Follows, SameSettings
      <4>2. /\ rec.type \in {"IS_EX", "TO_EX"} => Served(a.st.node, rec.grp, p)
            /\ \A g \in Groups : Served(b.st.node, g, p) /\ (g = rec.grp => rec.type # "TO_IN")
                    => Served(a.st.node, g, p)
        BY <2>3, <3>1, <3>2, <3>5, <4>1, RecordServes
      <4>3. ASSUME NEW j \in 1..(i + 1), recs[j].type \in {"IS_EX", "TO_EX"}
            PROVE  Served(a.st.node, recs[j].grp, p)
        <5>1. CASE j = i + 1
          BY <4>2, <4>3, <5>1 DEF rec
        <5>2. CASE j # i + 1
          <6>1. j \in 1..i /\ j \in 1..n /\ j < i + 1
            BY <1>1, <2>1, <5>2
          <6>2. Served(b.st.node, recs[j].grp, p)
            BY <2>4, <2>6, <3>5, <4>3, <6>1
          <6>3. recs[j].grp = rec.grp => rec.type # "TO_IN"
            BY <1>1, <2>1, <3>5, <4>3, <6>1 DEF Calm, NoLeaveAfterJoin, rec
          <6>4. recs[j].grp \in Groups
            BY <1>1, <6>1 DEF LegalRecord, Records
          <6> QED
            BY <4>2, <6>2, <6>3, <6>4
        <5> QED
          BY <5>1, <5>2
      <4> QED
        BY <4>3
    <3> HIDE DEF Joined
    <3> QED
      BY <2>1, <3>4, <3>5 DEF a
  <2> QED
    BY <2>5, <2>6
<1>5. n \in 0..n
  BY <1>1
<1> HIDE DEF T
<1>6. n \in T
  BY <1>1, <1>3, <1>4, <1>5, UpTo
<1>7. Follows(st, r.st) /\ (r.ret = "OK" /\ Calm => Joined(r, n))
  BY <1>2, <1>6 DEF T
<1> QED
  BY <1>1, <1>7 DEF Calm

(***************************************************************************)
(* Ageing and flushes                                                      *)
(***************************************************************************)
\* One tick of an entry: what the host wanted and no longer wants may go, and the
\* entry still fits.
LEMMA AgeEntry ==
    ASSUME NEW e, Full(e)
    PROVE  LET a == mc_port_fdb_age(e) IN
           /\ Good(a) /\ (mc_port_grp_exist(a) => Full(a))
           /\ ~mc_port_grp_exist(a) => AgedChanged(e)
           /\ a.filter_mode = (IF GroupEnds(e) THEN "INCLUDE" ELSE e.filter_mode)
           /\ a.grp_timer = (IF e.filter_mode = "EXCLUDE" THEN mc_timer_age(e.grp_timer, e.static)
                             ELSE e.grp_timer)
           /\ DOMAIN a.src = DOMAIN e.src \ SourcesEnd(e)
           /\ \A s \in DOMAIN a.src : a.src[s] = mc_timer_age(e.src[s], FALSE)
           /\ a.static = e.static
<1> DEFINE a == mc_port_fdb_age(e)
           S == SourcesEnd(e)
           mode == IF GroupEnds(e) THEN "INCLUDE" ELSE e.filter_mode
           t == IF e.filter_mode = "EXCLUDE" THEN mc_timer_age(e.grp_timer, e.static) ELSE e.grp_timer
           x == [s \in DOMAIN e.src \ S |-> mc_timer_age(e.src[s], FALSE)]
           y == IF GroupEnds(e) THEN {}
                ELSE IF e.filter_mode = "EXCLUDE" THEN e.aged \cup S ELSE e.aged
           u == CASE e.upd = "now" -> "last" [] e.upd = "last" -> "old" [] OTHER -> e.upd
<1>1. /\ e \in Entry /\ DOMAIN e.src \cap e.aged = {} /\ (e.filter_mode = "INCLUDE" => e.aged = {})
      /\ Cardinality(DOMAIN e.src) + Cardinality(e.aged) <= MaxSrc
      /\ mc_port_grp_exist(e)
  BY DEF Full, Good
<1>2. /\ e.src \in SrcList /\ e.aged \in SUBSET Sources /\ DOMAIN e.src \in SUBSET Sources
      /\ e.filter_mode \in {"INCLUDE", "EXCLUDE"} /\ e.grp_timer \in Timers
      /\ e.static \in BOOLEAN /\ e.upd \in UpdateTimes
  BY <1>1, EntryFields
<1>3. e.src \in [DOMAIN e.src -> Timers]
  BY <1>2, PartialDef DEF SrcList
<1>4. S \in SUBSET DOMAIN e.src
  BY DEF SourcesEnd
<1>5. GroupEnds(e) => e.filter_mode = "EXCLUDE"
  BY DEF GroupEnds
<1>6. u \in UpdateTimes
  <2>1. u \in {"last", "old", e.upd}
    BY Zenon
  <2> HIDE DEF u
  <2> QED
    BY <1>2, <2>1 DEF UpdateTimes
<1>7. a = [e EXCEPT !.filter_mode = mode, !.grp_timer = t, !.src = x, !.aged = y, !.upd = u]
  BY DEF mc_port_fdb_age
<1> HIDE DEF S, a
<1>8. mode \in {"INCLUDE", "EXCLUDE"}
  BY <1>2
<1>9. t \in Timers
  BY <1>2, TimerTypes
<1>10. /\ x \in SrcList /\ DOMAIN x = DOMAIN e.src \ S
       /\ \A s \in DOMAIN x : x[s] = mc_timer_age(e.src[s], FALSE)
  <2>1. \A s \in DOMAIN e.src \ S : mc_timer_age(e.src[s], FALSE) \in Timers
    BY <1>3, TimerTypes
  <2>2. x \in [DOMAIN x -> Timers] /\ DOMAIN x = DOMAIN e.src \ S
    BY <2>1
  <2>3. DOMAIN x \subseteq Sources
    BY <1>2, <2>2
  <2>4. x \in SrcList
    BY <2>2, <2>3, PartialDef DEF SrcList
  <2> QED
    BY <2>2, <2>4
<1>11. y \in SUBSET Sources
  BY <1>2, <1>4
<1> HIDE DEF u, x, t
<1>12. y \subseteq e.aged \cup S /\ (mode = "INCLUDE" => y = {})
  BY <1>1, <1>2, <1>5
<1> HIDE DEF mode, y
<1>13. /\ a \in Entry /\ a.filter_mode = mode /\ a.grp_timer = t /\ a.src = x /\ a.aged = y
       /\ a.static = e.static
  BY <1>1, <1>2, <1>6, <1>7, <1>8, <1>9, <1>10, <1>11 DEF Entry
<1>14. Good(a)
  BY <1>1, <1>4, <1>10, <1>12, <1>13 DEF Good
<1>15. Cardinality(DOMAIN x) + Cardinality(y) <= MaxSrc
  <2>1. IsFiniteSet(DOMAIN e.src) /\ IsFiniteSet(e.aged)
    BY <1>2, FiniteAssumption, FS_Subset
  <2>2. IsFiniteSet(S)
    BY <1>4, <2>1, FS_Subset
  <2>3. /\ Cardinality(DOMAIN e.src) \in Nat /\ Cardinality(e.aged) \in Nat
        /\ Cardinality(S) \in Nat
    BY <2>1, <2>2, FS_CardinalityType
  <2>4. Cardinality(DOMAIN x) = Cardinality(DOMAIN e.src) - Cardinality(S)
    <3>1. DOMAIN e.src \cap S = S
      BY <1>4
    <3> QED
      BY <1>10, <2>1, <3>1, FS_Difference
  <2>5. Cardinality(e.aged \cup S) = Cardinality(e.aged) + Cardinality(S)
    <3>1. e.aged \cap S = {}
      BY <1>1, <1>4
    <3>2. Cardinality(e.aged \cap S) = 0
      BY <3>1, FS_EmptySet
    <3>3. Cardinality(e.aged \cup S) =
            Cardinality(e.aged) + Cardinality(S) - Cardinality(e.aged \cap S)
      BY <2>1, <2>2, FS_Union
    <3> QED
      BY <2>3, <3>2, <3>3
  <2>6. IsFiniteSet(e.aged \cup S)
    BY <2>1, <2>2, FS_Union
  <2>7. Cardinality(y) \in Nat /\ Cardinality(y) <= Cardinality(e.aged \cup S)
    BY <1>12, <2>6, FS_Subset, FS_CardinalityType
  <2> QED
    BY <1>1, <2>3, <2>4, <2>5, <2>7, SrcAssumption
<1>16. ~mc_port_grp_exist(a) => AgedChanged(e)
  <2> SUFFICES ASSUME ~GroupEnds(e), S = {}
               PROVE  mc_port_grp_exist(a)
    BY DEF AgedChanged, S
  <2>1. mode = e.filter_mode /\ DOMAIN x = DOMAIN e.src
    BY <1>10 DEF mode
  <2> QED
    BY <1>1, <1>13, <2>1 DEF mc_port_grp_exist
<1>17. mc_port_grp_exist(a) => Full(a)
  BY <1>13, <1>14, <1>15 DEF Full
<1>18. /\ DOMAIN a.src = DOMAIN e.src \ S
       /\ \A s \in DOMAIN a.src : a.src[s] = mc_timer_age(e.src[s], FALSE)
  BY <1>10, <1>13
<1>19. a.filter_mode = mode /\ a.grp_timer = t /\ a.static = e.static
  BY <1>13
<1> QED
  BY <1>14, <1>16, <1>17, <1>18, <1>19 DEF a, S, mode, t

\* mc_fdb_age: one tick.
LEMMA AgeDoes ==
    ASSUME NEW st, Sane(st), NEW r, r = mc_fdb_age(st)
    PROVE  /\ Follows(st, r)
           /\ Entries(r.node) = Entries(st.node) \ AgedOut(st.node)
           /\ \A k \in Entries(r.node) : r.node.tbl[k] = mc_port_fdb_age(st.node.tbl[k])
<1> DEFINE gone == AgedOut(st.node)
           n == Without(st.node, gone)
           InSwitch(ks) == {HwKey(k) : k \in {j \in ks : AgedChanged(st.node.tbl[j])}}
           mid == [node |-> n, l2 |-> st.l2 \ HwKeys(gone)]
           T == [k \in Entries(n) |-> mc_port_fdb_age(n.tbl[k])]
<1>1. gone \in SUBSET Entries(st.node)
  BY DEF AgedOut
<1>2. \A k \in Entries(st.node) : Full(st.node.tbl[k])
  BY DEF Sane
<1>3. \A k \in gone : AgedChanged(st.node.tbl[k])
  BY <1>2, AgeEntry DEF AgedOut
<1>4. \A k \in Entries(st.node) \ gone : Full(mc_port_fdb_age(st.node.tbl[k]))
  BY <1>2, AgeEntry DEF AgedOut
<1>5. r = [node |-> [n EXCEPT !.tbl = T], l2 |-> (st.l2 \ InSwitch(gone)) \cup InSwitch(Entries(n))]
  BY DEF mc_fdb_age, Entries
<1> HIDE DEF gone, n
<1>6. mid.node = Without(st.node, gone) /\ mid.l2 = st.l2 \ HwKeys(gone)
  BY DEF n
<1> DEFINE m == mid
<1>7. m.node = Without(st.node, gone) /\ m.l2 = st.l2 \ HwKeys(gone) /\ m.node = n
  BY <1>6
<1> HIDE DEF m
<1>8. /\ Follows(st, m)
      /\ Entries(m.node) = Entries(st.node) \ gone
      /\ \A k \in Entries(m.node) : m.node.tbl[k] = st.node.tbl[k]
  <2>1. m.node = Without(st.node, gone)
    BY <1>7
  <2>2. m.l2 = st.l2 \ HwKeys(gone)
    BY <1>7
  <2> QED
    BY <1>1, <2>1, <2>2, EntriesLeave
<1>9. T \in [Entries(m.node) -> Entry] /\ \A k \in Entries(m.node) : Full(T[k])
  <2>1. \A k \in Entries(m.node) : Full(mc_port_fdb_age(m.node.tbl[k]))
    BY <1>4, <1>8
  <2>2. \A k \in Entries(m.node) : mc_port_fdb_age(m.node.tbl[k]) \in Entry
    BY <2>1 DEF Full, Good
  <2> QED
    BY <1>7, <2>1, <2>2
<1>10. (st.l2 \ InSwitch(gone)) \cup InSwitch(Entries(n)) = m.l2
  <2>1. InSwitch(gone) = HwKeys(gone)
    BY <1>3 DEF HwKeys
  <2>2. InSwitch(Entries(n)) \subseteq m.l2
    BY <1>7, <1>8 DEF Follows, Sane
  <2> QED
    BY <1>7, <2>1, <2>2
<1> DEFINE after == [node |-> [m.node EXCEPT !.tbl = T], l2 |-> m.l2]
<1>11. r = after
  BY <1>5, <1>7, <1>10
<1>12. \A k \in Entries(m.node) : T[k] = mc_port_fdb_age(st.node.tbl[k])
  BY <1>7, <1>8
<1> HIDE DEF T
<1>13. /\ Follows(m, after) /\ Entries(after.node) = Entries(m.node) /\ after.node.tbl = T
  <2>1. Sane(m)
    BY <1>8 DEF Follows
  <2> QED
    BY <1>9, <2>1, EntriesChange
<1> HIDE DEF after
<1>14. Follows(st, r)
  BY <1>8, <1>11, <1>13, FollowsOn
<1> QED
  BY <1>8, <1>11, <1>12, <1>13, <1>14 DEF gone

\* mc_port_fdb_flush: the entries of some ports.
LEMMA FlushDoes ==
    ASSUME NEW st, Sane(st), NEW ports, NEW r, r = mc_port_fdb_flush(st, ports)
    PROVE  /\ Follows(st, r)
           /\ Entries(r.node) = {k \in Entries(st.node) : k[2] \notin ports}
           /\ \A p \in Ports : /\ p \in ports => r.node.grp_count[p] = 0
                               /\ r.node.grp_count[p] <= st.node.grp_count[p]
           /\ r.node.cur_grp_num <= st.node.cur_grp_num
<1> DEFINE gone == {k \in Entries(st.node) : k[2] \in ports}
<1>1. r.node = Without(st.node, gone)
  BY DEF mc_port_fdb_flush
<1>2. r.l2 = st.l2 \ HwKeys(gone)
  BY DEF mc_port_fdb_flush, HwKeys
<1>3. gone \in SUBSET Entries(st.node)
  OBVIOUS
<1>4. Entries(st.node) \ gone = {k \in Entries(st.node) : k[2] \notin ports}
  OBVIOUS
<1> HIDE DEF gone
<1>5. /\ Follows(st, r)
      /\ Entries(r.node) = Entries(st.node) \ gone
      /\ \A p \in Ports : r.node.grp_count[p] <= st.node.grp_count[p]
      /\ r.node.cur_grp_num <= st.node.cur_grp_num
  BY <1>1, <1>2, <1>3, EntriesLeave
<1>6. ASSUME NEW p \in Ports, p \in ports
      PROVE  r.node.grp_count[p] = 0
  <2>1. OfPort(Entries(r.node), p) = {}
    BY <1>4, <1>5, <1>6 DEF OfPort
  <2>2. r.node.grp_count[p] = Cardinality(OfPort(Entries(r.node), p))
    BY <1>5 DEF Follows, Sane, Exact
  <2> QED
    BY <2>1, <2>2, FS_EmptySet
<1> QED
  BY <1>4, <1>5, <1>6

\* mc_fdb_flush: all of them, after which no limit can be exceeded.
LEMMA FlushAll ==
    ASSUME NEW st, Sane(st), NEW r, r = mc_fdb_flush(st)
    PROVE  /\ Sane(r) /\ SameSettings(st.node, r.node) /\ Limits(r.node)
           /\ Entries(r.node) = {}
           /\ r = [node |-> r.node, l2 |-> r.l2]
<1> DEFINE f == mc_port_fdb_flush(st, Ports)
<1>1. /\ Follows(st, f)
      /\ Entries(f.node) = {k \in Entries(st.node) : k[2] \notin Ports}
      /\ \A p \in Ports : f.node.grp_count[p] = 0
  BY FlushDoes
<1>2. Entries(f.node) = {}
  <2>1. \A k \in Entries(st.node) : k[2] \in Ports
    BY NodeFields DEF Sane, Keys
  <2> QED
    BY <1>1, <2>1
<1>3. f.node \in Node /\ f.node.cur_grp_num = 0
  <2>1. GroupsOf({}) = {}
    BY DEF GroupsOf
  <2> QED
    BY <1>1, <1>2, <2>1, FS_EmptySet DEF Follows, Sane, Exact
<1>4. r = [f EXCEPT !.node.cur_grp_num = 0]
  BY DEF mc_fdb_flush
<1>5. f = [node |-> f.node, l2 |-> f.l2]
  BY DEF mc_port_fdb_flush
<1>6. /\ r.l2 = f.l2 /\ r.node = [f.node EXCEPT !.cur_grp_num = 0]
      /\ r = [node |-> r.node, l2 |-> r.l2]
  <2> DEFINE a == f.node
             b == f.l2
  <2>1. r = [[node |-> a, l2 |-> b] EXCEPT !.node.cur_grp_num = 0]
    BY <1>4, <1>5
  <2> HIDE DEF a, b
  <2>2. r = [node |-> [a EXCEPT !.cur_grp_num = 0], l2 |-> b]
    BY <2>1
  <2> DEFINE c == [a EXCEPT !.cur_grp_num = 0]
  <2>3. r = [node |-> c, l2 |-> b] /\ c = [a EXCEPT !.cur_grp_num = 0]
    BY <2>2
  <2> HIDE DEF c
  <2>4. r.node = c /\ r.l2 = b /\ r = [node |-> r.node, l2 |-> r.l2]
    BY <2>3
  <2> QED
    BY <2>3, <2>4 DEF a, b
<1> HIDE DEF f
<1>7. r.node = f.node
  BY <1>3, <1>6 DEF Node
<1>8. Sane(r) /\ SameSettings(st.node, r.node)
  BY <1>1, <1>6, <1>7 DEF Follows, Sane
<1>9. Limits(r.node)
  <2>1. /\ r.node.max_grp \in [Ports -> 0..PortGrpCap] /\ r.node.max_grp_num \in 0..GrpCap
    BY <1>3, <1>7, NodeFields
  <2> QED
    BY <1>1, <1>3, <1>7, <2>1 DEF Limits
<1> QED
  BY <1>2, <1>6, <1>7, <1>8, <1>9

(***************************************************************************)
(* The invariant                                                           *)
(***************************************************************************)
Inv == Sane(Now) /\ Limits(node) /\ changes \in 0..MaxChanges

\* The reports are those of hosts that keep to the protocol: none is illegal.
LegalReports == \A r \in Reports : LegalRecords(r[2])

\* The current state.
LEMMA NowParts == Now.node = node /\ Now.l2 = l2
  BY DEF Now

\* What has the same parts as a sane state is one.
LEMMA SameSane ==
    ASSUME NEW st, Sane(st), NEW after, after.node = st.node, after.l2 = st.l2
    PROVE  Sane(after)
  BY DEF Sane

\* A step to a sane state within the limits keeps the invariant.
LEMMA InvStep ==
    ASSUME NEW st, Sane(st), Limits(st.node), Becomes(st), changes' \in 0..MaxChanges
    PROVE  Inv'
<1>1. node' = st.node /\ l2' = st.l2
  BY DEF Becomes
<1>2. Now' = [node |-> st.node, l2 |-> st.l2]
  BY <1>1 DEF Now
<1> DEFINE now == [node |-> st.node, l2 |-> st.l2]
<1>3. now.node = st.node /\ now.l2 = st.l2
  OBVIOUS
<1> HIDE DEF now
<1>4. Sane(now)
  BY <1>3, SameSane
<1>5. Sane(Now)'
  BY <1>2, <1>4 DEF now
<1> QED
  BY <1>1, <1>5 DEF Inv

\* So does one to a state that follows.
LEMMA InvFollows ==
    ASSUME Inv, NEW st, Follows(Now, st), Becomes(st), changes' = changes
    PROVE  Inv'
<1>1. Limits(st.node) /\ Sane(st)
  BY NowParts DEF Inv, Follows
<1>2. changes' \in 0..MaxChanges
  BY DEF Inv
<1> QED
  BY <1>1, <1>2, InvStep

\* A setting that the entries and their counters do not depend on.
LEMMA SettingSane ==
    ASSUME NEW st, Sane(st), NEW after, after.l2 = st.l2, after.node \in Node,
           after.node.tbl = st.node.tbl, after.node.grp_count = st.node.grp_count,
           after.node.cur_grp_num = st.node.cur_grp_num
    PROVE  Sane(after) /\ Entries(after.node) = Entries(st.node)
<1>1. Entries(after.node) = Entries(st.node)
  BY DEF Entries
<1>2. Exact(after.node)
  BY <1>1 DEF Exact, Sane
<1> QED
  BY <1>1, <1>2 DEF Sane

\* The empty table of mc_node_init.
LEMMA InvInit == Init => Inv
<1> SUFFICES ASSUME Init PROVE Inv
  OBVIOUS
<1>1. node = [tbl |-> <<>>, grp_count |-> [p \in Ports |-> 0], cur_grp_num |-> 0,
             max_grp_num |-> GrpCap, max_grp |-> [p \in Ports |-> PortGrpCap],
             leave_mode |-> [p \in Ports |-> "NON_FAST"], mode |-> "DISABLE"]
  BY DEF Init
<1>2. <<>> \in PortTable
  <2>1. <<>> \in [{} -> Entry] /\ DOMAIN <<>> = {}
    OBVIOUS
  <2> QED
    BY <2>1, PartialDef DEF PortTable
<1>3. node \in Node
  BY <1>1, <1>2, LimitAssumption DEF Node, Leave
<1>4. Entries(node) = {}
  BY <1>1 DEF Entries
<1>5. /\ \A p \in Ports : node.grp_count[p] = 0 /\ node.max_grp[p] = PortGrpCap
      /\ node.cur_grp_num = 0 /\ node.max_grp_num = GrpCap
  BY <1>1
<1>6. Exact(node)
  <2>1. GroupsOf({}) = {} /\ \A p : OfPort({}, p) = {}
    BY DEF GroupsOf, OfPort
  <2> QED
    BY <1>4, <1>5, <2>1, FS_EmptySet DEF Exact
<1>7. l2 = {HwKey(k) : k \in Entries(node)}
  BY <1>4 DEF Init
<1>8. Sane(Now)
  BY <1>3, <1>4, <1>6, <1>7, NowParts DEF Sane
<1>9. Limits(node)
  BY <1>5, LimitAssumption DEF Limits
<1> QED
  BY <1>8, <1>9, LimitAssumption DEF Inv, Init

\* The groups the OLT can name.
LEMMA NamedGroup ==
    ASSUME NEW mac \in Range(Mac)
    PROVE  mc_mac_to_ip(mac) \in Groups
<1>1. PICK g \in Groups : Mac[g] = mac
  BY MacAssumption DEF Range
<1>2. DftGroup[g] \in Groups /\ Mac[DftGroup[g]] = mac /\ DftGroup[DftGroup[g]] = DftGroup[g]
  BY <1>1, DftAssumption
<1> QED
  BY <1>2 DEF mc_mac_to_ip

\* What the parsers make of legal records is legal.
LEMMA ParsedLegal ==
    ASSUME NEW n, NEW recs, LegalRecords(recs)
    PROVE  LegalRecords(Parsed(n, recs)) /\ Len(Parsed(n, recs)) = Len(recs)
<1> DEFINE G(g) == mc_set_dft_ip(n, g)
           new == [i \in DOMAIN recs |-> [recs[i] EXCEPT !.grp = G(@)]]
<1>1. recs \in Seq(Records) /\ \A i \in DOMAIN recs : LegalRecord(recs[i])
  BY DEF LegalRecords
<1>2. \A g \in Groups : G(g) \in Groups
  BY DftAssumption DEF mc_set_dft_ip
<1> HIDE DEF G
<1>3. ASSUME NEW i \in DOMAIN recs
      PROVE  LegalRecord(new[i])
  <2> DEFINE rec == recs[i]
             r == [rec EXCEPT !.grp = G(@)]
  <2>1. rec \in Records /\ LegalRecord(rec)
    BY <1>1 DEF LegalRecord
  <2> HIDE DEF rec
  <2>2. G(rec.grp) \in Groups
    BY <1>2, <2>1 DEF Records
  <2>3. r \in Records /\ r.src = rec.src /\ r.type = rec.type
    BY <2>1, <2>2 DEF Records
  <2> HIDE DEF r
  <2>4. LegalRecord(r)
    BY <2>1, <2>3 DEF LegalRecord
  <2> QED
    BY <2>4 DEF r, rec
<1>4. Len(recs) \in Nat /\ DOMAIN recs = 1..Len(recs)
  BY <1>1
<1>5. new \in Seq(Records) /\ Len(new) = Len(recs) /\ DOMAIN new = DOMAIN recs
  <2>1. \A i \in 1..Len(recs) : new[i] \in Records
    BY <1>3, <1>4 DEF LegalRecord
  <2>2. DOMAIN new = 1..Len(recs)
    BY <1>4
  <2>3. new = [i \in 1..Len(recs) |-> new[i]]
    BY <1>4
  <2> HIDE DEF new
  <2>4. new \in [1..Len(recs) -> Records]
    BY <2>1, <2>3
  <2> QED
    BY <1>4, <2>2, <2>4
<1>6. Parsed(n, recs) = new
  BY DEF Parsed, G
<1> HIDE DEF new
<1> QED
  BY <1>3, <1>5, <1>6 DEF LegalRecords

\* The OLT's entry is a legal record.
LEMMA StaticLegal ==
    ASSUME NEW g \in Groups, NEW static \in BOOLEAN
    PROVE  LET rec == [StaticRecord(g) EXCEPT !.static = static] IN
           /\ LegalRecord(rec) /\ rec.grp = g /\ rec.type = "IS_EX" /\ rec.src = {}
           /\ LegalRecord(StaticRecord(g))
<1> DEFINE s == StaticRecord(g)
           rec == [s EXCEPT !.static = static]
<1>1. Cardinality({}) = 0
  BY FS_EmptySet
<1>2. s \in Records /\ s.grp = g /\ s.type = "IS_EX" /\ s.src = {}
  BY DEF StaticRecord, Records, RecordTypes
<1> HIDE DEF s
<1>3. rec \in Records /\ rec.grp = g /\ rec.type = "IS_EX" /\ rec.src = {}
  BY <1>2 DEF Records
<1> HIDE DEF rec
<1>4. LegalRecord(rec) /\ LegalRecord(s)
  BY <1>1, <1>2, <1>3, SrcAssumption DEF LegalRecord
<1> QED
  BY <1>3, <1>4 DEF rec, s

\* What a query leaves of an entry.
Asked(e, p, below) == [e EXCEPT !.upd = Earlier(@, p \in below)]

\* What a query does to the table: nothing to the switch, the counters or the timers.
QueryDoes(st, g, below, after) ==
    /\ Follows(st, after) /\ Entries(after.node) = Entries(st.node)
    /\ \A k \in Entries(st.node) : k[1] = g =>
            after.node.tbl[k] = Asked(st.node.tbl[k], k[2], below)

\* A query writes update_time only.
LEMMA QueryFollows ==
    ASSUME NEW st, Sane(st), NEW g, NEW below, NEW after,
           after.node = Queried(st.node, g, below), after.l2 = st.l2
    PROVE  QueryDoes(st, g, below, after)
<1> DEFINE n == st.node
           T == [k \in Entries(n) |-> 
                   IF k[1] = g THEN [n.tbl[k] EXCEPT !.upd = Earlier(@, k[2] \in below)]
                   ELSE n.tbl[k]]
           r == [node |-> [n EXCEPT !.tbl = T], l2 |-> st.l2]
<1>1. ASSUME NEW e, Full(e), NEW wraps
      PROVE  Full([e EXCEPT !.upd = Earlier(@, wraps)])
  <2> DEFINE f == [e EXCEPT !.upd = Earlier(@, wraps)]
  <2>1. e \in Entry
    BY <1>1 DEF Full, Good
  <2>2. Earlier(e.upd, wraps) \in UpdateTimes
    BY DEF Earlier, UpdateTimes
  <2>3. f \in Entry /\ f.filter_mode = e.filter_mode /\ f.src = e.src /\ f.aged = e.aged
    BY <2>1, <2>2 DEF Entry
  <2> HIDE DEF f
  <2>4. Full(f)
    BY <1>1, <2>3 DEF Full, Good, mc_port_grp_exist
  <2> QED
    BY <2>4 DEF f
<1>2. \A k \in Entries(n) : Full(T[k])
  <2> SUFFICES ASSUME NEW k \in Entries(n) PROVE Full(T[k])
    OBVIOUS
  <2>1. Full(n.tbl[k])
    BY DEF Sane
  <2>2. Full([n.tbl[k] EXCEPT !.upd = Earlier(@, k[2] \in below)])
    BY <1>1, <2>1
  <2> QED
    BY <2>1, <2>2
<1>3. T \in [Entries(n) -> Entry]
  <2>1. \A k \in Entries(n) : T[k] \in Entry
    BY <1>2 DEF Full, Good
  <2> QED
    BY <2>1
<1>4. Queried(n, g, below) = [n EXCEPT !.tbl = T]
  BY DEF Queried, Entries
<1>5. \A k \in Entries(n) : k[1] = g => T[k] = Asked(n.tbl[k], k[2], below)
  BY DEF Asked
<1> HIDE DEF T
<1>6. Follows(st, r) /\ Entries(r.node) = Entries(n) /\ r.node.tbl = T
  BY <1>2, <1>3, EntriesChange
<1>7. after.node = r.node /\ after.l2 = r.l2
  BY <1>4
<1> HIDE DEF r
<1>8. Sane(after)
  BY <1>6, <1>7, SameSane DEF Follows
<1> QED
  BY <1>5, <1>6, <1>7, <1>8 DEF Follows, QueryDoes

\* Every step keeps the invariant.
LEMMA InvNext ==
    ASSUME LegalReports, Inv, [Next]_vars
    PROVE  Inv'
<1>1. /\ Sane(Now) /\ Limits(node) /\ changes \in 0..MaxChanges
      /\ Now.node = node /\ Now.l2 = l2 /\ node \in Node
  BY NowParts DEF Inv, Sane
<1>2. ASSUME NEW r \in Reports, NEW late, Report(r[1], r[2], late)
      PROVE  Inv'
  <2> DEFINE after == mc_grp_record_list_proc(Now, r[1], Parsed(node, r[2]), late)
  <2>1. r[1] \in Ports /\ LegalRecords(Parsed(node, r[2]))
    BY ReportsAssumption, ParsedLegal DEF LegalReports
  <2>2. Becomes(after.st) /\ changes' = changes
    BY <1>2 DEF Report
  <2> HIDE DEF after
  <2>3. Follows(Now, after.st)
    BY <1>1, <2>1, ListFollows DEF after
  <2> QED
    BY <2>2, <2>3, InvFollows
<1>3. ASSUME NEW p \in Ports, NEW g \in Groups, NEW late, mc_ctc_ctrl_add_entry(p, g, late)
      PROVE  Inv'
  <2> DEFINE after == mc_grp_record_handle(Now, p, StaticRecord(g), late)
  <2>1. LegalRecord(StaticRecord(g))
    BY StaticLegal
  <2>2. Becomes(after.st) /\ changes' = changes
    BY <1>3 DEF mc_ctc_ctrl_add_entry
  <2>3. Handled(Now, p, StaticRecord(g), late, after)
    BY <1>1, <2>1, RecordHandled
  <2> HIDE DEF after
  <2>4. Follows(Now, after.st)
    BY <2>3 DEF Handled
  <2> QED
    BY <2>2, <2>4, InvFollows
<1>4. ASSUME NEW p \in Ports, NEW g \in Groups, mc_ctc_ctrl_del_entry(p, g)
      PROVE  Inv'
  <2> DEFINE after == mc_port_fdb_entry_del(Now, <<g, p>>)
  <2>1. <<g, p>> \in Entries(Now.node) /\ Becomes(after) /\ changes' = changes
    BY <1>1, <1>4 DEF mc_ctc_ctrl_del_entry
  <2>2. Follows(Now, after)
    BY <1>1, <2>1, EntryLeaves
  <2> HIDE DEF after
  <2> QED
    BY <2>1, <2>2, InvFollows
<1>5. ASSUME NEW g \in Groups, NEW below \in SUBSET Ports, Query(g, below)
      PROVE  Inv'
  <2> DEFINE grp == mc_set_dft_ip(node, g)
             after == [node |-> Queried(node, grp, below), l2 |-> l2]
  <2>1. after.node = Queried(Now.node, grp, below)
    BY <1>1
  <2>2. after.l2 = Now.l2
    BY <1>1
  <2>3. Becomes(after) /\ changes' = changes
    BY <1>5 DEF Query, Becomes
  <2> HIDE DEF after
  <2>4. Follows(Now, after)
    BY <1>1, <2>1, <2>2, QueryFollows DEF QueryDoes
  <2> QED
    BY <2>3, <2>4, InvFollows
<1>6. CASE Tick
  <2> DEFINE after == mc_fdb_age(Now)
  <2>1. Follows(Now, after)
    BY <1>1, AgeDoes
  <2>2. Becomes(after) /\ changes' = changes
    BY <1>6 DEF Tick
  <2> HIDE DEF after
  <2> QED
    BY <2>1, <2>2, InvFollows
<1>7. ASSUME NEW mode \in Modes, mc_node_set_mode(mode)
      PROVE  Inv'
  <2> DEFINE f == mc_fdb_flush(Now)
             after == [f EXCEPT !.node.mode = mode]
  <2>1. Sane(f) /\ Limits(f.node) /\ f.node \in Node
    BY <1>1, FlushAll DEF Sane
  <2>2. f = [node |-> f.node, l2 |-> f.l2]
    BY <1>1, FlushAll
  <2>3. after.node = [f.node EXCEPT !.mode = mode] /\ after.l2 = f.l2
    <3> HIDE DEF f
    <3> DEFINE a == f.node
               b == f.l2
    <3>1. after = [[node |-> a, l2 |-> b] EXCEPT !.node.mode = mode]
      BY <2>2
    <3> HIDE DEF a, b
    <3>2. after = [node |-> [a EXCEPT !.mode = mode], l2 |-> b]
      BY <3>1
    <3> QED
      BY <3>2 DEF a, b
  <2>4. Becomes(after) /\ changes' = changes
    BY <1>7 DEF mc_node_set_mode
  <2> HIDE DEF f, after
  <2>5. /\ after.node \in Node /\ after.node.tbl = f.node.tbl
        /\ after.node.grp_count = f.node.grp_count
        /\ after.node.cur_grp_num = f.node.cur_grp_num
        /\ after.node.max_grp_num = f.node.max_grp_num /\ after.node.max_grp = f.node.max_grp
    BY <2>1, <2>3 DEF Node
  <2>6. Sane(after)
    BY <2>1, <2>3, <2>5, SettingSane
  <2>7. Limits(after.node)
    BY <2>1, <2>5 DEF Limits
  <2> QED
    BY <1>1, <2>4, <2>6, <2>7, InvStep
<1>8. ASSUME Setting
      PROVE  changes' \in 0..MaxChanges
  BY <1>1, <1>8, LimitAssumption DEF Setting
<1>9. ASSUME NEW max \in 0..GrpCap, mc_node_set_max_grp(max)
      PROVE  Inv'
  <2> DEFINE n == [node EXCEPT !.max_grp_num = max]
             st == [Now EXCEPT !.node = n]
  <2>1. st.node = n /\ st.l2 = Now.l2
    BY DEF Now
  <2>2. changes' \in 0..MaxChanges
    BY <1>8, <1>9 DEF mc_node_set_max_grp
  <2>3. IF node.cur_grp_num > max THEN Becomes(mc_fdb_flush(st)) ELSE node' = n /\ UNCHANGED l2
    BY <1>9 DEF mc_node_set_max_grp
  <2>4. /\ n \in Node /\ n.tbl = node.tbl /\ n.grp_count = node.grp_count
        /\ n.cur_grp_num = node.cur_grp_num /\ n.max_grp = node.max_grp
        /\ n.max_grp_num = max
    BY <1>1 DEF Node
  <2> HIDE DEF n, st
  <2>5. Sane(st)
    BY <1>1, <2>1, <2>4, SettingSane
  <2>6. CASE node.cur_grp_num > max
    <3> DEFINE after == mc_fdb_flush(st)
    <3>1. Sane(after) /\ Limits(after.node)
      BY <2>5, FlushAll
    <3>2. Becomes(after)
      BY <2>3, <2>6
    <3> HIDE DEF after
    <3> QED
      BY <2>2, <3>1, <3>2, InvStep
  <2>7. CASE ~(node.cur_grp_num > max)
    <3>1. Becomes(st)
      BY <1>1, <2>1, <2>3, <2>7 DEF Becomes
    <3>2. node.cur_grp_num <= max
      BY <1>1, <2>7, NodeFields, LimitAssumption
    <3>3. Limits(st.node)
      BY <1>1, <2>1, <2>4, <3>2 DEF Limits
    <3> QED
      BY <2>2, <2>5, <3>1, <3>3, InvStep
  <2> QED
    BY <2>6, <2>7
<1>10. ASSUME NEW p \in Ports, NEW max \in 0..PortGrpCap, mc_node_set_port_max_grp(p, max)
       PROVE  Inv'
  <2> DEFINE n == [node EXCEPT !.max_grp[p] = max]
             st == [Now EXCEPT !.node = n]
  <2>1. st.node = n /\ st.l2 = Now.l2
    BY DEF Now
  <2>2. changes' \in 0..MaxChanges
    BY <1>8, <1>10 DEF mc_node_set_port_max_grp
  <2>3. IF node.grp_count[p] > max THEN Becomes(mc_port_fdb_flush(st, {p}))
        ELSE node' = n /\ UNCHANGED l2
    BY <1>10 DEF mc_node_set_port_max_grp
  <2>4. /\ n \in Node /\ n.tbl = node.tbl /\ n.grp_count = node.grp_count
        /\ n.cur_grp_num = node.cur_grp_num /\ n.max_grp_num = node.max_grp_num
        /\ n.max_grp[p] = max /\ \A q \in Ports : q # p => n.max_grp[q] = node.max_grp[q]
    BY <1>1 DEF Node
  <2> HIDE DEF n, st
  <2>5. Sane(st)
    BY <1>1, <2>1, <2>4, SettingSane
  <2>6. /\ node.grp_count \in [Ports -> Nat] /\ node.cur_grp_num \in Nat
        /\ max \in Nat
    BY <1>1, NodeFields, LimitAssumption
  <2>7. CASE node.grp_count[p] > max
    <3> DEFINE ports == {p}
               after == mc_port_fdb_flush(st, ports)
    <3>1. /\ Follows(st, after)
          /\ \A q \in Ports : /\ q \in ports => after.node.grp_count[q] = 0
                              /\ after.node.grp_count[q] <= st.node.grp_count[q]
          /\ after.node.cur_grp_num <= st.node.cur_grp_num
      BY <2>5, FlushDoes
    <3>2. Becomes(after) /\ ports = {p}
      BY <2>3, <2>7
    <3> HIDE DEF after, ports
    <3>3. Sane(after) /\ SameSettings(st.node, after.node) /\ after.node \in Node
      BY <3>1 DEF Follows, Sane
    <3>4. after.node.grp_count \in [Ports -> Nat] /\ after.node.cur_grp_num \in Nat
      BY <3>3, NodeFields
    <3>5. ASSUME NEW q \in Ports
          PROVE  after.node.grp_count[q] <= after.node.max_grp[q]
      <4>1. after.node.max_grp[q] = n.max_grp[q]
        BY <2>1, <3>3 DEF SameSettings
      <4>2. CASE q = p
        BY <2>4, <2>6, <3>1, <3>2, <4>1, <4>2
      <4>3. CASE q # p
        <5>1. node.grp_count[q] <= node.max_grp[q] /\ node.max_grp[q] \in Nat
          BY <1>1, NodeFields DEF Limits
        <5>2. after.node.grp_count[q] <= node.grp_count[q]
          BY <2>1, <2>4, <3>1
        <5>3. after.node.max_grp[q] = node.max_grp[q]
          BY <2>4, <4>1, <4>3
        <5>4. after.node.grp_count[q] \in Nat /\ node.grp_count[q] \in Nat
          BY <2>6, <3>4
        <5> QED
          BY <5>1, <5>2, <5>3, <5>4
      <4> QED
        BY <4>2, <4>3
    <3>6. after.node.cur_grp_num <= after.node.max_grp_num
      <4>1. node.cur_grp_num <= node.max_grp_num /\ node.max_grp_num \in Nat
        BY <1>1, NodeFields DEF Limits
      <4>2. after.node.cur_grp_num <= node.cur_grp_num
        BY <2>1, <2>4, <3>1
      <4>3. after.node.max_grp_num = node.max_grp_num
        BY <2>1, <2>4, <3>3 DEF SameSettings
      <4> QED
        BY <2>6, <3>4, <4>1, <4>2, <4>3
    <3>7. Limits(after.node)
      BY <3>5, <3>6 DEF Limits
    <3> QED
      BY <2>2, <3>2, <3>3, <3>7, InvStep
  <2>8. CASE ~(node.grp_count[p] > max)
    <3>1. Becomes(st)
      BY <1>1, <2>1, <2>3, <2>8 DEF Becomes
    <3>2. node.grp_count[p] <= max
      <4>1. node.grp_count[p] \in Nat
        BY <2>6
      <4> QED
        BY <2>6, <2>8, <4>1
    <3>3. Limits(st.node)
      BY <1>1, <2>1, <2>4, <3>2 DEF Limits
    <3> QED
      BY <2>2, <2>5, <3>1, <3>3, InvStep
  <2> QED
    BY <2>7, <2>8
<1>11. ASSUME NEW leave \in {"FAST", "NON_FAST"}, mc_set_fast_leave_state(leave)
       PROVE  Inv'
  <2> DEFINE n == [node EXCEPT !.leave_mode = [p \in Ports |-> leave]]
             after == [node |-> n, l2 |-> l2]
  <2>1. after.node = n /\ after.l2 = Now.l2
    BY <1>1
  <2>2. changes' \in 0..MaxChanges
    BY <1>8, <1>11 DEF mc_set_fast_leave_state
  <2>3. Becomes(after)
    BY <1>11 DEF mc_set_fast_leave_state, Becomes
  <2>4. /\ n \in Node /\ n.tbl = node.tbl /\ n.grp_count = node.grp_count
        /\ n.cur_grp_num = node.cur_grp_num /\ n.max_grp_num = node.max_grp_num
        /\ n.max_grp = node.max_grp
    BY <1>1 DEF Node, Leave
  <2> HIDE DEF n, after
  <2>5. Sane(after)
    BY <1>1, <2>1, <2>4, SettingSane
  <2>6. Limits(after.node)
    BY <1>1, <2>1, <2>4 DEF Limits
  <2> QED
    BY <2>2, <2>3, <2>5, <2>6, InvStep
<1>12. CASE Flush
  <2> DEFINE after == mc_fdb_flush(Now)
  <2>1. Becomes(after) /\ changes' \in 0..MaxChanges
    BY <1>1, <1>12 DEF Flush
  <2>2. Sane(after) /\ Limits(after.node)
    BY <1>1, FlushAll
  <2> HIDE DEF after
  <2> QED
    BY <2>1, <2>2, InvStep
<1>13. CASE UNCHANGED vars
  BY <1>13 DEF vars, Inv, Now
<1> QED
  BY <1>2, <1>3, <1>4, <1>5, <1>6, <1>7, <1>9, <1>10, <1>11, <1>12, <1>13, NamedGroup
  DEF Next

\* The invariant.
LEMMA Invariant ==
    ASSUME LegalReports
    PROVE  Spec => []Inv
<1>1. Init => Inv
  BY InvInit
<1>2. Inv /\ [Next]_vars => Inv'
  BY InvNext
<1> QED
  BY <1>1, <1>2, PTL DEF Spec

(***************************************************************************)
(* The properties                                                          *)
(***************************************************************************)
\* The invariant gives the types.
LEMMA InvType == Inv => TypeOK
<1> SUFFICES ASSUME Inv PROVE TypeOK
  OBVIOUS
<1>1. node \in Node /\ l2 = {HwKey(k) : k \in Entries(node)} /\ changes \in 0..MaxChanges
  BY NowParts DEF Inv, Sane
<1>2. /\ Entries(node) \in SUBSET Keys /\ node.tbl \in [Entries(node) -> Entry]
      /\ node.grp_count \in [Ports -> Nat] /\ node.cur_grp_num \in Nat
      /\ node.max_grp_num \in 0..GrpCap /\ node.max_grp \in [Ports -> 0..PortGrpCap]
      /\ node.leave_mode \in [Ports -> Leave] /\ node.mode \in Modes \cup {"DISABLE"}
  BY <1>1, NodeFields
<1>3. ASSUME NEW k \in Entries(node)
      PROVE  LET e == node.tbl[k] IN
             /\ e.filter_mode \in {"INCLUDE", "EXCLUDE"}
             /\ DOMAIN e.src \subseteq Sources
             /\ \A s \in DOMAIN e.src : e.src[s] \in Timers
             /\ e.aged \subseteq Sources
             /\ e.grp_timer \in Timers
             /\ e.static \in BOOLEAN
             /\ e.upd \in UpdateTimes
  <2>1. node.tbl[k] \in Entry
    BY <1>2
  <2>2. /\ node.tbl[k].src \in SrcList /\ node.tbl[k].aged \in SUBSET Sources
        /\ node.tbl[k].filter_mode \in {"INCLUDE", "EXCLUDE"}
        /\ node.tbl[k].grp_timer \in Timers /\ node.tbl[k].static \in BOOLEAN
        /\ node.tbl[k].upd \in UpdateTimes
    BY <2>1, EntryFields
  <2>3. /\ DOMAIN node.tbl[k].src \subseteq Sources
        /\ node.tbl[k].src \in [DOMAIN node.tbl[k].src -> Timers]
    BY <2>2, PartialDef DEF SrcList
  <2> QED
    BY <2>2, <2>3
<1>4. l2 \subseteq {Mac[g] : g \in Groups} \X Ports
  BY <1>1, <1>2 DEF HwKey, Keys
<1> QED
  BY <1>1, <1>2, <1>3, <1>4 DEF TypeOK, Keys, Leave

\* The switch forwards to exactly the ports that have an entry, and no two entries of a
\* port share a MAC address: every path through mc_fdb.c and mc_report.c keeps it so.
THEOREM SwitchFollowsTable ==
    ASSUME LegalReports
    PROVE  Spec => []FdbFollowsState
<1>1. Inv => FdbFollowsState
  BY NowParts DEF Inv, Sane, FdbFollowsState
<1> QED
  BY <1>1, Invariant, PTL

\* grp_count and cur_grp_num are the numbers of entries and groups, within the limits,
\* however mc_port_grp_add, mc_port_grp_rm, the flushes and the settings follow one another.
THEOREM CountersExact ==
    ASSUME LegalReports
    PROVE  Spec => []CountsExact
<1>1. Inv => CountsExact
  <2> SUFFICES ASSUME Inv PROVE CountsExact
    OBVIOUS
  <2>1. Exact(node) /\ Limits(node) /\ node \in Node
    BY NowParts DEF Inv, Sane
  <2>2. Entries(node) \in SUBSET Keys
    BY <2>1, NodeFields
  <2>3. {g \in Groups : mc_grp_exist(node, g)} = GroupsOf(Entries(node))
    <3>1. \A g : mc_grp_exist(node, g) <=> g \in GroupsOf(Entries(node))
      BY <2>2, GroupExists
    <3>2. GroupsOf(Entries(node)) \subseteq Groups
      BY <2>2, KeySets
    <3> QED
      BY <3>1, <3>2
  <2>4. \A p \in Ports : OfPort(Entries(node), p) = {k \in Entries(node) : k[2] = p}
    BY DEF OfPort
  <2> QED
    BY <2>1, <2>3, <2>4 DEF CountsExact, Exact, Limits
<1> QED
  BY <1>1, Invariant, PTL

\* Every variable keeps its type, the two source lists of an entry stay apart and fit
\* mc_fdb_entry_t, only exclude mode has blocked sources, and no entry is kept that
\* forwards nothing, after any sequence of records, ticks, queries and settings.
THEOREM EntriesStayFormed ==
    ASSUME LegalReports
    PROVE  Spec => []EntriesWellFormed
<1>1. Inv => EntriesWellFormed
  <2> SUFFICES ASSUME Inv PROVE EntriesWellFormed
    OBVIOUS
  <2>1. TypeOK
    BY InvType
  <2>2. \A k \in Entries(node) : Full(node.tbl[k])
    BY NowParts DEF Inv, Sane
  <2> QED
    BY <2>1, <2>2 DEF EntriesWellFormed, Full, Good
<1> QED
  BY <1>1, Invariant, PTL

\* A report of one record that is not refused takes its port group to the router state of
\* the tables in mc_report.c, in every state that can be reached; a handler that asks for
\* no update of the fdb had nothing to change but timers.
THEOREM RecordsFollowTables ==
    ASSUME LegalReports
    PROVE  Spec => []RecordTable
<1>1. ASSUME LegalReports, Inv, NEW r \in Reports
      PROVE  LET recs == Parsed(node, r[2])
                 rec == recs[1]
                 k   == <<rec.grp, r[1]>>
                 res == mc_grp_record_list_proc(Now, r[1], recs, TRUE)
                 new == res.st.node
                 want == Table(StateOf(node.tbl[k]), rec.type, rec.src, node.leave_mode[r[1]])
             IN  Len(recs) = 1 /\ k \in Entries(node) /\ res.ret = "OK" =>
                    Reaches(new, k, want)
  <2> DEFINE p == r[1]
             recs == Parsed(node, r[2])
             rec == recs[1]
             k == <<rec.grp, p>>
             res == mc_grp_record_list_proc(Now, p, recs, TRUE)
             want == Table(StateOf(node.tbl[k]), rec.type, rec.src, node.leave_mode[p])
  <2> SUFFICES ASSUME Len(recs) = 1, k \in Entries(node), res.ret = "OK"
               PROVE  Reaches(res.st.node, k, want)
    OBVIOUS
  <2>1. p \in Ports /\ LegalRecords(recs) /\ Sane(Now) /\ Now.node = node
    BY <1>1, ReportsAssumption, ParsedLegal, NowParts DEF LegalReports, Inv
  <2>2. LegalRecord(rec)
    BY <2>1 DEF LegalRecords
  <2>3. res = mc_grp_record_handle(Now, p, rec, TRUE)
    BY OneRecord
  <2>4. Handled(Now, p, rec, TRUE, res)
    BY <2>1, <2>2, <2>3, RecordHandled
  <2>5. k[2] = p
    OBVIOUS
  <2> QED
    BY <2>1, <2>4, <2>5 DEF Handled, Updates
<1>2. ASSUME LegalReports, Inv
      PROVE  RecordTable
  BY <1>1, <1>2 DEF RecordTable, Reaches
<1> QED
  BY <1>2, Invariant, PTL

\* What mc_report_proc forwards in snooping mode is in effect as a whole: the port of a
\* report that is not refused is served with every group the report joins, unless the same
\* report goes on to leave the group.
THEOREM ForwardedServed ==
    ASSUME LegalReports, \A r \in Reports : NoLeaveAfterJoin(r[2])
    PROVE  Spec => []ForwardedIsServed
<1>1. ASSUME Inv, NEW r \in Reports, NEW res,
             res = mc_grp_record_list_proc(Now, r[1], r[2], TRUE),
             node.mode = "SNOOPING", res.ret = "OK",
             NEW i \in DOMAIN r[2], r[2][i].type \in {"IS_EX", "TO_EX"}
      PROVE  /\ <<r[2][i].grp, r[1]>> \in Entries(res.st.node)
             /\ HwKey(<<r[2][i].grp, r[1]>>) \in res.st.l2
  <2>1. r[1] \in Ports /\ LegalRecords(r[2]) /\ Sane(Now) /\ Now.node = node
    BY <1>1, ReportsAssumption, NowParts DEF LegalReports, Inv
  <2>2. NoLeaveAfterJoin(r[2])
    OBVIOUS
  <2>3. Follows(Now, res.st) /\ Served(res.st.node, r[2][i].grp, r[1])
    BY <1>1, <2>1, <2>2, ListFollows
  <2> QED
    BY <2>3 DEF Served, Follows, Sane
<1>2. Inv => ForwardedIsServed
  BY <1>1 DEF ForwardedIsServed
<1> QED
  BY <1>2, Invariant, PTL

\* A host that answers a group's query at once is heard and starts the group timer again:
\* what mc_query_record_proc takes off update_time opens the flood check of
\* mc_update_port_grp_entry, however lately the port reported, until update_time has wrapped
\* below 0; from then on every IGMPv1/v2 or MLDv1 report is refused and changes nothing.
THEOREM AnswersHeard ==
    ASSUME LegalReports
    PROVE  Spec => []AnswerIsHeard
<1>1. ASSUME Inv, NEW k \in Entries(node), NEW below \in SUBSET {k[2]}
      PROVE  LET answer == [StaticRecord(k[1]) EXCEPT !.static = FALSE]
                 asked  == [Now EXCEPT !.node = Queried(node, k[1], below)]
                 r      == mc_grp_record_handle(asked, k[2], answer, FALSE)
             IN  IF node.tbl[k].upd \in {"now", "last"} \/ asked.node.tbl[k].upd # "ahead"
                   THEN r.ret = "OK" /\ r.st.node.tbl[k].grp_timer = Timer(GMI, "START")
                   ELSE r = Return("ERROR", asked.node, asked.l2)
  <2> DEFINE answer == [StaticRecord(k[1]) EXCEPT !.static = FALSE]
             asked == [Now EXCEPT !.node = Queried(node, k[1], below)]
             r == mc_grp_record_handle(asked, k[2], answer, FALSE)
  <2>1. Sane(Now) /\ Now.node = node /\ node \in Node
    BY <1>1, NowParts DEF Inv, Sane
  <2>2. k \in Keys /\ node.tbl[k] \in Entry
    BY <2>1, NodeFields
  <2>3. k[1] \in Groups /\ k[2] \in Ports /\ k = <<k[1], k[2]>>
    BY <2>2 DEF Keys
  <2>4. /\ LegalRecord(answer) /\ answer.grp = k[1] /\ answer.type = "IS_EX"
        /\ answer.src = {} /\ answer.asm
    <3>1. answer.asm
      BY DEF StaticRecord
    <3> QED
      BY <2>3, <3>1, StaticLegal
  <2>5. asked.node = Queried(Now.node, k[1], below)
    BY <2>1 DEF Now
  <2>6. asked.l2 = Now.l2
    BY DEF Now
  <2> HIDE DEF asked, answer
  <2>7. QueryDoes(Now, k[1], below, asked)
    BY <2>1, <2>5, <2>6, QueryFollows, Zenon
  <2> DEFINE e == node.tbl[k]
             u == Earlier(e.upd, k[2] \in below)
  <2>8. asked.node.tbl[k] = [e EXCEPT !.upd = u]
    BY <2>1, <2>7 DEF QueryDoes, Asked
  <2>9. u \in {"old", "ahead"} /\ (e.upd \in {"now", "last"} => u = "old")
    BY DEF Earlier
  <2> HIDE DEF u, e
  <2>10. asked.node.tbl[k].upd = u
    BY <2>2, <2>8 DEF Entry, e
  <2>11. ~TooFast("old", FALSE) /\ TooFast("ahead", FALSE)
    BY DEF TooFast
  <2>12. Sane(asked) /\ k \in Entries(asked.node)
    BY <2>1, <2>7 DEF QueryDoes, Follows
  <2>13. Handled(asked, k[2], answer, FALSE, r)
    BY <2>3, <2>4, <2>12, RecordHandled
  <2>14. r = mc_update_port_grp_entry(asked, k, answer, FALSE)
    BY <2>3, <2>4, <2>12 DEF mc_grp_record_handle
  <2> HIDE DEF r
  <2>15. Updates(asked, k, answer, FALSE, r)
    BY <2>3, <2>4, <2>12, <2>13 DEF Handled
  <2>16. CASE u = "old"
    <3>1. r.ret = "OK" /\ r.st.node.tbl[k].grp_timer = Timer(GMI, "START")
      BY <2>4, <2>10, <2>11, <2>15, <2>16 DEF Updates
    <3> QED
      BY <2>10, <2>16, <3>1 DEF r, asked, answer
  <2>17. CASE u = "ahead"
    <3>1. r = Return("ERROR", asked.node, asked.l2)
      BY <2>4, <2>10, <2>11, <2>14, <2>17 DEF mc_update_port_grp_entry
    <3>2. ~(node.tbl[k].upd \in {"now", "last"} \/ asked.node.tbl[k].upd # "ahead")
      BY <2>9, <2>10, <2>17 DEF e
    <3> QED
      BY <3>1, <3>2 DEF r, asked, answer
  <2> QED
    BY <2>9, <2>16, <2>17
<1>2. Inv => AnswerIsHeard
  BY <1>1 DEF AnswerIsHeard
<1> QED
  BY <1>2, Invariant, PTL

(***************************************************************************)
(* Silence                                                                 *)
(***************************************************************************)
\* f holds the states after each of the first n ticks.
IsAgeing(f, st, n) == f = [i \in 0..n |-> IF i = 0 THEN st ELSE mc_fdb_age(f[i-1])]

Ageing(st, n) == CHOOSE f : IsAgeing(f, st, n)

\* One tick more.
LEMMA AgeingGoesOn ==
    ASSUME NEW st, NEW n \in Nat, NEW f, IsAgeing(f, st, n)
    PROVE  \E g : IsAgeing(g, st, n + 1)
<1> DEFINE g == [i \in 0..(n + 1) |-> IF i = n + 1 THEN mc_fdb_age(f[n]) ELSE f[i]]
           h == [i \in 0..(n + 1) |-> IF i = 0 THEN st ELSE mc_fdb_age(g[i-1])]
<1>1. \A i \in 0..n : f[i] = IF i = 0 THEN st ELSE mc_fdb_age(f[i-1])
  BY DEF IsAgeing
<1>2. (\A i \in 0..n : g[i] = f[i]) /\ g[n + 1] = mc_fdb_age(f[n])
  OBVIOUS
<1>3. ASSUME NEW i \in 0..(n + 1)
      PROVE  g[i] = IF i = 0 THEN st ELSE mc_fdb_age(g[i-1])
  <2> HIDE DEF g
  <2>1. CASE i = n + 1
    <3>1. i - 1 = n /\ i # 0 /\ n \in 0..n
      BY <2>1
    <3> QED
      BY <1>2, <2>1, <3>1
  <2>2. CASE i = 0
    <3>1. 0 \in 0..n
      OBVIOUS
    <3> QED
      BY <1>1, <1>2, <2>2, <3>1
  <2>3. CASE i # 0 /\ i # n + 1
    <3>1. i \in 0..n /\ i - 1 \in 0..n
      BY <2>3
    <3> QED
      BY <1>1, <1>2, <2>3, <3>1
  <2> QED
    BY <2>1, <2>2, <2>3
<1>4. g = h
  BY <1>3
<1>5. IsAgeing(g, st, n + 1)
  BY <1>4, Zenon DEF IsAgeing
<1> QED
  BY <1>5

\* The states after each of n ticks.
LEMMA AgeingSteps ==
    ASSUME NEW st, NEW n \in Nat, NEW f, f = Ageing(st, n)
    PROVE  f[0] = st /\ \A i \in 1..n : f[i] = mc_fdb_age(f[i-1])
<1> DEFINE T == {i \in 0..n : \E g : IsAgeing(g, st, i)}
<1>1. 0 \in T
  <2> DEFINE g == [i \in 0..0 |-> st]
             h == [i \in 0..0 |-> IF i = 0 THEN st ELSE mc_fdb_age(g[i-1])]
  <2>1. \A i \in 0..0 : i = 0
    OBVIOUS
  <2>2. g = h
    BY <2>1
  <2>3. IsAgeing(g, st, 0)
    BY <2>2, Zenon DEF IsAgeing
  <2>4. 0 \in 0..n
    OBVIOUS
  <2> QED
    BY <2>3, <2>4
<1>2. ASSUME NEW i \in 0..n, i < n, i \in T
      PROVE  i + 1 \in T
  <2>1. PICK g : IsAgeing(g, st, i)
    BY <1>2
  <2>2. \E h : IsAgeing(h, st, i + 1)
    BY <2>1, AgeingGoesOn
  <2>3. i + 1 \in 0..n
    BY <1>2
  <2> QED
    BY <2>2, <2>3
<1> HIDE DEF T
<1>3. n \in 0..n
  OBVIOUS
<1>4. n \in T
  BY <1>1, <1>2, <1>3, UpTo
<1>5. \E g : IsAgeing(g, st, n)
  BY <1>4 DEF T
<1>6. IsAgeing(f, st, n)
  BY <1>5, Zenon DEF Ageing
<1>7. \A i \in 0..n : f[i] = IF i = 0 THEN st ELSE mc_fdb_age(f[i-1])
  BY <1>6 DEF IsAgeing
<1>8. 0 \in 0..n /\ \A i \in 1..n : i \in 0..n /\ i # 0
  OBVIOUS
<1> QED
  BY <1>7, <1>8

\* After i ticks this timer has run, and has i ticks less to go.
Ran(t, i) == t.age <= GMI - i /\ (i > 0 => t.age >= 1)

\* After i ticks the timers of an entry of a host have all run.
Quiet(e, i) ==
    ~e.static => /\ \A s \in DOMAIN e.src : Ran(e.src[s], i)
                 /\ e.filter_mode = "EXCLUDE" => Ran(e.grp_timer, i)

\* A tick of a timer that does not end it.
LEMMA TimerRuns ==
    ASSUME NEW t \in Timers, NEW i \in 0..GMI, i < GMI, Ran(t, i),
           mc_timer_age(t, FALSE).flag # "STOP"
    PROVE  Ran(mc_timer_age(t, FALSE), i + 1)
<1>1. GMI \in Nat /\ t.age \in 0..GMI
  BY TimerAssumption DEF Timers
<1>2. /\ mc_timer_age(t, FALSE).age = Less(t.age, 1)
      /\ mc_timer_age(t, FALSE).flag = IF t.age <= 1 THEN "STOP" ELSE t.flag
  BY DEF mc_timer_age, Timer
<1>3. ~(t.age <= 1)
  BY <1>2
<1>4. Less(t.age, 1) = t.age - 1
  BY <1>1, <1>3 DEF Less
<1>5. PICK n \in 0..GMI : n = t.age
  BY <1>1
<1>6. n <= GMI - i /\ ~(n <= 1)
  BY <1>3, <1>5 DEF Ran
<1>7. n - 1 <= GMI - (i + 1) /\ n - 1 >= 1
  BY <1>1, <1>6
<1>8. mc_timer_age(t, FALSE).age = n - 1
  BY <1>2, <1>4, <1>5
<1> QED
  BY <1>7, <1>8 DEF Ran

\* A tick of an entry.
LEMMA EntryRuns ==
    ASSUME NEW e, Full(e), NEW i \in 0..GMI, i < GMI, Quiet(e, i)
    PROVE  Quiet(mc_port_fdb_age(e), i + 1)
<1> DEFINE a == mc_port_fdb_age(e)
<1>1. /\ a.filter_mode = (IF GroupEnds(e) THEN "INCLUDE" ELSE e.filter_mode)
      /\ a.grp_timer = (IF e.filter_mode = "EXCLUDE" THEN mc_timer_age(e.grp_timer, e.static)
                        ELSE e.grp_timer)
      /\ DOMAIN a.src = DOMAIN e.src \ SourcesEnd(e)
      /\ \A s \in DOMAIN a.src : a.src[s] = mc_timer_age(e.src[s], FALSE)
      /\ a.static = e.static
  BY AgeEntry
<1> HIDE DEF a
<1>2. e \in Entry
  BY DEF Full, Good
<1>3. e.src \in SrcList /\ e.grp_timer \in Timers /\ e.static \in BOOLEAN
  BY <1>2, EntryFields
<1>4. \A s \in DOMAIN e.src : e.src[s] \in Timers
  BY <1>3, PartialDef DEF SrcList
<1>5. ASSUME ~e.static, NEW s \in DOMAIN a.src
      PROVE  Ran(a.src[s], i + 1)
  <2>1. s \in DOMAIN e.src /\ mc_timer_age(e.src[s], FALSE).flag # "STOP"
    BY <1>1 DEF SourcesEnd
  <2>2. Ran(e.src[s], i) /\ e.src[s] \in Timers
    BY <1>4, <1>5, <2>1 DEF Quiet
  <2> QED
    BY <1>1, <2>1, <2>2, TimerRuns
<1>6. ASSUME ~e.static, a.filter_mode = "EXCLUDE"
      PROVE  Ran(a.grp_timer, i + 1)
  <2>1. e.filter_mode = "EXCLUDE" /\ ~GroupEnds(e)
    BY <1>1, <1>6
  <2>2. e.static = FALSE
    BY <1>3, <1>6
  <2>3. mc_timer_age(e.grp_timer, FALSE).flag # "STOP"
    BY <2>1, <2>2 DEF GroupEnds
  <2>4. Ran(e.grp_timer, i)
    BY <1>6, <2>1 DEF Quiet
  <2>5. Ran(mc_timer_age(e.grp_timer, FALSE), i + 1)
    BY <1>3, <2>3, <2>4, TimerRuns
  <2> QED
    BY <1>1, <2>1, <2>2, <2>5
<1>7. Quiet(a, i + 1)
  BY <1>1, <1>5, <1>6 DEF Quiet
<1> QED
  BY <1>7 DEF a

\* After member_interval ticks of silence only static entries are left.
LEMMA AllAge ==
    ASSUME NEW st, Sane(st), NEW f, f = Ageing(st, GMI)
    PROVE  Sane(f[GMI]) /\ \A k \in Entries(f[GMI].node) : f[GMI].node.tbl[k].static
<1> DEFINE AllQuiet(s, i) == Sane(s) /\ \A k \in Entries(s.node) : Quiet(s.node.tbl[k], i)
           T == {i \in 0..GMI : AllQuiet(f[i], i)}
<1>1. GMI \in Nat /\ GMI > 0
  BY TimerAssumption
<1>2. f[0] = st /\ \A i \in 1..GMI : f[i] = mc_fdb_age(f[i-1])
  BY <1>1, AgeingSteps
<1>3. 0 \in T
  <2>1. ASSUME NEW k \in Entries(st.node)
        PROVE  Quiet(st.node.tbl[k], 0)
    <3> DEFINE e == st.node.tbl[k]
    <3>1. e \in Entry
      BY DEF Sane, Full, Good
    <3> HIDE DEF e
    <3>2. e.src \in SrcList /\ e.grp_timer \in Timers
      BY <3>1, EntryFields
    <3>3. \A s \in DOMAIN e.src : e.src[s] \in Timers
      BY <3>2, PartialDef DEF SrcList
    <3>4. \A t \in Timers : Ran(t, 0)
      BY <1>1 DEF Ran, Timers
    <3>5. Quiet(e, 0)
      BY <3>2, <3>3, <3>4 DEF Quiet
    <3> QED
      BY <3>5 DEF e
  <2>2. 0 \in 0..GMI
    BY <1>1
  <2> QED
    BY <1>2, <2>1, <2>2
<1>4. ASSUME NEW i \in 0..GMI, i < GMI, i \in T
      PROVE  i + 1 \in T
  <2> DEFINE b == f[i]
             a == f[i + 1]
  <2>1. i + 1 \in 1..GMI /\ i + 1 \in 0..GMI /\ i + 1 - 1 = i
    BY <1>1, <1>4
  <2>2. a = mc_fdb_age(b)
    BY <1>2, <2>1
  <2>3. AllQuiet(b, i)
    BY <1>4
  <2> HIDE DEF a, b
  <2>4. /\ Follows(b, a)
        /\ Entries(a.node) = Entries(b.node) \ AgedOut(b.node)
        /\ \A k \in Entries(a.node) : a.node.tbl[k] = mc_port_fdb_age(b.node.tbl[k])
    BY <2>2, <2>3, AgeDoes
  <2>5. ASSUME NEW k \in Entries(a.node)
        PROVE  Quiet(a.node.tbl[k], i + 1)
    <3>1. Full(b.node.tbl[k]) /\ Quiet(b.node.tbl[k], i)
      BY <2>3, <2>4 DEF Sane
    <3>2. Quiet(mc_port_fdb_age(b.node.tbl[k]), i + 1)
      BY <1>4, <3>1, EntryRuns
    <3> QED
      BY <2>4, <3>2
  <2>6. AllQuiet(a, i + 1)
    BY <2>4, <2>5 DEF Follows
  <2> QED
    BY <2>1, <2>6 DEF a
<1>5. GMI \in 0..GMI
  BY <1>1
<1> HIDE DEF T
<1>6. GMI \in T
  BY <1>1, <1>3, <1>4, <1>5, UpTo
<1>7. AllQuiet(f[GMI], GMI)
  BY <1>6 DEF T
<1>8. ASSUME NEW k \in Entries(f[GMI].node), ~f[GMI].node.tbl[k].static
      PROVE  FALSE
  <2> DEFINE e == f[GMI].node.tbl[k]
  <2>1. Full(e) /\ Quiet(e, GMI) /\ ~e.static
    BY <1>7, <1>8 DEF Sane
  <2> HIDE DEF e
  <2>2. \A t \in Timers : ~Ran(t, GMI)
    BY <1>1 DEF Ran, Timers
  <2>3. e \in Entry
    BY <2>1 DEF Full, Good
  <2>4. e.src \in SrcList /\ e.grp_timer \in Timers
    BY <2>3, EntryFields
  <2>5. \A s \in DOMAIN e.src : e.src[s] \in Timers
    BY <2>4, PartialDef DEF SrcList
  <2>6. DOMAIN e.src = {} /\ e.filter_mode # "EXCLUDE"
    BY <2>1, <2>2, <2>4, <2>5 DEF Quiet
  <2> QED
    BY <2>1, <2>6 DEF Full, mc_port_grp_exist
<1> QED
  BY <1>7, <1>8

\* When the hosts fall silent every entry they made is gone member_interval ticks later
\* (mc_fdb_age), from the table and from the switch, from any state that leaves, queries
\* and records can bring about.
THEOREM SilentHostsAgeOut ==
    ASSUME LegalReports
    PROVE  Spec => []AgesOut
<1>1. Inv => AgesOut
  <2> SUFFICES ASSUME Inv PROVE AgesOut
    OBVIOUS
  <2> DEFINE end == Ageing(Now, GMI)[GMI]
  <2>1. Sane(Now)
    BY DEF Inv
  <2>2. Sane(end) /\ \A k \in Entries(end.node) : end.node.tbl[k].static
    BY <2>1, AllAge
  <2>3. end.l2 = {HwKey(k) : k \in Entries(end.node)}
    BY <2>2 DEF Sane
  <2> QED
    BY <2>2, <2>3 DEF AgesOut, Ageing, IsAgeing
<1> QED
  BY <1>1, Invariant, PTL

=============================================================================
