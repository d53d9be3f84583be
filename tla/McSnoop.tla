------------------------------- MODULE McSnoop -------------------------------
(***************************************************************************)
(* IGMP and MLD snooping of the ONU (cmn/apps/mcast and its adapter        *)
(* onu/apps/lynx/mcast): the port group table that reports of the hosts,   *)
(* the OLT's control entries, the ageing tick and the management change,   *)
(* and the layer 2 forwarding table of the switch that has to follow it.   *)
(*                                                                         *)
(* A source list is a function from its sources to their timers; the list  *)
(* of the blocked sources (aged_src_list), whose timers nothing reads, is  *)
(* a set.  VLANs are shared (MC_SVL), the value mc_node_init gives, and    *)
(* the switch forwards on layer 2 (MC_ENGINE_L2).  Of the driver's errors  *)
(* there is the MAC address that the port already has; a call that fails   *)
(* for another reason, such as a full table, is left out.                  *)
(*                                                                         *)
(* "upd" is what matters of update_time (in units of 10 ms): set in this   *)
(* second ("now") or in the one before ("last"), earlier ("old"), still 0  *)
(* ("never"), or far above the clock ("ahead"): the time is unsigned, and  *)
(* mc_query_record_proc takes 200 off it at every query, so it wraps at    *)
(* the first query if it was 0, and otherwise when the queries since the   *)
(* last IGMPv1/v2 or MLDv1 report have used it up.                         *)
(***************************************************************************)
EXTENDS Naturals, FiniteSets, Sequences, Functions

CONSTANTS
  Ports,        \* the ports of the hosts
  Groups,       \* group addresses
  Mac,          \* the multicast MAC address of each group (not one to one)
  DftGroup,     \* the group 230.x.x.x (ff0e::x) that stands for it in manual mode
  Sources,      \* source addresses
  GMI,          \* member_interval, in ticks
  LMQT,         \* last_member_query_interval * last_member_query_count
  MaxSrc,       \* MC_MAX_SRC_IP_NUM
  GrpCap,       \* grp_cap, the groups the device can hold
  PortGrpCap,   \* port_grp_cap, the groups a port can hold
  Modes,        \* modes the management sets
  Reports,      \* the reports hosts send: <<port, sequence of records>>
  MaxChanges    \* bound on the settings of limits and of the leave mode

ASSUME TimerAssumption == GMI \in Nat /\ LMQT \in 1..GMI
ASSUME SrcAssumption == MaxSrc \in Nat
ASSUME LimitAssumption == GrpCap \in Nat /\ PortGrpCap \in Nat /\ MaxChanges \in Nat
ASSUME FiniteAssumption == IsFiniteSet(Ports) /\ IsFiniteSet(Groups) /\ IsFiniteSet(Sources)
ASSUME MacAssumption == DOMAIN Mac = Groups
\* mc_set_dft_ip keeps the bits the MAC address is made of.
ASSUME DftAssumption ==
  /\ DftGroup \in [Groups -> Groups]
  /\ \A g \in Groups : Mac[DftGroup[g]] = Mac[g] /\ DftGroup[DftGroup[g]] = DftGroup[g]

VARIABLES
  node,   \* mc_node_t: the tables, their counters and the configuration
  l2,     \* the switch: the <<MAC, port>> pairs it forwards to
  changes \* settings made, up to MaxChanges

vars == <<node, l2, changes>>

Flags == {"STOP", "START", "DELAY_STOP"}
RecordTypes == {"IS_IN", "IS_EX", "TO_IN", "TO_EX", "ALLOW", "BLOCK"}
\* A group record: "asm" is an IGMPv1/v2 or MLDv1 report, which the flood check is for.
Records == [grp: Groups, type: RecordTypes, src: SUBSET Sources, asm: BOOLEAN, static: BOOLEAN]

\* mc_ssm_record_src_parse refuses a record with more sources than an entry can hold.
ASSUME ReportsAssumption ==
  Reports \subseteq Ports \X Seq({rec \in Records : Cardinality(rec.src) <= MaxSrc})

-----------------------------------------------------------------------------
\* mc_timer.c
Timer(age, flag) == [age |-> age, flag |-> flag]

Less(count, by) == IF count > by THEN count - by ELSE 0

\* Mutant: only lowered timers age.
Mut_OnlyLowered(t, static) ==
  IF static \/ t.flag # "DELAY_STOP" THEN t
  ELSE Timer(Less(t.age, 1), IF t.age <= 1 THEN "STOP" ELSE t.flag)

mc_timer_age(t, static) ==
  IF static /\ t.flag # "DELAY_STOP" THEN t
  ELSE Timer(Less(t.age, 1), IF t.age <= 1 THEN "STOP" ELSE t.flag)

mc_timer_set(t, age, flag) ==
  IF flag = "DELAY_STOP"
    THEN Timer(IF t.flag # "DELAY_STOP" /\ age < t.age THEN age ELSE t.age, flag)
    ELSE Timer(age, flag)

\* mc_src.c: the operations on source lists
mc_x_mc_timer_set(x, age, flag) == [s \in DOMAIN x |-> mc_timer_set(x[s], age, flag)]
mc_x_minus(x, set) == Restrict(x, DOMAIN x \ set)
mc_x_intersection(x, set) == Restrict(x, DOMAIN x \cap set)
mc_x_union_subset(x, sub) ==
  [s \in DOMAIN x \cup DOMAIN sub |->
     IF s \notin DOMAIN x THEN sub[s]
     ELSE IF s \in DOMAIN sub THEN mc_timer_set(x[s], sub[s].age, sub[s].flag)
     ELSE x[s]]

\* The sources of a record as a list: mc_src_create clears their timers.
FromRecord(set) == [s \in set |-> Timer(0, "STOP")]
Refreshed(set) == mc_x_mc_timer_set(FromRecord(set), GMI, "START")

-----------------------------------------------------------------------------
(* mc_report.c: what a record does to a port group e.  The result is the   *)
(* changed copy, and whether the handler asks for an update of the fdb; if *)
(* it does not, only the timers of the copy are taken over.                *)
Changed(e, update) == [new |-> e, update |-> update]

\* Mutant: sources that are wanted again stay in the list of the blocked ones.
Mut_StaysBlocked(e, A) ==
  Changed([e EXCEPT !.src = mc_x_union_subset(@, Refreshed(A))], ~ A \subseteq DOMAIN e.src)

mc_record_isin_handle(e, A) ==
  LET x == DOMAIN e.src IN
  IF e.filter_mode = "INCLUDE"
    THEN Changed([e EXCEPT !.src = mc_x_union_subset(@, Refreshed(A))], ~ A \subseteq x)
    ELSE Changed([e EXCEPT !.src = mc_x_union_subset(@, Refreshed(A)), !.aged = @ \ A],
                 ~ A \subseteq x \/ e.aged \cap A # {})

\* Mutant: an update is asked for only if the list of the wanted sources changes.
Mut_BlockedUnnoticed(e, A) ==
  LET old == DOMAIN e.src
      x   == IF e.filter_mode = "INCLUDE" THEN mc_x_intersection(e.src, A)
             ELSE mc_x_union_subset(mc_x_intersection(e.src, A),
                                    Refreshed((A \ e.aged) \ old))
      y   == IF e.filter_mode = "INCLUDE" THEN e.aged \cup (A \ old) ELSE e.aged \cap A
  IN  Changed([e EXCEPT !.src = x, !.aged = y, !.filter_mode = "EXCLUDE",
                        !.grp_timer = mc_timer_set(@, GMI, "START")],
              e.filter_mode = "INCLUDE" \/ DOMAIN x # old)

mc_record_isex_handle(e, A) ==
  LET old == DOMAIN e.src
      x   == IF e.filter_mode = "INCLUDE" THEN mc_x_intersection(e.src, A)
             ELSE mc_x_union_subset(mc_x_intersection(e.src, A),
                                    Refreshed((A \ e.aged) \ old))
      y   == IF e.filter_mode = "INCLUDE" THEN e.aged \cup (A \ old) ELSE e.aged \cap A
  IN  Changed([e EXCEPT !.src = x, !.aged = y, !.filter_mode = "EXCLUDE",
                        !.grp_timer = mc_timer_set(@, GMI, "START")],
              e.filter_mode = "INCLUDE" \/ DOMAIN x # old \/ y # e.aged)

mc_record_toin_handle(e, A, leave) ==
  LET x == DOMAIN e.src
      lowered == mc_x_union_subset(mc_x_mc_timer_set(e.src, LMQT, "DELAY_STOP"), Refreshed(A))
  IN
  IF e.filter_mode = "INCLUDE"
    THEN IF leave = "NON_FAST"
           THEN Changed([e EXCEPT !.src = lowered], ~ A \subseteq x)
           ELSE Changed([e EXCEPT !.src = Refreshed(A)], x # A)
    ELSE IF leave = "NON_FAST"
           THEN Changed([e EXCEPT !.src = lowered, !.aged = @ \ A,
                                  !.grp_timer = mc_timer_set(@, LMQT, "DELAY_STOP")],
                        ~ A \subseteq x \/ e.aged \cap A # {})
           ELSE Changed([e EXCEPT !.src = Refreshed(A), !.aged = {},
                                  !.filter_mode = "INCLUDE",
                                  !.grp_timer = mc_timer_set(@, 0, "STOP")], TRUE)

mc_record_toex_handle(e, A, leave) ==
  LET x == DOMAIN e.src
      kept == IF e.filter_mode = "INCLUDE" THEN mc_x_intersection(e.src, A)
              ELSE FromRecord(A \ e.aged)
      lowered == mc_x_mc_timer_set(kept, LMQT, "DELAY_STOP")
      ex == [e EXCEPT !.filter_mode = "EXCLUDE", !.grp_timer = mc_timer_set(@, GMI, "START")]
  IN
  IF e.filter_mode = "INCLUDE"
    THEN IF leave = "NON_FAST"
           THEN Changed([ex EXCEPT !.src = lowered, !.aged = @ \cup (A \ x)], TRUE)
           ELSE Changed([ex EXCEPT !.src = <<>>, !.aged = A], TRUE)
    ELSE IF leave = "NON_FAST"
           THEN Changed([ex EXCEPT !.src = lowered, !.aged = @ \cap A],
                        x # A \ e.aged \/ e.aged # A)
           ELSE Changed([ex EXCEPT !.src = <<>>, !.aged = A], x # {} \/ e.aged # A)

mc_record_block_handle(e, A, leave) ==
  LET x == DOMAIN e.src
      lowered(list) == mc_x_union_subset(e.src, mc_x_mc_timer_set(list, LMQT, "DELAY_STOP"))
  IN
  IF e.filter_mode = "INCLUDE"
    THEN IF leave = "NON_FAST"
           THEN Changed([e EXCEPT !.src = lowered(mc_x_intersection(@, A))], FALSE)
           ELSE Changed([e EXCEPT !.src = mc_x_minus(@, A)], x \cap A # {})
    ELSE IF leave = "NON_FAST"
           THEN Changed([e EXCEPT !.src = lowered(FromRecord(A \ e.aged))],
                        ~ (A \ e.aged) \subseteq x)
           ELSE Changed([e EXCEPT !.src = mc_x_minus(@, A), !.aged = @ \cup A],
                        x \cap A # {} \/ ~ A \subseteq e.aged)

mc_port_grp_update(e, rec, leave) ==
  CASE rec.type \in {"IS_IN", "ALLOW"} -> mc_record_isin_handle(e, rec.src)
    [] rec.type = "IS_EX" -> mc_record_isex_handle(e, rec.src)
    [] rec.type = "TO_IN" -> mc_record_toin_handle(e, rec.src, leave)
    [] rec.type = "TO_EX" -> mc_record_toex_handle(e, rec.src, leave)
    [] rec.type = "BLOCK" -> mc_record_block_handle(e, rec.src, leave)

-----------------------------------------------------------------------------
(* The tables.  A state st is [node, l2]; handlers return [ret, st].       *)
Return(ret, n, hw) == [ret |-> ret, st |-> [node |-> n, l2 |-> hw]]

mc_port_grp_exist(e) == e.filter_mode = "EXCLUDE" \/ DOMAIN e.src # {}
Entries(n) == DOMAIN n.tbl
mc_grp_exist(n, g) == \E p \in Ports : <<g, p>> \in Entries(n)
HwKey(k) == <<Mac[k[1]], k[2]>>

\* Mutant: the last port takes its group out of the table, not out of cur_grp_num.
Mut_GroupStaysCounted(n, gone) ==
  [n EXCEPT !.tbl = Restrict(@, Entries(n) \ gone),
            !.grp_count = [p \in Ports |-> Less(@[p], Cardinality({k \in gone : k[2] = p}))]]

\* mc_port_grp_rm of the entries in gone, and mc_grp_rm of the groups that lose their last port
Without(n, gone) ==
  LET rest == Entries(n) \ gone
      lost == {k[1] : k \in gone} \ {k[1] : k \in rest}
  IN  [n EXCEPT !.tbl = Restrict(@, rest),
                !.grp_count = [p \in Ports |-> Less(@[p], Cardinality({k \in gone : k[2] = p}))],
                !.cur_grp_num = Less(@, Cardinality(lost))]

mc_port_fdb_entry_del(st, k) == [node |-> Without(st.node, {k}), l2 |-> st.l2 \ {HwKey(k)}]

\* mc_group_timer_update
TimersOf(e, new) ==
  [e EXCEPT !.grp_timer = new.grp_timer,
            !.src = [s \in DOMAIN e.src |-> IF s \in DOMAIN new.src THEN new.src[s] ELSE e.src[s]]]

\* Less than 100 since update_time; "late" tells if the second of a "last" is over.
TooFast(upd, late) == upd \in {"now", "ahead"} \/ (upd = "last" /\ ~late)

mc_update_port_grp_entry(st, k, rec, late) ==
  LET e   == st.node.tbl[k]
      cur == IF rec.asm THEN [e EXCEPT !.upd = "now"] ELSE e
      r   == mc_port_grp_update(cur, rec, st.node.leave_mode[k[2]])
      Keep(entry) == [st.node EXCEPT !.tbl[k] = entry]
  IN
  IF rec.asm /\ TooFast(e.upd, late) THEN Return("ERROR", st.node, st.l2)
  ELSE IF ~r.update THEN Return("OK", Keep(TimersOf(cur, r.new)), st.l2)
  ELSE IF ~mc_port_grp_exist(r.new) THEN [ret |-> "OK", st |-> mc_port_fdb_entry_del(st, k)]
  ELSE IF Cardinality(DOMAIN r.new.src) + Cardinality(r.new.aged) > MaxSrc
    THEN Return("RESOURCE", Keep(cur), st.l2)
  ELSE Return("OK", Keep(r.new), st.l2 \cup {HwKey(k)})

\* mc_add_isin_record, mc_add_isex_record and the rest of the new entry
NewEntry(rec) ==
  LET in == rec.type \in {"IS_IN", "TO_IN", "ALLOW"}
  IN  [filter_mode |-> IF in THEN "INCLUDE" ELSE "EXCLUDE",
       src         |-> IF in THEN Refreshed(rec.src) ELSE <<>>,
       aged        |-> IF in THEN {} ELSE rec.src,
       grp_timer   |-> IF in THEN Timer(0, "STOP") ELSE Timer(GMI, "START"),
       static      |-> rec.static,
       upd         |-> IF rec.asm THEN "now" ELSE "never"]

mc_add_port_grp_entry(st, k, rec) ==
  LET n == st.node
      new == ~mc_grp_exist(n, k[1])
      added == [n EXCEPT !.tbl = [x \in DOMAIN @ \cup {k} |-> IF x = k THEN NewEntry(rec) ELSE @[x]],
                         !.grp_count[k[2]] = @ + 1,
                         !.cur_grp_num = IF new THEN @ + 1 ELSE @]
  IN
  IF rec.type = "BLOCK" \/ (rec.type = "TO_IN" /\ rec.src = {}) THEN Return("NOT_FOUND", n, st.l2)
  ELSE IF new /\ n.cur_grp_num = n.max_grp_num THEN Return("RESOURCE", n, st.l2)
  ELSE IF n.grp_count[k[2]] = n.max_grp[k[2]] THEN Return("RESOURCE", n, st.l2)
  ELSE IF HwKey(k) \in st.l2 THEN Return("ERROR", n, st.l2)
  ELSE Return("OK", added, st.l2 \cup {HwKey(k)})

mc_grp_record_handle(st, p, rec, late) ==
  LET k == <<rec.grp, p>> IN
  IF k \in Entries(st.node) THEN mc_update_port_grp_entry(st, k, rec, late)
  ELSE IF st.node.mode = "MANUAL" /\ ~rec.static THEN Return("OK", st.node, st.l2)
  ELSE mc_add_port_grp_entry(st, k, rec)

\* Mutant: the records that follow a failed one are processed, and the last one's result counts.
Mut_LastResult(st, p, recs, late) ==
  LET f[i \in 0..Len(recs)] ==
        IF i = 0 THEN [ret |-> "OK", st |-> st]
        ELSE mc_grp_record_handle(f[i-1].st, p, recs[i], late)
  IN  f[Len(recs)]

\* mc_grp_record_list_proc: the records in order, up to the first that fails
mc_grp_record_list_proc(st, p, recs, late) ==
  LET f[i \in 0..Len(recs)] ==
        IF i = 0 THEN [ret |-> "OK", st |-> st]
        ELSE LET before == f[i-1] IN
             IF before.ret # "OK" THEN before ELSE mc_grp_record_handle(before.st, p, recs[i], late)
  IN  f[Len(recs)]

-----------------------------------------------------------------------------
(* mc_fdb.c: ageing.  Every entry ages by itself, once per tick.           *)
GroupEnds(e) == e.filter_mode = "EXCLUDE" /\ mc_timer_age(e.grp_timer, e.static).flag = "STOP"
SourcesEnd(e) == {s \in DOMAIN e.src : mc_timer_age(e.src[s], FALSE).flag = "STOP"}

\* A second of update_time has passed too.
mc_port_fdb_age(e) ==
  [e EXCEPT !.filter_mode = IF GroupEnds(e) THEN "INCLUDE" ELSE @,
            !.grp_timer = IF e.filter_mode = "EXCLUDE" THEN mc_timer_age(@, e.static) ELSE @,
            !.src = [s \in DOMAIN @ \ SourcesEnd(e) |-> mc_timer_age(@[s], FALSE)],
            !.aged = IF GroupEnds(e) THEN {}
                     ELSE IF e.filter_mode = "EXCLUDE" THEN @ \cup SourcesEnd(e) ELSE @,
            !.upd = CASE @ = "now" -> "last" [] @ = "last" -> "old" [] OTHER -> @]

AgedOut(n) == {k \in Entries(n) : ~mc_port_grp_exist(mc_port_fdb_age(n.tbl[k]))}

\* mc_port_fdb_age calls the switch only for an entry that the ageing changed
AgedChanged(e) == GroupEnds(e) \/ SourcesEnd(e) # {}

\* Mutant: an entry that ages out stays in the switch.
Mut_NotCutOff(st) ==
  LET n == Without(st.node, AgedOut(st.node))
  IN  [node |-> [n EXCEPT !.tbl = [k \in DOMAIN @ |-> mc_port_fdb_age(@[k])]], l2 |-> st.l2]

mc_fdb_age(st) ==
  LET n == Without(st.node, AgedOut(st.node))
      InSwitch(ks) == {HwKey(k) : k \in {j \in ks : AgedChanged(st.node.tbl[j])}}
  IN  [node |-> [n EXCEPT !.tbl = [k \in DOMAIN @ |-> mc_port_fdb_age(@[k])]],
       l2   |-> (st.l2 \ InSwitch(AgedOut(st.node))) \cup InSwitch(Entries(n))]

\* mc_fdb_flush and mc_port_fdb_flush
mc_port_fdb_flush(st, ports) ==
  LET n == st.node
      gone == {k \in Entries(n) : k[2] \in ports}
  IN  [node |-> Without(n, gone), l2 |-> st.l2 \ {HwKey(k) : k \in gone}]

mc_fdb_flush(st) ==
  LET f == mc_port_fdb_flush(st, Ports) IN [f EXCEPT !.node.cur_grp_num = 0]

-----------------------------------------------------------------------------
Now == [node |-> node, l2 |-> l2]
Becomes(st) == node' = st.node /\ l2' = st.l2

\* mc_node_init
Init ==
  /\ node = [tbl |-> <<>>, grp_count |-> [p \in Ports |-> 0], cur_grp_num |-> 0,
             max_grp_num |-> GrpCap, max_grp |-> [p \in Ports |-> PortGrpCap],
             leave_mode |-> [p \in Ports |-> "NON_FAST"], mode |-> "DISABLE"]
  /\ l2 = {}
  /\ changes = 0

\* In manual mode the parsers replace the group of a report or query.
mc_set_dft_ip(n, g) == IF n.mode = "MANUAL" THEN DftGroup[g] ELSE g
Parsed(n, recs) == [i \in DOMAIN recs |-> [recs[i] EXCEPT !.grp = mc_set_dft_ip(n, @)]]

\* mc_report_proc, on a port of the hosts
Report(p, recs, late) ==
  /\ node.mode # "DISABLE"
  /\ Becomes(mc_grp_record_list_proc(Now, p, Parsed(node, recs), late).st)
  /\ UNCHANGED changes

\* The OLT names a MAC address, which stands for a default group that has it.
mc_mac_to_ip(mac) == CHOOSE g \in Groups : Mac[g] = mac /\ DftGroup[g] = g

\* mc_ctc_ctrl_add_mac_vlan_entry: an entry of the OLT, which looks like an IGMPv2 report
StaticRecord(g) == [grp |-> g, type |-> "IS_EX", src |-> {}, asm |-> TRUE, static |-> TRUE]

mc_ctc_ctrl_add_entry(p, g, late) ==
  /\ node.mode = "MANUAL"
  /\ Becomes(mc_grp_record_handle(Now, p, StaticRecord(g), late).st)
  /\ UNCHANGED changes

mc_ctc_ctrl_del_entry(p, g) ==
  /\ node.mode = "MANUAL"
  /\ <<g, p>> \in Entries(node)
  /\ Becomes(mc_port_fdb_entry_del(Now, <<g, p>>))
  /\ UNCHANGED changes

\* Mutant: a query does not open the flood check.
Mut_NotEarlier(upd, below) == upd

\* 200 less: below tells of an old time if that is below 0.  A time of this second or the
\* last is above 200, the clock of the first two seconds after the start of the board.
\* (Less than 100 below 0 still passes the check, where 100 is added: it counts as "old".)
Earlier(upd, below) ==
  IF upd \in {"never", "ahead"} \/ (upd = "old" /\ below) THEN "ahead" ELSE "old"

\* mc_query_record_proc, for a query about one group; below holds the ports whose entry wraps
Queried(n, g, below) ==
  [n EXCEPT !.tbl = [k \in Entries(n) |->
     IF k[1] = g THEN [n.tbl[k] EXCEPT !.upd = Earlier(@, k[2] \in below)] ELSE n.tbl[k]]]

\* mc_query_proc, from the uplink
Query(g, below) ==
  LET grp == mc_set_dft_ip(node, g) IN
  /\ node.mode # "DISABLE"
  /\ mc_grp_exist(node, grp)
  /\ node' = Queried(node, grp, below)
  /\ UNCHANGED <<l2, changes>>

\* mc_static_timer_handler, once a second
Tick ==
  /\ Becomes(mc_fdb_age(Now))
  /\ UNCHANGED changes

\* mc_mgmt.c
mc_node_set_mode(mode) ==
  /\ mode # node.mode
  /\ Becomes([mc_fdb_flush(Now) EXCEPT !.node.mode = mode])
  /\ UNCHANGED changes

Setting == changes < MaxChanges /\ changes' = changes + 1

mc_node_set_max_grp(max) ==
  LET n == [node EXCEPT !.max_grp_num = max] IN
  /\ Setting
  /\ max # node.max_grp_num
  /\ IF node.cur_grp_num > max THEN Becomes(mc_fdb_flush([Now EXCEPT !.node = n]))
                               ELSE node' = n /\ UNCHANGED l2

mc_node_set_port_max_grp(p, max) ==
  LET n == [node EXCEPT !.max_grp[p] = max] IN
  /\ Setting
  /\ max # node.max_grp[p]
  /\ IF node.grp_count[p] > max THEN Becomes(mc_port_fdb_flush([Now EXCEPT !.node = n], {p}))
                                ELSE node' = n /\ UNCHANGED l2

mc_set_fast_leave_state(leave) ==
  /\ Setting
  /\ node' = [node EXCEPT !.leave_mode = [p \in Ports |-> leave]]
  /\ UNCHANGED l2

\* mc_ctc_ctrl_clr_mfdb, and every setting of a protocol parameter
Flush == Becomes(mc_fdb_flush(Now)) /\ UNCHANGED changes

IsAsm(recs) == \E i \in DOMAIN recs : recs[i].asm

Next ==
  \/ \E r \in Reports : \E late \in (IF IsAsm(r[2]) THEN BOOLEAN ELSE {TRUE}) :
       Report(r[1], r[2], late)
  \/ \E p \in Ports, mac \in Range(Mac) :
       \/ \E late \in BOOLEAN : mc_ctc_ctrl_add_entry(p, mc_mac_to_ip(mac), late)
       \/ mc_ctc_ctrl_del_entry(p, mc_mac_to_ip(mac))
  \/ \E g \in Groups, below \in SUBSET Ports : Query(g, below)
  \/ Tick
  \/ \E mode \in Modes : mc_node_set_mode(mode)
  \/ \E max \in 0..GrpCap : mc_node_set_max_grp(max)
  \/ \E p \in Ports, max \in 0..PortGrpCap : mc_node_set_port_max_grp(p, max)
  \/ \E leave \in {"FAST", "NON_FAST"} : mc_set_fast_leave_state(leave)
  \/ Flush

Spec == Init /\ [][Next]_vars

-----------------------------------------------------------------------------
Timers == [age: 0..GMI, flag: Flags]
UpdateTimes == {"now", "last", "old", "never", "ahead"}

\* Every variable has its type; the entries, mc_port_group_state_t, are typed one by one.
TypeOK ==
  /\ Entries(node) \subseteq Groups \X Ports
  /\ \A k \in Entries(node) :
       LET e == node.tbl[k] IN
       /\ e.filter_mode \in {"INCLUDE", "EXCLUDE"}
       /\ DOMAIN e.src \subseteq Sources
       /\ \A s \in DOMAIN e.src : e.src[s] \in Timers
       /\ e.aged \subseteq Sources
       /\ e.grp_timer \in Timers
       /\ e.static \in BOOLEAN
       /\ e.upd \in UpdateTimes
  /\ node.grp_count \in [Ports -> Nat]
  /\ node.cur_grp_num \in Nat
  /\ node.max_grp_num \in 0..GrpCap
  /\ node.max_grp \in [Ports -> 0..PortGrpCap]
  /\ node.leave_mode \in [Ports -> {"FAST", "NON_FAST"}]
  /\ node.mode \in Modes \cup {"DISABLE"}
  /\ l2 \subseteq {Mac[g] : g \in Groups} \X Ports
  /\ changes \in 0..MaxChanges

\* The switch forwards to exactly the ports that have an entry (mc_port_fdb_add, _update
\* and _del keep up with every path that changes the table, ageing included), and no two
\* entries of a port share a MAC address: deleting one would cut the other off.
FdbFollowsState ==
  /\ l2 = {HwKey(k) : k \in Entries(node)}
  /\ \A j, k \in Entries(node) : HwKey(j) = HwKey(k) => j = k

\* grp_count and cur_grp_num, which many paths count up and down, are the numbers of
\* entries and of groups, and never above the limits, whichever way those are changed.
CountsExact ==
  /\ \A p \in Ports :
       /\ node.grp_count[p] = Cardinality({k \in Entries(node) : k[2] = p})
       /\ node.grp_count[p] <= node.max_grp[p]
  /\ node.cur_grp_num = Cardinality({g \in Groups : mc_grp_exist(node, g)})
  /\ node.cur_grp_num <= node.max_grp_num

\* No source is in both lists of an entry, only a group in exclude mode has blocked
\* sources, the lists fit the table of mc_fdb_entry_t, and every entry kept forwards
\* something: mc_port_grp_exist holds of it.
EntriesWellFormed ==
  /\ TypeOK
  /\ \A k \in Entries(node) :
       LET e == node.tbl[k] IN
       /\ DOMAIN e.src \cap e.aged = {}
       /\ e.filter_mode = "INCLUDE" => e.aged = {}
       /\ Cardinality(DOMAIN e.src) + Cardinality(e.aged) <= MaxSrc
       /\ mc_port_grp_exist(e)

\* The router states of the tables in the comments of mc_report.c.
State(mode, x, y) == [mode |-> mode, x |-> x, y |-> y]
StateOf(e) == State(e.filter_mode, DOMAIN e.src, e.aged)
Table(s, type, A, leave) ==
  LET fast == leave = "FAST" IN
  IF s.mode = "INCLUDE"
    THEN CASE type \in {"IS_IN", "ALLOW"} \/ (type = "TO_IN" /\ ~fast) -> State("INCLUDE", s.x \cup A, {})
           [] type = "TO_IN" /\ fast -> State("INCLUDE", A, {})
           [] type = "IS_EX" \/ (type = "TO_EX" /\ ~fast) -> State("EXCLUDE", s.x \cap A, A \ s.x)
           [] type = "TO_EX" /\ fast -> State("EXCLUDE", {}, A)
           [] type = "BLOCK" -> State("INCLUDE", IF fast THEN s.x \ A ELSE s.x, {})
    ELSE CASE type \in {"IS_IN", "ALLOW"} \/ (type = "TO_IN" /\ ~fast) -> State("EXCLUDE", s.x \cup A, s.y \ A)
           [] type = "TO_IN" /\ fast -> State("INCLUDE", A, {})
           [] type = "IS_EX" \/ (type = "TO_EX" /\ ~fast) -> State("EXCLUDE", A \ s.y, s.y \cap A)
           [] type = "TO_EX" /\ fast -> State("EXCLUDE", {}, A)
           [] type = "BLOCK" /\ ~fast -> State("EXCLUDE", s.x \cup (A \ s.y), s.y)
           [] type = "BLOCK" /\ fast -> State("EXCLUDE", s.x \ A, s.y \cup A)

\* A record that is not refused takes its port group to the router state of the tables;
\* in particular the handler that asks for no update of the fdb, so that only timers are
\* taken over, has left the lists as they were.
RecordTable ==
  \A r \in Reports :
    LET recs == Parsed(node, r[2])
        rec == recs[1]
        k   == <<rec.grp, r[1]>>
        res == mc_grp_record_list_proc(Now, r[1], recs, TRUE)
        new == res.st.node
    IN  Len(recs) = 1 /\ k \in Entries(node) /\ res.ret = "OK" =>
          LET want == Table(StateOf(node.tbl[k]), rec.type, rec.src, node.leave_mode[r[1]])
          IN  IF want = State("INCLUDE", {}, {}) THEN k \notin Entries(new)
              ELSE k \in Entries(new) /\ StateOf(new.tbl[k]) = want

\* A report that mc_report_proc forwards to the OLT has been put into effect as a whole:
\* in snooping mode each group it joins then reaches the port it came from.
ForwardedIsServed ==
  \A r \in Reports :
    LET res == mc_grp_record_list_proc(Now, r[1], r[2], TRUE)
    IN  node.mode = "SNOOPING" /\ res.ret = "OK" =>
          \A i \in DOMAIN r[2] : r[2][i].type \in {"IS_EX", "TO_EX"} =>
            /\ <<r[2][i].grp, r[1]>> \in Entries(res.st.node)
            /\ HwKey(<<r[2][i].grp, r[1]>>) \in res.st.l2

\* A host that answers a query about its group at once is heard, however short ago the
\* port's last report was: the 200 mc_query_record_proc takes off update_time are enough
\* for the flood check of mc_update_port_grp_entry, and the group timer starts again.  It
\* is heard as long as update_time has not wrapped, and always in the two seconds after a
\* report.  Once it has, because no IGMPv1/v2 or MLDv1 report ever set it or because there
\* was none for more than update_time / 200 queries (an entry of the OLT, or one that
\* IGMPv3 reports keep alive), every such report is refused and changes nothing.
AnswerIsHeard ==
  \A k \in Entries(node) : \A below \in SUBSET {k[2]} :
    LET answer == [StaticRecord(k[1]) EXCEPT !.static = FALSE]
        asked  == [Now EXCEPT !.node = Queried(node, k[1], below)]
        r      == mc_grp_record_handle(asked, k[2], answer, FALSE)
    IN  IF node.tbl[k].upd \in {"now", "last"} \/ asked.node.tbl[k].upd # "ahead"
          THEN r.ret = "OK" /\ r.st.node.tbl[k].grp_timer = Timer(GMI, "START")
          ELSE r = Return("ERROR", asked.node, asked.l2)

\* When the hosts fall silent every entry they made is gone after member_interval seconds,
\* from the table and from the switch, whatever leaves and queries came before: lowering a
\* timer or changing the filter mode never starts a longer wait.
AgesOut ==
  LET after[i \in 0..GMI] == IF i = 0 THEN Now ELSE mc_fdb_age(after[i-1])
      end == after[GMI]
  IN  /\ \A k \in Entries(end.node) : end.node.tbl[k].static
      /\ end.l2 = {HwKey(k) : k \in Entries(end.node)}
=============================================================================
