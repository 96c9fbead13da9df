----------------------------- MODULE LoadBalance -----------------------------
(***************************************************************************)
(* The load_balance object of lars_lb_agent: the hosts of one              *)
(* (modid, cmdid), judged idle or overloaded from the results the callers  *)
(* report (lars/lars_lb_agent/src/load_balance1.cpp, host_info.cpp).       *)
(*                                                                         *)
(* Every operation runs under the mutex of its route_lb, so one operation  *)
(* is one action; when a route is asked for (status, pull) is in Agent.    *)
(* Pointers matter here: update() deletes host_info objects but leaves     *)
(* their keys in _host_map, so the heap is explicit and `new' may hand out *)
(* an address an old key still holds.                                      *)
(* Once an operation touches a deleted object, takes the front of an empty *)
(* list or fails its assert, the code promises nothing any more: `running' *)
(* turns FALSE and the behaviour ends there.                               *)
(***************************************************************************)
EXTENDS Integers, Sequences, FiniteSets, Functions

CONSTANTS
  Hosts,              \* the keys ((uint64)ip << 32) + port
  Responses,          \* the host sets the dns service answers with
  Addrs,              \* the addresses operator new may return
  Freed,              \* content of an address that holds no live host_info
  Unset,              \* a long nobody wrote yet
  probe_num, init_succ_cnt, init_err_cnt,
  ErrNum, ErrDen,     \* lb_config.err_rate  = ErrNum / ErrDen
  SuccNum, SuccDen,   \* lb_config.succ_rate = SuccNum / SuccDen
  contin_err_limit, contin_succ_limit,
  idle_timeout, overload_timeout,
  MaxCalls,           \* bound: calls reported for a host in one window
  MaxQueue            \* bound: requests waiting in report_queue

ASSUME ConfigAssumption ==
  /\ Unset \notin Int /\ IsFiniteSet(Hosts) /\ Responses \subseteq SUBSET Hosts
  /\ {probe_num, init_succ_cnt, init_err_cnt, ErrNum, ErrDen, SuccNum,
      SuccDen, idle_timeout, overload_timeout, MaxCalls, MaxQueue} \subseteq Nat
  /\ {contin_err_limit, contin_succ_limit} \subseteq Nat \ {0}

VARIABLES
  host_map,           \* _host_map: key -> address
  heap,               \* the host_info at each address
  idle_list, overload_list,
  access_cnt,
  report_queue,       \* the rows of each ReportStatusRequest waiting in it
  running             \* FALSE once the object left defined behaviour

(* History of the environment, never read by the code's actions. *)
VARIABLES
  routed,             \* the hosts of the last response handed to update()
  dropped,            \* the hosts update() ever deleted
  given               \* hosts handed to a caller that has not reported yet

lists == <<host_map, heap, idle_list, overload_list>>
history == <<routed, dropped, given>>
vars == <<lists, access_cnt, report_queue, running, history>>
-----------------------------------------------------------------------------
(* host_info.  A timestamp is kept as its age, which stops growing at the  *)
(* timeout it is compared with.                                            *)
host_info ==
  [host : Hosts, vsucc : Nat, verr : Nat, rsucc : Nat, rerr : Nat,
   contin_succ : Nat, contin_err : Nat, overload : BOOLEAN,
   idle_age : 0..idle_timeout, overload_age : (0..overload_timeout) \cup {Unset}]

ASSUME FreedAssumption == Freed \notin host_info

new_host_info(h) ==
  [host |-> h, vsucc |-> init_succ_cnt, verr |-> 0, rsucc |-> 0, rerr |-> 0,
   contin_succ |-> 0, contin_err |-> 0, overload |-> FALSE,
   idle_age |-> 0, overload_age |-> Unset]

set_overload(hi) ==
  [hi EXCEPT !.vsucc = 0, !.verr = init_err_cnt, !.rsucc = 0, !.rerr = 0,
             !.contin_succ = 0, !.contin_err = 0, !.overload = TRUE,
             !.overload_age = 0]

(* Mutant: the failures of the overload survive the flip back. *)
set_idle_keeps_verr(hi) ==
  [hi EXCEPT !.vsucc = init_succ_cnt, !.rsucc = 0, !.rerr = 0,
             !.contin_succ = 0, !.contin_err = 0, !.overload = FALSE,
             !.idle_age = 0]

(* Mutant: the real successes survive the reset of the window. *)
set_idle_keeps_rsucc(hi) ==
  [hi EXCEPT !.vsucc = init_succ_cnt, !.verr = 0, !.rerr = 0,
             !.contin_succ = 0, !.contin_err = 0, !.overload = FALSE,
             !.idle_age = 0]

set_idle(hi) ==
  [hi EXCEPT !.vsucc = init_succ_cnt, !.verr = 0, !.rsucc = 0, !.rerr = 0,
             !.contin_succ = 0, !.contin_err = 0, !.overload = FALSE,
             !.idle_age = 0]

Live(a) == heap[a] # Freed

(* std::list::remove for each address of D. *)
Without(l, D) ==
  LET kept[i \in 0..Len(l)] ==
        IF i = 0 THEN << >>
        ELSE IF l[i] \in D THEN kept[i-1] ELSE Append(kept[i-1], l[i])
  IN  kept[Len(l)]

Rotate(l) == Append(Tail(l), Head(l))

(* The operation ran into undefined behaviour or an assert. *)
Fault == running' = FALSE /\ UNCHANGED <<lists, access_cnt, report_queue, history>>

Init ==
  /\ host_map = << >>
  /\ heap = [a \in Addrs |-> Freed]
  /\ idle_list = << >> /\ overload_list = << >>
  /\ access_cnt = 0 /\ report_queue = << >>
  /\ running = TRUE
  /\ routed = {} /\ dropped = {} /\ given = {}
-----------------------------------------------------------------------------
(* get_host_from_list: the caller gets the front, which moves to the back. *)
get_host_from_idle ==
  /\ idle_list' = Rotate(idle_list)
  /\ given' = given \cup {heap[Head(idle_list)].host}
  /\ UNCHANGED overload_list

get_host_from_overload ==
  IF overload_list = << >> THEN running' = FALSE /\ UNCHANGED <<idle_list, overload_list, given>>
  ELSE /\ overload_list' = Rotate(overload_list)
       /\ given' = given \cup {heap[Head(overload_list)].host}
       /\ UNCHANGED <<idle_list, running>>

(* Mutant: > for >=. *)
ProbingLate == access_cnt > probe_num

Probing == access_cnt >= probe_num

(* choice_one_host; route_lb only asks an object that is not empty(). *)
choice_one_host ==
  /\ running /\ host_map # << >>
  /\ \/ /\ (idle_list = << >> \/ overload_list # << >>) /\ Probing
        /\ access_cnt' = 0
        /\ get_host_from_overload
     \/ /\ idle_list = << >> /\ ~Probing                    \* RET_OVERLOAD
        /\ access_cnt' = access_cnt + 1
        /\ UNCHANGED <<idle_list, overload_list, given, running>>
     \/ /\ idle_list # << >> /\ overload_list = << >>
        /\ get_host_from_idle
        /\ UNCHANGED <<access_cnt, running>>
     \/ /\ idle_list # << >> /\ overload_list # << >> /\ ~Probing
        /\ access_cnt' = access_cnt + 1
        /\ get_host_from_idle
        /\ UNCHANGED running
  /\ UNCHANGED <<host_map, heap, report_queue, routed, dropped>>
-----------------------------------------------------------------------------
(* report(): count the call, then judge the host. *)
Counted(hi, retcode) ==
  IF retcode = "RET_SUCC"
  THEN [hi EXCEPT !.vsucc = @ + 1, !.rsucc = @ + 1,
                  !.contin_succ = @ + 1, !.contin_err = 0]
  ELSE [hi EXCEPT !.verr = @ + 1, !.rerr = @ + 1,
                  !.contin_err = @ + 1, !.contin_succ = 0]

ErrRateExceeded(hi) == hi.verr * ErrDen > ErrNum * (hi.vsucc + hi.verr)
SuccRateExceeded(hi) == hi.vsucc * SuccDen > SuccNum * (hi.vsucc + hi.verr)

JudgedOverload(hi) == ErrRateExceeded(hi) \/ hi.contin_err >= contin_err_limit
JudgedIdle(hi) == SuccRateExceeded(hi) \/ hi.contin_succ >= contin_succ_limit

(* Mutant: only idle hosts have a window. *)
TimedOutIdle(hi) == ~hi.overload /\ hi.idle_age >= idle_timeout

TimedOut(hi) == IF hi.overload THEN hi.overload_age >= overload_timeout
                               ELSE hi.idle_age >= idle_timeout

Store(a, hi) == heap' = [heap EXCEPT ![a] = hi]

(* Mutant: the idle list is not cleaned. *)
CopyToOverload(a) == /\ idle_list' = idle_list
                     /\ overload_list' = Append(overload_list, a)

MoveToOverload(a) == /\ idle_list' = Without(idle_list, {a})
                     /\ overload_list' = Append(overload_list, a)

MoveToIdle(a) == /\ overload_list' = Without(overload_list, {a})
                 /\ idle_list' = Append(idle_list, a)

(* What report() does to the object at address a. *)
Judge(a, retcode) ==
  LET hi == Counted(heap[a], retcode)
      overload == ~hi.overload /\ retcode # "RET_SUCC" /\ JudgedOverload(hi)
      idle == hi.overload /\ retcode = "RET_SUCC" /\ JudgedIdle(hi)
  IN \/ /\ overload
        /\ Store(a, set_overload(hi))
        /\ MoveToOverload(a)
     \/ /\ idle
        /\ Store(a, set_idle(hi))
        /\ MoveToIdle(a)
     \/ /\ ~overload /\ ~idle /\ TimedOut(hi)
        /\ Store(a, set_idle(hi))
        /\ IF hi.overload THEN MoveToIdle(a)
                          ELSE UNCHANGED <<idle_list, overload_list>>
     \/ /\ ~overload /\ ~idle /\ ~TimedOut(hi)
        /\ Store(a, hi)
        /\ UNCHANGED <<idle_list, overload_list>>

(* Bound: a window takes MaxCalls calls, and one more once it is over. *)
CallAllowed(hi) == hi.rsucc + hi.rerr < MaxCalls \/ TimedOut(hi)

(* A report on a key that is not in _host_map changes nothing: no step. *)
report(h, retcode) ==
  /\ running /\ h \in DOMAIN host_map
  /\ IF ~Live(host_map[h]) THEN Fault
     ELSE /\ CallAllowed(heap[host_map[h]])
          /\ Judge(host_map[h], retcode)
          /\ given' = given \ {h}
          /\ UNCHANGED <<host_map, access_cnt, report_queue, running, routed, dropped>>
-----------------------------------------------------------------------------
(* update(): the response `rsp' of the dns service.  New hosts get the     *)
(* addresses `cell' and join the idle list in the response's order `q'.    *)
NewHostsAll(rsp) == rsp                                \* Mutant: no find first
NewHostsOnce(rsp) == IF host_map = << >> THEN rsp ELSE {}  \* Mutant
NewHosts(rsp) == rsp \ DOMAIN host_map

NeedDelete(rsp) == DOMAIN host_map \ rsp

Inserted(cell) ==
  [k \in DOMAIN host_map \cup DOMAIN cell |->
     IF k \in DOMAIN cell THEN cell[k] ELSE host_map[k]]

Allocated(cell) ==
  [a \in Addrs |-> IF \E k \in DOMAIN cell : cell[k] = a
                   THEN new_host_info(CHOOSE k \in DOMAIN cell : cell[k] = a)
                   ELSE heap[a]]

(* delete hi is reached twice for one address, or for a deleted object.    *)
DeletesFreed(m, hp, keys) ==
  \/ \E k \in keys : hp[m[k]] = Freed
  \/ \E k1, k2 \in keys : k1 # k2 /\ m[k1] = m[k2]

update(rsp, cell, q) ==
  LET hp == Allocated(cell)
      doomed == {host_map[k] : k \in NeedDelete(rsp)}
  IN
  /\ running
  /\ IF rsp = {} \/ DeletesFreed(host_map, hp, NeedDelete(rsp)) THEN Fault
     ELSE /\ host_map' = Inserted(cell)
          /\ heap' = [a \in Addrs |-> IF a \in doomed THEN Freed ELSE hp[a]]
          /\ idle_list' = Without(idle_list \o q, {a \in doomed : ~hp[a].overload})
          /\ overload_list' = Without(overload_list, {a \in doomed : hp[a].overload})
          /\ routed' = rsp
          /\ dropped' = dropped \cup NeedDelete(rsp)
          /\ UNCHANGED <<access_cnt, report_queue, running, given>>

(* Every way to place and to order the new hosts of a response. *)
update_any(rsp) ==
  \E cell \in Injection(NewHosts(rsp), {a \in Addrs : ~Live(a)}) :
    \E q \in Bijection(1..Cardinality(NewHosts(rsp)), {cell[k] : k \in NewHosts(rsp)}) :
      update(rsp, cell, q)
-----------------------------------------------------------------------------
(* commit(): one row for each host in the two lists. *)
Row(a, overload) == [host |-> heap[a].host, succ |-> heap[a].rsucc,
                     err |-> heap[a].rerr, overload |-> overload]

AllRows == {Row(a, FALSE) : a \in Range(idle_list)}
           \cup {Row(a, TRUE) : a \in Range(overload_list)}

commit ==
  /\ running /\ host_map # << >> /\ Len(report_queue) < MaxQueue
  /\ report_queue' = Append(report_queue, AllRows)
  /\ UNCHANGED <<lists, access_cnt, running, history>>

(* The report client, which is not in this repository, empties the queue. *)
take_reports ==
  /\ running /\ report_queue # << >>
  /\ report_queue' = << >>
  /\ UNCHANGED <<lists, access_cnt, running, history>>

Older(age, limit) == IF age = Unset \/ age = limit THEN age ELSE age + 1

(* A second passes. *)
Tick ==
  /\ running
  /\ heap' = [a \in Addrs |-> IF ~Live(a) THEN Freed ELSE
                [heap[a] EXCEPT !.idle_age = Older(@, idle_timeout),
                                !.overload_age = Older(@, overload_timeout)]]
  /\ UNCHANGED <<host_map, idle_list, overload_list, access_cnt, report_queue,
                 running, history>>

Retcodes == {"RET_SUCC", "failure"}

Next ==
  \/ choice_one_host
  \/ \E h \in Hosts, r \in Retcodes : report(h, r)
  \/ \E rsp \in Responses : update_any(rsp)
  \/ commit \/ take_reports
  \/ Tick

Spec == Init /\ [][Next]_vars
-----------------------------------------------------------------------------
PartialFunctions(S, T) == UNION {[D -> T] : D \in SUBSET S}

Rows == [host : Hosts, succ : Nat, err : Nat, overload : BOOLEAN]

(* The type invariant of the whole module. *)
TypeOK ==
  /\ host_map \in PartialFunctions(Hosts, Addrs)
  /\ heap \in [Addrs -> host_info \cup {Freed}]
  /\ idle_list \in Seq(Addrs) /\ overload_list \in Seq(Addrs)
  /\ access_cnt \in 0..probe_num
  /\ report_queue \in Seq(SUBSET Rows)
  /\ running \in BOOLEAN
  /\ routed \subseteq Hosts /\ dropped \subseteq Hosts /\ given \subseteq Hosts

(* The two lists divide the live hosts between them according to their     *)
(* overload flag, each host once, across every flip in report() and every  *)
(* deletion in update(): no pointer to a deleted host_info stays in a      *)
(* list, although one stays in _host_map.                                  *)
ListsPartitionLive ==
  /\ IsInjective(idle_list) /\ IsInjective(overload_list)
  /\ Range(idle_list) = {a \in Addrs : Live(a) /\ ~heap[a].overload}
  /\ Range(overload_list) = {a \in Addrs : Live(a) /\ heap[a].overload}

(* A live host is reachable through its own key, so a report about it      *)
(* reaches it even when operator new reused an address a stale key holds.  *)
LiveIsMapped ==
  \A a \in Addrs : Live(a) =>
    heap[a].host \in DOMAIN host_map /\ host_map[heap[a].host] = a

Served == {heap[a].host : a \in Range(idle_list) \cup Range(overload_list)}

(* choice_one_host never hands out a host that is not in the last response *)
(* of the dns service, however update() and address reuse interleave; and  *)
(* as long as update() never had to delete a host, it can hand out every   *)
(* host of that response.                                                  *)
ServedFollowsRoute ==
  Served \subseteq routed /\ (dropped = {} => Served = routed)

(* load_balance.h:40 and :63: update() makes _host_map follow the result   *)
(* of the dns service, "all hosts this module manages".  A host deleted    *)
(* once keeps its key in _host_map and is never inserted again.            *)
EveryRoutedHostIsServed == running => routed \subseteq Served

(* The judgement is never late: no idle host is past an error threshold    *)
(* and no overloaded host past a recovery threshold, whatever the order of *)
(* successes, failures, window resets and flips.                           *)
NoLateJudgement ==
  \A a \in Addrs : Live(a) =>
    IF heap[a].overload THEN ~JudgedIdle(heap[a]) ELSE ~JudgedOverload(heap[a])

(* The virtual counters that decide and the real counters that are sent to *)
(* the reporter describe the same window: they differ by the initial       *)
(* credit of the host's state and by nothing else.                         *)
CountersShareTheWindow ==
  \A a \in Addrs : Live(a) =>
    LET hi == heap[a] IN
    /\ hi.vsucc - hi.rsucc = (IF hi.overload THEN 0 ELSE init_succ_cnt)
    /\ hi.verr - hi.rerr = (IF hi.overload THEN init_err_cnt ELSE 0)
    /\ hi.contin_succ <= hi.rsucc /\ hi.contin_err <= hi.rerr

(* A request queued by commit() has exactly one row per host that can be   *)
(* handed out at that moment.                                              *)
EachServedHostReportedOnce ==
  [][Len(report_queue') > Len(report_queue) =>
       LET rows == report_queue'[Len(report_queue')] IN
       /\ {r.host : r \in rows} = Served
       /\ Cardinality(rows) = Cardinality(Served)]_vars
-----------------------------------------------------------------------------
(* Liveness.  Callers keep asking for hosts, they report about every host  *)
(* they were given, and time passes; nothing is assumed of the dns service *)
(* or of the result of a call.                                             *)
Fairness ==
  /\ WF_vars(choice_one_host)
  /\ \A h \in Hosts : WF_vars(h \in given /\ \E r \in Retcodes : report(h, r))
  /\ WF_vars(Tick)

FairSpec == Spec /\ Fairness

IsOverloaded(h) == \E a \in Range(overload_list) : heap[a].host = h

(* main_server.h:40, the longest time a host waits in the overload list:   *)
(* an overloaded host does not stay overloaded for ever even if every call *)
(* to it fails, because probing hands it out and its report finds the      *)
(* window over.                                                            *)
OverloadEnds == \A h \in Hosts : IsOverloaded(h) ~> (~IsOverloaded(h) \/ ~running)
=============================================================================
