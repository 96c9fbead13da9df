------------------------------ MODULE DnsService ------------------------------
(***************************************************************************)
(* lars_dns: the route table with its backend thread (dns_route.cpp), the  *)
(* subscription lists (subcribe.cpp) and the handlers that run in the      *)
(* reactor threads (dns_service.cpp).                                      *)
(*                                                                         *)
(* A route is abstracted to a revision number: the rows of mod m carry the *)
(* revision the administrator last gave it.  One action is a stretch of    *)
(* code between two accesses to shared state.  A connection belongs to one *)
(* reactor thread, so what a thread does to its own connections (sub_list, *)
(* conns[fd], send_message) joins the shared access next to it.            *)
(***************************************************************************)
EXTENDS Naturals, FiniteSets

CONSTANTS
  Mods,               \* the (modid, cmdid) pairs
  Fds,                \* file descriptors of connections
  Threads,            \* reactor threads
  None,
  AdminWaits,         \* what an edit waits for: "nothing", "poll" or "pushes"
  MaxEdits            \* bound: edits of the database

ASSUME DnsAssumption ==
  /\ None \notin Threads \cup Fds \cup Mods
  /\ AdminWaits \in {"nothing", "poll", "pushes"}
  /\ MaxEdits \in Nat

(* The database, written by an administration tool outside the repository. *)
VARIABLES db_rev,     \* RouteData: revision of each mod
          db_version, \* RouteVersion
          db_change   \* RouteChange: set of <<mod, version>>

(* Route and its backend thread check_route_changes. *)
VARIABLES map,          \* the two route_maps: mod -> revisions of its rows
          data_pointer, \* the one readers use; the other is _temp_pointer
          version,      \* _version
          backend,      \* where check_route_changes is
          rows,         \* rows of the stored result not inserted yet
          forced,       \* this load is the periodic one, nothing is published
          changes       \* change_mods still to be published

(* SubcribeList *)
VARIABLES book_list,  \* mod -> fds
          push_list,  \* fd -> mods
          locked      \* publish() holds both mutexes

(* Reactor threads and connections *)
VARIABLES owner,      \* thread of an open fd, None when the fd is closed
          sub_list,   \* conn->param of the fd
          pc, at, at_mod,  \* where a thread is, with which fd and mod
          need_publish,    \* local of push_change_task: fd -> mods
          tasks       \* push_change_task in the thread's queue

(* History: the revisions in the last response sent on the fd, per mod. *)
VARIABLE seen

database == <<db_rev, db_version, db_change>>
route == <<map, data_pointer, version, backend, rows, forced, changes>>
lists == <<book_list, push_list, locked>>
conns == <<owner, sub_list, seen>>
threads == <<pc, at, at_mod, need_publish, tasks>>
vars == <<database, route, lists, conns, threads>>

Maps == {"A", "B"}
reader_pointer == data_pointer     \* Mutant: the table is loaded in place
temp_pointer == CHOOSE p \in Maps : p # data_pointer
table == map[data_pointer]

Init ==
  /\ db_rev = [m \in Mods |-> 0] /\ db_change = {}
  /\ db_version \in {0, 1}     \* 0: RouteVersion has no row yet
  /\ map = [p \in Maps |-> [m \in Mods |-> IF p = "A" THEN {0} ELSE {}]]
  /\ data_pointer = "A" /\ version = 0
  /\ backend = "sleep" /\ rows = {} /\ forced = FALSE /\ changes = {}
  /\ book_list = [m \in Mods |-> {}] /\ push_list = [f \in Fds |-> {}]
  /\ locked = FALSE
  /\ owner = [f \in Fds |-> None] /\ sub_list = [f \in Fds |-> {}]
  /\ seen = [f \in Fds |-> [m \in Mods |-> {}]]
  /\ pc = [t \in Threads |-> "loop"] /\ at = [t \in Threads |-> None]
  /\ at_mod = [t \in Threads |-> None] /\ tasks = [t \in Threads |-> 0]
  /\ need_publish = [t \in Threads |-> [f \in Fds |-> {}]]
-----------------------------------------------------------------------------
PushesDone == \A t \in Threads : tasks[t] = 0 /\ pc[t] \notin {"push", "erase"}
Noticed == version = db_version
Quiet == Noticed /\ backend = "sleep" /\ PushesDone

(* One edit: new rows of m, a RouteChange row and a new RouteVersion. *)
edit(m) ==
  /\ db_version <= MaxEdits
  /\ AdminWaits = "poll" => Noticed
  /\ AdminWaits = "pushes" => Quiet
  /\ db_rev' = [db_rev EXCEPT ![m] = @ + 1]
  /\ db_version' = db_version + 1
  /\ db_change' = db_change \cup {<<m, db_version + 1>>}
  /\ UNCHANGED <<route, lists, conns, threads>>
-----------------------------------------------------------------------------
(* The backend thread. *)
Goto(l) == backend' = l

(* Without a row in RouteVersion it fails, which the caller treats like an  *)
(* unchanged version: _version and db_version are both 0 then.             *)
load_version ==
  /\ backend = "sleep"
  /\ version' = db_version
  /\ \/ version # db_version /\ forced' = FALSE /\ Goto("load")
     \/ version = db_version /\ forced' = TRUE /\ Goto("load")  \* 10 s are over
  /\ UNCHANGED <<database, map, data_pointer, rows, changes, lists, conns, threads>>

(* Mutant: the table is not cleared first. *)
load_route_data_on_top ==
  /\ backend = "load"
  /\ rows' = {<<m, db_rev[m]>> : m \in Mods}
  /\ Goto("insert")
  /\ UNCHANGED <<database, map, data_pointer, version, forced, changes, lists,
                 conns, threads>>

(* load_route_data: clear, query, store the result, then insert its rows. *)
load_route_data ==
  /\ backend = "load"
  /\ map' = [map EXCEPT ![temp_pointer] = [m \in Mods |-> {}]]
  /\ rows' = {<<m, db_rev[m]>> : m \in Mods}
  /\ Goto("insert")
  /\ UNCHANGED <<database, data_pointer, version, forced, changes, lists, conns, threads>>

insert_row ==
  /\ backend = "insert"
  /\ \E r \in rows :
       /\ map' = [map EXCEPT ![temp_pointer][r[1]] = @ \cup {r[2]}]
       /\ rows' = rows \ {r}
       /\ Goto(IF rows = {r} THEN "swap" ELSE "insert")
  /\ UNCHANGED <<database, data_pointer, version, forced, changes, lists, conns, threads>>

(* Mutant: the periodic load publishes too. *)
swap_and_publish ==
  /\ backend = "swap"
  /\ data_pointer' = temp_pointer
  /\ Goto("load_changes")
  /\ UNCHANGED <<database, map, version, rows, forced, changes, lists, conns, threads>>

swap ==
  /\ backend = "swap"
  /\ data_pointer' = temp_pointer
  /\ Goto(IF forced THEN "sleep" ELSE "load_changes")
  /\ UNCHANGED <<database, map, version, rows, forced, changes, lists, conns, threads>>

(* Mutant: > for >=. *)
ChangedAfter(v) == {c[1] : c \in {d \in db_change : d[2] > v}}

(* SELECT modid,cmdid FROM RouteChange WHERE version >= _version *)
Changed(v) == {c[1] : c \in {d \in db_change : d[2] >= v}}

load_changes ==
  /\ backend = "load_changes"
  /\ changes' = Changed(version)
  /\ Goto("publish")
  /\ UNCHANGED <<database, map, data_pointer, version, rows, forced, lists, conns, threads>>

publish_lock ==
  /\ backend = "publish" /\ ~locked
  /\ locked' = TRUE /\ Goto("publish_mod")
  /\ UNCHANGED <<database, map, data_pointer, version, rows, forced, changes,
                 book_list, push_list, conns, threads>>

(* The body of publish()'s loop; the mutexes do not stop push_erase. *)
publish_mod ==
  /\ backend = "publish_mod"
  /\ \E m \in changes :
       /\ push_list' = [f \in Fds |-> IF f \in book_list[m] THEN push_list[f] \cup {m}
                                                            ELSE push_list[f]]
       /\ changes' = changes \ {m}
  /\ UNCHANGED <<database, map, data_pointer, version, backend, rows, forced,
                 book_list, locked, conns, threads>>

publish_unlock ==
  /\ backend = "publish_mod" /\ changes = {}
  /\ locked' = FALSE /\ Goto("send_task")
  /\ UNCHANGED <<database, map, data_pointer, version, rows, forced, changes,
                 book_list, push_list, conns, threads>>

(* Mutant: the task reaches one thread only. *)
send_task_once ==
  /\ backend = "send_task"
  /\ tasks' = [tasks EXCEPT ![CHOOSE t \in Threads : TRUE] = @ + 1]
  /\ Goto("sleep")
  /\ UNCHANGED <<database, map, data_pointer, version, rows, forced, changes,
                 lists, conns, pc, at, at_mod, need_publish>>

send_task ==
  /\ backend = "send_task"
  /\ tasks' = [t \in Threads |-> tasks[t] + 1]
  /\ Goto("sleep")
  /\ UNCHANGED <<database, map, data_pointer, version, rows, forced, changes,
                 lists, conns, pc, at, at_mod, need_publish>>

Backend == \/ load_version \/ load_route_data \/ insert_row \/ swap
           \/ load_changes \/ publish_lock \/ publish_mod \/ publish_unlock
           \/ send_task
-----------------------------------------------------------------------------
(* The reactor threads.  A callback runs to its end before the thread's    *)
(* loop takes the next event or task.                                      *)
Step(t, l) == pc' = [pc EXCEPT ![t] = l]
With(t, f, m) == at' = [at EXCEPT ![t] = f] /\ at_mod' = [at_mod EXCEPT ![t] = m]

(* A new connection: create_subscribe gives it an empty sub_list. *)
create_subscribe(t, f) ==
  /\ pc[t] = "loop" /\ owner[f] = None
  /\ owner' = [owner EXCEPT ![f] = t]
  /\ sub_list' = [sub_list EXCEPT ![f] = {}]
  /\ seen' = [seen EXCEPT ![f] = [m \in Mods |-> {}]]
  /\ UNCHANGED <<database, route, lists, threads>>

(* get_route up to its subcribe(mod, fd). *)
get_route(t, f, m) ==
  /\ pc[t] = "loop" /\ owner[f] = t
  /\ IF m \in sub_list[f] THEN UNCHANGED <<sub_list, book_list>>
     ELSE /\ ~locked
          /\ sub_list' = [sub_list EXCEPT ![f] = @ \cup {m}]
          /\ book_list' = [book_list EXCEPT ![m] = @ \cup {f}]
  /\ Step(t, "reply") /\ With(t, f, m)
  /\ UNCHANGED <<database, route, push_list, locked, owner, seen, need_publish, tasks>>

(* send_message of what get_hosts finds under the read lock. *)
Send(f, m) == seen' = [seen EXCEPT ![f][m] = table[m]]

(* The rest of get_route. *)
get_route_reply(t) ==
  /\ pc[t] = "reply"
  /\ Send(at[t], at_mod[t])
  /\ Step(t, "loop") /\ With(t, None, None)
  /\ UNCHANGED <<database, route, lists, owner, sub_list, need_publish, tasks>>

(* The connection ends: clear_subscribe unsubscribes mod after mod ... *)
close_begin(t, f) ==
  /\ pc[t] = "loop" /\ owner[f] = t
  /\ Step(t, "close") /\ With(t, f, None)
  /\ UNCHANGED <<database, route, lists, conns, need_publish, tasks>>

unsubcribe(t) ==
  /\ pc[t] = "close" /\ ~locked
  /\ \E m \in sub_list[at[t]] :
       /\ book_list' = [book_list EXCEPT ![m] = @ \ {at[t]}]
       /\ sub_list' = [sub_list EXCEPT ![at[t]] = @ \ {m}]
  /\ UNCHANGED <<database, route, push_list, locked, owner, seen, threads>>

(* Mutant: the fd is closed before everything is unsubscribed. *)
close_end_early(t) ==
  /\ pc[t] = "close"
  /\ owner' = [owner EXCEPT ![at[t]] = None]
  /\ seen' = [seen EXCEPT ![at[t]] = [m \in Mods |-> {}]]
  /\ Step(t, "loop") /\ With(t, None, None)
  /\ UNCHANGED <<database, route, lists, sub_list, need_publish, tasks>>

(* ... then clean_conn closes the fd, whose number may be used again. *)
close_end(t) ==
  /\ pc[t] = "close" /\ sub_list[at[t]] = {}
  /\ owner' = [owner EXCEPT ![at[t]] = None]
  /\ seen' = [seen EXCEPT ![at[t]] = [m \in Mods |-> {}]]
  /\ Step(t, "loop") /\ With(t, None, None)
  /\ UNCHANGED <<database, route, lists, sub_list, need_publish, tasks>>

(* push_change_task: get_listen_fds and make_publish_map. *)
make_publish_map(t) ==
  /\ pc[t] = "loop" /\ tasks[t] > 0 /\ ~locked
  /\ tasks' = [tasks EXCEPT ![t] = @ - 1]
  /\ need_publish' = [need_publish EXCEPT ![t] =
                        [f \in Fds |-> IF owner[f] = t THEN push_list[f] ELSE {}]]
  /\ Step(t, "push")
  /\ UNCHANGED <<database, route, lists, conns, at, at_mod>>

(* One (fd, mod) of need_publish, all mods of one fd before the next fd. *)
push_send(t) ==
  /\ pc[t] = "push"
  /\ \E f \in Fds : \E m \in need_publish[t][f] :
       /\ at[t] \in Fds \ {f} => need_publish[t][at[t]] = {}
       /\ Send(f, m)
       /\ need_publish' = [need_publish EXCEPT ![t][f] = @ \ {m}]
       /\ With(t, f, m)
  /\ Step(t, "erase")
  /\ UNCHANGED <<database, route, lists, owner, sub_list, tasks>>

(* get_push_list()->erase(fd), without the mutex. *)
push_erase(t) ==
  /\ pc[t] = "erase"
  /\ push_list' = [push_list EXCEPT ![at[t]] = {}]
  /\ Step(t, "push")
  /\ UNCHANGED <<database, route, book_list, locked, conns, at, at_mod, need_publish, tasks>>

push_end(t) ==
  /\ pc[t] = "push" /\ \A f \in Fds : need_publish[t][f] = {}
  /\ Step(t, "loop") /\ With(t, None, None)
  /\ UNCHANGED <<database, route, lists, conns, need_publish, tasks>>

(* What a thread does on its own once it has something to do. *)
Run(t) == \/ get_route_reply(t) \/ unsubcribe(t) \/ close_end(t)
          \/ make_publish_map(t) \/ push_send(t) \/ push_erase(t) \/ push_end(t)

Next ==
  \/ \E m \in Mods : edit(m)
  \/ Backend
  \/ \E t \in Threads :
       \/ Run(t)
       \/ \E f \in Fds : create_subscribe(t, f) \/ close_begin(t, f)
       \/ \E f \in Fds, m \in Mods : get_route(t, f, m)

Spec == Init /\ [][Next]_vars
-----------------------------------------------------------------------------
Stages == {"sleep", "load", "insert", "swap", "load_changes", "publish",
           "publish_mod", "send_task"}

(* The type invariant. *)
TypeOK ==
  /\ db_rev \in [Mods -> Nat] /\ db_version \in Nat
  /\ db_change \subseteq Mods \X Nat
  /\ map \in [Maps -> [Mods -> SUBSET Nat]] /\ data_pointer \in Maps
  /\ version \in Nat /\ backend \in Stages /\ rows \subseteq Mods \X Nat
  /\ forced \in BOOLEAN /\ changes \subseteq Mods
  /\ book_list \in [Mods -> SUBSET Fds] /\ push_list \in [Fds -> SUBSET Mods]
  /\ locked \in BOOLEAN
  /\ owner \in [Fds -> Threads \cup {None}] /\ sub_list \in [Fds -> SUBSET Mods]
  /\ seen \in [Fds -> [Mods -> SUBSET Nat]]
  /\ pc \in [Threads -> {"loop", "reply", "close", "push", "erase"}]
  /\ at \in [Threads -> Fds \cup {None}] /\ at_mod \in [Threads -> Mods \cup {None}]
  /\ need_publish \in [Threads -> [Fds -> SUBSET Mods]]
  /\ tasks \in [Threads -> 0..MaxEdits+1]  \* one per version noticed

(* A closed descriptor is subscribed to nothing and no thread works on it: *)
(* a number used again starts clean, although clear_subscribe unsubscribes *)
(* mod by mod while other threads and publish() run.                       *)
ClosedFdIsForgotten ==
  \A f \in Fds : owner[f] = None =>
    /\ \A m \in Mods : f \notin book_list[m]
    /\ \A t \in Threads : at[t] # f /\ need_publish[t][f] = {}

(* The route a connection is sent for a mod never goes back to an older    *)
(* revision, whichever of get_route and push_change_task sends it and      *)
(* however the reloads interleave with them.                               *)
NoStaleRouteSent ==
  [][\A f \in Fds, m \in Mods : seen[f][m] # {} /\ owner'[f] = owner[f] =>
       \A r \in seen[f][m] : \A s \in seen'[f][m] : r <= s]_vars

(* subcribe.cpp:142: the descriptors subscribed to a changed mod get its   *)
(* new route.  When the backend has noticed every edit and all pushes are  *)
(* done, each subscriber was sent the revision that is in the database.    *)
ChangesReachSubscribers ==
  (Quiet /\ \A t \in Threads : pc[t] = "loop") =>
    \A f \in Fds : owner[f] # None =>
      \A m \in sub_list[f] : seen[f][m] = {db_rev[m]}

(* What the table that is being filled will hold once it is complete. *)
Loaded(m) == map[temp_pointer][m] \cup {r[2] : r \in {q \in rows : q[1] = m}}

(* The result of the last query, as RouteTable sees it. *)
Queried == [m \in Mods |-> IF backend \in {"insert", "swap"} THEN Loaded(m) ELSE table[m]]

(* Readers see an atomic table although it is filled row by row: every     *)
(* table they are given is the whole result of one query.                  *)
RT == INSTANCE RouteTable WITH copy <- Queried
ServesRouteTable == RT!Spec
-----------------------------------------------------------------------------
(* The backend thread and the reactor threads keep running, and a loop     *)
(* that keeps serving events also executes its tasks: execute_ready_tasks  *)
(* ends every round of event_process.                                      *)
Fairness == /\ WF_vars(Backend)
            /\ \A t \in Threads : WF_vars(Run(t)) /\ SF_vars(make_publish_map(t))
FairSpec == Spec /\ Fairness

Subscribed(f, m) == owner[f] # None /\ m \in sub_list[f]

(* The last edit of a mod reaches each of its subscribers that stays       *)
(* connected: none of the locks, queues and tasks on the way holds it up.  *)
LastEditArrives ==
  \A f \in Fds, m \in Mods :
    [](Subscribed(f, m) => <>(~Subscribed(f, m) \/ seen[f][m] = {db_rev[m]}))
=============================================================================
