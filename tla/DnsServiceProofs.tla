--------------------------- MODULE DnsServiceProofs ---------------------------
(***************************************************************************)
(* Proofs about DnsService for any mods, descriptors, threads and number   *)
(* of edits, whatever the administrator waits for: the tasks of a thread   *)
(* are bounded, no route goes back, Route implements an atomic table, and  *)
(* a closed descriptor is forgotten.  If the administrator waits for the   *)
(* pushes of the previous edit, every change reaches its subscribers.      *)
(***************************************************************************)
EXTENDS DnsService, TLAPS

(* Each version the backend noticed gives a thread at most one task, and   *)
(* the one it is working on is still to come.                              *)
Noticing == backend # "sleep" /\ ~forced

TaskInv ==
  /\ version <= db_version /\ db_version <= MaxEdits + 1
  /\ backend \in {"load_changes", "publish", "publish_mod", "send_task"} => ~forced
  /\ \A t \in Threads : tasks[t] + (IF Noticing THEN 1 ELSE 0) <= version

(* r is a revision of m that may follow those in the table.                *)
MayFollow(r, m) == r <= db_rev[m] /\ \A s \in table[m] : s <= r

(* The table holds one revision of each mod, and what is being loaded is   *)
(* complete and not older.                                                 *)
LoadInv ==
  /\ \A m \in Mods : \E r \in Nat : table[m] = {r} /\ r <= db_rev[m]
  /\ backend \in {"insert", "swap"} =>
       \A m \in Mods : \E r \in Nat : Loaded(m) = {r} /\ MayFollow(r, m)
  /\ backend = "swap" => rows = {}

(* Only an open descriptor that lists the mod is booked for it.            *)
BookInv ==
  \A m \in Mods : \A f \in book_list[m] : owner[f] # None /\ m \in sub_list[f]

(* A thread works on its own connections only, and has something to push   *)
(* only inside push_change_task.                                           *)
ThreadOK(t) ==
  /\ at[t] # None => owner[at[t]] = t
  /\ \A f \in Fds : need_publish[t][f] # {} => owner[f] = t /\ pc[t] \in {"push", "erase"}
  /\ pc[t] = "loop" => at[t] = None
  /\ pc[t] \in {"reply", "close", "erase"} => at[t] # None
  /\ pc[t] = "reply" => at_mod[t] \in Mods

ThreadInv == \A t \in Threads : ThreadOK(t)

(* What a connection was sent last is one revision, not newer than the     *)
(* table.                                                                  *)
SeenInv ==
  \A f \in Fds, m \in Mods :
    /\ \A r, s \in seen[f][m] : r = s
    /\ \A r \in seen[f][m], s \in table[m] : r <= s

IInv == TypeOK /\ TaskInv /\ LoadInv /\ BookInv /\ ThreadInv /\ SeenInv
-----------------------------------------------------------------------------
LEMMA TempPointer ==
  ASSUME TypeOK
  PROVE  data_pointer \in Maps /\ temp_pointer \in Maps /\ temp_pointer # data_pointer
<1>1. \E p \in Maps : p # data_pointer
  BY DEF TypeOK, Maps
<1> QED
  BY <1>1 DEF TypeOK, temp_pointer

LEMMA InitIInv == Init => IInv
<1> SUFFICES ASSUME Init PROVE IInv
  OBVIOUS
<1>1. TypeOK
  <2>1. 0 \in 0..MaxEdits+1
    BY DnsAssumption
  <2>2. tasks \in [Threads -> 0..MaxEdits+1]
    BY <2>1 DEF Init
  <2>3. map \in [Maps -> [Mods -> SUBSET Nat]] /\ data_pointer \in Maps
    BY DEF Init, Maps
  <2>4. db_version \in Nat /\ db_rev \in [Mods -> Nat] /\ db_change \subseteq Mods \X Nat
    BY DEF Init
  <2>5. /\ version \in Nat /\ backend \in Stages /\ rows \subseteq Mods \X Nat
        /\ forced \in BOOLEAN /\ changes \subseteq Mods /\ locked \in BOOLEAN
    BY DEF Init, Stages
  <2>6. /\ book_list \in [Mods -> SUBSET Fds] /\ push_list \in [Fds -> SUBSET Mods]
        /\ owner \in [Fds -> Threads \cup {None}] /\ sub_list \in [Fds -> SUBSET Mods]
        /\ seen \in [Fds -> [Mods -> SUBSET Nat]]
    BY DEF Init
  <2> QED
    BY <2>2, <2>3, <2>4, <2>5, <2>6 DEF Init, TypeOK
<1>2. TaskInv
  BY DnsAssumption DEF Init, TaskInv, Noticing
<1>3. LoadInv
  <2>1. \A m \in Mods : table[m] = {0} /\ db_rev[m] = 0
    BY DEF Init, table, Maps
  <2>2. \A m \in Mods : table[m] = {0} /\ 0 <= db_rev[m] /\ 0 \in Nat
    BY <2>1
  <2> QED
    BY <2>2 DEF Init, LoadInv
<1>4. BookInv /\ ThreadInv
  BY DEF Init, BookInv, ThreadInv, ThreadOK
<1>5. SeenInv
  BY DEF Init, SeenInv
<1> QED
  BY <1>1, <1>2, <1>3, <1>4, <1>5 DEF IInv

(* One callback of a reactor thread leaves the backend and the numbers of  *)
(* versions alone.                                                         *)
ThreadStep(t) ==
  \/ Run(t)
  \/ \E f \in Fds : create_subscribe(t, f) \/ close_begin(t, f)
  \/ \E f \in Fds, m \in Mods : get_route(t, f, m)

LEMMA ThreadStepLocal ==
  ASSUME NEW t \in Threads, ThreadStep(t)
  PROVE  UNCHANGED <<database, route>>
BY DEF ThreadStep, Run, create_subscribe, close_begin, get_route, get_route_reply,
       unsubcribe, close_end, make_publish_map, push_send, push_erase, push_end

LEMMA NextTasks ==
  ASSUME IInv, [Next]_vars
  PROVE  TaskInv' /\ tasks' \in [Threads -> 0..MaxEdits+1]
<1>a. /\ TypeOK /\ TaskInv
      /\ version \in Nat /\ db_version \in Nat /\ MaxEdits \in Nat
      /\ tasks \in [Threads -> 0..MaxEdits+1]
  BY DnsAssumption DEF IInv, TypeOK
<1>u. ASSUME UNCHANGED <<version, db_version, backend, forced, tasks>>
      PROVE  TaskInv' /\ tasks' \in [Threads -> 0..MaxEdits+1]
  BY <1>a, <1>u DEF TaskInv, Noticing
<1>1. ASSUME NEW m \in Mods, edit(m) PROVE TaskInv' /\ tasks' \in [Threads -> 0..MaxEdits+1]
  <2>1. /\ db_version <= MaxEdits /\ db_version' = db_version + 1
        /\ UNCHANGED <<version, backend, forced, tasks>>
    BY <1>1 DEF edit, route, threads
  <2> QED
    BY <1>a, <2>1 DEF TaskInv, Noticing
<1>2. CASE load_version
  <2>1. /\ backend = "sleep" /\ backend' = "load" /\ version' = db_version
        /\ version = db_version => forced'
        /\ UNCHANGED <<db_version, tasks>>
    BY <1>2 DEF load_version, Goto, database, threads
  <2>2. \A t \in Threads : tasks[t] <= version /\ tasks[t] \in Nat
    BY <1>a, <2>1 DEF TaskInv, Noticing
  <2>3. \A t \in Threads : tasks'[t] + (IF Noticing' THEN 1 ELSE 0) <= version'
    <3>1. CASE version = db_version
      <4>1. ~Noticing'
        BY <2>1, <3>1 DEF Noticing
      <4> QED
        BY <1>a, <2>1, <2>2, <3>1, <4>1
    <3>2. CASE version # db_version
      BY <1>a, <2>1, <2>2, <3>2 DEF Noticing, TaskInv
    <3> QED
      BY <3>1, <3>2
  <2> QED
    BY <1>a, <2>1, <2>3 DEF TaskInv
<1>3. ASSUME load_route_data \/ insert_row
      PROVE  TaskInv' /\ tasks' \in [Threads -> 0..MaxEdits+1]
  <2>1. /\ backend # "sleep" /\ backend' \in {"insert", "swap"}
        /\ UNCHANGED <<version, db_version, forced, tasks>>
    BY <1>3 DEF load_route_data, insert_row, Goto, database, threads
  <2> QED
    BY <1>a, <2>1 DEF TaskInv, Noticing
<1>4. CASE swap
  <2>1. /\ backend = "swap" /\ backend' = IF forced THEN "sleep" ELSE "load_changes"
        /\ UNCHANGED <<version, db_version, forced, tasks>>
    BY <1>4 DEF swap, Goto, database, threads
  <2> QED
    BY <1>a, <2>1 DEF TaskInv, Noticing
<1>5. ASSUME load_changes \/ publish_lock \/ publish_mod \/ publish_unlock
      PROVE  TaskInv' /\ tasks' \in [Threads -> 0..MaxEdits+1]
  <2>1. /\ backend \in {"load_changes", "publish", "publish_mod"}
        /\ backend' \in {"publish", "publish_mod", "send_task"}
        /\ UNCHANGED <<version, db_version, forced, tasks>>
    BY <1>5 DEF load_changes, publish_lock, publish_mod, publish_unlock, Goto,
                database, threads
  <2> QED
    BY <1>a, <2>1 DEF TaskInv, Noticing
<1>6. CASE send_task
  <2>1. /\ backend = "send_task" /\ backend' = "sleep"
        /\ tasks' = [t \in Threads |-> tasks[t] + 1]
        /\ UNCHANGED <<version, db_version, forced>>
    BY <1>6 DEF send_task, Goto, database
  <2>2. \A t \in Threads : tasks[t] + 1 <= version /\ tasks[t] \in Nat
    BY <1>a, <2>1 DEF TaskInv, Noticing
  <2>3. \A t \in Threads : tasks'[t] <= version /\ tasks'[t] \in 0..MaxEdits+1
    BY <1>a, <2>1, <2>2 DEF TaskInv
  <2>4. ~Noticing' /\ version <= db_version /\ db_version <= MaxEdits + 1
    BY <1>a, <2>1 DEF TaskInv, Noticing
  <2> QED
    BY <1>a, <2>1, <2>3, <2>4 DEF TaskInv
<1>7. ASSUME NEW t \in Threads, ThreadStep(t)
      PROVE  TaskInv' /\ tasks' \in [Threads -> 0..MaxEdits+1]
  <2>1. UNCHANGED <<version, db_version, backend, forced>>
    BY <1>7, ThreadStepLocal DEF database, route
  <2>2. CASE make_publish_map(t)
    <3>1. tasks[t] > 0 /\ tasks' = [tasks EXCEPT ![t] = @ - 1]
      BY <2>2 DEF make_publish_map
    <3>2. \A s \in Threads : tasks'[s] <= tasks[s] /\ tasks'[s] \in 0..MaxEdits+1
      BY <1>a, <3>1
    <3>3. tasks' \in [Threads -> 0..MaxEdits+1]
      BY <1>a, <3>1, <3>2
    <3>4. \A s \in Threads : tasks'[s] + (IF Noticing THEN 1 ELSE 0) <= version
      BY <1>a, <3>2 DEF TaskInv
    <3> QED
      BY <1>a, <2>1, <3>3, <3>4 DEF TaskInv, Noticing
  <2>3. CASE ~make_publish_map(t)
    <3>1. UNCHANGED tasks
      BY <1>7, <2>3 DEF ThreadStep, Run, create_subscribe, close_begin, get_route,
         get_route_reply, unsubcribe, close_end, push_send, push_erase, push_end, threads
    <3> QED
      BY <1>u, <2>1, <3>1
  <2> QED
    BY <2>2, <2>3
<1>8. CASE UNCHANGED vars
  BY <1>8, <1>u DEF vars, database, route, threads
<1> QED
  BY <1>1, <1>2, <1>3, <1>4, <1>5, <1>6, <1>7, <1>8 DEF Next, Backend, ThreadStep
-----------------------------------------------------------------------------
LEMMA NextTypeOK ==
  ASSUME IInv, [Next]_vars PROVE TypeOK'
<1>a. TypeOK /\ ThreadInv /\ tasks' \in [Threads -> 0..MaxEdits+1]
  BY NextTasks DEF IInv
<1>1. ASSUME NEW m \in Mods, edit(m) PROVE TypeOK'
  <2>1. /\ db_rev' = [db_rev EXCEPT ![m] = @ + 1] /\ db_version' = db_version + 1
        /\ db_change' = db_change \cup {<<m, db_version + 1>>}
        /\ UNCHANGED <<route, lists, conns, threads>>
    BY <1>1 DEF edit
  <2>2. db_rev' \in [Mods -> Nat] /\ db_version' \in Nat /\ db_change' \subseteq Mods \X Nat
    BY <1>a, <2>1 DEF TypeOK
  <2> QED
    BY <1>a, <2>1, <2>2 DEF TypeOK, route, lists, conns, threads
<1>2. ASSUME load_version \/ swap \/ load_changes \/ publish_lock \/ publish_unlock \/ send_task
      PROVE  TypeOK'
  <2>1. /\ version' \in Nat /\ backend' \in Stages /\ forced' \in BOOLEAN
        /\ changes' \subseteq Mods /\ data_pointer' \in Maps /\ locked' \in BOOLEAN
        /\ UNCHANGED <<database, map, rows, book_list, push_list, conns,
                       pc, at, at_mod, need_publish>>
    <3>1. CASE load_version
      BY <1>a, <3>1 DEF load_version, Goto, Stages, TypeOK, lists, threads
    <3>2. CASE swap
      BY <1>a, <3>2, TempPointer DEF swap, Goto, Stages, TypeOK, lists, threads
    <3>3. CASE load_changes
      <4>1. Changed(version) \subseteq Mods
        BY <1>a DEF TypeOK, Changed
      <4> QED
        BY <1>a, <3>3, <4>1 DEF load_changes, Goto, Stages, TypeOK, lists, threads
    <3>4. CASE publish_lock
      BY <1>a, <3>4 DEF publish_lock, Goto, Stages, TypeOK, threads
    <3>5. CASE publish_unlock
      BY <1>a, <3>5 DEF publish_unlock, Goto, Stages, TypeOK, threads
    <3>6. CASE send_task
      BY <1>a, <3>6 DEF send_task, Goto, Stages, TypeOK, lists
    <3> QED
      BY <1>2, <3>1, <3>2, <3>3, <3>4, <3>5, <3>6
  <2> QED
    BY <1>a, <2>1 DEF TypeOK, database, conns
<1>3. CASE load_route_data
  <2>1. /\ map' = [map EXCEPT ![temp_pointer] = [m \in Mods |-> {}]]
        /\ rows' = {<<m, db_rev[m]>> : m \in Mods} /\ backend' = "insert"
        /\ UNCHANGED <<database, data_pointer, version, forced, changes, lists, conns, threads>>
    BY <1>3 DEF load_route_data, Goto
  <2>2. map' \in [Maps -> [Mods -> SUBSET Nat]]
    <3>1. [m \in Mods |-> {}] \in [Mods -> SUBSET Nat]
      OBVIOUS
    <3> QED
      BY <1>a, <2>1, <3>1 DEF TypeOK
  <2>3. rows' \subseteq Mods \X Nat
    BY <1>a, <2>1 DEF TypeOK
  <2> QED
    BY <1>a, <2>1, <2>2, <2>3 DEF TypeOK, Stages, database, lists, conns, threads
<1>4. CASE insert_row
  <2>1. PICK r \in rows : /\ map' = [map EXCEPT ![temp_pointer][r[1]] = @ \cup {r[2]}]
                          /\ rows' = rows \ {r} /\ backend' \in {"swap", "insert"}
    BY <1>4 DEF insert_row, Goto
  <2>2. UNCHANGED <<database, data_pointer, version, forced, changes, lists, conns, threads>>
    BY <1>4 DEF insert_row
  <2>3. r[1] \in Mods /\ r[2] \in Nat
    BY <1>a, <2>1 DEF TypeOK
  <2>4. map' \in [Maps -> [Mods -> SUBSET Nat]] /\ rows' \subseteq Mods \X Nat
    <3>1. temp_pointer \in Maps
      BY <1>a, TempPointer
    <3>2. [map[temp_pointer] EXCEPT ![r[1]] = @ \cup {r[2]}] \in [Mods -> SUBSET Nat]
      BY <1>a, <2>3, <3>1 DEF TypeOK
    <3>3. map' = [map EXCEPT ![temp_pointer] =
                    [map[temp_pointer] EXCEPT ![r[1]] = @ \cup {r[2]}]]
      BY <2>1
    <3> QED
      BY <1>a, <2>1, <3>1, <3>2, <3>3 DEF TypeOK
  <2> QED
    BY <1>a, <2>1, <2>2, <2>4 DEF TypeOK, Stages, database, lists, conns, threads
<1>5. CASE publish_mod
  <2>1. /\ push_list' \in [Fds -> SUBSET Mods] /\ changes' \subseteq Mods
        /\ UNCHANGED <<database, map, data_pointer, version, backend, rows, forced,
                       book_list, locked, conns, threads>>
    BY <1>a, <1>5 DEF publish_mod, TypeOK
  <2> QED
    BY <1>a, <2>1 DEF TypeOK, database, conns, threads
<1>6. ASSUME NEW t \in Threads, ThreadStep(t) PROVE TypeOK'
  <2>u. UNCHANGED <<database, route>>
    BY <1>6, ThreadStepLocal
  <2>m. \A m \in Mods : table[m] \in SUBSET Nat
    BY <1>a, TempPointer DEF TypeOK, table
  <2>1. ASSUME NEW f \in Fds, NEW m \in Mods, get_route(t, f, m) PROVE TypeOK'
    <3>1. /\ pc' = [pc EXCEPT ![t] = "reply"] /\ at' = [at EXCEPT ![t] = f]
          /\ at_mod' = [at_mod EXCEPT ![t] = m]
          /\ UNCHANGED <<push_list, locked, owner, seen, need_publish>>
      BY <2>1 DEF get_route, Step, With
    <3>2. book_list' \in [Mods -> SUBSET Fds] /\ sub_list' \in [Fds -> SUBSET Mods]
      <4>1. CASE m \in sub_list[f]
        BY <1>a, <2>1, <4>1 DEF get_route, TypeOK
      <4>2. CASE m \notin sub_list[f]
        <5>1. /\ sub_list' = [sub_list EXCEPT ![f] = @ \cup {m}]
              /\ book_list' = [book_list EXCEPT ![m] = @ \cup {f}]
          BY <2>1, <4>2 DEF get_route
        <5> QED
          BY <1>a, <5>1 DEF TypeOK
      <4> QED
        BY <4>1, <4>2
    <3> QED
      BY <1>a, <2>u, <3>1, <3>2 DEF TypeOK, database, route
  <2>2. ASSUME NEW f \in Fds, create_subscribe(t, f) PROVE TypeOK'
    BY <1>a, <2>2, <2>u DEF create_subscribe, TypeOK, database, route, lists, threads
  <2>3. ASSUME NEW f \in Fds, close_begin(t, f) PROVE TypeOK'
    BY <1>a, <2>3, <2>u DEF close_begin, Step, With, TypeOK, database, route, lists, conns
  <2>4. CASE get_route_reply(t)
    <3>1. at[t] \in Fds /\ at_mod[t] \in Mods
      BY <1>a, <2>4 DEF get_route_reply, ThreadInv, ThreadOK, TypeOK
    <3>2. /\ seen' \in [Fds -> [Mods -> SUBSET Nat]]
          /\ pc' = [pc EXCEPT ![t] = "loop"] /\ at' = [at EXCEPT ![t] = None]
          /\ at_mod' = [at_mod EXCEPT ![t] = None]
          /\ UNCHANGED <<lists, owner, sub_list, need_publish, tasks>>
      BY <1>a, <2>4, <2>m, <3>1 DEF get_route_reply, Send, Step, With, TypeOK
    <3> QED
      BY <1>a, <2>u, <3>2 DEF TypeOK, database, route, lists
  <2>5. CASE unsubcribe(t)
    <3>1. at[t] \in Fds
      BY <1>a, <2>5 DEF unsubcribe, ThreadInv, ThreadOK, TypeOK
    <3> QED
      BY <1>a, <2>5, <2>u, <3>1 DEF unsubcribe, TypeOK, database, route, threads
  <2>6. CASE close_end(t)
    <3>1. at[t] \in Fds
      BY <1>a, <2>6 DEF close_end, ThreadInv, ThreadOK, TypeOK
    <3> QED
      BY <1>a, <2>6, <2>u, <3>1 DEF close_end, Step, With, TypeOK, database, route, lists
  <2>7. CASE make_publish_map(t)
    <3>1. [f \in Fds |-> IF owner[f] = t THEN push_list[f] ELSE {}] \in [Fds -> SUBSET Mods]
      BY <1>a DEF TypeOK
    <3> QED
      BY <1>a, <2>7, <2>u, <3>1 DEF make_publish_map, Step, TypeOK, database, route, lists, conns
  <2>8. CASE push_send(t)
    <3>0. PICK f \in Fds : \E m \in need_publish[t][f] :
            /\ seen' = [seen EXCEPT ![f][m] = table[m]]
            /\ need_publish' = [need_publish EXCEPT ![t][f] = @ \ {m}]
            /\ at' = [at EXCEPT ![t] = f] /\ at_mod' = [at_mod EXCEPT ![t] = m]
      BY <2>8 DEF push_send, Send, With
    <3>1. PICK m \in need_publish[t][f] :
            /\ seen' = [seen EXCEPT ![f][m] = table[m]]
            /\ need_publish' = [need_publish EXCEPT ![t][f] = @ \ {m}]
            /\ at' = [at EXCEPT ![t] = f] /\ at_mod' = [at_mod EXCEPT ![t] = m]
      BY <3>0
    <3>2. m \in Mods
      BY <1>a, <3>1 DEF TypeOK
    <3>3. seen' \in [Fds -> [Mods -> SUBSET Nat]]
      BY <1>a, <2>m, <3>1, <3>2 DEF TypeOK
    <3>4. need_publish' \in [Threads -> [Fds -> SUBSET Mods]]
      BY <1>a, <3>1 DEF TypeOK
    <3>5. pc' = [pc EXCEPT ![t] = "erase"] /\ UNCHANGED <<lists, owner, sub_list, tasks>>
      BY <2>8 DEF push_send, Step
    <3> QED
      BY <1>a, <2>u, <3>1, <3>2, <3>3, <3>4, <3>5 DEF TypeOK, database, route, lists
  <2>9. CASE push_erase(t)
    BY <1>a, <2>9, <2>u DEF push_erase, Step, TypeOK, database, route, conns
  <2>10. CASE push_end(t)
    BY <1>a, <2>10, <2>u DEF push_end, Step, With, TypeOK, database, route, lists, conns
  <2> QED
    BY <1>6, <2>1, <2>2, <2>3, <2>4, <2>5, <2>6, <2>7, <2>8, <2>9, <2>10
    DEF ThreadStep, Run
<1>7. CASE UNCHANGED vars
  BY <1>a, <1>7 DEF TypeOK, vars, database, route, lists, conns, threads
<1> QED
  BY <1>1, <1>2, <1>3, <1>4, <1>5, <1>6, <1>7 DEF Next, Backend, ThreadStep
-----------------------------------------------------------------------------
(* When all rows are inserted the other table holds what was loaded.       *)
LEMMA SwappedTable ==
  ASSUME IInv, swap
  PROVE  /\ UNCHANGED <<db_rev, rows, map, conns>>
         /\ \A m \in Mods : \E r \in Nat : table'[m] = {r} /\ MayFollow(r, m)
<1>1. /\ backend = "swap" /\ data_pointer' = temp_pointer
      /\ UNCHANGED <<db_rev, rows, map, conns>>
  BY DEF swap, database
<1>2. rows = {} /\ \A m \in Mods : \E r \in Nat : Loaded(m) = {r} /\ MayFollow(r, m)
  BY <1>1 DEF IInv, LoadInv
<1>3. \A m \in Mods : table'[m] = Loaded(m)
  BY <1>1, <1>2 DEF table, Loaded
<1> QED
  BY <1>1, <1>2, <1>3

(* What load_route_data has stored is the database of that moment ...      *)
LEMMA StoredRows ==
  ASSUME IInv, load_route_data, NEW m \in Mods
  PROVE  Loaded(m)' = {db_rev[m]}
<1>a. /\ TypeOK /\ data_pointer \in Maps /\ temp_pointer \in Maps
      /\ temp_pointer # data_pointer
  BY TempPointer DEF IInv
<1>1. /\ map' = [map EXCEPT ![temp_pointer] = [n \in Mods |-> {}]]
      /\ rows' = {<<n, db_rev[n]>> : n \in Mods} /\ UNCHANGED data_pointer
  BY DEF load_route_data
<1>2. UNCHANGED temp_pointer
  BY <1>1 DEF temp_pointer
<1>3. map'[temp_pointer][m] = {}
  BY <1>a, <1>1 DEF TypeOK
<1>4. {q \in rows' : q[1] = m} = {<<m, db_rev[m]>>}
  BY <1>1
<1>5. {r[2] : r \in {q \in rows' : q[1] = m}} = {db_rev[m]}
  <2>1. {r[2] : r \in {<<m, db_rev[m]>>}} = {db_rev[m]}
    OBVIOUS
  <2> QED
    BY <1>4, <2>1, Zenon
<1> QED
  BY <1>2, <1>3, <1>5 DEF Loaded

(* ... and inserting a row only moves it to the other table.               *)
LEMMA InsertKeepsLoaded ==
  ASSUME IInv, insert_row, NEW m \in Mods
  PROVE  Loaded(m)' = Loaded(m)
<1>a. /\ TypeOK /\ data_pointer \in Maps /\ temp_pointer \in Maps
      /\ temp_pointer # data_pointer
  BY TempPointer DEF IInv
<1>1. PICK r \in rows :
        /\ map' = [map EXCEPT ![temp_pointer][r[1]] = @ \cup {r[2]}]
        /\ rows' = rows \ {r}
  BY DEF insert_row
<1>2. UNCHANGED temp_pointer
  BY DEF insert_row, temp_pointer
<1>3. map[temp_pointer] \in [Mods -> SUBSET Nat] /\ r[1] \in Mods
  BY <1>a, <1>1 DEF TypeOK
<1>4. map'[temp_pointer][m] = IF r[1] = m THEN map[temp_pointer][m] \cup {r[2]}
                                          ELSE map[temp_pointer][m]
  BY <1>a, <1>1, <1>3 DEF TypeOK
<1>5. Loaded(m)' = map'[temp_pointer][m] \cup {x[2] : x \in {q \in rows' : q[1] = m}}
  BY <1>2 DEF Loaded
<1>6. CASE r[1] = m
  <2>1. {q \in rows : q[1] = m} = {q \in rows' : q[1] = m} \cup {r}
    BY <1>1, <1>6
  <2>2. {x[2] : x \in {q \in rows : q[1] = m}}
        = {x[2] : x \in {q \in rows' : q[1] = m}} \cup {r[2]}
    BY <2>1
  <2> QED
    BY <1>4, <1>5, <1>6, <2>2 DEF Loaded
<1>7. CASE r[1] # m
  <2>1. {q \in rows : q[1] = m} = {q \in rows' : q[1] = m}
    BY <1>1, <1>7
  <2> QED
    BY <1>4, <1>5, <1>7, <2>1 DEF Loaded
<1> QED
  BY <1>6, <1>7

LEMMA NextLoadInv ==
  ASSUME IInv, [Next]_vars PROVE LoadInv'
<1>a. TypeOK /\ LoadInv
  BY DEF IInv
<1>p. data_pointer \in Maps /\ temp_pointer \in Maps /\ temp_pointer # data_pointer
  BY <1>a, TempPointer
<1>1. ASSUME NEW m \in Mods, edit(m) PROVE LoadInv'
  <2>1. db_rev' = [db_rev EXCEPT ![m] = @ + 1] /\ UNCHANGED <<map, data_pointer, backend, rows>>
    BY <1>1 DEF edit, route
  <2>2. \A n \in Mods : db_rev[n] \in Nat /\ db_rev'[n] \in Nat /\ db_rev[n] <= db_rev'[n]
    BY <1>a, <2>1 DEF TypeOK
  <2>3. UNCHANGED <<table, temp_pointer>> /\ \A n \in Mods : Loaded(n)' = Loaded(n)
    BY <2>1 DEF table, temp_pointer, Loaded
  <2>4. \A n \in Mods : \A r \in Nat : r <= db_rev[n] => r <= db_rev'[n]
    BY <2>2
  <2>5. \A n \in Mods : \E r \in Nat : table'[n] = {r} /\ r <= db_rev'[n]
    BY <1>a, <2>3, <2>4 DEF LoadInv
  <2>6. \A n \in Mods : \A r \in Nat : MayFollow(r, n) => MayFollow(r, n)'
    BY <2>3, <2>4 DEF MayFollow
  <2> QED
    BY <1>a, <2>1, <2>3, <2>5, <2>6 DEF LoadInv
<1>2. ASSUME load_version \/ load_changes \/ publish_lock \/ publish_mod \/ publish_unlock
             \/ send_task
      PROVE  LoadInv'
  <2>1. /\ UNCHANGED <<db_rev, map, data_pointer, rows>>
        /\ backend' \notin {"insert", "swap"}
    BY <1>2 DEF load_version, load_changes, publish_lock, publish_mod, publish_unlock,
                send_task, Goto, database
  <2> QED
    BY <1>a, <2>1 DEF LoadInv, table
<1>3. CASE load_route_data
  <2>1. /\ map' = [map EXCEPT ![temp_pointer] = [m \in Mods |-> {}]]
        /\ rows' = {<<m, db_rev[m]>> : m \in Mods} /\ backend' = "insert"
        /\ UNCHANGED <<db_rev, data_pointer>>
    BY <1>3 DEF load_route_data, Goto, database
  <2>2. UNCHANGED <<table, temp_pointer>>
    BY <1>a, <1>p, <2>1 DEF table, temp_pointer, TypeOK
  <2>3. ASSUME NEW m \in Mods PROVE Loaded(m)' = {db_rev[m]} /\ MayFollow(db_rev[m], m)'
    <3>1. db_rev[m] \in Nat /\ \A s \in table[m] : s <= db_rev[m]
      BY <1>a DEF LoadInv, TypeOK
    <3> QED
      BY <1>3, <2>1, <2>2, <3>1, StoredRows DEF MayFollow
  <2>4. \A m \in Mods : db_rev[m] \in Nat
    BY <1>a DEF TypeOK
  <2> QED
    BY <1>a, <2>1, <2>2, <2>3, <2>4 DEF LoadInv
<1>4. CASE insert_row
  <2>1. PICK r \in rows :
          /\ map' = [map EXCEPT ![temp_pointer][r[1]] = @ \cup {r[2]}]
          /\ rows' = rows \ {r}
          /\ backend' = IF rows = {r} THEN "swap" ELSE "insert"
    BY <1>4 DEF insert_row, Goto
  <2>2. backend = "insert" /\ UNCHANGED <<db_rev, data_pointer>>
    BY <1>4 DEF insert_row, database
  <2>3. UNCHANGED <<table, temp_pointer>>
    BY <1>a, <1>p, <2>1, <2>2 DEF table, temp_pointer, TypeOK
  <2>4. \A m \in Mods : Loaded(m)' = Loaded(m)
    BY <1>4, InsertKeepsLoaded
  <2>5. \A m \in Mods : \E x \in Nat : Loaded(m)' = {x} /\ MayFollow(x, m)'
    BY <1>a, <2>2, <2>3, <2>4 DEF LoadInv, MayFollow
  <2> QED
    BY <1>a, <2>1, <2>2, <2>3, <2>5 DEF LoadInv
<1>5. CASE swap
  <2>1. backend' \notin {"insert", "swap"}
    BY <1>5 DEF swap, Goto
  <2>2. \A m \in Mods : \E r \in Nat : table'[m] = {r} /\ r <= db_rev'[m]
    BY <1>5, SwappedTable DEF MayFollow
  <2> QED
    BY <2>1, <2>2 DEF LoadInv
<1>6. ASSUME UNCHANGED <<database, route>> PROVE LoadInv'
  BY <1>a, <1>6 DEF LoadInv, table, temp_pointer, Loaded, MayFollow, database, route
<1>7. CASE UNCHANGED vars
  BY <1>6, <1>7 DEF vars
<1> QED
  BY <1>1, <1>2, <1>3, <1>4, <1>5, <1>6, <1>7, ThreadStepLocal DEF Next, Backend, ThreadStep
-----------------------------------------------------------------------------
LEMMA NextBookInv ==
  ASSUME IInv, [Next]_vars PROVE BookInv'
<1>a. TypeOK /\ BookInv /\ ThreadInv /\ None \notin Threads
  BY DnsAssumption DEF IInv
<1>u. ASSUME UNCHANGED <<book_list, owner, sub_list>> PROVE BookInv'
  BY <1>a, <1>u DEF BookInv
<1>1. ASSUME NEW m \in Mods, edit(m) PROVE BookInv'
  BY <1>1, <1>u DEF edit, lists, conns
<1>2. CASE Backend
  BY <1>2, <1>u DEF Backend, load_version, load_route_data, insert_row, swap, load_changes,
     publish_lock, publish_mod, publish_unlock, send_task, lists, conns
<1>3. ASSUME NEW t \in Threads, NEW f \in Fds, create_subscribe(t, f) PROVE BookInv'
  <2>1. /\ owner[f] = None /\ owner' = [owner EXCEPT ![f] = t]
        /\ sub_list' = [sub_list EXCEPT ![f] = {}] /\ UNCHANGED book_list
    BY <1>3 DEF create_subscribe, lists
  <2>2. \A m \in Mods : f \notin book_list[m]
    BY <1>a, <2>1 DEF BookInv
  <2> QED
    BY <1>a, <2>1, <2>2 DEF BookInv, TypeOK
<1>4. ASSUME NEW t \in Threads, NEW f \in Fds, NEW m \in Mods, get_route(t, f, m) PROVE BookInv'
  <2>1. CASE m \in sub_list[f]
    BY <1>4, <1>u, <2>1 DEF get_route
  <2>2. CASE m \notin sub_list[f]
    <3>1. /\ sub_list' = [sub_list EXCEPT ![f] = @ \cup {m}]
          /\ book_list' = [book_list EXCEPT ![m] = @ \cup {f}]
          /\ owner[f] = t /\ UNCHANGED owner
      BY <1>4, <2>2 DEF get_route
    <3>2. \A n \in Mods : book_list'[n] = IF n = m THEN book_list[n] \cup {f} ELSE book_list[n]
      BY <1>a, <3>1 DEF TypeOK
    <3>3. \A g \in Fds : sub_list'[g] = IF g = f THEN sub_list[g] \cup {m} ELSE sub_list[g]
      BY <1>a, <3>1 DEF TypeOK
    <3> QED
      BY <1>a, <3>1, <3>2, <3>3 DEF BookInv, TypeOK
  <2> QED
    BY <2>1, <2>2
<1>5. ASSUME NEW t \in Threads, unsubcribe(t) PROVE BookInv'
  <2>1. PICK m \in sub_list[at[t]] :
          /\ book_list' = [book_list EXCEPT ![m] = @ \ {at[t]}]
          /\ sub_list' = [sub_list EXCEPT ![at[t]] = @ \ {m}]
    BY <1>5 DEF unsubcribe
  <2>2. at[t] \in Fds /\ m \in Mods /\ UNCHANGED owner
    BY <1>5, <1>a, <2>1 DEF unsubcribe, ThreadInv, ThreadOK, TypeOK
  <2>3. \A n \in Mods : book_list'[n] = IF n = m THEN book_list[n] \ {at[t]} ELSE book_list[n]
    BY <1>a, <2>1 DEF TypeOK
  <2>4. \A g \in Fds : sub_list'[g] = IF g = at[t] THEN sub_list[g] \ {m} ELSE sub_list[g]
    BY <1>a, <2>1 DEF TypeOK
  <2> QED
    BY <1>a, <2>2, <2>3, <2>4 DEF BookInv, TypeOK
<1>6. ASSUME NEW t \in Threads, close_end(t) PROVE BookInv'
  <2>1. /\ sub_list[at[t]] = {} /\ owner' = [owner EXCEPT ![at[t]] = None]
        /\ UNCHANGED <<book_list, sub_list>>
    BY <1>6 DEF close_end, lists
  <2>2. \A m \in Mods : at[t] \notin book_list[m]
    BY <1>a, <2>1 DEF BookInv
  <2> QED
    BY <1>a, <2>1, <2>2 DEF BookInv, TypeOK
<1>7. ASSUME NEW t \in Threads,
             \/ get_route_reply(t) \/ make_publish_map(t) \/ push_send(t) \/ push_erase(t)
             \/ push_end(t) \/ \E f \in Fds : close_begin(t, f)
      PROVE  BookInv'
  BY <1>7, <1>u DEF get_route_reply, make_publish_map, push_send, push_erase, push_end,
     close_begin, lists, conns
<1>8. CASE UNCHANGED vars
  BY <1>8, <1>u DEF vars, lists, conns
<1> QED
  BY <1>1, <1>2, <1>3, <1>4, <1>5, <1>6, <1>7, <1>8 DEF Next, Run
-----------------------------------------------------------------------------
LEMMA NextThreadInv ==
  ASSUME IInv, [Next]_vars PROVE ThreadInv'
<1>a. TypeOK /\ ThreadInv /\ None \notin Threads /\ None \notin Fds
  BY DnsAssumption DEF IInv
<1>u. ASSUME UNCHANGED <<pc, at, at_mod, need_publish, owner>> PROVE ThreadInv'
  BY <1>a, <1>u DEF ThreadInv, ThreadOK
(* One thread moves, no descriptor changes hands.                          *)
<1>o. ASSUME NEW t \in Threads, UNCHANGED owner, ThreadOK(t)',
             \A s \in Threads : s # t =>
               /\ pc'[s] = pc[s] /\ at'[s] = at[s] /\ at_mod'[s] = at_mod[s]
               /\ need_publish'[s] = need_publish[s]
      PROVE  ThreadInv'
  BY <1>a, <1>o DEF ThreadInv, ThreadOK
<1>1. ASSUME NEW m \in Mods, edit(m) PROVE ThreadInv'
  BY <1>1, <1>u DEF edit, conns, threads
<1>2. CASE Backend
  BY <1>2, <1>u DEF Backend, load_version, load_route_data, insert_row, swap, load_changes,
     publish_lock, publish_mod, publish_unlock, send_task, conns, threads
<1>3. ASSUME NEW t \in Threads, NEW f \in Fds, create_subscribe(t, f) PROVE ThreadInv'
  <2>1. /\ owner[f] = None /\ owner' = [owner EXCEPT ![f] = t]
        /\ UNCHANGED <<pc, at, at_mod, need_publish>>
    BY <1>3 DEF create_subscribe, threads
  <2>2. \A s \in Threads : at[s] # f /\ need_publish[s][f] = {}
    BY <1>a, <2>1 DEF ThreadInv, ThreadOK
  <2> QED
    BY <1>a, <2>1, <2>2 DEF ThreadInv, ThreadOK, TypeOK
<1>4. ASSUME NEW t \in Threads, NEW f \in Fds, NEW m \in Mods, get_route(t, f, m)
      PROVE  ThreadInv'
  <2>1. /\ pc[t] = "loop" /\ owner[f] = t
        /\ pc' = [pc EXCEPT ![t] = "reply"] /\ at' = [at EXCEPT ![t] = f]
        /\ at_mod' = [at_mod EXCEPT ![t] = m] /\ UNCHANGED <<owner, need_publish>>
    BY <1>4 DEF get_route, Step, With
  <2>2. ThreadOK(t)'
    BY <1>a, <2>1 DEF ThreadInv, ThreadOK, TypeOK
  <2> QED
    BY <1>a, <1>o, <2>1, <2>2 DEF TypeOK
<1>5. ASSUME NEW t \in Threads, get_route_reply(t) PROVE ThreadInv'
  <2>1. /\ pc[t] = "reply"
        /\ pc' = [pc EXCEPT ![t] = "loop"] /\ at' = [at EXCEPT ![t] = None]
        /\ at_mod' = [at_mod EXCEPT ![t] = None] /\ UNCHANGED <<owner, need_publish>>
    BY <1>5 DEF get_route_reply, Step, With
  <2>2. ThreadOK(t)'
    <3>1. pc'[t] = "loop" /\ at'[t] = None
      BY <1>a, <2>1 DEF TypeOK
    <3>2. ThreadOK(t)
      BY <1>a DEF ThreadInv
    <3>3. \A f \in Fds : need_publish'[t][f] = {}
      BY <2>1, <3>2 DEF ThreadOK
    <3> QED
      BY <3>1, <3>3 DEF ThreadOK
  <2> QED
    BY <1>a, <1>o, <2>1, <2>2 DEF TypeOK
<1>6. ASSUME NEW t \in Threads, NEW f \in Fds, close_begin(t, f) PROVE ThreadInv'
  <2>1. /\ pc[t] = "loop" /\ owner[f] = t
        /\ pc' = [pc EXCEPT ![t] = "close"] /\ at' = [at EXCEPT ![t] = f]
        /\ at_mod' = [at_mod EXCEPT ![t] = None] /\ UNCHANGED <<owner, need_publish>>
    BY <1>6 DEF close_begin, Step, With, conns
  <2>2. ThreadOK(t)'
    BY <1>a, <2>1 DEF ThreadInv, ThreadOK, TypeOK
  <2> QED
    BY <1>a, <1>o, <2>1, <2>2 DEF TypeOK
<1>7. ASSUME NEW t \in Threads, unsubcribe(t) PROVE ThreadInv'
  BY <1>7, <1>u DEF unsubcribe, threads
<1>8. ASSUME NEW t \in Threads, close_end(t) PROVE ThreadInv'
  <2>1. /\ pc[t] = "close" /\ owner' = [owner EXCEPT ![at[t]] = None]
        /\ pc' = [pc EXCEPT ![t] = "loop"] /\ at' = [at EXCEPT ![t] = None]
        /\ at_mod' = [at_mod EXCEPT ![t] = None] /\ UNCHANGED need_publish
    BY <1>8 DEF close_end, Step, With
  <2>2. at[t] \in Fds /\ owner[at[t]] = t /\ \A f \in Fds : need_publish[t][f] = {}
    <3>1. at[t] \in Fds \cup {None}
      BY <1>a DEF TypeOK
    <3>2. ThreadOK(t)
      BY <1>a DEF ThreadInv
    <3> QED
      BY <2>1, <3>1, <3>2 DEF ThreadOK
  <2>3. ThreadOK(t)'
    BY <1>a, <2>1, <2>2 DEF ThreadOK, TypeOK
  <2>4. ASSUME NEW s \in Threads, s # t PROVE ThreadOK(s)'
    <3>1. at[s] # at[t] /\ need_publish[s][at[t]] = {}
      BY <1>a, <2>2, <2>4 DEF ThreadInv, ThreadOK
    <3>2. pc'[s] = pc[s] /\ at'[s] = at[s] /\ at_mod'[s] = at_mod[s]
      BY <1>a, <2>1, <2>4 DEF TypeOK
    <3>3. \A f \in Fds : f # at[t] => owner'[f] = owner[f]
      BY <1>a, <2>1 DEF TypeOK
    <3>4. at[s] \in Fds \cup {None}
      BY <1>a DEF TypeOK
    <3> QED
      BY <1>a, <2>1, <3>1, <3>2, <3>3, <3>4 DEF ThreadInv, ThreadOK
  <2> QED
    BY <2>3, <2>4 DEF ThreadInv
<1>9. ASSUME NEW t \in Threads, make_publish_map(t) PROVE ThreadInv'
  <2>1. /\ pc[t] = "loop" /\ pc' = [pc EXCEPT ![t] = "push"]
        /\ need_publish' = [need_publish EXCEPT ![t] =
                              [f \in Fds |-> IF owner[f] = t THEN push_list[f] ELSE {}]]
        /\ UNCHANGED <<at, at_mod, owner>>
    BY <1>9 DEF make_publish_map, Step, conns
  <2>2. ThreadOK(t)'
    BY <1>a, <2>1 DEF ThreadInv, ThreadOK, TypeOK
  <2> QED
    BY <1>a, <1>o, <2>1, <2>2 DEF TypeOK
<1>10. ASSUME NEW t \in Threads, push_send(t) PROVE ThreadInv'
  <2>1. PICK f \in Fds : \E m \in need_publish[t][f] :
          /\ need_publish' = [need_publish EXCEPT ![t][f] = @ \ {m}]
          /\ at' = [at EXCEPT ![t] = f] /\ at_mod' = [at_mod EXCEPT ![t] = m]
    BY <1>10 DEF push_send, With
  <2>2. PICK m \in need_publish[t][f] :
          /\ need_publish' = [need_publish EXCEPT ![t][f] = @ \ {m}]
          /\ at' = [at EXCEPT ![t] = f] /\ at_mod' = [at_mod EXCEPT ![t] = m]
    BY <2>1
  <2>3. pc[t] = "push" /\ pc' = [pc EXCEPT ![t] = "erase"] /\ UNCHANGED owner
    BY <1>10 DEF push_send, Step
  <2>4. owner[f] = t
    BY <1>a, <2>2 DEF ThreadInv, ThreadOK
  <2>5. \A g \in Fds : need_publish'[t][g] \subseteq need_publish[t][g]
    BY <1>a, <2>2 DEF TypeOK
  <2>6. ThreadOK(t)'
    BY <1>a, <2>2, <2>3, <2>4, <2>5 DEF ThreadInv, ThreadOK, TypeOK
  <2> QED
    BY <1>a, <1>o, <2>2, <2>3, <2>6 DEF TypeOK
<1>11. ASSUME NEW t \in Threads, push_erase(t) PROVE ThreadInv'
  <2>1. /\ pc[t] = "erase" /\ pc' = [pc EXCEPT ![t] = "push"]
        /\ UNCHANGED <<owner, at, at_mod, need_publish>>
    BY <1>11 DEF push_erase, Step, conns
  <2>2. ThreadOK(t)'
    BY <1>a, <2>1 DEF ThreadInv, ThreadOK, TypeOK
  <2> QED
    BY <1>a, <1>o, <2>1, <2>2 DEF TypeOK
<1>12. ASSUME NEW t \in Threads, push_end(t) PROVE ThreadInv'
  <2>1. /\ \A f \in Fds : need_publish[t][f] = {}
        /\ pc' = [pc EXCEPT ![t] = "loop"] /\ at' = [at EXCEPT ![t] = None]
        /\ at_mod' = [at_mod EXCEPT ![t] = None] /\ UNCHANGED <<owner, need_publish>>
    BY <1>12 DEF push_end, Step, With, conns
  <2>2. ThreadOK(t)'
    BY <1>a, <2>1 DEF ThreadInv, ThreadOK, TypeOK
  <2> QED
    BY <1>a, <1>o, <2>1, <2>2 DEF TypeOK
<1>13. CASE UNCHANGED vars
  BY <1>13, <1>u DEF vars, conns, threads
<1> QED
  BY <1>1, <1>2, <1>3, <1>4, <1>5, <1>6, <1>7, <1>8, <1>9, <1>10, <1>11, <1>12, <1>13
  DEF Next, Run
-----------------------------------------------------------------------------
(* A connection is sent nothing, or what a reader finds in the table, or   *)
(* it is new.                                                              *)
Sent(f, m) ==
  \/ seen'[f][m] = seen[f][m]
  \/ seen'[f][m] = table[m]
  \/ seen'[f][m] = {}

LEMMA ThreadStepSends ==
  ASSUME IInv, NEW t \in Threads, ThreadStep(t), NEW f \in Fds, NEW m \in Mods
  PROVE  Sent(f, m) /\ UNCHANGED table
<1>a. TypeOK /\ ThreadInv
  BY DEF IInv
<1>b. UNCHANGED table
  BY ThreadStepLocal DEF route, table
<1>1. ASSUME NEW g \in Fds, NEW n \in Mods, Send(g, n) PROVE Sent(f, m)
  BY <1>a, <1>1 DEF Send, Sent, TypeOK
<1>2. ASSUME NEW g \in Fds, seen' = [seen EXCEPT ![g] = [n \in Mods |-> {}]] PROVE Sent(f, m)
  BY <1>a, <1>2 DEF Sent, TypeOK
<1>3. ASSUME NEW g \in Fds, create_subscribe(t, g) PROVE Sent(f, m)
  BY <1>2, <1>3 DEF create_subscribe
<1>4. CASE close_end(t)
  <2>1. at[t] \in Fds
    BY <1>a, <1>4 DEF close_end, ThreadInv, ThreadOK, TypeOK
  <2> QED
    BY <1>2, <1>4, <1>b, <2>1 DEF close_end
<1>5. CASE get_route_reply(t)
  <2>1. at[t] \in Fds /\ at_mod[t] \in Mods
    BY <1>a, <1>5 DEF get_route_reply, ThreadInv, ThreadOK, TypeOK
  <2> QED
    BY <1>1, <1>5, <1>b, <2>1 DEF get_route_reply
<1>6. CASE push_send(t)
  <2>1. PICK g \in Fds : \E n \in need_publish[t][g] : Send(g, n)
    BY <1>6 DEF push_send
  <2>2. \A n \in need_publish[t][g] : n \in Mods
    BY <1>a DEF TypeOK
  <2> QED
    BY <1>1, <1>b, <2>1, <2>2
<1>7. ASSUME \/ unsubcribe(t) \/ make_publish_map(t) \/ push_erase(t) \/ push_end(t)
             \/ \E g \in Fds : close_begin(t, g)
             \/ \E g \in Fds, n \in Mods : get_route(t, g, n)
      PROVE  Sent(f, m)
  BY <1>7 DEF unsubcribe, make_publish_map, push_erase, push_end, close_begin, get_route,
              conns, Sent
<1> QED
  BY <1>b, <1>3, <1>4, <1>5, <1>6, <1>7 DEF ThreadStep, Run

LEMMA NextSeenInv ==
  ASSUME IInv, [Next]_vars PROVE SeenInv'
<1>a. TypeOK /\ LoadInv /\ SeenInv
  BY DEF IInv
<1>u. ASSUME UNCHANGED <<seen, table>> PROVE SeenInv'
  BY <1>a, <1>u DEF SeenInv
<1>1. ASSUME NEW m \in Mods, edit(m) PROVE SeenInv'
  BY <1>1, <1>u DEF edit, route, conns, table
<1>2. ASSUME load_version \/ load_changes \/ publish_lock \/ publish_mod \/ publish_unlock
             \/ send_task
      PROVE  SeenInv'
  BY <1>2, <1>u DEF load_version, load_changes, publish_lock, publish_mod, publish_unlock,
     send_task, conns, table
<1>3. ASSUME load_route_data \/ insert_row PROVE SeenInv'
  <2>1. data_pointer \in Maps /\ temp_pointer \in Maps /\ temp_pointer # data_pointer
    BY <1>a, TempPointer
  <2>2. UNCHANGED <<data_pointer, seen>>
    BY <1>3 DEF load_route_data, insert_row, conns
  <2>3. map'[data_pointer] = map[data_pointer]
    BY <1>a, <1>3, <2>1 DEF load_route_data, insert_row, TypeOK
  <2> QED
    BY <1>u, <2>2, <2>3 DEF table
<1>4. CASE swap
  <2>1. UNCHANGED seen
    BY <1>4 DEF swap, conns
  <2>2. ASSUME NEW f \in Fds, NEW m \in Mods, NEW r \in seen[f][m], NEW s \in table'[m]
        PROVE  r <= s
    <3>1. PICK old \in Nat : table[m] = {old}
      BY <1>a DEF LoadInv
    <3>2. PICK new \in Nat : table'[m] = {new} /\ MayFollow(new, m)
      BY <1>4, SwappedTable
    <3>3. old <= new
      BY <3>1, <3>2 DEF MayFollow
    <3>4. r \in Nat
      BY <1>a DEF TypeOK
    <3>5. r <= old
      BY <1>a, <3>1 DEF SeenInv
    <3> QED
      BY <3>2, <3>3, <3>4, <3>5
  <2> QED
    BY <1>a, <2>1, <2>2 DEF SeenInv
<1>5. ASSUME NEW t \in Threads, ThreadStep(t) PROVE SeenInv'
  <2>1. ASSUME NEW f \in Fds, NEW m \in Mods
        PROVE  /\ \A r, s \in seen'[f][m] : r = s
               /\ \A r \in seen'[f][m], s \in table'[m] : r <= s
    <3>1. Sent(f, m) /\ table' = table
      BY <1>5, ThreadStepSends
    <3>2. PICK x \in Nat : table[m] = {x}
      BY <1>a DEF LoadInv
    <3> QED
      BY <1>a, <3>1, <3>2 DEF Sent, SeenInv
  <2> QED
    BY <2>1 DEF SeenInv
<1>6. CASE UNCHANGED vars
  BY <1>6, <1>u DEF vars, route, conns, table
<1> QED
  BY <1>1, <1>2, <1>3, <1>4, <1>5, <1>6 DEF Next, Backend, ThreadStep
-----------------------------------------------------------------------------
LEMMA IInvAlways == Spec => []IInv
<1>1. IInv /\ [Next]_vars => IInv'
  BY NextTypeOK, NextTasks, NextLoadInv, NextBookInv, NextThreadInv, NextSeenInv DEF IInv
<1> QED
  BY <1>1, InitIInv, PTL DEF Spec

(* Type correctness; a thread never has more tasks than versions were      *)
(* noticed (thread_pool.cpp:113 only adds them).                           *)
THEOREM TypeCorrect == Spec => []TypeOK
<1>1. IInv => TypeOK
  BY DEF IInv
<1> QED
  BY <1>1, IInvAlways, PTL

(* A number used again starts without subscriptions and without a thread   *)
(* that works on it (dns_service.cpp:78, subcribe.cpp).                    *)
THEOREM ClosedNumbersAreForgotten == Spec => []ClosedFdIsForgotten
<1>1. IInv => ClosedFdIsForgotten
  <2> SUFFICES ASSUME IInv, NEW f \in Fds, owner[f] = None
               PROVE  /\ \A m \in Mods : f \notin book_list[m]
                      /\ \A t \in Threads : at[t] # f /\ need_publish[t][f] = {}
    BY DEF ClosedFdIsForgotten
  <2>1. BookInv /\ ThreadInv /\ None \notin Threads /\ None \notin Fds
    BY DnsAssumption DEF IInv
  <2>2. \A m \in Mods : f \notin book_list[m]
    BY <2>1 DEF BookInv
  <2>3. \A t \in Threads : at[t] # f /\ need_publish[t][f] = {}
    BY <2>1 DEF ThreadInv, ThreadOK
  <2> QED
    BY <2>2, <2>3
<1> QED
  BY <1>1, IInvAlways, PTL

(* No connection is sent an older revision after a newer one, by           *)
(* get_route and push_change_task together, for any number of threads.     *)
THEOREM RoutesNeverGoBack == Spec => NoStaleRouteSent
<1> DEFINE Forward ==
      \A f \in Fds, m \in Mods : seen[f][m] # {} /\ owner'[f] = owner[f] =>
        \A r \in seen[f][m] : \A s \in seen'[f][m] : r <= s
<1>1. IInv /\ [Next]_vars => [Forward]_vars
  <2> SUFFICES ASSUME IInv, [Next]_vars, NEW f \in Fds, NEW m \in Mods,
                      NEW r \in seen[f][m], NEW s \in seen'[f][m]
               PROVE  r <= s
    OBVIOUS
  <2>1. /\ TypeOK /\ \A x, y \in seen[f][m] : x = y
        /\ \A x \in seen[f][m], y \in table[m] : x <= y
    BY DEF IInv, SeenInv
  <2>2. r \in Nat
    BY <2>1 DEF TypeOK
  <2>3. CASE UNCHANGED seen
    BY <2>1, <2>2, <2>3
  <2>4. ASSUME NEW t \in Threads, ThreadStep(t) PROVE r <= s
    <3>1. Sent(f, m)
      BY <2>4, ThreadStepSends
    <3> QED
      BY <2>1, <2>2, <3>1 DEF Sent
  <2>5. ASSUME (\E n \in Mods : edit(n)) \/ Backend \/ UNCHANGED vars PROVE UNCHANGED seen
    BY <2>5 DEF edit, Backend, load_version, load_route_data, insert_row, swap, load_changes,
       publish_lock, publish_mod, publish_unlock, send_task, vars, conns
  <2> QED
    BY <2>3, <2>4, <2>5 DEF Next, ThreadStep
<1>2. Spec => [][Forward]_vars
  BY <1>1, IInvAlways, PTL DEF Spec
<1> QED
  BY <1>2 DEF NoStaleRouteSent

(* Route implements a table that is replaced as a whole by the result of   *)
(* one query of all mods: load_route_data is the query, inserting the rows *)
(* is no step of the table, and swap() replaces it.                        *)
THEOREM RouteIsAtomic == Spec => ServesRouteTable
<1> DEFINE seenvars == <<db_rev, Queried, table>>
<1>1. Init => RT!Init
  <2> SUFFICES ASSUME Init PROVE RT!Init
    OBVIOUS
  <2>1. table = [m \in Mods |-> {0}] /\ backend = "sleep" /\ db_rev = [m \in Mods |-> 0]
    BY DEF Init, table, Maps
  <2> QED
    BY <2>1 DEF RT!Init, Queried
<1>2. IInv /\ [Next]_vars => [RT!Next]_seenvars
  <2> SUFFICES ASSUME IInv, [Next]_vars PROVE RT!Next \/ UNCHANGED seenvars
    OBVIOUS
  <2>a. TypeOK /\ LoadInv
    BY DEF IInv
  <2>p. /\ data_pointer \in Maps /\ temp_pointer \in Maps /\ temp_pointer # data_pointer
        /\ TypeOK'
    BY <2>a, TempPointer, NextTypeOK
  <2>1. ASSUME NEW m \in Mods, edit(m) PROVE RT!Next
    <3>1. /\ db_rev' = [db_rev EXCEPT ![m] = @ + 1]
          /\ UNCHANGED <<map, data_pointer, backend, rows>>
      BY <2>1 DEF edit, route
    <3>2. UNCHANGED <<Queried, table>>
      BY <3>1 DEF Queried, Loaded, table, temp_pointer
    <3> QED
      BY <3>1, <3>2 DEF RT!Next, RT!Edit
  <2>2. CASE load_route_data
    <3>1. backend' = "insert" /\ UNCHANGED <<db_rev, data_pointer>>
      BY <2>2 DEF load_route_data, Goto, database
    <3>2. Queried' = [m \in Mods |-> {db_rev[m]}]
      BY <2>2, <3>1, StoredRows DEF Queried
    <3>3. UNCHANGED table
      BY <2>a, <2>2, <2>p, <3>1 DEF load_route_data, TypeOK, table
    <3> QED
      BY <3>1, <3>2, <3>3 DEF RT!Next, RT!Query
  <2>3. CASE insert_row
    <3>1. /\ backend = "insert" /\ backend' \in {"insert", "swap"}
          /\ UNCHANGED <<db_rev, data_pointer>>
      BY <2>3 DEF insert_row, Goto, database
    <3>2. UNCHANGED Queried
      BY <2>3, <3>1, InsertKeepsLoaded DEF Queried
    <3>3. map'[data_pointer] = map[data_pointer]
      BY <2>a, <2>3, <2>p DEF insert_row, TypeOK
    <3> QED
      BY <3>1, <3>2, <3>3 DEF table
  <2>4. CASE swap
    <3>1. /\ backend = "swap" /\ backend' \notin {"insert", "swap"}
          /\ data_pointer' = temp_pointer /\ UNCHANGED <<db_rev, map>> /\ rows = {}
      BY <2>a, <2>4 DEF swap, Goto, database, LoadInv
    <3>2. \A m \in Mods : table'[m] = Loaded(m)
      BY <3>1 DEF table, Loaded
    <3>3. table' = [m \in Mods |-> table'[m]]
      BY <2>p DEF TypeOK, table
    <3>4. table' = Queried
      BY <3>1, <3>2, <3>3 DEF Queried
    <3>5. Queried' = table'
      BY <3>1, <3>3 DEF Queried
    <3> QED
      BY <3>1, <3>4, <3>5 DEF RT!Next, RT!Swap
  <2>5. ASSUME load_version \/ load_changes \/ publish_lock \/ publish_mod \/ publish_unlock
               \/ send_task
        PROVE  UNCHANGED seenvars
    <3>1. /\ UNCHANGED <<db_rev, map, data_pointer>>
          /\ backend \notin {"insert", "swap"} /\ backend' \notin {"insert", "swap"}
      BY <2>5 DEF load_version, load_changes, publish_lock, publish_mod, publish_unlock,
         send_task, database, Goto
    <3> QED
      BY <3>1 DEF Queried, table
  <2>6. ASSUME UNCHANGED <<database, route>> PROVE UNCHANGED seenvars
    BY <2>6 DEF database, route, Queried, Loaded, table, temp_pointer
  <2>7. CASE UNCHANGED vars
    BY <2>6, <2>7 DEF vars
  <2> QED
    BY <2>1, <2>2, <2>3, <2>4, <2>5, <2>6, <2>7, ThreadStepLocal DEF Next, Backend, ThreadStep
<1>3. Spec => RT!Spec
  BY <1>1, <1>2, IInvAlways, PTL DEF Spec, RT!Spec
<1> QED
  BY <1>3 DEF ServesRouteTable
-----------------------------------------------------------------------------
(* The rest is about an administrator who waits for the pushes of the      *)
(* previous edit: one edit at a time is on its way through the backend,    *)
(* the lists, the tasks and the threads.                                   *)
Behind == version # db_version
Loading == ~forced /\ backend \in {"load", "insert", "swap"}
Edited(m) == <<m, db_version>> \in db_change
Pushing(t) == pc[t] \in {"push", "erase"}

(* A thread has at most one task or push_change_task to do, and none while *)
(* the backend has a version to publish.                                   *)
WaveInv ==
  /\ backend # "sleep" => ~Behind
  /\ \A t \in Threads :
       /\ tasks[t] <= 1
       /\ tasks[t] = 1 \/ Pushing(t) => ~Behind /\ ~Noticing
       /\ Pushing(t) => tasks[t] = 0

(* The table lags behind the database only for the mod edited last, until  *)
(* that edit is loaded; what is being loaded is the database.              *)
CurrentInv ==
  /\ \A m \in Mods : table[m] = {db_rev[m]} \/ (Edited(m) /\ (Behind \/ Loading))
  /\ backend \in {"insert", "swap"} => \A m \in Mods : Loaded(m) = {db_rev[m]}

(* Subscribers are in book_list, whichever thread serves them.             *)
Subscriber(f, m) == owner[f] # None /\ m \in sub_list[f]
BookedInv == \A f \in Fds, m \in Mods : Subscriber(f, m) => f \in book_list[m]

(* A subscriber that was not sent the present revision gets it from the    *)
(* rest of get_route, from publish(), or from a task of its thread.        *)
Replying(f, m) == pc[owner[f]] = "reply" /\ at[owner[f]] = f /\ at_mod[owner[f]] = m

Unpublished(m) ==
  \/ Edited(m) /\ (Behind \/ Loading \/ backend = "load_changes")
  \/ m \in changes /\ backend \in {"publish", "publish_mod"}

OnItsWay(f, m) ==
  \/ m \in push_list[f] /\ (backend \in {"publish_mod", "send_task"} \/ tasks[owner[f]] > 0)
  \/ m \in need_publish[owner[f]][f]

Served(f, m) ==
  seen[f][m] = {db_rev[m]} \/ Replying(f, m) \/ Unpublished(m) \/ OnItsWay(f, m)

ServedInv == \A f \in Fds, m \in Mods : Subscriber(f, m) => Served(f, m)

PushInv == WaveInv /\ CurrentInv /\ BookedInv /\ ServedInv

LEMMA InitPushInv == Init => PushInv
<1> SUFFICES ASSUME Init PROVE PushInv
  OBVIOUS
<1>1. WaveInv
  BY DEF Init, WaveInv, Pushing
<1>2. CurrentInv
  <2>1. \A m \in Mods : table[m] = {0} /\ db_rev[m] = 0
    BY DEF Init, table, Maps
  <2> QED
    BY <2>1 DEF Init, CurrentInv
<1>3. BookedInv /\ ServedInv
  BY DEF Init, BookedInv, ServedInv, Subscriber
<1> QED
  BY <1>1, <1>2, <1>3 DEF PushInv

(* An edit finds no push under way.                                        *)
LEMMA EditIsAlone ==
  ASSUME AdminWaits = "pushes", IInv, PushInv, NEW m \in Mods, edit(m)
  PROVE  /\ ~Behind /\ backend = "sleep" /\ Behind' /\ Edited(m)'
         /\ \A t \in Threads : tasks[t] = 0 /\ ~Pushing(t)
         /\ \A n \in Mods : table[n] = {db_rev[n]}
         /\ \A n \in Mods \ {m} : db_rev'[n] = db_rev[n]
         /\ UNCHANGED <<route, lists, conns, threads>>
<1>1. /\ Quiet /\ db_version' = db_version + 1
      /\ db_rev' = [db_rev EXCEPT ![m] = @ + 1]
      /\ db_change' = db_change \cup {<<m, db_version + 1>>}
      /\ UNCHANGED <<route, lists, conns, threads>>
  BY DEF edit
<1>2. TypeOK
  BY DEF IInv
<1>3. ~Behind /\ backend = "sleep" /\ \A t \in Threads : tasks[t] = 0 /\ ~Pushing(t)
  BY <1>1 DEF Quiet, Noticed, PushesDone, Behind, Pushing
<1>4. Behind' /\ Edited(m)'
  BY <1>1, <1>2, <1>3 DEF Behind, Edited, route, TypeOK
<1>5. \A n \in Mods : table[n] = {db_rev[n]}
  BY <1>3 DEF PushInv, CurrentInv, Loading
<1>6. \A n \in Mods \ {m} : db_rev'[n] = db_rev[n]
  BY <1>1, <1>2 DEF TypeOK
<1> QED
  BY <1>1, <1>3, <1>4, <1>5, <1>6

LEMMA NextWaveInv ==
  ASSUME AdminWaits = "pushes", IInv, PushInv, [Next]_vars PROVE WaveInv'
<1>a. /\ TypeOK /\ WaveInv /\ TaskInv
      /\ \A t \in Threads : tasks[t] \in Nat
  BY DEF IInv, PushInv, TypeOK
<1>u. ASSUME UNCHANGED <<version, db_version, backend, forced, pc, tasks>> PROVE WaveInv'
  BY <1>a, <1>u DEF WaveInv, Behind, Noticing, Pushing
<1>1. ASSUME NEW m \in Mods, edit(m) PROVE WaveInv'
  BY <1>1, <1>a, EditIsAlone DEF WaveInv, Pushing, route, threads
<1>2. CASE load_version
  <2>1. /\ backend = "sleep" /\ backend' = "load" /\ version' = db_version
        /\ version = db_version => forced'
        /\ UNCHANGED <<db_version, pc, tasks>>
    BY <1>2 DEF load_version, Goto, database, threads
  <2> QED
    BY <1>a, <2>1 DEF WaveInv, Behind, Noticing, Pushing
<1>3. ASSUME load_route_data \/ insert_row \/ swap \/ load_changes \/ publish_lock
             \/ publish_mod \/ publish_unlock
      PROVE  WaveInv'
  <2>1. /\ backend # "sleep" /\ UNCHANGED <<version, db_version, forced, pc, tasks>>
    BY <1>3 DEF load_route_data, insert_row, swap, load_changes, publish_lock, publish_mod,
                publish_unlock, database, threads
  <2> QED
    BY <1>a, <2>1 DEF WaveInv, Behind, Noticing, Pushing
<1>4. CASE send_task
  <2>1. /\ backend = "send_task" /\ backend' = "sleep"
        /\ tasks' = [t \in Threads |-> tasks[t] + 1]
        /\ UNCHANGED <<version, db_version, forced, pc>>
    BY <1>4 DEF send_task, Goto, database
  <2>2. ~Behind /\ Noticing
    BY <1>a, <2>1 DEF WaveInv, TaskInv, Noticing
  <2>3. \A t \in Threads : tasks[t] = 0 /\ ~Pushing(t) /\ tasks'[t] = 1
    BY <1>a, <2>1, <2>2 DEF WaveInv
  <2> QED
    BY <2>1, <2>2, <2>3 DEF WaveInv, Behind, Noticing, Pushing
<1>5. ASSUME NEW t \in Threads, ThreadStep(t) PROVE WaveInv'
  <2>u. UNCHANGED <<version, db_version, backend, forced>>
    BY <1>5, ThreadStepLocal DEF database, route
  <2>1. ASSUME tasks' = tasks, \A s \in Threads : Pushing(s)' => Pushing(s) PROVE WaveInv'
    BY <1>a, <2>u, <2>1 DEF WaveInv, Behind, Noticing
  <2>2. ASSUME NEW f \in Fds, create_subscribe(t, f) PROVE WaveInv'
    BY <2>1, <2>2 DEF create_subscribe, Pushing, threads
  <2>3. ASSUME NEW f \in Fds, close_begin(t, f) PROVE WaveInv'
    BY <1>a, <2>1, <2>3 DEF close_begin, Step, Pushing, TypeOK
  <2>4. ASSUME NEW f \in Fds, NEW m \in Mods, get_route(t, f, m) PROVE WaveInv'
    BY <1>a, <2>1, <2>4 DEF get_route, Step, Pushing, TypeOK
  <2>5. CASE get_route_reply(t)
    BY <1>a, <2>1, <2>5 DEF get_route_reply, Step, Pushing, TypeOK
  <2>6. CASE unsubcribe(t)
    BY <2>1, <2>6 DEF unsubcribe, Pushing, threads
  <2>7. CASE close_end(t)
    BY <1>a, <2>1, <2>7 DEF close_end, Step, Pushing, TypeOK
  <2>8. CASE make_publish_map(t)
    <3>1. /\ tasks[t] > 0 /\ tasks' = [tasks EXCEPT ![t] = @ - 1]
          /\ pc' = [pc EXCEPT ![t] = "push"]
      BY <2>8 DEF make_publish_map, Step
    <3>2. tasks[t] = 1 /\ ~Behind /\ ~Noticing
      BY <1>a, <3>1 DEF WaveInv
    <3>3. \A s \in Threads : tasks'[s] = IF s = t THEN 0 ELSE tasks[s]
      BY <1>a, <3>1, <3>2 DEF TypeOK
    <3>4. \A s \in Threads : s # t => pc'[s] = pc[s]
      BY <1>a, <3>1 DEF TypeOK
    <3> QED
      BY <1>a, <2>u, <3>2, <3>3, <3>4 DEF WaveInv, Behind, Noticing, Pushing
  <2>9. CASE push_send(t)
    BY <1>a, <2>1, <2>9 DEF push_send, Step, Pushing, TypeOK
  <2>10. CASE push_erase(t)
    BY <1>a, <2>1, <2>10 DEF push_erase, Step, Pushing, TypeOK
  <2>11. CASE push_end(t)
    BY <1>a, <2>1, <2>11 DEF push_end, Step, Pushing, TypeOK
  <2> QED
    BY <1>5, <2>2, <2>3, <2>4, <2>5, <2>6, <2>7, <2>8, <2>9, <2>10, <2>11
    DEF ThreadStep, Run
<1>6. CASE UNCHANGED vars
  BY <1>6, <1>u DEF vars, database, route, threads
<1> QED
  BY <1>1, <1>2, <1>3, <1>4, <1>5, <1>6 DEF Next, Backend, ThreadStep

LEMMA NextCurrentInv ==
  ASSUME AdminWaits = "pushes", IInv, PushInv, [Next]_vars PROVE CurrentInv'
<1>a. TypeOK /\ WaveInv /\ CurrentInv
  BY DEF IInv, PushInv
<1>1. ASSUME NEW m \in Mods, edit(m) PROVE CurrentInv'
  <2>1. /\ backend = "sleep" /\ Behind' /\ Edited(m)'
        /\ \A n \in Mods : table[n] = {db_rev[n]}
        /\ \A n \in Mods \ {m} : db_rev'[n] = db_rev[n]
        /\ UNCHANGED route
    BY <1>1, EditIsAlone
  <2>2. UNCHANGED <<table, backend>>
    BY <2>1 DEF route, table
  <2> QED
    BY <2>1, <2>2 DEF CurrentInv
<1>2. CASE load_version
  <2>1. /\ backend = "sleep" /\ backend' = "load" /\ version' = db_version
        /\ version # db_version => ~forced'
        /\ UNCHANGED <<database, map, data_pointer>>
    BY <1>2 DEF load_version, Goto
  <2>2. Behind => Loading'
    BY <2>1 DEF Behind, Loading
  <2>3. \A m \in Mods : table[m] = {db_rev[m]} \/ (Edited(m) /\ Behind)
    BY <1>a, <2>1 DEF CurrentInv, Loading
  <2> QED
    BY <2>1, <2>2, <2>3 DEF CurrentInv, Edited, database, table
<1>3. ASSUME load_route_data \/ insert_row PROVE CurrentInv'
  <2>1. /\ backend \in {"load", "insert"} /\ backend' \in {"insert", "swap"}
        /\ UNCHANGED <<database, version, forced, data_pointer>>
    BY <1>3 DEF load_route_data, insert_row, Goto
  <2>2. UNCHANGED table
    <3>1. data_pointer \in Maps /\ temp_pointer \in Maps /\ temp_pointer # data_pointer
      BY <1>a, TempPointer
    <3>2. map'[data_pointer] = map[data_pointer]
      BY <1>a, <1>3, <3>1 DEF load_route_data, insert_row, TypeOK
    <3> QED
      BY <2>1, <3>2 DEF table
  <2>3. \A m \in Mods : Loaded(m)' = {db_rev[m]}
    <3>1. load_route_data => \A m \in Mods : Loaded(m)' = {db_rev[m]}
      BY StoredRows
    <3>2. insert_row => \A m \in Mods : Loaded(m)' = Loaded(m) /\ Loaded(m) = {db_rev[m]}
      BY <1>a, InsertKeepsLoaded DEF insert_row, CurrentInv
    <3> QED
      BY <1>3, <3>1, <3>2
  <2> QED
    BY <1>a, <2>1, <2>2, <2>3 DEF CurrentInv, Edited, Behind, Loading, database
<1>4. CASE swap
  <2>1. /\ backend = "swap" /\ data_pointer' = temp_pointer
        /\ backend' \in {"sleep", "load_changes"} /\ UNCHANGED <<database, map>>
    BY <1>4 DEF swap, Goto
  <2>2. rows = {}
    BY <2>1 DEF IInv, LoadInv
  <2>3. \A m \in Mods : table'[m] = Loaded(m)
    BY <2>1, <2>2 DEF table, Loaded
  <2> QED
    BY <1>a, <2>1, <2>3 DEF CurrentInv, database
<1>5. ASSUME load_changes \/ publish_lock \/ publish_mod \/ publish_unlock \/ send_task
      PROVE  CurrentInv'
  <2>1. /\ backend \notin {"load", "insert", "swap"} /\ backend' \notin {"load", "insert", "swap"}
        /\ UNCHANGED <<database, version, map, data_pointer>>
    BY <1>5 DEF load_changes, publish_lock, publish_mod, publish_unlock, send_task, Goto
  <2> QED
    BY <1>a, <2>1 DEF CurrentInv, Edited, Behind, Loading, table, database
<1>6. ASSUME UNCHANGED <<database, route>> PROVE CurrentInv'
  BY <1>a, <1>6 DEF CurrentInv, Edited, Behind, Loading, Loaded, temp_pointer, table,
     database, route
<1>7. CASE UNCHANGED vars
  BY <1>6, <1>7 DEF vars
<1> QED
  BY <1>1, <1>2, <1>3, <1>4, <1>5, <1>6, <1>7, ThreadStepLocal DEF Next, Backend, ThreadStep

LEMMA NextBookedInv ==
  ASSUME IInv, PushInv, [Next]_vars PROVE BookedInv'
<1>a. TypeOK /\ BookedInv /\ ThreadInv /\ None \notin Threads
  BY DnsAssumption DEF IInv, PushInv
<1>u. ASSUME UNCHANGED <<book_list, owner, sub_list>> PROVE BookedInv'
  BY <1>a, <1>u DEF BookedInv, Subscriber
<1>1. ASSUME NEW m \in Mods, edit(m) PROVE BookedInv'
  BY <1>1, <1>u DEF edit, lists, conns
<1>2. CASE Backend
  BY <1>2, <1>u DEF Backend, load_version, load_route_data, insert_row, swap, load_changes,
     publish_lock, publish_mod, publish_unlock, send_task, lists, conns
<1>3. ASSUME NEW t \in Threads, NEW f \in Fds, create_subscribe(t, f) PROVE BookedInv'
  <2>1. /\ owner' = [owner EXCEPT ![f] = t] /\ sub_list' = [sub_list EXCEPT ![f] = {}]
        /\ UNCHANGED book_list
    BY <1>3 DEF create_subscribe, lists
  <2> QED
    BY <1>a, <2>1 DEF BookedInv, Subscriber, TypeOK
<1>4. ASSUME NEW t \in Threads, NEW f \in Fds, NEW m \in Mods, get_route(t, f, m) PROVE BookedInv'
  <2>1. CASE m \in sub_list[f]
    BY <1>4, <1>u, <2>1 DEF get_route
  <2>2. CASE m \notin sub_list[f]
    <3>1. /\ sub_list' = [sub_list EXCEPT ![f] = @ \cup {m}]
          /\ book_list' = [book_list EXCEPT ![m] = @ \cup {f}] /\ UNCHANGED owner
      BY <1>4, <2>2 DEF get_route
    <3> QED
      BY <1>a, <3>1 DEF BookedInv, Subscriber, TypeOK
  <2> QED
    BY <2>1, <2>2
<1>5. ASSUME NEW t \in Threads, unsubcribe(t) PROVE BookedInv'
  <2>1. PICK m \in sub_list[at[t]] :
          /\ book_list' = [book_list EXCEPT ![m] = @ \ {at[t]}]
          /\ sub_list' = [sub_list EXCEPT ![at[t]] = @ \ {m}]
    BY <1>5 DEF unsubcribe
  <2>2. at[t] \in Fds /\ UNCHANGED owner
    BY <1>5, <1>a DEF unsubcribe, ThreadInv, ThreadOK, TypeOK
  <2> QED
    BY <1>a, <2>1, <2>2 DEF BookedInv, Subscriber, TypeOK
<1>6. ASSUME NEW t \in Threads, close_end(t) PROVE BookedInv'
  <2>1. owner' = [owner EXCEPT ![at[t]] = None] /\ UNCHANGED <<book_list, sub_list>>
    BY <1>6 DEF close_end, lists
  <2> QED
    BY <1>a, <2>1 DEF BookedInv, Subscriber, TypeOK
<1>7. ASSUME NEW t \in Threads,
             \/ get_route_reply(t) \/ make_publish_map(t) \/ push_send(t) \/ push_erase(t)
             \/ push_end(t) \/ \E f \in Fds : close_begin(t, f)
      PROVE  BookedInv'
  BY <1>7, <1>u DEF get_route_reply, make_publish_map, push_send, push_erase, push_end,
     close_begin, lists, conns
<1>8. CASE UNCHANGED vars
  BY <1>8, <1>u DEF vars, lists, conns
<1> QED
  BY <1>1, <1>2, <1>3, <1>4, <1>5, <1>6, <1>7, <1>8 DEF Next, Run

(* The backend hands an edit on from stage to stage.                       *)
LEMMA BackendServes ==
  ASSUME IInv, PushInv, Backend, NEW f \in Fds, NEW m \in Mods, Subscriber(f, m)
  PROVE  Served(f, m)'
<1>a. /\ TypeOK /\ WaveInv /\ CurrentInv /\ BookedInv /\ TaskInv
      /\ Served(f, m) /\ owner[f] \in Threads /\ f \in book_list[m]
      /\ \A t \in Threads : tasks[t] \in Nat
  BY DEF IInv, PushInv, ServedInv, BookedInv, Subscriber, TypeOK
<1>b. UNCHANGED <<database, conns, pc, at, at_mod, need_publish>>
  BY DEF Backend, load_version, load_route_data, insert_row, swap, load_changes,
     publish_lock, publish_mod, publish_unlock, send_task, threads
<1>1. CASE seen[f][m] = {db_rev[m]} \/ Replying(f, m) \/ m \in need_publish[owner[f]][f]
  BY <1>1, <1>b DEF Served, Replying, OnItsWay, database, conns
<1>2. CASE Unpublished(m)
  <2>1. ASSUME load_version \/ load_route_data \/ insert_row \/ swap PROVE Unpublished(m)'
    <3>1. backend \in {"sleep", "load", "insert", "swap"}
      BY <2>1 DEF load_version, load_route_data, insert_row, swap
    <3>2. Edited(m) /\ (Behind \/ Loading)
      BY <1>2, <3>1 DEF Unpublished
    <3>3. CASE load_version
      <4>1. version # db_version => ~forced' /\ backend' = "load"
        BY <3>3 DEF load_version, Goto
      <4>2. backend = "sleep"
        BY <3>3 DEF load_version
      <4> QED
        BY <1>b, <3>2, <4>1, <4>2 DEF Unpublished, Behind, Loading, Edited, database
    <3>4. CASE load_route_data \/ insert_row \/ swap
      <4>1. backend # "sleep" /\ UNCHANGED forced
        BY <3>4 DEF load_route_data, insert_row, swap
      <4>2. ~forced
        BY <1>a, <3>2, <4>1 DEF WaveInv, Loading
      <4>3. backend' \in {"insert", "swap", "load_changes"}
        BY <3>4, <4>2 DEF load_route_data, insert_row, swap, Goto
      <4> QED
        BY <1>b, <3>2, <4>1, <4>2, <4>3 DEF Unpublished, Loading, Edited, database
    <3> QED
      BY <2>1, <3>3, <3>4
  <2>2. CASE load_changes
    <3>1. backend = "load_changes" /\ changes' = Changed(version) /\ backend' = "publish"
      BY <2>2 DEF load_changes, Goto
    <3>2. <<m, version>> \in db_change /\ version \in Nat
      BY <1>a, <1>2, <3>1 DEF Unpublished, Edited, WaveInv, Behind, TypeOK
    <3>3. m \in Changed(version)
      <4>1. <<m, version>>[1] = m /\ <<m, version>>[2] >= version
        BY <3>2
      <4> QED
        BY <3>2, <4>1 DEF Changed
    <3> QED
      BY <3>1, <3>3 DEF Served, Unpublished
  <2>3. CASE publish_lock
    <3>1. backend = "publish" /\ backend' = "publish_mod" /\ UNCHANGED changes
      BY <2>3 DEF publish_lock, Goto
    <3>2. m \in changes
      BY <1>a, <1>2, <3>1 DEF Unpublished, WaveInv, Loading
    <3> QED
      BY <3>1, <3>2 DEF Served, Unpublished
  <2>4. CASE publish_mod \/ publish_unlock
    <3>1. backend = "publish_mod"
      BY <2>4 DEF publish_mod, publish_unlock
    <3>2. m \in changes
      BY <1>a, <1>2, <3>1 DEF Unpublished, WaveInv, Loading
    <3>3. publish_mod /\ UNCHANGED backend
      BY <2>4, <3>2 DEF publish_mod, publish_unlock
    <3>4. PICK n \in changes :
            /\ push_list' = [g \in Fds |-> IF g \in book_list[n] THEN push_list[g] \cup {n}
                                                                  ELSE push_list[g]]
            /\ changes' = changes \ {n}
      BY <3>3 DEF publish_mod
    <3>5. CASE m = n
      BY <1>a, <3>1, <3>3, <3>4, <3>5 DEF Served, OnItsWay
    <3>6. CASE m # n
      BY <3>1, <3>2, <3>3, <3>4, <3>6 DEF Served, Unpublished
    <3> QED
      BY <3>5, <3>6
  <2>5. ~send_task
    BY <1>a, <1>2 DEF send_task, Unpublished, WaveInv, Loading
  <2> QED
    BY <2>1, <2>2, <2>3, <2>4, <2>5 DEF Backend, Served
<1>3. CASE /\ m \in push_list[f]
           /\ backend \in {"publish_mod", "send_task"} \/ tasks[owner[f]] > 0
  <2>1. m \in push_list'[f]
    <3>1. CASE publish_mod
      <4>1. PICK n \in changes :
              push_list' = [g \in Fds |-> IF g \in book_list[n] THEN push_list[g] \cup {n}
                                                                ELSE push_list[g]]
        BY <3>1 DEF publish_mod
      <4> QED
        BY <1>3, <4>1
    <3>2. CASE ~publish_mod
      BY <1>3, <3>2 DEF Backend, load_version, load_route_data, insert_row, swap, load_changes,
         publish_lock, publish_unlock, send_task, lists
    <3> QED
      BY <3>1, <3>2
  <2>2. CASE send_task
    <3>1. tasks'[owner[f]] > 0
      BY <1>a, <2>2 DEF send_task
    <3> QED
      BY <1>b, <2>1, <3>1 DEF Served, OnItsWay, conns
  <2>3. CASE ~send_task
    <3>1. UNCHANGED tasks
      BY <2>3 DEF Backend, load_version, load_route_data, insert_row, swap, load_changes,
         publish_lock, publish_mod, publish_unlock, threads
    <3>2. backend = "publish_mod" => backend' \in {"publish_mod", "send_task"}
      BY <2>3 DEF Backend, load_version, load_route_data, insert_row, swap, load_changes,
         publish_lock, publish_mod, publish_unlock, Goto
    <3>3. backend # "send_task"
      BY <2>3 DEF Backend, load_version, load_route_data, insert_row, swap, load_changes,
         publish_lock, publish_mod, publish_unlock
    <3> QED
      BY <1>b, <1>3, <2>1, <3>1, <3>2, <3>3 DEF Served, OnItsWay, conns
  <2> QED
    BY <2>2, <2>3
<1> QED
  BY <1>a, <1>1, <1>2, <1>3 DEF Served, OnItsWay

(* A thread sends the present revision, or leaves it to someone else.      *)
LEMMA ThreadServes ==
  ASSUME IInv, PushInv, NEW t \in Threads, ThreadStep(t),
         NEW f \in Fds, NEW m \in Mods, Subscriber(f, m)'
  PROVE  Served(f, m)'
<1>a. /\ TypeOK /\ WaveInv /\ CurrentInv /\ TaskInv /\ ThreadInv /\ ThreadOK(t)
      /\ None \notin Threads \cup Fds
      /\ Subscriber(f, m) => Served(f, m)
      /\ owner[f] \in Threads \cup {None}
  BY DnsAssumption DEF IInv, PushInv, ServedInv, ThreadInv, TypeOK
<1>b. UNCHANGED <<database, route>> /\ UNCHANGED table
  BY ThreadStepLocal DEF route, table
<1>c. Unpublished(m) => Unpublished(m)'
  BY <1>b DEF Unpublished, Edited, Behind, Loading, database, route
(* The thread does not answer f and sends it nothing of m.                 *)
<1>u. ASSUME Subscriber(f, m), owner'[f] = owner[f], seen'[f][m] = seen[f][m],
             ~Replying(f, m) \/ owner[f] # t \/ UNCHANGED <<pc, at, at_mod>>,
             \A s \in Threads : s # t => pc'[s] = pc[s] /\ at'[s] = at[s] /\ at_mod'[s] = at_mod[s],
             OnItsWay(f, m) => OnItsWay(f, m)'
      PROVE  Served(f, m)'
  <2>1. owner[f] \in Threads
    BY <1>a, <1>u DEF Subscriber
  <2>2. Replying(f, m) => Replying(f, m)'
    BY <1>u, <2>1 DEF Replying
  <2> QED
    BY <1>a, <1>b, <1>c, <1>u, <2>2 DEF Served, database
<1>w. ASSUME UNCHANGED <<push_list, need_publish, tasks>>, owner'[f] = owner[f]
      PROVE  OnItsWay(f, m) => OnItsWay(f, m)'
  BY <1>b, <1>w DEF OnItsWay, route
<1>1. ASSUME NEW g \in Fds, create_subscribe(t, g) PROVE Served(f, m)'
  <2>1. /\ owner' = [owner EXCEPT ![g] = t] /\ sub_list' = [sub_list EXCEPT ![g] = {}]
        /\ seen' = [seen EXCEPT ![g] = [n \in Mods |-> {}]]
        /\ UNCHANGED <<push_list, threads>>
    BY <1>1 DEF create_subscribe, lists
  <2>2. f # g
    BY <1>a, <2>1 DEF Subscriber, TypeOK
  <2>3. owner'[f] = owner[f] /\ seen'[f][m] = seen[f][m] /\ Subscriber(f, m)
    BY <1>a, <2>1, <2>2 DEF Subscriber, TypeOK
  <2> QED
    BY <1>u, <1>w, <2>1, <2>3 DEF threads
<1>2. ASSUME NEW g \in Fds, NEW n \in Mods, get_route(t, g, n) PROVE Served(f, m)'
  <2>1. /\ pc[t] = "loop" /\ owner[g] = t /\ pc' = [pc EXCEPT ![t] = "reply"]
        /\ at' = [at EXCEPT ![t] = g] /\ at_mod' = [at_mod EXCEPT ![t] = n]
        /\ UNCHANGED <<push_list, owner, seen, need_publish, tasks>>
    BY <1>2 DEF get_route, Step, With
  <2>2. CASE f = g /\ m = n
    <3>1. Replying(f, m)'
      BY <1>a, <2>1, <2>2 DEF Replying, TypeOK
    <3> QED
      BY <3>1 DEF Served
  <2>3. CASE ~(f = g /\ m = n)
    <3>1. Subscriber(f, m)
      <4>1. CASE n \in sub_list[g]
        BY <1>2, <2>1, <4>1 DEF get_route, Subscriber
      <4>2. CASE n \notin sub_list[g]
        <5>1. sub_list' = [sub_list EXCEPT ![g] = @ \cup {n}]
          BY <1>2, <4>2 DEF get_route
        <5> QED
          BY <1>a, <2>1, <2>3, <5>1 DEF Subscriber, TypeOK
      <4> QED
        BY <4>1, <4>2
    <3>2. ~Replying(f, m) \/ owner[f] # t
      BY <2>1 DEF Replying
    <3>3. \A s \in Threads : s # t => pc'[s] = pc[s] /\ at'[s] = at[s] /\ at_mod'[s] = at_mod[s]
      BY <1>a, <2>1 DEF TypeOK
    <3> QED
      BY <1>u, <1>w, <2>1, <3>1, <3>2, <3>3
  <2> QED
    BY <2>2, <2>3
<1>3. CASE get_route_reply(t)
  <2>1. /\ pc[t] = "reply" /\ at[t] \in Fds /\ at_mod[t] \in Mods /\ owner[at[t]] = t
        /\ seen' = [seen EXCEPT ![at[t]][at_mod[t]] = table[at_mod[t]]]
        /\ pc' = [pc EXCEPT ![t] = "loop"]
        /\ at' = [at EXCEPT ![t] = None] /\ at_mod' = [at_mod EXCEPT ![t] = None]
        /\ UNCHANGED <<push_list, owner, sub_list, need_publish, tasks>>
    BY <1>a, <1>3 DEF get_route_reply, Send, Step, With, ThreadOK, TypeOK, lists
  <2>2. CASE f = at[t] /\ m = at_mod[t]
    <3>1. seen'[f][m] = table[m]
      BY <1>a, <2>1, <2>2 DEF TypeOK
    <3>2. table[m] = {db_rev[m]} \/ Unpublished(m)
      BY <1>a DEF CurrentInv, Unpublished
    <3> QED
      BY <1>b, <1>c, <3>1, <3>2 DEF Served, database
  <2>3. CASE ~(f = at[t] /\ m = at_mod[t])
    <3>1. seen'[f][m] = seen[f][m]
      BY <1>a, <2>1, <2>3 DEF TypeOK
    <3>2. ~Replying(f, m) \/ owner[f] # t
      BY <2>3 DEF Replying
    <3>3. \A s \in Threads : s # t => pc'[s] = pc[s] /\ at'[s] = at[s] /\ at_mod'[s] = at_mod[s]
      BY <1>a, <2>1 DEF TypeOK
    <3>4. Subscriber(f, m)
      BY <2>1 DEF Subscriber
    <3> QED
      BY <1>u, <1>w, <2>1, <3>1, <3>2, <3>3, <3>4
  <2> QED
    BY <2>2, <2>3
<1>4. ASSUME NEW g \in Fds, close_begin(t, g) PROVE Served(f, m)'
  <2>1. /\ pc[t] = "loop" /\ pc' = [pc EXCEPT ![t] = "close"]
        /\ at' = [at EXCEPT ![t] = g] /\ at_mod' = [at_mod EXCEPT ![t] = None]
        /\ UNCHANGED <<push_list, owner, sub_list, seen, need_publish, tasks>>
    BY <1>4 DEF close_begin, Step, With, lists, conns
  <2>2. \A s \in Threads : s # t => pc'[s] = pc[s] /\ at'[s] = at[s] /\ at_mod'[s] = at_mod[s]
    BY <1>a, <2>1 DEF TypeOK
  <2>3. (~Replying(f, m) \/ owner[f] # t) /\ Subscriber(f, m)
    BY <2>1 DEF Replying, Subscriber
  <2> QED
    BY <1>u, <1>w, <2>1, <2>2, <2>3
<1>5. CASE unsubcribe(t)
  <2>1. UNCHANGED <<push_list, owner, seen, threads>> /\ at[t] \in Fds
    BY <1>a, <1>5 DEF unsubcribe, ThreadOK, TypeOK
  <2>2. PICK n \in sub_list[at[t]] : sub_list' = [sub_list EXCEPT ![at[t]] = @ \ {n}]
    BY <1>5 DEF unsubcribe
  <2>3. Subscriber(f, m)
    BY <1>a, <2>1, <2>2 DEF Subscriber, TypeOK
  <2> QED
    BY <1>u, <1>w, <2>1, <2>3 DEF threads
<1>6. CASE close_end(t)
  <2>1. /\ pc[t] = "close" /\ at[t] \in Fds /\ owner' = [owner EXCEPT ![at[t]] = None]
        /\ seen' = [seen EXCEPT ![at[t]] = [n \in Mods |-> {}]]
        /\ pc' = [pc EXCEPT ![t] = "loop"]
        /\ at' = [at EXCEPT ![t] = None] /\ at_mod' = [at_mod EXCEPT ![t] = None]
        /\ UNCHANGED <<push_list, sub_list, need_publish, tasks>>
    BY <1>a, <1>6 DEF close_end, Step, With, ThreadOK, TypeOK, lists
  <2>2. f # at[t]
    BY <1>a, <2>1 DEF Subscriber, TypeOK
  <2>3. owner'[f] = owner[f] /\ seen'[f][m] = seen[f][m] /\ Subscriber(f, m)
    BY <1>a, <2>1, <2>2 DEF Subscriber, TypeOK
  <2>4. \A s \in Threads : s # t => pc'[s] = pc[s] /\ at'[s] = at[s] /\ at_mod'[s] = at_mod[s]
    BY <1>a, <2>1 DEF TypeOK
  <2>5. ~Replying(f, m) \/ owner[f] # t
    BY <2>1 DEF Replying
  <2> QED
    BY <1>u, <1>w, <2>1, <2>3, <2>4, <2>5
<1>7. CASE make_publish_map(t)
  <2>1. /\ pc[t] = "loop" /\ tasks' = [tasks EXCEPT ![t] = @ - 1]
        /\ need_publish' = [need_publish EXCEPT ![t] =
                              [g \in Fds |-> IF owner[g] = t THEN push_list[g] ELSE {}]]
        /\ pc' = [pc EXCEPT ![t] = "push"]
        /\ UNCHANGED <<push_list, owner, sub_list, seen, at, at_mod>>
    BY <1>7 DEF make_publish_map, Step, lists, conns
  <2>2. \A s \in Threads : s # t => pc'[s] = pc[s] /\ at'[s] = at[s] /\ at_mod'[s] = at_mod[s]
    BY <1>a, <2>1 DEF TypeOK
  <2>3. (~Replying(f, m) \/ owner[f] # t) /\ Subscriber(f, m)
    BY <2>1 DEF Replying, Subscriber
  <2>4. OnItsWay(f, m) => OnItsWay(f, m)'
    <3>1. owner[f] \in Threads
      BY <1>a, <2>3 DEF Subscriber
    <3>2. CASE owner[f] = t
      <4>1. m \notin need_publish[t][f]
        BY <1>a, <2>1 DEF ThreadOK
      <4>2. need_publish'[t][f] = push_list[f]
        BY <1>a, <2>1, <3>2 DEF TypeOK
      <4> QED
        BY <2>1, <3>2, <4>1, <4>2 DEF OnItsWay
    <3>3. CASE owner[f] # t
      <4>1. tasks'[owner[f]] = tasks[owner[f]] /\ need_publish'[owner[f]] = need_publish[owner[f]]
        BY <1>a, <2>1, <3>1, <3>3 DEF TypeOK
      <4> QED
        BY <1>b, <2>1, <4>1 DEF OnItsWay, route
    <3> QED
      BY <3>2, <3>3
  <2> QED
    BY <1>u, <2>1, <2>2, <2>3, <2>4
<1>8. CASE push_send(t)
  <2>1. PICK g \in Fds : \E n \in need_publish[t][g] :
          /\ seen' = [seen EXCEPT ![g][n] = table[n]]
          /\ need_publish' = [need_publish EXCEPT ![t][g] = @ \ {n}]
          /\ at' = [at EXCEPT ![t] = g] /\ at_mod' = [at_mod EXCEPT ![t] = n]
    BY <1>8 DEF push_send, Send, With
  <2>2. PICK n \in need_publish[t][g] :
          /\ seen' = [seen EXCEPT ![g][n] = table[n]]
          /\ need_publish' = [need_publish EXCEPT ![t][g] = @ \ {n}]
          /\ at' = [at EXCEPT ![t] = g] /\ at_mod' = [at_mod EXCEPT ![t] = n]
    BY <2>1
  <2>3. /\ pc[t] = "push" /\ pc' = [pc EXCEPT ![t] = "erase"] /\ n \in Mods
        /\ UNCHANGED <<push_list, owner, sub_list, tasks>>
    BY <1>a, <1>8, <2>2 DEF push_send, Step, lists, TypeOK
  <2>4. CASE f = g /\ m = n
    <3>1. ~Behind /\ ~Loading
      BY <1>a, <2>3 DEF WaveInv, Pushing, Noticing, Loading
    <3>2. seen'[f][m] = {db_rev[m]}
      BY <1>a, <2>2, <2>4, <3>1 DEF CurrentInv, TypeOK
    <3> QED
      BY <1>b, <3>2 DEF Served, database
  <2>5. CASE ~(f = g /\ m = n)
    <3>1. seen'[f][m] = seen[f][m]
      BY <1>a, <2>2, <2>3, <2>5 DEF TypeOK
    <3>2. (~Replying(f, m) \/ owner[f] # t) /\ Subscriber(f, m)
      BY <2>3 DEF Replying, Subscriber
    <3>3. \A s \in Threads : s # t => pc'[s] = pc[s] /\ at'[s] = at[s] /\ at_mod'[s] = at_mod[s]
      BY <1>a, <2>2, <2>3 DEF TypeOK
    <3>4. \A s \in Threads : m \in need_publish[s][f] => m \in need_publish'[s][f]
      BY <1>a, <2>2, <2>5 DEF TypeOK
    <3>5. owner[f] \in Threads
      BY <1>a, <3>2 DEF Subscriber
    <3>6. OnItsWay(f, m) => OnItsWay(f, m)'
      BY <1>b, <2>3, <3>4, <3>5 DEF OnItsWay, route
    <3> QED
      BY <1>u, <2>3, <3>1, <3>2, <3>3, <3>6
  <2> QED
    BY <2>4, <2>5
<1>9. CASE push_erase(t)
  <2>1. /\ pc[t] = "erase" /\ push_list' = [push_list EXCEPT ![at[t]] = {}]
        /\ pc' = [pc EXCEPT ![t] = "push"] /\ owner[at[t]] = t
        /\ UNCHANGED <<owner, sub_list, seen, at, at_mod, need_publish, tasks>>
    BY <1>a, <1>9 DEF push_erase, Step, ThreadOK, conns
  <2>2. /\ backend \notin {"publish_mod", "send_task"} /\ ~(tasks[t] > 0)
    BY <1>a, <2>1 DEF WaveInv, Pushing, Noticing, TaskInv
  <2>3. OnItsWay(f, m) => OnItsWay(f, m)'
    <3>1. CASE f = at[t]
      BY <2>1, <2>2, <3>1 DEF OnItsWay
    <3>2. CASE f # at[t]
      BY <1>a, <1>b, <2>1, <3>2 DEF OnItsWay, route, TypeOK
    <3> QED
      BY <3>1, <3>2
  <2>4. (~Replying(f, m) \/ owner[f] # t) /\ Subscriber(f, m)
    BY <2>1 DEF Replying, Subscriber
  <2>5. \A s \in Threads : s # t => pc'[s] = pc[s] /\ at'[s] = at[s] /\ at_mod'[s] = at_mod[s]
    BY <1>a, <2>1 DEF TypeOK
  <2> QED
    BY <1>u, <2>1, <2>3, <2>4, <2>5
<1>10. CASE push_end(t)
  <2>1. /\ pc[t] = "push" /\ pc' = [pc EXCEPT ![t] = "loop"]
        /\ at' = [at EXCEPT ![t] = None] /\ at_mod' = [at_mod EXCEPT ![t] = None]
        /\ UNCHANGED <<push_list, owner, sub_list, seen, need_publish, tasks>>
    BY <1>10 DEF push_end, Step, With, lists, conns
  <2>2. \A s \in Threads : s # t => pc'[s] = pc[s] /\ at'[s] = at[s] /\ at_mod'[s] = at_mod[s]
    BY <1>a, <2>1 DEF TypeOK
  <2>3. (~Replying(f, m) \/ owner[f] # t) /\ Subscriber(f, m)
    BY <2>1 DEF Replying, Subscriber
  <2> QED
    BY <1>u, <1>w, <2>1, <2>2, <2>3
<1> QED
  BY <1>1, <1>2, <1>3, <1>4, <1>5, <1>6, <1>7, <1>8, <1>9, <1>10 DEF ThreadStep, Run

LEMMA NextServedInv ==
  ASSUME AdminWaits = "pushes", IInv, PushInv, [Next]_vars PROVE ServedInv'
<1> SUFFICES ASSUME NEW f \in Fds, NEW m \in Mods, Subscriber(f, m)'
             PROVE  Served(f, m)'
  BY DEF ServedInv
<1>1. ASSUME NEW n \in Mods, edit(n) PROVE Served(f, m)'
  <2>1. /\ backend = "sleep" /\ Behind' /\ Edited(n)'
        /\ \A t \in Threads : tasks[t] = 0 /\ ~Pushing(t)
        /\ \A k \in Mods \ {n} : db_rev'[k] = db_rev[k]
        /\ UNCHANGED <<route, lists, conns, threads>>
    BY <1>1, EditIsAlone
  <2>2. CASE m = n
    BY <2>1, <2>2 DEF Served, Unpublished
  <2>3. CASE m # n
    <3>1. Subscriber(f, m) /\ owner[f] \in Threads /\ Served(f, m) /\ ThreadInv
      BY <2>1 DEF Subscriber, conns, IInv, TypeOK, PushInv, ServedInv
    <3>2. ~OnItsWay(f, m)
      BY <2>1, <3>1 DEF OnItsWay, ThreadInv, ThreadOK, Pushing
    <3>3. ~Unpublished(m)
      BY <1>1, <2>1 DEF Unpublished, Loading, Behind, edit, Quiet, Noticed
    <3>4. seen[f][m] = {db_rev[m]} \/ Replying(f, m)
      BY <3>1, <3>2, <3>3 DEF Served
    <3> QED
      BY <2>1, <2>3, <3>4 DEF Served, Replying, conns, threads
  <2> QED
    BY <2>2, <2>3
<1>2. CASE Backend
  <2>1. UNCHANGED conns
    BY <1>2 DEF Backend, load_version, load_route_data, insert_row, swap, load_changes,
       publish_lock, publish_mod, publish_unlock, send_task
  <2>2. Subscriber(f, m)
    BY <2>1 DEF Subscriber, conns
  <2> QED
    BY <1>2, <2>2, BackendServes
<1>3. ASSUME NEW t \in Threads, ThreadStep(t) PROVE Served(f, m)'
  BY <1>3, ThreadServes
<1>4. CASE UNCHANGED vars
  <2>1. Served(f, m)
    BY <1>4 DEF PushInv, ServedInv, Subscriber, vars, conns
  <2> QED
    BY <1>4, <2>1 DEF Served, Replying, Unpublished, OnItsWay, Edited, Behind, Loading,
       vars, database, route, lists, conns, threads
<1> QED
  BY <1>1, <1>2, <1>3, <1>4 DEF Next, ThreadStep

(* subcribe.cpp:142: with one edit at a time on its way, publish(), the     *)
(* push lists and the tasks bring it to every subscriber.                   *)
THEOREM ChangesArePushed ==
  ASSUME AdminWaits = "pushes" PROVE Spec => []ChangesReachSubscribers
<1>1. PushInv /\ IInv => ChangesReachSubscribers
  <2> SUFFICES ASSUME PushInv, IInv, Quiet, \A t \in Threads : pc[t] = "loop",
                      NEW f \in Fds, NEW m \in Mods, Subscriber(f, m)
               PROVE  seen[f][m] = {db_rev[m]}
    BY DEF ChangesReachSubscribers, Subscriber, IInv, TypeOK
  <2>1. Served(f, m) /\ owner[f] \in Threads /\ ThreadInv
    BY DEF PushInv, ServedInv, Subscriber, IInv, TypeOK
  <2>2. ~Behind /\ backend = "sleep" /\ tasks[owner[f]] = 0
    BY <2>1 DEF Quiet, Noticed, PushesDone, Behind
  <2>3. ~Replying(f, m) /\ ~Unpublished(m)
    BY <2>1, <2>2 DEF Replying, Unpublished, Loading
  <2>4. ~OnItsWay(f, m)
    BY <2>1, <2>2 DEF OnItsWay, ThreadInv, ThreadOK
  <2> QED
    BY <2>1, <2>3, <2>4 DEF Served
<1>2. PushInv /\ IInv /\ [Next]_vars => PushInv'
  BY NextWaveInv, NextCurrentInv, NextBookedInv, NextServedInv DEF PushInv
<1> QED
  BY <1>1, <1>2, InitPushInv, IInvAlways, PTL DEF Spec
===============================================================================
