---------------------------- MODULE ReporterProofs ----------------------------
(***************************************************************************)
(* The reporter service, for any number of reactor and store threads and   *)
(* any requests.  IInv types the index and the registers that hold a copy  *)
(* of it, which is what the remainder needs to lie within the queues;      *)
(* StoreInv follows a request from its handler through a queue to a store  *)
(* thread; RowInv says who may still write a row, or from which queue it   *)
(* has its value.                                                          *)
(***************************************************************************)
EXTENDS Reporter, SequenceTheorems, TLAPS

Places == {"idle", "store", "increment", "incremented", "reload", "reloaded"}

HandlersOK ==
  /\ index \in Nat /\ received \in 0..MaxReports
  /\ handler \in [Reactors -> [pc : Places, req : Items \cup {none},
                               i : Nat \ {0}, local : Nat]]

IInv == HandlersOK /\ OverrunNeedsRace

(* A remainder is the number of a queue.                                   *)
LEMMA RemainderIsQueue ==
  ASSUME NEW n \in Nat PROVE Remainder(n) \in Queues /\ Remainder(n) \in Nat
BY ReporterAssumption DEF Remainder, Queues

(* What a handler is when it goes on without its request.                  *)
LEMMA IdleIsTyped ==
  ASSUME NEW pc \in Places
  PROVE  /\ [idle EXCEPT !.pc = pc] \in [pc : Places, req : Items \cup {none},
                                         i : Nat \ {0}, local : Nat]
         /\ [idle EXCEPT !.pc = pc].pc = pc
         /\ idle \in [pc : Places, req : Items \cup {none}, i : Nat \ {0}, local : Nat]
<1>1. none \in Items \cup {none} /\ "idle" \in Places
  BY DEF Places
<1> HIDE DEF none, Places
<1> QED
  BY <1>1 DEF idle

LEMMA InitIInv == Init => IInv
<1> SUFFICES ASSUME Init PROVE IInv
  OBVIOUS
<1>1. HandlersOK
  BY ReporterAssumption, IdleIsTyped DEF Init, HandlersOK, Places
<1>2. index \in Queues
  BY ReporterAssumption DEF Init, Queues
<1> QED
  BY <1>1, <1>2 DEF IInv, OverrunNeedsRace

(* A request arrives: what its handler is then.                            *)
LEMMA NewHandler ==
  ASSUME HandlersOK, NEW r \in Reactors, get_report_status(r)
  PROVE  \E rows \in Requests :
           /\ [id |-> received + 1, rows |-> rows] \in Items
           /\ received + 1 \in Reports /\ received' = received + 1
           /\ received' \in 0..MaxReports
           /\ handler[r].pc = "idle" /\ handler'[r].pc = "store"
           /\ handler'[r].req = [id |-> received + 1, rows |-> rows]
           /\ handler'[r].i = handler[r].i
           /\ handler' \in [Reactors -> [pc : Places, req : Items \cup {none},
                                         i : Nat \ {0}, local : Nat]]
           /\ \A s \in Reactors : s # r => handler'[s] = handler[s]
<1>1. PICK rows \in Requests :
        handler' = [handler EXCEPT ![r].pc = "store",
                                   ![r].req = [id |-> received + 1, rows |-> rows]]
  BY DEF get_report_status
<1>2. /\ received' = received + 1 /\ received < MaxReports /\ received \in 0..MaxReports
      /\ MaxReports \in Nat /\ handler[r].pc = "idle"
  BY ReporterAssumption DEF get_report_status, At, HandlersOK
<1>3. received + 1 \in Reports /\ received' \in 0..MaxReports
  BY <1>2 DEF Reports
<1> DEFINE it == [id |-> received + 1, rows |-> rows]
<1>4. it \in Items
  BY <1>3 DEF Items
<1>5. handler' = [handler EXCEPT ![r].pc = "store", ![r].req = it]
  BY <1>1
<1> HIDE DEF it
<1> DEFINE T == Items \cup {none}
<1>6. it \in T /\ "store" \in Places
  BY <1>4 DEF Places
<1>7. handler \in [Reactors -> [pc : Places, req : T, i : Nat \ {0}, local : Nat]]
  BY DEF HandlersOK
<1> HIDE DEF T, Places
<1>8. /\ handler' \in [Reactors -> [pc : Places, req : T, i : Nat \ {0}, local : Nat]]
      /\ handler'[r].pc = "store" /\ handler'[r].req = it /\ handler'[r].i = handler[r].i
      /\ \A s \in Reactors : s # r => handler'[s] = handler[s]
  BY <1>5, <1>6, <1>7
<1> QED
  BY <1>2, <1>3, <1>4, <1>8 DEF it, T

LEMMA NextIInv == IInv /\ [Next]_vars => IInv'
<1> SUFFICES ASSUME IInv, [Next]_vars PROVE IInv'
  OBVIOUS
<1>a. HandlersOK /\ OverrunNeedsRace
  BY DEF IInv
<1>u. ASSUME UNCHANGED <<index, handler, received>> PROVE IInv'
  BY <1>a, <1>u DEF IInv, HandlersOK, OverrunNeedsRace
(* A handler that is not between the two statements may move on: who made  *)
(* index too large is still there.                                         *)
<1>k. ASSUME NEW r \in Reactors, handler[r].pc \notin {"reload", "reloaded"},
             UNCHANGED index, HandlersOK',
             \A s \in Reactors : s # r => handler'[s] = handler[s]
      PROVE  IInv'
  BY <1>a, <1>k DEF IInv, OverrunNeedsRace
<1>1. ASSUME NEW r \in Reactors, get_report_status(r) PROVE IInv'
  <2>1. UNCHANGED index
    BY <1>1 DEF get_report_status
  <2>2. /\ HandlersOK' /\ handler[r].pc = "idle"
        /\ \A s \in Reactors : s # r => handler'[s] = handler[s]
    BY <1>a, <1>1, <2>1, NewHandler DEF HandlersOK
  <2> QED
    BY <1>k, <2>1, <2>2
<1>2. ASSUME NEW r \in Reactors, store(r) PROVE IInv'
  <2>1. /\ handler[r].pc = "store" /\ UNCHANGED <<index, received>>
        /\ handler' = [handler EXCEPT ![r].i = @ + 1]
    BY <1>2 DEF store, At, history
  <2>2. HandlersOK'
    BY <1>a, <2>1 DEF HandlersOK
  <2> QED
    BY <1>a, <1>k, <2>1, <2>2 DEF HandlersOK
<1>3. ASSUME NEW r \in Reactors, send(r) PROVE IInv'
  <2>1. /\ handler[r].pc = "store" /\ UNCHANGED <<index, received>>
        /\ handler' = [handler EXCEPT ![r] = [idle EXCEPT !.pc = "increment"]]
    BY <1>3 DEF send, At, Goto
  <2>2. HandlersOK'
    BY <1>a, <2>1, IdleIsTyped DEF HandlersOK, Places
  <2> QED
    BY <1>a, <1>k, <2>1, <2>2 DEF HandlersOK
<1>4. ASSUME NEW r \in Reactors, read_index(r) PROVE IInv'
  <2>0. UNCHANGED <<index, received>>
    BY <1>4 DEF read_index, history
  <2>1. CASE handler[r].pc = "increment"
    <3>1. handler' = [handler EXCEPT ![r].pc = "incremented", ![r].local = index + 1]
      BY <1>4, <2>1 DEF read_index, At
    <3>2. index + 1 \in Nat
      BY <1>a DEF HandlersOK
    <3>3. HandlersOK'
      BY <1>a, <2>0, <3>1, <3>2 DEF HandlersOK, Places
    <3> QED
      BY <1>a, <1>k, <2>0, <2>1, <3>1, <3>3 DEF HandlersOK
  <2>2. CASE handler[r].pc = "reload"
    <3>1. handler' = [handler EXCEPT ![r].pc = "reloaded", ![r].local = index]
      BY <1>4, <2>2 DEF read_index, At
    <3>2. HandlersOK'
      BY <1>a, <2>0, <3>1 DEF HandlersOK, Places
    <3>3. handler'[r].pc = "reloaded"
      BY <1>a, <3>1 DEF HandlersOK
    <3> QED
      BY <3>2, <3>3 DEF IInv, OverrunNeedsRace
  <2> QED
    BY <1>4, <2>1, <2>2 DEF read_index, At
<1>5. ASSUME NEW r \in Reactors, write_sum(r) PROVE IInv'
  <2>1. /\ index' = handler[r].local /\ UNCHANGED received
        /\ handler' = [handler EXCEPT ![r] = [idle EXCEPT !.pc = "reload"]]
    BY <1>5 DEF write_sum, Goto, history
  <2>2. HandlersOK'
    BY <1>a, <2>1, IdleIsTyped DEF HandlersOK, Places
  <2>3. handler'[r].pc = "reload"
    BY <1>a, <2>1, IdleIsTyped DEF HandlersOK, Places
  <2> QED
    BY <2>2, <2>3 DEF IInv, OverrunNeedsRace
<1>6. ASSUME NEW r \in Reactors, write_remainder(r) PROVE IInv'
  <2>1. /\ index' = Remainder(handler[r].local) /\ UNCHANGED received
        /\ handler' = [handler EXCEPT ![r] = idle]
    BY <1>6 DEF write_remainder, history
  <2>2. index' \in Queues /\ index' \in Nat
    BY <1>a, <2>1, RemainderIsQueue DEF HandlersOK
  <2>3. HandlersOK'
    BY <1>a, <2>1, <2>2, IdleIsTyped DEF HandlersOK, Places
  <2> QED
    BY <2>2, <2>3 DEF IInv, OverrunNeedsRace
<1>7. ASSUME NEW q \in Queues, StoreThread(q) PROVE IInv'
  BY <1>7, <1>u DEF StoreThread, recv, thread_report, history
<1>8. ASSUME NEW r \in Reactors, connect_failed(r) PROVE IInv'
  BY <1>8, <1>u DEF connect_failed, threads, history
<1>9. CASE UNCHANGED vars
  BY <1>9, <1>u DEF vars, threads, history
<1> QED
  BY <1>1, <1>2, <1>3, <1>4, <1>5, <1>6, <1>7, <1>8, <1>9 DEF Next, Reactor

(* index is past the last queue only while some reactor thread is between  *)
(* the two statements of reporter_service.cpp that advance it.             *)
THEOREM OverrunTakesTwo == Spec => []OverrunNeedsRace
<1>1. IInv => OverrunNeedsRace
  BY DEF IInv
<1> QED
  BY <1>1, InitIInv, NextIInv, PTL DEF Spec

NeverOverrun == ended # "overrun"

(* A service with one reactor thread never indexes past the last queue,    *)
(* however many store threads it has.                                      *)
THEOREM OneReactorNeverOverruns ==
  ASSUME NEW R, Reactors = {R} PROVE Spec => []NeverOverrun
<1>1. Init => NeverOverrun
  BY DEF Init, NeverOverrun
<1>2. IInv /\ NeverOverrun /\ [Next]_vars => NeverOverrun'
  <2> SUFFICES ASSUME IInv, NeverOverrun, [Next]_vars PROVE NeverOverrun'
    OBVIOUS
  <2>1. ASSUME NEW r \in Reactors, send(r) PROVE NeverOverrun'
    <3>1. r = R /\ handler[R].pc = "store"
      BY <2>1 DEF send, At
    <3>2. index \in Queues
      BY <3>1 DEF IInv, OverrunNeedsRace
    <3> QED
      BY <2>1, <3>2 DEF send, NeverOverrun
  <2>2. ASSUME NEW r \in Reactors, Reactor(r) PROVE NeverOverrun'
    BY <2>1, <2>2 DEF Reactor, get_report_status, connect_failed, store, read_index,
                      write_sum, write_remainder, NeverOverrun
  <2>3. ASSUME NEW q \in Queues, StoreThread(q) PROVE NeverOverrun'
    BY <2>3 DEF StoreThread, recv, thread_report, NeverOverrun
  <2> QED
    BY <2>2, <2>3 DEF Next, vars, NeverOverrun
<1> QED
  BY <1>1, <1>2, InitIInv, NextIInv, PTL DEF Spec
-----------------------------------------------------------------------------
(* What follows is about the requests on their way: those a store thread   *)
(* has taken and those in its queue, in the order it stores them.          *)
Backlog(q) == work[q] \o reportQueues[q]

Storing(r) == handler[r].pc = "store"

(* A handler's request has not been stored before, and is its own.         *)
CountInv ==
  /\ \A r \in Reactors : Storing(r) =>
       /\ handler[r].req \in Items /\ handler[r].req.id <= received
       /\ done[handler[r].req.id] = 0
  /\ \A r, s \in Reactors :
       Storing(r) /\ Storing(s) /\ handler[r].req.id = handler[s].req.id => r = s
  /\ \A k \in Reports : k > received => done[k] = 0
  /\ \A q \in Queues : work[q] = << >> => store_row[q] = 1

(* A request in a backlog is there once and has been stored by its handler. *)
ItemInv ==
  /\ \A q \in Queues : \A m \in 1..Len(Backlog(q)) : done[Backlog(q)[m].id] = 1
  /\ \A p, q \in Queues : \A m \in 1..Len(Backlog(p)), n \in 1..Len(Backlog(q)) :
       Backlog(p)[m].id = Backlog(q)[n].id => p = q /\ m = n

StoreInv == IInv /\ TypeOK /\ CountInv /\ ItemInv
-----------------------------------------------------------------------------
LEMMA AppendBacklog ==
  ASSUME NEW S, NEW s \in Seq(S), NEW t \in Seq(S), NEW x \in S
  PROVE  /\ s \o Append(t, x) \in Seq(S) /\ s \o t \in Seq(S)
         /\ Len(s \o Append(t, x)) = Len(s \o t) + 1
         /\ \A m \in 1..Len(s \o t) : (s \o Append(t, x))[m] = (s \o t)[m]
         /\ (s \o Append(t, x))[Len(s \o t) + 1] = x
<1>1. /\ Append(t, x) \in Seq(S) /\ Len(Append(t, x)) = Len(t) + 1
      /\ Append(t, x)[Len(t) + 1] = x /\ \A m \in 1..Len(t) : Append(t, x)[m] = t[m]
  BY AppendProperties
<1>2. Len(s) \in Nat /\ Len(t) \in Nat
  OBVIOUS
<1>3. /\ s \o t \in Seq(S) /\ Len(s \o t) = Len(s) + Len(t)
      /\ \A m \in 1..Len(s)+Len(t) : (s \o t)[m] = IF m <= Len(s) THEN s[m] ELSE t[m - Len(s)]
  BY ConcatProperties
<1> DEFINE u == Append(t, x)
<1>4. /\ s \o u \in Seq(S) /\ Len(s \o u) = Len(s) + Len(u)
      /\ \A m \in 1..Len(s)+Len(u) : (s \o u)[m] = IF m <= Len(s) THEN s[m] ELSE u[m - Len(s)]
  BY <1>1, ConcatProperties
<1> HIDE DEF u
<1>5. \A m \in 1..Len(s)+Len(t) : (s \o u)[m] = (s \o t)[m]
  <2> SUFFICES ASSUME NEW m \in 1..Len(s)+Len(t) PROVE (s \o u)[m] = (s \o t)[m]
    OBVIOUS
  <2>1. CASE m <= Len(s)
    BY <1>1, <1>2, <1>3, <1>4, <2>1 DEF u
  <2>2. CASE ~(m <= Len(s))
    <3>1. m - Len(s) \in 1..Len(t) /\ m \in 1..Len(s)+Len(u)
      BY <1>1, <1>2, <2>2 DEF u
    <3>2. u[m - Len(s)] = t[m - Len(s)]
      BY <1>1, <3>1 DEF u
    <3> QED
      BY <1>3, <1>4, <2>2, <3>1, <3>2
  <2> QED
    BY <2>1, <2>2
<1>6. (s \o u)[Len(s) + Len(t) + 1] = x
  <2>1. Len(s) + Len(t) + 1 \in 1..Len(s)+Len(u) /\ Len(s) + Len(t) + 1 - Len(s) = Len(t) + 1
    BY <1>1, <1>2 DEF u
  <2> QED
    BY <1>1, <1>2, <1>4, <2>1 DEF u
<1>7. Len(s \o u) = Len(s \o t) + 1
  BY <1>1, <1>2, <1>3, <1>4 DEF u
<1> QED
  BY <1>3, <1>4, <1>5, <1>6, <1>7 DEF u

LEMMA TailBacklog ==
  ASSUME NEW S, NEW s \in Seq(S), NEW t \in Seq(S), s # << >>
  PROVE  /\ Tail(s) \o t \in Seq(S) /\ s \o t \in Seq(S)
         /\ (s \o t)[1] = Head(s) /\ Head(s) \in S /\ Len(s \o t) >= 1
         /\ Len(Tail(s) \o t) = Len(s \o t) - 1
         /\ \A m \in 1..Len(Tail(s) \o t) : (Tail(s) \o t)[m] = (s \o t)[m + 1]
<1> DEFINE u == Tail(s)
<1>1. /\ u \in Seq(S) /\ Len(u) = Len(s) - 1 /\ Head(s) = s[1] /\ Head(s) \in S
      /\ \A m \in 1..Len(u) : u[m] = s[m + 1]
      /\ Len(s) \in Nat /\ Len(s) >= 1 /\ Len(t) \in Nat
  BY HeadTailProperties, EmptySeq
<1> HIDE DEF u
<1>2. /\ s \o t \in Seq(S) /\ Len(s \o t) = Len(s) + Len(t)
      /\ \A m \in 1..Len(s)+Len(t) : (s \o t)[m] = IF m <= Len(s) THEN s[m] ELSE t[m - Len(s)]
  BY ConcatProperties
<1>3. /\ u \o t \in Seq(S) /\ Len(u \o t) = Len(u) + Len(t)
      /\ \A m \in 1..Len(u)+Len(t) : (u \o t)[m] = IF m <= Len(u) THEN u[m] ELSE t[m - Len(u)]
  BY <1>1, ConcatProperties
<1>4. (s \o t)[1] = Head(s)
  BY <1>1, <1>2
<1>5. ASSUME NEW m \in 1..Len(u)+Len(t) PROVE (u \o t)[m] = (s \o t)[m + 1]
  <2>1. m + 1 \in 1..Len(s)+Len(t)
    BY <1>1
  <2>2. CASE m <= Len(u)
    BY <1>1, <1>2, <1>3, <2>1, <2>2
  <2>3. CASE m > Len(u)
    <3>1. m + 1 - Len(s) = m - Len(u)
      BY <1>1
    <3> QED
      BY <1>1, <1>2, <1>3, <2>1, <2>3, <3>1
  <2> QED
    BY <1>1, <2>2, <2>3
<1> QED
  BY <1>1, <1>2, <1>3, <1>4, <1>5 DEF u

LEMMA ItemFacts ==
  ASSUME NEW it \in Items
  PROVE  /\ it.id \in Reports /\ it.id \in 0..MaxReports /\ it.id # 0
         /\ it.rows \in Seq(Keys) /\ Len(it.rows) \in Nat
         /\ Named(it) \subseteq Keys
         /\ \A i \in Nat \ {0} : i <= Len(it.rows) => it.rows[i] \in Named(it)
<1>1. it.id \in Reports /\ it.rows \in Requests
  BY DEF Items
<1>2. it.id \in 0..MaxReports /\ it.id # 0
  BY <1>1, ReporterAssumption DEF Reports
<1>3. it.rows \in Seq(Keys)
  BY <1>1, ReporterAssumption
<1> DEFINE s == it.rows
<1> HIDE DEF s
<1>4. /\ s \in Seq(Keys) => Len(s) \in Nat /\ DOMAIN s = 1..Len(s)
      /\ s \in Seq(Keys) => \A j \in 1..Len(s) : s[j] \in Keys
  OBVIOUS
<1>5. /\ Len(s) \in Nat /\ DOMAIN s = 1..Len(s) /\ \A j \in 1..Len(s) : s[j] \in Keys
  BY <1>3, <1>4 DEF s
<1>6. Named(it) = {s[j] : j \in 1..Len(s)}
  BY <1>5 DEF Named, s
<1>7. \A i \in Nat \ {0} : i <= Len(s) => i \in 1..Len(s)
  BY <1>5
<1> QED
  BY <1>1, <1>2, <1>3, <1>5, <1>6, <1>7 DEF s

LEMMA BacklogType ==
  ASSUME TypeOK, NEW q \in Queues
  PROVE  /\ Backlog(q) \in Seq(Items) /\ Len(Backlog(q)) \in Nat
         /\ \A m \in 1..Len(Backlog(q)) : Backlog(q)[m] \in Items
         /\ Len(Backlog(q)) = Len(work[q]) + Len(reportQueues[q])
<1>1. work[q] \in Seq(Items) /\ reportQueues[q] \in Seq(Items)
  BY DEF TypeOK
<1>2. Backlog(q) \in Seq(Items) /\ Len(Backlog(q)) = Len(work[q]) + Len(reportQueues[q])
  BY <1>1, ConcatProperties DEF Backlog
<1>3. \A s \in Seq(Items) : Len(s) \in Nat /\ \A m \in 1..Len(s) : s[m] \in Items
  OBVIOUS
<1> QED
  BY <1>2, <1>3

LEMMA EmptyBacklog ==
  ASSUME TypeOK, NEW q \in Queues, work[q] = << >>, reportQueues[q] = << >>
  PROVE  Len(Backlog(q)) = 0
<1>1. Len(Backlog(q)) = Len(work[q]) + Len(reportQueues[q])
  BY BacklogType
<1> QED
  BY <1>1

(* Taking a queue leaves its backlog as it is.                             *)
LEMMA RecvBacklog ==
  ASSUME TypeOK, NEW q \in Queues, recv(q)
  PROVE  /\ work' \in [Queues -> Seq(Items)] /\ reportQueues' \in [Queues -> Seq(Items)]
         /\ \A p \in Queues : Backlog(p)' = Backlog(p)
         /\ work'[q] # << >> /\ \A p \in Queues : p # q => work'[p] = work[p]
<1>1. /\ work[q] = << >> /\ reportQueues[q] # << >>
      /\ work' = [work EXCEPT ![q] = reportQueues[q]]
      /\ reportQueues' = [reportQueues EXCEPT ![q] = << >>]
  BY DEF recv, Taken, Left
<1>2. work \in [Queues -> Seq(Items)] /\ reportQueues \in [Queues -> Seq(Items)]
  BY DEF TypeOK
<1>3. << >> \in Seq(Items)
  OBVIOUS
<1>4. /\ work' \in [Queues -> Seq(Items)] /\ reportQueues' \in [Queues -> Seq(Items)]
      /\ work'[q] = reportQueues[q] /\ reportQueues'[q] = << >>
      /\ \A p \in Queues : p # q => work'[p] = work[p] /\ reportQueues'[p] = reportQueues[p]
  BY <1>1, <1>2, <1>3
<1>5. reportQueues[q] \o << >> = << >> \o reportQueues[q]
  BY <1>2, ConcatEmptySeq
<1>6. Backlog(q)' = Backlog(q)
  BY <1>1, <1>4, <1>5 DEF Backlog
<1>7. \A p \in Queues : p # q => Backlog(p)' = Backlog(p)
  BY <1>4 DEF Backlog
<1> QED
  BY <1>1, <1>4, <1>6, <1>7

LEMMA SendBacklog ==
  ASSUME TypeOK, NEW r \in Reactors, NEW q \in Queues, send(r), index = q,
         handler[r].req \in Items
  PROVE  /\ reportQueues' \in [Queues -> Seq(Items)] /\ UNCHANGED work
         /\ Len(Backlog(q)') = Len(Backlog(q)) + 1
         /\ \A m \in 1..Len(Backlog(q)) : Backlog(q)'[m] = Backlog(q)[m]
         /\ Backlog(q)'[Len(Backlog(q)) + 1] = handler[r].req
         /\ \A p \in Queues : p # q => Backlog(p)' = Backlog(p)
<1> DEFINE s == work[q]  t == reportQueues[q]  x == handler[r].req
<1>1. reportQueues' = [reportQueues EXCEPT ![q] = Append(@, x)] /\ UNCHANGED work
  BY DEF send
<1>2. s \in Seq(Items) /\ reportQueues \in [Queues -> Seq(Items)] /\ t \in Seq(Items) /\ x \in Items
  BY DEF TypeOK
<1>b. Backlog(q) = s \o t
  BY DEF Backlog
<1>w. s = work[q] /\ t = reportQueues[q] /\ x = handler[r].req
  OBVIOUS
<1> HIDE DEF s, t, x
<1>3. Append(t, x) \in Seq(Items)
  BY <1>2, AppendProperties
<1>4. /\ reportQueues' \in [Queues -> Seq(Items)]
      /\ reportQueues'[q] = Append(t, x)
      /\ \A p \in Queues : p # q => reportQueues'[p] = reportQueues[p]
  BY <1>1, <1>2, <1>3, <1>w
<1>5. Backlog(q)' = s \o Append(t, x)
  BY <1>1, <1>4, <1>w DEF Backlog
<1>6. \A p \in Queues : p # q => Backlog(p)' = Backlog(p)
  BY <1>1, <1>4 DEF Backlog
<1>8. /\ Len(s \o Append(t, x)) = Len(s \o t) + 1
      /\ \A m \in 1..Len(s \o t) : (s \o Append(t, x))[m] = (s \o t)[m]
      /\ (s \o Append(t, x))[Len(s \o t) + 1] = x
  BY <1>2, AppendBacklog
<1> QED
  BY <1>1, <1>4, <1>5, <1>6, <1>8, <1>b, <1>w

LEMMA UpsertStep ==
  ASSUME TypeOK, NEW it \in Items, NEW i \in Nat \ {0}, Upsert(it, i)
  PROVE  /\ table' \in [Keys -> 0..MaxReports] /\ errors' \in 0..MaxErrors
         /\ i <= Len(it.rows) /\ it.rows[i] \in Named(it) /\ it.rows[i] \in Keys
         /\ errors' = 0 => /\ errors = 0 /\ table'[it.rows[i]] = it.id
                           /\ \A x \in Keys : x # it.rows[i] => table'[x] = table[x]
<1>1. /\ table \in [Keys -> 0..MaxReports]
      /\ errors \in 0..MaxErrors /\ {MaxReports, MaxErrors} \subseteq Nat
  BY ReporterAssumption DEF TypeOK
<1>2. i <= Len(it.rows) /\ it.id \in 0..MaxReports
  BY ItemFacts DEF Upsert
<1>3. it.rows[i] \in Named(it) /\ it.rows[i] \in Keys
  BY <1>2, ItemFacts
<1> DEFINE y == it.rows[i]  k == it.id
<1>4. y \in Keys /\ k \in 0..MaxReports
  BY <1>2, <1>3
<1>5. CASE table' = [table EXCEPT ![y] = k] /\ UNCHANGED errors
  <2> HIDE DEF y, k
  <2>1. /\ table' \in [Keys -> 0..MaxReports] /\ table'[y] = k
        /\ \A x \in Keys : x # y => table'[x] = table[x]
    BY <1>1, <1>4, <1>5
  <2> QED
    BY <1>1, <1>2, <1>3, <1>5, <2>1 DEF y, k
<1>6. CASE errors < MaxErrors /\ errors' = errors + 1 /\ UNCHANGED table
  BY <1>1, <1>2, <1>3, <1>6
<1> QED
  BY <1>5, <1>6 DEF Upsert

LEMMA StoredStep ==
  ASSUME TypeOK, NEW it \in Items, NEW i, Stored(it, i), done[it.id] \in {0, 1}
  PROVE  /\ i > Len(it.rows) /\ done' \in [Reports -> 0..2]
         /\ done'[it.id] = done[it.id] + 1
         /\ \A k \in Reports : k # it.id => done'[k] = done[k]
<1> DEFINE n == it.id
<1>1. n \in Reports /\ done \in [Reports -> 0..2] /\ done[n] \in {0, 1}
  BY ItemFacts DEF TypeOK
<1>2. done' = [done EXCEPT ![n] = @ + 1] /\ i > Len(it.rows)
  BY DEF Stored
<1> HIDE DEF n
<1>3. /\ done' \in [Reports -> 0..2] /\ done'[n] = done[n] + 1
      /\ \A k \in Reports : k # n => done'[k] = done[k]
  BY <1>1, <1>2
<1> QED
  BY <1>2, <1>3 DEF n

LEMMA ReportBacklog ==
  ASSUME TypeOK, CountInv, NEW q \in Queues, thread_report(q)
  PROVE  /\ Len(Backlog(q)) >= 1 /\ Backlog(q)[1] \in Items
         /\ store_row[q] \in Nat \ {0}
         /\ work' \in [Queues -> Seq(Items)] /\ store_row' \in [Queues -> Nat \ {0}]
         /\ UNCHANGED <<reportQueues, index, ended, handler, received, last>>
         /\ \A p \in Queues : p # q => Backlog(p)' = Backlog(p) /\ store_row'[p] = store_row[p]
         /\ \A p \in Queues : work'[p] = << >> => store_row'[p] = 1
         /\ \/ /\ Upsert(Backlog(q)[1], store_row[q]) /\ store_row'[q] = store_row[q] + 1
               /\ Backlog(q)' = Backlog(q) /\ UNCHANGED done
            \/ /\ Stored(Backlog(q)[1], store_row[q]) /\ store_row'[q] = 1
               /\ Len(Backlog(q)') = Len(Backlog(q)) - 1
               /\ \A m \in 1..Len(Backlog(q)') : Backlog(q)'[m] = Backlog(q)[m + 1]
               /\ UNCHANGED tables
<1> DEFINE
      Row == /\ Upsert(Head(work[q]), store_row[q])
             /\ store_row' = [store_row EXCEPT ![q] = @ + 1]
             /\ UNCHANGED <<work, done>>
      Pop == /\ Stored(Head(work[q]), store_row[q])
             /\ store_row' = [store_row EXCEPT ![q] = 1]
             /\ work' = [work EXCEPT ![q] = Tail(@)]
             /\ UNCHANGED tables
<1>1. /\ work[q] # << >> /\ (Row \/ Pop)
      /\ UNCHANGED <<reportQueues, index, ended, handler, received, last>>
  BY DEF thread_report
<1>2. /\ work \in [Queues -> Seq(Items)] /\ reportQueues \in [Queues -> Seq(Items)]
      /\ store_row \in [Queues -> Nat \ {0}]
      /\ \A p \in Queues : work[p] = << >> => store_row[p] = 1
  BY DEF TypeOK, CountInv
<1> DEFINE s == work[q]  t == reportQueues[q]
<1>3. s \in Seq(Items) /\ t \in Seq(Items) /\ s # << >> /\ Tail(s) \in Seq(Items)
  BY <1>1, <1>2, HeadTailProperties
<1> HIDE DEF s, t
<1>4. /\ (s \o t)[1] = Head(s) /\ Head(s) \in Items /\ Len(s \o t) >= 1
      /\ Len(Tail(s) \o t) = Len(s \o t) - 1
      /\ \A m \in 1..Len(Tail(s) \o t) : (Tail(s) \o t)[m] = (s \o t)[m + 1]
  BY <1>3, TailBacklog
<1>5. Backlog(q) = s \o t /\ s = work[q] /\ t = reportQueues[q]
  BY DEF Backlog, s, t
<1>6. CASE Row
  <2>1. /\ store_row' \in [Queues -> Nat \ {0}] /\ store_row'[q] = store_row[q] + 1
        /\ \A p \in Queues : p # q => store_row'[p] = store_row[p]
    BY <1>2, <1>6
  <2>2. \A p \in Queues : Backlog(p)' = Backlog(p)
    BY <1>1, <1>6 DEF Backlog
  <2>3. \A p \in Queues : work'[p] = << >> => store_row'[p] = 1
    BY <1>1, <1>2, <1>6, <2>1
  <2>4. /\ Upsert(Backlog(q)[1], store_row[q]) /\ UNCHANGED done
        /\ work' \in [Queues -> Seq(Items)] /\ store_row[q] \in Nat \ {0}
        /\ Len(Backlog(q)) >= 1 /\ Backlog(q)[1] \in Items
    BY <1>2, <1>4, <1>5, <1>6
  <2> HIDE DEF Row, Pop
  <2> QED
    BY <1>1, <2>1, <2>2, <2>3, <2>4
<1>7. CASE Pop
  <2>1. /\ store_row' \in [Queues -> Nat \ {0}] /\ store_row'[q] = 1
        /\ \A p \in Queues : p # q => store_row'[p] = store_row[p]
    BY <1>2, <1>7
  <2>2. /\ work' \in [Queues -> Seq(Items)] /\ work'[q] = Tail(s)
        /\ \A p \in Queues : p # q => work'[p] = work[p]
    BY <1>2, <1>3, <1>5, <1>7
  <2>3. Backlog(q)' = Tail(s) \o t
    BY <1>1, <1>5, <2>2 DEF Backlog
  <2>4. \A p \in Queues : p # q => Backlog(p)' = Backlog(p)
    BY <1>1, <2>2 DEF Backlog
  <2>5. \A p \in Queues : work'[p] = << >> => store_row'[p] = 1
    BY <1>2, <2>1, <2>2
  <2> QED
    BY <1>1, <1>2, <1>4, <1>5, <1>7, <2>1, <2>2, <2>3, <2>4, <2>5
<1> QED
  BY <1>1, <1>6, <1>7
-----------------------------------------------------------------------------
(* TypeOK without what IInv says of the handlers.                          *)
DataOK ==
  /\ table \in [Keys -> 0..MaxReports] /\ errors \in 0..MaxErrors
  /\ ended \in {"no", "exit", "overrun"}
  /\ reportQueues \in [Queues -> Seq(Items)] /\ work \in [Queues -> Seq(Items)]
  /\ store_row \in [Queues -> Nat \ {0}]
  /\ done \in [Reports -> 0..2] /\ last \in [Queues -> [Keys -> 0..MaxReports]]

LEMMA TypeParts == TypeOK <=> DataOK /\ HandlersOK
BY DEF TypeOK, DataOK, HandlersOK, Places

LEMMA TypePartsNext == DataOK' /\ HandlersOK' => TypeOK'
BY DEF TypeOK, DataOK, HandlersOK, Places

LEMMA InitStoreInv == Init => StoreInv
<1> SUFFICES ASSUME Init PROVE StoreInv
  OBVIOUS
<1>1. << >> \in Seq(Items) /\ << >> \o << >> = << >> /\ 0 \in 0..MaxReports /\ 1 \in Nat \ {0}
  BY ConcatEmptySeq, ReporterAssumption
<1>2. DataOK
  BY <1>1, ReporterAssumption DEF Init, DataOK
<1>3. IInv /\ TypeOK
  BY <1>2, InitIInv, TypeParts DEF IInv
<1>4. CountInv
  BY DEF Init, CountInv, Storing, idle
<1>5. ASSUME NEW q \in Queues PROVE Len(Backlog(q)) = 0
  BY <1>3, EmptyBacklog DEF Init
<1>6. \A q \in Queues : 1..Len(Backlog(q)) = {}
  BY <1>5
<1>7. ItemInv
  BY <1>6 DEF ItemInv
<1> QED
  BY <1>3, <1>4, <1>7 DEF StoreInv

(* The requests being stored by handlers, the backlogs and the counts      *)
(* stay as they are.                                                       *)
SameRequests ==
  /\ UNCHANGED <<reportQueues, work, store_row, history>>
  /\ \A s \in Reactors : handler[s].pc = "store" <=> handler'[s].pc = "store"
  /\ \A s \in Reactors : handler[s].pc = "store" => handler'[s].req = handler[s].req

LEMMA SameRequestsKeep ==
  ASSUME StoreInv, IInv', SameRequests, ended' \in {"no", "exit", "overrun"},
         table' \in [Keys -> 0..MaxReports], errors' \in 0..MaxErrors
  PROVE  StoreInv'
<1>1. /\ TypeOK /\ CountInv /\ ItemInv
      /\ UNCHANGED <<reportQueues, work, store_row, received, done, last>>
      /\ \A s \in Reactors : Storing(s) <=> Storing(s)'
      /\ \A s \in Reactors : Storing(s) => handler'[s].req = handler[s].req
  BY DEF StoreInv, SameRequests, history, Storing
<1>2. DataOK'
  BY <1>1, TypeParts DEF DataOK
<1>3. TypeOK'
  BY <1>2, TypePartsNext DEF IInv
<1>4. CountInv'
  BY <1>1 DEF CountInv
<1>5. \A q \in Queues : Backlog(q)' = Backlog(q)
  BY <1>1 DEF Backlog
<1>6. ItemInv'
  BY <1>1, <1>5 DEF ItemInv
<1> QED
  BY <1>3, <1>4, <1>6 DEF StoreInv

(* Reading and writing the index, a connect that fails, a stutter.         *)
LEMMA IndexStep ==
  ASSUME StoreInv, NEW r \in Reactors,
         read_index(r) \/ write_sum(r) \/ write_remainder(r) \/ connect_failed(r)
  PROVE  /\ SameRequests /\ UNCHANGED tables
         /\ ended' = ended \/ ended' = "exit"
<1>1. /\ UNCHANGED <<tables, reportQueues, work, store_row, history>>
      /\ ended' = ended \/ ended' = "exit"
  BY DEF read_index, write_sum, write_remainder, connect_failed, threads, history
<1>2. handler \in [Reactors -> [pc : Places, req : Items \cup {none}, i : Nat \ {0}, local : Nat]]
  BY DEF StoreInv, IInv, HandlersOK
<1>3. \/ UNCHANGED handler
      \/ /\ handler[r].pc # "store" /\ handler'[r].pc # "store"
         /\ \A s \in Reactors : s # r => handler'[s] = handler[s]
  <2>1. CASE read_index(r)
    BY <1>2, <2>1 DEF read_index, At
  <2>2. CASE write_sum(r)
    <3>1. /\ handler[r].pc = "incremented"
          /\ handler' = [handler EXCEPT ![r] = [idle EXCEPT !.pc = "reload"]]
      BY <2>2 DEF write_sum, At, Goto
    <3>2. [idle EXCEPT !.pc = "reload"].pc = "reload"
      BY IdleIsTyped DEF Places
    <3> QED
      BY <1>2, <3>1, <3>2
  <2>3. CASE write_remainder(r)
    <3>1. /\ handler[r].pc \in {"incremented", "reloaded"}
          /\ handler' = [handler EXCEPT ![r] = idle]
      BY <2>3 DEF write_remainder, At
    <3> QED
      BY <1>2, <3>1 DEF idle
  <2>4. CASE connect_failed(r)
    BY <2>4 DEF connect_failed, threads
  <2> QED
    BY <2>1, <2>2, <2>3, <2>4
<1> QED
  BY <1>1, <1>3 DEF SameRequests

LEMMA StoreStep ==
  ASSUME StoreInv, NEW r \in Reactors, store(r)
  PROVE  /\ SameRequests /\ UNCHANGED ended /\ Storing(r)
         /\ handler[r].req \in Items /\ handler[r].i \in Nat \ {0}
         /\ Upsert(handler[r].req, handler[r].i)
<1>1. /\ handler[r].pc = "store" /\ Upsert(handler[r].req, handler[r].i)
      /\ UNCHANGED <<reportQueues, ended, work, store_row, history>>
      /\ handler' = [handler EXCEPT ![r].i = @ + 1]
  BY DEF store, At
<1>2. handler \in [Reactors -> [pc : Places, req : Items \cup {none}, i : Nat \ {0}, local : Nat]]
  BY DEF StoreInv, IInv, HandlersOK
<1>3. handler[r].req \in Items /\ handler[r].i \in Nat \ {0}
  BY <1>1, <1>2 DEF StoreInv, CountInv, Storing
<1>4. SameRequests
  BY <1>1, <1>2 DEF SameRequests
<1> QED
  BY <1>1, <1>3, <1>4 DEF Storing

LEMMA ArrivalStoreInv ==
  ASSUME StoreInv, IInv', NEW r \in Reactors, get_report_status(r)
  PROVE  StoreInv'
<1>1. UNCHANGED <<tables, reportQueues, ended, work, store_row, done, last>>
  BY DEF get_report_status
<1>2. PICK rows \in Requests :
        /\ [id |-> received + 1, rows |-> rows] \in Items
        /\ received + 1 \in Reports /\ received' = received + 1
        /\ handler[r].pc = "idle" /\ handler'[r].pc = "store"
        /\ handler'[r].req = [id |-> received + 1, rows |-> rows]
        /\ \A s \in Reactors : s # r => handler'[s] = handler[s]
  BY NewHandler DEF StoreInv, IInv
<1>3. /\ TypeOK /\ CountInv /\ ItemInv /\ received \in Nat
      /\ \A k \in Reports : k \in Int
  BY TypeParts, ReporterAssumption DEF StoreInv, HandlersOK, Reports
<1>4. TypeOK'
  BY <1>1, <1>3, TypeParts, TypePartsNext DEF IInv, DataOK, tables
<1>5. handler'[r].req \in Items /\ handler'[r].req.id = received + 1
  BY <1>2
<1>6. ASSUME NEW s \in Reactors, s # r, Storing(s)'
      PROVE  /\ Storing(s) /\ handler'[s].req = handler[s].req /\ handler[s].req \in Items
             /\ handler[s].req.id <= received /\ done[handler[s].req.id] = 0
             /\ handler[s].req.id \in Int
  <2>1. Storing(s) /\ handler'[s].req = handler[s].req
    BY <1>2, <1>6 DEF Storing
  <2> QED
    BY <1>3, <2>1, ItemFacts DEF CountInv
<1>7. ASSUME NEW s \in Reactors, Storing(s)'
      PROVE  handler'[s].req \in Items /\ handler'[s].req.id <= received' /\ done'[handler'[s].req.id] = 0
  <2>1. CASE s = r
    <3>1. received + 1 > received /\ done[received + 1] = 0
      BY <1>2, <1>3 DEF CountInv
    <3> QED
      BY <1>1, <1>2, <1>3, <1>5, <2>1, <3>1
  <2>2. CASE s # r
    <3> HIDE DEF CountInv
    <3>1. /\ handler'[s].req = handler[s].req /\ handler[s].req \in Items
          /\ handler[s].req.id <= received /\ done[handler[s].req.id] = 0
          /\ handler[s].req.id \in Int
      BY <1>6, <1>7, <2>2
    <3> QED
      BY <1>1, <1>2, <1>3, <3>1
  <2> QED
    BY <2>1, <2>2
<1>8. ASSUME NEW s \in Reactors, NEW t \in Reactors, Storing(s)', Storing(t)',
             handler'[s].req.id = handler'[t].req.id
      PROVE  s = t
  <2>1. ASSUME NEW u \in Reactors, u # r, Storing(u)' PROVE handler'[u].req.id # received + 1
    BY <1>3, <1>6, <2>1
  <2>2. CASE s # r /\ t # r
    <3>1. Storing(s) /\ handler'[s].req = handler[s].req
      BY <1>6, <1>8, <2>2
    <3>2. Storing(t) /\ handler'[t].req = handler[t].req
      BY <1>6, <1>8, <2>2
    <3> QED
      BY <1>3, <1>8, <3>1, <3>2 DEF CountInv
  <2> QED
    BY <1>5, <1>8, <2>1, <2>2
<1>9. ASSUME NEW k \in Reports, k > received' PROVE done'[k] = 0
  BY <1>1, <1>2, <1>3, <1>9 DEF CountInv
<1>10. CountInv'
  BY <1>1, <1>3, <1>7, <1>8, <1>9 DEF CountInv
<1>11. \A q \in Queues : Backlog(q)' = Backlog(q)
  BY <1>1 DEF Backlog
<1>12. ItemInv'
  BY <1>1, <1>3, <1>11 DEF ItemInv
<1> QED
  BY <1>4, <1>10, <1>12 DEF StoreInv

(* A handler hands its request over: what does not depend on the index.    *)
LEMMA SendStep ==
  ASSUME StoreInv, NEW r \in Reactors, send(r)
  PROVE  /\ Storing(r) /\ ~Storing(r)' /\ handler[r].req \in Items
         /\ \A s \in Reactors : s # r => handler'[s] = handler[s]
         /\ UNCHANGED <<table, errors, index, work, store_row, received>>
         /\ done' \in [Reports -> 0..2] /\ done'[handler[r].req.id] = 1
         /\ \A k \in Reports : k # handler[r].req.id => done'[k] = done[k]
         /\ index \in Queues => ended' = ended
         /\ index \notin Queues => ended' = "overrun" /\ UNCHANGED <<reportQueues, last>>
<1>1. /\ handler[r].pc = "store" /\ Stored(handler[r].req, handler[r].i)
      /\ handler' = [handler EXCEPT ![r] = [idle EXCEPT !.pc = "increment"]]
      /\ UNCHANGED <<table, errors, index, work, store_row, received>>
      /\ index \in Queues => ended' = ended
      /\ index \notin Queues => ended' = "overrun" /\ UNCHANGED <<reportQueues, last>>
  BY DEF send, At, Goto, tables
<1>2. handler \in [Reactors -> [pc : Places, req : Items \cup {none}, i : Nat \ {0}, local : Nat]]
  BY DEF StoreInv, IInv, HandlersOK
<1>3. handler[r].req \in Items /\ done[handler[r].req.id] = 0
  BY <1>1 DEF StoreInv, CountInv, Storing
<1>4. /\ done' \in [Reports -> 0..2] /\ done'[handler[r].req.id] = 1
      /\ \A k \in Reports : k # handler[r].req.id => done'[k] = done[k]
  BY <1>1, <1>3, StoredStep DEF StoreInv
<1>5. [idle EXCEPT !.pc = "increment"].pc = "increment"
  BY IdleIsTyped DEF Places
<1>6. handler'[r].pc = "increment" /\ \A s \in Reactors : s # r => handler'[s] = handler[s]
  BY <1>1, <1>2, <1>5
<1> QED
  BY <1>1, <1>3, <1>4, <1>6 DEF Storing

(* The history of the queue the request goes to.                           *)
LEMMA LastStep ==
  ASSUME StoreInv, NEW r \in Reactors, NEW q \in Queues, send(r), index = q
  PROVE  /\ last' \in [Queues -> [Keys -> 0..MaxReports]]
         /\ \A x \in Keys : last'[q][x] = IF x \in Named(handler[r].req)
                                          THEN handler[r].req.id ELSE last[q][x]
         /\ \A p \in Queues : p # q => last'[p] = last[p]
<1> DEFINE k == handler[r].req.id  N == Named(handler[r].req)
           row == [x \in Keys |-> IF x \in N THEN k ELSE last[q][x]]
<1>1. last' = [last EXCEPT ![q] = row]
  BY DEF send
<1>2. k \in 0..MaxReports
  BY SendStep, ItemFacts
<1>3. last \in [Queues -> [Keys -> 0..MaxReports]]
  BY DEF StoreInv, TypeOK
<1> HIDE DEF k, N
<1>4. row \in [Keys -> 0..MaxReports] /\ \A x \in Keys : row[x] = IF x \in N THEN k ELSE last[q][x]
  BY <1>2, <1>3
<1> HIDE DEF row
<1>5. /\ last' \in [Queues -> [Keys -> 0..MaxReports]] /\ last'[q] = row
      /\ \A p \in Queues : p # q => last'[p] = last[p]
  BY <1>1, <1>3, <1>4
<1> QED
  BY <1>4, <1>5 DEF k, N

LEMMA SendStoreInv ==
  ASSUME StoreInv, IInv', NEW r \in Reactors, send(r)
  PROVE  StoreInv'
<1> DEFINE it == handler[r].req
<1>1. /\ Storing(r) /\ ~Storing(r)' /\ it \in Items
      /\ \A s \in Reactors : s # r => handler'[s] = handler[s]
      /\ UNCHANGED <<table, errors, index, work, store_row, received>>
      /\ done' \in [Reports -> 0..2] /\ done'[it.id] = 1
      /\ \A k \in Reports : k # it.id => done'[k] = done[k]
  BY SendStep
<1>2. TypeOK /\ CountInv /\ ItemInv /\ it.id \in Reports
  BY <1>1, ItemFacts DEF StoreInv
<1>3. done[it.id] = 0 /\ it.id <= received
  BY <1>1, <1>2 DEF CountInv
<1>4. CountInv'
  <2>1. ASSUME NEW s \in Reactors, Storing(s)'
        PROVE  Storing(s) /\ s # r /\ handler'[s].req = handler[s].req
    BY <1>1, <2>1 DEF Storing
  <2>2. ASSUME NEW s \in Reactors, Storing(s)'
        PROVE  /\ handler'[s].req \in Items /\ handler'[s].req.id <= received'
               /\ done'[handler'[s].req.id] = 0
    <3>1. /\ handler[s].req \in Items /\ handler[s].req.id <= received
          /\ done[handler[s].req.id] = 0 /\ handler[s].req.id # it.id
      BY <1>1, <1>2, <2>1, <2>2 DEF CountInv
    <3>2. handler[s].req.id \in Reports
      BY <3>1, ItemFacts
    <3> QED
      BY <1>1, <2>1, <2>2, <3>1, <3>2
  <2>3. ASSUME NEW s \in Reactors, NEW t \in Reactors, Storing(s)', Storing(t)',
               handler'[s].req.id = handler'[t].req.id
        PROVE  s = t
    BY <1>2, <2>1, <2>3 DEF CountInv
  <2>4. ASSUME NEW k \in Reports, k > received' PROVE done'[k] = 0
    <3>1. received \in 0..MaxReports /\ it.id \in 1..MaxReports /\ k \in 1..MaxReports
      BY <1>2, TypeParts DEF HandlersOK, Reports
    <3>2. MaxReports \in Nat
      BY ReporterAssumption
    <3>3. k # it.id
      BY <1>1, <1>3, <2>4, <3>1, <3>2
    <3> QED
      BY <1>1, <1>2, <2>4, <3>3 DEF CountInv
  <2> QED
    BY <1>1, <1>2, <2>2, <2>3, <2>4 DEF CountInv
<1>o. ASSUME NEW q \in Queues, NEW m \in 1..Len(Backlog(q))
      PROVE  done'[Backlog(q)[m].id] = 1 /\ Backlog(q)[m].id # it.id
  <2>1. Backlog(q)[m] \in Items /\ done[Backlog(q)[m].id] = 1
    BY <1>2, BacklogType DEF ItemInv
  <2>2. Backlog(q)[m].id \in Reports
    BY <2>1, ItemFacts
  <2> QED
    BY <1>1, <1>3, <2>1, <2>2
<1>5. CASE index \notin Queues
  <2>1. ended' = "overrun" /\ UNCHANGED <<reportQueues, last>>
    BY <1>5, SendStep
  <2>2. TypeOK'
    BY <1>1, <1>2, <2>1, TypeParts, TypePartsNext DEF IInv, DataOK
  <2>3. \A q \in Queues : Backlog(q)' = Backlog(q)
    BY <1>1, <2>1 DEF Backlog
  <2>4. ItemInv'
    BY <1>2, <1>o, <2>3 DEF ItemInv
  <2> QED
    BY <1>4, <2>2, <2>4 DEF StoreInv
<1>6. CASE index \in Queues
  <2>0. PICK o \in Queues : o = index
    BY <1>6
  <2>1. /\ reportQueues' \in [Queues -> Seq(Items)]
        /\ Len(Backlog(o)') = Len(Backlog(o)) + 1
        /\ \A m \in 1..Len(Backlog(o)) : Backlog(o)'[m] = Backlog(o)[m]
        /\ Backlog(o)'[Len(Backlog(o)) + 1] = it
        /\ \A p \in Queues : p # o => Backlog(p)' = Backlog(p)
    BY <1>1, <1>2, <2>0, SendBacklog
  <2>2. ended' = ended /\ last' \in [Queues -> [Keys -> 0..MaxReports]]
    BY <1>6, <2>0, LastStep, SendStep
  <2>3. TypeOK'
    BY <1>1, <1>2, <2>1, <2>2, TypeParts, TypePartsNext DEF IInv, DataOK
  <2>4. Len(Backlog(o)) \in Nat
    BY <1>2, BacklogType
  <2>5. ASSUME NEW q \in Queues, NEW m \in 1..Len(Backlog(q)')
        PROVE  \/ m \in 1..Len(Backlog(q)) /\ Backlog(q)'[m] = Backlog(q)[m]
               \/ q = o /\ m = Len(Backlog(o)) + 1 /\ Backlog(q)'[m] = it
    <3>1. CASE q # o
      BY <2>1, <3>1
    <3>2. CASE q = o
      <4>1. m \in 1..Len(Backlog(o)) \/ m = Len(Backlog(o)) + 1
        BY <2>1, <2>4, <3>2
      <4> QED
        BY <2>1, <3>2, <4>1
    <3> QED
      BY <3>1, <3>2
  <2>6. \A q \in Queues : \A m \in 1..Len(Backlog(q)') : done'[Backlog(q)'[m].id] = 1
    BY <1>1, <1>o, <2>5
  <2>7. ASSUME NEW p \in Queues, NEW q \in Queues,
               NEW m \in 1..Len(Backlog(p)'), NEW n \in 1..Len(Backlog(q)'),
               Backlog(p)'[m].id = Backlog(q)'[n].id
        PROVE  p = q /\ m = n
    <3>1. CASE m \in 1..Len(Backlog(p)) /\ Backlog(p)'[m] = Backlog(p)[m]
      <4>1. Backlog(p)'[m].id # it.id
        BY <1>o, <3>1
      <4>2. n \in 1..Len(Backlog(q)) /\ Backlog(q)'[n] = Backlog(q)[n]
        BY <2>5, <2>7, <4>1
      <4>3. Backlog(p)[m].id = Backlog(q)[n].id
        BY <2>7, <3>1, <4>2
      <4> QED
        BY <1>2, <3>1, <4>2, <4>3 DEF ItemInv
    <3>2. CASE p = o /\ m = Len(Backlog(o)) + 1 /\ Backlog(p)'[m] = it
      <4>1. ~(n \in 1..Len(Backlog(q)) /\ Backlog(q)'[n] = Backlog(q)[n])
        BY <1>o, <2>7, <3>2
      <4>2. q = o /\ n = Len(Backlog(o)) + 1
        BY <2>5, <4>1
      <4> QED
        BY <3>2, <4>2
    <3> QED
      BY <2>5, <3>1, <3>2
  <2>8. ItemInv'
    BY <2>6, <2>7 DEF ItemInv
  <2> QED
    BY <1>4, <2>3, <2>8 DEF StoreInv
<1> QED
  BY <1>5, <1>6

LEMMA RecvStoreInv ==
  ASSUME StoreInv, IInv', NEW q \in Queues, recv(q)
  PROVE  StoreInv'
<1>1. /\ work' \in [Queues -> Seq(Items)] /\ reportQueues' \in [Queues -> Seq(Items)]
      /\ \A p \in Queues : Backlog(p)' = Backlog(p)
      /\ work'[q] # << >> /\ \A p \in Queues : p # q => work'[p] = work[p]
  BY RecvBacklog DEF StoreInv
<1>2. UNCHANGED <<table, errors, ended, handler, store_row, received, done, last>>
  BY DEF recv, tables, history
<1>3. TypeOK /\ CountInv /\ ItemInv
  BY DEF StoreInv
<1>4. TypeOK'
  BY <1>1, <1>2, <1>3, TypeParts, TypePartsNext DEF IInv, DataOK
<1>5. CountInv'
  BY <1>1, <1>2, <1>3 DEF CountInv, Storing
<1>6. ItemInv'
  BY <1>1, <1>2, <1>3 DEF ItemInv
<1> QED
  BY <1>4, <1>5, <1>6 DEF StoreInv

LEMMA ReportStoreInv ==
  ASSUME StoreInv, IInv', NEW q \in Queues, thread_report(q)
  PROVE  StoreInv'
<1> DEFINE it == Backlog(q)[1]  i == store_row[q]
<1>1. TypeOK /\ CountInv /\ ItemInv
  BY DEF StoreInv
<1>2. /\ Len(Backlog(q)) >= 1 /\ it \in Items /\ i \in Nat \ {0}
      /\ work' \in [Queues -> Seq(Items)] /\ store_row' \in [Queues -> Nat \ {0}]
      /\ UNCHANGED <<reportQueues, index, ended, handler, received, last>>
      /\ \A p \in Queues : p # q => Backlog(p)' = Backlog(p)
      /\ \A p \in Queues : work'[p] = << >> => store_row'[p] = 1
      /\ \/ /\ Upsert(it, i) /\ Backlog(q)' = Backlog(q) /\ UNCHANGED done
         \/ /\ Stored(it, i) /\ Len(Backlog(q)') = Len(Backlog(q)) - 1
            /\ \A m \in 1..Len(Backlog(q)') : Backlog(q)'[m] = Backlog(q)[m + 1]
            /\ UNCHANGED tables
  BY <1>1, ReportBacklog
<1>3. Len(Backlog(q)) \in Nat /\ 1 \in 1..Len(Backlog(q)) /\ it.id \in Reports
  <2>1. Len(Backlog(q)) \in Nat
    BY <1>1, BacklogType
  <2> QED
    BY <1>2, <2>1, ItemFacts
<1> HIDE DEF it, i
<1>4. CASE Upsert(it, i) /\ Backlog(q)' = Backlog(q) /\ UNCHANGED done
  <2>1. table' \in [Keys -> 0..MaxReports] /\ errors' \in 0..MaxErrors
    BY <1>1, <1>2, <1>4, UpsertStep
  <2>2. TypeOK'
    BY <1>1, <1>2, <1>4, <2>1, TypeParts, TypePartsNext DEF IInv, DataOK
  <2>3. CountInv'
    BY <1>1, <1>2, <1>4 DEF CountInv, Storing
  <2>4. \A p \in Queues : Backlog(p)' = Backlog(p)
    BY <1>2, <1>4
  <2>5. ItemInv'
    BY <1>1, <1>4, <2>4 DEF ItemInv
  <2> QED
    BY <2>2, <2>3, <2>5 DEF StoreInv
<1>5. CASE /\ Stored(it, i) /\ Len(Backlog(q)') = Len(Backlog(q)) - 1
           /\ \A m \in 1..Len(Backlog(q)') : Backlog(q)'[m] = Backlog(q)[m + 1]
           /\ UNCHANGED tables
  <2>1. done[it.id] = 1
    BY <1>1, <1>3 DEF ItemInv, it
  <2>2. /\ done' \in [Reports -> 0..2]
        /\ \A k \in Reports : k # it.id => done'[k] = done[k]
    BY <1>1, <1>2, <1>5, <2>1, StoredStep
  <2>3. TypeOK'
    BY <1>1, <1>2, <1>5, <2>2, TypeParts, TypePartsNext DEF IInv, DataOK, tables
  <2>4. \A k \in Reports : done[k] = 0 => done'[k] = 0
    BY <2>1, <2>2
  <2>5. \A s \in Reactors : Storing(s) => handler[s].req.id \in Reports
    BY <1>1, ItemFacts DEF CountInv
  <2>6. CountInv'
    BY <1>1, <1>2, <2>4, <2>5 DEF CountInv, Storing
  (* Where a waiting request was before the first of q was finished. *)
  <2> DEFINE Before(p, m) == IF p = q THEN m + 1 ELSE m
  <2>7. ASSUME NEW p \in Queues, NEW m \in 1..Len(Backlog(p)')
        PROVE  /\ Before(p, m) \in 1..Len(Backlog(p)) /\ Backlog(p)'[m] = Backlog(p)[Before(p, m)]
               /\ m \in Int /\ ~(p = q /\ Before(p, m) = 1)
    <3>1. CASE p = q
      <4>1. m \in 1..Len(Backlog(q))-1 /\ m + 1 \in 1..Len(Backlog(q)) /\ m + 1 # 1
        BY <1>3, <1>5, <3>1
      <4> QED
        BY <1>5, <3>1, <4>1
    <3>2. CASE p # q
      BY <1>2, <3>2
    <3> QED
      BY <3>1, <3>2
  <2> HIDE DEF Before
  <2>8. ASSUME NEW p \in Queues, NEW m \in 1..Len(Backlog(p)')
        PROVE  done'[Backlog(p)'[m].id] = 1
    <3>1. Before(p, m) \in 1..Len(Backlog(p)) /\ Backlog(p)'[m] = Backlog(p)[Before(p, m)]
      BY <2>7
    <3>2. Backlog(p)[Before(p, m)].id # it.id
      BY <1>1, <1>3, <2>7 DEF ItemInv, it
    <3>3. Backlog(p)[Before(p, m)] \in Items
      BY <1>1, <3>1, BacklogType
    <3>4. Backlog(p)[Before(p, m)].id \in Reports
      BY <3>3, ItemFacts
    <3> QED
      BY <1>1, <2>2, <3>1, <3>2, <3>4 DEF ItemInv
  <2>9. ASSUME NEW p \in Queues, NEW t \in Queues,
               NEW m \in 1..Len(Backlog(p)'), NEW n \in 1..Len(Backlog(t)'),
               Backlog(p)'[m].id = Backlog(t)'[n].id
        PROVE  p = t /\ m = n
    <3>1. p = t /\ Before(p, m) = Before(t, n)
      BY <1>1, <2>7, <2>9 DEF ItemInv
    <3>2. m \in Int /\ n \in Int
      BY <2>7
    <3> QED
      BY <3>1, <3>2 DEF Before
  <2>10. ItemInv'
    BY <2>8, <2>9 DEF ItemInv
  <2> QED
    BY <2>3, <2>6, <2>10 DEF StoreInv
<1> QED
  BY <1>2, <1>4, <1>5

LEMMA NextStoreInv == StoreInv /\ [Next]_vars => StoreInv'
<1> SUFFICES ASSUME StoreInv, [Next]_vars PROVE StoreInv'
  OBVIOUS
<1>1. IInv'
  BY NextIInv DEF StoreInv
<1>2. DataOK
  BY TypeParts DEF StoreInv
<1>3. ASSUME NEW r \in Reactors,
             read_index(r) \/ write_sum(r) \/ write_remainder(r) \/ connect_failed(r)
      PROVE  StoreInv'
  BY <1>1, <1>2, <1>3, IndexStep, SameRequestsKeep DEF DataOK, tables
<1>4. ASSUME NEW r \in Reactors, store(r) PROVE StoreInv'
  <2>1. /\ SameRequests /\ UNCHANGED ended /\ handler[r].req \in Items
        /\ handler[r].i \in Nat \ {0} /\ Upsert(handler[r].req, handler[r].i)
    BY <1>4, StoreStep
  <2>2. table' \in [Keys -> 0..MaxReports] /\ errors' \in 0..MaxErrors
    BY <2>1, UpsertStep DEF StoreInv
  <2> QED
    BY <1>1, <1>2, <2>1, <2>2, SameRequestsKeep DEF DataOK
<1>5. ASSUME NEW r \in Reactors, get_report_status(r) PROVE StoreInv'
  BY <1>1, <1>5, ArrivalStoreInv
<1>6. ASSUME NEW r \in Reactors, send(r) PROVE StoreInv'
  BY <1>1, <1>6, SendStoreInv
<1>7. ASSUME NEW q \in Queues, StoreThread(q) PROVE StoreInv'
  BY <1>1, <1>7, RecvStoreInv, ReportStoreInv DEF StoreThread
<1>8. CASE UNCHANGED vars
  <2>1. SameRequests /\ UNCHANGED <<ended, table, errors>>
    BY <1>8 DEF SameRequests, vars, tables, threads, history
  <2> QED
    BY <1>1, <1>2, <2>1, SameRequestsKeep DEF DataOK
<1> QED
  BY <1>3, <1>4, <1>5, <1>6, <1>7, <1>8 DEF Next, Reactor

(* The types of the reporter's state; no request is stored more than       *)
(* twice, however many threads, rows and failed queries there are.         *)
THEOREM TypeCorrect == Spec => []TypeOK
<1>1. StoreInv => TypeOK
  BY DEF StoreInv
<1> QED
  BY <1>1, InitStoreInv, NextStoreInv, PTL DEF Spec
-----------------------------------------------------------------------------
(* What a row ends up from.  Of the request a store thread is storing only *)
(* the rows from the next one on are still to come.                        *)
StillNames(it, i, x) == \E j \in DOMAIN it.rows : j >= i /\ it.rows[j] = x

Settled(x) ==
  \E q \in Queues : /\ table[x] = last[q][x]
                    /\ table[x] = 0 => \A p \in Queues : last[p][x] = 0

InHandler(x) == \E r \in Reactors : Storing(r) /\ x \in Named(handler[r].req)

ToCome(q, m, x) == /\ x \in Named(Backlog(q)[m])
                   /\ m = 1 => StillNames(Backlog(q)[1], store_row[q], x)
InBacklog(x) == \E q \in Queues : \E m \in 1..Len(Backlog(q)) : ToCome(q, m, x)

RowInv ==
  ended = "no" /\ errors = 0 =>
    \A x \in Keys : Settled(x) \/ InHandler(x) \/ InBacklog(x)

(* The last request of a backlog that names a row is the last its queue    *)
(* was sent.                                                               *)
LastInv ==
  \A q \in Queues, x \in Keys : \A m \in 1..Len(Backlog(q)) :
    x \in Named(Backlog(q)[m]) =>
      \/ Backlog(q)[m].id = last[q][x]
      \/ \E n \in 1..Len(Backlog(q)) : n > m /\ x \in Named(Backlog(q)[n])

RowsInv == RowInv /\ LastInv

LEMMA NamedAtOnce ==
  ASSUME NEW it \in Items, NEW x, x \in Named(it)
  PROVE  StillNames(it, 1, x)
<1>1. DOMAIN it.rows = 1..Len(it.rows) /\ Len(it.rows) \in Nat
  <2> DEFINE s == it.rows
  <2>1. s \in Seq(Keys)
    BY ItemFacts
  <2> HIDE DEF s
  <2>2. DOMAIN s = 1..Len(s) /\ Len(s) \in Nat
    BY <2>1
  <2> QED
    BY <2>2 DEF s
<1> QED
  BY <1>1 DEF Named, StillNames

LEMMA StillNamesBounds ==
  ASSUME NEW it \in Items, NEW i \in Nat \ {0}, NEW x, StillNames(it, i, x)
  PROVE  i <= Len(it.rows) /\ (it.rows[i] # x => StillNames(it, i + 1, x))
<1> DEFINE s == it.rows
<1>1. s \in Seq(Keys)
  BY ItemFacts
<1>2. PICK j \in DOMAIN s : j >= i /\ s[j] = x
  BY DEF StillNames
<1>3. StillNames(it, i + 1, x) <=> \E k \in DOMAIN s : k >= i + 1 /\ s[k] = x
  BY DEF StillNames
<1> HIDE DEF s
<1>4. j \in 1..Len(s) /\ Len(s) \in Nat
  BY <1>1
<1>5. i <= Len(s)
  BY <1>2, <1>4
<1>6. s[i] # x => j >= i + 1
  <2> SUFFICES ASSUME s[i] # x PROVE j >= i + 1
    OBVIOUS
  <2>1. j # i
    BY <1>2
  <2> QED
    BY <1>2, <1>4, <2>1
<1> QED
  BY <1>2, <1>3, <1>5, <1>6 DEF s

LEMMA InitRowsInv == Init => RowsInv
<1> SUFFICES ASSUME Init PROVE RowsInv
  OBVIOUS
<1>1. TypeOK
  BY InitStoreInv DEF StoreInv
<1>2. \A q \in Queues : Len(Backlog(q)) = 0
  BY <1>1, EmptyBacklog DEF Init
<1>3. \A q \in Queues : 1..Len(Backlog(q)) = {}
  BY <1>2
<1>4. 0 \in Queues
  BY ReporterAssumption DEF Queues
<1>5. \A x \in Keys : Settled(x)
  BY <1>4 DEF Init, Settled
<1> QED
  BY <1>3, <1>5 DEF RowsInv, RowInv, LastInv

(* Nothing is settled or taken on while requests and rows stay as they are. *)
LEMMA SameRequestsRows ==
  ASSUME RowsInv, SameRequests
  PROVE  /\ LastInv'
         /\ \A x \in Keys : /\ InHandler(x)' <=> InHandler(x)
                            /\ InBacklog(x)' <=> InBacklog(x)
                            /\ table'[x] = table[x] => (Settled(x)' <=> Settled(x))
<1>1. /\ UNCHANGED <<reportQueues, work, store_row, last>>
      /\ \A s \in Reactors : Storing(s)' <=> Storing(s)
      /\ \A s \in Reactors : Storing(s) => handler'[s].req = handler[s].req
  BY DEF SameRequests, history, Storing
<1>2. \A q \in Queues : Backlog(q)' = Backlog(q)
  BY <1>1 DEF Backlog
<1>3. LastInv'
  BY <1>1, <1>2 DEF RowsInv, LastInv
<1>4. ASSUME NEW x \in Keys PROVE InHandler(x)' <=> InHandler(x)
  <2>1. ASSUME NEW s \in Reactors, Storing(s)
        PROVE  x \in Named(handler'[s].req) <=> x \in Named(handler[s].req)
    BY <1>1, <2>1
  <2> QED
    BY <1>1, <2>1 DEF InHandler
<1>5. ASSUME NEW x \in Keys PROVE InBacklog(x)' <=> InBacklog(x)
  BY <1>1, <1>2 DEF InBacklog, ToCome
<1>6. ASSUME NEW x \in Keys, table'[x] = table[x] PROVE Settled(x)' <=> Settled(x)
  BY <1>1, <1>6 DEF Settled
<1> QED
  BY <1>3, <1>4, <1>5, <1>6

LEMMA ArrivalRowsInv ==
  ASSUME StoreInv, RowsInv, NEW r \in Reactors, get_report_status(r)
  PROVE  RowsInv'
<1>1. UNCHANGED <<table, errors, reportQueues, ended, work, store_row, last>>
  BY DEF get_report_status, tables
<1>2. handler[r].pc = "idle" /\ \A s \in Reactors : s # r => handler'[s] = handler[s]
  BY NewHandler DEF StoreInv, IInv
<1>3. \A q \in Queues : Backlog(q)' = Backlog(q)
  BY <1>1 DEF Backlog
<1>4. LastInv'
  BY <1>1, <1>3 DEF RowsInv, LastInv
<1>5. ASSUME NEW x \in Keys
      PROVE  /\ Settled(x) => Settled(x)'
             /\ InHandler(x) => InHandler(x)'
             /\ InBacklog(x) => InBacklog(x)'
  <2>1. Settled(x) => Settled(x)'
    BY <1>1 DEF Settled
  <2>2. InHandler(x) => InHandler(x)'
    BY <1>2 DEF InHandler, Storing
  <2>3. InBacklog(x) => InBacklog(x)'
    BY <1>1, <1>3 DEF InBacklog, ToCome
  <2> QED
    BY <2>1, <2>2, <2>3
<1>6. RowInv'
  BY <1>1, <1>5 DEF RowsInv, RowInv
<1> QED
  BY <1>4, <1>6 DEF RowsInv

(* A query of a handler: its request names the row and is still to be sent. *)
LEMMA StoreRowsInv ==
  ASSUME StoreInv, RowsInv, NEW r \in Reactors, store(r)
  PROVE  RowsInv'
<1> DEFINE it == handler[r].req  y == it.rows[handler[r].i]
<1>1. /\ SameRequests /\ UNCHANGED ended /\ Storing(r)
      /\ it \in Items /\ handler[r].i \in Nat \ {0} /\ Upsert(it, handler[r].i)
  BY StoreStep
<1>2. /\ y \in Named(it) /\ errors' \in Nat
      /\ errors' = 0 => errors = 0 /\ \A x \in Keys : x # y => table'[x] = table[x]
  BY <1>1, UpsertStep, ReporterAssumption DEF StoreInv
<1>3. InHandler(y)
  BY <1>1, <1>2 DEF InHandler
<1> HIDE DEF it, y
<1>4. RowInv'
  <2> SUFFICES ASSUME ended' = "no", errors' = 0, NEW x \in Keys
               PROVE  Settled(x)' \/ InHandler(x)' \/ InBacklog(x)'
    BY DEF RowInv
  <2>1. x # y => Settled(x) \/ InHandler(x) \/ InBacklog(x)
    BY <1>1, <1>2 DEF RowsInv, RowInv
  <2>2. x = y => InHandler(x)'
    BY <1>1, <1>3, SameRequestsRows
  <2>3. x # y => Settled(x)' \/ InHandler(x)' \/ InBacklog(x)'
    BY <1>1, <1>2, <2>1, SameRequestsRows
  <2> QED
    BY <2>2, <2>3
<1> QED
  BY <1>1, <1>4, SameRequestsRows DEF RowsInv

(* A request handed over becomes the last of its queue for what it names.  *)
LEMMA SendRowsInv ==
  ASSUME StoreInv, RowsInv, NEW r \in Reactors, send(r)
  PROVE  RowsInv'
<1> DEFINE it == handler[r].req
<1>1. /\ it \in Items /\ \A s \in Reactors : s # r => handler'[s] = handler[s]
      /\ UNCHANGED <<table, errors, work, store_row>>
      /\ index \in Queues => ended' = ended
      /\ index \notin Queues => ended' = "overrun" /\ UNCHANGED <<reportQueues, last>>
  BY SendStep
<1> HIDE DEF it
<1>2. CASE index \notin Queues
  <2>1. \A q \in Queues : Backlog(q)' = Backlog(q)
    BY <1>1, <1>2 DEF Backlog
  <2>2. LastInv'
    BY <1>1, <1>2, <2>1 DEF RowsInv, LastInv
  <2>3. RowInv'
    BY <1>1, <1>2 DEF RowInv
  <2> QED
    BY <2>2, <2>3 DEF RowsInv
<1>3. ASSUME NEW o \in Queues, index = o PROVE RowsInv'
  <2>1. /\ Len(Backlog(o)') = Len(Backlog(o)) + 1
        /\ \A m \in 1..Len(Backlog(o)) : Backlog(o)'[m] = Backlog(o)[m]
        /\ Backlog(o)'[Len(Backlog(o)) + 1] = it
        /\ \A p \in Queues : p # o => Backlog(p)' = Backlog(p)
    BY <1>1, <1>3, SendBacklog DEF StoreInv, it
  <2>2. /\ \A x \in Keys : last'[o][x] = IF x \in Named(it) THEN it.id ELSE last[o][x]
        /\ \A p \in Queues : p # o => last'[p] = last[p]
    BY <1>3, LastStep DEF it
  <2>3. /\ Len(Backlog(o)) \in Nat
        /\ \A q \in Queues : Len(Backlog(q)) = Len(work[q]) + Len(reportQueues[q])
    BY <1>3, BacklogType DEF StoreInv
  <2>e. PICK e \in Nat : e = Len(Backlog(o)) + 1
    BY <2>3
  <2>4. /\ e \in 1..Len(Backlog(o)') /\ Backlog(o)'[e] = it
        /\ \A m \in 1..Len(Backlog(o)) : m \in 1..Len(Backlog(o)') /\ m < e
        /\ \A m \in 1..Len(Backlog(o)') : m \in 1..Len(Backlog(o)) \/ m = e
    BY <2>1, <2>3, <2>e
  <2>5. ASSUME NEW q \in Queues, NEW x \in Keys, NEW m \in 1..Len(Backlog(q)'),
               x \in Named(Backlog(q)'[m])
        PROVE  \/ Backlog(q)'[m].id = last'[q][x]
               \/ \E n \in 1..Len(Backlog(q)') : n > m /\ x \in Named(Backlog(q)'[n])
    <3>1. CASE q # o
      BY <2>1, <2>2, <2>5, <3>1 DEF RowsInv, LastInv
    <3>2. CASE q = o /\ m = e
      BY <2>2, <2>4, <2>5, <3>2
    <3>3. CASE q = o /\ m # e
      <4>1. m \in 1..Len(Backlog(o)) /\ Backlog(o)'[m] = Backlog(o)[m] /\ m < e
        BY <2>1, <2>4, <3>3
      <4>2. CASE x \in Named(it)
        <5>1. e > m
          BY <4>1
        <5> QED
          BY <2>4, <3>3, <4>2, <5>1
      <4>3. CASE x \notin Named(it)
        <5>1. \/ Backlog(o)[m].id = last[o][x]
              \/ \E n \in 1..Len(Backlog(o)) : n > m /\ x \in Named(Backlog(o)[n])
          BY <2>5, <3>3, <4>1 DEF RowsInv, LastInv
        <5>2. last'[o][x] = last[o][x]
          BY <2>2, <4>3
        <5> QED
          BY <2>1, <2>4, <3>3, <4>1, <5>1, <5>2
      <4> QED
        BY <4>2, <4>3
    <3> QED
      BY <3>1, <3>2, <3>3
  <2>6. LastInv'
    BY <2>5 DEF LastInv
  <2>7. ASSUME NEW x \in Keys, x \in Named(it) PROVE InBacklog(x)'
    <3>1. e = 1 => work[o] = << >>
      <4> SUFFICES ASSUME e = 1 PROVE work[o] = << >>
        OBVIOUS
      <4>1. work[o] \in Seq(Items) /\ reportQueues[o] \in Seq(Items)
        BY <1>3 DEF StoreInv, TypeOK
      <4>2. Len(work[o]) \in Nat /\ Len(reportQueues[o]) \in Nat
        BY <4>1
      <4>a. \A a, b \in Nat : a + b + 1 = 1 => a = 0
        OBVIOUS
      <4>b. Len(work[o]) + Len(reportQueues[o]) + 1 = 1
        BY <1>3, <2>3, <2>e
      <4>3. Len(work[o]) = 0
        BY <4>a, <4>b, <4>2
      <4> QED
        BY <4>1, <4>3, EmptySeq
    <3>2. e = 1 => store_row'[o] = 1
      BY <1>1, <1>3, <3>1 DEF StoreInv, CountInv
    <3>3. StillNames(it, 1, x)
      BY <1>1, <2>7, NamedAtOnce
    <3>4. ToCome(o, e, x)'
      BY <2>4, <2>7, <3>2, <3>3 DEF ToCome
    <3> QED
      BY <1>3, <2>4, <3>4 DEF InBacklog
  <2>8. ASSUME NEW x \in Keys, x \notin Named(it)
        PROVE  /\ Settled(x) => Settled(x)'
               /\ InHandler(x) => InHandler(x)'
    <3>1. \A p \in Queues : last'[p][x] = last[p][x]
      BY <2>2, <2>8
    <3>2. Settled(x) => Settled(x)'
      BY <1>1, <3>1 DEF Settled
    <3>3. InHandler(x) => InHandler(x)'
      BY <1>1, <2>8 DEF InHandler, Storing, it
    <3> QED
      BY <3>2, <3>3
  <2>9. ASSUME NEW x \in Keys, InBacklog(x) PROVE InBacklog(x)'
    <3>p. PICK q \in Queues : \E m \in 1..Len(Backlog(q)) : ToCome(q, m, x)
      BY <2>9 DEF InBacklog
    <3>1. PICK m \in 1..Len(Backlog(q)) : ToCome(q, m, x)
      BY <3>p
    <3>2. m \in 1..Len(Backlog(q)') /\ Backlog(q)'[m] = Backlog(q)[m]
      BY <2>1, <2>4
    <3>3. m = 1 => Backlog(q)'[1] = Backlog(q)[1]
      BY <3>2
    <3>4. ToCome(q, m, x)'
      BY <1>1, <3>1, <3>2, <3>3 DEF ToCome
    <3> QED
      BY <3>2, <3>4 DEF InBacklog
  <2>10. RowInv'
    BY <1>1, <1>3, <2>7, <2>8, <2>9 DEF RowsInv, RowInv
  <2> QED
    BY <2>6, <2>10 DEF RowsInv
<1> QED
  BY <1>2, <1>3

LEMMA RecvRowsInv ==
  ASSUME StoreInv, RowsInv, NEW q \in Queues, recv(q)
  PROVE  RowsInv'
<1>1. \A p \in Queues : Backlog(p)' = Backlog(p)
  BY RecvBacklog DEF StoreInv
<1>2. UNCHANGED <<table, errors, ended, handler, store_row, last>>
  BY DEF recv, tables, history
<1>3. LastInv'
  BY <1>1, <1>2 DEF RowsInv, LastInv
<1>4. ASSUME NEW x \in Keys
      PROVE  /\ Settled(x) => Settled(x)'
             /\ InHandler(x) => InHandler(x)'
             /\ InBacklog(x) => InBacklog(x)'
  BY <1>1, <1>2 DEF Settled, InHandler, Storing, InBacklog, ToCome
<1>5. RowInv'
  BY <1>2, <1>4 DEF RowsInv, RowInv
<1> QED
  BY <1>3, <1>5 DEF RowsInv

(* A query of a store thread: the row is from the last request of its      *)
(* queue that names it, or a later one of the same queue is to come.       *)
LEMMA QueryRowsInv ==
  ASSUME StoreInv, RowsInv, NEW q \in Queues,
         Len(Backlog(q)) >= 1, Backlog(q)[1] \in Items, store_row[q] \in Nat \ {0},
         Upsert(Backlog(q)[1], store_row[q]), store_row'[q] = store_row[q] + 1,
         UNCHANGED <<ended, handler, last>>,
         \A p \in Queues : Backlog(p)' = Backlog(p),
         \A p \in Queues : p # q => store_row'[p] = store_row[p]
  PROVE  RowsInv'
<1> DEFINE it == Backlog(q)[1]  i == store_row[q]
<1>y. PICK y : y = it.rows[i]
  OBVIOUS
<1>0. Len(Backlog(q)) \in Nat /\ 1 \in 1..Len(Backlog(q))
  <2>1. Len(Backlog(q)) \in Nat
    BY BacklogType DEF StoreInv
  <2> QED
    BY <2>1
<1>1. /\ y \in Named(it) /\ y \in Keys /\ it.id # 0
      /\ errors' = 0 => /\ errors = 0 /\ table'[y] = it.id
                        /\ \A x \in Keys : x # y => table'[x] = table[x]
  BY <1>y, UpsertStep, ItemFacts DEF StoreInv
<1>2. LastInv'
  BY DEF RowsInv, LastInv
<1>3. ASSUME NEW x \in Keys, x # y, InBacklog(x) PROVE InBacklog(x)'
  <2>p. PICK p \in Queues : \E m \in 1..Len(Backlog(p)) : ToCome(p, m, x)
    BY <1>3 DEF InBacklog
  <2>1. PICK m \in 1..Len(Backlog(p)) : ToCome(p, m, x)
    BY <2>p
  <2>2. CASE p = q /\ m = 1
    <3>1. StillNames(it, i + 1, x)
      BY <1>3, <1>y, <2>1, <2>2, StillNamesBounds DEF ToCome
    <3>2. ToCome(p, m, x)'
      BY <2>1, <2>2, <3>1 DEF ToCome
    <3> QED
      BY <2>1, <3>2 DEF InBacklog
  <2>3. CASE ~(p = q /\ m = 1)
    <3>1. ToCome(p, m, x)'
      BY <2>1, <2>3 DEF ToCome
    <3> QED
      BY <2>1, <3>1 DEF InBacklog
  <2> QED
    BY <2>2, <2>3
<1>4. ASSUME errors' = 0 PROVE Settled(y)' \/ InBacklog(y)'
  <2>1. \/ it.id = last[q][y]
        \/ \E n \in 1..Len(Backlog(q)) : n > 1 /\ y \in Named(Backlog(q)[n])
    BY <1>0, <1>1 DEF RowsInv, LastInv
  <2>2. CASE it.id = last[q][y]
    BY <1>1, <1>4, <2>2 DEF Settled
  <2>3. ASSUME NEW n \in 1..Len(Backlog(q)), n > 1, y \in Named(Backlog(q)[n])
        PROVE  InBacklog(y)'
    <3>1. ToCome(q, n, y)'
      BY <2>3 DEF ToCome
    <3> QED
      BY <3>1 DEF InBacklog
  <2> QED
    BY <2>1, <2>2, <2>3
<1> HIDE DEF it, i
<1>5. ASSUME NEW x \in Keys, x # y, table'[x] = table[x]
      PROVE  (Settled(x) => Settled(x)') /\ (InHandler(x) => InHandler(x)')
  <2>1. Settled(x) => Settled(x)'
    BY <1>5 DEF Settled
  <2>2. InHandler(x) => InHandler(x)'
    BY DEF InHandler, Storing
  <2> QED
    BY <2>1, <2>2
<1>6. RowInv'
  <2> SUFFICES ASSUME ended' = "no", errors' = 0, NEW x \in Keys
               PROVE  Settled(x)' \/ InHandler(x)' \/ InBacklog(x)'
    BY DEF RowInv
  <2>1. Settled(x) \/ InHandler(x) \/ InBacklog(x)
    BY <1>1 DEF RowsInv, RowInv
  <2>2. CASE x = y
    BY <1>4, <2>2
  <2>3. CASE x # y
    BY <1>1, <1>3, <1>5, <2>1, <2>3
  <2> QED
    BY <2>2, <2>3
<1> QED
  BY <1>2, <1>6 DEF RowsInv

(* A request that is finished has no row to come.                          *)
LEMMA FinishRowsInv ==
  ASSUME StoreInv, RowsInv, NEW q \in Queues,
         Len(Backlog(q)) >= 1, Backlog(q)[1] \in Items, store_row[q] \in Nat \ {0},
         Stored(Backlog(q)[1], store_row[q]), store_row'[q] = 1,
         Len(Backlog(q)') = Len(Backlog(q)) - 1,
         \A m \in 1..Len(Backlog(q)') : Backlog(q)'[m] = Backlog(q)[m + 1],
         UNCHANGED <<ended, handler, last, table, errors>>,
         \A p \in Queues : p # q => Backlog(p)' = Backlog(p) /\ store_row'[p] = store_row[p]
  PROVE  RowsInv'
<1>0. Len(Backlog(q)) \in Nat
  BY BacklogType DEF StoreInv
(* What waits behind the first is one place further on afterwards.         *)
<1>1. ASSUME NEW m \in 1..Len(Backlog(q)), m # 1
      PROVE  m - 1 \in 1..Len(Backlog(q)') /\ Backlog(q)'[m - 1] = Backlog(q)[m]
  <2>1. m - 1 \in 1..Len(Backlog(q)') /\ m - 1 + 1 = m
    BY <1>0, <1>1
  <2> QED
    BY <2>1
<1>2. ASSUME NEW p \in Queues, NEW x \in Keys, NEW m \in 1..Len(Backlog(p)'),
             x \in Named(Backlog(p)'[m])
      PROVE  \/ Backlog(p)'[m].id = last'[p][x]
             \/ \E n \in 1..Len(Backlog(p)') : n > m /\ x \in Named(Backlog(p)'[n])
  <2>1. CASE p # q
    BY <1>2, <2>1 DEF RowsInv, LastInv
  <2>2. CASE p = q
    <3>1. m + 1 \in 1..Len(Backlog(q)) /\ m \in Int /\ Backlog(q)'[m] = Backlog(q)[m + 1]
      BY <1>0, <2>2
    <3>2. \/ Backlog(q)[m + 1].id = last[q][x]
          \/ \E n \in 1..Len(Backlog(q)) : n > m + 1 /\ x \in Named(Backlog(q)[n])
      BY <1>2, <2>2, <3>1 DEF RowsInv, LastInv
    <3>3. ASSUME NEW n \in 1..Len(Backlog(q)), n > m + 1, x \in Named(Backlog(q)[n])
          PROVE  \E k \in 1..Len(Backlog(q)') : k > m /\ x \in Named(Backlog(q)'[k])
      <4>1. n # 1 /\ n - 1 > m
        BY <2>2, <3>1, <3>3
      <4>2. n - 1 \in 1..Len(Backlog(q)') /\ Backlog(q)'[n - 1] = Backlog(q)[n]
        BY <1>1, <4>1
      <4> QED
        BY <3>3, <4>1, <4>2
    <3> QED
      BY <2>2, <3>1, <3>2, <3>3
  <2> QED
    BY <2>1, <2>2
<1>3. LastInv'
  BY <1>2 DEF LastInv
<1>4. ASSUME NEW x \in Keys, InBacklog(x) PROVE InBacklog(x)'
  <2>p. PICK p \in Queues : \E m \in 1..Len(Backlog(p)) : ToCome(p, m, x)
    BY <1>4 DEF InBacklog
  <2>1. PICK m \in 1..Len(Backlog(p)) : ToCome(p, m, x)
    BY <2>p
  <2>2. CASE p # q
    <3>1. ToCome(p, m, x)'
      BY <2>1, <2>2 DEF ToCome
    <3> QED
      BY <2>1, <2>2, <3>1 DEF InBacklog
  <2>3. CASE p = q
    <3>1. m # 1
      <4> SUFFICES ASSUME m = 1 PROVE FALSE
        OBVIOUS
      <4>1. StillNames(Backlog(q)[1], store_row[q], x)
        BY <2>1, <2>3 DEF ToCome
      <4>2. store_row[q] <= Len(Backlog(q)[1].rows)
        BY <4>1, StillNamesBounds
      <4>3. store_row[q] > Len(Backlog(q)[1].rows) /\ Len(Backlog(q)[1].rows) \in Nat
        BY ItemFacts DEF Stored
      <4> QED
        BY <4>2, <4>3
    <3>2. m - 1 \in 1..Len(Backlog(q)') /\ Backlog(q)'[m - 1] = Backlog(q)[m]
      BY <1>1, <2>3, <3>1
    <3>3. Backlog(q)[m] \in Items /\ x \in Named(Backlog(q)[m])
      BY <2>1, <2>3, BacklogType DEF StoreInv, ToCome
    <3>4. StillNames(Backlog(q)[m], 1, x)
      BY <3>3, NamedAtOnce
    <3>5. ToCome(q, m - 1, x)'
      BY <3>2, <3>3, <3>4 DEF ToCome
    <3> QED
      BY <3>2, <3>5 DEF InBacklog
  <2> QED
    BY <2>2, <2>3
<1>5. ASSUME NEW x \in Keys
      PROVE  (Settled(x) => Settled(x)') /\ (InHandler(x) => InHandler(x)')
  BY DEF Settled, InHandler, Storing
<1>6. RowInv'
  BY <1>4, <1>5 DEF RowsInv, RowInv
<1> QED
  BY <1>3, <1>6 DEF RowsInv

LEMMA ReportRowsInv ==
  ASSUME StoreInv, RowsInv, NEW q \in Queues, thread_report(q)
  PROVE  RowsInv'
<1>1. TypeOK /\ CountInv
  BY DEF StoreInv
<1>2. /\ Len(Backlog(q)) >= 1 /\ Backlog(q)[1] \in Items /\ store_row[q] \in Nat \ {0}
      /\ UNCHANGED <<ended, handler, last>>
      /\ \A p \in Queues : p # q => Backlog(p)' = Backlog(p) /\ store_row'[p] = store_row[p]
      /\ \/ /\ Upsert(Backlog(q)[1], store_row[q]) /\ store_row'[q] = store_row[q] + 1
            /\ Backlog(q)' = Backlog(q)
         \/ /\ Stored(Backlog(q)[1], store_row[q]) /\ store_row'[q] = 1
            /\ Len(Backlog(q)') = Len(Backlog(q)) - 1
            /\ \A m \in 1..Len(Backlog(q)') : Backlog(q)'[m] = Backlog(q)[m + 1]
            /\ UNCHANGED <<table, errors>>
  BY <1>1, ReportBacklog DEF tables
<1>3. CASE /\ Upsert(Backlog(q)[1], store_row[q]) /\ store_row'[q] = store_row[q] + 1
           /\ Backlog(q)' = Backlog(q)
  <2>1. \A p \in Queues : Backlog(p)' = Backlog(p)
    BY <1>2, <1>3
  <2> QED
    BY <1>2, <1>3, <2>1, QueryRowsInv
<1>4. CASE /\ Stored(Backlog(q)[1], store_row[q]) /\ store_row'[q] = 1
           /\ Len(Backlog(q)') = Len(Backlog(q)) - 1
           /\ \A m \in 1..Len(Backlog(q)') : Backlog(q)'[m] = Backlog(q)[m + 1]
           /\ UNCHANGED <<table, errors>>
  BY <1>2, <1>4, FinishRowsInv
<1> QED
  BY <1>2, <1>3, <1>4

LEMMA NextRowsInv == StoreInv /\ RowsInv /\ [Next]_vars => RowsInv'
<1> SUFFICES ASSUME StoreInv, RowsInv, [Next]_vars PROVE RowsInv'
  OBVIOUS
<1>k. ASSUME SameRequests, UNCHANGED <<table, errors>>, ended' = "no" => ended = "no"
      PROVE  RowsInv'
  <2>1. RowInv'
    BY <1>k, SameRequestsRows DEF RowsInv, RowInv
  <2> QED
    BY <1>k, <2>1, SameRequestsRows DEF RowsInv
<1>1. ASSUME NEW r \in Reactors,
             read_index(r) \/ write_sum(r) \/ write_remainder(r) \/ connect_failed(r)
      PROVE  RowsInv'
  BY <1>1, <1>k, IndexStep DEF tables
<1>2. ASSUME NEW r \in Reactors, store(r) PROVE RowsInv'
  BY <1>2, StoreRowsInv
<1>3. ASSUME NEW r \in Reactors, get_report_status(r) PROVE RowsInv'
  BY <1>3, ArrivalRowsInv
<1>4. ASSUME NEW r \in Reactors, send(r) PROVE RowsInv'
  BY <1>4, SendRowsInv
<1>5. ASSUME NEW q \in Queues, StoreThread(q) PROVE RowsInv'
  BY <1>5, RecvRowsInv, ReportRowsInv DEF StoreThread
<1>6. CASE UNCHANGED vars
  <2>1. SameRequests /\ UNCHANGED <<ended, table, errors>>
    BY <1>6 DEF SameRequests, vars, tables, threads, history
  <2> QED
    BY <1>k, <2>1
<1> QED
  BY <1>1, <1>2, <1>3, <1>4, <1>5, <1>6 DEF Next, Reactor

LEMMA QuietIsSettled == StoreInv /\ RowsInv => LastOfAQueueIsStored
<1> SUFFICES ASSUME StoreInv, RowsInv, Quiet, ended = "no", errors = 0, NEW x \in Keys
             PROVE  Settled(x)
  BY DEF LastOfAQueueIsStored, Settled
<1>1. ~InHandler(x)
  BY DEF InHandler, Storing, Quiet
<1>2. \A q \in Queues : Len(Backlog(q)) = 0
  BY EmptyBacklog DEF StoreInv, Quiet
<1>3. \A q \in Queues : 1..Len(Backlog(q)) = {}
  BY <1>2
<1> QED
  BY <1>1, <1>3 DEF RowsInv, RowInv, InBacklog

(* When all is stored, and no query failed, a row that was ever reported   *)
(* is from the last report naming it that some queue was sent, however the *)
(* store threads and the handlers overtake each other.                     *)
THEOREM RowsEndWithTheLastOfAQueue == Spec => []LastOfAQueueIsStored
<1>1. Init => StoreInv /\ RowsInv
  BY InitStoreInv, InitRowsInv
<1>2. StoreInv /\ RowsInv /\ [Next]_vars => (StoreInv /\ RowsInv)'
  BY NextStoreInv, NextRowsInv
<1> QED
  BY <1>1, <1>2, QuietIsSettled, PTL DEF Spec
=============================================================================
