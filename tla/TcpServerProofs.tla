--------------------------- MODULE TcpServerProofs ---------------------------
(***************************************************************************)
(* Proofs about TcpServer for any number of threads, descriptors and       *)
(* tasks: every descriptor in use is in one place on its way from accept   *)
(* to close, so a number the kernel hands out again meets nothing of its   *)
(* former connection, and every thread executes every task once.           *)
(***************************************************************************)
EXTENDS TcpServer, TLAPS, SequenceTheorems, FiniteSetTheorems

(* Connection f waits in q. *)
Has(q, f) == \E i \in 1..Len(q) : q[i] = NEW_CONN(f)

(* No connection waits twice in q. *)
Once(q) ==
  \A f : \A i, j \in 1..Len(q) : q[i] = NEW_CONN(f) /\ q[j] = NEW_CONN(f) => i = j

(* Messages are different when their descriptors are, and from tasks.      *)
LEMMA Messages ==
  /\ \A f, g : NEW_CONN(f) = NEW_CONN(g) => f = g
  /\ \A f, n : NEW_CONN(f) # NEW_TASK(n)
  /\ \A f : NEW_CONN(f).type = "NEW_CONN" /\ NEW_CONN(f).arg = f
  /\ \A n : NEW_TASK(n).type = "NEW_TASK" /\ NEW_TASK(n).arg = n
  /\ \A f \in Fds : NEW_CONN(f) \in Task
  /\ \A n \in 1..MaxTasks : NEW_TASK(n) \in Task
  /\ \A e \in Task : \/ e.type = "NEW_CONN" /\ e.arg \in Fds /\ e = NEW_CONN(e.arg)
                     \/ e.type = "NEW_TASK" /\ e.arg \in 1..MaxTasks /\ e = NEW_TASK(e.arg)
  BY DEF NEW_CONN, NEW_TASK, Task

LEMMA EmptyQueue ==
  /\ \A f : ~Has(<< >>, f)
  /\ Once(<< >>) /\ Tasks(<< >>) = 0
<1>1. {i \in DOMAIN << >> : << >>[i].type = "NEW_TASK"} = {}
  OBVIOUS
<1> QED
  BY <1>1, FS_EmptySet DEF Has, Once, Tasks

(* thread_queue::send. *)
LEMMA Sent ==
  ASSUME NEW q \in Seq(Task), NEW e \in Task
  PROVE  /\ Append(q, e) \in Seq(Task)
         /\ \A f : Has(Append(q, e), f) <=> Has(q, f) \/ e = NEW_CONN(f)
         /\ Once(q) /\ (\A f : e = NEW_CONN(f) => ~Has(q, f)) => Once(Append(q, e))
         /\ Tasks(q) \in Nat
         /\ Tasks(Append(q, e)) = Tasks(q) + (IF e.type = "NEW_TASK" THEN 1 ELSE 0)
<1> DEFINE s == Append(q, e)
           n == Len(q)
           T(r) == {i \in DOMAIN r : r[i].type = "NEW_TASK"}
<1>1. /\ s \in Seq(Task) /\ n \in Nat /\ Len(s) = n + 1
      /\ \A i \in 1..n : s[i] = q[i]
      /\ s[n+1] = e /\ DOMAIN s = 1..(n+1) /\ DOMAIN q = 1..n
  BY AppendProperties
<1>2. 1..(n+1) = (1..n) \cup {n+1} /\ n+1 \notin 1..n
  BY <1>1
<1>3. ASSUME NEW f PROVE Has(s, f) <=> Has(q, f) \/ e = NEW_CONN(f)
  <2> HIDE DEF s, n
  <2>1. Len(q) = n
    BY DEF n
  <2> QED
    BY <1>1, <1>2, <2>1 DEF Has
<1>4. ASSUME Once(q), \A f : e = NEW_CONN(f) => ~Has(q, f) PROVE Once(s)
  <2> HIDE DEF s, n
  <2>1. Len(q) = n
    BY DEF n
  <2>2. ASSUME NEW f, NEW i \in 1..(n+1), NEW j \in 1..(n+1),
               s[i] = NEW_CONN(f), s[j] = NEW_CONN(f)
        PROVE  i = j
    <3>1. CASE i \in 1..n /\ j \in 1..n
      BY <1>1, <1>4, <2>1, <2>2, <3>1 DEF Once
    <3>2. CASE i = n + 1 /\ j = n + 1
      BY <3>2
    <3>3. CASE i \in 1..n /\ j = n + 1
      BY <1>1, <1>4, <2>1, <2>2, <3>3 DEF Has
    <3>4. CASE i = n + 1 /\ j \in 1..n
      BY <1>1, <1>4, <2>1, <2>2, <3>4 DEF Has
    <3> QED
      BY <1>2, <2>2, <3>1, <3>2, <3>3, <3>4
  <2> QED
    BY <1>1, <2>2 DEF Once
<1>5. IsFiniteSet(T(q)) /\ Tasks(q) = Cardinality(T(q)) /\ Tasks(s) = Cardinality(T(s))
  <2>1. IsFiniteSet(1..n)
    BY <1>1, FS_Interval
  <2>2. T(q) \in SUBSET (1..n)
    BY <1>1
  <2> QED
    BY <2>1, <2>2, FS_Subset DEF Tasks
<1>6. Tasks(q) \in Nat
  BY <1>5, FS_CardinalityType
<1>7. T(s) = IF e.type = "NEW_TASK" THEN T(q) \cup {n+1} ELSE T(q)
  <2> HIDE DEF s, n
  <2> QED
    BY <1>1, <1>2
<1>8. n + 1 \notin T(q)
  BY <1>1, <1>2
<1>9. Tasks(s) = Tasks(q) + (IF e.type = "NEW_TASK" THEN 1 ELSE 0)
  <2> HIDE DEF s, n, T
  <2>1. Cardinality(T(q) \cup {n+1}) = Cardinality(T(q)) + 1
    BY <1>5, <1>8, FS_AddElement
  <2> QED
    BY <1>5, <1>6, <1>7, <2>1
<1> QED
  BY <1>1, <1>3, <1>4, <1>6, <1>9

(* deal_task takes the first message. *)
LEMMA Taken ==
  ASSUME NEW q \in Seq(Task), q # << >>
  PROVE  /\ Head(q) \in Task /\ Tail(q) \in Seq(Task)
         /\ \A f : Has(q, f) <=> Has(Tail(q), f) \/ Head(q) = NEW_CONN(f)
         /\ Once(q) => /\ Once(Tail(q))
                       /\ \A f : Head(q) = NEW_CONN(f) => ~Has(Tail(q), f)
         /\ Tasks(Tail(q)) \in Nat
         /\ Tasks(q) = Tasks(Tail(q)) + (IF Head(q).type = "NEW_TASK" THEN 1 ELSE 0)
<1> DEFINE t == Tail(q)
           n == Len(q)
           T(r) == {i \in DOMAIN r : r[i].type = "NEW_TASK"}
           next == [i \in T(t) |-> i + 1]
<1>1. /\ t \in Seq(Task) /\ n \in Nat \ {0} /\ Len(t) = n - 1
      /\ \A i \in 1..(n-1) : t[i] = q[i+1]
      /\ q[1] = Head(q) /\ Head(q) \in Task /\ DOMAIN t = 1..(n-1) /\ DOMAIN q = 1..n
  BY HeadTailProperties
<1>2. /\ \A i \in 1..n : i = 1 \/ (i - 1 \in 1..(n-1) /\ (i - 1) + 1 = i)
      /\ \A i \in 1..(n-1) : i + 1 \in 1..n /\ i + 1 # 1
      /\ \A i, j \in 1..(n-1) : i + 1 = j + 1 => i = j
      /\ 1 \in 1..n
  BY <1>1
<1>l. Len(q) = n
  OBVIOUS
<1>3. ASSUME NEW f PROVE Has(q, f) <=> Has(t, f) \/ Head(q) = NEW_CONN(f)
  <2> HIDE DEF t, n
  <2>1. ASSUME Has(q, f), Head(q) # NEW_CONN(f) PROVE Has(t, f)
    <3>1. PICK i \in 1..n : q[i] = NEW_CONN(f)
      BY <1>l, <2>1 DEF Has
    <3>2. i # 1
      BY <1>1, <2>1, <3>1
    <3>3. i - 1 \in 1..(n-1) /\ t[i-1] = q[i]
      BY <1>1, <1>2, <3>2
    <3> QED
      BY <1>1, <3>1, <3>3 DEF Has
  <2>2. ASSUME Has(t, f) PROVE Has(q, f)
    <3>1. PICK i \in 1..(n-1) : t[i] = NEW_CONN(f)
      BY <1>1, <2>2 DEF Has
    <3>2. i + 1 \in 1..n /\ q[i+1] = NEW_CONN(f)
      BY <1>1, <1>2, <3>1
    <3> QED
      BY <1>l, <3>2 DEF Has
  <2>3. Head(q) = NEW_CONN(f) => Has(q, f)
    BY <1>1, <1>2, <1>l DEF Has
  <2> QED
    BY <2>1, <2>2, <2>3
<1>4. ASSUME Once(q) PROVE Once(t) /\ \A f : Head(q) = NEW_CONN(f) => ~Has(t, f)
  <2> HIDE DEF t, n
  <2>1. ASSUME NEW f, NEW i \in 1..(n-1), NEW j \in 1..(n-1),
               t[i] = NEW_CONN(f), t[j] = NEW_CONN(f)
        PROVE  i = j
    <3>1. /\ i + 1 \in 1..n /\ j + 1 \in 1..n
          /\ q[i+1] = NEW_CONN(f) /\ q[j+1] = NEW_CONN(f)
      BY <1>1, <1>2, <2>1
    <3>2. i + 1 = j + 1
      BY <1>4, <1>l, <3>1 DEF Once
    <3> QED
      BY <1>2, <3>2
  <2>2. ASSUME NEW f, Head(q) = NEW_CONN(f), Has(t, f) PROVE FALSE
    <3>1. PICK i \in 1..(n-1) : t[i] = NEW_CONN(f)
      BY <1>1, <2>2 DEF Has
    <3>2. i + 1 \in 1..n /\ q[i+1] = NEW_CONN(f) /\ i + 1 # 1 /\ 1 \in 1..n
      BY <1>1, <1>2, <3>1
    <3> QED
      BY <1>1, <1>4, <1>l, <2>2, <3>2 DEF Once
  <2> QED
    BY <1>1, <2>1, <2>2 DEF Once
<1>5. IsFiniteSet(T(q)) /\ IsFiniteSet(T(t)) /\ Tasks(q) = Cardinality(T(q))
      /\ Tasks(t) = Cardinality(T(t))
  <2>1. IsFiniteSet(1..n) /\ IsFiniteSet(1..(n-1))
    BY <1>1, FS_Interval
  <2>2. T(q) \in SUBSET (1..n) /\ T(t) \in SUBSET (1..(n-1))
    BY <1>1
  <2> QED
    BY <2>1, <2>2, FS_Subset DEF Tasks
<1>6. Cardinality(T(t)) = Cardinality(T(q) \ {1})
  <2>0. T(t) = {i \in 1..(n-1) : q[i+1].type = "NEW_TASK"}
    BY <1>1
  <2>q. T(q) = {i \in 1..n : q[i].type = "NEW_TASK"}
    BY <1>1
  <2> HIDE DEF n, t, T
  <2>1. \A i \in T(t) : next[i] = i + 1 /\ i + 1 \in T(q) \ {1}
    BY <1>2, <2>0, <2>q
  <2>2. \A i, j \in T(t) : next[i] = next[j] => i = j
    BY <1>2, <2>0, <2>1
  <2>3. \A k \in T(q) \ {1} : \E i \in T(t) : next[i] = k
    <3> TAKE k \in T(q) \ {1}
    <3>1. k - 1 \in 1..(n-1) /\ (k - 1) + 1 = k /\ q[k].type = "NEW_TASK"
      BY <1>2, <2>q
    <3>2. k - 1 \in T(t)
      BY <2>0, <3>1
    <3> QED
      BY <2>1, <3>1, <3>2
  <2>4. next \in [T(t) -> T(q) \ {1}]
    BY <2>1
  <2> HIDE DEF next
  <2>5. next \in Bijection(T(t), T(q) \ {1})
    BY <2>2, <2>3, <2>4 DEF Bijection, Injection, Surjection, IsInjective
  <2>6. ExistsBijection(T(t), T(q) \ {1})
    BY <2>5 DEF ExistsBijection
  <2> QED
    BY <1>5, <2>6, FS_Bijection
<1>7. 1 \in T(q) <=> Head(q).type = "NEW_TASK"
  BY <1>1, <1>2
<1>8. /\ Tasks(t) \in Nat
      /\ Tasks(q) = Tasks(t) + (IF Head(q).type = "NEW_TASK" THEN 1 ELSE 0)
  <2> HIDE DEF n, t, T
  <2>1. Cardinality(T(q)) \in Nat /\ Cardinality(T(t)) \in Nat
    BY <1>5, FS_CardinalityType
  <2>2. Cardinality(T(q) \ {1}) = IF 1 \in T(q) THEN Cardinality(T(q)) - 1
                                 ELSE Cardinality(T(q))
    BY <1>5, FS_RemoveElement
  <2> QED
    BY <1>5, <1>6, <1>7, <2>1, <2>2
<1> QED
  BY <1>1, <1>3, <1>4, <1>8
-----------------------------------------------------------------------------
(* Every descriptor in use is in one place: held by do_accept, in one      *)
(* queue, in the batch of one thread, or listened to by one loop.          *)
OpenInv ==
  \A f \in Fds \ open :
    /\ accepted # f
    /\ \A t \in Threads : ~Has(queue[t], f) /\ ~Has(msgs[t], f) /\ f \notin listen_fds[t]

AcceptedInv ==
  \A f \in Fds : accepted = f =>
    \A t \in Threads : ~Has(queue[t], f) /\ ~Has(msgs[t], f) /\ f \notin listen_fds[t]

QueueInv ==
  \A f \in Fds, t \in Threads : Has(queue[t], f) =>
    \A s \in Threads : /\ ~Has(msgs[s], f) /\ f \notin listen_fds[s]
                       /\ s # t => ~Has(queue[s], f)

MsgsInv ==
  \A f \in Fds, t \in Threads : Has(msgs[t], f) =>
    \A s \in Threads : /\ f \notin listen_fds[s]
                       /\ s # t => ~Has(msgs[s], f)

LoopInv ==
  \A f \in Fds, t \in Threads, s \in Threads :
    f \in listen_fds[t] /\ f \in listen_fds[s] => s = t

OnceInv == \A t \in Threads : Once(queue[t]) /\ Once(msgs[t])

PlaceInv == OpenInv /\ AcceptedInv /\ QueueInv /\ MsgsInv /\ LoopInv /\ OnceInv

(* A thread makes or cleans a tcp_conn its loop listens to, and has a      *)
(* batch only while it deals it out.                                       *)
ConnInv ==
  \A t \in Threads :
    /\ pc[t] \in {"increase", "close"} <=> conn[t] # None
    /\ conn[t] # None => conn[t] \in listen_fds[t]
    /\ msgs[t] # << >> => pc[t] \in {"deal", "increase"}

(* conns names the thread that listens to a descriptor, but while its      *)
(* tcp_conn is made or cleaned.                                            *)
TableInv ==
  \A f \in Fds, t \in Threads :
    conns[f] = t <=> f \in listen_fds[t] /\ conn[t] # f

FiredInv ==
  \A t \in Threads : \A f \in fired[t] : f # evfd => conns[f] = t

(* send_task is at a thread only with a task to send. *)
SenderInv == sender # None => sent > 0

ThreadInv == ConnInv /\ TableInv /\ FiredInv /\ SenderInv

Entries == {f \in Fds : conns[f] # None}
CountInv == _curr_conns = Cardinality(Entries)

IInv == TypeOK /\ PlaceInv /\ ThreadInv /\ CountInv /\ TasksAreConserved

LEMMA EntriesAreFinite ==
  ASSUME TypeOK, CountInv
  PROVE  IsFiniteSet(Entries) /\ _curr_conns \in Nat
<1>1. Entries \in SUBSET Fds
  BY DEF Entries
<1>2. IsFiniteSet(Entries)
  BY <1>1, ServerAssumption, FS_Subset
<1> QED
  BY <1>2, FS_CardinalityType DEF CountInv

LEMMA InitIInv == Init => IInv
<1> SUFFICES ASSUME Init PROVE IInv
  OBVIOUS
<1>1. \A t \in Threads : queue[t] = << >> /\ msgs[t] = << >> /\ listen_fds[t] = {}
                        /\ fired[t] = {} /\ conn[t] = None /\ pc[t] = "epoll_wait"
  BY DEF Init
<1>2. TypeOK
  BY ServerAssumption DEF Init, TypeOK, Task
<1>3. PlaceInv
  BY <1>1, EmptyQueue, ServerAssumption
     DEF Init, PlaceInv, OpenInv, AcceptedInv, QueueInv, MsgsInv, LoopInv, OnceInv
<1>4. ThreadInv
  BY <1>1, ServerAssumption DEF Init, ThreadInv, ConnInv, TableInv, FiredInv, SenderInv, Threads
<1>5. CountInv
  <2>1. Entries = {}
    BY DEF Init, Entries
  <2> QED
    BY <2>1, FS_EmptySet DEF CountInv, Init
<1>6. TasksAreConserved
  <2>1. \A t \in Threads : executed[t] = 0 /\ Len(_ready_tasks[t]) = 0
    BY DEF Init
  <2>2. sender = None /\ sent = 0
    BY DEF Init
  <2> QED
    BY <1>1, <2>1, <2>2, EmptyQueue DEF TasksAreConserved
<1> QED
  BY <1>2, <1>3, <1>4, <1>5, <1>6 DEF IInv
-----------------------------------------------------------------------------
(* Every action keeps the types; increase_conn and clean_conn by ThreadInv. *)
LEMMA NextTypeOK ==
  ASSUME IInv, [Next]_vars PROVE TypeOK'
<1> USE DEF IInv, TypeOK
<1>a. /\ ThreadCnt \in Nat \ {0} /\ _max_conns \in Nat /\ MaxTasks \in Nat
      /\ None \notin Fds \cup Nat /\ evfd \notin Fds
  BY ServerAssumption
<1>1. ASSUME NEW f \in Fds, accept(f) PROVE TypeOK'
  BY <1>1 DEF accept, table, pool, tasks
<1>2. CASE get_thread
  <2>1. Turn \in Threads /\ Turn + 1 \in 0..ThreadCnt
    BY <1>a DEF Turn, Threads
  <2>2. NEW_CONN(accepted) \in Task
    BY <1>2, Messages DEF get_thread
  <2>3. queue' \in [Threads -> Seq(Task)]
    BY <1>2, <2>1, <2>2, Sent DEF get_thread
  <2> QED
    BY <1>2, <2>1, <2>3 DEF get_thread, table, pool, tasks
<1>3. CASE send_task
  BY <1>3, <1>a DEF send_task, main, table, pool, Threads
<1>4. CASE send_task_next
  <2>1. sender \in Threads /\ sender' \in Threads \cup {None}
    BY <1>4, <1>a DEF send_task_next, Threads
  <2>2. NEW_TASK(sent) \in Task
    BY <1>4, <1>a, Messages DEF send_task_next, ThreadInv, SenderInv
  <2>3. queue' \in [Threads -> Seq(Task)]
    BY <1>4, <2>1, <2>2, Sent DEF send_task_next
  <2> QED
    BY <1>4, <2>1, <2>3 DEF send_task_next, main, table, pool
<1>5. ASSUME NEW t \in Threads, NEW ends \in SUBSET Fds, epoll_wait(t, ends) PROVE TypeOK'
  <2>1. fired' \in [Threads -> SUBSET (Fds \cup {evfd})]
    BY <1>5 DEF epoll_wait
  <2> QED
    BY <1>5, <2>1 DEF epoll_wait, Step, main, table, tasks
<1>6. ASSUME NEW t \in Threads, deal_task(t) PROVE TypeOK'
  <2>1. /\ fired' \in [Threads -> SUBSET (Fds \cup {evfd})]
        /\ queue' \in [Threads -> Seq(Task)] /\ msgs' \in [Threads -> Seq(Task)]
    BY <1>6 DEF deal_task, Fire
  <2> QED
    BY <1>6, <2>1 DEF deal_task, Step, main, table, tasks
<1>7. ASSUME NEW t \in Threads, deal_conn(t) PROVE TypeOK'
  <2>1. Head(msgs[t]) \in Task /\ Tail(msgs[t]) \in Seq(Task)
    BY <1>7, Taken DEF deal_conn
  <2>2. Head(msgs[t]).arg \in Fds
    BY <1>7, <2>1, Messages DEF deal_conn
  <2>3. msgs' \in [Threads -> Seq(Task)]
    BY <1>7, <2>1 DEF deal_conn, Pop
  <2> QED
    BY <1>7, <2>2, <2>3 DEF deal_conn, Step, main, table, tasks
<1>8. ASSUME NEW t \in Threads, increase_conn(t) PROVE TypeOK'
  <2>1. conn[t] \in Fds
    BY <1>8 DEF increase_conn, ThreadInv, ConnInv
  <2> QED
    BY <1>8, <2>1 DEF increase_conn, Step, main, tasks
<1>9. ASSUME NEW t \in Threads, add_task(t) PROVE TypeOK'
  <2>1. Head(msgs[t]) \in Task /\ Tail(msgs[t]) \in Seq(Task)
    BY <1>9, Taken DEF add_task
  <2>2. Head(msgs[t]).arg \in 1..MaxTasks
    BY <1>9, <2>1, Messages DEF add_task
  <2>3. msgs' \in [Threads -> Seq(Task)]
    BY <1>9, <2>1 DEF add_task, Pop
  <2>4. _ready_tasks' \in [Threads -> Seq(1..MaxTasks)]
    BY <1>9, <2>2 DEF add_task
  <2> QED
    BY <1>9, <2>3, <2>4 DEF add_task, main, table, tasks
<1>10. ASSUME NEW t \in Threads, deal_done(t) PROVE TypeOK'
  BY <1>10 DEF deal_done, Step, main, table, tasks
<1>11. ASSUME NEW t \in Threads, NEW f \in Fds, clean_conn(t, f) PROVE TypeOK'
  <2>1. fired' \in [Threads -> SUBSET (Fds \cup {evfd})]
    BY <1>11 DEF clean_conn, Fire
  <2>2. _curr_conns' \in Nat
    <3>0. f # evfd /\ t # None
      BY <1>a DEF Threads
    <3>c. conns[f] = t
      BY <1>11, <3>0 DEF clean_conn, Fire, ThreadInv, FiredInv
    <3>1. f \in Entries
      BY <3>0, <3>c DEF Entries
    <3>2. IsFiniteSet(Entries) /\ _curr_conns = Cardinality(Entries) /\ Entries # {}
      BY <3>1, EntriesAreFinite DEF CountInv
    <3>3. _curr_conns # 0
      BY <3>2, FS_EmptySet
    <3> QED
      BY <1>11, <3>3 DEF clean_conn
  <2> QED
    BY <1>11, <2>1, <2>2 DEF clean_conn, Step, main, tasks
<1>12. ASSUME NEW t \in Threads, close_fd(t) PROVE TypeOK'
  BY <1>12 DEF close_fd, Step, main, table, tasks
<1>13. ASSUME NEW t \in Threads, execute_ready_tasks(t) PROVE TypeOK'
  <2>1. Len(_ready_tasks[t]) \in Nat
    OBVIOUS
  <2>2. executed' \in [Threads -> Nat]
    BY <1>13, <2>1 DEF execute_ready_tasks
  <2> QED
    BY <1>13, <2>2 DEF execute_ready_tasks, Step, main, table, tasks
<1>14. CASE UNCHANGED vars
  BY <1>14 DEF vars, main, table, pool, tasks
<1>15. ASSUME NEW t \in Threads, Thread(t) PROVE TypeOK'
  BY <1>5, <1>6, <1>7, <1>8, <1>9, <1>10, <1>11, <1>12, <1>13, <1>15 DEF Thread
<1> QED
  BY <1>1, <1>2, <1>3, <1>4, <1>5, <1>14, <1>15 DEF Next
-----------------------------------------------------------------------------
(* Every action moves a descriptor from one place to the next.             *)
LEMMA NextPlaceInv ==
  ASSUME IInv, [Next]_vars PROVE PlaceInv'
<1>a. /\ TypeOK /\ PlaceInv /\ ThreadInv
      /\ None \notin Fds /\ None \notin Threads /\ evfd \notin Fds
  BY ServerAssumption DEF IInv, Threads
<1>q. \A t \in Threads : queue[t] \in Seq(Task) /\ msgs[t] \in Seq(Task)
  BY <1>a DEF TypeOK
<1>u. ASSUME UNCHANGED <<open, accepted, queue, msgs, listen_fds>> PROVE PlaceInv'
  BY <1>a, <1>u DEF PlaceInv, OpenInv, AcceptedInv, QueueInv, MsgsInv, LoopInv, OnceInv
<1>1. ASSUME NEW f \in Fds, accept(f) PROVE PlaceInv'
  <2>1. UNCHANGED <<queue, msgs, listen_fds>>
    BY <1>1 DEF accept, pool
  <2>2. CASE UNCHANGED <<open, accepted>>
    BY <1>u, <2>1, <2>2
  <2>3. CASE open' = open \cup {f} /\ accepted' = f
    <3>1. f \notin open
      BY <1>1 DEF accept
    <3>2. OpenInv' /\ AcceptedInv'
      BY <1>a, <2>1, <2>3, <3>1 DEF PlaceInv, OpenInv, AcceptedInv
    <3> QED
      BY <1>a, <2>1, <3>2 DEF PlaceInv, QueueInv, MsgsInv, LoopInv, OnceInv
  <2> QED
    BY <1>1, <2>2, <2>3 DEF accept
<1>2. CASE get_thread
  <2> DEFINE f == accepted
             u == Turn
  <2>1. /\ f \in Fds /\ u \in Threads /\ NEW_CONN(f) \in Task
        /\ accepted' = None /\ queue' = [queue EXCEPT ![u] = Append(@, NEW_CONN(f))]
        /\ UNCHANGED <<open, msgs, listen_fds>>
    <3>1. f \in Fds
      BY <1>2, <1>a DEF get_thread, TypeOK
    <3>2. u \in Threads
      BY <1>a, ServerAssumption DEF Turn, Threads, TypeOK
    <3> QED
      BY <1>2, <3>1, <3>2, Messages DEF get_thread, pool
  <2> HIDE DEF u
  <2>2. /\ \A t \in Threads : t # u => queue'[t] = queue[t]
        /\ queue'[u] = Append(queue[u], NEW_CONN(f))
    BY <1>a, <2>1 DEF TypeOK
  <2>3. \A g : Has(queue'[u], g) <=> Has(queue[u], g) \/ g = f
    BY <1>q, <2>1, <2>2, Sent, Messages
  <2>4. \A t \in Threads : ~Has(queue[t], f) /\ ~Has(msgs[t], f) /\ f \notin listen_fds[t]
    BY <1>a, <2>1 DEF PlaceInv, AcceptedInv
  <2>5. Once(queue'[u])
    <3>1. \A g : NEW_CONN(f) = NEW_CONN(g) => ~Has(queue[u], g)
      BY <2>1, <2>4, Messages
    <3>2. Once(queue[u])
      BY <1>a, <2>1 DEF PlaceInv, OnceInv
    <3> QED
      BY <1>q, <2>1, <2>2, <3>1, <3>2, Sent
  <2>6. f \in open
    BY <1>a, <2>1 DEF PlaceInv, OpenInv
  <2>7. OpenInv' /\ AcceptedInv'
    BY <1>a, <2>1, <2>2, <2>3, <2>6 DEF PlaceInv, OpenInv, AcceptedInv
  <2>8. QueueInv'
    BY <1>a, <2>1, <2>2, <2>3, <2>4 DEF PlaceInv, QueueInv
  <2>9. MsgsInv' /\ LoopInv' /\ OnceInv'
    BY <1>a, <2>1, <2>2, <2>5 DEF PlaceInv, MsgsInv, LoopInv, OnceInv
  <2> QED
    BY <2>7, <2>8, <2>9 DEF PlaceInv
<1>3. CASE send_task
  BY <1>3, <1>u DEF send_task, main, pool
<1>4. CASE send_task_next
  <2> DEFINE u == sender
  <2>1. /\ u \in Threads /\ NEW_TASK(sent) \in Task
        /\ queue' = [queue EXCEPT ![u] = Append(@, NEW_TASK(sent))]
        /\ UNCHANGED <<open, accepted, msgs, listen_fds>>
    <3>1. sent \in 1..MaxTasks
      BY <1>4, <1>a, ServerAssumption DEF send_task_next, TypeOK, ThreadInv, SenderInv
    <3>2. u \in Threads
      BY <1>4, <1>a DEF send_task_next, TypeOK
    <3> QED
      BY <1>4, <3>1, <3>2, Messages DEF send_task_next, main, pool
  <2>2. /\ \A t \in Threads : t # u => queue'[t] = queue[t]
        /\ queue'[u] = Append(queue[u], NEW_TASK(sent))
    BY <1>a, <2>1 DEF TypeOK
  <2> HIDE DEF u
  <2>3. \A g : Has(queue'[u], g) <=> Has(queue[u], g)
    BY <1>q, <2>1, <2>2, Sent, Messages
  <2>4. Once(queue'[u])
    BY <1>a, <1>q, <2>1, <2>2, Sent, Messages DEF PlaceInv, OnceInv
  <2>5. \A t \in Threads : \A g : Has(queue'[t], g) <=> Has(queue[t], g)
    BY <2>2, <2>3
  <2> QED
    BY <1>a, <2>1, <2>2, <2>4, <2>5
       DEF PlaceInv, OpenInv, AcceptedInv, QueueInv, MsgsInv, LoopInv, OnceInv
<1>5. ASSUME NEW t \in Threads, NEW ends \in SUBSET Fds, epoll_wait(t, ends) PROVE PlaceInv'
  BY <1>5, <1>u DEF epoll_wait, main
<1>6. ASSUME NEW t \in Threads, deal_task(t) PROVE PlaceInv'
  <2>1. /\ queue' = [queue EXCEPT ![t] = << >>] /\ msgs' = [msgs EXCEPT ![t] = queue[t]]
        /\ UNCHANGED <<open, accepted, listen_fds>>
    BY <1>6 DEF deal_task, main
  <2>2. /\ queue'[t] = << >> /\ msgs'[t] = queue[t]
        /\ \A s \in Threads : s # t => queue'[s] = queue[s] /\ msgs'[s] = msgs[s]
    BY <1>a, <2>1 DEF TypeOK
  <2>3. \A s \in Threads : \A g :
          /\ Has(queue'[s], g) <=> s # t /\ Has(queue[s], g)
          /\ Has(msgs'[s], g) => Has(msgs[s], g) \/ (s = t /\ Has(queue[t], g))
    BY <2>2, EmptyQueue
  <2>4. OnceInv'
    BY <1>a, <2>2, EmptyQueue DEF PlaceInv, OnceInv
  <2>5. msgs[t] = << >>
    BY <1>6, <1>a DEF deal_task, Fire, ThreadInv, ConnInv
  <2>6. OpenInv' /\ AcceptedInv'
    BY <1>a, <2>1, <2>3 DEF PlaceInv, OpenInv, AcceptedInv
  <2>7. QueueInv'
    BY <1>a, <2>1, <2>3 DEF PlaceInv, QueueInv
  <2>8. MsgsInv'
    <3>1. \A g : ~Has(msgs[t], g)
      BY <2>5, EmptyQueue
    <3> QED
      BY <1>a, <2>1, <2>3, <3>1 DEF PlaceInv, QueueInv, MsgsInv
  <2> QED
    BY <1>a, <2>1, <2>4, <2>6, <2>7, <2>8 DEF PlaceInv, LoopInv
<1>7. ASSUME NEW t \in Threads, deal_conn(t) PROVE PlaceInv'
  <2> DEFINE f == Head(msgs[t]).arg
  <2>1. /\ f \in Fds /\ Head(msgs[t]) = NEW_CONN(f) /\ msgs[t] # << >>
        /\ msgs' = [msgs EXCEPT ![t] = Tail(@)]
        /\ listen_fds' = [listen_fds EXCEPT ![t] = @ \cup {f}]
        /\ UNCHANGED <<open, accepted, queue>>
    <3>1. msgs[t] # << >> /\ Head(msgs[t]) \in Task /\ Head(msgs[t]).type = "NEW_CONN"
      BY <1>7, <1>q, Taken DEF deal_conn
    <3>2. f \in Fds /\ Head(msgs[t]) = NEW_CONN(f)
      BY <3>1, Messages
    <3> QED
      BY <1>7, <3>1, <3>2 DEF deal_conn, Pop, main
  <2> HIDE DEF f
  <2>2. /\ msgs'[t] = Tail(msgs[t]) /\ listen_fds'[t] = listen_fds[t] \cup {f}
        /\ \A s \in Threads : s # t => msgs'[s] = msgs[s] /\ listen_fds'[s] = listen_fds[s]
    BY <1>a, <2>1 DEF TypeOK
  <2>3. /\ Once(msgs'[t]) /\ ~Has(msgs'[t], f) /\ Has(msgs[t], f)
        /\ \A g : Has(msgs'[t], g) => Has(msgs[t], g)
    <3>1. Once(msgs[t])
      BY <1>a DEF PlaceInv, OnceInv
    <3> QED
      BY <1>q, <2>1, <2>2, <3>1, Taken
  <2>4. /\ \A s \in Threads : ~Has(queue[s], f) /\ ~Has(msgs'[s], f) /\ f \notin listen_fds[s]
        /\ f \in open /\ accepted # f
    BY <1>a, <2>1, <2>2, <2>3 DEF PlaceInv, OpenInv, AcceptedInv, QueueInv, MsgsInv
  <2>5. \A s \in Threads : \A g :
          /\ Has(msgs'[s], g) => Has(msgs[s], g)
          /\ g \in listen_fds'[s] <=> g \in listen_fds[s] \/ (s = t /\ g = f)
    BY <2>2, <2>3
  <2>6. OpenInv' /\ AcceptedInv'
    BY <1>a, <2>1, <2>4, <2>5 DEF PlaceInv, OpenInv, AcceptedInv
  <2>7. QueueInv' /\ MsgsInv'
    BY <1>a, <2>1, <2>4, <2>5 DEF PlaceInv, QueueInv, MsgsInv
  <2>8. LoopInv'
    BY <1>a, <2>4, <2>5 DEF PlaceInv, LoopInv
  <2>9. OnceInv'
    BY <1>a, <2>1, <2>2, <2>3 DEF PlaceInv, OnceInv
  <2> QED
    BY <2>6, <2>7, <2>8, <2>9 DEF PlaceInv
<1>8. ASSUME NEW t \in Threads, increase_conn(t) PROVE PlaceInv'
  BY <1>8, <1>u DEF increase_conn, main
<1>9. ASSUME NEW t \in Threads, add_task(t) PROVE PlaceInv'
  <2>1. /\ msgs[t] # << >> /\ msgs' = [msgs EXCEPT ![t] = Tail(@)]
        /\ UNCHANGED <<open, accepted, queue, listen_fds>>
    BY <1>9 DEF add_task, Pop, main
  <2>2. /\ msgs'[t] = Tail(msgs[t])
        /\ \A s \in Threads : s # t => msgs'[s] = msgs[s]
    BY <1>a, <2>1 DEF TypeOK
  <2>3. Once(msgs[t])
    BY <1>a DEF PlaceInv, OnceInv
  <2>4. Once(msgs'[t]) /\ \A g : Has(msgs'[t], g) => Has(msgs[t], g)
    BY <1>q, <2>1, <2>2, <2>3, Taken
  <2>5. \A s \in Threads : \A g : Has(msgs'[s], g) => Has(msgs[s], g)
    BY <2>2, <2>4
  <2> QED
    BY <1>a, <2>1, <2>2, <2>4, <2>5
       DEF PlaceInv, OpenInv, AcceptedInv, QueueInv, MsgsInv, LoopInv, OnceInv
<1>10. ASSUME NEW t \in Threads, deal_done(t) PROVE PlaceInv'
  BY <1>10, <1>u DEF deal_done, main
<1>11. ASSUME NEW t \in Threads, NEW f \in Fds, clean_conn(t, f) PROVE PlaceInv'
  BY <1>11, <1>u DEF clean_conn, main
<1>12. ASSUME NEW t \in Threads, close_fd(t) PROVE PlaceInv'
  <2> DEFINE f == conn[t]
  <2>1. /\ f \in Fds /\ f \in listen_fds[t]
        /\ listen_fds' = [listen_fds EXCEPT ![t] = @ \ {f}] /\ open' = open \ {f}
        /\ UNCHANGED <<accepted, queue, msgs>>
    <3>1. f # None
      BY <1>12, <1>a DEF close_fd, ThreadInv, ConnInv
    <3>2. f \in Fds /\ f \in listen_fds[t]
      BY <1>a, <3>1 DEF ThreadInv, ConnInv, TypeOK
    <3> QED
      BY <1>12, <3>2 DEF close_fd, main
  <2> HIDE DEF f
  <2>2. \A s \in Threads : \A g :
          g \in listen_fds'[s] <=> g \in listen_fds[s] /\ ~(s = t /\ g = f)
    BY <1>a, <2>1 DEF TypeOK
  <2>3. /\ accepted # f
        /\ \A s \in Threads : /\ ~Has(queue[s], f) /\ ~Has(msgs[s], f)
                              /\ s # t => f \notin listen_fds[s]
    BY <1>a, <2>1 DEF PlaceInv, AcceptedInv, QueueInv, MsgsInv, LoopInv
  <2>4. OpenInv'
    BY <1>a, <2>1, <2>2, <2>3 DEF PlaceInv, OpenInv
  <2> QED
    BY <1>a, <2>1, <2>2, <2>4 DEF PlaceInv, AcceptedInv, QueueInv, MsgsInv, LoopInv, OnceInv
<1>13. ASSUME NEW t \in Threads, execute_ready_tasks(t) PROVE PlaceInv'
  BY <1>13, <1>u DEF execute_ready_tasks, main
<1>14. CASE UNCHANGED vars
  BY <1>14, <1>u DEF vars, main, pool
<1>15. ASSUME NEW t \in Threads, Thread(t) PROVE PlaceInv'
  BY <1>5, <1>6, <1>7, <1>8, <1>9, <1>10, <1>11, <1>12, <1>13, <1>15 DEF Thread
<1> QED
  BY <1>1, <1>2, <1>3, <1>4, <1>5, <1>14, <1>15 DEF Next
-----------------------------------------------------------------------------
(* The table follows the loops.                                            *)
LEMMA NextThreadInv ==
  ASSUME IInv, [Next]_vars PROVE ThreadInv'
<1>a. /\ TypeOK /\ PlaceInv /\ ConnInv /\ TableInv /\ FiredInv /\ SenderInv
      /\ None \notin Fds /\ None \notin Threads /\ evfd \notin Fds
  BY ServerAssumption DEF IInv, Threads, ThreadInv
<1>q. /\ \A t \in Threads : queue[t] \in Seq(Task) /\ msgs[t] \in Seq(Task)
      /\ sent \in Nat
  BY <1>a, ServerAssumption DEF TypeOK
<1>u. ASSUME UNCHANGED <<pc, conn, msgs, listen_fds, conns, fired>>, SenderInv'
      PROVE  ThreadInv'
  BY <1>a, <1>u DEF ThreadInv, ConnInv, TableInv, FiredInv
<1>s. ASSUME UNCHANGED <<sender, sent>> PROVE SenderInv'
  BY <1>a, <1>s DEF SenderInv
<1>1. ASSUME NEW f \in Fds, accept(f) PROVE ThreadInv'
  BY <1>1, <1>u, <1>s DEF accept, table, pool, tasks
<1>2. CASE get_thread
  BY <1>2, <1>u, <1>s DEF get_thread, table, pool, tasks
<1>3. CASE send_task
  <2>1. SenderInv'
    BY <1>3, <1>q DEF send_task, SenderInv
  <2> QED
    BY <1>3, <1>u, <2>1 DEF send_task, table, pool
<1>4. CASE send_task_next
  <2>1. SenderInv'
    BY <1>4, <1>a DEF send_task_next, SenderInv
  <2> QED
    BY <1>4, <1>u, <2>1 DEF send_task_next, table, pool
<1>5. ASSUME NEW t \in Threads, NEW ends \in SUBSET Fds, epoll_wait(t, ends) PROVE ThreadInv'
  <2>1. /\ pc[t] = "epoll_wait" /\ pc' = [pc EXCEPT ![t] = "round"]
        /\ ends \subseteq listen_fds[t]
        /\ UNCHANGED <<conn, msgs, listen_fds, conns, sender, sent>>
    BY <1>5 DEF epoll_wait, Step, table, tasks
  <2>2. ConnInv' /\ conn[t] = None
    BY <1>a, <2>1 DEF ConnInv, TypeOK
  <2>3. TableInv'
    BY <1>a, <2>1 DEF TableInv
  <2>4. \A f \in fired'[t] : f # evfd => f \in ends
    BY <1>5, <1>a DEF epoll_wait, TypeOK
  <2>5. \A f \in ends : conns[f] = t
    BY <1>a, <2>1, <2>2 DEF TableInv
  <2>6. \A s \in Threads : s # t => fired'[s] = fired[s]
    BY <1>5, <1>a DEF epoll_wait, TypeOK
  <2>7. FiredInv'
    BY <1>a, <2>1, <2>4, <2>5, <2>6 DEF FiredInv
  <2> QED
    BY <1>s, <2>1, <2>2, <2>3, <2>7 DEF ThreadInv
<1>6. ASSUME NEW t \in Threads, deal_task(t) PROVE ThreadInv'
  <2>1. /\ pc[t] = "round" /\ pc' = [pc EXCEPT ![t] = "deal"]
        /\ msgs' = [msgs EXCEPT ![t] = queue[t]]
        /\ fired' = [fired EXCEPT ![t] = @ \ {evfd}]
        /\ UNCHANGED <<conn, listen_fds, conns, sender, sent>>
    BY <1>6 DEF deal_task, Fire, Step, table, tasks
  <2>2. ConnInv'
    BY <1>a, <2>1 DEF ConnInv, TypeOK
  <2>3. TableInv'
    BY <1>a, <2>1 DEF TableInv
  <2>4. FiredInv'
    BY <1>a, <2>1 DEF FiredInv, TypeOK
  <2> QED
    BY <1>s, <2>1, <2>2, <2>3, <2>4 DEF ThreadInv
<1>7. ASSUME NEW t \in Threads, deal_conn(t) PROVE ThreadInv'
  <2> DEFINE f == Head(msgs[t]).arg
  <2>1. /\ pc[t] = "deal" /\ pc' = [pc EXCEPT ![t] = "increase"]
        /\ msgs' = [msgs EXCEPT ![t] = Tail(@)]
        /\ listen_fds' = [listen_fds EXCEPT ![t] = @ \cup {f}]
        /\ conn' = [conn EXCEPT ![t] = f]
        /\ UNCHANGED <<conns, fired, sender, sent>>
    BY <1>7 DEF deal_conn, Pop, Step, table, tasks
  <2>2. f \in Fds /\ Has(msgs[t], f)
    <3>1. /\ msgs[t] # << >> /\ Head(msgs[t]) \in Task /\ Head(msgs[t]).type = "NEW_CONN"
      BY <1>7, <1>q, Taken DEF deal_conn
    <3>2. f \in Fds /\ Head(msgs[t]) = NEW_CONN(f)
      BY <3>1, Messages
    <3> QED
      BY <1>q, <3>1, <3>2, Taken
  <2> HIDE DEF f
  <2>3. \A s \in Threads : f \notin listen_fds[s]
    BY <1>a, <2>2 DEF PlaceInv, MsgsInv
  <2>4. /\ conn'[t] = f /\ listen_fds'[t] = listen_fds[t] \cup {f} /\ pc'[t] = "increase"
        /\ \A s \in Threads : s # t => /\ conn'[s] = conn[s] /\ pc'[s] = pc[s]
                                       /\ listen_fds'[s] = listen_fds[s]
                                       /\ msgs'[s] = msgs[s]
    BY <1>a, <2>1 DEF TypeOK
  <2>5. conn[t] = None
    BY <1>a, <2>1 DEF ConnInv
  <2>6. ConnInv'
    BY <1>a, <2>2, <2>4 DEF ConnInv
  <2>7. TableInv'
    BY <1>a, <2>1, <2>3, <2>4, <2>5 DEF TableInv
  <2>8. FiredInv'
    BY <1>a, <2>1 DEF FiredInv
  <2> QED
    BY <1>s, <2>1, <2>6, <2>7, <2>8 DEF ThreadInv
<1>8. ASSUME NEW t \in Threads, increase_conn(t) PROVE ThreadInv'
  <2> DEFINE f == conn[t]
  <2>1. /\ pc[t] = "increase" /\ pc' = [pc EXCEPT ![t] = "deal"]
        /\ conns' = [conns EXCEPT ![f] = t]
        /\ conn' = [conn EXCEPT ![t] = None]
        /\ UNCHANGED <<msgs, listen_fds, fired, sender, sent>>
    BY <1>8 DEF increase_conn, Step, tasks
  <2>2. f \in Fds /\ f \in listen_fds[t] /\ f = conn[t]
    BY <1>a, <2>1 DEF ConnInv, TypeOK
  <2> HIDE DEF f
  <2>3. /\ conns'[f] = t /\ conn'[t] = None /\ pc'[t] = "deal"
        /\ \A g \in Fds : g # f => conns'[g] = conns[g]
        /\ \A s \in Threads : s # t => conn'[s] = conn[s] /\ pc'[s] = pc[s]
    BY <1>a, <2>1, <2>2 DEF TypeOK
  <2>4. \A s \in Threads : /\ f \in listen_fds[s] => s = t
                           /\ conns[f] # s
    BY <1>a, <2>2 DEF PlaceInv, LoopInv, TableInv
  <2>5. ConnInv'
    BY <1>a, <2>1, <2>3 DEF ConnInv
  <2>6. TableInv'
    BY <1>a, <2>1, <2>2, <2>3, <2>4 DEF TableInv
  <2>7. FiredInv'
    <3> SUFFICES ASSUME NEW s \in Threads, NEW g \in fired[s], g # evfd PROVE conns'[g] = s
      BY <2>1 DEF FiredInv
    <3>1. conns[g] = s /\ g \in Fds
      BY <1>a DEF FiredInv, TypeOK
    <3> QED
      BY <2>3, <2>4, <3>1
  <2> QED
    BY <1>s, <2>1, <2>5, <2>6, <2>7 DEF ThreadInv
<1>9. ASSUME NEW t \in Threads, add_task(t) PROVE ThreadInv'
  <2>1. /\ pc[t] = "deal" /\ msgs' = [msgs EXCEPT ![t] = Tail(@)]
        /\ UNCHANGED <<pc, conn, listen_fds, conns, fired, sender, sent>>
    BY <1>9 DEF add_task, Pop, table, tasks
  <2>2. ConnInv'
    BY <1>a, <2>1 DEF ConnInv, TypeOK
  <2> QED
    BY <1>a, <1>s, <2>1, <2>2 DEF ThreadInv, TableInv, FiredInv
<1>10. ASSUME NEW t \in Threads, deal_done(t) PROVE ThreadInv'
  <2>1. /\ pc[t] = "deal" /\ msgs[t] = << >> /\ pc' = [pc EXCEPT ![t] = "round"]
        /\ UNCHANGED <<msgs, conn, listen_fds, conns, fired, sender, sent>>
    BY <1>10 DEF deal_done, Step, table, tasks
  <2>2. ConnInv'
    BY <1>a, <2>1 DEF ConnInv, TypeOK
  <2> QED
    BY <1>a, <1>s, <2>1, <2>2 DEF ThreadInv, TableInv, FiredInv
<1>11. ASSUME NEW t \in Threads, NEW f \in Fds, clean_conn(t, f) PROVE ThreadInv'
  <2>1. /\ pc[t] = "round" /\ pc' = [pc EXCEPT ![t] = "close"] /\ f \in fired[t]
        /\ fired' = [fired EXCEPT ![t] = @ \ {f}]
        /\ conns' = [conns EXCEPT ![f] = None] /\ conn' = [conn EXCEPT ![t] = f]
        /\ UNCHANGED <<msgs, listen_fds, sender, sent>>
    BY <1>11 DEF clean_conn, Fire, Step, tasks
  <2>2. conns[f] = t /\ f # None
    BY <1>a, <2>1 DEF FiredInv
  <2>3. f \in listen_fds[t] /\ conn[t] = None
    BY <1>a, <2>1, <2>2 DEF TableInv, ConnInv
  <2>4. /\ conns'[f] = None /\ conn'[t] = f /\ pc'[t] = "close" /\ fired'[t] = fired[t] \ {f}
        /\ \A g \in Fds : g # f => conns'[g] = conns[g]
        /\ \A s \in Threads : s # t => /\ conn'[s] = conn[s] /\ pc'[s] = pc[s]
                                       /\ fired'[s] = fired[s]
    BY <1>a, <2>1 DEF TypeOK
  <2>5. \A s \in Threads : f \in listen_fds[s] => s = t
    BY <1>a, <2>3 DEF PlaceInv, LoopInv
  <2>6. ConnInv'
    BY <1>a, <2>1, <2>2, <2>3, <2>4 DEF ConnInv
  <2>7. TableInv'
    BY <1>a, <2>1, <2>3, <2>4, <2>5 DEF TableInv
  <2>8. FiredInv'
    <3> SUFFICES ASSUME NEW s \in Threads, NEW g \in fired'[s], g # evfd PROVE conns'[g] = s
      BY DEF FiredInv
    <3>1. g \in fired[s] /\ ~(s = t /\ g = f)
      BY <2>4
    <3>2. conns[g] = s /\ g \in Fds
      BY <1>a, <3>1 DEF FiredInv, TypeOK
    <3> QED
      BY <2>2, <2>4, <3>1, <3>2
  <2> QED
    BY <1>s, <2>1, <2>6, <2>7, <2>8 DEF ThreadInv
<1>12. ASSUME NEW t \in Threads, close_fd(t) PROVE ThreadInv'
  <2> DEFINE f == conn[t]
  <2>1. /\ pc[t] = "close" /\ pc' = [pc EXCEPT ![t] = "round"]
        /\ listen_fds' = [listen_fds EXCEPT ![t] = @ \ {f}]
        /\ conn' = [conn EXCEPT ![t] = None]
        /\ UNCHANGED <<msgs, conns, fired, sender, sent>>
    BY <1>12 DEF close_fd, Step, table, tasks
  <2>2. f = conn[t]
    OBVIOUS
  <2> HIDE DEF f
  <2>3. /\ conn'[t] = None /\ pc'[t] = "round" /\ listen_fds'[t] = listen_fds[t] \ {f}
        /\ \A s \in Threads : s # t => /\ conn'[s] = conn[s] /\ pc'[s] = pc[s]
                                       /\ listen_fds'[s] = listen_fds[s]
    BY <1>a, <2>1 DEF TypeOK
  <2>4. ConnInv'
    BY <1>a, <2>1, <2>3 DEF ConnInv
  <2>5. TableInv'
    BY <1>a, <2>1, <2>2, <2>3 DEF TableInv
  <2>6. FiredInv'
    BY <1>a, <2>1 DEF FiredInv
  <2> QED
    BY <1>s, <2>1, <2>4, <2>5, <2>6 DEF ThreadInv
<1>13. ASSUME NEW t \in Threads, execute_ready_tasks(t) PROVE ThreadInv'
  <2>1. /\ pc[t] = "round" /\ pc' = [pc EXCEPT ![t] = "epoll_wait"]
        /\ UNCHANGED <<msgs, conn, listen_fds, conns, fired, sender, sent>>
    BY <1>13 DEF execute_ready_tasks, Step, table, tasks
  <2>2. ConnInv'
    BY <1>a, <2>1 DEF ConnInv, TypeOK
  <2> QED
    BY <1>a, <1>s, <2>1, <2>2 DEF ThreadInv, TableInv, FiredInv
<1>14. CASE UNCHANGED vars
  BY <1>14, <1>u, <1>s DEF vars, table, pool, tasks
<1>15. ASSUME NEW t \in Threads, Thread(t) PROVE ThreadInv'
  BY <1>5, <1>6, <1>7, <1>8, <1>9, <1>10, <1>11, <1>12, <1>13, <1>15 DEF Thread
<1> QED
  BY <1>1, <1>2, <1>3, <1>4, <1>5, <1>14, <1>15 DEF Next
-----------------------------------------------------------------------------
(* increase_conn adds an entry that was not there, clean_conn removes one  *)
(* that was.                                                               *)
LEMMA NextCountInv ==
  ASSUME IInv, [Next]_vars PROVE CountInv'
<1>a. /\ TypeOK /\ PlaceInv /\ ConnInv /\ TableInv /\ FiredInv
      /\ None \notin Fds /\ None \notin Threads /\ evfd \notin Fds
  BY ServerAssumption DEF IInv, Threads, ThreadInv
<1>f. IsFiniteSet(Entries) /\ _curr_conns = Cardinality(Entries) /\ _curr_conns \in Nat
  BY EntriesAreFinite DEF IInv, CountInv
<1>u. ASSUME UNCHANGED <<conns, _curr_conns>> PROVE CountInv'
  <2>1. Entries' = Entries
    BY <1>u DEF Entries
  <2> QED
    BY <1>f, <1>u, <2>1 DEF CountInv
<1>1. ASSUME NEW t \in Threads, increase_conn(t) PROVE CountInv'
  <2>1. /\ conn[t] \in Fds /\ conn[t] \in listen_fds[t]
        /\ conns' = [conns EXCEPT ![conn[t]] = t] /\ _curr_conns' = _curr_conns + 1
    BY <1>1, <1>a DEF increase_conn, ConnInv, TypeOK
  <2>2. conn[t] \notin Entries
    BY <1>a, <2>1 DEF Entries, TypeOK, PlaceInv, LoopInv, TableInv
  <2>3. Entries' = Entries \cup {conn[t]}
    BY <1>a, <2>1 DEF Entries, TypeOK
  <2>4. Cardinality(Entries') = Cardinality(Entries) + 1
    BY <1>f, <2>2, <2>3, FS_AddElement
  <2> QED
    BY <1>f, <2>1, <2>4 DEF CountInv
<1>2. ASSUME NEW t \in Threads, NEW f \in Fds, clean_conn(t, f) PROVE CountInv'
  <2>1. conns' = [conns EXCEPT ![f] = None] /\ _curr_conns' = _curr_conns - 1
    BY <1>2 DEF clean_conn
  <2>2. f # evfd /\ f \in fired[t] /\ t # None
    BY <1>2, <1>a DEF clean_conn, Fire
  <2>3. conns[f] = t
    BY <1>a, <2>2 DEF FiredInv
  <2>4. f \in Entries
    BY <2>2, <2>3 DEF Entries
  <2>5. Entries' = Entries \ {f}
    BY <1>a, <2>1 DEF Entries, TypeOK
  <2>6. Cardinality(Entries') = Cardinality(Entries) - 1
    BY <1>f, <2>4, <2>5, FS_RemoveElement
  <2> QED
    BY <1>f, <2>1, <2>6 DEF CountInv
<1>3. ASSUME NEW f \in Fds, accept(f) PROVE CountInv'
  BY <1>3, <1>u DEF accept, table
<1>4. CASE get_thread \/ send_task \/ send_task_next
  BY <1>4, <1>u DEF get_thread, send_task, send_task_next, table
<1>5. ASSUME NEW t \in Threads, NEW ends \in SUBSET Fds, epoll_wait(t, ends) PROVE CountInv'
  BY <1>5, <1>u DEF epoll_wait, table
<1>6. ASSUME NEW t \in Threads,
             \/ deal_task(t) \/ deal_conn(t) \/ add_task(t) \/ deal_done(t)
             \/ close_fd(t) \/ execute_ready_tasks(t)
      PROVE  CountInv'
  BY <1>6, <1>u DEF deal_task, deal_conn, add_task, deal_done, close_fd,
                    execute_ready_tasks, table
<1>7. CASE UNCHANGED vars
  BY <1>7, <1>u DEF vars, table
<1>8. ASSUME NEW t \in Threads, Thread(t) PROVE CountInv'
  BY <1>1, <1>2, <1>5, <1>6, <1>8 DEF Thread
<1> QED
  BY <1>3, <1>4, <1>5, <1>7, <1>8 DEF Next
-----------------------------------------------------------------------------
(* The tasks of thread t, and how many of them send_task has sent it. *)
Got(t) == executed[t] + Len(_ready_tasks[t]) + Tasks(msgs[t]) + Tasks(queue[t])
Given(t) == IF sender # None /\ sender <= t THEN sent - 1 ELSE sent

(* What adds up in TasksAreConserved are numbers.                          *)
LEMMA TaskCounts ==
  ASSUME TypeOK, NEW t \in Threads
  PROVE  /\ Tasks(queue[t]) \in Nat /\ Tasks(msgs[t]) \in Nat
         /\ Len(_ready_tasks[t]) \in Nat /\ executed[t] \in Nat /\ sent \in Nat
<1>1. ASSUME NEW q \in Seq(Task) PROVE Tasks(q) \in Nat
  <2>1. CASE q = << >>
    BY <2>1, EmptyQueue
  <2>2. CASE q # << >>
    <3>1. /\ Tasks(Tail(q)) \in Nat
          /\ Tasks(q) = Tasks(Tail(q)) + (IF Head(q).type = "NEW_TASK" THEN 1 ELSE 0)
      BY <2>2, Taken
    <3> QED
      BY <3>1
  <2> QED
    BY <2>1, <2>2
<1>2. queue[t] \in Seq(Task) /\ msgs[t] \in Seq(Task) /\ _ready_tasks[t] \in Seq(1..MaxTasks)
  BY DEF TypeOK
<1>3. Len(_ready_tasks[t]) \in Nat
  BY <1>2
<1>4. executed[t] \in Nat /\ sent \in Nat
  BY ServerAssumption DEF TypeOK
<1> QED
  BY <1>1, <1>2, <1>3, <1>4

(* Every task goes from queue to batch to loop to execution.               *)
LEMMA NextTasks ==
  ASSUME IInv, [Next]_vars PROVE TasksAreConserved'
<1>a. /\ TypeOK /\ ConnInv /\ SenderInv /\ \A t \in Threads : Got(t) = Given(t)
  BY DEF IInv, ThreadInv, TasksAreConserved, Got, Given
<1>q. /\ \A t \in Threads : queue[t] \in Seq(Task) /\ msgs[t] \in Seq(Task)
      /\ None \notin Nat /\ Threads = 0..ThreadCnt-1 /\ ThreadCnt \in Nat
  BY <1>a, ServerAssumption DEF TypeOK, Threads
<1>n. \A t \in Threads : /\ Tasks(queue[t]) \in Nat /\ Tasks(msgs[t]) \in Nat
                         /\ Len(_ready_tasks[t]) \in Nat /\ executed[t] \in Nat
                         /\ sent \in Nat
  BY <1>a, TaskCounts
<1> SUFFICES \A t \in Threads : Got(t)' = Given(t)'
  BY DEF TasksAreConserved, Got, Given
<1>u. ASSUME UNCHANGED <<executed, _ready_tasks, msgs, queue, sender, sent>>
      PROVE  \A t \in Threads : Got(t)' = Given(t)'
  BY <1>a, <1>u DEF Got, Given
<1>1. ASSUME NEW f \in Fds, accept(f) PROVE \A t \in Threads : Got(t)' = Given(t)'
  BY <1>1, <1>u DEF accept, pool, tasks
<1>2. CASE get_thread
  <2>1. /\ Turn \in Threads /\ NEW_CONN(accepted) \in Task
        /\ queue' = [queue EXCEPT ![Turn] = Append(@, NEW_CONN(accepted))]
        /\ UNCHANGED <<executed, _ready_tasks, msgs, sender, sent>>
    <3>1. accepted \in Fds
      BY <1>2, <1>a DEF get_thread, TypeOK
    <3>2. Turn \in Threads
      BY <1>a, ServerAssumption DEF Turn, Threads, TypeOK
    <3> QED
      BY <1>2, <3>1, <3>2, Messages DEF get_thread, pool, tasks
  <2>2. /\ queue'[Turn] = Append(queue[Turn], NEW_CONN(accepted))
        /\ \A t \in Threads : t # Turn => queue'[t] = queue[t]
    BY <1>a, <2>1 DEF TypeOK
  <2>3. Tasks(queue'[Turn]) = Tasks(queue[Turn]) + 0
    BY <1>q, <2>1, <2>2, Sent, Messages
  <2>4. \A t \in Threads : Tasks(queue'[t]) = Tasks(queue[t])
    BY <1>n, <2>1, <2>2, <2>3
  <2> QED
    BY <1>a, <2>1, <2>4 DEF Got, Given
<1>3. CASE send_task
  <2>1. /\ sender = None /\ sender' = 0 /\ sent' = sent + 1
        /\ UNCHANGED <<executed, _ready_tasks, msgs, queue>>
    BY <1>3 DEF send_task, pool
  <2>2. \A t \in Threads : Given(t) = sent /\ Given(t)' = sent
    BY <1>n, <1>q, <2>1 DEF Given
  <2> QED
    BY <1>a, <2>1, <2>2 DEF Got
<1>4. CASE send_task_next
  <2>1. /\ sender \in Threads /\ NEW_TASK(sent) \in Task /\ sent \in Nat
        /\ queue' = [queue EXCEPT ![sender] = Append(@, NEW_TASK(sent))]
        /\ sender' = IF sender + 1 = ThreadCnt THEN None ELSE sender + 1
        /\ UNCHANGED <<executed, _ready_tasks, msgs, sent>>
    <3>1. sent \in 1..MaxTasks
      BY <1>4, <1>a, ServerAssumption DEF send_task_next, TypeOK, SenderInv
    <3>2. sender \in Threads
      BY <1>4, <1>a DEF send_task_next, TypeOK
    <3> QED
      BY <1>4, <3>1, <3>2, Messages DEF send_task_next, pool
  <2>2. /\ queue'[sender] = Append(queue[sender], NEW_TASK(sent))
        /\ \A t \in Threads : t # sender => queue'[t] = queue[t]
    BY <1>a, <2>1 DEF TypeOK
  <2>3. Tasks(queue'[sender]) = Tasks(queue[sender]) + 1
    BY <1>q, <2>1, <2>2, Sent, Messages
  <2>4. /\ Given(sender) = sent - 1 /\ (sender + 1 # ThreadCnt => sender' # None)
        /\ \A t \in Threads : t > sender => sender + 1 # ThreadCnt
    BY <1>q, <2>1 DEF Given
  <2>5. \A t \in Threads :
          /\ t = sender => Given(t)' = sent
          /\ t # sender => Given(t)' = Given(t)
    BY <1>q, <2>1, <2>4 DEF Given
  <2> SUFFICES ASSUME NEW t \in Threads PROVE Got(t)' = Given(t)'
    OBVIOUS
  <2>6. CASE t = sender
    <3> DEFINE e == executed[t]
               r == Len(_ready_tasks[t])
               m == Tasks(msgs[t])
               q == Tasks(queue[t])
    <3>1. e \in Nat /\ r \in Nat /\ m \in Nat /\ q \in Nat
      BY <1>n
    <3>2. /\ executed'[t] = e /\ Len(_ready_tasks'[t]) = r
          /\ Tasks(msgs'[t]) = m /\ Tasks(queue'[t]) = q + 1
      BY <2>1, <2>3, <2>6
    <3>3. Got(t)' = executed'[t] + Len(_ready_tasks'[t]) + Tasks(msgs'[t]) + Tasks(queue'[t])
      BY DEF Got
    <3>4. Got(t) = e + r + m + q
      BY DEF Got
    <3>5. Got(t)' = e + r + m + (q + 1)
      BY <3>2, <3>3
    <3>6. Got(t)' = Got(t) + 1
      <4> HIDE DEF e, r, m, q
      <4> QED
        BY <3>1, <3>4, <3>5
    <3> QED
      BY <1>a, <2>1, <2>4, <2>5, <2>6, <3>6
  <2>7. CASE t # sender
    <3>1. Got(t)' = Got(t)
      BY <2>1, <2>2, <2>7 DEF Got
    <3> QED
      BY <1>a, <2>5, <2>7, <3>1
  <2> QED
    BY <2>6, <2>7
<1>5. ASSUME NEW t \in Threads, NEW ends \in SUBSET Fds, epoll_wait(t, ends)
      PROVE  \A s \in Threads : Got(s)' = Given(s)'
  BY <1>5, <1>u DEF epoll_wait, tasks
<1>6. ASSUME NEW t \in Threads, deal_task(t) PROVE \A s \in Threads : Got(s)' = Given(s)'
  <2>1. /\ msgs' = [msgs EXCEPT ![t] = queue[t]] /\ queue' = [queue EXCEPT ![t] = << >>]
        /\ UNCHANGED <<executed, _ready_tasks, sender, sent>>
        /\ msgs[t] = << >>
    BY <1>6, <1>a DEF deal_task, Fire, tasks, ConnInv
  <2>2. /\ msgs'[t] = queue[t] /\ queue'[t] = << >>
        /\ \A s \in Threads : s # t => msgs'[s] = msgs[s] /\ queue'[s] = queue[s]
    BY <1>a, <2>1 DEF TypeOK
  <2>3. Tasks(msgs[t]) = 0 /\ Tasks(queue'[t]) = 0
    BY <2>1, <2>2, EmptyQueue
  <2>4. Got(t)' = Got(t)
    BY <1>n, <2>1, <2>2, <2>3 DEF Got
  <2>5. \A s \in Threads : s # t => Got(s)' = Got(s)
    BY <2>1, <2>2 DEF Got
  <2> QED
    BY <1>a, <2>1, <2>4, <2>5 DEF Given
<1>7. ASSUME NEW t \in Threads, deal_conn(t) PROVE \A s \in Threads : Got(s)' = Given(s)'
  <2>1. /\ msgs[t] # << >> /\ Head(msgs[t]).type = "NEW_CONN"
        /\ msgs' = [msgs EXCEPT ![t] = Tail(@)]
        /\ UNCHANGED <<executed, _ready_tasks, queue, sender, sent>>
    BY <1>7 DEF deal_conn, Pop, tasks
  <2>2. /\ msgs'[t] = Tail(msgs[t])
        /\ \A s \in Threads : s # t => msgs'[s] = msgs[s]
    BY <1>a, <2>1 DEF TypeOK
  <2>3. Tasks(msgs'[t]) \in Nat /\ Tasks(msgs[t]) = Tasks(msgs'[t]) + 0
    BY <1>q, <2>1, <2>2, Taken
  <2>4. \A s \in Threads : Got(s)' = Got(s)
    BY <1>n, <2>1, <2>2, <2>3 DEF Got
  <2> QED
    BY <1>a, <2>1, <2>4 DEF Given
<1>8. ASSUME NEW t \in Threads, add_task(t) PROVE \A s \in Threads : Got(s)' = Given(s)'
  <2>1. /\ msgs[t] # << >> /\ Head(msgs[t]).type = "NEW_TASK"
        /\ msgs' = [msgs EXCEPT ![t] = Tail(@)]
        /\ _ready_tasks' = [_ready_tasks EXCEPT ![t] = Append(@, Head(msgs[t]).arg)]
        /\ UNCHANGED <<executed, queue, sender, sent>>
    BY <1>8 DEF add_task, Pop, tasks
  <2>2. /\ msgs'[t] = Tail(msgs[t])
        /\ _ready_tasks'[t] = Append(_ready_tasks[t], Head(msgs[t]).arg)
        /\ _ready_tasks[t] \in Seq(1..MaxTasks)
        /\ \A s \in Threads : s # t => msgs'[s] = msgs[s] /\ _ready_tasks'[s] = _ready_tasks[s]
    BY <1>a, <2>1 DEF TypeOK
  <2>3. Tasks(msgs'[t]) \in Nat /\ Tasks(msgs[t]) = Tasks(msgs'[t]) + 1
    BY <1>q, <2>1, <2>2, Taken
  <2>4. Len(_ready_tasks'[t]) = Len(_ready_tasks[t]) + 1
    BY <2>2
  <2>5. Got(t)' = Got(t)
    <3> DEFINE e == executed[t]
               r == Len(_ready_tasks[t])
               m == Tasks(msgs'[t])
               q == Tasks(queue[t])
    <3>1. e \in Nat /\ r \in Nat /\ m \in Nat /\ q \in Nat
      BY <1>n, <2>3
    <3>2. /\ executed'[t] = e /\ Tasks(queue'[t]) = q
          /\ Len(_ready_tasks'[t]) = r + 1 /\ Tasks(msgs[t]) = m + 1
      BY <2>1, <2>3, <2>4
    <3>3. Got(t)' = executed'[t] + Len(_ready_tasks'[t]) + Tasks(msgs'[t]) + Tasks(queue'[t])
      BY DEF Got
    <3>4. Got(t) = e + r + (m + 1) + q
      BY <3>2 DEF Got
    <3>5. Got(t)' = e + (r + 1) + m + q
      BY <3>2, <3>3
    <3> HIDE DEF e, r, m, q
    <3> QED
      BY <3>1, <3>4, <3>5
  <2>6. \A s \in Threads : s # t => Got(s)' = Got(s)
    BY <2>1, <2>2 DEF Got
  <2> QED
    BY <1>a, <2>1, <2>5, <2>6 DEF Given
<1>9. ASSUME NEW t \in Threads, execute_ready_tasks(t)
      PROVE  \A s \in Threads : Got(s)' = Given(s)'
  <2>1. /\ executed' = [executed EXCEPT ![t] = @ + Len(_ready_tasks[t])]
        /\ _ready_tasks' = [_ready_tasks EXCEPT ![t] = << >>]
        /\ UNCHANGED <<msgs, queue, sender, sent>>
    BY <1>9 DEF execute_ready_tasks, tasks
  <2>2. /\ executed'[t] = executed[t] + Len(_ready_tasks[t]) /\ Len(_ready_tasks'[t]) = 0
        /\ \A s \in Threads : s # t => /\ executed'[s] = executed[s]
                                       /\ _ready_tasks'[s] = _ready_tasks[s]
    BY <1>a, <2>1 DEF TypeOK
  <2>3. Got(t)' = Got(t)
    BY <1>n, <2>1, <2>2 DEF Got
  <2>4. \A s \in Threads : s # t => Got(s)' = Got(s)
    BY <2>1, <2>2 DEF Got
  <2> QED
    BY <1>a, <2>1, <2>3, <2>4 DEF Given
<1>10. ASSUME NEW t \in Threads, increase_conn(t) \/ deal_done(t) \/ close_fd(t)
       PROVE  \A s \in Threads : Got(s)' = Given(s)'
  BY <1>10, <1>u DEF increase_conn, deal_done, close_fd, tasks
<1>11. ASSUME NEW t \in Threads, NEW f \in Fds, clean_conn(t, f)
       PROVE  \A s \in Threads : Got(s)' = Given(s)'
  BY <1>11, <1>u DEF clean_conn, tasks
<1>12. CASE UNCHANGED vars
  BY <1>12, <1>u DEF vars, pool, tasks
<1>13. ASSUME NEW t \in Threads, Thread(t) PROVE \A s \in Threads : Got(s)' = Given(s)'
  BY <1>5, <1>6, <1>7, <1>8, <1>9, <1>10, <1>11, <1>13 DEF Thread
<1> QED
  BY <1>1, <1>2, <1>3, <1>4, <1>5, <1>12, <1>13 DEF Next
-----------------------------------------------------------------------------
LEMMA IInvAlways == Spec => []IInv
<1>1. IInv /\ [Next]_vars => IInv'
  BY NextTypeOK, NextPlaceInv, NextThreadInv, NextCountInv, NextTasks DEF IInv
<1> QED
  BY <1>1, InitIInv, PTL DEF Spec

(* Type correctness; _curr_conns never goes below zero.                    *)
THEOREM TypeCorrect == Spec => []TypeOK
<1>1. IInv => TypeOK
  BY DEF IInv
<1> QED
  BY <1>1, IInvAlways, PTL

(* A descriptor number the kernel may hand out again is in no queue, loop  *)
(* or table (clean_conn in tcp_conn.cpp closes it last).                   *)
THEOREM ClosedNumbersAreFree == Spec => []ClosedFdIsNowhere
<1>1. IInv => ClosedFdIsNowhere
  <2> SUFFICES ASSUME IInv, NEW f \in Fds \ open
               PROVE  /\ conns[f] = None /\ accepted # f
                      /\ \A t \in Threads :
                           /\ f \notin listen_fds[t] /\ conn[t] # f
                           /\ \A q \in {queue[t], msgs[t]} :
                                \A i \in DOMAIN q : q[i] # NEW_CONN(f)
    BY DEF ClosedFdIsNowhere
  <2>1. /\ accepted # f
        /\ \A t \in Threads : ~Has(queue[t], f) /\ ~Has(msgs[t], f) /\ f \notin listen_fds[t]
    BY DEF IInv, PlaceInv, OpenInv
  <2>2. conns[f] = None
    BY <2>1 DEF IInv, TypeOK, ThreadInv, TableInv
  <2>3. \A t \in Threads : conn[t] # f
    BY <2>1, ServerAssumption DEF IInv, ThreadInv, ConnInv
  <2>4. \A t \in Threads : /\ DOMAIN queue[t] = 1..Len(queue[t])
                           /\ DOMAIN msgs[t] = 1..Len(msgs[t])
    BY DEF IInv, TypeOK
  <2> QED
    BY <2>1, <2>2, <2>3, <2>4 DEF Has
<1> QED
  BY <1>1, IInvAlways, PTL

(* conns names the thread that serves a descriptor, and _curr_conns counts *)
(* its entries, whichever threads increase and decrease it.                *)
THEOREM TableIsRight == Spec => []TableMatchesConns
<1>1. IInv => TableMatchesConns
  <2> SUFFICES ASSUME IInv PROVE TableMatchesConns
    OBVIOUS
  <2>1. \A t \in Threads : \A f \in listen_fds[t] : conn[t] # f => conns[f] = t
    BY DEF IInv, TypeOK, ThreadInv, TableInv
  <2> QED
    BY <2>1 DEF IInv, CountInv, Entries, TableMatchesConns
<1> QED
  BY <1>1, IInvAlways, PTL

(* Each call of send_task reaches each thread once (thread_pool.cpp:105).  *)
THEOREM TasksReachThreadsOnce == Spec => []TasksAreConserved
<1>1. IInv => TasksAreConserved
  BY DEF IInv
<1> QED
  BY <1>1, IInvAlways, PTL
=============================================================================
