------------------------------ MODULE TcpServer ------------------------------
(***************************************************************************)
(* tcp_server of lars_reactors with its thread_pool: the main thread       *)
(* accepts connections and deals them to the reactor threads in turn, each *)
(* thread creates, serves and closes its own connections, and send_task    *)
(* gives one task to every thread (tcp_server.cpp, tcp_conn.cpp,           *)
(* thread_pool.cpp, event_loop.cpp).                                       *)
(*                                                                         *)
(* thread_queue is used through its contract, a FIFO mailbox (ThreadQueue  *)
(* implements Mailbox), so send and recv are single steps here.            *)
(***************************************************************************)
EXTENDS Naturals, Sequences, FiniteSets

CONSTANTS
  ThreadCnt,          \* thread_cnt of the pool
  Fds,                \* descriptors the kernel can return from accept
  None, evfd,         \* nobody; the eventfd of a thread_queue
  _max_conns,
  MaxTasks            \* bound: calls of send_task

Threads == 0..ThreadCnt-1

ASSUME ServerAssumption ==
  /\ ThreadCnt \in Nat \ {0} /\ _max_conns \in Nat /\ MaxTasks \in Nat
  /\ None \notin Fds \cup Nat /\ evfd \notin Fds
  /\ IsFiniteSet(Fds)

VARIABLES
  open,               \* descriptors in use
  accepted,           \* what do_accept holds between accept and its verdict
  _index,             \* of the thread that gets the next connection
  conns, _curr_conns, \* fd -> thread of its tcp_conn, or None; their count
  queue,              \* the thread_queue of each thread
  listen_fds,         \* connections each event_loop listens to
  pc, fired,          \* where a thread is, and the events left of its round
  msgs,               \* the queue deal_task swapped out
  conn,               \* the fd whose tcp_conn is being made or cleaned
  _ready_tasks,       \* tasks of this round of event_process
  sender, sent        \* next thread send_task serves, and the task's number

(* History: how many tasks each thread executed. *)
VARIABLE executed

main == <<accepted, _index>>
table == <<conns, _curr_conns>>
pool == <<pc, fired, msgs, conn, _ready_tasks>>
tasks == <<sender, sent>>
vars == <<open, main, table, queue, listen_fds, pool, tasks, executed>>

NEW_CONN(fd) == [type |-> "NEW_CONN", arg |-> fd]
NEW_TASK(n) == [type |-> "NEW_TASK", arg |-> n]

Init ==
  /\ open = {} /\ accepted = None /\ _index = 0
  /\ conns = [f \in Fds |-> None] /\ _curr_conns = 0
  /\ queue = [t \in Threads |-> << >>] /\ listen_fds = [t \in Threads |-> {}]
  /\ pc = [t \in Threads |-> "epoll_wait"] /\ fired = [t \in Threads |-> {}]
  /\ msgs = [t \in Threads |-> << >>] /\ conn = [t \in Threads |-> None]
  /\ _ready_tasks = [t \in Threads |-> << >>]
  /\ sender = None /\ sent = 0
  /\ executed = [t \in Threads |-> 0]
-----------------------------------------------------------------------------
(* do_accept in the main thread.  get_conn_num and the verdict on it.      *)
accept(f) ==
  /\ accepted = None /\ f \notin open
  /\ IF _curr_conns >= _max_conns THEN UNCHANGED <<open, accepted>>  \* close(connfd)
     ELSE open' = open \cup {f} /\ accepted' = f
  /\ UNCHANGED <<_index, table, queue, listen_fds, pool, tasks, executed>>

(* thread_pool::get_thread: the threads in turn. *)
TurnLate == IF _index > ThreadCnt THEN 0 ELSE _index  \* Mutant
Turn == IF _index = ThreadCnt THEN 0 ELSE _index

get_thread ==
  /\ accepted # None
  /\ queue' = [queue EXCEPT ![Turn] = Append(@, NEW_CONN(accepted))]
  /\ _index' = Turn + 1 /\ accepted' = None
  /\ UNCHANGED <<open, table, listen_fds, pool, tasks, executed>>

(* thread_pool::send_task, called by another thread: one queue at a time.  *)
send_task ==
  /\ sender = None /\ sent < MaxTasks
  /\ sender' = 0 /\ sent' = sent + 1
  /\ UNCHANGED <<open, main, table, queue, listen_fds, pool, executed>>

(* Mutant: the loop ends one thread early. *)
send_task_next_short ==
  /\ sender # None
  /\ queue' = [queue EXCEPT ![sender] = Append(@, NEW_TASK(sent))]
  /\ sender' = IF sender + 2 >= ThreadCnt THEN None ELSE sender + 1
  /\ UNCHANGED <<open, main, table, listen_fds, pool, sent, executed>>

send_task_next ==
  /\ sender # None
  /\ queue' = [queue EXCEPT ![sender] = Append(@, NEW_TASK(sent))]
  /\ sender' = IF sender + 1 = ThreadCnt THEN None ELSE sender + 1
  /\ UNCHANGED <<open, main, table, listen_fds, pool, sent, executed>>
-----------------------------------------------------------------------------
Step(t, l) == pc' = [pc EXCEPT ![t] = l]

(* One round of event_process: the eventfd fires if the queue holds        *)
(* anything, and `ends' are the connections that fire and will end.        *)
(* Events of a connection that lives on change nothing here.               *)
epoll_wait(t, ends) ==
  /\ pc[t] = "epoll_wait" /\ ends \subseteq listen_fds[t]
  /\ fired' = [fired EXCEPT ![t] = ends \cup IF queue[t] = << >> THEN {} ELSE {evfd}]
  /\ fired'[t] # {}
  /\ Step(t, "round")
  /\ UNCHANGED <<open, main, table, queue, listen_fds, msgs, conn, _ready_tasks,
                 tasks, executed>>

Fire(t, e) == pc[t] = "round" /\ e \in fired[t] /\ fired' = [fired EXCEPT ![t] = @ \ {e}]

(* deal_task swaps the queue out ... *)
deal_task(t) ==
  /\ Fire(t, evfd)
  /\ msgs' = [msgs EXCEPT ![t] = queue[t]]
  /\ queue' = [queue EXCEPT ![t] = << >>]
  /\ Step(t, "deal")
  /\ UNCHANGED <<open, main, table, listen_fds, conn, _ready_tasks, tasks, executed>>

Pop(t) == msgs' = [msgs EXCEPT ![t] = Tail(@)]

(* ... makes a tcp_conn: the start hook and add_io_event ... *)
deal_conn(t) ==
  /\ pc[t] = "deal" /\ msgs[t] # << >> /\ Head(msgs[t]).type = "NEW_CONN"
  /\ listen_fds' = [listen_fds EXCEPT ![t] = @ \cup {Head(msgs[t]).arg}]
  /\ conn' = [conn EXCEPT ![t] = Head(msgs[t]).arg]
  /\ Pop(t) /\ Step(t, "increase")
  /\ UNCHANGED <<open, main, table, queue, fired, _ready_tasks, tasks, executed>>

increase_conn(t) ==
  /\ pc[t] = "increase"
  /\ conns' = [conns EXCEPT ![conn[t]] = t] /\ _curr_conns' = _curr_conns + 1
  /\ conn' = [conn EXCEPT ![t] = None] /\ Step(t, "deal")
  /\ UNCHANGED <<open, main, queue, listen_fds, fired, msgs, _ready_tasks, tasks,
                 executed>>

(* ... or hands a task to its loop. *)
add_task(t) ==
  /\ pc[t] = "deal" /\ msgs[t] # << >> /\ Head(msgs[t]).type = "NEW_TASK"
  /\ _ready_tasks' = [_ready_tasks EXCEPT ![t] = Append(@, Head(msgs[t]).arg)]
  /\ Pop(t)
  /\ UNCHANGED <<open, main, table, queue, listen_fds, pc, fired, conn, tasks, executed>>

deal_done(t) ==
  /\ pc[t] = "deal" /\ msgs[t] = << >>
  /\ Step(t, "round")
  /\ UNCHANGED <<open, main, table, queue, listen_fds, fired, msgs, conn,
                 _ready_tasks, tasks, executed>>

(* Mutants: one half of decrease_conn is missing. *)
clean_conn_keeps_entry(t, f) ==
  /\ Fire(t, f)
  /\ _curr_conns' = _curr_conns - 1
  /\ conn' = [conn EXCEPT ![t] = f]
  /\ Step(t, "close")
  /\ UNCHANGED <<open, main, conns, queue, listen_fds, msgs, _ready_tasks, tasks,
                 executed>>

clean_conn_keeps_count(t, f) ==
  /\ Fire(t, f)
  /\ conns' = [conns EXCEPT ![f] = None]
  /\ conn' = [conn EXCEPT ![t] = f]
  /\ Step(t, "close")
  /\ UNCHANGED <<open, main, _curr_conns, queue, listen_fds, msgs, _ready_tasks,
                 tasks, executed>>

(* A connection of the thread ends (do_read or do_write fails, or the peer *)
(* closed it): clean_conn runs the close hook, then decrease_conn ...      *)
clean_conn(t, f) ==
  /\ Fire(t, f)
  /\ conns' = [conns EXCEPT ![f] = None] /\ _curr_conns' = _curr_conns - 1
  /\ conn' = [conn EXCEPT ![t] = f]
  /\ Step(t, "close")
  /\ UNCHANGED <<open, main, queue, listen_fds, msgs, _ready_tasks, tasks, executed>>

(* ... del_io_event and close, which frees the number for accept. *)
close_fd(t) ==
  /\ pc[t] = "close"
  /\ listen_fds' = [listen_fds EXCEPT ![t] = @ \ {conn[t]}]
  /\ open' = open \ {conn[t]}
  /\ conn' = [conn EXCEPT ![t] = None] /\ Step(t, "round")
  /\ UNCHANGED <<main, table, queue, fired, msgs, _ready_tasks, tasks, executed>>

(* Mutant: _ready_tasks is not cleared. *)
execute_again(t) ==
  /\ pc[t] = "round" /\ fired[t] = {}
  /\ executed' = [executed EXCEPT ![t] = @ + Len(_ready_tasks[t])]
  /\ Step(t, "epoll_wait")
  /\ UNCHANGED <<open, main, table, queue, listen_fds, fired, msgs, conn,
                 _ready_tasks, tasks>>

(* The end of a round of event_process. *)
execute_ready_tasks(t) ==
  /\ pc[t] = "round" /\ fired[t] = {}
  /\ executed' = [executed EXCEPT ![t] = @ + Len(_ready_tasks[t])]
  /\ _ready_tasks' = [_ready_tasks EXCEPT ![t] = << >>]
  /\ Step(t, "epoll_wait")
  /\ UNCHANGED <<open, main, table, queue, listen_fds, fired, msgs, conn, tasks>>

Thread(t) == \/ epoll_wait(t, {}) \/ deal_task(t) \/ deal_conn(t) \/ increase_conn(t) 
             \/ add_task(t) \/ deal_done(t) \/ (\E f \in Fds : clean_conn(t, f)) \/ close_fd(t)
             \/ execute_ready_tasks(t)

Next ==
  \/ \E f \in Fds : accept(f)
  \/ get_thread
  \/ send_task \/ send_task_next
  \/ \E t \in Threads : Thread(t) \/ \E ends \in SUBSET Fds : epoll_wait(t, ends)

Spec == Init /\ [][Next]_vars

(* The main thread, the thread inside send_task and the reactor threads    *)
(* run on; nobody has to connect, to close or to call send_task.           *)
FairSpec == /\ Spec
            /\ WF_vars(get_thread) /\ WF_vars(send_task_next)
            /\ \A t \in Threads : WF_vars(Thread(t))
-----------------------------------------------------------------------------
Task == [type : {"NEW_CONN"}, arg : Fds] \cup [type : {"NEW_TASK"}, arg : 1..MaxTasks]

(* The type invariant. *)
TypeOK ==
  /\ open \subseteq Fds /\ accepted \in Fds \cup {None} /\ _index \in 0..ThreadCnt
  /\ conns \in [Fds -> Threads \cup {None}] /\ _curr_conns \in Nat
  /\ queue \in [Threads -> Seq(Task)] /\ msgs \in [Threads -> Seq(Task)]
  /\ listen_fds \in [Threads -> SUBSET Fds]
  /\ pc \in [Threads -> {"epoll_wait", "deal", "increase", "close", "round"}]
  /\ fired \in [Threads -> SUBSET (Fds \cup {evfd})]
  /\ conn \in [Threads -> Fds \cup {None}]
  /\ _ready_tasks \in [Threads -> Seq(1..MaxTasks)]
  /\ sender \in Threads \cup {None} /\ sent \in 0..MaxTasks
  /\ executed \in [Threads -> Nat]

(* A descriptor number is free only when no thread, queue or table still   *)
(* holds it: a number the kernel hands out again meets nothing of its      *)
(* former connection.                                                      *)
ClosedFdIsNowhere ==
  \A f \in Fds \ open :
    /\ conns[f] = None /\ accepted # f
    /\ \A t \in Threads :
         /\ f \notin listen_fds[t] /\ conn[t] # f
         /\ \A q \in {queue[t], msgs[t]} : \A i \in DOMAIN q : q[i] # NEW_CONN(f)

(* push_change_task finds the connection of every descriptor its loop      *)
(* listens to: conns[fd] is set by the thread that serves fd and by no     *)
(* other, also when the number moves from one thread to another; and       *)
(* _curr_conns, on which do_accept decides, counts the entries although    *)
(* increases and decreases come from all threads.                          *)
TableMatchesConns ==
  /\ \A t \in Threads : \A f \in listen_fds[t] : conn[t] # f => conns[f] = t
  /\ _curr_conns = Cardinality({f \in Fds : conns[f] # None})

Tasks(q) == Cardinality({i \in DOMAIN q : q[i].type = "NEW_TASK"})

(* No call of send_task is lost or executed twice by a thread on its way   *)
(* through thread_queue, deal_task and _ready_tasks.                       *)
TasksAreConserved ==
  \A t \in Threads :
    executed[t] + Len(_ready_tasks[t]) + Tasks(msgs[t]) + Tasks(queue[t])
      = IF sender # None /\ sender <= t THEN sent - 1 ELSE sent

(* Every connection that passed the limit is served by some thread, and    *)
(* every task is executed by all of them.                                  *)
QueuesAreServed ==
  /\ \A f \in Fds : (f \in open) ~> (\E t \in Threads : f \in listen_fds[t])
  /\ \A t \in Threads : \A n \in 1..MaxTasks : (sent = n) ~> (executed[t] >= n)
=============================================================================
