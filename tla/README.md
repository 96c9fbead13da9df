# lars in TLA+: models, checks and proofs

lars balances calls between the hosts of a module. An agent on every machine
(`lars_lb_agent`) tells callers which host to use and learns from their results;
a service (`lars_dns`) tells the agents which hosts belong to a module
(`modid`, `cmdid`, here a *mod*) and pushes changes; a reporter service stores
what the agents observe. All run on a reactor library (`lars_reactors`).

This directory holds TLA+ modules translated from the C++ sources, TLC
configurations for small instances and TLAPS proofs for all instances.
`PROJECT.json` maps each definition to its source lines and lists runs, mutants,
findings, hazards and theorems. Paths below are relative to `src/lars/`.

## 1. Inventory

| Component | State | Operations | Hard because |
|---|---|---|---|
| `load_balance`, `host_info` (agent) | `_host_map`, idle and overload list, counters and timestamps of each host | `choice_one_host`, `report`, `update`, `pull`, `commit` | hosts come and go while callers still report on them; virtual and real counters; probing |
| dns client thread (agent) | socket state, registered callbacks, `obuf`, `dns_queue` | connect, `new_dns_request`, `do_read`, `do_write`, `clean_conn` | requests arrive while the connect is in progress |
| UDP servers and `main` (agent) | three `route_lb` with a mutex each, the status of each `load_balance` | get host, report, get route, `pull`, `conn_init`, `deal_recv_route` | start-up order; `pull` sends before it sets the status; `route_lb.cpp` is not in the repository |
| report client (agent) | `report_queue` | send reports | `report_client.cpp` is not in the repository |
| `Route` (dns) | two route maps behind two pointers, `_version`, change list | `load_version`, `load_route_data`, `swap`, `load_changes`, `get_hosts` | readers run while the backend thread loads row by row |
| `SubcribeList` (dns) | `book_list`, `push_list`, a mutex each | `subcribe`, `unsubcribe`, `publish`, `make_publish_map`, `push_change_task` | backend and reactor threads share both lists; descriptors are used again |
| dns handlers | mods subscribed per connection | `get_route`, `create_subscribe`, `clear_subscribe` | run between any two steps of the backend |
| `thread_queue` | queue, mutex, eventfd | `send`, `recv`, `set_callback` | lost wake-ups |
| `thread_pool`, `tcp_server` | `conns`, `_curr_conns`, queue per thread, `_index` | accept, deal, `send_task`, `deal_task` | descriptor numbers move between threads |
| `event_loop` | `_io_evs`, `listen_fds`, `_ready_tasks` | event rounds, `add/del_io_event`, `add_task`, `execute_ready_tasks` | callbacks change the registrations of the round |
| `tcp_conn`, `tcp_client` | input and output buffer, registrations | `do_read`, `do_write`, `send_message`, `clean_conn` | TCP cuts the stream anywhere; partial writes |
| `reactor_buf`, `io_buf`, `buf_pool` | an `io_buf` per buffer, free lists, `_total_mem` | `read_data`, `send_data`, `write2fd`, `alloc_buf`, `revert` | shared by all threads, growth, limits |
| reporter service | table rows, queue per store thread, a round-robin index | `get_report_status`, `store`, `thread_report` | unprotected index, two stores per report that others overtake, any rows from any agent |
| client API and UDP servers | sequence number, three sockets; the agent's sockets | `get_host`, `get_route`, `report`, `reg_init`, `udp_server::do_read` | answers arrive late or never, the number overflows, `recvfrom` has no timeout |
| `udp_client`, router, config file | none between datagrams; tables filled at start-up | | |

How they meet: the API talks to the agent by UDP (8888-8890, by
`(modid+cmdid)%3`); the agent's `load_balance` puts requests into `dns_queue` and
reports into `report_queue`, both `thread_queue`s; the dns client thread carries
the former over one TCP connection to `lars_dns`; there a reactor thread answers
from `Route` and subscribes the connection in `SubcribeList`; the backend thread
reloads `Route`, calls `publish`, which gives `push_change_task` to all reactor
threads through `thread_pool::send_task`; each of them pushes to its own
connections, and the agent ends in `load_balance::update`.

What correctness means for each: the lists of `load_balance` divide exactly its
live hosts, judgements are neither late nor made on mixed counters, overload
ends; the dns service never sends an older route after a newer one and every
change reaches its subscribers; closed descriptors leave nothing behind; the
queue is a FIFO mailbox without lost wake-ups; connections and tasks are
conserved; buffers are conserved and the byte stream survives any cutting; a
request in a buffer has the registration that will send it; a mod being pulled has a
request on its way; a caller gets the answer to its own question; a report is stored
by both threads that hold it, and no queue's last word on a row is lost. The `hazards` of
`PROJECT.json` tie each of these to the line where it can go wrong.

## 2. Modules

| Module | Models | Proofs |
|---|---|---|
| `LoadBalance` (`MCLoadBalance`) | `load_balance1.cpp`, `host_info.cpp` | `LoadBalanceProofs` |
| `DnsService` (`MCDnsService`) | `dns_route.cpp`, `subcribe.cpp`, `dns_service.cpp` | `DnsServiceProofs` |
| `RouteTable` | what readers of `Route` may rely on: the complete result of one query (abstract) | implemented: `DnsServiceProofs` |
| `ThreadQueue` | `thread_queue.h` | `ThreadQueueProofs` |
| `Mailbox` | a FIFO mailbox (abstract) | implemented: `ThreadQueueProofs` |
| `TcpServer` | `tcp_server.cpp`, `thread_pool.cpp`, rounds of `event_loop.cpp`, life of `tcp_conn` | `TcpServerProofs` |
| `TcpConn` | `do_read`, `do_write`, `send_message` of `tcp_conn.cpp`, `reactor_buf.cpp`, `io_buf.cpp`, `buf_pool.cpp` | `TcpConnProofs` |
| `DnsClient` | `dns_client.cpp` over `tcp_client.cpp` | `AgentProofs` |
| `Agent` (extends `DnsClient`) | `main_server.cpp`, the handlers of the UDP servers up to `pull`, `conn_init`, `deal_recv_route` | `AgentProofs` |
| `Api` | `lars_api.cpp`, `udp_server.cpp`, the answers of the agent | `ApiProofs` |
| `Reporter` (`MCReporter`) | `reporter_service.cpp`, `store_thread.cpp`, `store_report.cpp` | `ReporterProofs` |

Definitions keep the names of the source. An operator whose comment says
*Mutant* is a plausible bug in the definition it stands in front of. No behaviour
uses it; `PROJECT.json` says which property it breaks when it takes the
definition's place.

### LoadBalance

`host_map` is `_host_map` (key to address), `heap` the `host_info` at each
address or `Freed`. The heap is explicit because `update()` (lines 55-78) deletes
the object of a vanished host and leaves its key in the map, and a later `new`
may return the same address for another host. Whatever the program then does
through the stale key is in the model: `report` on it is counted in the object
that lives there now. When an operation dereferences or deletes a freed object,
takes the front of an empty list (line 120) or fails the assert of line 28,
`running` becomes `FALSE` and the behaviour ends: from there the program
promises nothing. `TypeOK` and the other invariants hold in such a last state too.

One operation is one action, since each is called under the mutex of its
`route_lb` (`include/route_lb.h`). `choice_one_host` has the four branches of the
code; `Judge` is the whole of `report()` after the lookup: count, judge by rate
and by consecutive limit, flip and move between the lists, otherwise look at the
window. Rates are fractions compared by cross-multiplication. A timestamp is its
age, saturated at the timeout it is compared with; `overload_age` starts as
`Unset` because the constructor leaves `overload_ts` alone. `update` takes any
of the `Responses` (host sets the dns service answers with, the empty one included), any
free addresses and any order of insertion. `given` (hosts handed
out and not reported yet), `routed` and `dropped` are history.

`get_all_hosts` only reads, `pull` and the status are in `Agent`. Seconds pass in `Tick`.

### DnsService and RouteTable

A route is a revision number: the rows of mod `m` carry the revision of the last
edit the backend read. `edit` is the administrator, external, who writes the
rows, the `RouteChange` row and the new `RouteVersion` in one step. A database without a
row in `RouteVersion` (`db_version` 0) makes `load_version` fail, which the caller treats
like an unchanged version.
`load_version`, `load_route_data`, `insert_row`, `swap`, `load_changes`,
`publish_*` and `send_task` are the stages of `check_route_changes`; the table is
filled one row at a time. `publish` holds both mutexes from `publish_lock` to
`publish_unlock`; each handler step that takes one of them requires `~locked`.
Reactor threads run `get_route` in two steps (subscribe, then read and answer),
`clear_subscribe` mod by mod, and `push_change_task` as `make_publish_map`, then
for each message `push_send` and, separately, the unlocked `push_erase`. `seen` is
history: what each connection was sent last.

`AdminWaits` selects the environment: the administrator edits at any time
("nothing"), after the previous edit was noticed ("poll"), or after all pushes
are done ("pushes"). Each run says which.

`RouteTable` is the abstract table: `Query` copies the whole database at one instant and
`Swap` gives that copy to the readers; there is no way to replace one mod alone.
`DnsService` implements it (the property `ServesRouteTable`) with `map[data_pointer]` as
the table and, as the copy, what the other map will hold once all stored rows are in it
(`Queried`).

Queries that fail end the process and are left out. That two threads writing one
`hash_map` without a lock may corrupt it is undefined behaviour we do not model
beyond the lost entry; see the hazard at `subcribe.cpp:136`.

### ThreadQueue and Mailbox

Every access to the mutex, the queue and the eventfd is an action. `loop` is the
receiving thread, from before `set_callback` registers the eventfd. The queue
implements `Mailbox` with `pending = queue_msgs \o _queue`.

### TcpServer

The main thread accepts and deals; a reactor thread executes rounds of
`event_process`: `epoll_wait` picks the ready descriptors, `deal_task` takes over
the queue, each connection is made in two steps (construct and register, then
`increase_conn`), `clean_conn` and `close_fd` end one, and `execute_ready_tasks`
ends the round. The kernel gives out any descriptor that is not open, at once.
`send_task` fills the queues one at a time. `thread_queue` is a sequence here,
which is what `ThreadQueueProofs!MailboxImplemented` justifies. The mode with no
threads is left out. `Fds` is the finite set of numbers the process may have open.

### TcpConn

A byte knows its message, its place and the body length in its header, so cutting
or mixing the stream is visible. An `io_buf` is its capacity, `head` and the
bytes from `head` on. Each action reaches at most to the next `alloc_buf`: growing
a buffer is *allocate* (`read_data`, `send_message`, `send_head`) and then *copy,
revert, fill* (`read_done`, `send_head`, `send_body`), with `spare` in between,
while other connections use the pool. A `revert` is merged with a following
`alloc_buf` of the same thread: `io_buf`s of one capacity are interchangeable, so
another thread's request between the two could as well come before both. One
round of the loop in `do_read` is one `parse_*` action. A handler's reply is a
`send_message` between callbacks, since it touches `obuf` only and `do_read`
touches `ibuf` only. `junk` is the uninitialized `next` at the end of each
prefilled list: any set of lists may have a bad one, and following it ends the
behaviour, as do failed asserts and the exit at `MEM_LIMIT` (`failed` says which).
`told`, `calls`, `accepted` and `refused` are history: the messages of the peer, the
bodies the router got, the number and bytes of the messages `send_message` took, and the
connections that took a header back in vain.
`TcpConn` also describes the framing of `tcp_client.cpp`, which repeats that code.

### DnsClient

Requests and responses are counted; what matters is which callback the loop has for the
socket, and what `send_message` does when `obuf` is full (`Room` requests, the largest
`io_buf`). A refused header loses the request; a refused body loses it too and pops the
first bytes of `obuf` instead of the header (`damaged`), after which the next `send_data` or
`write2fd` fails its assert (`process_ends`). `new_dns_request` ignores the result in both
cases. `lost` is history. `add_write` keeps the behaviour of `add_io_event`: a second write
registration *replaces* the callback. The kernel decides the connect; the service answers or
closes. Lines 181-184 of `tcp_client.cpp` (output already waiting when `connection_succ`
runs) are in the model but nothing in the agent reaches them, because a send during the
connect displaces `connection_succ`. The branch for a connect that succeeds at once runs
`connection_succ` before the hook is set.

### Agent

`Agent` puts `DnsClient` beside `main` and the three UDP servers. `phase` is how far
`main` is: the servers run before `dns_queue` exists, and a request that comes
then uses a null pointer and ends the behaviour (`running`). `pull` is two steps, the
request into `dns_queue` and then the status, with the mutex of the `route_lb` held
throughout (`pulling`); `conn_init` resets one `route_lb` after the other in the dns
client thread (`resetting`). `order` is history: the mods asked for, in order, so that
an answer is handled for the mod that asked; `refused` are the mods whose last request
`obuf` did not take (`send_requests`). A response without hosts, which `lars_dns` sends for
a mod nobody configured (`dns_service.cpp:40-62`), fails the assert at the start of
`update` and ends the agent (`no_host`). `update_timeout` is a free choice: a mod that
is `NEW` may be pulled again at any time. `deal_push` is the same handler for a route
that `lars_dns` sent on its own.

### Api

Each client has a socket per server, and what earlier calls left in it is what makes
the next call hard. `sendto` arrives, is dropped, or fails; `recvfrom` returns the
first datagram or fails (`interrupted`, for instance by a signal), after which the
answer comes to a socket whose call is over. Datagrams on the loopback interface are
neither duplicated nor reordered, since one socket queue holds them. `_seqid` has
`Width` bits and starts anywhere; the assumption `MaxCalls < 2^Width` says that
no answer is still waiting `2^Width` calls later. `skip`, `accept` and `reject` are the
three outcomes of a round of the loop in `get_host`; `reg_init` is the retries of
`get_route` with the pauses between them. Which answer `route_lb` gives is free.

### Reporter

A request names the rows of the hosts of one mod, in any order. Every agent sends caller 127
(`load_balance1.cpp:289`) and one request per mod, so requests of any rows in any
combination (`Requests`) reach any reactor thread, and nothing ties a row to a caller.
`get_report_status` is a step per row stored, one for the `send`, and one for each
access of the unprotected `index`: `index ++; index = index % thread_cnt` reads,
may write and read again, and writes, because a compiler may keep the sum in a
register or in memory. Reading past `reportQueues` ends the behaviour
(`ended = "overrun"`), and so does the constructor of `StoreReport` when it cannot connect
(`connect_failed`, `ended = "exit"`). A store thread takes a whole queue (`recv`) and
stores it request by request and row by row (`thread_report`); a query that fails is only
logged. The queues are mailboxes. `received`, `done` and `last` are history: the requests
so far, how often each was stored, and the last request naming a row that each queue was
sent. `MaxReports` bounds the requests.

### External parts

`route_lb.cpp`, `report_client.cpp`, `lars.proto` and its generated code, and the
administration tool are not in the repository. They appear only through their use
in `src/`: the mutex around each `load_balance`, `pull_send`, `update_host`,
`reset_lb_status`, `take_reports`, `edit`. The
repository does not compile as it is (a stray character at `load_balance1.cpp:289`,
`set_callback` for `set_callabck` of `thread_queue.h`, `get_th_pool` for
`get_thread_pool`); the models take the evident meaning.

## 3. Runs

| Run | Instance | Shows |
|---|---|---|
| `lb` | 3 hosts, 2 addresses, responses {h1}, {h2}, {h1, h3}, {h3}, error rate 2/3, success rate 1/3, both consecutive limits 2 | lists, map and heap stay consistent under address reuse, judgement never late, counters share a window, overload ends |
| `lb_routed` | 3 hosts, 3 addresses, any response, also the empty one | **violated**: a host routed again after a deletion is not served |
| `dns_push` | 2 mods, 2 threads, 1 descriptor used again and again, 2 edits, "pushes" | changes reach subscribers; the last edit arrives (liveness) |
| `dns_free` | 2 mods, 1 descriptor used again and again, 2 threads, 2 edits, "nothing" | closed descriptors are forgotten, no stale route, implements `RouteTable` |
| `dns_skip` | 2 mods, 2 descriptors, "nothing" | **violated**: of two edits between two polls one is never pushed |
| `queue` | 3 senders, 4 messages | no lost wake-up, implements `Mailbox`, every message handled |
| `server` | 2 threads, 2 descriptors, 1 task | a closed number is nowhere, table and count agree with the connections, tasks conserved, queues served |
| `conn` | 2 connections, bodies 0, 1, 3, header 2, capacities 3 and 6 | buffers conserved, messages whole and in order, nothing stuck |
| `agent` | 3 mods on 2 `route_lb`, 4 requests, `obuf` with room for 2 | requests scheduled, read callback kept, `PULLING` has a request on its way or was refused, pulls end |
| `api` | 1 caller, 2 mods on 1 server, 3-bit `_seqid`, 4 calls, 2 interrupted | answers are the caller's own, stale ones do not pile up, calls return |
| `reporter` | 2 reactor and 2 store threads, 3 requests that name 2 rows or 1 of them, 1 failing query, a connect that may fail | overrun needs a race, rows end with the last request of some queue, stored twice |
| `client_deaf` | 2 requests, `DnsClient` alone | **violated**: a request during the connect leaves the client deaf |

**Why the bounds are enough.** In `lb` three hosts on two addresses are the fewest with
which `new` returns an address a stale key still names: {h1}, {h2} put h2 on the other
address and free h1's, whose key stays; {h1, h3} finds the key of h1 and makes only h3, at
that address; {h3} then deletes the object of h3 through the key of h1, which is no longer
routed. The four `Responses` are these; `lb_routed` takes any. With these rates and limits
errors are judged by the consecutive limit alone and successes by the rate alone; that all
four rules keep the invariants is proved without bounds. `MaxCalls` = 1 call counted per
host before the judgement, `MaxQueue` = 1 waiting batch of reports. `lb_routed` needs no
more than one deletion. Two edits (`MaxEdits`) are the fewest that overtake each other
between polls or pushes; one descriptor already serves several connections one after the
other, in either thread; the two of `dns_skip` let threads push to different connections at
once. Two mods are two rows, so a reload that is half done holds one of them only, and a
connection is unsubscribed mod by mod. Three senders give every order of two pushes around
the receiver's read and swap with one more waiting for the mutex (`MaxMessages` = 4). With
two threads and two descriptors a number moves from one thread to the other while another
connection lives; one task (`MaxTasks`) meets every state of the queues it is put into. In
`conn` the sizes are scaled so that headers are cut, buffers grow once, a body of 3 exceeds
the length limit 2, an output buffer overflows the largest capacity, and the pool runs into
junk and into the limit; one connection reads and the other writes (`MaxIn`, `MaxOut` = 2),
because input and output of one connection only meet in `clean_conn` and in the pool. In
`agent` mods 0 and 3 share a mutex and 4 has another, so that `conn_init` is between two
`route_lb`s while a server pulls; four requests (`MaxRequests`) are twice what `obuf` takes
(`Room` = 2), so that one or two are refused at once, and after one refusal a mod can be
pulled again. In `api` two interrupted calls (`MaxInterrupts`) leave two stale answers for
the third of four calls (`MaxCalls`), and any start of a 3-bit number makes each of them the
one that overflows; callers share nothing but the order in which a server reads, so one
suffices. In `reporter` two reactor threads are the fewest that race for the index, and
three requests (`MaxReports`) put two into one of two queues while the third goes through
the other; one row is named by all of them, the other by some; `MaxErrors` = 1 query fails.
These bounds are the only ones, each in the guard of an environment's or a counting action.

**Deadlock** is checked in the dns runs and in `server`. The others switch it off: a
`load_balance`, the agent or the reporter may leave defined behaviour, all messages,
calls or reports may have been sent, a process may have ended in an assert or a failed
connect, or a connection may be closed.

**Fairness.** Threads keep running: weak fairness of the backend, of each reactor
thread, of a loop in `event_process`. A round of `event_process` ends in
`execute_ready_tasks`, so a loop that keeps serving events still runs its tasks:
strong fairness of `make_publish_map` in `DnsService`, where rounds are not
modelled (in `TcpServer` they are, and weak fairness suffices). A pthread mutex is
not fair, so a thread waiting for one gets it only if it is free again and again:
strong fairness of senders and of `recv_read` in `ThreadQueue`. `OverloadEnds`
assumes that callers keep asking and report on every host they were given, that
the report of a given host is not starved, and that time passes; not that
any call succeeds. `FairAgent` lets `main`, a server inside `pull` and `conn_init` run
on, and has the dns client's loop serve the eventfd as well as the socket, because both
are looked at in each round; a connect ends one way or the other and the service
answers what it reads. Requests are bounded there, so the mutexes need no strong
fairness. In `Api` the servers and a caller inside `recvfrom` run on; in `Reporter` every
thread does. Nobody has to connect, close, edit, call, report or send.

## 4. Findings

1. `lb_routed`, `load_balance1.cpp:63`: `update()` keeps the key of a deleted
   host, so when the host is routed again it is in no list and never handed out;
   reports and later deletions go through the stale pointer.
2. `dns_skip`, `dns_route.cpp:85`: the version is advanced before the changes are
   selected by `version >= _version`, so only the newest of several edits is pushed.
   A reload every 10 s refreshes the table but publishes nothing.
3. `client_deaf`, `tcp_client.cpp:68`: a request sent while the connect is in
   progress replaces `connection_succ`; the read callback is never registered.

The passing runs bound each of these: `ServedFollowsRoute` says what still holds with
stale keys, `ChangesReachSubscribers` holds when edits wait for pushes, and
`PatientClientListens` says that overtaking the connect is the only way to become
deaf.

Four things the models contain without a run of their own:

- `subcribe.cpp:136` erases `push_list` after each message without the mutex, so an
  entry published meanwhile is lost. TLC shows it in the instance of `dns_skip` with
  `AdminWaits = "poll"`.
- The asserts on `head` fail after a body was refused at the largest capacity
  (`tcp_conn.cpp:131` then pops the header from the wrong end), and only for the connection
  it happened to (`HeadAssertsHold`). Another assert fails when a message without a body
  ends the input (`tcp_conn.cpp:80`).
- `reporter_service.cpp:22` indexes past the queues when two reactor threads interleave
  between `++` and `%`. `OverrunNeedsRace` and its theorem say that one reactor
  thread alone never does.
- The client side of the same code refuses a request in the agent: the request is lost, its mod
  stays `PULLING` until a reset or a push, or the agent ends in the assert. It ends in
  another one when `lars_dns` answers without hosts. `PullAnswered` names these ends.

## 5. Proofs

All proofs are for arbitrary constants that satisfy the module's assumptions: any
number of hosts, addresses, senders, threads, descriptors, connections, mods, requests,
any rates, limits, capacities, message lengths and width of `_seqid`.

- **ThreadQueueProofs**: `TypeCorrect`, `WakeUpsAreKept`, `MailboxImplemented`.
  `IInv` adds to the types that the mutex is held exactly by the thread inside its
  critical section (`MutexInv`), that the eventfd lags behind the queue by the message
  being sent and is 0 between the receiver's read and its swap (`EventfdInv`), and that
  the receiver enters `recv` with an empty local queue (`LocalInv`). `NoLostWakeUp` alone
  is not inductive: a sender that has pushed and not yet written breaks it in the step
  that frees the mutex. The refinement needs `LocalInv`, because the swap would
  otherwise put handled messages back.
- **LoadBalanceProofs**: `LiveHostsAreMapped`, `JudgedInTime`, `OneWindow`,
  `ListsArePartition`, `ServedAreTheRoute`, `TypeCorrect`, `ReportsNameServedHosts`. What
  matters about one object is `Good` (typed, judged in time, counters in one
  window); every operation stores a good object or none. `HeapInv` adds that live
  hosts sit under their own key and are in the last response; address reuse is
  harmless because a new host takes a free address and writes its own key. The helper
  `Without` (`std::list::remove`) is a recursive function, so its facts (range,
  injectivity) are proved by taking the least length at which they would fail. `ListInv`
  is then preserved operation by operation, and each move between lists is one lemma.
- **DnsServiceProofs**: `TypeCorrect`, `ClosedNumbersAreForgotten`, `RoutesNeverGoBack`,
  `RouteIsAtomic` (the refinement of `RouteTable`), `ChangesArePushed`. The table is never
  seen half loaded because of `LoadInv`: the table in use has one revision of each mod, and
  what the other one holds together with the rows still to be inserted (`Loaded`) has one
  that is not older. For the refinement, inserting a row leaves `Loaded` as it is, so the
  copy of `RouteTable` changes only in its `Query`, for all mods at once, and `swap` finds
  no row left. `SeenInv` bounds what was sent by the table, which makes routes monotonic.
  `BookInv` and `ThreadInv` say that only open descriptors are booked and that a thread
  works on connections of its own; `clear_subscribe` and `close` keep them although they
  interleave with `publish` and with pushes of other threads. `TaskInv` bounds the tasks of
  a thread by the versions noticed and is needed for the types only. `ChangesArePushed` has
  `AdminWaits = "pushes"` as its hypothesis; `dns_skip` shows that without it the property
  fails. Then at most one edit is on its way (`WaveInv`: no thread has a task or pushes
  while the backend has a version to publish) and the table differs from the database in
  that edit's mod only (`CurrentInv`). `ServedInv` follows the edit to each subscriber: it
  was sent the present revision, or `get_route` is about to send it, or the edit is not
  published yet, or it is in the subscriber's `push_list` with a task to come, or in its
  thread's `need_publish`. The unlocked `push_erase` is harmless here because `publish` has
  nothing new to put into the list before the pushes are done.
- **TcpServerProofs**: `TypeCorrect`, `ClosedNumbersAreFree`, `TableIsRight`,
  `TasksReachThreadsOnce`. The properties are not inductive because they do not say where
  a descriptor is on its way from `accept` to `close`. `PlaceInv` does: it is
  held by `do_accept`, in one queue, in the batch of one thread, or listened to by
  one loop, and never in two of these. `ThreadInv` says which connection a thread
  makes or cleans (`ConnInv`), that `conns` names the listening thread except meanwhile
  (`TableInv`), and that a descriptor `epoll_wait` returned is still its thread's
  (`FiredInv`); `CountInv` is the sum `_curr_conns` keeps.
- **TcpConnProofs**: `TypeCorrect`, `MemoryIsConserved`, `HeadsAreAsserted`,
  `NoMessageWaits`, `MessagesArrive`, all from `IInvAlways`. `MessagesAreWhole` says nothing
  of bytes on their way; `Framed` does: `ibuf` followed by what the kernel holds is the
  concatenation of the peer's messages after those the router got, so a header that is
  complete in `ibuf` is the header of the next message and `parse_message` takes exactly
  its body. `Sending` says that `wire` and `obuf` are the messages accepted, with the
  header of the one being sent between `send_head` and `send_body`, until a body is
  refused. `Reserved` connects the two halves of growing a buffer: the `io_buf` in `spare`
  holds what is in the buffer and what the callback is going to add, hence no capacity is
  exceeded (`Fit`). Only one connection takes a step (`OneConnection`), and the pool is
  shared by arithmetic alone: each step is `Balanced`, it moves an `io_buf` between the pool
  and one connection or allocates it in `total_mem`. That `Total` follows an update needs
  induction over a finite set, which is done with the set of sizes at which it would fail
  and its least element. Hypotheses: finitely many connections and capacities, and a
  header fits into the largest `io_buf`.
- **AgentProofs**, about `DnsClient`: `TypeCorrect`, `RequestsAreScheduled`,
  `PatientClientReads`. `IInv` adds that every request is in exactly one place on its way
  to the service and back, or lost (`RequestInv`), that the connecting callback is gone once the
  hook has run (`HookInv`), and that until a request overtakes it the socket has the
  connecting or the read callback (`ListenInv`). About `Agent`: `AgentImplementsClient`, a
  behaviour of the agent is one of its dns client, so the theorems about `DnsClient` hold
  in it (`AgentRequestsAreScheduled`, `AgentReadsAnswers`), and `AgentTypeCorrect`.
  `PullingMeansAsked` needs `OrderInv` (`order` lists the requests counted) and `PullInv`:
  the mod a server is in `pull` for has a request on its way, or one that was refused
  meanwhile, until the status is set, because the answer's handler waits for the mutex.
- **ApiProofs**: `TypeCorrect`, `EveryAnswerIsOwn`, `FewStaleAnswers`. `Pending` are the
  answers a client will find in one socket: those in it and those of requests a server has
  not read. `SeqInv`: the sequence number of a pending `get_host` answer lies behind
  `_seqid`, modulo `2^Width`, by no more than the calls that followed it. With
  `MaxCalls < 2^Width` no older answer has the number a call waits for (`HostInv`), so
  equality of `_seqid` in the loop of `get_host` identifies the call. A `GetRoute` answer
  has no number; it is the call's own where no `recvfrom` was interrupted (`RouteInv`),
  which follows from `StaleAnswersAreBounded`: each call sends one request and takes one
  answer, unless it was interrupted.
- **ReporterProofs**: `TypeCorrect`, `OverrunTakesTwo`, `OneReactorNeverOverruns` (with one
  reactor thread no behaviour ends in an overrun), `RowsEndWithTheLastOfAQueue`.
  `OverrunNeedsRace` is inductive once `index` and the register copies are typed: every
  write of `index` is a sum, which leaves its thread at "reload", or a remainder, which is
  the number of a queue. `StoreInv` adds to the types that nothing is stored more than twice: a
  request is in at most one queue, once, and was stored once before it came there (`ItemInv`,
  `CountInv`). `RowsEndWithTheLastOfAQueue` needs more than the quiet states it is about.
  `RowInv`: as long as no query failed, each row is from the last request some queue was sent
  for it, or a handler or a store thread will still write it. `LastInv`: of what a queue and
  its store thread still hold, the last request naming a row is the last one that queue was
  sent. So whoever writes a row is followed by another write of it or leaves it as the
  theorem says: a handler's request goes into a queue and is stored again, and a store thread
  has a later request for the row or writes the last; in a quiet state nothing is to come.

Every invariant of a passing run is now a theorem, and so are the two refinements and
`NoStaleRouteSent`. Only model-checked: liveness (`OverloadEnds`, `LastEditArrives`,
`EveryMessageHandled`, `QueuesAreServed`, `PullAnswered`, `CallReturns`,
`EveryReportStored`), since TLAPS does not treat fairness and ENABLED; and the violations
of section 4, which are counterexamples TLC finds.

The library's induction theorems take an operator as a parameter, which the installed
provers cannot instantiate. The proofs use no recursive operators, and where they need
induction (`Without`, `Total`) they take the least element of a set of counterexamples.

## 6. Not modelled

- `config_file` (parsing at start-up), `udp_client` (used by examples only), the router's
  table (filled before the loops start; its dispatch is in `Api`), examples, load tests,
  vendored code, and copies (`aug_*.cpp`, `reporter_service2/3/6.cpp`,
  `event_loop2.cpp`, `test/mar_*.cpp`).
- `route_lb.cpp` and `report_client.cpp`, which are not in the repository. What the
  agent does between its handlers and a `load_balance`, the expiry after
  `update_timeout` included, is known only from headers and callers; hence *partly*.
- The set-up of the MySQL connection of the dns service and of the store threads at start-up,
  and queries of the dns service that fail; both end the process. The connection each
  request of the reporter opens is modelled (`connect_failed`).
- The limit of connections is not a property: `do_accept` compares `_curr_conns`, which
  rises only when a reactor thread has made the connection (`tcp_server.cpp:163`), so
  connections waiting in queues exceed it. Calls counted since the last `commit()` are
  lost in a flip (`host_info.cpp:8`); how often `commit()` runs is decided in a missing
  file.
- Corruption of containers by unlocked access is represented by its logical effect only.

## 7. What is left

1. What the theorems say under a hypothesis: `ChangesArePushed` for an administrator who
   waits. Without it something weaker should hold and be provable, for instance that a
   subscriber has the newest *published* route unless `push_erase` took an entry.
2. `TcpServer` and `ThreadQueue` are connected by an argument only (a queue there is a
   sequence, here a mailbox implemented). A composed refinement would make it a theorem.
3. `TcpConn` and `DnsClient` describe the same write path at two levels; that the counts of
   `DnsClient` abstract the bytes of `TcpConn` is not stated.
4. When `route_lb.cpp` becomes available: `update_timeout`, and one composition of
   `LoadBalance` with `Agent`.
