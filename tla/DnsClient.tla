------------------------------ MODULE DnsClient ------------------------------
(***************************************************************************)
(* The dns client thread of lars_lb_agent (dns_client.cpp) over tcp_client *)
(* and event_loop: one non-blocking connection to lars_dns, fed by         *)
(* dns_queue.  Requests and responses are counted; what matters is which   *)
(* callback the event_loop has registered for the socket at each moment,   *)
(* and what becomes of a request that does not fit the output buffer.      *)
(* The socket and the dns service are the environment.                     *)
(***************************************************************************)
EXTENDS Naturals

CONSTANTS
  MaxRequests,        \* bound: requests put into dns_queue
  Room                \* requests the largest io_buf of obuf holds

ASSUME RequestAssumption == MaxRequests \in Nat /\ Room \in Nat \ {0}

VARIABLES
  sock,               \* of _sockfd, as the kernel sees it
  io,                 \* io_event of _sockfd: mask and write_callback
  dns_queue, obuf,    \* requests waiting in the queue and in the output buffer
  damaged,            \* obuf lost its first bytes, its head is not 0
  started,            \* the thread is in event_process
  conn_inits,         \* how often the connection hook ran
  running             \* FALSE once an assert or a null pointer ended the agent

(* The connection and the other side. *)
VARIABLES asked,      \* requests ever put into dns_queue
          wire,       \* requests written and not read by the service
          responses,  \* responses not read by the client
          answered    \* responses handled by deal_recv_route

(* History: a request was sent before the connection was established; the  *)
(* requests send_message refused.                                          *)
VARIABLES overtaken, lost

client == <<io, dns_queue, obuf, damaged, started, conn_inits>>
remote == <<wire, responses>>
counts == <<asked, remote, answered, lost>>
vars == <<sock, client, running, counts, overtaken>>

(* An entry that is not in _io_evs has an empty mask. *)
no_event == [mask |-> {}, write_callback |-> "none"]

Init ==
  /\ sock = "none" /\ io = no_event /\ dns_queue = 0 /\ obuf = 0
  /\ damaged = FALSE /\ started = FALSE /\ conn_inits = 0 /\ running = TRUE
  /\ asked = 0 /\ wire = 0 /\ responses = 0 /\ answered = 0
  /\ overtaken = FALSE /\ lost = 0
-----------------------------------------------------------------------------
(* An assert fails, or a thread uses a null pointer. *)
process_ends ==
  /\ running /\ running' = FALSE
  /\ UNCHANGED <<sock, client, counts, overtaken>>

(* event_loop::add_io_event and del_io_event on _sockfd. *)
add_read(ev) == [ev EXCEPT !.mask = @ \cup {"EPOLLIN"}]
add_write_alone(ev, proc) ==                  \* Mutant: = for |= on the mask
  [mask |-> {"EPOLLOUT"}, write_callback |-> proc]
add_write(ev, proc) == [mask |-> ev.mask \cup {"EPOLLOUT"}, write_callback |-> proc]
del_write(ev) == IF ev.mask \subseteq {"EPOLLOUT"} THEN no_event
                 ELSE [ev EXCEPT !.mask = @ \ {"EPOLLOUT"}]

(* Mutant: the connecting event is not deleted. *)
connection_succ_again(hook) ==
  /\ conn_inits' = conn_inits + (IF hook THEN 1 ELSE 0)
  /\ io' = add_read(io)

(* connection_succ on a socket without an error: the hook runs if it is    *)
(* set already, and the callbacks for the connection are registered.       *)
connection_succ(hook) ==
  /\ conn_inits' = conn_inits + (IF hook THEN 1 ELSE 0)
  /\ io' = LET ev == add_read(no_event)
           IN  IF obuf # 0 THEN add_write(ev, "write_callback") ELSE ev

(* dns_client_thread: do_connect in the constructor, before the hook is    *)
(* set, then event_process.  connect() is done at once or in progress.     *)
dns_client_thread ==
  /\ running /\ ~started /\ started' = TRUE
  /\ \/ sock' = "up" /\ connection_succ(FALSE)
     \/ /\ sock' = "connecting" /\ io' = add_write(no_event, "connection_succ")
        /\ UNCHANGED conn_inits
  /\ UNCHANGED <<dns_queue, obuf, damaged, running, counts, overtaken>>

(* Mutant: only the first request is passed on. *)
new_dns_request_first ==
  /\ running /\ started /\ dns_queue > 0
  /\ obuf' = obuf + 1 /\ dns_queue' = 0
  /\ io' = IF obuf = 0 THEN add_write(io, "write_callback") ELSE io
  /\ overtaken' = (overtaken \/ io.write_callback = "connection_succ")
  /\ UNCHANGED <<sock, damaged, started, conn_inits, running, counts>>

(* Of the queued requests, those for which obuf has no room. *)
Refused == IF dns_queue > Room - obuf THEN dns_queue - (Room - obuf) ELSE 0

(* new_dns_request passes everything queued to tcp_client::send_message.   *)
(* A request whose header is refused is lost.  One whose body is refused   *)
(* is lost too, and instead of its header the first bytes of obuf are      *)
(* popped: the next send_data or write2fd fails the assert on the head.    *)
new_dns_request ==
  /\ running /\ started /\ dns_queue > 0
  /\ \/ damaged /\ process_ends
     \/ /\ ~damaged
        /\ dns_queue' = 0 /\ obuf' = obuf + dns_queue - Refused
        /\ io' = IF obuf = 0 THEN add_write(io, "write_callback") ELSE io
        /\ overtaken' = (overtaken \/ io.write_callback = "connection_succ")
        /\ lost' = lost + Refused
        /\ \/ UNCHANGED <<damaged, running>>
           \/ Refused > 0 /\ damaged' = TRUE /\ running' = (Refused = 1)
        /\ UNCHANGED <<sock, started, conn_inits, asked, remote, answered>>
-----------------------------------------------------------------------------
(* What epoll_wait reports of the socket.  A pending read hides a write.   *)
Readable == "EPOLLIN" \in io.mask /\ ((sock = "up" /\ responses > 0) \/ sock = "hup")
Writable == "EPOLLOUT" \in io.mask /\ sock \in {"up", "hup", "refused"} /\ ~Readable

clean_conn == io' = no_event /\ sock' = "closed"

(* One read brings any number of whole responses; the rest waits.          *)
do_read ==
  /\ running /\ Readable
  /\ \/ /\ responses > 0
        /\ \E n \in 1..responses : /\ answered' = answered + n
                                   /\ responses' = responses - n
        /\ UNCHANGED <<sock, io>>
     \/ /\ sock = "hup"
        /\ clean_conn
        /\ UNCHANGED <<responses, answered>>
  /\ UNCHANGED <<dns_queue, obuf, damaged, started, conn_inits, running, asked, wire,
                 lost, overtaken>>

on_connected ==
  /\ running /\ Writable /\ io.write_callback = "connection_succ"
  /\ IF sock = "refused" THEN io' = no_event /\ UNCHANGED conn_inits
                         ELSE connection_succ(TRUE)
  /\ UNCHANGED <<sock, dns_queue, obuf, damaged, started, running, counts, overtaken>>

(* Mutant: the write event is deleted after one write. *)
do_write_once ==
  /\ running /\ Writable /\ io.write_callback = "write_callback" /\ sock = "up"
  /\ \E n \in 1..obuf : obuf' = obuf - n /\ wire' = wire + n
  /\ io' = del_write(io)
  /\ UNCHANGED <<sock, dns_queue, damaged, started, conn_inits, running, asked,
                 responses, answered, lost, overtaken>>

(* The socket takes n of the requests in obuf, or writing fails. *)
do_write ==
  /\ running /\ Writable /\ io.write_callback = "write_callback"
  /\ \/ damaged /\ process_ends
     \/ /\ ~damaged /\ sock # "refused"
        /\ \E n \in 1..obuf : obuf' = obuf - n /\ wire' = wire + n
        /\ io' = IF obuf' = 0 THEN del_write(io) ELSE io
        /\ UNCHANGED <<sock, dns_queue, damaged, started, conn_inits, running, asked,
                       responses, answered, lost, overtaken>>
     \/ /\ ~damaged /\ sock # "up"
        /\ clean_conn
        /\ UNCHANGED <<dns_queue, obuf, damaged, started, conn_inits, running, counts,
                       overtaken>>
-----------------------------------------------------------------------------
(* load_balance::pull puts a request into dns_queue, from the first moment *)
(* on: the UDP servers of the agent start before this thread.              *)
pull ==
  /\ running /\ asked < MaxRequests
  /\ asked' = asked + 1 /\ dns_queue' = dns_queue + 1
  /\ UNCHANGED <<sock, io, obuf, damaged, started, conn_inits, running, remote,
                 answered, lost, overtaken>>

(* The kernel and the dns service. *)
connected ==
  /\ sock = "connecting" /\ sock' \in {"up", "refused"}
  /\ UNCHANGED <<client, running, counts, overtaken>>

service_answers ==
  /\ sock = "up" /\ wire > 0
  /\ wire' = wire - 1 /\ responses' = responses + 1
  /\ UNCHANGED <<sock, client, running, asked, answered, lost, overtaken>>

service_closes ==
  /\ sock = "up" /\ sock' = "hup"
  /\ UNCHANGED <<client, running, counts, overtaken>>

Loop == new_dns_request \/ do_read \/ on_connected \/ do_write

(* process_ends by itself: a handler or another thread of the agent fails. *)
Next == dns_client_thread \/ Loop \/ pull \/ process_ends
        \/ connected \/ service_answers \/ service_closes

Spec == Init /\ [][Next]_vars
-----------------------------------------------------------------------------
Counts == 0..MaxRequests

(* The type invariant. *)
TypeOK ==
  /\ sock \in {"none", "connecting", "up", "refused", "hup", "closed"}
  /\ io.mask \subseteq {"EPOLLIN", "EPOLLOUT"}
  /\ io.write_callback \in {"none", "connection_succ", "write_callback"}
  /\ {dns_queue, asked, wire, responses, answered, lost} \subseteq Counts
  /\ obuf \in 0..Room
  /\ {damaged, started, running, overtaken} \subseteq BOOLEAN /\ conn_inits \in 0..1

(* No request is stuck in obuf: send_message registers the socket only     *)
(* when obuf was empty, and do_write and connection_succ never leave data  *)
(* behind without EPOLLOUT.                                                *)
BufferedRequestsAreScheduled ==
  sock \in {"connecting", "up"} /\ obuf > 0 =>
    /\ "EPOLLOUT" \in io.mask
    /\ io.write_callback = "write_callback"

(* tcp_client.cpp:178: once the connection is established and the loop has *)
(* nothing to write, the read callback is registered for it.               *)
ConnectedClientListens ==
  sock = "up" /\ "EPOLLOUT" \notin io.mask => "EPOLLIN" \in io.mask

(* The same, if no request was sent while the connect was in progress: it  *)
(* is the only way to lose the read callback.                              *)
PatientClientListens == ~overtaken => ConnectedClientListens
=============================================================================
