----------------------------- MODULE AgentProofs -----------------------------
(***************************************************************************)
(* Proofs about the dns client and the agent around it, for any mods and   *)
(* any number of requests.  DnsClient: no request is stuck in obuf, and    *)
(* only a request that overtakes the connect can take the read callback    *)
(* away.  Agent: its threads do nothing the client alone cannot do, and no *)
(* load_balance is left PULLING without a request on its way.              *)
(***************************************************************************)
EXTENDS Agent, TLAPS, SequenceTheorems

io_event == [mask : SUBSET {"EPOLLIN", "EPOLLOUT"},
             write_callback : {"none", "connection_succ", "write_callback"}]

TypeInv ==
  /\ sock \in {"none", "connecting", "up", "refused", "hup", "closed"}
  /\ io \in io_event
  /\ dns_queue \in Nat /\ obuf \in 0..Room /\ asked \in 0..MaxRequests
  /\ wire \in Nat /\ responses \in Nat /\ answered \in Nat /\ lost \in Nat
  /\ started \in BOOLEAN /\ conn_inits \in 0..1 /\ overtaken \in BOOLEAN
  /\ damaged \in BOOLEAN /\ running \in BOOLEAN

(* Nothing happens to the socket before the thread starts. *)
StartInv ==
  /\ started <=> sock # "none"
  /\ ~started => obuf = 0 /\ io = no_event /\ conn_inits = 0

(* Every request is in one place on its way to the service and back, or    *)
(* send_message refused it.                                                *)
RequestInv == asked = dns_queue + obuf + wire + responses + answered + lost

(* The connecting callback is there only until the hook has run. *)
HookInv == io.write_callback = "connection_succ" => conn_inits = 0

(* Until a request overtakes it, the socket has the connecting callback or *)
(* the read callback.                                                      *)
ListenInv ==
  ~overtaken =>
    /\ sock = "connecting" => io = [mask |-> {"EPOLLOUT"}, write_callback |-> "connection_succ"]
    /\ sock = "up" =>
         \/ "EPOLLIN" \in io.mask
         \/ io.write_callback = "connection_succ" /\ "EPOLLOUT" \in io.mask

IInv == /\ TypeInv /\ StartInv /\ RequestInv /\ HookInv
        /\ BufferedRequestsAreScheduled /\ ListenInv

(* The inductive invariant holds before the thread starts. *)
LEMMA InitIInv == Init => IInv
<1> SUFFICES ASSUME Init PROVE IInv
  OBVIOUS
<1>1. io \in io_event /\ io.write_callback = "none"
  BY DEF Init, no_event, io_event
<1>2. TypeInv
  <2>1. asked \in 0..MaxRequests /\ conn_inits \in 0..1 /\ obuf \in 0..Room
    BY RequestAssumption DEF Init
  <2>2. /\ sock = "none" /\ started = FALSE /\ overtaken = FALSE /\ damaged = FALSE
        /\ running = TRUE
    BY DEF Init
  <2>3. /\ dns_queue \in Nat /\ wire \in Nat /\ responses \in Nat
        /\ answered \in Nat /\ lost \in Nat
    BY DEF Init
  <2> QED
    BY <1>1, <2>1, <2>2, <2>3 DEF TypeInv
<1>3. HookInv
  BY <1>1 DEF HookInv
<1>4. StartInv /\ RequestInv /\ ListenInv /\ BufferedRequestsAreScheduled
  BY DEF Init, StartInv, RequestInv, ListenInv, BufferedRequestsAreScheduled
<1> QED
  BY <1>2, <1>3, <1>4 DEF IInv

(* An entry that is not in _io_evs. *)
LEMMA NoEvent ==
  no_event \in io_event /\ no_event.mask = {} /\ no_event.write_callback = "none"
  BY DEF no_event, io_event

(* What the operations on the io_event leave. *)
LEMMA IoEvents ==
  ASSUME NEW ev \in io_event, NEW proc \in {"connection_succ", "write_callback"}
  PROVE  /\ add_read(ev) \in io_event /\ add_write(ev, proc) \in io_event
         /\ del_write(ev) \in io_event
         /\ add_read(ev).mask = ev.mask \cup {"EPOLLIN"}
         /\ add_read(ev).write_callback = ev.write_callback
         /\ add_write(ev, proc).mask = ev.mask \cup {"EPOLLOUT"}
         /\ add_write(ev, proc).write_callback = proc
         /\ del_write(ev).write_callback \in {"none", ev.write_callback}
         /\ "EPOLLIN" \in ev.mask => "EPOLLIN" \in del_write(ev).mask
<1>1. /\ add_read(ev) \in io_event /\ add_read(ev).mask = ev.mask \cup {"EPOLLIN"}
      /\ add_read(ev).write_callback = ev.write_callback
  BY DEF add_read, io_event
<1>2. /\ add_write(ev, proc) \in io_event
      /\ add_write(ev, proc).mask = ev.mask \cup {"EPOLLOUT"}
      /\ add_write(ev, proc).write_callback = proc
  BY DEF add_write, io_event
<1>3. /\ del_write(ev) \in io_event /\ del_write(ev).write_callback \in {"none", ev.write_callback}
      /\ "EPOLLIN" \in ev.mask => "EPOLLIN" \in del_write(ev).mask
  <2>1. CASE ev.mask \subseteq {"EPOLLOUT"}
    BY <2>1, NoEvent DEF del_write
  <2>2. CASE ~(ev.mask \subseteq {"EPOLLOUT"})
    BY <2>2 DEF del_write, io_event
  <2> QED
    BY <2>1, <2>2
<1> QED
  BY <1>1, <1>2, <1>3

(* connection_succ registers the read callback, and the write callback if  *)
(* something waits in obuf.                                                *)
LEMMA ConnectionSucceeds ==
  ASSUME TypeInv, NEW hook \in BOOLEAN, connection_succ(hook)
  PROVE  /\ io' \in io_event /\ "EPOLLIN" \in io'.mask
         /\ io'.write_callback # "connection_succ"
         /\ obuf # 0 => "EPOLLOUT" \in io'.mask /\ io'.write_callback = "write_callback"
         /\ conn_inits' = conn_inits + (IF hook THEN 1 ELSE 0)
<1>1. no_event \in io_event /\ no_event.write_callback = "none"
  BY NoEvent
<1> DEFINE ev == add_read(no_event)
<1>2. /\ ev \in io_event /\ ev.mask = no_event.mask \cup {"EPOLLIN"}
      /\ no_event.write_callback = "none" /\ ev.write_callback = no_event.write_callback
  BY <1>1, IoEvents
<1> HIDE DEF ev
<1>3. CASE obuf = 0
  BY <1>2, <1>3 DEF connection_succ, ev
<1>4. CASE obuf # 0
  <2>1. io' = add_write(ev, "write_callback")
    BY <1>4 DEF connection_succ, ev
  <2>2. /\ add_write(ev, "write_callback") \in io_event
        /\ add_write(ev, "write_callback").mask = ev.mask \cup {"EPOLLOUT"}
        /\ add_write(ev, "write_callback").write_callback = "write_callback"
    BY <1>2, IoEvents
  <2> QED
    BY <1>2, <2>1, <2>2 DEF connection_succ
<1> QED
  BY <1>3, <1>4

(* Every callback, the kernel and the service keep it. *)
LEMMA NextIInv == IInv /\ [Next]_vars => IInv'
<1> SUFFICES ASSUME IInv, [Next]_vars PROVE IInv'
  OBVIOUS
<1>0. io \in io_event /\ obuf \in 0..Room /\ conn_inits \in 0..1 /\ Room \in Nat \ {0}
  BY RequestAssumption DEF IInv, TypeInv
<1>e. no_event \in io_event /\ no_event.mask = {} /\ no_event.write_callback = "none"
  BY NoEvent
<1> USE DEF IInv, TypeInv, StartInv, RequestInv, HookInv, ListenInv,
            BufferedRequestsAreScheduled
<1>1. CASE dns_client_thread
  <2>1. /\ ~started /\ started' = TRUE /\ obuf = 0 /\ conn_inits = 0
        /\ UNCHANGED <<dns_queue, obuf, damaged, running, asked, wire, responses, answered,
                       lost, overtaken>>
    BY <1>1 DEF dns_client_thread, remote, counts
  <2>2. CASE sock' = "up" /\ connection_succ(FALSE)
    <3>1. /\ io' \in io_event /\ "EPOLLIN" \in io'.mask
          /\ io'.write_callback # "connection_succ"
          /\ conn_inits' = conn_inits + (IF FALSE THEN 1 ELSE 0)
      BY <2>2, ConnectionSucceeds, Zenon
    <3> QED
      BY <2>1, <2>2, <3>1
  <2>3. CASE /\ sock' = "connecting" /\ io' = add_write(no_event, "connection_succ")
             /\ UNCHANGED conn_inits
    <3>1. io' = [mask |-> {"EPOLLOUT"}, write_callback |-> "connection_succ"]
      BY <2>3 DEF add_write, no_event
    <3>2. io' \in io_event
      BY <3>1 DEF io_event
    <3> QED
      BY <2>1, <2>3, <3>1, <3>2
  <2> QED
    BY <1>1, <2>2, <2>3 DEF dns_client_thread
<1>p. ASSUME process_ends PROVE IInv'
  <2>1. /\ running' = FALSE
        /\ UNCHANGED <<sock, io, dns_queue, obuf, damaged, started, conn_inits, asked, wire,
                       responses, answered, lost, overtaken>>
    BY <1>p DEF process_ends, client, counts, remote
  <2> QED
    BY <2>1
<1>2. CASE new_dns_request
  <2>0. CASE damaged /\ process_ends
    BY <1>p, <2>0
  <2>1. CASE ~(damaged /\ process_ends)
    <3>1. /\ started /\ dns_queue > 0 /\ dns_queue' = 0
          /\ obuf' = obuf + dns_queue - Refused /\ lost' = lost + Refused
          /\ io' = IF obuf = 0 THEN add_write(io, "write_callback") ELSE io
          /\ overtaken' = (overtaken \/ io.write_callback = "connection_succ")
          /\ \/ UNCHANGED <<damaged, running>>
             \/ damaged' = TRUE /\ running' = (Refused = 1)
          /\ UNCHANGED <<sock, started, conn_inits, asked, wire, responses, answered>>
      BY <1>2, <2>1 DEF new_dns_request, remote
    <3>2. Refused \in Nat /\ obuf' \in 0..Room /\ (obuf = 0 => obuf' > 0) /\ lost' \in Nat
      BY <1>0, <3>1 DEF Refused
    <3>3. overtaken' \in BOOLEAN /\ damaged' \in BOOLEAN /\ running' \in BOOLEAN
      BY <3>1
    <3>4. asked' = dns_queue' + obuf' + wire' + responses' + answered' + lost'
      BY <1>0, <3>1, <3>2
    <3> HIDE DEF Refused
    <3>5. CASE obuf = 0
      <4>1. io' = add_write(io, "write_callback")
        BY <3>1, <3>5
      <4>2. /\ io' \in io_event /\ io'.mask = io.mask \cup {"EPOLLOUT"}
            /\ io'.write_callback = "write_callback"
        BY <1>0, <4>1, IoEvents
      <4>3. ListenInv'
        <5>1. ASSUME ~overtaken'
              PROVE  sock' # "connecting" /\ (sock' = "up" => "EPOLLIN" \in io'.mask)
          <6>1. ~overtaken /\ io.write_callback # "connection_succ"
            BY <3>1, <5>1
          <6> QED
            BY <3>1, <4>2, <6>1
        <5> QED
          BY <5>1, Zenon DEF ListenInv
      <4>4. TypeInv' /\ StartInv' /\ HookInv' /\ BufferedRequestsAreScheduled'
        BY <3>1, <3>2, <3>3, <3>5, <4>2
      <4> QED
        BY <3>4, <4>3, <4>4
    <3>6. CASE obuf # 0
      <4>1. io' = io
        BY <3>1, <3>6
      <4>2. TypeInv' /\ StartInv' /\ HookInv'
        BY <3>1, <3>2, <3>3, <3>6, <4>1
      <4>3. BufferedRequestsAreScheduled' /\ ListenInv'
        BY <3>1, <3>6, <4>1
      <4> QED
        BY <3>4, <4>2, <4>3
    <3> QED
      BY <3>5, <3>6
  <2> QED
    BY <2>0, <2>1
<1>3. CASE do_read
  <2>1. UNCHANGED <<dns_queue, obuf, damaged, started, conn_inits, running, asked, wire,
                    lost, overtaken>>
    BY <1>3 DEF do_read
  <2>2. CASE /\ \E n \in 1..responses : /\ answered' = answered + n
                                         /\ responses' = responses - n
             /\ UNCHANGED <<sock, io>>
    BY <2>1, <2>2
  <2>3. CASE sock = "hup" /\ clean_conn /\ UNCHANGED <<responses, answered>>
    BY <1>e, <2>1, <2>3 DEF clean_conn
  <2> QED
    BY <1>3, <2>2, <2>3 DEF do_read
<1>4. CASE on_connected
  <2>1. /\ UNCHANGED <<sock, dns_queue, obuf, damaged, started, running, asked, wire,
                       responses, answered, lost, overtaken>>
        /\ io.write_callback = "connection_succ" /\ conn_inits = 0
        /\ sock \in {"up", "hup", "refused"}
    BY <1>4 DEF on_connected, remote, counts, Writable
  <2>2. CASE sock = "refused"
    <3>1. io' = no_event /\ conn_inits' = 0
      BY <1>4, <2>1, <2>2 DEF on_connected
    <3> QED
      BY <1>e, <2>1, <2>2, <3>1
  <2>3. CASE sock # "refused"
    <3>1. connection_succ(TRUE)
      BY <1>4, <2>3 DEF on_connected
    <3>2. /\ io' \in io_event /\ "EPOLLIN" \in io'.mask
          /\ io'.write_callback # "connection_succ"
          /\ obuf # 0 => "EPOLLOUT" \in io'.mask /\ io'.write_callback = "write_callback"
          /\ conn_inits' = conn_inits + (IF TRUE THEN 1 ELSE 0)
      BY <3>1, ConnectionSucceeds, Zenon
    <3> QED
      BY <2>1, <2>3, <3>2
  <2> QED
    BY <2>2, <2>3
<1>5. CASE do_write
  <2>0. CASE damaged /\ process_ends
    BY <1>p, <2>0
  <2>1. io.write_callback = "write_callback" /\ sock \in {"up", "hup", "refused"}
    BY <1>5 DEF do_write, Writable
  <2>2. CASE /\ \E n \in 1..obuf : obuf' = obuf - n /\ wire' = wire + n
             /\ io' = IF obuf' = 0 THEN del_write(io) ELSE io
             /\ UNCHANGED <<sock, dns_queue, damaged, started, conn_inits, running, asked,
                            responses, answered, lost, overtaken>>
    <3>1. /\ obuf' \in 0..Room /\ wire' \in Nat /\ obuf' + wire' = obuf + wire /\ obuf > 0
      BY <1>0, <2>2
    <3>2. /\ io' \in io_event /\ io'.write_callback # "connection_succ"
          /\ "EPOLLIN" \in io.mask => "EPOLLIN" \in io'.mask
      BY <1>0, <2>1, <2>2, IoEvents
    <3>3. TypeInv' /\ StartInv' /\ HookInv' /\ ListenInv'
      BY <2>1, <2>2, <3>1, <3>2
    <3>4. RequestInv'
      BY <2>2, <3>1
    <3>5. BufferedRequestsAreScheduled'
      BY <2>1, <2>2, <3>1
    <3> QED
      BY <3>3, <3>4, <3>5
  <2>3. CASE /\ sock # "up" /\ clean_conn
             /\ UNCHANGED <<dns_queue, obuf, damaged, started, conn_inits, running, counts,
                            overtaken>>
    <3>1. UNCHANGED <<asked, wire, responses, answered, lost>>
      BY <2>3 DEF counts, remote
    <3> QED
      BY <1>e, <2>1, <2>3, <3>1 DEF clean_conn
  <2> QED
    BY <1>5, <2>0, <2>2, <2>3 DEF do_write
<1>6. CASE pull
  BY <1>6, RequestAssumption DEF pull, remote
<1>7. CASE connected
  BY <1>7 DEF connected, client, remote, counts
<1>8. CASE service_answers
  BY <1>8 DEF service_answers, client
<1>9. CASE service_closes
  BY <1>9 DEF service_closes, client, remote, counts
<1>10. CASE UNCHANGED vars
  BY <1>10 DEF vars, client, remote, counts
<1> QED
  BY <1>p, <1>1, <1>2, <1>3, <1>4, <1>5, <1>6, <1>7, <1>8, <1>9, <1>10 DEF Next, Loop

(* IInv is inductive. *)
LEMMA IInvAlways == Spec => []IInv
  BY InitIInv, NextIInv, PTL DEF Spec

(* Type correctness, and the connection hook runs at most once. *)
THEOREM TypeCorrect == Spec => []TypeOK
<1>1. IInv => TypeOK
  BY RequestAssumption DEF IInv, TypeInv, RequestInv, TypeOK, Counts, io_event
<1> QED
  BY <1>1, IInvAlways, PTL

(* A request in obuf of an open connection is registered for writing. *)
THEOREM RequestsAreScheduled == Spec => []BufferedRequestsAreScheduled
<1>1. IInv => BufferedRequestsAreScheduled
  BY DEF IInv
<1> QED
  BY <1>1, IInvAlways, PTL

(* A client no request of which overtook the connect reads its answers. *)
THEOREM PatientClientReads == Spec => []PatientClientListens
<1>1. IInv => PatientClientListens
  BY DEF IInv, TypeInv, ListenInv, PatientClientListens, ConnectedClientListens
<1> QED
  BY <1>1, IInvAlways, PTL
-----------------------------------------------------------------------------
(* Every step of the agent is one of the dns client or leaves it alone.    *)
LEMMA AgentStepIsClientStep ==
  ASSUME [AgentNext]_agent_vars PROVE [Next]_vars
<1>1. CASE main
  BY <1>1 DEF main
<1>2. CASE \E m \in Mods : pull_send(m) \/ deal_push(m)
  BY <1>2 DEF pull_send, deal_push, no_host, Next
<1>3. CASE \E i \in Lbs : pull_status(i)
  BY <1>3 DEF pull_status
<1>4. CASE deal_recv_route
  BY <1>4 DEF deal_recv_route, no_host, Next, Loop
<1>5. CASE on_connect
  BY <1>5 DEF on_connect, Next, Loop
<1>6. CASE reset_lb_status
  BY <1>6 DEF reset_lb_status
<1>7. CASE ClientStep \/ send_requests
  BY <1>7 DEF ClientStep, send_requests, Next, Loop
<1>8. CASE Outside
  BY <1>8 DEF Outside, Next
<1>9. CASE UNCHANGED agent_vars
  BY <1>9 DEF agent_vars
<1> QED
  BY <1>1, <1>2, <1>3, <1>4, <1>5, <1>6, <1>7, <1>8, <1>9 DEF AgentNext

(* The agent implements its dns client: main, the UDP servers and the      *)
(* route_lb objects add no behaviour to it (main_server.cpp,               *)
(* agent_udp_server.cpp).                                                  *)
THEOREM AgentImplementsClient == AgentSpec => Spec
<1>1. AgentInit => Init
  BY DEF AgentInit
<1>2. [AgentNext]_agent_vars => [Next]_vars
  BY AgentStepIsClientStep
<1> QED
  BY <1>1, <1>2, PTL DEF AgentSpec, Spec

(* In the agent, too, no request is stuck in obuf ...                      *)
THEOREM AgentRequestsAreScheduled == AgentSpec => []BufferedRequestsAreScheduled
  BY AgentImplementsClient, RequestsAreScheduled, PTL

(* ... and only a request that overtakes the connect takes the read        *)
(* callback away.                                                          *)
THEOREM AgentReadsAnswers == AgentSpec => []PatientClientListens
  BY AgentImplementsClient, PatientClientReads, PTL
-----------------------------------------------------------------------------
LocalTypeInv ==
  /\ phase \in 1..Len(Phases)
  /\ status \in [Mods -> {"none", "NEW", "PULLING"}]
  /\ pulling \in [Lbs -> Mods \cup {None}]
  /\ resetting \in 0..NumLb

(* order lists the requests that were neither answered nor refused. *)
OrderInv == /\ order \in Seq(Mods) /\ Len(order) = asked - answered - lost
            /\ refused \subseteq Mods

(* A request for m is on its way, or its last one was refused. *)
Sent(m) == OnItsWay(m) \/ m \in refused

(* A server inside pull() has sent its request already, and holds the      *)
(* route_lb of its mod.                                                    *)
PullInv ==
  \A i \in Lbs : pulling[i] # None =>
    index(pulling[i]) = i /\ Sent(pulling[i])

AgentInv == LocalTypeInv /\ OrderInv /\ PullInv /\ PullingHasRequest

LEMMA Indices == ASSUME NEW m \in Mods PROVE index(m) \in Lbs /\ m # None
  BY ModsAssumption DEF index, Lbs, NumLb

LEMMA NumberOfPhases == Len(Phases) = 5
  BY DEF Phases

(* A request stays where it is while order and refused do. *)
LEMMA StillSent ==
  ASSUME UNCHANGED requests, NEW m, Sent(m)
  PROVE  Sent(m)'
  BY DEF Sent, OnItsWay, requests

LEMMA AgentInitInv == AgentInit => AgentInv
<1> SUFFICES ASSUME AgentInit PROVE AgentInv
  OBVIOUS
<1>1. LocalTypeInv
  BY NumberOfPhases DEF AgentInit, LocalTypeInv, NumLb
<1>2. OrderInv
  BY DEF AgentInit, Init, OrderInv
<1>3. PullInv /\ PullingHasRequest
  BY DEF AgentInit, PullInv, PullingHasRequest
<1> QED
  BY <1>1, <1>2, <1>3 DEF AgentInv

(* Taking the n oldest requests away leaves the others.                    *)
LEMMA OldestTaken ==
  ASSUME order \in Seq(Mods), NEW n \in 0..Len(order),
         order' = SubSeq(order, n + 1, Len(order))
  PROVE  /\ order' \in Seq(Mods) /\ Len(order') = Len(order) - n
         /\ \A m : OnItsWay(m) /\ m \notin {order[k] : k \in 1..n} => OnItsWay(m)'
<1>1. /\ order' \in Seq(Mods) /\ Len(order') = Len(order) - n
      /\ \A i \in 1..Len(order) - n : order'[i] = order[n + i]
  <2>1. /\ Len(order) \in Nat /\ n \in Nat /\ n <= Len(order)
        /\ \A i \in n + 1..Len(order) : order[i] \in Mods
    OBVIOUS
  <2>2. /\ SubSeq(order, n + 1, Len(order)) \in Seq(Mods)
        /\ Len(SubSeq(order, n + 1, Len(order)))
             = IF n + 1 <= Len(order) THEN Len(order) - (n + 1) + 1 ELSE 0
        /\ \A i \in 1..Len(order) - (n + 1) + 1 :
             SubSeq(order, n + 1, Len(order))[i] = order[n + 1 + i - 1]
    BY <2>1, SubSeqProperties
  <2> QED
    BY <2>1, <2>2
<1>2. ASSUME NEW m, OnItsWay(m), m \notin {order[k] : k \in 1..n} PROVE OnItsWay(m)'
  <2>1. PICK k \in 1..Len(order) : order[k] = m
    BY <1>2 DEF OnItsWay
  <2>2. k - n \in 1..Len(order) - n /\ n + (k - n) = k
    BY <1>2, <2>1
  <2> QED
    BY <1>1, <2>1, <2>2 DEF OnItsWay
<1> QED
  BY <1>1, <1>2

(* Refusing the youngest requests moves their mods to refused.             *)
LEMMA YoungestRefused ==
  ASSUME order \in Seq(Mods), refused \subseteq Mods, NEW n \in 0..Len(order),
         order' = SubSeq(order, 1, n),
         refused' = refused \cup {order[k] : k \in n + 1..Len(order)}
  PROVE  /\ order' \in Seq(Mods) /\ Len(order') = n /\ refused' \subseteq Mods
         /\ \A m : Sent(m) => Sent(m)'
<1>1. /\ order' \in Seq(Mods) /\ Len(order') = n
      /\ \A i \in 1..n : order'[i] = order[i]
  <2>1. n \in Nat /\ n <= Len(order) /\ \A i \in 1..n : order[i] \in Mods
    OBVIOUS
  <2>2. /\ SubSeq(order, 1, n) \in Seq(Mods)
        /\ Len(SubSeq(order, 1, n)) = IF 1 <= n THEN n - 1 + 1 ELSE 0
        /\ \A i \in 1..n - 1 + 1 : SubSeq(order, 1, n)[i] = order[1 + i - 1]
    BY <2>1, SubSeqProperties
  <2> QED
    BY <2>1, <2>2
<1>2. refused' \subseteq Mods
  OBVIOUS
<1>3. ASSUME NEW m, Sent(m) PROVE Sent(m)'
  <2>1. CASE m \in refused
    BY <2>1 DEF Sent
  <2>2. CASE OnItsWay(m)
    <3>1. PICK k \in 1..Len(order) : order[k] = m
      BY <2>2 DEF OnItsWay
    <3>2. k \in 1..n \/ k \in n + 1..Len(order)
      BY <3>1
    <3> QED
      BY <1>1, <3>1, <3>2 DEF Sent, OnItsWay
  <2> QED
    BY <1>3, <2>1, <2>2 DEF Sent
<1> QED
  BY <1>1, <1>2, <1>3

(* update_host does not touch a mod whose server is in pull().             *)
LEMMA UpdatedIsFree ==
  ASSUME LocalTypeInv, PullInv, NEW M, update_host(M), NEW i \in Lbs, pulling[i] # None
  PROVE  pulling[i] \notin M
  BY DEF update_host, PullInv, Free

(* A step that changes no route_lb but through status' keeps AgentInv, if  *)
(* what is PULLING afterwards was PULLING before.                          *)
LEMMA OnlyStatus ==
  ASSUME AgentInv, UNCHANGED <<asked, answered, lost, pulling, phase, requests>>,
         resetting' \in 0..NumLb,
         status' \in [Mods -> {"none", "NEW", "PULLING"}],
         \A m \in Mods : status'[m] = "PULLING" => status[m] = "PULLING"
  PROVE  AgentInv'
<1>1. LocalTypeInv' /\ OrderInv'
  BY DEF AgentInv, LocalTypeInv, OrderInv, requests
<1>2. PullInv'
  BY StillSent DEF AgentInv, PullInv
<1>3. PullingHasRequest'
  BY StillSent DEF AgentInv, PullingHasRequest, Sent
<1> QED
  BY <1>1, <1>2, <1>3 DEF AgentInv

(* Nor does the end of the process.                                        *)
LEMMA EndKeeps ==
  ASSUME AgentInv, process_ends, UNCHANGED <<local, requests>>
  PROVE  AgentInv'
  BY OnlyStatus DEF process_ends, local, counts, AgentInv, LocalTypeInv

(* The threads of the agent and the outside keep it.                       *)
LEMMA AgentNextInv ==
  ASSUME IInv, AgentInv, [AgentNext]_agent_vars PROVE AgentInv'
<1> USE DEF AgentInv
<1>t. /\ asked \in Nat /\ answered \in Nat /\ lost \in Nat /\ responses \in Nat
      /\ dns_queue \in Nat /\ Len(order) \in Nat
      /\ responses <= Len(order) /\ dns_queue <= Len(order)
  BY RequestAssumption DEF IInv, TypeInv, RequestInv, OrderInv
<1>0. LocalTypeInv /\ OrderInv
  OBVIOUS
<1>1. CASE main
  <2>1. phase' \in 1..Len(Phases)
    BY <1>1, NumberOfPhases DEF main, LocalTypeInv
  <2>2. UNCHANGED <<asked, answered, lost, status, pulling, resetting, requests>>
    BY <1>1 DEF main, vars, counts
  <2>3. PullInv' /\ PullingHasRequest'
    BY <2>2, StillSent DEF PullInv, PullingHasRequest, Sent
  <2> QED
    BY <2>1, <2>2, <2>3 DEF LocalTypeInv, OrderInv, requests
<1>2. ASSUME NEW m \in Mods, pull_send(m) PROVE AgentInv'
  <2>0. index(m) \in Lbs /\ m # None
    BY Indices
  <2>1. CASE ~Reached("dns_queue")
    BY <1>2, <2>1, EndKeeps DEF pull_send
  <2>2. CASE Reached("dns_queue")
    <3>1. /\ asked' = asked + 1 /\ answered' = answered /\ lost' = lost
          /\ order' = Append(order, m) /\ refused' = refused \ {m}
          /\ pulling' = [pulling EXCEPT ![index(m)] = m]
          /\ status' = [status EXCEPT ![m] = IF @ = "none" THEN "NEW" ELSE @]
          /\ UNCHANGED <<phase, resetting>>
      BY <1>2, <2>2 DEF pull_send, pull
    <3>2. /\ order' \in Seq(Mods) /\ Len(order') = Len(order) + 1
          /\ order'[Len(order) + 1] = m
          /\ \A k \in 1..Len(order) : order'[k] = order[k]
      BY <1>0, <3>1 DEF OrderInv
    <3>3. OrderInv'
      BY <1>0, <1>t, <3>1, <3>2 DEF OrderInv
    <3>4. Sent(m)'
      BY <1>t, <3>2 DEF Sent, OnItsWay
    <3>5. ASSUME NEW j, Sent(j) PROVE Sent(j)'
      <4>1. CASE j = m
        BY <3>4, <4>1 DEF Sent, OnItsWay
      <4>2. CASE j # m /\ j \in refused
        BY <3>1, <4>2 DEF Sent
      <4>3. CASE OnItsWay(j)
        <5>1. PICK k \in 1..Len(order) : order[k] = j
          BY <4>3 DEF OnItsWay
        <5>2. k \in 1..Len(order') /\ order'[k] = j
          BY <1>t, <3>2, <5>1
        <5> QED
          BY <5>2 DEF Sent, OnItsWay
      <4> QED
        BY <3>5, <4>1, <4>2, <4>3 DEF Sent
    <3>6. LocalTypeInv'
      BY <2>0, <3>1 DEF LocalTypeInv
    <3>7. PullInv'
      <4> SUFFICES ASSUME NEW i \in Lbs, pulling'[i] # None
                   PROVE  (index(pulling[i]) = i /\ Sent(pulling[i]))'
        BY DEF PullInv
      <4>1. CASE i = index(m)
        <5>1. pulling'[i] = m
          BY <1>0, <3>1, <4>1 DEF LocalTypeInv
        <5> QED
          BY <3>4, <4>1, <5>1 DEF Sent, OnItsWay, index
      <4>2. CASE i # index(m)
        <5>1. pulling'[i] = pulling[i]
          BY <1>0, <3>1, <4>2 DEF LocalTypeInv
        <5> QED
          BY <3>5, <5>1 DEF PullInv, Sent, OnItsWay, index
      <4> QED
        BY <4>1, <4>2
    <3>8. PullingHasRequest'
      <4> SUFFICES ASSUME NEW j \in Mods, status'[j] = "PULLING" PROVE Sent(j)'
        BY DEF PullingHasRequest, Sent
      <4>1. status[j] = "PULLING"
        BY <1>0, <3>1 DEF LocalTypeInv
      <4> QED
        BY <3>5, <4>1 DEF PullingHasRequest, Sent
    <3> QED
      BY <3>3, <3>6, <3>7, <3>8
  <2> QED
    BY <2>1, <2>2
<1>3. ASSUME NEW i \in Lbs, pull_status(i) PROVE AgentInv'
  <2>1. /\ pulling[i] \in Mods /\ Sent(pulling[i])
        /\ status' = [status EXCEPT ![pulling[i]] = "PULLING"]
        /\ pulling' = [pulling EXCEPT ![i] = None]
        /\ UNCHANGED <<asked, answered, lost, phase, resetting, requests>>
    BY <1>0, <1>3 DEF pull_status, vars, counts, PullInv, LocalTypeInv
  <2>2. LocalTypeInv' /\ OrderInv'
    BY <2>1 DEF LocalTypeInv, OrderInv, requests
  <2>3. PullInv'
    BY <1>0, <2>1, StillSent DEF PullInv, LocalTypeInv
  <2>4. PullingHasRequest'
    <3> SUFFICES ASSUME NEW j \in Mods, status'[j] = "PULLING" PROVE Sent(j)'
      BY DEF PullingHasRequest, Sent
    <3>1. Sent(j)
      BY <1>0, <2>1 DEF PullingHasRequest, Sent, LocalTypeInv
    <3> QED
      BY <2>1, <3>1, StillSent
  <2> QED
    BY <2>2, <2>3, <2>4
<1>n. ASSUME NEW M, no_host(M) PROVE AgentInv'
  BY <1>n, EndKeeps DEF no_host
<1>4. CASE deal_recv_route
  <2>1. CASE \E n \in 1..responses : no_host({order[k] : k \in 1..n})
    BY <1>n, <2>1
  <2>2. ASSUME /\ do_read /\ update_host({order[k] : k \in 1..answered'-answered})
               /\ order' = SubSeq(order, answered' - answered + 1, Len(order))
               /\ UNCHANGED <<phase, pulling, resetting, refused>>
        PROVE  AgentInv'
    <3> DEFINE n == answered' - answered
               M == {order[k] : k \in 1..n}
    <3>1. /\ n \in 0..Len(order) /\ answered' = answered + n
          /\ UNCHANGED <<asked, lost>>
      BY <1>t, <2>2 DEF do_read
    <3>2. /\ update_host(M) /\ order' = SubSeq(order, n + 1, Len(order))
          /\ UNCHANGED <<phase, pulling, resetting, refused>>
      BY <2>2
    <3>3. status' = [m \in Mods |-> IF m \in M /\ status[m] # "none" THEN "NEW"
                                   ELSE status[m]]
      BY <3>2 DEF update_host
    <3>4. \A i \in Lbs : pulling[i] # None => pulling[i] \notin M
      BY <3>2, UpdatedIsFree
    <3> HIDE DEF n
    <3>5. /\ order' \in Seq(Mods) /\ Len(order') = Len(order) - n
          /\ \A m : OnItsWay(m) /\ m \notin M => OnItsWay(m)'
      BY <1>0, <3>1, <3>2, OldestTaken DEF OrderInv
    <3> HIDE DEF M
    <3>6. \A m : Sent(m) /\ m \notin M => Sent(m)'
      BY <3>2, <3>5 DEF Sent
    <3>7. LocalTypeInv' /\ OrderInv'
      BY <1>0, <1>t, <3>1, <3>2, <3>3, <3>5 DEF LocalTypeInv, OrderInv
    <3>8. PullInv'
      BY <3>2, <3>4, <3>6 DEF PullInv
    <3>9. PullingHasRequest'
      <4> SUFFICES ASSUME NEW j \in Mods, status'[j] = "PULLING" PROVE Sent(j)'
        BY DEF PullingHasRequest, Sent
      <4>1. status[j] = "PULLING" /\ j \notin M
        BY <3>3
      <4> QED
        BY <3>6, <4>1 DEF PullingHasRequest, Sent
    <3> QED
      BY <3>7, <3>8, <3>9
  <2> QED
    BY <1>4, <2>1, <2>2 DEF deal_recv_route
<1>5. ASSUME NEW m \in Mods, deal_push(m) PROVE AgentInv'
  <2>1. CASE no_host({m})
    BY <1>n, <2>1
  <2>2. CASE update_host({m}) /\ UNCHANGED <<vars, phase, pulling, resetting, requests>>
    BY <1>0, <2>2, OnlyStatus DEF update_host, LocalTypeInv, vars, counts
  <2> QED
    BY <1>5, <2>1, <2>2 DEF deal_push
<1>6. CASE on_connect
  BY <1>0, <1>6, OnlyStatus DEF on_connect, on_connected, LocalTypeInv, counts, NumLb
<1>7. CASE reset_lb_status
  BY <1>0, <1>7, OnlyStatus DEF reset_lb_status, LocalTypeInv, vars, counts, NumLb
<1>8. CASE ClientStep
  <2>1. UNCHANGED <<asked, answered, lost, local, requests>>
    BY <1>8 DEF ClientStep, dns_client_thread, do_write, process_ends, counts
  <2> QED
    BY <1>0, <2>1, OnlyStatus DEF local, LocalTypeInv
<1>9. CASE Outside
  <2>1. UNCHANGED <<asked, answered, lost, local, requests>>
    BY <1>9 DEF Outside, connected, service_answers, service_closes, counts
  <2> QED
    BY <1>0, <2>1, OnlyStatus DEF local, LocalTypeInv
<1>10. CASE UNCHANGED agent_vars
  BY <1>0, <1>10, OnlyStatus DEF agent_vars, vars, counts, local, LocalTypeInv
<1>11. CASE send_requests
  <2> DEFINE n == Len(order) - (lost' - lost)
  <2>1. /\ order' = SubSeq(order, 1, n)
        /\ refused' = refused \cup {order[k] : k \in n + 1..Len(order)}
        /\ UNCHANGED local
    BY <1>11 DEF send_requests
  <2>2. lost' \in Nat /\ lost' - lost \in 0..dns_queue /\ UNCHANGED <<asked, answered>>
    <3>1. CASE process_ends
      BY <1>t, <3>1 DEF process_ends, counts
    <3>2. CASE lost' = lost + Refused /\ UNCHANGED <<asked, answered>>
      <4>1. Refused \in 0..dns_queue
        BY <1>t, RequestAssumption DEF Refused, IInv, TypeInv
      <4> QED
        BY <1>t, <3>2, <4>1
    <3> QED
      BY <1>11, <3>1, <3>2 DEF send_requests, new_dns_request
  <2>3. n \in 0..Len(order) /\ lost' = lost + (Len(order) - n)
    <3>1. \A a, b, c, q \in Nat : b - a \in 0..q /\ q <= c
            => c - (b - a) \in 0..c /\ b = a + (c - (c - (b - a)))
      OBVIOUS
    <3> QED
      BY <1>t, <2>2, <3>1
  <2> HIDE DEF n
  <2>4. /\ order' \in Seq(Mods) /\ Len(order') = n /\ refused' \subseteq Mods
        /\ \A m : Sent(m) => Sent(m)'
    BY <1>0, <2>1, <2>3, YoungestRefused DEF OrderInv
  <2>5. LocalTypeInv' /\ OrderInv'
    BY <1>0, <1>t, <2>1, <2>2, <2>3, <2>4 DEF LocalTypeInv, OrderInv, local
  <2>6. PullInv' /\ PullingHasRequest'
    BY <2>1, <2>4 DEF PullInv, PullingHasRequest, Sent, local
  <2> QED
    BY <2>5, <2>6
<1> QED
  BY <1>1, <1>2, <1>3, <1>4, <1>5, <1>6, <1>7, <1>8, <1>9, <1>10, <1>11 DEF AgentNext

LEMMA AgentInvAlways == AgentSpec => [](IInv /\ AgentInv)
<1>1. AgentInit => IInv /\ AgentInv
  BY AgentInitInv, InitIInv DEF AgentInit
<1>2. IInv /\ AgentInv /\ [AgentNext]_agent_vars => (IInv /\ AgentInv)'
  BY AgentNextInv, AgentStepIsClientStep, NextIInv
<1> QED
  BY <1>1, <1>2, PTL DEF AgentSpec

(* Although pull() sends before it sets the status (load_balance1.cpp:12   *)
(* and 14), a load_balance is PULLING only while a request for it is on    *)
(* its way or was refused, for any mods and any number of requests.        *)
THEOREM PullingMeansAsked == AgentSpec => []PullingHasRequest
<1>1. AgentInv => PullingHasRequest
  BY DEF AgentInv
<1> QED
  BY <1>1, AgentInvAlways, PTL

(* Type correctness of the agent and its dns client.                       *)
THEOREM AgentTypeCorrect == AgentSpec => []AgentTypeOK
<1>1. AgentInv /\ TypeOK => AgentTypeOK
  BY DEF AgentInv, LocalTypeInv, OrderInv, AgentTypeOK
<1> QED
  BY <1>1, AgentInvAlways, AgentImplementsClient, TypeCorrect, PTL
=============================================================================
