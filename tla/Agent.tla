-------------------------------- MODULE Agent --------------------------------
(***************************************************************************)
(* The start-up of lars_lb_agent and the way of a route request through it *)
(* (main_server.cpp, agent_udp_server.cpp, load_balance::pull,             *)
(* dns_client.cpp).  The threads are main, one UDP server for each of the  *)
(* three route_lb objects, and the dns client thread of DnsClient.  They   *)
(* share dns_queue and, under the mutex of its route_lb, the status of     *)
(* each load_balance.  A response without any host, which lars_dns sends   *)
(* for a mod nobody configured, ends the agent in load_balance::update.    *)
(*                                                                         *)
(* route_lb.cpp is not in the repository.  Of it the model uses what the   *)
(* headers say: each of its operations holds _mutex, the first request for *)
(* a mod makes its load_balance, and one that is NEW may be asked for      *)
(* again after update_timeout (main_server.h:43).                          *)
(***************************************************************************)
EXTENDS DnsClient, Sequences

CONSTANTS Mods,       \* values of modid + cmdid
          None        \* no mod

ASSUME ModsAssumption == Mods \subseteq Nat /\ None \notin Mods

VARIABLES
  phase,              \* how far main() is
  status,             \* of the load_balance of each mod, "none" before it exists
  pulling,            \* for each route_lb: the mod its server is in pull() for
  resetting,          \* the route_lb conn_init is at; NumLb when it is done
  order,              \* the mods of the requests on their way, oldest first
  refused             \* history: the mods whose last request was refused

local == <<phase, status, pulling, resetting>>
requests == <<order, refused>>
agent_vars == <<vars, local, requests>>

NumLb == 3
Lbs == 0..NumLb-1
index(m) == m % NumLb

(* What main() has done: start_UDP_servers, start_report_client, the       *)
(* constructor of dns_queue, start_dns_client.                             *)
Phases == <<"init_lb_agent", "start_UDP_servers", "start_report_client",
            "dns_queue", "start_dns_client">>
Reached(name) == \E p \in 1..phase : Phases[p] = name

AgentInit ==
  /\ Init
  /\ phase = 1
  /\ status = [m \in Mods |-> "none"]
  /\ pulling = [i \in Lbs |-> None]
  /\ resetting = NumLb /\ order = << >> /\ refused = {}
-----------------------------------------------------------------------------
main ==
  /\ running /\ phase < Len(Phases)
  /\ phase' = phase + 1
  /\ UNCHANGED <<vars, status, pulling, resetting, requests>>

(* Mutant: the other threads do not wait for the mutex of the route_lb. *)
AlwaysFree(i) == i \in Lbs

(* pthread_mutex of route_lb i; its server holds it during pull().         *)
Free(i) == pulling[i] = None

(* get_host_cb and get_route_cb: the request for a mod whose load_balance  *)
(* is new, or has to be updated, calls pull(), which puts a GetRouteRequest *)
(* into dns_queue first and changes the status afterwards.                 *)
pull_send(m) ==
  /\ running /\ Reached("start_UDP_servers")
  /\ Free(index(m)) /\ status[m] # "PULLING"
  /\ IF ~Reached("dns_queue")
     THEN /\ process_ends
          /\ UNCHANGED <<local, requests>>
     ELSE /\ pull
          /\ order' = Append(order, m) /\ refused' = refused \ {m}
          /\ pulling' = [pulling EXCEPT ![index(m)] = m]
          /\ status' = [status EXCEPT ![m] = IF @ = "none" THEN "NEW" ELSE @]
          /\ UNCHANGED <<phase, resetting>>

pull_status(i) ==
  /\ running /\ pulling[i] # None
  /\ status' = [status EXCEPT ![pulling[i]] = "PULLING"]
  /\ pulling' = [pulling EXCEPT ![i] = None]
  /\ UNCHANGED <<vars, phase, resetting, requests>>
-----------------------------------------------------------------------------
(* The dns client thread handles one event at a time; conn_init is part of *)
(* the handling of the connect.                                            *)
InLoop == running /\ Reached("start_dns_client") /\ resetting = NumLb

(* update_host of every mod of M, which ends in load_balance::update.      *)
update_host(M) ==
  /\ \A m \in M : Free(index(m))
  /\ status' = [m \in Mods |-> IF m \in M /\ status[m] # "none" THEN "NEW"
                               ELSE status[m]]

(* The same if a response has no host: update() fails its assert.          *)
no_host(M) ==
  /\ \A m \in M : Free(index(m))
  /\ \E m \in M : status[m] # "none"
  /\ process_ends
  /\ UNCHANGED <<local, requests>>

(* deal_recv_route for each response of one read, in the order in which    *)
(* the requests were sent.                                                 *)
deal_recv_route ==
  /\ InLoop
  /\ \/ /\ do_read
        /\ update_host({order[k] : k \in 1..answered'-answered})
        /\ order' = SubSeq(order, answered' - answered + 1, Len(order))
        /\ UNCHANGED <<phase, pulling, resetting, refused>>
     \/ /\ Readable
        /\ \E n \in 1..responses : no_host({order[k] : k \in 1..n})

(* The same for a response that push_change_task of lars_dns sent.         *)
deal_push(m) ==
  /\ InLoop /\ sock = "up" /\ "EPOLLIN" \in io.mask
  /\ \/ /\ update_host({m})
        /\ UNCHANGED <<vars, phase, pulling, resetting, requests>>
     \/ no_host({m})

(* new_dns_request: what it could not pass on are the youngest requests.   *)
send_requests ==
  /\ InLoop /\ new_dns_request
  /\ LET sent == Len(order) - (lost' - lost)
     IN  /\ order' = SubSeq(order, 1, sent)
         /\ refused' = refused \cup {order[k] : k \in sent+1..Len(order)}
  /\ UNCHANGED local

(* connection_succ starts conn_init when it runs the hook. *)
on_connect ==
  /\ InLoop /\ on_connected
  /\ resetting' = IF conn_inits' # conn_inits THEN 0 ELSE resetting
  /\ UNCHANGED <<phase, status, pulling, requests>>

(* conn_init: reset_lb_status of one route_lb after the other.             *)
reset_lb_status ==
  /\ running /\ resetting < NumLb /\ Free(resetting)
  /\ status' = [m \in Mods |-> IF index(m) = resetting /\ status[m] # "none"
                               THEN "NEW" ELSE status[m]]
  /\ resetting' = resetting + 1
  /\ UNCHANGED <<vars, phase, pulling, requests>>

(* What the thread does without a route_lb or a request of its own. *)
ClientStep ==
  /\ InLoop /\ (dns_client_thread \/ do_write)
  /\ UNCHANGED <<local, requests>>

Outside ==
  /\ running /\ (connected \/ service_answers \/ service_closes)
  /\ UNCHANGED <<local, requests>>

AgentNext ==
  \/ main
  \/ \E m \in Mods : pull_send(m) \/ deal_push(m)
  \/ \E i \in Lbs : pull_status(i)
  \/ deal_recv_route \/ send_requests \/ on_connect \/ reset_lb_status
  \/ ClientStep
  \/ Outside

AgentSpec == AgentInit /\ [][AgentNext]_agent_vars

(* main() and the servers run on; the loop of the dns client serves the    *)
(* eventfd as well as the socket in each round; a connect ends one way or  *)
(* the other; the service answers what it gets while it keeps the          *)
(* connection.  Requests are bounded, so weak fairness suffices for the    *)
(* mutexes.                                                                *)
FairAgent ==
  /\ AgentSpec
  /\ WF_agent_vars(main)
  /\ \A i \in Lbs : WF_agent_vars(pull_status(i))
  /\ WF_agent_vars(reset_lb_status)
  /\ WF_agent_vars(ClientStep /\ dns_client_thread)
  /\ WF_agent_vars(send_requests)
  /\ WF_agent_vars(deal_recv_route \/ on_connect \/ (ClientStep /\ do_write))
  /\ WF_agent_vars(Outside /\ connected)
  /\ WF_agent_vars(Outside /\ service_answers)
-----------------------------------------------------------------------------
(* The type invariant, that of the dns client included. *)
AgentTypeOK ==
  /\ TypeOK
  /\ phase \in 1..Len(Phases)
  /\ status \in [Mods -> {"none", "NEW", "PULLING"}]
  /\ pulling \in [Lbs -> Mods \cup {None}]
  /\ resetting \in 0..NumLb
  /\ order \in Seq(Mods) /\ Len(order) = asked - answered - lost
  /\ refused \subseteq Mods

(* A request for m was sent and its response has not been handled. *)
OnItsWay(m) == \E k \in 1..Len(order) : order[k] = m

(* A load_balance is PULLING only while a request for it is on its way or  *)
(* its last one was refused: although pull() sends before it sets the      *)
(* status, no answer, push or reset can leave a mod PULLING, and so never  *)
(* asked for again, with nothing to end that.                              *)
PullingHasRequest ==
  \A m \in Mods : status[m] = "PULLING" => OnItsWay(m) \/ m \in refused

Disconnected == overtaken \/ sock \in {"refused", "hup", "closed"}

(* Every pull ends: the status goes back to NEW, unless the connection is  *)
(* refused or closed, a request overtook the connect, obuf had no room for *)
(* the request, or an assert or null pointer ended the agent.              *)
PullAnswered ==
  \A m \in Mods : status[m] = "PULLING" ~>
    (status[m] = "NEW" \/ Disconnected \/ m \in refused \/ ~running)
=============================================================================
