--------------------------------- MODULE Api ---------------------------------
(***************************************************************************)
(* The callers of the agent: lars_client (api/cpp/lars_api/lars_api.cpp)   *)
(* against the three UDP servers of lars_lb_agent (udp_server.cpp,         *)
(* message.h, agent_udp_server.cpp).                                       *)
(*                                                                         *)
(* A lars_client has one socket for each server and is used by one thread. *)
(* A call sends a request and waits in recvfrom; which answer it takes     *)
(* depends on what earlier calls left in the socket.  System calls may     *)
(* fail (EINTR) and a datagram may be dropped for want of buffer space; on *)
(* the loopback interface none is duplicated or overtaken.  What the       *)
(* route_lb answers is chosen freely.                                      *)
(***************************************************************************)
EXTENDS Naturals, Sequences, FiniteSets

CONSTANTS
  Clients,
  Mods,               \* values of modid + cmdid
  Width,              \* bits of _seqid
  MaxCalls,           \* bound: requests of one client
  MaxInterrupts       \* bound: calls of recvfrom that fail, for one socket

ASSUME ApiAssumption ==
  /\ Mods \subseteq Nat
  /\ {Width, MaxCalls, MaxInterrupts} \subseteq Nat
  /\ MaxCalls < 2^Width       \* no answer waits for 2^Width calls

VARIABLES
  seqid,              \* _seqid of each client
  call,               \* the call each client is in
  inbox,              \* the answers in each socket of each client
  queue               \* the requests in the socket of each server

(* History. *)
VARIABLES
  calls,              \* requests of each client so far
  interrupts,         \* calls of recvfrom that failed, for each socket
  accepted,           \* the call that returned an answer last, and whose it was
  lost                \* a datagram was dropped

history == <<calls, interrupts, accepted, lost>>
vars == <<seqid, call, inbox, queue, history>>

NumServers == 3
Servers == 0..NumServers-1
index(m) == m % NumServers

idle == [op |-> "none"]
Idle(c) == call[c] = idle
Waiting(c) == call[c].op \in {"GetHost", "GetRoute"}

Init ==
  /\ seqid \in [Clients -> 0..2^Width-1]      \* after any number of calls
  /\ call = [c \in Clients |-> idle]
  /\ inbox = [c \in Clients |-> [i \in Servers |-> << >>]]
  /\ queue = [i \in Servers |-> << >>]
  /\ calls = [c \in Clients |-> 0] /\ lost = FALSE
  /\ interrupts = [c \in Clients |-> [i \in Servers |-> 0]]
  /\ accepted = [c \in Clients |-> << >>]
-----------------------------------------------------------------------------
(* sendto: the request reaches the socket of its server, is dropped on the *)
(* way, or is not sent at all.                                             *)
Arrives(req) ==
  queue' = [queue EXCEPT ![index(req.mod)] = Append(@, req)] /\ UNCHANGED lost
Drops == lost' = TRUE /\ UNCHANGED queue
NotSent == UNCHANGED <<queue, lost>>

Request(c, op, m, seq, retry) ==
  [client |-> c, op |-> op, mod |-> m, seq |-> seq, no |-> calls[c] + 1,
   retry |-> retry]

Count(c) == /\ calls[c] < MaxCalls
            /\ calls' = [calls EXCEPT ![c] = @ + 1]
            /\ UNCHANGED <<inbox, interrupts, accepted>>

(* What follows a call: nothing, or the pause before reg_init's next try.  *)
After(req, empty) ==
  IF empty /\ req.retry \in 1..2
  THEN [op |-> "usleep", mod |-> req.mod, retry |-> req.retry] ELSE idle

(* Send and wait; a call whose sendto fails returns RET_SYSTEM_ERROR.      *)
SendAndWait(c, req) ==
  /\ Count(c)
  /\ \/ (Arrives(req) \/ Drops) /\ call' = [call EXCEPT ![c] = req]
     \/ NotSent /\ call' = [call EXCEPT ![c] = After(req, TRUE)]

NextSeqUnbounded(s) == s + 1                  \* Mutant: no overflow
NextSeq(s) == (s + 1) % 2^Width

get_host(c, m) ==
  /\ Idle(c)
  /\ SendAndWait(c, Request(c, "GetHost", m, seqid[c], 0))
  /\ seqid' = [seqid EXCEPT ![c] = NextSeq(@)]

(* A GetRouteRequest has no sequence number.                               *)
get_route(c, m) ==
  /\ Idle(c)
  /\ SendAndWait(c, Request(c, "GetRoute", m, 0, 0))
  /\ UNCHANGED seqid

(* reg_init calls get_route up to three times, until the route is not      *)
(* empty; between two tries it sleeps.                                     *)
reg_init(c, m) ==
  /\ \/ Idle(c) /\ SendAndWait(c, Request(c, "GetRoute", m, 0, 1))
     \/ /\ call[c].op = "usleep" /\ call[c].mod = m
        /\ SendAndWait(c, Request(c, "GetRoute", m, 0, call[c].retry + 1))
  /\ UNCHANGED seqid

report(c, m) ==
  /\ Idle(c) /\ Count(c)
  /\ Arrives(Request(c, "Report", m, 0, 0)) \/ Drops \/ NotSent
  /\ UNCHANGED <<seqid, call>>
-----------------------------------------------------------------------------
(* Mutant: reports are answered too. *)
AnswersAll(req) == req.op \in {"GetHost", "GetRoute", "Report"}

(* get_host_cb and get_route_cb send a response, report_cb does not.       *)
Answers(req) == req.op \in {"GetHost", "GetRoute"}

Response(req, empty) ==
  [op |-> req.op, mod |-> req.mod, seq |-> req.seq, of |-> req.no, empty |-> empty]

(* udp_server::do_read takes the next datagram, the router calls the       *)
(* handler, and send_message answers to the address of that datagram.      *)
do_read(i) ==
  /\ queue[i] # << >>
  /\ LET req == Head(queue[i]) IN
       \/ ~Answers(req) /\ UNCHANGED <<inbox, lost>>
       \/ /\ Answers(req) /\ UNCHANGED lost
          /\ \E empty \in BOOLEAN :
               inbox' = [inbox EXCEPT ![req.client][i] = Append(@, Response(req, empty))]
       \/ Answers(req) /\ lost' = TRUE /\ UNCHANGED inbox
  /\ queue' = [queue EXCEPT ![i] = Tail(@)]
  /\ UNCHANGED <<seqid, call, calls, interrupts, accepted>>
-----------------------------------------------------------------------------
(* recvfrom returns the first datagram in the socket of the call.          *)
Socket(c) == index(call[c].mod)
Received(c) == Waiting(c) /\ inbox[c][Socket(c)] # << >>
Message(c) == Head(inbox[c][Socket(c)])
Consume(c) == inbox' = [inbox EXCEPT ![c][Socket(c)] = Tail(@)]

Return(c, empty) == call' = [call EXCEPT ![c] = After(@, empty)]

OlderOrSame(rsp, seq) == rsp.seq <= seq       \* Mutant: <= for <
Older(rsp, seq) == rsp.seq < seq

(* The do-while loop of get_host skips answers to older requests.          *)
Skipped(c) == /\ call[c].op = "GetHost" /\ Message(c).op = "GetHost"
              /\ Older(Message(c), call[c].seq)

skip(c) ==
  /\ Received(c) /\ Skipped(c) /\ Consume(c)
  /\ UNCHANGED <<seqid, call, queue, history>>

(* Mutant: the sequence number is not compared again after the loop.       *)
MatchesMod(rsp, req) == rsp.op = req.op /\ rsp.mod = req.mod

(* msgid, sequence number (always equal for a route), modid and cmdid.     *)
Matches(rsp, req) == rsp.op = req.op /\ rsp.mod = req.mod /\ rsp.seq = req.seq

accept(c) ==
  /\ Received(c) /\ ~Skipped(c) /\ Consume(c)
  /\ Matches(Message(c), call[c])
  /\ accepted' = [accepted EXCEPT ![c] = <<call[c], Message(c).of>>]
  /\ Return(c, Message(c).empty)
  /\ UNCHANGED <<seqid, queue, calls, interrupts, lost>>

(* RET_SYSTEM_ERROR: a message of another kind, or for another request.    *)
reject(c) ==
  /\ Received(c) /\ ~Skipped(c) /\ Consume(c)
  /\ ~Matches(Message(c), call[c])
  /\ Return(c, TRUE)
  /\ UNCHANGED <<seqid, queue, history>>

(* RET_SYSTEM_ERROR: recvfrom returns -1; the answer may come later.       *)
interrupted(c) ==
  /\ Waiting(c) /\ interrupts[c][Socket(c)] < MaxInterrupts
  /\ interrupts' = [interrupts EXCEPT ![c][Socket(c)] = @ + 1]
  /\ Return(c, TRUE)
  /\ UNCHANGED <<seqid, inbox, queue, calls, accepted, lost>>

Receive(c) == skip(c) \/ accept(c) \/ reject(c)

Next ==
  \/ \E c \in Clients, m \in Mods :
       get_host(c, m) \/ get_route(c, m) \/ reg_init(c, m) \/ report(c, m)
  \/ \E i \in Servers : do_read(i)
  \/ \E c \in Clients : Receive(c) \/ interrupted(c)

Spec == Init /\ [][Next]_vars

(* The servers and the waiting callers run on; nothing else is assumed.    *)
FairSpec ==
  /\ Spec
  /\ \A i \in Servers : WF_vars(do_read(i))
  /\ \A c \in Clients : WF_vars(Receive(c))
-----------------------------------------------------------------------------
Requests ==
  [client : Clients, op : {"GetHost", "GetRoute", "Report"}, mod : Mods,
   seq : 0..2^Width-1, no : 1..MaxCalls, retry : 0..3]

Responses ==
  [op : {"GetHost", "GetRoute"}, mod : Mods, seq : 0..2^Width-1,
   of : 1..MaxCalls, empty : BOOLEAN]

Pauses == [op : {"usleep"}, mod : Mods, retry : 1..2]

(* The type invariant. *)
TypeOK ==
  /\ seqid \in [Clients -> 0..2^Width-1]
  /\ call \in [Clients -> Requests \cup Pauses \cup {idle}]
  /\ \A c \in Clients : call[c].op # "Report" /\ (Waiting(c) => call[c].client = c)
  /\ inbox \in [Clients -> [Servers -> Seq(Responses)]]
  /\ queue \in [Servers -> Seq(Requests)]
  /\ calls \in [Clients -> 0..MaxCalls] /\ lost \in BOOLEAN
  /\ interrupts \in [Clients -> [Servers -> 0..MaxInterrupts]]
  /\ accepted \in [Clients -> {<< >>} \cup (Requests \X (1..MaxCalls))]

(* get_host returns only the answer to its own request, whatever late      *)
(* answers wait in the socket and wherever _seqid overflows.  get_route,   *)
(* which has no sequence number, does so as long as no call on its socket  *)
(* was interrupted.                                                        *)
AnswerIsOwn ==
  \A c \in Clients : accepted[c] # << >> =>
    LET req == accepted[c][1] IN
    \/ accepted[c][2] = req.no
    \/ req.op = "GetRoute" /\ interrupts[c][index(req.mod)] > 0

(* Requests of client c in the queue q that will be answered ...           *)
DueAt(c, q) == {k \in DOMAIN q : q[k].client = c /\ q[k].op # "Report"}

(* ... and all answers due to it on socket i.                              *)
Due(c, i) == Len(inbox[c][i]) + Cardinality(DueAt(c, queue[i]))

(* Stale answers do not pile up: a call that is rejected for a stale       *)
(* answer leaves its own behind but takes one away, so no more are due     *)
(* than interruptions left, besides the one a call waits for.              *)
StaleAnswersAreBounded ==
  \A c \in Clients, i \in Servers :
    Due(c, i) <= interrupts[c][i] + (IF Waiting(c) /\ Socket(c) = i THEN 1 ELSE 0)

(* Unless a datagram is dropped, every call returns (reg_init: every try), *)
(* although recvfrom has no timeout and get_host may skip many answers.    *)
CallReturns == \A c \in Clients : Waiting(c) ~> (~Waiting(c) \/ lost)
=============================================================================
