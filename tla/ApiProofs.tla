------------------------------- MODULE ApiProofs -------------------------------
(***************************************************************************)
(* Proofs about Api for any clients, mods, width of _seqid, number of      *)
(* calls and of interruptions.  A call gets its own answer although the    *)
(* sequence number wraps around, because the answers that are still due    *)
(* have numbers of the last calls only; and few answers are due because    *)
(* each call that does not wait for its own takes another one away.        *)
(***************************************************************************)
EXTENDS Api, FiniteSetTheorems, SequenceTheorems, TLAPS

(* What an answer or a request that will be answered tells the client.     *)
Item(op, seq, no) == [op |-> op, seq |-> seq, no |-> no]
InInbox(b) == {Item(b[k].op, b[k].seq, b[k].of) : k \in DOMAIN b}
InQueue(c, q) == {Item(q[k].op, q[k].seq, q[k].no) : k \in DueAt(c, q)}
Pending(c, i) == InInbox(inbox[c][i]) \cup InQueue(c, queue[i])

(* A pending answer of get_host has the sequence number _seqid had at one  *)
(* of the calls that followed, at most calls[c] - no of them before it.    *)
SeqInv ==
  \A c \in Clients, i \in Servers : \A x \in Pending(c, i) :
    /\ x.no <= calls[c]
    /\ x.op = "GetHost" => \E d \in 1..calls[c]-x.no+1 :
         seqid[c] = x.seq + d \/ seqid[c] + 2^Width = x.seq + d

(* No other answer has the sequence number get_host waits for.             *)
HostInv ==
  \A c \in Clients : call[c].op = "GetHost" =>
    \A i \in Servers : \A x \in Pending(c, i) :
      x.op = "GetHost" /\ x.seq = call[c].seq => x.no = call[c].no

(* On a socket without interruptions only the answer to this call comes.   *)
RouteInv ==
  \A c \in Clients : Waiting(c) /\ interrupts[c][Socket(c)] = 0 =>
    \A x \in Pending(c, Socket(c)) : x.no = call[c].no

IInv ==
  TypeOK /\ StaleAnswersAreBounded /\ SeqInv /\ HostInv /\ RouteInv /\ AnswerIsOwn
-----------------------------------------------------------------------------
LEMMA Modulus == 2^Width \in Nat /\ MaxCalls \in Nat /\ MaxCalls < 2^Width
BY ApiAssumption

LEMMA NextSeqIs ==
  ASSUME NEW s \in 0..2^Width-1
  PROVE  /\ NextSeq(s) \in 0..2^Width-1
         /\ NextSeq(s) = s + 1 \/ NextSeq(s) + 2^Width = s + 1
<1> DEFINE M == 2^Width
<1>1. M \in Nat /\ M > 0
  BY Modulus
<1> HIDE DEF M
<1>2. s \in 0..M-1
  BY DEF M
<1>3. CASE s + 1 = M
  BY <1>1, <1>2, <1>3 DEF NextSeq, M
<1>4. CASE s + 1 < M
  <2>1. (s + 1) % M = s + 1
    BY <1>1, <1>2, <1>4
  <2> QED
    BY <1>1, <1>2, <1>4, <2>1 DEF NextSeq, M
<1> QED
  BY <1>1, <1>2, <1>3, <1>4

LEMMA IndexIs ==
  ASSUME NEW m \in Mods PROVE index(m) \in Servers
BY ApiAssumption DEF index, Servers, NumServers

(* The requests of a queue that will be answered to c.                     *)
LEMMA DueAtType ==
  ASSUME NEW q \in Seq(Requests), NEW c
  PROVE  /\ IsFiniteSet(DueAt(c, q)) /\ Cardinality(DueAt(c, q)) \in Nat
         /\ DueAt(c, q) \subseteq 1..Len(q)
<1>1. DueAt(c, q) \subseteq 1..Len(q) /\ Len(q) \in Nat
  BY DEF DueAt
<1>2. IsFiniteSet(1..Len(q))
  BY <1>1, FS_Interval
<1> QED
  BY <1>1, <1>2, FS_Subset, FS_CardinalityType

LEMMA AppendDue ==
  ASSUME NEW q \in Seq(Requests), NEW r \in Requests, NEW c
  PROVE  /\ Cardinality(DueAt(c, Append(q, r))) =
              Cardinality(DueAt(c, q)) + (IF r.client = c /\ r.op # "Report" THEN 1 ELSE 0)
         /\ InQueue(c, Append(q, r)) \subseteq
              InQueue(c, q) \cup (IF r.client = c /\ r.op # "Report"
                                  THEN {Item(r.op, r.seq, r.no)} ELSE {})
<1> DEFINE p == Append(q, r)
           n == Len(q) + 1
<1>1. /\ Len(q) \in Nat /\ DOMAIN q = 1..Len(q) /\ DOMAIN p = 1..n
      /\ p[n] = r /\ \A k \in 1..Len(q) : p[k] = q[k]
  BY AppendProperties
<1>2. DueAt(c, p) = DueAt(c, q) \cup (IF r.client = c /\ r.op # "Report" THEN {n} ELSE {})
  <2> HIDE DEF p
  <2>1. 1..n = 1..Len(q) \cup {n} /\ n \notin 1..Len(q)
    BY <1>1
  <2> HIDE DEF n
  <2> QED
    BY <1>1, <2>1 DEF DueAt
<1>3. n \notin DueAt(c, q) /\ IsFiniteSet(DueAt(c, q)) /\ Cardinality(DueAt(c, q)) \in Nat
  BY <1>1, DueAtType
<1>4. Cardinality(DueAt(c, q) \cup {n}) = Cardinality(DueAt(c, q)) + 1
  BY <1>3, FS_AddElement
<1>5. \A k \in DueAt(c, q) : p[k] = q[k]
  BY <1>1, DueAtType
<1> HIDE DEF p, n
<1>6. InQueue(c, p) \subseteq InQueue(c, q) \cup (IF r.client = c /\ r.op # "Report"
                                                  THEN {Item(r.op, r.seq, r.no)} ELSE {})
  BY <1>1, <1>2, <1>5 DEF InQueue
<1>7. CASE r.client = c /\ r.op # "Report"
  BY <1>2, <1>4, <1>6, <1>7 DEF p
<1>8. CASE ~(r.client = c /\ r.op # "Report")
  <2>1. DueAt(c, p) = DueAt(c, q)
    BY <1>2, <1>8
  <2> QED
    BY <1>3, <1>6, <1>8, <2>1 DEF p
<1> QED
  BY <1>7, <1>8

LEMMA TailDue ==
  ASSUME NEW q \in Seq(Requests), q # << >>, NEW c
  PROVE  /\ Head(q) \in Requests /\ Tail(q) \in Seq(Requests)
         /\ Cardinality(DueAt(c, q)) = Cardinality(DueAt(c, Tail(q)))
              + (IF Head(q).client = c /\ Head(q).op # "Report" THEN 1 ELSE 0)
         /\ InQueue(c, Tail(q)) \subseteq InQueue(c, q)
         /\ Head(q).client = c /\ Head(q).op # "Report" =>
              Item(Head(q).op, Head(q).seq, Head(q).no) \in InQueue(c, q)
<1> DEFINE p == Tail(q)
           S == DueAt(c, p)
           T == DueAt(c, q) \ {1}
<1>1. /\ p \in Seq(Requests) /\ Head(q) \in Requests /\ Head(q) = q[1]
      /\ Len(q) \in Nat /\ Len(p) = Len(q) - 1 /\ Len(q) >= 1
      /\ DOMAIN q = 1..Len(q) /\ DOMAIN p = 1..Len(p)
      /\ \A k \in 1..Len(p) : p[k] = q[k + 1]
  BY HeadTailProperties, EmptySeq
<1> HIDE DEF p
<1>2. \A k \in DOMAIN p : k \in S <=> k + 1 \in T
  BY <1>1 DEF DueAt
<1>3. \A j \in T : j - 1 \in S
  BY <1>1 DEF DueAt
<1>4. S \subseteq 1..Len(p) /\ IsFiniteSet(S) /\ T \subseteq 1..Len(q)
  BY <1>1, DueAtType
<1>5. ExistsBijection(S, T)
  <2> DEFINE g == [k \in S |-> k + 1]
  <2> HIDE DEF S, T
  <2>1. g \in [S -> T]
    BY <1>1, <1>2, <1>4
  <2>2. \A a, b \in S : g[a] = g[b] => a = b
    BY <1>1, <1>4
  <2>3. \A j \in T : \E k \in S : g[k] = j
    <3> SUFFICES ASSUME NEW j \in T PROVE g[j - 1] = j /\ j - 1 \in S
      OBVIOUS
    <3> QED
      BY <1>1, <1>3, <1>4
  <2>4. g \in Bijection(S, T)
    BY <2>1, <2>2, <2>3 DEF Bijection, Injection, Surjection, IsInjective
  <2> QED
    BY <2>4 DEF ExistsBijection
<1>6. Cardinality(T) = Cardinality(S)
  BY <1>4, <1>5, FS_Bijection
<1>7. 1 \in DueAt(c, q) <=> Head(q).client = c /\ Head(q).op # "Report"
  BY <1>1 DEF DueAt
<1>8. /\ IsFiniteSet(DueAt(c, q)) /\ Cardinality(DueAt(c, q)) \in Nat
      /\ Cardinality(T) = IF 1 \in DueAt(c, q) THEN Cardinality(DueAt(c, q)) - 1
                                               ELSE Cardinality(DueAt(c, q))
  BY DueAtType, FS_RemoveElement
<1>9. InQueue(c, p) \subseteq InQueue(c, q)
  <2>1. \A k \in S : k + 1 \in DueAt(c, q) /\ p[k] = q[k + 1]
    BY <1>1, <1>2, <1>4
  <2> QED
    BY <2>1 DEF InQueue
<1>10. 1 \in DueAt(c, q) => Item(Head(q).op, Head(q).seq, Head(q).no) \in InQueue(c, q)
  BY <1>1 DEF InQueue
<1> QED
  BY <1>1, <1>6, <1>7, <1>8, <1>9, <1>10 DEF p

(* The same for the answers in a socket.                                   *)
LEMMA AppendIn ==
  ASSUME NEW b \in Seq(Responses), NEW r \in Responses
  PROVE  /\ Append(b, r) \in Seq(Responses) /\ Len(Append(b, r)) = Len(b) + 1
         /\ InInbox(Append(b, r)) \subseteq InInbox(b) \cup {Item(r.op, r.seq, r.of)}
<1> DEFINE p == Append(b, r)
<1>1. /\ p \in Seq(Responses) /\ Len(p) = Len(b) + 1 /\ Len(b) \in Nat
      /\ p[Len(b) + 1] = r /\ \A k \in 1..Len(b) : p[k] = b[k]
      /\ DOMAIN p = 1..Len(b)+1 /\ DOMAIN b = 1..Len(b)
  BY AppendProperties
<1> HIDE DEF p
<1>2. \A k \in DOMAIN p : (k \in DOMAIN b /\ p[k] = b[k]) \/ p[k] = r
  BY <1>1
<1>3. InInbox(p) \subseteq InInbox(b) \cup {Item(r.op, r.seq, r.of)}
  BY <1>2 DEF InInbox
<1> QED
  BY <1>1, <1>3 DEF p

LEMMA TailIn ==
  ASSUME NEW b \in Seq(Responses), b # << >>
  PROVE  /\ Head(b) \in Responses /\ Tail(b) \in Seq(Responses)
         /\ Len(b) \in Nat /\ Len(Tail(b)) = Len(b) - 1
         /\ InInbox(Tail(b)) \subseteq InInbox(b)
         /\ Item(Head(b).op, Head(b).seq, Head(b).of) \in InInbox(b)
<1> DEFINE p == Tail(b)
<1>1. /\ p \in Seq(Responses) /\ Head(b) \in Responses /\ Head(b) = b[1]
      /\ Len(b) \in Nat /\ Len(p) = Len(b) - 1 /\ Len(b) >= 1
      /\ DOMAIN b = 1..Len(b) /\ DOMAIN p = 1..Len(p)
      /\ \A k \in 1..Len(p) : p[k] = b[k + 1]
  BY HeadTailProperties, EmptySeq
<1> HIDE DEF p
<1>2. \A k \in DOMAIN p : k + 1 \in DOMAIN b /\ p[k] = b[k + 1]
  BY <1>1
<1>3. InInbox(p) \subseteq InInbox(b)
  BY <1>2 DEF InInbox
<1>4. 1 \in DOMAIN b
  BY <1>1
<1>5. Item(Head(b).op, Head(b).seq, Head(b).of) \in InInbox(b)
  BY <1>1, <1>4 DEF InInbox
<1> QED
  BY <1>1, <1>3, <1>5 DEF p
-----------------------------------------------------------------------------
(* do_read hands a request on to the socket of its client, or less.        *)
LEMMA Reads ==
  ASSUME TypeOK, NEW i \in Servers, do_read(i)
  PROVE  /\ inbox' \in [Clients -> [Servers -> Seq(Responses)]]
         /\ queue' \in [Servers -> Seq(Requests)]
         /\ \A c \in Clients, j \in Servers :
              Pending(c, j)' \subseteq Pending(c, j) /\ Due(c, j)' <= Due(c, j)
<1> DEFINE req == Head(queue[i])
<1>1. /\ queue[i] # << >> /\ queue[i] \in Seq(Requests)
      /\ queue' = [queue EXCEPT ![i] = Tail(@)]
  BY DEF do_read, TypeOK
<1>2. req \in Requests /\ Tail(queue[i]) \in Seq(Requests)
  BY <1>1, TailDue
<1> HIDE DEF req
<1>3. queue' \in [Servers -> Seq(Requests)]
  BY <1>1, <1>2 DEF TypeOK
<1>q. ASSUME NEW c \in Clients
      PROVE  /\ Cardinality(DueAt(c, queue[i])) = Cardinality(DueAt(c, queue'[i]))
                  + (IF req.client = c /\ req.op # "Report" THEN 1 ELSE 0)
             /\ InQueue(c, queue'[i]) \subseteq InQueue(c, queue[i])
             /\ req.client = c /\ req.op # "Report" =>
                  Item(req.op, req.seq, req.no) \in InQueue(c, queue[i])
             /\ Cardinality(DueAt(c, queue'[i])) \in Nat
  <2>1. queue'[i] = Tail(queue[i])
    BY <1>1 DEF TypeOK
  <2> QED
    BY <1>1, <1>2, <2>1, TailDue, DueAtType DEF req
<1>o. ASSUME NEW c \in Clients, NEW j \in Servers, inbox'[c][j] = inbox[c][j]
      PROVE  Pending(c, j)' \subseteq Pending(c, j) /\ Due(c, j)' <= Due(c, j)
  <2>1. Len(inbox[c][j]) \in Nat
    BY DEF TypeOK
  <2>2. CASE j = i
    <3>1. InQueue(c, queue'[j]) \subseteq InQueue(c, queue[j])
      BY <1>q, <2>2
    <3>2. Cardinality(DueAt(c, queue'[j])) <= Cardinality(DueAt(c, queue[j]))
      BY <1>q, <2>2
    <3>3. Cardinality(DueAt(c, queue'[j])) \in Nat /\ Cardinality(DueAt(c, queue[j])) \in Nat
      BY <1>3, DueAtType DEF TypeOK
    <3> QED
      BY <1>o, <2>1, <3>1, <3>2, <3>3 DEF Pending, Due
  <2>3. CASE j # i
    <3>1. queue'[j] = queue[j] /\ Cardinality(DueAt(c, queue[j])) \in Nat
      BY <1>1, <2>3, DueAtType DEF TypeOK
    <3> QED
      BY <1>o, <2>1, <3>1 DEF Pending, Due
  <2> QED
    BY <2>2, <2>3
<1>4. CASE UNCHANGED inbox
  BY <1>3, <1>4, <1>o DEF TypeOK
<1>5. CASE inbox' # inbox
  <2>1. PICK empty \in BOOLEAN :
          inbox' = [inbox EXCEPT ![req.client][i] = Append(@, Response(req, empty))]
    BY <1>5 DEF do_read, req
  <2>2. Answers(req)
    BY <1>5 DEF do_read, req
  <2>3. /\ req.client \in Clients /\ Response(req, empty) \in Responses
        /\ Response(req, empty).op = req.op /\ Response(req, empty).seq = req.seq
        /\ Response(req, empty).of = req.no /\ req.op # "Report"
    BY <1>2, <2>2 DEF Requests, Responses, Response, Answers
  <2>4. inbox[req.client][i] \in Seq(Responses)
    BY <2>3 DEF TypeOK
  <2>5. /\ inbox'[req.client][i] = Append(inbox[req.client][i], Response(req, empty))
        /\ \A c \in Clients, j \in Servers :
             ~(c = req.client /\ j = i) => inbox'[c][j] = inbox[c][j]
    BY <2>1, <2>3 DEF TypeOK
  <2>6. inbox' \in [Clients -> [Servers -> Seq(Responses)]]
    BY <2>1, <2>3, <2>4, AppendIn DEF TypeOK
  <2>7. /\ Len(inbox'[req.client][i]) = Len(inbox[req.client][i]) + 1
        /\ InInbox(inbox'[req.client][i]) \subseteq
             InInbox(inbox[req.client][i]) \cup {Item(req.op, req.seq, req.no)}
        /\ Len(inbox[req.client][i]) \in Nat
    BY <2>3, <2>4, <2>5, AppendIn
  <2>8. ASSUME NEW c \in Clients, c = req.client
        PROVE  Pending(c, i)' \subseteq Pending(c, i) /\ Due(c, i)' <= Due(c, i)
    <3>1. /\ Cardinality(DueAt(c, queue[i])) = Cardinality(DueAt(c, queue'[i])) + 1
          /\ InQueue(c, queue'[i]) \subseteq InQueue(c, queue[i])
          /\ Item(req.op, req.seq, req.no) \in InQueue(c, queue[i])
          /\ Cardinality(DueAt(c, queue'[i])) \in Nat
      BY <1>q, <2>3, <2>8
    <3>2. Pending(c, i)' \subseteq Pending(c, i)
      BY <2>7, <2>8, <3>1 DEF Pending
    <3>3. Due(c, i)' <= Due(c, i)
      BY <2>7, <2>8, <3>1 DEF Due
    <3> QED
      BY <3>2, <3>3
  <2>9. ASSUME NEW c \in Clients, NEW j \in Servers
        PROVE  Pending(c, j)' \subseteq Pending(c, j) /\ Due(c, j)' <= Due(c, j)
    <3>1. CASE c = req.client /\ j = i
      BY <2>8, <3>1
    <3>2. CASE ~(c = req.client /\ j = i)
      BY <1>o, <2>5, <3>2
    <3> QED
      BY <3>1, <3>2
  <2> QED
    BY <1>3, <2>6, <2>9
<1> QED
  BY <1>4, <1>5

(* recvfrom takes the first answer out of the socket of the call.          *)
LEMMA Takes ==
  ASSUME TypeOK, NEW c \in Clients, Received(c), Consume(c), UNCHANGED queue
  PROVE  /\ Message(c) \in Responses
         /\ Item(Message(c).op, Message(c).seq, Message(c).of) \in Pending(c, Socket(c))
         /\ Socket(c) \in Servers
         /\ inbox' \in [Clients -> [Servers -> Seq(Responses)]]
         /\ \A d \in Clients, j \in Servers :
              /\ Pending(d, j)' \subseteq Pending(d, j)
              /\ Due(d, j)' = Due(d, j) - (IF d = c /\ j = Socket(c) THEN 1 ELSE 0)
              /\ Due(d, j) \in Nat
<1> DEFINE i == Socket(c)
<1>1. call[c].mod \in Mods /\ i \in Servers
  BY IndexIs DEF Received, Waiting, Socket, TypeOK, Requests, Pauses, idle
<1>2. /\ inbox[c][i] # << >> /\ Message(c) = Head(inbox[c][i])
      /\ inbox' = [inbox EXCEPT ![c][i] = Tail(@)]
  BY DEF Received, Message, Consume
<1> HIDE DEF i
<1>3. inbox[c][i] \in Seq(Responses)
  BY <1>1 DEF TypeOK
<1>4. /\ inbox'[c][i] = Tail(inbox[c][i])
      /\ \A d \in Clients, j \in Servers : ~(d = c /\ j = i) => inbox'[d][j] = inbox[d][j]
  BY <1>1, <1>2 DEF TypeOK
<1>5. /\ Message(c) \in Responses
      /\ Item(Message(c).op, Message(c).seq, Message(c).of) \in InInbox(inbox[c][i])
      /\ Tail(inbox[c][i]) \in Seq(Responses)
      /\ Len(inbox'[c][i]) = Len(inbox[c][i]) - 1
      /\ InInbox(inbox'[c][i]) \subseteq InInbox(inbox[c][i])
  BY <1>2, <1>3, <1>4, TailIn
<1>6. inbox' \in [Clients -> [Servers -> Seq(Responses)]]
  BY <1>1, <1>2, <1>5 DEF TypeOK
<1>7. ASSUME NEW d \in Clients, NEW j \in Servers
      PROVE  /\ Pending(d, j)' \subseteq Pending(d, j)
             /\ Due(d, j)' = Due(d, j) - (IF d = c /\ j = i THEN 1 ELSE 0)
             /\ Due(d, j) \in Nat
  <2>1. Cardinality(DueAt(d, queue[j])) \in Nat /\ Len(inbox[d][j]) \in Nat
    BY DueAtType DEF TypeOK
  <2>2. CASE d = c /\ j = i
    <3>1. Due(d, j) = Len(inbox[d][j]) + Cardinality(DueAt(d, queue[j]))
      BY DEF Due
    <3>2. Due(d, j)' = Len(inbox[d][j]) - 1 + Cardinality(DueAt(d, queue[j]))
      BY <1>5, <2>2 DEF Due
    <3>3. Pending(d, j)' \subseteq Pending(d, j)
      BY <1>5, <2>2 DEF Pending
    <3> QED
      BY <2>1, <2>2, <3>1, <3>2, <3>3
  <2>3. CASE ~(d = c /\ j = i)
    <3>1. Due(d, j)' = Due(d, j) /\ Pending(d, j)' = Pending(d, j)
      BY <1>4, <2>3 DEF Due, Pending
    <3>2. Due(d, j) \in Nat
      BY <2>1 DEF Due
    <3> QED
      BY <2>3, <3>1, <3>2
  <2> QED
    BY <2>2, <2>3
<1> QED
  BY <1>1, <1>5, <1>6, <1>7 DEF i, Pending

(* A request that arrives makes one more answer due on its socket.         *)
LEMMA Sends ==
  ASSUME TypeOK, NEW req \in Requests, Arrives(req) \/ Drops \/ NotSent, UNCHANGED inbox
  PROVE  /\ queue' \in [Servers -> Seq(Requests)] /\ lost' \in BOOLEAN
         /\ index(req.mod) \in Servers
         /\ \A d \in Clients, j \in Servers :
              /\ \/ Pending(d, j)' \subseteq Pending(d, j) /\ Due(d, j)' = Due(d, j)
                 \/ /\ ~NotSent /\ d = req.client /\ j = index(req.mod) /\ req.op # "Report"
                    /\ Pending(d, j)' \subseteq Pending(d, j) \cup {Item(req.op, req.seq, req.no)}
                    /\ Due(d, j)' = Due(d, j) + 1
              /\ Due(d, j) \in Nat
<1> DEFINE i == index(req.mod)
<1>1. i \in Servers
  BY IndexIs DEF Requests
<1>2. \A d \in Clients, j \in Servers :
        Cardinality(DueAt(d, queue[j])) \in Nat /\ Len(inbox[d][j]) \in Nat /\ Due(d, j) \in Nat
  BY DueAtType DEF TypeOK, Due
<1>3. CASE UNCHANGED queue
  <2>1. \A d \in Clients, j \in Servers :
          Pending(d, j)' = Pending(d, j) /\ Due(d, j)' = Due(d, j)
    BY <1>3 DEF Pending, Due
  <2>2. lost' \in BOOLEAN
    BY DEF Arrives, Drops, NotSent, TypeOK
  <2> QED
    BY <1>1, <1>2, <1>3, <2>1, <2>2 DEF TypeOK, i
<1>4. CASE queue' # queue
  <2>1. queue' = [queue EXCEPT ![i] = Append(@, req)] /\ UNCHANGED lost /\ ~NotSent
    BY <1>4 DEF Arrives, Drops, NotSent
  <2> HIDE DEF i
  <2>2. queue[i] \in Seq(Requests) /\ Append(queue[i], req) \in Seq(Requests)
    BY <1>1, AppendProperties DEF TypeOK
  <2>3. /\ queue' \in [Servers -> Seq(Requests)] /\ queue'[i] = Append(queue[i], req)
        /\ \A j \in Servers : j # i => queue'[j] = queue[j]
    BY <1>1, <2>1, <2>2 DEF TypeOK
  <2>4. ASSUME NEW d \in Clients, NEW j \in Servers
        PROVE  \/ Pending(d, j)' \subseteq Pending(d, j) /\ Due(d, j)' = Due(d, j)
               \/ /\ d = req.client /\ j = i /\ req.op # "Report"
                  /\ Pending(d, j)' \subseteq Pending(d, j) \cup {Item(req.op, req.seq, req.no)}
                  /\ Due(d, j)' = Due(d, j) + 1
    <3>1. CASE j # i
      BY <2>3, <3>1 DEF Pending, Due
    <3>2. CASE j = i /\ d = req.client /\ req.op # "Report"
      <4>1. /\ Cardinality(DueAt(d, queue'[j])) = Cardinality(DueAt(d, queue[j])) + 1
            /\ InQueue(d, queue'[j]) \subseteq
                 InQueue(d, queue[j]) \cup {Item(req.op, req.seq, req.no)}
        BY <2>2, <2>3, <3>2, AppendDue
      <4>2. Due(d, j)' = Due(d, j) + 1
        BY <1>2, <4>1 DEF Due
      <4> QED
        BY <3>2, <4>1, <4>2 DEF Pending
    <3>3. CASE j = i /\ ~(d = req.client /\ req.op # "Report")
      <4>1. /\ Cardinality(DueAt(d, Append(queue[i], req))) =
                 Cardinality(DueAt(d, queue[i]))
                   + (IF req.client = d /\ req.op # "Report" THEN 1 ELSE 0)
            /\ InQueue(d, Append(queue[i], req)) \subseteq
                 InQueue(d, queue[i]) \cup (IF req.client = d /\ req.op # "Report"
                                           THEN {Item(req.op, req.seq, req.no)} ELSE {})
        BY <2>2, AppendDue
      <4>2. Cardinality(DueAt(d, Append(queue[i], req))) = Cardinality(DueAt(d, queue[i]))
        <5>1. ~(req.client = d /\ req.op # "Report")
          BY <3>3
        <5> QED
          BY <1>1, <1>2, <4>1, <5>1
      <4>3. Due(d, j)' = Due(d, j)
        BY <2>3, <3>3, <4>2 DEF Due
      <4> QED
        BY <2>3, <3>3, <4>1, <4>3 DEF Pending
    <3> QED
      BY <3>1, <3>2, <3>3
  <2>5. lost' \in BOOLEAN
    BY <2>1 DEF TypeOK
  <2> QED
    BY <1>1, <1>2, <2>1, <2>3, <2>4, <2>5 DEF i
<1> QED
  BY <1>3, <1>4
-----------------------------------------------------------------------------
LEMMA InitIInv == Init => IInv
<1> SUFFICES ASSUME Init PROVE IInv
  OBVIOUS
<1>1. TypeOK
  <2>1. \A c \in Clients : call[c].op = "none"
    BY DEF Init, idle
  <2>2. 0 \in 0..MaxCalls /\ 0 \in 0..MaxInterrupts
    BY ApiAssumption
  <2>3. /\ inbox \in [Clients -> [Servers -> Seq(Responses)]]
        /\ queue \in [Servers -> Seq(Requests)]
    <3>1. << >> \in Seq(Responses) /\ << >> \in Seq(Requests)
      OBVIOUS
    <3> QED
      BY <3>1 DEF Init
  <2>4. calls \in [Clients -> 0..MaxCalls] /\ interrupts \in [Clients -> [Servers -> 0..MaxInterrupts]]
    BY <2>2 DEF Init
  <2> QED
    BY <2>1, <2>3, <2>4 DEF Init, TypeOK, Waiting
<1>2. \A c \in Clients, i \in Servers : Pending(c, i) = {}
  <2>1. DOMAIN << >> = {}
    OBVIOUS
  <2> QED
    BY <2>1 DEF Init, Pending, InInbox, InQueue, DueAt
<1>3. \A c \in Clients, i \in Servers : Due(c, i) = 0 /\ interrupts[c][i] = 0
  <2>1. \A c \in Clients, i \in Servers : DueAt(c, queue[i]) = {}
    BY DEF Init, DueAt
  <2>2. Cardinality({}) = 0 /\ Len(<< >>) = 0
    BY FS_EmptySet
  <2>3. \A c \in Clients, i \in Servers : inbox[c][i] = << >> /\ interrupts[c][i] = 0
    BY DEF Init
  <2>4. ASSUME NEW c \in Clients, NEW i \in Servers PROVE Due(c, i) = 0
    <3>1. Len(inbox[c][i]) = 0
      BY <2>2, <2>3
    <3>2. Cardinality(DueAt(c, queue[i])) = 0
      BY <2>1, <2>2
    <3> QED
      BY <3>1, <3>2 DEF Due
  <2> QED
    BY <2>3, <2>4
<1>4. StaleAnswersAreBounded
  BY <1>3 DEF StaleAnswersAreBounded
<1>5. SeqInv /\ HostInv /\ RouteInv
  <2>1. \A c \in Clients : ~Waiting(c) /\ call[c].op # "GetHost"
    BY DEF Init, Waiting, idle
  <2> QED
    BY <1>2, <2>1 DEF SeqInv, HostInv, RouteInv
<1>6. AnswerIsOwn
  BY DEF Init, AnswerIsOwn
<1> QED
  BY <1>1, <1>4, <1>5, <1>6 DEF IInv

(* The operations of a client that send a request, and the request.        *)
Calling(c, req) ==
  \/ /\ ~Waiting(c) /\ req.op \in {"GetHost", "GetRoute"} /\ SendAndWait(c, req)
     /\ IF req.op = "GetHost" THEN req.seq = seqid[c] /\ seqid' = [seqid EXCEPT ![c] = NextSeq(@)]
                              ELSE UNCHANGED seqid
  \/ /\ ~Waiting(c) /\ req.op = "Report" /\ Count(c) /\ (Arrives(req) \/ Drops \/ NotSent)
     /\ UNCHANGED <<seqid, call>>

LEMMA CallIs ==
  ASSUME TypeOK, NEW c \in Clients, NEW m \in Mods,
         get_host(c, m) \/ get_route(c, m) \/ reg_init(c, m) \/ report(c, m)
  PROVE  \E req \in Requests : req.client = c /\ req.no = calls[c] + 1 /\ Calling(c, req)
<1>1. calls[c] \in 0..MaxCalls /\ calls[c] < MaxCalls /\ MaxCalls \in Nat
  BY ApiAssumption DEF TypeOK, get_host, get_route, reg_init, report, SendAndWait, Count
<1>2. seqid[c] \in 0..2^Width-1 /\ 0 \in 0..2^Width-1
  BY Modulus DEF TypeOK
<1>3. calls[c] + 1 \in 1..MaxCalls
  BY <1>1
<1>4. ASSUME NEW op \in {"GetHost", "GetRoute", "Report"}, NEW s \in 0..2^Width-1, NEW n \in 0..3
      PROVE  /\ Request(c, op, m, s, n) \in Requests
             /\ Request(c, op, m, s, n).client = c /\ Request(c, op, m, s, n).op = op
             /\ Request(c, op, m, s, n).seq = s /\ Request(c, op, m, s, n).no = calls[c] + 1
  BY <1>3 DEF Request, Requests
<1>5. CASE get_host(c, m)
  <2> DEFINE req == Request(c, "GetHost", m, seqid[c], 0)
  <2>1. /\ req \in Requests /\ req.client = c /\ req.op = "GetHost" /\ req.seq = seqid[c]
        /\ req.no = calls[c] + 1
    BY <1>2, <1>4
  <2>2. SendAndWait(c, req) /\ ~Waiting(c) /\ seqid' = [seqid EXCEPT ![c] = NextSeq(@)]
    BY <1>5 DEF get_host, Idle, Waiting, idle
  <2> QED
    BY <2>1, <2>2 DEF Calling
<1>6. ASSUME NEW n \in 0..3, ~Waiting(c), SendAndWait(c, Request(c, "GetRoute", m, 0, n)),
             UNCHANGED seqid
      PROVE  \E req \in Requests : req.client = c /\ req.no = calls[c] + 1 /\ Calling(c, req)
  <2> DEFINE req == Request(c, "GetRoute", m, 0, n)
  <2>1. /\ req \in Requests /\ req.client = c /\ req.op = "GetRoute" /\ req.no = calls[c] + 1
    BY <1>2, <1>4
  <2> QED
    BY <1>6, <2>1 DEF Calling
<1>7. CASE get_route(c, m)
  BY <1>6, <1>7 DEF get_route, Idle, Waiting, idle
<1>8. CASE reg_init(c, m)
  <2>1. CASE Idle(c)
    <3>1. call[c].op = "none"
      BY <2>1 DEF Idle, idle
    <3> QED
      BY <1>6, <1>8, <3>1 DEF reg_init, Waiting
  <2>2. CASE ~Idle(c)
    <3>1. /\ call[c].op = "usleep" /\ UNCHANGED seqid
          /\ SendAndWait(c, Request(c, "GetRoute", m, 0, call[c].retry + 1))
      BY <1>8, <2>2 DEF reg_init
    <3>2. call[c].retry + 1 \in 0..3 /\ ~Waiting(c)
      <4>1. call[c] \in Requests \cup Pauses \cup {idle}
        BY DEF TypeOK
      <4>2. call[c] \notin Requests /\ call[c] # idle
        BY <3>1 DEF Requests, idle
      <4>3. call[c].retry \in 1..2
        BY <4>1, <4>2 DEF Pauses
      <4> QED
        BY <3>1, <4>3 DEF Waiting
    <3> QED
      BY <1>6, <3>1, <3>2
  <2> QED
    BY <2>1, <2>2
<1>9. CASE report(c, m)
  <2> DEFINE req == Request(c, "Report", m, 0, 0)
  <2>1. /\ req \in Requests /\ req.client = c /\ req.op = "Report" /\ req.no = calls[c] + 1
    BY <1>2, <1>4
  <2>2. /\ ~Waiting(c) /\ Count(c) /\ (Arrives(req) \/ Drops \/ NotSent)
        /\ UNCHANGED <<seqid, call>>
    BY <1>9 DEF report, Idle, Waiting, idle
  <2> QED
    BY <2>1, <2>2 DEF Calling
<1> QED
  BY <1>5, <1>7, <1>8, <1>9

(* A call that returns leaves its client idle or asleep.                   *)
LEMMA AfterIs ==
  ASSUME NEW req \in Requests, NEW empty \in BOOLEAN
  PROVE  /\ After(req, empty) \in Pauses \cup {idle}
         /\ After(req, empty).op \in {"usleep", "none"}
BY DEF After, Pauses, idle, Requests
LEMMA PendingType ==
  ASSUME TypeOK, NEW c \in Clients, NEW i \in Servers
  PROVE  /\ Due(c, i) \in Nat
         /\ \A x \in Pending(c, i) : x.seq \in 0..2^Width-1 /\ x.no \in 1..MaxCalls
         /\ Due(c, i) = 0 => Pending(c, i) = {}
<1>1. inbox[c][i] \in Seq(Responses) /\ queue[i] \in Seq(Requests)
  BY DEF TypeOK
<1>2. /\ Len(inbox[c][i]) \in Nat /\ DOMAIN inbox[c][i] = 1..Len(inbox[c][i])
      /\ Cardinality(DueAt(c, queue[i])) \in Nat /\ IsFiniteSet(DueAt(c, queue[i]))
      /\ DueAt(c, queue[i]) \subseteq 1..Len(queue[i])
  BY <1>1, DueAtType
<1>3. \A k \in DOMAIN inbox[c][i] : inbox[c][i][k] \in Responses
  BY <1>1
<1>4. \A k \in DueAt(c, queue[i]) : queue[i][k] \in Requests
  BY <1>1, <1>2
<1>5. ASSUME NEW x \in Pending(c, i) PROVE x.seq \in 0..2^Width-1 /\ x.no \in 1..MaxCalls
  <2>1. CASE x \in InInbox(inbox[c][i])
    <3>1. PICK k \in DOMAIN inbox[c][i] :
            x = Item(inbox[c][i][k].op, inbox[c][i][k].seq, inbox[c][i][k].of)
      BY <2>1 DEF InInbox
    <3>2. inbox[c][i][k].seq \in 0..2^Width-1 /\ inbox[c][i][k].of \in 1..MaxCalls
      BY <1>3, <3>1 DEF Responses
    <3> QED
      BY <3>1, <3>2 DEF Item
  <2>2. CASE x \in InQueue(c, queue[i])
    <3>1. PICK k \in DueAt(c, queue[i]) :
            x = Item(queue[i][k].op, queue[i][k].seq, queue[i][k].no)
      BY <2>2 DEF InQueue
    <3>2. queue[i][k].seq \in 0..2^Width-1 /\ queue[i][k].no \in 1..MaxCalls
      BY <1>4, <3>1 DEF Requests
    <3> QED
      BY <3>1, <3>2 DEF Item
  <2> QED
    BY <1>5, <2>1, <2>2 DEF Pending
<1>6. ASSUME Due(c, i) = 0 PROVE Pending(c, i) = {}
  <2>1. Len(inbox[c][i]) = 0 /\ Cardinality(DueAt(c, queue[i])) = 0
    BY <1>2, <1>6 DEF Due
  <2>2. DueAt(c, queue[i]) = {} /\ DOMAIN inbox[c][i] = {}
    BY <1>2, <2>1, FS_EmptySet
  <2> QED
    BY <2>2 DEF Pending, InInbox, InQueue
<1>7. Due(c, i) \in Nat
  BY <1>2 DEF Due
<1> QED
  BY <1>5, <1>6, <1>7

(* Fewer answers pending for the same calls.                               *)
LEMMA Fewer ==
  ASSUME SeqInv, HostInv, RouteInv, UNCHANGED <<seqid, calls>>,
         \A c \in Clients : Waiting(c)' =>
           /\ call'[c] = call[c] /\ Socket(c) \in Servers
           /\ interrupts'[c][Socket(c)] = 0 => interrupts[c][Socket(c)] = 0,
         \A c \in Clients, i \in Servers : Pending(c, i)' \subseteq Pending(c, i)
  PROVE  SeqInv' /\ HostInv' /\ RouteInv'
<1>1. SeqInv'
  BY DEF SeqInv
<1>2. HostInv'
  BY DEF HostInv, Waiting
<1>3. RouteInv'
  <2> SUFFICES ASSUME NEW c \in Clients, Waiting(c)', interrupts'[c][Socket(c)'] = 0,
                      NEW x \in Pending(c, Socket(c))'
               PROVE  x.no = call'[c].no
    BY DEF RouteInv
  <2>1. call'[c] = call[c] /\ Waiting(c) /\ Socket(c)' = Socket(c)
    BY DEF Waiting, Socket
  <2>2. interrupts[c][Socket(c)] = 0 /\ Socket(c) \in Servers
    BY <2>1
  <2>3. x \in Pending(c, Socket(c))
    BY <2>1, <2>2
  <2> QED
    BY <2>1, <2>2, <2>3 DEF RouteInv
<1> QED
  BY <1>1, <1>2, <1>3

LEMMA SocketType ==
  ASSUME TypeOK, NEW c \in Clients, Waiting(c)
  PROVE  call[c] \in Requests /\ Socket(c) \in Servers
<1>1. call[c] \in Requests \cup Pauses \cup {idle}
  BY DEF TypeOK
<1>2. call[c] \notin Pauses /\ call[c] # idle
  BY DEF Waiting, Pauses, idle
<1>3. call[c] \in Requests
  BY <1>1, <1>2
<1> QED
  BY <1>3, IndexIs DEF Requests, Socket

LEMMA ReadingKeeps ==
  ASSUME IInv, NEW i \in Servers, do_read(i) PROVE IInv'
<1>1. /\ UNCHANGED <<seqid, call, calls, interrupts, accepted>> /\ lost' \in BOOLEAN
      /\ TypeOK
  BY DEF do_read, IInv, TypeOK
<1>2. /\ inbox' \in [Clients -> [Servers -> Seq(Responses)]]
      /\ queue' \in [Servers -> Seq(Requests)]
      /\ \A c \in Clients, j \in Servers :
           Pending(c, j)' \subseteq Pending(c, j) /\ Due(c, j)' <= Due(c, j)
  BY <1>1, Reads
<1>3. TypeOK'
  BY <1>1, <1>2 DEF TypeOK, Waiting
<1>4. StaleAnswersAreBounded'
  <2>1. \A c \in Clients, j \in Servers :
          Due(c, j)' \in Nat /\ Due(c, j) \in Nat /\ interrupts[c][j] \in Nat
    <3>1. \A c \in Clients, j \in Servers :
            /\ Len(inbox'[c][j]) \in Nat
            /\ Cardinality(DueAt(c, queue'[j])) \in Nat
      BY <1>2, DueAtType
    <3>2. \A c \in Clients, j \in Servers : Due(c, j)' \in Nat
      BY <3>1 DEF Due
    <3> QED
      BY <1>1, <3>2, PendingType, ApiAssumption DEF TypeOK
  <2>2. \A c \in Clients : Waiting(c)' = Waiting(c) /\ Socket(c)' = Socket(c)
    BY <1>1 DEF Waiting, Socket
  <2> QED
    BY <1>1, <1>2, <2>1, <2>2 DEF StaleAnswersAreBounded, IInv
<1>5. SeqInv' /\ HostInv' /\ RouteInv'
  <2>1. \A c \in Clients : Waiting(c)' => Socket(c) \in Servers
    BY <1>1, SocketType DEF Waiting
  <2> QED
    BY <1>1, <1>2, <2>1, Fewer DEF IInv
<1>6. AnswerIsOwn'
  BY <1>1 DEF AnswerIsOwn, IInv
<1> QED
  BY <1>3, <1>4, <1>5, <1>6 DEF IInv
(* A call takes an answer: to an older request, which it skips, or one     *)
(* with which it returns.                                                  *)
LEMMA TakingKeeps ==
  ASSUME IInv, NEW c \in Clients, Received(c), Consume(c), UNCHANGED <<seqid, queue, calls, interrupts, lost>>,
         \/ UNCHANGED <<call, accepted>>
         \/ /\ \E empty \in BOOLEAN : Return(c, empty)
            /\ \/ UNCHANGED accepted
               \/ /\ accepted' = [accepted EXCEPT ![c] = <<call[c], Message(c).of>>]
                  /\ Message(c).op = call[c].op /\ Message(c).seq = call[c].seq
  PROVE  IInv'
<1>1. /\ Message(c) \in Responses
      /\ Item(Message(c).op, Message(c).seq, Message(c).of) \in Pending(c, Socket(c))
      /\ Socket(c) \in Servers
      /\ inbox' \in [Clients -> [Servers -> Seq(Responses)]]
      /\ \A d \in Clients, j \in Servers :
           /\ Pending(d, j)' \subseteq Pending(d, j)
           /\ Due(d, j)' = Due(d, j) - (IF d = c /\ j = Socket(c) THEN 1 ELSE 0)
           /\ Due(d, j) \in Nat
  BY Takes DEF IInv
<1>2. TypeOK /\ Waiting(c) /\ call[c] \in Requests
  BY SocketType DEF IInv, Received
<1>3. \/ UNCHANGED call
      \/ /\ call' \in [Clients -> Requests \cup Pauses \cup {idle}]
         /\ call'[c].op \in {"usleep", "none"}
         /\ \A d \in Clients : d # c => call'[d] = call[d]
  <2>1. ASSUME NEW empty \in BOOLEAN, Return(c, empty)
        PROVE  /\ call' \in [Clients -> Requests \cup Pauses \cup {idle}]
               /\ call'[c].op \in {"usleep", "none"}
               /\ \A d \in Clients : d # c => call'[d] = call[d]
    <3>1. /\ After(call[c], empty) \in Pauses \cup {idle}
          /\ After(call[c], empty).op \in {"usleep", "none"}
      BY <1>2, AfterIs
    <3>2. call' = [call EXCEPT ![c] = After(call[c], empty)]
      BY <2>1 DEF Return
    <3> QED
      BY <1>2, <3>1, <3>2 DEF TypeOK
  <2> QED
    BY <2>1
<1>4. \A d \in Clients : call'[d] = call[d] \/ (d = c /\ ~Waiting(c)' /\ call'[c].op # "Report")
  BY <1>3 DEF Waiting
<1>5. TypeOK'
  <2>1. accepted' \in [Clients -> {<< >>} \cup (Requests \X (1..MaxCalls))]
    <3>1. <<call[c], Message(c).of>> \in Requests \X (1..MaxCalls)
      BY <1>1, <1>2 DEF Responses
    <3> QED
      BY <1>2, <3>1 DEF TypeOK
  <2>2. call' \in [Clients -> Requests \cup Pauses \cup {idle}]
    BY <1>2, <1>3 DEF TypeOK
  <2>3. \A d \in Clients : call'[d].op # "Report" /\ (Waiting(d)' => call'[d].client = d)
    BY <1>2, <1>4 DEF TypeOK, Waiting
  <2> QED
    BY <1>1, <1>2, <2>1, <2>2, <2>3 DEF TypeOK
<1>6. StaleAnswersAreBounded'
  <2> SUFFICES ASSUME NEW d \in Clients, NEW j \in Servers
               PROVE  Due(d, j)' <= interrupts'[d][j]
                        + (IF Waiting(d)' /\ Socket(d)' = j THEN 1 ELSE 0)
    BY DEF StaleAnswersAreBounded
  <2>1. /\ Due(d, j) <= interrupts[d][j] + (IF Waiting(d) /\ Socket(d) = j THEN 1 ELSE 0)
        /\ interrupts[d][j] \in Nat /\ Due(d, j) \in Nat /\ UNCHANGED interrupts
        /\ Due(d, j)' = Due(d, j) - (IF d = c /\ j = Socket(c) THEN 1 ELSE 0)
    BY <1>1, <1>2, ApiAssumption DEF IInv, StaleAnswersAreBounded, TypeOK
  <2>2. CASE call'[d] = call[d]
    <3>1. (Waiting(d)' = Waiting(d)) /\ Socket(d)' = Socket(d)
      BY <2>2 DEF Waiting, Socket
    <3> QED
      BY <2>1, <3>1
  <2>3. CASE d = c /\ ~Waiting(c)'
    BY <1>2, <2>1, <2>3
  <2> QED
    BY <1>4, <2>2, <2>3
<1>7. SeqInv' /\ HostInv' /\ RouteInv'
  <2>1. \A d \in Clients : Waiting(d)' => call'[d] = call[d] /\ Socket(d) \in Servers
    BY <1>2, <1>4, SocketType DEF Waiting
  <2> QED
    BY <1>1, <2>1, Fewer DEF IInv
<1>8. AnswerIsOwn'
  <2>1. CASE UNCHANGED accepted
    BY <2>1 DEF AnswerIsOwn, IInv
  <2>2. CASE /\ accepted' = [accepted EXCEPT ![c] = <<call[c], Message(c).of>>]
             /\ Message(c).op = call[c].op /\ Message(c).seq = call[c].seq
    <3>1. accepted'[c] = <<call[c], Message(c).of>> /\ \A d \in Clients : d # c => accepted'[d] = accepted[d]
      BY <1>2, <2>2 DEF TypeOK
    <3> DEFINE x == Item(Message(c).op, Message(c).seq, Message(c).of)
    <3>2. x \in Pending(c, Socket(c)) /\ x.op = call[c].op /\ x.seq = call[c].seq /\ x.no = Message(c).of
      BY <1>1, <2>2 DEF Item
    <3> HIDE DEF x
    <3>3. CASE call[c].op = "GetHost"
      <4>1. Message(c).of = call[c].no
        BY <1>1, <3>2, <3>3 DEF IInv, HostInv
      <4> QED
        BY <3>1, <4>1 DEF AnswerIsOwn, IInv
    <3>4. CASE call[c].op = "GetRoute"
      <4>1. interrupts[c][Socket(c)] = 0 => Message(c).of = call[c].no
        BY <1>2, <3>2 DEF IInv, RouteInv
      <4>2. interrupts[c][Socket(c)] \in Nat
        BY <1>1, <1>2, ApiAssumption DEF TypeOK
      <4>3. Message(c).of = call[c].no \/ interrupts[c][index(call[c].mod)] > 0
        BY <4>1, <4>2 DEF Socket
      <4> QED
        BY <3>1, <3>4, <4>3 DEF AnswerIsOwn, IInv
    <3> QED
      BY <1>2, <3>3, <3>4 DEF Waiting
  <2> QED
    BY <2>1, <2>2
<1> QED
  BY <1>5, <1>6, <1>7, <1>8 DEF IInv

LEMMA InterruptKeeps ==
  ASSUME IInv, NEW c \in Clients, interrupted(c) PROVE IInv'
<1>1. TypeOK /\ Waiting(c) /\ call[c] \in Requests /\ Socket(c) \in Servers
  BY SocketType DEF IInv, interrupted
<1>2. /\ interrupts' = [interrupts EXCEPT ![c][Socket(c)] = @ + 1]
      /\ interrupts[c][Socket(c)] < MaxInterrupts
      /\ UNCHANGED <<seqid, inbox, queue, calls, accepted, lost>>
  BY DEF interrupted
<1>3. interrupts[c][Socket(c)] \in 0..MaxInterrupts /\ MaxInterrupts \in Nat
  BY <1>1, ApiAssumption DEF TypeOK
<1>4. /\ call' \in [Clients -> Requests \cup Pauses \cup {idle}]
      /\ call'[c].op \in {"usleep", "none"}
      /\ \A d \in Clients : d # c => call'[d] = call[d]
  <2>1. /\ After(call[c], TRUE) \in Pauses \cup {idle}
        /\ After(call[c], TRUE).op \in {"usleep", "none"}
    BY <1>1, AfterIs
  <2>2. call' = [call EXCEPT ![c] = After(call[c], TRUE)]
    BY DEF interrupted, Return
  <2> QED
    BY <1>1, <2>1, <2>2 DEF TypeOK
<1>5. /\ interrupts' \in [Clients -> [Servers -> 0..MaxInterrupts]]
      /\ \A d \in Clients, j \in Servers :
           interrupts'[d][j] = interrupts[d][j] + (IF d = c /\ j = Socket(c) THEN 1 ELSE 0)
  <2>1. interrupts[c][Socket(c)] + 1 \in 0..MaxInterrupts
    BY <1>2, <1>3
  <2>2. \A d \in Clients, j \in Servers : interrupts[d][j] \in Nat
    BY <1>1, <1>3 DEF TypeOK
  <2> QED
    BY <1>1, <1>2, <2>1, <2>2 DEF TypeOK
<1>6. TypeOK'
  <2>1. \A d \in Clients : call'[d].op # "Report" /\ (Waiting(d)' => call'[d].client = d)
    BY <1>1, <1>4 DEF TypeOK, Waiting
  <2> QED
    BY <1>1, <1>2, <1>4, <1>5, <2>1 DEF TypeOK
<1>7. \A d \in Clients, j \in Servers :
        /\ Pending(d, j)' = Pending(d, j) /\ Due(d, j)' = Due(d, j)
        /\ Due(d, j) \in Nat /\ interrupts[d][j] \in Nat
  <2>1. \A d \in Clients, j \in Servers : Pending(d, j)' = Pending(d, j) /\ Due(d, j)' = Due(d, j)
    BY <1>2 DEF Pending, Due
  <2>2. \A d \in Clients, j \in Servers : Due(d, j) \in Nat
    BY <1>1, PendingType
  <2>3. \A d \in Clients, j \in Servers : interrupts[d][j] \in Nat
    BY <1>1, <1>3 DEF TypeOK
  <2> QED
    BY <2>1, <2>2, <2>3
<1>8. StaleAnswersAreBounded'
  <2> SUFFICES ASSUME NEW d \in Clients, NEW j \in Servers
               PROVE  Due(d, j)' <= interrupts'[d][j]
                        + (IF Waiting(d)' /\ Socket(d)' = j THEN 1 ELSE 0)
    BY DEF StaleAnswersAreBounded
  <2>1. Due(d, j) <= interrupts[d][j] + (IF Waiting(d) /\ Socket(d) = j THEN 1 ELSE 0)
    BY DEF IInv, StaleAnswersAreBounded
  <2>2. CASE d = c
    <3>1. ~Waiting(d)'
      BY <1>4, <2>2 DEF Waiting
    <3> QED
      BY <1>5, <1>7, <2>1, <2>2, <3>1
  <2>3. CASE d # c
    <3>1. (Waiting(d)' = Waiting(d)) /\ Socket(d)' = Socket(d)
      BY <1>4, <2>3 DEF Waiting, Socket
    <3> QED
      BY <1>5, <1>7, <2>1, <2>3, <3>1
  <2> QED
    BY <2>2, <2>3
<1>9. SeqInv' /\ HostInv' /\ RouteInv'
  <2>1. ASSUME NEW d \in Clients, Waiting(d)'
        PROVE  /\ call'[d] = call[d] /\ Socket(d) \in Servers
               /\ interrupts'[d][Socket(d)] = 0 => interrupts[d][Socket(d)] = 0
    <3>1. d # c /\ call'[d] = call[d] /\ Waiting(d)
      BY <1>4, <2>1 DEF Waiting
    <3>2. Socket(d) \in Servers
      BY <1>1, <3>1, SocketType
    <3> QED
      BY <1>5, <1>7, <3>1, <3>2
  <2> QED
    BY <1>2, <1>7, <2>1, Fewer DEF IInv
<1>10. AnswerIsOwn'
  <2> SUFFICES ASSUME NEW d \in Clients, accepted[d] # << >>
               PROVE  \/ accepted[d][2] = accepted[d][1].no
                      \/ /\ accepted[d][1].op = "GetRoute"
                         /\ interrupts'[d][index(accepted[d][1].mod)] > 0
    BY <1>2 DEF AnswerIsOwn
  <2>1. \/ accepted[d][2] = accepted[d][1].no
        \/ /\ accepted[d][1].op = "GetRoute"
           /\ interrupts[d][index(accepted[d][1].mod)] > 0
    BY DEF IInv, AnswerIsOwn
  <2>2. PICK j \in Servers : j = index(accepted[d][1].mod)
    <3>1. accepted[d] \in Requests \X (1..MaxCalls)
      BY <1>1 DEF TypeOK
    <3> QED
      BY <3>1, IndexIs DEF Requests
  <2>3. interrupts[d][j] > 0 => interrupts'[d][j] > 0
    BY <1>5, <1>7
  <2> QED
    BY <2>1, <2>2, <2>3
<1> QED
  BY <1>6, <1>8, <1>9, <1>10 DEF IInv
(* When a new call takes the sequence number, the answers to earlier calls *)
(* have others: at most MaxCalls < 2^Width calls lie between.              *)
LEMMA FreshNumber ==
  ASSUME TypeOK, SeqInv, NEW c \in Clients, calls[c] < MaxCalls,
         NEW i \in Servers, NEW x \in Pending(c, i), x.op = "GetHost"
  PROVE  /\ x.seq # seqid[c]
         /\ \E d \in 1..calls[c]+1-x.no+1 :
              \/ NextSeq(seqid[c]) = x.seq + d
              \/ NextSeq(seqid[c]) + 2^Width = x.seq + d
<1> DEFINE M == 2^Width
           s == seqid[c]
           t == NextSeq(s)
<1>1. M \in Nat /\ MaxCalls \in Nat /\ MaxCalls < M
  BY Modulus
<1>2. s \in 0..M-1 /\ calls[c] \in 0..MaxCalls
  BY DEF TypeOK
<1>3. x.seq \in 0..M-1 /\ x.no \in 1..MaxCalls
  BY PendingType
<1>4. t \in 0..M-1 /\ (t = s + 1 \/ t + M = s + 1)
  BY <1>2, NextSeqIs
<1>5. PICK d \in 1..calls[c]-x.no+1 : s = x.seq + d \/ s + M = x.seq + d
  BY DEF SeqInv
<1> HIDE DEF M, s, t
<1>6. d \in Nat /\ 1 <= d /\ d < M /\ d + 1 \in 1..calls[c]+1-x.no+1
  BY <1>1, <1>2, <1>3, <1>5
<1>7. x.seq # s
  BY <1>1, <1>2, <1>3, <1>5, <1>6
<1>8. t = x.seq + (d + 1) \/ t + M = x.seq + (d + 1)
  BY <1>1, <1>2, <1>3, <1>4, <1>5, <1>6
<1>9. \E e \in 1..calls[c]+1-x.no+1 : t = x.seq + e \/ t + M = x.seq + e
  BY <1>6, <1>8
<1> QED
  BY <1>7, <1>9 DEF M, s, t

LEMMA CallingKeeps ==
  ASSUME IInv, NEW c \in Clients, NEW req \in Requests,
         req.client = c, req.no = calls[c] + 1, Calling(c, req)
  PROVE  IInv'
<1> DEFINE i == index(req.mod)
<1>1. /\ ~Waiting(c) /\ calls[c] < MaxCalls /\ calls' = [calls EXCEPT ![c] = @ + 1]
      /\ UNCHANGED <<inbox, interrupts, accepted>> /\ (Arrives(req) \/ Drops \/ NotSent)
      /\ TypeOK
  BY DEF Calling, SendAndWait, Count, IInv
<1>2. /\ queue' \in [Servers -> Seq(Requests)] /\ lost' \in BOOLEAN /\ i \in Servers
      /\ \A d \in Clients, j \in Servers :
           /\ \/ Pending(d, j)' \subseteq Pending(d, j) /\ Due(d, j)' = Due(d, j)
              \/ /\ d = c /\ j = i /\ req.op # "Report" /\ ~NotSent
                 /\ Pending(d, j)' \subseteq Pending(d, j) \cup {Item(req.op, req.seq, req.no)}
                 /\ Due(d, j)' = Due(d, j) + 1
           /\ Due(d, j) \in Nat
  BY <1>1, Sends
<1> HIDE DEF i
<1>3. /\ calls[c] \in Nat /\ calls'[c] = calls[c] + 1 /\ calls'[c] = req.no
      /\ \A d \in Clients : d # c => calls'[d] = calls[d]
      /\ calls' \in [Clients -> 0..MaxCalls]
  <2>1. calls[c] \in 0..MaxCalls /\ MaxCalls \in Nat
    BY <1>1, ApiAssumption DEF TypeOK
  <2> QED
    BY <1>1, <2>1 DEF TypeOK
(* The request the client waits for, if it does.                           *)
<1>4. /\ call' \in [Clients -> Requests \cup Pauses \cup {idle}]
      /\ \A d \in Clients : d # c => call'[d] = call[d]
      /\ \/ call'[c] = req /\ req.op # "Report"
         \/ ~Waiting(c)' /\ call'[c].op # "Report" /\ (NotSent \/ req.op = "Report")
  <2>1. CASE req.op = "Report"
    <3>1. UNCHANGED call
      BY <2>1 DEF Calling
    <3> QED
      BY <1>1, <2>1, <3>1 DEF TypeOK, Waiting
  <2>2. CASE req.op # "Report"
    <3>1. \/ call' = [call EXCEPT ![c] = req]
          \/ NotSent /\ call' = [call EXCEPT ![c] = After(req, TRUE)]
      BY <2>2 DEF Calling, SendAndWait
    <3>2. After(req, TRUE) \in Pauses \cup {idle} /\ After(req, TRUE).op \in {"usleep", "none"}
      BY AfterIs
    <3>3. CASE call' = [call EXCEPT ![c] = req]
      BY <1>1, <2>2, <3>3 DEF TypeOK
    <3>4. CASE NotSent /\ call' = [call EXCEPT ![c] = After(req, TRUE)]
      <4>1. call'[c] = After(req, TRUE)
        BY <1>1, <3>4 DEF TypeOK
      <4>2. ~Waiting(c)' /\ call'[c].op # "Report"
        BY <3>2, <4>1 DEF Waiting
      <4> QED
        BY <1>1, <3>2, <3>4, <4>2 DEF TypeOK
    <3> QED
      BY <3>1, <3>3, <3>4
  <2> QED
    BY <2>1, <2>2
<1>5. /\ seqid' \in [Clients -> 0..2^Width-1]
      /\ \A d \in Clients : d # c => seqid'[d] = seqid[d]
      /\ \/ req.op = "GetHost" /\ req.seq = seqid[c] /\ seqid'[c] = NextSeq(seqid[c])
         \/ req.op # "GetHost" /\ seqid'[c] = seqid[c]
  <2>1. CASE UNCHANGED seqid /\ req.op # "GetHost"
    BY <1>1, <2>1 DEF TypeOK
  <2>2. CASE req.op = "GetHost" /\ req.seq = seqid[c] /\ seqid' = [seqid EXCEPT ![c] = NextSeq(@)]
    <3>1. NextSeq(seqid[c]) \in 0..2^Width-1
      BY <1>1, NextSeqIs DEF TypeOK
    <3> QED
      BY <1>1, <2>2, <3>1 DEF TypeOK
  <2> QED
    BY <2>1, <2>2 DEF Calling
<1>6. TypeOK'
  <2>1. \A d \in Clients : call'[d].op # "Report" /\ (Waiting(d)' => call'[d].client = d)
    BY <1>1, <1>4 DEF TypeOK, Waiting
  <2> QED
    BY <1>1, <1>2, <1>3, <1>4, <1>5, <2>1 DEF TypeOK
<1>7. StaleAnswersAreBounded'
  <2> SUFFICES ASSUME NEW d \in Clients, NEW j \in Servers
               PROVE  Due(d, j)' <= interrupts[d][j]
                        + (IF Waiting(d)' /\ Socket(d)' = j THEN 1 ELSE 0)
    BY <1>1 DEF StaleAnswersAreBounded
  <2>1. /\ Due(d, j) <= interrupts[d][j] + (IF Waiting(d) /\ Socket(d) = j THEN 1 ELSE 0)
        /\ interrupts[d][j] \in Nat /\ Due(d, j) \in Nat
    BY <1>1, <1>2, ApiAssumption DEF IInv, StaleAnswersAreBounded, TypeOK
  <2>2. CASE d # c
    <3>1. (Waiting(d)' = Waiting(d)) /\ Socket(d)' = Socket(d)
      BY <1>4, <2>2 DEF Waiting, Socket
    <3>2. Due(d, j)' = Due(d, j)
      BY <1>2, <2>2
    <3> QED
      BY <2>1, <3>1, <3>2
  <2>3. CASE d = c /\ Due(d, j)' = Due(d, j)
    BY <1>1, <2>1, <2>3
  <2>4. CASE d = c /\ j = i /\ req.op # "Report" /\ ~NotSent /\ Due(d, j)' = Due(d, j) + 1
    <3>1. call'[c] = req
      BY <1>4, <2>4
    <3>2. Waiting(c)' /\ Socket(c)' = i
      BY <2>4, <3>1 DEF Waiting, Socket, Requests, i
    <3> QED
      BY <1>1, <2>1, <2>4, <3>2
  <2> QED
    BY <1>2, <2>2, <2>3, <2>4
<1>8. SeqInv'
  <2> SUFFICES ASSUME NEW d \in Clients, NEW j \in Servers, NEW x \in Pending(d, j)'
               PROVE  /\ x.no <= calls'[d]
                      /\ x.op = "GetHost" => \E e \in 1..calls'[d]-x.no+1 :
                           seqid'[d] = x.seq + e \/ seqid'[d] + 2^Width = x.seq + e
    BY DEF SeqInv
  <2>1. CASE d # c
    <3>1. x \in Pending(d, j) /\ calls'[d] = calls[d] /\ seqid'[d] = seqid[d]
      BY <1>2, <1>3, <1>5, <2>1
    <3> QED
      BY <3>1 DEF IInv, SeqInv
  <2>2. CASE d = c /\ x \in Pending(d, j)
    <3>1. x.no <= calls[c] /\ x.no \in Nat
      BY <1>1, <2>2, PendingType, ApiAssumption DEF IInv, SeqInv
    <3>2. ASSUME x.op = "GetHost"
          PROVE  \E e \in 1..calls'[c]-x.no+1 :
                   seqid'[c] = x.seq + e \/ seqid'[c] + 2^Width = x.seq + e
      <4>1. CASE seqid'[c] = NextSeq(seqid[c])
        <5>1. SeqInv
          BY DEF IInv
        <5>2. PICK e \in 1..calls[c]+1-x.no+1 :
                NextSeq(seqid[c]) = x.seq + e \/ NextSeq(seqid[c]) + 2^Width = x.seq + e
          BY <1>1, <2>2, <3>2, <5>1, FreshNumber
        <5>3. e \in 1..calls'[c]-x.no+1
          BY <1>3, <3>1, <5>2
        <5> QED
          BY <4>1, <5>2, <5>3
      <4>2. CASE seqid'[c] = seqid[c]
        <5>1. PICK e \in 1..calls[c]-x.no+1 :
                seqid[c] = x.seq + e \/ seqid[c] + 2^Width = x.seq + e
          BY <2>2, <3>2 DEF IInv, SeqInv
        <5>2. e \in 1..calls'[c]-x.no+1
          BY <1>3, <3>1, <5>1
        <5> QED
          BY <4>2, <5>1, <5>2
      <4> QED
        BY <1>5, <4>1, <4>2
    <3> QED
      BY <1>3, <2>2, <3>1, <3>2
  <2>3. CASE d = c /\ x = Item(req.op, req.seq, req.no)
    <3>1. x.op = req.op /\ x.seq = req.seq /\ x.no = calls'[c] /\ calls'[c] \in Nat
      BY <1>3, <2>3 DEF Item
    <3>2. ASSUME req.op = "GetHost" PROVE seqid'[c] = x.seq + 1 \/ seqid'[c] + 2^Width = x.seq + 1
      <4>1. seqid[c] \in 0..2^Width-1
        BY <1>1 DEF TypeOK
      <4>2. NextSeq(seqid[c]) = seqid[c] + 1 \/ NextSeq(seqid[c]) + 2^Width = seqid[c] + 1
        BY <4>1, NextSeqIs
      <4> QED
        BY <1>5, <3>1, <3>2, <4>2
    <3>3. 1 \in 1..calls'[c]-x.no+1
      BY <3>1
    <3> QED
      BY <2>3, <3>1, <3>2, <3>3
  <2> QED
    BY <1>2, <2>1, <2>2, <2>3
<1>9. HostInv'
  <2> SUFFICES ASSUME NEW d \in Clients, call'[d].op = "GetHost", NEW j \in Servers,
                      NEW x \in Pending(d, j)', x.op = "GetHost", x.seq = call'[d].seq
               PROVE  x.no = call'[d].no
    BY DEF HostInv
  <2>1. CASE d # c
    BY <1>2, <1>4, <2>1 DEF IInv, HostInv
  <2>2. CASE d = c
    <3>1. call'[c] = req /\ req.op = "GetHost" /\ req.seq = seqid[c]
      BY <1>4, <1>5, <2>2 DEF Waiting
    <3>2. x \notin Pending(c, j)
      BY <1>1, <2>2, <3>1, FreshNumber DEF IInv
    <3>3. x = Item(req.op, req.seq, req.no)
      BY <1>2, <2>2, <3>2
    <3> QED
      BY <2>2, <3>1, <3>3 DEF Item
  <2> QED
    BY <2>1, <2>2
<1>10. RouteInv'
  <2> SUFFICES ASSUME NEW d \in Clients, Waiting(d)', interrupts[d][Socket(d)'] = 0,
                      NEW x \in Pending(d, Socket(d))'
               PROVE  x.no = call'[d].no
    BY <1>1 DEF RouteInv
  <2>1. CASE d # c
    <3>1. Waiting(d) /\ Socket(d)' = Socket(d) /\ call'[d] = call[d]
      BY <1>4, <2>1 DEF Waiting, Socket
    <3>2. Socket(d) \in Servers
      BY <1>1, <3>1, SocketType
    <3>3. x \in Pending(d, Socket(d))
      BY <1>2, <2>1, <3>1, <3>2
    <3> QED
      BY <3>1, <3>3 DEF IInv, RouteInv
  <2>2. CASE d = c
    <3>1. call'[c] = req /\ Socket(c)' = i
      BY <1>4, <2>2 DEF Waiting, Socket, i
    <3>2. Due(c, i) = 0
      BY <1>1, <1>2, <2>2, <3>1 DEF IInv, StaleAnswersAreBounded
    <3>3. Pending(c, i) = {}
      BY <1>1, <1>2, <3>2, PendingType
    <3>4. x = Item(req.op, req.seq, req.no)
      BY <1>2, <2>2, <3>1, <3>3
    <3> QED
      BY <2>2, <3>1, <3>4 DEF Item
  <2> QED
    BY <2>1, <2>2
<1>11. AnswerIsOwn'
  BY <1>1 DEF IInv, AnswerIsOwn
<1> QED
  BY <1>6, <1>7, <1>8, <1>9, <1>10, <1>11 DEF IInv
-----------------------------------------------------------------------------
LEMMA NextIInv ==
  ASSUME IInv, [Next]_vars PROVE IInv'
<1>1. ASSUME NEW c \in Clients, NEW m \in Mods,
             get_host(c, m) \/ get_route(c, m) \/ reg_init(c, m) \/ report(c, m)
      PROVE  IInv'
  <2>1. PICK req \in Requests : req.client = c /\ req.no = calls[c] + 1 /\ Calling(c, req)
    BY <1>1, CallIs DEF IInv
  <2> QED
    BY <2>1, CallingKeeps
<1>2. ASSUME NEW i \in Servers, do_read(i) PROVE IInv'
  BY <1>2, ReadingKeeps
<1>3. ASSUME NEW c \in Clients, skip(c) PROVE IInv'
  BY <1>3, TakingKeeps DEF skip, history
<1>4. ASSUME NEW c \in Clients, accept(c) PROVE IInv'
  <2>1. Message(c).empty \in BOOLEAN
    BY <1>4, Takes DEF accept, IInv, Responses
  <2> QED
    BY <1>4, <2>1, TakingKeeps DEF accept, Matches
<1>5. ASSUME NEW c \in Clients, reject(c) PROVE IInv'
  BY <1>5, TakingKeeps DEF reject, history
<1>6. ASSUME NEW c \in Clients, interrupted(c) PROVE IInv'
  BY <1>6, InterruptKeeps
<1>7. CASE UNCHANGED vars
  <2>1. \A c \in Clients, i \in Servers :
          Pending(c, i)' = Pending(c, i) /\ Due(c, i)' = Due(c, i)
    BY <1>7 DEF vars, Pending, Due
  <2>2. UNCHANGED <<seqid, call, inbox, queue, calls, interrupts, accepted, lost>>
    BY <1>7 DEF vars, history
  <2>3. \A c \in Clients : (Waiting(c)' = Waiting(c)) /\ Socket(c)' = Socket(c)
    BY <2>2 DEF Waiting, Socket
  <2>4. TypeOK'
    BY <2>2, <2>3 DEF IInv, TypeOK
  <2>5. StaleAnswersAreBounded'
    BY <2>1, <2>2, <2>3 DEF IInv, StaleAnswersAreBounded
  <2>6. SeqInv' /\ HostInv'
    BY <2>1, <2>2 DEF IInv, SeqInv, HostInv
  <2>7. RouteInv'
    <3>1. \A c \in Clients : Waiting(c) => Socket(c) \in Servers
      BY SocketType DEF IInv
    <3> QED
      BY <2>1, <2>2, <2>3, <3>1 DEF IInv, RouteInv
  <2>8. AnswerIsOwn'
    BY <2>2 DEF IInv, AnswerIsOwn
  <2> QED
    BY <2>4, <2>5, <2>6, <2>7, <2>8 DEF IInv
<1> QED
  BY <1>1, <1>2, <1>3, <1>4, <1>5, <1>6, <1>7 DEF Next, Receive

THEOREM IInvAlways == Spec => []IInv
BY InitIInv, NextIInv, PTL DEF Spec

(* The types of the variables.                                             *)
THEOREM TypeCorrect == Spec => []TypeOK
BY IInvAlways, PTL DEF IInv

(* lars_api.cpp: a call of get_host returns the answer to its own request, *)
(* wherever _seqid wraps around and whatever late answers are in its       *)
(* socket; so does get_route unless a call on its socket was interrupted.  *)
THEOREM EveryAnswerIsOwn == Spec => []AnswerIsOwn
BY IInvAlways, PTL DEF IInv

(* No more answers are due on a socket than its calls were interrupted,    *)
(* besides the one a call waits for.                                       *)
THEOREM FewStaleAnswers == Spec => []StaleAnswersAreBounded
BY IInvAlways, PTL DEF IInv
===============================================================================
