------------------------------ MODULE TcpConn ------------------------------
(* tcp_conn with its buffers: the framing of messages in do_read and      *)
(* send_message, input_buf and output_buf of reactor_buf, and the pool of *)
(* io_bufs that all connections of the process share.  Each connection    *)
(* belongs to one reactor thread; the threads meet in buf_pool only, and  *)
(* an action reaches at most to the next alloc_buf.                       *)
EXTENDS Integers, Sequences, FiniteSetsExt, SequencesExt

CONSTANTS
  Conns,      \* the open connections
  Talkers,    \* those whose peer sends messages
  Served,     \* those on which the server sends messages
  BodyLens,   \* lengths of message bodies, in units of a scaled-down buffer
  HEAD_LEN,   \* MESSAGE_HEAD_LEN
  LEN_LIMIT,  \* MESSAGE_LENGTH_LIMIT
  Caps,       \* the capacities of MEM_CAP
  Prefilled,  \* io_bufs of each capacity made by the constructor of buf_pool
  MEM_LIMIT,
  MaxIn,      \* Bound: messages a peer sends
  MaxOut      \* Bound: messages sent on a connection

ASSUME SizesAssumption ==
  /\ HEAD_LEN \in Nat \ {0} /\ BodyLens \subseteq Nat /\ Prefilled \in Nat
  /\ Caps \subseteq Nat \ {0} /\ IsFiniteSet(Caps) /\ HEAD_LEN <= Max(Caps)

ASSUME ConnsAssumption ==
  IsFiniteSet(Conns) /\ Talkers \subseteq Conns /\ Served \subseteq Conns

VARIABLES
  peer,       \* bytes the peer sent that are not read yet
  fin,        \* the peer closed or reset its end
  conn,       \* "open" or "closed"
  pc,         \* where the callback running on the connection stands
  want,       \* need_read, or the body length, of that callback
  spare,      \* capacity of the io_buf it has allocated but not installed
  ibuf, obuf, \* the io_buf of the input and of the output buffer
  epollout,   \* EPOLLOUT is registered with conn_wt_callback
  wire,       \* bytes written to the socket
  pool,       \* buf_pool::_pool: idle io_bufs of each capacity
  total_mem,
  junk,       \* the capacities whose list ends in an uninitialized pointer
  failed,     \* what ended the process: an assert ("head", "pop"), a use of
              \* junk, exit(1) at MEM_LIMIT; or "no"
  told,       \* history: body lengths of the messages of the peer
  calls,      \* history: bodies given to router.call
  accepted,   \* history: the messages for which send_message returned 0:
              \* how many, and all their bytes
  refused     \* history: connections that took back a header in vain

buffers == <<ibuf, obuf, pool, total_mem, spare>>
history == <<told, calls, accepted, refused>>
vars == <<peer, fin, conn, pc, want, epollout, wire, junk, failed, buffers, history>>

(* A byte knows its message, its place, and what the header says. *)
Message(k, len) == [i \in 1..(HEAD_LEN + len) |-> <<k, i, len>>]
Body(k, len) == [i \in 1..len |-> <<k, HEAD_LEN + i, len>>]

(* io_buf: `data' are the `length' bytes from `head' on. *)
NULL == [cap |-> 0, head |-> 0, data |-> << >>]

pop(b, len) ==
  [cap |-> b.cap, head |-> b.head + len, data |-> SubSeq(b.data, len + 1, Len(b.data))]

adjust(b) == [b EXCEPT !.head = 0]

(* The sum of a function's values over its finite domain.                   *)
Total(f) == MapThenSumSet(LAMBDA x : f[x], DOMAIN f)

Init ==
  /\ peer = [c \in Conns |-> << >>] /\ fin = [c \in Conns |-> FALSE]
  /\ conn = [c \in Conns |-> "open"] /\ pc = [c \in Conns |-> "loop"]
  /\ want = [c \in Conns |-> 0] /\ spare = [c \in Conns |-> 0]
  /\ ibuf = [c \in Conns |-> NULL] /\ obuf = [c \in Conns |-> NULL]
  /\ epollout = [c \in Conns |-> FALSE] /\ wire = [c \in Conns |-> << >>]
  /\ pool = [n \in Caps |-> Prefilled]
  /\ total_mem = Total([n \in Caps |-> n * Prefilled])
  /\ failed = "no" /\ junk \in SUBSET Caps
  /\ told = [c \in Conns |-> << >>] /\ calls = [c \in Conns |-> << >>]
  /\ accepted = [c \in Conns |-> [no |-> 0, bytes |-> << >>]] /\ refused = {}

Running(c, where) == failed = "no" /\ conn[c] = "open" /\ pc[c] = where

(* An assert fails, or exit(1) is called: the process ends. *)
Fail(why) == failed' = why /\ UNCHANGED <<junk, peer, fin, conn, pc, want, epollout, wire, buffers, history>>
-----------------------------------------------------------------------------
(* buf_pool and reactor_buf *)
Fits(n) == {k \in Caps : k >= n}
index(n) == Min(Fits(n))

(* The free lists once the io_bufs with these capacities are back. *)
Reverted(caps) ==
  [n \in Caps |-> pool[n] + Cardinality({i \in DOMAIN caps : caps[i] = n})]

RoomForAll(b, n) == b.cap > 0 /\ b.cap >= n     \* Mutant: length is ignored
Room(b, n) == b.cap > 0 /\ b.cap - Len(b.data) >= n

TooLarge(b, n) == ~Room(b, n) /\ Fits(n + Len(b.data)) = {}

(* What ends the process when an io_buf is needed: io_buf() leaves `next' *)
(* uninitialized, so a prefilled list may end in junk instead of NULL.     *)
AllocFailure(b, n, free) ==
  LET k == index(n + Len(b.data)) IN
  IF Room(b, n) \/ TooLarge(b, n) \/ free[k] > 0 THEN "no"
  ELSE IF k \in junk THEN "junk"
  ELSE IF total_mem + k >= MEM_LIMIT THEN "exit" ELSE "no"

alloc_buf(c, k, free) ==
  /\ spare' = [spare EXCEPT ![c] = k]
  /\ \/ free[k] > 0 /\ pool' = [free EXCEPT ![k] = @ - 1] /\ UNCHANGED total_mem
     \/ free[k] = 0 /\ pool' = free /\ total_mem' = total_mem + k

(* read_data and send_data make sure that n bytes fit behind b's content. *)
Reserve(c, b, n, free) ==
  \/ Room(b, n) /\ spare' = [spare EXCEPT ![c] = 0] /\ pool' = free /\ UNCHANGED total_mem
  \/ ~Room(b, n) /\ alloc_buf(c, index(n + Len(b.data)), free)

(* ... and put them there: a new io_buf takes b's content, b is reverted. *)
FilledFresh(c, b, bytes) ==            \* Mutant: copy() is missing
  IF spare[c] = 0 THEN [b EXCEPT !.data = @ \o bytes]
  ELSE [cap |-> spare[c], head |-> 0, data |-> bytes]

Filled(c, b, bytes) ==
  IF spare[c] = 0 THEN [b EXCEPT !.data = @ \o bytes]
  ELSE [cap |-> spare[c], head |-> 0, data |-> b.data \o bytes]

Displaced(c, b) == IF spare[c] = 0 THEN << >> ELSE <<b.cap>>
-----------------------------------------------------------------------------
(* clean_conn, with the io_bufs it gives back. *)
clean_keeps_obuf(c, caps) ==           \* Mutant: obuf is not cleared
  /\ conn' = [conn EXCEPT ![c] = "closed"] /\ pc' = [pc EXCEPT ![c] = "loop"]
  /\ ibuf' = [ibuf EXCEPT ![c] = NULL] /\ obuf' = [obuf EXCEPT ![c] = NULL]
  /\ pool' = Reverted(Front(caps)) /\ spare' = [spare EXCEPT ![c] = 0]
  /\ epollout' = [epollout EXCEPT ![c] = FALSE] /\ peer' = [peer EXCEPT ![c] = << >>]
  /\ want' = [want EXCEPT ![c] = 0]
  /\ UNCHANGED <<junk, total_mem, fin, wire, failed, history>>

clean_conn(c, caps) ==
  /\ conn' = [conn EXCEPT ![c] = "closed"] /\ pc' = [pc EXCEPT ![c] = "loop"]
  /\ ibuf' = [ibuf EXCEPT ![c] = NULL] /\ obuf' = [obuf EXCEPT ![c] = NULL]
  /\ pool' = Reverted(caps) /\ spare' = [spare EXCEPT ![c] = 0]
  /\ epollout' = [epollout EXCEPT ![c] = FALSE] /\ peer' = [peer EXCEPT ![c] = << >>]
  /\ want' = [want EXCEPT ![c] = 0]
  /\ UNCHANGED <<junk, total_mem, fin, wire, failed, history>>

(* do_read up to read(): the kernel holds `need' bytes, none after a FIN. *)
read_data(c) ==
  /\ Running(c, "loop")
  /\ \E need \in IF peer[c] = << >> /\ fin[c] THEN {0} ELSE 1..Len(peer[c]) :
       \/ ibuf[c].head # 0 /\ Fail("head")
       \/ AllocFailure(ibuf[c], need, pool) # "no" /\ Fail(AllocFailure(ibuf[c], need, pool))
       \/ TooLarge(ibuf[c], need) /\ clean_conn(c, <<ibuf[c].cap, obuf[c].cap>>)
       \/ /\ ibuf[c].head = 0 /\ ~TooLarge(ibuf[c], need)
          /\ AllocFailure(ibuf[c], need, pool) = "no"
          /\ Reserve(c, ibuf[c], need, pool)
          /\ want' = [want EXCEPT ![c] = need] /\ pc' = [pc EXCEPT ![c] = "read"]
          /\ UNCHANGED <<junk, peer, fin, conn, ibuf, obuf, epollout, wire, failed, history>>

(* read() returns the bytes, 0 after a FIN, or -1 when the peer is gone.   *)
read_done(c) ==
  /\ Running(c, "read")
  /\ LET b == Filled(c, ibuf[c], SubSeq(peer[c], 1, want[c])) IN
     \/ (want[c] = 0 \/ fin[c]) /\ clean_conn(c, Displaced(c, ibuf[c]) \o <<b.cap, obuf[c].cap>>)
     \/ /\ want[c] > 0
        /\ ibuf' = [ibuf EXCEPT ![c] = b]
        /\ peer' = [peer EXCEPT ![c] = SubSeq(@, want[c] + 1, Len(@))]
        /\ pool' = Reverted(Displaced(c, ibuf[c])) /\ spare' = [spare EXCEPT ![c] = 0]
        /\ pc' = [pc EXCEPT ![c] = "parse"] /\ want' = [want EXCEPT ![c] = 0]
        /\ UNCHANGED <<junk, fin, conn, epollout, wire, failed, obuf, total_mem, history>>

(* One round of the while loop of do_read. *)
msglen(b) == b.data[1][3]
Whole(b) == Len(b.data) >= HEAD_LEN + msglen(b)
Headed(b) == Len(b.data) >= HEAD_LEN

parse_stop_unadjusted(c) ==            \* Mutant: ibuf.adjust() is missing
  /\ Running(c, "parse")
  /\ Headed(ibuf[c]) => msglen(ibuf[c]) <= LEN_LIMIT /\ ~Whole(ibuf[c])
  /\ pc' = [pc EXCEPT ![c] = "loop"]
  /\ UNCHANGED <<junk, peer, fin, conn, want, epollout, wire, failed, buffers, history>>

parse_stop(c) ==
  /\ Running(c, "parse")
  /\ Headed(ibuf[c]) => msglen(ibuf[c]) <= LEN_LIMIT /\ ~Whole(ibuf[c])
  /\ ibuf' = [ibuf EXCEPT ![c] = adjust(@)]
  /\ pc' = [pc EXCEPT ![c] = "loop"]
  /\ UNCHANGED <<junk, peer, fin, conn, want, epollout, wire, failed, obuf, pool, total_mem, spare, history>>

parse_too_long(c) ==
  /\ Running(c, "parse") /\ Headed(ibuf[c]) /\ msglen(ibuf[c]) > LEN_LIMIT
  /\ clean_conn(c, <<ibuf[c].cap, obuf[c].cap>>)

(* reactor_buf::pop gives an emptied io_buf back at once. *)
Popped(b) == IF b.data = << >> THEN NULL ELSE b
Emptied(b) == IF b.data = << >> THEN <<b.cap>> ELSE << >>

(* pop the header, call the router, pop the body: the second pop asserts   *)
(* that there still is an io_buf.                                          *)
parse_message_once(c) ==               \* Mutant: one message per read
  /\ Running(c, "parse") /\ Headed(ibuf[c])
  /\ LET b == pop(ibuf[c], HEAD_LEN)
         len == msglen(ibuf[c])
     IN
     /\ len <= LEN_LIMIT /\ Whole(ibuf[c]) /\ b.data # << >>
     /\ calls' = [calls EXCEPT ![c] = Append(@, SubSeq(b.data, 1, len))]
     /\ ibuf' = [ibuf EXCEPT ![c] = adjust(Popped(pop(b, len)))]
     /\ pool' = Reverted(Emptied(pop(b, len)))
     /\ pc' = [pc EXCEPT ![c] = "loop"]
     /\ UNCHANGED <<junk, peer, fin, conn, want, epollout, wire, failed,
                    obuf, total_mem, spare, told, accepted, refused>>

parse_message(c) ==
  /\ Running(c, "parse") /\ Headed(ibuf[c])
  /\ LET b == pop(ibuf[c], HEAD_LEN)
         len == msglen(ibuf[c])
     IN
     /\ len <= LEN_LIMIT /\ Whole(ibuf[c])
     /\ \/ b.data = << >> /\ Fail("pop")
        \/ /\ b.data # << >>
           /\ calls' = [calls EXCEPT ![c] = Append(@, SubSeq(b.data, 1, len))]
           /\ ibuf' = [ibuf EXCEPT ![c] = Popped(pop(b, len))]
           /\ pool' = Reverted(Emptied(pop(b, len)))
           /\ UNCHANGED <<junk, peer, fin, conn, pc, want, epollout, wire, failed,
                          obuf, total_mem, spare, told, accepted, refused>>
-----------------------------------------------------------------------------
(* send_message from a handler or a task of the connection's loop, up to   *)
(* the io_buf for the header; a header refused changes nothing: no step.  *)
send_message(c, len) ==
  /\ Running(c, "loop") /\ accepted[c].no < MaxOut
  /\ \/ obuf[c].head # 0 /\ Fail("head")
     \/ AllocFailure(obuf[c], HEAD_LEN, pool) # "no" /\ Fail(AllocFailure(obuf[c], HEAD_LEN, pool))
     \/ /\ obuf[c].head = 0 /\ ~TooLarge(obuf[c], HEAD_LEN)
        /\ AllocFailure(obuf[c], HEAD_LEN, pool) = "no"
        /\ Reserve(c, obuf[c], HEAD_LEN, pool)
        /\ want' = [want EXCEPT ![c] = len] /\ pc' = [pc EXCEPT ![c] = "head"]
        /\ UNCHANGED <<junk, peer, fin, conn, ibuf, obuf, epollout, wire, failed, history>>

(* The header is in obuf; the body asks for its space.  When it is refused *)
(* the header is popped, from the front of obuf.                           *)
send_head(c) ==
  /\ Running(c, "head")
  /\ LET k == accepted[c].no + 1
         b == Filled(c, obuf[c], SubSeq(Message(k, want[c]), 1, HEAD_LEN))
         free == Reverted(Displaced(c, obuf[c]))
         rest == pop(b, HEAD_LEN)
     IN
     \/ AllocFailure(b, want[c], free) # "no" /\ Fail(AllocFailure(b, want[c], free))
     \/ /\ TooLarge(b, want[c])
        /\ obuf' = [obuf EXCEPT ![c] = Popped(rest)]
        /\ pool' = Reverted(Displaced(c, obuf[c]) \o Emptied(rest))
        /\ spare' = [spare EXCEPT ![c] = 0] /\ want' = [want EXCEPT ![c] = 0]
        /\ pc' = [pc EXCEPT ![c] = "loop"]
        /\ refused' = IF rest.data = << >> THEN refused ELSE refused \cup {c}
        /\ UNCHANGED <<junk, peer, fin, conn, epollout, wire, failed, ibuf, total_mem,
                       told, calls, accepted>>
     \/ /\ ~TooLarge(b, want[c]) /\ AllocFailure(b, want[c], free) = "no"
        /\ obuf' = [obuf EXCEPT ![c] = b]
        /\ Reserve(c, b, want[c], free)
        /\ pc' = [pc EXCEPT ![c] = "body"]
        /\ UNCHANGED <<junk, peer, fin, conn, want, epollout, wire, failed, ibuf, history>>

send_body(c) ==
  /\ Running(c, "body")
  /\ LET k == accepted[c].no + 1 IN
     /\ obuf' = [obuf EXCEPT ![c] = Filled(c, @, Body(k, want[c]))]
     /\ accepted' = [accepted EXCEPT ![c] = [no |-> k, bytes |-> @.bytes \o Message(k, want[c])]]
  /\ pool' = Reverted(Displaced(c, obuf[c])) /\ spare' = [spare EXCEPT ![c] = 0]
  /\ epollout' = [epollout EXCEPT ![c] = @ \/ Len(obuf[c].data) = HEAD_LEN]
  /\ pc' = [pc EXCEPT ![c] = "loop"] /\ want' = [want EXCEPT ![c] = 0]
  /\ UNCHANGED <<junk, peer, fin, conn, wire, failed, ibuf, total_mem, told, calls, refused>>

(* do_write: the kernel takes the first n bytes; write2fd adjusts.  The    *)
(* emptied io_buf stays in obuf.                                           *)
do_write(c) ==
  /\ Running(c, "loop") /\ epollout[c]
  /\ \/ obuf[c].head # 0 /\ Fail("head")
     \/ fin[c] /\ clean_conn(c, <<ibuf[c].cap, obuf[c].cap>>)
     \/ /\ obuf[c].head = 0
        /\ \E n \in 1..Len(obuf[c].data) :
             /\ wire' = [wire EXCEPT ![c] = @ \o SubSeq(obuf[c].data, 1, n)]
             /\ obuf' = [obuf EXCEPT ![c] = adjust(pop(@, n))]
             /\ epollout' = [epollout EXCEPT ![c] = n < Len(obuf[c].data)]
        /\ UNCHANGED <<junk, peer, fin, conn, pc, want, failed, ibuf, pool, total_mem, spare, history>>
-----------------------------------------------------------------------------
(* The peers, not part of the program. *)
peer_sends(c, len) ==
  /\ failed = "no" /\ conn[c] = "open" /\ ~fin[c] /\ Len(told[c]) < MaxIn
  /\ told' = [told EXCEPT ![c] = Append(@, len)]
  /\ peer' = [peer EXCEPT ![c] = @ \o Message(Len(told[c]) + 1, len)]
  /\ UNCHANGED <<junk, fin, conn, pc, want, epollout, wire, failed, buffers, calls, accepted, refused>>

peer_closes(c) ==
  /\ failed = "no" /\ conn[c] = "open" /\ ~fin[c]
  /\ fin' = [fin EXCEPT ![c] = TRUE]
  /\ UNCHANGED <<junk, peer, conn, pc, want, epollout, wire, failed, buffers, history>>

do_read(c) ==
  read_data(c) \/ read_done(c) \/ parse_stop(c) \/ parse_too_long(c) \/ parse_message(c)

send(c) == (\E len \in BodyLens : send_message(c, len)) \/ send_head(c) \/ send_body(c)

Next ==
  \/ \E c \in Conns : do_read(c) \/ do_write(c) \/ peer_closes(c)
  \/ \E c \in Served : send(c)
  \/ \E c \in Talkers, len \in BodyLens : peer_sends(c, len)

Spec == Init /\ [][Next]_vars
-----------------------------------------------------------------------------
io_bufs == [cap : {0} \cup Caps, head : Nat, data : Seq(Seq(Nat))]

(* Types; no io_buf holds more than its capacity, so no read and no memcpy *)
(* goes past the end of an io_buf                                          *)
(* (reactor_buf.cpp:80-82, 137).                                           *)
TypeOK ==
  /\ conn \in [Conns -> {"open", "closed"}]
  /\ pc \in [Conns -> {"loop", "read", "parse", "head", "body"}]
  /\ spare \in [Conns -> {0} \cup Caps] /\ pool \in [Caps -> Nat]
  /\ failed \in {"no", "head", "pop", "junk", "exit"}
  /\ \A c \in Conns : \A b \in {ibuf[c], obuf[c]} :
       b \in io_bufs /\ b.head + Len(b.data) <= b.cap

(* Every io_buf is in the free list of its capacity or in one buffer of    *)
(* one open connection, and total_mem counts them all, whatever callbacks  *)
(* stand between their alloc_buf and their revert (buf_pool.cpp:45-113).   *)
BuffersAreConserved ==
  total_mem = Total([n \in Caps |-> n * pool[n]])
              + Total([c \in Conns |-> ibuf[c].cap + obuf[c].cap + spare[c]])

(* The router is called with exactly the bodies the peer sent, in order,   *)
(* however the stream is cut into reads (tcp_conn.cpp:60-81); and what is  *)
(* on the wire and in obuf is exactly the messages send_message accepted,  *)
(* unless a refused body took a header from the front of obuf              *)
(* (tcp_conn.cpp:117-138).                                                 *)
MessagesAreWhole ==
  \A c \in Conns :
    /\ Len(calls[c]) <= Len(told[c])
    /\ \A k \in DOMAIN calls[c] : calls[c][k] = Body(k, told[c][k])
    /\ c \notin refused /\ conn[c] = "open" /\ pc[c] \notin {"head", "body"} =>
         wire[c] \o obuf[c].data = accepted[c].bytes

(* The asserts on head (reactor_buf.cpp:60, 120, 144) fail only for a       *)
(* connection one of whose own bodies was refused; obuf of every other     *)
(* one starts at 0 after any partial write, growth or reply, whatever      *)
(* became of its neighbours in the pool.                                   *)
HeadAssertsHold ==
  /\ failed = "head" => \E c \in refused : obuf[c].head # 0
  /\ \A c \in Conns \ refused : conn[c] = "open" => obuf[c].head = 0

(* Nothing waits for an event that will not come: bytes in obuf of an open *)
(* connection have EPOLLOUT (tcp_conn.cpp:135), and between callbacks no   *)
(* whole message waits in ibuf, as epoll would not call do_read again for  *)
(* bytes it has already read (tcp_conn.cpp:60-81).                         *)
NothingIsStuck ==
  \A c \in Conns : conn[c] = "open" =>
    /\ pc[c] \notin {"head", "body"} /\ obuf[c].data # << >> => epollout[c]
    /\ pc[c] \in {"loop", "head", "body"} /\ Headed(ibuf[c]) =>
         ~Whole(ibuf[c]) /\ msglen(ibuf[c]) <= LEN_LIMIT
=============================================================================
