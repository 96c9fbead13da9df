----------------------------- MODULE ThreadQueue -----------------------------
(***************************************************************************)
(* thread_queue<T> of lars_reactors (include/thread_queue.h): a queue and  *)
(* an eventfd under one mutex.  Any thread sends; the thread of one        *)
(* event_loop sleeps in epoll_wait and receives when the eventfd is        *)
(* readable.  Each step between two accesses to the mutex, the queue or    *)
(* the eventfd is an action.                                               *)
(***************************************************************************)
EXTENDS Integers, Sequences

CONSTANTS Senders,    \* the sending threads
          None,       \* nobody
          MaxMessages \* bound: messages sent

ASSUME SenderAssumption == None \notin Senders \cup {"loop"} /\ "loop" \notin Senders
ASSUME BoundAssumption == MaxMessages \in Nat

VARIABLES
  _queue, _evfd,      \* the messages, the counter of the eventfd
  mutex,              \* holder of _queue_mutex
  sending,            \* what each sender does next: "none", "lock", "push", ...
  message,            \* the message it sends
  loop,               \* where the receiving loop is
  queue_msgs,         \* the local queue recv() swapped the messages into
  handled,            \* the messages handled, in order
  next                \* number of the next message

vars == <<_queue, _evfd, mutex, sending, message, loop, queue_msgs, handled, next>>

Messages == 1..MaxMessages

Init ==
  /\ _queue = << >> /\ _evfd = 0 /\ mutex = None
  /\ sending = [s \in Senders |-> "none"] /\ message = [s \in Senders |-> 0]
  /\ loop = "start" /\ queue_msgs = << >> /\ handled = << >> /\ next = 1
-----------------------------------------------------------------------------
Goes(s, l) == sending' = [sending EXCEPT ![s] = l]

send(s) ==
  /\ sending[s] = "none" /\ next <= MaxMessages
  /\ message' = [message EXCEPT ![s] = next] /\ next' = next + 1
  /\ Goes(s, "lock")
  /\ UNCHANGED <<_queue, _evfd, mutex, loop, queue_msgs, handled>>

(* Mutant: last in, first out. *)
send_push_front(s) ==
  /\ sending[s] = "lock" /\ mutex = None
  /\ mutex' = s
  /\ _queue' = <<message[s]>> \o _queue
  /\ Goes(s, "write")
  /\ UNCHANGED <<_evfd, message, loop, queue_msgs, handled, next>>

send_push(s) ==
  /\ sending[s] = "lock" /\ mutex = None
  /\ mutex' = s
  /\ _queue' = Append(_queue, message[s])
  /\ Goes(s, "write")
  /\ UNCHANGED <<_evfd, message, loop, queue_msgs, handled, next>>

(* Mutant: only a sleeping loop is woken. *)
send_write_if_asleep(s) ==
  /\ sending[s] = "write"
  /\ _evfd' = IF loop = "epoll_wait" THEN _evfd + 1 ELSE _evfd
  /\ Goes(s, "unlock")
  /\ UNCHANGED <<_queue, mutex, message, loop, queue_msgs, handled, next>>

send_write(s) ==
  /\ sending[s] = "write"
  /\ _evfd' = _evfd + 1
  /\ Goes(s, "unlock")
  /\ UNCHANGED <<_queue, mutex, message, loop, queue_msgs, handled, next>>

send_unlock(s) ==
  /\ sending[s] = "unlock"
  /\ mutex' = None
  /\ Goes(s, "none")
  /\ UNCHANGED <<_queue, _evfd, message, loop, queue_msgs, handled, next>>
-----------------------------------------------------------------------------
(* set_loop and set_callback register the eventfd when the thread starts,  *)
(* which may be after the first sends.                                     *)
set_callback ==
  /\ loop = "start" /\ loop' = "epoll_wait"
  /\ UNCHANGED <<_queue, _evfd, mutex, sending, message, queue_msgs, handled, next>>

(* epoll is level triggered: the loop wakes up while the counter is not 0. *)
wake_up ==
  /\ loop = "epoll_wait" /\ _evfd > 0
  /\ loop' = "recv"
  /\ UNCHANGED <<_queue, _evfd, mutex, sending, message, queue_msgs, handled, next>>

(* Mutant: the eventfd is not read. *)
recv_no_read ==
  /\ loop = "recv" /\ mutex = None
  /\ mutex' = "loop" /\ loop' = "swap"
  /\ UNCHANGED <<_queue, _evfd, sending, message, queue_msgs, handled, next>>

recv_read ==
  /\ loop = "recv" /\ mutex = None
  /\ mutex' = "loop" /\ _evfd' = 0
  /\ loop' = "swap"
  /\ UNCHANGED <<_queue, sending, message, queue_msgs, handled, next>>

(* Mutant: one message per wake-up. *)
recv_one ==
  /\ loop = "swap"
  /\ queue_msgs' = SubSeq(_queue, 1, 1) /\ _queue' = SubSeq(_queue, 2, Len(_queue))
  /\ mutex' = None
  /\ loop' = "callback"
  /\ UNCHANGED <<_evfd, sending, message, handled, next>>

recv_swap ==
  /\ loop = "swap"
  /\ queue_msgs' = _queue /\ _queue' = queue_msgs
  /\ mutex' = None
  /\ loop' = "callback"
  /\ UNCHANGED <<_evfd, sending, message, handled, next>>

(* The callback takes front() and pop()s until its queue is empty. *)
handle ==
  /\ loop = "callback" /\ queue_msgs # << >>
  /\ handled' = Append(handled, Head(queue_msgs))
  /\ queue_msgs' = Tail(queue_msgs)
  /\ UNCHANGED <<_queue, _evfd, mutex, sending, message, loop, next>>

return ==
  /\ loop = "callback" /\ queue_msgs = << >>
  /\ loop' = "epoll_wait"
  /\ UNCHANGED <<_queue, _evfd, mutex, sending, message, queue_msgs, handled, next>>

Sender(s) == send_push(s) \/ send_write(s) \/ send_unlock(s)
Loop == set_callback \/ wake_up \/ recv_read \/ recv_swap \/ handle \/ return

Next == (\E s \in Senders : send(s) \/ Sender(s)) \/ Loop

Spec == Init /\ [][Next]_vars

(* Threads that hold or wait for the mutex and the loop's thread run on.   *)
(* A pthread mutex is not fair, so a thread that asks for it again and     *)
(* again is only assumed to get it when it is free infinitely often.       *)
FairSpec == /\ Spec
            /\ \A s \in Senders : SF_vars(Sender(s))
            /\ WF_vars(Loop) /\ SF_vars(recv_read)
-----------------------------------------------------------------------------
(* The type invariant. *)
TypeOK ==
  /\ _queue \in Seq(Messages) /\ queue_msgs \in Seq(Messages)
  /\ handled \in Seq(Messages)
  /\ _evfd \in 0..Len(_queue) /\ mutex \in Senders \cup {"loop", None}
  /\ sending \in [Senders -> {"none", "lock", "write", "unlock"}]
  /\ message \in [Senders -> 0..MaxMessages] /\ next \in 1..MaxMessages+1
  /\ loop \in {"start", "epoll_wait", "recv", "swap", "callback"}

(* No lost wake-up: the loop never sleeps beside a message while nobody is *)
(* inside send(), however sends fall between the read of the eventfd and   *)
(* the swap, or before the eventfd is registered at all.                   *)
NoLostWakeUp ==
  _queue # << >> /\ mutex = None => _evfd > 0

(* The queue is a FIFO mailbox: each message is handled once, in the order *)
(* in which the senders got the mutex.                                     *)
MB == INSTANCE Mailbox WITH pending <- queue_msgs \o _queue
ImplementsMailbox == MB!Spec

(* Every message that entered send() is handled in the end. *)
EveryMessageHandled ==
  \A m \in Messages : (next > m) ~> (\E i \in DOMAIN handled : handled[i] = m)
=============================================================================
