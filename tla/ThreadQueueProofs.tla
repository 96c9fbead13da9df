-------------------------- MODULE ThreadQueueProofs --------------------------
(***************************************************************************)
(* Proofs about ThreadQueue: the lock discipline makes the eventfd count   *)
(* the messages, so no wake-up is lost and the queue is a FIFO mailbox,    *)
(* for any number of senders and messages.                                 *)
(***************************************************************************)
EXTENDS ThreadQueue, SequenceTheorems, TLAPS

(* TypeOK without the bound on _evfd, which needs the lock discipline.     *)
TypeInv ==
  /\ _queue \in Seq(Messages) /\ queue_msgs \in Seq(Messages)
  /\ handled \in Seq(Messages)
  /\ _evfd \in Nat /\ mutex \in Senders \cup {"loop", None}
  /\ sending \in [Senders -> {"none", "lock", "write", "unlock"}]
  /\ message \in [Senders -> 0..MaxMessages] /\ next \in 1..MaxMessages+1
  /\ loop \in {"start", "epoll_wait", "recv", "swap", "callback"}

(* Exactly the thread between lock and unlock holds the mutex. *)
MutexInv ==
  /\ \A s \in Senders : sending[s] \in {"write", "unlock"} <=> mutex = s
  /\ loop = "swap" <=> mutex = "loop"

(* The eventfd lags behind the queue by the message being sent. *)
EventfdInv ==
  /\ _evfd <= Len(_queue)
  /\ \A s \in Senders : sending[s] = "write" => _evfd < Len(_queue)
  /\ \A s \in Senders : sending[s] = "unlock" => _evfd > 0
  /\ loop = "swap" => _evfd = 0
  /\ NoLostWakeUp

(* recv() is handed an empty queue, and what is sent is a message. *)
LocalInv ==
  /\ loop # "callback" => queue_msgs = << >>
  /\ \A s \in Senders : sending[s] # "none" => message[s] \in Messages

IInv == TypeInv /\ MutexInv /\ EventfdInv /\ LocalInv

(* The inductive invariant holds at the start. *)
LEMMA InitIInv == Init => IInv
  BY SenderAssumption, BoundAssumption
  DEF Init, IInv, TypeInv, MutexInv, EventfdInv, LocalInv, NoLostWakeUp, Messages

(* Every step of send(), recv() and the loop keeps it. *)
LEMMA NextIInv == IInv /\ [Next]_vars => IInv'
<1> SUFFICES ASSUME IInv, [Next]_vars PROVE IInv'
  OBVIOUS
<1> USE SenderAssumption, BoundAssumption
        DEF IInv, TypeInv, MutexInv, EventfdInv, LocalInv, NoLostWakeUp, Messages
<1>1. ASSUME NEW s \in Senders, send(s) PROVE IInv'
  BY <1>1 DEF send, Goes
<1>2. ASSUME NEW s \in Senders, send_push(s) PROVE IInv'
  <2>1. message[s] \in Messages
    BY <1>2 DEF send_push
  <2>2. _queue' \in Seq(Messages) /\ Len(_queue') = Len(_queue) + 1 /\ _queue' # << >>
    <3>1. _queue \in Seq(Messages) /\ _queue' = Append(_queue, message[s])
      BY <1>2 DEF send_push
    <3> HIDE DEF Messages
    <3> QED
      BY ONLY <2>1, <3>1, AppendProperties
  <2>3. mutex = None /\ mutex' = s /\ s # None /\ s # "loop"
    BY <1>2 DEF send_push
  <2> QED
    BY <1>2, <2>2, <2>3 DEF send_push, Goes
<1>3. ASSUME NEW s \in Senders, send_write(s) PROVE IInv'
  BY <1>3 DEF send_write, Goes
<1>4. ASSUME NEW s \in Senders, send_unlock(s) PROVE IInv'
  BY <1>4 DEF send_unlock, Goes
<1>5. CASE set_callback
  BY <1>5 DEF set_callback
<1>6. CASE wake_up
  BY <1>6 DEF wake_up
<1>7. CASE recv_read
  BY <1>7 DEF recv_read
<1>8. CASE recv_swap
  BY <1>8, EmptySeq DEF recv_swap
<1>9. CASE handle
  BY <1>9, HeadTailProperties, AppendProperties DEF handle
<1>10. CASE return
  BY <1>10 DEF return
<1>11. CASE UNCHANGED vars
  BY <1>11 DEF vars
<1> QED
  BY <1>1, <1>2, <1>3, <1>4, <1>5, <1>6, <1>7, <1>8, <1>9, <1>10, <1>11
  DEF Next, Sender, Loop

(* IInv is inductive. *)
LEMMA IInvAlways == Spec => []IInv
  BY InitIInv, NextIInv, PTL DEF Spec

(* The type invariant, with the bound that the eventfd never counts more   *)
(* than the queue holds: no wake-up without a message.                     *)
THEOREM TypeCorrect == Spec => []TypeOK
<1>1. IInv => TypeOK
  BY DEF IInv, TypeInv, EventfdInv, TypeOK
<1> QED
  BY <1>1, IInvAlways, PTL

(* thread_queue.h:28-55: the loop never sleeps beside a message while no   *)
(* thread is inside send() or recv().                                      *)
THEOREM WakeUpsAreKept == Spec => []NoLostWakeUp
<1>1. IInv => NoLostWakeUp
  BY DEF IInv, EventfdInv
<1> QED
  BY <1>1, IInvAlways, PTL
-----------------------------------------------------------------------------
(* Two facts about \o that the refinement needs. *)
LEMMA ConcatAppend ==
  ASSUME NEW S, NEW s \in Seq(S), NEW t \in Seq(S), NEW e \in S
  PROVE  s \o Append(t, e) = Append(s \o t, e)
<1>1. s \o t \in Seq(S) /\ <<e>> \in Seq(S)
  BY ConcatProperties
<1>2. Append(t, e) = t \o <<e>> /\ Append(s \o t, e) = (s \o t) \o <<e>>
  BY <1>1, AppendIsConcat
<1> QED
  BY <1>1, <1>2, ConcatAssociative

(* The head of the swapped queue is the head of the mailbox. *)
LEMMA ConcatHeadTail ==
  ASSUME NEW S, NEW s \in Seq(S), NEW t \in Seq(S), s # << >>
  PROVE  /\ s \o t # << >>
         /\ Head(s \o t) = Head(s)
         /\ Tail(s \o t) = Tail(s) \o t
<1> DEFINE c == s \o t
<1>1. c \in Seq(S) /\ Len(c) = Len(s) + Len(t) /\ Len(s) \in Nat \ {0} /\ Len(t) \in Nat
  BY ConcatProperties, EmptySeq, LenProperties
<1>2. \A i \in 1..Len(c) : c[i] = IF i <= Len(s) THEN s[i] ELSE t[i - Len(s)]
  BY <1>1, ConcatProperties
<1>3. c # << >>
  BY <1>1, EmptySeq
<1>4. Head(c) = Head(s)
  BY <1>1, <1>2
<1>5. /\ Tail(s) \in Seq(S) /\ Len(Tail(s)) = Len(s) - 1
      /\ \A i \in 1..Len(Tail(s)) : Tail(s)[i] = s[i+1]
  BY HeadTailProperties
<1>6. /\ Tail(c) \in Seq(S) /\ Len(Tail(c)) = Len(c) - 1
      /\ \A i \in 1..Len(Tail(c)) : Tail(c)[i] = c[i+1]
  BY <1>1, <1>3, HeadTailProperties
<1> DEFINE d == Tail(s) \o t
<1>7. /\ d \in Seq(S) /\ Len(d) = Len(s) - 1 + Len(t)
      /\ \A i \in 1..Len(d) : d[i] = IF i <= Len(s) - 1 THEN Tail(s)[i] ELSE t[i - (Len(s) - 1)]
  BY <1>5, ConcatProperties
<1>8. \A i \in 1..Len(d) : Tail(c)[i] = d[i]
  BY <1>1, <1>2, <1>5, <1>6, <1>7
<1>9. Tail(c) = d
  BY <1>1, <1>6, <1>7, <1>8, SeqEqual
<1> QED
  BY <1>3, <1>4, <1>9

(* A thread_queue implements a FIFO mailbox: send() is the mailbox's Send  *)
(* when it has the mutex, the callback's pop is its Handle, and taking the *)
(* whole queue in recv() is no step of the mailbox.                        *)
THEOREM MailboxImplemented == Spec => ImplementsMailbox
<1>1. Init => MB!Init
  BY ConcatEmptySeq DEF Init, MB!Init
<1>2. IInv /\ [Next]_vars => [MB!Next]_<<queue_msgs \o _queue, handled>>
  <2> SUFFICES ASSUME IInv, [Next]_vars
               PROVE  [MB!Next]_<<queue_msgs \o _queue, handled>>
    OBVIOUS
  <2> USE DEF IInv, TypeInv
  <2>1. ASSUME NEW s \in Senders, send_push(s) PROVE MB!Next
    <3>1. message[s] \in Messages
      BY <2>1 DEF send_push, LocalInv
    <3>2. (queue_msgs \o _queue)' = Append(queue_msgs \o _queue, message[s])
      BY <2>1, <3>1, ConcatAppend DEF send_push
    <3> QED
      BY <2>1, <3>1, <3>2 DEF send_push, MB!Next, MB!Send
  <2>2. CASE recv_swap
    <3>1. queue_msgs = << >>
      BY <2>2 DEF recv_swap, LocalInv
    <3>2. (queue_msgs \o _queue)' = queue_msgs \o _queue
      BY <2>2, <3>1, ConcatEmptySeq DEF recv_swap
    <3> QED
      BY <2>2, <3>2 DEF recv_swap
  <2>3. CASE handle
    <3>1. /\ queue_msgs \o _queue # << >>
          /\ Head(queue_msgs \o _queue) = Head(queue_msgs)
          /\ Tail(queue_msgs \o _queue) = Tail(queue_msgs) \o _queue
      BY <2>3, ConcatHeadTail DEF handle
    <3> QED
      BY <2>3, <3>1 DEF handle, MB!Next, MB!Handle
  <2>4. ASSUME NEW s \in Senders, send(s) \/ send_write(s) \/ send_unlock(s)
        PROVE  UNCHANGED <<queue_msgs \o _queue, handled>>
    BY <2>4 DEF send, send_write, send_unlock
  <2>5. ASSUME set_callback \/ wake_up \/ recv_read \/ return \/ UNCHANGED vars
        PROVE  UNCHANGED <<queue_msgs \o _queue, handled>>
    BY <2>5 DEF set_callback, wake_up, recv_read, return, vars
  <2> QED
    BY <2>1, <2>2, <2>3, <2>4, <2>5 DEF Next, Sender, Loop
<1>3. Spec => MB!Spec
  BY <1>1, <1>2, IInvAlways, PTL DEF Spec, MB!Spec
<1> QED
  BY <1>3 DEF ImplementsMailbox
=============================================================================
