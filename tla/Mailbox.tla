------------------------------- MODULE Mailbox -------------------------------
(***************************************************************************)
(* What a thread_queue promises: every message sent is handed to the       *)
(* callback of the receiving loop once, in the order of the sends.         *)
(***************************************************************************)
EXTENDS Sequences

CONSTANT Messages

VARIABLES pending,    \* sent and not handled yet, oldest first
          handled     \* the messages handled, in that order

Init == pending = << >> /\ handled = << >>

Send(m) == /\ pending' = Append(pending, m)
           /\ UNCHANGED handled

Handle == /\ pending # << >>
          /\ handled' = Append(handled, Head(pending))
          /\ pending' = Tail(pending)

Next == Handle \/ \E m \in Messages : Send(m)

Spec == Init /\ [][Next]_<<pending, handled>>
=============================================================================
