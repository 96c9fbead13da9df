----------------------------- MODULE MCReporter ------------------------------
(* A small instance of Reporter for TLC. *)
EXTENDS Reporter

CONSTANTS a1, a2      \* the rows of two hosts

\* An agent reports the hosts it has now: all, or only the second.
MCRequests == {<<a1, a2>>, <<a2>>}
=============================================================================
