------------------------------ MODULE RouteTable ------------------------------
(***************************************************************************)
(* What Route promises its readers: get_hosts() reads one table, and the   *)
(* table is at every moment the complete result of one query of RouteData, *)
(* all mods as they were at that instant, replaced only by the result of a *)
(* later query.  How the result is loaded row by row beside the readers is *)
(* DnsService's business.                                                  *)
(***************************************************************************)
EXTENDS Naturals

CONSTANT Mods         \* the (modid, cmdid) pairs

VARIABLES db_rev,     \* revision of each mod in the database
          copy,       \* the result of the last query of RouteData
          table       \* for each mod, the revisions whose rows a reader finds

Init == /\ db_rev = [m \in Mods |-> 0]
        /\ copy = [m \in Mods |-> {0}]
        /\ table = copy

Edit(m) == /\ db_rev' = [db_rev EXCEPT ![m] = @ + 1]
           /\ UNCHANGED <<copy, table>>

Query == /\ copy' = [m \in Mods |-> {db_rev[m]}]
         /\ UNCHANGED <<db_rev, table>>

Swap == /\ table' = copy
        /\ UNCHANGED <<db_rev, copy>>

Next == (\E m \in Mods : Edit(m)) \/ Query \/ Swap

Spec == Init /\ [][Next]_<<db_rev, copy, table>>
=============================================================================
