---------------------------- MODULE MCLoadBalance ----------------------------
(* Small instances of LoadBalance for TLC. *)
EXTENDS LoadBalance, TLC

Symmetry == Permutations(Hosts) \cup Permutations(Addrs)

\* Without agrees with the library's Remove on the lists that can occur.
ASSUME WithoutIsRemove ==
  \A a \in Addrs : \A l \in UNION {[1..n -> Addrs] : n \in 0..3} :
    Without(l, {a}) = SelectSeq(l, LAMBDA b : b # a)
=============================================================================
