---------------------------- MODULE MCDnsService ----------------------------
(* Small instances of DnsService for TLC. *)
EXTENDS DnsService, TLC

Symmetry == Permutations(Mods) \cup Permutations(Fds) \cup Permutations(Threads)
=============================================================================
