-------------------------- MODULE MCLinuxRelayTcp --------------------------
(* TLC instances of LinuxRelayTcp: the threads and connections are model values. *)
EXTENDS LinuxRelayTcp, TLC

Symmetry == Permutations(Conns) \cup Permutations(Workers) \cup Permutations(DataThreads)
=============================================================================
