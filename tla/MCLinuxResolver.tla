-------------------------- MODULE MCLinuxResolver --------------------------
(* TLC instance of LinuxResolver: callers, names and requests are model    *)
(* values.                                                                 *)
EXTENDS LinuxResolver, TLC

Symmetry == Permutations(Callers) \cup Permutations(Names)
=============================================================================
