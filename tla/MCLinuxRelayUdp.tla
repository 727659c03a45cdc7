-------------------------- MODULE MCLinuxRelayUdp --------------------------
(* TLC instances of LinuxRelayUdp: two proxies that start as SOCKS5, one API call. *)
EXTENDS LinuxRelayUdp

AllSocks == {[p \in Proxies |-> "socks5"]}
=============================================================================
