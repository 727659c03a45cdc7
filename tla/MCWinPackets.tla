---------------------------- MODULE MCWinPackets ----------------------------
(* Instances of WinPackets: two families on ports of their own, or sharing *)
(* a port number.                                                          *)
EXTENDS WinPackets
OwnPorts == {<<1, "v4">>, <<2, "v6">>}
SharedPort == {<<1, "v4">>, <<1, "v6">>}
=============================================================================
