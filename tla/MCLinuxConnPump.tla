-------------------------- MODULE MCLinuxConnPump --------------------------
(* TLC instances of LinuxConnPump: two connections that share the thread and its pipe, *)
(* or one tapped DNS connection.                                                        *)
EXTENDS LinuxConnPump

CONSTANTS c1, c2

Of(k, down, up, ends) == [kind |-> k, units |-> (0 :> down) @@ (1 :> up), fins |-> ends]

TwoTcpOrOneDns ==
  { (c1 :> Of("tcp", 2, 0, Ends)) @@ (c2 :> Of("tcp", 0, 1, {})),
    (c1 :> Of("dns", 1, 3, Ends)) @@ (c2 :> Of("none", 0, 0, {})) }
=============================================================================
