----------------------------- MODULE MCWinRelay -----------------------------
(* An instance of WinRelay: the client sends up to two units, the proxy    *)
(* one.                                                                    *)
EXTENDS WinRelay

UpTwoDownOne == <<2, 1>>
=============================================================================
