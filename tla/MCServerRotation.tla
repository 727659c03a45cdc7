-------------------------- MODULE MCServerRotation -------------------------
(* TLC instances of ServerRotation: ids and accounts are model values. *)
EXTENDS ServerRotation
=============================================================================
