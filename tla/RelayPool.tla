----------------------------- MODULE RelayPool -----------------------------
(***************************************************************************)
(* What the TCP relay promises its caller, whatever its threads do: a pool *)
(* of at most MaxConns connections.  A connection is admitted, possibly    *)
(* served, and released; none starts being served once a stop is           *)
(* requested; the stop is over only when the pool is empty.                *)
(***************************************************************************)
EXTENDS Naturals, FiniteSets

CONSTANTS Conns, MaxConns

VARIABLES phase,    \* "off", "on" or "closing"
          held,     \* connections admitted and not yet released
          served    \* those handed to a data thread

vars == <<phase, held, served>>

Init == phase = "off" /\ held = {} /\ served = {}

\* A start that fails is on until it gives up what it had opened.
Start == /\ phase = "off"
         /\ phase' = "on"
         /\ UNCHANGED <<held, served>>

Admit(c) == /\ phase # "off"
            /\ c \notin held
            /\ Cardinality(held) < MaxConns
            /\ held' = held \cup {c}
            /\ UNCHANGED <<phase, served>>

Serve(c) == /\ phase = "on"
            /\ c \in held \ served
            /\ served' = served \cup {c}
            /\ UNCHANGED <<phase, held>>

Release(c) == /\ phase # "off"
              /\ c \in held
              /\ held' = held \ {c}
              /\ served' = served \ {c}
              /\ UNCHANGED phase

Stop == /\ phase = "on"
        /\ phase' = "closing"
        /\ UNCHANGED <<held, served>>

Stopped == /\ phase = "closing"
           /\ held = {}
           /\ phase' = "off"
           /\ UNCHANGED <<held, served>>

Next == \/ Start \/ Stop \/ Stopped
        \/ \E c \in Conns : Admit(c) \/ Serve(c) \/ Release(c)

Spec == Init /\ [][Next]_vars
=============================================================================
