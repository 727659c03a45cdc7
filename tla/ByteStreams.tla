---------------------------- MODULE ByteStreams ----------------------------
(***************************************************************************)
(* What a relayed connection promises its two ends: two independent        *)
(* streams.  What an end writes arrives at the other in order, once, and   *)
(* before the end of the stream; a stream that has ended leaves the other  *)
(* one open; a cut connection delivers nothing more.                       *)
(***************************************************************************)
EXTENDS Naturals

CONSTANT Conns

Ends == {0, 1}

VARIABLES
  written,    \* bytes each end has written
  finished,   \* ends that have ended their stream
  arrived,    \* bytes that have arrived at each end
  told,       \* ends that were told that the other end's stream is over
  cut         \* connections closed, or never made

streams == <<written, finished, arrived, told, cut>>

Start ==
  /\ written \in [Conns -> [Ends -> Nat]]
  /\ arrived = [c \in Conns |-> [e \in Ends |-> 0]]
  /\ finished = [c \in Conns |-> {}] /\ told = [c \in Conns |-> {}]
  /\ cut \in SUBSET Conns

Write(c, e) ==
  /\ e \notin finished[c]
  /\ written' = [written EXCEPT ![c][e] = @ + 1]
  /\ UNCHANGED <<finished, arrived, told, cut>>

Finish(c, e) ==
  /\ finished' = [finished EXCEPT ![c] = @ \cup {e}]
  /\ UNCHANGED <<written, arrived, told, cut>>

\* Bytes arrive at the end, and perhaps the end of the stream after the last of them;
\* the connection may be cut in the same step.
Arrive(c, e) ==
  /\ c \notin cut /\ e \notin told[c]
  /\ \E n \in arrived[c][e] .. written[c][1 - e] :
       /\ arrived' = [arrived EXCEPT ![c][e] = n]
       /\ \/ told' = told
          \/ /\ n = written[c][1 - e] /\ 1 - e \in finished[c]
             /\ told' = [told EXCEPT ![c] = @ \cup {e}]
  /\ cut' \in {cut, cut \cup {c}}
  /\ UNCHANGED <<written, finished>>

Cut(c) == cut' = cut \cup {c} /\ UNCHANGED <<written, finished, arrived, told>>

Next == \E c \in Conns : Cut(c) \/ \E e \in Ends : Write(c, e) \/ Finish(c, e) \/ Arrive(c, e)

Spec == Start /\ [][Next]_streams
=============================================================================
