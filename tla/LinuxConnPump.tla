--------------------------- MODULE LinuxConnPump ---------------------------
(***************************************************************************)
(* What a data thread of client/Linux/src/pb_relay.c does with the         *)
(* connections it serves: conn_service, conn_pump, pump_splice,            *)
(* dns_pump_up and conn_update over the thread's one pipe, driven by epoll *)
(* batches and fed by dthread_adopt.  LinuxRelayTcp keeps of all this only *)
(* "stays or is closed".                                                   *)
(*                                                                         *)
(* The bytes of a stream are units <<c, e, i>>, the i-th unit written by   *)
(* end e of connection c.  A system call is atomic; a recv and the send of *)
(* what it returned are one step, since what the two ends do in between    *)
(* commutes with one of them.                                              *)
(***************************************************************************)
EXTENDS Naturals, Sequences, FiniteSets, SequencesExt

CONSTANTS
  Conns,     \* connections of the thread
  Mixes,     \* what they may be: for each its kind, "tcp", "dns" (c->dns) or "none",
             \* and, two bounds, how many units its ends write and
             \* which of them may finish
  Resets,    \* bound: connections that are reset
  Chunk,     \* units one recv or splice moves at most  (SCRATCH_SZ, PIPE_SZ)
  Cap,       \* units an end's socket holds before send says EAGAIN
  DbufMax,   \* DNS_TCP_DBUF_MAX
  MaxIter,   \* turns of conn_pump (16)
  None

ASSUME PumpAssumption ==
  /\ None \notin Conns /\ Mixes \subseteq [Conns -> [kind : {"tcp", "dns", "none"},
                          units : [{0, 1} -> Nat], fins : SUBSET {0, 1}]]
  /\ Resets \in Nat /\ {Chunk, Cap, DbufMax, MaxIter} \subseteq Nat \ {0}

Ends == {0, 1}             \* fd[0], the client; fd[1], upstream; direction d reads fd[d]

VARIABLES
  sent, fin, reset,        \* the ends: units written (their kinds), FIN sent, RST sent
  room, arrived,           \* what each end's socket still takes, what it has taken
  read,                    \* units read from each end
  conn,                    \* struct conn: st, dns, eof, shut, pend, dbuf, doff, mask
  observed,                \* units that ended a message given to pb_core_dns_observe
  pipe, nosplice,          \* t->pfd, t->nosplice
  pc, cur, d, iter, prog,  \* the thread: location, connection, direction, turn, progress
  evs                      \* events of this epoll_wait not yet handled; 2 is the hand-over

endVars == <<sent, fin, reset>>
netVars == <<room, arrived, read>>
thread  == <<pc, cur, d, iter, prog, evs>>
vars == <<endVars, netVars, conn, observed, pipe, nosplice, thread>>

\* On an upstream DNS stream a unit is inside a message, its last one, or a zero length.
Kinds(c, e) == IF conn[c].dns /\ e = 1 THEN {"mid", "last", "zero"} ELSE {"raw"}

\* A length is read only where a message begins.
Begins(s) == IF s = <<>> THEN TRUE ELSE Last(s) = "last"

Stream(c, e, a, b) == [i \in 1 .. b - a |-> <<c, e, a + i>>]   \* units a+1 .. b
Unread(c, e) == Len(sent[c][e]) - read[c][e]

TypeOK ==
  /\ \A c \in Conns, e \in Ends :
       /\ sent[c][e] \in Seq(Kinds(c, e))
       /\ room[c][e] \in 0 .. Cap
       /\ read[c][e] \in 0 .. Len(sent[c][e])
       /\ arrived[c][e] \in Seq(Conns \X Ends \X Nat)
  /\ fin \in [Conns -> SUBSET Ends] /\ reset \in [Conns -> SUBSET Ends]
  /\ \A c \in Conns :
       /\ conn[c].st \in {"queued", "open", "closed"}
       /\ conn[c].eof \in SUBSET Ends /\ conn[c].shut \in SUBSET Ends
       /\ Len(conn[c].dbuf) <= DbufMax /\ conn[c].doff \in BOOLEAN
       /\ conn[c].mask \in [Ends -> SUBSET {"in", "out"}]
  /\ observed \in [Conns -> SUBSET Nat]
  /\ pipe \in Seq(Conns \X Ends \X Nat) /\ nosplice \in BOOLEAN
  /\ pc \in {"batch", "pump", "splice"}
  /\ cur \in Conns \cup {None} /\ d \in Ends /\ iter \in 0 .. MaxIter /\ prog \in BOOLEAN
  /\ evs \subseteq Conns \X {0, 1, 2}

\* tcp_job_run may have read what the upstream sent after the proxy's answer: it waits
\* in the pending buffer, or in dbuf when the stream is tapped.
Init ==
  /\ \E mix \in Mixes, first \in {"mid", "last"} : \E over \in SUBSET {c \in Conns : mix[c].units[1] > 0} :
       LET dns == {c \in Conns : mix[c].kind = "dns"} IN
       /\ sent = [c \in Conns |-> [e \in Ends |->
                    IF e = 1 /\ c \in over THEN <<IF c \in dns THEN first ELSE "raw">> ELSE <<>>]]
       /\ conn = [c \in Conns |->
            [st |-> IF mix[c].kind = "none" THEN "closed" ELSE "queued", dns |-> c \in dns,
             eof |-> {}, shut |-> {}, doff |-> FALSE,
             pend |-> [e \in Ends |-> IF e = 1 /\ c \in over \ dns THEN <<<<c, 1, 1>>>> ELSE <<>>],
             dbuf |-> IF c \in over \cap dns THEN <<<<c, 1, 1>>>> ELSE <<>>,
             mask |-> [e \in Ends |-> {}], units |-> mix[c].units, fins |-> mix[c].fins]]
       /\ read = [c \in Conns |-> [e \in Ends |-> Len(sent[c][e])]]
  /\ fin = [c \in Conns |-> {}] /\ reset = [c \in Conns |-> {}]
  /\ room = [c \in Conns |-> [e \in Ends |-> Cap]]
  /\ arrived = [c \in Conns |-> [e \in Ends |-> <<>>]]
  /\ observed = [c \in Conns |-> {}]
  /\ pipe = <<>> /\ nosplice = FALSE
  /\ pc = "batch" /\ evs = {}
  /\ cur = None /\ d = 0 /\ iter = 0 /\ prog = FALSE

-----------------------------------------------------------------------------
(* The two ends.                                                           *)

Write(c, e) ==
  /\ e \notin fin[c] \cup reset[c] /\ conn[c].st # "closed"
  /\ Len(sent[c][e]) < conn[c].units[e]
  /\ \E k \in Kinds(c, e) :
       /\ k = "zero" => Begins(sent[c][e])
       /\ sent' = [sent EXCEPT ![c][e] = Append(@, k)]
  /\ UNCHANGED <<fin, reset, netVars, conn, observed, pipe, nosplice, thread>>

Finish(c, e) ==
  /\ e \in conn[c].fins /\ e \notin fin[c] \cup reset[c] /\ conn[c].st # "closed"
  /\ fin' = [fin EXCEPT ![c] = @ \cup {e}]
  /\ UNCHANGED <<sent, reset, netVars, conn, observed, pipe, nosplice, thread>>

Reset(c, e) ==
  /\ Cardinality(UNION {{c1} \X reset[c1] : c1 \in Conns}) < Resets /\ conn[c].st # "closed"
  /\ reset' = [reset EXCEPT ![c] = @ \cup {e}]
  /\ UNCHANGED <<sent, fin, netVars, conn, observed, pipe, nosplice, thread>>

\* The end takes what its socket holds.
Drain(c, e) ==
  /\ room[c][e] < Cap /\ conn[c].st # "closed"
  /\ room' = [room EXCEPT ![c][e] = Cap]
  /\ UNCHANGED <<endVars, arrived, read, conn, observed, pipe, nosplice, thread>>

-----------------------------------------------------------------------------
(* data_main and dthread_adopt                                             *)

Ready(c, i) ==
  /\ conn[c].st = "open" /\ conn[c].mask[i] # {}
  /\ \/ i \in reset[c]                                    \* EPOLLERR
     \/ "in" \in conn[c].mask[i] /\ (Unread(c, i) > 0 \/ i \in fin[c])
     \/ "out" \in conn[c].mask[i] /\ room[c][i] > 0

\* epoll_wait, when the batch before is done.
Poll ==
  /\ pc = "batch" /\ evs = {}
  /\ LET ready == {ci \in Conns \X Ends : Ready(ci[1], ci[2])}
                    \cup {<<c, 2>> : c \in {x \in Conns : conn[x].st = "queued"}}
     IN ready # {} /\ evs' = ready
  /\ UNCHANGED <<endVars, netVars, conn, observed, pipe, nosplice, pc, cur, d, iter, prog>>

\* The same test as data_main's: a connection closed earlier in the batch is skipped.
Serve(c, i) ==
  /\ pc = "batch" /\ <<c, i>> \in evs /\ i \in Ends
  /\ evs' = evs \ {<<c, i>>}
  /\ IF conn[c].st = "closed" THEN UNCHANGED <<pc, cur, d, iter, prog>>
     ELSE pc' = "pump" /\ cur' = c /\ d' = 0 /\ iter' = 0 /\ prog' = FALSE
  /\ UNCHANGED <<endVars, netVars, conn, observed, pipe, nosplice>>

\* On to the rest of the batch.
Served == pc' = "batch" /\ cur' = None /\ d' = 0 /\ iter' = 0 /\ prog' = FALSE

\* conn_close
Dead(k) == [k EXCEPT !.st = "closed", !.dbuf = <<>>, !.pend = [e \in Ends |-> <<>>]]

\* Mutant of Want: room for what is pending is not waited for.
WantIn(k, i) == {x \in {"in"} : i \notin k.eof /\ k.pend[i] = <<>>}

\* conn_update: what to wait for on fd[i].
Want(k, i) == {x \in {"in"} : i \notin k.eof /\ k.pend[i] = <<>>}
                \cup {x \in {"out"} : k.pend[1 - i] # <<>>}

\* conn_update of c with its new fields k; when epoll_ctl fails the connection is closed.
Update(c, k) ==
  /\ LET want == [i \in Ends |-> Want(k, i)] IN
     \/ conn' = [conn EXCEPT ![c] = [k EXCEPT !.mask = want]]
     \/ want # k.mask /\ conn' = [conn EXCEPT ![c] = Dead(k)]
  /\ Served

\* Mutant of Leftover: only the pending buffer is looked at.
LeftoverPending(c) == conn[c].pend[1] # <<>>

\* The upstream's first bytes came with the handshake.
Leftover(c) == conn[c].pend[1] # <<>> \/ conn[c].dbuf # <<>>

Adopt(c) ==
  /\ pc = "batch" /\ <<c, 2>> \in evs
  /\ evs' = evs \ {<<c, 2>>}
  /\ LET k == [conn[c] EXCEPT !.st = "open"] IN
     IF Leftover(c)
     THEN /\ conn' = [conn EXCEPT ![c] = k]
          /\ pc' = "pump" /\ cur' = c /\ d' = 0 /\ iter' = 0 /\ prog' = FALSE
     ELSE Update(c, k)
  /\ UNCHANGED <<endVars, netVars, observed, pipe, nosplice>>

\* The sweep: nothing moved for the idle time.
IdleClose(c) ==
  /\ pc = "batch" /\ evs = {} /\ conn[c].st = "open"
  /\ conn' = [conn EXCEPT ![c] = Dead(@)]
  /\ UNCHANGED <<endVars, netVars, observed, pipe, nosplice, thread>>

-----------------------------------------------------------------------------
(* conn_pump                                                               *)

\* A result other than 0 closes the connection (conn_service).
Fatal == conn' = [conn EXCEPT ![cur] = Dead(@)] /\ Served /\ UNCHANGED evs

\* Mutant of Shuts: the end of the stream is passed on before what is pending.
ShutsEarly(k) == d \in k.eof /\ d \notin k.shut

\* A stream that has ended and is all sent is ended at the other socket too.
Shuts(k) == d \in k.eof /\ k.pend[d] = <<>> /\ d \notin k.shut

Shut(k) == IF Shuts(k) THEN [k EXCEPT !.shut = @ \cup {d}] ELSE k

\* The end of a direction's turn with the connection's new fields k, p telling whether it
\* made progress; after both, another turn, or conn_service goes on to conn_update.
Turned(k, p) ==
  LET moved == prog \/ p \/ Shuts(k) IN
  /\ evs' = evs
  /\ \/ /\ d = 0
        /\ conn' = [conn EXCEPT ![cur] = Shut(k)]
        /\ d' = 1 /\ prog' = moved /\ pc' = "pump" /\ UNCHANGED <<cur, iter>>
     \/ /\ d = 1 /\ Shut(k).shut = Ends
        /\ conn' = [conn EXCEPT ![cur] = Dead(Shut(k))]
        /\ Served
     \/ /\ d = 1 /\ Shut(k).shut # Ends /\ moved /\ iter + 1 < MaxIter
        /\ conn' = [conn EXCEPT ![cur] = Shut(k)]
        /\ d' = 0 /\ prog' = FALSE /\ pc' = "pump" /\ iter' = iter + 1 /\ cur' = cur
     \/ /\ d = 1 /\ Shut(k).shut # Ends /\ ~(moved /\ iter + 1 < MaxIter)
        /\ Update(cur, Shut(k))

k0 == conn[cur]

TapsUp    == k0.dns /\ d = 1 /\ k0.pend[1] = <<>> /\ (1 \notin k0.eof \/ k0.dbuf # <<>>)
Receives  == ~TapsUp /\ k0.pend[d] = <<>> /\ d \notin k0.eof
Spliced   == ~nosplice /\ ~k0.dns
Available == IF Unread(cur, d) < Chunk THEN Unread(cur, d) ELSE Chunk

\* What send() takes of the units us.
Taken(us) == IF Len(us) < room[cur][1 - d] THEN Len(us) ELSE room[cur][1 - d]
Rest(us)  == SubSeq(us, Taken(us) + 1, Len(us))
Push(us)  == /\ arrived' = [arrived EXCEPT ![cur][1 - d] = @ \o SubSeq(us, 1, Taken(us))]
             /\ room' = [room EXCEPT ![cur][1 - d] = @ - Taken(us)]

\* recv() or splice() of n units.
Pulled(n) == Stream(cur, d, read[cur][d], read[cur][d] + n)
Pull(n)   == read' = [read EXCEPT ![cur][d] = @ + n]

\* A reset end fails the recv, splice or send on its socket.
Broken ==
  /\ pc = "pump"
  /\ \/ (TapsUp \/ Receives) /\ d \in reset[cur]
     \/ ~TapsUp /\ k0.pend[d] # <<>> /\ 1 - d \in reset[cur]
  /\ Fatal
  /\ UNCHANGED <<endVars, netVars, observed, pipe, nosplice>>

\* Nothing to read, perhaps because the stream has ended.
Nothing ==
  /\ pc = "pump" /\ ~TapsUp /\ k0.pend[d] = <<>>
  /\ d \in k0.eof \/ (d \notin reset[cur] /\ Unread(cur, d) = 0)
  /\ Turned([k0 EXCEPT !.eof = @ \cup (fin[cur] \cap {d})], d \in fin[cur] \ k0.eof)
  /\ UNCHANGED <<endVars, netVars, observed, pipe, nosplice>>

\* The socket cannot be spliced: this thread copies from now on, this chunk included.
SpliceUnsupported ==
  /\ pc = "pump" /\ Receives /\ Spliced
  /\ nosplice' = TRUE
  /\ UNCHANGED <<endVars, netVars, conn, observed, pipe, thread>>

SpliceIn ==
  /\ pc = "pump" /\ Receives /\ Spliced /\ d \notin reset[cur] /\ Unread(cur, d) > 0
  /\ pipe' = pipe \o Pulled(Available) /\ Pull(Available)
  /\ pc' = "splice"
  /\ UNCHANGED <<endVars, room, arrived, conn, observed, nosplice, cur, d, iter, prog, evs>>

\* What the socket does not take is spilled: the pipe serves the next connection too.
SpliceOut ==
  /\ pc = "splice" /\ 1 - d \notin reset[cur]
  /\ Push(pipe)
  /\ pipe' = <<>>
  /\ Turned([k0 EXCEPT !.pend[d] = Rest(pipe)], TRUE)
  /\ UNCHANGED <<endVars, read, observed, nosplice>>

\* Mutant of Discard: what is left in the pipe stays there.
DiscardKeeps == pipe' = pipe

Discard == pipe' = <<>>       \* pipe_discard

\* The socket is broken, or there is no memory for what it did not take.
SpliceOutFails ==
  /\ pc = "splice"
  /\ \/ 1 - d \in reset[cur] /\ UNCHANGED <<room, arrived>>
     \/ 1 - d \notin reset[cur] /\ Rest(pipe) # <<>> /\ Push(pipe)
  /\ Discard
  /\ Fatal
  /\ UNCHANGED <<endVars, read, observed, nosplice>>

\* The tail that was not sent waits in the pending buffer; nothing is read meanwhile.
Spill(k, us) == [k EXCEPT !.pend[d] = Rest(us)]

Copy ==
  /\ pc = "pump" /\ Receives /\ ~Spliced /\ Ends \cap reset[cur] = {} /\ Unread(cur, d) > 0
  /\ Pull(Available) /\ Push(Pulled(Available))
  /\ Turned(Spill(k0, Pulled(Available)), TRUE)
  /\ UNCHANGED <<endVars, observed, pipe, nosplice>>

\* send() fails for good, or there is no memory for the tail.
CopyFails ==
  /\ pc = "pump" /\ Receives /\ ~Spliced /\ d \notin reset[cur] /\ Unread(cur, d) > 0
  /\ Pull(Available)
  /\ \/ 1 - d \in reset[cur] /\ UNCHANGED <<room, arrived>>
     \/ 1 - d \notin reset[cur] /\ Rest(Pulled(Available)) # <<>> /\ Push(Pulled(Available))
  /\ Fatal
  /\ UNCHANGED <<endVars, observed, pipe, nosplice>>

\* Send what is pending in this direction.
Flush ==
  /\ pc = "pump" /\ ~TapsUp /\ k0.pend[d] # <<>> /\ 1 - d \notin reset[cur]
  /\ Push(k0.pend[d])
  /\ Turned([k0 EXCEPT !.pend[d] = Rest(@)], Taken(k0.pend[d]) > 0)
  /\ UNCHANGED <<endVars, read, observed, pipe, nosplice>>

-----------------------------------------------------------------------------
(* dns_pump_up: whole messages only, after they were observed.             *)

KindOf(u) == sent[u[1]][u[2]][u[3]]
Lasts(us) == {i \in DOMAIN us : KindOf(us[i]) = "last"}
Zeros(us) == {i \in DOMAIN us : KindOf(us[i]) = "zero" /\ (i = 1 \/ i - 1 \in Lasts(us))}

\* Mutant of Whole: a buffered message is not held back.
WholeAll(us, off, end) == Len(us)

\* How much of the buffer us may go: all of it once the framing is lost or the stream
\* has ended, else up to the end of the last whole message.
Whole(us, off, end) ==
  IF off \/ end \/ Zeros(us) # {} THEN Len(us)
  ELSE IF Lasts(us) = {} THEN 0 ELSE Max(Lasts(us))

\* The messages observed: those before a zero length, none once the framing is lost.
Observes(us, off) ==
  IF off THEN {}
  ELSE {us[i][3] : i \in {j \in Lasts(us) : \A z \in Zeros(us) : j < z}}

Fits(buf) == Len(buf) <= DbufMax

\* n more units, perhaps the end of the stream.
DnsUp ==
  LET n   == Available
      buf == k0.dbuf \o Pulled(n)
      end == 1 \in k0.eof \/ (Unread(cur, 1) = 0 /\ 1 \in fin[cur])
      w   == Whole(buf, k0.doff, end)
      us  == SubSeq(buf, 1, w)
  IN
  /\ pc = "pump" /\ TapsUp /\ 1 \notin reset[cur]
  /\ Pull(n)
  /\ \/ /\ n > 0                    \* beyond the limit, or no memory
        /\ Fatal
        /\ UNCHANGED <<room, arrived, observed>>
     \/ /\ Fits(buf)
        /\ observed' = [observed EXCEPT ![cur] = @ \cup Observes(buf, k0.doff)]
        /\ \/ w > 0 /\ 0 \in reset[cur] /\ Fatal /\ UNCHANGED <<room, arrived>>
           \/ ~(w > 0 /\ 0 \in reset[cur]) /\ Push(us) /\ Rest(us) # <<>> /\ Fatal
           \/ /\ ~(w > 0 /\ 0 \in reset[cur])
              /\ Push(us)
              /\ Turned([k0 EXCEPT !.pend[1] = Rest(us),
                                   !.dbuf = SubSeq(buf, w + 1, Len(buf)),
                                   !.doff = @ \/ Zeros(buf) # {},
                                   !.eof = IF end THEN @ \cup {1} ELSE @],
                        n > 0 \/ end \/ w > 0)
  /\ UNCHANGED <<endVars, pipe, nosplice>>

-----------------------------------------------------------------------------
Pump == \/ Broken \/ Nothing \/ SpliceUnsupported \/ SpliceIn \/ SpliceOut \/ SpliceOutFails
        \/ Copy \/ CopyFails \/ Flush \/ DnsUp

Thread == \/ Poll \/ Pump
          \/ \E c \in Conns : Adopt(c) \/ \E i \in Ends : Serve(c, i)

Next == \/ Thread
        \/ \E c \in Conns : IdleClose(c)
        \/ \E c \in Conns, e \in Ends : Write(c, e) \/ Finish(c, e) \/ Reset(c, e) \/ Drain(c, e)

Spec == Init /\ [][Next]_vars

\* The thread runs, and so do the ends that have something to take.
FairSpec == Spec /\ WF_vars(Thread) /\ WF_vars(\E c \in Conns, e \in Ends : Drain(c, e))

-----------------------------------------------------------------------------
(* Properties                                                              *)

\* Units of direction e the thread has read and not yet passed on, oldest first.
InHand(c, e) == (IF pc = "splice" /\ cur = c /\ d = e THEN pipe ELSE <<>>)
                  \o conn[c].pend[e] \o (IF e = 1 THEN conn[c].dbuf ELSE <<>>)

\* Nothing is lost, repeated, reordered or handed to another connection: what has
\* arrived, then the shared pipe, the pending buffer and dbuf, is what was read
\* (pump_splice, spill_from_pipe, conn_pump, dns_pump_up).  Of a closed connection only
\* the beginning of the stream has arrived.
Intact ==
  /\ TypeOK
  /\ \A c \in Conns, e \in Ends :
       IF conn[c].st = "closed"
       THEN IsPrefix(arrived[c][1 - e], Stream(c, e, 0, read[c][e]))
       ELSE arrived[c][1 - e] \o InHand(c, e) = Stream(c, e, 0, read[c][e])

\* No part of a tapped message reaches the client before pb_core_dns_observe has
\* returned for the message, as long as the framing holds (dns_pump_up): the client's
\* next connection finds the address already armed.  Only what the end of the stream
\* cut off passes unobserved.
ObservedFirst ==
  \A c \in Conns : \A i \in DOMAIN arrived[c][0] :
    LET s     == sent[c][1]
        after == {j \in i .. Len(s) : s[j] = "last"}
    IN conn[c].dns /\ (\A j \in 1 .. i : s[j] # "zero") =>
         IF after = {} THEN 1 \in fin[c] ELSE Min(after) \in observed[c]

\* The thread implements the abstract pair of streams.
Streams == INSTANCE ByteStreams WITH
  written  <- [c \in Conns |-> [e \in Ends |-> Len(sent[c][e])]],
  finished <- fin,
  arrived  <- [c \in Conns |-> [e \in Ends |-> Len(arrived[c][e])]],
  told     <- [c \in Conns |-> {1 - e : e \in conn[c].shut}],
  cut      <- {c \in Conns : conn[c].st = "closed"}
ImplementsStreams == Streams!Spec

Closed(c) == conn[c].st = "closed"

\* A half-close crosses the relay: whatever has finished by then, there comes a moment
\* when each of the other ends has been told or its connection is closed (conn_pump's
\* shutdown after the last pending byte, the events conn_update waits for).
HalfCloseCrosses ==
  []<>(\A c \in Conns, e \in Ends : e \in fin[c] => e \in conn[c].shut \/ Closed(c))

\* No unit waits for ever: there is always a later moment when all that the ends of
\* untapped streams wrote, and every complete message of a tapped one, has arrived, save
\* on closed connections.
Delivered ==
  []<>(\A c \in Conns, e \in Ends : \A i \in DOMAIN sent[c][e] :
         sent[c][e][i] = "mid" \/ i <= Len(arrived[c][1 - e]) \/ Closed(c))
=============================================================================
