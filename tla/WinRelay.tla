------------------------------ MODULE WinRelay ------------------------------
(***************************************************************************)
(* The relay pool of the Windows engine (pb_relay.c, "IOCP relay pool")    *)
(* with the handler threads that hand connections to it and the stop that  *)
(* ends both (ProxyBridge_Stop).                                           *)
(*                                                                         *)
(* A relay is two directions.  A direction is always in one place: an      *)
(* operation outstanding at the system, a completion queued at the port,   *)
(* or the hands of one thread.  The system, external, completes what it    *)
(* can; shutdown makes later operations on the sockets fail at once, and   *)
(* only CancelIoEx is counted on to complete those outstanding before it.  *)
(***************************************************************************)
EXTENDS Integers, FiniteSets

CONSTANTS
  Conns,      \* connections; each names the handler thread that brings it
  Workers,    \* worker threads of the pool
  Stopper,    \* the thread inside ProxyBridge_Stop
  Units,      \* bounds on the units of data the two ends send
  BufSize,    \* RELAY_BUF_SIZE in units
  Keep,       \* RELAY_POOL_KEEP
  PoolStarts, \* whether the pool's port and threads can be created
  NoConn

Dirs == {1, 2}          \* 1: client to proxy, 2: proxy to client

ASSUME RelayAssumption ==
  /\ Units \in [Dirs -> Nat] /\ PoolStarts \subseteq BOOLEAN /\ BufSize \in Nat \ {0} /\ Keep \in Nat
  /\ Stopper \notin Workers \cup Conns /\ Workers \cap Conns = {}
  /\ IsFiniteSet(Conns) /\ IsFiniteSet(Workers)

Threads == Conns \cup Workers \cup {Stopper}

VARIABLES
  running,  \* the engine runs
  iocp,     \* the completion port exists
  relay,    \* connection -> its RELAY_CONN
  dir,      \* connection, direction -> its RELAY_DIR
  thr,      \* thread -> where it is, and with which direction
  exits,    \* exit packets queued at the port
  pool,     \* free buffers kept
  mem,      \* buffers allocated
  active,   \* g_active_relays
  lock,     \* the stop holds g_relay_lock while it walks the list
  todo,     \* relays the walk has still to abort
  supply,   \* connection, direction -> units its source will send
  avail,    \* connection, direction -> units ready to be read
  out,      \* connection, direction -> units accepted by its destination
  eof,      \* <<connection, direction>> whose source has finished
  broken    \* connections one end of which was reset

endVars == <<supply, avail, out, eof, broken>>
poolVars == <<pool, mem>>
stopVars == <<running, iocp, exits, lock, todo>>
vars == <<running, iocp, relay, dir, thr, exits, pool, mem, active, lock, todo,
          supply, avail, out, eof, broken>>

Relays == [phase : {"none", "live", "freed"}, refs : 0..2,
           closing : BOOLEAN, listed : BOOLEAN, shut : BOOLEAN]
DirStates == [at : {"new", "pending", "done", "held", "ended"},
              state : {"wait", "read", "send"}, ok : BOOLEAN, n : 0..BufSize,
              buf : BOOLEAN, len : 0..BufSize, off : 0..BufSize]
ThreadStates ==
  [pc : {"idle", "handshake", "insert", "post", "serve", "abort", "shut", "cancel",
         "release", "unlink", "free", "blocking", "gone",
         "flagged", "joined", "walk", "drain", "join"},
   c : Conns \cup {NoConn}, d : Dirs]

NewRelay == [phase |-> "none", refs |-> 0, closing |-> FALSE, listed |-> FALSE, shut |-> FALSE]
NewDir == [at |-> "new", state |-> "wait", ok |-> TRUE, n |-> 0,
           buf |-> FALSE, len |-> 0, off |-> 0]
At(pc, c, d) == [pc |-> pc, c |-> c, d |-> d]
Idle == At("idle", NoConn, 1)

Init ==
  /\ running = TRUE /\ iocp \in PoolStarts
  /\ relay = [c \in Conns |-> NewRelay]
  /\ dir = [c \in Conns |-> [d \in Dirs |-> NewDir]]
  /\ thr = [t \in Threads |-> Idle]
  /\ exits = 0 /\ pool = 0 /\ mem = 0 /\ active = 0
  /\ lock = FALSE /\ todo = {}
  /\ supply = [c \in Conns |-> Units]
  /\ avail = [c \in Conns |-> [d \in Dirs |-> 0]]
  /\ out = [c \in Conns |-> [d \in Dirs |-> 0]]
  /\ eof = {} /\ broken = {}

-----------------------------------------------------------------------------
(* The ends of a connection and the system (external).  What an end does   *)
(* once the sockets are shut down is of no account.                        *)
Carries(c) == relay[c].phase = "live" /\ ~relay[c].shut

Sends(c, d) ==
  /\ supply[c][d] > 0 /\ <<c, d>> \notin eof /\ Carries(c)
  /\ supply' = [supply EXCEPT ![c][d] = @ - 1]
  /\ avail' = [avail EXCEPT ![c][d] = @ + 1]
  /\ UNCHANGED <<out, eof, broken, stopVars, relay, dir, thr, poolVars, active>>

Finishes(c, d) ==
  /\ <<c, d>> \notin eof /\ Carries(c)
  /\ eof' = eof \cup {<<c, d>>}
  /\ UNCHANGED <<supply, avail, out, broken, stopVars, relay, dir, thr, poolVars, active>>

Breaks(c) ==
  /\ c \notin broken /\ Carries(c)
  /\ broken' = broken \cup {c}
  /\ UNCHANGED <<supply, avail, out, eof, stopVars, relay, dir, thr, poolVars, active>>

(* An outstanding operation completes: a wait when there is something to   *)
(* read, a read with what there is, a send with what fits.                 *)
Done(c, d, ok, n) == [dir EXCEPT ![c][d].at = "done", ![c][d].ok = ok, ![c][d].n = n]

Least(a, b) == IF a < b THEN a ELSE b

CompletesRead(c, d) ==
  LET s == dir[c][d] IN
  /\ s.at = "pending" /\ s.state # "send" /\ c \notin broken
  /\ avail[c][d] > 0 \/ <<c, d>> \in eof
  /\ LET n == IF s.state = "wait" THEN 0 ELSE Least(avail[c][d], BufSize)
     IN /\ dir' = Done(c, d, TRUE, n)
        /\ avail' = [avail EXCEPT ![c][d] = @ - n]
  /\ UNCHANGED <<supply, out, eof, broken, stopVars, relay, thr, poolVars, active>>

CompletesSend(c, d) ==
  LET s == dir[c][d] IN
  /\ s.at = "pending" /\ s.state = "send" /\ c \notin broken
  /\ \E n \in 1..(s.len - s.off) :
       dir' = Done(c, d, TRUE, n) /\ out' = [out EXCEPT ![c][d] = IF Carries(c) THEN @ + n ELSE @]
  /\ UNCHANGED <<supply, avail, eof, broken, stopVars, relay, thr, poolVars, active>>

CompletesFailed(c, d) ==
  /\ dir[c][d].at = "pending" /\ c \in broken
  /\ dir' = Done(c, d, FALSE, 0)
  /\ UNCHANGED <<endVars, stopVars, relay, thr, poolVars, active>>

-----------------------------------------------------------------------------
(* The buffers: relay_buf_get, relay_buf_put.  Both take g_relay_lock.     *)
GetBuffer == /\ ~lock
             /\ pool' = IF pool > 0 THEN pool - 1 ELSE 0
             /\ mem' = IF pool > 0 THEN mem ELSE mem + 1

Kept(n) == Least(pool + n, Keep)

PutBuffers(n) ==
  /\ pool' = Kept(n)
  /\ mem' = mem - (pool + n - pool')

(* relay_post_wait, relay_post_read, relay_post_send: the buffer is given  *)
(* back or obtained, then the operation is started, which fails once the   *)
(* sockets are shut down and may fail once an end was reset.  The thread   *)
(* goes to `next', or ends the direction.                                  *)
Buffer(kind) == kind # "wait"

Post(t, c, d, kind, len, off, next) ==
  LET has == dir[c][d].buf IN
  /\ IF has = Buffer(kind) THEN UNCHANGED poolVars
     ELSE IF has THEN ~lock /\ PutBuffers(1) ELSE GetBuffer
  /\ \E ok \in BOOLEAN :
       /\ relay[c].shut => ~ok
       /\ ~ok => relay[c].shut \/ c \in broken
       /\ dir' = [dir EXCEPT ![c][d] =
            [at |-> IF ok THEN "pending" ELSE "held", state |-> kind, ok |-> TRUE, n |-> 0,
             buf |-> Buffer(kind), len |-> len, off |-> off]]
       /\ thr' = [thr EXCEPT ![t] = IF ok THEN next ELSE At("abort", c, d)]
  /\ UNCHANGED <<endVars, stopVars, relay, active>>

(* Where a thread goes when a direction it ended is released. *)
AfterOne(t, c, d) == IF t \in Workers THEN Idle ELSE At("gone", c, d)
After(t, c, d) ==
  IF t \in Workers THEN Idle
  ELSE IF d = 1 THEN At("post", c, 2) ELSE At("gone", c, d)

-----------------------------------------------------------------------------
(* A handler thread: the handshake with the proxy, then relay_start. *)
Spawn(c) ==
  /\ thr[c] = Idle /\ thr[Stopper].pc \in {"idle", "flagged"}
  /\ thr' = [thr EXCEPT ![c] = At("handshake", c, 1)]
  /\ UNCHANGED <<endVars, stopVars, relay, dir, poolVars, active>>

HandshakeFails(c) ==
  /\ thr[c].pc = "handshake"
  /\ thr' = [thr EXCEPT ![c] = At("gone", c, 1)]
  /\ UNCHANGED <<endVars, stopVars, relay, dir, poolVars, active>>

(* The pool takes the connection only while it runs; the blocking relay of *)
(* the handler thread itself is the way out (transfer_handler), also when  *)
(* there is no memory for the relay or its sockets do not join the port.   *)
PoolTakes == iocp /\ running

HandshakeDone(c) ==
  /\ thr[c].pc = "handshake"
  /\ \E pc \in {"insert", "blocking"} :
       /\ pc = "insert" => PoolTakes
       /\ thr' = [thr EXCEPT ![c] = At(pc, c, 1)]
  /\ UNCHANGED <<endVars, stopVars, relay, dir, poolVars, active>>

BlockingEnds(c) ==
  /\ thr[c].pc = "blocking"
  /\ thr' = [thr EXCEPT ![c] = At("gone", c, 1)]
  /\ UNCHANGED <<endVars, stopVars, relay, dir, poolVars, active>>

Insert(c) ==
  /\ thr[c].pc = "insert" /\ ~lock
  /\ relay' = [relay EXCEPT ![c] = [NewRelay EXCEPT !.phase = "live", !.refs = 2, !.listed = TRUE]]
  /\ active' = active + 1
  /\ dir' = [dir EXCEPT ![c] = [d \in Dirs |-> [NewDir EXCEPT !.at = "held"]]]
  /\ thr' = [thr EXCEPT ![c] = At("post", c, 1)]
  /\ UNCHANGED <<endVars, stopVars, poolVars>>

StartPosts(c) ==
  /\ thr[c].pc = "post"
  /\ Post(c, c, thr[c].d, "wait", 0, 0, After(c, c, thr[c].d))

-----------------------------------------------------------------------------
(* relay_worker: a completion is taken from the port and served. *)
Get(w) ==
  /\ thr[w] = Idle /\ iocp
  /\ \E c \in Conns, d \in Dirs :
       /\ dir[c][d].at = "done"
       /\ dir' = [dir EXCEPT ![c][d].at = "held"]
       /\ thr' = [thr EXCEPT ![w] = At(IF dir[c][d].ok THEN "serve" ELSE "abort", c, d)]
  /\ UNCHANGED <<endVars, stopVars, relay, poolVars, active>>

Exit(w) ==
  /\ thr[w] = Idle /\ exits > 0
  /\ exits' = exits - 1
  /\ thr' = [thr EXCEPT ![w].pc = "gone"]
  /\ UNCHANGED <<endVars, running, iocp, lock, todo, relay, dir, poolVars, active>>

(* What follows a successful completion: read what was waited for, send    *)
(* what was read, send the rest, and then wait again if the buffer was     *)
(* lightly used, or read on.                                               *)
RestSentAtOnce(s) == s.len
RestSent(s) == s.off + s.n
Busy(s) == 4 * s.len >= BufSize

Ended(s) == s.state # "wait" /\ s.n = 0

(* relay_buf_get may find no memory when no free buffer is kept. *)
Starves(s) == s.state = "wait" /\ ~lock /\ pool = 0

ServeEnd(w) ==
  LET c == thr[w].c  d == thr[w].d IN
  /\ thr[w].pc = "serve" /\ (Ended(dir[c][d]) \/ Starves(dir[c][d]))
  /\ thr' = [thr EXCEPT ![w] = At("abort", c, d)]
  /\ UNCHANGED <<endVars, stopVars, relay, dir, poolVars, active>>

Serve(w) ==
  LET c == thr[w].c  d == thr[w].d  s == dir[c][d] IN
  /\ thr[w].pc = "serve" /\ ~Ended(s)
  /\ \/ s.state = "wait" /\ Post(w, c, d, "read", 0, 0, Idle)
     \/ s.state = "read" /\ Post(w, c, d, "send", s.n, 0, Idle)
     \/ /\ s.state = "send"
        /\ IF RestSent(s) < s.len THEN Post(w, c, d, "send", s.len, RestSent(s), Idle)
           ELSE Post(w, c, d, IF Busy(s) THEN "read" ELSE "wait", 0, 0, Idle)

-----------------------------------------------------------------------------
(* relay_dir_end: relay_abort, whose body the first caller alone runs,     *)
(* then relay_release.  The stop runs relay_abort under the lock.          *)
Leave(t) == IF t = Stopper THEN At("walk", NoConn, 1) ELSE At("release", thr[t].c, thr[t].d)

Abort(t) ==
  /\ thr[t].pc = "abort"
  /\ relay' = [relay EXCEPT ![thr[t].c].closing = TRUE]
  /\ thr' = [thr EXCEPT ![t] = IF relay[thr[t].c].closing THEN Leave(t) ELSE [@ EXCEPT !.pc = "shut"]]
  /\ UNCHANGED <<endVars, stopVars, dir, poolVars, active>>

(* shutdown, both ways: what the two streams still hold is gone. *)
ForgetEnds(c) ==
  /\ supply' = [supply EXCEPT ![c] = [d \in Dirs |-> 0]]
  /\ avail' = [avail EXCEPT ![c] = [d \in Dirs |-> 0]]
  /\ out' = [out EXCEPT ![c] = [d \in Dirs |-> 0]]
  /\ eof' = eof \ ({c} \X Dirs) /\ broken' = broken \ {c}

ShutNone(c) == relay
Shut(c) == [relay EXCEPT ![c].shut = TRUE]

Shutdown(t) ==
  /\ thr[t].pc = "shut"
  /\ relay' = Shut(thr[t].c) /\ ForgetEnds(thr[t].c)
  /\ thr' = [thr EXCEPT ![t].pc = "cancel"]
  /\ UNCHANGED <<stopVars, dir, poolVars, active>>

Cancel(t) ==
  /\ thr[t].pc = "cancel"
  /\ dir' = [dir EXCEPT ![thr[t].c] = [d \in Dirs |->
       IF @[d].at = "pending" THEN [@[d] EXCEPT !.at = "done", !.ok = FALSE, !.n = 0] ELSE @[d]]]
  /\ thr' = [thr EXCEPT ![t] = Leave(t)]
  /\ UNCHANGED <<endVars, stopVars, relay, poolVars, active>>

LastOut(c) == relay[c].refs = 1

Release(t) ==
  LET c == thr[t].c  d == thr[t].d IN
  /\ thr[t].pc = "release"
  /\ relay' = [relay EXCEPT ![c].refs = @ - 1]
  /\ dir' = [dir EXCEPT ![c][d] = [NewDir EXCEPT !.at = "ended", !.buf = dir[c][d].buf]]
  /\ thr' = [thr EXCEPT ![t] = IF LastOut(c) THEN At("unlink", c, d) ELSE After(t, c, d)]
  /\ UNCHANGED <<endVars, stopVars, poolVars, active>>

LockIgnored == TRUE
LockFree == ~lock

Unlink(t) ==
  /\ thr[t].pc = "unlink" /\ LockFree
  /\ relay' = [relay EXCEPT ![thr[t].c].listed = FALSE]
  /\ thr' = [thr EXCEPT ![t].pc = "free"]
  /\ UNCHANGED <<endVars, stopVars, dir, poolVars, active>>

HeldFirst(c) == {d \in {1} : dir[c][d].buf}
Held(c) == {d \in Dirs : dir[c][d].buf}

Free(t) ==
  LET c == thr[t].c IN
  /\ thr[t].pc = "free" /\ (Held(c) = {} \/ LockFree)
  /\ PutBuffers(Cardinality(Held(c)))
  /\ dir' = [dir EXCEPT ![c] = [d \in Dirs |-> [@[d] EXCEPT !.buf = FALSE]]]
  /\ relay' = [relay EXCEPT ![c].phase = "freed"]
  /\ active' = active - 1
  /\ thr' = [thr EXCEPT ![t] = After(t, c, thr[t].d)]
  /\ UNCHANGED <<endVars, stopVars>>

-----------------------------------------------------------------------------
(* ProxyBridge_Stop: the flag, the accept loop's end, the handlers, then   *)
(* relay_pool_stop: abort every listed relay, wait until they are gone,    *)
(* and send the workers home.                                              *)
Moved(pc) == thr' = [thr EXCEPT ![Stopper] = At(pc, NoConn, 1)]

Stop ==
  /\ thr[Stopper] = Idle /\ running
  /\ running' = FALSE /\ Moved("flagged")
  /\ UNCHANGED <<endVars, iocp, exits, lock, todo, relay, dir, poolVars, active>>

JoinAcceptor ==
  /\ thr[Stopper].pc = "flagged" /\ Moved("joined")
  /\ UNCHANGED <<endVars, stopVars, relay, dir, poolVars, active>>

(* g_handler_threads: the wait ends at zero or after 35 s, which is long   *)
(* enough for handshakes but not for a relay a handler runs itself.        *)
Handlers == {c \in Conns : thr[c].pc \notin {"idle", "gone"}}
WaitedFor == Handlers = {} \/ \A c \in Handlers : thr[c].pc = "blocking"

WaitHandlers ==
  /\ thr[Stopper].pc = "joined" /\ WaitedFor
  /\ Moved(IF iocp THEN "walk" ELSE "gone")
  /\ lock' = iocp
  /\ todo' = {c \in Conns : iocp /\ relay[c].listed}
  /\ UNCHANGED <<endVars, running, iocp, exits, relay, dir, poolVars, active>>

Walk ==
  /\ thr[Stopper].pc = "walk"
  /\ IF todo = {} THEN Moved("drain") /\ lock' = FALSE /\ UNCHANGED todo
     ELSE \E c \in todo : /\ todo' = todo \ {c}
                          /\ thr' = [thr EXCEPT ![Stopper] = At("abort", c, 1)]
                          /\ UNCHANGED lock
  /\ UNCHANGED <<endVars, running, iocp, exits, relay, dir, poolVars, active>>

DrainedAtOnce == TRUE
Drained == active = 0

Drain ==
  /\ thr[Stopper].pc = "drain" /\ Drained
  /\ exits' = Cardinality(Workers) /\ Moved("join")
  /\ UNCHANGED <<endVars, running, iocp, lock, todo, relay, dir, poolVars, active>>

Join ==
  /\ thr[Stopper].pc = "join" /\ \A w \in Workers : thr[w].pc = "gone"
  /\ iocp' = FALSE /\ Moved("gone")
  /\ mem' = mem - pool /\ pool' = 0
  /\ UNCHANGED <<endVars, running, exits, lock, todo, relay, dir, active>>

-----------------------------------------------------------------------------
Ends == \E c \in Conns :
  \/ Breaks(c)
  \/ \E d \in Dirs : Sends(c, d) \/ Finishes(c, d)

System(c, d) == CompletesRead(c, d) \/ CompletesSend(c, d) \/ CompletesFailed(c, d)

DirEnd(t) == Abort(t) \/ Shutdown(t) \/ Cancel(t) \/ Release(t) \/ Unlink(t) \/ Free(t)

Worker(w) == Get(w) \/ Exit(w) \/ ServeEnd(w) \/ Serve(w) \/ DirEnd(w)
Handler(c) == HandshakeFails(c) \/ HandshakeDone(c) \/ Insert(c) \/ StartPosts(c) \/ DirEnd(c)
Stopping == JoinAcceptor \/ WaitHandlers \/ Walk \/ Abort(Stopper) \/ Shutdown(Stopper)
            \/ Cancel(Stopper) \/ Drain \/ Join

Next ==
  \/ Ends \/ \E c \in Conns, d \in Dirs : System(c, d)
  \/ \E c \in Conns : Spawn(c) \/ BlockingEnds(c) \/ Handler(c)
  \/ \E w \in Workers : Worker(w)
  \/ Stop \/ Stopping

Spec == Init /\ [][Next]_vars

(* Threads run, the system completes what it can, an end takes what it is  *)
(* sent, and a handshake ends by its timeouts; no end need ever send or    *)
(* close, a relay run by a handler itself need not end, no stop need come. *)
FairSpec ==
  /\ Spec
  /\ \A w \in Workers : WF_vars(Worker(w))
  /\ \A c \in Conns : WF_vars(Handler(c))
  /\ \A c \in Conns, d \in Dirs : WF_vars(System(c, d))
  /\ WF_vars(Stopping)

-----------------------------------------------------------------------------
(* Shapes and bounds; at most two buffers per relay are ever out.          *)
TypeOK ==
  /\ running \in BOOLEAN /\ iocp \in BOOLEAN /\ lock \in BOOLEAN
  /\ relay \in [Conns -> Relays] /\ dir \in [Conns -> [Dirs -> DirStates]]
  /\ thr \in [Threads -> ThreadStates]
  /\ exits \in 0..Cardinality(Workers) /\ pool \in 0..Keep
  /\ mem \in 0..(Keep + 2 * Cardinality(Conns)) /\ active \in 0..Cardinality(Conns)
  /\ todo \subseteq Conns /\ eof \subseteq Conns \X Dirs /\ broken \subseteq Conns
  /\ \A c \in Conns, d \in Dirs : {supply[c][d], avail[c][d], out[c][d]} \subseteq 0..Units[d]

Live(c) == relay[c].phase = "live"

(* The threads that hold a direction.  A handler that starts the first     *)
(* direction holds the second one too.                                     *)
Holders(c, d) ==
  {t \in Conns \cup Workers :
     /\ thr[t].c = c
     /\ thr[t].pc \in {"post", "serve", "abort", "shut", "cancel", "release"}
     /\ thr[t].d = d \/ (t = c /\ thr[t].d < d)}

(* A direction of a live relay is in one place, and no thread serves or    *)
(* ends a direction that is in another's hands, outstanding, queued or     *)
(* ended already (relay_worker and relay_start against each other).        *)
OneHolder ==
  \A c \in Conns, d \in Dirs : Live(c) =>
    /\ dir[c][d].at # "new"
    /\ Cardinality(Holders(c, d)) = IF dir[c][d].at = "held" THEN 1 ELSE 0

(* Nobody works on, and nothing outstanding or queued belongs to, a relay  *)
(* that was freed: the counter of live directions and the lock under which *)
(* the stop walks the list keep it (relay_release, relay_pool_stop).       *)
NoUseAfterFree ==
  /\ \A t \in Threads :
       thr[t].pc \in {"post", "serve", "abort", "shut", "cancel", "release", "unlink", "free"}
         => Live(thr[t].c)
  /\ \A c \in todo : Live(c) /\ relay[c].listed
  /\ \A c \in Conns, d \in Dirs : dir[c][d].at \in {"pending", "done"} => Live(c)

(* Every allocated buffer is in the pool or with one direction, an         *)
(* operation that reads or sends has one, and none is left with a relay    *)
(* that was freed (relay_buf_get, relay_buf_put, relay_release).           *)
BuffersAccounted ==
  /\ TypeOK
  /\ mem = pool + Cardinality({x \in Conns \X Dirs : dir[x[1]][x[2]].buf})
  /\ \A c \in Conns, d \in Dirs :
       /\ dir[c][d].at = "pending" /\ dir[c][d].state # "wait" => dir[c][d].buf
       /\ dir[c][d].buf => Live(c)

(* The units of a direction that have been read and not been sent. *)
InHand(s) ==
  LET n == IF s.at # "pending" /\ s.ok THEN s.n ELSE 0
  IN IF s.state = "wait" THEN 0 ELSE IF s.state = "read" THEN n ELSE s.len - s.off - n

(* No unit is lost or sent twice between source and destination while a    *)
(* direction lives, however partially sends complete (relay_worker).       *)
Intact ==
  \A c \in Conns, d \in Dirs : Live(c) /\ ~relay[c].closing /\ dir[c][d].at \in {"pending", "done"} =>
    Units[d] - supply[c][d] - avail[c][d] = out[c][d] + InHand(dir[c][d])

(* When the stop has returned, no handler thread runs either               *)
(* (connection_handler: "so that ProxyBridge_Stop() can wait for all of    *)
(* them").                                                                 *)
StopWaitsForHandlers == thr[Stopper].pc = "gone" => Handlers = {}

(* When one source has finished, or the relay is being closed, it is       *)
(* released: the sibling's operation does not stay outstanding, also when  *)
(* it was started during the abort.                                        *)
EndedReleased ==
  \A c \in Conns : relay[c].closing \/ (\E d \in Dirs : <<c, d>> \in eof) ~> ~Live(c)

(* A stop returns, with every relay and every buffer gone for good.        *)
Quiet == thr[Stopper].pc = "gone" /\ ~iocp /\ mem = 0 /\ \A c \in Conns : ~Live(c)
StopEnds == ~running ~> []Quiet
=============================================================================
