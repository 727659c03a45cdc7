--------------------------- MODULE LinuxRelayTcp ---------------------------
(***************************************************************************)
(* The TCP half of the Linux transparent relay,                            *)
(* client/Linux/src/pb_relay.c: one acceptor thread, a pool of handshake   *)
(* workers fed by a bounded job queue, epoll data threads fed by per-      *)
(* thread hand-over queues, and the caller of pb_relay_stop, which tears   *)
(* all of them down.                                                       *)
(*                                                                         *)
(* Every action is one critical section or one run of thread-local code.   *)
(* What flows through a connection, the proxy dialogue and the verdict     *)
(* are abstracted: a handshake succeeds or fails, a served connection      *)
(* stays or is closed.                                                     *)
(***************************************************************************)
EXTENDS Naturals, Sequences, FiniteSets, Functions

CONSTANTS
  Conns,        \* client connections (a name is reused once its struct is freed)
  Workers,      \* handshake worker threads       (NWORKERS)
  DataThreads,  \* epoll data threads             (R.data[0..ndata-1])
  MaxConns,     \* R.cfg.max_tcp_conns
  JobMax,       \* JOBQ_MAX
  Burst,        \* accepts per poll wake-up       (256 in acceptor_main)
  None          \* no connection / no thread

ASSUME RelayAssumption ==
  /\ MaxConns \in Nat \ {0}
  /\ JobMax \in Nat \ {0}
  /\ Burst \in Nat \ {0}
  /\ IsFiniteSet(Conns) /\ IsFiniteSet(Workers)
  /\ None \notin Conns \cup DataThreads

VARIABLES
  life,     \* where start/stop stands, under R.life
  stopping, \* R.stopping, with R.stopfd written
  nconn,    \* R.nconn
  fd,       \* the client's socket: "none", "backlog" (not accepted) or "open"
  up,       \* connections whose upstream socket is open
  accpc, acc, burst,   \* acceptor: location, connection in hand, accepts done
  jq,                  \* R.jhead .. R.jtail
  wpc, wc, wt,         \* worker: location, connection in hand, chosen data thread
  inq, wake, load,     \* data thread, shared: inq_head.., eventfd, load counter
  dpc,                 \* data thread: location
  evStop, evWake, evConns, \* events of this epoll_wait: stopfd, wake, sockets
  adopting,            \* the hand-over list it has detached
  conns, grave         \* its live connections, and the closed ones not yet freed

accVars  == <<accpc, acc, burst>>
workVars == <<wpc, wc, wt>>
evVars   == <<evStop, evWake, evConns>>
dataVars == <<dpc, evVars, adopting, conns, grave>>
vars == <<life, stopping, nconn, fd, up, accVars, jq, workVars,
          inq, wake, load, dataVars>>

rest == <<life, stopping, accVars, jq, workVars>>   \* what a data thread never writes

Sides  == {0, 1}            \* c->fd[0] is the client's socket, c->fd[1] upstream's

TypeOK ==
  /\ life \in {"off", "running", "failing", "broadcast", "join_acceptor",
               "join_workers", "join_data", "drain"}
  /\ stopping \in BOOLEAN
  /\ nconn \in Int
  /\ fd \in [Conns -> {"none", "backlog", "open"}]
  /\ up \in SUBSET Conns
  /\ accpc \in {"none", "poll", "burst", "push", "exited"}
  /\ acc \in Conns \cup {None}
  /\ burst \in 0 .. Burst
  /\ jq \in Seq(Conns)
  /\ wpc \in [Workers -> {"none", "lock", "wait", "job", "push", "wake", "exited"}]
  /\ wc \in [Workers -> Conns \cup {None}]
  /\ wt \in [Workers -> DataThreads \cup {None}]
  /\ inq \in [DataThreads -> Seq(Conns)]
  /\ wake \in [DataThreads -> BOOLEAN]
  /\ load \in [DataThreads -> Int]
  /\ dpc \in [DataThreads -> {"none", "test", "poll", "batch", "woken", "sweep", "exited"}]
  /\ evStop \in [DataThreads -> BOOLEAN]
  /\ evWake \in [DataThreads -> BOOLEAN]
  /\ evConns \in [DataThreads -> SUBSET (Conns \X Sides)]
  /\ adopting \in [DataThreads -> Seq(Conns)]
  /\ conns \in [DataThreads -> SUBSET Conns]
  /\ grave \in [DataThreads -> SUBSET Conns]

Init ==
  /\ life = "off"
  /\ stopping = FALSE
  /\ nconn = 0
  /\ fd = [c \in Conns |-> "none"]
  /\ up = {}
  /\ accpc = "none" /\ acc = None /\ burst = 0
  /\ jq = <<>>
  /\ wpc = [w \in Workers |-> "none"]
  /\ wc = [w \in Workers |-> None]
  /\ wt = [w \in Workers |-> None]
  /\ inq = [t \in DataThreads |-> <<>>]
  /\ wake = [t \in DataThreads |-> FALSE]
  /\ load = [t \in DataThreads |-> 0]
  /\ dpc = [t \in DataThreads |-> "none"]
  /\ evStop = [t \in DataThreads |-> FALSE]
  /\ evWake = [t \in DataThreads |-> FALSE]
  /\ evConns = [t \in DataThreads |-> {}]
  /\ adopting = [t \in DataThreads |-> <<>>]
  /\ conns = [t \in DataThreads |-> {}]
  /\ grave = [t \in DataThreads |-> {}]

-----------------------------------------------------------------------------
(* Where a connection can be.                                              *)

\* A client socket the relay counts in nconn is in exactly one of these.
InWorkers   == {wc[w] : w \in Workers} \ {None}
InThread(t) == Range(inq[t]) \cup Range(adopting[t]) \cup conns[t]
InThreads   == UNION {InThread(t) : t \in DataThreads}
Held        == ({acc} \ {None}) \cup Range(jq) \cup InWorkers \cup InThreads

Open == {c \in Conns : fd[c] = "open"}

\* Mutant of CloseBoth: only the client's socket is closed.
CloseBothLeaksUpstream(c) ==
  /\ fd' = [fd EXCEPT ![c] = "none"]
  /\ up' = up

\* close() of both ends; the name is free again once nothing refers to the struct.
CloseBoth(c) ==
  /\ fd' = [fd EXCEPT ![c] = "none"]
  /\ up' = up \ {c}

-----------------------------------------------------------------------------
(* The environment: a redirected client connects to the listening socket.  *)

Connect(c) ==
  /\ life # "off"                             \* R.lfd is listening
  /\ fd[c] = "none"
  /\ \A t \in DataThreads : c \notin grave[t]   \* the name is not in use
  /\ fd' = [fd EXCEPT ![c] = "backlog"]
  /\ UNCHANGED <<life, stopping, nconn, up, accVars, jq, workVars, inq, wake, load, dataVars>>

-----------------------------------------------------------------------------
(* acceptor_main *)

AcceptorPoll ==
  /\ accpc = "poll"
  /\ \/ /\ stopping                            \* loop test, or stopfd readable
        /\ accpc' = "exited"
     \/ /\ ~stopping
        /\ \E c \in Conns : fd[c] = "backlog"
        /\ accpc' = "burst"
  /\ UNCHANGED <<life, stopping, nconn, fd, up, acc, burst, jq, workVars, inq, wake, load, dataVars>>

\* accept4 succeeds, the original destination is unknown or the relay is at its limit
\* (the fetch_add taken back at once: nobody else reads R.nconn meanwhile).
AcceptorDrop(c) ==
  /\ accpc = "burst" /\ burst < Burst
  /\ fd[c] = "backlog"
  /\ fd' = [fd EXCEPT ![c] = "none"]
  /\ burst' = burst + 1
  /\ UNCHANGED <<life, stopping, nconn, up, accpc, acc, jq, workVars, inq, wake, load, dataVars>>

\* fetch_add(&R.nconn) finds the relay below its limit.
Room == nconn < MaxConns

\* accept4 succeeds and fetch_add finds room.
AcceptorCount(c) ==
  /\ accpc = "burst" /\ burst < Burst
  /\ fd[c] = "backlog"
  /\ Room
  /\ nconn' = nconn + 1
  /\ fd' = [fd EXCEPT ![c] = "open"]
  /\ acc' = c
  /\ accpc' = "push"
  /\ burst' = burst + 1
  /\ UNCHANGED <<life, stopping, up, jq, workVars, inq, wake, load, dataVars>>

\* Mutant of Signal and of Broadcast: nobody is woken.
NobodyWoken == UNCHANGED wpc

\* pthread_cond_signal: one waiter, if there is one.
Signal ==
  IF \E w \in Workers : wpc[w] = "wait"
  THEN \E w \in Workers : /\ wpc[w] = "wait"
                          /\ wpc' = [wpc EXCEPT ![w] = "lock"]
  ELSE UNCHANGED wpc

\* job_push, under R.jmu.
JobPush ==
  /\ accpc = "push"
  /\ Len(jq) < JobMax /\ ~stopping
  /\ jq' = Append(jq, acc)
  /\ Signal
  /\ acc' = None
  /\ accpc' = "burst"
  /\ UNCHANGED <<life, stopping, nconn, fd, up, burst, wc, wt, inq, wake, load, dataVars>>

\* job_push fails: queue full (UDP jobs share it), stopping, or out of memory.
JobPushFail ==
  /\ accpc = "push"
  /\ nconn' = nconn - 1
  /\ fd' = [fd EXCEPT ![acc] = "none"]
  /\ acc' = None
  /\ accpc' = "burst"
  /\ UNCHANGED <<life, stopping, up, burst, jq, workVars, inq, wake, load, dataVars>>

\* EAGAIN, an accept error, or 256 accepts done: back to the loop test.
AcceptorBreak ==
  /\ accpc = "burst"
  /\ accpc' = "poll"
  /\ burst' = 0
  /\ UNCHANGED <<life, stopping, nconn, fd, up, acc, jq, workVars, inq, wake, load, dataVars>>

-----------------------------------------------------------------------------
(* worker_main, tcp_job_run, conn_handoff *)

\* The critical section of R.jmu: exit once the relay is stopping, ...
WorkerExit(w) ==
  /\ wpc[w] = "lock" /\ stopping
  /\ wpc' = [wpc EXCEPT ![w] = "exited"]
  /\ UNCHANGED <<life, stopping, nconn, fd, up, accVars, jq, wc, wt, inq, wake, load, dataVars>>

\* ... wait on R.jcv while there is no job, ...
WorkerWait(w) ==
  /\ wpc[w] = "lock" /\ ~stopping /\ jq = <<>>
  /\ wpc' = [wpc EXCEPT ![w] = "wait"]
  /\ UNCHANGED <<life, stopping, nconn, fd, up, accVars, jq, wc, wt, inq, wake, load, dataVars>>

\* ... or take the oldest job.
WorkerTake(w) ==
  /\ wpc[w] = "lock" /\ ~stopping /\ jq # <<>>
  /\ wpc' = [wpc EXCEPT ![w] = "job"]
  /\ wc' = [wc EXCEPT ![w] = Head(jq)]
  /\ jq' = Tail(jq)
  /\ UNCHANGED <<life, stopping, nconn, fd, up, accVars, wt, inq, wake, load, dataVars>>

\* pthread_cond_wait may return without a signal.
WorkerSpurious(w) ==
  /\ wpc[w] = "wait"
  /\ wpc' = [wpc EXCEPT ![w] = "lock"]
  /\ UNCHANGED <<life, stopping, nconn, fd, up, accVars, jq, wc, wt, inq, wake, load, dataVars>>

\* BLOCK, no proxy, connect or handshake failed, timed out or was stopped, or no memory.
WorkerFail(w) ==
  /\ wpc[w] = "job"
  /\ nconn' = nconn - 1
  /\ fd' = [fd EXCEPT ![wc[w]] = "none"]
  /\ wc' = [wc EXCEPT ![w] = None]
  /\ wpc' = [wpc EXCEPT ![w] = "lock"]
  /\ UNCHANGED <<life, stopping, up, accVars, jq, wt, inq, wake, load, dataVars>>

\* Connected upstream; conn_handoff picks a data thread.  The loads are read one
\* by one while other threads change them, so any thread may look least loaded.
WorkerConnected(w, t) ==
  /\ wpc[w] = "job"
  /\ up' = up \cup {wc[w]}
  /\ wt' = [wt EXCEPT ![w] = t]
  /\ load' = [load EXCEPT ![t] = @ + 1]
  /\ wpc' = [wpc EXCEPT ![w] = "push"]
  /\ UNCHANGED <<life, stopping, nconn, fd, accVars, jq, wc, inq, wake, dataVars>>

\* Mutant of HandoverOpen: R.stopping is not looked at again under t->mu.
HandoverOpenAlways == TRUE

HandoverOpen == ~stopping

\* The critical section of t->mu in conn_handoff, relay running.
WorkerPush(w) ==
  /\ wpc[w] = "push"
  /\ HandoverOpen
  /\ inq' = [inq EXCEPT ![wt[w]] = Append(@, wc[w])]
  /\ wc' = [wc EXCEPT ![w] = None]
  /\ wpc' = [wpc EXCEPT ![w] = "wake"]
  /\ UNCHANGED <<life, stopping, nconn, fd, up, accVars, jq, wt, wake, load, dataVars>>

\* The same critical section once the relay is stopping.
WorkerPushStopped(w) ==
  /\ wpc[w] = "push"
  /\ stopping
  /\ load' = [load EXCEPT ![wt[w]] = @ - 1]
  /\ CloseBoth(wc[w])
  /\ nconn' = nconn - 1
  /\ wc' = [wc EXCEPT ![w] = None]
  /\ wt' = [wt EXCEPT ![w] = None]
  /\ wpc' = [wpc EXCEPT ![w] = "lock"]
  /\ UNCHANGED <<life, stopping, accVars, jq, inq, wake, dataVars>>

\* Mutant of Wake: the data thread is not woken.
WakeForgotten(t) == UNCHANGED wake

Wake(t) == wake' = [wake EXCEPT ![t] = TRUE]

\* eventfd_write(t->wake), outside the lock.
WorkerWake(w) ==
  /\ wpc[w] = "wake"
  /\ Wake(wt[w])
  /\ wt' = [wt EXCEPT ![w] = None]
  /\ wpc' = [wpc EXCEPT ![w] = "lock"]
  /\ UNCHANGED <<life, stopping, nconn, fd, up, accVars, jq, wc, inq, load, dataVars>>

-----------------------------------------------------------------------------
(* data_main *)

DataTest(t) ==
  /\ dpc[t] = "test"
  /\ dpc' = [dpc EXCEPT ![t] = IF stopping THEN "exited" ELSE "poll"]
  /\ UNCHANGED <<rest, nconn, fd, up, inq, wake, load, evVars, adopting, conns, grave>>

\* epoll_wait returns: the eventfds that are set, some connections' sockets, or nothing.
DataPoll(t) ==
  /\ dpc[t] = "poll"
  /\ evStop' = [evStop EXCEPT ![t] = stopping]
  /\ evWake' = [evWake EXCEPT ![t] = wake[t]]
  /\ \E evs \in SUBSET (conns[t] \X Sides) : evConns' = [evConns EXCEPT ![t] = evs]
  /\ dpc' = [dpc EXCEPT ![t] = "batch"]
  /\ UNCHANGED <<rest, nconn, fd, up, inq, wake, load, adopting, conns, grave>>

\* TAG_STOP: goto done, whatever else the batch holds.
DataStop(t) ==
  /\ dpc[t] = "batch" /\ adopting[t] = <<>>
  /\ evStop[t]
  /\ dpc' = [dpc EXCEPT ![t] = "exited"]
  /\ UNCHANGED <<rest, nconn, fd, up, inq, wake, load, evVars, adopting, conns, grave>>

\* Mutant of Detach: the queue is walked but not emptied.
DetachKeeps(t) ==
  /\ adopting' = [adopting EXCEPT ![t] = inq[t]]
  /\ inq' = inq

Detach(t) ==
  /\ adopting' = [adopting EXCEPT ![t] = inq[t]]
  /\ inq' = [inq EXCEPT ![t] = <<>>]

\* TAG_WAKE: the eventfd is read, ...
DataWake(t) ==
  /\ dpc[t] = "batch" /\ adopting[t] = <<>>
  /\ evWake[t]
  /\ evWake' = [evWake EXCEPT ![t] = FALSE]
  /\ wake' = [wake EXCEPT ![t] = FALSE]
  /\ dpc' = [dpc EXCEPT ![t] = "woken"]
  /\ UNCHANGED <<rest, nconn, fd, up, inq, load, evStop, evConns, adopting, conns, grave>>

\* ... then dthread_adopt detaches the whole hand-over queue under t->mu ...
DataDetach(t) ==
  /\ dpc[t] = "woken"
  /\ Detach(t)
  /\ dpc' = [dpc EXCEPT ![t] = "batch"]
  /\ UNCHANGED <<rest, nconn, fd, up, wake, load, evVars, conns, grave>>

\* ... and then links its connections one by one,
DataAdopt(t) ==
  /\ dpc[t] = "batch" /\ adopting[t] # <<>>
  /\ conns' = [conns EXCEPT ![t] = @ \cup {Head(adopting[t])}]
  /\ adopting' = [adopting EXCEPT ![t] = Tail(@)]
  /\ UNCHANGED <<rest, nconn, fd, up, inq, wake, load, dpc, evVars, grave>>

\* Mutants of ConnClose: the struct is freed at once, the connection stays counted, the
\* thread's load is not given back.
ConnCloseFrees(t, c) ==
  CloseBoth(c) /\ UNCHANGED grave /\ nconn' = nconn - 1 /\ load' = [load EXCEPT ![t] = @ - 1]
ConnCloseKeepsCount(t, c) ==
  /\ CloseBoth(c) /\ UNCHANGED nconn
  /\ grave' = [grave EXCEPT ![t] = @ \cup {c}] /\ load' = [load EXCEPT ![t] = @ - 1]
ConnCloseKeepsLoad(t, c) ==
  CloseBoth(c) /\ UNCHANGED load /\ nconn' = nconn - 1 /\ grave' = [grave EXCEPT ![t] = @ \cup {c}]

\* conn_close: the struct goes to the grave, other events of the batch may name it.
ConnClose(t, c) ==
  /\ CloseBoth(c)
  /\ grave' = [grave EXCEPT ![t] = @ \cup {c}]
  /\ nconn' = nconn - 1
  /\ load' = [load EXCEPT ![t] = @ - 1]

\* ... closing those whose first service or registration fails.
DataAdoptClose(t) ==
  /\ dpc[t] = "batch" /\ adopting[t] # <<>>
  /\ ConnClose(t, Head(adopting[t]))
  /\ adopting' = [adopting EXCEPT ![t] = Tail(@)]
  /\ UNCHANGED <<rest, inq, wake, dpc, evVars, conns>>

\* conn_service leaves the connection open, or the struct is marked dead and skipped.
DataServe(t, c, side) ==
  /\ dpc[t] = "batch" /\ adopting[t] = <<>>
  /\ <<c, side>> \in evConns[t]
  /\ evConns' = [evConns EXCEPT ![t] = @ \ {<<c, side>>}]
  /\ UNCHANGED <<rest, nconn, fd, up, inq, wake, load, dpc, evStop, evWake, adopting, conns, grave>>

\* conn_service ends the connection (both directions shut, or an error).
DataServeClose(t, c, side) ==
  /\ dpc[t] = "batch" /\ adopting[t] = <<>>
  /\ <<c, side>> \in evConns[t]
  /\ c \notin grave[t]                        \* !c->dead
  /\ evConns' = [evConns EXCEPT ![t] = @ \ {<<c, side>>}]
  /\ conns' = [conns EXCEPT ![t] = @ \ {c}]
  /\ ConnClose(t, c)
  /\ UNCHANGED <<rest, inq, wake, dpc, evStop, evWake, adopting>>

\* The batch is done: free_grave, and on to the idle sweep.
DataBatchEnd(t) ==
  /\ dpc[t] = "batch" /\ adopting[t] = <<>>
  /\ ~evStop[t] /\ ~evWake[t] /\ evConns[t] = {}
  /\ grave' = [grave EXCEPT ![t] = {}]
  /\ dpc' = [dpc EXCEPT ![t] = "sweep"]
  /\ UNCHANGED <<rest, nconn, fd, up, inq, wake, load, evVars, adopting, conns>>

\* The idle sweep closes a connection that has been silent too long ...
DataSweepClose(t, c) ==
  /\ dpc[t] = "sweep"
  /\ c \in conns[t]
  /\ conns' = [conns EXCEPT ![t] = @ \ {c}]
  /\ ConnClose(t, c)
  /\ UNCHANGED <<rest, inq, wake, dpc, evVars, adopting>>

\* ... and frees what it closed.
DataSweepEnd(t) ==
  /\ dpc[t] = "sweep"
  /\ grave' = [grave EXCEPT ![t] = {}]
  /\ dpc' = [dpc EXCEPT ![t] = "test"]
  /\ UNCHANGED <<rest, nconn, fd, up, inq, wake, load, evVars, adopting, conns>>

-----------------------------------------------------------------------------
(* pb_relay_start, pb_relay_stop, teardown *)

\* The threads are created in the order data threads, workers, acceptor; when one
\* creation fails, those already running are torn down (the fail label).
Start(ds, ws, all) ==
  /\ life = "off"
  /\ \/ all /\ ds = DataThreads /\ ws = Workers
     \/ ~all /\ (ws = {} \/ ds = DataThreads)
  /\ life' = IF all THEN "running" ELSE "failing"
  /\ stopping' = FALSE
  /\ nconn' = 0
  /\ accpc' = IF all THEN "poll" ELSE "none"
  /\ wpc' = [w \in Workers |-> IF w \in ws THEN "lock" ELSE "none"]
  /\ dpc' = [t \in DataThreads |-> IF t \in ds THEN "test" ELSE "none"]
  /\ load' = [t \in DataThreads |-> 0]
  /\ wake' = [t \in DataThreads |-> FALSE]
  /\ burst' = 0
  /\ UNCHANGED <<fd, up, acc, jq, wc, wt, inq, evVars, adopting, conns, grave>>

\* pb_relay_stop, or the fail label of pb_relay_start: R.stopping and R.stopfd ...
StopFlag ==
  /\ life \in {"running", "failing"}
  /\ stopping' = TRUE
  /\ life' = "broadcast"
  /\ UNCHANGED <<nconn, fd, up, accVars, jq, workVars, inq, wake, load, dataVars>>

Broadcast == wpc' = [w \in Workers |-> IF wpc[w] = "wait" THEN "lock" ELSE wpc[w]]

\* ... then pthread_cond_broadcast under R.jmu ...
StopBroadcast ==
  /\ life = "broadcast"
  /\ life' = "join_acceptor"
  /\ Broadcast
  /\ UNCHANGED <<stopping, nconn, fd, up, accVars, jq, wc, wt, inq, wake, load, dataVars>>

\* The thread was never created, or has returned.
Gone(pc) == pc \in {"none", "exited"}

WorkersJoined == \A w \in Workers : Gone(wpc[w])

\* ... then pthread_join, in this order.
StopJoin ==
  /\ \/ /\ life = "join_acceptor" /\ Gone(accpc)
        /\ life' = "join_workers"
     \/ /\ life = "join_workers" /\ WorkersJoined
        /\ life' = "join_data"
     \/ /\ life = "join_data" /\ \A t \in DataThreads : Gone(dpc[t])
        /\ life' = "drain"
  /\ UNCHANGED <<stopping, nconn, fd, up, accVars, jq, workVars, inq, wake, load, dataVars>>

\* The drain loops of teardown: queued jobs, then each thread's hand-over queue and
\* live connections.
DrainJob ==
  /\ life = "drain" /\ jq # <<>>
  /\ fd' = [fd EXCEPT ![Head(jq)] = "none"]
  /\ jq' = Tail(jq)
  /\ nconn' = nconn - 1
  /\ UNCHANGED <<life, stopping, up, accVars, workVars, inq, wake, load, dataVars>>

DrainInq(t) ==
  /\ life = "drain" /\ jq = <<>> /\ inq[t] # <<>>
  /\ CloseBoth(Head(inq[t]))
  /\ inq' = [inq EXCEPT ![t] = Tail(@)]
  /\ nconn' = nconn - 1
  /\ UNCHANGED <<life, stopping, accVars, jq, workVars, wake, load, dataVars>>

DrainConn(t, c) ==
  /\ life = "drain" /\ jq = <<>> /\ inq[t] = <<>>
  /\ c \in conns[t]
  /\ CloseBoth(c)
  /\ conns' = [conns EXCEPT ![t] = @ \ {c}]
  /\ nconn' = nconn - 1
  /\ UNCHANGED <<life, stopping, accVars, jq, workVars, inq, wake, load,
                 dpc, evVars, adopting, grave>>

\* Mutant of Drained: the hand-over queues are not drained.
DrainedButQueues == jq = <<>> /\ \A t \in DataThreads : conns[t] = {}

Drained == jq = <<>> /\ \A t \in DataThreads : inq[t] = <<>> /\ conns[t] = {}

\* Graves and epoll fds are freed, the listening socket is closed (its backlog is
\* reset), and R.running becomes false.
DrainEnd ==
  /\ life = "drain" /\ Drained
  /\ life' = "off"
  /\ grave' = [t \in DataThreads |-> {}]
  /\ evStop' = [t \in DataThreads |-> FALSE]
  /\ evWake' = [t \in DataThreads |-> FALSE]
  /\ evConns' = [t \in DataThreads |-> {}]
  /\ fd' = [c \in Conns |-> IF fd[c] = "backlog" THEN "none" ELSE fd[c]]
  /\ UNCHANGED <<stopping, nconn, up, accVars, jq, workVars, inq, wake, load,
                 dpc, adopting, conns>>

-----------------------------------------------------------------------------
Acceptor == AcceptorPoll \/ JobPush \/ JobPushFail \/ AcceptorBreak
            \/ \E c \in Conns : AcceptorDrop(c) \/ AcceptorCount(c)

Worker(w) == \/ WorkerExit(w) \/ WorkerWait(w) \/ WorkerTake(w) \/ WorkerFail(w) \/ WorkerPush(w)
             \/ WorkerPushStopped(w) \/ WorkerWake(w)
             \/ \E t \in DataThreads : WorkerConnected(w, t)

Data(t) == \/ DataTest(t) \/ DataPoll(t) \/ DataStop(t) \/ DataWake(t) \/ DataDetach(t)
           \/ DataAdopt(t) \/ DataAdoptClose(t) \/ DataBatchEnd(t) \/ DataSweepEnd(t)
           \/ \E c \in Conns : DataSweepClose(t, c)
           \/ \E c \in Conns, s \in Sides : DataServe(t, c, s) \/ DataServeClose(t, c, s)

Teardown == \/ StopBroadcast \/ StopJoin \/ DrainJob \/ DrainEnd
            \/ \E t \in DataThreads : DrainInq(t) \/ \E c \in Conns : DrainConn(t, c)

Next == \/ \E c \in Conns : Connect(c)
        \/ Acceptor
        \/ \E w \in Workers : Worker(w) \/ WorkerSpurious(w)
        \/ \E t \in DataThreads : Data(t)
        \/ \E ds \in SUBSET DataThreads, ws \in SUBSET Workers, all \in BOOLEAN : Start(ds, ws, all)
        \/ StopFlag
        \/ Teardown

Spec == Init /\ [][Next]_vars

\* Every thread of the relay is scheduled by the kernel, a handshake ends by its
\* deadline, and the caller of pb_relay_stop runs to its end.  Clients, start and
\* stop requests are not obliged to come.
Fairness == /\ WF_vars(Acceptor)
            /\ \A w \in Workers : WF_vars(Worker(w))
            /\ \A t \in DataThreads : WF_vars(Data(t))
            /\ WF_vars(Teardown)
            /\ WF_vars(life = "failing" /\ StopFlag)

FairSpec == Spec /\ Fairness
-----------------------------------------------------------------------------
(* Safety *)

\* R.nconn, incremented by the acceptor and decremented on nine different paths of
\* three kinds of threads, is at every moment the number of connections that some
\* part of the relay holds.
NconnExact == nconn = Cardinality(Held)

\* A connection is in one place only: the acceptor's hands, one job, one worker, one
\* hand-over queue, one detached list or one data thread's live list.  ("Every
\* conn/session is owned by exactly one epoll thread; handshake workers hand finished
\* objects over through queues.")
QueuesDistinct ==
  /\ IsInjective(jq)
  /\ \A t \in DataThreads : IsInjective(inq[t]) /\ IsInjective(adopting[t])

OwnersDisjoint ==
  /\ \A w \in Workers : wc[w] # None =>
        /\ wc[w] # acc /\ wc[w] \notin Range(jq) /\ wc[w] \notin InThreads
        /\ \A v \in Workers \ {w} : wc[v] # wc[w]
  /\ acc \notin Range(jq) \cup InThreads
  /\ Range(jq) \cap InThreads = {}
  /\ \A t \in DataThreads :
        /\ Range(inq[t]) \cap Range(adopting[t]) = {}
        /\ Range(inq[t]) \cap conns[t] = {}
        /\ Range(adopting[t]) \cap conns[t] = {}
        /\ \A u \in DataThreads \ {t} : InThread(t) \cap InThread(u) = {}

SingleOwner == QueuesDistinct /\ OwnersDisjoint

\* No socket leaks and none is used after close(): a client socket is open exactly
\* while some part of the relay holds the connection, an upstream socket exactly from
\* the end of the handshake to conn_close.
SocketsOwned ==
  /\ Open = Held
  /\ up = InThreads \cup {wc[w] : w \in {v \in Workers : wpc[v] = "push"}}

\* The connection limit holds across accepting, handshaking and served connections.
LimitRespected == Cardinality(Open) <= MaxConns

\* An event that epoll_wait returned names a struct conn that is still allocated when
\* its turn in the batch comes, even if an earlier event of the batch closed it.
NoDanglingEvent ==
  \A t \in DataThreads : \A c \in Conns, s \in Sides :
    dpc[t] \in {"batch", "woken"} /\ <<c, s>> \in evConns[t] => c \in conns[t] \cup grave[t]

\* The load counter conn_handoff balances on never drifts, whichever path a
\* connection ends on: it counts the thread's connections and those on their way.
LoadExact ==
  life \notin {"off", "drain"} =>
    \A t \in DataThreads :
      load[t] = Cardinality(InThread(t))
                + Cardinality({w \in Workers : wpc[w] = "push" /\ wt[w] = t})

\* pb_relay_stop, and a pb_relay_start that fails, "leaves nothing running": no
\* thread, no socket, nothing counted.
StoppedClean ==
  life = "off" =>
    /\ \A c \in Conns : fd[c] = "none"
    /\ up = {} /\ nconn = 0
    /\ Gone(accpc)
    /\ \A w \in Workers : Gone(wpc[w])
    /\ \A t \in DataThreads : Gone(dpc[t]) /\ grave[t] = {}

\* What each thread's location says of what it holds, and which threads can still run
\* at each point of teardown: once a join has returned, its threads touch nothing.
Control ==
  /\ accpc = "push" <=> acc # None
  /\ \A w \in Workers : /\ wpc[w] \in {"job", "push"} <=> wc[w] # None
                        /\ wpc[w] \in {"push", "wake"} <=> wt[w] # None
  /\ \A t \in DataThreads : adopting[t] # <<>> => dpc[t] = "batch"
  /\ life \in {"running", "failing"} => ~stopping
  /\ life \notin {"off", "running", "failing"} => stopping
  /\ life \in {"join_workers", "join_data", "drain", "off"} => Gone(accpc)
  /\ life \in {"join_data", "drain", "off"} => \A w \in Workers : Gone(wpc[w])
  /\ life \in {"drain", "off"} => \A t \in DataThreads : Gone(dpc[t])

(* Liveness, under FairSpec *)

\* Stopping ends, whatever the threads were doing and however many clients keep
\* connecting, and so does a start that failed half-way: no worker sleeps through the
\* broadcast, no thread misses the flag.
StopEnds == (life \in {"failing", "broadcast"}) ~> (life = "off")

\* A queued job leaves the queue: no wake-up of R.jcv is lost.
JobTaken == \A c \in Conns : (c \in Range(jq)) ~> (c \notin Range(jq))

\* A handed-over connection is adopted or closed: no wake-up of t->wake is lost.
HandoverTaken ==
  \A t \in DataThreads, c \in Conns : (c \in Range(inq[t])) ~> (c \notin Range(inq[t]))

-----------------------------------------------------------------------------
(* Refinement: the relay implements a bounded pool of connections. *)

Pool == INSTANCE RelayPool
          WITH phase  <- IF life = "off" THEN "off" ELSE IF stopping THEN "closing" ELSE "on",
               held   <- Open,
               served <- InThreads

\* What a caller sees of the relay: at most MaxConns connections, none served after a
\* stop request, none left when the stop returns.
ImplementsPool == Pool!Spec
=============================================================================
