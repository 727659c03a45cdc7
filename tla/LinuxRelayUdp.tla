--------------------------- MODULE LinuxRelayUdp ---------------------------
(***************************************************************************)
(* The UDP half of the Linux relay, client/Linux/src/pb_relay.c: one epoll *)
(* thread that owns every session, handshake workers that set up a SOCKS5  *)
(* association and hand the session back through a list and an eventfd,    *)
(* the control API that changes the proxies meanwhile, and the stop.       *)
(*                                                                         *)
(* A flow address stands for one destination.  What a datagram carries,    *)
(* the flow table of a session and the way a reply finds its flow are left *)
(* out.  Time may have passed between any two steps: a cached decision is  *)
(* looked up again, a session turns out to have been idle.                 *)
(***************************************************************************)
EXTENDS Integers, Sequences, FiniteSets, Functions, FiniteSetsExt

CONSTANTS
  Clients,     \* client sockets
  Flows,       \* flow addresses, 127.1-255.x.y
  Proxies,     \* proxy ids, in the order of G.proxies
  Types,       \* what the proxies may be at first
  Sessions,    \* memory for struct sess
  MaxSess,     \* MAX_UDP_SESS
  QMax,        \* UDP_QMAX
  MaxEdits,    \* bound: control API calls
  None

Direct == 0    \* DIRECT_ID

ASSUME UdpAssumption ==
  /\ Proxies \subseteq Nat \ {Direct} /\ IsFiniteSet(Proxies)
  /\ Types \subseteq [Proxies -> {"none", "socks5", "http"}]
  /\ IsFiniteSet(Sessions) /\ None \notin Sessions \cup Flows \cup Proxies
  /\ Clients \cap Sessions = {}
  /\ {MaxSess, QMax} \subseteq Nat \ {0} /\ MaxEdits \in Nat

VARIABLES
  proxies,     \* of each proxy id "socks5", "http" or "none" when it does not exist
  removed,     \* proxies that were deleted at some time
  edits,       \* API calls made
  rx,          \* datagrams that wait in R.ufd, by client and flow address
  dc,          \* R.dc: the decision cached for a client and a flow address
  sess,        \* struct sess, by memory
  nsess,       \* R.nsess
  fds,         \* open sockets <<s, 0>> (up_fd) and <<s, 1>> (ctl_fd)
  hangup,      \* sessions whose control connection the proxy has closed
  pc, evs,     \* the UDP thread: location, events of this epoll_wait not yet handled
  tick,        \* R.tmfd has expired
  jq,          \* R.jhead .. R.jtail, the UDP jobs
  wpc, ws,     \* a worker: location, session in hand
  done, wake,  \* R.done, R.uwake
  life         \* "off", "running", "stopping"

apiVars  == <<proxies, removed, edits>>
sessVars == <<dc, sess, nsess, fds>>
threadVars == <<pc, evs, tick>>
jobVars  == <<jq, wpc, ws, done, wake>>
vars == <<apiVars, rx, sessVars, hangup, threadVars, jobVars, life>>

Free == [st |-> "free"]

Live       == {s \in Sessions : sess[s].st = "live"}
State(x)   == {s \in Live : sess[s].state = x}
HandedOver == Range(jq) \cup ({ws} \ {None}) \cup Range(done)

TypeOK ==
  /\ proxies \in [Proxies -> {"none", "socks5", "http"}]
  /\ removed \subseteq Proxies /\ edits \in 0 .. MaxEdits
  /\ rx \subseteq Clients \X Flows
  /\ dc \in [Clients \X Flows -> Proxies \cup {Direct, None}]
  /\ sess \in [Sessions -> {Free} \cup
                 [st : {"live", "grave"}, cli : Clients, id : Proxies \cup {Direct}, flow : Flows \cup {None},
                  kind : {"direct", "socks5", "drop"}, state : {"setup", "ready", "failed"},
                  nq : 0 .. QMax, late : BOOLEAN]]
  /\ nsess \in Int
  /\ fds \subseteq Sessions \X {0, 1} /\ hangup \subseteq Sessions
  /\ pc \in {"poll", "batch", "woken", "exited"} /\ tick \in BOOLEAN
  /\ evs \subseteq {<<"wake">>, <<"timer">>, <<"stop">>} \cup (Clients \X Flows) \cup (Sessions \X {0, 1})
  /\ jq \in Seq(Sessions) /\ done \in Seq(Sessions) /\ wake \in BOOLEAN
  /\ wpc \in {"wait", "job", "wake", "exited"} /\ ws \in Sessions \cup {None}
  /\ life \in {"off", "running", "stopping"}

Idle ==  \* what pb_relay_start sets up
  /\ rx' = {} /\ dc' = [cf \in Clients \X Flows |-> None]
  /\ evs' = {} /\ tick' = FALSE /\ pc' = "poll"
  /\ jq' = <<>> /\ wpc' = "wait" /\ ws' = None /\ done' = <<>> /\ wake' = FALSE

Init ==
  /\ proxies \in Types /\ removed = {} /\ edits = 0
  /\ rx = {} /\ dc = [cf \in Clients \X Flows |-> None]
  /\ sess = [s \in Sessions |-> Free] /\ nsess = 0 /\ fds = {} /\ hangup = {}
  /\ pc = "exited" /\ evs = {} /\ tick = FALSE
  /\ jq = <<>> /\ wpc = "exited" /\ ws = None /\ done = <<>> /\ wake = FALSE
  /\ life = "off"

-----------------------------------------------------------------------------
(* The application, the proxy, the clock and the control API.              *)

Send(c, f) ==
  /\ life = "running" /\ rx' = rx \cup {<<c, f>>}
  /\ UNCHANGED <<apiVars, sessVars, hangup, threadVars, jobVars, life>>

Hangup(s) ==
  /\ <<s, 1>> \in fds /\ s \in State("ready") \ hangup
  /\ hangup' = hangup \cup {s}
  /\ UNCHANGED <<apiVars, rx, sessVars, threadVars, jobVars, life>>

Tick ==
  /\ life = "running" /\ ~tick /\ tick' = TRUE
  /\ UNCHANGED <<apiVars, rx, sessVars, hangup, pc, evs, jobVars, life>>

\* fail_until has come.
Late(s) ==
  /\ s \in State("failed") /\ ~sess[s].late
  /\ sess' = [sess EXCEPT ![s].late = TRUE]
  /\ UNCHANGED <<apiVars, rx, dc, nsess, fds, hangup, threadVars, jobVars, life>>

\* ProxyBridge_AddProxy, ProxyBridge_EditProxy, ProxyBridge_DeleteProxy; an id is not reused.
SetProxy(p, t) ==
  /\ edits < MaxEdits /\ edits' = edits + 1
  /\ p \notin removed /\ t # proxies[p]
  /\ proxies' = [proxies EXCEPT ![p] = t]
  /\ removed' = IF t = "none" THEN removed \cup {p} ELSE removed
  /\ UNCHANGED <<rx, sessVars, hangup, threadVars, jobVars, life>>

\* pb_core_get_proxy: the proxy, or the default one (the first) when it is gone.
GetProxy(p) ==
  LET there == {q \in Proxies : proxies[q] # "none"}
  IN IF p \in there THEN p ELSE IF there = {} THEN None ELSE Min(there)

-----------------------------------------------------------------------------
(* Sessions                                                                *)

\* Mutant of Find: only a session that is ready is found.
FindReady(c, id, f) ==
  {s \in State("ready") : sess[s].cli = c /\ sess[s].id = id /\ sess[s].flow = f}

\* sess_find: the session last made comes first in its bucket, so any may be met.
Find(c, id, f) == {s \in Live : sess[s].cli = c /\ sess[s].id = id /\ sess[s].flow = f}

\* sess_new: no session beyond the limit, or when there is no memory.
Room == {s \in Sessions : sess[s].st = "free" /\ nsess < MaxSess}

New(c, id, f, kind, state) ==
  [st |-> "live", cli |-> c, id |-> id, flow |-> f, kind |-> kind, state |-> state, nq |-> 0, late |-> FALSE]

\* A destroyed session stays in memory until the batch is done.
Buried(r) == [r EXCEPT !.st = "grave", !.nq = 0]

\* Mutant of Uncount: the counter is left alone.
UncountNone(ss) == nsess' = nsess

Uncount(ss) == nsess' = nsess - Cardinality(ss)

\* sess_destroy of the sessions ss.
Destroy(ss) ==
  /\ sess' = [s \in Sessions |-> IF s \in ss THEN Buried(sess[s]) ELSE sess[s]]
  /\ Uncount(ss)
  /\ fds' = {x \in fds : x[1] \notin ss}
  /\ hangup' = hangup \ ss

-----------------------------------------------------------------------------
(* udp_dgram                                                               *)

\* The decision for a datagram: the cached one, as long as it is fresh or the flow is the
\* same and not idle; else a new one.  None stands for a datagram that goes nowhere.
Decisions(cf) == {dc[cf], None, Direct} \cup {GetProxy(p) : p \in Proxies}

DirectDgram(c, f) ==
  /\ \/ Find(c, Direct, f) # {} /\ UNCHANGED <<sess, nsess, fds>>
     \/ /\ Find(c, Direct, f) = {}
        /\ \E s \in Room :
             \/ /\ sess' = [sess EXCEPT ![s] = New(c, Direct, f, "direct", "ready")]
                /\ nsess' = nsess + 1 /\ fds' = fds \cup {<<s, 0>>}
             \/ /\ sess' = [sess EXCEPT ![s] = Buried(New(c, Direct, f, "direct", "ready"))]  \* no socket
                /\ UNCHANGED <<nsess, fds>>
     \/ Find(c, Direct, f) = {} /\ Room = {} /\ UNCHANGED <<sess, nsess, fds>>
  /\ UNCHANGED <<jq, hangup>>

\* Mutant of Queued: a datagram puts off the end of a failed session.
QueuedPutsOff(r) == [r EXCEPT !.late = FALSE]

\* While the session is set up its datagrams are queued.
Queued(r) == [r EXCEPT !.nq = IF r.state = "setup" /\ @ < QMax THEN @ + 1 ELSE @]

ProxyDgram(c, p) ==
  /\ \/ \E s \in Find(c, p, None) : sess' = [sess EXCEPT ![s] = Queued(@)] /\ UNCHANGED <<nsess, jq>>
     \/ /\ Find(c, p, None) = {} /\ GetProxy(p) # None
        /\ LET px == GetProxy(p) IN
           \E s \in Room :
             /\ nsess' = nsess + 1
             /\ \/ /\ proxies[px] = "http"
                   /\ sess' = [sess EXCEPT ![s] = New(c, px, None, "drop", "ready")]
                   /\ UNCHANGED jq
                \/ /\ proxies[px] = "socks5"
                   /\ sess' = [sess EXCEPT ![s] = Queued(New(c, px, None, "socks5", "setup"))]
                   /\ jq' = Append(jq, s) /\ life = "running"
                \/ /\ proxies[px] = "socks5"                 \* job_push refuses
                   /\ sess' = [sess EXCEPT ![s] = New(c, px, None, "socks5", "failed")]
                   /\ UNCHANGED jq
     \/ /\ Find(c, p, None) = {} /\ (GetProxy(p) = None \/ Room = {})
        /\ UNCHANGED <<sess, nsess, jq>>
  /\ UNCHANGED <<fds, hangup>>

Handled(e) == evs' = evs \ {e}

Dgram(c, f) ==
  /\ pc = "batch" /\ <<c, f>> \in evs /\ Handled(<<c, f>>)
  /\ rx' = rx \ {<<c, f>>}
  /\ \E id \in Decisions(<<c, f>>) :
       /\ dc' = [dc EXCEPT ![<<c, f>>] = id]
       /\ \/ id = None /\ UNCHANGED <<sess, nsess, fds, hangup, jq>>
          \/ id = Direct /\ DirectDgram(c, f)
          \/ id \in Proxies /\ ProxyDgram(c, id)
  /\ UNCHANGED <<apiVars, pc, tick, wpc, ws, done, wake, life>>

-----------------------------------------------------------------------------
(* udp_main                                                                *)

\* What arrives while the batch is handled waits for the next one.
Poll ==
  /\ pc = "poll"
  /\ LET ready == rx \cup {x \in {<<"wake">>} : wake} \cup {x \in {<<"timer">>} : tick}
                    \cup {x \in {<<"stop">>} : life = "stopping"} \cup {<<s, 1>> : s \in hangup}
     IN ready # {} /\ evs' = ready
  /\ pc' = "batch"
  /\ UNCHANGED <<apiVars, rx, sessVars, hangup, tick, jobVars, life>>

CtlEvent(s) ==        \* udp_ctl_event: the association is over
  /\ pc = "batch" /\ <<s, 1>> \in evs /\ Handled(<<s, 1>>)
  /\ IF s \in Live THEN Destroy({s}) ELSE UNCHANGED <<sess, nsess, fds, hangup>>
  /\ UNCHANGED <<apiVars, rx, dc, pc, tick, jobVars, life>>

\* Mutant of Sweepable: a session in the hands of a worker may have been idle too.
SweepableAll == State("ready") \cup State("setup")

\* Not a session that a worker still sets up.
Sweepable == State("ready")

\* udp_sweep: the failed sessions whose time has come, and those that were idle.
Sweep ==
  /\ pc = "batch" /\ <<"timer">> \in evs /\ Handled(<<"timer">>) /\ tick' = FALSE
  /\ \E idle \in SUBSET Sweepable :
       Destroy(idle \cup {s \in State("failed") : sess[s].late})
  /\ UNCHANGED <<apiVars, rx, dc, pc, jobVars, life>>

WakeRead ==           \* the eventfd is read before the list is taken
  /\ pc = "batch" /\ <<"wake">> \in evs /\ Handled(<<"wake">>)
  /\ wake' = FALSE /\ pc' = "woken"
  /\ UNCHANGED <<apiVars, rx, sessVars, hangup, tick, jq, wpc, ws, done, life>>

\* Mutant of NotAssociated: the sockets of a session that cannot be armed stay open.
NotAssociatedKeepsSockets(ss) == fds' = fds

NotAssociated(ss) == fds' = {x \in fds : x[1] \notin ss}

\* udp_setup_done: of the sessions handed back each is armed and ready, its queue sent,
\* or it has failed.
SetupDone ==
  /\ pc = "woken" /\ pc' = "batch" /\ done' = <<>>
  /\ \E ok \in SUBSET {s \in Range(done) : <<s, 0>> \in fds} :
       /\ sess' = [s \in Sessions |->
            IF s \notin Range(done) THEN sess[s]
            ELSE [sess[s] EXCEPT !.state = IF s \in ok THEN "ready" ELSE "failed", !.nq = 0, !.late = FALSE]]
       /\ NotAssociated(Range(done) \ ok)
  /\ UNCHANGED <<apiVars, rx, dc, nsess, hangup, evs, tick, jq, wpc, ws, wake, life>>

Exhumed == [s \in Sessions |-> IF sess[s].st = "grave" THEN Free ELSE sess[s]]   \* sess_free_grave

BatchEnd ==
  /\ pc = "batch" /\ evs = {}
  /\ sess' = Exhumed
  /\ pc' = IF life = "stopping" THEN "exited" ELSE "poll"
  /\ UNCHANGED <<apiVars, rx, dc, nsess, fds, hangup, evs, tick, jobVars, life>>

StopEvent ==
  /\ pc = "batch" /\ <<"stop">> \in evs /\ evs' = {} /\ pc' = "exited"
  /\ UNCHANGED <<apiVars, rx, sessVars, hangup, tick, jobVars, life>>

-----------------------------------------------------------------------------
(* worker_main and udp_job_run                                             *)

Take ==
  /\ wpc = "wait" /\ jq # <<>> /\ life = "running"
  /\ ws' = Head(jq) /\ jq' = Tail(jq) /\ wpc' = "job"
  /\ UNCHANGED <<apiVars, rx, sessVars, hangup, threadVars, done, wake, life>>

JobRun ==
  /\ wpc = "job"
  /\ fds' \in {fds, fds \cup {<<ws, 0>>, <<ws, 1>>}}       \* not associated, or associated
  /\ done' = <<ws>> \o done /\ ws' = None /\ wpc' = "wake"
  /\ UNCHANGED <<apiVars, rx, dc, sess, nsess, hangup, threadVars, jq, wake, life>>

\* Mutant of Wake: the thread is not woken.
WakeForgotten == wake' = wake

Wake == wake' = TRUE

JobWake ==
  /\ wpc = "wake" /\ Wake /\ wpc' = "wait"
  /\ UNCHANGED <<apiVars, rx, sessVars, hangup, threadVars, jq, ws, done, life>>

WorkerExit ==
  /\ wpc = "wait" /\ life = "stopping" /\ wpc' = "exited"
  /\ UNCHANGED <<apiVars, rx, sessVars, hangup, threadVars, jq, ws, done, wake, life>>

-----------------------------------------------------------------------------
(* pb_relay_start and teardown                                             *)

Start ==
  /\ life = "off" /\ life' = "running"
  /\ Idle
  /\ UNCHANGED <<apiVars, sess, nsess, fds, hangup>>

Stop ==
  /\ life = "running" /\ life' = "stopping"
  /\ UNCHANGED <<apiVars, rx, sessVars, hangup, threadVars, jobVars>>

\* What sess_destroy of every session of the list leaves open.
LeftOpen == {x \in fds : x[1] \notin Live}

\* Both threads are joined, then whatever is left is closed and freed.
Teardown ==
  /\ life = "stopping" /\ pc = "exited" /\ wpc = "exited"
  /\ life' = "off"
  /\ sess' = [s \in Sessions |-> Free] /\ nsess' = 0
  /\ fds' = LeftOpen /\ hangup' = {}
  /\ rx' = {} /\ dc' = [cf \in Clients \X Flows |-> None]
  /\ evs' = {} /\ tick' = FALSE /\ jq' = <<>> /\ done' = <<>> /\ wake' = FALSE
  /\ UNCHANGED <<apiVars, pc, wpc, ws>>

-----------------------------------------------------------------------------
Thread == \/ Poll \/ Sweep \/ WakeRead \/ SetupDone
          \/ StopEvent \/ BatchEnd
          \/ \E s \in Sessions : CtlEvent(s)
          \/ \E c \in Clients, f \in Flows : Dgram(c, f)
Worker == Take \/ JobRun \/ JobWake \/ WorkerExit
Api    == \E p \in Proxies, t \in {"none", "socks5", "http"} : SetProxy(p, t)

Next == \/ Thread \/ Worker \/ Api \/ Tick \/ Start \/ Stop \/ Teardown
        \/ \E c \in Clients, f \in Flows : Send(c, f)
        \/ \E s \in Sessions : Hangup(s) \/ Late(s)

Spec == Init /\ [][Next]_vars

\* The threads run, the clock goes on, and a stop that was asked for is carried out.
FairSpec == /\ Spec /\ WF_vars(Thread) /\ WF_vars(Worker) /\ WF_vars(Teardown) /\ WF_vars(Tick)
            /\ \A s \in Sessions : WF_vars(Late(s))

-----------------------------------------------------------------------------
(* Properties                                                              *)

\* A session is being set up exactly while a worker, the job queue or the list handed back
\* holds it: neither the sweep, nor an event, nor a full queue takes it from under the
\* worker, and none is left in setup with nobody to finish it (udp_sweep, udp_job_run).
\* And no event of a batch refers to a session whose memory is free: those that a handler
\* destroys stay in the grave until the batch is done (udp_main's test of s->dead).
KeptWhileUsed ==
  /\ State("setup") = HandedOver
  /\ \A s \in Sessions, i \in {0, 1} : <<s, i>> \in evs => sess[s].st # "free"

\* A session has the sockets of its state and no other socket is open: an association
\* that failed half way, was hung up, swept or stopped leaves none behind (udp_setup_done,
\* sess_destroy, teardown).
SocketsOwned ==
  /\ \A s \in Live :
       LET has == {i \in {0, 1} : <<s, i>> \in fds} IN
       CASE sess[s].kind = "direct" -> has = {0}
         [] sess[s].kind = "socks5" /\ sess[s].state = "ready" -> has = {0, 1}
         [] sess[s].kind = "socks5" /\ s \in Range(done) -> has \in {{}, {0, 1}}
         [] OTHER -> has = {}
  /\ \A x \in fds : x[1] \in Live

\* R.nsess counts the live sessions on every path, failed creations included, and stays
\* within MAX_UDP_SESS, the queues stay within theirs, and a stop leaves no session and
\* no socket, wherever the worker and the UDP thread stood.
SessionsExact ==
  /\ TypeOK
  /\ nsess = Cardinality(Live) /\ nsess <= MaxSess
  /\ life = "off" => fds = {} /\ \A s \in Sessions : sess[s].st = "free"

Key(s) == <<sess[s].cli, sess[s].id, sess[s].flow>>

\* One association per client socket and proxy, whatever is swept, hung up, retried or
\* edited: the churn of rules and proxies leaves memory and descriptors flat.
SessionsUnique == \A s, t \in Live : Key(s) = Key(t) => s = t

\* So it is as long as no proxy was deleted.
UniqueUnlessRemoved == removed = {} => SessionsUnique

\* Every setup comes to an end: the hand-back is not lost between the list and the
\* eventfd, and a stop ends it too.
SetupEnds == \A s \in Sessions : (s \in State("setup")) ~> (s \notin State("setup"))

\* A client is not shut out by a failed association: the failed session goes in the end,
\* however busily the client goes on sending (fail_until against s->last).
FailedRetried == \A s \in Sessions : (s \in State("failed")) ~> (s \notin State("failed"))
=============================================================================
