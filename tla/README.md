# PEC: specifications, model checks and proofs

TLA+ modules that model parts of PEC (Proxy Enterprise Client), TLC runs that check them on small
instances, and TLAPS proofs for every instance. PEC is a server that hands out and rotates proxy
credentials, a browser extension, and transparent proxy clients for Linux (eBPF) and Windows
(WinDivert). Modelled are the Linux client's relay (TCP, UDP, resolver, pump), its rules and the
way it keeps the kernel's copy of them in step with its own; the Windows client's TCP packet loop
and its relay pool; and the server's credential rotation with the stores and files it writes.

`PROJECT.json` lists components, runs, mutants, hazards, findings and theorems, and maps every
definition to the lines it models.

## Inventory

Bold components have a module.

| component | state | operations | what is hard | what makes it correct |
|---|---|---|---|---|
| **Linux relay, TCP** (`pb_relay.c`) | connection counter, job queue, hand-over queues, epoll sets | accept, handshake, hand over, serve, close, start, stop | 1 + 16 + up to 8 threads and the caller of stop; atomics beside locks; wake-ups | one owner per connection, exact counter, limit, no leak, no lost wake-up, stop ends and leaves nothing |
| **Linux relay, UDP** (`pb_relay.c`) | sessions, decision cache, list handed back | datagram, set-up, hand-back, sweep, hang-up | set-up result against sweep and stop; a cached decision against edits | no use of a dead session, limits hold, every set-up ends, a failed one is tried again |
| **Linux resolver** (`pb_relay.c`) | lookups in flight, cache | resolve, finish | shared lookups that outlive their waiter | no use after free, thread bound, no other name's address, no entry overwritten with an older one |
| **Linux pump** (`pb_relay.c`) | pending bytes, eof, shutdown flags, shared pipe, DNS buffer | poll, pump, update, DNS framing | half-close with unsent bytes; one pipe for all | bytes in order, shutdown only when drained, answers observed first |
| **Linux rules** (`pb_rules.c`, compile part of `pb_bpf.c`, `decide` of `proxybridge.bpf.c`) | none (pure) | match, compile, walk | a small fixed form must not disagree with the full one | the kernel gives the matcher's verdict or defers |
| **Linux core and datapath** (`ProxyBridge.c`, `pb_bpf.c`) | rules, proxies, switches; maps `brules`, `classes`, `exe2class`, `dom_hit`, `cfg`; known programs | rule and proxy calls, sync, learn, maintenance, start, stop | hooks run during a sync; switches written without the lock; rearm under a read lock | after any history the kernel agrees with the matcher |
| **Linux DNS table** (`pb_dns.c`) | address to names, oldest first; pending query ids | record, merge, evict, look up | eviction against armed pairs; answers against rule calls | armed pairs are those of the present rules and names |
| Linux profile store, GUI, command line, process lookup | profile files, engine state | switch profile, start, stop | engine thread against main thread | switches end as the user set them |
| **Windows packet loop, conntrack, PID cache** (`ProxyBridge.c`, `pb_conntrack.c`, `pb_process.c`) | entries, two port bitmaps, cached processes | judge, redirect, fin, age, rule calls | two FIN directions; ports reused and shared by families | a new connection is judged by the rules in force, one under way keeps its path |
| **Windows relay** (`pb_relay.c`) | completion port, directions, buffers, list of relays | start, complete, end, release, stop | completions, aborts and the stop on several threads | one holder per direction, no use after free, the stop ends |
| Windows UDP relay, socket map, service, GUI, command line, installer | socket map, service state | forward, start, stop | as the Linux UDP relay | as the Linux UDP relay |
| **Server rotation and scheduler** (`rotate.ts`, `scheduler.ts`) | credentials, configuration, timer, lock | rotate, sync, restart | awaits in the middle; panel and three files; crashes | panel, list and files agree, or come together again |
| **Server proxy store** (`proxies.ts`, `proxiesRoutes.ts`, `jsonStore.ts`) | nodes, active node, JSON files | create, edit, delete, activate, sync, save | crash between two files; requests during a rotation | one active node, files that say the same |
| Server instances, auth, audit, releases, routing, routes, packaging | sessions, logs, archives | requests | expiry and lock-out counters | no session outlives its end |
| Browser extension | credentials, proxy setting | refresh, apply, clear | service worker restarts, late answers | newest credentials win |

Interactions on Linux: the BPF hooks rewrite a flow to the TCP or the UDP relay with its verdict,
or with "decide"; a relay worker then asks `pb_core_decide`, which also teaches the kernel the
program. A worker that needs a proxy's address calls the resolver, whose lookups several workers
share and which outlives a stop. A connection whose handshake is done is handed to a data thread,
whose pump moves its bytes; DNS answers passing through it fill the table of `pb_dns.c` and arm
pairs (rule position, address) in `dom_hit` before they are delivered. API calls change rules under
`G.lock` and rewrite the maps; the maintenance thread rereads `/etc/hosts` and rearms.

On Windows one thread takes every captured packet, decides by the tables and rewrites it to the
local relay, whose accept loop finds the real destination in the connection table and starts a
handler; the handler gives both sockets to the pool, or relays by itself when there is none. The
cleanup thread ages the tables. The server keeps its nodes in `proxies.json` and derives the
active one's `proxy_config.json` and `current_creds.json` from it; clients fetch the latter, the
panel holds the passwords that count.

Modules meet where components do: `LinuxRelayTcp` abstracts the pump to "stays or is closed" and
the handshake to "succeeds or fails"; `LinuxConnPump` starts where `LinuxRelayTcp` adopts a
connection and `LinuxResolver` is one of the handshake's calls; `LinuxDatapath` uses
`LinuxRules` for both sides of the agreement; `WinRelay` starts where `WinPackets` accepts.

## Modules

**`LinuxRelayTcp`** models `pb_relay.c`, TCP: acceptor, job queue, workers, hand-over, data threads,
start (with every way it can fail) and the steps of `teardown`. An action is one critical section or
one run of thread-local code. `life` is the control of start and stop under `R.life`; `jq` is
`R.jhead..jtail`; `inq`, `wake`, `load` are the shared part of `struct dthread`; `accpc`, `wpc`,
`dpc` are where threads stand; `evStop`, `evWake`, `evConns` are the events `epoll_wait` returned
and the thread has not yet handled, taken in any order. A client's name is free again once its
struct is. `RelayPool` is what a caller is promised: a bounded pool of connections, nothing served
after a stop is asked for, nothing left when it returns; `LinuxRelayTcp!Pool` is the refinement.

**`LinuxRelayUdp`** models the UDP thread and its workers: `Dgram` (decision cache, session found or
made, datagram queued), `JobRun` and `JobWake` (`udp_job_run`: a worker sets the association up,
puts it on `R.done` and writes the eventfd), `SetupDone`, `CtlEvent`, `Sweep`, and the end of a
batch that frees the grave. `sess[s].st` is the memory (`free`, `live`, `grave`), `sess[s].state`
the association; `fds` are the open sockets. `SetProxy` is the control API on the proxies, which a
cached decision (`dc`) names by id.

**`LinuxResolver`** models `resolve_v4` and `res_thread`: fresh and stale cache entries, a
lookup joined or started, `RES_MAX_THREADS`, the deadline, `stopfd`, the last user that frees.
All of it is under `res_mu`, so a call is one step up to its wait. `Tick` ages entries and runs
down deadlines; `Move` changes an address outside.

**`LinuxConnPump`** models one data thread over its connections: `Poll`, `Adopt`, `Serve`, then the
turns of `conn_pump` as `Spliced` (two system calls over the shared pipe, with a spill or a
discard), `Copy`, `Flush`, `DnsUp` and `Turned`, each an interruptible step; `Update` derives the
interest of `conn_update`. The peers write, finish, reset and take what is in their socket.
`ByteStreams` is the promise: each direction a stream that arrives in order and ends after its
last byte, whatever the other one does; `Streams` is the refinement.

**`LinuxRules`** holds the pure part: `Reference` (the matcher: `pb_rules_eval` and `pb_core_decide`),
`Compile`, `ClassFor`, `Armed` (what `pb_bpf.c` derives), `KernelVerdict` (the hooks' `decide`). A
pattern is the set of what it matches; the parts of a list that do not fit the kernel's fixed
arrays are kept apart (`rest4`, `restPorts`), because the kernel answers "maybe" for them.

**`LinuxDatapath`** is the state around it: the API calls, each followed by the steps of
`sync_locked` (one rule at a time, the scan of `/proc`, one program's class and then its pointer,
the switches read and later written, the rearm), during which hooks, DNS answers, the maintenance
thread and the lock-free `ProxyBridge_SetDnsViaProxy` may come in between. `wpc` is the writer
under `G.lock`; `maint` is the maintenance thread; `obs` is an answer recorded but not yet armed.

**`WinPackets`** models the TCP half of `packet_processor`: one captured segment is one step
(`Segment`), which reads and writes the entries (`entry`), the two bitmaps (`decided`, `direct`,
by port alone) and the PID cache (`pids`). The connections of the applications, and what each end
has sent, are the environment; `SetRule` and `SetEnabled` are the calls; `Cleanup` and
`PidExpires` age.

**`WinRelay`** models the completion-port relay: a direction (`dir`) is at the system (`pending`),
queued at the port (`done`) or in a thread's hands (`held`); `thr` is where each handler, worker
and the stopping thread stand. `Post`, `Serve`, `Abort`, `Shut`, `Cancel`, `Release`, `Unlink`,
`Free` are the steps of `relay_post_*`, `relay_worker`, `relay_abort` and `relay_release`; the
stop's are those of `ProxyBridge_Stop` and `relay_pool_stop`.

**`ServerRotation`** models rotation, sync and the creation of a panel proxy as tasks that await the
panel's list (`Listed`, which takes the first account when none has the node's name) and the
panel's answer (`Posted`, `Stored`, `Lost`, `Fail`), with the lock of the scheduler; and each
handler's file writes one by one (`todo`), with a crash and restart between any two. `Aim` is the
choice a rotation makes: the panel of the configuration, the active node's own panel if it is
registered, or the credentials file alone (`Reaches`). The operator's requests are `SetActiveProxy`,
`Edit` (a PUT, which replaces any field of a node), `DeleteProxy`, `CreateManual`, `SetConfig`
(POST `/api/config`, which writes `proxy_config.json` past the nodes) and `SetPanels` (panels
registered and deleted). `panel` holds the accounts' passwords, `list`, `conf` and `creds` the three
files; `schedule` is what the rotation's configuration names and `registered` whether the nodes'
panel is in the registry. A host stands for protocol, host and port; `Placeholder` is 10.0.0.1 or
0.0.0.0, which no active node counts with. `odd` records what happened that may set panel and files
apart; it is read only by the properties.

`MC…` modules give TLC the instances; `…Proofs` modules hold the proofs. A mutant of a definition,
a form a plausible bug would give it, stands just before it and is used nowhere; the run named in
`PROJECT.json` finds its property violated with it.

## Runs

| run | what it asks | bounds | distinct states |
|---|---|---|---|
| `LinuxRelayTcpSafety` | ownership, sockets, counters, dangling events, clean stop, refinement of `RelayPool` | 3 clients against a limit of 2, 1 worker, 2 data threads, queue 1, 1 accept per wake-up | 2.5 million |
| `LinuxRelayTcpLive` | stops end, no lost wake-up | 2 clients, 2 workers, 1 data thread, queue 1, 2 accepts | 290 thousand |
| `LinuxRelayUdp` | sessions kept while used, sockets, limits, one session per key, set-ups end, failures retried | 1 client, 2 flows, 1 proxy, 2 sessions, queue 1, 1 edit | 550 thousand |
| `LinuxResolver` | references and threads exact, own address, never back | 2 callers, 3 names, 4 requests, 2 threads, cache 2, 1 move | 1.3 million |
| `LinuxConnPump` | bytes intact, observed first, refinement of `ByteStreams`, half-close crosses, delivery | 2 connections that share the pipe, or 1 DNS connection; 1 reset; 2 units per call, 1 per socket | 510 thousand |
| `LinuxDatapathDomains` | agreement, exact arming | an address with up to 2 names, a local one, IPv6, 2 rules, 1 proxy, renames | 6.3 million |
| `LinuxDatapathPrograms` | agreement, DNS tap, classes | 2 programs, 1 rule per class, 1 class besides the empty one, exec before the decision | 2.5 million |
| `WinPackets` | judged by the rules in force, relay finds the destination, proxied stays, direct stays | 2 processes, 2 ports (one per family), 3 destinations (one a proxy server, one exempt or link-local), 2 edits | 2.4 million |
| `WinRelay` | one holder, no use after free, buffers, bytes, ended relays released, stop ends | 1 connection, 2 workers, 2 units up and 1 down, buffers of 5 units, pool of 1, with and without the pool | 520 thousand |
| `ServerRotation` | apart only by known causes, heals | 2 node ids, 2 accounts, 2 hosts (one a placeholder), 2 tasks, 1 operator's call or sync, 1 fault | 1.1 million |

The types of a module's variables (`TypeOK`) are part of one of its invariants, and of the proved
invariant where there is one.

The bounds are the least at which the interesting cases happen. A client refused for the limit needs
one more client than the limit; a full job queue needs two clients and a queue of one; two workers
let one be woken while another leaves; two data threads let a connection be handed to one while the
other's load changes; a stop can come at any of these moments. Two UDP sessions let one be in set-up
while the other fails, is swept or takes the last place; two flows separate a flow's direct session
from the client's association. Three names and a cache of two evict; four requests keep a lookup
whose callers have gone beside its successor. Two connections are what it takes to leave bytes in
the pipe of another; with two units per call and one per socket every write can be partial. For the
datapath, one rule per class makes an overflow reachable with two rules, one class makes the table
full with two programs, and two names, of which one is a rule's, let an answer be merged with an
earlier one; a second address would only repeat what is armed for the first, as long as the table
holds both. (Both runs keep within the table and the eight names of an address; what happens beyond
is shown by two instances below.) Two ports and three destinations give `WinPackets` both families
and the destinations that are never judged; two edits change a rule and change it back. One relay
has two directions, so two workers and a handler already meet in every pair; with buffers of five
units one unit is light use, after which a buffer goes back to the pool, and two keep it. Two tasks
are one overlap, one call is one edit or sync beside any number of rotations, and one fault is a
crash, a failed request or a lost answer at any moment; the proof has no such bounds. Symmetry is
used in the runs without liveness, for clients and data threads of `LinuxRelayTcpSafety` and in
`LinuxResolver`.

**Fairness.** Only what the code's scheduling gives:

- `LinuxRelayTcp`: weak fairness of each thread's steps, because the kernel schedules threads, a
  handshake has a deadline (`handshake_timeout_s`), and the caller of `teardown` does nothing else.
  Clients, start and stop requests and spurious wake-ups get none.
- `LinuxRelayUdp`: the same for the UDP thread, the workers and a stop once asked for, and for the
  clock. Clients and proxies need not act.
- `LinuxConnPump`: the data thread, and the ends' sockets, which take what they have been given.
  An end need not write, finish or close.
- `WinRelay`: workers, handlers, the stopping thread, and the system, which completes what was
  cancelled or shut down. No end need send or close, and a relay that a handler runs by itself
  need not end.
- `ServerRotation`: pending file writes (weak), rotations are started again and again by the timer
  (weak), and a task's answer is taken in the end (strong, per task: the event loop takes
  callbacks in turn, and a handler that is writing disables the others for a moment only).

**Deadlock** is checked except in two runs: in `LinuxConnPump` all connections may be closed and
nothing is left to do, and in `WinRelay` all threads have ended after the stop.

### Statements the code does not keep

Each run checks one statement of the documentation, comments or tests of the repository against
what the code does. The first two are runs of the project with a finding that quotes the line; the
others are configurations kept here to be run by hand (`tlc -config X.cfg MC<module>`).

| configuration | statement | what the code does |
|---|---|---|
| `LinuxRelayUdpChurn` | memory, descriptors and threads stay flat under churn (`churn_test.c`) | a cached decision naming a deleted proxy makes a new session with every datagram |
| `WinPacketsShared` | IPv4 and IPv6 may share a port; proxied connections keep working | the bitmaps know the port alone: one family's decision passes on the other's packets |
| `LinuxDatapathDeleted` | a rule whose proxy is gone blocks | it uses the default proxy while there is one |
| `LinuxDatapathEvicted` | the kernel is a subset of the matcher | an evicted address stays armed |
| `LinuxDatapathNames` | the same | an address with as many names as it can keep (8; 1 in the run) forgets its oldest one, whose pair stays armed |
| `LinuxDatapathExec` | matched against the file's name and path | the path is read later than the program |
| `LinuxDatapathFlags` | the DNS switch makes port 53 direct | an older value can be written last |
| `LinuxDatapathIds` | each rule chooses its proxy | ids are cut to 16 bits (1 bit in the run, so that 3 additions suffice) |
| `LinuxDatapathV6` | native IPv6 that must be proxied is refused | "decide" is let through |
| `WinRelayStop` | handlers are counted "so that ProxyBridge_Stop() can wait for all of them" | the wait ends after 35 s; a handler that relays by itself may go on |
| `ServerRotationOverlap` | the scheduler's lock keeps panel and local writes from interleaving | it covers rotations only; a sync or a new panel proxy overlaps one |

The lock does what it can: with `MayRotate` always true, two rotations part panel and files without
a cause, and `ApartOnlyByKnownCauses` fails within seconds on the instance without calls or faults.

`Coherent` is checked both ways: it holds in the two passing runs of `LinuxDatapath`, whose bounds
exclude exactly the four situations in which `Evicted`, `Names`, `Flags` and `Ids` refute it (table
smaller than the addresses in use, an address with more names than it keeps, two calling threads,
more ids than the field holds). `StopEnds` of `WinRelay` takes the stop's waits as long enough;
what happens when they are not is shown by `WinRelayStop` alone. Likewise
`UniqueUnlessRemoved` excludes deleted proxies, `ProxiedKeepWorking` passes with a port of its own
for each family, and `ApartOnlyByKnownCauses` names overlaps as one of its causes. `Heals` is about nodes that rotation
can repair: the active one names an account the panel knows, and rotations reach the panel. A name
mistyped into a node, for which a rotation sets the first account's password and leaves the name as
it is, and a panel node whose panel is gone, for which it rotates the file alone, are not repaired
by any number of rotations; both are causes that `ApartOnlyByKnownCauses` names.

## Proofs

Every theorem is about the module's `Spec` for all values of the constants that its named
assumptions admit: finite sets of clients, callers, sessions or workers, positive limits, marks
such as `None` that are no member of the sets they stand beside. Each proof module joins what the
runs check with what makes it inductive, has one lemma per action, and derives the properties from
the joint invariant.

**`LinuxRelayTcpProofs`**: for any finite set of clients, any workers and data threads, any limits
(`RelayAssumption`), the relay is type correct and satisfies `NconnExact`, `SingleOwner`,
`SocketsOwned`, `LimitRespected`, `NoDanglingEvent`, `StoppedClean`, `LoadExact`, and implements
`RelayPool`. None of these is inductive alone. The invariant `RelayInv` joins them with `Control`:
the counter is decremented on a path only because that path owns one connection (`SingleOwner`), a
stop drains without locks only because `Control` says the threads are gone, and the limit follows
from the counter being the number of owned connections. The proof has one lemma per action, most
of them for a conjunct of ownership; queues enter through four lemmas on `Range` and `IsInjective`
of an appended or shortened sequence, counting through the library's facts on cardinality. The
refinement maps `held` to the open client sockets: accepting within the limit is `Admit`,
`WorkerPush` is `Serve`, each close is `Release`, and everything else stutters. `TypeOK`,
`Control` and `LimitRespected` are proved and no run repeats them; the refinement run checks the
limit through `Admit`.

**`LinuxRelayUdpProofs`**: a session is in set-up exactly while a worker, the job queue or the list
handed back holds it, and no event of the batch in hand refers to freed memory (`KeptWhileUsed`);
the sockets open are those that sessions and workers own (`SocketsOwned`); the counter is the number
of sessions (`SessionsExact`); and a client has one session per proxy as long as no proxy was removed
(`UniqueUnlessRemoved`). The invariant adds that a worker holds a session exactly while it runs a
job, and that the job queue, the list handed back and the workers' hands are disjoint and without
duplicates (`Queues`): only therefore is a session that comes back still there. `Events` says that a
name in the batch is that of a ready session or of one destroyed since, and `Decided` that a cached
decision names a proxy that exists while none was removed.

**`LinuxResolverProofs`**: the references of a request are its waiting callers and its thread
(`LookupsExact`), no caller is given another name's address (`OwnAddress`), and no cache entry is
ever overwritten with an older address, nor lost but as one of the oldest of a full cache
(`NeverBack`, an action property). It says nothing of a name without an entry nor of what callers
are answered, which is `OwnAddress`'s subject. `NeverBack` needs the strongest invariant: a name has
one thread at a time, and what that thread carries is no older than what the cache holds (`Dated`),
so a thread that outlives its callers cannot overwrite what a later one found.

**`LinuxDatapathProofs`**: that the kernel's copy follows the client's, in three steps. `IInv`
needs no assumption: table shapes (`Shape`), ids below the next one (`Ids`), and that each writer of
a synchronisation has written what it has passed: rules up to its position (`RulesWritten`), every
interned class (`ClassesWritten`), and for each program passed, no class or that of the present rules
(`ProgramsPlaced`). With calls from one thread the switches follow too (`SwitchesWritten`): nothing
is left between the read and the write of a flag. In every history in which no address loses a name
it had in the table (`[][Remembers]_vars`, a hypothesis on the history, since both an eviction and
the limit of names per address take names away while their pairs stay armed) the armed pairs lie
between those of the recorded answers and those still being armed (`PairsWritten`). At rest these
give `ArmedExactly`, `TapsExactly` and, with `CompiledRulesAgree` and ids within the field,
`Coherent`. `ForgetsNothing` says when all histories are such: if the table has room for every
address and an address for every name (`RoomForAll`); the proof counts addresses with
`FS_Injection`. Each assumption is needed: the instances `LinuxDatapathFlags`,
`LinuxDatapathEvicted`, `LinuxDatapathNames` and `LinuxDatapathIds` show the property failing
without it.

The same module first proves `CompiledRulesAgree` of `LinuxRules`. For every rule list, proxy list,
program and destination, if the kernel's rules, switches and class are those compiled from the
present ones and the armed pairs are exact, its verdict is the matcher's or "decide". It needs proxy
ids below `IdWidth` (the assumption whose failure `LinuxDatapathIds` shows) and IPv4 and IPv6
addresses to be distinct. The argument: per rule, "yes" implies a match and "no" a miss
(`RuleMatchSound`); the matcher's first match is never cut off by an earlier catch-all
(`FirstMatchReached`); so the first rule the kernel does not miss is either a "maybe" or that first
match, and compilation keeps its action (`CompiledVerdict`).

**`WinPacketsProofs`**: a segment is a function of the tables, so the proof has lemmas about table
values: each update touches only its own key and its port's bits (`Local`), a SYN leaves nothing of
an earlier connection (`Freshens`), and what `Segment` makes of tables that fit a connection fits it
again (`SynJudged`, `LaterJudged`). `KeptAt` says that the process cached for a connection is its own
and that a proxied connection's entry is there, with no side finished in it that has not finished
in the connection; it holds whoever shares the port, and gives `JudgedByTheRules` and
`RelayKnowsDestination`. `MarkedAt` says what the bitmaps hold for a connection; it needs local ports
of its own (`PortsApart`), since the bitmaps do not know the family, and gives `ProxiedKeepWorking`
and `DirectStaysDirect`. The run `WinPacketsShared` shows the first failing without that assumption.

**`WinRelayProofs`**: each direction of a relay is held by one thread at most or has one operation
in the kernel (`OneHolder`), nothing touches a relay that was freed (`NoUseAfterFree`), every
buffer is in a relay, in the pool or freed (`BuffersAccounted`), and units arrive whole and in
order (`Intact`). The control half of the invariant says what each kind of thread may be doing
(`Roles`), that a direction is held exactly while a thread has it (`Places`), that a relay's count
is the number of its directions that have not ended (`Counted`), that the thread which ended the
last of them frees it (`LastHands`), and that the stop holds the list's lock while it walks, so
what it has still to visit is listed (`Walking`). The data half keeps, for each direction, that
what was read is at the source, in the kernel, in hand or delivered (`Balance`), and in total that
memory is the pool and the buffers in use (`Totals`). `Closing` says that sockets are shut only on
relays that are closing. Each action has a lemma for either half.

**`LinuxConnPumpProofs`**: for any connections and any sizes of calls, sockets, pipe and buffer, what
arrives at an end is a beginning of what the other sent (`Intact`), DNS answers are observed before
they are delivered (`ObservedFirst`), and the pump implements `ByteStreams`. The invariant `PumpInv`
is `Types`, `Placed` (the shared pipe holds units only while the thread is in the middle of a
splice, and then only those of the connection it is at) and, for each connection, `Sound`. Its
heart is `Stretches`: what has arrived, what is in the pipe, what is pending and what the DNS
buffer holds are consecutive stretches of the stream up to what was read, so a partial write, a
spill or a flush only moves a border between neighbours. `Ended` keeps the shutdown behind the last
of them. For DNS, `Framed` says where in a message the pump stands, and `Observed` that for every
unit that has left the buffer the end of its message was observed, or the stream ended inside it.
The lemmas on `Stream` (joining, cutting, going on) serve every action; `TapCovers` is the one
about `dns_pump_up`'s loop over complete messages. Each action has a lemma which also shows its step
to be one of `ByteStreams` or a stutter.

**`ServerRotationProofs`**: the panel, the nodes and the two files come apart only by the causes
`ApartOnlyByKnownCauses` names, for any accounts, proxies, hosts and tasks and any number of calls
and faults. Nine causes are named: a crash between two writes or after the panel's update; a lost
answer; an overlap of tasks; a call that writes during a task; a rotation of an account without a
panel node active; a rotation of the file alone with one active; a panel node whose name, password
or type an operator replaces; a posted configuration; a second node for an account. What two files
say between two writes, or a node while the panel has moved on, is not what the property says, so
the invariant `RotationInv` speaks of what is to come. `Good` relates values: a list of nodes, an
id, credentials and the accounts' passwords; `Together` asks it, until one of the causes has
occurred, of the files as they will be when the handler's writes are done (`ListNext`, `ConfNext`,
`CredsNext`), and for a task that has its answer of the panel with its own account put back: only
that account has moved, and the task brings its password (`OnCourse`). That the node it started from
is still there (`Aimed`) holds because a call in between is one of the causes. `NewIds` keeps the id
of a proxy that is being created from everything else. The lemmas are about values first (what
`UpdateProxy`, `CreateProxy`, `DeleteProxy` and `SetActiveProxy` make of a list that is good), then
about how a handler's writes end, then one for each action. `RotationAssumption` has enough
passwords that one is unused (`PassesInUse`; in the code they are random, 12 in the run), which the
proof counts with the library's facts on images and unions; without it `Fresh` would be no password.

Only model-checked: liveness, which is beyond the prover (`Heals` of the rotation, `StopEnds` of the
relays, `JobTaken` and `HandoverTaken`, `SetupEnds` and `FailedRetried`, `EndedReleased`,
`HalfCloseCrosses` and `Delivered` of the pump).

## What is abstracted or left out

- `LinuxRelayTcp`: bytes are `LinuxConnPump`'s. Jobs of the UDP half share the worker queue in the
  code and are left out here, as is memory exhaustion; `LinuxRelayUdp` has a queue of its own.
- `LinuxRelayUdp`: payloads, the table of flows inside a session with its LRU, replies and how
  they find their flow, two flows that share a slot of the decision cache.
- `LinuxResolver`: several addresses of a name; a name that is an address already.
- `LinuxConnPump`: a recv and the send of what it returned are one step; observation of a client's
  own DNS query, failing allocations.
- `LinuxDatapath`: hooks evaluate a verdict in one step; one that reads maps on both sides of a step
  sees a mixture that no single state shows. `dom_hit` is cleared in one step and filled in one
  step, `cfg.dns_tap` and `cfg.enabled` are written in one. A DNS answer and a line of `/etc/hosts`
  have one address; which of an address's names are the oldest is left open; the list of pending
  query ids and `pb_dns_clear` are left out. `dom_hit`'s own size is not reached. Start and stop of
  the datapath, exempt processes and the relay's own process, the flow and origin maps, logging.
- `LinuxRules`: rules are enabled and well formed, from a few texts; parsing and globbing are left
  out.
- `WinPackets`: UDP, the direct-flow cache, the reverse index and hash buckets, address rewriting,
  pattern matching. `Logging` is off in the runs.
- `WinRelay`: the stop's waits of 3 s and 35 s are taken as long enough for what ends by itself;
  a connection is relayed once; proxy dialogues succeed or fail.
- `ServerRotation`: the rotation's configuration and its history are fixed while the server runs.
  There is one panel with one inbound: an edit of a node's tag or panel, which would aim a rotation
  at another inbound, is left out, as are accounts that the panel gains, loses or renames, and
  accounts without a password. The port and protocol a sync takes over from the inbound, the
  routing mode and other fields of the configuration, `ensureCredsStore` at start-up, failing file
  writes, the panel's session, a corrupt file, the unlink before the rename on Windows.

## Not modelled

Process lookup and the profile store on Linux, the GUIs, command lines, the Windows service and
installer: callers of the cores above, or stateless scans. The server's authentication, audit,
instances, releases, routing profiles, HTTP routes, packaging and signing: text and binary formats
over simple stores. The browser extension. The proxy dialogues (SOCKS5, HTTP CONNECT) of both
clients: sequential parsing, whose outcome is all the relays see. Most of the C and C++ lines of
the repository are the vendored Dear ImGui and the Windows user interface drawn with it, which
hold no logic to model.

## Plan

1. `LinuxLifecycle`: Start and Stop of `ProxyBridge.c` against calls, maintenance and relay
   callbacks; the exempt set; the proxy looked up again at handshake time. 2 callers, failing
   starts.
2. `LinuxDns`: several addresses and names per answer, query ids, the flag read before the lock.
3. The table of flows of a UDP session, and the UDP half of the Windows packet loop and relay.
4. The extension: credential refresh against worker restarts; the schedule's configuration changed
   during a rotation.
