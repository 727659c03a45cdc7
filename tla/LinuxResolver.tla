--------------------------- MODULE LinuxResolver ---------------------------
(***************************************************************************)
(* The name resolver of the Linux relay, client/Linux/src/pb_relay.c:      *)
(* resolve_v4, called by any handshake or set-up worker, and res_thread,   *)
(* the detached thread that asks the system's resolver.  All of the state  *)
(* is under res_mu; a caller releases it only while it waits.              *)
(*                                                                         *)
(* Time is a tick that ages the cache and runs down the callers'           *)
(* deadlines; the system's resolver answers late, never, wrongly (an       *)
(* error), or with the address the name had when it looked.                *)
(***************************************************************************)
EXTENDS Naturals, FiniteSets, Functions

CONSTANTS
  Callers,     \* threads that may call resolve_v4
  Names,       \* host names of proxies
  Reqs,        \* structs resreq (a name is reused once its struct is freed)
  MaxThreads,  \* RES_MAX_THREADS
  CacheN,      \* RES_CACHE_N
  Ttl,         \* RES_TTL_MS, in ticks
  Stale,       \* RES_STALE_MS, in ticks
  Deadline,    \* RES_DEADLINE_MS, in ticks
  Moves,       \* bound: how often an address changes
  None,        \* no request, no address, no thread
  Asking, Failed  \* a lookup thread: inside getaddrinfo, or given an error

ASSUME ResolverAssumption ==
  /\ IsFiniteSet(Callers) /\ IsFiniteSet(Reqs)
  /\ MaxThreads \in Nat \ {0} /\ CacheN \in Nat \ {0}
  /\ Ttl \in Nat /\ Stale \in Nat /\ Ttl <= Stale
  /\ Deadline \in Nat /\ Moves \in Nat
  /\ None # Asking /\ None # Failed /\ Asking # Failed

VARIABLES
  truth,     \* the address each name has, outside: 0, 1, ...
  cache,     \* name -> [addr, age], on the names in res_cache
  req,       \* request -> its struct, or None when it is not allocated
  inflight,  \* res_inflight
  threads,   \* res_threads
  thread,    \* request -> its thread: None (ended), Asking, Failed or an address
  call,      \* caller -> the wait it is in, [name, req, left], or None
  stopping,  \* the relay's stopfd is readable
  answer     \* what this step returned to a caller, [name, out], or None

vars == <<truth, cache, req, inflight, threads, thread, call, stopping, answer>>

\* An address is the name it belongs to and how often that name had moved.
Address == [of : Names, gen : 0 .. Moves]

Request  == [name : Names, refs : Nat, done : BOOLEAN, out : Address \cup {None}]
Waiting  == [name : Names, req : Reqs, left : 0 .. Deadline]

\* The three marks are no address, and no struct or wait is missing.
ASSUME MarksAssumption ==
  /\ \A mark \in {None, Asking, Failed} : mark \notin Address
  /\ None \notin Request /\ None \notin Waiting

TypeOK ==
  /\ truth \in [Names -> 0 .. Moves]
  /\ DOMAIN cache \subseteq Names /\ Cardinality(DOMAIN cache) <= CacheN
  /\ \A n \in DOMAIN cache : cache[n] \in [addr : Address, age : 0 .. Stale]
  /\ \A r \in Reqs : req[r] = None \/ req[r] \in Request
  /\ inflight \subseteq Reqs /\ threads \in Nat
  /\ \A r \in Reqs : thread[r] \in {None, Asking, Failed} \/ thread[r] \in Address
  /\ \A c \in Callers : call[c] = None \/ call[c] \in Waiting
  /\ stopping \in BOOLEAN
  /\ answer = None \/ answer \in [name : Names, out : Address \cup {None}]

Init ==
  /\ truth = [n \in Names |-> 0]
  /\ cache = [n \in {} |-> None]
  /\ req = [r \in Reqs |-> None]
  /\ inflight = {} /\ threads = 0
  /\ thread = [r \in Reqs |-> None]
  /\ call = [c \in Callers |-> None]
  /\ stopping = FALSE
  /\ answer = None

-----------------------------------------------------------------------------
(* The system's resolver and the clock.                                    *)

\* The owner of a name gives it another address.
Move(n) ==
  /\ \A m \in Names : truth[m] < Moves
  /\ truth' = [truth EXCEPT ![n] = @ + 1]
  /\ answer' = None
  /\ UNCHANGED <<cache, req, inflight, threads, thread, call, stopping>>

\* getaddrinfo ends, with the address of this moment or with an error.
Look(r) ==
  /\ thread[r] = Asking
  /\ \E a \in {Failed, [of |-> req[r].name, gen |-> truth[req[r].name]]} :
       thread' = [thread EXCEPT ![r] = a]
  /\ answer' = None
  /\ UNCHANGED <<truth, cache, req, inflight, threads, call, stopping>>

Older(age) == IF age < Stale THEN age + 1 ELSE age

Waits(c) == call[c] # None

Tick ==
  /\ cache' = [n \in DOMAIN cache |-> [cache[n] EXCEPT !.age = Older(@)]]
  /\ call' = [c \in Callers |-> IF Waits(c) /\ call[c].left > 0
                                THEN [call[c] EXCEPT !.left = @ - 1] ELSE call[c]]
  /\ <<cache, call>>' # <<cache, call>>
  /\ answer' = None
  /\ UNCHANGED <<truth, req, inflight, threads, thread, stopping>>

\* pb_relay_stop joins the threads that call before a relay starts again.
StopRelay ==
  /\ ~stopping
  /\ stopping' = TRUE
  /\ answer' = None
  /\ UNCHANGED <<truth, cache, req, inflight, threads, thread, call>>

StartRelay ==
  /\ stopping /\ \A c \in Callers : ~Waits(c)
  /\ stopping' = FALSE
  /\ answer' = None
  /\ UNCHANGED <<truth, cache, req, inflight, threads, thread, call>>

-----------------------------------------------------------------------------
(* res_thread, with res_mu held                                            *)

\* Entries are compared by `when`; a full cache loses its oldest one.
Oldest(n) == \A m \in DOMAIN cache : cache[m].age <= cache[n].age

Full == Cardinality(DOMAIN cache) >= CacheN

\* Mutant of Kept: room is made although the name has its entry already.
KeptAlways(n, victim) == IF Full THEN DOMAIN cache \ {victim} ELSE DOMAIN cache

\* The entries that stay when a name's answer comes in.
Kept(n, victim) ==
  IF Full /\ n \notin DOMAIN cache THEN DOMAIN cache \ {victim} ELSE DOMAIN cache

Learn(n, a) ==
  IF a = Failed THEN UNCHANGED cache
  ELSE \E victim \in {m \in DOMAIN cache : Oldest(m)} \cup {None} :
         /\ victim = None <=> DOMAIN cache = {}
         /\ cache' = [m \in Kept(n, victim) \cup {n} |->
                        IF m = n THEN [addr |-> a, age |-> 0] ELSE cache[m]]

\* Mutant of Unref: the struct goes while another still holds it.
UnrefFrees(q) == None

\* res_unref: the last user frees the struct.
Unref(q) == IF q.refs = 1 THEN None ELSE [q EXCEPT !.refs = @ - 1]

Publish(r) ==
  /\ thread[r] \notin {None, Asking}
  /\ Learn(req[r].name, thread[r])
  /\ req' = [req EXCEPT ![r] = Unref([req[r] EXCEPT !.done = TRUE,
               !.out = IF thread[r] = Failed THEN None ELSE thread[r]])]
  /\ inflight' = inflight \ {r}
  /\ threads' = threads - 1
  /\ thread' = [thread EXCEPT ![r] = None]
  /\ answer' = None
  /\ UNCHANGED <<truth, call, stopping>>

-----------------------------------------------------------------------------
(* resolve_v4                                                              *)

Fresh(n)  == n \in DOMAIN cache /\ cache[n].age < Ttl
Usable(n) == n \in DOMAIN cache /\ cache[n].age < Stale

\* A call ends with its lookup's answer, else with the last one known for the name.
Return(n, out) ==
  answer' = [name |-> n, out |-> IF out = None /\ Usable(n) THEN cache[n].addr ELSE out]

\* Mutant of Joins: a request is shared whatever its name.
JoinsAny(n) == inflight

\* The lookups of this name that are under way.
Joins(n) == {r \in inflight : req[r].name = n}

Busy == threads >= MaxThreads

\* The first critical section, up to the first wait.
Cached(n) ==
  /\ Fresh(n)
  /\ answer' = [name |-> n, out |-> cache[n].addr]
  /\ UNCHANGED <<call, req, inflight, threads, thread>>

Wait(c, n, r, left) ==
  /\ call' = [call EXCEPT ![c] = [name |-> n, req |-> r, left |-> left]]
  /\ answer' = None

Join(c, n, left) ==
  /\ ~Fresh(n)
  /\ \E r \in Joins(n) :
       /\ req' = [req EXCEPT ![r].refs = @ + 1]
       /\ Wait(c, n, r, left)
  /\ UNCHANGED <<inflight, threads, thread>>

\* RES_MAX_THREADS lookups run, there is no memory, or no thread can be created.
Refuse(n) ==
  /\ ~Fresh(n) /\ Joins(n) = {}
  /\ Return(n, None)
  /\ UNCHANGED <<call, req, inflight, threads, thread>>

StartLookup(c, n, left) ==
  /\ ~Fresh(n) /\ Joins(n) = {} /\ ~Busy
  /\ \E q \in Reqs : req[q] = None             \* calloc
  /\ LET r == CHOOSE q \in Reqs : req[q] = None
     IN  /\ req' = [req EXCEPT ![r] = [name |-> n, refs |-> 2, done |-> FALSE, out |-> None]]
         /\ inflight' = inflight \cup {r}
         /\ thread' = [thread EXCEPT ![r] = Asking]
         /\ Wait(c, n, r, left)
  /\ threads' = threads + 1

Call(c) ==
  /\ ~Waits(c)
  /\ \E n \in Names, left \in 0 .. Deadline :
       \/ Cached(n)
       \/ Join(c, n, left)
       \/ Refuse(n)
       \/ StartLookup(c, n, left)
  /\ UNCHANGED <<truth, cache, stopping>>

\* The loop around pthread_cond_timedwait ends.
WaitOver(c) == req[call[c].req].done \/ call[c].left = 0 \/ stopping

\* One look at the loop's conditions; the timed wait ends after 50 ms at most.
Wake(c) ==
  /\ Waits(c)
  /\ WaitOver(c)
  /\ LET r == call[c].req
     IN  /\ Return(call[c].name, req[r].out)
         /\ req' = [req EXCEPT ![r] = Unref(req[r])]
  /\ call' = [call EXCEPT ![c] = None]
  /\ UNCHANGED <<truth, cache, inflight, threads, thread, stopping>>

Next ==
  \/ \E n \in Names : Move(n)
  \/ \E r \in Reqs : Look(r) \/ Publish(r)
  \/ \E c \in Callers : Call(c) \/ Wake(c)
  \/ Tick \/ StopRelay \/ StartRelay

Spec == Init /\ [][Next]_vars

-----------------------------------------------------------------------------
(* Properties.                                                             *)

Holders(r) == {c \in Callers : Waits(c) /\ call[c].req = r}

\* A request lives exactly as long as a waiting caller or its thread holds it:
\* a caller that gives up at its deadline leaves the struct to the thread,
\* the thread leaves it to the callers that have not seen the answer yet,
\* and the last of them frees it (res_unref), once.
RefsExact ==
  \A r \in Reqs :
    LET users == Cardinality(Holders(r)) + (IF thread[r] = None THEN 0 ELSE 1)
    IN  IF users = 0 THEN req[r] = None ELSE req[r] # None /\ req[r].refs = users

\* And the list of lookups under way names every running thread and nothing else,
\* has no name twice, and is what res_threads counts, also for lookups whose
\* callers are gone: RES_MAX_THREADS holds for the process, as does the cache's size.
LookupsExact ==
  /\ TypeOK /\ RefsExact
  /\ inflight = {r \in Reqs : thread[r] # None}
  /\ threads = Cardinality(inflight) /\ threads <= MaxThreads
  /\ \A r \in inflight : req[r] # None /\ ~req[r].done
  /\ \A r, q \in inflight : req[r].name = req[q].name => r = q

\* No caller gets, and no cache entry keeps, the address of another name:
\* structs are shared, reused and outlive their callers, the entry of one name
\* gives way to another's.
OwnAddress ==
  /\ \A n \in DOMAIN cache : cache[n].addr.of = n
  /\ \A r \in Reqs : req[r] # None /\ req[r].out # None => req[r].out.of = req[r].name
  /\ \A c \in Callers : Waits(c) => req[call[c].req].name = call[c].name
  /\ answer # None /\ answer.out # None => answer.out.of = answer.name

\* The cache never goes back: a slow lookup does not put an address over one a
\* later lookup of the same name found; and a name loses its entry only to
\* another name in a full cache, when no entry is older.  So a lookup that
\* fails overwrites nothing.  A name that has lost its entry, and what callers
\* are answered, are not spoken of.
NeverBack ==
  [][\A n \in DOMAIN cache :
       IF n \in DOMAIN cache'
       THEN cache'[n].addr.gen >= cache[n].addr.gen
       ELSE /\ Full
            /\ DOMAIN cache' \ DOMAIN cache # {}
            /\ \A m \in DOMAIN cache : cache[m].age <= cache[n].age]_vars
=============================================================================
