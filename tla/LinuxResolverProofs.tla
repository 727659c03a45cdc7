------------------------ MODULE LinuxResolverProofs ------------------------
(***************************************************************************)
(* The resolver's requests, threads and cache, for any numbers of callers, *)
(* names and requests, any cache size and any timing.                      *)
(***************************************************************************)
EXTENDS LinuxResolver, FiniteSetTheorems, TLAPS

Outcome == {None, Asking, Failed} \cup Address

\* TypeOK, with the functions and the finiteness that it leaves open.
Shape ==
  /\ truth \in [Names -> 0 .. Moves]
  /\ cache \in [DOMAIN cache -> [addr : Address, age : 0 .. Stale]]
  /\ DOMAIN cache \subseteq Names /\ IsFiniteSet(DOMAIN cache)
  /\ Cardinality(DOMAIN cache) <= CacheN
  /\ req \in [Reqs -> Request \cup {None}]
  /\ inflight \in SUBSET Reqs /\ threads \in Nat
  /\ thread \in [Reqs -> Outcome]
  /\ call \in [Callers -> Waiting \cup {None}]
  /\ stopping \in BOOLEAN
  /\ answer = None \/ answer \in [name : Names, out : Address \cup {None}]

\* res_inflight is the running threads, counted by res_threads, one to a name.
Listed ==
  /\ inflight = {r \in Reqs : thread[r] # None}
  /\ threads = Cardinality(inflight) /\ threads <= MaxThreads
  /\ \A r \in inflight : req[r] # None /\ ~req[r].done
  /\ \A r, q \in inflight : req[r].name = req[q].name => r = q

\* A thread carries an address of the name it was started for.
ThreadOwn == \A r \in Reqs : thread[r] \in Address => thread[r].of = req[r].name

\* No address is newer than the truth, and what a thread of a name carries is
\* not older than what the cache holds for it: only that thread may replace it.
Dated ==
  /\ \A n \in DOMAIN cache : cache[n].addr.gen <= truth[n]
  /\ \A r \in Reqs : thread[r] \in Address =>
       \A n \in DOMAIN cache : n = req[r].name => cache[n].addr.gen <= thread[r].gen
  /\ \A r \in Reqs : thread[r] \in Address => thread[r].gen <= truth[req[r].name]

IInv == Shape /\ RefsExact /\ Listed /\ OwnAddress /\ ThreadOwn /\ Dated

-----------------------------------------------------------------------------
(* Counting holders *)

\* A request has finitely many waiting callers.
LEMMA HoldersFinite ==
  ASSUME NEW r
  PROVE  IsFiniteSet(Holders(r)) /\ Cardinality(Holders(r)) \in Nat
BY FS_Subset, FS_CardinalityType, ResolverAssumption DEF Holders

\* What the counts say of a request: a free one has neither thread nor waiting
\* caller, one in use has as many references as these are.
LEMMA Counted ==
  ASSUME Shape, RefsExact, NEW r \in Reqs
  PROVE  /\ req[r] = None => thread[r] = None /\ Holders(r) = {}
         /\ thread[r] # None => /\ req[r] \in Request
                                /\ req[r].refs = Cardinality(Holders(r)) + 1
         /\ Holders(r) # {} => /\ req[r] \in Request
                               /\ thread[r] = None => req[r].refs = Cardinality(Holders(r))
         /\ thread[r] = None /\ Holders(r) = {} => req[r] = None
<1>1. Cardinality(Holders(r)) \in Nat /\ (Cardinality(Holders(r)) = 0 <=> Holders(r) = {})
  BY HoldersFinite, FS_EmptySet
<1> QED BY <1>1, MarksAssumption DEF Shape, RefsExact

\* A waiting caller holds the request it waits for.
LEMMA HeldWhileWaiting ==
  ASSUME Shape, RefsExact, NEW c \in Callers, Waits(c)
  PROVE  /\ call[c] \in Waiting /\ call[c].req \in Reqs
         /\ c \in Holders(call[c].req)
         /\ req[call[c].req] \in Request
<1>1. call[c] \in Waiting /\ call[c].req \in Reqs
  BY DEF Shape, Waits, Waiting
<1>2. c \in Holders(call[c].req)
  BY DEF Holders
<1> QED BY <1>1, <1>2, Counted

-----------------------------------------------------------------------------
(* The steps outside resolve_v4 *)

\* An address that changes leaves every invariant: the truth only gets newer.
LEMMA MoveStep ==
  ASSUME IInv, NEW n \in Names, Move(n)
  PROVE  IInv'
<1> USE ResolverAssumption DEF IInv, Move
<1>1. /\ truth' \in [Names -> 0 .. Moves]
      /\ \A m \in Names : truth'[m] >= truth[m]
  BY DEF Shape
<1>2. Shape'
  BY <1>1 DEF Shape
<1>3. RefsExact'
  BY DEF RefsExact, Holders, Waits
<1>4. Listed'
  BY DEF Listed
<1>5. OwnAddress' /\ ThreadOwn'
  BY DEF OwnAddress, ThreadOwn, Waits
<1>6. Dated'
  <2>1. ASSUME NEW m \in DOMAIN cache PROVE cache[m].addr.gen <= truth'[m]
    BY <1>1 DEF Dated, Shape, Address
  <2>2. ASSUME NEW r \in Reqs, thread[r] \in Address PROVE thread[r].gen <= truth'[req[r].name]
    <3>1. thread[r] # None
      BY <2>2, MarksAssumption
    <3>2. req[r] \in Request
      BY <3>1, Counted
    <3>3. req[r].name \in Names /\ thread[r].gen \in Nat
      BY <3>2, <2>2 DEF Request, Address
    <3> QED BY <3>3, <2>2, <1>1 DEF Dated, Shape
  <2> QED BY <2>1, <2>2 DEF Dated
<1> QED BY <1>2, <1>3, <1>4, <1>5, <1>6

\* A lookup that ends carries the address of its name at this moment.
LEMMA LookStep ==
  ASSUME IInv, NEW r \in Reqs, Look(r)
  PROVE  IInv'
<1> USE ResolverAssumption DEF IInv
<1> DEFINE found == [of |-> req[r].name, gen |-> truth[req[r].name]]
<1>1. /\ thread[r] = Asking
      /\ \E a \in {Failed, found} : thread' = [thread EXCEPT ![r] = a]
      /\ answer' = None
      /\ UNCHANGED <<truth, cache, req, inflight, threads, call, stopping>>
  BY DEF Look
<1>2. req[r] \in Request /\ req[r].name \in Names
  BY <1>1, Counted DEF Request
<1>3. found \in Address /\ found.of = req[r].name /\ found.gen = truth[req[r].name]
  BY <1>2 DEF Address, Shape
<1>4. Failed \notin Address
  BY MarksAssumption
<1> HIDE DEF found
<1>5. PICK a \in {Failed, found} : thread' = [thread EXCEPT ![r] = a]
  BY <1>1
<1>6. a # None /\ a \in Outcome
  BY <1>3, MarksAssumption DEF Outcome
<1>7. /\ thread'[r] = a
      /\ \A q \in Reqs : q # r => thread'[q] = thread[q]
      /\ \A q \in Reqs : thread'[q] = None <=> thread[q] = None
  BY <1>1, <1>5, <1>6 DEF Shape
<1>8. Shape'
  BY <1>1, <1>5, <1>6 DEF Shape
<1>9. RefsExact'
  BY <1>1, <1>7 DEF RefsExact, Holders, Waits
<1>10. Listed'
  BY <1>1, <1>7 DEF Listed
<1>11. OwnAddress'
  BY <1>1 DEF OwnAddress, Waits
<1>12. ThreadOwn'
  BY <1>1, <1>3, <1>4, <1>5, <1>7 DEF ThreadOwn
<1>13. Dated'
  <2>1. ASSUME NEW q \in Reqs, thread'[q] \in Address
        PROVE  /\ \A n \in DOMAIN cache : n = req[q].name => cache[n].addr.gen <= thread'[q].gen
               /\ thread'[q].gen <= truth[req[q].name]
    <3>1. CASE q # r
      BY <3>1, <2>1, <1>7 DEF Dated
    <3>2. CASE q = r
      <4>1. thread'[q] = found
        BY <3>2, <2>1, <1>4, <1>5, <1>7
      <4> QED BY <4>1, <3>2, <1>2, <1>3 DEF Dated, Shape
    <3> QED BY <3>1, <3>2
  <2> QED BY <2>1, <1>1 DEF Dated
<1> QED BY <1>8, <1>9, <1>10, <1>11, <1>12, <1>13

\* Time ages the entries and runs down the waits; who waits for what stays.
LEMMA TickStep ==
  ASSUME IInv, Tick
  PROVE  IInv'
<1> USE ResolverAssumption DEF IInv
<1>1. /\ cache' = [n \in DOMAIN cache |-> [cache[n] EXCEPT !.age = Older(@)]]
      /\ call' = [c \in Callers |-> IF Waits(c) /\ call[c].left > 0
                                    THEN [call[c] EXCEPT !.left = @ - 1] ELSE call[c]]
      /\ answer' = None
      /\ UNCHANGED <<truth, req, inflight, threads, thread, stopping>>
  BY DEF Tick
<1>2. /\ DOMAIN cache' = DOMAIN cache
      /\ \A n \in DOMAIN cache : /\ cache'[n] \in [addr : Address, age : 0 .. Stale]
                                 /\ cache'[n].addr = cache[n].addr
  BY <1>1 DEF Shape, Older
<1>3. /\ call' \in [Callers -> Waiting \cup {None}]
      /\ \A c \in Callers : /\ call'[c] = None <=> call[c] = None
                            /\ call[c] # None => /\ call'[c].req = call[c].req
                                                 /\ call'[c].name = call[c].name
  <2> SUFFICES ASSUME NEW c \in Callers
               PROVE  /\ call'[c] \in Waiting \cup {None}
                      /\ call'[c] = None <=> call[c] = None
                      /\ call[c] # None => /\ call'[c].req = call[c].req
                                           /\ call'[c].name = call[c].name
    BY <1>1
  <2>1. CASE Waits(c) /\ call[c].left > 0
    <3>1. call[c] \in Waiting
      BY <2>1 DEF Shape, Waits
    <3>2. call'[c] = [call[c] EXCEPT !.left = @ - 1]
      BY <1>1, <2>1
    <3>3. call'[c] \in Waiting /\ call'[c].req = call[c].req /\ call'[c].name = call[c].name
      BY <2>1, <3>1, <3>2 DEF Waiting
    <3> QED BY <3>1, <3>3, MarksAssumption
  <2>2. CASE ~(Waits(c) /\ call[c].left > 0)
    BY <1>1, <2>2 DEF Shape
  <2> QED BY <2>1, <2>2
<1>4. \A r : Holders(r)' = Holders(r)
  BY <1>3 DEF Holders, Waits
<1>5. Shape'
  <2>1. cache' \in [DOMAIN cache' -> [addr : Address, age : 0 .. Stale]]
    BY <1>1, <1>2
  <2> QED BY <1>1, <1>2, <1>3, <2>1 DEF Shape
<1>6. RefsExact'
  BY <1>1, <1>4 DEF RefsExact
<1>7. Listed'
  BY <1>1 DEF Listed
<1>8. OwnAddress'
  BY <1>1, <1>2, <1>3 DEF OwnAddress, Waits
<1>9. ThreadOwn'
  BY <1>1 DEF ThreadOwn
<1>10. Dated'
  BY <1>1, <1>2 DEF Dated
<1> QED BY <1>5, <1>6, <1>7, <1>8, <1>9, <1>10

\* Stopping and starting the relay touches no request.
LEMMA RelayStep ==
  ASSUME IInv, StopRelay \/ StartRelay
  PROVE  IInv'
<1>1. UNCHANGED <<truth, cache, req, inflight, threads, thread, call>>
      /\ stopping' \in BOOLEAN /\ answer' = None
  BY DEF StopRelay, StartRelay
<1> QED BY <1>1 DEF IInv, Shape, RefsExact, Holders, Waits, Listed, OwnAddress, ThreadOwn, Dated
-----------------------------------------------------------------------------
(* res_thread's end *)

\* What the cache becomes when a's lookup of n ends: n has that address, or what
\* it had if the lookup failed; every other entry is as it was or, one oldest
\* entry of a full cache that lacked n, gone.
LEMMA Learned ==
  ASSUME Shape, NEW n \in Names, NEW a \in Address \cup {Failed}, Learn(n, a)
  PROVE  /\ cache' \in [DOMAIN cache' -> [addr : Address, age : 0 .. Stale]]
         /\ DOMAIN cache' \subseteq Names /\ IsFiniteSet(DOMAIN cache')
         /\ Cardinality(DOMAIN cache') <= CacheN
         /\ \A m \in DOMAIN cache' : m # n => m \in DOMAIN cache /\ cache'[m] = cache[m]
         /\ n \in DOMAIN cache' => \/ a \in Address /\ cache'[n].addr = a
                                   \/ n \in DOMAIN cache /\ cache'[n] = cache[n]
         /\ \A m \in DOMAIN cache \ DOMAIN cache' :
              /\ m # n /\ n \notin DOMAIN cache /\ n \in DOMAIN cache'
              /\ Full /\ Oldest(m)
<1> USE ResolverAssumption
<1>1. CASE a = Failed
  BY <1>1 DEF Learn, Shape
<1>2. CASE a # Failed
  <2>1. PICK victim \in {m \in DOMAIN cache : Oldest(m)} \cup {None} :
          /\ victim = None <=> DOMAIN cache = {}
          /\ cache' = [m \in Kept(n, victim) \cup {n} |->
                         IF m = n THEN [addr |-> a, age |-> 0] ELSE cache[m]]
    BY <1>2 DEF Learn
  <2>2. a \in Address /\ [addr |-> a, age |-> 0] \in [addr : Address, age : 0 .. Stale]
    BY <1>2
  <2>3. DOMAIN cache' = Kept(n, victim) \cup {n} /\ Kept(n, victim) \subseteq DOMAIN cache
    BY <2>1 DEF Kept
  <2>4. Cardinality(DOMAIN cache) \in Nat /\ Cardinality(DOMAIN cache) <= CacheN
    BY FS_CardinalityType DEF Shape
  <2>5. IsFiniteSet(DOMAIN cache') /\ Cardinality(DOMAIN cache') <= CacheN
    <3>1. CASE Full /\ n \notin DOMAIN cache
      <4>1. DOMAIN cache # {}
        BY <3>1, FS_EmptySet DEF Full
      <4>2. victim \in DOMAIN cache
        BY <4>1, <2>1
      <4> DEFINE D == DOMAIN cache \ {victim}
      <4>3. IsFiniteSet(D) /\ Cardinality(D) = Cardinality(DOMAIN cache) - 1
        BY <4>2, FS_RemoveElement DEF Shape
      <4>4. DOMAIN cache' = D \cup {n} /\ n \notin D
        BY <2>3, <3>1 DEF Kept
      <4> HIDE DEF D
      <4>5. IsFiniteSet(D \cup {n}) /\ Cardinality(D \cup {n}) = Cardinality(D) + 1
        BY <4>3, <4>4, FS_AddElement
      <4> QED BY <4>3, <4>4, <4>5, <2>4
    <3>2. CASE n \in DOMAIN cache
      <4>1. DOMAIN cache' = DOMAIN cache
        BY <3>2, <2>3 DEF Kept
      <4> QED BY <4>1 DEF Shape
    <3>3. CASE ~Full /\ n \notin DOMAIN cache
      <4>1. DOMAIN cache' = DOMAIN cache \cup {n}
        BY <3>3, <2>3 DEF Kept
      <4>2. /\ IsFiniteSet(DOMAIN cache \cup {n})
            /\ Cardinality(DOMAIN cache \cup {n}) = Cardinality(DOMAIN cache) + 1
        BY <3>3, FS_AddElement DEF Shape
      <4> QED BY <4>1, <4>2, <3>3, <2>4 DEF Full
    <3> QED BY <3>1, <3>2, <3>3
  <2>6. ASSUME NEW m \in DOMAIN cache'
        PROVE  /\ cache'[m] \in [addr : Address, age : 0 .. Stale]
               /\ m # n => m \in DOMAIN cache /\ cache'[m] = cache[m]
    BY <2>1, <2>2, <2>3 DEF Shape
  <2>7. n \in DOMAIN cache' /\ cache'[n].addr = a
    BY <2>1
  <2>8. ASSUME NEW m \in DOMAIN cache \ DOMAIN cache'
        PROVE  m # n /\ n \notin DOMAIN cache /\ Full /\ Oldest(m)
    <3>1. m \notin Kept(n, victim) /\ m # n
      BY <2>3
    <3>2. Full /\ n \notin DOMAIN cache /\ m = victim
      BY <3>1 DEF Kept
    <3> QED BY <3>1, <3>2, <2>1
  <2>9. cache' \in [DOMAIN cache' -> [addr : Address, age : 0 .. Stale]]
    BY <2>1, <2>3, <2>6
  <2> QED BY <2>2, <2>3, <2>5, <2>6, <2>7, <2>8, <2>9 DEF Shape
<1> QED BY <1>1, <1>2

\* What a lookup's thread leaves behind: its request is freed when no caller
\* waits for it, and otherwise keeps its name and the answer.
LEMMA Published ==
  ASSUME IInv, NEW r \in Reqs, Publish(r)
  PROVE  /\ req[r] \in Request /\ thread[r] \in Address \cup {Failed}
         /\ r \in inflight
         /\ req' \in [Reqs -> Request \cup {None}]
         /\ \A q \in Reqs : q # r => req'[q] = req[q]
         /\ IF Holders(r) = {} THEN req'[r] = None
            ELSE /\ req'[r] \in Request
                 /\ req'[r].refs = Cardinality(Holders(r))
                 /\ req'[r].name = req[r].name
                 /\ req'[r].out = IF thread[r] = Failed THEN None ELSE thread[r]
<1> USE DEF IInv
<1> DEFINE out == IF thread[r] = Failed THEN None ELSE thread[r]
           full == [req[r] EXCEPT !.done = TRUE, !.out = out]
<1>1. thread[r] # None /\ thread[r] # Asking /\ req' = [req EXCEPT ![r] = Unref(full)]
  BY DEF Publish
<1>2. req[r] \in Request /\ req[r].refs = Cardinality(Holders(r)) + 1
  BY <1>1, Counted
<1>3. thread[r] \in Address \cup {Failed}
  BY <1>1 DEF Shape, Outcome
<1>4. r \in inflight
  BY <1>1 DEF Listed
<1>5. Cardinality(Holders(r)) \in Nat /\ (Cardinality(Holders(r)) = 0 <=> Holders(r) = {})
  BY HoldersFinite, FS_EmptySet
<1>6. out \in Address \cup {None}
  BY <1>3
<1> HIDE DEF out
<1>7. /\ full \in Request /\ full.refs = Cardinality(Holders(r)) + 1
      /\ full.name = req[r].name /\ full.out = out
  BY <1>2, <1>5, <1>6 DEF Request
<1> HIDE DEF full
<1>8. CASE Holders(r) = {}
  <2>1. Unref(full) = None
    BY <1>8, <1>5, <1>7 DEF Unref
  <2> QED BY <2>1, <1>8, <1>1, <1>2, <1>3, <1>4 DEF Shape
<1>9. CASE Holders(r) # {}
  <2>1. Unref(full) = [full EXCEPT !.refs = @ - 1]
    BY <1>9, <1>5, <1>7 DEF Unref
  <2>2. /\ Unref(full) \in Request /\ Unref(full).refs = Cardinality(Holders(r))
        /\ Unref(full).name = req[r].name /\ Unref(full).out = out
    BY <2>1, <1>5, <1>7 DEF Request
  <2> HIDE DEF Unref
  <2>3. req' \in [Reqs -> Request \cup {None}] /\ req'[r] = Unref(full)
        /\ \A q \in Reqs : q # r => req'[q] = req[q]
    BY <2>2, <1>1 DEF Shape
  <2> QED BY <2>2, <2>3, <1>9, <1>2, <1>3, <1>4 DEF out
<1> QED BY <1>8, <1>9

\* A thread's end leaves every invariant.
LEMMA PublishStep ==
  ASSUME IInv, NEW r \in Reqs, Publish(r)
  PROVE  IInv'
<1> USE ResolverAssumption DEF IInv
<1>1. /\ Learn(req[r].name, thread[r])
      /\ inflight' = inflight \ {r} /\ threads' = threads - 1
      /\ thread' = [thread EXCEPT ![r] = None]
      /\ answer' = None
      /\ UNCHANGED <<truth, call, stopping>>
  BY DEF Publish
<1> DEFINE n == req[r].name
<1>2. /\ req[r] \in Request /\ n \in Names /\ thread[r] \in Address \cup {Failed}
      /\ r \in inflight
      /\ req' \in [Reqs -> Request \cup {None}]
      /\ \A q \in Reqs : q # r => req'[q] = req[q]
      /\ Holders(r) = {} => req'[r] = None
      /\ Holders(r) # {} =>
           /\ req'[r] \in Request
           /\ req'[r].refs = Cardinality(Holders(r))
           /\ req'[r].name = req[r].name
           /\ req'[r].out = IF thread[r] = Failed THEN None ELSE thread[r]
  BY Published DEF Request
<1>3. /\ cache' \in [DOMAIN cache' -> [addr : Address, age : 0 .. Stale]]
      /\ DOMAIN cache' \subseteq Names /\ IsFiniteSet(DOMAIN cache')
      /\ Cardinality(DOMAIN cache') <= CacheN
      /\ \A m \in DOMAIN cache' : m # n => m \in DOMAIN cache /\ cache'[m] = cache[m]
      /\ n \in DOMAIN cache' => \/ thread[r] \in Address /\ cache'[n].addr = thread[r]
                                \/ n \in DOMAIN cache /\ cache'[n] = cache[n]
  BY <1>1, <1>2, Learned
<1>4. /\ thread'[r] = None
      /\ \A q \in Reqs : q # r => thread'[q] = thread[q]
      /\ thread' \in [Reqs -> Outcome]
  BY <1>1 DEF Shape, Outcome
<1>5. IsFiniteSet(inflight) /\ threads' = Cardinality(inflight') /\ threads' \in Nat
      /\ threads' <= MaxThreads
  <2>1. IsFiniteSet(inflight)
    BY FS_Subset DEF Shape
  <2>2. Cardinality(inflight \ {r}) = Cardinality(inflight) - 1 /\ IsFiniteSet(inflight \ {r})
    BY <2>1, <1>2, FS_RemoveElement
  <2>3. Cardinality(inflight \ {r}) \in Nat
    BY <2>2, FS_CardinalityType
  <2> QED BY <2>1, <2>2, <2>3, <1>1 DEF Listed, Shape
<1>6. Shape'
  BY <1>1, <1>2, <1>3, <1>4, <1>5 DEF Shape
<1>7. \A q : Holders(q)' = Holders(q)
  BY <1>1 DEF Holders, Waits
<1>8. RefsExact'
  <2> SUFFICES ASSUME NEW q \in Reqs
               PROVE  LET users == Cardinality(Holders(q)) + (IF thread'[q] = None THEN 0 ELSE 1)
                      IN  IF users = 0 THEN req'[q] = None ELSE req'[q] # None /\ req'[q].refs = users
    BY <1>7 DEF RefsExact
  <2>1. CASE q # r
    BY <2>1, <1>2, <1>4 DEF RefsExact
  <2>2. CASE q = r
    <3>1. Cardinality(Holders(r)) \in Nat /\ (Cardinality(Holders(r)) = 0 <=> Holders(r) = {})
      BY HoldersFinite, FS_EmptySet
    <3> QED BY <3>1, <2>2, <1>2, <1>4, MarksAssumption
  <2> QED BY <2>1, <2>2
<1>9. Listed'
  BY <1>1, <1>2, <1>4, <1>5 DEF Listed
<1>10. OwnAddress'
  <2>1. ASSUME NEW m \in DOMAIN cache' PROVE cache'[m].addr.of = m
    BY <1>2, <1>3 DEF OwnAddress, ThreadOwn
  <2>2. ASSUME NEW q \in Reqs, req'[q] # None, req'[q].out # None PROVE req'[q].out.of = req'[q].name
    BY <2>2, <1>2 DEF OwnAddress, ThreadOwn
  <2>3. ASSUME NEW c \in Callers, Waits(c) PROVE req'[call[c].req].name = call[c].name
    <3>1. call[c].req \in Reqs /\ c \in Holders(call[c].req)
      BY <2>3, HeldWhileWaiting
    <3>2. req'[call[c].req].name = req[call[c].req].name
      BY <3>1, <1>2
    <3> QED BY <2>3, <3>2 DEF OwnAddress
  <2> QED BY <2>1, <2>2, <2>3, <1>1 DEF OwnAddress, Waits
<1>11. ThreadOwn'
  BY <1>2, <1>4, MarksAssumption DEF ThreadOwn
<1>12. Dated'
  <2>1. ASSUME NEW m \in DOMAIN cache' PROVE cache'[m].addr.gen <= truth[m]
    BY <1>2, <1>3 DEF Dated
  <2>2. ASSUME NEW q \in Reqs, thread'[q] \in Address
        PROVE  /\ \A m \in DOMAIN cache' : m = req'[q].name => cache'[m].addr.gen <= thread'[q].gen
               /\ thread'[q].gen <= truth[req'[q].name]
    <3>1. q # r /\ thread'[q] = thread[q] /\ req'[q] = req[q]
      BY <2>2, <1>2, <1>4, MarksAssumption
    <3>2. q \in inflight
      BY <2>2, <3>1, MarksAssumption DEF Listed
    <3>3. req[q].name # n
      BY <3>1, <3>2, <1>2 DEF Listed
    <3> QED BY <2>2, <3>1, <3>3, <1>3 DEF Dated
  <2> QED BY <2>1, <2>2, <1>1 DEF Dated
<1> QED BY <1>6, <1>8, <1>9, <1>10, <1>11, <1>12
-----------------------------------------------------------------------------
(* resolve_v4 *)

\* An answer from the cache, or none, is an answer and of the name's own address.
LEMMA Returned ==
  ASSUME Shape, OwnAddress, NEW n \in Names, NEW out \in Address \cup {None},
         out # None => out.of = n, Return(n, out)
  PROVE  /\ answer' \in [name : Names, out : Address \cup {None}]
         /\ answer'.out # None => answer'.out.of = answer'.name
BY DEF Return, Usable, Shape, OwnAddress

\* A call answered at once changes nothing but the answer.
LEMMA AnswerStep ==
  ASSUME IInv, NEW n \in Names, Cached(n) \/ Refuse(n), UNCHANGED <<truth, cache, stopping>>
  PROVE  IInv'
<1> USE DEF IInv
<1>1. UNCHANGED <<truth, cache, req, inflight, threads, thread, call, stopping>>
  BY DEF Cached, Refuse
<1>2. /\ answer' \in [name : Names, out : Address \cup {None}]
      /\ answer'.out # None => answer'.out.of = answer'.name
  <2>1. CASE Cached(n)
    BY <2>1 DEF Cached, Fresh, Shape, OwnAddress
  <2>2. CASE Refuse(n)
    BY <2>2, Returned DEF Refuse
  <2> QED BY <2>1, <2>2
<1>3. Shape'
  BY <1>1, <1>2 DEF Shape
<1>4. OwnAddress'
  BY <1>1, <1>2 DEF OwnAddress, Waits
<1>5. RefsExact' /\ Listed' /\ ThreadOwn' /\ Dated'
  BY <1>1 DEF RefsExact, Holders, Waits, Listed, ThreadOwn, Dated
<1> QED BY <1>3, <1>4, <1>5

\* A caller that starts to wait for r holds r from then on, and nothing else.
LEMMA Held ==
  ASSUME Shape, NEW c \in Callers, ~Waits(c), NEW n \in Names, NEW r \in Reqs,
         NEW left \in 0 .. Deadline, Wait(c, n, r, left)
  PROVE  /\ call' \in [Callers -> Waiting \cup {None}]
         /\ call'[c] = [name |-> n, req |-> r, left |-> left]
         /\ \A d \in Callers : d # c => call'[d] = call[d]
         /\ \A q : q # r => Holders(q)' = Holders(q)
         /\ IsFiniteSet(Holders(r)') /\ Cardinality(Holders(r)') = Cardinality(Holders(r)) + 1
<1> DEFINE w == [name |-> n, req |-> r, left |-> left]
<1>1. w \in Waiting /\ w # None
  BY MarksAssumption DEF Waiting
<1>2. call' = [call EXCEPT ![c] = w]
  BY DEF Wait
<1>3. w.req = r
  OBVIOUS
<1> HIDE DEF w
<1>4. /\ call' \in [Callers -> Waiting \cup {None}] /\ call'[c] = w
      /\ \A d \in Callers : d # c => call'[d] = call[d]
  BY <1>1, <1>2 DEF Shape
<1>5. \A q : q # r => Holders(q)' = Holders(q)
  BY <1>3, <1>4 DEF Holders, Waits
<1>6. Holders(r)' = Holders(r) \cup {c} /\ c \notin Holders(r)
  BY <1>1, <1>3, <1>4 DEF Holders, Waits
<1>7. /\ IsFiniteSet(Holders(r) \cup {c})
      /\ Cardinality(Holders(r) \cup {c}) = Cardinality(Holders(r)) + 1
  BY <1>6, HoldersFinite, FS_AddElement
<1> QED BY <1>4, <1>5, <1>6, <1>7 DEF w

\* A caller that joins the lookup of its name.
LEMMA JoinStep ==
  ASSUME IInv, NEW c \in Callers, ~Waits(c), NEW n \in Names, NEW left \in 0 .. Deadline,
         Join(c, n, left), UNCHANGED <<truth, cache, stopping>>
  PROVE  IInv'
<1> USE ResolverAssumption DEF IInv
<1>1. PICK r \in Joins(n) : req' = [req EXCEPT ![r].refs = @ + 1] /\ Wait(c, n, r, left)
  BY DEF Join
<1>2. UNCHANGED <<truth, cache, inflight, threads, thread, stopping>> /\ answer' = None
  BY <1>1 DEF Join, Wait
<1>3. r \in inflight /\ r \in Reqs /\ req[r].name = n
  BY <1>1 DEF Joins, Shape
<1>4. thread[r] # None
  BY <1>3 DEF Listed
<1>5. req[r] \in Request /\ req[r].refs = Cardinality(Holders(r)) + 1
  BY <1>3, <1>4, Counted
<1>6. Cardinality(Holders(r)) \in Nat
  BY HoldersFinite
<1>7. /\ req' \in [Reqs -> Request \cup {None}]
      /\ req'[r] = [req[r] EXCEPT !.refs = @ + 1]
      /\ req'[r] \in Request
      /\ \A q \in Reqs : q # r => req'[q] = req[q]
  BY <1>1, <1>3, <1>5 DEF Shape, Request
<1>8. /\ req'[r].name = n /\ req'[r].done = req[r].done /\ req'[r].out = req[r].out
      /\ req'[r].refs = Cardinality(Holders(r)) + 2
  BY <1>3, <1>5, <1>6, <1>7 DEF Request
<1>9. /\ call' \in [Callers -> Waiting \cup {None}]
      /\ call'[c] = [name |-> n, req |-> r, left |-> left]
      /\ \A d \in Callers : d # c => call'[d] = call[d]
      /\ \A q : q # r => Holders(q)' = Holders(q)
      /\ Cardinality(Holders(r)') = Cardinality(Holders(r)) + 1
  BY <1>1, <1>3, Held
<1>10. \A q \in Reqs : req'[q] = None <=> req[q] = None
  BY <1>5, <1>7, MarksAssumption
<1>11. \A q \in Reqs : req'[q] # None => /\ req'[q].name = req[q].name
                                        /\ req'[q].done = req[q].done
                                        /\ req'[q].out = req[q].out
  BY <1>3, <1>7, <1>8
<1>12. Shape'
  BY <1>2, <1>7, <1>9 DEF Shape
<1>13. RefsExact'
  <2> SUFFICES ASSUME NEW q \in Reqs
               PROVE  LET users == Cardinality(Holders(q)') + (IF thread[q] = None THEN 0 ELSE 1)
                      IN  IF users = 0 THEN req'[q] = None ELSE req'[q] # None /\ req'[q].refs = users
    BY <1>2 DEF RefsExact
  <2>1. CASE q # r
    BY <2>1, <1>7, <1>9 DEF RefsExact
  <2>2. CASE q = r
    BY <2>2, <1>4, <1>6, <1>7, <1>8, <1>9, MarksAssumption
  <2> QED BY <2>1, <2>2
<1>14. Listed'
  <2>1. \A q \in inflight : q \in Reqs /\ req[q] # None
    BY DEF Listed, Shape
  <2> QED BY <2>1, <1>2, <1>10, <1>11 DEF Listed
<1>15. OwnAddress'
  <2>1. ASSUME NEW d \in Callers, Waits(d)' PROVE req'[call'[d].req].name = call'[d].name
    <3>1. CASE d = c
      BY <3>1, <1>8, <1>9
    <3>2. CASE d # c
      <4>1. Waits(d) /\ call'[d] = call[d]
        BY <3>2, <2>1, <1>9 DEF Waits
      <4>2. call[d].req \in Reqs /\ req[call[d].req] # None
        BY <4>1, HeldWhileWaiting, MarksAssumption
      <4> QED BY <4>1, <4>2, <1>10, <1>11 DEF OwnAddress
    <3> QED BY <3>1, <3>2
  <2> QED BY <2>1, <1>2, <1>10, <1>11 DEF OwnAddress
<1>16. ThreadOwn' /\ Dated'
  <2>1. \A q \in Reqs : thread[q] \in Address => req'[q].name = req[q].name
    <3>1. \A q \in Reqs : thread[q] \in Address => req[q] # None
      BY Counted, MarksAssumption
    <3> QED BY <3>1, <1>10, <1>11
  <2> QED BY <2>1, <1>2 DEF ThreadOwn, Dated
<1> QED BY <1>12, <1>13, <1>14, <1>15, <1>16

\* A caller that starts a lookup: the struct was free, so nobody holds it.
LEMMA StartStep ==
  ASSUME IInv, NEW c \in Callers, ~Waits(c), NEW n \in Names, NEW left \in 0 .. Deadline,
         StartLookup(c, n, left), UNCHANGED <<truth, cache, stopping>>
  PROVE  IInv'
<1> USE ResolverAssumption DEF IInv
<1>0. PICK r : r = CHOOSE q \in Reqs : req[q] = None
  OBVIOUS
<1> DEFINE new == [name |-> n, refs |-> 2, done |-> FALSE, out |-> None]
<1>1. /\ Joins(n) = {} /\ ~Busy
      /\ req' = [req EXCEPT ![r] = new]
      /\ inflight' = inflight \cup {r}
      /\ thread' = [thread EXCEPT ![r] = Asking]
      /\ Wait(c, n, r, left)
      /\ threads' = threads + 1
      /\ UNCHANGED <<truth, cache, stopping>> /\ answer' = None
  BY <1>0 DEF StartLookup, Wait
<1>2. r \in Reqs /\ req[r] = None
  BY <1>0 DEF StartLookup
<1>3. new \in Request /\ new.name = n /\ new.refs = 2 /\ ~new.done /\ new.out = None
  BY DEF Request
<1> HIDE DEF new
<1>3a. new # None
  BY <1>3, MarksAssumption
<1>4. thread[r] = None /\ Holders(r) = {} /\ r \notin inflight
  BY <1>2, Counted DEF Listed
<1>5. /\ req' \in [Reqs -> Request \cup {None}] /\ req'[r] = new
      /\ \A q \in Reqs : q # r => req'[q] = req[q]
  BY <1>1, <1>2, <1>3 DEF Shape
<1>6. /\ thread' \in [Reqs -> Outcome] /\ thread'[r] = Asking
      /\ \A q \in Reqs : q # r => thread'[q] = thread[q]
  BY <1>1, <1>2 DEF Shape, Outcome
<1>7. /\ call' \in [Callers -> Waiting \cup {None}]
      /\ call'[c] = [name |-> n, req |-> r, left |-> left]
      /\ \A d \in Callers : d # c => call'[d] = call[d]
      /\ \A q : q # r => Holders(q)' = Holders(q)
      /\ Cardinality(Holders(r)') = 1
  <2>1. Cardinality(Holders(r)) = 0
    BY <1>4, FS_EmptySet
  <2> QED BY <2>1, <1>1, <1>2, Held
<1>8. /\ threads' = Cardinality(inflight') /\ threads' \in Nat /\ threads' <= MaxThreads
  <2>1. IsFiniteSet(inflight)
    BY FS_Subset DEF Shape
  <2>2. Cardinality(inflight \cup {r}) = Cardinality(inflight) + 1
    BY <2>1, <1>4, FS_AddElement
  <2> QED BY <2>2, <1>1 DEF Listed, Shape, Busy
<1>9. Shape'
  BY <1>1, <1>2, <1>5, <1>6, <1>7, <1>8 DEF Shape
<1>10. RefsExact'
  <2> SUFFICES ASSUME NEW q \in Reqs
               PROVE  LET users == Cardinality(Holders(q)') + (IF thread'[q] = None THEN 0 ELSE 1)
                      IN  IF users = 0 THEN req'[q] = None ELSE req'[q] # None /\ req'[q].refs = users
    BY DEF RefsExact
  <2>1. CASE q # r
    BY <2>1, <1>5, <1>6, <1>7 DEF RefsExact
  <2>2. CASE q = r
    BY <2>2, <1>3, <1>3a, <1>5, <1>6, <1>7, ResolverAssumption
  <2> QED BY <2>1, <2>2
<1>11. Listed'
  <2>1. \A q \in inflight : q \in Reqs /\ q # r /\ req'[q] = req[q] /\ req[q].name # n
    BY <1>1, <1>4, <1>5 DEF Joins, Shape
  <2>2. inflight' = {q \in Reqs : thread'[q] # None}
    BY <1>1, <1>2, <1>6 DEF Listed
  <2>3. \A q \in inflight' : req'[q] # None /\ ~req'[q].done
    BY <2>1, <1>1, <1>3, <1>3a, <1>5 DEF Listed
  <2>4. \A p, q \in inflight' : req'[p].name = req'[q].name => p = q
    BY <2>1, <1>1, <1>3, <1>3a, <1>5 DEF Listed
  <2> QED BY <2>2, <2>3, <2>4, <1>8 DEF Listed
<1>12. OwnAddress'
  <2>1. ASSUME NEW d \in Callers, Waits(d)' PROVE req'[call'[d].req].name = call'[d].name
    <3>1. CASE d = c
      BY <3>1, <1>3, <1>5, <1>7
    <3>2. CASE d # c
      <4>1. Waits(d) /\ call'[d] = call[d]
        BY <3>2, <2>1, <1>7 DEF Waits
      <4>2. call[d].req \in Reqs /\ call[d].req # r
        BY <4>1, <1>2, HeldWhileWaiting, MarksAssumption
      <4> QED BY <4>1, <4>2, <1>5 DEF OwnAddress
    <3> QED BY <3>1, <3>2
  <2>2. \A q \in Reqs : req'[q] # None /\ req'[q].out # None => req'[q].out.of = req'[q].name
    BY <1>3, <1>5 DEF OwnAddress
  <2> QED BY <2>1, <2>2, <1>1 DEF OwnAddress
<1>13. ThreadOwn' /\ Dated'
  <2>1. ASSUME NEW q \in Reqs, thread'[q] \in Address
        PROVE  thread'[q] = thread[q] /\ req'[q] = req[q]
    BY <2>1, <1>5, <1>6, MarksAssumption
  <2> QED BY <2>1, <1>1 DEF ThreadOwn, Dated
<1> QED BY <1>9, <1>10, <1>11, <1>12, <1>13

\* A caller that has waited enough returns and lets its request go.
LEMMA WakeStep ==
  ASSUME IInv, NEW c \in Callers, Wake(c)
  PROVE  IInv'
<1> USE ResolverAssumption DEF IInv
<1>0. PICK r : r = call[c].req
  OBVIOUS
<1>1. /\ Waits(c) /\ Return(call[c].name, req[r].out)
      /\ req' = [req EXCEPT ![r] = Unref(req[r])]
      /\ call' = [call EXCEPT ![c] = None]
      /\ UNCHANGED <<truth, cache, inflight, threads, thread, stopping>>
  BY <1>0 DEF Wake
<1>2. call[c] \in Waiting /\ r \in Reqs /\ c \in Holders(r) /\ req[r] \in Request
  BY <1>0, <1>1, HeldWhileWaiting
<1>3. req[r].refs = Cardinality(Holders(r)) + (IF thread[r] = None THEN 0 ELSE 1)
  <2>1. Holders(r) # {} /\ Cardinality(Holders(r)) \in Nat
    BY <1>2, HoldersFinite
  <2> QED BY <2>1, <1>2, Counted
<1>4. /\ answer' \in [name : Names, out : Address \cup {None}]
      /\ answer'.out # None => answer'.out.of = answer'.name
  <2>1. /\ call[c].name \in Names /\ req[r].out \in Address \cup {None}
        /\ req[r].name = call[c].name /\ req[r] # None
    BY <1>1, <1>2, <1>0, MarksAssumption DEF Waiting, Request, OwnAddress
  <2>2. req[r].out # None => req[r].out.of = call[c].name
    BY <2>1, <1>2 DEF OwnAddress
  <2> QED BY <2>1, <2>2, <1>1, Returned
<1>5. /\ call' \in [Callers -> Waiting \cup {None}] /\ call'[c] = None
      /\ \A d \in Callers : d # c => call'[d] = call[d]
  BY <1>1 DEF Shape
<1>6. \A q : q # r => Holders(q)' = Holders(q)
  BY <1>0, <1>5 DEF Holders, Waits
<1>7. /\ Cardinality(Holders(r)) \in Nat /\ Cardinality(Holders(r)) # 0
      /\ Cardinality(Holders(r)') = Cardinality(Holders(r)) - 1
  <2>1. Holders(r)' = Holders(r) \ {c}
    BY <1>0, <1>5 DEF Holders, Waits
  <2>2. IsFiniteSet(Holders(r)) /\ Cardinality(Holders(r)) \in Nat /\ Holders(r) # {}
    BY <1>2, HoldersFinite
  <2>3. Cardinality(Holders(r) \ {c}) = Cardinality(Holders(r)) - 1
    BY <2>2, <1>2, FS_RemoveElement
  <2>4. Cardinality(Holders(r)) # 0
    BY <2>2, FS_EmptySet
  <2> QED BY <2>1, <2>2, <2>3, <2>4
<1>8. /\ req' \in [Reqs -> Request \cup {None}] /\ req'[r] = Unref(req[r])
      /\ \A q \in Reqs : q # r => req'[q] = req[q]
      /\ IF req[r].refs = 1 THEN req'[r] = None
         ELSE /\ req'[r] \in Request /\ req'[r] # None
              /\ req'[r].refs = req[r].refs - 1
              /\ req'[r].name = req[r].name /\ req'[r].done = req[r].done
              /\ req'[r].out = req[r].out
  <2>1. CASE req[r].refs = 1
    BY <2>1, <1>1, <1>2 DEF Shape, Unref
  <2>2. CASE req[r].refs # 1
    <3>1. Unref(req[r]) = [req[r] EXCEPT !.refs = @ - 1]
      BY <2>2 DEF Unref
    <3>2. /\ Unref(req[r]) \in Request
          /\ Unref(req[r]).refs = req[r].refs - 1
          /\ Unref(req[r]).name = req[r].name /\ Unref(req[r]).done = req[r].done
          /\ Unref(req[r]).out = req[r].out
      BY <2>2, <3>1, <1>2, <1>3, <1>7 DEF Request
    <3> QED BY <3>2, <2>2, <1>1, <1>2, MarksAssumption DEF Shape
  <2> QED BY <2>1, <2>2
<1>9. Shape'
  BY <1>1, <1>4, <1>5, <1>8 DEF Shape
<1>10. RefsExact'
  <2> SUFFICES ASSUME NEW q \in Reqs
               PROVE  LET users == Cardinality(Holders(q)') + (IF thread[q] = None THEN 0 ELSE 1)
                      IN  IF users = 0 THEN req'[q] = None ELSE req'[q] # None /\ req'[q].refs = users
    BY <1>1 DEF RefsExact
  <2>1. CASE q # r
    BY <2>1, <1>6, <1>8 DEF RefsExact
  <2>2. CASE q = r
    BY <2>2, <1>3, <1>7, <1>8
  <2> QED BY <2>1, <2>2
<1>11. \A q \in Reqs : thread[q] # None => /\ req'[q] # None
                                          /\ req'[q].name = req[q].name
                                          /\ req'[q].done = req[q].done
  <2> SUFFICES ASSUME NEW q \in Reqs, thread[q] # None
               PROVE  req'[q] # None /\ req'[q].name = req[q].name /\ req'[q].done = req[q].done
    OBVIOUS
  <2>1. CASE q # r
    BY <2>1, <1>8, Counted, MarksAssumption
  <2>2. CASE q = r
    BY <2>2, <1>3, <1>7, <1>8
  <2> QED BY <2>1, <2>2
<1>12. Listed'
  <2>1. \A q \in inflight : q \in Reqs /\ thread[q] # None
    BY DEF Listed
  <2> QED BY <2>1, <1>1, <1>11 DEF Listed
<1>13. OwnAddress'
  <2>1. ASSUME NEW d \in Callers, Waits(d)' PROVE req'[call'[d].req].name = call'[d].name
    <3>1. d # c /\ Waits(d) /\ call'[d] = call[d]
      BY <2>1, <1>5 DEF Waits
    <3>2. call[d].req \in Reqs /\ d \in Holders(call[d].req)
      BY <3>1, HeldWhileWaiting
    <3>3. CASE call[d].req # r
      BY <3>1, <3>2, <3>3, <1>8 DEF OwnAddress
    <3>4. CASE call[d].req = r
      <4>1. Holders(r)' = Holders(r) \ {c} /\ d \in Holders(r)'
        BY <3>1, <3>2, <3>4, <1>5 DEF Holders, Waits
      <4>2. IsFiniteSet(Holders(r)')
        BY <4>1, HoldersFinite, FS_RemoveElement
      <4>3. req[r].refs # 1
        BY <4>1, <4>2, <1>3, <1>7, FS_EmptySet
      <4> QED BY <3>1, <3>4, <4>3, <1>8 DEF OwnAddress
    <3> QED BY <3>3, <3>4
  <2>2. \A q \in Reqs : req'[q] # None /\ req'[q].out # None => req'[q].out.of = req'[q].name
    BY <1>2, <1>8, MarksAssumption DEF OwnAddress
  <2> QED BY <2>1, <2>2, <1>1, <1>4 DEF OwnAddress
<1>14. ThreadOwn' /\ Dated'
  <2>1. \A q \in Reqs : thread[q] \in Address => req'[q].name = req[q].name
    BY <1>11, MarksAssumption
  <2> QED BY <2>1, <1>1 DEF ThreadOwn, Dated
<1> QED BY <1>9, <1>10, <1>12, <1>13, <1>14
-----------------------------------------------------------------------------
(* The theorems *)

LEMMA InvInit == Init => IInv
<1> SUFFICES ASSUME Init PROVE IInv
  OBVIOUS
<1> USE ResolverAssumption DEF Init
<1>1. DOMAIN cache = {} /\ IsFiniteSet(DOMAIN cache) /\ Cardinality(DOMAIN cache) = 0
  BY FS_EmptySet
<1>2. Shape
  <2>1. cache \in [DOMAIN cache -> [addr : Address, age : 0 .. Stale]]
    BY <1>1
  <2>2. DOMAIN cache \subseteq Names /\ Cardinality(DOMAIN cache) <= CacheN
    BY <1>1
  <2>3. /\ truth \in [Names -> 0 .. Moves] /\ req \in [Reqs -> Request \cup {None}]
        /\ inflight \in SUBSET Reqs /\ threads \in Nat
    OBVIOUS
  <2>5. call \in [Callers -> Waiting \cup {None}] /\ stopping \in BOOLEAN
    OBVIOUS
  <2>4. thread \in [Reqs -> Outcome]
    BY DEF Outcome
  <2> QED BY <1>1, <2>1, <2>2, <2>3, <2>4, <2>5 DEF Shape
<1>3. RefsExact
  <2>1. \A r \in Reqs : Holders(r) = {} /\ Cardinality(Holders(r)) = 0
    BY FS_EmptySet DEF Holders, Waits
  <2> QED BY <2>1 DEF RefsExact
<1>4. Listed
  BY FS_EmptySet DEF Listed
<1>5. OwnAddress /\ ThreadOwn /\ Dated
  BY <1>1, MarksAssumption DEF OwnAddress, ThreadOwn, Dated, Waits
<1> QED BY <1>2, <1>3, <1>4, <1>5 DEF IInv

LEMMA InvStep == IInv /\ [Next]_vars => IInv'
<1> SUFFICES ASSUME IInv, [Next]_vars PROVE IInv'
  OBVIOUS
<1>1. CASE \E n \in Names : Move(n)
  BY <1>1, MoveStep
<1>2. CASE \E r \in Reqs : Look(r) \/ Publish(r)
  BY <1>2, LookStep, PublishStep
<1>3. ASSUME NEW c \in Callers, Call(c) PROVE IInv'
  <2>1. PICK n \in Names, left \in 0 .. Deadline :
          \/ Cached(n)
          \/ Join(c, n, left)
          \/ Refuse(n)
          \/ StartLookup(c, n, left)
    BY <1>3 DEF Call
  <2>2. ~Waits(c) /\ UNCHANGED <<truth, cache, stopping>>
    BY <1>3 DEF Call
  <2> QED BY <2>1, <2>2, AnswerStep, JoinStep, StartStep
<1>4. CASE \E c \in Callers : Wake(c)
  BY <1>4, WakeStep
<1>5. CASE Tick \/ StopRelay \/ StartRelay
  BY <1>5, TickStep, RelayStep
<1>6. CASE UNCHANGED vars
  BY <1>6 DEF vars, IInv, Shape, RefsExact, Holders, Waits, Listed, OwnAddress, ThreadOwn, Dated
<1> QED BY <1>1, <1>2, <1>3, <1>4, <1>5, <1>6 DEF Next

\* The inductive invariant: requests, threads and the list agree, and no address
\* in a thread or in the cache is another name's, or out of order.
THEOREM ResolverInv == Spec => []IInv
BY InvInit, InvStep, PTL DEF Spec

\* For any number of callers, names and requests: a request is freed exactly when
\* its last holder leaves it, and res_inflight and res_threads name and count the
\* lookups that run, at most RES_MAX_THREADS of them and one to a name.
THEOREM LookupsAreExact == Spec => []LookupsExact
<1>1. IInv => LookupsExact
  BY DEF IInv, Shape, Outcome, Listed, LookupsExact, TypeOK
<1> QED BY <1>1, ResolverInv, PTL

\* No caller is given, and no entry keeps, another name's address.
THEOREM AddressesAreOwn == Spec => []OwnAddress
<1>1. IInv => OwnAddress
  BY DEF IInv
<1> QED BY <1>1, ResolverInv, PTL

\* No name's cached address is replaced by an older one, and a name loses its
\* entry only as an oldest one of a full cache, to a name that had none.
THEOREM CacheNeverGoesBack == Spec => NeverBack
<1> DEFINE Forward(n) ==
      IF n \in DOMAIN cache'
      THEN cache'[n].addr.gen >= cache[n].addr.gen
      ELSE /\ Full
           /\ DOMAIN cache' \ DOMAIN cache # {}
           /\ \A m \in DOMAIN cache : cache[m].age <= cache[n].age
<1>1. ASSUME IInv, [Next]_vars, NEW n \in DOMAIN cache PROVE Forward(n)
  <2>1. cache[n].addr.gen \in Nat
    BY <1>1, ResolverAssumption DEF IInv, Shape, Address
  <2>2. ASSUME NEW r \in Reqs, Publish(r) PROVE Forward(n)
    <3>1. /\ req[r] \in Request /\ thread[r] \in Address \cup {Failed}
      BY <1>1, <2>2, Published
    <3>2. req[r].name \in Names /\ Learn(req[r].name, thread[r]) /\ Shape
      BY <1>1, <2>2, <3>1 DEF Publish, Request, IInv
    <3>3. /\ \A m \in DOMAIN cache' : m # req[r].name => cache'[m] = cache[m]
          /\ req[r].name \in DOMAIN cache' =>
               \/ thread[r] \in Address /\ cache'[req[r].name].addr = thread[r]
               \/ cache'[req[r].name] = cache[req[r].name]
          /\ \A m \in DOMAIN cache \ DOMAIN cache' :
               /\ m # req[r].name /\ req[r].name \notin DOMAIN cache
               /\ req[r].name \in DOMAIN cache'
               /\ Full /\ Oldest(m)
      BY <3>1, <3>2, Learned
    <3>4. CASE n \notin DOMAIN cache'
      BY <3>3, <3>4 DEF Oldest
    <3>5. CASE n \in DOMAIN cache' /\ (n # req[r].name \/ cache'[n] = cache[n])
      BY <3>3, <3>5, <2>1
    <3>6. CASE n = req[r].name /\ thread[r] \in Address /\ cache'[n].addr = thread[r]
      BY <1>1, <3>6, <3>3 DEF IInv, Dated
    <3> QED BY <3>3, <3>4, <3>5, <3>6
  <2>3. CASE Tick
    <3>1. cache' = [m \in DOMAIN cache |-> [cache[m] EXCEPT !.age = Older(@)]]
      BY <2>3 DEF Tick
    <3> QED BY <3>1, <2>1, <1>1 DEF IInv, Shape
  <2>4. CASE UNCHANGED cache
    BY <2>4, <2>1
  <2>5. CASE UNCHANGED vars
    BY <2>4, <2>5 DEF vars
  <2>6. CASE \/ \E m \in Names : Move(m)
             \/ \E r \in Reqs : Look(r)
             \/ \E c \in Callers : Call(c) \/ Wake(c)
             \/ StopRelay \/ StartRelay
    <3>1. UNCHANGED cache
      BY <2>6 DEF Move, Look, Call, Wake, StopRelay, StartRelay
    <3> QED BY <3>1, <2>4
  <2> HIDE DEF Forward
  <2> QED BY <1>1, <2>2, <2>3, <2>5, <2>6 DEF Next
<1>2. IInv /\ [Next]_vars =>
        [\A n \in DOMAIN cache :
           IF n \in DOMAIN cache'
           THEN cache'[n].addr.gen >= cache[n].addr.gen
           ELSE /\ Full
                /\ DOMAIN cache' \ DOMAIN cache # {}
                /\ \A m \in DOMAIN cache : cache[m].age <= cache[n].age]_vars
  BY <1>1
<1> QED BY <1>2, ResolverInv, PTL DEF NeverBack, Spec
=============================================================================
