------------------------ MODULE LinuxRelayTcpProofs ------------------------
EXTENDS LinuxRelayTcp, FiniteSetTheorems, SequenceTheorems, TLAPS

-----------------------------------------------------------------------------
(* Queues *)

\* An empty queue holds nothing, and nothing twice.
LEMMA RangeEmpty == Range(<<>>) = {} /\ IsInjective(<<>>)
BY DEF Range, IsInjective

\* A queue of connections holds connections only.
LEMMA RangeSubset ==
  ASSUME NEW S, NEW s \in Seq(S)
  PROVE  Range(s) \subseteq S
BY DEF Range

\* Queueing x adds x to what a queue holds, and a new x keeps its entries distinct.
LEMMA RangeAppend ==
  ASSUME NEW S, NEW s \in Seq(S), NEW x \in S
  PROVE  /\ Append(s, x) \in Seq(S)
         /\ Range(Append(s, x)) = Range(s) \cup {x}
         /\ IsInjective(s) /\ x \notin Range(s) => IsInjective(Append(s, x))
<1> DEFINE a == Append(s, x)
<1>1. /\ a \in Seq(S) /\ Len(a) = Len(s) + 1 /\ Len(s) \in Nat
      /\ \A i \in 1 .. Len(s) : a[i] = s[i]
      /\ a[Len(s) + 1] = x
  BY AppendProperties
<1>2. DOMAIN a = 1 .. Len(s) + 1 /\ DOMAIN s = 1 .. Len(s)
  BY <1>1
<1> HIDE DEF a
<1>3. Range(a) = Range(s) \cup {x}
  BY <1>1, <1>2 DEF Range
<1>4. IsInjective(s) /\ x \notin Range(s) => IsInjective(a)
  BY <1>1, <1>2 DEF Range, IsInjective
<1> QED BY <1>1, <1>3, <1>4 DEF a

\* Taking the head off a queue of distinct entries removes exactly that entry.
LEMMA RangeTail ==
  ASSUME NEW S, NEW s \in Seq(S), s # <<>>
  PROVE  /\ Head(s) \in S /\ Head(s) \in Range(s)
         /\ Tail(s) \in Seq(S)
         /\ IsInjective(s) => /\ Range(Tail(s)) = Range(s) \ {Head(s)}
                              /\ IsInjective(Tail(s))
<1> DEFINE a == Tail(s)
<1>1. /\ a \in Seq(S) /\ Len(s) \in Nat /\ Len(s) # 0 /\ Len(a) = Len(s) - 1
      /\ \A i \in 1 .. Len(a) : a[i] = s[i + 1]
      /\ Head(s) = s[1] /\ Head(s) \in S
  BY HeadTailProperties, EmptySeq
<1>2. DOMAIN a = 1 .. Len(s) - 1 /\ DOMAIN s = 1 .. Len(s)
  BY <1>1
<1> HIDE DEF a
<1>3. Head(s) \in Range(s)
  BY <1>1, <1>2 DEF Range
<1>4. ASSUME IsInjective(s) PROVE Range(a) = Range(s) \ {Head(s)} /\ IsInjective(a)
  <2>1. \A c \in Range(a) : c \in Range(s) /\ c # s[1]
    BY <1>1, <1>2, <1>4 DEF Range, IsInjective
  <2>2. ASSUME NEW c \in Range(s), c # s[1] PROVE c \in Range(a)
    <3>1. PICK i \in 1 .. Len(s) : c = s[i]
      BY <1>2 DEF Range
    <3>2. i # 1 /\ i - 1 \in DOMAIN a /\ a[i - 1] = s[i]
      BY <3>1, <2>2, <1>1, <1>2
    <3> QED BY <3>1, <3>2 DEF Range
  <2>3. ASSUME NEW i \in DOMAIN a, NEW j \in DOMAIN a, a[i] = a[j] PROVE i = j
    <3>1. i + 1 \in DOMAIN s /\ j + 1 \in DOMAIN s /\ s[i + 1] = s[j + 1]
      BY <2>3, <1>1, <1>2
    <3>2. i + 1 = j + 1
      BY <3>1, <1>4 DEF IsInjective
    <3> QED BY <3>2, <1>1, <1>2
  <2> QED BY <1>1, <2>1, <2>2, <2>3 DEF IsInjective
<1> QED BY <1>1, <1>3, <1>4 DEF a

-----------------------------------------------------------------------------
(* Type correctness and control *)

\* Every step of the relay preserves type correctness.
LEMMA TypeStep ==
  ASSUME TypeOK, Control, [Next]_vars
  PROVE  TypeOK'
<1> USE RelayAssumption DEF TypeOK, Control, accVars, workVars, evVars, dataVars, rest
<1>1. ASSUME NEW c \in Conns, Connect(c) PROVE TypeOK'
  BY <1>1 DEF Connect
<1>2. ASSUME AcceptorPoll PROVE TypeOK'
  BY <1>2 DEF AcceptorPoll
<1>3. ASSUME JobPush PROVE TypeOK'
  BY RangeAppend, <1>3 DEF JobPush, Signal
<1>4. ASSUME JobPushFail PROVE TypeOK'
  BY <1>4 DEF JobPushFail
<1>5. ASSUME AcceptorBreak PROVE TypeOK'
  BY <1>5 DEF AcceptorBreak
<1>6. ASSUME NEW c \in Conns, AcceptorDrop(c) PROVE TypeOK'
  BY <1>6 DEF AcceptorDrop
<1>7. ASSUME NEW c \in Conns, AcceptorCount(c) PROVE TypeOK'
  BY <1>7 DEF AcceptorCount, Room
<1>8. ASSUME NEW w \in Workers, WorkerExit(w) PROVE TypeOK'
  BY <1>8 DEF WorkerExit
<1>9. ASSUME NEW w \in Workers, WorkerWait(w) PROVE TypeOK'
  BY <1>9 DEF WorkerWait
<1>10. ASSUME NEW w \in Workers, WorkerTake(w) PROVE TypeOK'
  BY RangeTail, <1>10 DEF WorkerTake
<1>11. ASSUME NEW w \in Workers, WorkerSpurious(w) PROVE TypeOK'
  BY <1>11 DEF WorkerSpurious
<1>12. ASSUME NEW w \in Workers, WorkerFail(w) PROVE TypeOK'
  BY <1>12 DEF WorkerFail
<1>13. ASSUME NEW w \in Workers, NEW t \in DataThreads, WorkerConnected(w, t) PROVE TypeOK'
  BY <1>13 DEF WorkerConnected
<1>14. ASSUME NEW w \in Workers, WorkerPush(w) PROVE TypeOK'
  BY RangeAppend, <1>14 DEF WorkerPush, HandoverOpen
<1>15. ASSUME NEW w \in Workers, WorkerPushStopped(w) PROVE TypeOK'
  BY <1>15 DEF WorkerPushStopped, CloseBoth
<1>16. ASSUME NEW w \in Workers, WorkerWake(w) PROVE TypeOK'
  BY <1>16 DEF WorkerWake, Wake
<1>17. ASSUME NEW t \in DataThreads, DataTest(t) PROVE TypeOK'
  BY <1>17 DEF DataTest, rest
<1>18. ASSUME NEW t \in DataThreads, DataPoll(t) PROVE TypeOK'
  BY <1>18 DEF DataPoll, rest
<1>19. ASSUME NEW t \in DataThreads, DataStop(t) PROVE TypeOK'
  BY <1>19 DEF DataStop, rest
<1>20. ASSUME NEW t \in DataThreads, DataWake(t) PROVE TypeOK'
  BY EmptySeq, <1>20 DEF DataWake, rest
<1>37. ASSUME NEW t \in DataThreads, DataDetach(t) PROVE TypeOK'
  BY EmptySeq, <1>37 DEF DataDetach, rest, Detach
<1>21. ASSUME NEW t \in DataThreads, DataAdopt(t) PROVE TypeOK'
  BY RangeTail, <1>21 DEF DataAdopt, rest
<1>22. ASSUME NEW t \in DataThreads, DataAdoptClose(t) PROVE TypeOK'
  BY RangeTail, <1>22 DEF DataAdoptClose, rest, ConnClose, CloseBoth
<1>23. ASSUME NEW t \in DataThreads, NEW c \in Conns, NEW s \in Sides, DataServe(t, c, s) PROVE TypeOK'
  BY <1>23 DEF DataServe, rest
<1>24. ASSUME NEW t \in DataThreads, NEW c \in Conns, NEW s \in Sides, DataServeClose(t, c, s) PROVE TypeOK'
  <2>1. evConns' \in [DataThreads -> SUBSET (Conns \X Sides)]
    BY <1>24 DEF DataServeClose, rest
  <2>2. UNCHANGED <<life, stopping, accVars, jq, workVars, inq, wake, dpc, evStop, evWake, adopting>>
    BY <1>24 DEF DataServeClose, rest
  <2>3. /\ conns' = [conns EXCEPT ![t] = @ \ {c}] /\ grave' = [grave EXCEPT ![t] = @ \cup {c}]
        /\ fd' = [fd EXCEPT ![c] = "none"] /\ up' = up \ {c}
        /\ nconn' = nconn - 1 /\ load' = [load EXCEPT ![t] = @ - 1]
    BY <1>24 DEF DataServeClose, rest, ConnClose, CloseBoth
  <2> QED BY <2>1, <2>2, <2>3
<1>25. ASSUME NEW t \in DataThreads, DataBatchEnd(t) PROVE TypeOK'
  BY <1>25 DEF DataBatchEnd, rest
<1>26. ASSUME NEW t \in DataThreads, NEW c \in Conns, DataSweepClose(t, c) PROVE TypeOK'
  BY <1>26 DEF DataSweepClose, rest, ConnClose, CloseBoth
<1>27. ASSUME NEW t \in DataThreads, DataSweepEnd(t) PROVE TypeOK'
  BY <1>27 DEF DataSweepEnd, rest
<1>28. ASSUME NEW ds \in SUBSET DataThreads, NEW ws \in SUBSET Workers, NEW all \in BOOLEAN, Start(ds, ws, all) PROVE TypeOK'
  <2>1. /\ life' \in {"running", "failing"} /\ stopping' = FALSE /\ nconn' = 0
        /\ accpc' \in {"poll", "none"} /\ burst' = 0
    BY <1>28 DEF Start
  <2>2. /\ wpc' \in [Workers -> {"none", "lock", "wait", "job", "push", "wake", "exited"}]
        /\ dpc' \in [DataThreads -> {"none", "test", "poll", "batch", "woken", "sweep", "exited"}]
    BY <1>28 DEF Start
  <2>3. load' \in [DataThreads -> Int] /\ wake' \in [DataThreads -> BOOLEAN]
    BY <1>28 DEF Start
  <2>4. UNCHANGED <<fd, up, acc, jq, wc, wt, inq, evVars, adopting, conns, grave>>
    BY <1>28 DEF Start
  <2>5. burst' \in 0 .. Burst /\ nconn' \in Int /\ stopping' \in BOOLEAN
    <3>1. 0 \in 0 .. Burst /\ 0 \in Int /\ FALSE \in BOOLEAN
      BY RelayAssumption
    <3> QED BY ONLY <2>1, <3>1
  <2>6. acc' = acc /\ accpc' \in {"none", "poll", "burst", "push", "exited"}
    BY <2>1, <2>4
  <2>7. life' \in {"off", "running", "failing", "broadcast", "join_acceptor",
                   "join_workers", "join_data", "drain"}
    BY <2>1
  <2>8. /\ fd' = fd /\ up' = up /\ jq' = jq /\ wc' = wc /\ wt' = wt /\ inq' = inq
        /\ evStop' = evStop /\ evWake' = evWake /\ evConns' = evConns
        /\ adopting' = adopting /\ conns' = conns /\ grave' = grave
    BY <2>4
  <2> QED BY <2>2, <2>3, <2>5, <2>6, <2>7, <2>8
<1>29. ASSUME StopFlag PROVE TypeOK'
  BY <1>29 DEF StopFlag
<1>30. ASSUME StopBroadcast PROVE TypeOK'
  BY <1>30 DEF StopBroadcast, Broadcast
<1>31. ASSUME StopJoin PROVE TypeOK'
  BY <1>31 DEF StopJoin, WorkersJoined, Gone
<1>32. ASSUME DrainJob PROVE TypeOK'
  BY RangeTail, <1>32 DEF DrainJob
<1>33. ASSUME NEW t \in DataThreads, DrainInq(t) PROVE TypeOK'
  BY RangeTail, <1>33 DEF DrainInq, CloseBoth
<1>34. ASSUME NEW t \in DataThreads, NEW c \in Conns, DrainConn(t, c) PROVE TypeOK'
  BY <1>34 DEF DrainConn, CloseBoth
<1>35. ASSUME DrainEnd PROVE TypeOK'
  BY <1>35 DEF DrainEnd, Drained
<1>36. CASE UNCHANGED vars
  BY <1>36 DEF vars
<1> HIDE DEF TypeOK, Control, accVars, workVars, evVars, dataVars, rest
<1> QED BY <1>1, <1>2, <1>3, <1>4, <1>5, <1>6, <1>7, <1>8, <1>9, <1>10, <1>11, <1>12,
           <1>13, <1>14, <1>15, <1>16, <1>17, <1>18, <1>19, <1>20, <1>21, <1>22, <1>23, <1>24,
           <1>25, <1>26, <1>27, <1>28, <1>29, <1>30, <1>31, <1>32, <1>33, <1>34, <1>35, <1>36, <1>37
        DEF Next, Acceptor, Worker, Data, Teardown

\* Every step preserves the link between what a thread is doing and what it holds,
\* and the order in which teardown joins the threads.
LEMMA ControlStep ==
  ASSUME TypeOK, Control, [Next]_vars
  PROVE  Control'
<1> USE RelayAssumption DEF TypeOK, Control, Gone, accVars, workVars, evVars, dataVars, rest
<1>1. ASSUME NEW c \in Conns, Connect(c) PROVE Control'
  BY <1>1 DEF Connect
<1>2. ASSUME AcceptorPoll PROVE Control'
  BY <1>2 DEF AcceptorPoll
<1>3. ASSUME JobPush PROVE Control'
  BY RangeAppend, <1>3 DEF JobPush, Signal
<1>4. ASSUME JobPushFail PROVE Control'
  BY <1>4 DEF JobPushFail
<1>5. ASSUME AcceptorBreak PROVE Control'
  BY <1>5 DEF AcceptorBreak
<1>6. ASSUME NEW c \in Conns, AcceptorDrop(c) PROVE Control'
  BY <1>6 DEF AcceptorDrop
<1>7. ASSUME NEW c \in Conns, AcceptorCount(c) PROVE Control'
  BY <1>7 DEF AcceptorCount, Room
<1>8. ASSUME NEW w \in Workers, WorkerExit(w) PROVE Control'
  BY <1>8 DEF WorkerExit
<1>9. ASSUME NEW w \in Workers, WorkerWait(w) PROVE Control'
  BY <1>9 DEF WorkerWait
<1>10. ASSUME NEW w \in Workers, WorkerTake(w) PROVE Control'
  BY RangeTail, <1>10 DEF WorkerTake
<1>11. ASSUME NEW w \in Workers, WorkerSpurious(w) PROVE Control'
  BY <1>11 DEF WorkerSpurious
<1>12. ASSUME NEW w \in Workers, WorkerFail(w) PROVE Control'
  BY <1>12 DEF WorkerFail
<1>13. ASSUME NEW w \in Workers, NEW t \in DataThreads, WorkerConnected(w, t) PROVE Control'
  BY <1>13 DEF WorkerConnected
<1>14. ASSUME NEW w \in Workers, WorkerPush(w) PROVE Control'
  BY RangeAppend, <1>14 DEF WorkerPush, HandoverOpen
<1>15. ASSUME NEW w \in Workers, WorkerPushStopped(w) PROVE Control'
  BY <1>15 DEF WorkerPushStopped, CloseBoth
<1>16. ASSUME NEW w \in Workers, WorkerWake(w) PROVE Control'
  BY <1>16 DEF WorkerWake, Wake
<1>17. ASSUME NEW t \in DataThreads, DataTest(t) PROVE Control'
  BY <1>17 DEF DataTest, rest
<1>18. ASSUME NEW t \in DataThreads, DataPoll(t) PROVE Control'
  BY <1>18 DEF DataPoll, rest
<1>19. ASSUME NEW t \in DataThreads, DataStop(t) PROVE Control'
  BY <1>19 DEF DataStop, rest
<1>20. ASSUME NEW t \in DataThreads, DataWake(t) PROVE Control'
  BY EmptySeq, <1>20 DEF DataWake, rest
<1>37. ASSUME NEW t \in DataThreads, DataDetach(t) PROVE Control'
  BY EmptySeq, <1>37 DEF DataDetach, rest, Detach
<1>21. ASSUME NEW t \in DataThreads, DataAdopt(t) PROVE Control'
  BY RangeTail, <1>21 DEF DataAdopt, rest
<1>22. ASSUME NEW t \in DataThreads, DataAdoptClose(t) PROVE Control'
  BY RangeTail, <1>22 DEF DataAdoptClose, rest, ConnClose, CloseBoth
<1>23. ASSUME NEW t \in DataThreads, NEW c \in Conns, NEW s \in Sides, DataServe(t, c, s) PROVE Control'
  BY <1>23 DEF DataServe, rest
<1>24. ASSUME NEW t \in DataThreads, NEW c \in Conns, NEW s \in Sides, DataServeClose(t, c, s) PROVE Control'
  <2>1. evConns' \in [DataThreads -> SUBSET (Conns \X Sides)]
    BY <1>24 DEF DataServeClose, rest
  <2>2. UNCHANGED <<life, stopping, accVars, jq, workVars, inq, wake, dpc, evStop, evWake, adopting>>
    BY <1>24 DEF DataServeClose, rest
  <2>3. /\ conns' = [conns EXCEPT ![t] = @ \ {c}] /\ grave' = [grave EXCEPT ![t] = @ \cup {c}]
        /\ fd' = [fd EXCEPT ![c] = "none"] /\ up' = up \ {c}
        /\ nconn' = nconn - 1 /\ load' = [load EXCEPT ![t] = @ - 1]
    BY <1>24 DEF DataServeClose, rest, ConnClose, CloseBoth
  <2> QED BY <2>1, <2>2, <2>3
<1>25. ASSUME NEW t \in DataThreads, DataBatchEnd(t) PROVE Control'
  BY <1>25 DEF DataBatchEnd, rest
<1>26. ASSUME NEW t \in DataThreads, NEW c \in Conns, DataSweepClose(t, c) PROVE Control'
  BY <1>26 DEF DataSweepClose, rest, ConnClose, CloseBoth
<1>27. ASSUME NEW t \in DataThreads, DataSweepEnd(t) PROVE Control'
  BY <1>27 DEF DataSweepEnd, rest
<1>28. ASSUME NEW ds \in SUBSET DataThreads, NEW ws \in SUBSET Workers, NEW all \in BOOLEAN, Start(ds, ws, all) PROVE Control'
  <2>1. /\ acc = None /\ \A w \in Workers : wc[w] = None /\ wt[w] = None
        /\ \A t \in DataThreads : adopting[t] = <<>>
    BY <1>28 DEF Start
  <2>2. /\ life' \in {"running", "failing"}
        /\ ~stopping'
    BY <1>28 DEF Start
  <2>3. acc' = None /\ accpc' # "push"
    BY <2>1, <1>28 DEF Start
  <2>4. \A w \in Workers : wpc'[w] \in {"lock", "none"} /\ wc'[w] = None /\ wt'[w] = None
    BY <2>1, <1>28 DEF Start
  <2>5. \A t \in DataThreads : adopting'[t] = <<>>
    BY <2>1, <1>28 DEF Start
  <2> QED BY <2>2, <2>3, <2>4, <2>5
<1>29. ASSUME StopFlag PROVE Control'
  BY <1>29 DEF StopFlag
<1>30. ASSUME StopBroadcast PROVE Control'
  BY <1>30 DEF StopBroadcast, Broadcast
<1>31. ASSUME StopJoin PROVE Control'
  BY <1>31 DEF StopJoin, WorkersJoined, Gone
<1>32. ASSUME DrainJob PROVE Control'
  BY RangeTail, <1>32 DEF DrainJob
<1>33. ASSUME NEW t \in DataThreads, DrainInq(t) PROVE Control'
  BY RangeTail, <1>33 DEF DrainInq, CloseBoth
<1>34. ASSUME NEW t \in DataThreads, NEW c \in Conns, DrainConn(t, c) PROVE Control'
  BY <1>34 DEF DrainConn, CloseBoth
<1>35. ASSUME DrainEnd PROVE Control'
  BY <1>35 DEF DrainEnd, Drained
<1>36. CASE UNCHANGED vars
  BY <1>36 DEF vars
<1> HIDE DEF TypeOK, Control, Gone, accVars, workVars, evVars, dataVars, rest
<1> QED BY <1>1, <1>2, <1>3, <1>4, <1>5, <1>6, <1>7, <1>8, <1>9, <1>10, <1>11, <1>12,
           <1>13, <1>14, <1>15, <1>16, <1>17, <1>18, <1>19, <1>20, <1>21, <1>22, <1>23, <1>24,
           <1>25, <1>26, <1>27, <1>28, <1>29, <1>30, <1>31, <1>32, <1>33, <1>34, <1>35, <1>36, <1>37
        DEF Next, Acceptor, Worker, Data, Teardown
-----------------------------------------------------------------------------
(* Ownership: how a step changes who holds what *)

Ownership == SingleOwner /\ SocketsOwned

\* A step keeps the set of held connections, takes one in, hands one to a data thread,
\* or lets one go, and the counter follows.
Kept    == Held' = Held /\ InThreads' = InThreads /\ nconn' = nconn
Took    == \E c \in Conns \ Held : /\ Held' = Held \cup {c} /\ InThreads' = InThreads
                                  /\ nconn' = nconn + 1 /\ nconn < MaxConns
Handed  == \E c \in Held \ InThreads : /\ Held' = Held /\ InThreads' = InThreads \cup {c}
                                       /\ nconn' = nconn /\ ~stopping
LetGo   == \E c \in Held : /\ Held' = Held \ {c} /\ InThreads' = InThreads \ {c}
                           /\ nconn' = nconn - 1
Counted == Kept \/ Took \/ Handed \/ LetGo

\* A step that moves no connection preserves who owns what.
LEMMA OwnershipFrame ==
  ASSUME TypeOK, Ownership, Open' = Open,
         UNCHANGED <<nconn, up, acc, jq, wc, inq, adopting, conns>>,
         \A v \in Workers : (wpc'[v] = "push") <=> (wpc[v] = "push")
  PROVE  Ownership' /\ Kept
<1>1. Held' = Held /\ InThreads' = InThreads
  BY DEF Held, InWorkers, InThreads, InThread
<1>2. SingleOwner'
  BY DEF Ownership, SingleOwner, QueuesDistinct, OwnersDisjoint, InThreads, InThread
<1>3. SocketsOwned'
  BY <1>1 DEF Ownership, SocketsOwned, InThreads, InThread
<1> QED BY <1>1, <1>2, <1>3 DEF Ownership, Kept

\* A step that takes c out of the only place it was in and closes both its sockets
\* preserves who owns what.
LEMMA OwnershipRelease ==
  ASSUME TypeOK, TypeOK', Ownership, NEW c \in Held, c # None,
         acc' = (IF acc = c THEN None ELSE acc),
         Range(jq') = Range(jq) \ {c}, IsInjective(jq'),
         \A w \in Workers : wc'[w] = IF wc[w] = c THEN None ELSE wc[w],
         \A w \in Workers : wc[w] # c => ((wpc'[w] = "push") <=> (wpc[w] = "push")),
         \A w \in Workers : wc[w] = c => wpc'[w] # "push",
         \A t \in DataThreads : /\ Range(inq'[t]) = Range(inq[t]) \ {c}
                                /\ Range(adopting'[t]) = Range(adopting[t]) \ {c}
                                /\ conns'[t] = conns[t] \ {c}
                                /\ IsInjective(inq'[t]) /\ IsInjective(adopting'[t]),
         fd' = [fd EXCEPT ![c] = "none"], up' = up \ {c}, nconn' = nconn - 1
  PROVE  Ownership' /\ LetGo
<1>1. \A t \in DataThreads : InThread(t)' = InThread(t) \ {c}
  BY DEF InThread
<1>2. InThreads' = InThreads \ {c}
  BY <1>1 DEF InThreads
<1>3. InWorkers' = InWorkers \ {c}
  BY DEF InWorkers
<1>4. Held' = Held \ {c}
  BY <1>2, <1>3 DEF Held
<1>5. Open' = Open \ {c}
  BY DEF Open, TypeOK
<1>6. QueuesDistinct'
  BY DEF QueuesDistinct
<1>7. OwnersDisjoint'
  <2>1. ASSUME NEW w \in Workers, wc'[w] # None
        PROVE  /\ wc'[w] # acc' /\ wc'[w] \notin Range(jq') /\ wc'[w] \notin InThreads'
               /\ \A v \in Workers \ {w} : wc'[v] # wc'[w]
    BY <2>1, <1>2 DEF Ownership, SingleOwner, OwnersDisjoint
  <2>2. acc' \notin Range(jq') \cup InThreads' /\ Range(jq') \cap InThreads' = {}
    <3>1. None \notin Range(jq) \cup InThreads
      BY RelayAssumption, RangeSubset DEF TypeOK, InThreads, InThread
    <3> QED BY <3>1, <1>2 DEF Ownership, SingleOwner, OwnersDisjoint
  <2>3. ASSUME NEW t \in DataThreads
        PROVE  /\ Range(inq'[t]) \cap Range(adopting'[t]) = {}
               /\ Range(inq'[t]) \cap conns'[t] = {}
               /\ Range(adopting'[t]) \cap conns'[t] = {}
               /\ \A u \in DataThreads \ {t} : InThread(t)' \cap InThread(u)' = {}
    BY <1>1 DEF Ownership, SingleOwner, OwnersDisjoint
  <2> QED BY <2>1, <2>2, <2>3 DEF OwnersDisjoint, InThreads
<1>8. SocketsOwned'
  <2>1. {wc'[w] : w \in {v \in Workers : wpc'[v] = "push"}}
          = {wc[w] : w \in {v \in Workers : wpc[v] = "push"}} \ {c}
    OBVIOUS
  <2> QED BY <2>1, <1>2, <1>4, <1>5 DEF Ownership, SocketsOwned
<1> QED BY <1>2, <1>4, <1>6, <1>7, <1>8 DEF Ownership, SingleOwner, LetGo

\* A connection that is in one place is in no other.
LEMMA OnlyPlace ==
  ASSUME TypeOK, Ownership
  PROVE  /\ acc # None => /\ \A w \in Workers : wc[w] # acc
                          /\ acc \notin Range(jq)
                          /\ \A t \in DataThreads : acc \notin InThread(t)
         /\ \A c \in Range(jq) : /\ c # None /\ c # acc
                                 /\ \A w \in Workers : wc[w] # c
                                 /\ \A t \in DataThreads : c \notin InThread(t)
         /\ \A w \in Workers : wc[w] # None =>
              /\ wc[w] # acc /\ wc[w] \notin Range(jq)
              /\ \A v \in Workers \ {w} : wc[v] # wc[w]
              /\ \A t \in DataThreads : wc[w] \notin InThread(t)
         /\ \A t \in DataThreads : \A c \in InThread(t) :
              /\ c # None /\ c # acc /\ c \notin Range(jq)
              /\ \A w \in Workers : wc[w] # c
              /\ \A u \in DataThreads \ {t} : c \notin InThread(u)
<1>1. None \notin Range(jq) /\ \A t \in DataThreads : None \notin InThread(t)
  BY RelayAssumption, RangeSubset DEF TypeOK, InThread
<1>2. \A t \in DataThreads : InThread(t) \subseteq InThreads
  BY DEF InThreads
<1> QED BY <1>1, <1>2 DEF Ownership, SingleOwner, OwnersDisjoint

\* A data thread, or teardown on its behalf, closes one of the thread's connections.
LEMMA ThreadRelease ==
  ASSUME TypeOK, TypeOK', Ownership,
         NEW t \in DataThreads, NEW c \in InThread(t),
         UNCHANGED <<acc, jq, wc, wpc>>,
         \A u \in DataThreads \ {t} :
            inq'[u] = inq[u] /\ adopting'[u] = adopting[u] /\ conns'[u] = conns[u],
         Range(inq'[t]) = Range(inq[t]) \ {c}, IsInjective(inq'[t]),
         Range(adopting'[t]) = Range(adopting[t]) \ {c}, IsInjective(adopting'[t]),
         conns'[t] = conns[t] \ {c},
         CloseBoth(c), nconn' = nconn - 1
  PROVE  Ownership' /\ LetGo
<1>1. c # None /\ c # acc /\ c \notin Range(jq) /\ \A w \in Workers : wc[w] # c
  BY OnlyPlace
<1>2. c \in Held
  BY DEF Held, InThreads
<1>3. \A u \in DataThreads : /\ Range(inq'[u]) = Range(inq[u]) \ {c}
                             /\ Range(adopting'[u]) = Range(adopting[u]) \ {c}
                             /\ conns'[u] = conns[u] \ {c}
                             /\ IsInjective(inq'[u]) /\ IsInjective(adopting'[u])
  <2>1. \A u \in DataThreads \ {t} : c \notin Range(inq[u]) \cup Range(adopting[u]) \cup conns[u]
    BY OnlyPlace DEF InThread
  <2> QED BY <2>1 DEF Ownership, SingleOwner, QueuesDistinct
<1>4. Range(jq') = Range(jq) \ {c} /\ IsInjective(jq')
  BY <1>1 DEF Ownership, SingleOwner, QueuesDistinct
<1>5. fd' = [fd EXCEPT ![c] = "none"] /\ up' = up \ {c}
  BY DEF CloseBoth
<1> QED BY <1>1, <1>2, <1>3, <1>4, <1>5, OwnershipRelease

\* A worker closes the connection it is working on.
LEMMA WorkerRelease ==
  ASSUME TypeOK, TypeOK', Ownership,
         NEW w \in Workers, wc[w] # None,
         UNCHANGED <<acc, jq, inq, adopting, conns>>,
         wc' = [wc EXCEPT ![w] = None], wpc' = [wpc EXCEPT ![w] = "lock"],
         CloseBoth(wc[w]), nconn' = nconn - 1
  PROVE  Ownership' /\ LetGo
<1> DEFINE c == wc[w]
<1>1. /\ c # acc /\ c \notin Range(jq)
      /\ \A v \in Workers \ {w} : wc[v] # c
      /\ \A t \in DataThreads : c \notin InThread(t)
  BY OnlyPlace
<1>2. c \in Held
  BY DEF Held, InWorkers
<1>3. \A u \in DataThreads : /\ Range(inq'[u]) = Range(inq[u]) \ {c}
                             /\ Range(adopting'[u]) = Range(adopting[u]) \ {c}
                             /\ conns'[u] = conns[u] \ {c}
                             /\ IsInjective(inq'[u]) /\ IsInjective(adopting'[u])
  BY <1>1 DEF InThread, Ownership, SingleOwner, QueuesDistinct
<1>4. Range(jq') = Range(jq) \ {c} /\ IsInjective(jq')
  BY <1>1 DEF Ownership, SingleOwner, QueuesDistinct
<1>5. /\ \A v \in Workers : wc'[v] = IF wc[v] = c THEN None ELSE wc[v]
      /\ \A v \in Workers : wc[v] # c => ((wpc'[v] = "push") <=> (wpc[v] = "push"))
      /\ \A v \in Workers : wc[v] = c => wpc'[v] # "push"
  BY <1>1 DEF TypeOK
<1>6. fd' = [fd EXCEPT ![c] = "none"] /\ up' = up \ {c}
  BY DEF CloseBoth
<1>7. acc' = IF acc = c THEN None ELSE acc
  BY <1>1
<1> HIDE DEF c
<1> QED BY <1>2, <1>3, <1>4, <1>5, <1>6, <1>7, OwnershipRelease DEF c

\* What every step of a relay that is not off does to the ownership of connections.
LEMMA OwnershipStep ==
  ASSUME TypeOK, TypeOK', Control, Ownership, NoDanglingEvent, Next, life # "off"
  PROVE  Ownership' /\ Counted
<1>1. ASSUME NEW c \in Conns, Connect(c) PROVE Ownership' /\ Counted
  <2>1. UNCHANGED <<nconn, up, acc, jq, wc, inq, adopting, conns>> /\ Open' = Open
        /\ \A v \in Workers : (wpc'[v] = "push") <=> (wpc[v] = "push")
    BY <1>1 DEF Connect, Open, TypeOK, accVars, workVars, evVars, dataVars
  <2> QED BY <2>1, OwnershipFrame DEF Counted
<1>2. ASSUME AcceptorPoll PROVE Ownership' /\ Counted
  <2>1. UNCHANGED <<nconn, up, acc, jq, wc, inq, adopting, conns>> /\ Open' = Open
        /\ \A v \in Workers : (wpc'[v] = "push") <=> (wpc[v] = "push")
    BY <1>2 DEF AcceptorPoll, Open, TypeOK, accVars, workVars, evVars, dataVars
  <2> QED BY <2>1, OwnershipFrame DEF Counted
<1>3. ASSUME JobPush PROVE Ownership' /\ Counted
  <2>1. /\ acc # None /\ acc \in Conns /\ acc' = None
        /\ jq' = Append(jq, acc)
        /\ UNCHANGED <<nconn, fd, up, wc, inq, adopting, conns>>
    BY <1>3 DEF JobPush, TypeOK, Control, dataVars
  <2>2. \A v \in Workers : (wpc'[v] = "push") <=> (wpc[v] = "push")
    BY <1>3 DEF JobPush, Signal, TypeOK
  <2>3. Range(jq') = Range(jq) \cup {acc} /\ IsInjective(jq')
    BY <2>1, OnlyPlace, RangeAppend DEF TypeOK, Ownership, SingleOwner, QueuesDistinct
  <2>4. InThreads' = InThreads /\ InWorkers' = InWorkers /\ Open' = Open
        /\ \A t \in DataThreads : InThread(t)' = InThread(t)
    BY <2>1 DEF InThreads, InThread, InWorkers, Open
  <2>5. Kept
    BY <2>1, <2>3, <2>4 DEF Held, Kept
  <2>6. SingleOwner'
    <3>1. acc \notin InThreads /\ None \notin Range(jq') \cup InThreads'
      BY <2>1, <2>3, <2>4, OnlyPlace DEF InThreads
    <3>2. \A w \in Workers : wc[w] # acc
      BY <2>1, OnlyPlace
    <3> QED BY <2>1, <2>3, <2>4, <3>1, <3>2
            DEF Ownership, SingleOwner, QueuesDistinct, OwnersDisjoint
  <2> QED BY <2>1, <2>2, <2>4, <2>5, <2>6 DEF Ownership, SocketsOwned, Kept, Counted
<1>4. ASSUME JobPushFail PROVE Ownership' /\ Counted
  <2> DEFINE c == acc
  <2>1. /\ c # None /\ c \in Held /\ acc' = None
        /\ UNCHANGED <<up, jq, wc, wpc, inq, adopting, conns>>
        /\ fd' = [fd EXCEPT ![c] = "none"] /\ nconn' = nconn - 1
    BY <1>4 DEF JobPushFail, Held, TypeOK, Control, workVars, dataVars
  <2>2. /\ \A w \in Workers : wc[w] # c
        /\ c \notin Range(jq) /\ \A t \in DataThreads : c \notin InThread(t)
    BY <2>1, OnlyPlace
  <2>3. up' = up \ {c}
    BY <2>1, <2>2 DEF Ownership, SocketsOwned, InThreads
  <2>4. /\ Range(jq') = Range(jq) \ {c} /\ IsInjective(jq')
        /\ \A t \in DataThreads : /\ Range(inq'[t]) = Range(inq[t]) \ {c}
                                  /\ Range(adopting'[t]) = Range(adopting[t]) \ {c}
                                  /\ conns'[t] = conns[t] \ {c}
                                  /\ IsInjective(inq'[t]) /\ IsInjective(adopting'[t])
    BY <2>1, <2>2 DEF Ownership, SingleOwner, QueuesDistinct, InThread
  <2> QED BY <2>1, <2>2, <2>3, <2>4, TypeStep, OwnershipRelease DEF Counted
<1>5. ASSUME AcceptorBreak PROVE Ownership' /\ Counted
  <2>1. UNCHANGED <<nconn, up, acc, jq, wc, inq, adopting, conns>> /\ Open' = Open
        /\ \A v \in Workers : (wpc'[v] = "push") <=> (wpc[v] = "push")
    BY <1>5 DEF AcceptorBreak, Open, TypeOK, accVars, workVars, evVars, dataVars
  <2> QED BY <2>1, OwnershipFrame DEF Counted
<1>6. ASSUME NEW c \in Conns, AcceptorDrop(c) PROVE Ownership' /\ Counted
  <2>1. UNCHANGED <<nconn, up, acc, jq, wc, inq, adopting, conns>> /\ Open' = Open
        /\ \A v \in Workers : (wpc'[v] = "push") <=> (wpc[v] = "push")
    BY <1>6 DEF AcceptorDrop, Open, TypeOK, accVars, workVars, evVars, dataVars
  <2> QED BY <2>1, OwnershipFrame DEF Counted
<1>7. ASSUME NEW c \in Conns, AcceptorCount(c) PROVE Ownership' /\ Counted
  <2>1. /\ acc = None /\ acc' = c /\ fd[c] = "backlog" /\ nconn < MaxConns
        /\ fd' = [fd EXCEPT ![c] = "open"] /\ nconn' = nconn + 1
        /\ UNCHANGED <<up, jq, wc, wpc, inq, adopting, conns>>
    BY <1>7 DEF AcceptorCount, Room, TypeOK, Control, workVars, dataVars
  <2>2. c \notin Held
    BY <2>1 DEF Ownership, SocketsOwned, Open
  <2>3. c # None /\ c \notin Range(jq) /\ c \notin InThreads /\ \A w \in Workers : wc[w] # c
    BY <2>2, RelayAssumption DEF Held, InWorkers
  <2>4. InThreads' = InThreads /\ InWorkers' = InWorkers /\ Open' = Open \cup {c}
        /\ \A t \in DataThreads : InThread(t)' = InThread(t)
    BY <2>1 DEF InThreads, InThread, InWorkers, Open, TypeOK
  <2>5. Held' = Held \cup {c}
    BY <2>1, <2>3, <2>4 DEF Held
  <2>6. SingleOwner'
    BY <2>1, <2>3, <2>4 DEF Ownership, SingleOwner, QueuesDistinct, OwnersDisjoint
  <2> QED BY <2>1, <2>2, <2>4, <2>5, <2>6 DEF Ownership, SocketsOwned, Took, Counted
<1>8. ASSUME NEW w \in Workers, WorkerExit(w) PROVE Ownership' /\ Counted
  <2>1. UNCHANGED <<nconn, up, acc, jq, wc, inq, adopting, conns>> /\ Open' = Open
        /\ \A v \in Workers : (wpc'[v] = "push") <=> (wpc[v] = "push")
    BY <1>8 DEF WorkerExit, Open, TypeOK, accVars, workVars, evVars, dataVars
  <2> QED BY <2>1, OwnershipFrame DEF Counted
<1>9. ASSUME NEW w \in Workers, WorkerWait(w) PROVE Ownership' /\ Counted
  <2>1. UNCHANGED <<nconn, up, acc, jq, wc, inq, adopting, conns>> /\ Open' = Open
        /\ \A v \in Workers : (wpc'[v] = "push") <=> (wpc[v] = "push")
    BY <1>9 DEF WorkerWait, Open, TypeOK, accVars, workVars, evVars, dataVars
  <2> QED BY <2>1, OwnershipFrame DEF Counted
<1>10. ASSUME NEW w \in Workers, WorkerTake(w) PROVE Ownership' /\ Counted
  <2> DEFINE c == Head(jq)
  <2>1. /\ jq # <<>> /\ wpc[w] = "lock" /\ wc[w] = None
        /\ wc' = [wc EXCEPT ![w] = c] /\ wpc' = [wpc EXCEPT ![w] = "job"] /\ jq' = Tail(jq)
        /\ UNCHANGED <<nconn, fd, up, acc, inq, adopting, conns>>
    BY <1>10 DEF WorkerTake, TypeOK, Control, accVars, dataVars
  <2>2. /\ c \in Conns /\ c \in Range(jq)
        /\ Range(jq') = Range(jq) \ {c} /\ IsInjective(jq')
    BY <2>1, RangeTail DEF TypeOK, Ownership, SingleOwner, QueuesDistinct
  <2>3. /\ c # None /\ c # acc /\ \A v \in Workers : wc[v] # c
        /\ \A t \in DataThreads : c \notin InThread(t)
    BY <2>2, OnlyPlace
  <2>4. InThreads' = InThreads /\ InWorkers' = InWorkers \cup {c} /\ Open' = Open
        /\ \A t \in DataThreads : InThread(t)' = InThread(t)
    <3>1. InWorkers' = InWorkers \cup {c}
      BY <2>1, <2>3 DEF InWorkers, TypeOK
    <3> QED BY <2>1, <3>1 DEF InThreads, InThread, Open
  <2>5. Kept
    BY <2>1, <2>2, <2>4 DEF Held, Kept
  <2>6. SingleOwner'
    <3>1. c \notin InThreads
      BY <2>3 DEF InThreads
    <3>2. \A v \in Workers : wc'[v] = IF v = w THEN c ELSE wc[v]
      BY <2>1 DEF TypeOK
    <3> HIDE DEF c
    <3>3. OwnersDisjoint'
      <4>1. \A v \in Workers : wc'[v] # None =>
              /\ wc'[v] # acc' /\ wc'[v] \notin Range(jq') /\ wc'[v] \notin InThreads'
              /\ \A x \in Workers \ {v} : wc'[x] # wc'[v]
        BY <2>1, <2>2, <2>3, <2>4, <3>1, <3>2 DEF Ownership, SingleOwner, OwnersDisjoint
      <4>2. acc' \notin Range(jq') \cup InThreads' /\ Range(jq') \cap InThreads' = {}
        BY <2>1, <2>2, <2>4 DEF Ownership, SingleOwner, OwnersDisjoint
      <4> QED BY <2>1, <2>4, <4>1, <4>2 DEF Ownership, SingleOwner, OwnersDisjoint
    <3> QED BY <2>1, <2>2, <3>3 DEF Ownership, SingleOwner, QueuesDistinct
  <2>7. {wc'[v] : v \in {u \in Workers : wpc'[u] = "push"}}
          = {wc[v] : v \in {u \in Workers : wpc[u] = "push"}}
    BY <2>1 DEF TypeOK
  <2> QED BY <2>1, <2>4, <2>5, <2>6, <2>7 DEF Ownership, SocketsOwned, Kept, Counted
<1>11. ASSUME NEW w \in Workers, WorkerSpurious(w) PROVE Ownership' /\ Counted
  <2>1. UNCHANGED <<nconn, up, acc, jq, wc, inq, adopting, conns>> /\ Open' = Open
        /\ \A v \in Workers : (wpc'[v] = "push") <=> (wpc[v] = "push")
    BY <1>11 DEF WorkerSpurious, Open, TypeOK, accVars, workVars, evVars, dataVars
  <2> QED BY <2>1, OwnershipFrame DEF Counted
<1>12. ASSUME NEW w \in Workers, WorkerFail(w) PROVE Ownership' /\ Counted
  <2>1. /\ wc[w] # None /\ wpc[w] = "job"
        /\ UNCHANGED <<up, acc, jq, inq, adopting, conns>>
        /\ wc' = [wc EXCEPT ![w] = None] /\ wpc' = [wpc EXCEPT ![w] = "lock"]
        /\ fd' = [fd EXCEPT ![wc[w]] = "none"] /\ nconn' = nconn - 1
    BY <1>12 DEF WorkerFail, Control, accVars, dataVars
  <2>2. wc[w] \notin up
    BY <2>1, OnlyPlace DEF Ownership, SocketsOwned, InThreads
  <2>3. CloseBoth(wc[w])
    BY <2>1, <2>2 DEF CloseBoth
  <2> QED BY <2>1, <2>3, WorkerRelease DEF Counted
<1>13. ASSUME NEW w \in Workers, NEW t \in DataThreads, WorkerConnected(w, t) PROVE Ownership' /\ Counted
  <2>1. /\ wc[w] # None /\ wpc[w] = "job" /\ up' = up \cup {wc[w]}
        /\ wpc' = [wpc EXCEPT ![w] = "push"]
        /\ UNCHANGED <<nconn, fd, acc, jq, wc, inq, adopting, conns>>
    BY <1>13 DEF WorkerConnected, Control, accVars, dataVars
  <2>2. /\ Held' = Held /\ Open' = Open /\ InThreads' = InThreads
    BY <2>1 DEF Held, InWorkers, InThreads, InThread, Open
  <2>3. SingleOwner'
    BY <2>1 DEF Ownership, SingleOwner, QueuesDistinct, OwnersDisjoint, InThreads, InThread
  <2>4. {wc'[v] : v \in {u \in Workers : wpc'[u] = "push"}}
          = {wc[v] : v \in {u \in Workers : wpc[u] = "push"}} \cup {wc[w]}
    BY <2>1 DEF TypeOK
  <2> QED BY <2>1, <2>2, <2>3, <2>4 DEF Ownership, SocketsOwned, Kept, Counted
<1>14. ASSUME NEW w \in Workers, WorkerPush(w) PROVE Ownership' /\ Counted
  <2>0. wc[w] \in Conns /\ wc[w] # None /\ wt[w] \in DataThreads
    BY <1>14 DEF WorkerPush, HandoverOpen, TypeOK, Control
  <2> PICK c \in Conns, t \in DataThreads : c = wc[w] /\ t = wt[w]
    BY <2>0
  <2>1. /\ c # None /\ wc[w] = c /\ wpc[w] = "push"
        /\ inq' = [inq EXCEPT ![t] = Append(@, c)]
        /\ wc' = [wc EXCEPT ![w] = None] /\ wpc' = [wpc EXCEPT ![w] = "wake"]
        /\ UNCHANGED <<nconn, fd, up, acc, jq, adopting, conns>>
    BY <1>14, <2>0 DEF WorkerPush, HandoverOpen, accVars, dataVars
  <2>2. /\ c # acc /\ c \notin Range(jq) /\ \A v \in Workers \ {w} : wc[v] # c
        /\ \A u \in DataThreads : c \notin InThread(u)
    BY <2>1, OnlyPlace
  <2>3. /\ Range(inq'[t]) = Range(inq[t]) \cup {c} /\ IsInjective(inq'[t])
        /\ \A u \in DataThreads \ {t} : inq'[u] = inq[u]
    <3>1. inq'[t] = Append(inq[t], c) /\ \A u \in DataThreads \ {t} : inq'[u] = inq[u]
      BY <2>1 DEF TypeOK
    <3>2. inq[t] \in Seq(Conns) /\ c \notin Range(inq[t]) /\ IsInjective(inq[t])
      BY <2>1, <2>2 DEF TypeOK, InThread, Ownership, SingleOwner, QueuesDistinct
    <3> QED BY <2>1, <3>1, <3>2, RangeAppend
  <2>4. /\ InThread(t)' = InThread(t) \cup {c}
        /\ \A u \in DataThreads \ {t} : InThread(u)' = InThread(u)
    BY <2>1, <2>3 DEF InThread
  <2>5. InThreads' = InThreads \cup {c}
    BY <2>1, <2>4 DEF InThreads
  <2>6. /\ \A v \in Workers : wc'[v] = IF v = w THEN None ELSE wc[v]
        /\ \A v \in Workers : wpc'[v] = IF v = w THEN "wake" ELSE wpc[v]
    BY <2>1 DEF TypeOK
  <2>7. InWorkers' = InWorkers \ {c}
    BY <2>1, <2>2, <2>6 DEF InWorkers
  <2>8. {wc'[v] : v \in {u \in Workers : wpc'[u] = "push"}}
          = {wc[v] : v \in {u \in Workers : wpc[u] = "push"}} \ {c}
    BY <2>1, <2>2, <2>6
  <2>9. c \in {wc[v] : v \in {u \in Workers : wpc[u] = "push"}} /\ c \in InWorkers
    BY <2>1 DEF InWorkers
  <2>10. Handed /\ Held' = Held /\ Open' = Open
    <3>1. Held' = Held /\ c \in Held /\ c \notin InThreads
      BY <2>1, <2>2, <2>5, <2>7, <2>9 DEF Held, InThreads
    <3>2. ~stopping
      BY <1>14 DEF WorkerPush, HandoverOpen
    <3> QED BY <2>1, <2>5, <3>1, <3>2 DEF Handed, Open
  <2>11. QueuesDistinct'
    BY <2>1, <2>3 DEF Ownership, SingleOwner, QueuesDistinct
  <2>12. OwnersDisjoint'
    <3>1. None \notin Range(jq) \cup InThreads
      BY OnlyPlace DEF InThreads
    <3>2. \A v \in Workers : wc'[v] # None =>
            /\ wc'[v] # acc' /\ wc'[v] \notin Range(jq') /\ wc'[v] \notin InThreads'
            /\ \A x \in Workers \ {v} : wc'[x] # wc'[v]
      BY <2>1, <2>2, <2>5, <2>6 DEF Ownership, SingleOwner, OwnersDisjoint
    <3>3. acc' \notin Range(jq') \cup InThreads' /\ Range(jq') \cap InThreads' = {}
      BY <2>1, <2>2, <2>5 DEF Ownership, SingleOwner, OwnersDisjoint
    <3>4. \A u \in DataThreads :
            /\ Range(inq'[u]) \cap Range(adopting'[u]) = {}
            /\ Range(inq'[u]) \cap conns'[u] = {}
            /\ Range(adopting'[u]) \cap conns'[u] = {}
      BY <2>1, <2>2, <2>3 DEF Ownership, SingleOwner, OwnersDisjoint, InThread
    <3>5. \A u \in DataThreads : \A x \in DataThreads \ {u} : InThread(u)' \cap InThread(x)' = {}
      BY <2>2, <2>4 DEF Ownership, SingleOwner, OwnersDisjoint
    <3> QED BY <3>2, <3>3, <3>4, <3>5 DEF OwnersDisjoint
  <2> QED BY <2>1, <2>5, <2>8, <2>9, <2>10, <2>11, <2>12
          DEF Ownership, SingleOwner, SocketsOwned, Counted
<1>15. ASSUME NEW w \in Workers, WorkerPushStopped(w) PROVE Ownership' /\ Counted
  <2>1. /\ wc[w] # None
        /\ UNCHANGED <<acc, jq, inq, adopting, conns>>
        /\ wc' = [wc EXCEPT ![w] = None] /\ wpc' = [wpc EXCEPT ![w] = "lock"]
        /\ CloseBoth(wc[w]) /\ nconn' = nconn - 1
    BY <1>15 DEF WorkerPushStopped, Control, accVars, dataVars
  <2> QED BY <2>1, WorkerRelease DEF Counted
<1>16. ASSUME NEW w \in Workers, WorkerWake(w) PROVE Ownership' /\ Counted
  <2>1. UNCHANGED <<nconn, up, acc, jq, wc, inq, adopting, conns>> /\ Open' = Open
        /\ \A v \in Workers : (wpc'[v] = "push") <=> (wpc[v] = "push")
    BY <1>16 DEF WorkerWake, Wake, Open, TypeOK, accVars, workVars, evVars, dataVars
  <2> QED BY <2>1, OwnershipFrame DEF Counted
<1>17. ASSUME NEW t \in DataThreads, DataTest(t) PROVE Ownership' /\ Counted
  <2>1. UNCHANGED <<nconn, up, acc, jq, wc, inq, adopting, conns>> /\ Open' = Open
        /\ \A v \in Workers : (wpc'[v] = "push") <=> (wpc[v] = "push")
    BY <1>17 DEF DataTest, rest, Open, TypeOK, accVars, workVars, evVars, dataVars
  <2> QED BY <2>1, OwnershipFrame DEF Counted
<1>18. ASSUME NEW t \in DataThreads, DataPoll(t) PROVE Ownership' /\ Counted
  <2>1. UNCHANGED <<nconn, up, acc, jq, wc, inq, adopting, conns>> /\ Open' = Open
        /\ \A v \in Workers : (wpc'[v] = "push") <=> (wpc[v] = "push")
    BY <1>18 DEF DataPoll, rest, Open, TypeOK, accVars, workVars, evVars, dataVars
  <2> QED BY <2>1, OwnershipFrame DEF Counted
<1>19. ASSUME NEW t \in DataThreads, DataStop(t) PROVE Ownership' /\ Counted
  <2>1. UNCHANGED <<nconn, up, acc, jq, wc, inq, adopting, conns>> /\ Open' = Open
        /\ \A v \in Workers : (wpc'[v] = "push") <=> (wpc[v] = "push")
    BY <1>19 DEF DataStop, rest, Open, TypeOK, accVars, workVars, evVars, dataVars
  <2> QED BY <2>1, OwnershipFrame DEF Counted
<1>20. ASSUME NEW t \in DataThreads, DataWake(t) PROVE Ownership' /\ Counted
  <2>1. UNCHANGED <<nconn, up, acc, jq, wc, inq, adopting, conns>> /\ Open' = Open
        /\ \A v \in Workers : (wpc'[v] = "push") <=> (wpc[v] = "push")
    BY <1>20 DEF DataWake, rest, Open, TypeOK, accVars, workVars, evVars, dataVars
  <2> QED BY <2>1, OwnershipFrame DEF Counted
<1>37. ASSUME NEW t \in DataThreads, DataDetach(t) PROVE Ownership' /\ Counted
  <2>1. UNCHANGED <<nconn, fd, up, acc, jq, wc, wpc, conns>>
    BY <1>37 DEF DataDetach, Detach, rest, accVars, workVars
  <2>2. /\ adopting[t] = <<>> /\ adopting'[t] = inq[t] /\ inq'[t] = <<>>
        /\ \A u \in DataThreads \ {t} : inq'[u] = inq[u] /\ adopting'[u] = adopting[u]
    BY <1>37 DEF DataDetach, rest, Detach, TypeOK, Control
  <2>3. /\ Range(adopting[t]) = {} /\ Range(inq'[t]) = {} /\ IsInjective(inq'[t])
        /\ Range(adopting'[t]) = Range(inq[t]) /\ IsInjective(adopting'[t])
    BY <2>2, RangeEmpty DEF Ownership, SingleOwner, QueuesDistinct
  <2>4. \A u \in DataThreads : InThread(u)' = InThread(u)
    BY <2>1, <2>2, <2>3 DEF InThread
  <2>5. InThreads' = InThreads
    BY <2>4 DEF InThreads
  <2>6. Kept /\ Open' = Open
    BY <2>1, <2>5 DEF Held, InWorkers, Kept, Open
  <2>7. \A u \in DataThreads :
          /\ Range(inq'[u]) \cap Range(adopting'[u]) = {}
          /\ Range(inq'[u]) \cap conns'[u] = {}
          /\ Range(adopting'[u]) \cap conns'[u] = {}
    <3>1. ASSUME NEW u \in DataThreads
          PROVE  /\ Range(inq[u]) \cap Range(adopting[u]) = {}
                 /\ Range(inq[u]) \cap conns[u] = {}
                 /\ Range(adopting[u]) \cap conns[u] = {}
      BY DEF Ownership, SingleOwner, OwnersDisjoint
    <3> QED BY <2>1, <2>2, <2>3, <3>1
  <2>8. SingleOwner'
    <3>1. QueuesDistinct'
      BY <2>1, <2>2, <2>3 DEF Ownership, SingleOwner, QueuesDistinct
    <3>2. OwnersDisjoint'
      BY <2>1, <2>4, <2>5, <2>7 DEF Ownership, SingleOwner, OwnersDisjoint
    <3> QED BY <3>1, <3>2 DEF SingleOwner
  <2> QED BY <2>1, <2>5, <2>6, <2>8 DEF Ownership, SocketsOwned, Kept, Counted
<1>21. ASSUME NEW t \in DataThreads, DataAdopt(t) PROVE Ownership' /\ Counted
  <2>1. UNCHANGED <<nconn, fd, up, acc, jq, wc, wpc, inq>>
    BY <1>21 DEF DataAdopt, rest, accVars, workVars
  <2>2. /\ adopting[t] # <<>> /\ adopting'[t] = Tail(adopting[t])
        /\ conns'[t] = conns[t] \cup {Head(adopting[t])}
        /\ \A u \in DataThreads \ {t} : conns'[u] = conns[u] /\ adopting'[u] = adopting[u]
    BY <1>21 DEF DataAdopt, rest, TypeOK
  <2>3. /\ Head(adopting[t]) \in Range(adopting[t])
        /\ Range(adopting'[t]) = Range(adopting[t]) \ {Head(adopting[t])}
        /\ IsInjective(adopting'[t])
    BY <2>2, RangeTail DEF TypeOK, Ownership, SingleOwner, QueuesDistinct
  <2>4. \A u \in DataThreads : InThread(u)' = InThread(u)
    BY <2>1, <2>2, <2>3 DEF InThread
  <2>5. InThreads' = InThreads
    BY <2>4 DEF InThreads
  <2>6. Kept /\ Open' = Open
    BY <2>1, <2>5 DEF Held, InWorkers, Kept, Open
  <2>7. \A u \in DataThreads :
          /\ Range(inq'[u]) \cap Range(adopting'[u]) = {}
          /\ Range(inq'[u]) \cap conns'[u] = {}
          /\ Range(adopting'[u]) \cap conns'[u] = {}
    <3>1. ASSUME NEW u \in DataThreads
          PROVE  /\ Range(inq[u]) \cap Range(adopting[u]) = {}
                 /\ Range(inq[u]) \cap conns[u] = {}
                 /\ Range(adopting[u]) \cap conns[u] = {}
      BY DEF Ownership, SingleOwner, OwnersDisjoint
    <3> QED BY <2>1, <2>2, <2>3, <3>1, ZenonT(30)
  <2>8. SingleOwner'
    <3>1. QueuesDistinct'
      BY <2>1, <2>2, <2>3 DEF Ownership, SingleOwner, QueuesDistinct
    <3>2. OwnersDisjoint'
      BY <2>1, <2>4, <2>5, <2>7 DEF Ownership, SingleOwner, OwnersDisjoint
    <3> QED BY <3>1, <3>2 DEF SingleOwner
  <2> QED BY <2>1, <2>5, <2>6, <2>8 DEF Ownership, SocketsOwned, Kept, Counted
<1>22. ASSUME NEW t \in DataThreads, DataAdoptClose(t) PROVE Ownership' /\ Counted
  <2> DEFINE x == Head(adopting[t])
  <2>1. /\ adopting[t] # <<>> /\ adopting'[t] = Tail(adopting[t])
        /\ \A u \in DataThreads \ {t} : adopting'[u] = adopting[u]
    BY <1>22 DEF DataAdoptClose, rest, TypeOK
  <2>2. /\ x \in Range(adopting[t]) /\ Range(adopting'[t]) = Range(adopting[t]) \ {x}
        /\ IsInjective(adopting'[t])
    BY <2>1, RangeTail DEF TypeOK, Ownership, SingleOwner, QueuesDistinct
  <2>3. UNCHANGED <<acc, jq, wc, wpc, inq, conns>> /\ CloseBoth(x) /\ nconn' = nconn - 1
    BY <1>22 DEF DataAdoptClose, rest, ConnClose, accVars, workVars
  <2>4. x \in InThread(t) /\ x \notin Range(inq[t]) /\ x \notin conns[t] /\ IsInjective(inq[t])
    BY <2>2 DEF InThread, Ownership, SingleOwner, OwnersDisjoint, QueuesDistinct
  <2> HIDE DEF x
  <2> QED BY <2>1, <2>2, <2>3, <2>4, ThreadRelease DEF Counted
<1>23. ASSUME NEW t \in DataThreads, NEW c \in Conns, NEW s \in Sides, DataServe(t, c, s) PROVE Ownership' /\ Counted
  <2>1. UNCHANGED <<nconn, up, acc, jq, wc, inq, adopting, conns>> /\ Open' = Open
        /\ \A v \in Workers : (wpc'[v] = "push") <=> (wpc[v] = "push")
    BY <1>23 DEF DataServe, rest, Open, TypeOK, accVars, workVars, evVars, dataVars
  <2> QED BY <2>1, OwnershipFrame DEF Counted
<1>24. ASSUME NEW t \in DataThreads, NEW c \in Conns, NEW s \in Sides, DataServeClose(t, c, s) PROVE Ownership' /\ Counted
  <2>1. /\ conns'[t] = conns[t] \ {c}
        /\ \A u \in DataThreads \ {t} : conns'[u] = conns[u]
    BY <1>24 DEF DataServeClose, rest, TypeOK
  <2>2. UNCHANGED <<acc, jq, wc, wpc, inq, adopting>> /\ CloseBoth(c) /\ nconn' = nconn - 1
    BY <1>24 DEF DataServeClose, rest, ConnClose, accVars, workVars
  <2>3. c \in conns[t]
    BY <1>24 DEF DataServeClose, rest, NoDanglingEvent
  <2>4. /\ c \in InThread(t) /\ c \notin Range(inq[t]) /\ c \notin Range(adopting[t])
        /\ IsInjective(inq[t]) /\ IsInjective(adopting[t])
    BY <2>3 DEF InThread, Ownership, SingleOwner, OwnersDisjoint, QueuesDistinct
  <2> QED BY <2>1, <2>2, <2>4, ThreadRelease DEF Counted
<1>25. ASSUME NEW t \in DataThreads, DataBatchEnd(t) PROVE Ownership' /\ Counted
  <2>1. UNCHANGED <<nconn, up, acc, jq, wc, inq, adopting, conns>> /\ Open' = Open
        /\ \A v \in Workers : (wpc'[v] = "push") <=> (wpc[v] = "push")
    BY <1>25 DEF DataBatchEnd, rest, Open, TypeOK, accVars, workVars, evVars, dataVars
  <2> QED BY <2>1, OwnershipFrame DEF Counted
<1>26. ASSUME NEW t \in DataThreads, NEW c \in Conns, DataSweepClose(t, c) PROVE Ownership' /\ Counted
  <2>1. /\ conns'[t] = conns[t] \ {c}
        /\ \A u \in DataThreads \ {t} : conns'[u] = conns[u]
    BY <1>26 DEF DataSweepClose, rest, TypeOK
  <2>2. UNCHANGED <<acc, jq, wc, wpc, inq, adopting>> /\ CloseBoth(c) /\ nconn' = nconn - 1
    BY <1>26 DEF DataSweepClose, rest, ConnClose, accVars, workVars
  <2>3. c \in conns[t]
    BY <1>26 DEF DataSweepClose, rest
  <2>4. /\ c \in InThread(t) /\ c \notin Range(inq[t]) /\ c \notin Range(adopting[t])
        /\ IsInjective(inq[t]) /\ IsInjective(adopting[t])
    BY <2>3 DEF InThread, Ownership, SingleOwner, OwnersDisjoint, QueuesDistinct
  <2> QED BY <2>1, <2>2, <2>4, ThreadRelease DEF Counted
<1>27. ASSUME NEW t \in DataThreads, DataSweepEnd(t) PROVE Ownership' /\ Counted
  <2>1. UNCHANGED <<nconn, up, acc, jq, wc, inq, adopting, conns>> /\ Open' = Open
        /\ \A v \in Workers : (wpc'[v] = "push") <=> (wpc[v] = "push")
    BY <1>27 DEF DataSweepEnd, rest, Open, TypeOK, accVars, workVars, evVars, dataVars
  <2> QED BY <2>1, OwnershipFrame DEF Counted
<1>28. ASSUME NEW ds \in SUBSET DataThreads, NEW ws \in SUBSET Workers, NEW all \in BOOLEAN, Start(ds, ws, all) PROVE Ownership' /\ Counted
  BY <1>28 DEF Start
<1>29. ASSUME StopFlag PROVE Ownership' /\ Counted
  <2>1. UNCHANGED <<nconn, up, acc, jq, wc, inq, adopting, conns>> /\ Open' = Open
        /\ \A v \in Workers : (wpc'[v] = "push") <=> (wpc[v] = "push")
    BY <1>29 DEF StopFlag, Open, TypeOK, accVars, workVars, evVars, dataVars
  <2> QED BY <2>1, OwnershipFrame DEF Counted
<1>30. ASSUME StopBroadcast PROVE Ownership' /\ Counted
  <2>1. UNCHANGED <<nconn, up, acc, jq, wc, inq, adopting, conns>> /\ Open' = Open
        /\ \A v \in Workers : (wpc'[v] = "push") <=> (wpc[v] = "push")
    BY <1>30 DEF StopBroadcast, Broadcast, Open, TypeOK, accVars, workVars, evVars, dataVars
  <2> QED BY <2>1, OwnershipFrame DEF Counted
<1>31. ASSUME StopJoin PROVE Ownership' /\ Counted
  <2>1. UNCHANGED <<nconn, up, acc, jq, wc, inq, adopting, conns>> /\ Open' = Open
        /\ \A v \in Workers : (wpc'[v] = "push") <=> (wpc[v] = "push")
    BY <1>31 DEF StopJoin, WorkersJoined, Gone, Open, TypeOK, accVars, workVars, evVars, dataVars
  <2> QED BY <2>1, OwnershipFrame DEF Counted
<1>32. ASSUME DrainJob PROVE Ownership' /\ Counted
  <2> DEFINE c == Head(jq)
  <2>1. /\ jq # <<>> /\ jq' = Tail(jq)
        /\ fd' = [fd EXCEPT ![c] = "none"] /\ nconn' = nconn - 1
        /\ UNCHANGED <<up, acc, wc, wpc, inq, adopting, conns>>
    BY <1>32 DEF DrainJob, accVars, workVars, dataVars
  <2>2. /\ c \in Range(jq) /\ c \in Held
        /\ Range(jq') = Range(jq) \ {c} /\ IsInjective(jq')
    BY <2>1, RangeTail DEF Held, TypeOK, Ownership, SingleOwner, QueuesDistinct
  <2>3. /\ c # None /\ c # acc /\ \A v \in Workers : wc[v] # c
        /\ \A u \in DataThreads : c \notin InThread(u)
    BY <2>2, OnlyPlace
  <2>4. up' = up \ {c}
    BY <2>1, <2>3 DEF Ownership, SocketsOwned, InThreads
  <2>5. \A u \in DataThreads : /\ Range(inq'[u]) = Range(inq[u]) \ {c}
                               /\ Range(adopting'[u]) = Range(adopting[u]) \ {c}
                               /\ conns'[u] = conns[u] \ {c}
                               /\ IsInjective(inq'[u]) /\ IsInjective(adopting'[u])
    BY <2>1, <2>3 DEF InThread, Ownership, SingleOwner, QueuesDistinct
  <2> HIDE DEF c
  <2> QED BY <2>1, <2>2, <2>3, <2>4, <2>5, OwnershipRelease DEF Counted
<1>33. ASSUME NEW t \in DataThreads, DrainInq(t) PROVE Ownership' /\ Counted
  <2> DEFINE x == Head(inq[t])
  <2>1. /\ inq[t] # <<>> /\ inq'[t] = Tail(inq[t])
        /\ \A u \in DataThreads \ {t} : inq'[u] = inq[u]
    BY <1>33 DEF DrainInq, TypeOK
  <2>2. /\ x \in Range(inq[t]) /\ Range(inq'[t]) = Range(inq[t]) \ {x}
        /\ IsInjective(inq'[t])
    BY <2>1, RangeTail DEF TypeOK, Ownership, SingleOwner, QueuesDistinct
  <2>3. UNCHANGED <<acc, jq, wc, wpc, adopting, conns>> /\ CloseBoth(x) /\ nconn' = nconn - 1
    BY <1>33 DEF DrainInq, accVars, workVars, dataVars
  <2>4. x \in InThread(t) /\ x \notin Range(adopting[t]) /\ x \notin conns[t] /\ IsInjective(adopting[t])
    BY <2>2 DEF InThread, Ownership, SingleOwner, OwnersDisjoint, QueuesDistinct
  <2> HIDE DEF x
  <2> QED BY <2>1, <2>2, <2>3, <2>4, ThreadRelease DEF Counted
<1>34. ASSUME NEW t \in DataThreads, NEW c \in Conns, DrainConn(t, c) PROVE Ownership' /\ Counted
  <2>1. /\ conns'[t] = conns[t] \ {c}
        /\ \A u \in DataThreads \ {t} : conns'[u] = conns[u]
    BY <1>34 DEF DrainConn, TypeOK
  <2>2. UNCHANGED <<acc, jq, wc, wpc, inq, adopting>> /\ CloseBoth(c) /\ nconn' = nconn - 1
    BY <1>34 DEF DrainConn, ConnClose, accVars, workVars
  <2>3. c \in conns[t]
    BY <1>34 DEF DrainConn
  <2>4. /\ c \in InThread(t) /\ c \notin Range(inq[t]) /\ c \notin Range(adopting[t])
        /\ IsInjective(inq[t]) /\ IsInjective(adopting[t])
    BY <2>3 DEF InThread, Ownership, SingleOwner, OwnersDisjoint, QueuesDistinct
  <2> QED BY <2>1, <2>2, <2>4, ThreadRelease DEF Counted
<1>35. ASSUME DrainEnd PROVE Ownership' /\ Counted
  <2>1. UNCHANGED <<nconn, up, acc, jq, wc, inq, adopting, conns>> /\ Open' = Open
        /\ \A v \in Workers : (wpc'[v] = "push") <=> (wpc[v] = "push")
    BY <1>35 DEF DrainEnd, Drained, Open, TypeOK, accVars, workVars, evVars, dataVars
  <2> QED BY <2>1, OwnershipFrame DEF Counted
<1> QED BY <1>1, <1>2, <1>3, <1>4, <1>5, <1>6, <1>7, <1>8, <1>9, <1>10, <1>11, <1>12,
           <1>13, <1>14, <1>15, <1>16, <1>17, <1>18, <1>19, <1>20, <1>21, <1>22, <1>23, <1>24,
           <1>25, <1>26, <1>27, <1>28, <1>29, <1>30, <1>31, <1>32, <1>33, <1>34, <1>35, <1>37
        DEF Next, Acceptor, Worker, Data, Teardown

-----------------------------------------------------------------------------
(* The other conjuncts of the inductive invariant *)

\* A data thread still has events of its last epoll_wait to handle.
InBatch(pc) == pc \in {"batch", "woken"}

\* Every step preserves that a pending event names a live or buried connection.
LEMMA EventStep ==
  ASSUME TypeOK, Control, NoDanglingEvent, [Next]_vars
  PROVE  NoDanglingEvent'
<1>1. ASSUME NEW c \in Conns, Connect(c) PROVE NoDanglingEvent'
  BY <1>1 DEF Connect, NoDanglingEvent, TypeOK, Control, Gone, dataVars, evVars, InBatch
<1>2. ASSUME AcceptorPoll PROVE NoDanglingEvent'
  BY <1>2 DEF AcceptorPoll, NoDanglingEvent, TypeOK, Control, Gone, dataVars, evVars, InBatch
<1>3. ASSUME JobPush PROVE NoDanglingEvent'
  BY <1>3 DEF JobPush, NoDanglingEvent, TypeOK, Control, Gone, dataVars, evVars, InBatch
<1>4. ASSUME JobPushFail PROVE NoDanglingEvent'
  BY <1>4 DEF JobPushFail, NoDanglingEvent, TypeOK, Control, Gone, dataVars, evVars, InBatch
<1>5. ASSUME AcceptorBreak PROVE NoDanglingEvent'
  BY <1>5 DEF AcceptorBreak, NoDanglingEvent, TypeOK, Control, Gone, dataVars, evVars, InBatch
<1>6. ASSUME NEW c \in Conns, AcceptorDrop(c) PROVE NoDanglingEvent'
  BY <1>6 DEF AcceptorDrop, NoDanglingEvent, TypeOK, Control, Gone, dataVars, evVars, InBatch
<1>7. ASSUME NEW c \in Conns, AcceptorCount(c) PROVE NoDanglingEvent'
  BY <1>7 DEF AcceptorCount, Room, NoDanglingEvent, TypeOK, Control, Gone, dataVars, evVars, InBatch
<1>8. ASSUME NEW w \in Workers, WorkerExit(w) PROVE NoDanglingEvent'
  BY <1>8 DEF WorkerExit, NoDanglingEvent, TypeOK, Control, Gone, dataVars, evVars, InBatch
<1>9. ASSUME NEW w \in Workers, WorkerWait(w) PROVE NoDanglingEvent'
  BY <1>9 DEF WorkerWait, NoDanglingEvent, TypeOK, Control, Gone, dataVars, evVars, InBatch
<1>10. ASSUME NEW w \in Workers, WorkerTake(w) PROVE NoDanglingEvent'
  BY <1>10 DEF WorkerTake, NoDanglingEvent, TypeOK, Control, Gone, dataVars, evVars, InBatch
<1>11. ASSUME NEW w \in Workers, WorkerSpurious(w) PROVE NoDanglingEvent'
  BY <1>11 DEF WorkerSpurious, NoDanglingEvent, TypeOK, Control, Gone, dataVars, evVars, InBatch
<1>12. ASSUME NEW w \in Workers, WorkerFail(w) PROVE NoDanglingEvent'
  BY <1>12 DEF WorkerFail, NoDanglingEvent, TypeOK, Control, Gone, dataVars, evVars, InBatch
<1>13. ASSUME NEW w \in Workers, NEW t \in DataThreads, WorkerConnected(w, t) PROVE NoDanglingEvent'
  BY <1>13 DEF WorkerConnected, NoDanglingEvent, TypeOK, Control, Gone, dataVars, evVars, InBatch
<1>14. ASSUME NEW w \in Workers, WorkerPush(w) PROVE NoDanglingEvent'
  BY <1>14 DEF WorkerPush, HandoverOpen, NoDanglingEvent, TypeOK, Control, Gone, dataVars, evVars, InBatch
<1>15. ASSUME NEW w \in Workers, WorkerPushStopped(w) PROVE NoDanglingEvent'
  BY <1>15 DEF WorkerPushStopped, NoDanglingEvent, TypeOK, Control, Gone, dataVars, evVars, InBatch
<1>16. ASSUME NEW w \in Workers, WorkerWake(w) PROVE NoDanglingEvent'
  BY <1>16 DEF WorkerWake, Wake, NoDanglingEvent, TypeOK, Control, Gone, dataVars, evVars, InBatch
<1>17. ASSUME NEW t \in DataThreads, DataTest(t) PROVE NoDanglingEvent'
  BY <1>17 DEF DataTest, rest, NoDanglingEvent, TypeOK, Control, Gone, dataVars, evVars, InBatch
<1>18. ASSUME NEW t \in DataThreads, DataPoll(t) PROVE NoDanglingEvent'
  <2>1. /\ dpc[t] = "poll" /\ evConns'[t] \subseteq conns[t] \X Sides
        /\ \A u \in DataThreads \ {t} : evConns'[u] = evConns[u] /\ dpc'[u] = dpc[u]
        /\ conns' = conns /\ grave' = grave
    BY <1>18 DEF DataPoll, rest, TypeOK
  <2> QED BY <2>1 DEF NoDanglingEvent, InBatch
<1>19. ASSUME NEW t \in DataThreads, DataStop(t) PROVE NoDanglingEvent'
  BY <1>19 DEF DataStop, rest, NoDanglingEvent, TypeOK, Control, Gone, dataVars, evVars, InBatch
<1>20. ASSUME NEW t \in DataThreads, DataWake(t) PROVE NoDanglingEvent'
  BY <1>20 DEF DataWake, rest, NoDanglingEvent, TypeOK, Control, Gone, dataVars, evVars, InBatch
<1>37. ASSUME NEW t \in DataThreads, DataDetach(t) PROVE NoDanglingEvent'
  BY <1>37 DEF DataDetach, rest, NoDanglingEvent, TypeOK, Control, Gone, dataVars, evVars, InBatch
<1>21. ASSUME NEW t \in DataThreads, DataAdopt(t) PROVE NoDanglingEvent'
  BY <1>21 DEF DataAdopt, rest, NoDanglingEvent, TypeOK, Control, Gone, dataVars, evVars, InBatch
<1>22. ASSUME NEW t \in DataThreads, DataAdoptClose(t) PROVE NoDanglingEvent'
  <2>1. \A u \in DataThreads : /\ InBatch(dpc'[u]) => InBatch(dpc[u])
                               /\ evConns'[u] \subseteq evConns[u]
                               /\ InBatch(dpc[u]) => conns[u] \cup grave[u] \subseteq conns'[u] \cup grave'[u]
    BY <1>22 DEF DataAdoptClose, rest, ConnClose, TypeOK, Control, Gone, dataVars, evVars, InBatch
  <2> QED BY <2>1 DEF NoDanglingEvent, InBatch
<1>23. ASSUME NEW t \in DataThreads, NEW c \in Conns, NEW s \in Sides, DataServe(t, c, s) PROVE NoDanglingEvent'
  <2>1. \A u \in DataThreads : /\ InBatch(dpc'[u]) => InBatch(dpc[u])
                               /\ evConns'[u] \subseteq evConns[u]
                               /\ InBatch(dpc[u]) => conns[u] \cup grave[u] \subseteq conns'[u] \cup grave'[u]
    BY <1>23 DEF DataServe, rest, TypeOK, Control, Gone, dataVars, evVars, InBatch
  <2> QED BY <2>1 DEF NoDanglingEvent, InBatch
<1>24. ASSUME NEW t \in DataThreads, NEW c \in Conns, NEW s \in Sides, DataServeClose(t, c, s) PROVE NoDanglingEvent'
  <2>1. \A u \in DataThreads : /\ InBatch(dpc'[u]) => InBatch(dpc[u])
                               /\ evConns'[u] \subseteq evConns[u]
                               /\ InBatch(dpc[u]) => conns[u] \cup grave[u] \subseteq conns'[u] \cup grave'[u]
    BY <1>24 DEF DataServeClose, rest, ConnClose, TypeOK, Control, Gone, dataVars, evVars, InBatch
  <2> QED BY <2>1 DEF NoDanglingEvent, InBatch
<1>25. ASSUME NEW t \in DataThreads, DataBatchEnd(t) PROVE NoDanglingEvent'
  BY <1>25 DEF DataBatchEnd, rest, NoDanglingEvent, TypeOK, Control, Gone, dataVars, evVars, InBatch
<1>26. ASSUME NEW t \in DataThreads, NEW c \in Conns, DataSweepClose(t, c) PROVE NoDanglingEvent'
  <2>1. \A u \in DataThreads : /\ InBatch(dpc'[u]) => InBatch(dpc[u])
                               /\ evConns'[u] \subseteq evConns[u]
                               /\ InBatch(dpc[u]) => conns[u] \cup grave[u] \subseteq conns'[u] \cup grave'[u]
    BY <1>26 DEF DataSweepClose, rest, ConnClose, TypeOK, Control, Gone, dataVars, evVars, InBatch
  <2> QED BY <2>1 DEF NoDanglingEvent, InBatch
<1>27. ASSUME NEW t \in DataThreads, DataSweepEnd(t) PROVE NoDanglingEvent'
  BY <1>27 DEF DataSweepEnd, rest, NoDanglingEvent, TypeOK, Control, Gone, dataVars, evVars, InBatch
<1>28. ASSUME NEW ds \in SUBSET DataThreads, NEW ws \in SUBSET Workers, NEW all \in BOOLEAN, Start(ds, ws, all) PROVE NoDanglingEvent'
  BY <1>28 DEF Start, NoDanglingEvent, TypeOK, Control, Gone, dataVars, evVars, InBatch
<1>29. ASSUME StopFlag PROVE NoDanglingEvent'
  BY <1>29 DEF StopFlag, NoDanglingEvent, TypeOK, Control, Gone, dataVars, evVars, InBatch
<1>30. ASSUME StopBroadcast PROVE NoDanglingEvent'
  BY <1>30 DEF StopBroadcast, Broadcast, NoDanglingEvent, TypeOK, Control, Gone, dataVars, evVars, InBatch
<1>31. ASSUME StopJoin PROVE NoDanglingEvent'
  BY <1>31 DEF StopJoin, WorkersJoined, NoDanglingEvent, TypeOK, Control, Gone, dataVars, evVars, InBatch
<1>32. ASSUME DrainJob PROVE NoDanglingEvent'
  BY <1>32 DEF DrainJob, NoDanglingEvent, TypeOK, Control, Gone, dataVars, evVars, InBatch
<1>33. ASSUME NEW t \in DataThreads, DrainInq(t) PROVE NoDanglingEvent'
  BY <1>33 DEF DrainInq, NoDanglingEvent, TypeOK, Control, Gone, dataVars, evVars, InBatch
<1>34. ASSUME NEW t \in DataThreads, NEW c \in Conns, DrainConn(t, c) PROVE NoDanglingEvent'
  <2>1. \A u \in DataThreads : /\ InBatch(dpc'[u]) => InBatch(dpc[u])
                               /\ evConns'[u] \subseteq evConns[u]
                               /\ InBatch(dpc[u]) => conns[u] \cup grave[u] \subseteq conns'[u] \cup grave'[u]
    BY <1>34 DEF DrainConn, TypeOK, Control, Gone, dataVars, evVars, InBatch
  <2> QED BY <2>1 DEF NoDanglingEvent, InBatch
<1>35. ASSUME DrainEnd PROVE NoDanglingEvent'
  BY <1>35 DEF DrainEnd, Drained, NoDanglingEvent, TypeOK, Control, Gone, dataVars, evVars, InBatch
<1>36. CASE UNCHANGED vars
  BY <1>36 DEF vars, dataVars, evVars, NoDanglingEvent
<1> QED BY <1>1, <1>2, <1>3, <1>4, <1>5, <1>6, <1>7, <1>8, <1>9, <1>10, <1>11, <1>12,
           <1>13, <1>14, <1>15, <1>16, <1>17, <1>18, <1>19, <1>20, <1>21, <1>22, <1>23, <1>24,
           <1>25, <1>26, <1>27, <1>28, <1>29, <1>30, <1>31, <1>32, <1>33, <1>34, <1>35, <1>36, <1>37
        DEF Next, Acceptor, Worker, Data, Teardown

\* A relay that is off can only be started.
LEMMA OffStep ==
  ASSUME TypeOK, Control, life = "off", Next
  PROVE  \E ds \in SUBSET DataThreads, ws \in SUBSET Workers, all \in BOOLEAN : Start(ds, ws, all)
<1>1. Gone(accpc) /\ (\A w \in Workers : Gone(wpc[w])) /\ \A t \in DataThreads : Gone(dpc[t])
  BY DEF Control
<1>2. ~Acceptor
  BY <1>1 DEF Gone, Acceptor, AcceptorPoll, JobPush, JobPushFail, AcceptorBreak, AcceptorDrop, AcceptorCount
<1>3. ASSUME NEW w \in Workers PROVE ~Worker(w) /\ ~WorkerSpurious(w)
  BY <1>1 DEF Gone, Worker, WorkerExit, WorkerWait, WorkerTake, WorkerFail, WorkerPush,
              WorkerPushStopped, WorkerWake, WorkerConnected, WorkerSpurious
<1>4. ASSUME NEW t \in DataThreads PROVE ~Data(t)
  BY <1>1 DEF Gone, Data, DataTest, DataPoll, DataStop, DataWake, DataDetach, DataAdopt, DataAdoptClose,
              DataBatchEnd, DataSweepEnd, DataSweepClose, DataServe, DataServeClose
<1>5. ~StopFlag /\ ~Teardown /\ \A c \in Conns : ~Connect(c)
  BY DEF StopFlag, Teardown, StopBroadcast, StopJoin, DrainJob, DrainInq, DrainConn, DrainEnd, Connect
<1> QED BY <1>2, <1>3, <1>4, <1>5 DEF Next

\* Starting takes nothing over: what the last stop left is empty.
LEMMA StartStep ==
  ASSUME TypeOK, Control, Ownership, StoppedClean, life = "off",
         NEW ds \in SUBSET DataThreads, NEW ws \in SUBSET Workers, NEW all \in BOOLEAN,
         Start(ds, ws, all)
  PROVE  Ownership' /\ Kept
<1>1. UNCHANGED <<nconn, fd, up, acc, jq, wc, inq, adopting, conns>>
  BY DEF Start, StoppedClean
<1>2. \A w \in Workers : wpc[w] # "push" /\ wpc'[w] # "push"
  BY DEF Start, Control, Gone
<1>3. Open' = Open
  BY <1>1 DEF Open
<1> QED BY <1>1, <1>2, <1>3, OwnershipFrame

\* OwnershipStep for every step, a start and a stutter included.
LEMMA OwnershipNext ==
  ASSUME TypeOK, TypeOK', Control, Ownership, NoDanglingEvent, StoppedClean, [Next]_vars
  PROVE  Ownership' /\ Counted
<1>1. CASE Next /\ life # "off"
  BY <1>1, OwnershipStep
<1>2. CASE Next /\ life = "off"
  BY <1>2, OffStep, StartStep DEF Counted
<1>3. CASE UNCHANGED vars
  <2>1. UNCHANGED <<nconn, fd, up, acc, jq, wc, wpc, inq, adopting, conns>>
    BY <1>3 DEF vars, accVars, workVars, dataVars
  <2> QED BY <2>1, OwnershipFrame DEF Open, Counted
<1> QED BY <1>1, <1>2, <1>3

\* A step that changes R.nconn by what it takes or lets go keeps the count exact and
\* within the limit.
LEMMA CountStep ==
  ASSUME TypeOK, TypeOK', Ownership, Ownership', NconnExact, LimitRespected, Counted
  PROVE  NconnExact' /\ LimitRespected'
<1>1. IsFiniteSet(Held) /\ Cardinality(Held) \in Nat /\ Cardinality(Held) <= MaxConns
  BY RelayAssumption, FS_Subset, FS_CardinalityType
     DEF Ownership, SocketsOwned, Open, LimitRespected
<1>2. Held' = Open'
  BY DEF Ownership, SocketsOwned
<1>3. CASE Kept \/ Handed
  BY <1>1, <1>2, <1>3 DEF Kept, Handed, NconnExact, LimitRespected
<1>4. CASE Took
  <2>1. PICK c \in Conns \ Held : Held' = Held \cup {c} /\ nconn' = nconn + 1 /\ nconn < MaxConns
    BY <1>4 DEF Took
  <2>2. Cardinality(Held') = Cardinality(Held) + 1
    BY <1>1, <2>1, FS_AddElement
  <2> QED BY <1>1, <1>2, <2>1, <2>2, RelayAssumption DEF NconnExact, LimitRespected
<1>5. CASE LetGo
  <2>1. PICK c \in Held : Held' = Held \ {c} /\ nconn' = nconn - 1
    BY <1>5 DEF LetGo
  <2>2. Cardinality(Held') = Cardinality(Held) - 1
    BY <1>1, <2>1, FS_RemoveElement
  <2> QED BY <1>1, <1>2, <2>1, <2>2, RelayAssumption DEF NconnExact, LimitRespected
<1> QED BY <1>3, <1>4, <1>5 DEF Counted

\* Only the end of the drain loops switches the relay off.
LEMMA LastStep ==
  ASSUME TypeOK, Control, [Next]_vars, life # "off", life' = "off"
  PROVE  DrainEnd
<1>1. ASSUME NEW c \in Conns PROVE ~Connect(c)
  BY DEF Connect
<1>2. ~Acceptor
  BY DEF Acceptor, AcceptorPoll, JobPush, JobPushFail, AcceptorBreak, AcceptorDrop, AcceptorCount
<1>3. ASSUME NEW w \in Workers PROVE ~Worker(w) /\ ~WorkerSpurious(w)
  BY DEF Worker, WorkerExit, WorkerWait, WorkerTake, WorkerFail, WorkerPush,
         WorkerPushStopped, WorkerWake, WorkerConnected, WorkerSpurious
<1>4. ASSUME NEW t \in DataThreads PROVE ~Data(t)
  BY DEF Data, rest, DataTest, DataPoll, DataStop, DataWake, DataDetach, DataAdopt, DataAdoptClose,
         DataBatchEnd, DataSweepEnd, DataSweepClose, DataServe, DataServeClose, rest
<1>5. ASSUME NEW ds \in SUBSET DataThreads, NEW ws \in SUBSET Workers, NEW all \in BOOLEAN
      PROVE  ~Start(ds, ws, all)
  BY DEF Start
<1>6. ~StopFlag
  BY DEF StopFlag
<1>7. Teardown => DrainEnd
  BY DEF Teardown, StopBroadcast, StopJoin, DrainJob, DrainInq, DrainConn
<1>8. ~UNCHANGED vars
  BY DEF vars
<1> QED BY <1>1, <1>2, <1>3, <1>4, <1>5, <1>6, <1>7, <1>8 DEF Next

\* Every step preserves that a relay which is off has nothing left.
LEMMA StoppedStep ==
  ASSUME TypeOK, TypeOK', Control, Control', Ownership, NconnExact, StoppedClean, [Next]_vars
  PROVE  StoppedClean'
<1> SUFFICES ASSUME life' = "off" PROVE StoppedClean'
  BY DEF StoppedClean
<1>1. CASE life # "off"
  <2>1. DrainEnd
    BY <1>1, LastStep
  <2>2. /\ acc = None /\ jq = <<>> /\ \A w \in Workers : wc[w] = None /\ Gone(wpc[w])
        /\ \A t \in DataThreads : /\ inq[t] = <<>> /\ adopting[t] = <<>> /\ conns[t] = {}
                                  /\ Gone(dpc[t])
        /\ Gone(accpc)
    BY <2>1 DEF DrainEnd, Drained, Control, Gone
  <2>3. InThreads = {} /\ Held = {}
    BY <2>2, RangeEmpty DEF Held, InWorkers, InThreads, InThread
  <2>4. up = {} /\ Open = {} /\ nconn = 0
    BY <2>2, <2>3, FS_EmptySet DEF Ownership, SocketsOwned, NconnExact, Gone
  <2>5. \A c \in Conns : fd'[c] = "none"
    BY <2>1, <2>4 DEF DrainEnd, Drained, Open, TypeOK
  <2> QED BY <2>1, <2>2, <2>4, <2>5 DEF DrainEnd, StoppedClean, accVars, workVars
<1>2. CASE life = "off"
  <2>1. CASE Next
    <3>1. PICK ds \in SUBSET DataThreads, ws \in SUBSET Workers, all \in BOOLEAN : Start(ds, ws, all)
      BY <1>2, <2>1, OffStep
    <3> QED BY <3>1 DEF Start
  <2>2. CASE UNCHANGED vars
    BY <2>2 DEF vars, accVars, workVars, dataVars, StoppedClean, Gone
  <2> QED BY <2>1, <2>2
<1> QED BY <1>1, <1>2

-----------------------------------------------------------------------------
(* The theorems *)

\* The inductive invariant: accounting needs ownership (to know that what is counted
\* off was counted), ownership needs the dead connections of a batch (to know that
\* what conn_close gets is live), and a clean stop needs all of them.
RelayInv ==
  /\ TypeOK /\ Control /\ Ownership /\ NoDanglingEvent
  /\ StoppedClean /\ NconnExact /\ LimitRespected

\* The inductive invariant holds of a relay never started.
LEMMA RelayInvInit == Init => RelayInv
<1> SUFFICES ASSUME Init PROVE RelayInv
  OBVIOUS
<1>1. TypeOK
  <2>1. <<>> \in Seq(Conns) /\ 0 \in 0 .. Burst /\ 0 \in Int
    BY RelayAssumption, EmptySeq
  <2>2. fd \in [Conns -> {"none", "backlog", "open"}] /\ up \in SUBSET Conns
    BY DEF Init
  <2>3. /\ life \in {"off", "running", "failing", "broadcast", "join_acceptor",
                     "join_workers", "join_data", "drain"}
        /\ stopping \in BOOLEAN
        /\ nconn \in Int
        /\ accpc \in {"none", "poll", "burst", "push", "exited"}
        /\ acc \in Conns \cup {None}
        /\ burst \in 0 .. Burst
        /\ jq \in Seq(Conns)
    BY <2>1 DEF Init
  <2>4. /\ wpc \in [Workers -> {"none", "lock", "wait", "job", "push", "wake", "exited"}]
        /\ wc \in [Workers -> Conns \cup {None}]
        /\ wt \in [Workers -> DataThreads \cup {None}]
    BY DEF Init
  <2>5. /\ inq \in [DataThreads -> Seq(Conns)]
        /\ adopting \in [DataThreads -> Seq(Conns)]
        /\ load \in [DataThreads -> Int]
    BY <2>1 DEF Init
  <2>6. /\ wake \in [DataThreads -> BOOLEAN]
        /\ dpc \in [DataThreads -> {"none", "test", "poll", "batch", "woken", "sweep", "exited"}]
        /\ evStop \in [DataThreads -> BOOLEAN]
        /\ evWake \in [DataThreads -> BOOLEAN]
    BY DEF Init
  <2>7. /\ evConns \in [DataThreads -> SUBSET (Conns \X Sides)]
        /\ conns \in [DataThreads -> SUBSET Conns]
        /\ grave \in [DataThreads -> SUBSET Conns]
    BY DEF Init
  <2> QED BY <2>2, <2>3, <2>4, <2>5, <2>6, <2>7 DEF TypeOK
<1>2. Control
  BY DEF Init, Control, Gone
<1>3. InThreads = {} /\ Held = {} /\ Open = {}
  BY RangeEmpty DEF Init, InThreads, InThread, Held, InWorkers, Open
<1>4. Ownership
  <2>1. QueuesDistinct
    BY RangeEmpty DEF Init, QueuesDistinct
  <2>2. OwnersDisjoint
    BY <1>3, RangeEmpty DEF Init, OwnersDisjoint, InThread
  <2>3. SocketsOwned
    BY <1>3 DEF Init, SocketsOwned
  <2> QED BY <2>1, <2>2, <2>3 DEF Ownership, SingleOwner
<1>5. NoDanglingEvent /\ StoppedClean
  BY DEF Init, NoDanglingEvent, StoppedClean, Gone
<1>6. NconnExact /\ LimitRespected
  BY <1>3, FS_EmptySet, RelayAssumption DEF Init, NconnExact, LimitRespected
<1> QED BY <1>1, <1>2, <1>4, <1>5, <1>6 DEF RelayInv

\* The inductive invariant is preserved by every step.
LEMMA RelayInvStep == RelayInv /\ [Next]_vars => RelayInv'
<1> SUFFICES ASSUME RelayInv, [Next]_vars PROVE RelayInv'
  OBVIOUS
<1> USE DEF RelayInv
<1>1. TypeOK' /\ Control'
  BY TypeStep, ControlStep
<1>2. Ownership' /\ Counted
  BY <1>1, OwnershipNext
<1>3. NoDanglingEvent'
  BY EventStep
<1>4. NconnExact' /\ LimitRespected'
  BY <1>1, <1>2, CountStep
<1>5. StoppedClean'
  BY <1>1, StoppedStep
<1> QED BY <1>1, <1>2, <1>3, <1>4, <1>5

\* Every reachable state satisfies the inductive invariant.
THEOREM RelayInvariant == Spec => []RelayInv
BY RelayInvInit, RelayInvStep, PTL DEF Spec

\* Type correctness of the relay, for any number of threads and connections.
THEOREM RelayTypeCorrect == Spec => []TypeOK
BY RelayInvariant, PTL DEF RelayInv

\* R.nconn never drifts from the number of connections the relay holds.
THEOREM RelayNconnExact == Spec => []NconnExact
BY RelayInvariant, PTL DEF RelayInv

\* No connection ever has two owners.
THEOREM RelaySingleOwner == Spec => []SingleOwner
<1>1. RelayInv => SingleOwner
  BY DEF RelayInv, Ownership
<1> QED BY <1>1, RelayInvariant, PTL

\* No socket leaks and none is used after close().
THEOREM RelaySocketsOwned == Spec => []SocketsOwned
<1>1. RelayInv => SocketsOwned
  BY DEF RelayInv, Ownership
<1> QED BY <1>1, RelayInvariant, PTL

\* At most max_tcp_conns client sockets are open.
THEOREM RelayLimitRespected == Spec => []LimitRespected
BY RelayInvariant, PTL DEF RelayInv

\* No event refers to a freed connection.
THEOREM RelayNoDanglingEvent == Spec => []NoDanglingEvent
BY RelayInvariant, PTL DEF RelayInv

\* A stopped relay has left no thread, no socket and no count behind.
THEOREM RelayStoppedClean == Spec => []StoppedClean
BY RelayInvariant, PTL DEF RelayInv
-----------------------------------------------------------------------------
(* The load counters conn_handoff balances on. *)

\* The workers on their way to data thread t, counted in its load already.
Coming(t) == {w \in Workers : wpc[w] = "push" /\ wt[w] = t}

\* What a step does to thread t: nothing; a worker chooses it; a worker hands its
\* connection over, or gives up because the relay stops; a connection is closed; or
\* the relay starts, with nothing anywhere.
Unmoved(t)   == InThread(t)' = InThread(t) /\ Coming(t)' = Coming(t) /\ load'[t] = load[t]
Chosen(t)    == \E w \in Workers \ Coming(t) :
                  /\ Coming(t)' = Coming(t) \cup {w} /\ InThread(t)' = InThread(t)
                  /\ load'[t] = load[t] + 1
Arrived(t)   == \E w \in Coming(t) : \E c \in Conns \ InThread(t) :
                  /\ Coming(t)' = Coming(t) \ {w} /\ InThread(t)' = InThread(t) \cup {c}
                  /\ load'[t] = load[t]
GaveUp(t)    == \E w \in Coming(t) :
                  /\ Coming(t)' = Coming(t) \ {w} /\ InThread(t)' = InThread(t)
                  /\ load'[t] = load[t] - 1
Closed(t)    == \E c \in InThread(t) :
                  /\ InThread(t)' = InThread(t) \ {c} /\ Coming(t)' = Coming(t)
                  /\ load'[t] = load[t] - 1
Empty(t)     == InThread(t)' = {} /\ Coming(t)' = {} /\ load'[t] = 0

LoadMove(t) == Unmoved(t) \/ Chosen(t) \/ Arrived(t) \/ GaveUp(t) \/ Closed(t) \/ Empty(t)

\* Each of these moves keeps the counter exact.
LEMMA LoadCount ==
  ASSUME TypeOK, Ownership, NEW t \in DataThreads, LoadMove(t),
         Empty(t) \/ load[t] = Cardinality(InThread(t)) + Cardinality(Coming(t))
  PROVE  load'[t] = Cardinality(InThread(t)') + Cardinality(Coming(t)')
<1>1. /\ IsFiniteSet(InThread(t)) /\ Cardinality(InThread(t)) \in Nat
      /\ IsFiniteSet(Coming(t)) /\ Cardinality(Coming(t)) \in Nat
  <2>1. InThread(t) \subseteq Conns
    BY RangeSubset DEF InThread, TypeOK
  <2> QED BY <2>1, RelayAssumption, FS_Subset, FS_CardinalityType DEF Coming
<1>2. CASE Unmoved(t) /\ ~Empty(t)
  BY <1>2 DEF Unmoved
<1>3. CASE Chosen(t) /\ ~Empty(t)
  <2>1. PICK w \in Workers \ Coming(t) :
          /\ Coming(t)' = Coming(t) \cup {w} /\ InThread(t)' = InThread(t)
          /\ load'[t] = load[t] + 1
    BY <1>3 DEF Chosen
  <2>2. Cardinality(Coming(t) \cup {w}) = Cardinality(Coming(t)) + 1
    BY <1>1, <2>1, FS_AddElement
  <2> QED BY <1>1, <1>3, <2>1, <2>2
<1>4. CASE Arrived(t) /\ ~Empty(t)
  <2>1. PICK w \in Coming(t), c \in Conns \ InThread(t) :
          /\ Coming(t)' = Coming(t) \ {w} /\ InThread(t)' = InThread(t) \cup {c}
          /\ load'[t] = load[t]
    BY <1>4 DEF Arrived
  <2>2. Cardinality(Coming(t) \ {w}) = Cardinality(Coming(t)) - 1
    BY <1>1, <2>1, FS_RemoveElement
  <2>3. Cardinality(InThread(t) \cup {c}) = Cardinality(InThread(t)) + 1
    BY <1>1, <2>1, FS_AddElement
  <2> QED BY <1>1, <1>4, <2>1, <2>2, <2>3
<1>5. CASE GaveUp(t) /\ ~Empty(t)
  <2>1. PICK w \in Coming(t) :
          /\ Coming(t)' = Coming(t) \ {w} /\ InThread(t)' = InThread(t)
          /\ load'[t] = load[t] - 1
    BY <1>5 DEF GaveUp
  <2>2. Cardinality(Coming(t) \ {w}) = Cardinality(Coming(t)) - 1
    BY <1>1, <2>1, FS_RemoveElement
  <2> QED BY <1>1, <1>5, <2>1, <2>2
<1>6. CASE Closed(t) /\ ~Empty(t)
  <2>1. PICK c \in InThread(t) :
          /\ InThread(t)' = InThread(t) \ {c} /\ Coming(t)' = Coming(t)
          /\ load'[t] = load[t] - 1
    BY <1>6 DEF Closed
  <2>2. Cardinality(InThread(t) \ {c}) = Cardinality(InThread(t)) - 1
    BY <1>1, <2>1, FS_RemoveElement
  <2> QED BY <1>1, <1>6, <2>1, <2>2
<1>7. CASE Empty(t)
  BY <1>7, FS_EmptySet DEF Empty
<1> QED BY <1>2, <1>3, <1>4, <1>5, <1>6, <1>7 DEF LoadMove

\* A step that moves no connection and no worker to or from a data thread.
LEMMA LoadFrame ==
  ASSUME UNCHANGED <<inq, adopting, conns, load>>,
         \A w \in Workers : wpc[w] = "push" \/ wpc'[w] = "push" =>
           wpc'[w] = wpc[w] /\ wt'[w] = wt[w]
  PROVE  \A t \in DataThreads : Unmoved(t)
BY DEF Unmoved, InThread, Coming

\* A data thread d closes c, which it holds in one place.
LEMMA LoadClose ==
  ASSUME TypeOK, Ownership, NEW d \in DataThreads, NEW c \in InThread(d), UNCHANGED <<wpc, wt>>,
         load' = [load EXCEPT ![d] = @ - 1],
         \A u \in DataThreads \ {d} : InThread(u)' = InThread(u),
         InThread(d)' = InThread(d) \ {c}
  PROVE  \A t \in DataThreads : Unmoved(t) \/ Closed(t)
<1> SUFFICES ASSUME NEW t \in DataThreads PROVE Unmoved(t) \/ Closed(t)
  OBVIOUS
<1>1. Coming(t)' = Coming(t)
  BY DEF Coming
<1>2. CASE t = d
  BY <1>1, <1>2 DEF Closed, TypeOK
<1>3. CASE t # d
  BY <1>1, <1>3 DEF Unmoved, TypeOK
<1> QED BY <1>2, <1>3

\* The steps that do move something.
LEMMA LoadMoved ==
  ASSUME TypeOK, Control, Ownership, NoDanglingEvent
  PROVE  /\ \A w \in Workers, d \in DataThreads : WorkerConnected(w, d) =>
              \A t \in DataThreads : Unmoved(t) \/ Chosen(t)
         /\ \A w \in Workers : WorkerPush(w) =>
              \A t \in DataThreads : Unmoved(t) \/ Arrived(t)
         /\ \A w \in Workers : WorkerPushStopped(w) =>
              \A t \in DataThreads : Unmoved(t) \/ GaveUp(t)
         /\ \A d \in DataThreads : DataDetach(d) \/ DataAdopt(d) =>
              \A t \in DataThreads : Unmoved(t)
         /\ \A d \in DataThreads : DataAdoptClose(d) =>
              \A t \in DataThreads : Unmoved(t) \/ Closed(t)
         /\ \A d \in DataThreads, c \in Conns, s \in Sides : DataServeClose(d, c, s) =>
              \A t \in DataThreads : Unmoved(t) \/ Closed(t)
         /\ \A d \in DataThreads, c \in Conns : DataSweepClose(d, c) =>
              \A t \in DataThreads : Unmoved(t) \/ Closed(t)
<1>1. ASSUME NEW w \in Workers, NEW d \in DataThreads, WorkerConnected(w, d),
             NEW t \in DataThreads
      PROVE  Unmoved(t) \/ Chosen(t)
  <2>1. /\ wpc[w] = "job" /\ wt' = [wt EXCEPT ![w] = d] /\ wpc' = [wpc EXCEPT ![w] = "push"]
        /\ load' = [load EXCEPT ![d] = @ + 1] /\ UNCHANGED <<inq, adopting, conns>>
    BY <1>1 DEF WorkerConnected, dataVars
  <2>2. InThread(t)' = InThread(t)
    BY <2>1 DEF InThread
  <2>3. CASE t = d
    <3>1. w \notin Coming(t) /\ Coming(t)' = Coming(t) \cup {w} /\ load'[t] = load[t] + 1
      BY <2>1, <2>3 DEF Coming, TypeOK
    <3> QED BY <2>2, <3>1 DEF Chosen
  <2>4. CASE t # d
    <3>1. Coming(t)' = Coming(t) /\ load'[t] = load[t]
      BY <2>1, <2>4 DEF Coming, TypeOK
    <3> QED BY <2>2, <3>1 DEF Unmoved
  <2> QED BY <2>3, <2>4
<1>2. ASSUME NEW w \in Workers, WorkerPush(w), NEW t \in DataThreads
      PROVE  Unmoved(t) \/ Arrived(t)
  <2>1. /\ wpc[w] = "push" /\ wc[w] # None /\ wc[w] \in Conns /\ wt[w] \in DataThreads
        /\ inq' = [inq EXCEPT ![wt[w]] = Append(@, wc[w])]
        /\ wpc' = [wpc EXCEPT ![w] = "wake"] /\ UNCHANGED <<load, wt, adopting, conns>>
    BY <1>2 DEF WorkerPush, dataVars, TypeOK, Control
  <2>2. CASE t = wt[w]
    <3>1. inq'[t] = Append(inq[t], wc[w]) /\ inq[t] \in Seq(Conns)
      BY <2>1, <2>2 DEF TypeOK
    <3>2. InThread(t)' = InThread(t) \cup {wc[w]}
      BY <2>1, <3>1, RangeAppend DEF InThread
    <3>3. wc[w] \notin InThread(t)
      BY <2>1, OnlyPlace
    <3>4. w \in Coming(t) /\ Coming(t)' = Coming(t) \ {w}
      BY <2>1, <2>2 DEF Coming, TypeOK
    <3> QED BY <2>1, <3>2, <3>3, <3>4 DEF Arrived
  <2>3. CASE t # wt[w]
    <3>1. InThread(t)' = InThread(t)
      BY <2>1, <2>3 DEF InThread, TypeOK
    <3>2. Coming(t)' = Coming(t)
      BY <2>1, <2>3 DEF Coming, TypeOK
    <3> QED BY <2>1, <3>1, <3>2 DEF Unmoved
  <2> QED BY <2>2, <2>3
<1>3. ASSUME NEW w \in Workers, WorkerPushStopped(w), NEW t \in DataThreads
      PROVE  Unmoved(t) \/ GaveUp(t)
  <2>1. /\ wpc[w] = "push" /\ wt[w] \in DataThreads
        /\ load' = [load EXCEPT ![wt[w]] = @ - 1] /\ wt' = [wt EXCEPT ![w] = None]
        /\ wpc' = [wpc EXCEPT ![w] = "lock"] /\ UNCHANGED <<inq, adopting, conns>>
    BY <1>3 DEF WorkerPushStopped, dataVars, TypeOK, Control
  <2>2. InThread(t)' = InThread(t)
    BY <2>1 DEF InThread
  <2>3. CASE t = wt[w]
    <3>1. w \in Coming(t) /\ Coming(t)' = Coming(t) \ {w} /\ load'[t] = load[t] - 1
      BY <2>1, <2>3 DEF Coming, TypeOK
    <3> QED BY <2>2, <3>1 DEF GaveUp
  <2>4. CASE t # wt[w]
    <3>1. Coming(t)' = Coming(t) /\ load'[t] = load[t]
      BY <2>1, <2>4 DEF Coming, TypeOK
    <3> QED BY <2>2, <3>1 DEF Unmoved
  <2> QED BY <2>3, <2>4
<1>4. ASSUME NEW d \in DataThreads, DataDetach(d) \/ DataAdopt(d), NEW t \in DataThreads
      PROVE  Unmoved(t)
  <2>1. UNCHANGED <<load, wpc, wt>>
    BY <1>4 DEF DataDetach, DataAdopt, rest, workVars
  <2>2. InThread(t)' = InThread(t)
    <3>1. CASE DataDetach(d)
      <4>1. /\ adopting[d] = <<>> /\ adopting'[d] = inq[d] /\ inq'[d] = <<>> /\ conns' = conns
            /\ \A u \in DataThreads \ {d} : inq'[u] = inq[u] /\ adopting'[u] = adopting[u]
        BY <3>1 DEF DataDetach, Detach, rest, TypeOK, Control
      <4> QED BY <4>1, RangeEmpty DEF InThread
    <3>2. CASE DataAdopt(d)
      <4>1. /\ adopting[d] # <<>> /\ adopting'[d] = Tail(adopting[d]) /\ inq' = inq
            /\ conns'[d] = conns[d] \cup {Head(adopting[d])}
            /\ \A u \in DataThreads \ {d} : conns'[u] = conns[u] /\ adopting'[u] = adopting[u]
        BY <3>2 DEF DataAdopt, rest, TypeOK
      <4>2. /\ Head(adopting[d]) \in Range(adopting[d])
            /\ Range(Tail(adopting[d])) = Range(adopting[d]) \ {Head(adopting[d])}
        BY <4>1, RangeTail DEF TypeOK, Ownership, SingleOwner, QueuesDistinct
      <4> QED BY <4>1, <4>2 DEF InThread
    <3> QED BY <1>4, <3>1, <3>2
  <2> QED BY <2>1, <2>2 DEF Unmoved, Coming
<1>5. ASSUME NEW d \in DataThreads, DataAdoptClose(d)
      PROVE  \A t \in DataThreads : Unmoved(t) \/ Closed(t)
  <2>0. PICK x : x = Head(adopting[d])
    OBVIOUS
  <2>1. /\ adopting[d] # <<>> /\ adopting'[d] = Tail(adopting[d])
        /\ \A u \in DataThreads \ {d} : adopting'[u] = adopting[u]
        /\ UNCHANGED <<wpc, wt, inq, conns>> /\ load' = [load EXCEPT ![d] = @ - 1]
    BY <1>5 DEF DataAdoptClose, ConnClose, rest, workVars, TypeOK
  <2>2. x \in Range(adopting[d]) /\ Range(adopting'[d]) = Range(adopting[d]) \ {x}
    BY <2>0, <2>1, RangeTail DEF TypeOK, Ownership, SingleOwner, QueuesDistinct
  <2>3. x \in InThread(d) /\ x \notin Range(inq[d]) /\ x \notin conns[d]
    BY <2>2 DEF InThread, Ownership, SingleOwner, OwnersDisjoint
  <2>4. /\ InThread(d)' = InThread(d) \ {x}
        /\ \A u \in DataThreads \ {d} : InThread(u)' = InThread(u)
    BY <2>1, <2>2, <2>3 DEF InThread
  <2> QED BY <2>1, <2>3, <2>4, LoadClose
<1>6. ASSUME NEW d \in DataThreads, NEW c \in Conns,
             DataSweepClose(d, c) \/ \E s \in Sides : DataServeClose(d, c, s)
      PROVE  \A t \in DataThreads : Unmoved(t) \/ Closed(t)
  <2>1. c \in conns[d]
    BY <1>6 DEF DataSweepClose, DataServeClose, NoDanglingEvent
  <2>2. /\ conns'[d] = conns[d] \ {c}
        /\ \A u \in DataThreads \ {d} : conns'[u] = conns[u]
        /\ UNCHANGED <<wpc, wt, inq, adopting>> /\ load' = [load EXCEPT ![d] = @ - 1]
    BY <1>6 DEF DataSweepClose, DataServeClose, ConnClose, rest, workVars, TypeOK
  <2>3. c \in InThread(d) /\ c \notin Range(inq[d]) /\ c \notin Range(adopting[d])
    BY <2>1 DEF InThread, Ownership, SingleOwner, OwnersDisjoint
  <2>4. /\ InThread(d)' = InThread(d) \ {c}
        /\ \A u \in DataThreads \ {d} : InThread(u)' = InThread(u)
    BY <2>2, <2>3 DEF InThread
  <2> QED BY <2>2, <2>3, <2>4, LoadClose
<1> QED BY <1>1, <1>2, <1>3, <1>4, <1>5, <1>6

\* Draining ends in a relay that is off.
LEMMA DrainStays ==
  ASSUME TypeOK, Control, life = "drain", Next
  PROVE  life' \in {"off", "drain"}
<1>1. ASSUME NEW c \in Conns, Connect(c) PROVE life' = life
  BY <1>1 DEF Connect
<1>2. Acceptor => life' = life
  BY DEF Acceptor, AcceptorPoll, JobPush, JobPushFail, AcceptorBreak, AcceptorDrop, AcceptorCount
<1>3. ASSUME NEW w \in Workers, Worker(w) \/ WorkerSpurious(w) PROVE life' = life
  BY <1>3 DEF Worker, WorkerExit, WorkerWait, WorkerTake, WorkerFail, WorkerPush,
              WorkerPushStopped, WorkerWake, WorkerConnected, WorkerSpurious
<1>4. ASSUME NEW t \in DataThreads, Data(t) PROVE life' = life
  BY <1>4 DEF Data, rest, DataTest, DataPoll, DataStop, DataWake, DataDetach, DataAdopt,
              DataAdoptClose, DataBatchEnd, DataSweepEnd, DataSweepClose, DataServe, DataServeClose
<1>5. ASSUME NEW ds \in SUBSET DataThreads, NEW ws \in SUBSET Workers, NEW all \in BOOLEAN
      PROVE  ~Start(ds, ws, all)
  BY DEF Start
<1>6. ~StopFlag
  BY DEF StopFlag
<1>7. Teardown => life' \in {"off", "drain"}
  BY DEF Teardown, StopBroadcast, StopJoin, DrainJob, DrainInq, DrainConn, DrainEnd
<1> QED BY <1>1, <1>2, <1>3, <1>4, <1>5, <1>6, <1>7 DEF Next

\* Every step of a relay that is on, not draining afterwards, is one of the moves.
LEMMA LoadMoves ==
  ASSUME TypeOK, Control, Ownership, NoDanglingEvent, StoppedClean, [Next]_vars,
         life' \notin {"off", "drain"}
  PROVE  /\ \A t \in DataThreads : LoadMove(t)
         /\ life \in {"off", "drain"} => \A t \in DataThreads : Empty(t)
<1> USE DEF LoadMove
<1>1. ASSUME NEW ds \in SUBSET DataThreads, NEW ws \in SUBSET Workers, NEW all \in BOOLEAN,
             Start(ds, ws, all), NEW t \in DataThreads
      PROVE  Empty(t)
  <2>1. Held = {}
    BY <1>1 DEF Start, StoppedClean, Ownership, SocketsOwned, Open
  <2>2. InThread(t) = {}
    BY <2>1 DEF Held, InThreads
  <2>3. InThread(t)' = {} /\ Coming(t)' = {} /\ load'[t] = 0
    BY <1>1, <2>2 DEF Start, InThread, Coming
  <2> QED BY <2>3 DEF Empty
<1>2. ASSUME NEW c \in Conns, Connect(c) PROVE \A t \in DataThreads : Unmoved(t)
  BY <1>2, LoadFrame DEF Connect, workVars, dataVars
<1>3. ASSUME Acceptor PROVE \A t \in DataThreads : Unmoved(t)
  <2>1. UNCHANGED <<inq, adopting, conns, load, wt>>
        /\ \A w \in Workers : wpc[w] = "push" \/ wpc'[w] = "push" => wpc'[w] = wpc[w]
    <3>1. CASE JobPush
      BY <3>1 DEF JobPush, Signal, dataVars, TypeOK
    <3>2. CASE ~JobPush
      BY <1>3, <3>2 DEF Acceptor, AcceptorPoll, JobPushFail, AcceptorBreak, AcceptorDrop,
                        AcceptorCount, workVars, dataVars
    <3> QED BY <3>1, <3>2
  <2> QED BY <2>1, LoadFrame
<1>4. ASSUME NEW w \in Workers, Worker(w) \/ WorkerSpurious(w)
      PROVE  \A t \in DataThreads : LoadMove(t)
  <2>1. CASE WorkerPush(w) \/ WorkerPushStopped(w) \/ \E d \in DataThreads : WorkerConnected(w, d)
    BY <2>1, LoadMoved
  <2>2. CASE \/ WorkerExit(w) \/ WorkerWait(w) \/ WorkerTake(w) \/ WorkerFail(w)
             \/ WorkerWake(w) \/ WorkerSpurious(w)
    <3>1. UNCHANGED <<inq, adopting, conns, load>>
      BY <2>2 DEF WorkerExit, WorkerWait, WorkerTake, WorkerFail, WorkerWake, WorkerSpurious, dataVars
    <3>2. \A v \in Workers : wpc[v] = "push" \/ wpc'[v] = "push" =>
            wpc'[v] = wpc[v] /\ wt'[v] = wt[v]
      BY <2>2 DEF WorkerExit, WorkerWait, WorkerTake, WorkerFail, WorkerWake, WorkerSpurious, TypeOK
    <3> QED BY <3>1, <3>2, LoadFrame
  <2> QED BY <1>4, <2>1, <2>2 DEF Worker
<1>5. ASSUME NEW d \in DataThreads, Data(d) PROVE \A t \in DataThreads : LoadMove(t)
  <2>1. CASE \/ DataDetach(d) \/ DataAdopt(d) \/ DataAdoptClose(d)
             \/ \E c \in Conns : DataSweepClose(d, c)
             \/ \E c \in Conns, s \in Sides : DataServeClose(d, c, s)
    BY <2>1, LoadMoved
  <2>2. CASE \/ DataTest(d) \/ DataPoll(d) \/ DataStop(d) \/ DataWake(d)
             \/ DataBatchEnd(d) \/ DataSweepEnd(d)
             \/ \E c \in Conns, s \in Sides : DataServe(d, c, s)
    <3>1. UNCHANGED <<inq, adopting, conns, load, wpc, wt>>
      BY <2>2 DEF DataTest, DataPoll, DataStop, DataWake, DataBatchEnd, DataSweepEnd, DataServe,
                  rest, workVars
    <3> QED BY <3>1, LoadFrame
  <2> QED BY <1>5, <2>1, <2>2 DEF Data
<1>6. ASSUME StopFlag \/ Teardown PROVE \A t \in DataThreads : Unmoved(t)
  <2>1. UNCHANGED <<inq, adopting, conns, load, wt>>
        /\ \A w \in Workers : wpc[w] = "push" \/ wpc'[w] = "push" => wpc'[w] = wpc[w]
    BY <1>6 DEF StopFlag, Teardown, StopBroadcast, Broadcast, StopJoin, DrainJob, DrainInq,
                DrainConn, DrainEnd, workVars, dataVars, TypeOK
  <2> QED BY <2>1, LoadFrame
<1>7. ASSUME UNCHANGED vars PROVE \A t \in DataThreads : Unmoved(t)
  BY <1>7, LoadFrame DEF vars, workVars, dataVars
<1>8. ASSUME life \in {"off", "drain"}, NEW t \in DataThreads PROVE Empty(t)
  <2>1. CASE life = "off" /\ Next
    BY <2>1, OffStep, <1>1
  <2>2. CASE UNCHANGED vars
    BY <2>2, <1>8 DEF vars
  <2>3. CASE life = "drain" /\ Next
    BY <2>3, DrainStays
  <2> QED BY <1>8, <2>1, <2>2, <2>3
<1> QED BY <1>1, <1>2, <1>3, <1>4, <1>5, <1>6, <1>7, <1>8 DEF Next

\* The load counter of every data thread is exact while the relay is on, so
\* conn_handoff's choice is never misled by what an earlier connection left.
THEOREM RelayLoadExact == Spec => []LoadExact
<1>1. Init => LoadExact
  BY DEF Init, LoadExact
<1>2. RelayInv /\ LoadExact /\ [Next]_vars => LoadExact'
  <2> SUFFICES ASSUME RelayInv, LoadExact, [Next]_vars, life' \notin {"off", "drain"},
                      NEW t \in DataThreads
               PROVE  load'[t] = Cardinality(InThread(t)') + Cardinality(Coming(t)')
    BY DEF LoadExact, Coming
  <2>1. LoadMove(t) /\ (life \in {"off", "drain"} => Empty(t))
    BY LoadMoves DEF RelayInv
  <2>2. life \notin {"off", "drain"} => load[t] = Cardinality(InThread(t)) + Cardinality(Coming(t))
    BY DEF LoadExact, Coming
  <2> QED BY <2>1, <2>2, LoadCount DEF RelayInv
<1> QED BY <1>1, <1>2, RelayInvariant, PTL DEF Spec

-----------------------------------------------------------------------------
(* The relay implements RelayPool. *)

\* Once the relay is not off, R.stopping only changes when a stop begins.
LEMMA StoppingStep ==
  ASSUME Next, life # "off", ~StopFlag
  PROVE  stopping' = stopping
<1>1. ASSUME NEW c \in Conns, Connect(c) PROVE stopping' = stopping
  BY <1>1 DEF Connect
<1>2. ASSUME Acceptor PROVE stopping' = stopping
  BY <1>2 DEF Acceptor, AcceptorPoll, JobPush, JobPushFail, AcceptorBreak, AcceptorDrop, AcceptorCount
<1>3. ASSUME NEW w \in Workers, Worker(w) \/ WorkerSpurious(w) PROVE stopping' = stopping
  BY <1>3 DEF Worker, WorkerExit, WorkerWait, WorkerTake, WorkerFail, WorkerPush,
              WorkerPushStopped, WorkerWake, WorkerConnected, WorkerSpurious
<1>4. ASSUME NEW t \in DataThreads, Data(t) PROVE stopping' = stopping
  BY <1>4 DEF Data, rest, DataTest, DataPoll, DataStop, DataWake, DataDetach, DataAdopt, DataAdoptClose,
              DataBatchEnd, DataSweepEnd, DataSweepClose, DataServe, DataServeClose
<1>5. ASSUME Teardown PROVE stopping' = stopping
  BY <1>5 DEF Teardown, StopBroadcast, StopJoin, DrainJob, DrainInq, DrainConn, DrainEnd
<1>6. ASSUME NEW ds \in SUBSET DataThreads, NEW ws \in SUBSET Workers, NEW all \in BOOLEAN,
             Start(ds, ws, all)
      PROVE  stopping' = stopping
  BY <1>6 DEF Start
<1> QED BY <1>1, <1>2, <1>3, <1>4, <1>5, <1>6 DEF Next

\* What an off relay maps to, before and after a start.
LEMMA PoolInit == Init => Pool!Init
<1> SUFFICES ASSUME Init PROVE Pool!Init
  OBVIOUS
<1>1. life = "off" /\ Open = {}
  BY DEF Init, Open
<1>2. InThreads = {}
  BY RangeEmpty DEF Init, InThreads, InThread
<1> QED BY <1>1, <1>2 DEF Pool!Init

\* Every step of the relay is a step of the pool, or leaves the pool alone.
LEMMA PoolStep == RelayInv /\ RelayInv' /\ [Next]_vars => [Pool!Next]_(Pool!vars)
<1> SUFFICES ASSUME RelayInv, RelayInv', [Next]_vars PROVE [Pool!Next]_(Pool!vars)
  OBVIOUS
<1> DEFINE phase == IF life = "off" THEN "off" ELSE IF stopping THEN "closing" ELSE "on"
<1>0. Open = Held /\ Open' = Held'
  BY DEF RelayInv, Ownership, SocketsOwned
<1>1. CASE life = "off" /\ Next
  <2>1. PICK ds \in SUBSET DataThreads, ws \in SUBSET Workers, all \in BOOLEAN : Start(ds, ws, all)
    BY <1>1, OffStep DEF RelayInv
  <2>2. Kept
    BY <1>1, <2>1, StartStep DEF RelayInv
  <2>3. phase = "off" /\ phase' = "on"
    BY <1>1, <2>1 DEF Start
  <2> QED BY <1>0, <2>2, <2>3 DEF Kept, Pool!Next, Pool!Start
<1>2. CASE life # "off" /\ StopFlag
  <2>1. phase = "on" /\ phase' = "closing"
    BY <1>2 DEF StopFlag, RelayInv, Control
  <2>2. Open' = Open /\ InThreads' = InThreads
    BY <1>2 DEF StopFlag, Open, InThreads, InThread, dataVars
  <2> QED BY <2>1, <2>2 DEF Pool!Next, Pool!Stop
<1>3. CASE life # "off" /\ life' = "off"
  <2>1. DrainEnd
    BY <1>3, LastStep DEF RelayInv
  <2>2. phase = "closing" /\ phase' = "off"
    BY <1>3, <2>1 DEF DrainEnd, Drained, RelayInv, Control
  <2>3. Open' = Open /\ InThreads' = InThreads
    BY <2>1 DEF DrainEnd, Drained, Open, InThreads, InThread, RelayInv, TypeOK
  <2>4. Open' = {}
    BY <1>3 DEF RelayInv, StoppedClean, Open
  <2> QED BY <2>2, <2>3, <2>4 DEF Pool!Next, Pool!Stopped
<1>4. CASE life # "off" /\ life' # "off" /\ Next /\ ~StopFlag
  <2>1. phase' = phase /\ phase # "off"
    BY <1>4, StoppingStep
  <2>2. Counted
    BY OwnershipNext DEF RelayInv
  <2>3. CASE Kept
    BY <1>0, <2>1, <2>3 DEF Kept, Pool!vars
  <2>4. CASE Took
    <3>1. PICK c \in Conns \ Held : /\ Held' = Held \cup {c} /\ InThreads' = InThreads
                                    /\ nconn < MaxConns
      BY <2>4 DEF Took
    <3>2. Cardinality(Open) < MaxConns
      BY <1>0, <3>1 DEF RelayInv, NconnExact
    <3>3. c \notin Open /\ Open' = Open \cup {c} /\ InThreads' = InThreads
      BY <1>0, <3>1
    <3>0. Pool!Cardinality(Open) = Cardinality(Open)
      BY DEF Cardinality, Pool!Cardinality
    <3>4. Pool!Admit(c)
      BY <2>1, <3>0, <3>2, <3>3 DEF Pool!Admit
    <3> QED BY <3>1, <3>4 DEF Pool!Next
  <2>5. CASE Handed
    <3>1. PICK c \in Held \ InThreads : /\ Held' = Held /\ InThreads' = InThreads \cup {c}
                                        /\ ~stopping
      BY <2>5 DEF Handed
    <3>2. c \in Conns /\ phase = "on"
      BY <1>0, <1>4, <3>1 DEF Open
    <3>3. Pool!Serve(c)
      BY <1>0, <2>1, <3>1, <3>2 DEF Pool!Serve
    <3> QED BY <3>2, <3>3 DEF Pool!Next
  <2>6. CASE LetGo
    <3>1. PICK c \in Held : Held' = Held \ {c} /\ InThreads' = InThreads \ {c}
      BY <2>6 DEF LetGo
    <3>2. c \in Conns
      BY <1>0, <3>1 DEF Open
    <3>3. Pool!Release(c)
      BY <1>0, <2>1, <3>1 DEF Pool!Release
    <3> QED BY <3>2, <3>3 DEF Pool!Next
  <2> QED BY <2>2, <2>3, <2>4, <2>5, <2>6 DEF Counted
<1>5. CASE UNCHANGED vars
  BY <1>5 DEF vars, dataVars, Open, InThreads, InThread, Pool!vars
<1> QED BY <1>1, <1>2, <1>3, <1>4, <1>5

\* The threads, queues and sockets of the relay implement the bounded pool of
\* RelayPool: this is what pb_relay_start and pb_relay_stop promise their caller.
THEOREM RelayImplementsPool == Spec => ImplementsPool
<1>1. Spec => Pool!Init /\ [][Pool!Next]_(Pool!vars)
  BY PoolInit, PoolStep, RelayInvariant, PTL DEF Spec
<1> QED BY <1>1 DEF ImplementsPool, Pool!Spec
=============================================================================
