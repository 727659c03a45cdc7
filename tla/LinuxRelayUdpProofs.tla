------------------------ MODULE LinuxRelayUdpProofs ------------------------
(***************************************************************************)
(* The sessions of the UDP relay, for any numbers of clients, flows,       *)
(* proxies and sessions and any schedule of the thread, the worker and the *)
(* control API.                                                            *)
(***************************************************************************)
EXTENDS LinuxRelayUdp, FiniteSetTheorems, SequenceTheorems, WellFoundedInduction, TLAPS

-----------------------------------------------------------------------------
(* Queues *)

\* An empty queue holds nothing, and nothing twice.
LEMMA RangeEmpty == Range(<<>>) = {} /\ IsInjective(<<>>)
BY DEF Range, IsInjective

\* A queue of sessions holds sessions only.
LEMMA RangeSubset ==
  ASSUME NEW S, NEW s \in Seq(S)
  PROVE  Range(s) \subseteq S
BY DEF Range

\* Putting x at the end adds x, and a new x keeps the entries distinct.
LEMMA RangeAppend ==
  ASSUME NEW S, NEW s \in Seq(S), NEW x \in S
  PROVE  /\ Append(s, x) \in Seq(S)
         /\ Range(Append(s, x)) = Range(s) \cup {x}
         /\ IsInjective(s) /\ x \notin Range(s) => IsInjective(Append(s, x))
<1> DEFINE a == Append(s, x)
<1>1. /\ a \in Seq(S) /\ Len(a) = Len(s) + 1 /\ Len(s) \in Nat
      /\ \A i \in 1 .. Len(s) : a[i] = s[i]
      /\ a[Len(s) + 1] = x
  BY AppendProperties
<1>2. DOMAIN a = 1 .. Len(s) + 1 /\ DOMAIN s = 1 .. Len(s)
  BY <1>1
<1> HIDE DEF a
<1>3. Range(a) = Range(s) \cup {x}
  BY <1>1, <1>2 DEF Range
<1>4. IsInjective(s) /\ x \notin Range(s) => IsInjective(a)
  BY <1>1, <1>2 DEF Range, IsInjective
<1> QED BY <1>1, <1>3, <1>4 DEF a

\* Taking the head off a queue of distinct entries removes exactly that entry.
LEMMA RangeTail ==
  ASSUME NEW S, NEW s \in Seq(S), s # <<>>
  PROVE  /\ Head(s) \in S /\ Head(s) \in Range(s)
         /\ Tail(s) \in Seq(S)
         /\ IsInjective(s) => /\ Range(Tail(s)) = Range(s) \ {Head(s)}
                              /\ IsInjective(Tail(s))
<1> DEFINE a == Tail(s)
<1>1. /\ a \in Seq(S) /\ Len(s) \in Nat /\ Len(s) # 0 /\ Len(a) = Len(s) - 1
      /\ \A i \in 1 .. Len(a) : a[i] = s[i + 1]
      /\ Head(s) = s[1] /\ Head(s) \in S
  BY HeadTailProperties, EmptySeq
<1>2. DOMAIN a = 1 .. Len(s) - 1 /\ DOMAIN s = 1 .. Len(s)
  BY <1>1
<1> HIDE DEF a
<1>3. Head(s) \in Range(s)
  BY <1>1, <1>2 DEF Range
<1>4. ASSUME IsInjective(s) PROVE Range(a) = Range(s) \ {Head(s)} /\ IsInjective(a)
  <2>1. \A c \in Range(a) : c \in Range(s) /\ c # s[1]
    BY <1>1, <1>2, <1>4 DEF Range, IsInjective
  <2>2. ASSUME NEW c \in Range(s), c # s[1] PROVE c \in Range(a)
    <3>1. PICK i \in 1 .. Len(s) : c = s[i]
      BY <1>2 DEF Range
    <3>2. i # 1 /\ i - 1 \in DOMAIN a /\ a[i - 1] = s[i]
      BY <3>1, <2>2, <1>1, <1>2
    <3> QED BY <3>1, <3>2 DEF Range
  <2>3. ASSUME NEW i \in DOMAIN a, NEW j \in DOMAIN a, a[i] = a[j] PROVE i = j
    <3>1. i + 1 \in DOMAIN s /\ j + 1 \in DOMAIN s /\ s[i + 1] = s[j + 1]
      BY <2>3, <1>1, <1>2
    <3>2. i + 1 = j + 1
      BY <3>1, <1>4 DEF IsInjective
    <3> QED BY <3>2, <1>1, <1>2
  <2> QED BY <1>1, <2>1, <2>2, <2>3 DEF IsInjective
<1> QED BY <1>1, <1>3, <1>4 DEF a

\* And so does putting x in front.
LEMMA RangeCons ==
  ASSUME NEW S, NEW s \in Seq(S), NEW x \in S
  PROVE  /\ <<x>> \o s \in Seq(S)
         /\ Range(<<x>> \o s) = Range(s) \cup {x}
         /\ IsInjective(s) /\ x \notin Range(s) => IsInjective(<<x>> \o s)
<1> DEFINE a == <<x>> \o s
<1>1. <<x>> \in Seq(S) /\ Len(<<x>>) = 1 /\ <<x>>[1] = x
  OBVIOUS
<1>2. /\ a \in Seq(S) /\ Len(a) = Len(s) + 1 /\ Len(s) \in Nat
      /\ a[1] = x
      /\ \A i \in 2 .. Len(s) + 1 : a[i] = s[i - 1]
  BY <1>1, ConcatProperties
<1>3. DOMAIN a = 1 .. Len(s) + 1 /\ DOMAIN s = 1 .. Len(s)
  BY <1>2
<1> HIDE DEF a
<1>4. Range(a) = Range(s) \cup {x}
  <2>1. \A y \in Range(a) : y \in Range(s) \cup {x}
    BY <1>2, <1>3, SMTT(30) DEF Range
  <2>2. x \in Range(a)
    BY <1>2, <1>3 DEF Range
  <2>3. ASSUME NEW y \in Range(s) PROVE y \in Range(a)
    <3>1. PICK i \in 1 .. Len(s) : y = s[i]
      BY <1>3 DEF Range
    <3>2. i + 1 \in DOMAIN a /\ a[i + 1] = s[i]
      BY <1>2, <1>3
    <3> QED BY <3>1, <3>2 DEF Range
  <2> QED BY <2>1, <2>2, <2>3
<1>5. ASSUME IsInjective(s), x \notin Range(s), NEW i \in DOMAIN a, NEW j \in DOMAIN a, a[i] = a[j]
      PROVE  i = j
  <2>1. CASE i = 1 /\ j = 1
    BY <2>1
  <2>2. CASE i # 1 /\ j # 1
    <3>1. i - 1 \in DOMAIN s /\ j - 1 \in DOMAIN s /\ s[i - 1] = s[j - 1]
      BY <2>2, <1>2, <1>3, <1>5
    <3>2. i - 1 = j - 1
      BY <3>1, <1>5 DEF IsInjective
    <3> QED BY <3>2, <1>3
  <2>3. CASE (i = 1) # (j = 1)
    BY <2>3, <1>2, <1>3, <1>5, SMTT(30) DEF Range
  <2> QED BY <2>1, <2>2, <2>3
<1> QED BY <1>2, <1>4, <1>5 DEF a, IsInjective

-----------------------------------------------------------------------------
(* The inductive invariant *)

\* A worker holds a session exactly while it runs a job, no session is queued twice,
\* or queued, held and handed back at a time.
Queues ==
  /\ ws # None <=> wpc = "job"
  /\ IsInjective(jq) /\ IsInjective(done)
  /\ Range(jq) \cap Range(done) = {}
  /\ ws \notin Range(jq) \cup Range(done)

\* Only associations are set up, and a direct session is ready from the start.
Kinds ==
  \A s \in Live : /\ sess[s].state = "setup" => sess[s].kind = "socks5"
                  /\ sess[s].kind = "direct" => sess[s].state = "ready"

\* What epoll reported of a control connection: of a session that is ready, or that a
\* handler has destroyed since.
Events ==
  /\ hangup \subseteq State("ready")
  /\ \A s \in Sessions, i \in {0, 1} :
       <<s, i>> \in evs => s \in State("ready") \/ sess[s].st = "grave"

Count == nsess = Cardinality(Live) /\ nsess <= MaxSess

\* A relay that is off has no thread and no session.
Off ==
  life = "off" =>
    /\ pc = "exited" /\ wpc = "exited"
    /\ fds = {} /\ \A s \in Sessions : sess[s].st = "free"

\* A decision names a proxy that was there, so one that is there as long as none goes.
Decided ==
  removed = {} => \A cf \in Clients \X Flows : dc[cf] \in Proxies => proxies[dc[cf]] # "none"

Books ==
  /\ Queues /\ Kinds /\ State("setup") = HandedOver /\ Events
  /\ SocketsOwned /\ Count /\ Off /\ UniqueUnlessRemoved

IInv == TypeOK /\ Books /\ Decided

-----------------------------------------------------------------------------
(* Proxies and events *)

\* The proxy a decision ends with is one that exists, and the one asked for if it does.
LEMMA ProxyThere ==
  ASSUME NEW p \in Proxies
  PROVE  /\ GetProxy(p) # None => GetProxy(p) \in Proxies /\ proxies[GetProxy(p)] # "none"
         /\ proxies[p] # "none" => GetProxy(p) = p
<1> DEFINE there == {q \in Proxies : proxies[q] # "none"}
<1>1. GetProxy(p) = IF p \in there THEN p ELSE IF there = {} THEN None ELSE Min(there)
  BY DEF GetProxy
<1>2. ASSUME there # {} PROVE Min(there) \in there
  <2>1. there \in SUBSET Nat
    BY UdpAssumption
  <2> HIDE DEF there
  <2>2. IsWellFoundedOn(OpToRel(<, Nat), Nat)
    BY NatLessThanWellFounded
  <2>3. PICK i \in there : \A j \in there : ~(<<j, i>> \in OpToRel(<, Nat))
    BY <1>2, <2>1, <2>2, WFMin
  <2>4. ASSUME NEW j \in there PROVE i <= j
    <3>1. <<j, i>> \notin {ss \in Nat \X Nat : ss[1] < ss[2]}
      BY <2>3 DEF OpToRel
    <3>2. i \in Nat /\ j \in Nat /\ <<j, i>> \in Nat \X Nat
      BY <2>1
    <3>3. ~(j < i)
      BY <3>1, <3>2
    <3> QED BY <3>2, <3>3
  <2> QED BY <2>3, <2>4 DEF Min
<1> QED BY <1>1, <1>2

\* The event of a socket is none of the other three, and none of a datagram.
LEMMA EventsApart ==
  ASSUME NEW s \in Sessions, NEW i \in {0, 1}
  PROVE  /\ <<s, i>> \notin {<<"wake">>, <<"timer">>, <<"stop">>}
         /\ <<s, i>> \notin Clients \X Flows
<1>1. Len(<<s, i>>) = 2
  OBVIOUS
<1>2. Len(<<"wake">>) = 1 /\ Len(<<"timer">>) = 1 /\ Len(<<"stop">>) = 1
  OBVIOUS
<1>3. <<s, i>> \notin {<<"wake">>, <<"timer">>, <<"stop">>}
  BY <1>1, <1>2
<1>4. <<s, i>> \notin Clients \X Flows
  BY UdpAssumption
<1> QED BY <1>3, <1>4
-----------------------------------------------------------------------------
(* Type correctness *)

\* struct sess in use.
Record ==
  [st : {"live", "grave"}, cli : Clients, id : Proxies \cup {Direct}, flow : Flows \cup {None},
   kind : {"direct", "socks5", "drop"}, state : {"setup", "ready", "failed"},
   nq : 0 .. QMax, late : BOOLEAN]

\* A live session is a record, a free one is not, and both are what TypeOK says.
LEMMA Records ==
  ASSUME TypeOK
  PROVE  /\ sess \in [Sessions -> {Free} \cup Record]
         /\ \A s \in Sessions : sess[s].st # "free" <=> sess[s] \in Record
         /\ \A s \in Live : s \in Sessions /\ sess[s] \in Record /\ sess[s].st = "live"
<1>1. sess \in [Sessions -> {Free} \cup Record]
  BY DEF TypeOK, Record
<1>2. ASSUME NEW s \in Sessions PROVE sess[s].st # "free" <=> sess[s] \in Record
  BY <1>1 DEF Free, Record
<1> QED BY <1>1, <1>2 DEF Live

\* A session made for client c and proxy or flow is of the right type.
LEMMA NewTyped ==
  ASSUME NEW c \in Clients, NEW id \in Proxies \cup {Direct}, NEW f \in Flows \cup {None},
         NEW k \in {"direct", "socks5", "drop"}, NEW x \in {"setup", "ready", "failed"}
  PROVE  /\ New(c, id, f, k, x) \in Record
         /\ Queued(New(c, id, f, k, x)) \in Record
         /\ Buried(New(c, id, f, k, x)) \in Record
<1>1. 0 \in 0 .. QMax /\ 1 \in 0 .. QMax
  BY UdpAssumption
<1>2. New(c, id, f, k, x) \in Record /\ New(c, id, f, k, x).nq = 0
  BY <1>1 DEF New, Record
<1> DEFINE r == New(c, id, f, k, x)
<1> HIDE DEF r
<1>3. [r EXCEPT !.st = "grave", !.nq = 0] \in Record /\ [r EXCEPT !.nq = 1] \in Record
      /\ [r EXCEPT !.nq = 0] \in Record
  BY <1>1, <1>2 DEF Record, r
<1>4. 0 + 1 = 1
  OBVIOUS
<1> QED BY <1>2, <1>3, <1>4 DEF Queued, Buried, r

\* Queueing a datagram and burying a session keep the rest of the struct.
LEMMA RecordSteps ==
  ASSUME NEW r \in Record
  PROVE  /\ Queued(r) \in Record
         /\ /\ Queued(r).st = r.st /\ Queued(r).cli = r.cli /\ Queued(r).id = r.id
            /\ Queued(r).flow = r.flow /\ Queued(r).kind = r.kind /\ Queued(r).state = r.state
         /\ Buried(r) \in Record /\ Buried(r).st = "grave"
<1>1. r.nq \in 0 .. QMax /\ QMax \in Nat \ {0}
  BY UdpAssumption DEF Record
<1>2. (IF r.state = "setup" /\ r.nq < QMax THEN r.nq + 1 ELSE r.nq) \in 0 .. QMax
  BY <1>1
<1>3. Queued(r) = [r EXCEPT !.nq = IF r.state = "setup" /\ r.nq < QMax THEN r.nq + 1 ELSE r.nq]
  BY DEF Queued
<1>4. /\ Queued(r) \in Record
      /\ Queued(r).st = r.st /\ Queued(r).cli = r.cli /\ Queued(r).id = r.id
      /\ Queued(r).flow = r.flow /\ Queued(r).kind = r.kind /\ Queued(r).state = r.state
  BY <1>2, <1>3 DEF Record
<1>5. 0 \in 0 .. QMax
  BY <1>1
<1>6. [r EXCEPT !.st = "grave", !.nq = 0] \in Record
      /\ [r EXCEPT !.st = "grave", !.nq = 0].st = "grave"
  BY <1>5 DEF Record
<1> QED BY <1>4, <1>6 DEF Buried

\* Destroying sessions keeps the types.
LEMMA DestroyTyped ==
  ASSUME TypeOK, NEW ss \in SUBSET Live, Destroy(ss)
  PROVE  /\ sess' \in [Sessions -> {Free} \cup Record]
         /\ nsess' \in Int /\ fds' \subseteq fds /\ hangup' \subseteq hangup
<1>1. Cardinality(ss) \in Int
  BY FS_Subset, FS_CardinalityType, UdpAssumption DEF Live
<1>2. ASSUME NEW s \in ss PROVE Buried(sess[s]) \in Record
  BY Records, RecordSteps
<1>3. sess' \in [Sessions -> {Free} \cup Record]
  BY <1>2, Records DEF Destroy
<1> QED BY <1>1, <1>3 DEF Destroy, Uncount, TypeOK

\* A datagram keeps the types, whatever session it finds or makes.
LEMMA DgramTyped ==
  ASSUME TypeOK, NEW c \in Clients, NEW f \in Flows, Dgram(c, f)
  PROVE  TypeOK'
<1> USE UdpAssumption
<1>1. PICK id \in Decisions(<<c, f>>) :
        /\ dc' = [dc EXCEPT ![<<c, f>>] = id]
        /\ \/ id = None /\ UNCHANGED <<sess, nsess, fds, hangup, jq>>
           \/ id = Direct /\ DirectDgram(c, f)
           \/ id \in Proxies /\ ProxyDgram(c, id)
  BY DEF Dgram
<1>2. dc' \in [Clients \X Flows -> Proxies \cup {Direct, None}]
  BY <1>1 DEF TypeOK
<1>3. /\ sess' \in [Sessions -> {Free} \cup Record] /\ nsess' \in Int
      /\ fds' \subseteq Sessions \X {0, 1} /\ hangup' = hangup /\ jq' \in Seq(Sessions)
  <2>0. /\ sess \in [Sessions -> {Free} \cup Record] /\ nsess \in Int
        /\ fds \subseteq Sessions \X {0, 1} /\ jq \in Seq(Sessions)
    BY Records DEF TypeOK
  <2>1. CASE id = None /\ UNCHANGED <<sess, nsess, fds, hangup, jq>>
    BY <2>0, <2>1
  <2>2. CASE id = Direct /\ DirectDgram(c, f)
    <3>1. CASE UNCHANGED <<sess, nsess, fds>>
      BY <2>0, <2>2, <3>1 DEF DirectDgram
    <3>2. ASSUME NEW s \in Room,
                 \/ /\ sess' = [sess EXCEPT ![s] = New(c, Direct, f, "direct", "ready")]
                    /\ nsess' = nsess + 1 /\ fds' = fds \cup {<<s, 0>>}
                 \/ /\ sess' = [sess EXCEPT ![s] = Buried(New(c, Direct, f, "direct", "ready"))]
                    /\ UNCHANGED <<nsess, fds>>
          PROVE  /\ sess' \in [Sessions -> {Free} \cup Record] /\ nsess' \in Int
                 /\ fds' \subseteq Sessions \X {0, 1}
      <4>1. /\ New(c, Direct, f, "direct", "ready") \in Record
            /\ Buried(New(c, Direct, f, "direct", "ready")) \in Record
        BY NewTyped
      <4> HIDE DEF New, Buried
      <4> QED BY <2>0, <3>2, <4>1 DEF Room
    <3> QED BY <2>0, <2>2, <3>1, <3>2 DEF DirectDgram
  <2>3. CASE id \in Proxies /\ ProxyDgram(c, id)
    <3>1. ASSUME NEW s \in Find(c, id, None), sess' = [sess EXCEPT ![s] = Queued(@)]
          PROVE  sess' \in [Sessions -> {Free} \cup Record]
      BY <2>0, <3>1, Records, RecordSteps DEF Find
    <3>2. ASSUME NEW s \in Room, NEW px \in Proxies, nsess' = nsess + 1,
                 \/ /\ sess' = [sess EXCEPT ![s] = New(c, px, None, "drop", "ready")]
                    /\ UNCHANGED jq
                 \/ /\ sess' = [sess EXCEPT ![s] = Queued(New(c, px, None, "socks5", "setup"))]
                    /\ jq' = Append(jq, s)
                 \/ /\ sess' = [sess EXCEPT ![s] = New(c, px, None, "socks5", "failed")]
                    /\ UNCHANGED jq
          PROVE  /\ sess' \in [Sessions -> {Free} \cup Record] /\ nsess' \in Int
                 /\ jq' \in Seq(Sessions)
      <4>1. /\ New(c, px, None, "drop", "ready") \in Record
            /\ Queued(New(c, px, None, "socks5", "setup")) \in Record
            /\ New(c, px, None, "socks5", "failed") \in Record
        BY NewTyped
      <4>2. s \in Sessions /\ Append(jq, s) \in Seq(Sessions)
        BY <2>0, <3>2, RangeAppend DEF Room
      <4>3. PICK r \in Record : sess' = [sess EXCEPT ![s] = r]
        BY <3>2, <4>1
      <4>4. sess' \in [Sessions -> {Free} \cup Record]
        BY <2>0, <4>2, <4>3
      <4>5. nsess' = nsess + 1 /\ (jq' = jq \/ jq' = Append(jq, s))
        BY <3>2
      <4> QED BY <2>0, <4>2, <4>4, <4>5, SMTT(30)
    <3>3. GetProxy(id) # None => GetProxy(id) \in Proxies
      BY <2>3, ProxyThere
    <3> HIDE DEF New
    <3> QED BY <2>0, <2>3, <3>1, <3>2, <3>3 DEF ProxyDgram
  <2> QED BY <1>1, <2>1, <2>2, <2>3
<1>4. rx' \subseteq Clients \X Flows /\ evs' \subseteq evs
  BY DEF Dgram, Handled, TypeOK
<1>5. UNCHANGED <<apiVars, pc, tick, wpc, ws, done, wake, life>>
  BY DEF Dgram
<1> QED BY <1>2, <1>3, <1>4, <1>5 DEF TypeOK, Record, apiVars

\* Every step of the relay preserves type correctness.
LEMMA TypeStep ==
  ASSUME TypeOK, Queues, Events, [Next]_vars
  PROVE  TypeOK'
<1> USE UdpAssumption DEF apiVars, sessVars, threadVars, jobVars
<1>1. ASSUME NEW c \in Clients, NEW f \in Flows, Send(c, f) PROVE TypeOK'
  BY <1>1 DEF Send, TypeOK
<1>2. ASSUME NEW s \in Sessions, Hangup(s) PROVE TypeOK'
  BY <1>2 DEF Hangup, TypeOK
<1>3. ASSUME NEW s \in Sessions, Late(s) PROVE TypeOK'
  <2>1. sess[s] \in Record
    BY <1>3, Records DEF Late, State
  <2>2. [sess[s] EXCEPT !.late = TRUE] \in Record
    BY <2>1 DEF Record
  <2>3. sess' \in [Sessions -> {Free} \cup Record]
    BY <1>3, <2>2, Records DEF Late
  <2> QED BY <1>3, <2>3 DEF Late, TypeOK, Record
<1>4. CASE Tick \/ Poll \/ WakeRead \/ StopEvent \/ JobWake \/ WorkerExit \/ Stop
  <2>1. UNCHANGED <<proxies, removed, edits, rx, dc, sess, nsess, fds, hangup, jq, ws, done>>
    BY <1>4 DEF Tick, Poll, WakeRead, StopEvent, JobWake, WorkerExit, Stop
  <2>2. evs' \subseteq {<<"wake">>, <<"timer">>, <<"stop">>} \cup (Clients \X Flows)
                        \cup (Sessions \X {0, 1})
    BY <1>4 DEF Tick, Poll, WakeRead, StopEvent, JobWake, WorkerExit, Stop, Handled, TypeOK
  <2>3. /\ pc' \in {"poll", "batch", "woken", "exited"} /\ tick' \in BOOLEAN /\ wake' \in BOOLEAN
        /\ wpc' \in {"wait", "job", "wake", "exited"} /\ life' \in {"off", "running", "stopping"}
    BY <1>4 DEF Tick, Poll, WakeRead, StopEvent, JobWake, Wake, WorkerExit, Stop, TypeOK
  <2> QED BY <2>1, <2>2, <2>3 DEF TypeOK
<1>5. ASSUME NEW p \in Proxies, NEW t \in {"none", "socks5", "http"}, SetProxy(p, t) PROVE TypeOK'
  BY <1>5 DEF SetProxy, TypeOK
<1>6. ASSUME NEW c \in Clients, NEW f \in Flows, Dgram(c, f) PROVE TypeOK'
  BY <1>6, DgramTyped
<1>7. ASSUME NEW s \in Sessions, CtlEvent(s) PROVE TypeOK'
  <2>1. /\ sess' \in [Sessions -> {Free} \cup Record]
        /\ nsess' \in Int /\ fds' \subseteq fds /\ hangup' \subseteq hangup
    <3>1. CASE s \in Live
      BY <1>7, <3>1, DestroyTyped DEF CtlEvent
    <3>2. CASE s \notin Live
      BY <1>7, <3>2, Records DEF CtlEvent, TypeOK
    <3> QED BY <3>1, <3>2
  <2> QED BY <1>7, <2>1 DEF CtlEvent, Handled, TypeOK, Record
<1>8. ASSUME Sweep PROVE TypeOK'
  <2>1. PICK idle \in SUBSET Sweepable : Destroy(idle \cup {s \in State("failed") : sess[s].late})
    BY <1>8 DEF Sweep
  <2>2. idle \cup {s \in State("failed") : sess[s].late} \in SUBSET Live
    BY DEF Sweepable, State
  <2>3. /\ sess' \in [Sessions -> {Free} \cup Record]
        /\ nsess' \in Int /\ fds' \subseteq fds /\ hangup' \subseteq hangup
    BY <2>1, <2>2, DestroyTyped
  <2> QED BY <1>8, <2>3 DEF Sweep, Handled, TypeOK, Record
<1>9. ASSUME SetupDone PROVE TypeOK'
  <2>1. PICK ok \in SUBSET {s \in Range(done) : <<s, 0>> \in fds} :
          /\ sess' = [s \in Sessions |->
               IF s \notin Range(done) THEN sess[s]
               ELSE [sess[s] EXCEPT !.state = IF s \in ok THEN "ready" ELSE "failed",
                                    !.nq = 0, !.late = FALSE]]
          /\ NotAssociated(Range(done) \ ok)
    BY <1>9 DEF SetupDone
  <2>2. \A s \in Sessions : sess[s] \in {Free} \cup Record
    BY Records
  <2>3. ASSUME NEW s \in Sessions PROVE sess'[s] \in {Free} \cup Record
    <3>1. CASE sess[s] \in Record
      <4>1. 0 \in 0 .. QMax
        OBVIOUS
      <4>2. \A x \in {"ready", "failed"} :
              [sess[s] EXCEPT !.state = x, !.nq = 0, !.late = FALSE] \in Record
        BY <3>1, <4>1 DEF Record
      <4> QED BY <2>1, <3>1, <4>2
    <3>2. CASE sess[s] = Free
      BY <2>1, <3>2 DEF Free
    <3> QED BY <2>2, <3>1, <3>2
  <2>4. sess' \in [Sessions -> {Free} \cup Record]
    BY <2>1, <2>3
  <2>5. fds' \subseteq fds /\ done' \in Seq(Sessions)
    BY <1>9, <2>1, EmptySeq DEF SetupDone, NotAssociated
  <2> QED BY <1>9, <2>4, <2>5 DEF SetupDone, TypeOK, Record
<1>10. ASSUME BatchEnd PROVE TypeOK'
  <2>1. sess' \in [Sessions -> {Free} \cup Record]
    BY <1>10, Records DEF BatchEnd, Exhumed
  <2> QED BY <1>10, <2>1 DEF BatchEnd, TypeOK, Record
<1>11. ASSUME Take PROVE TypeOK'
  BY <1>11, RangeTail DEF Take, TypeOK
<1>12. ASSUME JobRun PROVE TypeOK'
  <2>1. ws \in Sessions
    BY <1>12 DEF JobRun, Queues, TypeOK
  <2> QED BY <1>12, <2>1, RangeCons DEF JobRun, TypeOK
<1>13. ASSUME Start \/ Teardown PROVE TypeOK'
  <2>0. dc' \in [Clients \X Flows -> Proxies \cup {Direct, None}]
    BY <1>13 DEF Start, Idle, Teardown
  <2>1. rx' = {} /\ evs' = {} /\ tick' = FALSE /\ wake' = FALSE /\ jq' = <<>> /\ done' = <<>>
    BY <1>13 DEF Start, Idle, Teardown
  <2>2. /\ sess' \in [Sessions -> {Free} \cup Record] /\ nsess' \in Int
        /\ fds' \subseteq fds /\ hangup' \subseteq hangup
    BY <1>13, Records DEF Start, Teardown, LeftOpen, TypeOK
  <2>3. /\ pc' \in {"poll", "batch", "woken", "exited"}
        /\ wpc' \in {"wait", "job", "wake", "exited"} /\ ws' \in Sessions \cup {None}
        /\ life' \in {"off", "running", "stopping"} /\ UNCHANGED <<proxies, removed, edits>>
    BY <1>13 DEF Start, Idle, Teardown, TypeOK
  <2> QED BY <2>0, <2>1, <2>2, <2>3, EmptySeq DEF TypeOK, Record
<1>14. CASE UNCHANGED vars
  BY <1>14 DEF vars, TypeOK
<1> QED BY <1>1, <1>2, <1>3, <1>4, <1>5, <1>6, <1>7, <1>8, <1>9, <1>10, <1>11, <1>12, <1>13, <1>14
        DEF Next, Thread, Worker, Api
-----------------------------------------------------------------------------
(* What a step does to the sessions *)

\* A step that touches no session keeps the books, if epoll reports only what hangs.
LEMMA QuietStep ==
  ASSUME Books,
         UNCHANGED <<sess, nsess, fds, hangup, jq, ws, done, removed>>,
         wpc' = "job" <=> wpc = "job", life' # "off",
         \A s \in Sessions, i \in {0, 1} : <<s, i>> \in evs' => <<s, i>> \in evs \/ s \in hangup
  PROVE  Books'
<1>1. Live' = Live /\ State("setup")' = State("setup") /\ State("ready")' = State("ready")
      /\ HandedOver' = HandedOver
  BY DEF Live, State, HandedOver
<1>2. Queues' /\ Kinds' /\ State("setup")' = HandedOver' /\ Count' /\ Off'
  BY <1>1 DEF Books, Queues, Kinds, Count, Off
<1>3. Events'
  BY <1>1 DEF Books, Events
<1>4. SocketsOwned'
  BY <1>1 DEF Books, SocketsOwned
<1>5. UniqueUnlessRemoved'
  BY <1>1 DEF Books, UniqueUnlessRemoved, SessionsUnique, Key
<1> QED BY <1>2, <1>3, <1>4, <1>5 DEF Books

\* Nor does a step that only changes a session's queue or its wait after a failure.
LEMMA TouchStep ==
  ASSUME TypeOK, Books, NEW s \in Live, NEW r \in Record,
         /\ r.st = "live" /\ r.cli = sess[s].cli /\ r.id = sess[s].id /\ r.flow = sess[s].flow
         /\ r.kind = sess[s].kind /\ r.state = sess[s].state,
         sess' = [sess EXCEPT ![s] = r],
         UNCHANGED <<nsess, fds, hangup, jq, ws, wpc, done, removed, life>>, life # "off",
         evs' \subseteq evs
  PROVE  Books'
<1>1. s \in Sessions /\ sess[s].st = "live"
  BY DEF Live
<1>2. \A t \in Sessions :
        /\ sess'[t].st = sess[t].st
        /\ t \in Live => /\ sess'[t].cli = sess[t].cli /\ sess'[t].id = sess[t].id
                         /\ sess'[t].flow = sess[t].flow /\ sess'[t].kind = sess[t].kind
                         /\ sess'[t].state = sess[t].state
  BY <1>1 DEF TypeOK
<1>3. Live' = Live
  BY <1>2 DEF Live
<1>4. State("setup")' = State("setup") /\ State("ready")' = State("ready")
      /\ HandedOver' = HandedOver
  BY <1>2, <1>3 DEF State, HandedOver, Live
<1>5. \A t \in Live : t \in Sessions
  BY DEF Live
<1>6. Queues' /\ Kinds' /\ State("setup")' = HandedOver' /\ Count' /\ Off'
  BY <1>2, <1>3, <1>4, <1>5 DEF Books, Queues, Kinds, Count, Off
<1>7. Events'
  BY <1>2, <1>4 DEF Books, Events
<1>8. SocketsOwned'
  BY <1>2, <1>3, <1>5 DEF Books, SocketsOwned
<1>9. UniqueUnlessRemoved'
  BY <1>2, <1>3, <1>5 DEF Books, UniqueUnlessRemoved, SessionsUnique, Key
<1> QED BY <1>6, <1>7, <1>8, <1>9 DEF Books

\* A new session, unlike every live one, with the socket and the place of its kind.
LEMMA NewStep ==
  ASSUME TypeOK, Books, NEW s \in Room, NEW r \in Record, r.st = "live",
         sess' = [sess EXCEPT ![s] = r], nsess' = nsess + 1, hangup' = hangup,
         \/ /\ r.kind = "direct" /\ r.state = "ready"
            /\ fds' = fds \cup {<<s, 0>>} /\ jq' = jq
         \/ r.kind = "drop" /\ r.state = "ready" /\ fds' = fds /\ jq' = jq
         \/ r.kind = "socks5" /\ r.state = "setup" /\ fds' = fds /\ jq' = Append(jq, s)
         \/ r.kind = "socks5" /\ r.state = "failed" /\ fds' = fds /\ jq' = jq,
         removed = {} => \A t \in Live : Key(t) # <<r.cli, r.id, r.flow>>,
         UNCHANGED <<ws, wpc, done, removed, life>>, life # "off", evs' \subseteq evs
  PROVE  Books'
<1> USE UdpAssumption
<1>1. s \in Sessions /\ sess[s].st = "free" /\ nsess < MaxSess /\ s \notin Live
  BY DEF Room, Live
<1>2. sess'[s] = r /\ \A t \in Sessions : t # s => sess'[t] = sess[t]
  BY <1>1 DEF TypeOK
<1>3. Live' = Live \cup {s}
  BY <1>1, <1>2 DEF Live
<1>4. /\ r.state = "setup" => State("setup")' = State("setup") \cup {s}
      /\ r.state # "setup" => State("setup")' = State("setup")
      /\ State("ready") \subseteq State("ready")'
  BY <1>1, <1>2, <1>3 DEF State, Live
<1>5. \A t \in Live : t \in Sessions /\ t # s /\ sess'[t] = sess[t]
  BY <1>1, <1>2 DEF Live
<1>6. s \notin HandedOver
  BY <1>1 DEF Books, State
<1>7. Count'
  <2>1. IsFiniteSet(Live) /\ Cardinality(Live \cup {s}) = Cardinality(Live) + 1
    BY <1>1, FS_Subset, FS_AddElement DEF Live
  <2> QED BY <2>1, <1>1, <1>3 DEF Books, Count, TypeOK
<1>8. Kinds'
  BY <1>2, <1>3, <1>5 DEF Books, Kinds
<1>9. Queues' /\ State("setup")' = HandedOver'
  <2>1. CASE r.state = "setup"
    <3>1. jq' = Append(jq, s) /\ jq \in Seq(Sessions) /\ s \notin Range(jq)
      BY <2>1, <1>6 DEF TypeOK, HandedOver
    <3>2. /\ Range(jq') = Range(jq) \cup {s}
          /\ IsInjective(jq')
      BY <1>1, <3>1, RangeAppend DEF Books, Queues
    <3>3. s \notin Range(done) /\ s # ws
      BY <1>6, <1>1 DEF HandedOver
    <3> QED BY <2>1, <1>4, <3>2, <3>3 DEF Books, Queues, HandedOver
  <2>2. CASE r.state # "setup"
    BY <2>2, <1>4 DEF Books, Queues, HandedOver
  <2> QED BY <2>1, <2>2
<1>10. Events'
  BY <1>1, <1>2, <1>4 DEF Books, Events
<1>11. SocketsOwned'
  <2>1. \A i \in {0, 1} : <<s, i>> \notin fds
    BY <1>1 DEF Books, SocketsOwned
  <2>2. \A t \in Live : {i \in {0, 1} : <<t, i>> \in fds'} = {i \in {0, 1} : <<t, i>> \in fds}
    BY <1>5
  <2>3. {i \in {0, 1} : <<s, i>> \in fds'} = IF r.kind = "direct" THEN {0} ELSE {}
    BY <2>1
  <2>4. s \notin Range(done)
    BY <1>6 DEF HandedOver
  <2>5. ASSUME NEW t \in Live'
        PROVE  LET has == {i \in {0, 1} : <<t, i>> \in fds'} IN
               CASE sess'[t].kind = "direct" -> has = {0}
                 [] sess'[t].kind = "socks5" /\ sess'[t].state = "ready" -> has = {0, 1}
                 [] sess'[t].kind = "socks5" /\ t \in Range(done') -> has \in {{}, {0, 1}}
                 [] OTHER -> has = {}
    <3>1. CASE t = s
      BY <3>1, <1>2, <2>3, <2>4
    <3>2. CASE t # s
      <4>1. t \in Live /\ sess'[t] = sess[t]
        BY <3>2, <1>3, <1>5
      <4> QED BY <4>1, <2>2 DEF Books, SocketsOwned
    <3> QED BY <3>1, <3>2
  <2>6. \A x \in fds' : x[1] \in Live'
    BY <1>3 DEF Books, SocketsOwned
  <2> QED BY <2>5, <2>6 DEF SocketsOwned
<1>12. UniqueUnlessRemoved'
  <2> SUFFICES ASSUME removed = {}, NEW t \in Live', NEW u \in Live', Key(t)' = Key(u)'
               PROVE  t = u
    BY DEF UniqueUnlessRemoved, SessionsUnique
  <2>1. Key(s)' = <<r.cli, r.id, r.flow>> /\ \A v \in Live : Key(v)' = Key(v)
    BY <1>2, <1>5 DEF Key
  <2> QED BY <2>1, <1>3 DEF Books, UniqueUnlessRemoved, SessionsUnique
<1> QED BY <1>7, <1>8, <1>9, <1>10, <1>11, <1>12 DEF Books, Off

\* Sessions that nobody sets up are destroyed, with their sockets.
LEMMA DestroyStep ==
  ASSUME TypeOK, Books, NEW ss \in SUBSET Live, ss \cap State("setup") = {}, Destroy(ss),
         UNCHANGED <<jq, ws, wpc, done, removed, life>>, life # "off", evs' \subseteq evs
  PROVE  Books'
<1> USE UdpAssumption
<1>1. /\ \A t \in Sessions : sess'[t] = IF t \in ss THEN Buried(sess[t]) ELSE sess[t]
      /\ nsess' = nsess - Cardinality(ss)
      /\ fds' = {x \in fds : x[1] \notin ss} /\ hangup' = hangup \ ss
  BY DEF Destroy, Uncount
<1>2. \A t \in ss : t \in Sessions /\ sess'[t].st = "grave"
  BY <1>1, Records, RecordSteps DEF Live
<1>3. Live' = Live \ ss
  BY <1>1, <1>2 DEF Live
<1>4. \A t \in Live' : t \in Live /\ t \in Sessions /\ sess'[t] = sess[t]
  BY <1>1, <1>3 DEF Live
<1>5. State("setup")' = State("setup") /\ State("ready")' = State("ready") \ ss
  BY <1>3, <1>4 DEF State
<1>6. Queues' /\ Kinds' /\ State("setup")' = HandedOver' /\ Off'
  BY <1>4, <1>5 DEF Books, Queues, Kinds, HandedOver, Off
<1>7. Count'
  <2>1. IsFiniteSet(Live) /\ IsFiniteSet(ss) /\ Cardinality(ss) \in Nat /\ Live \cap ss = ss
    BY FS_Subset, FS_CardinalityType DEF Live
  <2>2. Cardinality(Live \ ss) = Cardinality(Live) - Cardinality(ss)
    BY <2>1, FS_Difference
  <2>3. nsess \in Int /\ nsess = Cardinality(Live) /\ nsess <= MaxSess /\ MaxSess \in Nat
    BY DEF Books, Count, TypeOK
  <2> QED BY <2>1, <2>2, <2>3, <1>1, <1>3 DEF Count
<1>8. Events'
  BY <1>1, <1>2, <1>5 DEF Books, Events
<1>9. SocketsOwned'
  <2>1. \A t \in Live' : {i \in {0, 1} : <<t, i>> \in fds'} = {i \in {0, 1} : <<t, i>> \in fds}
    BY <1>1, <1>3
  <2>2. \A x \in fds' : x[1] \in Live'
    BY <1>1, <1>3 DEF Books, SocketsOwned
  <2> QED BY <2>1, <2>2, <1>4 DEF Books, SocketsOwned
<1>10. UniqueUnlessRemoved'
  BY <1>4 DEF Books, UniqueUnlessRemoved, SessionsUnique, Key
<1> QED BY <1>6, <1>7, <1>8, <1>9, <1>10 DEF Books
-----------------------------------------------------------------------------
(* The steps of the thread, the worker and teardown *)

\* A direct session that got no socket is destroyed before anyone else sees it.
LEMMA BuriedStep ==
  ASSUME TypeOK, Books, NEW s \in Room, NEW r, r.st = "grave", sess' = [sess EXCEPT ![s] = r],
         UNCHANGED <<nsess, fds, hangup, jq, ws, wpc, done, removed, life>>, life # "off",
         evs' \subseteq evs
  PROVE  Books'
<1>1. s \in Sessions /\ sess[s].st = "free" /\ sess'[s].st = "grave"
      /\ \A t \in Sessions : t # s => sess'[t] = sess[t]
  BY DEF Room, TypeOK
<1>2. Live' = Live /\ \A t \in Live : t \in Sessions /\ sess'[t] = sess[t]
  BY <1>1 DEF Live
<1>3. State("setup")' = State("setup") /\ State("ready")' = State("ready")
      /\ HandedOver' = HandedOver
  BY <1>2 DEF State, HandedOver
<1>4. Queues' /\ Kinds' /\ State("setup")' = HandedOver' /\ Count' /\ Off'
  BY <1>2, <1>3 DEF Books, Queues, Kinds, Count, Off
<1>5. Events'
  BY <1>1, <1>3 DEF Books, Events
<1>6. SocketsOwned'
  BY <1>2 DEF Books, SocketsOwned
<1>7. UniqueUnlessRemoved'
  BY <1>2 DEF Books, UniqueUnlessRemoved, SessionsUnique, Key
<1> QED BY <1>4, <1>5, <1>6, <1>7 DEF Books

\* A datagram finds its session, makes one, or goes nowhere.
LEMMA DgramStep ==
  ASSUME IInv, NEW c \in Clients, NEW f \in Flows, Dgram(c, f)
  PROVE  Books' /\ Decided'
<1> USE DEF IInv
<1>1. PICK id \in Decisions(<<c, f>>) :
        /\ dc' = [dc EXCEPT ![<<c, f>>] = id]
        /\ \/ id = None /\ UNCHANGED <<sess, nsess, fds, hangup, jq>>
           \/ id = Direct /\ DirectDgram(c, f)
           \/ id \in Proxies /\ ProxyDgram(c, id)
  BY DEF Dgram
<1>2. /\ UNCHANGED <<proxies, removed, ws, wpc, done, life, pc>> /\ evs' \subseteq evs
      /\ life # "off"
  BY DEF Dgram, Handled, apiVars, Books, Off
<1>3. removed = {} /\ id \in Proxies => proxies[id] # "none"
  <2>1. CASE id = dc[<<c, f>>]
    BY <2>1 DEF Decided
  <2>2. CASE id = None \/ id = Direct
    BY <2>2, UdpAssumption
  <2>3. CASE id # None /\ \E p \in Proxies : id = GetProxy(p)
    BY <2>3, ProxyThere
  <2> QED BY <1>1, <2>1, <2>2, <2>3 DEF Decisions
<1>4. Decided'
  BY <1>1, <1>2, <1>3 DEF Decided, TypeOK
<1>5. ASSUME UNCHANGED <<sess, nsess, fds, hangup, jq>> PROVE Books'
  BY <1>2, <1>5, QuietStep
<1>6. ASSUME id = Direct, DirectDgram(c, f) PROVE Books'
  <2>1. ASSUME NEW s \in Room, Find(c, Direct, f) = {},
               sess' = [sess EXCEPT ![s] = New(c, Direct, f, "direct", "ready")],
               nsess' = nsess + 1, fds' = fds \cup {<<s, 0>>}, UNCHANGED <<jq, hangup>>
        PROVE  Books'
    <3> DEFINE r == New(c, Direct, f, "direct", "ready")
    <3>1. /\ r \in Record
          /\ r.st = "live" /\ r.cli = c /\ r.id = Direct /\ r.flow = f
          /\ r.kind = "direct" /\ r.state = "ready"
      BY NewTyped DEF New
    <3>2. sess' = [sess EXCEPT ![s] = r]
      BY <2>1
    <3> HIDE DEF r
    <3>3. \A t \in Live : Key(t) # <<r.cli, r.id, r.flow>>
      BY <2>1, <3>1 DEF Find, Key
    <3> QED BY <1>2, <2>1, <3>1, <3>2, <3>3, NewStep
  <2>2. ASSUME NEW s \in Room,
               sess' = [sess EXCEPT ![s] = Buried(New(c, Direct, f, "direct", "ready"))],
               UNCHANGED <<nsess, fds, jq, hangup>>
        PROVE  Books'
    <3> DEFINE r == Buried(New(c, Direct, f, "direct", "ready"))
    <3>1. sess' = [sess EXCEPT ![s] = r] /\ r.st = "grave"
      BY <2>2 DEF Buried, New
    <3> HIDE DEF r
    <3> QED BY <1>2, <2>2, <3>1, BuriedStep
  <2>3. CASE UNCHANGED <<sess, nsess, fds>>
    BY <1>5, <1>6, <2>3 DEF DirectDgram
  <2>4. CASE ~UNCHANGED <<sess, nsess, fds>>
    <3>1. PICK s \in Room :
            \/ /\ sess' = [sess EXCEPT ![s] = New(c, Direct, f, "direct", "ready")]
               /\ nsess' = nsess + 1 /\ fds' = fds \cup {<<s, 0>>}
            \/ /\ sess' = [sess EXCEPT ![s] = Buried(New(c, Direct, f, "direct", "ready"))]
               /\ UNCHANGED <<nsess, fds>>
      BY <1>6, <2>4 DEF DirectDgram
    <3>2. UNCHANGED <<jq, hangup>> /\ Find(c, Direct, f) = {}
      BY <1>6, <2>4 DEF DirectDgram
    <3> QED BY <2>1, <2>2, <3>1, <3>2
  <2> QED BY <2>3, <2>4
<1>7. ASSUME id \in Proxies, ProxyDgram(c, id) PROVE Books'
  <2>1. ASSUME NEW s \in Find(c, id, None), sess' = [sess EXCEPT ![s] = Queued(@)],
               UNCHANGED <<nsess, jq, fds, hangup>>
        PROVE  Books'
    <3>1. s \in Live /\ sess[s] \in Record
      BY <2>1, Records DEF Find
    <3>2. /\ Queued(sess[s]) \in Record
          /\ Queued(sess[s]).st = "live" /\ Queued(sess[s]).cli = sess[s].cli
          /\ Queued(sess[s]).id = sess[s].id /\ Queued(sess[s]).flow = sess[s].flow
          /\ Queued(sess[s]).kind = sess[s].kind /\ Queued(sess[s]).state = sess[s].state
      BY <3>1, RecordSteps DEF Live
    <3>3. sess' = [sess EXCEPT ![s] = Queued(sess[s])]
      BY <2>1
    <3> QED BY <1>2, <2>1, <3>1, <3>2, <3>3, TouchStep
  <2>2. ASSUME NEW s \in Room, NEW r \in Record, Find(c, id, None) = {}, GetProxy(id) # None,
               /\ r.st = "live" /\ r.cli = c /\ r.id = GetProxy(id) /\ r.flow = None
               /\ r.kind # "direct",
               sess' = [sess EXCEPT ![s] = r], nsess' = nsess + 1, UNCHANGED <<fds, hangup>>,
               \/ r.kind = "drop" /\ r.state = "ready" /\ jq' = jq
               \/ r.kind = "socks5" /\ r.state = "setup" /\ jq' = Append(jq, s)
               \/ r.kind = "socks5" /\ r.state = "failed" /\ jq' = jq
        PROVE  Books'
    <3>1. removed = {} => GetProxy(id) = id
      BY <1>3, <1>7, ProxyThere
    <3>2. removed = {} => \A t \in Live : Key(t) # <<r.cli, r.id, r.flow>>
      BY <2>2, <3>1 DEF Find, Key
    <3> QED BY <1>2, <2>2, <3>2, NewStep
  <2>3. ASSUME NEW s \in Room, Find(c, id, None) = {}, GetProxy(id) # None, nsess' = nsess + 1,
               \/ /\ sess' = [sess EXCEPT ![s] = New(c, GetProxy(id), None, "drop", "ready")]
                  /\ UNCHANGED jq
               \/ /\ sess' = [sess EXCEPT ![s] = Queued(New(c, GetProxy(id), None, "socks5", "setup"))]
                  /\ jq' = Append(jq, s)
               \/ /\ sess' = [sess EXCEPT ![s] = New(c, GetProxy(id), None, "socks5", "failed")]
                  /\ UNCHANGED jq,
               UNCHANGED <<fds, hangup>>
        PROVE  Books'
    <3>1. PICK px \in Proxies : px = GetProxy(id)
      BY <1>7, <2>3, ProxyThere
    <3> DEFINE drop == New(c, px, None, "drop", "ready")
               setup == New(c, px, None, "socks5", "setup")
               failed == New(c, px, None, "socks5", "failed")
    <3>2. drop \in Record /\ setup \in Record /\ Queued(setup) \in Record /\ failed \in Record
      BY NewTyped
    <3>3. /\ drop.st = "live" /\ drop.cli = c /\ drop.id = px /\ drop.flow = None
          /\ drop.kind = "drop" /\ drop.state = "ready"
          /\ failed.st = "live" /\ failed.cli = c /\ failed.id = px /\ failed.flow = None
          /\ failed.kind = "socks5" /\ failed.state = "failed"
          /\ setup.st = "live" /\ setup.cli = c /\ setup.id = px /\ setup.flow = None
          /\ setup.kind = "socks5" /\ setup.state = "setup"
      BY DEF New
    <3>4. \/ sess' = [sess EXCEPT ![s] = drop] /\ jq' = jq
          \/ sess' = [sess EXCEPT ![s] = Queued(setup)] /\ jq' = Append(jq, s)
          \/ sess' = [sess EXCEPT ![s] = failed] /\ jq' = jq
      BY <2>3, <3>1
    <3> HIDE DEF drop, setup, failed
    <3>5. /\ Queued(setup).st = "live" /\ Queued(setup).cli = c /\ Queued(setup).id = px
          /\ Queued(setup).flow = None /\ Queued(setup).kind = "socks5"
          /\ Queued(setup).state = "setup"
      BY <3>2, <3>3, RecordSteps
    <3>6. CASE sess' = [sess EXCEPT ![s] = drop] /\ jq' = jq
      BY <2>2, <2>3, <3>1, <3>2, <3>3, <3>6
    <3>7. CASE sess' = [sess EXCEPT ![s] = Queued(setup)] /\ jq' = Append(jq, s)
      BY <2>2, <2>3, <3>1, <3>2, <3>5, <3>7
    <3>8. CASE sess' = [sess EXCEPT ![s] = failed] /\ jq' = jq
      BY <2>2, <2>3, <3>1, <3>2, <3>3, <3>8
    <3> QED BY <3>4, <3>6, <3>7, <3>8
  <2>4. UNCHANGED <<fds, hangup>>
    BY <1>7 DEF ProxyDgram
  <2>5. CASE \E s \in Find(c, id, None) : sess' = [sess EXCEPT ![s] = Queued(@)] /\ UNCHANGED <<nsess, jq>>
    BY <2>1, <2>4, <2>5
  <2>6. CASE Find(c, id, None) = {} /\ (GetProxy(id) = None \/ Room = {}) /\ UNCHANGED <<sess, nsess, jq>>
    BY <1>5, <2>4, <2>6
  <2>7. CASE /\ Find(c, id, None) = {} /\ GetProxy(id) # None
             /\ LET px == GetProxy(id) IN
                \E s \in Room :
                  /\ nsess' = nsess + 1
                  /\ \/ /\ proxies[px] = "http"
                        /\ sess' = [sess EXCEPT ![s] = New(c, px, None, "drop", "ready")]
                        /\ UNCHANGED jq
                     \/ /\ proxies[px] = "socks5"
                        /\ sess' = [sess EXCEPT ![s] = Queued(New(c, px, None, "socks5", "setup"))]
                        /\ jq' = Append(jq, s) /\ life = "running"
                     \/ /\ proxies[px] = "socks5"
                        /\ sess' = [sess EXCEPT ![s] = New(c, px, None, "socks5", "failed")]
                        /\ UNCHANGED jq
    <3> HIDE DEF New, Queued
    <3> QED BY <2>3, <2>4, <2>7
  <2> QED BY <1>7, <2>5, <2>6, <2>7 DEF ProxyDgram
<1> QED BY <1>1, <1>4, <1>5, <1>6, <1>7
\* Of the sessions handed back each is ready with both sockets or failed with none.
LEMMA SetupDoneStep ==
  ASSUME IInv, SetupDone
  PROVE  Books'
<1> USE DEF IInv
<1>1. PICK ok \in SUBSET {s \in Range(done) : <<s, 0>> \in fds} :
        /\ sess' = [s \in Sessions |->
             IF s \notin Range(done) THEN sess[s]
             ELSE [sess[s] EXCEPT !.state = IF s \in ok THEN "ready" ELSE "failed",
                                  !.nq = 0, !.late = FALSE]]
        /\ NotAssociated(Range(done) \ ok)
  BY DEF SetupDone
<1>2. /\ UNCHANGED <<nsess, hangup, evs, jq, ws, wpc, removed, life>>
      /\ pc = "woken" /\ pc' = "batch" /\ done' = <<>>
  BY DEF SetupDone, apiVars
<1>3. \A s \in Range(done) : s \in Live /\ s \in State("setup") /\ sess[s].kind = "socks5"
  BY DEF Books, HandedOver, Kinds, State
<1>4. Range(done') = {} /\ IsInjective(done')
  BY <1>2, RangeEmpty
<1>5. /\ \A s \in Sessions \ Range(done) : sess'[s] = sess[s]
      /\ \A s \in Range(done) :
           /\ sess'[s].st = "live" /\ sess'[s].cli = sess[s].cli /\ sess'[s].id = sess[s].id
           /\ sess'[s].flow = sess[s].flow /\ sess'[s].kind = "socks5"
           /\ sess'[s].state = IF s \in ok THEN "ready" ELSE "failed"
  <2>1. \A s \in Range(done) : s \in Sessions /\ sess[s] \in Record /\ sess[s].st = "live"
    BY <1>3, Records
  <2> QED BY <2>1, <1>1, <1>3 DEF Record
<1>6. Live' = Live /\ \A s \in Live : s \in Sessions
  BY <1>3, <1>5 DEF Live
<1>7. /\ State("setup")' = State("setup") \ Range(done)
      /\ State("ready")' = State("ready") \cup ok
  BY <1>3, <1>5, <1>6, ZenonT(30) DEF State
<1>8. Queues' /\ State("setup")' = HandedOver'
  BY <1>2, <1>4, <1>7 DEF Books, Queues, HandedOver
<1>9. Kinds'
  BY <1>5, <1>6 DEF Books, Kinds
<1>10. Events'
  <2>1. hangup' \subseteq State("ready")'
    BY <1>2, <1>7 DEF Books, Events
  <2>2. ASSUME NEW s \in Sessions, NEW i \in {0, 1}, <<s, i>> \in evs'
        PROVE  s \in State("ready")' \/ sess'[s].st = "grave"
    <3>1. s \in State("ready") \/ sess[s].st = "grave"
      BY <1>2, <2>2 DEF Books, Events
    <3>2. CASE s \in State("ready")
      BY <1>7, <3>2
    <3>3. CASE sess[s].st = "grave"
      <4>1. s \notin Range(done)
        BY <1>3, <3>3 DEF Live
      <4> QED BY <1>5, <3>3, <4>1
    <3> QED BY <3>1, <3>2, <3>3
  <2> QED BY <2>1, <2>2 DEF Events
<1>11. SocketsOwned'
  <2>1. fds' = {x \in fds : x[1] \notin Range(done) \ ok}
    BY <1>1 DEF NotAssociated
  <2>2. \A x \in fds' : x[1] \in Live'
    BY <2>1, <1>6 DEF Books, SocketsOwned
  <2>3. ASSUME NEW s \in Live, s \notin Range(done)
        PROVE  {i \in {0, 1} : <<s, i>> \in fds'} = {i \in {0, 1} : <<s, i>> \in fds}
    BY <2>1, <2>3
  <2>4. ASSUME NEW s \in ok
        PROVE  {i \in {0, 1} : <<s, i>> \in fds'} = {0, 1}
    <3>1. s \in Live /\ s \in Range(done) /\ <<s, 0>> \in fds /\ sess[s].kind = "socks5"
          /\ sess[s].state = "setup"
      BY <1>3, <2>4 DEF State
    <3>2. {i \in {0, 1} : <<s, i>> \in fds} \in {{}, {0, 1}}
      BY <3>1 DEF Books, SocketsOwned
    <3>3. 0 \in {i \in {0, 1} : <<s, i>> \in fds}
      BY <3>1
    <3>4. {i \in {0, 1} : <<s, i>> \in fds} = {0, 1}
      BY <3>2, <3>3
    <3> QED BY <2>1, <2>4, <3>4
  <2>5. ASSUME NEW s \in Range(done) \ ok
        PROVE  {i \in {0, 1} : <<s, i>> \in fds'} = {}
    BY <2>1, <2>5
  <2>6. ASSUME NEW s \in Live'
        PROVE  LET has == {i \in {0, 1} : <<s, i>> \in fds'} IN
               CASE sess'[s].kind = "direct" -> has = {0}
                 [] sess'[s].kind = "socks5" /\ sess'[s].state = "ready" -> has = {0, 1}
                 [] sess'[s].kind = "socks5" /\ s \in Range(done') -> has \in {{}, {0, 1}}
                 [] OTHER -> has = {}
    <3>1. CASE s \in ok
      BY <3>1, <1>5, <2>4
    <3>2. CASE s \in Range(done) \ ok
      BY <3>2, <1>4, <1>5, <2>5
    <3>3. CASE s \notin Range(done)
      <4>1. s \in Live /\ sess'[s] = sess[s]
        BY <3>3, <1>5, <1>6
      <4> QED BY <4>1, <3>3, <2>3, <1>4 DEF Books, SocketsOwned
    <3> QED BY <3>1, <3>2, <3>3
  <2> QED BY <2>2, <2>6 DEF SocketsOwned
<1>12. UniqueUnlessRemoved'
  <2>1. \A s \in Live : Key(s)' = Key(s)
    BY <1>5, <1>6 DEF Key
  <2> QED BY <2>1, <1>2, <1>6 DEF Books, UniqueUnlessRemoved, SessionsUnique
<1>13. Count' /\ Off'
  BY <1>2, <1>6 DEF Books, Count, Off
<1> QED BY <1>8, <1>9, <1>10, <1>11, <1>12, <1>13 DEF Books

\* The end of a batch frees the sessions destroyed in it, which no event names any more.
LEMMA BatchEndStep ==
  ASSUME IInv, BatchEnd
  PROVE  Books'
<1> USE DEF IInv
<1>1. /\ \A s \in Sessions : sess'[s] = IF sess[s].st = "grave" THEN Free ELSE sess[s]
      /\ evs' = {} /\ pc = "batch"
      /\ UNCHANGED <<nsess, fds, hangup, jq, ws, wpc, done, removed, life>>
  BY DEF BatchEnd, Exhumed, apiVars, jobVars
<1>2. Live' = Live /\ \A s \in Live : s \in Sessions /\ sess'[s] = sess[s]
  BY <1>1 DEF Live, Free
<1>3. State("setup")' = State("setup") /\ State("ready")' = State("ready")
      /\ HandedOver' = HandedOver
  BY <1>1, <1>2 DEF State, HandedOver
<1>4. Queues' /\ Kinds' /\ State("setup")' = HandedOver' /\ Count' /\ Off'
  BY <1>1, <1>2, <1>3 DEF Books, Queues, Kinds, Count, Off
<1>5. Events'
  BY <1>1, <1>3 DEF Books, Events
<1>6. SocketsOwned'
  BY <1>1, <1>2 DEF Books, SocketsOwned
<1>7. UniqueUnlessRemoved'
  BY <1>1, <1>2 DEF Books, UniqueUnlessRemoved, SessionsUnique, Key
<1> QED BY <1>4, <1>5, <1>6, <1>7 DEF Books

\* A worker takes the oldest job.
LEMMA TakeStep ==
  ASSUME IInv, Take
  PROVE  Books'
<1> USE DEF IInv
<1>1. /\ wpc = "wait" /\ jq # <<>> /\ life = "running" /\ ws' = Head(jq) /\ jq' = Tail(jq)
      /\ wpc' = "job"
      /\ UNCHANGED <<sess, nsess, fds, hangup, evs, done, removed, life>>
  BY DEF Take, apiVars, sessVars, threadVars
<1>2. /\ Head(jq) \in Sessions /\ Head(jq) \in Range(jq)
      /\ Range(jq') = Range(jq) \ {Head(jq)} /\ IsInjective(jq')
  BY <1>1, RangeTail DEF TypeOK, Books, Queues
<1>3. ws = None /\ Head(jq) # None /\ None \notin Sessions
  BY <1>1, <1>2, UdpAssumption DEF Books, Queues
<1>4. Live' = Live /\ State("setup")' = State("setup") /\ State("ready")' = State("ready")
  BY <1>1 DEF Live, State
<1>5. HandedOver' = HandedOver
  BY <1>1, <1>2, <1>3 DEF HandedOver
<1>6. Queues'
  BY <1>1, <1>2, <1>3 DEF Books, Queues
<1>7. Kinds' /\ Count' /\ Off' /\ SocketsOwned' /\ UniqueUnlessRemoved'
  BY <1>1, <1>4 DEF Books, Kinds, Count, Off, SocketsOwned, UniqueUnlessRemoved, SessionsUnique, Key
<1>8. Events'
  BY <1>1, <1>4 DEF Books, Events
<1> QED BY <1>4, <1>5, <1>6, <1>7, <1>8 DEF Books

\* The worker hands its session back, associated or not.
LEMMA JobRunStep ==
  ASSUME IInv, JobRun
  PROVE  Books'
<1> USE DEF IInv
<1>1. /\ wpc = "job" /\ wpc' = "wake" /\ ws' = None /\ done' = <<ws>> \o done
      /\ fds' \in {fds, fds \cup {<<ws, 0>>, <<ws, 1>>}}
      /\ UNCHANGED <<sess, nsess, hangup, evs, jq, removed, life>>
  BY DEF JobRun, apiVars, threadVars
<1>2. ws # None /\ ws \in Sessions /\ ws \notin Range(jq) /\ ws \notin Range(done)
  BY <1>1 DEF Books, Queues, TypeOK
<1>3. Range(done') = Range(done) \cup {ws} /\ IsInjective(done')
  BY <1>1, <1>2, RangeCons DEF TypeOK, Books, Queues
<1>4. Live' = Live /\ State("setup")' = State("setup") /\ State("ready")' = State("ready")
  BY <1>1 DEF Live, State
<1>5. HandedOver' = HandedOver
  BY <1>1, <1>2, <1>3 DEF HandedOver
<1>6. Queues'
  <2>1. Range(jq) \subseteq Sessions /\ Range(done) \subseteq Sessions
    BY RangeSubset DEF TypeOK
  <2> QED BY <2>1, <1>1, <1>2, <1>3, UdpAssumption DEF Books, Queues
<1>7. ws \in Live /\ sess[ws].state = "setup" /\ sess[ws].kind = "socks5"
  BY <1>2 DEF Books, HandedOver, State, Kinds
<1>8. SocketsOwned'
  <2>1. {i \in {0, 1} : <<ws, i>> \in fds} = {}
    BY <1>2, <1>7 DEF Books, SocketsOwned
  <2>2. {i \in {0, 1} : <<ws, i>> \in fds'} \in {{}, {0, 1}}
    <3>1. CASE fds' = fds
      BY <3>1, <2>1
    <3>2. CASE fds' = fds \cup {<<ws, 0>>, <<ws, 1>>}
      <4>1. {i \in {0, 1} : <<ws, i>> \in fds'} = {0, 1}
        BY <3>2
      <4> QED BY <4>1
    <3> QED BY <1>1, <3>1, <3>2
  <2>3. \A s \in Live \ {ws} : {i \in {0, 1} : <<s, i>> \in fds'} = {i \in {0, 1} : <<s, i>> \in fds}
    BY <1>1
  <2>4. \A x \in fds' : x[1] \in Live'
    BY <1>1, <1>4, <1>7 DEF Books, SocketsOwned
  <2>5. ASSUME NEW s \in Live'
        PROVE  LET has == {i \in {0, 1} : <<s, i>> \in fds'} IN
               CASE sess'[s].kind = "direct" -> has = {0}
                 [] sess'[s].kind = "socks5" /\ sess'[s].state = "ready" -> has = {0, 1}
                 [] sess'[s].kind = "socks5" /\ s \in Range(done') -> has \in {{}, {0, 1}}
                 [] OTHER -> has = {}
    <3>1. CASE s = ws
      BY <3>1, <2>2, <1>1, <1>3, <1>7
    <3>2. CASE s # ws
      <4>1. s \in Live /\ sess'[s] = sess[s] /\ (s \in Range(done') <=> s \in Range(done))
        BY <3>2, <1>1, <1>3, <1>4
      <4> QED BY <4>1, <3>2, <2>3 DEF Books, SocketsOwned
    <3> QED BY <3>1, <3>2
  <2> QED BY <2>4, <2>5 DEF SocketsOwned
<1>9. Kinds' /\ Count' /\ UniqueUnlessRemoved'
  BY <1>1, <1>4 DEF Books, Kinds, Count, UniqueUnlessRemoved, SessionsUnique, Key
<1>10. Events'
  BY <1>1, <1>4 DEF Books, Events
<1>11. Off'
  BY <1>1 DEF Books, Off
<1> QED BY <1>4, <1>5, <1>6, <1>8, <1>9, <1>10, <1>11 DEF Books

\* The control connection of a ready session is closed by the proxy.
LEMMA HangupStep ==
  ASSUME Books, NEW s \in Sessions, Hangup(s)
  PROVE  Books'
<1>1. /\ s \in State("ready") /\ hangup' = hangup \cup {s}
      /\ UNCHANGED <<sess, nsess, fds, evs, pc, jq, ws, wpc, done, removed, life>>
  BY DEF Hangup, apiVars, sessVars, threadVars, jobVars
<1>2. Live' = Live /\ State("setup")' = State("setup") /\ State("ready")' = State("ready")
      /\ HandedOver' = HandedOver
  BY <1>1 DEF Live, State, HandedOver
<1>3. Events'
  BY <1>1, <1>2 DEF Books, Events
<1> QED BY <1>1, <1>2, <1>3 DEF Books, Queues, Kinds, Count, Off, SocketsOwned,
                                UniqueUnlessRemoved, SessionsUnique, Key

\* The relay starts on what a stop, or nothing, has left.
LEMMA StartStep ==
  ASSUME Books, Start
  PROVE  Books'
<1>1. /\ life = "off" /\ life' = "running"
      /\ evs' = {} /\ jq' = <<>> /\ wpc' = "wait" /\ ws' = None /\ done' = <<>>
      /\ UNCHANGED <<sess, nsess, fds, hangup, removed>>
  BY DEF Start, Idle, apiVars
<1>2. Live = {} /\ Live' = {} /\ State("setup")' = {} /\ State("ready")' = {} /\ State("ready") = {}
  BY <1>1 DEF Books, Off, Live, State
<1>3. Range(jq') = {} /\ Range(done') = {} /\ IsInjective(jq') /\ IsInjective(done')
  BY <1>1, RangeEmpty
<1>4. Queues' /\ State("setup")' = HandedOver'
  BY <1>1, <1>2, <1>3 DEF Queues, HandedOver
<1>5. Kinds' /\ Count' /\ Off' /\ SocketsOwned' /\ UniqueUnlessRemoved'
  BY <1>1, <1>2 DEF Books, Kinds, Count, Off, SocketsOwned, UniqueUnlessRemoved, SessionsUnique, Key
<1>6. Events'
  BY <1>1, <1>2 DEF Books, Events
<1> QED BY <1>4, <1>5, <1>6 DEF Books

\* Teardown leaves no session and no socket, as each socket is a live session's.
LEMMA TeardownStep ==
  ASSUME IInv, Teardown
  PROVE  Books'
<1> USE DEF IInv
<1>1. /\ pc = "exited" /\ wpc = "exited" /\ life' = "off"
      /\ (\A s \in Sessions : sess'[s] = Free) /\ nsess' = 0 /\ hangup' = {}
      /\ fds' = {x \in fds : x[1] \notin Live}
      /\ evs' = {} /\ jq' = <<>> /\ done' = <<>>
      /\ UNCHANGED <<pc, wpc, ws, removed>>
  BY DEF Teardown, LeftOpen, apiVars
<1>2. Live' = {} /\ State("setup")' = {} /\ State("ready")' = {}
  BY <1>1 DEF Live, State, Free
<1>3. fds' = {}
  BY <1>1 DEF Books, SocketsOwned
<1>4. Range(jq') = {} /\ Range(done') = {} /\ IsInjective(jq') /\ IsInjective(done')
  BY <1>1, RangeEmpty
<1>5. ws = None
  BY <1>1 DEF Books, Queues
<1>6. Queues' /\ State("setup")' = HandedOver'
  BY <1>1, <1>2, <1>4, <1>5 DEF Queues, HandedOver
<1>7. Count'
  BY <1>1, <1>2, FS_EmptySet, UdpAssumption DEF Count
<1>8. Kinds' /\ SocketsOwned' /\ UniqueUnlessRemoved'
  BY <1>2, <1>3 DEF Kinds, SocketsOwned, UniqueUnlessRemoved, SessionsUnique
<1>9. Off'
  BY <1>1, <1>3 DEF Off, Free
<1>10. Events'
  BY <1>1, <1>2 DEF Events
<1> QED BY <1>6, <1>7, <1>8, <1>9, <1>10 DEF Books

-----------------------------------------------------------------------------
(* The theorems *)

\* Only a datagram decides, and a deletion voids what it finds.
LEMMA DecidedStep ==
  ASSUME IInv, [Next]_vars, ~\E c \in Clients, f \in Flows : Dgram(c, f)
  PROVE  Decided'
<1> USE DEF IInv, apiVars, sessVars, threadVars, jobVars
<1>1. ASSUME NEW p \in Proxies, NEW t \in {"none", "socks5", "http"}, SetProxy(p, t) PROVE Decided'
  BY <1>1 DEF SetProxy, Decided, TypeOK
<1>2. CASE Start \/ Teardown
  <2>1. /\ \A cf \in Clients \X Flows : dc'[cf] = None
        /\ UNCHANGED <<proxies, removed>>
    BY <1>2 DEF Start, Idle, Teardown
  <2> QED BY <2>1, UdpAssumption DEF Decided
<1>3. CASE UNCHANGED <<dc, proxies, removed>>
  BY <1>3 DEF Decided
<1>4. CASE \/ Poll \/ Sweep \/ WakeRead \/ SetupDone \/ StopEvent \/ BatchEnd
           \/ \E s \in Sessions : CtlEvent(s) \/ Hangup(s) \/ Late(s)
           \/ Worker \/ Tick \/ Stop
           \/ \E c \in Clients, f \in Flows : Send(c, f)
  BY <1>3, <1>4 DEF Poll, Sweep, WakeRead, SetupDone, StopEvent, BatchEnd, CtlEvent, Hangup, Late,
                    Worker, Take, JobRun, JobWake, WorkerExit, Tick, Stop, Send
<1>5. CASE UNCHANGED vars
  BY <1>3, <1>5 DEF vars
<1> QED BY <1>1, <1>2, <1>4, <1>5 DEF Next, Thread, Api

LEMMA BooksStep ==
  ASSUME IInv, [Next]_vars
  PROVE  Books'
<1> USE DEF IInv, apiVars, sessVars, threadVars, jobVars
<1>1. ASSUME NEW c \in Clients, NEW f \in Flows, Dgram(c, f) PROVE Books'
  BY <1>1, DgramStep
<1>2. ASSUME NEW s \in Sessions, CtlEvent(s) PROVE Books'
  <2>1. /\ pc = "batch" /\ <<s, 1>> \in evs /\ evs' \subseteq evs /\ life # "off"
        /\ UNCHANGED <<jq, ws, wpc, done, removed, life>>
    BY <1>2 DEF CtlEvent, Handled, Books, Off
  <2>2. s \in State("ready") \/ sess[s].st = "grave"
    BY <2>1 DEF Books, Events
  <2>3. CASE s \in Live
    <3>1. {s} \in SUBSET Live /\ {s} \cap State("setup") = {} /\ Destroy({s})
      BY <1>2, <2>2, <2>3 DEF CtlEvent, State, Live
    <3> QED BY <2>1, <3>1, DestroyStep
  <2>4. CASE s \notin Live
    <3>1. UNCHANGED <<sess, nsess, fds, hangup>>
      BY <1>2, <2>4 DEF CtlEvent
    <3> QED BY <2>1, <3>1, QuietStep
  <2> QED BY <2>3, <2>4
<1>3. CASE Sweep
  <2>1. PICK idle \in SUBSET Sweepable : Destroy(idle \cup {s \in State("failed") : sess[s].late})
    BY <1>3 DEF Sweep
  <2> DEFINE ss == idle \cup {s \in State("failed") : sess[s].late}
  <2>2. ss \in SUBSET Live /\ ss \cap State("setup") = {} /\ Destroy(ss)
    BY <2>1 DEF Sweepable, State
  <2>3. /\ evs' \subseteq evs /\ life # "off"
        /\ UNCHANGED <<jq, ws, wpc, done, removed, life>>
    BY <1>3 DEF Sweep, Handled, Books, Off
  <2> HIDE DEF ss
  <2> QED BY <2>2, <2>3, DestroyStep
<1>4. CASE SetupDone \/ BatchEnd \/ Take \/ JobRun \/ Start \/ Teardown \/ \E s \in Sessions : Hangup(s)
  BY <1>4, SetupDoneStep, BatchEndStep, TakeStep, JobRunStep, StartStep, TeardownStep, HangupStep
<1>5. ASSUME NEW s \in Sessions, Late(s) PROVE Books'
  <2>1. s \in Live /\ sess[s] \in Record /\ sess[s].st = "live" /\ life # "off"
    BY <1>5, Records DEF Late, State, Books, Off, Live
  <2> DEFINE r == [sess[s] EXCEPT !.late = TRUE]
  <2>2. /\ r \in Record /\ r.st = "live" /\ r.cli = sess[s].cli /\ r.id = sess[s].id
        /\ r.flow = sess[s].flow /\ r.kind = sess[s].kind /\ r.state = sess[s].state
    BY <2>1 DEF Record
  <2>3. /\ sess' = [sess EXCEPT ![s] = r]
        /\ UNCHANGED <<nsess, fds, hangup, jq, ws, wpc, done, removed, life, evs>>
    BY <1>5 DEF Late
  <2> HIDE DEF r
  <2> QED BY <2>1, <2>2, <2>3, TouchStep
<1>6. CASE Poll
  <2>1. /\ UNCHANGED <<sess, nsess, fds, hangup, jq, ws, wpc, done, removed, life>> /\ life # "off"
    BY <1>6 DEF Poll, Books, Off
  <2>2. ASSUME NEW s \in Sessions, NEW i \in {0, 1}, <<s, i>> \in evs' PROVE s \in hangup
    <3>1. <<s, i>> \in rx \cup {x \in {<<"wake">>} : wake} \cup {x \in {<<"timer">>} : tick}
                         \cup {x \in {<<"stop">>} : life = "stopping"} \cup {<<t, 1>> : t \in hangup}
      BY <1>6, <2>2 DEF Poll
    <3>2. <<s, i>> \notin rx
      BY EventsApart DEF TypeOK
    <3>3. <<s, i>> \notin {x \in {<<"wake">>} : wake} \cup {x \in {<<"timer">>} : tick}
                           \cup {x \in {<<"stop">>} : life = "stopping"}
      BY EventsApart
    <3>4. <<s, i>> \in {<<t, 1>> : t \in hangup}
      BY <3>1, <3>2, <3>3
    <3>5. PICK t \in hangup : <<s, i>> = <<t, 1>>
      BY <3>4
    <3> QED BY <3>5
  <2> QED BY <2>1, <2>2, QuietStep
<1>7. CASE \/ WakeRead \/ StopEvent \/ JobWake \/ WorkerExit \/ Tick \/ Stop
           \/ \E c \in Clients, f \in Flows : Send(c, f)
  <2>1. /\ UNCHANGED <<sess, nsess, fds, hangup, jq, ws, done, removed>>
        /\ wpc' = "job" <=> wpc = "job"
        /\ life' # "off" /\ evs' \subseteq evs
    BY <1>7 DEF WakeRead, StopEvent, Handled, JobWake, WorkerExit, Tick, Stop, Send, Books, Off
  <2> QED BY <2>1, QuietStep
<1>8. ASSUME NEW p \in Proxies, NEW t \in {"none", "socks5", "http"}, SetProxy(p, t) PROVE Books'
  <2>1. /\ UNCHANGED <<sess, nsess, fds, hangup, evs, pc, jq, ws, wpc, done, life>>
        /\ removed' = {} => removed = {}
    BY <1>8 DEF SetProxy
  <2>2. Live' = Live /\ State("setup")' = State("setup") /\ State("ready")' = State("ready")
        /\ HandedOver' = HandedOver
    BY <2>1 DEF Live, State, HandedOver
  <2>3. Events'
    BY <2>1, <2>2 DEF Books, Events
  <2> QED BY <2>1, <2>2, <2>3 DEF Books, Queues, Kinds, Count, Off, SocketsOwned,
                                  UniqueUnlessRemoved, SessionsUnique, Key
<1>9. CASE UNCHANGED vars
  <2>1. UNCHANGED <<sess, nsess, fds, hangup, evs, pc, jq, ws, wpc, done, life, removed>>
    BY <1>9 DEF vars
  <2>2. Live' = Live /\ State("setup")' = State("setup") /\ State("ready")' = State("ready")
        /\ HandedOver' = HandedOver
    BY <2>1 DEF Live, State, HandedOver
  <2>3. Events'
    BY <2>1, <2>2 DEF Books, Events
  <2> QED BY <2>1, <2>2, <2>3 DEF Books, Queues, Kinds, Count, Off, SocketsOwned,
                                  UniqueUnlessRemoved, SessionsUnique, Key
<1> QED BY <1>1, <1>2, <1>3, <1>4, <1>5, <1>6, <1>7, <1>8, <1>9 DEF Next, Thread, Worker, Api

LEMMA InvInit == Init => IInv
<1> SUFFICES ASSUME Init PROVE IInv
  OBVIOUS
<1> USE UdpAssumption DEF Init
<1>1. TypeOK
  <2>1. /\ proxies \in [Proxies -> {"none", "socks5", "http"}]
        /\ removed \subseteq Proxies /\ edits \in 0 .. MaxEdits
    OBVIOUS
  <2>2. dc \in [Clients \X Flows -> Proxies \cup {Direct, None}]
    OBVIOUS
  <2>3. jq \in Seq(Sessions) /\ done \in Seq(Sessions)
    BY EmptySeq
  <2>4. rx \subseteq Clients \X Flows /\ nsess \in Int /\ sess \in [Sessions -> {Free}]
    OBVIOUS
  <2>5. fds \subseteq Sessions \X {0, 1} /\ hangup \subseteq Sessions
    OBVIOUS
  <2>6. /\ pc \in {"poll", "batch", "woken", "exited"} /\ tick \in BOOLEAN
        /\ evs \subseteq {<<"wake">>, <<"timer">>, <<"stop">>} \cup (Clients \X Flows) \cup (Sessions \X {0, 1})
        /\ wake \in BOOLEAN /\ ws \in Sessions \cup {None}
        /\ wpc \in {"wait", "job", "wake", "exited"} /\ life \in {"off", "running", "stopping"}
    OBVIOUS
  <2> HIDE DEF Init
  <2>7. sess \in [Sessions -> {Free} \cup Record]
    BY <2>4
  <2> QED BY <2>1, <2>2, <2>3, <2>4, <2>5, <2>6, <2>7 DEF TypeOK, Record
<1>2. Live = {} /\ State("setup") = {} /\ State("ready") = {}
  BY DEF Live, State, Free
<1>3. Range(jq) = {} /\ Range(done) = {} /\ IsInjective(jq) /\ IsInjective(done)
  BY RangeEmpty
<1>4. Queues /\ State("setup") = HandedOver
  BY <1>2, <1>3 DEF Queues, HandedOver
<1>5. Count
  BY <1>2, FS_EmptySet DEF Count
<1>6. Kinds /\ SocketsOwned /\ UniqueUnlessRemoved
  BY <1>2 DEF Kinds, SocketsOwned, UniqueUnlessRemoved, SessionsUnique
<1>7. Events /\ Off
  BY <1>2 DEF Events, Off, Free
<1>8. Decided
  BY DEF Decided
<1> QED BY <1>1, <1>2, <1>4, <1>5, <1>6, <1>7, <1>8 DEF IInv, Books

LEMMA InvStep == IInv /\ [Next]_vars => IInv'
<1> SUFFICES ASSUME IInv, [Next]_vars PROVE IInv'
  OBVIOUS
<1>1. TypeOK'
  BY TypeStep DEF IInv, Books
<1>2. Books'
  BY BooksStep
<1>3. Decided'
  BY DecidedStep, DgramStep
<1> QED BY <1>1, <1>2, <1>3 DEF IInv

\* The inductive invariant: who holds a session, which sockets it has and what an
\* event may still name, all three at once.
THEOREM UdpInv == Spec => []IInv
BY InvInit, InvStep, PTL DEF Spec

\* A session is in setup exactly while a worker, the job queue or the list handed back
\* holds it, and no event of a batch refers to free memory.
THEOREM SessionsKept == Spec => []KeptWhileUsed
<1>1. IInv => KeptWhileUsed
  <2> SUFFICES ASSUME IInv, NEW s \in Sessions, NEW i \in {0, 1}, <<s, i>> \in evs
               PROVE  sess[s].st # "free"
    BY DEF KeptWhileUsed, IInv, Books
  <2> QED BY DEF IInv, Books, Events, State, Live
<1> QED BY <1>1, UdpInv, PTL

\* No socket leaks, and every session has those of its kind and state.
THEOREM SessionSocketsOwned == Spec => []SocketsOwned
<1>1. IInv => SocketsOwned
  BY DEF IInv, Books
<1> QED BY <1>1, UdpInv, PTL

\* R.nsess is exact and within MAX_UDP_SESS, and a stop leaves nothing.
THEOREM SessionsCounted == Spec => []SessionsExact
<1>1. IInv => SessionsExact
  BY DEF IInv, Books, Count, Off, SessionsExact
<1> QED BY <1>1, UdpInv, PTL

\* As long as no proxy was deleted there is one session per client socket and proxy,
\* or per client socket and flow.
THEOREM OneSessionEach == Spec => []UniqueUnlessRemoved
<1>1. IInv => UniqueUnlessRemoved
  BY DEF IInv, Books
<1> QED BY <1>1, UdpInv, PTL
=============================================================================
