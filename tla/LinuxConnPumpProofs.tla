------------------------ MODULE LinuxConnPumpProofs ------------------------
(* Theorems about LinuxConnPump: bytes are handed on in order, once and to their own    *)
(* connection, no tapped message passes before it was observed, and the thread          *)
(* implements ByteStreams.                                                              *)
EXTENDS LinuxConnPump, SequenceTheorems, WellFoundedInduction, TLAPS

------------------------------------------------------------------------------
(* The inductive invariant.                                                     *)

Unit == Conns \X Ends \X Nat
Mark == {"raw", "mid", "last", "zero"}
Conn == [st : {"queued", "open", "closed"}, dns : BOOLEAN, eof : SUBSET Ends,
         shut : SUBSET Ends, doff : BOOLEAN, pend : [Ends -> Seq(Unit)], dbuf : Seq(Unit),
         mask : [Ends -> SUBSET {"in", "out"}], units : [Ends -> Nat], fins : SUBSET Ends]

\* Every variable has its type.
Types ==
  /\ sent \in [Conns -> [Ends -> Seq(Mark)]]
  /\ fin \in [Conns -> SUBSET Ends] /\ reset \in [Conns -> SUBSET Ends]
  /\ room \in [Conns -> [Ends -> 0 .. Cap]]
  /\ arrived \in [Conns -> [Ends -> Seq(Unit)]]
  /\ read \in [Conns -> [Ends -> Nat]]
  /\ conn \in [Conns -> Conn]
  /\ observed \in [Conns -> SUBSET Nat]
  /\ pipe \in Seq(Unit) /\ nosplice \in BOOLEAN
  /\ pc \in {"batch", "pump", "splice"} /\ cur \in Conns \cup {None}
  /\ d \in Ends /\ iter \in 0 .. MaxIter /\ prog \in BOOLEAN
  /\ evs \subseteq Conns \X {0, 1, 2}

\* Where the thread is: it serves an open connection, the pipe is empty but between the
\* two splices of an untapped one that has nothing else in hand, and of the events of the
\* batch those of a hand-over, and only they, are of connections not yet adopted.
Placed ==
  /\ pc # "batch" => cur \in Conns /\ conn[cur].st = "open"
  /\ pc # "splice" => pipe = <<>>
  /\ pc = "splice" => /\ ~conn[cur].dns /\ conn[cur].pend[d] = <<>>
                      /\ d \notin conn[cur].eof
  /\ \A c \in Conns, i \in {0, 1, 2} :
       <<c, i>> \in evs => (conn[c].st = "queued" <=> i = 2)

\* What the pipe holds of direction e of connection c.
InPipe(c, e) == IF pc = "splice" /\ cur = c /\ d = e THEN pipe ELSE <<>>

\* The parts of the invariant are about one connection, and about values: k is its struct,
\* s its units written, f its FINs, r what was read, a what arrived, o what was observed.

\* What was read was written; only a tapped stream is framed; a zero length stands where
\* a message begins.
Framed(k, s, r) ==
  /\ \A e \in Ends : s[e] \in Seq(IF k.dns /\ e = 1 THEN {"mid", "last", "zero"} ELSE {"raw"})
  /\ \A e \in Ends : r[e] <= Len(s[e])
  /\ \A j \in 1 .. Len(s[1]) : s[1][j] = "zero" => j = 1 \/ s[1][j - 1] = "last"

\* dbuf is bounded, and empty of an untapped stream and of one that has ended.
Buffered(k) == Len(k.dbuf) <= DbufMax /\ (~k.dns \/ 1 \in k.eof => k.dbuf = <<>>)

\* A stream seen to end was finished and is read to its end; one shut is all sent.
Ended(k, s, f, r) ==
  /\ \A e \in k.eof : e \in f /\ r[e] = Len(s[e])
  /\ \A e \in k.shut : e \in k.eof /\ k.pend[e] = <<>>

\* What arrived, then the pipe p, the pending buffer and dbuf: consecutive stretches of
\* the stream, up to what was read.
Stretches(c, e, k, n, a, p) ==
  \E x, y, z \in Nat :
    /\ x <= y /\ y <= z /\ z <= n
    /\ a = Stream(c, e, 0, x)
    /\ k.st # "closed" =>
         /\ p = Stream(c, e, x, y) /\ k.pend[e] = Stream(c, e, y, z)
         /\ (IF e = 1 THEN k.dbuf ELSE <<>>) = Stream(c, e, z, n)

\* The message that unit i of the tapped stream s is in was observed, or the end of the
\* stream has cut it off.
Covered(s, f, o, i) ==
  \/ 1 \in f /\ \A j \in i .. Len(s) : s[j] # "last"
  \/ \E m \in i .. Len(s) : s[m] = "last" /\ m \in o /\ \A j \in i .. (m - 1) : s[j] # "last"

\* Units of a tapped stream that have left dbuf.
Gone(k, a) == Len(a[0]) + Len(k.pend[1])

\* Every unit that has left dbuf was covered, as long as the framing held; and the tap
\* gave up on the framing for a zero length that has left dbuf.
Observed(k, s, f, a, o) ==
  k.dns =>
    /\ \A i \in 1 .. Gone(k, a) : (\A j \in 1 .. i : s[1][j] # "zero") => Covered(s[1], f, o, i)
    /\ k.doff /\ k.st # "closed" => \E j \in 1 .. Gone(k, a) : s[1][j] = "zero"

Sound(c, k, s, f, r, a, o, p) ==
  /\ Framed(k, s, r) /\ Buffered(k) /\ Ended(k, s, f, r) /\ Observed(k, s, f, a, o)
  /\ \A e \in Ends : Stretches(c, e, k, r[e], a[1 - e], p[e])

\* A connection's part of the invariant.
SoundAt(c) == Sound(c, conn[c], sent[c], fin[c], read[c], arrived[c], observed[c],
                    [e \in Ends |-> InPipe(c, e)])

PumpInv == Types /\ Placed /\ \A c \in Conns : SoundAt(c)

------------------------------------------------------------------------------
(* Stretches of a stream, and least and greatest positions.                     *)

\* A stretch is a sequence of the units it names.
LEMMA StreamIs ==
  ASSUME NEW c \in Conns, NEW e \in Ends, NEW a \in Nat, NEW b \in Nat, a <= b
  PROVE  /\ Stream(c, e, a, b) \in Seq(Unit)
         /\ Len(Stream(c, e, a, b)) = b - a
         /\ \A i \in 1 .. b - a : Stream(c, e, a, b)[i] = <<c, e, a + i>>
  <1>1. b - a \in Nat
    OBVIOUS
  <1>2. \A i \in 1 .. b - a : <<c, e, a + i>> \in Unit
    BY <1>1 DEF Unit
  <1>3. Stream(c, e, a, b) \in Seq(Unit)
    BY <1>1, <1>2, IsASeq DEF Stream
  <1>4. DOMAIN Stream(c, e, a, b) = 1 .. b - a
    BY DEF Stream
  <1>5. Len(Stream(c, e, a, b)) = b - a
    BY <1>1, <1>3, <1>4
  <1> QED
    BY <1>3, <1>5 DEF Stream

\* A stretch from the start is as long as where it ends.
LEMMA StreamStart ==
  ASSUME NEW c \in Conns, NEW e \in Ends, NEW x \in Nat
  PROVE  Stream(c, e, 0, x) \in Seq(Unit) /\ Len(Stream(c, e, 0, x)) = x
  <1>1. 0 \in Nat /\ 0 <= x
    OBVIOUS
  <1>2. Len(Stream(c, e, 0, x)) = x - 0 /\ Stream(c, e, 0, x) \in Seq(Unit)
    BY <1>1, StreamIs
  <1>3. x - 0 = x
    OBVIOUS
  <1> QED
    BY <1>2, <1>3

\* A stretch is empty when it ends where it begins.
LEMMA StreamEmpty ==
  ASSUME NEW c \in Conns, NEW e \in Ends, NEW a \in Nat, NEW b \in Nat, a <= b
  PROVE  Stream(c, e, a, b) = <<>> <=> a = b
  <1>1. PICK s : s = Stream(c, e, a, b)
    OBVIOUS
  <1>2. s \in Seq(Unit) /\ Len(s) = b - a
    BY <1>1, StreamIs
  <1>3. s = <<>> <=> Len(s) = 0
    BY <1>2, EmptySeq
  <1> QED
    BY <1>1, <1>2, <1>3

\* Two stretches that meet are one.
LEMMA StreamJoins ==
  ASSUME NEW c \in Conns, NEW e \in Ends, NEW a \in Nat, NEW b \in Nat, NEW z \in Nat,
         a <= b, b <= z
  PROVE  Stream(c, e, a, b) \o Stream(c, e, b, z) = Stream(c, e, a, z)
  <1>1. PICK s, t, u : s = Stream(c, e, a, b) /\ t = Stream(c, e, b, z)
                       /\ u = Stream(c, e, a, z)
    OBVIOUS
  <1>2. s \in Seq(Unit) /\ Len(s) = b - a /\ \A i \in 1 .. b - a : s[i] = <<c, e, a + i>>
    BY <1>1, StreamIs
  <1>3. t \in Seq(Unit) /\ Len(t) = z - b /\ \A i \in 1 .. z - b : t[i] = <<c, e, b + i>>
    BY <1>1, StreamIs
  <1>4. u \in Seq(Unit) /\ Len(u) = z - a /\ \A i \in 1 .. z - a : u[i] = <<c, e, a + i>>
    <2>1. a <= z
      OBVIOUS
    <2> QED
      BY <1>1, <2>1, StreamIs
  <1>5. /\ s \o t \in Seq(Unit) /\ Len(s \o t) = Len(s) + Len(t)
        /\ \A i \in 1 .. Len(s) + Len(t) :
             (s \o t)[i] = IF i <= Len(s) THEN s[i] ELSE t[i - Len(s)]
    BY <1>2, <1>3, ConcatProperties
  <1>6. PICK w : w = s \o t
    OBVIOUS
  <1>7. Len(w) = Len(u)
    <2>1. Len(w) = (b - a) + (z - b)
      BY <1>2, <1>3, <1>5, <1>6
    <2>2. (b - a) + (z - b) = z - a
      OBVIOUS
    <2> QED
      BY <2>1, <2>2, <1>4
  <1>8. ASSUME NEW i \in 1 .. Len(w) PROVE w[i] = u[i]
    <2>1. i \in 1 .. z - a
      BY <1>4, <1>7
    <2>2. CASE i <= Len(s)
      <3>1. i \in 1 .. b - a
        BY <2>1, <2>2, <1>2
      <3> QED
        BY <1>2, <1>3, <1>4, <1>5, <1>6, <2>1, <2>2, <3>1
    <2>3. CASE ~(i <= Len(s))
      <3>1. PICK j : j = i - Len(s)
        OBVIOUS
      <3>2. j \in 1 .. z - b /\ b + j = a + i
        BY <3>1, <2>1, <2>3, <1>2
      <3>3. w[i] = t[j]
        BY <1>2, <1>3, <1>5, <1>6, <2>1, <2>3, <3>1
      <3> QED
        BY <1>3, <1>4, <2>1, <3>2, <3>3
    <2> QED
      BY <2>2, <2>3
  <1>9. w \in Seq(Unit)
    BY <1>5, <1>6
  <1>10. w = u
    BY <1>4, <1>7, <1>8, <1>9, SeqEqual
  <1> QED
    BY <1>1, <1>6, <1>10

\* What has arrived and the stretch that follows it.
LEMMA StreamGoesOn ==
  ASSUME NEW c \in Conns, NEW e \in Ends, NEW x \in Nat, NEW z \in Nat, x <= z
  PROVE  Stream(c, e, 0, x) \o Stream(c, e, x, z) = Stream(c, e, 0, z)
  <1>1. PICK o \in Nat : o = 0
    OBVIOUS
  <1>2. o <= x
    BY <1>1
  <1>3. Stream(c, e, o, x) \o Stream(c, e, x, z) = Stream(c, e, o, z)
    BY <1>2, StreamJoins
  <1> QED
    BY <1>1, <1>3

\* A stretch cut in two.
LEMMA StreamCuts ==
  ASSUME NEW c \in Conns, NEW e \in Ends, NEW a \in Nat, NEW b \in Nat, a <= b,
         NEW t \in 0 .. b - a
  PROVE  /\ SubSeq(Stream(c, e, a, b), 1, t) = Stream(c, e, a, a + t)
         /\ SubSeq(Stream(c, e, a, b), t + 1, b - a) = Stream(c, e, a + t, b)
  <1>1. PICK s, u, v : s = Stream(c, e, a, b) /\ u = Stream(c, e, a, a + t)
                       /\ v = Stream(c, e, a + t, b)
    OBVIOUS
  <1>2. s \in Seq(Unit) /\ Len(s) = b - a /\ \A i \in 1 .. b - a : s[i] = <<c, e, a + i>>
    BY <1>1, StreamIs
  <1>3. u \in Seq(Unit) /\ Len(u) = t /\ \A i \in 1 .. t : u[i] = <<c, e, a + i>>
    <2>1. PICK q : q = a + t
      OBVIOUS
    <2>2. q \in Nat /\ a <= q /\ q - a = t
      BY <2>1
    <2>3. u = Stream(c, e, a, q)
      BY <1>1, <2>1
    <2>4. /\ u \in Seq(Unit) /\ Len(u) = q - a
          /\ \A i \in 1 .. q - a : u[i] = <<c, e, a + i>>
      BY <2>2, <2>3, StreamIs
    <2> QED
      BY <2>2, <2>4
  <1>4. /\ v \in Seq(Unit) /\ Len(v) = b - (a + t)
        /\ \A i \in 1 .. b - (a + t) : v[i] = <<c, e, (a + t) + i>>
    <2>1. PICK q : q = a + t
      OBVIOUS
    <2>2. q \in Nat /\ q <= b
      BY <2>1
    <2>3. v = Stream(c, e, q, b)
      BY <1>1, <2>1
    <2>4. /\ v \in Seq(Unit) /\ Len(v) = b - q
          /\ \A i \in 1 .. b - q : v[i] = <<c, e, q + i>>
      BY <2>2, <2>3, StreamIs
    <2> QED
      BY <2>1, <2>4
  <1>5. \A i \in 1 .. Len(s) : s[i] \in Unit
    BY <1>2, ElementOfSeq
  <1>6. /\ SubSeq(s, 1, t) \in Seq(Unit) /\ Len(SubSeq(s, 1, t)) = t
        /\ \A i \in 1 .. t : SubSeq(s, 1, t)[i] = s[i]
    <2>1. \A i \in 1 .. t : s[i] \in Unit
      BY <1>2, <1>5
    <2>2. /\ SubSeq(s, 1, t) \in Seq(Unit)
          /\ Len(SubSeq(s, 1, t)) = IF 1 <= t THEN t - 1 + 1 ELSE 0
          /\ \A i \in 1 .. t - 1 + 1 : SubSeq(s, 1, t)[i] = s[1 + i - 1]
      BY <2>1, SubSeqProperties
    <2> QED
      BY <2>2
  <1>7. /\ SubSeq(s, t + 1, b - a) \in Seq(Unit)
        /\ Len(SubSeq(s, t + 1, b - a)) = b - (a + t)
        /\ \A i \in 1 .. b - (a + t) : SubSeq(s, t + 1, b - a)[i] = s[t + i]
    <2>1. \A i \in t + 1 .. b - a : s[i] \in Unit
      BY <1>2, <1>5
    <2>2. /\ SubSeq(s, t + 1, b - a) \in Seq(Unit)
          /\ Len(SubSeq(s, t + 1, b - a)) = IF t + 1 <= b - a THEN (b - a) - (t + 1) + 1 ELSE 0
          /\ \A i \in 1 .. (b - a) - (t + 1) + 1 :
               SubSeq(s, t + 1, b - a)[i] = s[(t + 1) + i - 1]
      BY <2>1, SubSeqProperties
    <2>3. (b - a) - (t + 1) + 1 = b - (a + t)
      OBVIOUS
    <2>4. \A i \in Int : (t + 1) + i - 1 = t + i
      OBVIOUS
    <2> QED
      BY <2>2, <2>3, <2>4
  <1>8. SubSeq(s, 1, t) = u
    <2>0. \A i \in 1 .. t : i \in 1 .. b - a
      OBVIOUS
    <2>1. \A i \in 1 .. t : SubSeq(s, 1, t)[i] = u[i]
      BY <2>0, <1>2, <1>3, <1>6
    <2> QED
      BY <1>3, <1>6, <2>1, SeqEqual
  <1>9. SubSeq(s, t + 1, b - a) = v
    <2>1. ASSUME NEW i \in 1 .. b - (a + t) PROVE SubSeq(s, t + 1, b - a)[i] = v[i]
      <3>1. PICK j : j = t + i
        OBVIOUS
      <3>2. j \in 1 .. b - a /\ a + j = (a + t) + i
        BY <3>1
      <3> QED
        BY <1>2, <1>4, <1>7, <3>1, <3>2
    <2> QED
      BY <1>4, <1>7, <2>1, SeqEqual
  <1> QED
    BY <1>1, <1>8, <1>9

\* A nonempty set of naturals has a least element.
LEMMA LeastNat ==
  ASSUME NEW S, S \subseteq Nat, S # {}
  PROVE  \E x \in S : \A y \in S : x <= y
  <1>1. IsWellFoundedOn(OpToRel(<, Nat), Nat)
    BY NatLessThanWellFounded
  <1>2. PICK x \in S : \A y \in S : ~(<<y, x>> \in OpToRel(<, Nat))
    BY <1>1, WFMin
  <1>3. \A y \in S : ~(y < x)
    BY <1>2 DEF OpToRel
  <1> QED
    BY <1>3

\* A nonempty set of positions has a greatest one, and Max is it.
LEMMA MaxGreatest ==
  ASSUME NEW n \in Nat, NEW S, S \subseteq 1 .. n, S # {}
  PROVE  Max(S) \in S /\ \A y \in S : y <= Max(S)
  <1>1. PICK T : T = {n - x : x \in S}
    OBVIOUS
  <1>2. T \subseteq Nat /\ T # {}
    <2>1. \A x \in S : n - x \in Nat
      OBVIOUS
    <2> QED
      BY <1>1, <2>1
  <1>3. PICK m \in T : \A y \in T : m <= y
    BY <1>2, LeastNat
  <1>4. PICK x \in S : m = n - x
    BY <1>1, <1>3
  <1>5. ASSUME NEW y \in S PROVE x >= y
    <2>1. n - x <= n - y
      BY <1>1, <1>3, <1>4
    <2> QED
      BY <2>1
  <1>6. Max(S) \in S /\ \A y \in S : Max(S) >= y
    BY <1>5 DEF Max
  <1> QED
    BY <1>6

\* A least element is what Min chooses.
LEMMA MinIs ==
  ASSUME NEW S, S \subseteq Nat, NEW x \in S, \A y \in S : x <= y
  PROVE  Min(S) = x
  <1>1. PICK m : m = Min(S)
    OBVIOUS
  <1>2. m \in S /\ \A y \in S : m <= y
    BY <1>1 DEF Min
  <1>3. m <= x /\ x <= m /\ m \in Nat /\ x \in Nat
    BY <1>2
  <1> QED
    BY <1>1, <1>3

------------------------------------------------------------------------------
(* What conn_close, the shutdown and conn_update make of a connection's struct. *)

\* What the end of a turn in direction e may make of struct k: the stream that has ended
\* and is all sent is shut, the connection closed.
Follows(k, k1, e) ==
  /\ k1 \in Conn /\ k1.dns = k.dns /\ k1.eof = k.eof /\ k1.doff = k.doff
  /\ \/ k1.shut = k.shut
     \/ e \in k.eof /\ k.pend[e] = <<>> /\ e \notin k.shut /\ k1.shut = k.shut \cup {e}
  /\ \/ k1.st = k.st /\ k1.pend = k.pend /\ k1.dbuf = k.dbuf
     \/ k1.st = "closed" /\ k1.pend = [x \in Ends |-> <<>>] /\ k1.dbuf = <<>>

\* conn_close closes it and drops its buffers.
LEMMA DeadIs ==
  ASSUME NEW k \in Conn
  PROVE  /\ Dead(k) \in Conn /\ Dead(k).dns = k.dns /\ Dead(k).eof = k.eof
         /\ Dead(k).doff = k.doff /\ Dead(k).shut = k.shut /\ Dead(k).st = "closed"
         /\ Dead(k).pend = [x \in Ends |-> <<>>] /\ Dead(k).dbuf = <<>>
  <1>1. <<>> \in Seq(Unit)
    BY EmptySeq
  <1>2. [x \in Ends |-> <<>>] \in [Ends -> Seq(Unit)]
    BY <1>1
  <1> QED
    BY <1>1, <1>2 DEF Dead, Conn

\* The shutdown changes which streams are shut, and that only for a stream all sent.
LEMMA ShutIs ==
  ASSUME NEW k \in Conn, d \in Ends
  PROVE  Follows(k, Shut(k), d) /\ Shut(k).st = k.st
  <1>1. CASE Shuts(k)
    <2>1. Shut(k) = [k EXCEPT !.shut = @ \cup {d}]
      BY <1>1 DEF Shut
    <2>2. k.shut \cup {d} \in SUBSET Ends
      BY DEF Conn
    <2> QED
      BY <1>1, <2>1, <2>2 DEF Follows, Shuts, Conn
  <1>2. CASE ~Shuts(k)
    BY <1>2 DEF Shut, Follows
  <1> QED
    BY <1>1, <1>2

\* The wait mask is nobody's concern but epoll's.
LEMMA MaskIs ==
  ASSUME NEW k \in Conn, NEW m \in [Ends -> SUBSET {"in", "out"}]
  PROVE  LET k1 == [k EXCEPT !.mask = m] IN
         /\ k1 \in Conn /\ k1.dns = k.dns /\ k1.eof = k.eof /\ k1.doff = k.doff
         /\ k1.shut = k.shut /\ k1.st = k.st /\ k1.pend = k.pend /\ k1.dbuf = k.dbuf
  BY DEF Conn

\* conn_update sets the mask or closes the connection.
LEMMA UpdateIs ==
  ASSUME NEW c \in Conns, NEW k \in Conn, NEW e \in Ends, Update(c, k)
  PROVE  /\ \E k1 : Follows(k, k1, e) /\ k1.shut = k.shut /\ conn' = [conn EXCEPT ![c] = k1]
         /\ Served
  <1>1. PICK want : want = [i \in Ends |-> Want(k, i)]
    OBVIOUS
  <1>2. want \in [Ends -> SUBSET {"in", "out"}]
    BY <1>1 DEF Want
  <1>3. \/ conn' = [conn EXCEPT ![c] = [k EXCEPT !.mask = want]]
        \/ conn' = [conn EXCEPT ![c] = Dead(k)]
    BY <1>1 DEF Update
  <1>4. Served
    BY DEF Update
  <1>5. CASE conn' = [conn EXCEPT ![c] = [k EXCEPT !.mask = want]]
    <2>1. PICK k1 : k1 = [k EXCEPT !.mask = want]
      OBVIOUS
    <2>2. Follows(k, k1, e) /\ k1.shut = k.shut
      BY <2>1, <1>2, MaskIs DEF Follows
    <2> QED
      BY <1>4, <1>5, <2>1, <2>2
  <1>6. CASE conn' = [conn EXCEPT ![c] = Dead(k)]
    <2>1. PICK k1 : k1 = Dead(k)
      OBVIOUS
    <2>2. Follows(k, k1, e) /\ k1.shut = k.shut
      BY <2>1, DeadIs DEF Follows
    <2> QED
      BY <1>4, <1>6, <2>1, <2>2
  <1> QED
    BY <1>3, <1>5, <1>6

\* The thread after a step that ends a turn with struct k1.
Lands(k, k1) ==
  /\ conn' = [conn EXCEPT ![cur] = k1]
  /\ pc' \in {"batch", "pump"} /\ cur' \in Conns \cup {None} /\ d' \in Ends
  /\ iter' \in 0 .. MaxIter /\ prog' \in BOOLEAN /\ evs' = evs
  /\ pc' = "pump" => cur' = cur /\ k1.st = k.st

\* Following is transitive as far as a turn needs it.
LEMMA FollowsOn ==
  ASSUME NEW k, NEW k1, NEW k2, NEW e, Follows(k, k1, e), k1.st = k.st,
         k1.pend = k.pend, k1.dbuf = k.dbuf, Follows(k1, k2, e), k2.shut = k1.shut
  PROVE  Follows(k, k2, e)
  BY DEF Follows

\* The end of a turn leaves a struct that follows from the one it was given.
LEMMA TurnedIs ==
  ASSUME Types, cur \in Conns, NEW k \in Conn, k.st # "closed", NEW p \in BOOLEAN, Turned(k, p)
  PROVE  \E k1 : Follows(k, k1, d) /\ Lands(k, k1)
  <1> DEFINE moved == prog \/ p \/ Shuts(k)
  <1>1. d \in Ends /\ iter \in 0 .. MaxIter /\ MaxIter \in Nat \ {0}
    BY PumpAssumption DEF Types
  <1>2. PICK h : h = Shut(k)
    OBVIOUS
  <1>3. Follows(k, h, d) /\ h.st = k.st
    BY <1>1, <1>2, ShutIs
  <1>4. h \in Conn /\ h.pend = k.pend /\ h.dbuf = k.dbuf
    BY <1>3 DEF Follows
  <1>5. moved \in BOOLEAN
    BY DEF Types, Shuts
  <1>6. ASSUME Served PROVE pc' = "batch" /\ cur' \in Conns \cup {None} /\ d' \in Ends
                            /\ iter' \in 0 .. MaxIter /\ prog' \in BOOLEAN
    <2>1. 0 \in 0 .. MaxIter
      BY <1>1
    <2> QED
      BY <1>6, <2>1 DEF Served, Ends
  <1>7. evs' = evs
    BY DEF Turned
  <1>8. CASE d = 0 /\ conn' = [conn EXCEPT ![cur] = h] /\ d' = 1 /\ prog' = moved
             /\ pc' = "pump" /\ UNCHANGED <<cur, iter>>
    <2>1. Lands(k, h)
      BY <1>1, <1>3, <1>5, <1>7, <1>8 DEF Lands, Ends
    <2> QED
      BY <1>3, <2>1
  <1>9. CASE d = 1 /\ conn' = [conn EXCEPT ![cur] = Dead(h)] /\ Served
    <2>1. PICK k1 : k1 = Dead(h)
      OBVIOUS
    <2>2. Follows(h, k1, d) /\ k1.shut = h.shut
      BY <1>4, <2>1, DeadIs DEF Follows
    <2>3. Follows(k, k1, d)
      BY <1>3, <1>4, <2>2, FollowsOn
    <2>4. Lands(k, k1)
      BY <1>6, <1>7, <1>9, <2>1 DEF Lands
    <2> QED
      BY <2>3, <2>4
  <1>10. CASE d = 1 /\ iter + 1 < MaxIter /\ conn' = [conn EXCEPT ![cur] = h]
              /\ d' = 0 /\ prog' = FALSE /\ pc' = "pump" /\ iter' = iter + 1 /\ cur' = cur
    <2>0. iter' \in 0 .. MaxIter
      BY <1>1, <1>10
    <2>1. Lands(k, h)
      BY <1>1, <1>3, <1>7, <1>10, <2>0 DEF Lands, Ends
    <2> QED
      BY <1>3, <2>1
  <1>11. CASE d = 1 /\ Update(cur, h)
    <2>1. PICK k1 : Follows(h, k1, d) /\ k1.shut = h.shut /\ conn' = [conn EXCEPT ![cur] = k1]
      BY <1>1, <1>4, <1>11, UpdateIs
    <2>2. Served
      BY <1>1, <1>4, <1>11, UpdateIs
    <2>3. Follows(k, k1, d)
      BY <1>3, <1>4, <2>1, FollowsOn
    <2>4. Lands(k, k1)
      BY <1>6, <1>7, <2>1, <2>2 DEF Lands
    <2> QED
      BY <2>3, <2>4
  <1> QED
    BY <1>2, <1>8, <1>9, <1>10, <1>11 DEF Turned

------------------------------------------------------------------------------
(* Soundness of one connection, from its values before a step to those after it. *)

\* Nothing in the pipe, in either direction.
NoPipe == [e \in Ends |-> <<>>]

\* A struct that follows from a sound one is sound.
LEMMA FollowsSound ==
  ASSUME NEW c \in Conns, NEW k \in Conn, NEW k1, NEW e \in Ends, Follows(k, k1, e),
         NEW s, NEW f, NEW r, NEW a \in [Ends -> Seq(Unit)], NEW o,
         Sound(c, k, s, f, r, a, o, NoPipe), k.st # "closed"
  PROVE  Sound(c, k1, s, f, r, a, o, NoPipe)
  <1>1. Framed(k1, s, r)
    BY DEF Follows, Sound, Framed
  <1>2. Buffered(k1)
    <2>1. Buffered(k)
      BY DEF Sound
    <2>2. Len(<<>>) <= DbufMax
      BY PumpAssumption, EmptySeq
    <2> QED
      BY <2>1, <2>2 DEF Buffered, Follows
  <1>3. Ended(k1, s, f, r)
    <2>1. Ended(k, s, f, r)
      BY DEF Sound
    <2>2. k1.eof = k.eof /\ k1.eof \subseteq Ends
      BY DEF Follows, Conn
    <2>3. ASSUME NEW x \in k1.shut PROVE x \in k.eof /\ k.pend[x] = <<>>
      BY <2>1, <2>3 DEF Follows, Ended
    <2>4. ASSUME NEW x \in k1.shut PROVE k1.pend[x] = <<>>
      BY <2>2, <2>3, <2>4 DEF Follows
    <2> QED
      BY <2>1, <2>2, <2>3, <2>4 DEF Ended
  <1>4. Observed(k1, s, f, a, o)
    <2>1. Observed(k, s, f, a, o)
      BY DEF Sound
    <2>2. CASE k1.st = k.st /\ k1.pend = k.pend
      BY <2>1, <2>2 DEF Observed, Follows, Gone
    <2>3. CASE k1.st = "closed" /\ k1.pend = [x \in Ends |-> <<>>]
      <3>1. Len(a[0]) \in Nat /\ Len(k.pend[1]) \in Nat /\ Len(k1.pend[1]) = 0
        BY <2>3, EmptySeq, LenProperties DEF Conn, Ends
      <3>2. 1 .. Gone(k1, a) \subseteq 1 .. Gone(k, a)
        <4>1. PICK l, q, q1 : l = Len(a[0]) /\ q = Len(k.pend[1]) /\ q1 = Len(k1.pend[1])
          OBVIOUS
        <4>2. l \in Nat /\ q \in Nat /\ l + q1 = l
          BY <3>1, <4>1
        <4>3. \A i \in 1 .. l : i \in 1 .. l + q
          BY <4>2
        <4>4. 1 .. l + q1 \subseteq 1 .. l + q
          BY <4>2, <4>3
        <4> QED
          BY <4>1, <4>4 DEF Gone
      <3> QED
        BY <2>1, <2>3, <3>2 DEF Observed, Follows
    <2> QED
      BY <2>2, <2>3 DEF Follows
  <1>5. ASSUME NEW x \in Ends PROVE Stretches(c, x, k1, r[x], a[1 - x], NoPipe[x])
    <2>1. Stretches(c, x, k, r[x], a[1 - x], NoPipe[x])
      BY DEF Sound
    <2>2. k1.st # "closed" => k1.st = k.st /\ k1.pend = k.pend /\ k1.dbuf = k.dbuf
      BY DEF Follows
    <2> QED
      BY <2>1, <2>2 DEF Stretches
  <1> QED
    BY <1>1, <1>2, <1>3, <1>4, <1>5 DEF Sound

\* A closed connection is sound when what arrived is a beginning of what was read, and
\* of a tapped stream was covered.
LEMMA DeadSound ==
  ASSUME NEW c \in Conns, NEW k \in Conn, NEW s, NEW f, NEW r,
         NEW a \in [Ends -> Seq(Unit)], NEW o, NEW p,
         Framed(k, s, r), Ended(k, s, f, r),
         \A e \in Ends : r[e] \in Nat /\ \E x \in 0 .. r[e] : a[1 - e] = Stream(c, e, 0, x),
         k.dns => \A i \in 1 .. Len(a[0]) :
                    (\A j \in 1 .. i : s[1][j] # "zero") => Covered(s[1], f, o, i)
  PROVE  Sound(c, Dead(k), s, f, r, a, o, p)
  <1>1. PICK k1 : k1 = Dead(k)
    OBVIOUS
  <1>2. /\ k1.dns = k.dns /\ k1.eof = k.eof /\ k1.shut = k.shut /\ k1.st = "closed"
        /\ k1.pend = [x \in Ends |-> <<>>] /\ k1.dbuf = <<>> /\ k1 \in Conn
    BY <1>1, DeadIs
  <1>3. Framed(k1, s, r)
    BY <1>2 DEF Framed
  <1>4. Buffered(k1)
    <2>2. Len(<<>>) <= DbufMax
      BY PumpAssumption, EmptySeq
    <2> QED
      BY <1>2, <2>2 DEF Buffered
  <1>5. Ended(k1, s, f, r)
    BY <1>2 DEF Ended, Conn
  <1>6. Observed(k1, s, f, a, o)
    <2>1. Len(a[0]) \in Nat /\ Len(k1.pend[1]) = 0
      BY <1>2, EmptySeq, LenProperties DEF Ends
    <2>2. Gone(k1, a) = Len(a[0])
      BY <2>1 DEF Gone
    <2> QED
      BY <1>2, <2>2 DEF Observed
  <1>7. ASSUME NEW e \in Ends PROVE Stretches(c, e, k1, r[e], a[1 - e], p[e])
    <2>1. PICK x \in 0 .. r[e] : a[1 - e] = Stream(c, e, 0, x)
      OBVIOUS
    <2>2. x \in Nat /\ r[e] \in Nat /\ x <= r[e]
      OBVIOUS
    <2>3. PICK n \in Nat : n = r[e]
      BY <2>2
    <2>4. x <= x /\ x <= n /\ k1.st = "closed"
      BY <1>2, <2>2, <2>3
    <2>5. \E x1, y, z \in Nat :
            x1 <= y /\ y <= z /\ z <= n /\ a[1 - e] = Stream(c, e, 0, x1) /\ k1.st = "closed"
      BY <2>1, <2>2, <2>4
    <2> QED
      BY <2>3, <2>5 DEF Stretches
  <1> QED
    BY <1>1, <1>3, <1>4, <1>5, <1>6, <1>7 DEF Sound

\* What else a step of the thread on connection cur may do: it reads, delivers and
\* observes for that connection and direction alone, delivers only where the stream is
\* not shut, and leaves the pipe empty.
Onward ==
  /\ UNCHANGED <<endVars, nosplice>> /\ pipe' = <<>>
  /\ room' \in [Conns -> [Ends -> 0 .. Cap]] /\ arrived' \in [Conns -> [Ends -> Seq(Unit)]]
  /\ read' \in [Conns -> [Ends -> Nat]] /\ observed' \in [Conns -> SUBSET Nat]
  /\ \A c \in Conns \ {cur} : read'[c] = read[c] /\ arrived'[c] = arrived[c]
                              /\ observed'[c] = observed[c]
  /\ arrived'[cur][d] = arrived[cur][d]
  /\ Len(arrived[cur][1 - d]) <= Len(arrived'[cur][1 - d])
  /\ d \in conn[cur].shut => arrived'[cur] = arrived[cur]

\* A step that lands on a sound struct keeps the invariant.
LEMMA LandsSound ==
  ASSUME PumpInv, pc # "batch", NEW k, NEW k1 \in Conn, Lands(k, k1), k.st = "open", Onward,
         k1.st # "queued",
         Sound(cur, k1, sent[cur], fin[cur], read'[cur], arrived'[cur], observed'[cur], NoPipe)
  PROVE  PumpInv'
  <1>1. cur \in Conns
    BY DEF PumpInv, Placed
  <1>2. conn' \in [Conns -> Conn] /\ conn'[cur] = k1
        /\ \A c \in Conns \ {cur} : conn'[c] = conn[c]
    BY <1>1 DEF PumpInv, Types, Lands
  <1>3. Types'
    <2>1. pipe' \in Seq(Unit)
      BY EmptySeq DEF Onward
    <2> QED
      BY <1>2, <2>1 DEF PumpInv, Types, Lands, Onward, endVars
  <1>4. Placed'
    <2>1. pc' # "batch" => cur' \in Conns /\ conn'[cur'].st = "open"
      BY <1>1, <1>2 DEF Lands
    <2>2. pc' # "splice" /\ pipe' = <<>> /\ evs' = evs
      BY DEF Lands, Onward
    <2>3. ASSUME NEW c \in Conns, NEW i \in {0, 1, 2}, <<c, i>> \in evs
          PROVE  conn'[c].st = "queued" <=> i = 2
      <3>1. conn[c].st = "queued" <=> i = 2
        BY <2>3 DEF PumpInv, Placed
      <3>2. conn[cur].st # "queued" /\ conn'[cur].st # "queued"
        BY <1>2 DEF PumpInv, Placed
      <3> QED
        BY <1>2, <3>1, <3>2
    <2> QED
      BY <2>1, <2>2, <2>3 DEF Placed
  <1>5. \A c \in Conns : [e \in Ends |-> InPipe(c, e)]' = NoPipe
    BY DEF InPipe, Lands, NoPipe
  <1>6. ASSUME NEW c \in Conns \ {cur} PROVE SoundAt(c)'
    <2>1. SoundAt(c)
      BY <1>6 DEF PumpInv
    <2>2. [e \in Ends |-> InPipe(c, e)] = NoPipe
      BY <1>6 DEF InPipe, NoPipe
    <2> QED
      BY <1>2, <1>5, <1>6, <2>1, <2>2 DEF SoundAt, Onward, endVars
  <1>7. ASSUME NEW c \in Conns, c = cur PROVE SoundAt(c)'
    BY <1>1, <1>2, <1>5, <1>7 DEF SoundAt, Onward, endVars
  <1>8. (\A c \in Conns : SoundAt(c))'
    BY <1>6, <1>7
  <1> QED
    BY <1>3, <1>4, <1>8 DEF PumpInv

------------------------------------------------------------------------------
(* The initial states, and the steps of the ends and of the batch.              *)

\* The first unit of a stream is a stretch.
LEMMA StreamFirst ==
  ASSUME NEW c \in Conns, NEW e \in Ends
  PROVE  <<<<c, e, 1>>>> = Stream(c, e, 0, 1)
  <1>1. PICK t, u : t = <<<<c, e, 1>>>> /\ u = Stream(c, e, 0, 1)
    OBVIOUS
  <1>2. u \in Seq(Unit) /\ Len(u) = 1 /\ u[1] = <<c, e, 1>>
    <2>1. /\ u \in Seq(Unit) /\ Len(u) = 1 - 0
          /\ \A i \in 1 .. 1 - 0 : u[i] = <<c, e, 0 + i>>
      <3>1. 0 \in Nat /\ 1 \in Nat /\ 0 <= 1
        OBVIOUS
      <3> QED
        BY <1>1, <3>1, StreamIs
    <2> QED
      BY <2>1
  <1>3. t \in Seq(Unit) /\ Len(t) = 1 /\ t[1] = <<c, e, 1>>
    BY <1>1 DEF Unit
  <1>4. \A i \in 1 .. Len(t) : t[i] = u[i]
    BY <1>2, <1>3
  <1>5. t = u
    BY <1>2, <1>3, <1>4, SeqEqual
  <1> QED
    BY <1>1, <1>5

\* A connection starts sound: what the handshake read waits in the buffer.
LEMMA InitInv == Init => PumpInv
  <1> SUFFICES ASSUME Init PROVE PumpInv
    OBVIOUS
  <1>0. PICK mix \in Mixes, first \in {"mid", "last"} :
       \E over \in SUBSET {c \in Conns : mix[c].units[1] > 0} :
       LET dns == {c \in Conns : mix[c].kind = "dns"} IN
       /\ sent = [c \in Conns |-> [e \in Ends |->
                    IF e = 1 /\ c \in over THEN <<IF c \in dns THEN first ELSE "raw">> ELSE <<>>]]
       /\ conn = [c \in Conns |->
            [st |-> IF mix[c].kind = "none" THEN "closed" ELSE "queued", dns |-> c \in dns,
             eof |-> {}, shut |-> {}, doff |-> FALSE,
             pend |-> [e \in Ends |-> IF e = 1 /\ c \in over \ dns THEN <<<<c, 1, 1>>>> ELSE <<>>],
             dbuf |-> IF c \in over \cap dns THEN <<<<c, 1, 1>>>> ELSE <<>>,
             mask |-> [e \in Ends |-> {}], units |-> mix[c].units, fins |-> mix[c].fins]]
       /\ read = [c \in Conns |-> [e \in Ends |-> Len(sent[c][e])]]
    BY DEF Init
  <1>1. PICK over \in SUBSET {c \in Conns : mix[c].units[1] > 0} :
       LET dns == {c \in Conns : mix[c].kind = "dns"} IN
       /\ sent = [c \in Conns |-> [e \in Ends |->
                    IF e = 1 /\ c \in over THEN <<IF c \in dns THEN first ELSE "raw">> ELSE <<>>]]
       /\ conn = [c \in Conns |->
            [st |-> IF mix[c].kind = "none" THEN "closed" ELSE "queued", dns |-> c \in dns,
             eof |-> {}, shut |-> {}, doff |-> FALSE,
             pend |-> [e \in Ends |-> IF e = 1 /\ c \in over \ dns THEN <<<<c, 1, 1>>>> ELSE <<>>],
             dbuf |-> IF c \in over \cap dns THEN <<<<c, 1, 1>>>> ELSE <<>>,
             mask |-> [e \in Ends |-> {}], units |-> mix[c].units, fins |-> mix[c].fins]]
       /\ read = [c \in Conns |-> [e \in Ends |-> Len(sent[c][e])]]
    BY <1>0
  <1>2. PICK dns : dns = {c \in Conns : mix[c].kind = "dns"}
    OBVIOUS
  <1>3. /\ fin = [c \in Conns |-> {}] /\ reset = [c \in Conns |-> {}]
        /\ room = [c \in Conns |-> [e \in Ends |-> Cap]]
        /\ arrived = [c \in Conns |-> [e \in Ends |-> <<>>]]
        /\ observed = [c \in Conns |-> {}]
        /\ pipe = <<>> /\ nosplice = FALSE /\ pc = "batch" /\ evs = {}
        /\ cur = None /\ d = 0 /\ iter = 0 /\ prog = FALSE
    BY DEF Init
  <1>4. ASSUME NEW c \in Conns
        PROVE  /\ mix[c].kind \in {"tcp", "dns", "none"}
               /\ mix[c].units \in [Ends -> Nat] /\ mix[c].fins \in SUBSET Ends
    BY PumpAssumption DEF Ends
  <1>5. Cap \in Nat /\ MaxIter \in Nat /\ DbufMax \in Nat /\ DbufMax >= 1
    BY PumpAssumption
  <1>6. ASSUME NEW c \in Conns
        PROVE  /\ sent[c] = [e \in Ends |-> IF e = 1 /\ c \in over
                               THEN <<IF c \in dns THEN first ELSE "raw">> ELSE <<>>]
               /\ conn[c] \in Conn /\ conn[c].st \in {"queued", "closed"}
               /\ conn[c].dns = (c \in dns) /\ conn[c].eof = {} /\ conn[c].shut = {}
               /\ conn[c].doff = FALSE /\ (conn[c].st = "closed" => c \notin dns)
               /\ conn[c].pend = [e \in Ends |-> IF e = 1 /\ c \in over \ dns
                                                 THEN <<<<c, 1, 1>>>> ELSE <<>>]
               /\ conn[c].dbuf = IF c \in over \cap dns THEN <<<<c, 1, 1>>>> ELSE <<>>
    <2>1. PICK u : u = <<<<c, 1, 1>>>>
      OBVIOUS
    <2>2. u \in Seq(Unit)
      BY <2>1 DEF Unit, Ends
    <2>3. PICK b : b = IF c \in over \cap dns THEN u ELSE <<>>
      OBVIOUS
    <2>4. b \in Seq(Unit)
      BY <2>2, <2>3, EmptySeq
    <2>5. PICK q : q = [e \in Ends |-> IF e = 1 /\ c \in over \ dns THEN u ELSE <<>>]
      OBVIOUS
    <2>6. q \in [Ends -> Seq(Unit)]
      BY <2>2, <2>5, EmptySeq
    <2>7. PICK st : st = IF mix[c].kind = "none" THEN "closed" ELSE "queued"
      OBVIOUS
    <2>8. PICK tap : tap = (c \in dns)
      OBVIOUS
    <2>13. tap \in BOOLEAN
      BY <2>8
    <2>9. conn[c] = [st |-> st, dns |-> tap, eof |-> {}, shut |-> {}, doff |-> FALSE,
                     pend |-> q, dbuf |-> b, mask |-> [e \in Ends |-> {}],
                     units |-> mix[c].units, fins |-> mix[c].fins]
      BY <1>1, <1>2, <2>1, <2>3, <2>5, <2>7, <2>8
    <2>10. conn[c] \in Conn
      BY <1>4, <2>4, <2>6, <2>7, <2>9, <2>13 DEF Conn
    <2>11. st = "closed" => c \notin dns
      BY <1>2, <2>7
    <2>12. sent[c] = [e \in Ends |-> IF e = 1 /\ c \in over
                               THEN <<IF c \in dns THEN first ELSE "raw">> ELSE <<>>]
      BY <1>1, <1>2
    <2> QED
      BY <2>1, <2>3, <2>5, <2>7, <2>8, <2>9, <2>10, <2>11, <2>12
  <1>7. ASSUME NEW c \in Conns, NEW e \in Ends
        PROVE  /\ sent[c][e] = IF e = 1 /\ c \in over
                               THEN <<IF c \in dns THEN first ELSE "raw">> ELSE <<>>
               /\ sent[c][e] \in Seq(IF c \in dns /\ e = 1 THEN {"mid", "last"} ELSE {"raw"})
               /\ sent[c][e] \in Seq(Mark)
               /\ read[c][e] = IF e = 1 /\ c \in over THEN 1 ELSE 0
               /\ read[c][e] = Len(sent[c][e]) /\ read[c][e] \in Nat
    <2>1. PICK m : m = IF c \in dns THEN first ELSE "raw"
      OBVIOUS
    <2>0. sent[c] = [x \in Ends |-> IF x = 1 /\ c \in over
                               THEN <<IF c \in dns THEN first ELSE "raw">> ELSE <<>>]
      BY <1>6
    <2>9. sent[c] = [x \in Ends |-> IF x = 1 /\ c \in over THEN <<m>> ELSE <<>>]
      BY <2>0, <2>1
    <2>2. sent[c][e] = IF e = 1 /\ c \in over THEN <<m>> ELSE <<>>
      BY <2>9
    <2>3. m \in Mark /\ (c \in dns => m \in {"mid", "last"}) /\ (c \notin dns => m \in {"raw"})
      BY <2>1 DEF Mark
    <2>4. Len(<<m>>) = 1 /\ Len(<<>>) = 0
      BY EmptySeq
    <2>10. \A S : \A x \in S : <<x>> \in Seq(S)
      OBVIOUS
    <2>5. <<m>> \in Seq(Mark) /\ <<m>> \in Seq(IF c \in dns THEN {"mid", "last"} ELSE {"raw"})
      BY <2>3, <2>10
    <2>6. \A S : <<>> \in Seq(S)
      BY EmptySeq
    <2>7. read[c][e] = Len(sent[c][e])
      BY <1>1
    <2>8. CASE e = 1 /\ c \in over
      <3>1. sent[c][e] = <<m>>
        BY <2>2, <2>8
      <3>2. <<m>> \in Seq(IF c \in dns /\ e = 1 THEN {"mid", "last"} ELSE {"raw"})
        BY <2>5, <2>8
      <3> QED
        BY <2>1, <2>2, <2>4, <2>5, <2>7, <2>8, <3>1, <3>2
    <2>11. CASE ~(e = 1 /\ c \in over)
      <3>1. sent[c][e] = <<>>
        BY <2>2, <2>11
      <3>2. read[c][e] = 0 /\ 0 \in Nat
        BY <2>4, <2>7, <3>1
      <3>3. /\ sent[c][e] \in Seq(IF c \in dns /\ e = 1 THEN {"mid", "last"} ELSE {"raw"})
            /\ sent[c][e] \in Seq(Mark)
        BY <2>6, <3>1
      <3> QED
        BY <2>1, <2>2, <2>7, <2>11, <3>2, <3>3
    <2> QED
      BY <2>8, <2>11
  <1>11. \A c \in Conns, e \in Ends : read[c][e] \in Nat /\ 0 <= read[c][e]
                                     /\ read[c][e] <= Len(sent[c][e])
    <2>1. ASSUME NEW c \in Conns, NEW e \in Ends
          PROVE read[c][e] \in Nat /\ read[c][e] = Len(sent[c][e])
      BY <1>7
    <2> QED
      BY <2>1
  <1>8. Types
    <2>1. sent \in [Conns -> [Ends -> Seq(Mark)]]
      <3>1. /\ sent = [c \in Conns |-> sent[c]]
            /\ \A c \in Conns : sent[c] = [e \in Ends |-> sent[c][e]]
        BY <1>1
      <3> QED
        BY <3>1, <1>7, ZenonT(30)
    <2>2. read \in [Conns -> [Ends -> Nat]]
      <3>1. /\ read = [c \in Conns |-> read[c]]
            /\ \A c \in Conns : read[c] = [e \in Ends |-> read[c][e]]
        BY <1>1
      <3> QED
        BY <3>1, <1>7, ZenonT(30)
    <2>3. conn \in [Conns -> Conn]
      <3>1. conn = [c \in Conns |-> conn[c]]
        BY <1>1
      <3> QED
        BY <3>1, <1>6
    <2>4. <<>> \in Seq(Unit) /\ Cap \in 0 .. Cap /\ 0 \in 0 .. MaxIter
      BY <1>5, EmptySeq
    <2> QED
      BY <1>3, <2>1, <2>2, <2>3, <2>4 DEF Types, Ends
  <1>9. Placed
    BY <1>3 DEF Placed
  <1>10. ASSUME NEW c \in Conns PROVE SoundAt(c)
    <2>1. Framed(conn[c], sent[c], read[c])
      <3>1. ASSUME NEW e \in Ends
            PROVE  sent[c][e] \in Seq(IF conn[c].dns /\ e = 1 THEN {"mid", "last", "zero"}
                                      ELSE {"raw"})
        <4>1. \A q \in Seq({"mid", "last"}) : q \in Seq({"mid", "last", "zero"})
          BY SeqMonotonic
        <4> QED
          BY <1>6, <1>7, <4>1
      <3>2. \A e \in Ends : read[c][e] <= Len(sent[c][e])
        BY <1>11
      <3>3. \A j \in 1 .. Len(sent[c][1]) : sent[c][1][j] # "zero"
        <4>1. PICK S : S = IF c \in dns /\ 1 = 1 THEN {"mid", "last"} ELSE {"raw"}
          OBVIOUS
        <4>2. sent[c][1] \in Seq(S) /\ "zero" \notin S
          BY <1>7, <4>1 DEF Ends
        <4> QED
          BY <4>2, ElementOfSeq
      <3> QED
        BY <3>1, <3>2, <3>3 DEF Framed
    <2>2. Buffered(conn[c])
      <3>1. Len(<<>>) <= DbufMax /\ Len(<<<<c, 1, 1>>>>) <= DbufMax
        BY <1>5, EmptySeq
      <3> QED
        BY <1>6, <3>1 DEF Buffered
    <2>3. Ended(conn[c], sent[c], fin[c], read[c])
      BY <1>6 DEF Ended
    <2>4. Observed(conn[c], sent[c], fin[c], arrived[c], observed[c])
      <3>1. ASSUME conn[c].dns PROVE Gone(conn[c], arrived[c]) = 0
        <4>1. arrived[c][0] = <<>>
          BY <1>3 DEF Ends
        <4>2. c \in dns
          BY <1>6, <3>1
        <4>3. conn[c].pend[1] = <<>>
          BY <1>6, <4>2 DEF Ends
        <4> QED
          BY <4>1, <4>3, EmptySeq DEF Gone
      <3>2. ~conn[c].doff
        BY <1>6
      <3> QED
        BY <3>1, <3>2 DEF Observed
    <2>5. ASSUME NEW e \in Ends
          PROVE Stretches(c, e, conn[c], read[c][e], arrived[c][1 - e],
                          [x \in Ends |-> InPipe(c, x)][e])
      <3>1. arrived[c][1 - e] = <<>> /\ [x \in Ends |-> InPipe(c, x)][e] = <<>>
        BY <1>3 DEF InPipe, Ends
      <3>2. <<>> = Stream(c, e, 0, 0) /\ <<>> = Stream(c, e, 1, 1)
        BY StreamEmpty
      <3>3. CASE e = 1 /\ c \in over \ dns
        <4>1. read[c][e] = 1 /\ conn[c].pend[e] = Stream(c, e, 0, 1) /\ conn[c].dbuf = <<>>
          BY <1>6, <1>7, <3>3, StreamFirst
        <4>2. 0 \in Nat /\ 1 \in Nat /\ 0 <= 0 /\ 0 <= 1 /\ 1 <= 1
          OBVIOUS
        <4> QED
          BY <3>1, <3>2, <4>1, <4>2 DEF Stretches
      <3>4. CASE ~(e = 1 /\ c \in over \ dns)
        <4>1. conn[c].pend[e] = <<>>
          <5>1. PICK u : u = <<<<c, 1, 1>>>>
            OBVIOUS
          <5>2. conn[c].pend = [x \in Ends |-> IF x = 1 /\ c \in over \ dns THEN u ELSE <<>>]
            BY <1>6, <5>1, ZenonT(30)
          <5> QED
            BY <5>2, <3>4
        <4>2. (IF e = 1 THEN conn[c].dbuf ELSE <<>>) = Stream(c, e, 0, read[c][e])
          <5>1. PICK u : u = <<<<c, 1, 1>>>>
            OBVIOUS
          <5>2. conn[c].dbuf = IF c \in over \cap dns THEN u ELSE <<>>
            BY <1>6, <5>1
          <5>3. u = Stream(c, 1, 0, 1)
            BY <5>1, StreamFirst DEF Ends
          <5>4. read[c][e] = IF e = 1 /\ c \in over THEN 1 ELSE 0
            BY <1>7
          <5> QED
            BY <5>2, <5>3, <5>4, <3>2, <3>4
        <4>3. 0 \in Nat /\ 0 <= 0 /\ 0 <= read[c][e]
          BY <1>11
        <4> QED
          BY <3>1, <3>2, <4>1, <4>2, <4>3 DEF Stretches
      <3> QED
        BY <3>3, <3>4
    <2> QED
      BY <2>1, <2>2, <2>3, <2>4, <2>5 DEF SoundAt, Sound
  <1> QED
    BY <1>8, <1>9, <1>10 DEF PumpInv

\* Of an open connection, no more has left dbuf than was read.
LEMMA GoneBound ==
  ASSUME NEW c \in Conns, NEW k \in Conn, k.st # "closed", NEW s, NEW f,
         NEW r \in [Ends -> Nat], NEW a \in [Ends -> Seq(Unit)], NEW o, NEW p,
         Sound(c, k, s, f, r, a, o, p)
  PROVE  Gone(k, a) \in Nat /\ Gone(k, a) <= r[1]
  <1>1. Stretches(c, 1, k, r[1], a[0], p[1])
    <2>1. 1 \in Ends /\ 1 - 1 = 0
      BY DEF Ends
    <2> QED
      BY <2>1 DEF Sound
  <1>2. PICK x, y, z \in Nat :
          x <= y /\ y <= z /\ z <= r[1] /\ a[0] = Stream(c, 1, 0, x)
          /\ k.pend[1] = Stream(c, 1, y, z)
    BY <1>1 DEF Stretches
  <1>3. Len(a[0]) = x /\ Len(k.pend[1]) = z - y
    <2>1. 0 \in Nat /\ 0 <= x /\ 1 \in Ends
      BY <1>2 DEF Ends
    <2>2. Len(Stream(c, 1, 0, x)) = x - 0
      BY <2>1, StreamIs
    <2>3. Len(Stream(c, 1, y, z)) = z - y
      BY <1>2, <2>1, StreamIs
    <2>4. x - 0 = x
      OBVIOUS
    <2> QED
      BY <1>2, <2>2, <2>3, <2>4
  <1>4. r[1] \in Nat
    BY DEF Ends
  <1> QED
    BY <1>2, <1>3, <1>4 DEF Gone

\* A step that leaves the thread, the pipe and what was read and observed alone keeps the
\* connections sound whose structs, streams and deliveries it leaves alone.
LEMMA StillSound ==
  ASSUME NEW c \in Conns, SoundAt(c), UNCHANGED <<pc, cur, d, pipe>>,
         conn'[c] = conn[c], sent'[c] = sent[c], fin'[c] = fin[c], read'[c] = read[c],
         arrived'[c] = arrived[c], observed'[c] = observed[c]
  PROVE  SoundAt(c)'
  <1>1. [e \in Ends |-> InPipe(c, e)]' = [e \in Ends |-> InPipe(c, e)]
    BY DEF InPipe
  <1> QED
    BY <1>1 DEF SoundAt

\* An end writes a unit.
LEMMA WriteInv ==
  ASSUME PumpInv, NEW c \in Conns, NEW e \in Ends, Write(c, e)
  PROVE  PumpInv'
  <1>1. PICK m \in Kinds(c, e) : /\ m = "zero" => Begins(sent[c][e])
                                 /\ sent' = [sent EXCEPT ![c][e] = Append(@, m)]
    BY DEF Write
  <1>2. /\ e \notin fin[c] /\ conn[c].st # "closed"
        /\ UNCHANGED <<fin, reset, netVars, conn, observed, pipe, nosplice, thread>>
    BY DEF Write
  <1>3. m \in Mark
    BY <1>1 DEF Kinds, Mark
  <1>4. PICK q : q = sent[c][e]
    OBVIOUS
  <1>5. q \in Seq(Mark) /\ Len(q) \in Nat
    BY <1>4, LenProperties DEF PumpInv, Types
  <1>6. /\ Append(q, m) \in Seq(Mark) /\ Len(Append(q, m)) = Len(q) + 1
        /\ \A j \in 1 .. Len(q) : Append(q, m)[j] = q[j]
        /\ Append(q, m)[Len(q) + 1] = m
    BY <1>3, <1>5, AppendProperties
  <1>7. /\ sent' \in [Conns -> [Ends -> Seq(Mark)]] /\ sent'[c][e] = Append(q, m)
        /\ \A x \in Ends \ {e} : sent'[c][x] = sent[c][x]
        /\ \A c1 \in Conns \ {c} : sent'[c1] = sent[c1]
    BY <1>1, <1>4, <1>6 DEF PumpInv, Types
  <1>8. Types'
    BY <1>2, <1>7 DEF PumpInv, Types, netVars, thread
  <1>9. Placed'
    BY <1>2 DEF PumpInv, Placed, thread
  <1>10. ASSUME NEW c1 \in Conns \ {c} PROVE SoundAt(c1)'
    BY <1>2, <1>7, StillSound DEF PumpInv, netVars, thread
  <1>11. SoundAt(c)'
    <2>1. SoundAt(c)
      BY DEF PumpInv
    <2>2. PICK k, s, s1, f, r, a, o, p :
            /\ k = conn[c] /\ s = sent[c] /\ s1 = sent'[c] /\ f = fin[c] /\ r = read[c]
            /\ a = arrived[c] /\ o = observed[c] /\ p = [x \in Ends |-> InPipe(c, x)]
      OBVIOUS
    <2>3. Sound(c, k, s, f, r, a, o, p)
      BY <2>1, <2>2 DEF SoundAt
    <2>4. /\ k \in Conn /\ k.st # "closed" /\ r \in [Ends -> Nat] /\ a \in [Ends -> Seq(Unit)]
          /\ s \in [Ends -> Seq(Mark)] /\ s1 \in [Ends -> Seq(Mark)]
      BY <2>2, <1>2, <1>7 DEF PumpInv, Types
    <2>5. /\ s1[e] = Append(q, m) /\ s[e] = q /\ \A x \in Ends \ {e} : s1[x] = s[x]
      BY <1>4, <1>7, <2>2
    <2>6. m \in (IF k.dns /\ e = 1 THEN {"mid", "last", "zero"} ELSE {"raw"})
      BY <1>1, <2>2 DEF Kinds
    <2>7. Framed(k, s1, r)
      <3>1. ASSUME NEW x \in Ends
            PROVE s1[x] \in Seq(IF k.dns /\ x = 1 THEN {"mid", "last", "zero"} ELSE {"raw"})
        <4>1. PICK S : S = IF k.dns /\ x = 1 THEN {"mid", "last", "zero"} ELSE {"raw"}
          OBVIOUS
        <4>2. s[x] \in Seq(S)
          BY <2>3, <4>1 DEF Sound, Framed
        <4>3. CASE x = e
          <5>1. m \in S /\ q \in Seq(S)
            BY <2>5, <2>6, <4>1, <4>2, <4>3
          <5>2. Append(q, m) \in Seq(S)
            BY <5>1, AppendProperties
          <5> QED
            BY <2>5, <4>1, <4>3, <5>2
        <4> QED
          BY <2>5, <4>1, <4>2, <4>3
      <3>2. ASSUME NEW x \in Ends PROVE r[x] <= Len(s1[x])
        <4>1. r[x] <= Len(s[x])
          BY <2>3 DEF Sound, Framed
        <4>2. r[x] \in Nat
          BY <2>4
        <4>3. CASE x = e
          <5>1. r[x] <= Len(q)
            BY <2>5, <4>1, <4>3
          <5>2. r[x] <= Len(q) + 1
            BY <4>2, <5>1, <1>5
          <5> QED
            BY <1>6, <2>5, <4>3, <5>2
        <4> QED
          BY <2>5, <4>1, <4>3
      <3>3. ASSUME NEW j \in 1 .. Len(s1[1]), s1[1][j] = "zero"
            PROVE  j = 1 \/ s1[1][j - 1] = "last"
        <4>1. \A i \in 1 .. Len(s[1]) : s[1][i] = "zero" => i = 1 \/ s[1][i - 1] = "last"
          BY <2>3 DEF Sound, Framed
        <4>2. CASE e = 1
          <5>1. CASE j \in 1 .. Len(q)
            <6>1. q[j] = "zero"
              BY <1>6, <2>5, <3>3, <4>2, <5>1
            <6>2. j = 1 \/ q[j - 1] = "last"
              BY <2>5, <4>1, <4>2, <5>1, <6>1
            <6>3. j # 1 => j - 1 \in 1 .. Len(q)
              BY <1>5, <5>1
            <6> QED
              BY <1>6, <2>5, <4>2, <6>2, <6>3
          <5>2. CASE j \notin 1 .. Len(q)
            <6>1. j = Len(q) + 1
              BY <1>5, <1>6, <2>5, <3>3, <4>2, <5>2
            <6>2. Begins(q)
              BY <1>1, <1>4, <1>6, <2>5, <3>3, <4>2, <6>1
            <6>3. CASE q = <<>>
              BY <6>1, <6>3, EmptySeq
            <6>4. CASE q # <<>>
              <7>1. q[Len(q)] = "last"
                BY <6>2, <6>4 DEF Begins, Last
              <7>2. Len(q) \in 1 .. Len(q) /\ j - 1 = Len(q)
                BY <1>5, <6>1, <6>4, EmptySeq
              <7> QED
                BY <1>6, <2>5, <4>2, <7>1, <7>2
            <6> QED
              BY <6>3, <6>4
          <5> QED
            BY <5>1, <5>2
        <4>3. CASE e # 1
          BY <2>5, <3>3, <4>1, <4>3 DEF Ends
        <4> QED
          BY <4>2, <4>3
      <3> QED
        BY <3>1, <3>2, <3>3 DEF Framed
    <2>8. Ended(k, s1, f, r)
      <3>1. \A x \in k.eof : x \in f /\ x # e /\ x \in Ends
        BY <1>2, <2>2, <2>3, <2>4 DEF Sound, Ended, Conn
      <3> QED
        BY <2>3, <2>5, <3>1 DEF Sound, Ended
    <2>9. Observed(k, s1, f, a, o)
      <3>1. Observed(k, s, f, a, o)
        BY <2>3 DEF Sound
      <3>2. CASE e = 1
        <4>1. Gone(k, a) \in Nat /\ Gone(k, a) <= Len(q)
          <5>1. Gone(k, a) \in Nat /\ Gone(k, a) <= r[1]
            BY <2>3, <2>4, GoneBound
          <5>2. r[1] <= Len(q)
            BY <2>3, <2>5, <3>2 DEF Sound, Framed, Ends
          <5>3. r[1] \in Nat
            BY <2>4 DEF Ends
          <5> QED
            BY <1>5, <5>1, <5>2, <5>3
        <4>2. s1[1] = Append(q, m) /\ s[1] = q
          BY <2>5, <3>2
        <4>3. \A i \in 1 .. Gone(k, a) : i \in 1 .. Len(q)
          BY <1>5, <4>1
        <4>4. ASSUME NEW i \in 1 .. Len(q), Covered(q, f, o, i)
              PROVE  Covered(Append(q, m), f, o, i)
          <5>1. PICK n \in i .. Len(q) : /\ q[n] = "last" /\ n \in o
                                         /\ \A j \in i .. (n - 1) : q[j] # "last"
            BY <4>4, <1>2, <2>2, <3>2 DEF Covered
          <5>2. n \in i .. Len(q) + 1 /\ n \in 1 .. Len(q)
            BY <1>5, <5>1
          <5>3. \A j \in i .. (n - 1) : j \in 1 .. Len(q)
            BY <1>5, <5>2
          <5> QED
            BY <1>6, <5>1, <5>2, <5>3 DEF Covered
        <4>5. ASSUME NEW i \in 1 .. Len(q)
              PROVE  /\ Append(q, m)[i] = q[i]
                     /\ \A j \in 1 .. i : Append(q, m)[j] = q[j]
          <5>1. \A j \in 1 .. i : j \in 1 .. Len(q)
            BY <1>5
          <5> QED
            BY <1>6, <5>1
        <4> QED
          BY <3>1, <4>2, <4>3, <4>4, <4>5 DEF Observed
      <3>3. CASE e # 1
        <4>1. s1[1] = s[1]
          BY <2>5, <3>3 DEF Ends
        <4> QED
          BY <3>1, <4>1 DEF Observed
      <3> QED
        BY <3>2, <3>3
    <2>10. Sound(c, k, s1, f, r, a, o, p)
      BY <2>3, <2>7, <2>8, <2>9 DEF Sound
    <2>11. [x \in Ends |-> InPipe(c, x)]' = p
      BY <1>2, <2>2 DEF InPipe, thread
    <2> QED
      BY <1>2, <2>2, <2>10, <2>11 DEF SoundAt, netVars
  <1>12. (\A c1 \in Conns : SoundAt(c1))'
    BY <1>10, <1>11
  <1> QED
    BY <1>8, <1>9, <1>12 DEF PumpInv

\* An end finishes its stream.
LEMMA FinishInv ==
  ASSUME PumpInv, NEW c \in Conns, NEW e \in Ends, Finish(c, e)
  PROVE  PumpInv'
  <1>1. /\ fin' = [fin EXCEPT ![c] = @ \cup {e}]
        /\ UNCHANGED <<sent, reset, netVars, conn, observed, pipe, nosplice, thread>>
    BY DEF Finish
  <1>2. /\ fin' \in [Conns -> SUBSET Ends] /\ fin'[c] = fin[c] \cup {e}
        /\ \A c1 \in Conns \ {c} : fin'[c1] = fin[c1]
    BY <1>1 DEF PumpInv, Types
  <1>3. Types'
    BY <1>1, <1>2 DEF PumpInv, Types, netVars, thread
  <1>4. Placed'
    BY <1>1 DEF PumpInv, Placed, thread
  <1>5. ASSUME NEW c1 \in Conns \ {c} PROVE SoundAt(c1)'
    BY <1>1, <1>2, StillSound DEF PumpInv, netVars, thread
  <1>6. SoundAt(c)'
    <2>1. SoundAt(c)
      BY DEF PumpInv
    <2>2. PICK k, s, f, f1, r, a, o, p :
            /\ k = conn[c] /\ s = sent[c] /\ f = fin[c] /\ f1 = fin'[c] /\ r = read[c]
            /\ a = arrived[c] /\ o = observed[c] /\ p = [x \in Ends |-> InPipe(c, x)]
      OBVIOUS
    <2>3. Sound(c, k, s, f, r, a, o, p) /\ f \subseteq f1
      BY <1>2, <2>1, <2>2 DEF SoundAt
    <2>4. Ended(k, s, f1, r)
      BY <2>3 DEF Sound, Ended
    <2>5. \A i : Covered(s[1], f, o, i) => Covered(s[1], f1, o, i)
      BY <2>3 DEF Covered
    <2>6. Observed(k, s, f1, a, o)
      BY <2>3, <2>5 DEF Sound, Observed
    <2>7. Sound(c, k, s, f1, r, a, o, p)
      BY <2>3, <2>4, <2>6 DEF Sound
    <2>8. [x \in Ends |-> InPipe(c, x)]' = p
      BY <1>1, <2>2 DEF InPipe, thread
    <2> QED
      BY <1>1, <2>2, <2>7, <2>8 DEF SoundAt, netVars
  <1>7. (\A c1 \in Conns : SoundAt(c1))'
    BY <1>5, <1>6
  <1> QED
    BY <1>3, <1>4, <1>7 DEF PumpInv

\* An end is reset, or takes what its socket holds: no unit moves.
LEMMA ResetInv ==
  ASSUME PumpInv, NEW c \in Conns, NEW e \in Ends, Reset(c, e) \/ Drain(c, e)
  PROVE  PumpInv'
  <1>1. UNCHANGED <<sent, fin, arrived, read, conn, observed, pipe, nosplice, thread>>
    BY DEF Reset, Drain, netVars, endVars
  <1>2. reset' \in [Conns -> SUBSET Ends] /\ room' \in [Conns -> [Ends -> 0 .. Cap]]
    <2>1. CASE Reset(c, e)
      BY <2>1 DEF PumpInv, Types, Reset, netVars
    <2>2. CASE Drain(c, e)
      <3>1. Cap \in 0 .. Cap
        BY PumpAssumption
      <3>2. room' = [room EXCEPT ![c] = [room[c] EXCEPT ![e] = Cap]] /\ reset' = reset
        BY <2>2 DEF Drain, endVars
      <3>3. [room[c] EXCEPT ![e] = Cap] \in [Ends -> 0 .. Cap]
        BY <3>1 DEF PumpInv, Types
      <3> QED
        BY <3>2, <3>3 DEF PumpInv, Types
    <2> QED
      BY <2>1, <2>2
  <1>3. Types'
    BY <1>1, <1>2 DEF PumpInv, Types, thread
  <1>4. Placed'
    BY <1>1 DEF PumpInv, Placed, thread
  <1>5. ASSUME NEW c1 \in Conns PROVE SoundAt(c1)'
    BY <1>1, StillSound DEF PumpInv, thread
  <1>6. (\A c1 \in Conns : SoundAt(c1))'
    BY <1>5
  <1> QED
    BY <1>3, <1>4, <1>6 DEF PumpInv

\* The thread asks for the next batch, or takes an event of it up.
LEMMA PollInv ==
  ASSUME PumpInv, Poll
  PROVE  PumpInv'
  <1>1. /\ evs' = {ci \in Conns \X Ends : Ready(ci[1], ci[2])}
                    \cup {<<c, 2>> : c \in {x \in Conns : conn[x].st = "queued"}}
        /\ UNCHANGED <<endVars, netVars, conn, observed, pipe, nosplice, pc, cur, d, iter, prog>>
    BY DEF Poll
  <1>2. evs' \subseteq Conns \X {0, 1, 2}
    BY <1>1 DEF Ends
  <1>3. Types'
    BY <1>1, <1>2 DEF PumpInv, Types, endVars, netVars
  <1>4. ASSUME NEW c \in Conns, NEW i \in {0, 1, 2}, <<c, i>> \in evs'
        PROVE  conn[c].st = "queued" <=> i = 2
    <2>1. CASE <<c, i>> \in {ci \in Conns \X Ends : Ready(ci[1], ci[2])}
      <3>1. Ready(c, i) /\ i \in Ends
        BY <2>1
      <3> QED
        BY <3>1 DEF Ready, Ends
    <2>2. CASE \E x \in Conns : conn[x].st = "queued" /\ <<c, i>> = <<x, 2>>
      BY <2>2
    <2> QED
      BY <1>1, <1>4, <2>1, <2>2
  <1>5. Placed'
    BY <1>1, <1>4 DEF PumpInv, Placed
  <1>6. ASSUME NEW c \in Conns PROVE SoundAt(c)'
    BY <1>1, StillSound DEF PumpInv, endVars, netVars
  <1>7. (\A c \in Conns : SoundAt(c))'
    BY <1>6
  <1> QED
    BY <1>3, <1>5, <1>7 DEF PumpInv

\* With nothing in the pipe, it does not matter for whom the thread works.
LEMMA NoneInPipe ==
  ASSUME PumpInv, pc # "splice", NEW c \in Conns
  PROVE  /\ [x \in Ends |-> InPipe(c, x)] = NoPipe
         /\ pc' # "splice" => [x \in Ends |-> InPipe(c, x)]' = NoPipe
  BY DEF InPipe, NoPipe

\* An event of the batch starts a turn, or is skipped.
LEMMA ServeInv ==
  ASSUME PumpInv, NEW c \in Conns, NEW i \in Ends, Serve(c, i)
  PROVE  PumpInv'
  <1>1. /\ pc = "batch" /\ <<c, i>> \in evs /\ evs' = evs \ {<<c, i>>}
        /\ UNCHANGED <<endVars, netVars, conn, observed, pipe, nosplice>>
    BY DEF Serve
  <1>2. \/ UNCHANGED <<pc, cur, d, iter, prog>>
        \/ /\ conn[c].st # "closed" /\ pc' = "pump" /\ cur' = c /\ d' = 0 /\ iter' = 0
           /\ prog' = FALSE
    BY DEF Serve
  <1>3. Types'
    <2>1. 0 \in 0 .. MaxIter /\ 0 \in Ends
      BY PumpAssumption DEF Ends
    <2> QED
      BY <1>1, <1>2, <2>1 DEF PumpInv, Types, endVars, netVars
  <1>4. Placed'
    <2>0. i \in {0, 1, 2} /\ i # 2
      BY DEF Ends
    <2>1. conn[c].st # "queued"
      BY <1>1, <2>0 DEF PumpInv, Placed
    <2>2. conn[c].st # "closed" => conn[c].st = "open"
      BY <2>1 DEF PumpInv, Types, Conn
    <2> QED
      BY <1>1, <1>2, <2>2 DEF PumpInv, Placed
  <1>5. pc' # "splice"
    BY <1>1, <1>2
  <1>6. ASSUME NEW c1 \in Conns PROVE SoundAt(c1)'
    <2>1. SoundAt(c1) /\ [x \in Ends |-> InPipe(c1, x)]' = [x \in Ends |-> InPipe(c1, x)]
      BY <1>1, <1>5, NoneInPipe DEF PumpInv
    <2> QED
      BY <1>1, <2>1 DEF SoundAt, endVars, netVars
  <1>7. (\A c1 \in Conns : SoundAt(c1))'
    BY <1>6
  <1> QED
    BY <1>3, <1>4, <1>7 DEF PumpInv

\* A sound open connection may be closed at any time.
LEMMA CloseSound ==
  ASSUME NEW c \in Conns, NEW k \in Conn, k.st # "closed", NEW s, NEW f,
         NEW r \in [Ends -> Nat], NEW a \in [Ends -> Seq(Unit)], NEW o, NEW p, NEW p1,
         Sound(c, k, s, f, r, a, o, p)
  PROVE  Sound(c, Dead(k), s, f, r, a, o, p1)
  <1>1. Framed(k, s, r) /\ Ended(k, s, f, r) /\ Observed(k, s, f, a, o)
    BY DEF Sound
  <1>2. ASSUME NEW e \in Ends
        PROVE  r[e] \in Nat /\ \E x \in 0 .. r[e] : a[1 - e] = Stream(c, e, 0, x)
    <2>1. Stretches(c, e, k, r[e], a[1 - e], p[e])
      BY DEF Sound
    <2>2. PICK x, y, z \in Nat : x <= y /\ y <= z /\ z <= r[e] /\ a[1 - e] = Stream(c, e, 0, x)
      BY <2>1 DEF Stretches
    <2>3. r[e] \in Nat
      OBVIOUS
    <2>4. x \in 0 .. r[e]
      BY <2>2, <2>3
    <2> QED
      BY <2>2, <2>3, <2>4
  <1>3. ASSUME k.dns, NEW i \in 1 .. Len(a[0]), \A j \in 1 .. i : s[1][j] # "zero"
        PROVE  Covered(s[1], f, o, i)
    <2>1. Len(a[0]) \in Nat /\ Len(k.pend[1]) \in Nat
      BY LenProperties DEF Conn, Ends
    <2>2. i \in 1 .. Gone(k, a)
      <3>1. PICK l, q \in Nat : l = Len(a[0]) /\ q = Len(k.pend[1])
        BY <2>1
      <3>2. i \in 1 .. l
        BY <1>3, <3>1
      <3>3. i \in 1 .. l + q
        BY <3>2
      <3> QED
        BY <3>1, <3>3 DEF Gone
    <2> QED
      BY <1>1, <1>3, <2>2 DEF Observed
  <1> QED
    BY <1>1, <1>2, <1>3, DeadSound

\* A connection that waits without a thread is given a new struct, itself sound.
LEMMA GivenInv ==
  ASSUME PumpInv, pc = "batch", NEW c \in Conns, NEW k \in Conn,
         conn' = [conn EXCEPT ![c] = k], evs' \subseteq evs,
         UNCHANGED <<endVars, netVars, observed, pipe, nosplice>>,
         pc' \in {"batch", "pump"}, pc' = "pump" => cur' = c /\ k.st = "open",
         cur' \in Conns \cup {None}, d' \in Ends, iter' \in 0 .. MaxIter, prog' \in BOOLEAN,
         \A i \in {0, 1, 2} : <<c, i>> \in evs' => (k.st = "queued" <=> i = 2),
         Sound(c, k, sent[c], fin[c], read[c], arrived[c], observed[c], NoPipe)
  PROVE  PumpInv'
  <1>1. /\ conn' \in [Conns -> Conn] /\ conn'[c] = k
        /\ \A c1 \in Conns \ {c} : conn'[c1] = conn[c1]
    BY DEF PumpInv, Types
  <1>2. Types'
    BY <1>1 DEF PumpInv, Types, endVars, netVars
  <1>3. Placed'
    <2>1. ASSUME NEW c1 \in Conns, NEW i \in {0, 1, 2}, <<c1, i>> \in evs'
          PROVE  conn'[c1].st = "queued" <=> i = 2
      BY <1>1, <2>1 DEF PumpInv, Placed
    <2> QED
      BY <1>1, <2>1 DEF PumpInv, Placed
  <1>4. ASSUME NEW c1 \in Conns PROVE [x \in Ends |-> InPipe(c1, x)]' = NoPipe
                                      /\ [x \in Ends |-> InPipe(c1, x)] = NoPipe
    BY NoneInPipe
  <1>5. ASSUME NEW c1 \in Conns PROVE SoundAt(c1)'
    <2>1. CASE c1 = c
      BY <1>1, <1>4, <2>1 DEF SoundAt, endVars, netVars
    <2>2. CASE c1 # c
      <3>1. SoundAt(c1)
        BY DEF PumpInv
      <3> QED
        BY <1>1, <1>4, <2>2, <3>1 DEF SoundAt, endVars, netVars
    <2> QED
      BY <2>1, <2>2
  <1>6. (\A c1 \in Conns : SoundAt(c1))'
    BY <1>5
  <1> QED
    BY <1>2, <1>3, <1>6 DEF PumpInv

\* The sweep closes a connection.
LEMMA IdleCloseInv ==
  ASSUME PumpInv, NEW c \in Conns, IdleClose(c)
  PROVE  PumpInv'
  <1>1. /\ pc = "batch" /\ conn[c].st = "open" /\ conn' = [conn EXCEPT ![c] = Dead(conn[c])]
        /\ evs = {} /\ UNCHANGED <<endVars, netVars, observed, pipe, nosplice, thread>>
    BY DEF IdleClose
  <1>2. PICK k : k = Dead(conn[c])
    OBVIOUS
  <1>3. conn[c] \in Conn /\ k \in Conn /\ k.st = "closed"
    BY <1>2, DeadIs DEF PumpInv, Types
  <1>4. Sound(c, conn[c], sent[c], fin[c], read[c], arrived[c], observed[c],
              [x \in Ends |-> InPipe(c, x)])
    BY DEF PumpInv, SoundAt
  <1>5. read[c] \in [Ends -> Nat] /\ arrived[c] \in [Ends -> Seq(Unit)]
    BY DEF PumpInv, Types
  <1>6. Sound(c, k, sent[c], fin[c], read[c], arrived[c], observed[c], NoPipe)
    BY <1>1, <1>2, <1>3, <1>4, <1>5, CloseSound
  <1>7. /\ cur' \in Conns \cup {None} /\ d' \in Ends /\ iter' \in 0 .. MaxIter
        /\ prog' \in BOOLEAN /\ evs' = {} /\ pc' = "batch"
    BY <1>1 DEF PumpInv, Types, thread
  <1> QED
    BY <1>1, <1>2, <1>3, <1>6, <1>7, GivenInv

\* The thread takes a connection over.
LEMMA AdoptInv ==
  ASSUME PumpInv, NEW c \in Conns, Adopt(c)
  PROVE  PumpInv'
  <1>1. PICK k : k = [conn[c] EXCEPT !.st = "open"]
    OBVIOUS
  <1>2. /\ pc = "batch" /\ <<c, 2>> \in evs /\ evs' = evs \ {<<c, 2>>}
        /\ UNCHANGED <<endVars, netVars, observed, pipe, nosplice>>
    BY DEF Adopt
  <1>3. \/ /\ conn' = [conn EXCEPT ![c] = k]
           /\ pc' = "pump" /\ cur' = c /\ d' = 0 /\ iter' = 0 /\ prog' = FALSE
        \/ Update(c, k)
    BY <1>1 DEF Adopt
  <1>4. conn[c] \in Conn /\ conn[c].st = "queued"
    BY <1>2 DEF PumpInv, Types, Placed
  <1>5. /\ k \in Conn /\ k.st = "open" /\ k.dns = conn[c].dns /\ k.eof = conn[c].eof
        /\ k.shut = conn[c].shut /\ k.doff = conn[c].doff /\ k.pend = conn[c].pend
        /\ k.dbuf = conn[c].dbuf
    BY <1>1, <1>4 DEF Conn
  <1>6. Sound(c, k, sent[c], fin[c], read[c], arrived[c], observed[c], NoPipe)
    <2>1. Sound(c, conn[c], sent[c], fin[c], read[c], arrived[c], observed[c], NoPipe)
      BY <1>2, NoneInPipe DEF PumpInv, SoundAt
    <2>2. Framed(k, sent[c], read[c]) /\ Buffered(k) /\ Ended(k, sent[c], fin[c], read[c])
      BY <1>5, <2>1 DEF Sound, Framed, Buffered, Ended
    <2>3. Observed(k, sent[c], fin[c], arrived[c], observed[c])
      BY <1>4, <1>5, <2>1 DEF Sound, Observed, Gone
    <2>4. ASSUME NEW e \in Ends
          PROVE  Stretches(c, e, k, read[c][e], arrived[c][1 - e], NoPipe[e])
      <3>1. Stretches(c, e, conn[c], read[c][e], arrived[c][1 - e], NoPipe[e])
        BY <2>1 DEF Sound
      <3> QED
        BY <1>4, <1>5, <3>1 DEF Stretches
    <2> QED
      BY <2>2, <2>3, <2>4 DEF Sound
  <1>7. \A i \in Ends : <<c, i>> \notin evs'
    BY <1>2, <1>4 DEF PumpInv, Placed, Ends
  <1>8. \A i \in {0, 1, 2} : <<c, i>> \notin evs'
    BY <1>2, <1>7 DEF Ends
  <1>9. 0 \in 0 .. MaxIter /\ 0 \in Ends /\ evs' \subseteq evs
    BY <1>2, PumpAssumption DEF Ends
  <1>10. CASE /\ conn' = [conn EXCEPT ![c] = k]
              /\ pc' = "pump" /\ cur' = c /\ d' = 0 /\ iter' = 0 /\ prog' = FALSE
    <2>1. /\ cur' \in Conns \cup {None} /\ d' \in Ends /\ iter' \in 0 .. MaxIter
          /\ prog' \in BOOLEAN
      BY <1>9, <1>10
    <2> QED
      BY <1>2, <1>5, <1>6, <1>8, <1>9, <1>10, <2>1, GivenInv
  <1>11. CASE Update(c, k)
    <2>1. PICK k1 : Follows(k, k1, 0) /\ conn' = [conn EXCEPT ![c] = k1]
      BY <1>5, <1>9, <1>11, UpdateIs
    <2>2. Served
      BY <1>5, <1>9, <1>11, UpdateIs
    <2>3. arrived[c] \in [Ends -> Seq(Unit)]
      BY DEF PumpInv, Types
    <2>4. Sound(c, k1, sent[c], fin[c], read[c], arrived[c], observed[c], NoPipe)
      BY <1>5, <1>6, <1>9, <2>1, <2>3, FollowsSound
    <2>5. k1 \in Conn
      BY <2>1 DEF Follows
    <2>6. /\ cur' \in Conns \cup {None} /\ d' \in Ends /\ iter' \in 0 .. MaxIter
          /\ prog' \in BOOLEAN /\ pc' = "batch"
      BY <1>9, <2>2 DEF Served
    <2> QED
      BY <1>2, <1>8, <1>9, <2>1, <2>4, <2>5, <2>6, GivenInv
  <1> QED
    BY <1>3, <1>10, <1>11

------------------------------------------------------------------------------
(* The steps of the thread, and what they are of ByteStreams.                   *)

StreamStep == [Streams!Next]_(Streams!streams)

\* A step of the thread is an arrival, perhaps with the end of the stream or with the
\* connection cut, or a cut, or nothing.
LEMMA ArriveStep ==
  ASSUME Types, Types', cur \in Conns, conn[cur].st = "open", Onward,
         NEW k1 \in Conn, conn' = [conn EXCEPT ![cur] = k1], k1.st \in {"open", "closed"},
         Len(arrived'[cur][1 - d]) <= Len(sent[cur][d]),
         \/ k1.shut = conn[cur].shut
         \/ /\ d \notin conn[cur].shut /\ k1.shut = conn[cur].shut \cup {d} /\ d \in fin[cur]
            /\ Len(arrived'[cur][1 - d]) = Len(sent[cur][d])
  PROVE  StreamStep
  <1>1. PICK c \in Conns, e \in Ends : c = cur /\ e = 1 - d
    BY DEF Types, Ends
  <1>2. d \in Ends /\ d = 1 - e /\ e # d /\ \A x \in Ends : x = e \/ x = d
    BY <1>1 DEF Types, Ends
  <1>3. PICK W, A, A1, T, T1, C, C1 :
          /\ W = [x \in Conns |-> [y \in Ends |-> Len(sent[x][y])]]
          /\ A = [x \in Conns |-> [y \in Ends |-> Len(arrived[x][y])]]
          /\ A1 = [x \in Conns |-> [y \in Ends |-> Len(arrived'[x][y])]]
          /\ T = [x \in Conns |-> {1 - y : y \in conn[x].shut}]
          /\ T1 = [x \in Conns |-> {1 - y : y \in conn'[x].shut}]
          /\ C = {x \in Conns : conn[x].st = "closed"}
          /\ C1 = {x \in Conns : conn'[x].st = "closed"}
    OBVIOUS
  <1>4. /\ conn'[c] = k1 /\ \A x \in Conns \ {c} : conn'[x] = conn[x]
    BY <1>1 DEF Types
  <1>5. sent' = sent /\ fin' = fin
    BY DEF Onward, endVars
  <1>6. /\ A[c][d] = A1[c][d] /\ \A x \in Conns \ {c} : A1[x] = A[x]
    BY <1>1, <1>2, <1>3 DEF Onward
  <1>7. A[c][e] \in Nat /\ A1[c][e] \in Nat /\ W[c][d] \in Nat /\ A[c][e] <= A1[c][e]
    <2>1. /\ arrived[c][e] \in Seq(Unit) /\ arrived'[c][e] \in Seq(Unit)
          /\ sent[c][d] \in Seq(Mark)
      BY <1>2 DEF Types
    <2> QED
      BY <1>1, <1>2, <1>3, <2>1, LenProperties DEF Onward
  <1>8. A1[c][e] <= W[c][d]
    BY <1>1, <1>2, <1>3
  <1>9. A1 = [A EXCEPT ![c] = [A[c] EXCEPT ![e] = A1[c][e]]]
    <2>1. PICK B : B = [A EXCEPT ![c] = [A[c] EXCEPT ![e] = A1[c][e]]]
      OBVIOUS
    <2>2. B = [x \in Conns |-> IF x = c THEN [A[c] EXCEPT ![e] = A1[c][e]] ELSE A[x]]
      BY <1>3, <2>1
    <2>3. A[c] = [y \in Ends |-> A[c][y]] /\ A1[c] = [y \in Ends |-> A1[c][y]]
      BY <1>3
    <2>4. [A[c] EXCEPT ![e] = A1[c][e]] = [y \in Ends |-> IF y = e THEN A1[c][e] ELSE A[c][y]]
      BY <2>3
    <2>5. A1[c] = [A[c] EXCEPT ![e] = A1[c][e]]
      BY <1>2, <1>6, <2>3, <2>4
    <2>6. A1 = [x \in Conns |-> A1[x]]
      BY <1>3
    <2> QED
      BY <1>6, <2>1, <2>2, <2>5, <2>6
  <1>10. C1 \in {C, C \cup {c}}
    BY <1>1, <1>3, <1>4
  <1>11. c \notin C
    BY <1>1, <1>3
  <1>12. conn[c] \in Conn
    BY DEF Types
  <1>15. conn[c].shut \subseteq Ends /\ 1 - d = e
    BY <1>1, <1>12 DEF Conn
  <1>16. d \notin conn[c].shut => e \notin T[c]
    <2>1. ASSUME NEW y \in conn[c].shut, e = 1 - y PROVE y = d
      BY <1>2, <1>15, <2>1 DEF Ends
    <2> QED
      BY <1>3, <2>1
  <1>17. ASSUME e \notin T[c],
                \/ T1 = T
                \/ A1[c][e] = W[c][d] /\ d \in fin[c] /\ T1 = [T EXCEPT ![c] = T[c] \cup {e}]
         PROVE  Streams!Arrive(c, e)
    <2>1. A1[c][e] \in A[c][e] .. W[c][1 - e]
      BY <1>2, <1>7, <1>8
    <2>2. A1 = [A EXCEPT ![c][e] = A1[c][e]]
      BY <1>9
    <2>3. \E n \in A[c][e] .. W[c][1 - e] :
            /\ A1 = [A EXCEPT ![c][e] = n]
            /\ \/ T1 = T
               \/ /\ n = W[c][1 - e] /\ 1 - e \in fin[c]
                  /\ T1 = [T EXCEPT ![c] = T[c] \cup {e}]
      BY <1>2, <1>17, <2>1, <2>2
    <2>4. W = [x \in Conns |-> [y \in Ends |-> Len(sent'[x][y])]]
      BY <1>3, <1>5
    <2> QED
      BY <1>3, <1>5, <1>10, <1>11, <1>17, <2>3, <2>4 DEF Streams!Arrive
  <1>13. CASE k1.shut = conn[c].shut
    <2>1. T1 = T
      BY <1>3, <1>4, <1>13
    <2>2. CASE A1 = A
      <3>1. CASE C1 = C
        BY <1>3, <1>5, <2>1, <2>2, <3>1 DEF StreamStep, Streams!streams
      <3>2. CASE C1 = C \cup {c}
        <4>1. Streams!Cut(c)
          BY <1>3, <1>5, <2>1, <2>2, <3>2 DEF Streams!Cut
        <4> QED
          BY <4>1 DEF StreamStep, Streams!Next
      <3> QED
        BY <1>10, <3>1, <3>2
    <2>3. CASE A1 # A
      <3>1. d \notin conn[c].shut
        <4>1. CASE arrived'[c] = arrived[c]
          <5>1. A1[c] = A[c]
            BY <1>3, <4>1
          <5>2. A1 = A
            BY <1>3, <1>6, <5>1
          <5> QED
            BY <2>3, <5>2
        <4> QED
          BY <1>1, <4>1 DEF Onward
      <3>2. e \notin T[c]
        BY <1>16, <3>1
      <3>3. Streams!Arrive(c, e)
        BY <1>17, <2>1, <3>2
      <3> QED
        BY <1>1, <3>3 DEF StreamStep, Streams!Next, Streams!Ends, Ends
    <2> QED
      BY <2>2, <2>3
  <1>14. CASE /\ d \notin conn[c].shut /\ k1.shut = conn[c].shut \cup {d} /\ d \in fin[c]
              /\ A1[c][e] = W[c][d]
    <2>1. e \notin T[c]
      BY <1>14, <1>16
    <2>2. T1[c] = T[c] \cup {e} /\ \A x \in Conns \ {c} : T1[x] = T[x]
      <3>1. T1[c] = {1 - y : y \in conn[c].shut \cup {d}}
        BY <1>3, <1>4, <1>14
      <3>2. T1[c] = {1 - y : y \in conn[c].shut} \cup {1 - d}
        BY <3>1
      <3> QED
        BY <1>3, <1>4, <1>15, <3>2
    <2>3. T1 = [T EXCEPT ![c] = T[c] \cup {e}]
      BY <1>3, <2>2
    <2>4. Streams!Arrive(c, e)
      BY <1>14, <1>17, <2>1, <2>3
    <2> QED
      BY <1>1, <2>4 DEF StreamStep, Streams!Next, Streams!Ends, Ends
  <1> QED
    BY <1>1, <1>2, <1>3, <1>13, <1>14

\* The thread at work: it serves a sound, open connection.
LEMMA AtWork ==
  ASSUME PumpInv, pc # "batch"
  PROVE  /\ cur \in Conns /\ d \in Ends /\ 1 - d \in Ends /\ 1 - d # d /\ 1 - (1 - d) = d
         /\ k0 \in Conn /\ k0.st = "open" /\ k0 = conn[cur]
         /\ read[cur] \in [Ends -> Nat] /\ arrived[cur] \in [Ends -> Seq(Unit)]
         /\ sent[cur] \in [Ends -> Seq(Mark)] /\ room[cur] \in [Ends -> 0 .. Cap]
         /\ Sound(cur, k0, sent[cur], fin[cur], read[cur], arrived[cur], observed[cur],
                  [x \in Ends |-> InPipe(cur, x)])
         /\ pc # "splice" =>
              Sound(cur, k0, sent[cur], fin[cur], read[cur], arrived[cur], observed[cur], NoPipe)
  <1>1. cur \in Conns /\ k0 = conn[cur] /\ k0.st = "open" /\ d \in Ends
    BY DEF PumpInv, Types, Placed, k0
  <1>2. 1 - d \in Ends /\ 1 - d # d /\ 1 - (1 - d) = d
    BY <1>1 DEF Ends
  <1>3. /\ k0 \in Conn /\ read[cur] \in [Ends -> Nat] /\ arrived[cur] \in [Ends -> Seq(Unit)]
        /\ sent[cur] \in [Ends -> Seq(Mark)] /\ room[cur] \in [Ends -> 0 .. Cap]
    BY <1>1 DEF PumpInv, Types
  <1>4. Sound(cur, k0, sent[cur], fin[cur], read[cur], arrived[cur], observed[cur],
              [x \in Ends |-> InPipe(cur, x)])
    BY <1>1 DEF PumpInv, SoundAt
  <1>5. pc # "splice" => [x \in Ends |-> InPipe(cur, x)] = NoPipe
    BY <1>1, NoneInPipe
  <1> QED
    BY <1>1, <1>2, <1>3, <1>4, <1>5

\* What has arrived of a stream was written.
LEMMA ArrivedBound ==
  ASSUME NEW c \in Conns, NEW k, NEW s \in [Ends -> Seq(Mark)], NEW f,
         NEW r \in [Ends -> Nat], NEW a \in [Ends -> Seq(Unit)], NEW o, NEW p,
         Sound(c, k, s, f, r, a, o, p), NEW e \in Ends
  PROVE  Len(a[1 - e]) <= Len(s[e])
  <1>1. Stretches(c, e, k, r[e], a[1 - e], p[e])
    BY DEF Sound
  <1>2. PICK x \in Nat : x <= r[e] /\ a[1 - e] = Stream(c, e, 0, x)
    BY <1>1 DEF Stretches
  <1>3. r[e] \in Nat /\ Len(s[e]) \in Nat /\ r[e] <= Len(s[e])
    <2>1. s[e] \in Seq(Mark)
      OBVIOUS
    <2> QED
      BY <2>1, LenProperties DEF Sound, Framed
  <1>4. Len(a[1 - e]) = x
    <2>1. Len(Stream(c, e, 0, x)) = x - 0
      BY StreamIs
    <2> QED
      BY <1>2, <2>1
  <1> QED
    BY <1>2, <1>3, <1>4

\* Stream e is over and has arrived to its last unit.
AllArrived(s, f, a, e) == e \in f /\ Len(a[1 - e]) = Len(s[e])

\* Of a stream that has ended with nothing pending, all has arrived.
LEMMA ArrivedAll ==
  ASSUME NEW c \in Conns, NEW k, NEW s, NEW f,
         NEW r \in [Ends -> Nat], NEW a \in [Ends -> Seq(Unit)], NEW o,
         Sound(c, k, s, f, r, a, o, NoPipe), NEW e \in Ends,
         k.st = "open", e \in k.eof, k.pend[e] = <<>>
  PROVE  AllArrived(s, f, a, e)
  <1>1. Stretches(c, e, k, r[e], a[1 - e], NoPipe[e])
    BY DEF Sound
  <1>2. PICK x, y, z \in Nat :
          /\ x <= y /\ y <= z /\ z <= r[e] /\ a[1 - e] = Stream(c, e, 0, x)
          /\ NoPipe[e] = Stream(c, e, x, y) /\ k.pend[e] = Stream(c, e, y, z)
          /\ (IF e = 1 THEN k.dbuf ELSE <<>>) = Stream(c, e, z, r[e])
    BY <1>1 DEF Stretches
  <1>3. r[e] \in Nat
    OBVIOUS
  <1>4. Len(a[1 - e]) = x
    <2>1. Len(Stream(c, e, 0, x)) = x - 0
      BY StreamIs
    <2> QED
      BY <1>2, <2>1
  <1>5. e \in f /\ r[e] = Len(s[e])
    BY DEF Sound, Ended
  <1>6. (IF e = 1 THEN k.dbuf ELSE <<>>) = <<>>
    BY DEF Sound, Buffered
  <1>7. NoPipe[e] = <<>>
    BY DEF NoPipe
  <1>8. x = y /\ y = z /\ z = r[e]
    <2>1. Stream(c, e, x, y) = <<>> <=> x = y
      BY <1>2, StreamEmpty
    <2>2. Stream(c, e, y, z) = <<>> <=> y = z
      BY <1>2, StreamEmpty
    <2>3. Stream(c, e, z, r[e]) = <<>> <=> z = r[e]
      BY <1>2, <1>3, StreamEmpty
    <2> QED
      BY <1>2, <1>6, <1>7, <2>1, <2>2, <2>3
  <1> QED
    BY <1>4, <1>5, <1>8 DEF AllArrived

\* A turn that ends with a sound struct.
LEMMA Advances ==
  ASSUME PumpInv, pc # "batch", NEW k \in Conn, k.st = "open", k.shut = k0.shut,
         NEW p \in BOOLEAN, Turned(k, p), Onward,
         Sound(cur, k, sent[cur], fin[cur], read'[cur], arrived'[cur], observed'[cur], NoPipe)
  PROVE  PumpInv' /\ StreamStep
  <1>1. cur \in Conns /\ d \in Ends /\ k0 = conn[cur] /\ k0.st = "open" /\ Types
    BY AtWork DEF PumpInv
  <1>2. PICK k1 : Follows(k, k1, d) /\ Lands(k, k1)
    BY <1>1, TurnedIs
  <1>3. k1 \in Conn /\ k1.st \in {"open", "closed"}
    BY <1>2 DEF Follows
  <1>4. /\ arrived'[cur] \in [Ends -> Seq(Unit)] /\ read'[cur] \in [Ends -> Nat]
        /\ sent[cur] \in [Ends -> Seq(Mark)]
    BY <1>1, AtWork DEF Onward
  <1>5. Sound(cur, k1, sent[cur], fin[cur], read'[cur], arrived'[cur], observed'[cur], NoPipe)
    BY <1>1, <1>2, <1>4, FollowsSound
  <1>6. PumpInv'
    BY <1>2, <1>3, <1>5, LandsSound
  <1>7. /\ Len(arrived'[cur][1 - d]) <= Len(sent[cur][d])
        /\ d \in k.eof /\ k.pend[d] = <<>> =>
             d \in fin[cur] /\ Len(arrived'[cur][1 - d]) = Len(sent[cur][d])
    <2>1. Len(arrived'[cur][1 - d]) <= Len(sent[cur][d])
      BY <1>1, <1>4, ArrivedBound
    <2>2. ASSUME d \in k.eof, k.pend[d] = <<>>
          PROVE  d \in fin[cur] /\ Len(arrived'[cur][1 - d]) = Len(sent[cur][d])
      <3>1. AllArrived(sent[cur], fin[cur], arrived'[cur], d)
        BY <1>1, <1>4, <2>2, ArrivedAll
      <3> QED
        BY <3>1 DEF AllArrived
    <2> QED
      BY <2>1, <2>2
  <1>8. conn' = [conn EXCEPT ![cur] = k1]
    BY <1>2 DEF Lands
  <1>9. \/ k1.shut = conn[cur].shut
        \/ /\ d \notin conn[cur].shut /\ k1.shut = conn[cur].shut \cup {d} /\ d \in fin[cur]
           /\ Len(arrived'[cur][1 - d]) = Len(sent[cur][d])
    BY <1>1, <1>2, <1>7 DEF Follows
  <1>10. StreamStep
    BY <1>1, <1>3, <1>6, <1>7, <1>8, <1>9, ArriveStep DEF PumpInv
  <1> QED
    BY <1>6, <1>10

\* A turn that closes the connection.
LEMMA GivesUp ==
  ASSUME PumpInv, pc # "batch", Fatal, Onward,
         Framed(k0, sent[cur], read'[cur]), Ended(k0, sent[cur], fin[cur], read'[cur]),
         \A e \in Ends : \E x \in 0 .. read'[cur][e] : arrived'[cur][1 - e] = Stream(cur, e, 0, x),
         k0.dns => \A i \in 1 .. Len(arrived'[cur][0]) :
                     (\A j \in 1 .. i : sent[cur][1][j] # "zero") =>
                       Covered(sent[cur][1], fin[cur], observed'[cur], i)
  PROVE  PumpInv' /\ StreamStep
  <1>1. cur \in Conns /\ d \in Ends /\ k0 = conn[cur] /\ k0.st = "open" /\ k0 \in Conn /\ Types
    BY AtWork DEF PumpInv
  <1>2. PICK k1 : k1 = Dead(k0)
    OBVIOUS
  <1>3. k1 \in Conn /\ k1.st = "closed" /\ k1.shut = k0.shut
    BY <1>1, <1>2, DeadIs
  <1>4. /\ arrived'[cur] \in [Ends -> Seq(Unit)] /\ read'[cur] \in [Ends -> Nat]
        /\ sent[cur] \in [Ends -> Seq(Mark)]
    BY <1>1, AtWork DEF Onward
  <1>5. Sound(cur, k1, sent[cur], fin[cur], read'[cur], arrived'[cur], observed'[cur], NoPipe)
    BY <1>1, <1>2, <1>4, DeadSound
  <1>6. conn' = [conn EXCEPT ![cur] = k1] /\ Served /\ evs' = evs
    BY <1>1, <1>2 DEF Fatal
  <1>7. Lands(k0, k1)
    <2>1. 0 \in Ends /\ 0 \in 0 .. MaxIter
      BY PumpAssumption DEF Ends
    <2> QED
      BY <1>6, <2>1 DEF Lands, Served
  <1>8. PumpInv'
    BY <1>1, <1>3, <1>5, <1>7, LandsSound
  <1>9. Len(arrived'[cur][1 - d]) <= Len(sent[cur][d])
    BY <1>1, <1>3, <1>4, <1>5, ArrivedBound
  <1>10. StreamStep
    BY <1>1, <1>3, <1>6, <1>8, <1>9, ArriveStep DEF PumpInv
  <1> QED
    BY <1>8, <1>10

\* Struct k1 is k with q in the pending buffer of direction e.
Pended(k, k1, e, q) ==
  /\ k1 \in Conn /\ k1.dns = k.dns /\ k1.eof = k.eof /\ k1.doff = k.doff
  /\ k1.shut = k.shut /\ k1.st = k.st /\ k1.dbuf = k.dbuf
  /\ k1.pend[e] = q /\ \A x \in Ends \ {e} : k1.pend[x] = k.pend[x]

\* Putting a tail into the pending buffer changes nothing else.
LEMMA PendIs ==
  ASSUME NEW k \in Conn, NEW e \in Ends, NEW q \in Seq(Unit),
         NEW k1, k1 = [k EXCEPT !.pend[e] = q]
  PROVE  Pended(k, k1, e, q)
  <1>1. PICK m : m = [k.pend EXCEPT ![e] = q]
    OBVIOUS
  <1>2. m \in [Ends -> Seq(Unit)] /\ m[e] = q /\ \A x \in Ends \ {e} : m[x] = k.pend[x]
    BY <1>1 DEF Conn
  <1>3. k1 = [k EXCEPT !.pend = m]
    BY <1>1
  <1>4. /\ k1 \in Conn /\ k1.dns = k.dns /\ k1.eof = k.eof /\ k1.doff = k.doff
        /\ k1.shut = k.shut /\ k1.st = k.st /\ k1.dbuf = k.dbuf /\ k1.pend = m
    BY <1>2, <1>3 DEF Conn
  <1> QED
    BY <1>2, <1>4 DEF Pended

\* The socket takes a beginning of what it is given, the rest is the tail.
LEMMA PushIs ==
  ASSUME PumpInv, pc # "batch", NEW x \in Nat, NEW y \in Nat, x <= y,
         arrived[cur][1 - d] = Stream(cur, d, 0, x), NEW us, us = Stream(cur, d, x, y), Push(us)
  PROVE  /\ \E t \in 0 .. y - x :
              /\ t = Taken(us) /\ arrived'[cur][1 - d] = Stream(cur, d, 0, x + t)
              /\ Rest(us) = Stream(cur, d, x + t, y)
         /\ arrived' \in [Conns -> [Ends -> Seq(Unit)]] /\ room' \in [Conns -> [Ends -> 0 .. Cap]]
         /\ arrived'[cur][d] = arrived[cur][d]
         /\ Len(arrived[cur][1 - d]) <= Len(arrived'[cur][1 - d])
         /\ \A c \in Conns \ {cur} : arrived'[c] = arrived[c]
  <1>1. PICK c \in Conns, e \in Ends : c = cur /\ e = 1 - d
    BY AtWork
  <1>2. d \in Ends /\ e # d
    BY <1>1, AtWork
  <1>3. PICK t, m : t = Taken(us) /\ m = room[c][e]
    OBVIOUS
  <1>4. m \in 0 .. Cap /\ Cap \in Nat
    <2>1. Cap \in Nat
      BY PumpAssumption
    <2>2. room[c] \in [Ends -> 0 .. Cap]
      BY <1>1, AtWork
    <2> QED
      BY <1>3, <2>1, <2>2
  <1>5. us \in Seq(Unit) /\ Len(us) = y - x
    BY <1>1, <1>2, StreamIs
  <1>6. t \in 0 .. y - x /\ t <= m
    <2>1. t = IF Len(us) < m THEN Len(us) ELSE m
      BY <1>1, <1>3 DEF Taken
    <2> QED
      BY <1>4, <1>5, <2>1
  <1>7. /\ SubSeq(us, 1, t) = Stream(c, d, x, x + t)
        /\ SubSeq(us, t + 1, y - x) = Stream(c, d, x + t, y)
    BY <1>1, <1>2, <1>6, StreamCuts, ZenonT(30)
  <1>8. Rest(us) = Stream(c, d, x + t, y)
    BY <1>3, <1>5, <1>7 DEF Rest
  <1>9. x + t \in Nat /\ x <= x + t /\ x + t <= y
    BY <1>6
  <1>10. PICK b : b = arrived[c][e] \o SubSeq(us, 1, t)
    OBVIOUS
  <1>11. b = Stream(c, d, 0, x + t)
    <2>1. PICK g, z : g = d /\ z = x + t
      OBVIOUS
    <2>2. g \in Ends /\ z \in Nat /\ x <= z
      BY <1>2, <1>9, <2>1
    <2>3. Stream(c, g, 0, x) \o Stream(c, g, x, z) = Stream(c, g, 0, z)
      BY <2>2, StreamGoesOn
    <2> QED
      BY <1>1, <1>3, <1>7, <1>10, <2>1, <2>3
  <1>12. b \in Seq(Unit) /\ Len(b) = x + t
    <2>1. PICK z : z = x + t
      OBVIOUS
    <2>2. z \in Nat /\ 0 <= z /\ 0 \in Nat /\ z - 0 = z
      BY <1>9, <2>1
    <2>3. Stream(c, d, 0, z) \in Seq(Unit) /\ Len(Stream(c, d, 0, z)) = z - 0
      BY <1>2, <2>2, StreamIs
    <2> QED
      BY <1>11, <2>1, <2>2, <2>3
  <1>13. Len(arrived[c][e]) = x
    <2>1. Len(Stream(c, d, 0, x)) = x - 0
      BY <1>2, StreamIs, SMTT(20)
    <2> QED
      BY <1>1, <2>1
  <1>14. arrived' = [arrived EXCEPT ![c] = [arrived[c] EXCEPT ![e] = b]]
    BY <1>1, <1>3, <1>10 DEF Push
  <1>15. /\ arrived' \in [Conns -> [Ends -> Seq(Unit)]] /\ arrived'[c][e] = b
         /\ arrived'[c][d] = arrived[c][d] /\ \A c1 \in Conns \ {c} : arrived'[c1] = arrived[c1]
    <2>1. PICK q : q = [arrived[c] EXCEPT ![e] = b]
      OBVIOUS
    <2>2. q \in [Ends -> Seq(Unit)] /\ q[e] = b /\ q[d] = arrived[c][d]
      BY <1>2, <1>12, <2>1 DEF PumpInv, Types
    <2> QED
      BY <1>14, <2>1, <2>2 DEF PumpInv, Types
  <1>16. room' \in [Conns -> [Ends -> 0 .. Cap]]
    <2>1. m - t \in 0 .. Cap
      BY <1>4, <1>6
    <2>2. room' = [room EXCEPT ![c] = [room[c] EXCEPT ![e] = m - t]]
      BY <1>1, <1>3 DEF Push
    <2>3. [room[c] EXCEPT ![e] = m - t] \in [Ends -> 0 .. Cap]
      BY <2>1 DEF PumpInv, Types
    <2> QED
      BY <2>2, <2>3 DEF PumpInv, Types
  <1>17. Len(arrived[c][e]) <= Len(arrived'[c][e])
    BY <1>9, <1>12, <1>13, <1>15
  <1> QED
    BY <1>1, <1>3, <1>6, <1>8, <1>11, <1>15, <1>16, <1>17

\* Reading adds to what was read in this direction.
LEMMA PullIs ==
  ASSUME PumpInv, pc # "batch", NEW n \in Nat, Pull(n)
  PROVE  /\ read' \in [Conns -> [Ends -> Nat]] /\ read'[cur][d] = read[cur][d] + n
         /\ read'[cur][1 - d] = read[cur][1 - d]
         /\ \A c \in Conns \ {cur} : read'[c] = read[c]
  <1>1. PICK c \in Conns, e \in Ends : c = cur /\ e = d
    BY AtWork
  <1>2. 1 - d \in Ends /\ 1 - d # e
    BY <1>1, AtWork
  <1>3. PICK m : m = read[c][e] + n
    OBVIOUS
  <1>4. m \in Nat
    BY <1>3, SMTT(20) DEF PumpInv, Types
  <1>5. read' = [read EXCEPT ![c] = [read[c] EXCEPT ![e] = m]]
    BY <1>1, <1>3 DEF Pull
  <1>6. PICK q : q = [read[c] EXCEPT ![e] = m]
    OBVIOUS
  <1>7. q \in [Ends -> Nat] /\ q[e] = m /\ \A x \in Ends \ {e} : q[x] = read[c][x]
    BY <1>4, <1>6 DEF PumpInv, Types
  <1>8. /\ read' \in [Conns -> [Ends -> Nat]] /\ read'[c] = q
        /\ \A c1 \in Conns \ {c} : read'[c1] = read[c1]
    BY <1>5, <1>6, <1>7 DEF PumpInv, Types
  <1> QED
    BY <1>1, <1>2, <1>3, <1>7, <1>8

\* Struct k becomes k1 as units of stream e of connection c are read, up to r1, and arrive,
\* as a1: those up to x have arrived, those up to y are pending, and dbuf is left alone.
Carries(c, e, k, k1, s, r, r1, a, a1, x, y) ==
  /\ k.st = "open" /\ k1.st = "open" /\ k1.dns = k.dns /\ k1.eof = k.eof /\ k1.shut = k.shut
  /\ k1.doff = k.doff /\ k1.dbuf = k.dbuf
  /\ k1.pend[1 - e] = k.pend[1 - e] /\ r1[1 - e] = r[1 - e] /\ a1[e] = a[e]
  /\ r1[e] <= Len(s[e]) /\ (e \in k.eof => r1[e] = r[e]) /\ (e \in k.shut => k1.pend[e] = <<>>)
  /\ k.dns => Gone(k1, a1) = Gone(k, a)
  /\ x <= y /\ y <= r1[e] /\ a1[1 - e] = Stream(c, e, 0, x) /\ k1.pend[e] = Stream(c, e, x, y)
  /\ (IF e = 1 THEN k.dbuf ELSE <<>>) = Stream(c, e, y, r1[e])

\* Units moved in one direction of a sound connection leave it sound.
LEMMA FlowSound ==
  ASSUME NEW c \in Conns, NEW k \in Conn, NEW k1 \in Conn, NEW e \in Ends, NEW s, NEW f,
         NEW r \in [Ends -> Nat], NEW a, NEW r1 \in [Ends -> Nat], NEW a1, NEW o, NEW p,
         Sound(c, k, s, f, r, a, o, p), p[1 - e] = <<>>, NEW x \in Nat, NEW y \in Nat,
         Carries(c, e, k, k1, s, r, r1, a, a1, x, y)
  PROVE  Sound(c, k1, s, f, r1, a1, o, NoPipe)
  <1>1. 1 - e \in Ends /\ \A z \in Ends : z = e \/ z = 1 - e
    BY DEF Ends
  <1>2. Framed(k1, s, r1)
    BY <1>1 DEF Sound, Framed, Carries
  <1>3. Buffered(k1)
    BY DEF Sound, Buffered, Carries
  <1>4. Ended(k1, s, f, r1)
    <2>1. Ended(k, s, f, r) /\ k.eof \subseteq Ends /\ k.shut \subseteq Ends
      BY DEF Sound, Conn
    <2>2. ASSUME NEW z \in k1.eof PROVE z \in f /\ r1[z] = Len(s[z])
      <3>1. z \in f /\ r[z] = Len(s[z]) /\ (z = e \/ z = 1 - e)
        BY <1>1, <2>1, <2>2 DEF Ended, Carries
      <3> QED
        BY <2>2, <3>1 DEF Carries
    <2>3. ASSUME NEW z \in k1.shut PROVE z \in k1.eof /\ k1.pend[z] = <<>>
      <3>1. z \in k.eof /\ k.pend[z] = <<>> /\ (z = e \/ z = 1 - e)
        BY <1>1, <2>1, <2>3 DEF Ended, Carries
      <3> QED
        BY <2>3, <3>1 DEF Carries
    <2> QED
      BY <2>2, <2>3 DEF Ended
  <1>5. Observed(k1, s, f, a1, o)
    BY DEF Sound, Observed, Carries
  <1>6. Stretches(c, e, k1, r1[e], a1[1 - e], NoPipe[e])
    <2>1. NoPipe[e] = Stream(c, e, x, x)
      BY StreamEmpty DEF NoPipe
    <2>2. x <= x /\ k1.st # "closed"
      BY DEF Carries
    <2>3. (IF e = 1 THEN k1.dbuf ELSE <<>>) = Stream(c, e, y, r1[e])
      BY DEF Carries
    <2>4. \E x1, y1, z1 \in Nat :
            /\ x1 <= y1 /\ y1 <= z1 /\ z1 <= r1[e] /\ a1[1 - e] = Stream(c, e, 0, x1)
            /\ NoPipe[e] = Stream(c, e, x1, y1) /\ k1.pend[e] = Stream(c, e, y1, z1)
            /\ (IF e = 1 THEN k1.dbuf ELSE <<>>) = Stream(c, e, z1, r1[e])
      BY <2>1, <2>2, <2>3 DEF Carries
    <2> QED
      BY <2>4 DEF Stretches
  <1>7. Stretches(c, 1 - e, k1, r1[1 - e], a1[1 - (1 - e)], NoPipe[1 - e])
    <2>1. Stretches(c, 1 - e, k, r[1 - e], a[1 - (1 - e)], p[1 - e])
      BY <1>1 DEF Sound
    <2>2. 1 - (1 - e) = e /\ NoPipe[1 - e] = <<>>
      BY <1>1 DEF NoPipe, Ends
    <2>3. Stretches(c, 1 - e, k, r1[1 - e], a1[1 - (1 - e)], NoPipe[1 - e])
      BY <2>1, <2>2 DEF Carries
    <2> QED
      BY <2>3 DEF Stretches, Carries
  <1> QED
    BY <1>1, <1>2, <1>3, <1>4, <1>5, <1>6, <1>7 DEF Sound

\* What arrived is a beginning of what was read, and of a tapped stream was covered.
LEMMA SoundBegins ==
  ASSUME NEW c \in Conns, NEW k \in Conn, NEW s, NEW f,
         NEW r \in [Ends -> Nat], NEW a \in [Ends -> Seq(Unit)], NEW o, NEW p,
         Sound(c, k, s, f, r, a, o, p)
  PROVE  /\ \A e \in Ends : \E x \in 0 .. r[e] : a[1 - e] = Stream(c, e, 0, x)
         /\ k.dns => \A i \in 1 .. Len(a[0]) :
                       (\A j \in 1 .. i : s[1][j] # "zero") => Covered(s[1], f, o, i)
  <1>1. ASSUME NEW e \in Ends
        PROVE  \E x \in 0 .. r[e] : a[1 - e] = Stream(c, e, 0, x)
    <2>1. Stretches(c, e, k, r[e], a[1 - e], p[e])
      BY DEF Sound
    <2>2. PICK x \in Nat : x <= r[e] /\ a[1 - e] = Stream(c, e, 0, x)
      BY <2>1 DEF Stretches
    <2>3. r[e] \in Nat
      OBVIOUS
    <2>4. x \in 0 .. r[e]
      BY <2>2, <2>3
    <2> QED
      BY <2>2, <2>4
  <1>2. ASSUME k.dns, NEW i \in 1 .. Len(a[0]), \A j \in 1 .. i : s[1][j] # "zero"
        PROVE  Covered(s[1], f, o, i)
    <2>1. PICK l, q \in Nat : l = Len(a[0]) /\ q = Len(k.pend[1])
      BY LenProperties DEF Conn, Ends
    <2>2. i \in 1 .. l
      BY <1>2, <2>1
    <2>3. i \in 1 .. l + q
      BY <2>2
    <2>4. i \in 1 .. Gone(k, a)
      BY <2>1, <2>3 DEF Gone
    <2> QED
      BY <1>2, <2>4 DEF Sound, Observed
  <1> QED
    BY <1>1, <1>2

\* A turn that fails, after it read and perhaps sent on: what arrived is still a beginning.
LEMMA FailsAfter ==
  ASSUME PumpInv, pc # "batch", Fatal, Onward, observed[cur] \subseteq observed'[cur],
         ~(k0.dns /\ d = 1) \/ arrived'[cur] = arrived[cur],
         read[cur][d] <= read'[cur][d], read'[cur][d] <= Len(sent[cur][d]),
         read'[cur][1 - d] = read[cur][1 - d], d \in k0.eof => read'[cur][d] = read[cur][d],
         NEW x \in 0 .. read'[cur][d], arrived'[cur][1 - d] = Stream(cur, d, 0, x)
  PROVE  PumpInv' /\ StreamStep
  <1>1. /\ cur \in Conns /\ d \in Ends /\ 1 - d \in Ends /\ 1 - (1 - d) = d /\ k0 \in Conn
        /\ read[cur] \in [Ends -> Nat] /\ arrived[cur] \in [Ends -> Seq(Unit)]
        /\ Sound(cur, k0, sent[cur], fin[cur], read[cur], arrived[cur], observed[cur],
                 [y \in Ends |-> InPipe(cur, y)])
    BY AtWork
  <1>2. \A e \in Ends : e = d \/ e = 1 - d
    BY <1>1 DEF Ends
  <1>3. Framed(k0, sent[cur], read'[cur])
    BY <1>1, <1>2 DEF Sound, Framed
  <1>4. Ended(k0, sent[cur], fin[cur], read'[cur])
    <2>1. k0.eof \subseteq Ends /\ Ended(k0, sent[cur], fin[cur], read[cur])
      BY <1>1 DEF Conn, Sound
    <2>2. \A e \in k0.eof : read'[cur][e] = read[cur][e]
      BY <1>2, <2>1
    <2> QED
      BY <2>1, <2>2 DEF Ended
  <1>5. PICK c, s, f, r, a, o, p :
          /\ c = cur /\ s = sent[cur] /\ f = fin[cur] /\ r = read[cur] /\ a = arrived[cur]
          /\ o = observed[cur] /\ p = [y \in Ends |-> InPipe(cur, y)]
    OBVIOUS
  <1>6. /\ \A e \in Ends : \E y \in 0 .. r[e] : a[1 - e] = Stream(c, e, 0, y)
        /\ k0.dns => \A i \in 1 .. Len(a[0]) :
                       (\A j \in 1 .. i : s[1][j] # "zero") => Covered(s[1], f, o, i)
    BY <1>1, <1>5, SoundBegins
  <1>7. ASSUME NEW e \in Ends
        PROVE  \E y \in 0 .. read'[cur][e] : arrived'[cur][1 - e] = Stream(cur, e, 0, y)
    <2>1. CASE e = d
      BY <2>1
    <2>2. CASE e = 1 - d
      <3>1. read'[cur][e] = r[e] /\ arrived'[cur][1 - e] = a[1 - e]
        BY <1>1, <1>5, <2>2 DEF Onward
      <3> QED
        BY <1>5, <1>6, <3>1
    <2> QED
      BY <1>2, <2>1, <2>2
  <1>8. k0.dns => arrived'[cur][0] = a[0]
    <2>1. ASSUME k0.dns, d # 1 PROVE arrived'[cur][0] = a[0]
      <3>1. d = 0
        BY <1>1, <2>1 DEF Ends
      <3> QED
        BY <1>5, <3>1 DEF Onward
    <2> QED
      BY <1>5, <2>1
  <1>9. k0.dns => \A i \in 1 .. Len(arrived'[cur][0]) :
                     (\A j \in 1 .. i : sent[cur][1][j] # "zero") =>
                       Covered(sent[cur][1], fin[cur], observed'[cur], i)
    <2>1. \A i : Covered(s[1], f, o, i) => Covered(s[1], f, observed'[cur], i)
      BY <1>5 DEF Covered
    <2> QED
      BY <1>5, <1>6, <1>8, <2>1
  <1> QED
    BY <1>3, <1>4, <1>7, <1>9, GivesUp

\* What is in hand outside the two splices.
LEMMA AtPump ==
  ASSUME PumpInv, pc = "pump"
  PROVE  /\ pipe = <<>>
         /\ \E x, y \in Nat :
              /\ x <= y /\ y <= read[cur][d] /\ arrived[cur][1 - d] = Stream(cur, d, 0, x)
              /\ k0.pend[d] = Stream(cur, d, x, y)
              /\ (IF d = 1 THEN k0.dbuf ELSE <<>>) = Stream(cur, d, y, read[cur][d])
  <1>1. /\ cur \in Conns /\ d \in Ends /\ k0.st = "open" /\ read[cur] \in [Ends -> Nat]
        /\ Sound(cur, k0, sent[cur], fin[cur], read[cur], arrived[cur], observed[cur], NoPipe)
    BY AtWork
  <1>2. PICK c, e, r, a, k, p : /\ c = cur /\ e = d /\ r = read[cur] /\ a = arrived[cur]
                                /\ k = k0 /\ p = NoPipe
    OBVIOUS
  <1>3. Stretches(c, e, k, r[e], a[1 - e], p[e]) /\ e \in Ends /\ c \in Conns /\ k.st = "open"
    BY <1>1, <1>2 DEF Sound
  <1>4. PICK x, y, z \in Nat :
          /\ x <= y /\ y <= z /\ z <= r[e] /\ a[1 - e] = Stream(c, e, 0, x)
          /\ p[e] = Stream(c, e, x, y) /\ k.pend[e] = Stream(c, e, y, z)
          /\ (IF e = 1 THEN k.dbuf ELSE <<>>) = Stream(c, e, z, r[e])
    BY <1>3 DEF Stretches
  <1>5. p[e] = <<>>
    BY <1>2, <1>3 DEF NoPipe
  <1>6. x = y
    <2>1. Stream(c, e, x, y) = <<>> <=> x = y
      BY <1>3, <1>4, StreamEmpty
    <2> QED
      BY <1>4, <1>5, <2>1
  <1>7. pipe = <<>>
    BY DEF PumpInv, Placed
  <1> QED
    BY <1>2, <1>4, <1>6, <1>7

\* A direction that reads has handed on all that it read.
LEMMA AtReceive ==
  ASSUME PumpInv, pc = "pump", Receives
  PROVE  /\ ~(k0.dns /\ d = 1) /\ d \notin k0.eof /\ k0.pend[d] = <<>>
         /\ (IF d = 1 THEN k0.dbuf ELSE <<>>) = <<>>
         /\ arrived[cur][1 - d] = Stream(cur, d, 0, read[cur][d])
  <1>1. ~(k0.dns /\ d = 1) /\ d \notin k0.eof /\ k0.pend[d] = <<>>
    BY DEF Receives, TapsUp
  <1>2. /\ cur \in Conns /\ d \in Ends /\ read[cur][d] \in Nat
        /\ Sound(cur, k0, sent[cur], fin[cur], read[cur], arrived[cur], observed[cur], NoPipe)
    BY AtWork
  <1>3. d = 1 => k0.dbuf = <<>>
    BY <1>1, <1>2 DEF Sound, Buffered
  <1>4. PICK x, y \in Nat :
              /\ x <= y /\ y <= read[cur][d] /\ arrived[cur][1 - d] = Stream(cur, d, 0, x)
              /\ k0.pend[d] = Stream(cur, d, x, y)
              /\ (IF d = 1 THEN k0.dbuf ELSE <<>>) = Stream(cur, d, y, read[cur][d])
    BY AtPump
  <1>5. x = y
    BY <1>1, <1>2, <1>4, StreamEmpty
  <1>6. y = read[cur][d]
    BY <1>2, <1>3, <1>4, StreamEmpty
  <1> QED
    BY <1>1, <1>3, <1>4, <1>5, <1>6

\* What may be read was written and not yet read.
LEMMA AvailableIs ==
  ASSUME PumpInv, pc # "batch"
  PROVE  /\ Unread(cur, d) \in Nat /\ Available \in 0 .. Unread(cur, d)
         /\ read[cur][d] \in Nat /\ read[cur][d] <= Len(sent[cur][d])
         /\ \A n \in 0 .. Unread(cur, d) : read[cur][d] + n <= Len(sent[cur][d])
         /\ Unread(cur, d) = 0 => read[cur][d] = Len(sent[cur][d])
  <1>1. /\ d \in Ends /\ read[cur] \in [Ends -> Nat] /\ sent[cur] \in [Ends -> Seq(Mark)]
        /\ Sound(cur, k0, sent[cur], fin[cur], read[cur], arrived[cur], observed[cur],
                 [x \in Ends |-> InPipe(cur, x)])
    BY AtWork
  <1>2. PICK l, n, u : l = Len(sent[cur][d]) /\ n = read[cur][d] /\ u = Unread(cur, d)
    OBVIOUS
  <1>3. l \in Nat /\ n \in Nat /\ n <= l /\ u = l - n
    <2>1. sent[cur][d] \in Seq(Mark) /\ read[cur][d] \in Nat
      BY <1>1
    <2> QED
      BY <1>1, <1>2, <2>1, LenProperties DEF Sound, Framed, Unread
  <1>4. u \in Nat /\ (u = 0 => n = l) /\ \A m \in 0 .. u : n + m <= l
    BY <1>3
  <1>5. Available \in 0 .. u
    <2>1. Chunk \in Nat
      BY PumpAssumption
    <2> QED
      BY <1>2, <1>4, <2>1 DEF Available
  <1> QED
    BY <1>2, <1>3, <1>4, <1>5

\* A step that moves nothing.
LEMMA OnwardStill ==
  ASSUME PumpInv, pc = "pump", UNCHANGED <<endVars, netVars, observed, pipe, nosplice>>
  PROVE  Onward /\ UNCHANGED <<sent, fin, read, arrived, observed>>
  <1>1. pipe = <<>> /\ d \in Ends
    BY AtPump, AtWork
  <1>2. Len(arrived[cur][1 - d]) \in Nat
    <2>1. arrived[cur][1 - d] \in Seq(Unit)
      BY AtWork
    <2> QED
      BY <2>1, LenProperties
  <1> QED
    BY <1>1, <1>2 DEF PumpInv, Types, Onward, endVars, netVars

\* The socket read from, or the one to send to, is broken.
LEMMA BrokenInv ==
  ASSUME PumpInv, Broken
  PROVE  PumpInv' /\ StreamStep
  <1>1. pc = "pump" /\ Fatal /\ UNCHANGED <<endVars, netVars, observed, pipe, nosplice>>
    BY DEF Broken
  <1>2. Onward /\ UNCHANGED <<sent, fin, read, arrived, observed>>
    BY <1>1, OnwardStill
  <1>3. PICK x, y \in Nat : /\ x <= y /\ y <= read[cur][d]
                            /\ arrived[cur][1 - d] = Stream(cur, d, 0, x)
    BY <1>1, AtPump
  <1>4. read[cur][d] \in Nat /\ read[cur][d] <= Len(sent[cur][d])
    BY <1>1, AvailableIs
  <1>5. x \in 0 .. read[cur][d]
    BY <1>3, <1>4
  <1>6. read[cur][d] <= read'[cur][d] /\ read'[cur][d] <= Len(sent[cur][d])
        /\ read'[cur][1 - d] = read[cur][1 - d] /\ arrived'[cur] = arrived[cur]
        /\ arrived'[cur][1 - d] = Stream(cur, d, 0, x) /\ x \in 0 .. read'[cur][d]
    BY <1>2, <1>3, <1>4, <1>5
  <1> QED
    BY <1>1, <1>2, <1>6, FailsAfter

\* There is nothing to read, perhaps for ever.
LEMMA NothingInv ==
  ASSUME PumpInv, Nothing
  PROVE  PumpInv' /\ StreamStep
  <1>1. /\ pc = "pump" /\ ~TapsUp /\ k0.pend[d] = <<>>
        /\ d \in k0.eof \/ (d \notin reset[cur] /\ Unread(cur, d) = 0)
        /\ UNCHANGED <<endVars, netVars, observed, pipe, nosplice>>
    BY DEF Nothing
  <1>2. PICK k, p : /\ k = [k0 EXCEPT !.eof = @ \cup (fin[cur] \cap {d})]
                    /\ p = (d \in fin[cur] \ k0.eof)
    OBVIOUS
  <1>3. Turned(k, p) /\ p \in BOOLEAN
    BY <1>2 DEF Nothing
  <1>4. /\ k0 \in Conn /\ k0.st = "open" /\ cur \in Conns /\ d \in Ends
        /\ Sound(cur, k0, sent[cur], fin[cur], read[cur], arrived[cur], observed[cur], NoPipe)
    BY <1>1, AtWork
  <1>5. /\ k \in Conn /\ k.st = "open" /\ k.dns = k0.dns /\ k.shut = k0.shut /\ k.doff = k0.doff
        /\ k.pend = k0.pend /\ k.dbuf = k0.dbuf
        /\ k.eof = k0.eof \cup (fin[cur] \cap {d})
    BY <1>2, <1>4 DEF Conn
  <1>6. Onward /\ UNCHANGED <<sent, fin, read, arrived, observed>>
    BY <1>1, OnwardStill
  <1>7. Sound(cur, k, sent[cur], fin[cur], read[cur], arrived[cur], observed[cur], NoPipe)
    <2>1. Framed(k, sent[cur], read[cur])
      BY <1>4, <1>5 DEF Sound, Framed
    <2>2. Buffered(k)
      <3>1. ASSUME 1 \in k.eof, 1 \notin k0.eof PROVE ~k0.dns
        <4>1. d = 1
          BY <1>5, <3>1
        <4> QED
          BY <1>1, <3>1, <4>1 DEF TapsUp
      <3> QED
        BY <1>4, <1>5, <3>1 DEF Sound, Buffered
    <2>3. Ended(k, sent[cur], fin[cur], read[cur])
      <3>1. Unread(cur, d) = 0 => read[cur][d] = Len(sent[cur][d])
        BY <1>1, AvailableIs
      <3>2. Ended(k0, sent[cur], fin[cur], read[cur])
        BY <1>4 DEF Sound
      <3>3. ASSUME NEW e \in k.eof PROVE e \in fin[cur] /\ read[cur][e] = Len(sent[cur][e])
        BY <1>1, <1>5, <3>1, <3>2, <3>3 DEF Ended
      <3> QED
        BY <1>5, <3>2, <3>3 DEF Ended
    <2>4. Observed(k, sent[cur], fin[cur], arrived[cur], observed[cur])
      BY <1>4, <1>5 DEF Sound, Observed, Gone
    <2>5. ASSUME NEW e \in Ends
          PROVE  Stretches(cur, e, k, read[cur][e], arrived[cur][1 - e], NoPipe[e])
      <3>1. Stretches(cur, e, k0, read[cur][e], arrived[cur][1 - e], NoPipe[e])
        BY <1>4 DEF Sound
      <3> QED
        BY <1>4, <1>5, <3>1 DEF Stretches
    <2> QED
      BY <2>1, <2>2, <2>3, <2>4, <2>5 DEF Sound
  <1>8. Sound(cur, k, sent[cur], fin[cur], read'[cur], arrived'[cur], observed'[cur], NoPipe)
    BY <1>6, <1>7
  <1> QED
    BY <1>1, <1>3, <1>5, <1>6, <1>8, Advances

\* What the abstract streams do not see.
LEMMA Unseen ==
  ASSUME UNCHANGED <<sent, fin, arrived, conn>>
  PROVE  StreamStep
  BY DEF StreamStep, Streams!streams

\* The thread gives up splicing for good.
LEMMA SpliceUnsupportedInv ==
  ASSUME PumpInv, SpliceUnsupported
  PROVE  PumpInv' /\ StreamStep
  <1>1. nosplice' = TRUE /\ UNCHANGED <<endVars, netVars, conn, observed, pipe, thread>>
    BY DEF SpliceUnsupported
  <1>2. Types' /\ Placed'
    BY <1>1 DEF PumpInv, Types, Placed, endVars, netVars, thread
  <1>3. ASSUME NEW c \in Conns PROVE SoundAt(c)'
    BY <1>1, StillSound DEF PumpInv, endVars, netVars, thread
  <1>4. (\A c \in Conns : SoundAt(c))'
    BY <1>3
  <1> QED
    BY <1>1, <1>2, <1>4, Unseen DEF PumpInv, endVars, netVars

\* From the socket into the pipe.
LEMMA SpliceInInv ==
  ASSUME PumpInv, SpliceIn
  PROVE  PumpInv' /\ StreamStep
  <1>1. /\ pc = "pump" /\ Receives /\ Spliced
        /\ pipe' = pipe \o Pulled(Available) /\ Pull(Available) /\ pc' = "splice"
        /\ UNCHANGED <<endVars, room, arrived, conn, observed, nosplice, cur, d, iter, prog, evs>>
    BY DEF SpliceIn
  <1>2. PICK n : n = Available
    OBVIOUS
  <1>3. n \in Nat /\ n \in 0 .. Unread(cur, d)
    BY <1>1, <1>2, AvailableIs
  <1>4. /\ read' \in [Conns -> [Ends -> Nat]] /\ read'[cur][d] = read[cur][d] + n
        /\ read'[cur][1 - d] = read[cur][1 - d]
        /\ \A c \in Conns \ {cur} : read'[c] = read[c]
    BY <1>1, <1>2, <1>3, PullIs
  <1>5. /\ cur \in Conns /\ d \in Ends /\ 1 - d \in Ends /\ 1 - d # d /\ 1 - (1 - d) = d
        /\ k0 \in Conn /\ k0.st = "open" /\ k0 = conn[cur]
        /\ Sound(cur, k0, sent[cur], fin[cur], read[cur], arrived[cur], observed[cur], NoPipe)
    BY <1>1, AtWork
  <1>6. PICK c, e, m, z : c = cur /\ e = d /\ m = read[cur][d] /\ z = read[cur][d] + n
    OBVIOUS
  <1>7. /\ m \in Nat /\ z \in Nat /\ m <= z /\ z <= Len(sent[c][e]) /\ c \in Conns /\ e \in Ends
    BY <1>1, <1>3, <1>5, <1>6, AvailableIs
  <1>8. /\ ~k0.dns /\ e \notin k0.eof /\ k0.pend[e] = <<>> /\ k0.dbuf = <<>>
        /\ arrived[c][1 - e] = Stream(c, e, 0, m)
    <2>1. ~k0.dns
      BY <1>1 DEF Spliced
    <2> QED
      BY <1>1, <1>5, <1>6, <2>1, AtReceive DEF Sound, Buffered
  <1>9. pipe' = Stream(c, e, m, z) /\ pipe' \in Seq(Unit)
    <2>1. pipe = <<>>
      BY <1>1, AtPump
    <2>2. Pulled(n) = Stream(c, e, m, z)
      BY <1>6 DEF Pulled
    <2>3. Stream(c, e, m, z) \in Seq(Unit)
      BY <1>7, StreamIs
    <2> QED
      BY <1>1, <1>2, <2>1, <2>2, <2>3, ConcatEmptySeq
  <1>10. Types'
    BY <1>1, <1>4, <1>9 DEF PumpInv, Types, endVars
  <1>11. Placed'
    BY <1>1, <1>5, <1>6, <1>8 DEF PumpInv, Placed
  <1>12. ASSUME NEW c1 \in Conns, c1 # c PROVE SoundAt(c1)'
    <2>1. [x \in Ends |-> InPipe(c1, x)]' = NoPipe /\ [x \in Ends |-> InPipe(c1, x)] = NoPipe
      BY <1>1, <1>6, <1>12 DEF InPipe, NoPipe
    <2>2. read'[c1] = read[c1]
      BY <1>4, <1>6, <1>12
    <2> QED
      BY <1>1, <2>1, <2>2 DEF PumpInv, SoundAt, endVars
  <1>13. SoundAt(c)'
    <2>1. PICK k, s, f, r, r1, a, o, p :
            /\ k = k0 /\ s = sent[c] /\ f = fin[c] /\ r = read[c] /\ r1 = read'[c]
            /\ a = arrived[c] /\ o = observed[c] /\ p = [x \in Ends |-> InPipe(c, x)]'
      OBVIOUS
    <2>2. Sound(c, k, s, f, r, a, o, NoPipe)
      BY <1>5, <1>6, <2>1
    <2>3. r1[e] = z /\ r1[1 - e] = r[1 - e] /\ r[e] = m /\ \A x \in Ends : x = e \/ x = 1 - e
      BY <1>4, <1>5, <1>6, <2>1 DEF Ends
    <2>4. p[e] = Stream(c, e, m, z) /\ p[1 - e] = <<>>
      BY <1>1, <1>5, <1>6, <1>9, <2>1 DEF InPipe
    <2>5. Framed(k, s, r1)
      BY <1>7, <2>1, <2>2, <2>3 DEF Sound, Framed
    <2>6. Ended(k, s, f, r1)
      <3>1. \A x \in k.eof : x \in Ends /\ x # e
        BY <1>5, <1>8, <2>1 DEF Conn
      <3>2. \A x \in k.eof : r1[x] = r[x]
        BY <2>3, <3>1
      <3> QED
        BY <2>2, <3>2 DEF Sound, Ended
    <2>7. Stretches(c, e, k, r1[e], a[1 - e], p[e])
      <3>1. <<>> = Stream(c, e, z, z)
        BY <1>7, StreamEmpty
      <3>2. /\ a[1 - e] = Stream(c, e, 0, m) /\ k.pend[e] = Stream(c, e, z, z)
            /\ (IF e = 1 THEN k.dbuf ELSE <<>>) = Stream(c, e, z, r1[e])
        BY <1>6, <1>8, <2>1, <2>3, <3>1
      <3>3. z <= z /\ z <= r1[e]
        BY <1>7, <2>3
      <3>4. \E x, y, w \in Nat : /\ x <= y /\ y <= w /\ w <= r1[e] /\ a[1 - e] = Stream(c, e, 0, x)
                                 /\ p[e] = Stream(c, e, x, y) /\ k.pend[e] = Stream(c, e, y, w)
                                 /\ (IF e = 1 THEN k.dbuf ELSE <<>>) = Stream(c, e, w, r1[e])
        BY <1>7, <2>4, <3>2, <3>3
      <3> QED
        BY <3>4 DEF Stretches
    <2>8. Stretches(c, 1 - e, k, r1[1 - e], a[1 - (1 - e)], p[1 - e])
      <3>1. Stretches(c, 1 - e, k, r[1 - e], a[1 - (1 - e)], NoPipe[1 - e])
        BY <1>5, <1>6, <2>2 DEF Sound
      <3>2. p[1 - e] = NoPipe[1 - e]
        BY <1>5, <1>6, <2>4 DEF NoPipe
      <3> QED
        BY <2>3, <3>1, <3>2
    <2>9. Buffered(k) /\ Observed(k, s, f, a, o)
      BY <2>2 DEF Sound
    <2>10. Sound(c, k, s, f, r1, a, o, p)
      BY <2>3, <2>5, <2>6, <2>7, <2>8, <2>9 DEF Sound
    <2> QED
      BY <1>1, <1>5, <1>6, <2>1, <2>10 DEF SoundAt, endVars
  <1>14. (\A c1 \in Conns : SoundAt(c1))'
    BY <1>12, <1>13
  <1> QED
    BY <1>1, <1>10, <1>11, <1>14, Unseen DEF PumpInv, endVars

\* The step reads, perhaps, and sends us, units x + 1 .. y of this direction, which is not
\* shut; what the socket does not take is to be pending before what stays in dbuf.
Sending(x, y, us) ==
  /\ x \in Nat /\ y \in Nat /\ x <= y /\ y <= read'[cur][d]
  /\ arrived[cur][1 - d] = Stream(cur, d, 0, x) /\ us = Stream(cur, d, x, y) /\ Push(us)
  /\ (IF d = 1 THEN k0.dbuf ELSE <<>>) = Stream(cur, d, y, read'[cur][d])
  /\ read' \in [Conns -> [Ends -> Nat]] /\ \A c \in Conns \ {cur} : read'[c] = read[c]
  /\ read'[cur][1 - d] = read[cur][1 - d] /\ read[cur][d] <= read'[cur][d]
  /\ read'[cur][d] <= Len(sent[cur][d]) /\ (d \in k0.eof => read'[cur][d] = read[cur][d])
  /\ (k0.dns /\ d = 1 => k0.pend[d] = us) /\ d \notin k0.shut
  /\ pipe' = <<>> /\ UNCHANGED <<endVars, observed, nosplice>>

\* Such a step leaves the connection sound.
LEMMA Sends ==
  ASSUME PumpInv, pc # "batch", NEW x, NEW y, NEW us, Sending(x, y, us),
         NEW k, k = [k0 EXCEPT !.pend[d] = Rest(us)]
  PROVE  /\ Onward /\ k \in Conn /\ k.st = "open" /\ k.shut = k0.shut
         /\ Sound(cur, k, sent[cur], fin[cur], read'[cur], arrived'[cur], observed'[cur], NoPipe)
         /\ \E z \in 0 .. read'[cur][d] : arrived'[cur][1 - d] = Stream(cur, d, 0, z)
  <1>0. /\ x \in Nat /\ y \in Nat /\ x <= y /\ y <= read'[cur][d]
        /\ arrived[cur][1 - d] = Stream(cur, d, 0, x) /\ us = Stream(cur, d, x, y) /\ Push(us)
        /\ (IF d = 1 THEN k0.dbuf ELSE <<>>) = Stream(cur, d, y, read'[cur][d])
        /\ read' \in [Conns -> [Ends -> Nat]] /\ \A c \in Conns \ {cur} : read'[c] = read[c]
        /\ read'[cur][1 - d] = read[cur][1 - d] /\ read[cur][d] <= read'[cur][d]
        /\ read'[cur][d] <= Len(sent[cur][d]) /\ (d \in k0.eof => read'[cur][d] = read[cur][d])
        /\ (k0.dns /\ d = 1 => k0.pend[d] = us) /\ d \notin k0.shut
        /\ pipe' = <<>> /\ UNCHANGED <<endVars, observed, nosplice>>
    BY DEF Sending
  <1> USE <1>0
  <1>1. /\ cur \in Conns /\ d \in Ends /\ 1 - d \in Ends /\ 1 - d # d /\ 1 - (1 - d) = d
        /\ k0 \in Conn /\ k0.st = "open" /\ k0 = conn[cur]
        /\ read[cur] \in [Ends -> Nat] /\ arrived[cur] \in [Ends -> Seq(Unit)]
        /\ Sound(cur, k0, sent[cur], fin[cur], read[cur], arrived[cur], observed[cur],
                 [w \in Ends |-> InPipe(cur, w)])
    BY AtWork
  <1>2. /\ \E t \in 0 .. y - x :
             /\ t = Taken(us) /\ arrived'[cur][1 - d] = Stream(cur, d, 0, x + t)
             /\ Rest(us) = Stream(cur, d, x + t, y)
        /\ arrived' \in [Conns -> [Ends -> Seq(Unit)]] /\ room' \in [Conns -> [Ends -> 0 .. Cap]]
        /\ arrived'[cur][d] = arrived[cur][d]
        /\ Len(arrived[cur][1 - d]) <= Len(arrived'[cur][1 - d])
        /\ \A c \in Conns \ {cur} : arrived'[c] = arrived[c]
    BY PushIs
  <1>3. PICK z : z \in Nat /\ x <= z /\ z <= y /\ arrived'[cur][1 - d] = Stream(cur, d, 0, z)
                 /\ Rest(us) = Stream(cur, d, z, y)
    <2>1. PICK t \in 0 .. y - x : /\ arrived'[cur][1 - d] = Stream(cur, d, 0, x + t)
                                  /\ Rest(us) = Stream(cur, d, x + t, y)
      BY <1>2
    <2>2. x + t \in Nat /\ x <= x + t /\ x + t <= y
      OBVIOUS
    <2> QED
      BY <2>1, <2>2
  <1>4. Rest(us) \in Seq(Unit)
    BY <1>1, <1>3, StreamIs
  <1>5. /\ k \in Conn /\ k.dns = k0.dns /\ k.eof = k0.eof /\ k.doff = k0.doff
        /\ k.shut = k0.shut /\ k.st = "open" /\ k.dbuf = k0.dbuf
        /\ k.pend[d] = Rest(us) /\ k.pend[1 - d] = k0.pend[1 - d]
    <2>1. PICK q, e, h : q = Rest(us) /\ e = d /\ h = k0
      OBVIOUS
    <2>2. q \in Seq(Unit) /\ e \in Ends /\ h \in Conn /\ h.st = "open"
      BY <1>1, <1>4, <2>1
    <2>3. k = [h EXCEPT !.pend[e] = q]
      BY <2>1
    <2>4. Pended(h, k, e, q)
      BY <2>2, <2>3, PendIs
    <2> QED
      BY <1>1, <2>1, <2>2, <2>4 DEF Pended
  <1>6. Onward
    BY <1>1, <1>2 DEF Onward, PumpInv, Types
  <1>7. read'[cur] \in [Ends -> Nat]
    BY <1>1
  <1>8. k0.dns => Gone(k, arrived'[cur]) = Gone(k0, arrived[cur])
    <2>1. CASE d = 1
      <3>1. ASSUME k0.dns PROVE Gone(k, arrived'[cur]) = Gone(k0, arrived[cur])
        <4>1. k0.pend[1] = Stream(cur, 1, x, y) /\ k.pend[1] = Stream(cur, 1, z, y)
          BY <1>3, <1>5, <2>1, <3>1
        <4>2. arrived'[cur][0] = Stream(cur, 1, 0, z) /\ arrived[cur][0] = Stream(cur, 1, 0, x)
          <5>1. 1 - d = 0
            BY <2>1
          <5> QED
            BY <1>3, <2>1, <5>1
        <4>3. Len(Stream(cur, 1, x, y)) = y - x /\ Len(Stream(cur, 1, 0, x)) = x
          <5>1. 0 \in Nat /\ 0 <= x /\ 1 \in Ends
            BY DEF Ends
          <5>2. Len(Stream(cur, 1, x, y)) = y - x
            BY <1>1, <5>1, StreamIs
          <5>3. Len(Stream(cur, 1, 0, x)) = x
            BY <1>1, <5>1, StreamStart
          <5> QED
            BY <5>2, <5>3
        <4>4. Len(Stream(cur, 1, z, y)) = y - z /\ Len(Stream(cur, 1, 0, z)) = z
          <5>1. 0 \in Nat /\ 0 <= z /\ 1 \in Ends
            BY <1>3 DEF Ends
          <5>2. Len(Stream(cur, 1, z, y)) = y - z
            BY <1>1, <1>3, <5>1, StreamIs
          <5>3. Len(Stream(cur, 1, 0, z)) = z
            BY <1>1, <1>3, <5>1, StreamStart
          <5> QED
            BY <5>2, <5>3
        <4>5. z + (y - z) = x + (y - x)
          BY <1>3
        <4> QED
          BY <4>1, <4>2, <4>3, <4>4, <4>5 DEF Gone
      <3> QED
        BY <3>1
    <2>2. CASE d # 1
      <3>1. d = 0 /\ 1 - d = 1
        BY <1>1, <2>2 DEF Ends
      <3> QED
        BY <1>2, <1>5, <3>1 DEF Gone
    <2> QED
      BY <2>1, <2>2
  <1>9. z \in 0 .. read'[cur][d]
    <2>1. read'[cur][d] \in Nat
      BY <1>1, <1>7
    <2> QED
      BY <1>3, <2>1
  <1>10. Sound(cur, k, sent[cur], fin[cur], read'[cur], arrived'[cur], observed'[cur], NoPipe)
    <2>1. PICK c, e, s, f, r, r1, a, a1, o, p :
            /\ c = cur /\ e = d /\ s = sent[cur] /\ f = fin[cur] /\ r = read[cur]
            /\ r1 = read'[cur] /\ a = arrived[cur] /\ a1 = arrived'[cur] /\ o = observed[cur]
            /\ p = [w \in Ends |-> InPipe(cur, w)]
      OBVIOUS
    <2>2. /\ c \in Conns /\ e \in Ends /\ r \in [Ends -> Nat] /\ r1 \in [Ends -> Nat]
          /\ Sound(c, k0, s, f, r, a, o, p) /\ k0 \in Conn
      BY <1>1, <1>7, <2>1
    <2>3. p[1 - e] = <<>>
      BY <1>1, <2>1 DEF InPipe
    <2>4. /\ k.pend[1 - e] = k0.pend[1 - e] /\ r1[1 - e] = r[1 - e] /\ a1[e] = a[e]
          /\ r1[e] <= Len(s[e]) /\ (e \in k0.eof => r1[e] = r[e])
          /\ (e \in k0.shut => k.pend[e] = <<>>)
      BY <1>2, <1>5, <2>1
    <2>5. /\ k0.dns => Gone(k, a1) = Gone(k0, a)
      BY <1>8, <2>1
    <2>6. /\ a1[1 - e] = Stream(c, e, 0, z) /\ k.pend[e] = Stream(c, e, z, y)
          /\ (IF e = 1 THEN k0.dbuf ELSE <<>>) = Stream(c, e, y, r1[e]) /\ y <= r1[e]
      BY <1>3, <1>5, <2>1
    <2>8. Carries(c, e, k0, k, s, r, r1, a, a1, z, y)
      BY <1>1, <1>3, <1>5, <2>4, <2>5, <2>6 DEF Carries
    <2>7. Sound(c, k, s, f, r1, a1, o, NoPipe)
      BY <1>3, <1>5, <2>2, <2>3, <2>8, FlowSound
    <2> QED
      BY <2>1, <2>7
  <1> QED
    BY <1>3, <1>5, <1>6, <1>9, <1>10

\* The pipe's content, between the two splices.
LEMMA AtSplice ==
  ASSUME PumpInv, pc = "splice"
  PROVE  /\ ~k0.dns /\ d \notin k0.eof /\ d \notin k0.shut /\ k0.pend[d] = <<>>
         /\ \E x \in Nat :
              /\ x <= read[cur][d] /\ arrived[cur][1 - d] = Stream(cur, d, 0, x)
              /\ pipe = Stream(cur, d, x, read[cur][d])
         /\ (IF d = 1 THEN k0.dbuf ELSE <<>>) = Stream(cur, d, read[cur][d], read[cur][d])
  <1>1. /\ cur \in Conns /\ d \in Ends /\ k0.st = "open" /\ read[cur] \in [Ends -> Nat]
        /\ k0 = conn[cur]
        /\ Sound(cur, k0, sent[cur], fin[cur], read[cur], arrived[cur], observed[cur],
                 [w \in Ends |-> InPipe(cur, w)])
    BY AtWork
  <1>2. ~k0.dns /\ d \notin k0.eof /\ k0.pend[d] = <<>>
    BY <1>1 DEF PumpInv, Placed
  <1>3. d \notin k0.shut
    BY <1>1, <1>2 DEF Sound, Ended
  <1>4. (IF d = 1 THEN k0.dbuf ELSE <<>>) = <<>>
    BY <1>1, <1>2 DEF Sound, Buffered
  <1>5. PICK c, e, r, a, k, p : /\ c = cur /\ e = d /\ r = read[cur] /\ a = arrived[cur]
                                /\ k = k0 /\ p = [w \in Ends |-> InPipe(cur, w)]
    OBVIOUS
  <1>6. Stretches(c, e, k, r[e], a[1 - e], p[e]) /\ e \in Ends /\ c \in Conns /\ k.st = "open"
    BY <1>1, <1>5 DEF Sound
  <1>7. PICK x, y, z \in Nat :
          /\ x <= y /\ y <= z /\ z <= r[e] /\ a[1 - e] = Stream(c, e, 0, x)
          /\ p[e] = Stream(c, e, x, y) /\ k.pend[e] = Stream(c, e, y, z)
          /\ (IF e = 1 THEN k.dbuf ELSE <<>>) = Stream(c, e, z, r[e])
    BY <1>6 DEF Stretches
  <1>8. p[e] = pipe /\ r[e] \in Nat
    BY <1>1, <1>5, <1>6 DEF InPipe
  <1>9. y = z
    <2>1. Stream(c, e, y, z) = <<>> <=> y = z
      BY <1>6, <1>7, StreamEmpty
    <2> QED
      BY <1>2, <1>5, <1>7, <2>1
  <1>10. z = r[e]
    <2>1. Stream(c, e, z, r[e]) = <<>> <=> z = r[e]
      BY <1>6, <1>7, <1>8, StreamEmpty
    <2> QED
      BY <1>4, <1>5, <1>7, <2>1
  <1>11. <<>> = Stream(c, e, r[e], r[e])
    BY <1>6, <1>8, StreamEmpty
  <1> QED
    BY <1>2, <1>3, <1>4, <1>5, <1>7, <1>8, <1>9, <1>10, <1>11

\* From the pipe into the other socket, the tail into the pending buffer.
LEMMA SpliceOutInv ==
  ASSUME PumpInv, SpliceOut
  PROVE  PumpInv' /\ StreamStep
  <1>1. /\ pc = "splice" /\ Push(pipe) /\ pipe' = <<>>
        /\ UNCHANGED <<endVars, read, observed, nosplice>>
    BY DEF SpliceOut
  <1>2. PICK k : k = [k0 EXCEPT !.pend[d] = Rest(pipe)]
    OBVIOUS
  <1>3. Turned(k, TRUE)
    BY <1>2 DEF SpliceOut
  <1>4. /\ ~k0.dns /\ d \notin k0.shut
        /\ (IF d = 1 THEN k0.dbuf ELSE <<>>) = Stream(cur, d, read[cur][d], read[cur][d])
    BY <1>1, AtSplice
  <1>5. PICK x \in Nat : /\ x <= read[cur][d] /\ arrived[cur][1 - d] = Stream(cur, d, 0, x)
                         /\ pipe = Stream(cur, d, x, read[cur][d])
    BY <1>1, AtSplice
  <1>6. PICK y, us : y = read[cur][d] /\ us = pipe
    OBVIOUS
  <1>7. /\ y \in Nat /\ x <= y /\ read' \in [Conns -> [Ends -> Nat]] /\ y <= read'[cur][d]
        /\ read'[cur][d] = read[cur][d] /\ read[cur][d] <= read'[cur][d]
        /\ read'[cur][d] <= Len(sent[cur][d])
    BY <1>1, <1>5, <1>6, AvailableIs DEF PumpInv, Types
  <1>8. /\ Onward /\ k \in Conn /\ k.st = "open" /\ k.shut = k0.shut
        /\ Sound(cur, k, sent[cur], fin[cur], read'[cur], arrived'[cur], observed'[cur], NoPipe)
    <2>1. Sending(x, y, us)
      BY <1>1, <1>4, <1>5, <1>6, <1>7 DEF Sending
    <2>2. k = [k0 EXCEPT !.pend[d] = Rest(us)]
      BY <1>2, <1>6
    <2> QED
      BY <1>1, <2>1, <2>2, Sends
  <1> QED
    BY <1>1, <1>3, <1>8, Advances

\* The pipe's content is lost with the connection, whatever of it was sent.
LEMMA SpliceOutFailsInv ==
  ASSUME PumpInv, SpliceOutFails
  PROVE  PumpInv' /\ StreamStep
  <1>1. /\ pc = "splice" /\ pipe' = <<>> /\ Fatal
        /\ UNCHANGED <<endVars, read, observed, nosplice>>
    BY DEF SpliceOutFails, Discard
  <1>2. \/ UNCHANGED <<room, arrived>>
        \/ Push(pipe)
    BY DEF SpliceOutFails
  <1>3. /\ ~k0.dns /\ d \notin k0.shut
        /\ (IF d = 1 THEN k0.dbuf ELSE <<>>) = Stream(cur, d, read[cur][d], read[cur][d])
    BY <1>1, AtSplice
  <1>4. PICK x \in Nat : /\ x <= read[cur][d] /\ arrived[cur][1 - d] = Stream(cur, d, 0, x)
                         /\ pipe = Stream(cur, d, x, read[cur][d])
    BY <1>1, AtSplice
  <1>5. PICK y, us, k : y = read[cur][d] /\ us = pipe /\ k = [k0 EXCEPT !.pend[d] = Rest(us)]
    OBVIOUS
  <1>6. /\ y \in Nat /\ x <= y /\ read' \in [Conns -> [Ends -> Nat]] /\ y <= read'[cur][d]
        /\ read'[cur][d] = read[cur][d] /\ read[cur][d] <= read'[cur][d]
        /\ read'[cur][d] <= Len(sent[cur][d])
    BY <1>1, <1>4, <1>5, AvailableIs, SMTT(20) DEF PumpInv, Types
  <1>7. CASE UNCHANGED <<room, arrived>>
    <2>1. Len(arrived[cur][1 - d]) <= Len(arrived'[cur][1 - d])
      <3>1. arrived[cur][1 - d] \in Seq(Unit)
        BY <1>1, AtWork
      <3>2. Len(arrived[cur][1 - d]) \in Nat
        BY <3>1, LenProperties
      <3> QED
        BY <1>7, <3>2
    <2>2. Onward
      BY <1>1, <1>7, <2>1 DEF Onward, PumpInv, Types
    <2>3. x \in 0 .. read'[cur][d] /\ arrived'[cur][1 - d] = Stream(cur, d, 0, x)
      BY <1>4, <1>5, <1>6, <1>7
    <2>4. read'[cur][1 - d] = read[cur][1 - d] /\ arrived'[cur] = arrived[cur]
      BY <1>1, <1>7
    <2> QED
      BY <1>1, <1>6, <2>2, <2>3, <2>4, FailsAfter
  <1>8. CASE Push(pipe)
    <2>1. Onward /\ \E z \in 0 .. read'[cur][d] : arrived'[cur][1 - d] = Stream(cur, d, 0, z)
      <3>1. Sending(x, y, us)
        BY <1>1, <1>3, <1>4, <1>5, <1>6, <1>8 DEF Sending
      <3> QED
        BY <1>1, <1>5, <3>1, Sends
    <2>2. PICK z \in 0 .. read'[cur][d] : arrived'[cur][1 - d] = Stream(cur, d, 0, z)
      BY <2>1
    <2>3. read'[cur][1 - d] = read[cur][1 - d] /\ observed' = observed
      BY <1>1
    <2> QED
      BY <1>1, <1>3, <1>6, <2>1, <2>2, <2>3, FailsAfter
  <1> QED
    BY <1>2, <1>7, <1>8

\* What a copying direction reads, in the terms of Sending.
LEMMA AtCopy ==
  ASSUME PumpInv, pc = "pump", Receives, Pull(Available)
  PROVE  /\ read' \in [Conns -> [Ends -> Nat]] /\ \A c \in Conns \ {cur} : read'[c] = read[c]
         /\ read'[cur][1 - d] = read[cur][1 - d] /\ read[cur][d] <= read'[cur][d]
         /\ read[cur][d] \in Nat /\ read'[cur][d] \in Nat
         /\ read'[cur][d] <= Len(sent[cur][d]) /\ d \notin k0.eof /\ ~(k0.dns /\ d = 1)
         /\ d \notin k0.shut /\ pipe = <<>>
         /\ arrived[cur][1 - d] = Stream(cur, d, 0, read[cur][d])
         /\ Pulled(Available) = Stream(cur, d, read[cur][d], read'[cur][d])
         /\ (IF d = 1 THEN k0.dbuf ELSE <<>>) = Stream(cur, d, read'[cur][d], read'[cur][d])
  <1>1. PICK n : n = Available
    OBVIOUS
  <1>2. n \in Nat /\ n \in 0 .. Unread(cur, d)
    BY <1>1, AvailableIs
  <1>3. /\ read' \in [Conns -> [Ends -> Nat]] /\ read'[cur][d] = read[cur][d] + n
        /\ read'[cur][1 - d] = read[cur][1 - d]
        /\ \A c \in Conns \ {cur} : read'[c] = read[c]
    BY <1>1, <1>2, PullIs
  <1>4. /\ read[cur][d] \in Nat /\ read'[cur][d] \in Nat /\ read[cur][d] <= read'[cur][d]
        /\ read'[cur][d] <= Len(sent[cur][d])
    <2>1. PICK a, b, l : a = read[cur][d] /\ b = read'[cur][d] /\ l = Len(sent[cur][d])
      OBVIOUS
    <2>2. a \in Nat /\ a + n <= l
      BY <1>2, <2>1, AvailableIs
    <2>3. b = a + n
      BY <1>3, <2>1
    <2>4. b \in Nat /\ a <= b /\ b <= l
      BY <1>2, <2>2, <2>3
    <2> QED
      BY <2>1, <2>2, <2>4
  <1>5. /\ ~(k0.dns /\ d = 1) /\ d \notin k0.eof /\ k0.pend[d] = <<>>
        /\ (IF d = 1 THEN k0.dbuf ELSE <<>>) = <<>>
        /\ arrived[cur][1 - d] = Stream(cur, d, 0, read[cur][d])
    BY AtReceive
  <1>6. d \notin k0.shut
    BY <1>5, AtWork DEF Sound, Ended
  <1>7. Pulled(Available) = Stream(cur, d, read[cur][d], read'[cur][d])
    BY <1>1, <1>3 DEF Pulled
  <1>8. <<>> = Stream(cur, d, read'[cur][d], read'[cur][d])
    <2>1. cur \in Conns /\ d \in Ends
      BY AtWork
    <2>2. PICK z : z = read'[cur][d]
      OBVIOUS
    <2>3. <<>> = Stream(cur, d, z, z)
      BY <1>4, <2>1, <2>2, StreamEmpty
    <2> QED
      BY <2>2, <2>3
  <1> QED
    BY <1>3, <1>4, <1>5, <1>6, <1>7, <1>8, AtPump

\* From one socket to the other through the scratch buffer.
LEMMA CopyInv ==
  ASSUME PumpInv, Copy
  PROVE  PumpInv' /\ StreamStep
  <1>1. /\ pc = "pump" /\ Receives /\ Pull(Available) /\ Push(Pulled(Available))
        /\ UNCHANGED <<endVars, observed, pipe, nosplice>>
    BY DEF Copy
  <1>2. PICK x, y, us : x = read[cur][d] /\ y = read'[cur][d] /\ us = Pulled(Available)
    OBVIOUS
  <1>3. PICK k : k = [k0 EXCEPT !.pend[d] = Rest(us)]
    OBVIOUS
  <1>4. Turned(k, TRUE)
    BY <1>2, <1>3 DEF Copy, Spill
  <1>5. /\ read' \in [Conns -> [Ends -> Nat]] /\ \A c \in Conns \ {cur} : read'[c] = read[c]
        /\ read'[cur][1 - d] = read[cur][1 - d] /\ read[cur][d] <= read'[cur][d]
        /\ x \in Nat /\ y \in Nat
        /\ read'[cur][d] <= Len(sent[cur][d]) /\ d \notin k0.eof /\ ~(k0.dns /\ d = 1)
        /\ d \notin k0.shut /\ pipe = <<>> /\ arrived[cur][1 - d] = Stream(cur, d, 0, x)
        /\ us = Stream(cur, d, x, y)
        /\ (IF d = 1 THEN k0.dbuf ELSE <<>>) = Stream(cur, d, y, read'[cur][d])
    BY <1>1, <1>2, AtCopy
  <1>6. x <= y /\ y <= read'[cur][d] /\ pipe' = <<>> /\ Push(us)
    BY <1>1, <1>2, <1>5
  <1>7. /\ Onward /\ k \in Conn /\ k.st = "open" /\ k.shut = k0.shut
        /\ Sound(cur, k, sent[cur], fin[cur], read'[cur], arrived'[cur], observed'[cur], NoPipe)
    <2>1. Sending(x, y, us)
      BY <1>1, <1>3, <1>5, <1>6 DEF Sending
    <2> QED
      BY <1>1, <1>3, <2>1, Sends
  <1> QED
    BY <1>1, <1>4, <1>7, Advances

\* The other socket is broken, or the tail finds no memory, after the read.
LEMMA CopyFailsInv ==
  ASSUME PumpInv, CopyFails
  PROVE  PumpInv' /\ StreamStep
  <1>1. /\ pc = "pump" /\ Receives /\ Pull(Available) /\ Fatal
        /\ UNCHANGED <<endVars, observed, pipe, nosplice>>
    BY DEF CopyFails
  <1>2. UNCHANGED <<room, arrived>> \/ Push(Pulled(Available))
    BY DEF CopyFails
  <1>3. PICK x, y, us : x = read[cur][d] /\ y = read'[cur][d] /\ us = Pulled(Available)
    OBVIOUS
  <1>4. PICK k : k = [k0 EXCEPT !.pend[d] = Rest(us)]
    OBVIOUS
  <1>5. /\ read' \in [Conns -> [Ends -> Nat]] /\ \A c \in Conns \ {cur} : read'[c] = read[c]
        /\ read'[cur][1 - d] = read[cur][1 - d] /\ read[cur][d] <= read'[cur][d]
        /\ x \in Nat /\ y \in Nat
        /\ read'[cur][d] <= Len(sent[cur][d]) /\ d \notin k0.eof /\ ~(k0.dns /\ d = 1)
        /\ d \notin k0.shut /\ pipe = <<>> /\ arrived[cur][1 - d] = Stream(cur, d, 0, x)
        /\ us = Stream(cur, d, x, y)
        /\ (IF d = 1 THEN k0.dbuf ELSE <<>>) = Stream(cur, d, y, read'[cur][d])
    BY <1>1, <1>3, AtCopy
  <1>6. x <= y /\ y <= read'[cur][d] /\ pipe' = <<>>
    BY <1>1, <1>3, <1>5
  <1>7. CASE UNCHANGED <<room, arrived>>
    <2>1. Len(arrived[cur][1 - d]) <= Len(arrived'[cur][1 - d])
      <3>1. arrived[cur][1 - d] \in Seq(Unit)
        BY <1>1, AtWork
      <3>2. Len(arrived[cur][1 - d]) \in Nat
        BY <3>1, LenProperties
      <3> QED
        BY <1>7, <3>2
    <2>2. Onward
      BY <1>1, <1>5, <1>6, <1>7, <2>1 DEF Onward, PumpInv, Types
    <2>3. x \in 0 .. read'[cur][d] /\ arrived'[cur][1 - d] = Stream(cur, d, 0, x)
      BY <1>3, <1>5, <1>6, <1>7
    <2> QED
      BY <1>1, <1>5, <2>2, <2>3, FailsAfter
  <1>8. CASE Push(Pulled(Available))
    <2>1. Onward /\ \E z \in 0 .. read'[cur][d] : arrived'[cur][1 - d] = Stream(cur, d, 0, z)
      <3>1. Sending(x, y, us)
        BY <1>1, <1>3, <1>4, <1>5, <1>6, <1>8 DEF Sending
      <3> QED
        BY <1>1, <1>4, <3>1, Sends
    <2>2. PICK z \in 0 .. read'[cur][d] : arrived'[cur][1 - d] = Stream(cur, d, 0, z)
      BY <2>1
    <2> QED
      BY <1>1, <1>5, <2>1, <2>2, FailsAfter
  <1> QED
    BY <1>2, <1>7, <1>8

\* What is pending is sent before anything is read.
LEMMA FlushInv ==
  ASSUME PumpInv, Flush
  PROVE  PumpInv' /\ StreamStep
  <1>1. /\ pc = "pump" /\ k0.pend[d] # <<>> /\ Push(k0.pend[d])
        /\ UNCHANGED <<endVars, read, observed, pipe, nosplice>>
    BY DEF Flush
  <1>2. PICK us, p : us = k0.pend[d] /\ p = (Taken(k0.pend[d]) > 0)
    OBVIOUS
  <1>3. PICK k : k = [k0 EXCEPT !.pend[d] = Rest(us)]
    OBVIOUS
  <1>4. Turned(k, p) /\ p \in BOOLEAN
    BY <1>2, <1>3 DEF Flush
  <1>5. PICK x, y \in Nat :
              /\ x <= y /\ y <= read[cur][d] /\ arrived[cur][1 - d] = Stream(cur, d, 0, x)
              /\ us = Stream(cur, d, x, y)
              /\ (IF d = 1 THEN k0.dbuf ELSE <<>>) = Stream(cur, d, y, read[cur][d])
    BY <1>1, <1>2, AtPump
  <1>6. d \notin k0.shut
    <2>1. Ended(k0, sent[cur], fin[cur], read[cur])
      BY <1>1, AtWork DEF Sound
    <2> QED
      BY <1>1, <2>1 DEF Ended
  <1>7. /\ read' \in [Conns -> [Ends -> Nat]] /\ read' = read
        /\ read[cur][d] <= read'[cur][d] /\ read'[cur][d] <= Len(sent[cur][d])
    BY <1>1, AvailableIs DEF PumpInv, Types
  <1>8. pipe' = <<>> /\ Push(us)
    BY <1>1, <1>2, AtPump
  <1>9. /\ Onward /\ k \in Conn /\ k.st = "open" /\ k.shut = k0.shut
        /\ Sound(cur, k, sent[cur], fin[cur], read'[cur], arrived'[cur], observed'[cur], NoPipe)
    <2>1. Sending(x, y, us)
      BY <1>1, <1>2, <1>3, <1>5, <1>6, <1>7, <1>8 DEF Sending
    <2> QED
      BY <1>1, <1>3, <2>1, Sends
  <1> QED
    BY <1>1, <1>4, <1>9, Advances

------------------------------------------------------------------------------
(* dns_pump_up.                                                                 *)

\* The positions of stretch x + 1 .. y of s that hold mark m.
At(s, x, y, m) == {i \in 1 .. y - x : s[x + i] = m}

\* A zero length stands where a message begins.
ZerosBegin(s) == \A j \in 1 .. Len(s) : s[j] = "zero" => j = 1 \/ s[j - 1] = "last"

\* Every unit up to x is covered as long as the framing holds up to it.
CoveredTo(s, f, o, x) ==
  \A i \in 1 .. x : (\A j \in 1 .. i : s[j] # "zero") => Covered(s, f, o, i)

\* What dns_pump_up may pass of stretch x + 1 .. y, and what it observes of it.
Passes(s, x, y, off, end) ==
  LET L == At(s, x, y, "last")
      Z == At(s, x, y, "zero")
  IN IF off \/ end \/ Z # {} THEN y - x ELSE IF L = {} THEN 0 ELSE Max(L)

Sees(s, x, y, off) ==
  LET L == At(s, x, y, "last")
      Z == At(s, x, y, "zero")
  IN IF off THEN {} ELSE {x + i : i \in {j \in L : \A z \in Z : j < z}}

\* The tap has stretch x + 1 .. y of s in hand, where it begins all covered; it has given
\* up on the framing only for a zero length before, and knows of the end once it is there.
Tapping(s, x, y, f, o, off, end) ==
  /\ s \in Seq(Mark) /\ x \in Nat /\ y \in Nat /\ x <= y /\ y <= Len(s) /\ ZerosBegin(s)
  /\ off \in BOOLEAN /\ end \in BOOLEAN
  /\ (off => \E j \in 1 .. x : s[j] = "zero") /\ (end => 1 \in f /\ y = Len(s))
  /\ CoveredTo(s, f, o, x)

\* What is passed was covered: the first message end at or after a unit that passes is
\* observed with it, for no zero length comes between them; and there is one, unless the
\* stream ends here.
LEMMA TapCovers ==
  ASSUME NEW s, NEW x, NEW y, NEW f, NEW o, NEW off, NEW end, Tapping(s, x, y, f, o, off, end)
  PROVE  /\ Passes(s, x, y, off, end) \in 0 .. y - x
         /\ CoveredTo(s, f, o \cup Sees(s, x, y, off), x + Passes(s, x, y, off, end))
         /\ off \/ At(s, x, y, "zero") # {} =>
              \E j \in 1 .. x + Passes(s, x, y, off, end) : s[j] = "zero"
  <1>0. /\ s \in Seq(Mark) /\ x \in Nat /\ y \in Nat /\ x <= y /\ y <= Len(s) /\ ZerosBegin(s)
        /\ off \in BOOLEAN /\ end \in BOOLEAN
        /\ (off => \E j \in 1 .. x : s[j] = "zero") /\ (end => 1 \in f /\ y = Len(s))
        /\ CoveredTo(s, f, o, x)
    BY DEF Tapping
  <1> USE <1>0
  <1>1. PICK L, Z, w, o1 :
          /\ L = At(s, x, y, "last") /\ Z = At(s, x, y, "zero")
          /\ w = Passes(s, x, y, off, end) /\ o1 = o \cup Sees(s, x, y, off)
    OBVIOUS
  <1>2. /\ L = {i \in 1 .. y - x : s[x + i] = "last"}
        /\ Z = {i \in 1 .. y - x : s[x + i] = "zero"}
    BY <1>1 DEF At
  <1>3. w = IF off \/ end \/ Z # {} THEN y - x ELSE IF L = {} THEN 0 ELSE Max(L)
    BY <1>1 DEF Passes
  <1>4. ~off => o1 = o \cup {x + i : i \in {j \in L : \A z \in Z : j < z}}
    BY <1>1 DEF Sees
  <1>5. y - x \in Nat /\ Len(s) \in Nat
    BY LenProperties
  <1>6. L # {} => Max(L) \in L /\ \A q \in L : q <= Max(L)
    BY <1>2, <1>5, MaxGreatest
  <1>7. w \in 0 .. y - x
    <2>1. y - x \in 0 .. y - x /\ 0 \in 0 .. y - x
      BY <1>5
    <2>2. L # {} => Max(L) \in 0 .. y - x
      BY <1>2, <1>5, <1>6
    <2> QED
      BY <1>3, <2>1, <2>2
  <1>8. ASSUME NEW z \in Z PROVE z = 1 \/ z - 1 \in L
    <2>1. z \in 1 .. y - x /\ s[x + z] = "zero"
      BY <1>2
    <2>2. PICK j : j = x + z
      OBVIOUS
    <2>3. j \in 1 .. Len(s) /\ s[j] = "zero" /\ j = x + z
      BY <1>5, <2>1, <2>2
    <2>4. j = 1 \/ s[j - 1] = "last"
      BY <2>3 DEF ZerosBegin
    <2>5. CASE j = 1
      BY <2>1, <2>3, <2>5
    <2>6. CASE s[j - 1] = "last" /\ z # 1
      <3>1. PICK q : q = z - 1
        OBVIOUS
      <3>2. q \in 1 .. y - x /\ x + q = j - 1
        BY <1>5, <2>1, <2>3, <2>6, <3>1
      <3>3. q \in L
        BY <1>2, <2>6, <3>2
      <3> QED
        BY <3>1, <3>3
    <2> QED
      BY <2>4, <2>5, <2>6
  <1>9. ASSUME NEW i \in 1 .. x + w, \A j \in 1 .. i : s[j] # "zero"
        PROVE  Covered(s, f, o1, i)
    <2>1. CASE i <= x
      <3>1. i \in 1 .. x
        BY <1>7, <2>1
      <3>2. Covered(s, f, o, i)
        BY <1>9, <3>1 DEF CoveredTo
      <3> QED
        BY <1>1, <3>2 DEF Covered
    <2>2. CASE ~(i <= x)
      <3>1. PICK q : q = i - x
        OBVIOUS
      <3>2. q \in 1 .. w /\ i = x + q /\ i \in Nat /\ q \in Nat /\ w \in Nat
        BY <1>7, <2>2, <3>1
      <3>3. ~off
        <4>1. ASSUME NEW j \in 1 .. x, s[j] = "zero" PROVE FALSE
          <5>1. j \in 1 .. i
            BY <3>2, <2>2
          <5> QED
            BY <1>9, <4>1, <5>1
        <4> QED
          BY <4>1
      <3>4. ASSUME NEW z \in Z PROVE q < z
        <4>1. z \in 1 .. y - x /\ s[x + z] = "zero"
          BY <1>2
        <4>2. CASE z <= q
          <5>1. x + z \in 1 .. i
            BY <3>2, <4>1, <4>2
          <5> QED
            BY <1>9, <4>1, <5>1
        <4> QED
          BY <3>2, <4>1, <4>2
      <3>5. CASE \E m \in L : q <= m
        <4>1. PICK M : M = {m \in L : q <= m}
          OBVIOUS
        <4>2. M \subseteq Nat /\ M # {}
          BY <1>2, <3>5, <4>1
        <4>3. PICK m \in M : \A m1 \in M : m <= m1
          BY <4>2, LeastNat
        <4>4. m \in L /\ q <= m /\ m \in 1 .. y - x /\ s[x + m] = "last"
          BY <1>2, <4>1, <4>3
        <4>5. ASSUME NEW z \in Z PROVE m < z
          <5>1. q < z /\ z \in 1 .. y - x
            BY <1>2, <3>4
          <5>2. z # 1
            BY <3>2, <5>1
          <5>3. z - 1 \in L
            BY <1>8, <5>2
          <5>4. q <= z - 1
            BY <3>2, <5>1
          <5>5. m <= z - 1
            BY <4>1, <4>3, <5>3, <5>4
          <5> QED
            BY <4>4, <5>1, <5>5
        <4>6. x + m \in o1
          BY <1>4, <3>3, <4>4, <4>5
        <4>7. x + m \in i .. Len(s)
          BY <1>5, <3>2, <4>4
        <4>8. ASSUME NEW j \in i .. (x + m - 1) PROVE s[j] # "last"
          <5>1. PICK p : p = j - x
            OBVIOUS
          <5>2. p \in 1 .. y - x /\ x + p = j /\ q <= p /\ p < m
            BY <1>5, <3>2, <4>4, <5>1
          <5>3. p \notin L
            <6>1. ASSUME p \in L PROVE FALSE
              <7>1. m <= p
                BY <4>1, <4>3, <5>2, <6>1
              <7> QED
                BY <4>4, <5>2, <7>1
            <6> QED
              BY <6>1
          <5> QED
            BY <1>2, <5>2, <5>3
        <4>9. PICK n : n = x + m
          OBVIOUS
        <4>10. /\ n \in i .. Len(s) /\ s[n] = "last" /\ n \in o1
               /\ \A j \in i .. (n - 1) : s[j] # "last"
          BY <4>4, <4>6, <4>7, <4>8, <4>9
        <4> QED
          BY <4>10 DEF Covered
      <3>6. CASE ~(\E m \in L : q <= m)
        <4>1. Z = {}
          <5>1. ASSUME NEW z \in Z PROVE FALSE
            <6>1. q < z /\ z \in 1 .. y - x
              BY <1>2, <3>4
            <6>2. z # 1 /\ q <= z - 1
              BY <3>2, <6>1
            <6>3. z - 1 \in L
              BY <1>8, <6>2
            <6> QED
              BY <3>6, <6>2, <6>3
          <5> QED
            BY <5>1
        <4>2. end
          <5>1. ASSUME ~end PROVE FALSE
            <6>1. w = IF L = {} THEN 0 ELSE Max(L)
              BY <1>3, <3>3, <4>1, <5>1
            <6>2. L # {}
              BY <3>2, <6>1
            <6>3. w \in L
              BY <1>6, <6>1, <6>2
            <6>4. q <= w
              BY <3>2
            <6> QED
              BY <3>6, <6>3, <6>4
          <5> QED
            BY <5>1
        <4>3. 1 \in f /\ y = Len(s)
          BY <4>2
        <4>4. ASSUME NEW j \in i .. Len(s) PROVE s[j] # "last"
          <5>1. PICK p : p = j - x
            OBVIOUS
          <5>2. p \in 1 .. y - x /\ x + p = j /\ q <= p
            BY <1>5, <3>2, <4>3, <5>1
          <5>3. p \notin L
            BY <3>6, <5>2
          <5> QED
            BY <1>2, <5>2, <5>3
        <4> QED
          BY <4>3, <4>4 DEF Covered
      <3> QED
        BY <3>5, <3>6
    <2> QED
      BY <2>1, <2>2
  <1>10. CoveredTo(s, f, o1, x + w)
    BY <1>9 DEF CoveredTo
  <1>11. ASSUME off \/ Z # {} PROVE \E j \in 1 .. x + w : s[j] = "zero"
    <2>1. CASE off
      <3>1. PICK j \in 1 .. x : s[j] = "zero"
        BY <2>1
      <3>2. j \in 1 .. x + w
        BY <1>7
      <3> QED
        BY <3>1, <3>2
    <2>2. CASE Z # {}
      <3>1. PICK z \in 1 .. y - x : s[x + z] = "zero"
        BY <1>2, <2>2
      <3>2. w = y - x
        BY <1>3, <2>2
      <3>3. x + z \in 1 .. x + w
        BY <1>5, <3>2
      <3> QED
        BY <3>1, <3>3
    <2> QED
      BY <1>11, <2>1, <2>2
  <1> QED
    BY <1>1, <1>7, <1>10, <1>11

\* What dns_pump_up computes of a buffer is what it is of the stretch the buffer holds.
LEMMA BufferIs ==
  ASSUME NEW c \in Conns, NEW s, s = sent[c][1], NEW x \in Nat, NEW y \in Nat, x <= y,
         s \in Seq(Mark), y <= Len(s), ZerosBegin(s),
         NEW buf, buf = Stream(c, 1, x, y), NEW off \in BOOLEAN, NEW end \in BOOLEAN
  PROVE  /\ Len(buf) = y - x /\ Zeros(buf) = At(s, x, y, "zero")
         /\ Whole(buf, off, end) = Passes(s, x, y, off, end)
         /\ Observes(buf, off) = Sees(s, x, y, off)
  <1>1. /\ Len(buf) = y - x /\ buf \in Seq(Unit) /\ 1 \in Ends
        /\ \A i \in 1 .. y - x : buf[i] = <<c, 1, x + i>>
    <2>1. 1 \in Ends
      BY DEF Ends
    <2> QED
      BY <2>1, StreamIs
  <1>2. DOMAIN buf = 1 .. y - x
    BY <1>1, LenProperties
  <1>3. \A i \in 1 .. y - x : KindOf(buf[i]) = s[x + i] /\ buf[i][3] = x + i
    BY <1>1 DEF KindOf
  <1>4. PICK L, Z : L = At(s, x, y, "last") /\ Z = At(s, x, y, "zero")
    OBVIOUS
  <1>5. Lasts(buf) = L
    BY <1>2, <1>3, <1>4 DEF Lasts, At
  <1>6. Zeros(buf) = Z
    <2>1. ASSUME NEW z \in Z PROVE z = 1 \/ z - 1 \in L
      <3>1. z \in 1 .. y - x /\ s[x + z] = "zero"
        BY <1>4, <2>1 DEF At
      <3>2. PICK j : j = x + z
        OBVIOUS
      <3>3. j \in 1 .. Len(s) /\ s[j] = "zero" /\ j = x + z
        BY <3>1, <3>2, LenProperties
      <3>4. j = 1 \/ s[j - 1] = "last"
        BY <3>3 DEF ZerosBegin
      <3>5. CASE j = 1
        BY <3>1, <3>3, <3>5
      <3>6. CASE s[j - 1] = "last" /\ z # 1
        <4>1. PICK q : q = z - 1
          OBVIOUS
        <4>2. q \in 1 .. y - x /\ x + q = j - 1
          BY <3>1, <3>3, <3>6, <4>1
        <4>3. q \in L
          BY <1>4, <3>6, <4>2 DEF At
        <4> QED
          BY <4>1, <4>3
      <3> QED
        BY <3>4, <3>5, <3>6
    <2>2. Zeros(buf) = {i \in 1 .. y - x : s[x + i] = "zero" /\ (i = 1 \/ i - 1 \in L)}
      BY <1>2, <1>3, <1>5 DEF Zeros
    <2>3. Z = {i \in 1 .. y - x : s[x + i] = "zero"}
      BY <1>4 DEF At
    <2> QED
      BY <2>1, <2>2, <2>3
  <1>7. Whole(buf, off, end) = Passes(s, x, y, off, end)
    BY <1>1, <1>4, <1>5, <1>6 DEF Whole, Passes
  <1>8. Observes(buf, off) = Sees(s, x, y, off)
    <2>1. PICK J : J = {j \in L : \A z \in Z : j < z}
      OBVIOUS
    <2>2. J \subseteq 1 .. y - x
      BY <1>4, <2>1 DEF At
    <2>3. {buf[i][3] : i \in J} = {x + i : i \in J}
      BY <1>3, <2>2
    <2> QED
      BY <1>4, <1>5, <1>6, <2>1, <2>3 DEF Observes, Sees
  <1> QED
    BY <1>1, <1>4, <1>6, <1>7, <1>8

\* The tap's buffer with what it reads: the stretch from what has arrived on.
LEMMA AtTap ==
  ASSUME PumpInv, pc = "pump", TapsUp, Pull(Available)
  PROVE  /\ k0.dns /\ d = 1 /\ k0.pend[1] = <<>> /\ 1 \notin k0.eof /\ 1 \notin k0.shut
         /\ pipe = <<>>
         /\ read' \in [Conns -> [Ends -> Nat]] /\ \A c \in Conns \ {cur} : read'[c] = read[c]
         /\ read'[cur][0] = read[cur][0]
         /\ read[cur][1] \in Nat /\ read'[cur][1] \in Nat /\ read[cur][1] <= read'[cur][1]
         /\ read'[cur][1] <= Len(sent[cur][1])
         /\ Unread(cur, 1) = 0 => read'[cur][1] = Len(sent[cur][1])
         /\ \E x \in Nat : /\ x <= read[cur][1] /\ arrived[cur][0] = Stream(cur, 1, 0, x)
                           /\ k0.dbuf \o Pulled(Available) = Stream(cur, 1, x, read'[cur][1])
  <1>1. /\ k0.dns /\ d = 1 /\ k0.pend[1] = <<>> /\ (1 \notin k0.eof \/ k0.dbuf # <<>>)
    BY DEF TapsUp
  <1>2. /\ cur \in Conns /\ 1 \in Ends
        /\ Sound(cur, k0, sent[cur], fin[cur], read[cur], arrived[cur], observed[cur], NoPipe)
    BY AtWork DEF Ends
  <1>3. 1 \notin k0.eof /\ 1 \notin k0.shut
    BY <1>1, <1>2 DEF Sound, Buffered, Ended
  <1>4. PICK n : n = Available
    OBVIOUS
  <1>5. n \in Nat /\ n \in 0 .. Unread(cur, 1) /\ (Unread(cur, 1) = 0 => n = 0)
    BY <1>1, <1>4, AvailableIs
  <1>6. /\ read' \in [Conns -> [Ends -> Nat]] /\ read'[cur][1] = read[cur][1] + n
        /\ read'[cur][0] = read[cur][0]
        /\ \A c \in Conns \ {cur} : read'[c] = read[c]
    <2>1. 1 - 1 = 0
      OBVIOUS
    <2> QED
      BY <1>1, <1>4, <1>5, <2>1, PullIs
  <1>7. PICK a, b, l : a = read[cur][1] /\ b = read'[cur][1] /\ l = Len(sent[cur][1])
    OBVIOUS
  <1>8. a \in Nat /\ b \in Nat /\ a <= b /\ b <= l /\ b = a + n
        /\ (Unread(cur, 1) = 0 => b = l)
    <2>1. a \in Nat /\ a + n <= l /\ (Unread(cur, 1) = 0 => a = l)
      BY <1>1, <1>5, <1>7, AvailableIs
    <2> QED
      BY <1>5, <1>6, <1>7, <2>1
  <1>9. PICK x, y \in Nat :
              /\ x <= y /\ y <= a /\ arrived[cur][0] = Stream(cur, 1, 0, x)
              /\ k0.pend[1] = Stream(cur, 1, x, y) /\ k0.dbuf = Stream(cur, 1, y, a)
    <2>1. PICK x, y \in Nat :
              /\ x <= y /\ y <= read[cur][d] /\ arrived[cur][1 - d] = Stream(cur, d, 0, x)
              /\ k0.pend[d] = Stream(cur, d, x, y)
              /\ (IF d = 1 THEN k0.dbuf ELSE <<>>) = Stream(cur, d, y, read[cur][d])
      BY AtPump
    <2>2. 1 - d = 0
      BY <1>1
    <2> QED
      BY <1>1, <1>7, <2>1, <2>2
  <1>10. x = y
    BY <1>1, <1>2, <1>9, StreamEmpty
  <1>11. Pulled(Available) = Stream(cur, 1, a, b)
    BY <1>1, <1>4, <1>7, <1>8 DEF Pulled
  <1>12. k0.dbuf \o Pulled(Available) = Stream(cur, 1, x, b)
    <2>1. PICK c, e : c = cur /\ e = 1
      OBVIOUS
    <2>2. c \in Conns /\ e \in Ends /\ x <= a
      BY <1>2, <1>9, <1>10, <2>1
    <2>3. Stream(c, e, x, a) \o Stream(c, e, a, b) = Stream(c, e, x, b)
      BY <1>8, <2>2, StreamJoins
    <2> QED
      BY <1>9, <1>10, <1>11, <2>1, <2>3
  <1> QED
    BY <1>1, <1>3, <1>6, <1>7, <1>8, <1>9, <1>10, <1>12, AtPump

\* Struct k becomes k1 as the tap reads up to r1 and passes units: those up to x have
\* arrived, those up to y are pending, all of these covered, and the others are in dbuf.
Taps(c, k, k1, s, f, r, r1, a, a1, o1, x, y) ==
  /\ k.dns /\ k1.dns = k.dns /\ k1.shut = k.shut /\ 1 \notin k.shut /\ 1 \notin k.eof
  /\ k1.st = "open" /\ k.st = "open" /\ k1.pend[0] = k.pend[0] /\ a1[1] = a[1] /\ r1[0] = r[0]
  /\ r1[1] <= Len(s[1]) /\ x <= y /\ y <= r1[1] /\ a1[0] = Stream(c, 1, 0, x)
  /\ k1.pend[1] = Stream(c, 1, x, y) /\ k1.dbuf = Stream(c, 1, y, r1[1])
  /\ Len(k1.dbuf) <= DbufMax
  /\ \/ k1.eof = k.eof
     \/ k1.eof = k.eof \cup {1} /\ 1 \in f /\ r1[1] = Len(s[1]) /\ y = r1[1]
  /\ CoveredTo(s[1], f, o1, y) /\ (k1.doff => \E j \in 1 .. y : s[1][j] = "zero")

\* What the tap passes leaves the connection sound.
LEMMA TapSound ==
  ASSUME NEW c \in Conns, NEW k \in Conn, NEW k1 \in Conn, NEW s, NEW f,
         NEW r \in [Ends -> Nat], NEW r1 \in [Ends -> Nat], NEW a, NEW a1, NEW o, NEW o1,
         Sound(c, k, s, f, r, a, o, NoPipe), NEW x \in Nat, NEW y \in Nat,
         Taps(c, k, k1, s, f, r, r1, a, a1, o1, x, y)
  PROVE  Sound(c, k1, s, f, r1, a1, o1, NoPipe)
  <1>1. 0 \in Ends /\ 1 \in Ends /\ \A z \in Ends : z = 0 \/ z = 1
    BY DEF Ends
  <1>2. Framed(k1, s, r1)
    BY <1>1 DEF Sound, Framed, Taps
  <1>3. Buffered(k1)
    <2>1. ASSUME 1 \in k1.eof PROVE k1.dbuf = <<>>
      <3>1. y = r1[1]
        BY <2>1 DEF Taps
      <3> QED
        BY <1>1, <3>1, StreamEmpty DEF Taps
    <2> QED
      BY <2>1 DEF Buffered, Taps
  <1>4. Ended(k1, s, f, r1)
    <2>1. Ended(k, s, f, r) /\ k.eof \subseteq Ends /\ k.shut \subseteq Ends
      BY DEF Sound, Conn
    <2>2. ASSUME NEW z \in k1.eof PROVE z \in f /\ r1[z] = Len(s[z])
      <3>1. CASE z \in k.eof
        <4>1. z \in f /\ r[z] = Len(s[z]) /\ z = 0
          BY <1>1, <2>1, <3>1 DEF Ended, Taps
        <4> QED
          BY <4>1 DEF Taps
      <3>2. CASE z \notin k.eof
        BY <2>2, <3>2 DEF Taps
      <3> QED
        BY <3>1, <3>2
    <2>3. ASSUME NEW z \in k1.shut PROVE z \in k1.eof /\ k1.pend[z] = <<>>
      <3>1. z \in k.eof /\ k.pend[z] = <<>> /\ z = 0
        BY <1>1, <2>1, <2>3 DEF Ended, Taps
      <3> QED
        BY <3>1 DEF Taps
    <2> QED
      BY <2>2, <2>3 DEF Ended
  <1>5. Observed(k1, s, f, a1, o1)
    <2>1. Len(a1[0]) = x
      BY <1>1, StreamStart DEF Taps
    <2>2. Len(k1.pend[1]) = y - x
      BY <1>1, StreamIs DEF Taps
    <2>3. Gone(k1, a1) = y
      BY <2>1, <2>2 DEF Gone
    <2> QED
      BY <2>3 DEF Observed, Taps, CoveredTo
  <1>6. Stretches(c, 1, k1, r1[1], a1[0], NoPipe[1])
    <2>1. NoPipe[1] = Stream(c, 1, x, x)
      BY <1>1, StreamEmpty DEF NoPipe
    <2>2. \E x1, y1, z1 \in Nat :
            /\ x1 <= y1 /\ y1 <= z1 /\ z1 <= r1[1] /\ a1[0] = Stream(c, 1, 0, x1)
            /\ NoPipe[1] = Stream(c, 1, x1, y1) /\ k1.pend[1] = Stream(c, 1, y1, z1)
            /\ k1.dbuf = Stream(c, 1, z1, r1[1])
      BY <2>1 DEF Taps
    <2> QED
      BY <2>2 DEF Stretches
  <1>7. Stretches(c, 0, k1, r1[0], a1[1], NoPipe[0])
    <2>1. Stretches(c, 0, k, r[0], a[1 - 0], NoPipe[0]) /\ 1 - 0 = 1
      BY <1>1 DEF Sound
    <2> QED
      BY <2>1 DEF Stretches, Taps
  <1>8. ASSUME NEW e \in Ends PROVE Stretches(c, e, k1, r1[e], a1[1 - e], NoPipe[e])
    <2>1. CASE e = 1
      <3>1. 1 - e = 0
        BY <2>1
      <3> QED
        BY <1>6, <2>1, <3>1
    <2>2. CASE e = 0
      <3>1. 1 - e = 1
        BY <2>2
      <3> QED
        BY <1>7, <2>2, <3>1
    <2> QED
      BY <1>1, <2>1, <2>2
  <1> QED
    BY <1>2, <1>3, <1>4, <1>5, <1>8 DEF Sound

\* The struct the tap leaves: q is pending, b buffered, off whether it met a zero length
\* and end whether the stream is over.
Tapped(k, q, b, off, end) ==
  [k EXCEPT !.pend[1] = q, !.dbuf = b, !.doff = @ \/ off, !.eof = IF end THEN @ \cup {1} ELSE @]

\* Struct k1 is k but in these four fields.
TapsTo(k, k1, q, b, off, end) ==
  /\ k1 \in Conn /\ k1.dns = k.dns /\ k1.shut = k.shut /\ k1.st = k.st
  /\ k1.pend[1] = q /\ k1.pend[0] = k.pend[0] /\ k1.dbuf = b
  /\ k1.doff = (k.doff \/ off) /\ k1.eof = (IF end THEN k.eof \cup {1} ELSE k.eof)

\* Tapped changes these four fields and no other.
LEMMA TapStruct ==
  ASSUME NEW k \in Conn, NEW q \in Seq(Unit), NEW b \in Seq(Unit), NEW off, NEW end,
         NEW k1, k1 = Tapped(k, q, b, off, end)
  PROVE  TapsTo(k, k1, q, b, off, end)
  <1>1. PICK m, g, h : /\ m = [k.pend EXCEPT ![1] = q] /\ g = (k.doff \/ off)
                       /\ h = (IF end THEN k.eof \cup {1} ELSE k.eof)
    OBVIOUS
  <1>2. m \in [Ends -> Seq(Unit)] /\ m[1] = q /\ m[0] = k.pend[0]
    BY <1>1 DEF Conn, Ends
  <1>3. g \in BOOLEAN /\ h \in SUBSET Ends
    BY <1>1 DEF Conn, Ends
  <1>4. PICK k2 : k2 = [k EXCEPT !.pend = m]
    OBVIOUS
  <1>5. /\ k2 \in Conn /\ k2.pend = m /\ k2.dns = k.dns /\ k2.shut = k.shut /\ k2.st = k.st
        /\ k2.eof = k.eof /\ k2.doff = k.doff
    BY <1>2, <1>4 DEF Conn
  <1>6. PICK k3 : k3 = [k2 EXCEPT !.dbuf = b]
    OBVIOUS
  <1>7. /\ k3 \in Conn /\ k3.pend = m /\ k3.dns = k.dns /\ k3.shut = k.shut /\ k3.st = k.st
        /\ k3.eof = k.eof /\ k3.doff = k.doff /\ k3.dbuf = b
    BY <1>5, <1>6 DEF Conn
  <1>8. PICK k4 : k4 = [k3 EXCEPT !.doff = g]
    OBVIOUS
  <1>9. /\ k4 \in Conn /\ k4.pend = m /\ k4.dns = k.dns /\ k4.shut = k.shut /\ k4.st = k.st
        /\ k4.eof = k.eof /\ k4.doff = g /\ k4.dbuf = b
    BY <1>3, <1>7, <1>8 DEF Conn
  <1>10. PICK k5 : k5 = [k4 EXCEPT !.eof = h]
    OBVIOUS
  <1>11. /\ k5 \in Conn /\ k5.pend = m /\ k5.dns = k.dns /\ k5.shut = k.shut /\ k5.st = k.st
         /\ k5.eof = h /\ k5.doff = g /\ k5.dbuf = b
    BY <1>3, <1>9, <1>10 DEF Conn
  <1>12. k1 = k5
    BY <1>1, <1>4, <1>6, <1>8, <1>10 DEF Tapped
  <1> QED
    BY <1>1, <1>2, <1>11, <1>12 DEF TapsTo

\* What of the tap's buffer was sent, and what of it waits.
LEMMA TapPushes ==
  ASSUME PumpInv, pc = "pump", d = 1, NEW x \in Nat, NEW y \in Nat, x <= y,
         arrived[cur][0] = Stream(cur, 1, 0, x), NEW us, us = Stream(cur, 1, x, y), Push(us)
  PROVE  /\ \E z \in Nat : /\ x <= z /\ z <= y /\ arrived'[cur][0] = Stream(cur, 1, 0, z)
                           /\ Rest(us) = Stream(cur, 1, z, y)
         /\ arrived' \in [Conns -> [Ends -> Seq(Unit)]] /\ room' \in [Conns -> [Ends -> 0 .. Cap]]
         /\ arrived'[cur][1] = arrived[cur][1]
         /\ Len(arrived[cur][0]) <= Len(arrived'[cur][0])
         /\ \A c \in Conns \ {cur} : arrived'[c] = arrived[c]
  <1>1. 1 - d = 0 /\ pc # "batch"
    OBVIOUS
  <1>2. arrived[cur][1 - d] = Stream(cur, d, 0, x) /\ us = Stream(cur, d, x, y)
    BY <1>1
  <1>3. /\ \E t \in 0 .. y - x :
             /\ t = Taken(us) /\ arrived'[cur][1 - d] = Stream(cur, d, 0, x + t)
             /\ Rest(us) = Stream(cur, d, x + t, y)
        /\ arrived' \in [Conns -> [Ends -> Seq(Unit)]] /\ room' \in [Conns -> [Ends -> 0 .. Cap]]
        /\ arrived'[cur][d] = arrived[cur][d]
        /\ Len(arrived[cur][1 - d]) <= Len(arrived'[cur][1 - d])
        /\ \A c \in Conns \ {cur} : arrived'[c] = arrived[c]
    BY <1>1, <1>2, PushIs
  <1>4. PICK t \in 0 .. y - x : /\ arrived'[cur][1 - d] = Stream(cur, d, 0, x + t)
                                /\ Rest(us) = Stream(cur, d, x + t, y)
    BY <1>3
  <1>5. PICK z : z = x + t
    OBVIOUS
  <1>6. /\ z \in Nat /\ x <= z /\ z <= y /\ arrived'[cur][0] = Stream(cur, 1, 0, z)
        /\ Rest(us) = Stream(cur, 1, z, y)
    BY <1>1, <1>4, <1>5
  <1> QED
    BY <1>1, <1>3, <1>6

\* Covered is kept by what is observed in addition, and holds of a beginning.
LEMMA CoveredMore ==
  ASSUME NEW s, NEW f, NEW o, NEW o1, NEW x \in Nat, NEW y \in Nat, x <= y, o \subseteq o1,
         CoveredTo(s, f, o, y)
  PROVE  CoveredTo(s, f, o1, x)
  <1>1. ASSUME NEW i \in 1 .. x, \A j \in 1 .. i : s[j] # "zero" PROVE Covered(s, f, o1, i)
    <2>1. i \in 1 .. y
      OBVIOUS
    <2>2. Covered(s, f, o, i)
      BY <1>1, <2>1 DEF CoveredTo
    <2> QED
      BY <2>2 DEF Covered
  <1> QED
    BY <1>1 DEF CoveredTo

\* The tap reads, observes what is whole, and sends it: in this order.
LEMMA DnsUpInv ==
  ASSUME PumpInv, DnsUp
  PROVE  PumpInv' /\ StreamStep
  <1>1. PICK n, buf, end, w, us :
          /\ n = Available /\ buf = k0.dbuf \o Pulled(n)
          /\ end = (1 \in k0.eof \/ (Unread(cur, 1) = 0 /\ 1 \in fin[cur]))
          /\ w = Whole(buf, k0.doff, end) /\ us = SubSeq(buf, 1, w)
    OBVIOUS
  <1>2. /\ pc = "pump" /\ TapsUp /\ Pull(n) /\ UNCHANGED <<endVars, pipe, nosplice>>
        /\ \/ Fatal /\ UNCHANGED <<room, arrived, observed>>
           \/ /\ Fits(buf)
              /\ observed' = [observed EXCEPT ![cur] = @ \cup Observes(buf, k0.doff)]
              /\ \/ Fatal /\ UNCHANGED <<room, arrived>>
                 \/ Push(us) /\ Fatal
                 \/ /\ Push(us)
                    /\ Turned([k0 EXCEPT !.pend[1] = Rest(us),
                                         !.dbuf = SubSeq(buf, w + 1, Len(buf)),
                                         !.doff = @ \/ Zeros(buf) # {},
                                         !.eof = IF end THEN @ \cup {1} ELSE @],
                              n > 0 \/ end \/ w > 0)
    BY <1>1 DEF DnsUp
  <1>3. /\ k0.dns /\ d = 1 /\ k0.pend[1] = <<>> /\ 1 \notin k0.eof /\ 1 \notin k0.shut
        /\ pipe = <<>>
        /\ read' \in [Conns -> [Ends -> Nat]] /\ \A c \in Conns \ {cur} : read'[c] = read[c]
        /\ read'[cur][0] = read[cur][0]
        /\ read[cur][1] \in Nat /\ read'[cur][1] \in Nat /\ read[cur][1] <= read'[cur][1]
        /\ read'[cur][1] <= Len(sent[cur][1])
        /\ Unread(cur, 1) = 0 => read'[cur][1] = Len(sent[cur][1])
        /\ \E x \in Nat : /\ x <= read[cur][1] /\ arrived[cur][0] = Stream(cur, 1, 0, x)
                          /\ k0.dbuf \o Pulled(Available) = Stream(cur, 1, x, read'[cur][1])
    BY <1>1, <1>2, AtTap
  <1>4. PICK x \in Nat : /\ x <= read[cur][1] /\ arrived[cur][0] = Stream(cur, 1, 0, x)
                         /\ buf = Stream(cur, 1, x, read'[cur][1])
    BY <1>1, <1>3
  <1>5. PICK y, s, f, o, off : /\ y = read'[cur][1] /\ s = sent[cur][1] /\ f = fin[cur]
                               /\ o = observed[cur] /\ off = k0.doff
    OBVIOUS
  <1>6. /\ cur \in Conns /\ 1 \in Ends /\ 0 \in Ends /\ k0 \in Conn /\ k0.st = "open"
        /\ read[cur] \in [Ends -> Nat] /\ arrived[cur] \in [Ends -> Seq(Unit)]
        /\ Sound(cur, k0, sent[cur], fin[cur], read[cur], arrived[cur], observed[cur], NoPipe)
        /\ s \in Seq(Mark) /\ off \in BOOLEAN
    BY <1>2, <1>5, AtWork DEF Conn, Ends
  <1>7. /\ y \in Nat /\ x <= y /\ y <= Len(s) /\ end \in BOOLEAN /\ (end => 1 \in f /\ y = Len(s))
    <2>1. y \in Nat /\ x <= y /\ y <= Len(s)
      <3>1. PICK a : a = read[cur][1]
        OBVIOUS
      <3>2. x <= a /\ a <= y /\ a \in Nat /\ y \in Nat /\ y <= Len(s)
        BY <1>3, <1>4, <1>5, <3>1
      <3> QED
        BY <3>2
    <2>2. end = (Unread(cur, 1) = 0 /\ 1 \in fin[cur])
      BY <1>1, <1>3
    <2>3. Unread(cur, 1) = 0 => y = Len(s)
      BY <1>3, <1>5
    <2> QED
      BY <1>5, <2>1, <2>2, <2>3
  <1>8. ZerosBegin(s)
    BY <1>5, <1>6 DEF Sound, Framed, ZerosBegin
  <1>9. CoveredTo(s, f, o, x) /\ (off => \E j \in 1 .. x : s[j] = "zero")
    <2>1. Len(arrived[cur][0]) = x
      BY <1>4, <1>6, StreamStart
    <2>2. Gone(k0, arrived[cur]) = x
      BY <1>3, <2>1, EmptySeq DEF Gone
    <2> QED
      BY <1>3, <1>5, <1>6, <2>2 DEF Sound, Observed, CoveredTo
  <1>10. /\ Len(buf) = y - x /\ Zeros(buf) = At(s, x, y, "zero")
         /\ w = Passes(s, x, y, off, end) /\ Observes(buf, off) = Sees(s, x, y, off)
    <2>1. PICK c : c = cur
      OBVIOUS
    <2>2. s = sent[c][1] /\ buf = Stream(c, 1, x, y) /\ c \in Conns
      BY <1>4, <1>5, <1>6, <2>1
    <2>3. /\ Len(buf) = y - x /\ Zeros(buf) = At(s, x, y, "zero")
          /\ Whole(buf, off, end) = Passes(s, x, y, off, end)
          /\ Observes(buf, off) = Sees(s, x, y, off)
      BY <1>6, <1>7, <1>8, <2>2, BufferIs
    <2> QED
      BY <1>1, <1>5, <2>3
  <1>11. PICK o1 : o1 = o \cup Sees(s, x, y, off)
    OBVIOUS
  <1>12. /\ w \in 0 .. y - x /\ CoveredTo(s, f, o1, x + w)
         /\ off \/ Zeros(buf) # {} => \E j \in 1 .. x + w : s[j] = "zero"
    <2>1. /\ Passes(s, x, y, off, end) \in 0 .. y - x
          /\ CoveredTo(s, f, o \cup Sees(s, x, y, off), x + Passes(s, x, y, off, end))
          /\ off \/ At(s, x, y, "zero") # {} =>
               \E j \in 1 .. x + Passes(s, x, y, off, end) : s[j] = "zero"
      <3>1. Tapping(s, x, y, f, o, off, end)
        BY <1>6, <1>7, <1>8, <1>9 DEF Tapping
      <3> QED
        BY <3>1, TapCovers
    <2> QED
      BY <1>10, <1>11, <2>1
  <1>13. PICK z : z = x + w
    OBVIOUS
  <1>14. z \in Nat /\ x <= z /\ z <= y
    BY <1>7, <1>12, <1>13
  <1>15. us = Stream(cur, 1, x, z) /\ SubSeq(buf, w + 1, Len(buf)) = Stream(cur, 1, z, y)
    <2>1. PICK c, e : c = cur /\ e = 1
      OBVIOUS
    <2>2. /\ SubSeq(Stream(c, e, x, y), 1, w) = Stream(c, e, x, x + w)
          /\ SubSeq(Stream(c, e, x, y), w + 1, y - x) = Stream(c, e, x + w, y)
      BY <1>6, <1>7, <1>12, <2>1, StreamCuts
    <2> QED
      BY <1>1, <1>4, <1>5, <1>10, <1>13, <2>1, <2>2
  <1>16. Sees(s, x, y, off) \subseteq Nat
    BY <1>7 DEF Sees, At
  <1>17. /\ 1 - d = 0 /\ pipe' = <<>> /\ UNCHANGED <<endVars, nosplice>>
    BY <1>2, <1>3
  <1>18. Len(arrived[cur][0]) \in Nat
    BY <1>6, LenProperties
  <1>19. CASE Fatal /\ UNCHANGED <<room, arrived>> /\ observed' \in [Conns -> SUBSET Nat]
              /\ observed[cur] \subseteq observed'[cur]
              /\ \A c \in Conns \ {cur} : observed'[c] = observed[c]
    <2>1. Onward
      BY <1>3, <1>17, <1>18, <1>19 DEF Onward, PumpInv, Types
    <2>2. x \in 0 .. read'[cur][1] /\ arrived'[cur][0] = Stream(cur, 1, 0, x)
      BY <1>4, <1>5, <1>7, <1>19
    <2>3. /\ arrived'[cur] = arrived[cur] /\ read[cur][d] <= read'[cur][d]
          /\ read'[cur][d] <= Len(sent[cur][d]) /\ read'[cur][1 - d] = read[cur][1 - d]
          /\ d \in k0.eof => read'[cur][d] = read[cur][d]
          /\ x \in 0 .. read'[cur][d] /\ arrived'[cur][1 - d] = Stream(cur, d, 0, x)
      BY <1>3, <1>17, <1>19, <2>2
    <2> QED
      BY <1>2, <1>19, <2>1, <2>3, FailsAfter
  <1>20. ASSUME observed' = [observed EXCEPT ![cur] = @ \cup Observes(buf, k0.doff)]
         PROVE  /\ observed' \in [Conns -> SUBSET Nat] /\ observed'[cur] = o1
                /\ observed[cur] \subseteq observed'[cur]
                /\ \A c \in Conns \ {cur} : observed'[c] = observed[c]
    <2>1. o1 = observed[cur] \cup Observes(buf, k0.doff) /\ o1 \in SUBSET Nat
      BY <1>5, <1>6, <1>10, <1>11, <1>16 DEF PumpInv, Types
    <2> QED
      BY <1>6, <1>20, <2>1 DEF PumpInv, Types
  <1>21. ASSUME observed' = [observed EXCEPT ![cur] = @ \cup Observes(buf, k0.doff)], Push(us)
         PROVE  /\ Onward
                /\ \E v \in Nat : /\ v <= z /\ arrived'[cur][0] = Stream(cur, 1, 0, v)
                                  /\ Rest(us) = Stream(cur, 1, v, z)
    <2>1. /\ \E v \in Nat : /\ x <= v /\ v <= z /\ arrived'[cur][0] = Stream(cur, 1, 0, v)
                            /\ Rest(us) = Stream(cur, 1, v, z)
          /\ arrived' \in [Conns -> [Ends -> Seq(Unit)]] /\ room' \in [Conns -> [Ends -> 0 .. Cap]]
          /\ arrived'[cur][1] = arrived[cur][1]
          /\ Len(arrived[cur][0]) <= Len(arrived'[cur][0])
          /\ \A c \in Conns \ {cur} : arrived'[c] = arrived[c]
      <3>1. /\ pc = "pump" /\ d = 1 /\ z \in Nat /\ x <= z /\ Push(us)
            /\ arrived[cur][0] = Stream(cur, 1, 0, x) /\ us = Stream(cur, 1, x, z)
        BY <1>2, <1>3, <1>4, <1>14, <1>15, <1>21
      <3> QED
        BY <3>1, TapPushes
    <2>2. /\ arrived'[cur][d] = arrived[cur][d] /\ d \notin conn[cur].shut
          /\ Len(arrived[cur][1 - d]) <= Len(arrived'[cur][1 - d])
      BY <1>3, <1>17, <2>1 DEF k0
    <2>3. Onward
      BY <1>3, <1>17, <1>20, <1>21, <2>1, <2>2 DEF Onward
    <2> QED
      BY <2>1, <2>3
  <1>22. CASE /\ observed' = [observed EXCEPT ![cur] = @ \cup Observes(buf, k0.doff)]
              /\ Push(us) /\ Fatal
    <2>1. Onward
      BY <1>21, <1>22
    <2>2. PICK v \in Nat : v <= z /\ arrived'[cur][0] = Stream(cur, 1, 0, v)
      BY <1>21, <1>22
    <2>3. \A e \in Ends : e = 0 \/ e = 1
      BY DEF Ends
    <2>4. Framed(k0, sent[cur], read'[cur])
      BY <1>3, <1>6, <2>3 DEF Sound, Framed
    <2>5. Ended(k0, sent[cur], fin[cur], read'[cur])
      <3>1. k0.eof \subseteq Ends /\ Ended(k0, sent[cur], fin[cur], read[cur])
        BY <1>6 DEF Conn, Sound
      <3>2. \A e \in k0.eof : read'[cur][e] = read[cur][e]
        BY <1>3, <2>3, <3>1
      <3> QED
        BY <3>1, <3>2 DEF Ended
    <2>6. ASSUME NEW e \in Ends
          PROVE  \E q \in 0 .. read'[cur][e] : arrived'[cur][1 - e] = Stream(cur, e, 0, q)
      <3>1. CASE e = 1
        <4>1. 1 - e = 0 /\ v \in 0 .. read'[cur][1]
          BY <1>5, <1>7, <1>14, <2>2, <3>1
        <4> QED
          BY <2>2, <3>1, <4>1
      <3>2. CASE e = 0
        <4>1. 1 - e = 1 /\ read'[cur][e] = read[cur][e] /\ arrived'[cur][1] = arrived[cur][1]
          BY <1>3, <2>1, <3>2 DEF Onward
        <4>2. PICK c, r, a, p : /\ c = cur /\ r = read[cur] /\ a = arrived[cur]
                                /\ p = NoPipe
          OBVIOUS
        <4>3. /\ \A g \in Ends : \E q \in 0 .. r[g] : a[1 - g] = Stream(c, g, 0, q)
          <5>1. Sound(c, k0, sent[cur], f, r, a, o, p)
            BY <1>5, <1>6, <4>2
          <5> QED
            BY <1>6, <4>2, <5>1, SoundBegins
        <4> QED
          BY <3>2, <4>1, <4>2, <4>3
      <3> QED
        BY <2>3, <3>1, <3>2
    <2>7. \A i \in 1 .. Len(arrived'[cur][0]) :
             (\A j \in 1 .. i : sent[cur][1][j] # "zero") =>
               Covered(sent[cur][1], fin[cur], observed'[cur], i)
      <3>1. CoveredTo(s, f, o1, v)
        BY <1>12, <1>13, <1>14, <2>2, CoveredMore
      <3>2. Len(arrived'[cur][0]) = v
        BY <1>6, <2>2, StreamStart
      <3>3. observed'[cur] = o1
        BY <1>20, <1>22
      <3> QED
        BY <1>5, <3>1, <3>2, <3>3 DEF CoveredTo
    <2> QED
      BY <1>2, <1>22, <2>1, <2>4, <2>5, <2>6, <2>7, GivesUp
  <1>23. CASE /\ observed' = [observed EXCEPT ![cur] = @ \cup Observes(buf, k0.doff)]
              /\ Fits(buf) /\ Push(us)
              /\ Turned([k0 EXCEPT !.pend[1] = Rest(us),
                                   !.dbuf = SubSeq(buf, w + 1, Len(buf)),
                                   !.doff = @ \/ Zeros(buf) # {},
                                   !.eof = IF end THEN @ \cup {1} ELSE @],
                        n > 0 \/ end \/ w > 0)
    <2>1. PICK k1, p, q, b, z0 :
            /\ q = Rest(us) /\ b = SubSeq(buf, w + 1, Len(buf)) /\ z0 = (Zeros(buf) # {})
            /\ k1 = Tapped(k0, q, b, z0, end)
            /\ p = (n > 0 \/ end \/ w > 0)
      OBVIOUS
    <2>2. Turned(k1, p) /\ p \in BOOLEAN
      BY <1>23, <2>1 DEF Tapped
    <2>3. Onward
      BY <1>21, <1>23
    <2>4. PICK v \in Nat : /\ v <= z /\ arrived'[cur][0] = Stream(cur, 1, 0, v)
                           /\ q = Stream(cur, 1, v, z)
      BY <1>21, <1>23, <2>1
    <2>5. b = Stream(cur, 1, z, y)
      BY <1>15, <2>1
    <2>6. q \in Seq(Unit) /\ b \in Seq(Unit) /\ Len(b) = y - z
      <3>1. PICK c, e : c = cur /\ e = 1
        OBVIOUS
      <3>2. Stream(c, e, v, z) \in Seq(Unit)
        BY <1>6, <1>14, <2>4, <3>1, StreamIs
      <3>3. Stream(c, e, z, y) \in Seq(Unit) /\ Len(Stream(c, e, z, y)) = y - z
        BY <1>6, <1>7, <1>14, <3>1, StreamIs
      <3> QED
        BY <2>4, <2>5, <3>1, <3>2, <3>3
    <2>7. z0 \in BOOLEAN
      BY <2>1
    <2>8. /\ k1 \in Conn /\ k1.dns = k0.dns /\ k1.shut = k0.shut /\ k1.st = k0.st
          /\ k1.pend[1] = q /\ k1.pend[0] = k0.pend[0] /\ k1.dbuf = b
          /\ k1.doff = (k0.doff \/ z0) /\ k1.eof = (IF end THEN k0.eof \cup {1} ELSE k0.eof)
      <3>1. PICK h : h = k0
        OBVIOUS
      <3>2. h \in Conn /\ k1 = Tapped(h, q, b, z0, end)
        BY <1>6, <2>1, <3>1
      <3>3. TapsTo(h, k1, q, b, z0, end)
        BY <2>6, <3>2, TapStruct
      <3> QED
        BY <3>1, <3>3 DEF TapsTo
    <2>9. Len(b) <= DbufMax
      <3>1. Len(buf) <= DbufMax /\ DbufMax \in Nat
        BY <1>23, PumpAssumption DEF Fits
      <3>2. y - z <= y - x
        BY <1>7, <1>14
      <3>3. PICK l1, l2 : l1 = Len(b) /\ l2 = Len(buf)
        OBVIOUS
      <3>4. l1 = y - z /\ l2 = y - x /\ l2 <= DbufMax
        BY <1>10, <2>6, <3>1, <3>3
      <3> QED
        BY <1>7, <1>14, <3>1, <3>2, <3>3, <3>4
    <2>10. end => z = y
      BY <1>7, <1>10, <1>12, <1>13 DEF Passes
    <2>11. PICK c, k, ss, r, r1, a, a1 :
             /\ c = cur /\ k = k0 /\ ss = sent[cur] /\ r = read[cur] /\ r1 = read'[cur]
             /\ a = arrived[cur] /\ a1 = arrived'[cur]
      OBVIOUS
    <2>12. Taps(c, k, k1, ss, f, r, r1, a, a1, o1, v, z)
      <3>1. /\ k.dns /\ k1.dns = k.dns /\ k1.shut = k.shut /\ 1 \notin k.shut /\ 1 \notin k.eof
            /\ k1.st = "open" /\ k.st = "open" /\ k1.pend[0] = k.pend[0]
        BY <1>3, <1>6, <2>8, <2>11
      <3>2. a1[1] = a[1] /\ r1[0] = r[0]
        BY <1>3, <2>3, <2>11 DEF Onward
      <3>3. /\ r1[1] <= Len(ss[1]) /\ v <= z /\ z <= r1[1] /\ a1[0] = Stream(c, 1, 0, v)
            /\ k1.pend[1] = Stream(c, 1, v, z) /\ k1.dbuf = Stream(c, 1, z, r1[1])
            /\ Len(k1.dbuf) <= DbufMax
        BY <1>3, <1>5, <1>14, <2>4, <2>5, <2>8, <2>9, <2>11
      <3>4. \/ k1.eof = k.eof
            \/ k1.eof = k.eof \cup {1} /\ 1 \in f /\ r1[1] = Len(ss[1]) /\ z = r1[1]
        BY <1>5, <1>7, <2>8, <2>10, <2>11
      <3>5. CoveredTo(ss[1], f, o1, z) /\ (k1.doff => \E j \in 1 .. z : ss[1][j] = "zero")
        BY <1>5, <1>12, <1>13, <2>1, <2>8, <2>11
      <3> QED
        BY <3>1, <3>2, <3>3, <3>4, <3>5 DEF Taps
    <2>13. Sound(c, k1, ss, f, r1, a1, o1, NoPipe)
      <3>1. r1 \in [Ends -> Nat] /\ r \in [Ends -> Nat] /\ k \in Conn /\ c \in Conns
        BY <1>3, <1>6, <2>11
      <3>2. Sound(c, k, ss, f, r, a, o, NoPipe)
        BY <1>5, <1>6, <2>11
      <3> QED
        BY <1>14, <2>8, <2>12, <3>1, <3>2, TapSound
    <2>14. Sound(cur, k1, sent[cur], fin[cur], read'[cur], arrived'[cur], observed'[cur], NoPipe)
      <3>1. observed'[cur] = o1
        BY <1>20, <1>23
      <3> QED
        BY <1>5, <2>11, <2>13, <3>1
    <2> QED
      BY <1>2, <1>6, <2>2, <2>3, <2>8, <2>14, Advances
  <1>24. CASE Fatal /\ UNCHANGED <<room, arrived, observed>>
    <2>1. /\ observed' \in [Conns -> SUBSET Nat] /\ observed[cur] \subseteq observed'[cur]
          /\ \A c \in Conns \ {cur} : observed'[c] = observed[c]
      BY <1>24 DEF PumpInv, Types
    <2> QED
      BY <1>19, <1>24, <2>1
  <1>25. CASE /\ observed' = [observed EXCEPT ![cur] = @ \cup Observes(buf, k0.doff)]
              /\ Fatal /\ UNCHANGED <<room, arrived>>
    BY <1>19, <1>20, <1>25
  <1> QED
    BY <1>2, <1>22, <1>23, <1>24, <1>25

------------------------------------------------------------------------------
(* The other actions, in the terms of ByteStreams.                              *)

\* What a connection's new struct does when it shuts nothing: it cuts it, or nothing.
LEMMA CutStep ==
  ASSUME Types, NEW c \in Conns, NEW k, conn' = [conn EXCEPT ![c] = k], k.shut = conn[c].shut,
         conn[c].st # "closed", UNCHANGED <<sent, fin, arrived>>
  PROVE  StreamStep
  <1>1. PICK W, A, T, T1, C, C1 :
          /\ W = [x \in Conns |-> [y \in Ends |-> Len(sent[x][y])]]
          /\ A = [x \in Conns |-> [y \in Ends |-> Len(arrived[x][y])]]
          /\ T = [x \in Conns |-> {1 - y : y \in conn[x].shut}]
          /\ T1 = [x \in Conns |-> {1 - y : y \in conn'[x].shut}]
          /\ C = {x \in Conns : conn[x].st = "closed"}
          /\ C1 = {x \in Conns : conn'[x].st = "closed"}
    OBVIOUS
  <1>2. conn'[c] = k /\ \A x \in Conns \ {c} : conn'[x] = conn[x]
    BY DEF Types
  <1>3. T1 = T
    BY <1>1, <1>2
  <1>4. C1 \in {C, C \cup {c}}
    BY <1>1, <1>2
  <1>5. CASE C1 = C
    BY <1>1, <1>3, <1>5 DEF StreamStep, Streams!streams
  <1>6. CASE C1 = C \cup {c}
    <2>1. Streams!Cut(c)
      BY <1>1, <1>3, <1>6 DEF Streams!Cut
    <2> QED
      BY <2>1 DEF StreamStep, Streams!Next
  <1> QED
    BY <1>4, <1>5, <1>6

\* A unit written is a byte written.
LEMMA WriteStep ==
  ASSUME Types, NEW c \in Conns, NEW e \in Ends, Write(c, e)
  PROVE  StreamStep
  <1>1. PICK m \in Kinds(c, e) : sent' = [sent EXCEPT ![c][e] = Append(@, m)]
    BY DEF Write
  <1>2. e \notin fin[c] /\ UNCHANGED <<fin, arrived, conn>>
    BY DEF Write, netVars
  <1>3. PICK s : s = sent[c][e]
    OBVIOUS
  <1>4. s \in Seq(Mark) /\ m \in Mark
    BY <1>3 DEF Types, Kinds, Mark
  <1>5. PICK s1 : s1 = Append(s, m)
    OBVIOUS
  <1>6. Len(s1) = Len(s) + 1
    BY <1>4, <1>5, AppendProperties
  <1>7. sent' = [sent EXCEPT ![c] = [sent[c] EXCEPT ![e] = s1]]
    BY <1>1, <1>3, <1>5
  <1>8. /\ sent'[c] = [sent[c] EXCEPT ![e] = s1] /\ \A x \in Conns \ {c} : sent'[x] = sent[x]
    BY <1>7 DEF Types
  <1>9. sent'[c][e] = s1 /\ \A y \in Ends \ {e} : sent'[c][y] = sent[c][y]
    BY <1>8 DEF Types
  <1>10. PICK W, W1 : /\ W = [x \in Conns |-> [y \in Ends |-> Len(sent[x][y])]]
                      /\ W1 = [x \in Conns |-> [y \in Ends |-> Len(sent'[x][y])]]
    OBVIOUS
  <1>11. W1[c] = [W[c] EXCEPT ![e] = W[c][e] + 1]
    <2>1. PICK B : B = [W[c] EXCEPT ![e] = W[c][e] + 1]
      OBVIOUS
    <2>2. B = [y \in Ends |-> IF y = e THEN W[c][e] + 1 ELSE W[c][y]]
      BY <1>10, <2>1
    <2>3. W1[c] = [y \in Ends |-> Len(sent'[c][y])]
      BY <1>10
    <2>4. \A y \in Ends : Len(sent'[c][y]) = IF y = e THEN W[c][e] + 1 ELSE W[c][y]
      BY <1>3, <1>6, <1>9, <1>10
    <2> QED
      BY <2>1, <2>2, <2>3, <2>4
  <1>12. W1 = [W EXCEPT ![c] = [W[c] EXCEPT ![e] = W[c][e] + 1]]
    <2>1. \A x \in Conns \ {c} : W1[x] = W[x]
      BY <1>8, <1>10
    <2> QED
      BY <1>10, <1>11, <2>1
  <1>13. W1 = [W EXCEPT ![c][e] = @ + 1]
    BY <1>12
  <1>14. Streams!Write(c, e)
    <2>1. [x \in Conns |-> [y \in Ends |-> Len(sent'[x][y])]]
            = [[x \in Conns |-> [y \in Ends |-> Len(sent[x][y])]] EXCEPT ![c][e] = @ + 1]
      BY <1>10, <1>13
    <2>2. [x \in Conns |-> {1 - y : y \in conn'[x].shut}]
            = [x \in Conns |-> {1 - y : y \in conn[x].shut}]
      BY <1>2
    <2>3. {x \in Conns : conn'[x].st = "closed"} = {x \in Conns : conn[x].st = "closed"}
      BY <1>2
    <2>4. [x \in Conns |-> [y \in Ends |-> Len(arrived'[x][y])]]
            = [x \in Conns |-> [y \in Ends |-> Len(arrived[x][y])]]
      BY <1>2
    <2> QED
      BY <1>2, <2>1, <2>2, <2>3, <2>4, Zenon DEF Streams!Write
  <1> QED
    BY <1>14 DEF StreamStep, Streams!Next, Streams!Ends, Ends

\* An end that finishes its stream does so in the abstract too.
LEMMA FinishStep ==
  ASSUME NEW c \in Conns, NEW e \in Ends, Finish(c, e)
  PROVE  StreamStep
  <1>1. fin' = [fin EXCEPT ![c] = @ \cup {e}] /\ UNCHANGED <<sent, arrived, conn>>
    BY DEF Finish, netVars
  <1>2. Streams!Finish(c, e)
    BY <1>1 DEF Streams!Finish
  <1> QED
    BY <1>2 DEF StreamStep, Streams!Next, Streams!Ends, Ends

\* A connection taken over stays as it was, or is closed when epoll fails.
LEMMA AdoptStep ==
  ASSUME PumpInv, NEW c \in Conns, Adopt(c)
  PROVE  StreamStep
  <1>1. PICK k : k = [conn[c] EXCEPT !.st = "open"]
    OBVIOUS
  <1>2. <<c, 2>> \in evs /\ UNCHANGED <<sent, fin, arrived>>
    BY DEF Adopt, endVars, netVars
  <1>3. conn[c] \in Conn /\ conn[c].st = "queued" /\ Types
    BY <1>2 DEF PumpInv, Types, Placed
  <1>4. k \in Conn /\ k.shut = conn[c].shut
    BY <1>1, <1>3 DEF Conn
  <1>5. PICK k1 : conn' = [conn EXCEPT ![c] = k1] /\ k1.shut = k.shut
    <2>1. CASE conn' = [conn EXCEPT ![c] = k]
      BY <2>1
    <2>2. CASE Update(c, k)
      <3>1. 0 \in Ends
        BY DEF Ends
      <3>2. PICK k1 : Follows(k, k1, 0) /\ k1.shut = k.shut /\ conn' = [conn EXCEPT ![c] = k1]
        BY <1>4, <2>2, <3>1, UpdateIs
      <3> QED
        BY <3>2
    <2> QED
      BY <1>1, <2>1, <2>2 DEF Adopt
  <1> QED
    BY <1>2, <1>3, <1>4, <1>5, CutStep

\* The idle sweep cuts.
LEMMA IdleCloseStep ==
  ASSUME PumpInv, NEW c \in Conns, IdleClose(c)
  PROVE  StreamStep
  <1>1. PICK k : k = Dead(conn[c])
    OBVIOUS
  <1>2. /\ conn' = [conn EXCEPT ![c] = k] /\ conn[c].st = "open"
        /\ UNCHANGED <<sent, fin, arrived>>
    BY <1>1 DEF IdleClose, endVars, netVars
  <1>3. conn[c] \in Conn /\ Types
    BY DEF PumpInv, Types
  <1>4. k.shut = conn[c].shut
    BY <1>1, <1>3, DeadIs
  <1> QED
    BY <1>2, <1>3, <1>4, CutStep

\* The initial states are initial states of ByteStreams.
LEMMA InitStart == Init => Streams!Start
  <1> SUFFICES ASSUME Init PROVE Streams!Start
    OBVIOUS
  <1>1. Types
    BY InitInv DEF PumpInv
  <1>2. \A c \in Conns : conn[c].shut = {}
    BY DEF Init
  <1>3. fin = [c \in Conns |-> {}] /\ arrived = [c \in Conns |-> [e \in Ends |-> <<>>]]
    BY DEF Init
  <1>4. [c \in Conns |-> [e \in Ends |-> Len(sent[c][e])]] \in [Conns -> [Ends -> Nat]]
    <2>1. ASSUME NEW c \in Conns, NEW e \in Ends PROVE Len(sent[c][e]) \in Nat
      <3>1. sent[c][e] \in Seq(Mark)
        BY <1>1 DEF Types
      <3> QED
        BY <3>1, LenProperties
    <2> QED
      BY <2>1
  <1>5. [c \in Conns |-> [e \in Ends |-> Len(arrived[c][e])]] = [c \in Conns |-> [e \in Ends |-> 0]]
    BY <1>3, EmptySeq
  <1>6. [c \in Conns |-> {1 - e : e \in conn[c].shut}] = [c \in Conns |-> {}]
    BY <1>2
  <1> QED
    BY <1>3, <1>4, <1>5, <1>6 DEF Streams!Start, Streams!Ends, Ends

------------------------------------------------------------------------------
(* The theorems.                                                                *)

\* Every step of conn_pump and conn_service.
LEMMA PumpStep ==
  ASSUME PumpInv, Pump
  PROVE  PumpInv' /\ StreamStep
  BY BrokenInv, NothingInv, SpliceUnsupportedInv, SpliceInInv, SpliceOutInv, SpliceOutFailsInv,
     CopyInv, CopyFailsInv, FlushInv, DnsUpInv DEF Pump

\* A step keeps the invariant, and is a step of ByteStreams or one it does not see.
LEMMA NextInv ==
  ASSUME PumpInv, [Next]_vars
  PROVE  PumpInv' /\ StreamStep
  <1>1. Types
    BY DEF PumpInv
  <1>2. CASE UNCHANGED vars
    <2>1. UNCHANGED <<endVars, netVars, conn, observed, pipe, nosplice, thread>>
      BY <1>2 DEF vars
    <2>2. Types' /\ Placed'
      BY <2>1 DEF PumpInv, Types, Placed, endVars, netVars, thread
    <2>3. ASSUME NEW c \in Conns PROVE SoundAt(c)'
      BY <2>1, StillSound DEF PumpInv, endVars, netVars, thread
    <2>4. (\A c \in Conns : SoundAt(c))'
      BY <2>3
    <2> QED
      BY <2>1, <2>2, <2>4, Unseen DEF PumpInv, endVars, netVars
  <1>3. CASE Poll
    BY <1>3, PollInv, Unseen DEF Poll, endVars, netVars
  <1>4. CASE Pump
    BY <1>4, PumpStep
  <1>5. ASSUME NEW c \in Conns, Adopt(c) PROVE PumpInv' /\ StreamStep
    BY <1>5, AdoptInv, AdoptStep
  <1>6. ASSUME NEW c \in Conns, NEW i \in Ends, Serve(c, i) PROVE PumpInv' /\ StreamStep
    BY <1>6, ServeInv, Unseen DEF Serve, endVars, netVars
  <1>7. ASSUME NEW c \in Conns, IdleClose(c) PROVE PumpInv' /\ StreamStep
    BY <1>7, IdleCloseInv, IdleCloseStep
  <1>8. ASSUME NEW c \in Conns, NEW e \in Ends, Write(c, e) PROVE PumpInv' /\ StreamStep
    BY <1>1, <1>8, WriteInv, WriteStep
  <1>9. ASSUME NEW c \in Conns, NEW e \in Ends, Finish(c, e) PROVE PumpInv' /\ StreamStep
    BY <1>9, FinishInv, FinishStep
  <1>10. ASSUME NEW c \in Conns, NEW e \in Ends, Reset(c, e) \/ Drain(c, e)
         PROVE  PumpInv' /\ StreamStep
    <2>1. UNCHANGED <<sent, fin, arrived, conn>>
      BY <1>10 DEF Reset, Drain, endVars, netVars
    <2> QED
      BY <1>10, <2>1, ResetInv, Unseen
  <1> QED
    BY <1>2, <1>3, <1>4, <1>5, <1>6, <1>7, <1>8, <1>9, <1>10 DEF Next, Thread

\* What is proved of every reachable state: the thread's variables have their types, it
\* is where its pipe says, and every connection is sound.
THEOREM Invariant == Spec => []PumpInv
  <1>1. PumpInv /\ [Next]_vars => PumpInv'
    BY NextInv
  <1> QED
    BY <1>1, InitInv, PTL DEF Spec

\* What the types, the framing and the buffers' bounds say together.
LEMMA Typed == PumpInv => TypeOK
  <1> SUFFICES ASSUME PumpInv PROVE TypeOK
    OBVIOUS
  <1>1. Types
    BY DEF PumpInv
  <1>2. ASSUME NEW c \in Conns, NEW e \in Ends
        PROVE  /\ sent[c][e] \in Seq(Kinds(c, e)) /\ room[c][e] \in 0 .. Cap
               /\ read[c][e] \in 0 .. Len(sent[c][e])
               /\ arrived[c][e] \in Seq(Conns \X Ends \X Nat)
    <2>1. Framed(conn[c], sent[c], read[c])
      BY DEF PumpInv, SoundAt, Sound
    <2>2. sent[c][e] \in Seq(Kinds(c, e)) /\ read[c][e] <= Len(sent[c][e])
      BY <2>1 DEF Framed, Kinds
    <2>3. read[c][e] \in Nat /\ room[c][e] \in 0 .. Cap /\ arrived[c][e] \in Seq(Unit)
          /\ sent[c][e] \in Seq(Mark)
      BY <1>1 DEF Types
    <2>4. Len(sent[c][e]) \in Nat
      BY <2>3, LenProperties
    <2> QED
      BY <2>2, <2>3, <2>4 DEF Unit
  <1>3. ASSUME NEW c \in Conns
        PROVE  /\ conn[c].st \in {"queued", "open", "closed"}
               /\ conn[c].eof \in SUBSET Ends /\ conn[c].shut \in SUBSET Ends
               /\ Len(conn[c].dbuf) <= DbufMax /\ conn[c].doff \in BOOLEAN
               /\ conn[c].mask \in [Ends -> SUBSET {"in", "out"}]
    <2>1. conn[c] \in Conn /\ Buffered(conn[c])
      BY <1>1 DEF Types, PumpInv, SoundAt, Sound
    <2> QED
      BY <2>1 DEF Conn, Buffered
  <1> QED
    BY <1>1, <1>2, <1>3 DEF TypeOK, Types, Unit

\* What arrived and what is in hand of a direction is what was read of it.
LEMMA IntactAt ==
  ASSUME PumpInv, NEW c \in Conns, NEW e \in Ends
  PROVE  IF conn[c].st = "closed"
         THEN IsPrefix(arrived[c][1 - e], Stream(c, e, 0, read[c][e]))
         ELSE arrived[c][1 - e] \o InHand(c, e) = Stream(c, e, 0, read[c][e])
  <1>1. PICK n, a, k, p : /\ n = read[c][e] /\ a = arrived[c][1 - e] /\ k = conn[c]
                          /\ p = InPipe(c, e)
    OBVIOUS
  <1>2. n \in Nat
    BY <1>1 DEF PumpInv, Types
  <1>3. Stretches(c, e, k, n, a, p)
    <2>1. Sound(c, conn[c], sent[c], fin[c], read[c], arrived[c], observed[c],
                [x \in Ends |-> InPipe(c, x)])
      BY DEF PumpInv, SoundAt
    <2>2. Stretches(c, e, conn[c], read[c][e], arrived[c][1 - e], [x \in Ends |-> InPipe(c, x)][e])
      BY <2>1 DEF Sound
    <2> QED
      BY <1>1, <2>2
  <1>4. PICK x, y, z \in Nat :
          /\ x <= y /\ y <= z /\ z <= n
          /\ a = Stream(c, e, 0, x)
          /\ k.st # "closed" =>
               /\ p = Stream(c, e, x, y) /\ k.pend[e] = Stream(c, e, y, z)
               /\ (IF e = 1 THEN k.dbuf ELSE <<>>) = Stream(c, e, z, n)
    BY <1>3 DEF Stretches
  <1>5. x <= n /\ x <= z /\ 0 \in Nat /\ 0 <= x /\ 0 <= n /\ n - 0 = n
    BY <1>2, <1>4
  <1>6. CASE k.st = "closed"
    <2>1. PICK t : t = Stream(c, e, 0, n)
      OBVIOUS
    <2>2. a \in Seq(Unit) /\ Len(a) = x
      BY <1>4, StreamStart
    <2>3. t \in Seq(Unit) /\ Len(t) = n
      BY <1>2, <2>1, StreamStart
    <2>4. SubSeq(t, 1, x) = a
      <3>1. x \in 0 .. n - 0 /\ 0 + x = x
        BY <1>2, <1>5
      <3>2. SubSeq(Stream(c, e, 0, n), 1, x) = Stream(c, e, 0, 0 + x)
        BY <1>2, <1>5, <3>1, StreamCuts
      <3> QED
        BY <1>4, <2>1, <3>1, <3>2
    <2>5. SubSeq(a, 1, Len(a)) = a
      BY <2>2, SubSeqFull
    <2>6. IsPrefix(a, t)
      BY <1>5, <2>2, <2>3, <2>4, <2>5 DEF IsPrefix
    <2> QED
      BY <1>1, <1>6, <2>1, <2>6
  <1>7. CASE k.st # "closed"
    <2>1. PICK q, b : q = k.pend[e] /\ b = (IF e = 1 THEN k.dbuf ELSE <<>>)
      OBVIOUS
    <2>2. InHand(c, e) = (p \o q) \o b
      BY <1>1, <2>1 DEF InHand, InPipe
    <2>3. p \o q = Stream(c, e, x, z)
      <3>1. Stream(c, e, x, y) \o Stream(c, e, y, z) = Stream(c, e, x, z)
        BY <1>4, StreamJoins
      <3> QED
        BY <1>4, <1>7, <2>1, <3>1
    <2>4. Stream(c, e, x, z) \o b = Stream(c, e, x, n)
      <3>1. Stream(c, e, x, z) \o Stream(c, e, z, n) = Stream(c, e, x, n)
        BY <1>2, <1>4, <1>5, StreamJoins, SMTT(20)
      <3> QED
        BY <1>4, <1>7, <2>1, <3>1
    <2>5. a \o Stream(c, e, x, n) = Stream(c, e, 0, n)
      BY <1>2, <1>4, <1>5, StreamGoesOn
    <2> QED
      BY <1>1, <1>7, <2>2, <2>3, <2>4, <2>5
  <1> QED
    BY <1>6, <1>7

\* Whatever connections the thread serves, whatever their ends write, finish and reset and
\* however the copying is cut up between them: nothing is lost, repeated, reordered or
\* handed to another connection.
THEOREM IntactHolds == Spec => []Intact
  <1>1. PumpInv => Intact
    BY Typed, IntactAt DEF Intact
  <1> QED
    BY <1>1, Invariant, PTL

\* The covered message of a unit that has arrived was observed.
LEMMA ArrivedObserved ==
  ASSUME PumpInv, NEW c \in Conns, NEW i \in DOMAIN arrived[c][0], conn[c].dns,
         \A j \in 1 .. i : sent[c][1][j] # "zero",
         NEW after, after = {j \in i .. Len(sent[c][1]) : sent[c][1][j] = "last"}
  PROVE  IF after = {} THEN 1 \in fin[c] ELSE Min(after) \in observed[c]
  <1>1. PICK s, k, a : s = sent[c][1] /\ k = conn[c] /\ a = arrived[c]
    OBVIOUS
  <1>2. k \in Conn /\ a[0] \in Seq(Unit) /\ s \in Seq(Mark)
    BY <1>1 DEF PumpInv, Types, Ends
  <1>3. i \in 1 .. Gone(k, a)
    <2>1. PICK l, q \in Nat : l = Len(a[0]) /\ q = Len(k.pend[1])
      <3>1. k.pend[1] \in Seq(Unit)
        BY <1>2 DEF Conn, Ends
      <3> QED
        BY <1>2, <3>1, LenProperties
    <2>2. i \in 1 .. l
      BY <1>1, <1>2, <2>1, LenProperties
    <2>3. i \in 1 .. l + q
      BY <2>2
    <2> QED
      BY <2>1, <2>3 DEF Gone
  <1>4. Covered(s, fin[c], observed[c], i)
    <2>1. Observed(k, sent[c], fin[c], a, observed[c])
      BY <1>1 DEF PumpInv, SoundAt, Sound
    <2> QED
      BY <1>1, <1>3, <2>1 DEF Observed
  <1>5. CASE 1 \in fin[c] /\ \A j \in i .. Len(s) : s[j] # "last"
    BY <1>1, <1>5
  <1>6. ASSUME NEW m \in i .. Len(s), s[m] = "last", m \in observed[c],
               \A j \in i .. (m - 1) : s[j] # "last"
        PROVE  Min(after) \in observed[c] /\ after # {}
    <2>1. m \in after
      BY <1>1, <1>6
    <2>2. i \in Nat /\ Len(s) \in Nat /\ m \in Nat
      <3>1. DOMAIN a[0] \subseteq Nat
        BY <1>2, LenProperties
      <3> QED
        BY <1>1, <1>2, <3>1, LenProperties
    <2>3. ASSUME NEW j \in after PROVE m <= j
      <3>1. j \in i .. Len(s) /\ s[j] = "last"
        BY <1>1
      <3> QED
        BY <1>6, <2>2, <3>1
    <2>4. after \subseteq Nat
      BY <1>1, <2>2
    <2>5. Min(after) = m
      BY <2>1, <2>2, <2>3, <2>4, MinIs
    <2> QED
      BY <1>6, <2>1, <2>5
  <1> QED
    BY <1>4, <1>5, <1>6 DEF Covered

\* Whatever the upstream sends and however it arrives, no part of a tapped message reaches
\* the client before the message was observed, as long as the framing holds.
THEOREM ObservedFirstHolds == Spec => []ObservedFirst
  <1>1. ASSUME PumpInv PROVE ObservedFirst
    <2>1. ASSUME NEW c \in Conns, NEW i \in DOMAIN arrived[c][0], conn[c].dns,
                 \A j \in 1 .. i : sent[c][1][j] # "zero"
          PROVE  LET s     == sent[c][1]
                     after == {j \in i .. Len(s) : s[j] = "last"}
                 IN IF after = {} THEN 1 \in fin[c] ELSE Min(after) \in observed[c]
      BY <1>1, <2>1, ArrivedObserved
    <2> QED
      BY <2>1 DEF ObservedFirst
  <1> QED
    BY <1>1, Invariant, PTL

\* The thread implements the two streams: every step of it is a write, an end, an arrival
\* or a cut of ByteStreams, or is not seen there.
THEOREM Implements == Spec => ImplementsStreams
  <1>1. PumpInv /\ [Next]_vars => [Streams!Next]_(Streams!streams)
    BY NextInv DEF StreamStep
  <1> QED
    BY <1>1, Invariant, InitStart, PTL DEF Spec, ImplementsStreams, Streams!Spec
=============================================================================
