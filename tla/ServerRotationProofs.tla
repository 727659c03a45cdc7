------------------------ MODULE ServerRotationProofs ------------------------
(* Theorems about ServerRotation: the panel, the nodes and the files come apart only by *)
(* the named causes.                                                                    *)
EXTENDS ServerRotation, FiniteSetTheorems, SequenceTheorems, WellFoundedInduction, TLAPS

------------------------------------------------------------------------------
(* The inductive invariant.                                                     *)

Files == {"list", "conf", "creds"}
Kinds == {"rotate", "sync", "fetch", "add"}

\* A list of nodes: ids apart, one active at most.
Nodes(l) ==
  /\ l \in Seq(Node)
  /\ \A j, k \in DOMAIN l : l[j].id = l[k].id => j = k
  /\ \A j, k \in DOMAIN l : l[j].active /\ l[k].active => j = k

\* A task that waits: what it aims at, what it has read, what it brings.
Waiting(w) ==
  /\ w = [pc |-> w.pc, kind |-> w.kind, id |-> w.id, user |-> w.user, acc |-> w.acc,
          new |-> w.new]
  /\ w.pc \in {"aim", "list", "refused", "post", "store", "node", "lost"} /\ w.kind \in Kinds
  /\ w.id \in Ids \cup {None} /\ (w.kind # "rotate" => w.id \in Ids)
  /\ w.pc \in {"aim", "node"} => w.kind = "rotate"
  /\ w.user \in Users \/ (w.user = None /\ w.pc \in {"aim", "list", "refused"})
  /\ w.acc \in [Users -> Passes] \/ (w.acc = <<>> /\ w.pc # "post")
  /\ w.new \in Passes \/ (w.new = None /\ w.pc \in {"aim", "list", "refused"})

\* Every variable has its type; of the goal only what is still to be written counts.
Types ==
  /\ panel \in [Users -> Passes]
  /\ Nodes(list) /\ conf \in Hosts /\ creds \in Cred
  /\ todo \in Seq(Files) /\ Len(todo) <= 3
  /\ todo # <<>> => Nodes(goal.list) /\ goal.conf \in Hosts /\ goal.creds \in Cred
  /\ DOMAIN task = Tasks /\ \A t \in Tasks : task[t] = Free \/ Waiting(task[t])
  /\ schedule \in {"none", "nopass", "full"} /\ registered \in BOOLEAN
  /\ ops \in 0 .. MaxOps /\ faults \in 0 .. MaxFaults
  /\ odd \subseteq Causes

\* The id a task creates is nobody else's.
NewIds ==
  \A t \in Tasks : Busy(t) /\ task[t].kind = "add" =>
    /\ \A k \in DOMAIN list : list[k].id # task[t].id
    /\ todo # <<>> => \A k \in DOMAIN goal.list : goal.list[k].id # task[t].id
    /\ \A s \in Tasks : Busy(s) /\ s # t => task[s].id # task[t].id

\* Nodes l, the configured host cf, credentials cr and the panel's accounts p agree: a
\* panel node has an account and its password, an account one node, and the files are
\* those of the active node, if it is on a real host.
Good(l, cf, cr, p) ==
  /\ \A k \in DOMAIN l : IsPanel(l[k]) => l[k].user \in Users /\ l[k].pass = p[l[k].user]
  /\ \A j, k \in DOMAIN l :
       IsPanel(l[j]) /\ IsPanel(l[k]) /\ l[j].user = l[k].user => j = k
  /\ \A k \in DOMAIN l : l[k].active /\ IsPanel(l[k]) /\ l[k].host # Placeholder =>
       cr = CredsOf(l[k]) /\ cf = l[k].host

\* The files as they will be when the handler's writes are done.
Left(f)   == f \in Range(todo)
ListNext  == IF Left("list") THEN goal.list ELSE list
ConfNext  == IF Left("conf") THEN goal.conf ELSE conf
CredsNext == IF Left("creds") THEN goal.creds ELSE creds

\* What a task found when it began is still so: its node, or that no node has its account.
Aimed(w) ==
  IF w.kind = "add"
  THEN /\ w.user \in {None, FirstUser}
       /\ \A k \in DOMAIN list : IsPanel(list[k]) => list[k].user # FirstUser
  ELSE \E k \in DOMAIN list :
         /\ list[k].id = w.id /\ list[k].user = w.user /\ IsPanel(list[k])
         /\ w.kind = "rotate" => list[k].active

\* A task under way, with nothing odd so far: when it stores, only its own account has
\* moved on, and the task brings that account's password.
OnCourse(w) ==
  /\ w.pc # "lost"
  /\ w.pc # "aim" => Aimed(w)
  /\ w.pc = "post" => w.acc = panel /\ w.kind \in {"rotate", "sync"}
  /\ w.pc \in {"store", "node"} =>
       /\ w.new = panel[w.user]
       /\ \E p \in Passes, cr \in Cred :
            /\ Good(list, conf, cr, [panel EXCEPT ![w.user] = p])
            /\ w.pc = "store" => cr = creds

\* While nothing has happened that may set them apart, one task runs at a time, alone
\* with what it read, and the files agree or will when their writes are done.
Together ==
  odd = {} =>
    /\ \A s, t \in Tasks : Busy(s) /\ Busy(t) => s = t
    /\ \A t \in Tasks : Busy(t) /\ todo # <<>> => task[t].pc = "node" /\ Range(todo) = {"creds"}
    /\ (\A t \in Tasks : task[t].pc \notin {"store", "node"}) =>
         Good(ListNext, ConfNext, CredsNext, panel)
    /\ \A t \in Tasks : Busy(t) => OnCourse(task[t])

RotationInv == Types /\ NewIds /\ Together

------------------------------------------------------------------------------
(* Lists of nodes, as values.                                                   *)

LEMMA IsSeq ==
  ASSUME NEW S, NEW n \in Nat, NEW f \in [1 .. n -> S]
  PROVE  f \in Seq(S) /\ Len(f) = n /\ DOMAIN f = 1 .. n
<1>1. f \in Seq(S)
  BY SeqDef, Zenon
<1> QED
  BY <1>1, LenProperties

LEMMA NodesIs ==
  ASSUME NEW l, Nodes(l)
  PROVE  /\ Len(l) \in Nat /\ DOMAIN l = 1 .. Len(l)
         /\ \A k \in DOMAIN l : l[k] \in Node
<1>1. l \in Seq(Node)
  BY DEF Nodes
<1> QED
  BY <1>1, LenProperties

LEMMA NodeIs ==
  ASSUME NEW n \in Node
  PROVE  /\ n.id \in Ids /\ n.xui \in BOOLEAN /\ n.user \in Users \cup {None}
         /\ n.pass \in Passes /\ n.host \in Hosts /\ n.active \in BOOLEAN
         /\ CredsOf(n) \in Cred
         /\ n = [id |-> n.id, xui |-> n.xui, user |-> n.user, pass |-> n.pass,
                 host |-> n.host, active |-> n.active]
BY DEF Node, CredsOf, Cred

LEMMA NodeMade ==
  ASSUME NEW n, NEW i \in Ids, NEW x \in BOOLEAN, NEW u \in Users \cup {None},
         NEW q \in Passes, NEW h \in Hosts, NEW b \in BOOLEAN,
         n = [id |-> i, xui |-> x, user |-> u, pass |-> q, host |-> h, active |-> b]
  PROVE  /\ n \in Node /\ n.id = i /\ n.xui = x /\ n.user = u /\ n.pass = q /\ n.host = h
         /\ n.active = b
BY DEF Node

\* The same node, but for being active.
Alike(m, n) ==
  m.id = n.id /\ m.xui = n.xui /\ m.user = n.user /\ m.pass = n.pass /\ m.host = n.host

LEMMA AlikeIs ==
  ASSUME NEW m, NEW n, Alike(m, n)
  PROVE  m.id = n.id /\ m.host = n.host /\ CredsOf(m) = CredsOf(n) /\ IsPanel(m) = IsPanel(n)
BY DEF Alike, CredsOf, IsPanel

LEMMA NodeWith ==
  ASSUME NEW n \in Node, NEW b \in BOOLEAN
  PROVE  LET m == [n EXCEPT !.active = b]
         IN /\ m \in Node /\ Alike(m, n) /\ m.active = b
            /\ m = [id |-> n.id, xui |-> n.xui, user |-> n.user, pass |-> n.pass,
                    host |-> n.host, active |-> b]
<1>1. n = [id |-> n.id, xui |-> n.xui, user |-> n.user, pass |-> n.pass, host |-> n.host,
           active |-> n.active]
  BY NodeIs
<1>2. [n EXCEPT !.active = b] = [id |-> n.id, xui |-> n.xui, user |-> n.user, pass |-> n.pass,
                                 host |-> n.host, active |-> b]
  BY <1>1
<1> QED
  BY <1>2, NodeIs, NodeMade DEF Alike

\* A list of as many nodes with the same ids is a list of nodes.
LEMMA SameIds ==
  ASSUME NEW l, Nodes(l), NEW m, DOMAIN m = DOMAIN l,
         m = [j \in DOMAIN l |-> m[j]],
         \A j \in DOMAIN l : m[j] \in Node /\ m[j].id = l[j].id,
         \A i, j \in DOMAIN l : m[i].active /\ m[j].active => i = j
  PROVE  Nodes(m)
<1>1. Len(l) \in Nat /\ DOMAIN l = 1 .. Len(l)
  BY NodesIs
<1>2. m \in [1 .. Len(l) -> Node]
  BY <1>1
<1>3. m \in Seq(Node)
  BY <1>1, <1>2, IsSeq
<1> QED
  BY <1>3 DEF Nodes

\* What updateProxy makes of the list.
Updated(l, k, node) == [Others(l, node.active /\ ~l[k].active) EXCEPT ![k] = node]

LEMMA UpdatedIs ==
  ASSUME NEW l, Nodes(l), NEW k \in DOMAIN l, NEW node \in Node, node.id = l[k].id
  PROVE  /\ DOMAIN Updated(l, k, node) = DOMAIN l
         /\ Updated(l, k, node)[k] = node
         /\ \A j \in DOMAIN l : j # k =>
              /\ Updated(l, k, node)[j] \in Node /\ Alike(Updated(l, k, node)[j], l[j])
              /\ Updated(l, k, node)[j].active => l[j].active /\ ~node.active
         /\ Nodes(Updated(l, k, node))
<1> DEFINE m == Updated(l, k, node)
           o == Others(l, node.active /\ ~l[k].active)
<1>1. /\ Len(l) \in Nat /\ DOMAIN l = 1 .. Len(l)
      /\ \A j \in DOMAIN l : l[j] \in Node
  BY NodesIs
<1>2. l = [j \in DOMAIN l |-> l[j]]
  <2>1. l \in Seq(Node)
    BY DEF Nodes
  <2> QED
    BY <2>1, LenProperties
<1>3. \A j \in DOMAIN l : LET m1 == [l[j] EXCEPT !.active = FALSE]
                          IN m1 \in Node /\ Alike(m1, l[j]) /\ m1.active = FALSE
  BY <1>1, NodeWith, Zenon
<1>4. DOMAIN o = DOMAIN l /\ o = [j \in DOMAIN l |-> o[j]]
  BY <1>2 DEF Others
<1>5. \A j \in DOMAIN l : o[j] = IF node.active /\ ~l[k].active
                                 THEN [l[j] EXCEPT !.active = FALSE] ELSE l[j]
  BY DEF Others
<1>6. m = [o EXCEPT ![k] = node]
  BY DEF Updated
<1>7. DOMAIN m = DOMAIN l /\ m = [j \in DOMAIN l |-> m[j]] /\ m[k] = node
  BY <1>4, <1>6
<1>8. \A j \in DOMAIN l : j # k => m[j] = o[j]
  BY <1>4, <1>6
<1>9. node.active \in BOOLEAN /\ \A j \in DOMAIN l : l[j].active \in BOOLEAN
  BY <1>1 DEF Node
<1>10. ASSUME NEW j \in DOMAIN l, j # k
       PROVE  /\ m[j] \in Node /\ Alike(m[j], l[j])
              /\ m[j].active => l[j].active /\ ~node.active
  <2>1. CASE node.active /\ ~l[k].active
    <3>1. m[j] = [l[j] EXCEPT !.active = FALSE]
      BY <1>5, <1>8, <1>10, <2>1
    <3> HIDE DEF m
    <3> QED
      BY <3>1, <1>3, Zenon
  <2>2. CASE ~(node.active /\ ~l[k].active)
    <3>1. m[j] = l[j]
      BY <1>5, <1>8, <1>10, <2>2
    <3>2. l[j].active => ~l[k].active
      BY <1>10 DEF Nodes
    <3> QED
      BY <3>1, <3>2, <1>1, <2>2 DEF Alike
  <2> QED
    BY <2>1, <2>2
<1>11. \A i, j \in DOMAIN l : m[i].active /\ m[j].active => i = j
  <2>1. \A i, j \in DOMAIN l : l[i].active /\ l[j].active => i = j
    BY DEF Nodes
  <2> QED
    BY <2>1, <1>7, <1>10
<1>12. \A j \in DOMAIN l : m[j] \in Node /\ m[j].id = l[j].id
  BY <1>7, <1>10 DEF Alike
<1>13. Nodes(m)
  BY <1>7, <1>11, <1>12, SameIds
<1> QED
  BY <1>7, <1>10, <1>13

\* It keeps a good list good, when the node has its account's password, and no other
\* account's has changed.
LEMMA UpdatedGood ==
  ASSUME NEW l, Nodes(l), NEW k \in DOMAIN l, NEW node \in Node, node.id = l[k].id,
         NEW cf, NEW cr, NEW p, NEW p1, Good(l, cf, cr, p),
         \A u \in Users : p1[u] = p[u] \/ (IsPanel(l[k]) /\ l[k].user = u),
         IsPanel(node) => /\ IsPanel(l[k]) /\ l[k].user = node.user
                          /\ node.pass = p1[node.user]
  PROVE  Good(Updated(l, k, node), IF node.active THEN node.host ELSE cf,
              IF node.active THEN CredsOf(node) ELSE cr, p1)
<1> DEFINE m == Updated(l, k, node)
<1> HIDE DEF m
<1>1. /\ DOMAIN m = DOMAIN l /\ m[k] = node
      /\ \A j \in DOMAIN l : j # k =>
           /\ Alike(m[j], l[j])
           /\ m[j].active => l[j].active /\ ~node.active
  BY UpdatedIs DEF m
<1>2. /\ \A j \in DOMAIN l : IsPanel(l[j]) => l[j].user \in Users /\ l[j].pass = p[l[j].user]
      /\ \A i, j \in DOMAIN l :
           IsPanel(l[i]) /\ IsPanel(l[j]) /\ l[i].user = l[j].user => i = j
      /\ \A j \in DOMAIN l : l[j].active /\ IsPanel(l[j]) /\ l[j].host # Placeholder =>
           cr = CredsOf(l[j]) /\ cf = l[j].host
  BY DEF Good
<1>3. \A j \in DOMAIN m : IsPanel(m[j]) => IsPanel(l[j]) /\ m[j].user = l[j].user
  BY <1>1 DEF Alike, IsPanel
<1>5. ASSUME NEW j \in DOMAIN m, IsPanel(m[j])
      PROVE  m[j].user \in Users /\ m[j].pass = p1[m[j].user]
  <2>1. CASE j = k
    BY <2>1, <1>1, <1>2, <1>5
  <2>2. CASE j # k
    <3>1. m[j].user = l[j].user /\ m[j].pass = l[j].pass /\ IsPanel(l[j])
      BY <2>2, <1>1, <1>5 DEF IsPanel, Alike
    <3>2. l[j].user \in Users /\ l[j].pass = p[l[j].user]
      BY <3>1, <1>1, <1>2
    <3>3. p1[l[j].user] = p[l[j].user]
      BY <3>1, <3>2, <2>2, <1>1, <1>2
    <3> QED
      BY <3>1, <3>2, <3>3
  <2> QED
    BY <2>1, <2>2
<1>6. \A i, j \in DOMAIN m : IsPanel(m[i]) /\ IsPanel(m[j]) /\ m[i].user = m[j].user => i = j
  BY <1>1, <1>2, <1>3
<1>7. ASSUME NEW j \in DOMAIN m, m[j].active, IsPanel(m[j]), m[j].host # Placeholder
      PROVE  /\ (IF node.active THEN CredsOf(node) ELSE cr) = CredsOf(m[j])
             /\ (IF node.active THEN node.host ELSE cf) = m[j].host
  <2>1. CASE j = k
    BY <2>1, <1>1, <1>7
  <2>2. CASE j # k
    <3>1. l[j].active /\ ~node.active /\ Alike(m[j], l[j])
      BY <2>2, <1>1, <1>7
    <3>2. CredsOf(m[j]) = CredsOf(l[j]) /\ m[j].host = l[j].host /\ IsPanel(l[j])
      BY <3>1, <1>7, AlikeIs
    <3>3. cr = CredsOf(l[j]) /\ cf = l[j].host
      BY <3>1, <3>2, <1>1, <1>2, <1>7
    <3> QED
      BY <3>1, <3>2, <3>3
  <2> QED
    BY <2>1, <2>2
<1>8. Good(m, IF node.active THEN node.host ELSE cf, IF node.active THEN CredsOf(node) ELSE cr, p1)
  BY <1>5, <1>6, <1>7 DEF Good
<1> QED
  BY <1>8 DEF m


\* What setActiveProxy makes of the list.
Activated(l, k) == [j \in DOMAIN l |-> [l[j] EXCEPT !.active = j = k]]

LEMMA ActivatedIs ==
  ASSUME NEW l, Nodes(l), NEW k \in DOMAIN l
  PROVE  /\ DOMAIN Activated(l, k) = DOMAIN l
         /\ \A j \in DOMAIN l :
              /\ Activated(l, k)[j] \in Node /\ Alike(Activated(l, k)[j], l[j])
              /\ Activated(l, k)[j].active <=> j = k
         /\ Nodes(Activated(l, k))
<1> DEFINE m == Activated(l, k)
<1>1. DOMAIN m = DOMAIN l /\ m = [j \in DOMAIN l |-> m[j]]
  BY DEF Activated
<1>2. ASSUME NEW j \in DOMAIN l
      PROVE  m[j] \in Node /\ Alike(m[j], l[j]) /\ (m[j].active <=> j = k)
  <2>1. l[j] \in Node
    BY NodesIs
  <2>2. CASE j = k
    <3>1. m[j] = [l[j] EXCEPT !.active = TRUE]
      BY <2>2 DEF Activated
    <3> HIDE DEF m
    <3> QED
      BY <2>1, <2>2, <3>1, NodeWith
  <2>3. CASE j # k
    <3>1. m[j] = [l[j] EXCEPT !.active = FALSE]
      BY <2>3 DEF Activated
    <3> HIDE DEF m
    <3> QED
      BY <2>1, <2>3, <3>1, NodeWith
  <2> QED
    BY <2>2, <2>3
<1> HIDE DEF m
<1>3. \A i, j \in DOMAIN l : m[i].active /\ m[j].active => i = j
  BY <1>2
<1>4. Nodes(m)
  BY <1>1, <1>2, <1>3, SameIds DEF Alike
<1> QED
  BY <1>1, <1>2, <1>4 DEF m

\* Activating a node of a good list leaves it good, with that node's files.
LEMMA ActivatedGood ==
  ASSUME NEW l, Nodes(l), NEW k \in DOMAIN l, NEW cf, NEW cr, NEW p, Good(l, cf, cr, p)
  PROVE  Good(Activated(l, k), Activated(l, k)[k].host, CredsOf(Activated(l, k)[k]), p)
<1> DEFINE m == Activated(l, k)
<1> HIDE DEF m
<1>1. /\ DOMAIN m = DOMAIN l
      /\ \A j \in DOMAIN l : Alike(m[j], l[j]) /\ (m[j].active <=> j = k)
  BY ActivatedIs DEF m
<1>2. /\ \A j \in DOMAIN l : IsPanel(l[j]) => l[j].user \in Users /\ l[j].pass = p[l[j].user]
      /\ \A i, j \in DOMAIN l :
           IsPanel(l[i]) /\ IsPanel(l[j]) /\ l[i].user = l[j].user => i = j
  BY DEF Good
<1>3. \A j \in DOMAIN m : IsPanel(m[j]) => m[j].user \in Users /\ m[j].pass = p[m[j].user]
  BY <1>1, <1>2 DEF IsPanel, Alike
<1>4. \A i, j \in DOMAIN m : IsPanel(m[i]) /\ IsPanel(m[j]) /\ m[i].user = m[j].user => i = j
  BY <1>1, <1>2 DEF IsPanel, Alike
<1>5. \A j \in DOMAIN m : m[j].active => j = k
  BY <1>1
<1>6. Good(m, m[k].host, CredsOf(m[k]), p)
  BY <1>3, <1>4, <1>5 DEF Good
<1> QED
  BY <1>6 DEF m

\* What deleteProxy makes of the list.
Without(l, k) == SubSeq(l, 1, k - 1) \o SubSeq(l, k + 1, Len(l))
Heir(l, k)    == l[k].active /\ Without(l, k) # <<>>
Removed(l, k) == IF Heir(l, k) THEN [Without(l, k) EXCEPT ![1].active = TRUE] ELSE Without(l, k)

LEMMA WithoutIs ==
  ASSUME NEW l, Nodes(l), NEW k \in DOMAIN l
  PROVE  /\ Without(l, k) \in Seq(Node)
         /\ Len(Without(l, k)) = Len(l) - 1
         /\ \A j \in 1 .. Len(l) - 1 : Without(l, k)[j] = l[IF j < k THEN j ELSE j + 1]
<1>1. l \in Seq(Node) /\ Len(l) \in Nat /\ k \in 1 .. Len(l)
  BY NodesIs DEF Nodes
<1>2. /\ SubSeq(l, 1, k - 1) \in Seq(Node) /\ Len(SubSeq(l, 1, k - 1)) = k - 1
      /\ \A j \in 1 .. k - 1 : SubSeq(l, 1, k - 1)[j] = l[j]
  BY <1>1
<1>3. /\ SubSeq(l, k + 1, Len(l)) \in Seq(Node)
      /\ Len(SubSeq(l, k + 1, Len(l))) = Len(l) - k
      /\ \A j \in 1 .. Len(l) - k : SubSeq(l, k + 1, Len(l))[j] = l[j + k]
  BY <1>1
<1>4. /\ Without(l, k) \in Seq(Node)
      /\ Len(Without(l, k)) = (k - 1) + (Len(l) - k)
      /\ \A j \in 1 .. (k - 1) + (Len(l) - k) :
           Without(l, k)[j] = IF j <= k - 1 THEN SubSeq(l, 1, k - 1)[j]
                              ELSE SubSeq(l, k + 1, Len(l))[j - (k - 1)]
  <2>1. \A x, y \in Seq(Node) :
          /\ x \o y \in Seq(Node) /\ Len(x \o y) = Len(x) + Len(y)
          /\ \A j \in 1 .. Len(x) + Len(y) :
               (x \o y)[j] = IF j <= Len(x) THEN x[j] ELSE y[j - Len(x)]
    BY ConcatProperties, Zenon
  <2> DEFINE x == SubSeq(l, 1, k - 1)
             y == SubSeq(l, k + 1, Len(l))
  <2>2. /\ x \in Seq(Node) /\ Len(x) = k - 1 /\ y \in Seq(Node) /\ Len(y) = Len(l) - k
        /\ Without(l, k) = x \o y
    BY <1>2, <1>3 DEF Without
  <2> HIDE DEF x, y
  <2>3. /\ x \o y \in Seq(Node) /\ Len(x \o y) = Len(x) + Len(y)
        /\ \A j \in 1 .. Len(x) + Len(y) :
             (x \o y)[j] = IF j <= Len(x) THEN x[j] ELSE y[j - Len(x)]
    BY <2>1, <2>2, Zenon
  <2>4. /\ Without(l, k) \in Seq(Node)
        /\ Len(Without(l, k)) = (k - 1) + (Len(l) - k)
        /\ \A j \in 1 .. (k - 1) + (Len(l) - k) :
             Without(l, k)[j] = IF j <= k - 1 THEN x[j] ELSE y[j - (k - 1)]
    BY <2>2, <2>3, Zenon
  <2> QED
    BY <2>4 DEF x, y
<1>5. ASSUME NEW j \in 1 .. Len(l) - 1
      PROVE  Without(l, k)[j] = l[IF j < k THEN j ELSE j + 1]
  <2>1. CASE j < k
    <3>1. j \in 1 .. k - 1 /\ j \in 1 .. (k - 1) + (Len(l) - k) /\ j <= k - 1
      BY <1>1, <2>1
    <3> QED
      BY <1>2, <1>4, <2>1, <3>1
  <2>2. CASE ~(j < k)
    <3>1. j - (k - 1) \in 1 .. Len(l) - k /\ j \in 1 .. (k - 1) + (Len(l) - k)
      BY <1>1, <2>2
    <3>2. SubSeq(l, k + 1, Len(l))[j - (k - 1)] = l[(j - (k - 1)) + k]
      BY <1>3, <3>1
    <3>3. (j - (k - 1)) + k = j + 1 /\ ~(j <= k - 1)
      BY <1>1, <2>2
    <3> QED
      BY <1>4, <2>2, <3>1, <3>2, <3>3
  <2> QED
    BY <2>1, <2>2
<1>6. (k - 1) + (Len(l) - k) = Len(l) - 1
  BY <1>1
<1> QED
  BY <1>4, <1>5, <1>6, Zenon

\* Its nodes are nodes of the list, apart; the only one that may become active is the
\* heir, when the active one is removed.
LEMMA RemovedIs ==
  ASSUME NEW l, Nodes(l), NEW k \in DOMAIN l
  PROVE  /\ Nodes(Removed(l, k))
         /\ Heir(l, k) => 1 \in DOMAIN Removed(l, k) /\ Removed(l, k)[1].active
         /\ \A j \in DOMAIN Removed(l, k) :
              LET i == IF j < k THEN j ELSE j + 1
              IN /\ i \in DOMAIN l
                 /\ Alike(Removed(l, k)[j], l[i])
                 /\ IF Heir(l, k) THEN Removed(l, k)[j].active <=> j = 1
                    ELSE Removed(l, k)[j] = l[i]
<1> DEFINE w == Without(l, k)
           m == Removed(l, k)
           at(j) == IF j < k THEN j ELSE j + 1
<1>1. /\ Len(l) \in Nat /\ DOMAIN l = 1 .. Len(l) /\ k \in 1 .. Len(l)
      /\ \A j \in DOMAIN l : l[j] \in Node
  BY NodesIs
<1>2. /\ w \in Seq(Node) /\ Len(w) = Len(l) - 1
      /\ \A j \in 1 .. Len(l) - 1 : w[j] = l[at(j)]
  BY WithoutIs
<1>3. DOMAIN w = 1 .. Len(l) - 1 /\ w \in [1 .. Len(l) - 1 -> Node]
  BY <1>2, LenProperties
<1>4. \A j \in 1 .. Len(l) - 1 : at(j) \in DOMAIN l /\ at(j) # k
  BY <1>1
<1>5. \A i, j \in 1 .. Len(l) - 1 : at(i) = at(j) => i = j
  BY <1>1
<1>6. /\ \A i, j \in DOMAIN l : l[i].id = l[j].id => i = j
      /\ \A i, j \in DOMAIN l : l[i].active /\ l[j].active => i = j
  BY DEF Nodes
<1> HIDE DEF w, m, at
<1>7. \A i, j \in 1 .. Len(l) - 1 : w[i].id = w[j].id => i = j
  BY <1>2, <1>4, <1>5, <1>6
<1>8. CASE Heir(l, k)
  <2>1. m = [w EXCEPT ![1].active = TRUE] /\ l[k].active /\ w # <<>>
    BY <1>8 DEF m, w, Removed, Heir
  <2>2. 1 \in 1 .. Len(l) - 1
    BY <1>1, <1>2, <2>1, EmptySeq
  <2>3. DOMAIN m = DOMAIN w /\ m = [j \in DOMAIN w |-> m[j]]
    BY <1>3, <2>1, <2>2
  <2>4. \A j \in DOMAIN w : j # 1 => m[j] = w[j]
    BY <1>3, <2>1, <2>2
  <2>5. m[1] = [w[1] EXCEPT !.active = TRUE]
    BY <1>3, <2>1, <2>2
  <2>6. m[1] \in Node /\ Alike(m[1], w[1]) /\ m[1].active
    <3>1. w[1] \in Node
      BY <1>3, <2>2
    <3> QED
      BY <2>5, <3>1, NodeWith
  <2>7. \A j \in 1 .. Len(l) - 1 : ~w[j].active
    BY <1>2, <1>4, <1>6, <2>1
  <2>8. ASSUME NEW j \in 1 .. Len(l) - 1
        PROVE  m[j] \in Node /\ Alike(m[j], w[j]) /\ (m[j].active <=> j = 1)
    <3>1. CASE j = 1
      BY <2>6, <3>1
    <3>2. CASE j # 1
      BY <1>3, <2>4, <2>7, <3>2 DEF Alike
    <3> QED
      BY <3>1, <3>2
  <2>9. m \in [1 .. Len(l) - 1 -> Node] /\ Len(l) - 1 \in Nat
    BY <1>1, <1>3, <2>3, <2>8
  <2>10. m \in Seq(Node)
    BY <2>9, IsSeq
  <2>11. Nodes(m)
    BY <1>3, <1>7, <2>3, <2>8, <2>10 DEF Nodes, Alike
  <2> QED
    BY <1>2, <1>3, <1>4, <1>8, <2>2, <2>3, <2>8, <2>11 DEF m, at
<1>9. CASE ~Heir(l, k)
  <2>1. m = w
    BY <1>9 DEF m, w, Removed
  <2>2. \A i, j \in 1 .. Len(l) - 1 : w[i].active /\ w[j].active => i = j
    BY <1>2, <1>4, <1>5, <1>6
  <2>3. Nodes(m)
    BY <1>2, <1>3, <1>7, <2>1, <2>2 DEF Nodes
  <2> QED
    BY <1>2, <1>3, <1>4, <1>9, <2>1, <2>3 DEF m, at, Alike
<1> QED
  BY <1>8, <1>9

\* A node fewer leaves a good list good, with the heir's files if there is one.
LEMMA RemovedGood ==
  ASSUME NEW l, Nodes(l), NEW k \in DOMAIN l, NEW cf, NEW cr, NEW p, Good(l, cf, cr, p)
  PROVE  LET m == Removed(l, k)
         IN Good(m, IF Heir(l, k) THEN m[1].host ELSE cf,
                 IF Heir(l, k) THEN CredsOf(m[1]) ELSE cr, p)
<1> DEFINE m == Removed(l, k)
           at(j) == IF j < k THEN j ELSE j + 1
<1> HIDE DEF m
<1>1. \A j \in DOMAIN m : /\ at(j) \in DOMAIN l
                          /\ Alike(m[j], l[at(j)])
                          /\ IF Heir(l, k) THEN m[j].active <=> j = 1
                             ELSE m[j] = l[at(j)]
  BY RemovedIs DEF m
<1>2. DOMAIN m \subseteq Nat /\ k \in Nat
  <2>1. Nodes(m)
    BY RemovedIs DEF m
  <2> QED
    BY <2>1, NodesIs
<1>3. \A i, j \in DOMAIN m : at(i) = at(j) => i = j
  BY <1>2
<1> HIDE DEF at
<1>4. /\ \A j \in DOMAIN l : IsPanel(l[j]) => l[j].user \in Users /\ l[j].pass = p[l[j].user]
      /\ \A i, j \in DOMAIN l :
           IsPanel(l[i]) /\ IsPanel(l[j]) /\ l[i].user = l[j].user => i = j
      /\ \A j \in DOMAIN l : l[j].active /\ IsPanel(l[j]) /\ l[j].host # Placeholder =>
           cr = CredsOf(l[j]) /\ cf = l[j].host
  BY DEF Good
<1>5. \A j \in DOMAIN m : IsPanel(m[j]) => m[j].user \in Users /\ m[j].pass = p[m[j].user]
  BY <1>1, <1>4 DEF IsPanel, Alike
<1>6. \A i, j \in DOMAIN m : IsPanel(m[i]) /\ IsPanel(m[j]) /\ m[i].user = m[j].user => i = j
  BY <1>1, <1>3, <1>4 DEF IsPanel, Alike
<1>7. \A j \in DOMAIN m : m[j].active /\ IsPanel(m[j]) /\ m[j].host # Placeholder =>
        /\ (IF Heir(l, k) THEN CredsOf(m[1]) ELSE cr) = CredsOf(m[j])
        /\ (IF Heir(l, k) THEN m[1].host ELSE cf) = m[j].host
  BY <1>1, <1>4
<1>8. Good(m, IF Heir(l, k) THEN m[1].host ELSE cf,
           IF Heir(l, k) THEN CredsOf(m[1]) ELSE cr, p)
  BY <1>5, <1>6, <1>7 DEF Good
<1> QED
  BY <1>8 DEF m


\* What createProxy makes of the list.
Added(l, new) == Append(Others(l, new.active), new)

LEMMA OthersIs ==
  ASSUME NEW l, Nodes(l), NEW b \in BOOLEAN
  PROVE  /\ Others(l, b) \in Seq(Node) /\ Len(Others(l, b)) = Len(l)
         /\ \A j \in DOMAIN l :
              /\ Others(l, b)[j] \in Node /\ Alike(Others(l, b)[j], l[j])
              /\ Others(l, b)[j].active <=> l[j].active /\ ~b
<1> DEFINE o == Others(l, b)
<1>1. /\ l \in Seq(Node) /\ Len(l) \in Nat /\ DOMAIN l = 1 .. Len(l)
      /\ \A j \in DOMAIN l : l[j] \in Node
  BY NodesIs DEF Nodes
<1>2. CASE b
  <2>1. o = [j \in DOMAIN l |-> [l[j] EXCEPT !.active = FALSE]]
    BY <1>2 DEF Others
  <2>2. DOMAIN o = DOMAIN l /\ o = [j \in DOMAIN l |-> o[j]]
    BY <2>1
  <2>3. \A j \in DOMAIN l : o[j] = [l[j] EXCEPT !.active = FALSE]
    BY <2>1
  <2> HIDE DEF o
  <2>4. ASSUME NEW j \in DOMAIN l
        PROVE  o[j] \in Node /\ Alike(o[j], l[j]) /\ ~o[j].active
    <3>1. l[j] \in Node /\ o[j] = [l[j] EXCEPT !.active = FALSE]
      BY <1>1, <2>3
    <3> QED
      BY <3>1, NodeWith
  <2>5. o \in [1 .. Len(l) -> Node]
    BY <1>1, <2>2, <2>4
  <2>6. o \in Seq(Node) /\ Len(o) = Len(l)
    BY <1>1, <2>5, IsSeq
  <2> QED
    BY <1>2, <2>4, <2>6 DEF o
<1>3. CASE ~b
  <2>1. o = l
    BY <1>3 DEF Others
  <2> QED
    BY <1>1, <1>3, <2>1 DEF Alike
<1> QED
  BY <1>2, <1>3

LEMMA AddedIs ==
  ASSUME NEW l, Nodes(l), NEW new \in Node, \A k \in DOMAIN l : l[k].id # new.id
  PROVE  /\ Nodes(Added(l, new))
         /\ DOMAIN Added(l, new) = 1 .. Len(l) + 1
         /\ Added(l, new)[Len(l) + 1] = new
         /\ \A j \in DOMAIN l :
              /\ Alike(Added(l, new)[j], l[j])
              /\ Added(l, new)[j].active <=> l[j].active /\ ~new.active
<1> DEFINE o == Others(l, new.active)
           m == Added(l, new)
<1>1. /\ Len(l) \in Nat /\ DOMAIN l = 1 .. Len(l) /\ new.active \in BOOLEAN
  BY NodesIs, NodeIs
<1>2. /\ o \in Seq(Node) /\ Len(o) = Len(l)
      /\ \A j \in DOMAIN l :
           /\ Alike(o[j], l[j])
           /\ o[j].active <=> l[j].active /\ ~new.active
  BY <1>1, OthersIs
<1>3. m = Append(o, new)
  BY DEF Added
<1> HIDE DEF o, m
<1>4. /\ m \in Seq(Node) /\ Len(m) = Len(l) + 1 /\ m[Len(l) + 1] = new
      /\ DOMAIN m = 1 .. Len(l) + 1
      /\ \A j \in 1 .. Len(l) : m[j] = o[j]
  BY <1>1, <1>2, <1>3
<1>5. /\ \A i, j \in DOMAIN l : l[i].id = l[j].id => i = j
      /\ \A i, j \in DOMAIN l : l[i].active /\ l[j].active => i = j
  BY DEF Nodes
<1>6. \A j \in DOMAIN m : j \in DOMAIN l \/ j = Len(l) + 1
  BY <1>1, <1>4
<1>7. \A j \in DOMAIN l : m[j] = o[j]
  BY <1>1, <1>4
<1>8. \A i, j \in DOMAIN m : m[i].id = m[j].id => i = j
  BY <1>2, <1>4, <1>5, <1>6, <1>7 DEF Alike
<1>9. \A i, j \in DOMAIN m : m[i].active /\ m[j].active => i = j
  BY <1>2, <1>4, <1>5, <1>6, <1>7
<1>10. Nodes(m)
  BY <1>4, <1>8, <1>9 DEF Nodes
<1> QED
  BY <1>2, <1>4, <1>7, <1>10 DEF m

\* A node of an account that has none, with its password, leaves a good list good.
LEMMA AddedGood ==
  ASSUME NEW l, Nodes(l), NEW new \in Node, \A k \in DOMAIN l : l[k].id # new.id,
         NEW cf, NEW cr, NEW p, Good(l, cf, cr, p),
         IsPanel(new) =>
           /\ new.user \in Users /\ new.pass = p[new.user]
           /\ \A k \in DOMAIN l : IsPanel(l[k]) => l[k].user # new.user
  PROVE  Good(Added(l, new), IF new.active THEN new.host ELSE cf,
              IF new.active THEN CredsOf(new) ELSE cr, p)
<1> DEFINE m == Added(l, new)
           n == Len(l) + 1
<1> HIDE DEF m
<1>1. /\ DOMAIN m = 1 .. n /\ m[n] = new /\ Len(l) \in Nat /\ DOMAIN l = 1 .. Len(l)
      /\ \A j \in DOMAIN l :
           /\ Alike(m[j], l[j])
           /\ m[j].active <=> l[j].active /\ ~new.active
  BY AddedIs, NodesIs DEF m
<1>2. \A j \in DOMAIN m : j \in DOMAIN l \/ j = n
  BY <1>1
<1> HIDE DEF n
<1>3. /\ \A j \in DOMAIN l : IsPanel(l[j]) => l[j].user \in Users /\ l[j].pass = p[l[j].user]
      /\ \A i, j \in DOMAIN l :
           IsPanel(l[i]) /\ IsPanel(l[j]) /\ l[i].user = l[j].user => i = j
      /\ \A j \in DOMAIN l : l[j].active /\ IsPanel(l[j]) /\ l[j].host # Placeholder =>
           cr = CredsOf(l[j]) /\ cf = l[j].host
  BY DEF Good
<1>4. \A j \in DOMAIN m : IsPanel(m[j]) => m[j].user \in Users /\ m[j].pass = p[m[j].user]
  BY <1>1, <1>2, <1>3 DEF IsPanel, Alike
<1>5. \A i, j \in DOMAIN m : IsPanel(m[i]) /\ IsPanel(m[j]) /\ m[i].user = m[j].user => i = j
  BY <1>1, <1>2, <1>3 DEF IsPanel, Alike
<1>6. ASSUME NEW j \in DOMAIN m, m[j].active, IsPanel(m[j]), m[j].host # Placeholder
      PROVE  /\ (IF new.active THEN CredsOf(new) ELSE cr) = CredsOf(m[j])
             /\ (IF new.active THEN new.host ELSE cf) = m[j].host
  <2>1. CASE j = n
    BY <2>1, <1>1, <1>6
  <2>2. CASE j \in DOMAIN l
    <3>1. l[j].active /\ ~new.active /\ Alike(m[j], l[j])
      BY <2>2, <1>1, <1>6
    <3>2. CredsOf(m[j]) = CredsOf(l[j]) /\ m[j].host = l[j].host /\ IsPanel(l[j])
      BY <3>1, <1>6, AlikeIs
    <3> QED
      BY <3>1, <3>2, <2>2, <1>3, <1>6
  <2> QED
    BY <2>1, <2>2, <1>2
<1>7. Good(m, IF new.active THEN new.host ELSE cf, IF new.active THEN CredsOf(new) ELSE cr, p)
  BY <1>4, <1>5, <1>6 DEF Good
<1> QED
  BY <1>7 DEF m

------------------------------------------------------------------------------
(* Fresh passwords and the first state.                                         *)

\* A nonempty set of numbers has a least one.
LEMMA LeastNat ==
  ASSUME NEW S \in SUBSET Nat, S # {}
  PROVE  \E i \in S : \A j \in S : i <= j
<1>1. IsWellFoundedOn(OpToRel(<, Nat), Nat)
  BY NatLessThanWellFounded
<1>2. PICK i \in S : \A j \in S : ~(<<j, i>> \in OpToRel(<, Nat))
  BY <1>1, WFMin
<1>3. ASSUME NEW j \in S
      PROVE  i <= j
  <2>1. <<j, i>> \notin {ss \in Nat \X Nat : ss[1] < ss[2]}
    BY <1>2 DEF OpToRel
  <2>2. i \in Nat /\ j \in Nat /\ <<j, i>> \in Nat \X Nat
    OBVIOUS
  <2>3. ~(j < i)
    BY <2>1, <2>2
  <2> QED
    BY <2>2, <2>3
<1> QED
  BY <1>2, <1>3

LEMMA ImageBound ==
  ASSUME NEW S, IsFiniteSet(S), NEW f, DOMAIN f = S, f = [x \in S |-> f[x]]
  PROVE  /\ IsFiniteSet({f[x] : x \in S}) /\ Cardinality({f[x] : x \in S}) <= Cardinality(S)
         /\ Cardinality({f[x] : x \in S}) \in Nat
<1> DEFINE T == {f[x] : x \in S}
<1>1. f \in [S -> T]
  OBVIOUS
<1>2. f \in Surjection(S, T)
  BY <1>1 DEF Surjection
<1>3. IsFiniteSet(T) /\ Cardinality(T) <= Cardinality(S)
  BY <1>2, FS_Surjection
<1>4. Cardinality(T) \in Nat
  BY <1>3, FS_CardinalityType
<1> QED
  BY <1>3, <1>4

LEMMA UnionBound ==
  ASSUME NEW S, NEW T, IsFiniteSet(S), IsFiniteSet(T)
  PROVE  /\ IsFiniteSet(S \cup T) /\ Cardinality(S \cup T) \in Nat
         /\ Cardinality(S) \in Nat /\ Cardinality(T) \in Nat
         /\ Cardinality(S \cup T) <= Cardinality(S) + Cardinality(T)
<1>1. /\ IsFiniteSet(S \cup T)
      /\ Cardinality(S \cup T) = Cardinality(S) + Cardinality(T) - Cardinality(S \cap T)
  BY FS_Union
<1>2. IsFiniteSet(S \cap T)
  BY FS_Intersection
<1>3. /\ Cardinality(S \cup T) \in Nat /\ Cardinality(S) \in Nat /\ Cardinality(T) \in Nat
      /\ Cardinality(S \cap T) \in Nat
  BY <1>1, <1>2, FS_CardinalityType
<1> QED
  BY <1>1, <1>3

\* The passwords of the nodes are no more than the ids.
LEMMA NodesBound ==
  ASSUME NEW l, Nodes(l)
  PROVE  LET P == {l[k].pass : k \in DOMAIN l}
         IN IsFiniteSet(P) /\ Cardinality(P) <= Cardinality(Ids)
<1> DEFINE P == {l[k].pass : k \in DOMAIN l}
           J == {l[k].id : k \in DOMAIN l}
           at == [i \in J |-> CHOOSE k \in DOMAIN l : l[k].id = i]
           f == [i \in J |-> l[at[i]].pass]
<1>1. \A k \in DOMAIN l : l[k] \in Node
  BY NodesIs
<1>2. J \subseteq Ids
  BY <1>1, NodeIs
<1>3. IsFiniteSet(J) /\ Cardinality(J) <= Cardinality(Ids) /\ Cardinality(J) \in Nat
  BY <1>2, RotationAssumption, FS_Subset, FS_CardinalityType
<1>4. \A k \in DOMAIN l : at[l[k].id] = k
  BY DEF Nodes
<1>5. \A k \in DOMAIN l : f[l[k].id] = l[k].pass
  BY <1>4
<1>6. P = {f[i] : i \in J}
  <2>1. \A i \in J : \E k \in DOMAIN l : i = l[k].id
    OBVIOUS
  <2> HIDE DEF f
  <2> QED
    BY <1>5, <2>1
<1>7. DOMAIN f = J /\ f = [i \in J |-> f[i]]
  OBVIOUS
<1> HIDE DEF P, J, f
<1>8. /\ IsFiniteSet(P) /\ Cardinality(P) <= Cardinality(J) /\ Cardinality(P) \in Nat
  BY <1>3, <1>6, <1>7, ImageBound
<1>9. Cardinality(Ids) \in Nat
  BY RotationAssumption, FS_CardinalityType
<1>10. IsFiniteSet(P) /\ Cardinality(P) <= Cardinality(Ids)
  BY <1>3, <1>8, <1>9
<1> QED
  BY <1>10 DEF P

\* The tasks hold a list of the accounts and one more password each, at most.
LEMMA TasksBound ==
  ASSUME \A t \in Tasks : task[t] = Free \/ Waiting(task[t])
  PROVE  LET P == UNION {Range(task[t].acc) \cup {task[t].new} : t \in {u \in Tasks : Busy(u)}}
         IN /\ IsFiniteSet(P)
            /\ Cardinality(P) <= Cardinality(Tasks) * (Cardinality(Users) + 1)
<1> DEFINE P == UNION {Range(task[t].acc) \cup {task[t].new} : t \in {u \in Tasks : Busy(u)}}
           I == Tasks \X (Users \cup {None})
           f == [i \in I |-> IF i[2] = None THEN task[i[1]].new ELSE task[i[1]].acc[i[2]]]
           Q == {f[i] : i \in I}
<1>1. /\ IsFiniteSet(Users \cup {None})
      /\ Cardinality(Users \cup {None}) = Cardinality(Users) + 1
  BY RotationAssumption, FS_AddElement
<1>2. IsFiniteSet(I) /\ Cardinality(I) = Cardinality(Tasks) * (Cardinality(Users) + 1)
  BY <1>1, RotationAssumption, FS_Product
<1>3. DOMAIN f = I /\ f = [i \in I |-> f[i]]
  OBVIOUS
<1>4. IsFiniteSet(Q) /\ Cardinality(Q) <= Cardinality(I) /\ Cardinality(Q) \in Nat
  <2> HIDE DEF f, I
  <2> QED
    BY <1>2, <1>3, ImageBound
<1>5. ASSUME NEW t \in Tasks, Busy(t)
      PROVE  Range(task[t].acc) \cup {task[t].new} \subseteq Q
  <2>1. task[t].acc \in [Users -> Passes] \/ task[t].acc = <<>>
    <3>1. Waiting(task[t])
      BY <1>5 DEF Busy, Free
    <3> QED
      BY <3>1 DEF Waiting
  <2>2. task[t].new \in Q
    <3>1. <<t, None>> \in I /\ f[<<t, None>>] = task[t].new
      OBVIOUS
    <3> HIDE DEF f
    <3> QED
      BY <3>1
  <2>3. ASSUME NEW u \in DOMAIN task[t].acc
        PROVE  task[t].acc[u] \in Q
    <3>1. u \in Users
      BY <2>1, <2>3
    <3>2. u # None
      BY <3>1, RotationAssumption
    <3>3. <<t, u>> \in I /\ f[<<t, u>>] = task[t].acc[u]
      BY <3>1, <3>2
    <3> HIDE DEF f
    <3> QED
      BY <3>3
  <2> HIDE DEF Q
  <2> QED
    BY <2>2, <2>3 DEF Range
<1> HIDE DEF Q, I
<1>6. P \subseteq Q
  BY <1>5
<1>7. IsFiniteSet(P) /\ Cardinality(P) <= Cardinality(Q) /\ Cardinality(P) \in Nat
  BY <1>4, <1>6, FS_Subset, FS_CardinalityType
<1>8. Cardinality(I) \in Nat
  BY <1>2, FS_CardinalityType
<1>9. IsFiniteSet(P) /\ Cardinality(P) <= Cardinality(Tasks) * (Cardinality(Users) + 1)
  <2>1. Cardinality(P) <= Cardinality(I)
    BY <1>4, <1>7, <1>8
  <2> QED
    BY <1>2, <1>7, <2>1
<1> QED
  BY <1>9

\* There is a password nobody has.
LEMMA FreshIs ==
  ASSUME Types
  PROVE  Fresh \in Passes
<1> DEFINE A == Range(panel)
           B == {creds.pass}
           C == {list[k].pass : k \in DOMAIN list}
           D == UNION {Range(task[t].acc) \cup {task[t].new} : t \in {u \in Tasks : Busy(u)}}
<1>1. InUse = ((A \cup B) \cup C) \cup D
  BY DEF InUse
<1>2. IsFiniteSet(A) /\ Cardinality(A) <= Cardinality(Users)
  <2>1. DOMAIN panel = Users /\ panel = [u \in Users |-> panel[u]]
    BY DEF Types
  <2>2. A = {panel[u] : u \in Users}
    BY <2>1 DEF Range
  <2> QED
    BY <2>1, <2>2, ImageBound, RotationAssumption
<1>3. IsFiniteSet(B) /\ Cardinality(B) = 1
  BY FS_Singleton
<1>4. IsFiniteSet(C) /\ Cardinality(C) <= Cardinality(Ids)
  BY NodesBound DEF Types
<1>5. IsFiniteSet(D) /\ Cardinality(D) <= Cardinality(Tasks) * (Cardinality(Users) + 1)
  BY TasksBound DEF Types
<1> HIDE DEF A, B, C, D
<1>6. /\ Cardinality(Users) \in Nat /\ Cardinality(Ids) \in Nat
      /\ Cardinality(Tasks) \in Nat
  BY RotationAssumption, FS_CardinalityType
<1>7. Cardinality(Tasks) * (Cardinality(Users) + 1) \in Nat
  BY <1>6
<1>8. /\ IsFiniteSet(A \cup B) /\ Cardinality(A \cup B) \in Nat
      /\ Cardinality(A \cup B) <= Cardinality(Users) + 1
  BY <1>2, <1>3, <1>6, UnionBound
<1>9. /\ IsFiniteSet((A \cup B) \cup C) /\ Cardinality((A \cup B) \cup C) \in Nat
      /\ Cardinality((A \cup B) \cup C) <= Cardinality(Users) + 1 + Cardinality(Ids)
  BY <1>4, <1>6, <1>8, UnionBound
<1>10. /\ IsFiniteSet(InUse) /\ Cardinality(InUse) \in Nat
       /\ Cardinality(InUse) <= PassesInUse
  <2> DEFINE x == Cardinality(Tasks) * (Cardinality(Users) + 1)
  <2>1. /\ IsFiniteSet(InUse) /\ Cardinality(InUse) \in Nat /\ Cardinality(D) \in Nat
        /\ Cardinality(InUse) <= Cardinality((A \cup B) \cup C) + Cardinality(D)
    BY <1>1, <1>5, <1>9, UnionBound
  <2>2. x \in Nat /\ Cardinality(D) <= x
    BY <1>5, <1>7
  <2>3. PassesInUse = Cardinality(Users) + Cardinality(Ids) + 1 + x
    BY DEF PassesInUse
  <2> HIDE DEF x
  <2> QED
    BY <2>1, <2>2, <2>3, <1>6, <1>9
<1>11. Passes \ InUse # {}
  <2> SUFFICES ASSUME Passes \subseteq InUse
               PROVE  FALSE
    OBVIOUS
  <2>1. Cardinality(Passes) <= Cardinality(InUse)
    BY <1>10, FS_Subset
  <2>2. Cardinality(Passes) \in Nat
    BY RotationAssumption, FS_CardinalityType
  <2>3. Cardinality(Passes) > PassesInUse
    BY RotationAssumption
  <2>4. PassesInUse \in Nat
    BY <1>6, <1>7 DEF PassesInUse
  <2> QED
    BY <1>10, <2>1, <2>2, <2>3, <2>4
<1>12. Passes \ InUse \in SUBSET Nat
  BY RotationAssumption
<1>13. \E p \in Passes \ InUse : \A q \in Passes \ InUse : p <= q
  BY <1>11, <1>12, LeastNat
<1> QED
  BY <1>13 DEF Fresh

\* A set fits one-to-one into a set that is not smaller.
LEMMA FitsInto ==
  ASSUME NEW S, NEW T, IsFiniteSet(S), IsFiniteSet(T), Cardinality(S) <= Cardinality(T)
  PROVE  \E f \in [S -> T] : IsInjective(f)
<1> DEFINE m == Cardinality(S)
           n == Cardinality(T)
<1>1. /\ m \in Nat /\ ExistsBijection(1 .. m, S) /\ n \in Nat /\ ExistsBijection(1 .. n, T)
  BY FS_CardinalityType
<1> HIDE DEF m, n
<1>2. m <= n
  BY DEF m, n
<1>3. PICK b \in [1 .. m -> S] : \A s \in S : \E i \in 1 .. m : b[i] = s
  BY <1>1 DEF ExistsBijection, Bijection, Surjection
<1>4. PICK c \in [1 .. n -> T] : IsInjective(c)
  BY <1>1 DEF ExistsBijection, Bijection, Injection
<1> DEFINE at(s) == CHOOSE i \in 1 .. m : b[i] = s
           f == [s \in S |-> c[at(s)]]
<1>5. \A s \in S : at(s) \in 1 .. m /\ b[at(s)] = s
  BY <1>3
<1> HIDE DEF at
<1>6. \A i \in 1 .. m : i \in 1 .. n
  BY <1>1, <1>2
<1>7. f \in [S -> T]
  BY <1>4, <1>5, <1>6
<1>8. \A s, u \in S : f[s] = f[u] => s = u
  <2>1. \A i, j \in 1 .. n : c[i] = c[j] => i = j
    BY <1>4 DEF IsInjective
  <2> QED
    BY <2>1, <1>5, <1>6
<1>9. IsInjective(f)
  BY <1>7, <1>8 DEF IsInjective
<1> QED
  BY <1>7, <1>9

LEMMA InitInv == Init => RotationInv
<1> SUFFICES ASSUME Init
             PROVE  RotationInv
  OBVIOUS
<1> DEFINE pass == CHOOSE f \in [Users -> Passes] : IsInjective(f)
           ids  == CHOOSE f \in [Users -> Ids] : IsInjective(f)
<1>1. pass \in [Users -> Passes]
  <2>1. Cardinality(Users) \in Nat /\ Cardinality(Ids) \in Nat /\ Cardinality(Tasks) \in Nat
    BY RotationAssumption, FS_CardinalityType
  <2>2. Cardinality(Tasks) * (Cardinality(Users) + 1) \in Nat /\ Cardinality(Passes) \in Nat
    BY <2>1, RotationAssumption, FS_CardinalityType
  <2> DEFINE x == Cardinality(Tasks) * (Cardinality(Users) + 1)
  <2>3. PassesInUse = Cardinality(Users) + Cardinality(Ids) + 1 + x /\ x \in Nat
    BY <2>2 DEF PassesInUse
  <2> HIDE DEF x
  <2>4. Cardinality(Users) <= Cardinality(Passes)
    BY <2>1, <2>2, <2>3, RotationAssumption
  <2>5. \E f \in [Users -> Passes] : IsInjective(f)
    BY <2>4, RotationAssumption, FitsInto
  <2> QED
    BY <2>5
<1>2. ids \in [Users -> Ids] /\ IsInjective(ids)
  <2>1. \E f \in [Users -> Ids] : IsInjective(f)
    BY RotationAssumption, FitsInto
  <2> QED
    BY <2>1
<1> DEFINE Is(n, order, host) ==
             /\ IsInjective(order)
             /\ list = [k \in 1 .. n |->
                          [id |-> ids[order[k]], xui |-> TRUE, user |-> order[k],
                           pass |-> pass[order[k]], host |-> host[k], active |-> k = 1]]
             /\ conf = host[1]
             /\ creds = [user |-> order[1], pass |-> pass[order[1]]]
<1>3. PICK n \in 1 .. Cardinality(Users) :
        \E order \in [1 .. n -> Users], host \in [1 .. n -> Hosts \ {Placeholder}] :
          Is(n, order, host)
  BY DEF Init
<1>4. PICK order \in [1 .. n -> Users], host \in [1 .. n -> Hosts \ {Placeholder}] :
        Is(n, order, host)
  BY <1>3
<1>5. panel = pass /\ todo = <<>> /\ odd = {} /\ task = [t \in Tasks |-> Free]
      /\ schedule \in {"none", "nopass", "full"} /\ registered \in BOOLEAN
      /\ ops = 0 /\ faults = 0
  BY DEF Init
<1>6. n \in Nat /\ 1 \in 1 .. n
  <2>1. Cardinality(Users) \in Nat
    BY RotationAssumption, FS_CardinalityType
  <2> QED
    BY <2>1
<1> HIDE DEF pass, ids
<1>7. DOMAIN list = 1 .. n /\ list = [k \in 1 .. n |-> list[k]]
  BY <1>4
<1>8. ASSUME NEW k \in 1 .. n
      PROVE  /\ list[k] \in Node /\ list[k].id = ids[order[k]] /\ list[k].user = order[k]
             /\ list[k].pass = pass[order[k]] /\ list[k].host = host[k]
             /\ list[k].xui /\ (list[k].active <=> k = 1)
  <2>1. /\ ids[order[k]] \in Ids /\ order[k] \in Users \cup {None} /\ pass[order[k]] \in Passes
        /\ host[k] \in Hosts
    BY <1>1, <1>2
  <2>2. CASE k = 1
    <3>1. list[k] = [id |-> ids[order[k]], xui |-> TRUE, user |-> order[k],
                     pass |-> pass[order[k]], host |-> host[k], active |-> TRUE]
      BY <1>4, <2>2
    <3> QED
      BY <2>1, <2>2, <3>1 DEF Node
  <2>3. CASE k # 1
    <3>1. list[k] = [id |-> ids[order[k]], xui |-> TRUE, user |-> order[k],
                     pass |-> pass[order[k]], host |-> host[k], active |-> FALSE]
      BY <1>4, <2>3
    <3> QED
      BY <2>1, <2>3, <3>1 DEF Node
  <2> QED
    BY <2>2, <2>3
<1>9. \A j, k \in 1 .. n : order[j] = order[k] => j = k
  BY <1>4 DEF IsInjective
<1>10. Nodes(list)
  <2>1. \A u, v \in Users : ids[u] = ids[v] => u = v
    BY <1>2 DEF IsInjective
  <2>2. \A j, k \in 1 .. n : list[j].id = list[k].id => j = k
    BY <1>8, <1>9, <2>1
  <2>3. \A j, k \in 1 .. n : list[j].active /\ list[k].active => j = k
    BY <1>8
  <2>4. list \in [1 .. n -> Node]
    BY <1>7, <1>8
  <2>5. list \in Seq(Node)
    BY <1>6, <2>4, IsSeq
  <2> QED
    BY <1>7, <2>2, <2>3, <2>5 DEF Nodes
<1>11. \A t \in Tasks : ~Busy(t) /\ task[t].pc \notin {"store", "node"}
  BY <1>5 DEF Busy, Free
<1>12. Types
  <2>1. conf \in Hosts /\ creds \in Cred
    BY <1>1, <1>2, <1>4, <1>6 DEF Cred
  <2>2. todo \in Seq(Files) /\ Len(todo) <= 3
    BY <1>5, EmptySeq
  <2> QED
    BY <1>1, <1>5, <1>10, <2>1, <2>2, RotationAssumption DEF Types
<1>13. Good(list, conf, creds, panel)
  <2>1. \A k \in DOMAIN list : list[k].active =>
          creds = CredsOf(list[k]) /\ conf = list[k].host
    BY <1>4, <1>6, <1>7, <1>8 DEF CredsOf
  <2> QED
    BY <1>5, <1>7, <1>8, <1>9, <2>1 DEF Good
<1>14. ListNext = list /\ ConfNext = conf /\ CredsNext = creds
  BY <1>5 DEF ListNext, ConfNext, CredsNext, Left, Range
<1>15. NewIds
  BY <1>11 DEF NewIds
<1>16. Together
  BY <1>5, <1>11, <1>13, <1>14 DEF Together
<1> QED
  BY <1>12, <1>15, <1>16 DEF RotationInv

------------------------------------------------------------------------------
(* The handlers' writes.                                                        *)

\* The order in which updateProxy and createProxy write.
Order(node) == <<"list">> \o SyncActive(node)

LEMMA RangeConcat ==
  ASSUME NEW S, NEW x \in Seq(S), NEW y \in Seq(S)
  PROVE  Range(x \o y) = Range(x) \cup Range(y)
<1>1. /\ DOMAIN x = 1 .. Len(x) /\ Len(x) \in Nat /\ DOMAIN y = 1 .. Len(y) /\ Len(y) \in Nat
  BY LenProperties
<1>2. /\ x \o y \in Seq(S) /\ Len(x \o y) = Len(x) + Len(y)
      /\ \A i \in 1 .. Len(x) + Len(y) :
           (x \o y)[i] = IF i <= Len(x) THEN x[i] ELSE y[i - Len(x)]
  BY ConcatProperties, Zenon
<1>3. DOMAIN (x \o y) = 1 .. Len(x) + Len(y)
  BY <1>2, LenProperties
<1> DEFINE z == x \o y
<1> HIDE DEF z
<1>4. /\ DOMAIN z = 1 .. Len(x) + Len(y)
      /\ \A i \in 1 .. Len(x) + Len(y) : z[i] = IF i <= Len(x) THEN x[i] ELSE y[i - Len(x)]
  BY <1>2, <1>3 DEF z
<1>5. \A i \in DOMAIN x : i \in DOMAIN z /\ z[i] = x[i]
  BY <1>1, <1>4
<1>6. \A i \in DOMAIN y : Len(x) + i \in DOMAIN z /\ z[Len(x) + i] = y[i]
  BY <1>1, <1>4
<1>7. ASSUME NEW i \in DOMAIN z
      PROVE  \/ i \in DOMAIN x /\ z[i] = x[i]
             \/ \E j \in DOMAIN y : z[i] = y[j]
  <2>1. i \in 1 .. Len(x) + Len(y)
    BY <1>4
  <2>2. CASE i <= Len(x)
    BY <1>1, <1>4, <2>1, <2>2
  <2>3. CASE ~(i <= Len(x))
    <3>1. i - Len(x) \in DOMAIN y /\ z[i] = y[i - Len(x)]
      BY <1>1, <1>4, <2>1, <2>3
    <3> QED
      BY <3>1
  <2> QED
    BY <2>2, <2>3
<1>8. Range(z) = Range(x) \cup Range(y)
  BY <1>5, <1>6, <1>7 DEF Range
<1> QED
  BY <1>8 DEF z

LEMMA OrderIs ==
  ASSUME NEW node, node.active \in BOOLEAN
  PROVE  LET o == Order(node)
         IN /\ o \in Seq(Files) /\ Len(o) <= 3 /\ o # <<>>
            /\ "list" \in Range(o)
            /\ "conf" \in Range(o) <=> node.active
            /\ "creds" \in Range(o) <=> node.active
<1> DEFINE l == <<"list">>
           b == <<"conf", "creds">>
           e == <<>>
<1>1. l \in Seq(Files) /\ b \in Seq(Files) /\ e \in Seq(Files)
  BY DEF Files
<1>2. Len(l) = 1 /\ Len(b) = 2 /\ Len(e) = 0
  OBVIOUS
<1>3. Range(l) = {"list"} /\ Range(e) = {}
  BY DEF Range
<1>4. Range(b) = {"conf", "creds"}
  <2>1. DOMAIN b = {1, 2} /\ b[1] = "conf" /\ b[2] = "creds"
    OBVIOUS
  <2> HIDE DEF b
  <2> QED
    BY <2>1 DEF Range
<1>5. SyncActive(node) = (IF node.active THEN b ELSE e) /\ Order(node) = l \o SyncActive(node)
  BY DEF Order, SyncActive
<1> HIDE DEF l, b, e
<1> DEFINE s == SyncActive(node)
           o == l \o s
<1>6. s \in Seq(Files) /\ Len(s) \in {0, 2}
  <2>1. s = b \/ s = e
    BY <1>5
  <2> HIDE DEF s
  <2> QED
    BY <2>1, <1>1, <1>2, Zenon
<1>7. Range(s) = IF node.active THEN {"conf", "creds"} ELSE {}
  BY <1>3, <1>4, <1>5 DEF s
<1> HIDE DEF s
<1>8. o \in Seq(Files) /\ Len(o) = Len(l) + Len(s) /\ Range(o) = Range(l) \cup Range(s)
  BY <1>1, <1>6, ConcatProperties, RangeConcat
<1> HIDE DEF o
<1>9. Len(o) <= 3 /\ Len(o) > 0
  <2>1. \A i \in {0, 2} : 1 + i <= 3 /\ 1 + i > 0
    OBVIOUS
  <2> QED
    BY <2>1, <1>2, <1>6, <1>8, Zenon
<1>10. o # <<>>
  BY <1>9, EmptySeq
<1>13. /\ "list" \in Range(o) /\ ("conf" \in Range(o) <=> node.active)
       /\ "creds" \in Range(o) <=> node.active
  BY <1>3, <1>7, <1>8
<1>14. Order(node) = o
  BY <1>5 DEF o, s
<1> QED
  BY <1>8, <1>9, <1>10, <1>13, <1>14

\* What a handler has still to write is well formed.
Pending ==
  /\ todo \in Seq(Files) /\ Len(todo) <= 3
  /\ todo # <<>> => Nodes(goal.list) /\ goal.conf \in Hosts /\ goal.creds \in Cred

LEMMA NodeEdit ==
  ASSUME NEW n \in Node, NEW q \in Passes
  PROVE  LET m == [n EXCEPT !.pass = q]
         IN /\ m \in Node /\ m.id = n.id /\ m.xui = n.xui /\ m.user = n.user /\ m.pass = q
            /\ m.host = n.host /\ m.active = n.active
<1>1. /\ n.id \in Ids /\ n.xui \in BOOLEAN /\ n.user \in Users \cup {None} /\ n.host \in Hosts
      /\ n.active \in BOOLEAN
      /\ n = [id |-> n.id, xui |-> n.xui, user |-> n.user, pass |-> n.pass, host |-> n.host,
              active |-> n.active]
  BY NodeIs
<1>2. [n EXCEPT !.pass = q] = [id |-> n.id, xui |-> n.xui, user |-> n.user, pass |-> q,
                               host |-> n.host, active |-> n.active]
  BY <1>1
<1> QED
  BY <1>1, <1>2, NodeMade

LEMMA NodeSynced ==
  ASSUME NEW n \in Node, NEW q \in Passes, NEW u \in Users \cup {None}
  PROVE  [n EXCEPT !.pass = q, !.user = u]
           = [id |-> n.id, xui |-> n.xui, user |-> u, pass |-> q, host |-> n.host,
              active |-> n.active]
<1>1. n = [id |-> n.id, xui |-> n.xui, user |-> n.user, pass |-> n.pass, host |-> n.host,
           active |-> n.active]
  BY NodeIs
<1> DEFINE x == [n EXCEPT !.pass = q]
<1>2. [n EXCEPT !.pass = q, !.user = u] = [x EXCEPT !.user = u]
  OBVIOUS
<1>3. x = [id |-> n.id, xui |-> n.xui, user |-> n.user, pass |-> q, host |-> n.host,
           active |-> n.active]
  BY <1>1
<1> HIDE DEF x
<1>4. [x EXCEPT !.user = u] = [id |-> n.id, xui |-> n.xui, user |-> u, pass |-> q,
                               host |-> n.host, active |-> n.active]
  BY <1>3
<1> QED
  BY <1>2, <1>4

\* At rest nothing is left to write.
LEMMA NothingLeft ==
  ASSUME todo = <<>>
  PROVE  ListNext = list /\ ConfNext = conf /\ CredsNext = creds
BY DEF ListNext, ConfNext, CredsNext, Left, Range

LEMMA WritesIs ==
  ASSUME UNCHANGED files, NEW l, Nodes(l), NEW host \in Hosts, NEW cr \in Cred,
         NEW order \in Seq(Files), Len(order) <= 3, Writes(l, host, cr, order)
  PROVE  /\ Pending' /\ goal'.list = l
         /\ ListNext' = IF "list" \in Range(order) THEN l ELSE list
         /\ ConfNext' = IF "conf" \in Range(order) THEN host ELSE conf
         /\ CredsNext' = IF "creds" \in Range(order) THEN cr ELSE creds
<1>1. /\ goal'.list = l /\ goal'.conf = host /\ goal'.creds = cr /\ todo' = order
      /\ list' = list /\ conf' = conf /\ creds' = creds
  BY DEF Writes, files
<1>2. Pending'
  BY <1>1 DEF Pending
<1> QED
  BY <1>1, <1>2 DEF ListNext, ConfNext, CredsNext, Left

\* A handler that writes one file.
LEMMA OneFile ==
  ASSUME NEW f \in Files
  PROVE  <<f>> \in Seq(Files) /\ Len(<<f>>) <= 3 /\ Range(<<f>>) = {f} /\ <<f>> # <<>>
<1>1. DOMAIN <<f>> = {1} /\ <<f>>[1] = f /\ <<f>> \in Seq(Files) /\ Len(<<f>>) = 1
  OBVIOUS
<1> QED
  BY <1>1 DEF Range

\* A handler that edits a node.
LEMMA UpdateProxyIs ==
  ASSUME Types, UNCHANGED files, NEW k \in DOMAIN list, NEW node \in Node,
         node.id = list[k].id, UpdateProxy(k, node)
  PROVE  /\ Pending' /\ goal'.list = Updated(list, k, node)
         /\ ListNext' = Updated(list, k, node)
         /\ ConfNext' = IF node.active THEN node.host ELSE conf
         /\ CredsNext' = IF node.active THEN CredsOf(node) ELSE creds
<1>1. Nodes(list)
  BY DEF Types
<1>2. Nodes(Updated(list, k, node))
  BY <1>1, UpdatedIs
<1>3. node.host \in Hosts /\ node.active \in BOOLEAN /\ CredsOf(node) \in Cred
  BY NodeIs
<1>4. Writes(Updated(list, k, node), node.host, CredsOf(node), Order(node))
  BY DEF UpdateProxy, Updated, Order
<1>5. LET o == Order(node)
      IN /\ o \in Seq(Files) /\ Len(o) <= 3
         /\ "list" \in Range(o)
         /\ "conf" \in Range(o) <=> node.active
         /\ "creds" \in Range(o) <=> node.active
  BY <1>3, OrderIs
<1> DEFINE o == Order(node)
           m == Updated(list, k, node)
<1> HIDE DEF o, m
<1>6. /\ Pending' /\ goal'.list = m
      /\ ListNext' = IF "list" \in Range(o) THEN m ELSE list
      /\ ConfNext' = IF "conf" \in Range(o) THEN node.host ELSE conf
      /\ CredsNext' = IF "creds" \in Range(o) THEN CredsOf(node) ELSE creds
  BY <1>2, <1>3, <1>4, <1>5, WritesIs DEF o, m
<1> QED
  BY <1>5, <1>6 DEF o, m

\* A handler that adds a node; it is active if there was none.
LEMMA CreateProxyIs ==
  ASSUME Types, UNCHANGED files, NEW node \in Node,
         \A k \in DOMAIN list : list[k].id # node.id, CreateProxy(node)
  PROVE  \E new \in Node :
           /\ new.id = node.id /\ new.xui = node.xui /\ new.user = node.user
           /\ new.pass = node.pass
           /\ Pending' /\ goal'.list = Added(list, new)
           /\ ListNext' = Added(list, new)
           /\ ConfNext' = IF new.active THEN new.host ELSE conf
           /\ CredsNext' = IF new.active THEN CredsOf(new) ELSE creds
<1> DEFINE new == [node EXCEPT !.active = @ \/ list = <<>>]
           o == Order(new)
<1>1. new \in Node /\ Alike(new, node)
  <2>1. CASE list = <<>>
    <3>1. new = [node EXCEPT !.active = TRUE]
      BY <2>1
    <3> HIDE DEF new
    <3> QED
      BY <3>1, NodeWith
  <2>2. CASE list # <<>>
    <3>1. node.active \in BOOLEAN
      BY NodeIs
    <3>2. new = [node EXCEPT !.active = node.active]
      BY <2>2, <3>1
    <3> HIDE DEF new
    <3> QED
      BY <3>1, <3>2, NodeWith
  <2> QED
    BY <2>1, <2>2
<1>2. Nodes(list)
  BY DEF Types
<1>3. Writes(Added(list, new), new.host, CredsOf(new), o)
  BY DEF CreateProxy, Added, Order
<1> HIDE DEF new
<1>5. Nodes(Added(list, new))
  BY <1>1, <1>2, AddedIs DEF Alike
<1>6. new.host \in Hosts /\ new.active \in BOOLEAN /\ CredsOf(new) \in Cred
  BY <1>1, NodeIs
<1>7. /\ o \in Seq(Files) /\ Len(o) <= 3 /\ "list" \in Range(o)
      /\ "conf" \in Range(o) <=> new.active
      /\ "creds" \in Range(o) <=> new.active
  BY <1>6, OrderIs
<1> HIDE DEF o
<1>9. /\ Pending' /\ goal'.list = Added(list, new)
      /\ ListNext' = IF "list" \in Range(o) THEN Added(list, new) ELSE list
      /\ ConfNext' = IF "conf" \in Range(o) THEN new.host ELSE conf
      /\ CredsNext' = IF "creds" \in Range(o) THEN CredsOf(new) ELSE creds
  BY <1>3, <1>5, <1>6, <1>7, WritesIs
<1>10. /\ ListNext' = Added(list, new)
       /\ ConfNext' = IF new.active THEN new.host ELSE conf
       /\ CredsNext' = IF new.active THEN CredsOf(new) ELSE creds
  BY <1>7, <1>9
<1> QED
  BY <1>1, <1>9, <1>10 DEF Alike

\* When nothing is under way any more, the invariant is that the files will agree.
LEMMA TogetherAlone ==
  ASSUME odd' = {} => /\ \A t \in Tasks : ~Busy(t)'
                      /\ Good(ListNext, ConfNext, CredsNext, panel)'
  PROVE  Together'
BY DEF Together, Busy

------------------------------------------------------------------------------
(* The steps.                                                                   *)

LEMMA RestGood ==
  ASSUME Together, odd = {}, todo = <<>>, \A t \in Tasks : task[t].pc \notin {"store", "node"}
  PROVE  Good(list, conf, creds, panel)
BY NothingLeft DEF Together

\* What is still to be written is what was, but for the file written.
LEMMA RangeTail ==
  ASSUME todo \in Seq(Files), todo # <<>>
  PROVE  /\ Tail(todo) \in Seq(Files) /\ Len(Tail(todo)) = Len(todo) - 1 /\ Len(todo) \in Nat
         /\ Len(todo) > 0 /\ (Tail(todo) = <<>> <=> Len(todo) = 1)
         /\ Range(todo) = {Head(todo)} \cup Range(Tail(todo))
         /\ Tail(todo) = <<>> <=> Range(Tail(todo)) = {}
<1>3. /\ Tail(todo) \in Seq(Files) /\ Len(Tail(todo)) = Len(todo) - 1 /\ Len(todo) \in Nat
      /\ \A i \in 1 .. Len(todo) - 1 : Tail(todo)[i] = todo[i + 1]
      /\ Head(todo) = todo[1] /\ DOMAIN todo = 1 .. Len(todo)
      /\ DOMAIN Tail(todo) = 1 .. Len(todo) - 1
      /\ Len(todo) > 0
  OBVIOUS
<1>4. Tail(todo) = <<>> <=> Len(todo) = 1
  <2> DEFINE w == Tail(todo)
  <2>1. w \in Seq(Files) /\ Len(w) = Len(todo) - 1 /\ Len(todo) \in Nat
    BY <1>3
  <2> HIDE DEF w
  <2>2. w = <<>> <=> Len(w) = 0
    BY <2>1, EmptySeq
  <2> QED
    BY <2>1, <2>2 DEF w
<1>5. Range(todo) = {Head(todo)} \cup Range(Tail(todo))
  <2>1. ASSUME NEW i \in DOMAIN todo, i # 1
        PROVE  \E j \in DOMAIN Tail(todo) : todo[i] = Tail(todo)[j]
    <3>1. i - 1 \in 1 .. Len(todo) - 1 /\ (i - 1) + 1 = i
      BY <1>3, <2>1
    <3>2. Tail(todo)[i - 1] = todo[(i - 1) + 1]
      BY <1>3, <3>1
    <3> QED
      BY <1>3, <3>1, <3>2
  <2>2. \A i \in DOMAIN Tail(todo) : i + 1 \in DOMAIN todo /\ Tail(todo)[i] = todo[i + 1]
    BY <1>3
  <2>3. 1 \in DOMAIN todo
    BY <1>3
  <2> DEFINE w == Tail(todo)
  <2>4. /\ \A i \in DOMAIN todo : i = 1 \/ \E j \in DOMAIN w : todo[i] = w[j]
        /\ \A i \in DOMAIN w : \E j \in DOMAIN todo : w[i] = todo[j]
        /\ 1 \in DOMAIN todo /\ Head(todo) = todo[1]
    BY <2>1, <2>2, <2>3, <1>3
  <2> HIDE DEF w
  <2>5. Range(todo) = {Head(todo)} \cup Range(w)
    BY <2>4 DEF Range
  <2> QED
    BY <2>5 DEF w
<1>6. Tail(todo) = <<>> <=> Range(Tail(todo)) = {}
  <2>1. Tail(todo) # <<>> => 1 \in DOMAIN Tail(todo)
    BY <1>3, <1>4
  <2> DEFINE w == Tail(todo)
  <2>2. w = <<>> => DOMAIN w = {}
    OBVIOUS
  <2>3. w # <<>> => 1 \in DOMAIN w
    BY <2>1
  <2> HIDE DEF w
  <2>4. w = <<>> <=> Range(w) = {}
    BY <2>2, <2>3 DEF Range
  <2> QED
    BY <2>4 DEF w
<1> QED
  BY <1>3, <1>4, <1>5, <1>6

LEMMA WriteInv == RotationInv /\ Write => RotationInv'
<1> SUFFICES ASSUME RotationInv, Write
             PROVE  RotationInv'
  OBVIOUS
<1>1. /\ todo # <<>> /\ todo \in Seq(Files) /\ Len(todo) <= 3
      /\ Nodes(goal.list) /\ goal.conf \in Hosts /\ goal.creds \in Cred
      /\ Nodes(list) /\ conf \in Hosts /\ creds \in Cred
  BY DEF RotationInv, Types, Write
<1>2. /\ list' = IF Head(todo) = "list"  THEN goal.list  ELSE list
      /\ conf' = IF Head(todo) = "conf"  THEN goal.conf  ELSE conf
      /\ creds' = IF Head(todo) = "creds" THEN goal.creds ELSE creds
      /\ todo' = Tail(todo) /\ goal' = (IF Len(todo) = 1 THEN None ELSE goal)
      /\ panel' = panel /\ task' = task /\ schedule' = schedule /\ registered' = registered
      /\ ops' = ops /\ faults' = faults /\ odd' = odd
  BY DEF Write, bounds, config
<1>3. /\ Tail(todo) \in Seq(Files) /\ Len(Tail(todo)) = Len(todo) - 1 /\ Len(todo) \in Nat
      /\ Range(todo) = {Head(todo)} \cup Range(Tail(todo))
      /\ Tail(todo) = <<>> <=> Range(Tail(todo)) = {}
      /\ Tail(todo) # <<>> => goal' = goal
  BY <1>1, <1>2, RangeTail
<1>7. ListNext' = ListNext /\ ConfNext' = ConfNext /\ CredsNext' = CredsNext
  BY <1>2, <1>3 DEF ListNext, ConfNext, CredsNext, Left
<1>8. Types'
  <2>1. Nodes(list') /\ conf' \in Hosts /\ creds' \in Cred
    BY <1>1, <1>2
  <2>2. todo' \in Seq(Files) /\ Len(todo') <= 3
    BY <1>1, <1>2, <1>3
  <2>3. todo' # <<>> => Nodes(goal'.list) /\ goal'.conf \in Hosts /\ goal'.creds \in Cred
    BY <1>1, <1>2, <1>3
  <2> QED
    BY <2>1, <2>2, <2>3, <1>2 DEF RotationInv, Types, Waiting
<1>9. NewIds'
  <2>1. \A t \in Tasks : Busy(t) /\ task[t].kind = "add" =>
          /\ \A k \in DOMAIN list : list[k].id # task[t].id
          /\ \A k \in DOMAIN goal.list : goal.list[k].id # task[t].id
          /\ \A s \in Tasks : Busy(s) /\ s # t => task[s].id # task[t].id
    BY <1>1 DEF RotationInv, NewIds
  <2>2. \A t \in Tasks : Busy(t)' = Busy(t)
    BY <1>2 DEF Busy
  <2>3. (list' = list \/ list' = goal.list) /\ (todo' # <<>> => goal' = goal)
    BY <1>2, <1>3
  <2> QED
    BY <2>1, <2>2, <2>3, <1>2 DEF NewIds
<1>10. ASSUME odd = {}, NEW t \in Tasks, Busy(t)
       PROVE  /\ todo' # <<>> => Range(todo') = {"creds"}
              /\ task[t].pc = "node" /\ OnCourse(task[t])'
  <2>1. task[t].pc = "node" /\ Range(todo) = {"creds"} /\ OnCourse(task[t])
    BY <1>1, <1>10 DEF RotationInv, Together
  <2>2. Head(todo) = "creds" /\ (Tail(todo) # <<>> => Range(Tail(todo)) = {"creds"})
    BY <1>3, <2>1
  <2>3. list' = list /\ conf' = conf
    BY <1>2, <2>2
  <2> QED
    BY <1>2, <2>1, <2>2, <2>3 DEF OnCourse, Aimed
<1>11. Together'
  <2>1. \A t \in Tasks : Busy(t)' = Busy(t)
    BY <1>2 DEF Busy
  <2> QED
    BY <2>1, <1>2, <1>7, <1>10 DEF RotationInv, Together
<1> QED
  BY <1>8, <1>9, <1>11 DEF RotationInv

\* The active node, if there is one.
LEMMA ActiveIs ==
  ASSUME Nodes(list)
  PROVE  \/ ActiveAt = {} /\ Active = Nobody
         \/ \E k \in DOMAIN list :
              /\ list[k].active /\ list[k].host # Placeholder /\ ActiveAt = {k}
              /\ Active = list[k]
<1>1. CASE ActiveAt = {}
  BY <1>1 DEF Active
<1>2. CASE ActiveAt # {}
  <2>1. PICK k \in DOMAIN list : list[k].active /\ list[k].host # Placeholder
    BY <1>2 DEF ActiveAt
  <2>2. k \in ActiveAt /\ \A j \in ActiveAt : j = k
    BY <2>1 DEF ActiveAt, Nodes
  <2>3. k \in Nat
    BY NodesIs
  <2>4. (CHOOSE i \in ActiveAt : \A j \in ActiveAt : i <= j) = k
    BY <2>2, <2>3
  <2>5. Active = list[k]
    BY <1>2, <2>4 DEF Active
  <2>6. ActiveAt = {k}
    BY <2>2
  <2> QED
    BY <2>1, <2>5, <2>6
<1> QED
  BY <1>1, <1>2


\* With no panel node active, a good list is good whatever the files say.
LEMMA NoPanelActive ==
  ASSUME Nodes(list), ~IsPanel(Active), Good(list, conf, creds, panel), NEW cf, NEW cr
  PROVE  Good(list, cf, cr, panel)
<1>1. \A k \in DOMAIN list : list[k].active /\ list[k].host # Placeholder => ~IsPanel(list[k])
  BY ActiveIs DEF ActiveAt
<1> QED
  BY <1>1 DEF Good

\* A call changes no task; alone, it leaves the files to agree if what it writes does.
LEMMA CallInv ==
  ASSUME RotationInv, NEW more \in SUBSET Causes, Call(more), registered' \in BOOLEAN, Pending',
         Disturbs \subseteq more,
         \A k \in DOMAIN goal'.list : \/ \E j \in DOMAIN list : list[j].id = goal'.list[k].id
                                      \/ NewId(goal'.list[k].id),
         more = {} /\ Good(list, conf, creds, panel)
           => Good(ListNext', ConfNext', CredsNext', panel)
  PROVE  RotationInv'
<1>1. /\ todo = <<>> /\ ops < MaxOps /\ ops' = ops + 1
      /\ odd' = odd \cup more
      /\ panel' = panel /\ task' = task /\ schedule' = schedule /\ faults' = faults
      /\ list' = list /\ conf' = conf /\ creds' = creds
  BY DEF Call, files
<1>2. Disturbs = {} => \A t \in Tasks : ~Busy(t)
  BY DEF Disturbs
<1>3. Types'
  <2>1. ops' \in 0 .. MaxOps
    BY <1>1, RotationAssumption DEF RotationInv, Types
  <2>2. odd' \subseteq Causes
    BY <1>1 DEF RotationInv, Types
  <2> QED
    BY <1>1, <2>1, <2>2 DEF RotationInv, Types, Pending, Waiting
<1>4. NewIds'
  <2>1. \A t \in Tasks : Busy(t)' = Busy(t)
    BY <1>1 DEF Busy
  <2>2. ASSUME NEW t \in Tasks, Busy(t), task[t].kind = "add", NEW k \in DOMAIN goal'.list
        PROVE  goal'.list[k].id # task[t].id
    <3>1. \A j \in DOMAIN list : list[j].id # task[t].id
      BY <2>2 DEF RotationInv, NewIds
    <3>2. NewId(goal'.list[k].id) => task[t].id # goal'.list[k].id
      BY <2>2 DEF NewId
    <3> QED
      BY <3>1, <3>2
  <2> QED
    BY <1>1, <2>1, <2>2 DEF RotationInv, NewIds
<1>5. Together'
  <2>1. ASSUME odd' = {}
        PROVE  /\ \A t \in Tasks : ~Busy(t)'
               /\ Good(ListNext, ConfNext, CredsNext, panel)'
    <3>1. odd = {} /\ more = {} /\ \A t \in Tasks : ~Busy(t)
      BY <1>1, <1>2, <2>1
    <3>2. Good(list, conf, creds, panel)
      BY <1>1, <3>1, RestGood DEF RotationInv, Busy
    <3>3. Good(ListNext', ConfNext', CredsNext', panel')
      BY <1>1, <3>1, <3>2
    <3> QED
      BY <1>1, <3>1, <3>3 DEF Busy
  <2> QED
    BY <2>1, TogetherAlone
<1> QED
  BY <1>3, <1>4, <1>5 DEF RotationInv

LEMMA DisturbsIs == Disturbs \subseteq Causes
BY DEF Disturbs, Causes

LEMMA SetActiveInv ==
  ASSUME RotationInv, NEW k \in DOMAIN list, SetActiveProxy(k)
  PROVE  RotationInv'
<1> DEFINE l == Activated(list, k)
           o == <<"list", "conf", "creds">>
<1>1. Nodes(list)
  BY DEF RotationInv, Types
<1>2. /\ Call(Disturbs) /\ Writes(l, l[k].host, CredsOf(l[k]), o) /\ registered' = registered
  BY DEF SetActiveProxy, Activated
<1>3. /\ DOMAIN l = DOMAIN list /\ Nodes(l)
      /\ \A j \in DOMAIN list : l[j].id = list[j].id
  BY <1>1, ActivatedIs DEF Alike
<1>4. o \in Seq(Files) /\ Len(o) <= 3 /\ "list" \in Range(o) /\ "conf" \in Range(o) /\ "creds" \in Range(o)
  <2>1. DOMAIN o = {1, 2, 3} /\ o[1] = "list" /\ o[2] = "conf" /\ o[3] = "creds"
    OBVIOUS
  <2>2. o \in Seq(Files) /\ Len(o) <= 3
    BY DEF Files
  <2> HIDE DEF o
  <2> QED
    BY <2>1, <2>2 DEF Range
<1>5. Good(list, conf, creds, panel) => Good(l, l[k].host, CredsOf(l[k]), panel)
  BY <1>1, ActivatedGood
<1> HIDE DEF l, o
<1>6. l[k] \in Node
  BY <1>3, NodesIs
<1>7. l[k].host \in Hosts /\ CredsOf(l[k]) \in Cred
  BY <1>6, NodeIs
<1>8. UNCHANGED files
  BY <1>2 DEF Call
<1>9. /\ Pending' /\ goal'.list = l /\ ListNext' = l /\ ConfNext' = l[k].host
      /\ CredsNext' = CredsOf(l[k])
  BY <1>2, <1>3, <1>4, <1>7, <1>8, WritesIs
<1>10. registered' \in BOOLEAN
  BY <1>2 DEF RotationInv, Types
<1> QED
  BY <1>2, <1>3, <1>5, <1>9, <1>10, DisturbsIs, CallInv

\* An edit that does not type in another account or password keeps what is good.
LEMMA EditInv ==
  ASSUME RotationInv, NEW k \in DOMAIN list, NEW node \in Node, node.id = list[k].id,
         Edit(k, node)
  PROVE  RotationInv'
<1> DEFINE typed == IsPanel(node) /\ (~IsPanel(list[k]) \/ CredsOf(node) # CredsOf(list[k]))
           more == Disturbs \cup (IF typed THEN {"edited"} ELSE {})
<1>1. Nodes(list) /\ Types /\ UNCHANGED files
  BY DEF RotationInv, Types, Edit, Call
<1>2. Call(more) /\ UpdateProxy(k, node) /\ registered' = registered
  BY DEF Edit
<1>3. more \in SUBSET Causes /\ Disturbs \subseteq more /\ (more = {} => ~typed)
  BY DisturbsIs DEF Causes
<1>4. /\ Pending' /\ goal'.list = Updated(list, k, node)
      /\ ListNext' = Updated(list, k, node)
      /\ ConfNext' = IF node.active THEN node.host ELSE conf
      /\ CredsNext' = IF node.active THEN CredsOf(node) ELSE creds
  BY <1>1, <1>2, UpdateProxyIs
<1>5. /\ DOMAIN Updated(list, k, node) = DOMAIN list
      /\ \A j \in DOMAIN list : Updated(list, k, node)[j].id = list[j].id
  BY <1>1, UpdatedIs DEF Alike
<1>6. ASSUME ~typed, Good(list, conf, creds, panel)
      PROVE  Good(ListNext', ConfNext', CredsNext', panel)
  <2>1. IsPanel(node) => /\ IsPanel(list[k]) /\ list[k].user = node.user
                         /\ node.pass = list[k].pass
    BY <1>6 DEF CredsOf
  <2>2. IsPanel(node) => /\ IsPanel(list[k]) /\ list[k].user = node.user
                         /\ node.pass = panel[node.user]
    BY <2>1, <1>6 DEF Good
  <2>3. Good(Updated(list, k, node), IF node.active THEN node.host ELSE conf,
             IF node.active THEN CredsOf(node) ELSE creds, panel)
    BY <1>1, <1>6, <2>2, UpdatedGood
  <2> QED
    BY <1>4, <2>3
<1> HIDE DEF typed, more
<1>7. registered' \in BOOLEAN
  BY <1>2 DEF RotationInv, Types
<1> QED
  BY <1>2, <1>3, <1>4, <1>5, <1>6, <1>7, CallInv

LEMMA DeleteInv ==
  ASSUME RotationInv, NEW k \in DOMAIN list, DeleteProxy(k)
  PROVE  RotationInv'
<1> DEFINE l == Removed(list, k)
           h == Heir(list, k)
           node == IF h THEN l[1] ELSE list[k]
           o == (IF h THEN SyncActive(node) ELSE <<>>) \o <<"list">>
<1>1. Nodes(list)
  BY DEF RotationInv, Types
<1>2. /\ Call(Disturbs) /\ Writes(l, node.host, CredsOf(node), o) /\ registered' = registered
  BY DEF DeleteProxy, Removed, Heir, Without
<1>3. /\ Nodes(l) /\ (h => 1 \in DOMAIN l /\ l[1].active)
      /\ \A j \in DOMAIN l : \E i \in DOMAIN list : list[i].id = l[j].id
  BY <1>1, RemovedIs DEF Alike
<1>4. Good(list, conf, creds, panel) =>
        Good(l, IF h THEN l[1].host ELSE conf, IF h THEN CredsOf(l[1]) ELSE creds, panel)
  BY <1>1, RemovedGood
<1>5. node \in Node
  BY <1>1, <1>3, NodesIs
<1> HIDE DEF l, h
<1>6. /\ o \in Seq(Files) /\ Len(o) <= 3 /\ "list" \in Range(o)
      /\ ("conf" \in Range(o) <=> h) /\ ("creds" \in Range(o) <=> h)
  <2> DEFINE b == <<"conf", "creds">>
             e == <<>>
             x == <<"list">>
             s == IF h THEN SyncActive(node) ELSE <<>>
  <2>1. b \in Seq(Files) /\ e \in Seq(Files) /\ x \in Seq(Files)
    BY DEF Files
  <2>2. Len(b) = 2 /\ Len(e) = 0 /\ Len(x) = 1 /\ Range(x) = {"list"} /\ Range(e) = {}
    BY DEF Range
  <2>3. Range(b) = {"conf", "creds"}
    <3>1. DOMAIN b = {1, 2} /\ b[1] = "conf" /\ b[2] = "creds"
      OBVIOUS
    <3> HIDE DEF b
    <3> QED
      BY <3>1 DEF Range
  <2>4. (h /\ s = b) \/ (~h /\ s = e)
    <3>1. h => node.active
      BY <1>3
    <3> QED
      BY <3>1 DEF SyncActive
  <2>5. o = s \o x
    OBVIOUS
  <2> HIDE DEF b, e, x, s, o
  <2>6. s \in Seq(Files) /\ Len(s) \in {0, 2}
    BY <2>1, <2>2, <2>4, Zenon
  <2>7. o \in Seq(Files) /\ Len(o) = Len(s) + Len(x) /\ Range(o) = Range(s) \cup Range(x)
    BY <2>1, <2>5, <2>6, ConcatProperties, RangeConcat
  <2>8. Len(o) <= 3
    <3>1. \A i \in {0, 2} : i + 1 <= 3
      OBVIOUS
    <3> QED
      BY <3>1, <2>2, <2>6, <2>7, Zenon
  <2>9. Range(s) = IF h THEN {"conf", "creds"} ELSE {}
    BY <2>2, <2>3, <2>4
  <2> QED
    BY <2>2, <2>7, <2>8, <2>9
<1>7. node.host \in Hosts /\ CredsOf(node) \in Cred
  BY <1>5, NodeIs
<1>8. h => node = l[1]
  OBVIOUS
<1> HIDE DEF o, node
<1>9. UNCHANGED files
  BY <1>2 DEF Call
<1>10. /\ Pending' /\ goal'.list = l /\ ListNext' = l
       /\ ConfNext' = IF h THEN node.host ELSE conf
       /\ CredsNext' = IF h THEN CredsOf(node) ELSE creds
  BY <1>2, <1>3, <1>6, <1>7, <1>9, WritesIs
<1>11. Good(list, conf, creds, panel) => Good(ListNext', ConfNext', CredsNext', panel)
  BY <1>4, <1>8, <1>10
<1>12. registered' \in BOOLEAN
  BY <1>2 DEF RotationInv, Types
<1> QED
  BY <1>2, <1>3, <1>10, <1>11, <1>12, DisturbsIs, CallInv

LEMMA CreateManualInv ==
  ASSUME RotationInv, NEW id \in Ids, NEW user \in Users \cup {None}, NEW host \in Hosts,
         NEW on \in BOOLEAN, CreateManual(id, user, host, on)
  PROVE  RotationInv'
<1> DEFINE node == [id |-> id, xui |-> FALSE, user |-> user, pass |-> Fresh, host |-> host,
                    active |-> on]
<1>1. Nodes(list) /\ Types
  BY DEF RotationInv, Types
<1>2. Fresh \in Passes
  BY <1>1, FreshIs
<1>3. node \in Node /\ node.id = id /\ node.xui = FALSE
  BY <1>2, NodeMade
<1>4. NewId(id) /\ Call(Disturbs) /\ CreateProxy(node) /\ registered' = registered
  BY DEF CreateManual
<1> HIDE DEF node
<1>5. \A k \in DOMAIN list : list[k].id # node.id
  BY <1>3, <1>4 DEF NewId, IndexOf
<1>6. UNCHANGED files
  BY <1>4 DEF Call
<1>7. PICK new \in Node :
        /\ new.id = node.id /\ new.xui = node.xui /\ new.user = node.user
        /\ new.pass = node.pass
        /\ Pending' /\ goal'.list = Added(list, new)
        /\ ListNext' = Added(list, new)
        /\ ConfNext' = IF new.active THEN new.host ELSE conf
        /\ CredsNext' = IF new.active THEN CredsOf(new) ELSE creds
  BY <1>1, <1>3, <1>4, <1>5, <1>6, CreateProxyIs
<1>8. /\ DOMAIN Added(list, new) = 1 .. Len(list) + 1
      /\ Added(list, new)[Len(list) + 1].id = id
      /\ \A j \in DOMAIN list : Added(list, new)[j].id = list[j].id
  BY <1>1, <1>3, <1>5, <1>7, AddedIs DEF Alike
<1>9. \A j \in DOMAIN Added(list, new) : j \in DOMAIN list \/ j = Len(list) + 1
  BY <1>1, <1>8, NodesIs
<1>10. ASSUME NEW j \in DOMAIN goal'.list
       PROVE  \/ \E i \in DOMAIN list : list[i].id = goal'.list[j].id
              \/ NewId(goal'.list[j].id)
  BY <1>4, <1>7, <1>8, <1>9
<1>11. Good(list, conf, creds, panel) => Good(ListNext', ConfNext', CredsNext', panel)
  BY <1>1, <1>3, <1>5, <1>7, AddedGood DEF IsPanel
<1>12. registered' \in BOOLEAN
  BY <1>1, <1>4 DEF Types
<1> QED
  BY <1>4, <1>7, <1>10, <1>11, <1>12, DisturbsIs, CallInv

\* A configuration of the operator's own is the active node's only by chance.
LEMMA SetConfigInv ==
  ASSUME RotationInv, NEW host \in Hosts, SetConfig(host)
  PROVE  RotationInv'
<1> DEFINE more == Disturbs \cup (IF IsPanel(Active) THEN {"config"} ELSE {})
<1>1. Nodes(list) /\ creds \in Cred
  BY DEF RotationInv, Types
<1>2. Call(more) /\ Writes(list, host, creds, <<"conf">>) /\ registered' = registered
  BY DEF SetConfig
<1>3. more \in SUBSET Causes /\ Disturbs \subseteq more /\ (more = {} => ~IsPanel(Active))
  BY DisturbsIs DEF Causes
<1> HIDE DEF more
<1>4. <<"conf">> \in Seq(Files) /\ Len(<<"conf">>) <= 3 /\ Range(<<"conf">>) = {"conf"}
  BY OneFile DEF Files
<1>5. UNCHANGED files
  BY <1>2 DEF Call
<1>6. /\ Pending' /\ goal'.list = list /\ ListNext' = list /\ ConfNext' = host
      /\ CredsNext' = creds
  BY <1>1, <1>2, <1>4, <1>5, WritesIs
<1>7. ASSUME ~IsPanel(Active), Good(list, conf, creds, panel)
      PROVE  Good(list, host, creds, panel)
  BY <1>1, <1>7, NoPanelActive
<1>8. more = {} /\ Good(list, conf, creds, panel) => Good(ListNext', ConfNext', CredsNext', panel)
  BY <1>3, <1>6, <1>7
<1>9. registered' \in BOOLEAN
  BY <1>2 DEF RotationInv, Types
<1> QED
  BY <1>2, <1>3, <1>6, <1>8, <1>9, CallInv

\* A panel that comes or goes changes nothing that is kept.
LEMMA SetPanelsInv ==
  ASSUME RotationInv, SetPanels
  PROVE  RotationInv'
<1>1. /\ ops < MaxOps /\ ops' = ops + 1 /\ odd' = odd
      /\ panel' = panel /\ task' = task /\ schedule' = schedule /\ faults' = faults
      /\ list' = list /\ conf' = conf /\ creds' = creds /\ goal' = goal /\ todo' = todo
      /\ registered' = ~registered
  BY DEF SetPanels, Call, NoWrites, files
<1>2. ops' \in 0 .. MaxOps /\ registered' \in BOOLEAN
  BY <1>1, RotationAssumption DEF RotationInv, Types
<1>3. Types'
  BY <1>1, <1>2 DEF RotationInv, Types, Waiting
<1>4. NewIds'
  BY <1>1 DEF RotationInv, NewIds, Busy
<1>5. Together'
  BY <1>1 DEF RotationInv, Together, Busy, OnCourse, Aimed, Good, ListNext, ConfNext,
              CredsNext, Left
<1> QED
  BY <1>3, <1>4, <1>5 DEF RotationInv

LEMMA OperatorInv == RotationInv /\ Operator => RotationInv'
<1> SUFFICES ASSUME RotationInv, Operator
             PROVE  RotationInv'
  OBVIOUS
<1>1. ASSUME NEW k \in DOMAIN list, NEW xui \in BOOLEAN, NEW on \in BOOLEAN,
             NEW user \in Users \cup {None}, NEW host \in Hosts,
             NEW pass \in {list[k].pass, Fresh},
             Edit(k, [id |-> list[k].id, xui |-> xui, user |-> user, pass |-> pass, host |-> host,
                      active |-> on])
      PROVE  RotationInv'
  <2>a. PICK node : node = [id |-> list[k].id, xui |-> xui, user |-> user, pass |-> pass,
                            host |-> host, active |-> on]
    OBVIOUS
  <2>1. list[k].id \in Ids /\ list[k].pass \in Passes
    BY NodesIs, NodeIs DEF RotationInv, Types
  <2>2. pass \in Passes
    BY <2>1, FreshIs DEF RotationInv
  <2>3. node \in Node /\ node.id = list[k].id
    BY <2>a, <2>1, <2>2, NodeMade
  <2> QED
    BY <1>1, <2>a, <2>3, EditInv
<1> QED
  BY <1>1, SetActiveInv, DeleteInv, CreateManualInv, SetConfigInv, SetPanelsInv DEF Operator

\* A task that begins, with what it aims at.
LEMMA BeginInv ==
  ASSUME RotationInv, NEW t \in Tasks, NEW kind \in Kinds, NEW pc \in {"aim", "list", "refused"},
         NEW id, NEW user, Begin(t, kind, pc, id, user),
         id \in Ids \cup {None}, kind # "rotate" => id \in Ids, user \in Users \cup {None},
         pc = "aim" => kind = "rotate",
         ops' \in 0 .. MaxOps, odd' \subseteq Causes, odd \subseteq odd',
         kind = "add" => NewId(id),
         kind # "add" => \A s \in Tasks : Busy(s) /\ task[s].kind = "add" => task[s].id # id,
         odd' = {} => \A s \in Tasks : ~Busy(s),
         odd' = {} /\ pc # "aim" =>
           IF kind = "add"
           THEN user = None /\ \A k \in DOMAIN list : IsPanel(list[k]) => list[k].user # FirstUser
           ELSE \E k \in DOMAIN list : /\ list[k].id = id /\ list[k].user = user
                                       /\ IsPanel(list[k]) /\ kind # "rotate"
  PROVE  RotationInv'
<1> DEFINE w == [pc |-> pc, kind |-> kind, id |-> id, user |-> user, acc |-> <<>>, new |-> None]
<1>1. /\ todo = <<>> /\ todo' = <<>> /\ ~Busy(t) /\ task' = [task EXCEPT ![t] = w]
      /\ goal' = goal /\ panel' = panel /\ list' = list /\ conf' = conf /\ creds' = creds
      /\ schedule' = schedule /\ registered' = registered /\ faults' = faults
  BY DEF Begin, NoWrites, files, config
<1>2. /\ w.pc = pc /\ w.kind = kind /\ w.id = id /\ w.user = user /\ w.acc = <<>>
      /\ w.new = None
      /\ w = [pc |-> w.pc, kind |-> w.kind, id |-> w.id, user |-> w.user, acc |-> w.acc,
              new |-> w.new]
  OBVIOUS
<1> HIDE DEF w
<1>3. Waiting(w) /\ w.pc # "free"
  BY <1>2 DEF Waiting
<1>4. DOMAIN task = Tasks /\ \A s \in Tasks : task[s] = Free \/ Waiting(task[s])
  BY DEF RotationInv, Types
<1>5. /\ DOMAIN task' = Tasks /\ task'[t] = w
      /\ \A s \in Tasks : s # t => task'[s] = task[s]
  BY <1>1, <1>4
<1>6. Types'
  BY <1>1, <1>3, <1>4, <1>5 DEF RotationInv, Types, Waiting, Free
<1>7. NewIds'
  <2>1. ASSUME NEW s \in Tasks, Busy(s)', task'[s].kind = "add"
        PROVE  /\ \A k \in DOMAIN list : list[k].id # task'[s].id
               /\ \A r \in Tasks : Busy(r)' /\ r # s => task'[r].id # task'[s].id
    <3>1. CASE s = t
      <4>1. kind = "add" /\ NewId(id) /\ task'[s].id = id
        BY <1>2, <1>5, <2>1, <3>1
      <4>2. \A k \in DOMAIN list : list[k].id # id
        BY <4>1 DEF NewId, IndexOf
      <4>3. \A r \in Tasks : Busy(r)' /\ r # s => Busy(r) /\ task'[r].id = task[r].id
        BY <1>5, <3>1 DEF Busy
      <4> QED
        BY <4>1, <4>2, <4>3 DEF NewId
    <3>2. CASE s # t
      <4>1. Busy(s) /\ task[s].kind = "add" /\ task'[s].id = task[s].id
        BY <1>5, <2>1, <3>2 DEF Busy
      <4>2. id # task[s].id
        BY <4>1 DEF NewId
      <4>3. /\ \A k \in DOMAIN list : list[k].id # task[s].id
            /\ \A r \in Tasks : Busy(r) /\ r # s => task[r].id # task[s].id
        BY <4>1 DEF RotationInv, NewIds
      <4>4. \A r \in Tasks : Busy(r)' /\ r # t => Busy(r) /\ task'[r].id = task[r].id
        BY <1>5 DEF Busy
      <4> QED
        BY <4>1, <4>2, <4>3, <4>4, <1>2, <1>5
    <3> QED
      BY <3>1, <3>2
  <2> QED
    BY <1>1, <2>1 DEF NewIds
<1>8. Together'
  <2> SUFFICES ASSUME odd' = {}
               PROVE  /\ \A r, s \in Tasks : Busy(r)' /\ Busy(s)' => r = s
                      /\ (\A s \in Tasks : task'[s].pc \notin {"store", "node"}) =>
                           Good(ListNext', ConfNext', CredsNext', panel')
                      /\ \A s \in Tasks : Busy(s)' => OnCourse(task[s])'
    BY <1>1 DEF Together
  <2>1. odd = {} /\ \A s \in Tasks : ~Busy(s)
    OBVIOUS
  <2>2. \A s \in Tasks : Busy(s)' => s = t
    BY <2>1, <1>5 DEF Busy
  <2>3. Good(list, conf, creds, panel)
    BY <1>1, <2>1, RestGood DEF RotationInv, Busy
  <2>4. ListNext' = list /\ ConfNext' = conf /\ CredsNext' = creds
    BY <1>1 DEF ListNext, ConfNext, CredsNext, Left, Range
  <2>5. OnCourse(w)'
    <3>1. w.pc # "aim" => Aimed(w)
      BY <1>2 DEF Aimed
    <3>2. Aimed(w)' = Aimed(w)
      BY <1>1 DEF Aimed, w
    <3> QED
      BY <1>2, <3>1, <3>2 DEF OnCourse, w
  <2>6. OnCourse(task[t])'
    BY <2>5, <1>5
  <2> QED
    BY <1>1, <2>2, <2>3, <2>4, <2>6
<1> QED
  BY <1>6, <1>7, <1>8 DEF RotationInv

LEMMA OverlapsIs ==
  ASSUME NEW S \in SUBSET Tasks
  PROVE  /\ UNION {Overlaps(s) : s \in S} \subseteq Causes
         /\ UNION {Overlaps(s) : s \in S} = {} =>
              \A s \in S : Busy(s) => task[s].kind = "rotate"
<1>1. \A s \in S : Overlaps(s) \subseteq Causes
  BY DEF Overlaps, Causes
<1>2. \A s \in S : Busy(s) /\ task[s].kind # "rotate" => "overlap" \in Overlaps(s)
  BY DEF Overlaps
<1>3. \A s \in S : "overlap" \in Overlaps(s) => "overlap" \in UNION {Overlaps(r) : r \in S}
  OBVIOUS
<1>4. UNION {Overlaps(s) : s \in S} \subseteq Causes
  BY <1>1
<1> QED
  BY <1>2, <1>3, <1>4

LEMMA StartRotationInv ==
  ASSUME RotationInv, NEW t \in Tasks, StartRotation(t)
  PROVE  RotationInv'
<1> DEFINE more == UNION {Overlaps(s) : s \in Tasks}
<1>1. /\ Begin(t, "rotate", "aim", None, None) /\ odd' = odd \cup more /\ ops' = ops
      /\ ~Rotating
  BY DEF StartRotation, MayRotate
<1>2. more \subseteq Causes /\ (more = {} => \A s \in Tasks : Busy(s) => task[s].kind = "rotate")
  BY OverlapsIs
<1> HIDE DEF more
<1>3. ops' \in 0 .. MaxOps /\ odd' \subseteq Causes /\ odd \subseteq odd'
  BY <1>1, <1>2 DEF RotationInv, Types
<1>4. \A s \in Tasks : Busy(s) /\ task[s].kind = "add" => task[s].id # None
  <2>1. \A s \in Tasks : Busy(s) => Waiting(task[s])
    BY DEF RotationInv, Types, Busy, Free
  <2> QED
    BY <2>1, RotationAssumption DEF Waiting
<1>5. odd' = {} => \A s \in Tasks : ~Busy(s)
  BY <1>1, <1>2 DEF Rotating
<1> QED
  BY <1>1, <1>3, <1>4, <1>5, BeginInv DEF Kinds

LEMMA StartSyncInv ==
  ASSUME RotationInv, NEW t \in Tasks, NEW k \in DOMAIN list, NEW kind \in {"sync", "fetch"},
         StartSync(t, k, kind)
  PROVE  RotationInv'
<1> DEFINE S == {r \in Tasks : Busy(r) => task[r].id # list[k].id}
           more == UNION {Overlaps(s) : s \in S}
<1>1. /\ ops < MaxOps /\ ops' = ops + 1 /\ IsPanel(list[k])
      /\ ~Rotating /\ \A s \in Tasks : Busy(s) => task[s].id # list[k].id
      /\ Begin(t, kind, Answer, list[k].id, list[k].user)
      /\ odd' = odd \cup more
  BY DEF StartSync
<1>2. more \subseteq Causes /\ (more = {} => \A s \in S : Busy(s) => task[s].kind = "rotate")
  BY OverlapsIs
<1>3. \A s \in Tasks : s \in S
  BY <1>1
<1> HIDE DEF more, S
<1>4. ops' \in 0 .. MaxOps /\ odd' \subseteq Causes /\ odd \subseteq odd'
  BY <1>1, <1>2, RotationAssumption DEF RotationInv, Types
<1>5. list[k].id \in Ids /\ list[k].user \in Users \cup {None}
  BY NodesIs, NodeIs DEF RotationInv, Types
<1>6. \A s \in Tasks : Busy(s) /\ task[s].kind = "add" => task[s].id # list[k].id
  BY <1>1
<1>7. odd' = {} => \A s \in Tasks : ~Busy(s)
  BY <1>1, <1>2, <1>3 DEF Rotating
<1>8. PICK pc \in {"list", "refused"} : pc = Answer
  BY DEF Answer
<1>9. PICK i : i = list[k].id
  OBVIOUS
<1>10. PICK u : u = list[k].user
  OBVIOUS
<1>11. kind \in Kinds /\ kind # "rotate" /\ kind # "add"
  BY DEF Kinds
<1>12. Begin(t, kind, pc, i, u)
  BY <1>1, <1>8, <1>9, <1>10
<1> QED
  BY <1>1, <1>4, <1>5, <1>6, <1>7, <1>8, <1>9, <1>10, <1>11, <1>12, BeginInv

LEMMA StartAddInv ==
  ASSUME RotationInv, NEW t \in Tasks, NEW id \in Ids, StartAdd(t, id)
  PROVE  RotationInv'
<1> DEFINE beside == IF \E s \in Tasks : Busy(s) THEN {"overlap"} ELSE {}
           shared == IF \E k \in DOMAIN list : IsPanel(list[k]) /\ list[k].user = FirstUser
                     THEN {"shared"} ELSE {}
<1>1. /\ ops < MaxOps /\ ops' = ops + 1 /\ NewId(id)
      /\ Begin(t, "add", Answer, id, None)
      /\ odd' = (odd \cup beside) \cup shared
  BY DEF StartAdd
<1>2. /\ shared \subseteq Causes
      /\ shared = {} => \A k \in DOMAIN list : IsPanel(list[k]) => list[k].user # FirstUser
  BY DEF Causes
<1>3. beside \subseteq Causes /\ (beside = {} => \A s \in Tasks : ~Busy(s))
  BY DEF Causes
<1> HIDE DEF shared, beside
<1>4. ops' \in 0 .. MaxOps /\ odd' \subseteq Causes /\ odd \subseteq odd'
  BY <1>1, <1>2, <1>3, RotationAssumption DEF RotationInv, Types
<1>5. odd' = {} => shared = {} /\ beside = {}
  BY <1>1
<1>6. PICK pc \in {"list", "refused"} : pc = Answer
  BY DEF Answer
<1>7. Begin(t, "add", pc, id, None)
  BY <1>1, <1>6
<1>8. "add" \in Kinds /\ pc # "aim"
  BY <1>6 DEF Kinds
<1> QED
  BY <1>1, <1>2, <1>3, <1>4, <1>5, <1>6, <1>7, <1>8, BeginInv

\* The tasks under way are well formed.
LEMMA BusyWaits ==
  ASSUME RotationInv
  PROVE  /\ DOMAIN task = Tasks
         /\ \A s \in Tasks : task[s] = Free \/ Waiting(task[s])
         /\ \A s \in Tasks : Busy(s) => Waiting(task[s])
         /\ \A s \in Tasks : task[s].pc # "free" => Busy(s)
BY DEF RotationInv, Types, Busy, Free

\* A task that goes on keeps the invariant if it stays on its course.
LEMMA ProceedInv ==
  ASSUME RotationInv, NEW t \in Tasks, Busy(t), NEW w, Waiting(w),
         task' = [task EXCEPT ![t] = w], w.kind = task[t].kind,
         w.kind # "add" \/ w.id = task[t].id,
         \A s \in Tasks : Busy(s) /\ task[s].kind = "add" /\ s # t => task[s].id # w.id,
         odd' = {} => todo = <<>>, UNCHANGED <<files, goal, todo, config, ops>>,
         panel' \in [Users -> Passes], faults' \in 0 .. MaxFaults,
         odd' \subseteq Causes, odd \subseteq odd',
         odd' = {} =>
           /\ OnCourse(w)'
           /\ w.pc \notin {"store", "node"} => Good(list, conf, creds, panel)'
  PROVE  RotationInv'
<1>1. /\ todo' = todo /\ goal' = goal /\ list' = list /\ conf' = conf /\ creds' = creds
      /\ schedule' = schedule /\ registered' = registered /\ ops' = ops
  BY DEF files, config
<1>2. DOMAIN task = Tasks /\ \A s \in Tasks : task[s] = Free \/ Waiting(task[s])
  BY BusyWaits
<1>3. /\ DOMAIN task' = Tasks /\ task'[t] = w
      /\ \A s \in Tasks : s # t => task'[s] = task[s]
  BY <1>2
<1>4. w.pc # "free"
  BY DEF Waiting
<1>5. Types'
  BY <1>1, <1>2, <1>3 DEF RotationInv, Types, Waiting, Free
<1>6. \A s \in Tasks : Busy(s)' <=> Busy(s)
  BY <1>3, <1>4 DEF Busy
<1>7. NewIds'
  <2>1. ASSUME NEW s \in Tasks, Busy(s)', task'[s].kind = "add"
        PROVE  /\ \A k \in DOMAIN list : list[k].id # task'[s].id
               /\ todo # <<>> => \A k \in DOMAIN goal.list : goal.list[k].id # task'[s].id
               /\ \A r \in Tasks : Busy(r) /\ r # s => task'[r].id # task'[s].id
    <3>1. Busy(s) /\ task[s].kind = "add" /\ task'[s].id = task[s].id
      BY <1>3, <1>6, <2>1
    <3>2. /\ \A k \in DOMAIN list : list[k].id # task[s].id
          /\ todo # <<>> => \A k \in DOMAIN goal.list : goal.list[k].id # task[s].id
          /\ \A r \in Tasks : Busy(r) /\ r # s => task[r].id # task[s].id
      BY <3>1 DEF RotationInv, NewIds
    <3> QED
      BY <3>1, <3>2, <1>3
  <2> QED
    BY <1>1, <1>6, <2>1 DEF NewIds
<1>8. Together'
  <2> SUFFICES ASSUME odd' = {}
               PROVE  /\ \A r, s \in Tasks : Busy(r)' /\ Busy(s)' => r = s
                      /\ (\A s \in Tasks : task'[s].pc \notin {"store", "node"}) =>
                           Good(ListNext', ConfNext', CredsNext', panel')
                      /\ \A s \in Tasks : Busy(s)' => OnCourse(task[s])'
    BY <1>1 DEF Together
  <2>1. odd = {}
    OBVIOUS
  <2>2. \A r, s \in Tasks : Busy(r) /\ Busy(s) => r = s
    BY <2>1 DEF RotationInv, Together
  <2>4. ListNext' = list' /\ ConfNext' = conf' /\ CredsNext' = creds'
    BY <1>1 DEF ListNext, ConfNext, CredsNext, Left, Range
  <2>5. OnCourse(task[t])'
    BY <1>3 DEF OnCourse, Aimed
  <2>6. w.pc \notin {"store", "node"} => Good(list', conf', creds', panel')
    BY DEF Good
  <2> QED
    BY <1>1, <1>3, <1>6, <2>2, <2>4, <2>5, <2>6
<1> QED
  BY <1>5, <1>7, <1>8 DEF RotationInv

\* A waiting task's record, with some of its fields changed.
LEMMA WaitingWith ==
  ASSUME NEW v, NEW kind, NEW p0, NEW i0, NEW u0, NEW a0, NEW n0,
         v = [pc |-> p0, kind |-> kind, id |-> i0, user |-> u0, acc |-> a0, new |-> n0],
         NEW p, NEW i, NEW u, NEW a, NEW n
  PROVE  /\ [v EXCEPT !.user = u, !.acc = a, !.new = n, !.pc = p]
              = [pc |-> p, kind |-> kind, id |-> i0, user |-> u, acc |-> a, new |-> n]
         /\ [v EXCEPT !.pc = p, !.user = u, !.id = i]
              = [pc |-> p, kind |-> kind, id |-> i, user |-> u, acc |-> a0, new |-> n0]
         /\ [v EXCEPT !.pc = p, !.acc = a]
              = [pc |-> p, kind |-> kind, id |-> i0, user |-> u0, acc |-> a, new |-> n0]
         /\ [v EXCEPT !.pc = p]
              = [pc |-> p, kind |-> kind, id |-> i0, user |-> u0, acc |-> a0, new |-> n0]
<1>1. [v EXCEPT !.user = u, !.acc = a, !.new = n, !.pc = p]
        = [pc |-> p, kind |-> kind, id |-> i0, user |-> u, acc |-> a, new |-> n]
  <2> DEFINE r == [v EXCEPT !.user = u]
             x == [r EXCEPT !.acc = a]
             y == [x EXCEPT !.new = n]
             z == [y EXCEPT !.pc = p]
  <2>1. [v EXCEPT !.user = u, !.acc = a, !.new = n, !.pc = p] = z
    OBVIOUS
  <2>2. r = [pc |-> p0, kind |-> kind, id |-> i0, user |-> u, acc |-> a0, new |-> n0]
    OBVIOUS
  <2> HIDE DEF r
  <2>3. x = [pc |-> p0, kind |-> kind, id |-> i0, user |-> u, acc |-> a, new |-> n0]
    BY <2>2
  <2> HIDE DEF x
  <2>4. y = [pc |-> p0, kind |-> kind, id |-> i0, user |-> u, acc |-> a, new |-> n]
    BY <2>3
  <2> HIDE DEF y
  <2>5. z = [pc |-> p, kind |-> kind, id |-> i0, user |-> u, acc |-> a, new |-> n]
    BY <2>4
  <2> HIDE DEF z
  <2> QED
    BY <2>1, <2>5
<1>2. [v EXCEPT !.pc = p, !.user = u, !.id = i]
        = [pc |-> p, kind |-> kind, id |-> i, user |-> u, acc |-> a0, new |-> n0]
  <2> DEFINE x == [v EXCEPT !.pc = p]
             y == [x EXCEPT !.user = u]
             z == [y EXCEPT !.id = i]
  <2>1. [v EXCEPT !.pc = p, !.user = u, !.id = i] = z
    OBVIOUS
  <2>2. x = [pc |-> p, kind |-> kind, id |-> i0, user |-> u0, acc |-> a0, new |-> n0]
    OBVIOUS
  <2> HIDE DEF x
  <2>3. y = [pc |-> p, kind |-> kind, id |-> i0, user |-> u, acc |-> a0, new |-> n0]
    BY <2>2
  <2> HIDE DEF y
  <2>4. z = [pc |-> p, kind |-> kind, id |-> i, user |-> u, acc |-> a0, new |-> n0]
    BY <2>3
  <2> HIDE DEF z
  <2> QED
    BY <2>1, <2>4
<1>3. [v EXCEPT !.pc = p, !.acc = a]
        = [pc |-> p, kind |-> kind, id |-> i0, user |-> u0, acc |-> a, new |-> n0]
  <2> DEFINE x == [v EXCEPT !.pc = p]
             y == [x EXCEPT !.acc = a]
  <2>1. [v EXCEPT !.pc = p, !.acc = a] = y
    OBVIOUS
  <2>2. x = [pc |-> p, kind |-> kind, id |-> i0, user |-> u0, acc |-> a0, new |-> n0]
    OBVIOUS
  <2> HIDE DEF x
  <2>3. y = [pc |-> p, kind |-> kind, id |-> i0, user |-> u0, acc |-> a, new |-> n0]
    BY <2>2
  <2> HIDE DEF y
  <2> QED
    BY <2>1, <2>3
<1>4. [v EXCEPT !.pc = p]
        = [pc |-> p, kind |-> kind, id |-> i0, user |-> u0, acc |-> a0, new |-> n0]
  OBVIOUS
<1> QED
  BY <1>1, <1>2, <1>3, <1>4

LEMMA ListedInv ==
  ASSUME RotationInv, NEW t \in Tasks, Listed(t)
  PROVE  RotationInv'
<1> DEFINE sets == task[t].kind \in {"rotate", "sync"}
<1>1. /\ todo = <<>> /\ task[t].pc = "list"
      /\ UNCHANGED <<panel, files, goal, todo, config, bounds, odd>>
  BY DEF Listed
<1>2. Waiting(task[t]) /\ Busy(t)
  BY <1>1, BusyWaits
<1>3. panel \in [Users -> Passes] /\ Fresh \in Passes
  BY FreshIs DEF RotationInv, Types
<1>u. PICK user : user = Account(task[t].user)
  OBVIOUS
<1>a. PICK new : new = IF sets THEN Fresh ELSE panel[user]
  OBVIOUS
<1>b. PICK pc : pc = IF sets THEN "post" ELSE "store"
  OBVIOUS
<1>c. PICK v : v = task[t]
  OBVIOUS
<1>d. PICK w : w = [v EXCEPT !.user = user, !.acc = panel, !.new = new, !.pc = pc]
  OBVIOUS
<1>4. task' = [task EXCEPT ![t] = w]
  BY <1>u, <1>a, <1>b, <1>c, <1>d, BusyWaits DEF Listed
<1>5. /\ v = [pc |-> v.pc, kind |-> v.kind, id |-> v.id, user |-> v.user, acc |-> v.acc,
              new |-> v.new]
      /\ v.kind \in Kinds /\ v.id \in Ids \cup {None} /\ (v.kind # "rotate" => v.id \in Ids)
      /\ v.user \in Users \cup {None}
  BY <1>c, <1>1, <1>2 DEF Waiting
<1>6. w = [pc |-> pc, kind |-> v.kind, id |-> v.id, user |-> user, acc |-> panel, new |-> new]
  BY <1>d, <1>5, WaitingWith
<1>7. /\ w.pc = pc /\ w.kind = v.kind /\ w.id = v.id /\ w.user = user /\ w.acc = panel
      /\ w.new = new
  BY <1>6
<1>8. /\ user \in Users /\ (v.user \in Users => user = v.user)
      /\ v.user = None => user = FirstUser
  BY <1>u, <1>c, RotationAssumption DEF Account
<1>9. new \in Passes
  BY <1>a, <1>3, <1>8
<1>10. Waiting(w)
  BY <1>b, <1>3, <1>5, <1>6, <1>7, <1>8, <1>9 DEF Waiting
<1>11. ASSUME odd = {}
       PROVE  OnCourse(w) /\ Good(list, conf, creds, panel)
  <2>1. \A s \in Tasks : Busy(s) => s = t
    BY <1>2, <1>11 DEF RotationInv, Together
  <2>2. Good(list, conf, creds, panel)
    BY <1>1, <1>11, <2>1, RestGood DEF RotationInv, Busy
  <2>3. Aimed(v)
    BY <1>c, <1>1, <1>2, <1>11 DEF RotationInv, Together, OnCourse
  <2>4. Aimed(w)
    <3>1. CASE v.kind = "add"
      BY <3>1, <1>5, <1>7, <1>8, <2>3, RotationAssumption DEF Aimed
    <3>2. CASE v.kind # "add"
      <4>1. PICK k \in DOMAIN list :
              /\ list[k].id = v.id /\ list[k].user = v.user /\ IsPanel(list[k])
              /\ v.kind = "rotate" => list[k].active
        BY <2>3, <3>2 DEF Aimed
      <4>2. list[k].user \in Users
        BY <2>2, <4>1 DEF Good
      <4> QED
        BY <3>2, <4>1, <4>2, <1>7, <1>8 DEF Aimed
    <3> QED
      BY <3>1, <3>2
  <2>5. [panel EXCEPT ![w.user] = panel[w.user]] = panel /\ panel[w.user] \in Passes
    BY <1>3, <1>7, <1>8
  <2>6. w.pc = "post" => w.acc = panel /\ w.kind \in {"rotate", "sync"}
    BY <1>b, <1>c, <1>7
  <2>7. w.pc = "store" => w.new = panel[w.user]
    BY <1>a, <1>b, <1>c, <1>7
  <2>8. w.pc \in {"post", "store"}
    BY <1>b, <1>7
  <2>9. creds \in Cred
    BY DEF RotationInv, Types
  <2> QED
    BY <2>2, <2>4, <2>5, <2>6, <2>7, <2>8, <2>9 DEF OnCourse
<1>12. /\ panel' = panel /\ list' = list /\ conf' = conf /\ creds' = creds /\ odd' = odd
       /\ faults' = faults /\ ops' = ops
  BY <1>1 DEF files, bounds
<1>13. odd' = {} => OnCourse(w)' /\ Good(list, conf, creds, panel)'
  <2>1. OnCourse(w)' = OnCourse(w)
    BY <1>12 DEF OnCourse, Aimed, Good
  <2>2. Good(list, conf, creds, panel)' = Good(list, conf, creds, panel)
    BY <1>12 DEF Good
  <2> QED
    BY <1>11, <1>12, <2>1, <2>2
<1>14. \A s \in Tasks : Busy(s) /\ task[s].kind = "add" /\ s # t => task[s].id # w.id
  BY <1>2, <1>c, <1>7 DEF RotationInv, NewIds
<1>15. /\ panel' \in [Users -> Passes] /\ faults' \in 0 .. MaxFaults /\ odd' \subseteq Causes
  BY <1>12 DEF RotationInv, Types
<1>16. w.kind = task[t].kind /\ w.id = task[t].id /\ odd \subseteq odd'
  BY <1>c, <1>7, <1>12
<1>17. UNCHANGED <<files, goal, todo, config, ops>>
  BY <1>1, <1>12
<1> QED
  BY <1>1, <1>2, <1>4, <1>10, <1>13, <1>14, <1>15, <1>16, <1>17, ProceedInv

\* A task that ends keeps the invariant if what its handler will have written is good.
LEMMA EndInv ==
  ASSUME RotationInv, NEW t \in Tasks, Busy(t), todo = <<>>,
         task' = [task EXCEPT ![t] = Free], Pending',
         todo' # <<>> =>
           \A k \in DOMAIN goal'.list :
             \/ \E j \in DOMAIN list : list[j].id = goal'.list[k].id
             \/ goal'.list[k].id = task[t].id,
         UNCHANGED <<panel, files, config, ops>>,
         faults' \in 0 .. MaxFaults, odd' \subseteq Causes, odd \subseteq odd',
         odd' = {} => Good(ListNext', ConfNext', CredsNext', panel)
  PROVE  RotationInv'
<1>1. /\ panel' = panel /\ list' = list /\ conf' = conf /\ creds' = creds
      /\ schedule' = schedule /\ registered' = registered /\ ops' = ops
  BY DEF files, config
<1>2. /\ DOMAIN task' = Tasks /\ task'[t] = Free
      /\ \A s \in Tasks : s # t => task'[s] = task[s]
  BY BusyWaits
<1>3. Types'
  <2>1. \A s \in Tasks : task'[s] = Free \/ Waiting(task'[s])
    BY <1>2, BusyWaits
  <2>2. \A s \in Tasks : task'[s] = Free \/ Waiting(task[s])'
    BY <2>1 DEF Waiting
  <2> QED
    BY <1>1, <1>2, <2>2 DEF RotationInv, Types, Pending
<1>4. \A s \in Tasks : Busy(s)' => s # t /\ Busy(s) /\ task'[s] = task[s]
  BY <1>2 DEF Busy, Free
<1>5. NewIds'
  <2>1. ASSUME NEW s \in Tasks, Busy(s)', task'[s].kind = "add"
        PROVE  /\ \A k \in DOMAIN list : list[k].id # task'[s].id
               /\ todo' # <<>> => \A k \in DOMAIN goal'.list : goal'.list[k].id # task'[s].id
               /\ \A r \in Tasks : Busy(r)' /\ r # s => task'[r].id # task'[s].id
    <3>1. s # t /\ Busy(s) /\ task'[s] = task[s] /\ task[s].kind = "add"
      BY <1>4, <2>1
    <3>2. /\ \A k \in DOMAIN list : list[k].id # task[s].id
          /\ \A r \in Tasks : Busy(r) /\ r # s => task[r].id # task[s].id
      BY <3>1 DEF RotationInv, NewIds
    <3>3. task[t].id # task[s].id
      BY <3>1, <3>2
    <3> QED
      BY <1>4, <3>1, <3>2, <3>3
  <2> QED
    BY <1>1, <2>1 DEF NewIds
<1>6. Together'
  <2>1. ASSUME odd' = {}
        PROVE  /\ \A s \in Tasks : ~Busy(s)'
               /\ Good(ListNext, ConfNext, CredsNext, panel)'
    <3>1. \A s \in Tasks : Busy(s) => s = t
      BY <2>1 DEF RotationInv, Together
    <3>2. Good(ListNext', ConfNext', CredsNext', panel')
      BY <1>1, <2>1
    <3> QED
      BY <1>4, <3>1, <3>2
  <2> QED
    BY <2>1, TogetherAlone
<1> QED
  BY <1>3, <1>5, <1>6 DEF RotationInv

\* A handler that writes only the file of credentials.
LEMMA FileOnly ==
  ASSUME Types, UNCHANGED files, NEW cr \in Cred, Writes(list, conf, cr, <<"creds">>)
  PROVE  /\ Pending' /\ goal'.list = list /\ todo' = <<"creds">>
         /\ ListNext' = list /\ ConfNext' = conf /\ CredsNext' = cr
<1>1. <<"creds">> \in Seq(Files) /\ Len(<<"creds">>) <= 3 /\ Range(<<"creds">>) = {"creds"}
  BY OneFile DEF Files
<1>2. Nodes(list) /\ conf \in Hosts
  BY DEF Types
<1>3. todo' = <<"creds">>
  BY DEF Writes
<1> QED
  BY <1>1, <1>2, <1>3, WritesIs

LEMMA AimInv ==
  ASSUME RotationInv, NEW t \in Tasks, Aim(t)
  PROVE  RotationInv'
<1>1. /\ todo = <<>> /\ task[t].pc = "aim"
      /\ panel' = panel /\ list' = list /\ conf' = conf /\ creds' = creds
      /\ UNCHANGED config /\ ops' = ops /\ faults' = faults
  BY DEF Aim, files, bounds
<1>2. Waiting(task[t]) /\ Busy(t)
  BY <1>1, BusyWaits
<1>3. panel' \in [Users -> Passes] /\ faults' \in 0 .. MaxFaults /\ Nodes(list) /\ Types
  BY <1>1 DEF RotationInv, Types
<1>4. ASSUME odd = {}
      PROVE  Good(list, conf, creds, panel)
  <2>1. \A s \in Tasks : task[s].pc \notin {"store", "node"}
    BY <1>1, <1>2, <1>4, BusyWaits DEF RotationInv, Together
  <2> QED
    BY <1>1, <1>4, <2>1, RestGood DEF RotationInv
<1>5. CASE Reaches(Active)
  <2>a. PICK i : i = IF IsPanel(Active) THEN Active.id ELSE None
    OBVIOUS
  <2>b. PICK u : u = Active.user
    OBVIOUS
  <2>c. PICK v : v = task[t]
    OBVIOUS
  <2>d. PICK w : w = [v EXCEPT !.pc = "list", !.user = u, !.id = i]
    OBVIOUS
  <2>1. task' = [task EXCEPT ![t] = w] /\ goal' = goal /\ todo' = todo
    BY <1>5, <2>a, <2>b, <2>c, <2>d, BusyWaits DEF Aim, NoWrites
  <2>2. odd' = IF IsPanel(Active) THEN odd ELSE odd \cup {"foreign"}
    BY <1>5 DEF Aim
  <2>3. odd' \subseteq Causes /\ odd \subseteq odd' /\ (odd' = {} => IsPanel(Active))
    BY <2>2 DEF RotationInv, Types, Causes
  <2>4. /\ v = [pc |-> v.pc, kind |-> v.kind, id |-> v.id, user |-> v.user, acc |-> v.acc,
                new |-> v.new]
        /\ v.kind = "rotate"
        /\ v.acc \in [Users -> Passes] \/ v.acc = <<>>
        /\ v.new \in Passes \/ v.new = None
    BY <1>1, <1>2, <2>c DEF Waiting
  <2>5. w = [pc |-> "list", kind |-> v.kind, id |-> i, user |-> u, acc |-> v.acc, new |-> v.new]
    BY <2>4, <2>d, WaitingWith
  <2>6. /\ w.pc = "list" /\ w.kind = "rotate" /\ w.id = i /\ w.user = u /\ w.acc = v.acc
        /\ w.new = v.new
    BY <2>4, <2>5
  <2>7. \/ i = None /\ u = None /\ ~IsPanel(Active)
        \/ \E k \in DOMAIN list :
             /\ list[k].active /\ u = list[k].user /\ list[k] \in Node
             /\ IF IsPanel(Active) THEN i = list[k].id /\ IsPanel(list[k]) ELSE i = None
    <3>1. CASE Active = Nobody
      BY <3>1, <2>a, <2>b DEF Nobody, IsPanel
    <3>2. CASE \E k \in DOMAIN list : list[k].active /\ Active = list[k]
      <4>1. PICK k \in DOMAIN list : list[k].active /\ Active = list[k]
        BY <3>2
      <4>2. list[k] \in Node
        BY <1>3, NodesIs
      <4> QED
        BY <4>1, <4>2, <2>a, <2>b
    <3> QED
      BY <3>1, <3>2, <1>3, ActiveIs
  <2>8. i \in Ids \cup {None} /\ u \in Users \cup {None}
    BY <2>7, NodeIs
  <2>9. Waiting(w)
    BY <2>4, <2>5, <2>6, <2>8 DEF Waiting, Kinds
  <2>10. \A s \in Tasks : Busy(s) /\ task[s].kind = "add" /\ s # t => task[s].id # i
    <3>1. \A s \in Tasks : Busy(s) /\ task[s].kind = "add" => task[s].id # None
      BY BusyWaits, RotationAssumption DEF Waiting
    <3>2. \A s \in Tasks : Busy(s) /\ task[s].kind = "add" =>
            \A k \in DOMAIN list : list[k].id # task[s].id
      BY DEF RotationInv, NewIds
    <3> QED
      BY <2>7, <3>1, <3>2
  <2>11. ASSUME odd' = {}
         PROVE  Aimed(w)' /\ Good(list, conf, creds, panel)'
    <3>1. Good(list, conf, creds, panel)
      BY <1>4, <2>3, <2>11
    <3>2. Good(list, conf, creds, panel)'
      BY <1>1, <3>1 DEF Good
    <3>3. \E k \in DOMAIN list :
            list[k].id = i /\ list[k].user = u /\ IsPanel(list[k]) /\ list[k].active
      BY <2>3, <2>7, <2>11
    <3>4. Aimed(w)'
      BY <1>1, <2>6, <3>3 DEF Aimed
    <3> QED
      BY <3>2, <3>4
  <2>12. odd' = {} => OnCourse(w)' /\ Good(list, conf, creds, panel)'
    BY <2>6, <2>11 DEF OnCourse
  <2>13. w.kind = task[t].kind /\ (w.kind # "add" \/ w.id = task[t].id)
    BY <2>c, <2>4, <2>6
  <2>14. \A s \in Tasks : Busy(s) /\ task[s].kind = "add" /\ s # t => task[s].id # w.id
    BY <2>6, <2>10
  <2>15. UNCHANGED <<files, goal, todo, config, ops>>
    BY <1>1, <2>1 DEF files
  <2> QED
    BY <1>1, <1>2, <1>3, <2>1, <2>3, <2>9, <2>12, <2>13, <2>14, <2>15, ProceedInv
<1>6. CASE ~Reaches(Active)
  <2>a. PICK cr : cr = [creds EXCEPT !.pass = Fresh]
    OBVIOUS
  <2>1. /\ task' = [task EXCEPT ![t] = Free] /\ Writes(list, conf, cr, <<"creds">>)
        /\ odd' = IF IsPanel(Active) THEN odd \cup {"standalone"} ELSE odd
    BY <1>6, <2>a DEF Aim
  <2>2. cr \in Cred
    <3>1. creds \in Cred /\ Fresh \in Passes
      BY <1>3, FreshIs DEF Types
    <3> QED
      BY <3>1, <2>a DEF Cred
  <2>3. /\ Pending' /\ goal'.list = list
        /\ ListNext' = list /\ ConfNext' = conf /\ CredsNext' = cr
    BY <1>1, <1>3, <2>1, <2>2, FileOnly DEF files
  <2>4. odd' \subseteq Causes /\ odd \subseteq odd' /\ (odd' = {} => ~IsPanel(Active))
    BY <2>1 DEF RotationInv, Types, Causes
  <2>5. odd' = {} => Good(ListNext', ConfNext', CredsNext', panel)
    BY <1>3, <1>4, <2>3, <2>4, NoPanelActive
  <2>6. UNCHANGED <<panel, files, config, ops>>
    BY <1>1 DEF files
  <2> QED
    BY <1>1, <1>2, <1>3, <2>1, <2>3, <2>4, <2>5, <2>6, EndInv
<1> QED
  BY <1>5, <1>6

LEMMA PostedIs ==
  ASSUME RotationInv, NEW t \in Tasks, task[t].pc = "post", NEW pc \in {"store", "lost"},
         panel' = [task[t].acc EXCEPT ![task[t].user] = task[t].new],
         task' = [task EXCEPT ![t].pc = pc, ![t].acc = <<>>],
         UNCHANGED <<files, goal, todo, config, ops>>,
         faults' \in 0 .. MaxFaults, odd' \subseteq Causes, odd \subseteq odd',
         odd' = {} => pc = "store"
  PROVE  RotationInv'
<1>1. Waiting(task[t]) /\ Busy(t) /\ UNCHANGED files
  BY BusyWaits
<1>a. PICK v : v = task[t]
  OBVIOUS
<1>b. PICK w : w = [v EXCEPT !.pc = pc, !.acc = <<>>]
  OBVIOUS
<1>2. /\ v = [pc |-> v.pc, kind |-> v.kind, id |-> v.id, user |-> v.user, acc |-> v.acc,
              new |-> v.new]
      /\ v.kind \in Kinds /\ v.id \in Ids \cup {None} /\ (v.kind # "rotate" => v.id \in Ids)
      /\ v.user \in Users /\ v.user # None
      /\ v.acc \in [Users -> Passes] /\ v.new \in Passes
  BY <1>1, <1>a, RotationAssumption DEF Waiting
<1>3. w = [pc |-> pc, kind |-> v.kind, id |-> v.id, user |-> v.user, acc |-> <<>>, new |-> v.new]
  BY <1>2, <1>b, WaitingWith
<1>4. /\ w.pc = pc /\ w.kind = v.kind /\ w.id = v.id /\ w.user = v.user /\ w.acc = <<>>
      /\ w.new = v.new
  BY <1>3
<1>5. task' = [task EXCEPT ![t] = w]
  BY <1>a, <1>b, BusyWaits
<1>6. Waiting(w)
  BY <1>2, <1>3, <1>4 DEF Waiting
<1>7. panel' = [v.acc EXCEPT ![v.user] = v.new] /\ panel' \in [Users -> Passes]
  BY <1>a, <1>2
<1>8. \A s \in Tasks : Busy(s) /\ task[s].kind = "add" /\ s # t => task[s].id # w.id
  BY <1>1, <1>4, <1>a DEF RotationInv, NewIds
<1>9. ASSUME odd' = {}
      PROVE  OnCourse(w)' /\ w.pc = "store" /\ todo = <<>>
  <2>1. odd = {}
    BY <1>9
  <2>2. \A s \in Tasks : task[s].pc \notin {"store", "node"}
    BY <1>1, <2>1, BusyWaits DEF RotationInv, Together
  <2>3. OnCourse(task[t]) /\ todo = <<>>
    BY <1>1, <2>1 DEF RotationInv, Together
  <2>4. Good(list, conf, creds, panel)
    BY <2>1, <2>2, <2>3, RestGood DEF RotationInv
  <2>5. v.acc = panel /\ Aimed(v)
    BY <2>3, <1>a DEF OnCourse
  <2>6. /\ panel'[v.user] = v.new
        /\ [panel' EXCEPT ![v.user] = panel[v.user]] = panel /\ panel[v.user] \in Passes
    BY <1>2, <1>7, <2>5
  <2>7. Good(list, conf, creds, [panel' EXCEPT ![v.user] = panel[v.user]])
    BY <2>4, <2>6
  <2>8. Aimed(w)'
    BY <1>1, <1>4, <2>5 DEF Aimed, files
  <2>9. pc = "store"
    BY <1>9
  <2>10. creds' \in Cred /\ \E p \in Passes : Good(list', conf', creds', [panel' EXCEPT ![w.user] = p])
    BY <1>1, <1>4, <2>6, <2>7 DEF files, RotationInv, Types
  <2>11. w.new = panel'[w.user]
    BY <1>4, <2>6
  <2> QED
    BY <1>4, <2>3, <2>8, <2>9, <2>10, <2>11 DEF OnCourse
<1>10. odd' = {} => todo = <<>> /\ OnCourse(w)' /\ (w.pc \notin {"store", "node"} => Good(list, conf, creds, panel)')
  BY <1>9
<1>11. w.kind = task[t].kind /\ w.id = task[t].id
  BY <1>a, <1>4
<1> QED
  BY <1>1, <1>5, <1>6, <1>7, <1>8, <1>10, <1>11, ProceedInv

LEMMA PostedInv ==
  ASSUME RotationInv, NEW t \in Tasks, Posted(t)
  PROVE  RotationInv'
<1>1. /\ task[t].pc = "post"
      /\ panel' = [task[t].acc EXCEPT ![task[t].user] = task[t].new]
      /\ task' = [task EXCEPT ![t].pc = "store", ![t].acc = <<>>]
      /\ UNCHANGED <<files, goal, todo, config, ops>>
      /\ faults' = faults /\ odd' = odd
  BY DEF Posted, bounds
<1>2. faults' \in 0 .. MaxFaults /\ odd' \subseteq Causes
  BY <1>1 DEF RotationInv, Types
<1> QED
  BY <1>1, <1>2, PostedIs

LEMMA LostInv ==
  ASSUME RotationInv, NEW t \in Tasks, Lost(t)
  PROVE  RotationInv'
<1>1. /\ task[t].pc = "post" /\ faults < MaxFaults /\ faults' = faults + 1
      /\ panel' = [task[t].acc EXCEPT ![task[t].user] = task[t].new]
      /\ task' = [task EXCEPT ![t].pc = "lost", ![t].acc = <<>>]
      /\ UNCHANGED <<files, goal, todo, config, ops>>
      /\ odd' = odd \cup {"lost"}
  BY DEF Lost
<1>2. faults' \in 0 .. MaxFaults
  BY <1>1, RotationAssumption DEF RotationInv, Types
<1>3. odd' \subseteq Causes
  BY <1>1 DEF RotationInv, Types, Causes
<1>4. odd' # {} /\ odd \subseteq odd'
  BY <1>1
<1> QED
  BY <1>1, <1>2, <1>3, <1>4, PostedIs

\* A task that ends with an edit of a node.
LEMMA NodeStored ==
  ASSUME RotationInv, NEW t \in Tasks, Busy(t), todo = <<>>, End(t),
         UNCHANGED <<panel, files, config, ops>>,
         faults' \in 0 .. MaxFaults, odd' \subseteq Causes, odd \subseteq odd',
         NEW k \in DOMAIN list, NEW node \in Node, node.id = list[k].id, UpdateProxy(k, node),
         odd' = {} =>
           /\ IsPanel(node) => /\ IsPanel(list[k]) /\ list[k].user = node.user
                              /\ node.pass = panel[node.user]
           /\ \E p, cr :
                /\ Good(list, conf, cr, p)
                /\ \A u \in Users : panel[u] = p[u] \/ (IsPanel(list[k]) /\ list[k].user = u)
                /\ node.active \/ cr = creds
  PROVE  RotationInv'
<1>1. Types /\ Nodes(list) /\ UNCHANGED files
  BY DEF RotationInv, Types
<1>2. /\ Pending' /\ goal'.list = Updated(list, k, node)
      /\ ListNext' = Updated(list, k, node)
      /\ ConfNext' = IF node.active THEN node.host ELSE conf
      /\ CredsNext' = IF node.active THEN CredsOf(node) ELSE creds
  BY <1>1, UpdateProxyIs
<1>3. /\ DOMAIN Updated(list, k, node) = DOMAIN list
      /\ \A j \in DOMAIN list : Updated(list, k, node)[j].id = list[j].id
  BY <1>1, UpdatedIs DEF Alike
<1>4. \A j \in DOMAIN goal'.list : \E i \in DOMAIN list : list[i].id = goal'.list[j].id
  BY <1>2, <1>3
<1>5. ASSUME odd' = {}
      PROVE  Good(ListNext', ConfNext', CredsNext', panel)
  <2>1. PICK p, cr :
          /\ Good(list, conf, cr, p)
          /\ \A u \in Users : panel[u] = p[u] \/ (IsPanel(list[k]) /\ list[k].user = u)
          /\ node.active \/ cr = creds
    BY <1>5
  <2>2. Good(Updated(list, k, node), IF node.active THEN node.host ELSE conf,
             IF node.active THEN CredsOf(node) ELSE cr, panel)
    BY <1>1, <1>5, <2>1, UpdatedGood
  <2>3. CredsNext' = IF node.active THEN CredsOf(node) ELSE cr
    BY <1>2, <2>1
  <2> QED
    BY <1>2, <2>2, <2>3
<1>6. task' = [task EXCEPT ![t] = Free]
  BY DEF End
<1> QED
  BY <1>2, <1>4, <1>5, <1>6, EndInv

\* A task that ends and writes nothing.
LEMMA NothingStored ==
  ASSUME RotationInv, NEW t \in Tasks, Busy(t), todo = <<>>, End(t), NoWrites,
         UNCHANGED <<panel, files, config, ops>>,
         faults' \in 0 .. MaxFaults, odd' \subseteq Causes, odd \subseteq odd',
         odd' = {} => Good(list, conf, creds, panel)
  PROVE  RotationInv'
<1>1. /\ goal' = goal /\ todo' = <<>> /\ list' = list /\ conf' = conf /\ creds' = creds
      /\ task' = [task EXCEPT ![t] = Free]
  BY DEF NoWrites, files, End
<1>2. Pending'
  BY <1>1 DEF RotationInv, Types, Pending
<1>3. ListNext' = list /\ ConfNext' = conf /\ CredsNext' = creds
  BY <1>1 DEF ListNext, ConfNext, CredsNext, Left, Range
<1>4. odd' = {} => Good(ListNext', ConfNext', CredsNext', panel)
  BY <1>3
<1> QED
  BY <1>1, <1>2, <1>4, EndInv

\* What is known of a task that has its answer.
LEMMA StoringIs ==
  ASSUME RotationInv, NEW t \in Tasks, task[t].pc \in {"store", "node"}
  PROVE  /\ Busy(t) /\ Waiting(task[t]) /\ task[t].kind \in Kinds
         /\ task[t].id \in Ids \cup {None} /\ (task[t].kind # "rotate" => task[t].id \in Ids)
         /\ task[t].user \in Users /\ task[t].user # None /\ task[t].new \in Passes
         /\ odd = {} =>
              /\ Aimed(task[t]) /\ task[t].new = panel[task[t].user]
              /\ \E p, cr : /\ Good(list, conf, cr, p)
                            /\ \A u \in Users : u # task[t].user => panel[u] = p[u]
                            /\ task[t].pc = "store" => cr = creds
<1>1. Busy(t) /\ Waiting(task[t])
  BY BusyWaits
<1>2. /\ task[t].kind \in Kinds
      /\ task[t].id \in Ids \cup {None} /\ (task[t].kind # "rotate" => task[t].id \in Ids)
      /\ task[t].user \in Users /\ task[t].user # None /\ task[t].new \in Passes
  BY <1>1, RotationAssumption DEF Waiting
<1>3. ASSUME odd = {}
      PROVE  /\ Aimed(task[t]) /\ task[t].new = panel[task[t].user]
             /\ \E p, cr : /\ Good(list, conf, cr, p)
                           /\ \A u \in Users : u # task[t].user => panel[u] = p[u]
                           /\ task[t].pc = "store" => cr = creds
  <2>1. OnCourse(task[t])
    BY <1>1, <1>3 DEF RotationInv, Together
  <2>2. PICK q \in Passes, cr \in Cred :
          /\ Good(list, conf, cr, [panel EXCEPT ![task[t].user] = q])
          /\ task[t].pc = "store" => cr = creds
    BY <2>1 DEF OnCourse
  <2>3. \A u \in Users : u # task[t].user =>
          panel[u] = [panel EXCEPT ![task[t].user] = q][u]
    BY DEF RotationInv, Types
  <2>4. Aimed(task[t]) /\ task[t].new = panel[task[t].user]
    BY <2>1 DEF OnCourse
  <2> QED
    BY <2>2, <2>3, <2>4
<1> QED
  BY <1>1, <1>2, <1>3

\* The node a rotation or a sync began with is still the only one with its id.
LEMMA AimedAt ==
  ASSUME RotationInv, NEW t \in Tasks, Aimed(task[t]), task[t].kind # "add"
  PROVE  \E k \in DOMAIN list :
           /\ IndexOf(task[t].id) = {k} /\ list[k].user = task[t].user /\ IsPanel(list[k])
           /\ task[t].kind = "rotate" => list[k].active
           /\ task[t].id \in Ids
<1>1. PICK k \in DOMAIN list :
        /\ list[k].id = task[t].id /\ list[k].user = task[t].user /\ IsPanel(list[k])
        /\ task[t].kind = "rotate" => list[k].active
  BY DEF Aimed
<1>2. Nodes(list)
  BY DEF RotationInv, Types
<1>3. \A j \in DOMAIN list : list[j].id = list[k].id => j = k
  BY <1>2 DEF Nodes
<1>4. IndexOf(task[t].id) = {k}
  BY <1>1, <1>3 DEF IndexOf
<1>5. list[k].id \in Ids
  BY <1>2, NodesIs, NodeIs
<1> QED
  BY <1>1, <1>4, <1>5

\* A rotation that has its answer writes its file, and has its node still to bring along.
LEMMA StoreRotatedInv ==
  ASSUME RotationInv, NEW t \in Tasks, todo = <<>>, task[t].pc = "store",
         task[t].kind = "rotate", StoreRotated(t),
         UNCHANGED <<panel, files, config, ops, faults, odd>>
  PROVE  RotationInv'
<1>a. PICK cr : cr = [user |-> task[t].user, pass |-> task[t].new]
  OBVIOUS
<1>b. PICK v : v = task[t]
  OBVIOUS
<1>c. PICK w : w = [v EXCEPT !.pc = "node"]
  OBVIOUS
<1>1. /\ panel' = panel /\ list' = list /\ conf' = conf /\ creds' = creds /\ odd' = odd
      /\ schedule' = schedule /\ registered' = registered /\ ops' = ops /\ faults' = faults
  BY DEF files, config
<1>2. /\ Waiting(v) /\ Busy(t) /\ v.pc = "store" /\ v.kind = "rotate" /\ v.user \in Users
      /\ v.new \in Passes
      /\ v = [pc |-> v.pc, kind |-> v.kind, id |-> v.id, user |-> v.user, acc |-> v.acc,
              new |-> v.new]
  BY <1>b, StoringIs DEF Waiting
<1>3. w = [pc |-> "node", kind |-> v.kind, id |-> v.id, user |-> v.user, acc |-> v.acc,
           new |-> v.new]
  BY <1>2, <1>c, WaitingWith
<1>4. /\ w.pc = "node" /\ w.kind = v.kind /\ w.id = v.id /\ w.user = v.user /\ w.acc = v.acc
      /\ w.new = v.new
  BY <1>3
<1>5. Waiting(w)
  BY <1>2, <1>3, <1>4 DEF Waiting
<1>6. Writes(list, conf, cr, <<"creds">>) /\ task' = [task EXCEPT ![t] = w]
  BY <1>a, <1>b, <1>c, BusyWaits DEF StoreRotated
<1>7. cr \in Cred /\ Types
  BY <1>a, StoringIs DEF Cred, RotationInv
<1>8. Pending' /\ goal'.list = list /\ todo' = <<"creds">>
  BY <1>1, <1>6, <1>7, FileOnly DEF files
<1>9. /\ DOMAIN task' = Tasks /\ task'[t] = w
      /\ \A s \in Tasks : s # t => task'[s] = task[s]
  BY <1>6, BusyWaits
<1>10. Types'
  BY <1>1, <1>5, <1>8, <1>9, BusyWaits DEF RotationInv, Types, Waiting, Pending
<1>11. \A s \in Tasks : /\ Busy(s)' <=> Busy(s)
                        /\ Busy(s) => task'[s].id = task[s].id /\ task'[s].kind = task[s].kind
  BY <1>2, <1>4, <1>9, <1>b DEF Busy
<1>12. NewIds'
  <2>1. \A s \in Tasks : Busy(s) /\ task[s].kind = "add" =>
          /\ \A k \in DOMAIN list : list[k].id # task[s].id
          /\ \A r \in Tasks : Busy(r) /\ r # s => task[r].id # task[s].id
    BY DEF RotationInv, NewIds
  <2> QED
    BY <1>1, <1>8, <1>11, <2>1 DEF NewIds
<1>13. ASSUME odd = {}
       PROVE  OnCourse(w)'
  <2>1. OnCourse(v)
    BY <1>b, <1>2, <1>13 DEF RotationInv, Together
  <2>2. Aimed(w)'
    BY <1>1, <1>2, <1>4, <2>1 DEF OnCourse, Aimed
  <2> QED
    BY <1>1, <1>2, <1>4, <2>1, <2>2 DEF OnCourse
<1>14. Range(todo') = {"creds"}
  BY <1>8, OneFile DEF Files
<1>15. Together'
  <2> SUFFICES ASSUME odd' = {}
               PROVE  /\ \A r, s \in Tasks : Busy(r)' /\ Busy(s)' => r = s
                      /\ \A s \in Tasks : Busy(s)' => s = t
                      /\ task'[t].pc = "node" /\ OnCourse(task[t])'
    BY <1>14 DEF Together
  <2>1. odd = {}
    BY <1>1
  <2>2. \A r, s \in Tasks : Busy(r) /\ Busy(s) => r = s
    BY <2>1 DEF RotationInv, Together
  <2>3. OnCourse(task[t])'
    BY <1>9, <1>13, <2>1 DEF OnCourse, Aimed
  <2>4. \A s \in Tasks : Busy(s)' => s = t
    BY <1>2, <1>11, <2>2
  <2>5. task'[t].pc = "node"
    BY <1>4, <1>9
  <2> QED
    BY <2>3, <2>4, <2>5
<1> QED
  BY <1>10, <1>12, <1>15 DEF RotationInv

LEMMA StoreNodeInv ==
  ASSUME RotationInv, NEW t \in Tasks, StoreNode(t)
  PROVE  RotationInv'
<1> DEFINE id == IF task[t].id # None THEN task[t].id
                 ELSE IF IsPanel(Active) THEN Active.id ELSE None
<1>1. /\ todo = <<>> /\ task[t].pc = "node" /\ End(t)
      /\ UNCHANGED <<panel, files, config, ops>> /\ odd' = odd /\ faults' = faults
      /\ IndexOf(id) = {} => NoWrites
      /\ IndexOf(id) # {} =>
           \E k \in IndexOf(id) : UpdateProxy(k, Rotated(list[k], task[t].new))
  BY DEF StoreNode, bounds
<1>2. Nodes(list) /\ faults' \in 0 .. MaxFaults /\ odd' \subseteq Causes
  BY <1>1 DEF RotationInv, Types
<1>3. task[t].kind = "rotate"
  BY <1>1, BusyWaits DEF Waiting
<1>4. ASSUME odd = {}
      PROVE  \E k \in DOMAIN list :
               /\ IndexOf(id) = {k} /\ list[k].user = task[t].user /\ IsPanel(list[k])
               /\ list[k].active
  <2>1. PICK k \in DOMAIN list :
          /\ IndexOf(task[t].id) = {k} /\ list[k].user = task[t].user /\ IsPanel(list[k])
          /\ list[k].active /\ task[t].id \in Ids
    BY <1>1, <1>3, <1>4, StoringIs, AimedAt
  <2>2. id = task[t].id
    BY <2>1, RotationAssumption
  <2> HIDE DEF id
  <2> QED
    BY <2>1, <2>2
<1> HIDE DEF id
<1>5. CASE IndexOf(id) = {}
  <2>1. odd' # {}
    BY <1>1, <1>4, <1>5
  <2> QED
    BY <1>1, <1>2, <1>5, <2>1, StoringIs, NothingStored
<1>6. CASE IndexOf(id) # {}
  <2>1. PICK k \in IndexOf(id) : UpdateProxy(k, Rotated(list[k], task[t].new))
    BY <1>1, <1>6
  <2>a. PICK node : node = Rotated(list[k], task[t].new)
    OBVIOUS
  <2>2. k \in DOMAIN list /\ list[k] \in Node
    BY <1>2, NodesIs DEF IndexOf
  <2>3. /\ node \in Node /\ node.id = list[k].id /\ node.xui = list[k].xui
        /\ node.user = list[k].user /\ node.pass = task[t].new
        /\ node.active = list[k].active
    <3>1. PICK n : n = list[k]
      OBVIOUS
    <3>2. PICK q : q = task[t].new
      OBVIOUS
    <3>3. n \in Node /\ q \in Passes
      BY <1>1, <2>2, <3>1, <3>2, StoringIs
    <3>4. node = [n EXCEPT !.pass = q]
      BY <2>a, <3>1, <3>2 DEF Rotated
    <3> QED
      BY <3>1, <3>2, <3>3, <3>4, NodeEdit
  <2>4. ASSUME odd' = {}
        PROVE  /\ IsPanel(node) => /\ IsPanel(list[k]) /\ list[k].user = node.user
                                  /\ node.pass = panel[node.user]
               /\ \E p, cr :
                    /\ Good(list, conf, cr, p)
                    /\ \A u \in Users : panel[u] = p[u] \/ (IsPanel(list[k]) /\ list[k].user = u)
                    /\ node.active \/ cr = creds
    <3>1. list[k].user = task[t].user /\ IsPanel(list[k]) /\ list[k].active
      BY <1>1, <1>4, <2>4
    <3>2. task[t].new = panel[task[t].user]
      BY <1>1, <2>4, StoringIs
    <3>3. PICK p, cr : /\ Good(list, conf, cr, p)
                       /\ \A u \in Users : u # task[t].user => panel[u] = p[u]
      BY <1>1, <2>4, StoringIs
    <3>4. \A u \in Users : panel[u] = p[u] \/ (IsPanel(list[k]) /\ list[k].user = u)
      BY <3>1, <3>3
    <3> QED
      BY <2>3, <3>1, <3>2, <3>3, <3>4
  <2>5. UpdateProxy(k, node)
    BY <2>1, <2>a
  <2>6. Busy(t) /\ odd \subseteq odd'
    BY <1>1, StoringIs
  <2> QED
    BY <1>1, <1>2, <2>2, <2>3, <2>4, <2>5, <2>6, NodeStored
<1> QED
  BY <1>5, <1>6

LEMMA StoreSyncedInv ==
  ASSUME RotationInv, NEW t \in Tasks, todo = <<>>, task[t].pc = "store",
         task[t].kind \in {"sync", "fetch"}, StoreSynced(t),
         UNCHANGED <<panel, files, config, ops, faults, odd>>
  PROVE  RotationInv'
<1>1. /\ IndexOf(task[t].id) = {} => NoWrites
      /\ IndexOf(task[t].id) # {} => \E k \in IndexOf(task[t].id) :
           UpdateProxy(k, [list[k] EXCEPT !.pass = task[t].new, !.user = task[t].user])
      /\ End(t)
  BY DEF StoreSynced
<1>2. Nodes(list) /\ faults' \in 0 .. MaxFaults /\ odd' \subseteq Causes /\ odd' = odd
  BY DEF RotationInv, Types
<1>3. ASSUME odd = {}
      PROVE  \E k \in DOMAIN list :
               /\ IndexOf(task[t].id) = {k} /\ list[k].user = task[t].user /\ IsPanel(list[k])
  BY <1>3, StoringIs, AimedAt
<1>4. CASE IndexOf(task[t].id) = {}
  <2>1. odd' # {}
    BY <1>2, <1>3, <1>4
  <2> QED
    BY <1>1, <1>2, <1>4, <2>1, StoringIs, NothingStored
<1>5. CASE IndexOf(task[t].id) # {}
  <2>1. PICK k \in IndexOf(task[t].id) :
          UpdateProxy(k, [list[k] EXCEPT !.pass = task[t].new, !.user = task[t].user])
    BY <1>1, <1>5
  <2>a. PICK node : node = [list[k] EXCEPT !.pass = task[t].new, !.user = task[t].user]
    OBVIOUS
  <2>2. k \in DOMAIN list /\ list[k] \in Node
    BY <1>2, NodesIs DEF IndexOf
  <2>3. /\ node \in Node /\ node.id = list[k].id /\ node.xui = list[k].xui
        /\ node.user = task[t].user /\ node.pass = task[t].new
    <3>1. PICK n : n = list[k]
      OBVIOUS
    <3>2. PICK q : q = task[t].new
      OBVIOUS
    <3>3. PICK u : u = task[t].user
      OBVIOUS
    <3>4. n \in Node /\ q \in Passes /\ u \in Users \cup {None}
      BY <2>2, <3>1, <3>2, <3>3, StoringIs
    <3>5. node = [n EXCEPT !.pass = q, !.user = u]
      BY <2>a, <3>1, <3>2, <3>3
    <3>6. node = [id |-> n.id, xui |-> n.xui, user |-> u, pass |-> q, host |-> n.host,
                  active |-> n.active]
      BY <3>4, <3>5, NodeSynced
    <3>7. node \in Node /\ node.id = n.id /\ node.xui = n.xui /\ node.user = u /\ node.pass = q
      BY <3>4, <3>6, NodeIs, NodeMade
    <3> QED
      BY <3>1, <3>2, <3>3, <3>7
  <2>4. ASSUME odd' = {}
        PROVE  /\ IsPanel(node) => /\ IsPanel(list[k]) /\ list[k].user = node.user
                                  /\ node.pass = panel[node.user]
               /\ \E p, cr :
                    /\ Good(list, conf, cr, p)
                    /\ \A u \in Users : panel[u] = p[u] \/ (IsPanel(list[k]) /\ list[k].user = u)
                    /\ node.active \/ cr = creds
    <3>1. list[k].user = task[t].user /\ IsPanel(list[k])
      BY <1>2, <1>3, <2>4
    <3>2. task[t].new = panel[task[t].user]
      BY <1>2, <2>4, StoringIs
    <3>3. PICK p, cr : /\ Good(list, conf, cr, p) /\ cr = creds
                       /\ \A u \in Users : u # task[t].user => panel[u] = p[u]
      BY <1>2, <2>4, StoringIs
    <3>4. \A u \in Users : panel[u] = p[u] \/ (IsPanel(list[k]) /\ list[k].user = u)
      BY <3>1, <3>3
    <3> QED
      BY <2>3, <3>1, <3>2, <3>3, <3>4
  <2>5. UpdateProxy(k, node)
    BY <2>1, <2>a
  <2>6. Busy(t) /\ odd \subseteq odd'
    BY <1>2, StoringIs
  <2> QED
    BY <1>1, <1>2, <2>2, <2>3, <2>4, <2>5, <2>6, NodeStored
<1> QED
  BY <1>4, <1>5

LEMMA StoreAddedInv ==
  ASSUME RotationInv, NEW t \in Tasks, todo = <<>>, task[t].pc = "store",
         task[t].kind = "add", StoreAdded(t),
         UNCHANGED <<panel, files, config, ops, faults, odd>>
  PROVE  RotationInv'
<1>1. PICK host \in Hosts, on \in BOOLEAN :
        CreateProxy([id |-> task[t].id, xui |-> TRUE, user |-> task[t].user,
                     pass |-> task[t].new, host |-> host, active |-> on])
  BY DEF StoreAdded
<1>a. PICK node : node = [id |-> task[t].id, xui |-> TRUE, user |-> task[t].user,
                          pass |-> task[t].new, host |-> host, active |-> on]
  OBVIOUS
<1>2. /\ node \in Node /\ node.id = task[t].id /\ node.user = task[t].user
      /\ node.pass = task[t].new
  BY <1>a, StoringIs, NodeMade
<1>3. Types /\ Nodes(list) /\ UNCHANGED files /\ CreateProxy(node) /\ End(t)
  BY <1>1, <1>a DEF RotationInv, Types, StoreAdded
<1>4. faults' \in 0 .. MaxFaults /\ odd' \subseteq Causes /\ odd' = odd
  BY DEF RotationInv, Types
<1>5. \A k \in DOMAIN list : list[k].id # node.id
  BY <1>2, StoringIs DEF RotationInv, NewIds
<1>6. PICK new \in Node :
        /\ new.id = node.id /\ new.xui = node.xui /\ new.user = node.user
        /\ new.pass = node.pass
        /\ Pending' /\ goal'.list = Added(list, new)
        /\ ListNext' = Added(list, new)
        /\ ConfNext' = IF new.active THEN new.host ELSE conf
        /\ CredsNext' = IF new.active THEN CredsOf(new) ELSE creds
  BY <1>2, <1>3, <1>5, CreateProxyIs
<1>7. /\ DOMAIN Added(list, new) = 1 .. Len(list) + 1
      /\ Added(list, new)[Len(list) + 1].id = task[t].id
      /\ \A j \in DOMAIN list : Added(list, new)[j].id = list[j].id
  BY <1>2, <1>3, <1>5, <1>6, AddedIs DEF Alike
<1>8. \A j \in DOMAIN Added(list, new) : j \in DOMAIN list \/ j = Len(list) + 1
  BY <1>3, <1>7, NodesIs
<1>9. \A k \in DOMAIN goal'.list :
        \/ \E j \in DOMAIN list : list[j].id = goal'.list[k].id
        \/ goal'.list[k].id = task[t].id
  BY <1>6, <1>7, <1>8
<1>10. ASSUME odd' = {}
       PROVE  Good(ListNext', ConfNext', CredsNext', panel)
  <2>1. odd = {}
    BY <1>4, <1>10
  <2>2. \A k \in DOMAIN list : IsPanel(list[k]) => list[k].user # task[t].user
    BY <2>1, StoringIs DEF Aimed
  <2>3. PICK p : /\ Good(list, conf, creds, p)
                 /\ \A u \in Users : u # task[t].user => panel[u] = p[u]
    BY <2>1, StoringIs
  <2>4. Good(list, conf, creds, panel)
    BY <2>2, <2>3 DEF Good
  <2>5. IsPanel(new) => /\ new.user \in Users /\ new.pass = panel[new.user]
                        /\ \A k \in DOMAIN list : IsPanel(list[k]) => list[k].user # new.user
    BY <1>2, <1>6, <2>1, <2>2, StoringIs
  <2>6. Good(Added(list, new), IF new.active THEN new.host ELSE conf,
             IF new.active THEN CredsOf(new) ELSE creds, panel)
    BY <1>2, <1>3, <1>5, <1>6, <2>4, <2>5, AddedGood
  <2> QED
    BY <1>6, <2>6
<1>11. Busy(t) /\ task' = [task EXCEPT ![t] = Free]
  BY <1>3, StoringIs DEF End
<1> QED
  BY <1>4, <1>6, <1>9, <1>10, <1>11, EndInv

LEMMA StoredInv ==
  ASSUME RotationInv, NEW t \in Tasks, Stored(t)
  PROVE  RotationInv'
<1>1. /\ todo = <<>> /\ task[t].pc = "store"
      /\ UNCHANGED <<panel, files, config, ops, faults, odd>>
  BY DEF Stored, bounds
<1>2. task[t].kind \in Kinds
  BY <1>1, StoringIs
<1>3. CASE task[t].kind = "rotate"
  BY <1>1, <1>3, StoreRotatedInv DEF Stored
<1>4. CASE task[t].kind \in {"sync", "fetch"}
  <2>1. StoreSynced(t)
    BY <1>4 DEF Stored
  <2> QED
    BY <1>1, <1>4, <2>1, StoreSyncedInv
<1>5. CASE task[t].kind = "add"
  <2>1. StoreAdded(t)
    BY <1>5 DEF Stored
  <2> QED
    BY <1>1, <1>5, <2>1, StoreAddedInv
<1> QED
  BY <1>2, <1>3, <1>4, <1>5 DEF Kinds

\* A task that fails leaves the files good: without an answer nothing has moved.
LEMMA FailInv ==
  ASSUME RotationInv, NEW t \in Tasks, Fail(t)
  PROVE  RotationInv'
<1>1. /\ todo = <<>> /\ task[t].pc \in {"list", "refused", "post", "lost"}
      /\ task[t].pc \notin {"refused", "lost"} => faults < MaxFaults
      /\ faults' = IF task[t].pc \in {"refused", "lost"} THEN faults ELSE faults + 1
      /\ GiveUp(t) /\ End(t) /\ odd' = odd
      /\ UNCHANGED <<panel, files, config, ops>>
  BY DEF Fail
<1>2. Busy(t) /\ Nodes(list)
  BY <1>1, BusyWaits DEF RotationInv, Types
<1>3. faults' \in 0 .. MaxFaults /\ odd' \subseteq Causes /\ odd \subseteq odd'
  BY <1>1, RotationAssumption DEF RotationInv, Types
<1>4. odd' = {} => Good(list, conf, creds, panel)
  <2>1. SUFFICES ASSUME odd = {}
                 PROVE  Good(list, conf, creds, panel)
    BY <1>1
  <2>2. \A s \in Tasks : task[s].pc \notin {"store", "node"}
    BY <1>1, <1>2, <2>1, BusyWaits DEF RotationInv, Together
  <2> QED
    BY <1>1, <2>1, <2>2, RestGood DEF RotationInv
<1>5. CASE NoWrites
  BY <1>1, <1>2, <1>3, <1>4, <1>5, NothingStored
<1>6. CASE \E k \in IndexOf(task[t].id) : UpdateProxy(k, list[k])
  <2>1. PICK k \in IndexOf(task[t].id) : UpdateProxy(k, list[k])
    BY <1>6
  <2>a. PICK node : node = list[k]
    OBVIOUS
  <2>2. k \in DOMAIN list /\ node \in Node
    BY <1>2, <2>a, NodesIs DEF IndexOf
  <2>3. ASSUME odd' = {}
        PROVE  /\ IsPanel(node) => /\ IsPanel(list[k]) /\ list[k].user = node.user
                                  /\ node.pass = panel[node.user]
               /\ \E p, cr :
                    /\ Good(list, conf, cr, p)
                    /\ \A u \in Users : panel[u] = p[u] \/ (IsPanel(list[k]) /\ list[k].user = u)
                    /\ node.active \/ cr = creds
    <3>1. Good(list, conf, creds, panel)
      BY <1>4, <2>3
    <3>2. IsPanel(node) => node.pass = panel[node.user]
      BY <2>a, <2>2, <3>1 DEF Good
    <3> QED
      BY <2>a, <3>1, <3>2
  <2>4. UpdateProxy(k, node) /\ node.id = list[k].id
    BY <2>1, <2>a
  <2> QED
    BY <1>1, <1>2, <1>3, <2>2, <2>3, <2>4, NodeStored
<1> QED
  BY <1>1, <1>5, <1>6 DEF GiveUp

\* The default node is a list by itself; it is no account's.
LEMMA DefaultNode ==
  ASSUME NEW i \in Ids, NEW u \in Users \cup {None}, NEW q \in Passes, NEW h \in Hosts,
         NEW b \in BOOLEAN
  PROVE  LET node == [id |-> i, xui |-> FALSE, user |-> u, pass |-> q, host |-> h, active |-> b]
         IN /\ Nodes(<<node>>)
            /\ \A cf, cr, p : Good(<<node>>, cf, cr, p)
<1>a. PICK node : node = [id |-> i, xui |-> FALSE, user |-> u, pass |-> q, host |-> h,
                          active |-> b]
  OBVIOUS
<1>1. node \in Node /\ ~IsPanel(node)
  BY <1>a, NodeMade DEF IsPanel
<1>2. DOMAIN <<node>> = {1} /\ <<node>>[1] = node /\ <<node>> \in Seq(Node)
  BY <1>1
<1>b. PICK l : l = <<node>>
  OBVIOUS
<1>3. DOMAIN l = {1} /\ l[1] = node /\ l \in Seq(Node)
  BY <1>b, <1>2
<1>4. Nodes(l)
  BY <1>3 DEF Nodes
<1>5. \A cf, cr, p : Good(l, cf, cr, p)
  BY <1>1, <1>3 DEF Good
<1> QED
  BY <1>a, <1>b, <1>4, <1>5

\* A crash that leaves nothing half done leaves the files good.
LEMMA CrashInv ==
  ASSUME RotationInv, Crash
  PROVE  RotationInv'
<1>1. /\ faults < MaxFaults /\ faults' = faults + 1
      /\ odd' = IF todo # <<>> \/ \E t \in Tasks : task[t].pc \in {"store", "node", "lost"}
                THEN odd \cup {"crash"} ELSE odd
      /\ task' = [t \in Tasks |-> Free]
      /\ panel' = panel /\ list' = list /\ conf' = conf /\ creds' = creds
      /\ UNCHANGED config /\ ops' = ops
  BY DEF Crash, files
<1>2. faults' \in 0 .. MaxFaults /\ odd' \subseteq Causes
  BY <1>1, RotationAssumption DEF RotationInv, Types, Causes
<1>3. /\ DOMAIN task' = Tasks
      /\ \A t \in Tasks : task'[t] = Free /\ ~Busy(t)'
  BY <1>1 DEF Busy, Free
<1>4. ASSUME odd' = {}
      PROVE  todo = <<>> /\ Good(list, conf, creds, panel)
  <2>1. /\ odd = {} /\ todo = <<>>
        /\ \A t \in Tasks : task[t].pc \notin {"store", "node", "lost"}
    BY <1>1, <1>4
  <2> QED
    BY <2>1, RestGood DEF RotationInv
<1>5. Pending' /\ (odd' = {} => Good(ListNext, ConfNext, CredsNext, panel)')
  <2>1. CASE list = <<>>
    <3>a. PICK i : i = CHOOSE j \in Ids : TRUE
      OBVIOUS
    <3>e. PICK b \in BOOLEAN : b = (conf # Placeholder)
      OBVIOUS
    <3>b. PICK node : node = [id |-> i, xui |-> FALSE, user |-> creds.user, pass |-> creds.pass,
                              host |-> conf, active |-> b]
      OBVIOUS
    <3>c. PICK l : l = <<node>>
      OBVIOUS
    <3>d. PICK o : o = <<"list", "conf", "creds">>
      OBVIOUS
    <3>1. Writes(l, conf, creds, o)
      BY <2>1, <3>a, <3>b, <3>c, <3>d, <3>e DEF Crash
    <3>2. /\ creds \in Cred /\ creds.user \in Users \cup {None} /\ creds.pass \in Passes
          /\ conf \in Hosts /\ UNCHANGED files
      BY <1>1 DEF RotationInv, Types, Cred, files
    <3>i. i \in Ids
      <4>1. Ids # {}
        <5>1. Cardinality(Users) <= Cardinality(Ids) /\ FirstUser \in Users /\ IsFiniteSet(Users)
          BY RotationAssumption
        <5>2. Cardinality(Users) \in Nat /\ Cardinality(Users) # 0
          BY <5>1, FS_CardinalityType, FS_EmptySet
        <5> QED
          BY <5>1, <5>2, FS_EmptySet
      <4> QED
        BY <4>1, <3>a
    <3>3. Nodes(l) /\ \A cf, cr, p : Good(l, cf, cr, p)
      BY <3>i, <3>2, <3>b, <3>c, DefaultNode
    <3>4. o \in Seq(Files) /\ Len(o) <= 3 /\ "list" \in Range(o)
      <4>1. DOMAIN o = {1, 2, 3} /\ o[1] = "list"
        BY <3>d
      <4>2. o \in Seq(Files) /\ Len(o) <= 3
        BY <3>d DEF Files
      <4> QED
        BY <4>1, <4>2 DEF Range
    <3>5. Pending' /\ ListNext' = l
      BY <3>1, <3>2, <3>3, <3>4, WritesIs
    <3> QED
      BY <3>3, <3>5
  <2>2. CASE list # <<>>
    <3>1. todo' = <<>> /\ goal' = None
      BY <2>2 DEF Crash
    <3>2. Pending'
      BY <3>1 DEF Pending
    <3>3. ListNext' = list /\ ConfNext' = conf /\ CredsNext' = creds
      BY <1>1, <3>1 DEF ListNext, ConfNext, CredsNext, Left, Range
    <3> QED
      BY <1>1, <1>4, <3>2, <3>3
  <2> QED
    BY <2>1, <2>2
<1>6. Types'
  BY <1>1, <1>2, <1>3, <1>5 DEF RotationInv, Types, Pending, config
<1>7. NewIds'
  BY <1>3 DEF NewIds
<1>8. Together'
  BY <1>3, <1>5, TogetherAlone
<1> QED
  BY <1>6, <1>7, <1>8 DEF RotationInv

------------------------------------------------------------------------------
(* The theorems.                                                                *)

LEMMA NextInv == RotationInv /\ [Next]_vars => RotationInv'
<1> SUFFICES ASSUME RotationInv, [Next]_vars
             PROVE  RotationInv'
  OBVIOUS
<1>1. CASE Write
  BY <1>1, WriteInv
<1>2. CASE Operator
  BY <1>2, OperatorInv
<1>3. CASE Crash
  BY <1>3, CrashInv
<1>4. ASSUME NEW t \in Tasks,
             \/ StartRotation(t) \/ Aim(t) \/ Listed(t) \/ Posted(t) \/ Lost(t) \/ Stored(t)
             \/ StoreNode(t) \/ Fail(t)
      PROVE  RotationInv'
  BY <1>4, StartRotationInv, AimInv, ListedInv, PostedInv, LostInv, StoredInv, StoreNodeInv,
     FailInv
<1>5. ASSUME NEW t \in Tasks, NEW k \in DOMAIN list, NEW kind \in {"sync", "fetch"},
             StartSync(t, k, kind)
      PROVE  RotationInv'
  BY <1>5, StartSyncInv
<1>6. ASSUME NEW t \in Tasks, NEW id \in Ids, StartAdd(t, id)
      PROVE  RotationInv'
  BY <1>6, StartAddInv
<1>7. CASE UNCHANGED vars
  <2>1. /\ panel' = panel /\ list' = list /\ conf' = conf /\ creds' = creds /\ goal' = goal
        /\ todo' = todo /\ task' = task /\ schedule' = schedule
        /\ registered' = registered /\ ops' = ops /\ faults' = faults /\ odd' = odd
    BY <1>7 DEF vars, files, memory, config, bounds
  <2>2. Types'
    BY <2>1 DEF RotationInv, Types, Waiting
  <2>3. NewIds'
    BY <2>1 DEF RotationInv, NewIds, Busy
  <2>4. Together'
    BY <2>1 DEF RotationInv, Together, Busy, OnCourse, Aimed, Good, ListNext, ConfNext,
                CredsNext, Left
  <2> QED
    BY <2>2, <2>3, <2>4 DEF RotationInv
<1> QED
  BY <1>1, <1>2, <1>3, <1>4, <1>5, <1>6, <1>7 DEF Next

\* The inductive invariant: the server's files and tasks are well formed, the id of a
\* proxy being created is its own, and until one of the named things happens the nodes,
\* the two files and the panel agree or will when the handler's writes are done
\* (scheduler.ts, rotate.ts, proxies.ts).
THEOREM Invariant == Spec => []RotationInv
<1>1. Init => RotationInv
  BY InitInv
<1>2. RotationInv /\ [Next]_vars => RotationInv'
  BY NextInv
<1> QED
  BY <1>1, <1>2, PTL DEF Spec

\* What the invariant says of the types.
LEMMA TypeHolds == RotationInv => TypeOK
<1> SUFFICES ASSUME RotationInv
             PROVE  TypeOK
  OBVIOUS
<1>1. Nodes(list) /\ Types
  BY DEF RotationInv, Types
<1>2. Cardinality({k \in DOMAIN list : list[k].active}) <= 1
  <2> DEFINE on == {k \in DOMAIN list : list[k].active}
  <2>1. CASE on = {}
    BY <2>1, FS_EmptySet
  <2>2. CASE on # {}
    <3>1. PICK k \in DOMAIN list : list[k].active
      BY <2>2
    <3>2. on = {k}
      BY <1>1, <3>1 DEF Nodes
    <3> QED
      BY <3>2, FS_Singleton
  <2> QED
    BY <2>1, <2>2
<1>4. /\ \A k \in DOMAIN list : list[k] \in Node
      /\ \A j, k \in DOMAIN list : list[j].id = list[k].id => j = k
  BY <1>1, NodesIs DEF Nodes
<1>5. Range(todo) \subseteq {"list", "conf", "creds"}
  <2>1. todo \in Seq(Files)
    BY <1>1 DEF Types
  <2>2. \A k \in DOMAIN todo : todo[k] \in Files
    BY <2>1
  <2> QED
    BY <2>2 DEF Range, Files
<1>6. \A t \in Tasks : task[t].pc \in {"free", "aim", "list", "refused", "post", "store", "node", "lost"}
  <2>1. \A t \in Tasks : Waiting(task[t]) =>
          task[t].pc \in {"aim", "list", "refused", "post", "store", "node", "lost"}
    BY DEF Waiting
  <2> QED
    BY <1>1, <2>1 DEF Types, Free
<1> QED
  BY <1>1, <1>2, <1>4, <1>5, <1>6 DEF TypeOK, Types

\* The active panel node is the one the fleet is given, with the panel's password.
LEMMA GoodAgrees ==
  ASSUME Nodes(list), Good(list, conf, creds, panel)
  PROVE  Agreed
<1> SUFFICES ASSUME IsPanel(Active)
             PROVE  /\ Active.user \in Users /\ Active.pass = panel[Active.user]
                    /\ creds = CredsOf(Active) /\ conf = Active.host
  BY DEF Agreed
<1>1. PICK k \in DOMAIN list : list[k].active /\ list[k].host # Placeholder /\ Active = list[k]
  BY ActiveIs DEF IsPanel, Nobody
<1>2. IsPanel(list[k])
  BY <1>1
<1> QED
  BY <1>1, <1>2 DEF Good

\* The panel, the nodes and the files come apart only by the causes the property names,
\* for any number of accounts, proxies and tasks, and the list has one active node at most.
THEOREM ApartHolds == Spec => []ApartOnlyByKnownCauses
<1>1. RotationInv => ApartOnlyByKnownCauses
  <2> SUFFICES ASSUME RotationInv
               PROVE  ApartOnlyByKnownCauses
    OBVIOUS
  <2>1. TypeOK
    BY TypeHolds
  <2>2. ASSUME Quiet, odd = {}
        PROVE  /\ Agreed
               /\ \A k \in DOMAIN list : IsPanel(list[k]) => list[k].pass = panel[list[k].user]
    <3>1. todo = <<>> /\ \A t \in Tasks : task[t].pc \notin {"store", "node"}
      BY <2>2 DEF Quiet
    <3>2. Good(list, conf, creds, panel)
      BY <2>2, <3>1, RestGood DEF RotationInv
    <3>3. Agreed
      BY <3>2, GoodAgrees DEF RotationInv, Types
    <3> QED
      BY <3>2, <3>3 DEF Good
  <2> QED
    BY <2>1, <2>2 DEF ApartOnlyByKnownCauses
<1> QED
  BY <1>1, Invariant, PTL
=============================================================================
