--------------------------- MODULE WinRelayProofs ---------------------------
(***************************************************************************)
(* The relay pool of the Windows engine, for any numbers of connections,   *)
(* workers and units and any order of completions, ends and the stop.      *)
(***************************************************************************)
EXTENDS WinRelay, FiniteSetTheorems, TLAPS

-----------------------------------------------------------------------------
(* The inductive invariant *)

Crew == Conns \cup Workers

Holding == {"post", "serve", "abort", "shut", "cancel", "release"}

\* Thread t holds direction d of c; a handler at the first one holds the second, too.
Has(t, c, d) ==
  /\ thr[t].c = c /\ thr[t].pc \in Holding
  /\ thr[t].d = d \/ (t = c /\ thr[t].d < d)

\* What each kind of thread may be doing.
Roles ==
  /\ \A c \in Conns :
       /\ thr[c].pc \in {"idle", "handshake", "insert", "blocking", "post", "abort", "shut",
                         "cancel", "release", "unlink", "free", "gone"}
       /\ thr[c].pc # "idle" => thr[c].c = c
       /\ thr[c].pc \in {"idle", "handshake", "insert", "blocking"} => relay[c].phase = "none"
  /\ \A w \in Workers :
       /\ thr[w].pc \in {"idle", "serve", "abort", "shut", "cancel", "release", "unlink", "free", "gone"}
       /\ thr[w].pc \notin {"idle", "gone"} => thr[w].c \in Conns
  /\ thr[Stopper].pc \in {"idle", "flagged", "joined", "walk", "abort", "shut", "cancel",
                          "drain", "join", "gone"}
  /\ thr[Stopper].pc \in {"abort", "shut", "cancel"} => thr[Stopper].c \in Conns

\* A direction is held exactly while a thread has it, and then by one thread.
Places ==
  /\ \A t \in Crew, c \in Conns, d \in Dirs : Has(t, c, d) => dir[c][d].at = "held"
  /\ \A c \in Conns, d \in Dirs : dir[c][d].at = "held" => \E t \in Crew : Has(t, c, d)
  /\ \A c \in Conns, d \in Dirs, t, u \in Crew : Has(t, c, d) /\ Has(u, c, d) => t = u

Rest(c, d) == IF dir[c][d].at = "ended" THEN 0 ELSE 1

\* A relay that was not started has nothing, a live one counts the directions that have
\* not ended, and of one that was freed both have.
Counted ==
  \A c \in Conns :
    /\ relay[c].phase = "none" =>
         /\ relay[c] = NewRelay
         /\ \A d \in Dirs : /\ dir[c][d] = NewDir
                            /\ supply[c][d] = Units[d] /\ avail[c][d] = 0 /\ out[c][d] = 0
    /\ Live(c) => /\ \A d \in Dirs : dir[c][d].at # "new"
                  /\ relay[c].refs = Rest(c, 1) + Rest(c, 2)
    /\ relay[c].phase = "freed" => \A d \in Dirs : dir[c][d].at = "ended"

\* One thread frees a relay: the one that ended its last direction.
LastHands ==
  /\ \A t \in Crew : thr[t].pc \in {"unlink", "free"} =>
       /\ Live(thr[t].c) /\ relay[thr[t].c].refs = 0
       /\ t \in Conns => thr[t].d = 2
       /\ thr[t].pc = "free" => ~relay[thr[t].c].listed
  /\ \A t, u \in Crew : thr[t].pc \in {"unlink", "free"} /\ thr[u].pc \in {"unlink", "free"}
                         /\ thr[t].c = thr[u].c => t = u

\* The stop holds the lock while it walks, and what it has still to visit is listed.
Walking ==
  /\ lock <=> thr[Stopper].pc \in {"walk", "abort", "shut", "cancel"}
  /\ \A c \in todo : lock /\ relay[c].listed
  /\ thr[Stopper].pc \in {"abort", "shut", "cancel"} => relay[thr[Stopper].c].listed
  /\ \A c \in Conns : relay[c].listed => Live(c)

\* What a handler has still to start is as relay_start made it, a worker serves
\* successful completions only.
Started ==
  /\ \A c \in Conns, d \in Dirs :
       thr[c].pc \in Holding /\ (thr[c].d < d \/ (thr[c].d = d /\ thr[c].pc = "post"))
         => dir[c][d] = [NewDir EXCEPT !.at = "held"]
  /\ \A w \in Workers : thr[w].pc = "serve" => dir[thr[w].c][thr[w].d].ok

Control == Roles /\ Places /\ Counted /\ LastHands /\ Walking /\ Started

\* A send never sends more than was read, and the buffers are where they are used.
Operations(c, d) ==
  /\ dir[c][d].state = "send" => dir[c][d].off + dir[c][d].n <= dir[c][d].len
  /\ dir[c][d].at = "pending" /\ dir[c][d].state # "wait" => dir[c][d].buf
  /\ dir[c][d].buf => Live(c)

\* Until the sockets are shut down every unit is at the source, in the kernel, in hand or
\* at the destination.
Balance(c, d) ==
  /\ supply[c][d] + avail[c][d] + out[c][d] <= Units[d]
  /\ Live(c) /\ ~relay[c].shut /\ dir[c][d].at # "ended" =>
       supply[c][d] + avail[c][d] + out[c][d] + InHand(dir[c][d]) = Units[d]

Cells == \A c \in Conns, d \in Dirs : Operations(c, d) /\ Balance(c, d)

Buffers == {x \in Conns \X Dirs : dir[x[1]][x[2]].buf}

Totals ==
  /\ mem = pool + Cardinality(Buffers)
  /\ active = Cardinality({c \in Conns : Live(c)})

\* TypeOK without the bounds of the two counters, and with the domains of the ends.
Types ==
  /\ running \in BOOLEAN /\ iocp \in BOOLEAN /\ lock \in BOOLEAN
  /\ relay \in [Conns -> Relays] /\ dir \in [Conns -> [Dirs -> DirStates]]
  /\ thr \in [Threads -> ThreadStates]
  /\ exits \in 0..Cardinality(Workers) /\ pool \in 0..Keep
  /\ todo \subseteq Conns /\ eof \subseteq Conns \X Dirs /\ broken \subseteq Conns
  /\ supply \in [Conns -> [Dirs -> Nat]]
  /\ avail \in [Conns -> [Dirs -> Nat]] /\ out \in [Conns -> [Dirs -> Nat]]

\* The sockets are shut down, and what is outstanding cancelled, only of a relay marked so.
Closing ==
  /\ \A c \in Conns : relay[c].shut => relay[c].closing
  /\ \A t \in Threads : thr[t].pc \in {"shut", "cancel"} => relay[thr[t].c].closing

IInv == Types /\ Control /\ Cells /\ Totals /\ Closing

-----------------------------------------------------------------------------
(* Updates *)

\* One thread goes to x.
LEMMA ThreadMoves ==
  ASSUME Types, NEW t \in Threads, NEW x \in ThreadStates, thr' = [thr EXCEPT ![t] = x]
  PROVE  /\ thr' \in [Threads -> ThreadStates]
         /\ thr'[t] = x
         /\ \A u \in Threads : u # t => thr'[u] = thr[u]
BY DEF Types

\* One direction becomes r.
LEMMA DirBecomes ==
  ASSUME Types, NEW c \in Conns, NEW d \in Dirs, NEW r \in DirStates,
         dir' = [dir EXCEPT ![c][d] = r]
  PROVE  /\ dir' \in [Conns -> [Dirs -> DirStates]]
         /\ dir'[c][d] = r
         /\ \A e \in Conns, f \in Dirs : <<e, f>> # <<c, d>> => dir'[e][f] = dir[e][f]
BY DEF Types

\* One relay becomes r.
LEMMA RelayBecomes ==
  ASSUME Types, NEW c \in Conns, NEW r \in Relays, relay' = [relay EXCEPT ![c] = r]
  PROVE  /\ relay' \in [Conns -> Relays]
         /\ relay'[c] = r
         /\ \A e \in Conns : e # c => relay'[e] = relay[e]
BY DEF Types

\* The members of the threads' sorts, and that no thread has two of them.
LEMMA ThreadSorts ==
  /\ \A c \in Conns : c \in Threads /\ c \in Crew /\ c # Stopper /\ c \notin Workers
  /\ \A w \in Workers : w \in Threads /\ w \in Crew /\ w # Stopper /\ w \notin Conns
  /\ \A t \in Crew : t \in Threads /\ t # Stopper
  /\ Stopper \in Threads /\ Stopper \notin Crew
BY RelayAssumption DEF Threads, Crew

\* Where a thread may be sent.
LEMMA AtTyped ==
  /\ Idle \in ThreadStates
  /\ \A pc \in {"idle", "handshake", "insert", "post", "serve", "abort", "shut", "cancel",
         "release", "unlink", "free", "blocking", "gone",
         "flagged", "joined", "walk", "drain", "join"}, c \in Conns \cup {NoConn}, d \in Dirs :
       /\ At(pc, c, d) \in ThreadStates
       /\ At(pc, c, d).pc = pc /\ At(pc, c, d).c = c /\ At(pc, c, d).d = d
BY DEF ThreadStates, At, Idle, Dirs

\* What a thread refers to.
LEMMA ThreadTypes ==
  ASSUME Types, NEW t \in Threads
  PROVE  thr[t] \in ThreadStates /\ thr[t].c \in Conns \cup {NoConn} /\ thr[t].d \in Dirs
BY DEF Types, ThreadStates

\* A thread that keeps its connection and direction.
LEMMA PcBecomes ==
  ASSUME Types, NEW t \in Threads,
         NEW pc \in {"idle", "handshake", "insert", "post", "serve", "abort", "shut", "cancel",
         "release", "unlink", "free", "blocking", "gone",
         "flagged", "joined", "walk", "drain", "join"}
  PROVE  /\ [thr EXCEPT ![t].pc = pc] = [thr EXCEPT ![t] = [thr[t] EXCEPT !.pc = pc]]
         /\ [thr[t] EXCEPT !.pc = pc] \in ThreadStates
         /\ [thr[t] EXCEPT !.pc = pc].pc = pc
         /\ [thr[t] EXCEPT !.pc = pc].c = thr[t].c
         /\ [thr[t] EXCEPT !.pc = pc].d = thr[t].d
<1>1. thr[t] \in ThreadStates
  BY DEF Types
<1> QED BY <1>1 DEF Types, ThreadStates

\* A completion of an operation.
LEMMA DoneDir ==
  ASSUME Types, NEW c \in Conns, NEW d \in Dirs, NEW ok \in BOOLEAN, NEW n \in 0..BufSize
  PROVE  \E r \in DirStates :
           /\ Done(c, d, ok, n) = [dir EXCEPT ![c][d] = r]
           /\ r.at = "done" /\ r.ok = ok /\ r.n = n /\ r.state = dir[c][d].state
           /\ r.buf = dir[c][d].buf /\ r.len = dir[c][d].len /\ r.off = dir[c][d].off
<1>1. dir[c][d] \in DirStates
  BY DEF Types
<1> DEFINE r == [dir[c][d] EXCEPT !.at = "done", !.ok = ok, !.n = n]
<1>2. Done(c, d, ok, n) = [dir EXCEPT ![c][d] = r]
  BY DEF Types, Done
<1>3. /\ r \in DirStates
      /\ r.at = "done" /\ r.ok = ok /\ r.n = n /\ r.state = dir[c][d].state
      /\ r.buf = dir[c][d].buf /\ r.len = dir[c][d].len /\ r.off = dir[c][d].off
  BY <1>1 DEF DirStates
<1> HIDE DEF r
<1> QED BY <1>2, <1>3

\* A direction that is taken up.
LEMMA HeldDir ==
  ASSUME Types, NEW c \in Conns, NEW d \in Dirs
  PROVE  \E r \in DirStates :
           /\ [dir EXCEPT ![c][d].at = "held"] = [dir EXCEPT ![c][d] = r]
           /\ r.at = "held" /\ r.ok = dir[c][d].ok /\ r.n = dir[c][d].n /\ r.state = dir[c][d].state
           /\ r.buf = dir[c][d].buf /\ r.len = dir[c][d].len /\ r.off = dir[c][d].off
<1>1. dir[c][d] \in DirStates
  BY DEF Types
<1> DEFINE r == [dir[c][d] EXCEPT !.at = "held"]
<1>2. [dir EXCEPT ![c][d].at = "held"] = [dir EXCEPT ![c][d] = r]
  BY DEF Types
<1>3. /\ r \in DirStates
      /\ r.at = "held" /\ r.ok = dir[c][d].ok /\ r.n = dir[c][d].n /\ r.state = dir[c][d].state
      /\ r.buf = dir[c][d].buf /\ r.len = dir[c][d].len /\ r.off = dir[c][d].off
  BY <1>1 DEF DirStates
<1> HIDE DEF r
<1> QED BY <1>2, <1>3

\* Only a live relay has a direction that is neither to be made nor ended.
LEMMA LiveByDir ==
  ASSUME Types, Counted, NEW c \in Conns, NEW d \in Dirs, dir[c][d].at \notin {"new", "ended"}
  PROVE  Live(c)
<1>1. relay[c].phase \in {"none", "live", "freed"}
  BY DEF Types, Relays
<1>2. dir[c][d] # NewDir
  BY DEF NewDir
<1> QED BY <1>1, <1>2 DEF Counted, Live

-----------------------------------------------------------------------------
(* Control *)

\* Relays keep their phase, count and listing; operations may complete.
Steady ==
  /\ \A c \in Conns :
       /\ relay'[c].phase = relay[c].phase /\ relay'[c].refs = relay[c].refs
       /\ relay'[c].listed = relay[c].listed
       /\ relay[c].phase = "none" =>
            /\ relay'[c] = relay[c]
            /\ \A d \in Dirs : /\ supply'[c][d] = supply[c][d] /\ avail'[c][d] = avail[c][d]
                               /\ out'[c][d] = out[c][d]
  /\ \A c \in Conns, d \in Dirs :
       \/ dir'[c][d] = dir[c][d]
       \/ dir[c][d].at = "pending" /\ dir'[c][d].at = "done"

\* A thread moves and all others stay.
Only(t) == \A u \in Threads : u # t => thr'[u] = thr[u]

LEMMA SteadyCounted ==
  ASSUME Counted, Steady
  PROVE  Counted' /\ \A c \in Conns : Live(c)' <=> Live(c)
<1>1. \A c \in Conns : Live(c)' <=> Live(c)
  BY DEF Steady, Live
<1>2. \A c \in Conns, d \in Dirs :
        /\ dir[c][d].at = "new" <=> dir'[c][d].at = "new"
        /\ dir[c][d].at = "ended" <=> dir'[c][d].at = "ended"
  BY DEF Steady
<1>3. \A c \in Conns, d \in Dirs : Rest(c, d)' = Rest(c, d)
  BY <1>2 DEF Rest
<1>4. ASSUME NEW c \in Conns, relay'[c].phase = "none"
      PROVE  /\ relay'[c] = NewRelay
             /\ \A d \in Dirs : /\ dir'[c][d] = NewDir
                                /\ supply'[c][d] = Units[d] /\ avail'[c][d] = 0 /\ out'[c][d] = 0
  <2>1. relay[c].phase = "none"
    BY <1>4 DEF Steady
  <2>2. \A d \in Dirs : dir[c][d] = NewDir /\ dir[c][d].at = "new"
    BY <2>1 DEF Counted, NewDir
  <2> QED BY <2>1, <2>2 DEF Counted, Steady
<1>5. ASSUME NEW c \in Conns, Live(c)'
      PROVE  /\ \A d \in Dirs : dir'[c][d].at # "new"
             /\ relay'[c].refs = Rest(c, 1)' + Rest(c, 2)'
  <2>1. relay'[c].refs = relay[c].refs /\ Live(c)
    BY <1>5, <1>1 DEF Steady
  <2> QED BY <2>1, <1>2, <1>3 DEF Counted, Dirs
<1>6. ASSUME NEW c \in Conns, relay'[c].phase = "freed" PROVE \A d \in Dirs : dir'[c][d].at = "ended"
  BY <1>2, <1>6 DEF Counted, Steady
<1> QED BY <1>1, <1>4, <1>5, <1>6 DEF Counted

\* No thread takes or leaves a direction.
LEMMA SteadyHands ==
  ASSUME Types, Control, Steady,
         \A u \in Crew : \/ thr'[u] = thr[u]
                         \/ /\ thr'[u].pc \notin {"unlink", "free", "serve", "post"}
                            /\ u \in Conns /\ thr'[u].pc \in Holding => thr'[u].c = u /\ thr'[u].d \in Dirs
                            /\ \A c \in Conns, d \in Dirs : Has(u, c, d)' <=> Has(u, c, d)
  PROVE  /\ Counted' /\ Places' /\ LastHands' /\ Started'
         /\ \A c \in Conns : Live(c)' <=> Live(c)
<1>1. Counted' /\ \A c \in Conns : Live(c)' <=> Live(c)
  BY SteadyCounted DEF Control
<1>2. \A u \in Crew, c \in Conns, d \in Dirs : Has(u, c, d)' <=> Has(u, c, d)
  BY DEF Has
<1>3. \A c \in Conns, d \in Dirs : dir'[c][d].at = "held" <=> dir[c][d].at = "held"
  BY DEF Steady
<1>4. Places'
  BY <1>2, <1>3 DEF Control, Places
<1>5. LastHands'
  <2>1. ASSUME NEW u \in Crew, thr'[u].pc \in {"unlink", "free"}
        PROVE  thr'[u] = thr[u] /\ thr[u].c \in Conns
    BY <2>1, ThreadSorts DEF Control, Roles, Crew
  <2>2. ASSUME NEW u \in Crew, thr'[u].pc \in {"unlink", "free"}
        PROVE  /\ relay'[thr'[u].c].phase = "live" /\ relay'[thr'[u].c].refs = 0
               /\ u \in Conns => thr'[u].d = 2
               /\ thr'[u].pc = "free" => ~relay'[thr'[u].c].listed
    <3>1. /\ thr'[u] = thr[u] /\ thr[u].c \in Conns
          /\ Live(thr[u].c) /\ relay[thr[u].c].refs = 0
          /\ u \in Conns => thr[u].d = 2
          /\ thr[u].pc = "free" => ~relay[thr[u].c].listed
      BY <2>1, <2>2 DEF Control, LastHands
    <3> QED BY <3>1 DEF Steady, Live
  <2>3. ASSUME NEW u \in Crew, NEW v \in Crew, thr'[u].pc \in {"unlink", "free"},
               thr'[v].pc \in {"unlink", "free"}, thr'[u].c = thr'[v].c
        PROVE  u = v
    BY <2>1, <2>3 DEF Control, LastHands
  <2> QED BY <2>2, <2>3 DEF LastHands, Live
<1>6. Started'
  <2>1. \A c \in Conns, d \in Dirs :
          dir[c][d] = [NewDir EXCEPT !.at = "held"] => dir[c][d].at = "held"
    BY DEF NewDir
  <2>2. ASSUME NEW w \in Workers, thr'[w].pc = "serve"
        PROVE  dir'[thr'[w].c][thr'[w].d].ok
    <3>1. thr'[w] = thr[w]
      BY <2>2, ThreadSorts
    <3>2. thr[w].c \in Conns /\ thr[w].d \in Dirs /\ Has(w, thr[w].c, thr[w].d)
      BY <2>2, <3>1, ThreadSorts, ThreadTypes DEF Has, Holding, Control, Roles
    <3>3. dir[thr[w].c][thr[w].d].at = "held" /\ dir[thr[w].c][thr[w].d].ok
      BY <2>2, <3>1, <3>2, ThreadSorts DEF Control, Places, Started
    <3> QED BY <3>1, <3>2, <3>3 DEF Steady
  <2>3. ASSUME NEW c \in Conns, NEW d \in Dirs, thr'[c].pc \in Holding,
               thr'[c].d < d \/ (thr'[c].d = d /\ thr'[c].pc = "post")
        PROVE  dir'[c][d] = [NewDir EXCEPT !.at = "held"]
    <3>1. CASE thr'[c] = thr[c]
      BY <2>1, <2>3, <3>1 DEF Control, Started, Steady
    <3>2. CASE thr'[c] # thr[c]
      <4>1. /\ thr'[c].pc # "post" /\ thr'[c].c = c /\ thr'[c].d \in Dirs
            /\ \A f \in Dirs : Has(c, c, f)' <=> Has(c, c, f)
        BY <2>3, <3>2, ThreadSorts
      <4>2. PICK f \in Dirs : f = thr'[c].d
        BY <4>1
      <4>3. Has(c, c, f)'
        BY <4>1, <4>2, <2>3 DEF Has
      <4>4. thr[c].pc \in Holding /\ (thr[c].d = f \/ thr[c].d < f) /\ f < d
        BY <4>1, <4>2, <4>3, <2>3 DEF Has
      <4>5. thr[c].d \in Dirs
        BY ThreadTypes, ThreadSorts
      <4>6. thr[c].d < d
        BY <4>4, <4>5 DEF Dirs
      <4> QED BY <4>4, <4>6, <2>1 DEF Control, Started, Steady
    <3> QED BY <3>1, <3>2
  <2> QED BY <2>2, <2>3 DEF Started
<1> QED BY <1>1, <1>4, <1>5, <1>6

\* The list and the lock stay as they are as long as the stop does.
LEMMA WalkingKept ==
  ASSUME Types, Control, Steady, UNCHANGED <<lock, todo>>, thr'[Stopper] = thr[Stopper]
  PROVE  Walking'
<1>1. todo \subseteq Conns /\ \A c \in Conns : Live(c)' <=> Live(c)
  BY DEF Types, Steady, Live
<1>2. \A c \in todo : lock /\ relay'[c].listed
  BY <1>1 DEF Control, Walking, Steady
<1>3. thr[Stopper].pc \in {"abort", "shut", "cancel"} => relay'[thr[Stopper].c].listed
  BY DEF Control, Walking, Roles, Steady
<1>4. \A c \in Conns : relay'[c].listed => Live(c)'
  BY <1>1 DEF Control, Walking, Steady
<1> QED BY <1>1, <1>2, <1>3, <1>4 DEF Control, Walking

\* Nothing that the ends or the system do moves a thread.
LEMMA ControlSteady ==
  ASSUME Types, Control, Steady, UNCHANGED <<thr, lock, todo>>
  PROVE  Control'
<1>1. Roles'
  BY DEF Control, Roles, Steady
<1> QED BY <1>1, SteadyHands, WalkingKept DEF Control

\* A thread that has a direction goes on to end it; one that has none is busy elsewhere.
LEMMA ControlMoves ==
  ASSUME Types, Control, Steady, UNCHANGED <<lock, todo>>,
         NEW t \in Crew, Only(t), thr'[t].d \in Dirs,
         \/ /\ thr[t].pc \in Holding /\ thr'[t].pc \in {"abort", "shut", "cancel", "release"}
            /\ thr'[t].c = thr[t].c /\ thr'[t].d = thr[t].d
         \/ /\ thr[t].pc \notin Holding /\ t \in Workers /\ thr'[t].pc \in {"idle", "gone"}
         \/ /\ thr[t].pc \notin Holding /\ t \in Conns /\ thr'[t].c = t
            /\ thr'[t].pc \in {"handshake", "insert", "blocking", "gone"} /\ relay[t].phase = "none"
  PROVE  Control'
<1>1. \A u \in Threads : u = t \/ thr'[u] = thr[u]
  BY DEF Only
<1>2. \A c \in Conns, d \in Dirs : Has(t, c, d)' <=> Has(t, c, d)
  BY ThreadSorts DEF Has, Holding
<1>3. thr[t].pc \in Holding =>
        thr[t].pc \notin {"idle", "handshake", "insert", "blocking", "unlink", "free", "gone"}
  BY DEF Holding
<1>4. Roles'
  <2>1. \A c \in Conns : c = t \/ thr'[c] = thr[c]
    BY <1>1, ThreadSorts
  <2>2. \A w \in Workers : w = t \/ thr'[w] = thr[w]
    BY <1>1, ThreadSorts
  <2>3. thr'[Stopper] = thr[Stopper]
    BY <1>1, ThreadSorts
  <2> QED BY <1>3, <2>1, <2>2, <2>3, ThreadSorts DEF Control, Roles, Steady
<1>5. t \in Conns /\ thr'[t].pc \in Holding => thr'[t].c = t
  BY <1>4, ThreadSorts DEF Roles, Holding
<1>6. \A u \in Crew : u = t \/ thr'[u] = thr[u]
  BY <1>1, ThreadSorts
<1>7. Walking'
  BY WalkingKept, <1>1, ThreadSorts
<1>8. Counted' /\ Places' /\ LastHands' /\ Started'
  BY <1>2, <1>5, <1>6, SteadyHands, ThreadSorts
<1> QED BY <1>4, <1>7, <1>8 DEF Control

\* The stop goes on; what it keeps of the lock and the list is shown for each of its steps.
LEMMA ControlStop ==
  ASSUME Types, Control, Steady, Only(Stopper), todo' \subseteq Conns,
         thr'[Stopper].pc \in {"idle", "flagged", "joined", "walk", "abort", "shut", "cancel",
                               "drain", "join", "gone"},
         thr'[Stopper].pc \in {"abort", "shut", "cancel"} =>
           thr'[Stopper].c \in Conns /\ relay[thr'[Stopper].c].listed,
         lock' <=> thr'[Stopper].pc \in {"walk", "abort", "shut", "cancel"},
         \A c \in todo' : lock' /\ relay[c].listed
  PROVE  Control'
<1>1. \A u \in Crew : thr'[u] = thr[u]
  BY ThreadSorts DEF Only
<1>2. Roles'
  BY <1>1, ThreadSorts DEF Control, Roles, Steady
<1>3. Walking'
  <2>1. \A c \in todo' : lock' /\ relay'[c].listed
    BY DEF Steady
  <2>2. thr'[Stopper].pc \in {"abort", "shut", "cancel"} => relay'[thr'[Stopper].c].listed
    BY DEF Steady
  <2>3. \A c \in Conns : relay'[c].listed => Live(c)'
    BY SteadyCounted DEF Control, Walking, Steady
  <2> QED BY <2>1, <2>2, <2>3 DEF Walking
<1> QED BY <1>1, <1>2, <1>3, SteadyHands DEF Control

-----------------------------------------------------------------------------
(* Control: a direction or a relay changes hands *)

\* The counts, while no direction is made or ends.
LEMMA CountedKept ==
  ASSUME Counted, UNCHANGED <<relay, supply, avail, out>>,
         \A c \in Conns, d \in Dirs :
           \/ dir'[c][d] = dir[c][d]
           \/ Live(c) /\ dir[c][d].at \notin {"new", "ended"} /\ dir'[c][d].at \notin {"new", "ended"}
  PROVE  Counted' /\ \A c \in Conns : Live(c)' <=> Live(c)
<1>1. \A c \in Conns : Live(c)' <=> Live(c)
  BY DEF Live
<1>2. \A c \in Conns, d \in Dirs :
        /\ dir[c][d].at = "new" <=> dir'[c][d].at = "new"
        /\ dir[c][d].at = "ended" <=> dir'[c][d].at = "ended"
  OBVIOUS
<1>3. \A c \in Conns, d \in Dirs : Rest(c, d)' = Rest(c, d)
  BY <1>2 DEF Rest
<1>4. \A c \in Conns : relay[c].phase = "none" => \A d \in Dirs : dir'[c][d] = dir[c][d]
  BY DEF Live
<1>5. \A c \in Conns : Live(c)' => relay'[c].refs = Rest(c, 1)' + Rest(c, 2)'
  BY <1>1, <1>3 DEF Counted, Dirs
<1> QED BY <1>1, <1>2, <1>4, <1>5 DEF Counted

\* Who frees a relay, while nobody starts to.
LEMMA LastHandsKept ==
  ASSUME Roles, LastHands,
         \A u \in Crew : thr'[u].pc \in {"unlink", "free"} => thr'[u] = thr[u],
         \A c \in Conns : Live(c) /\ relay[c].refs = 0 =>
           /\ Live(c)' /\ relay'[c].refs = 0
           /\ relay'[c].listed => relay[c].listed
  PROVE  LastHands'
<1>1. ASSUME NEW u \in Crew, thr'[u].pc \in {"unlink", "free"}
      PROVE  /\ thr'[u] = thr[u] /\ thr[u].c \in Conns
             /\ Live(thr[u].c) /\ relay[thr[u].c].refs = 0
             /\ u \in Conns => thr[u].d = 2
             /\ thr[u].pc = "free" => ~relay[thr[u].c].listed
  BY <1>1, ThreadSorts DEF Roles, Crew, LastHands
<1>2. ASSUME NEW u \in Crew, thr'[u].pc \in {"unlink", "free"}
      PROVE  /\ relay'[thr'[u].c].phase = "live" /\ relay'[thr'[u].c].refs = 0
             /\ u \in Conns => thr'[u].d = 2
             /\ thr'[u].pc = "free" => ~relay'[thr'[u].c].listed
  BY <1>1, <1>2 DEF Live
<1>3. ASSUME NEW u \in Crew, NEW v \in Crew, thr'[u].pc \in {"unlink", "free"},
             thr'[v].pc \in {"unlink", "free"}, thr'[u].c = thr'[v].c
      PROVE  u = v
  BY <1>1, <1>3 DEF LastHands
<1> QED BY <1>2, <1>3 DEF LastHands, Live

\* The walk, while nothing leaves the list behind its back.
LEMMA WalkKept ==
  ASSUME Types, Roles, Walking, UNCHANGED <<lock, todo>>, thr'[Stopper] = thr[Stopper],
         \A c \in Conns : lock /\ relay[c].listed => relay'[c].listed,
         \A c \in Conns : relay'[c].listed => relay'[c].phase = "live"
  PROVE  Walking'
<1>1. todo \subseteq Conns
  BY DEF Types
<1> QED BY <1>1 DEF Walking, Roles, Live

\* What others have been given, while thread t alone changes what it has itself.
LEMMA StartedKept ==
  ASSUME Types, Roles, Started, NEW t \in Crew, Only(t),
         \A e \in Conns, f \in Dirs :
           dir'[e][f] = dir[e][f] \/ \A u \in Crew : u # t => ~Has(u, e, f),
         t \in Workers /\ thr'[t].pc = "serve" => dir'[thr'[t].c][thr'[t].d].ok,
         t \in Conns => \A f \in Dirs :
           thr'[t].pc \in Holding /\ (thr'[t].d < f \/ (thr'[t].d = f /\ thr'[t].pc = "post"))
             => dir'[t][f] = [NewDir EXCEPT !.at = "held"]
  PROVE  Started'
<1>1. ASSUME NEW c \in Conns, NEW d \in Dirs, thr'[c].pc \in Holding,
             thr'[c].d < d \/ (thr'[c].d = d /\ thr'[c].pc = "post"), c # t
      PROVE  dir'[c][d] = [NewDir EXCEPT !.at = "held"]
  <2>1. thr'[c] = thr[c] /\ thr[c].c = c /\ c \in Crew
    BY <1>1, ThreadSorts DEF Only, Roles, Holding
  <2>2. Has(c, c, d)
    BY <1>1, <2>1 DEF Has
  <2> QED BY <1>1, <2>1, <2>2 DEF Started
<1>2. ASSUME NEW w \in Workers, thr'[w].pc = "serve", w # t
      PROVE  dir'[thr'[w].c][thr'[w].d].ok
  <2>1. thr'[w] = thr[w] /\ w \in Crew /\ thr[w].c \in Conns /\ thr[w].d \in Dirs
    BY <1>2, ThreadSorts, ThreadTypes DEF Only, Roles
  <2>2. Has(w, thr[w].c, thr[w].d)
    BY <1>2, <2>1 DEF Has, Holding
  <2> QED BY <1>2, <2>1, <2>2 DEF Started
<1> QED BY <1>1, <1>2 DEF Started

\* A worker takes a completion from the port.
LEMMA ControlGet ==
  ASSUME Types, Control, NEW w \in Workers, Get(w)
  PROVE  Control'
<1>1. PICK c \in Conns, d \in Dirs :
        /\ dir[c][d].at = "done"
        /\ dir' = [dir EXCEPT ![c][d].at = "held"]
        /\ thr' = [thr EXCEPT ![w] = At(IF dir[c][d].ok THEN "serve" ELSE "abort", c, d)]
  BY DEF Get
<1>2. thr[w] = Idle /\ UNCHANGED <<relay, lock, todo, supply, avail, out>>
  BY DEF Get, endVars, stopVars
<1>3. /\ dir'[c][d].at = "held" /\ dir'[c][d].ok = dir[c][d].ok
      /\ \A e \in Conns, f \in Dirs : <<e, f>> # <<c, d>> => dir'[e][f] = dir[e][f]
  <2>1. PICK r \in DirStates : /\ dir' = [dir EXCEPT ![c][d] = r]
                               /\ r.at = "held" /\ r.ok = dir[c][d].ok
    BY <1>1, HeldDir
  <2>2. dir \in [Conns -> [Dirs -> DirStates]]
    BY DEF Types
  <2> QED BY <2>1, <2>2
<1>4. /\ thr'[w].pc = IF dir[c][d].ok THEN "serve" ELSE "abort"
      /\ thr'[w].c = c /\ thr'[w].d = d /\ Only(w)
  <2>1. PICK pc \in {"serve", "abort"} : pc = IF dir[c][d].ok THEN "serve" ELSE "abort"
    OBVIOUS
  <2>2. At(pc, c, d) \in ThreadStates /\ At(pc, c, d).pc = pc /\ At(pc, c, d).c = c /\ At(pc, c, d).d = d
    BY AtTyped
  <2>3. thr' = [thr EXCEPT ![w] = At(pc, c, d)]
    BY <1>1, <2>1
  <2> QED BY <2>1, <2>2, <2>3, ThreadMoves, ThreadSorts DEF Only
<1>5. w \in Crew /\ w # Stopper /\ w \notin Conns /\ thr[w].pc = "idle"
      /\ \A u \in Crew : u # w => thr'[u] = thr[u]
  BY <1>2, <1>4, ThreadSorts, AtTyped DEF Only, Idle, At
<1>6. \A u \in Crew, e \in Conns, f \in Dirs : Has(u, e, f)' <=> Has(u, e, f) \/ (u = w /\ e = c /\ f = d)
  <2>1. \A e \in Conns, f \in Dirs : ~Has(w, e, f) /\ (Has(w, e, f)' <=> e = c /\ f = d)
    BY <1>4, <1>5 DEF Has, Holding
  <2> QED BY <2>1, <1>5 DEF Has
<1>7. \A u \in Crew : ~Has(u, c, d)
  BY <1>1 DEF Control, Places
<1>8. Places'
  BY <1>3, <1>6, <1>7, <1>5 DEF Control, Places
<1>9. Live(c)
  BY <1>1, LiveByDir DEF Control
<1>10. Counted' /\ \A e \in Conns : Live(e)' <=> Live(e)
  BY <1>1, <1>2, <1>3, <1>9, CountedKept DEF Control
<1>11. Roles'
  BY <1>2, <1>4, <1>5, ThreadSorts DEF Control, Roles, Only
<1>12. LastHands'
  BY <1>2, <1>4, <1>5, <1>10, LastHandsKept DEF Control
<1>13. Walking'
  BY <1>2, <1>4, <1>5, ThreadSorts, WalkKept DEF Control, Only, Walking, Live
<1>14. Started'
  <2>1. \A e \in Conns, f \in Dirs :
          dir'[e][f] = dir[e][f] \/ \A u \in Crew : u # w => ~Has(u, e, f)
    BY <1>3, <1>7
  <2>2. w \in Workers /\ thr'[w].pc = "serve" => dir'[thr'[w].c][thr'[w].d].ok
    BY <1>3, <1>4
  <2>3. Roles /\ Started
    BY DEF Control
  <2> QED BY <2>1, <2>2, <2>3, <1>4, <1>5, StartedKept
<1> QED BY <1>8, <1>10, <1>11, <1>12, <1>13, <1>14 DEF Control

\* Where a thread goes from a direction it is done with.
LEMMA AfterTyped ==
  ASSUME NEW t \in Crew, NEW c \in Conns, NEW d \in Dirs
  PROVE  /\ After(t, c, d) \in ThreadStates
         /\ t \in Workers => After(t, c, d).pc = "idle"
         /\ t \notin Workers => After(t, c, d).c = c
         /\ t \notin Workers /\ d = 1 => After(t, c, d).pc = "post" /\ After(t, c, d).d = 2
         /\ t \notin Workers /\ d = 2 => After(t, c, d).pc = "gone"
         /\ t \notin Workers => After(t, c, d).d \in Dirs
<1>1. 1 \in Dirs /\ 2 \in Dirs /\ d \in {1, 2}
  BY DEF Dirs
<1>2. /\ At("post", c, 2) \in ThreadStates /\ At("gone", c, d) \in ThreadStates
      /\ At("post", c, 2).pc = "post" /\ At("post", c, 2).c = c /\ At("post", c, 2).d = 2
      /\ At("gone", c, d).pc = "gone" /\ At("gone", c, d).c = c /\ At("gone", c, d).d = d
      /\ Idle \in ThreadStates /\ Idle.pc = "idle"
  BY <1>1, AtTyped DEF Idle, At
<1> QED BY <1>1, <1>2 DEF After

\* What relay_post_wait, _read and _send leave of the direction and the thread.
LEMMA PostEffect ==
  ASSUME Types, NEW t \in Crew, NEW c \in Conns, NEW d \in Dirs,
         NEW kind \in {"wait", "read", "send"}, NEW len \in 0..BufSize, NEW off \in 0..BufSize,
         Post(t, c, d, kind, len, off, After(t, c, d))
  PROVE  \E r \in DirStates, ok \in BOOLEAN :
           /\ dir' = [dir EXCEPT ![c][d] = r]
           /\ r = [at |-> IF ok THEN "pending" ELSE "held", state |-> kind, ok |-> TRUE, n |-> 0,
                   buf |-> Buffer(kind), len |-> len, off |-> off]
           /\ thr' = [thr EXCEPT ![t] = IF ok THEN After(t, c, d) ELSE At("abort", c, d)]
<1>1. PICK ok \in BOOLEAN :
        /\ dir' = [dir EXCEPT ![c][d] =
             [at |-> IF ok THEN "pending" ELSE "held", state |-> kind, ok |-> TRUE, n |-> 0,
              buf |-> Buffer(kind), len |-> len, off |-> off]]
        /\ thr' = [thr EXCEPT ![t] = IF ok THEN After(t, c, d) ELSE At("abort", c, d)]
  BY DEF Post
<1>2. 0 \in 0..BufSize
  BY RelayAssumption
<1>3. [at |-> IF ok THEN "pending" ELSE "held", state |-> kind, ok |-> TRUE, n |-> 0,
       buf |-> Buffer(kind), len |-> len, off |-> off] \in DirStates
  BY <1>2 DEF DirStates, Buffer
<1> QED BY <1>1, <1>3

\* A thread starts an operation on a direction it has: control stays in order.
LEMMA ControlPost ==
  ASSUME Types, Control, NEW t \in Crew, NEW c \in Conns, NEW d \in Dirs,
         thr[t].c = c, thr[t].d = d, thr[t].pc \in {"post", "serve"},
         NEW kind \in {"wait", "read", "send"}, NEW len \in 0..BufSize, NEW off \in 0..BufSize,
         Post(t, c, d, kind, len, off, After(t, c, d))
  PROVE  Control'
<1>1. PICK r \in DirStates, ok \in BOOLEAN :
        /\ dir' = [dir EXCEPT ![c][d] = r]
        /\ r.at = IF ok THEN "pending" ELSE "held"
        /\ thr' = [thr EXCEPT ![t] = IF ok THEN After(t, c, d) ELSE At("abort", c, d)]
  BY PostEffect
<1>2. UNCHANGED <<relay, lock, todo, supply, avail, out>>
  BY DEF Post, endVars, stopVars
<1>3. /\ dir'[c][d].at = IF ok THEN "pending" ELSE "held"
      /\ \A e \in Conns, f \in Dirs : <<e, f>> # <<c, d>> => dir'[e][f] = dir[e][f]
  <2>1. /\ dir'[c][d] = r
        /\ \A e \in Conns, f \in Dirs : <<e, f>> # <<c, d>> => dir'[e][f] = dir[e][f]
    <3>1. dir' = [dir EXCEPT ![c][d] = r] /\ r \in DirStates
      BY <1>1
    <3> QED BY <3>1 DEF Types
  <2> QED BY <2>1, <1>1
<1>4. /\ Only(t)
      /\ thr'[t] = IF ok THEN After(t, c, d) ELSE At("abort", c, d)
  <2>1. PICK x \in ThreadStates : x = IF ok THEN After(t, c, d) ELSE At("abort", c, d)
    BY AfterTyped, AtTyped
  <2> QED BY <1>1, <2>1, ThreadMoves, ThreadSorts DEF Only
<1>5. /\ \A u \in Crew : u # t => thr'[u] = thr[u]
      /\ thr'[Stopper] = thr[Stopper] /\ t \in Threads
  BY <1>4, ThreadSorts DEF Only
<1>6. /\ t \in Workers => t \notin Conns
      /\ t \notin Workers => t = c /\ t \in Conns
      /\ d \in {1, 2}
  BY ThreadSorts DEF Control, Roles, Crew, Dirs
<1>7. /\ At("abort", c, d).pc = "abort" /\ At("abort", c, d).c = c /\ At("abort", c, d).d = d
  BY AtTyped
<1>8. Has(t, c, d) /\ dir[c][d].at = "held" /\ Live(c)
  <2>1. Has(t, c, d)
    BY DEF Has, Holding
  <2> QED BY <2>1, LiveByDir DEF Control, Places
<1>9. \A u \in Crew : u # t => ~Has(u, c, d)
  BY <1>8 DEF Control, Places
<1>10. \A e \in Conns, f \in Dirs :
         Has(t, e, f)' <=> Has(t, e, f) /\ (~ok \/ <<e, f>> # <<c, d>>)
  <2>1. CASE ~ok
    BY <1>4, <1>7, <2>1 DEF Has, Holding
  <2>2. CASE ok /\ t \in Workers
    <3>1. thr'[t].pc = "idle"
      BY <1>4, <2>2, AfterTyped
    <3>2. \A e \in Conns, f \in Dirs : Has(t, e, f) => e = c /\ f = d
      BY <2>2, <1>6 DEF Has
    <3> QED BY <3>1, <3>2, <2>2 DEF Has, Holding
  <2>3. CASE ok /\ t \notin Workers
    <3>1. thr'[t].c = c /\ (d = 1 => thr'[t].pc = "post" /\ thr'[t].d = 2) /\ (d = 2 => thr'[t].pc = "gone")
      BY <1>4, <2>3, AfterTyped
    <3> QED BY <3>1, <2>3, <1>6 DEF Has, Holding, Dirs
  <2> QED BY <2>1, <2>2, <2>3
<1>11. Places'
  <2>1. \A u \in Crew, e \in Conns, f \in Dirs :
          Has(u, e, f)' <=> Has(u, e, f) /\ (~ok \/ <<e, f>> # <<c, d>>)
    <3>1. \A u \in Crew, e \in Conns, f \in Dirs : u # t => (Has(u, e, f)' <=> Has(u, e, f))
      BY <1>5 DEF Has
    <3> QED BY <3>1, <1>9, <1>10
  <2>2. \A e \in Conns, f \in Dirs :
          dir'[e][f].at = "held" <=> dir[e][f].at = "held" /\ (~ok \/ <<e, f>> # <<c, d>>)
    BY <1>3, <1>8
  <2> QED BY <2>1, <2>2 DEF Control, Places
<1>12. Counted' /\ \A e \in Conns : Live(e)' <=> Live(e)
  BY <1>2, <1>3, <1>8, CountedKept DEF Control
<1>13. thr'[t].pc \in (IF t \in Workers THEN {"idle", "abort"} ELSE {"post", "gone", "abort"})
       /\ (t \notin Workers => thr'[t].c = c) /\ (thr'[t].pc # "idle" => thr'[t].c = c)
  BY <1>4, <1>6, <1>7, AfterTyped
<1>14. Roles'
  BY <1>2, <1>4, <1>5, <1>6, <1>8, <1>13, ThreadSorts DEF Control, Roles, Only, Live
<1>15. LastHands'
  BY <1>2, <1>5, <1>12, <1>13, LastHandsKept DEF Control
<1>16. Walking'
  BY <1>2, <1>5, WalkKept DEF Control, Walking, Live
<1>17. Started'
  <2>1. ASSUME t \in Conns, NEW f \in Dirs, thr'[t].pc \in Holding,
               thr'[t].d < f \/ (thr'[t].d = f /\ thr'[t].pc = "post")
        PROVE  dir'[t][f] = [NewDir EXCEPT !.at = "held"]
    <3>1. t = c /\ t \notin Workers
      BY <1>6, <2>1
    <3>2. thr[t].pc \in Holding /\ thr[t].d < f
      <4>1. CASE ok
        BY <4>1, <2>1, <3>1, <1>4, <1>6, AfterTyped DEF Holding, Dirs
      <4>2. CASE ~ok
        BY <4>2, <2>1, <3>1, <1>4, <1>6, <1>7 DEF Holding, Dirs
      <4> QED BY <4>1, <4>2
    <3>3. dir[t][f] = [NewDir EXCEPT !.at = "held"] /\ f # d
      BY <3>1, <3>2, <1>6 DEF Control, Started, Dirs
    <3> QED BY <3>1, <3>3, <1>3
  <2>2. t \in Workers => thr'[t].pc # "serve"
    BY <1>13
  <2> QED BY <1>3, <1>4, <1>9, <2>1, <2>2, StartedKept DEF Control
<1> QED BY <1>11, <1>12, <1>14, <1>15, <1>16, <1>17 DEF Control

\* A direction ends; the thread that ends the last one goes on to free the relay.
LEMMA ControlRelease ==
  ASSUME Types, Control, NEW t \in Crew, Release(t)
  PROVE  Control'
<1>1. PICK c, d : c = thr[t].c /\ d = thr[t].d
  OBVIOUS
<1>2. /\ thr[t].pc = "release" /\ t \in Threads /\ t # Stopper
      /\ c \in Conns /\ d \in Dirs /\ d \in {1, 2}
      /\ t \in Workers => t \notin Conns
      /\ t \notin Workers => t = c /\ t \in Conns
  BY <1>1, ThreadSorts, ThreadTypes DEF Release, Control, Roles, Crew, Dirs
<1>3. /\ relay' = [relay EXCEPT ![c].refs = @ - 1]
      /\ dir' = [dir EXCEPT ![c][d] = [NewDir EXCEPT !.at = "ended", !.buf = dir[c][d].buf]]
      /\ thr' = [thr EXCEPT ![t] = IF LastOut(c) THEN At("unlink", c, d) ELSE After(t, c, d)]
      /\ UNCHANGED <<lock, todo, supply, avail, out>>
  BY <1>1 DEF Release, endVars, stopVars
<1>4. Has(t, c, d) /\ dir[c][d].at = "held" /\ Live(c)
  <2>1. Has(t, c, d)
    BY <1>1, <1>2 DEF Has, Holding
  <2> QED BY <1>2, <2>1, LiveByDir DEF Control, Places
<1>5. /\ relay[c].refs = Rest(c, 1) + Rest(c, 2) /\ Rest(c, d) = 1
      /\ \A f \in Dirs : Rest(c, f) \in {0, 1}
  BY <1>2, <1>4 DEF Control, Counted, Rest
<1>6. /\ \A e \in Conns : /\ relay'[e].phase = relay[e].phase /\ relay'[e].listed = relay[e].listed
                          /\ e # c => relay'[e] = relay[e]
      /\ relay'[c].refs = relay[c].refs - 1
  <2>1. relay \in [Conns -> Relays] /\ relay[c] \in Relays
    BY <1>2 DEF Types
  <2>2. relay'[c] = [relay[c] EXCEPT !.refs = @ - 1] /\ \A e \in Conns : e # c => relay'[e] = relay[e]
    BY <1>2, <1>3, <2>1
  <2> QED BY <2>1, <2>2 DEF Relays
<1>7. /\ dir'[c][d].at = "ended"
      /\ \A e \in Conns, f \in Dirs : <<e, f>> # <<c, d>> => dir'[e][f] = dir[e][f]
  BY <1>2, <1>3 DEF Types, NewDir
<1>8. Only(t) /\ thr'[t] = IF LastOut(c) THEN At("unlink", c, d) ELSE After(t, c, d)
  <2>1. PICK x \in ThreadStates : x = IF LastOut(c) THEN At("unlink", c, d) ELSE After(t, c, d)
    BY <1>2, AfterTyped, AtTyped
  <2> QED BY <1>2, <1>3, <2>1, ThreadMoves DEF Only
<1>9. /\ \A u \in Crew : u # t => thr'[u] = thr[u]
      /\ thr'[Stopper] = thr[Stopper]
  BY <1>8, ThreadSorts DEF Only
<1>10. /\ At("unlink", c, d).pc = "unlink" /\ At("unlink", c, d).c = c /\ At("unlink", c, d).d = d
  BY <1>2, AtTyped
<1>11. /\ LastOut(c) => thr'[t].pc = "unlink" /\ thr'[t].c = c /\ thr'[t].d = d
       /\ ~LastOut(c) /\ t \in Workers => thr'[t].pc = "idle"
       /\ ~LastOut(c) /\ t \notin Workers /\ d = 1 => thr'[t].pc = "post" /\ thr'[t].c = c /\ thr'[t].d = 2
       /\ ~LastOut(c) /\ t \notin Workers /\ d = 2 => thr'[t].pc = "gone" /\ thr'[t].c = c
  BY <1>2, <1>8, <1>10, AfterTyped
<1>12. t \notin Workers /\ d = 1 => ~LastOut(c)
  <2>1. ASSUME t \notin Workers, d = 1 PROVE Has(t, c, 2)
    BY <1>2, <1>1, <2>1 DEF Has, Holding
  <2>2. ASSUME t \notin Workers, d = 1 PROVE dir[c][2].at = "held"
    BY <2>1, <2>2, <1>2 DEF Control, Places, Dirs
  <2> QED BY <2>2, <1>5 DEF LastOut, Rest
<1>13. \A u \in Crew : u # t => ~Has(u, c, d)
  BY <1>2, <1>4 DEF Control, Places
<1>14. \A e \in Conns, f \in Dirs : Has(t, e, f)' <=> Has(t, e, f) /\ <<e, f>> # <<c, d>>
  <2>1. CASE LastOut(c)
    <3>1. \A e \in Conns, f \in Dirs : Has(t, e, f) => e = c /\ f = d
      BY <1>1, <1>2, <1>12, <2>1 DEF Has, Dirs
    <3> QED BY <1>11, <2>1, <3>1 DEF Has, Holding
  <2>2. CASE ~LastOut(c) /\ t \in Workers
    <3>1. \A e \in Conns, f \in Dirs : Has(t, e, f) => e = c /\ f = d
      BY <1>1, <1>2, <2>2 DEF Has, Dirs
    <3> QED BY <1>11, <2>2, <3>1 DEF Has, Holding
  <2>3. CASE ~LastOut(c) /\ t \notin Workers
    BY <1>1, <1>2, <1>11, <2>3 DEF Has, Holding, Dirs
  <2> QED BY <2>1, <2>2, <2>3
<1>15. Places'
  <2>1. \A u \in Crew, e \in Conns, f \in Dirs :
          Has(u, e, f)' <=> Has(u, e, f) /\ <<e, f>> # <<c, d>>
    <3>1. \A u \in Crew, e \in Conns, f \in Dirs : u # t => (Has(u, e, f)' <=> Has(u, e, f))
      BY <1>9 DEF Has
    <3> QED BY <3>1, <1>13, <1>14
  <2>2. \A e \in Conns, f \in Dirs :
          dir'[e][f].at = "held" <=> dir[e][f].at = "held" /\ <<e, f>> # <<c, d>>
    BY <1>7
  <2> QED BY <2>1, <2>2 DEF Control, Places
<1>16. Counted'
  <2>1. \A e \in Conns, f \in Dirs : Rest(e, f)' = IF <<e, f>> = <<c, d>> THEN 0 ELSE Rest(e, f)
    BY <1>7 DEF Rest
  <2>2. ASSUME NEW e \in Conns, e # c
        PROVE  /\ relay'[e] = relay[e]
               /\ \A f \in Dirs : dir'[e][f] = dir[e][f] /\ Rest(e, f)' = Rest(e, f)
    BY <2>1, <2>2, <1>6, <1>7
  <2>3. /\ relay'[c].phase = "live" /\ \A f \in Dirs : dir'[c][f].at # "new"
    BY <1>2, <1>4, <1>6, <1>7 DEF Live, Control, Counted
  <2>4. relay'[c].refs = Rest(c, 1)' + Rest(c, 2)'
    BY <1>2, <1>5, <1>6, <2>1 DEF Dirs
  <2>5. ASSUME NEW e \in Conns, e # c
        PROVE  /\ relay'[e].phase = "none" =>
                    /\ relay'[e] = NewRelay
                    /\ \A f \in Dirs : /\ dir'[e][f] = NewDir
                                       /\ supply'[e][f] = Units[f] /\ avail'[e][f] = 0 /\ out'[e][f] = 0
               /\ Live(e)' => /\ \A f \in Dirs : dir'[e][f].at # "new"
                              /\ relay'[e].refs = Rest(e, 1)' + Rest(e, 2)'
               /\ relay'[e].phase = "freed" => \A f \in Dirs : dir'[e][f].at = "ended"
    BY <2>2, <2>5, <1>3 DEF Control, Counted, Live, Dirs
  <2> QED BY <2>3, <2>4, <2>5 DEF Counted
<1>17. Roles'
  BY <1>2, <1>4, <1>6, <1>9, <1>11, ThreadSorts DEF Control, Roles, Live
<1>18. Walking'
  BY <1>3, <1>6, <1>9, WalkKept DEF Control, Walking, Live
<1>19. LastHands'
  <2>1. CASE ~LastOut(c)
    <3>1. \A u \in Crew : thr'[u].pc \in {"unlink", "free"} => thr'[u] = thr[u]
      BY <1>2, <1>9, <1>11, <2>1
    <3>2. \A e \in Conns : Live(e) /\ relay[e].refs = 0 =>
             Live(e)' /\ relay'[e].refs = 0 /\ (relay'[e].listed => relay[e].listed)
      BY <1>2, <1>5, <1>6 DEF Live, Dirs
    <3> QED BY <3>1, <3>2, LastHandsKept DEF Control
  <2>2. CASE LastOut(c)
    <3>1. relay[c].refs = 1 /\ relay'[c].refs = 0
      BY <1>6, <2>2 DEF LastOut
    <3>2. ASSUME NEW u \in Crew, u # t, thr'[u].pc \in {"unlink", "free"}
          PROVE  /\ thr'[u] = thr[u] /\ thr[u].c \in Conns /\ thr[u].c # c
                 /\ relay'[thr'[u].c].phase = "live" /\ relay'[thr'[u].c].refs = 0
                 /\ u \in Conns => thr'[u].d = 2
                 /\ thr'[u].pc = "free" => ~relay'[thr'[u].c].listed
      <4>1. thr'[u] = thr[u]
        BY <1>9, <3>2
      <4>2. /\ thr[u].c \in Conns /\ Live(thr[u].c) /\ relay[thr[u].c].refs = 0
            /\ u \in Conns => thr[u].d = 2
            /\ thr[u].pc = "free" => ~relay[thr[u].c].listed
        BY <3>2, <4>1, ThreadSorts DEF Control, Roles, LastHands, Crew
      <4> QED BY <3>1, <4>1, <4>2, <1>6 DEF Live
    <3>3. /\ thr'[t].pc = "unlink" /\ thr'[t].c = c /\ relay'[c].phase = "live"
          /\ t \in Conns => thr'[t].d = 2
      BY <1>2, <1>4, <1>6, <1>11, <1>12, <2>2 DEF Live
    <3>4. ASSUME NEW u \in Crew, NEW v \in Crew, thr'[u].pc \in {"unlink", "free"},
                 thr'[v].pc \in {"unlink", "free"}, thr'[u].c = thr'[v].c
          PROVE  u = v
      BY <3>2, <3>3, <3>4 DEF Control, LastHands
    <3> QED BY <3>1, <3>2, <3>3, <3>4 DEF LastHands, Live
  <2> QED BY <2>1, <2>2
<1>20. Started'
  <2>1. ASSUME t \in Conns, NEW f \in Dirs, thr'[t].pc \in Holding,
               thr'[t].d < f \/ (thr'[t].d = f /\ thr'[t].pc = "post")
        PROVE  dir'[t][f] = [NewDir EXCEPT !.at = "held"]
    <3>1. t = c /\ t \notin Workers /\ ~LastOut(c) /\ d = 1
      BY <1>2, <1>11, <2>1 DEF Holding
    <3>2. f = 2
      BY <1>11, <2>1, <3>1 DEF Dirs
    <3>3. dir[t][f] = [NewDir EXCEPT !.at = "held"]
      BY <1>1, <1>2, <3>1, <3>2 DEF Control, Started, Holding, Dirs
    <3>4. t \in Conns /\ <<t, f>> # <<c, d>>
      BY <2>1, <3>1, <3>2
    <3> QED BY <3>3, <3>4, <1>7
  <2>2. t \in Workers => thr'[t].pc # "serve"
    BY <1>11
  <2> QED BY <1>7, <1>8, <1>13, <2>1, <2>2, StartedKept DEF Control
<1> QED BY <1>15, <1>16, <1>17, <1>18, <1>19, <1>20 DEF Control

\* The last thread takes the relay off the list.
LEMMA ControlUnlink ==
  ASSUME Types, Control, NEW t \in Crew, Unlink(t)
  PROVE  Control'
<1>1. PICK c, d : c = thr[t].c /\ d = thr[t].d
  OBVIOUS
<1>2. /\ thr[t].pc = "unlink" /\ t \in Threads /\ t # Stopper /\ ~lock
      /\ c \in Conns /\ d \in Dirs
      /\ t \in Workers => t \notin Conns
      /\ t \notin Workers => t = c /\ t \in Conns
  BY <1>1, ThreadSorts, ThreadTypes DEF Unlink, LockFree, Control, Roles, Crew
<1>3. /\ relay' = [relay EXCEPT ![c].listed = FALSE]
      /\ thr' = [thr EXCEPT ![t].pc = "free"]
      /\ UNCHANGED <<lock, todo, dir, supply, avail, out>>
  BY <1>1 DEF Unlink, endVars, stopVars
<1>4. Live(c) /\ relay[c].refs = 0 /\ (t \in Conns => d = 2)
  BY <1>1, <1>2 DEF Control, LastHands
<1>5. /\ \A e \in Conns : /\ relay'[e].phase = relay[e].phase /\ relay'[e].refs = relay[e].refs
                          /\ e # c => relay'[e] = relay[e]
      /\ ~relay'[c].listed
  <2>1. relay \in [Conns -> Relays] /\ relay[c] \in Relays
    BY <1>2 DEF Types
  <2>2. relay'[c] = [relay[c] EXCEPT !.listed = FALSE] /\ \A e \in Conns : e # c => relay'[e] = relay[e]
    BY <1>2, <1>3, <2>1
  <2> QED BY <2>1, <2>2 DEF Relays
<1>6. thr'[t].pc = "free" /\ thr'[t].c = c /\ thr'[t].d = d /\ Only(t)
  <2>1. PICK x \in ThreadStates : /\ thr' = [thr EXCEPT ![t] = x]
                                  /\ x.pc = "free" /\ x.c = thr[t].c /\ x.d = thr[t].d
    BY <1>2, <1>3, PcBecomes, ZenonT(30)
  <2> QED BY <1>1, <1>2, <2>1, ThreadMoves DEF Only
<1>7. /\ \A u \in Crew : u # t => thr'[u] = thr[u]
      /\ thr'[Stopper] = thr[Stopper]
  BY <1>6, ThreadSorts DEF Only
<1>8. \A u \in Crew, e \in Conns, f \in Dirs : Has(u, e, f)' <=> Has(u, e, f)
  <2>1. \A e \in Conns, f \in Dirs : ~Has(t, e, f) /\ ~Has(t, e, f)'
    BY <1>2, <1>6 DEF Has, Holding
  <2> QED BY <1>7, <2>1 DEF Has
<1>9. Places'
  BY <1>3, <1>8 DEF Control, Places
<1>10. Counted'
  <2>1. \A e \in Conns, f \in Dirs : Rest(e, f)' = Rest(e, f)
    BY <1>3 DEF Rest
  <2> QED BY <1>3, <1>4, <1>5, <2>1 DEF Control, Counted, Live, Dirs
<1>11. Roles'
  BY <1>2, <1>5, <1>6, <1>7, ThreadSorts DEF Control, Roles
<1>12. Walking'
  <2>1. \A e \in Conns : relay'[e].listed => relay'[e].phase = "live"
    BY <1>5 DEF Control, Walking, Live
  <2> QED BY <1>2, <1>3, <1>7, <2>1, WalkKept DEF Control
<1>13. LastHands'
  <2>1. ASSUME NEW u \in Crew, u # t, thr'[u].pc \in {"unlink", "free"}
        PROVE  /\ thr'[u] = thr[u] /\ thr[u].c \in Conns /\ thr[u].c # c
               /\ relay'[thr'[u].c].phase = "live" /\ relay'[thr'[u].c].refs = 0
               /\ u \in Conns => thr'[u].d = 2
               /\ thr'[u].pc = "free" => ~relay'[thr'[u].c].listed
    <3>1. thr'[u] = thr[u]
      BY <1>7, <2>1
    <3>2. /\ thr[u].c \in Conns /\ Live(thr[u].c) /\ relay[thr[u].c].refs = 0
          /\ u \in Conns => thr[u].d = 2
          /\ thr[u].pc = "free" => ~relay[thr[u].c].listed
          /\ thr[u].c # c
      BY <2>1, <3>1, <1>1, <1>2, ThreadSorts DEF Control, Roles, LastHands, Crew
    <3> QED BY <3>1, <3>2, <1>5 DEF Live
  <2>2. relay'[c].phase = "live" /\ relay'[c].refs = 0
    BY <1>2, <1>4, <1>5 DEF Live
  <2>3. ASSUME NEW u \in Crew, NEW v \in Crew, thr'[u].pc \in {"unlink", "free"},
               thr'[v].pc \in {"unlink", "free"}, thr'[u].c = thr'[v].c
        PROVE  u = v
    BY <1>6, <2>1, <2>3 DEF Control, LastHands
  <2> QED BY <1>4, <1>5, <1>6, <2>1, <2>2, <2>3 DEF LastHands, Live
<1>14. Started'
  <2>1. thr'[t].pc \notin Holding /\ thr'[t].pc # "serve"
    BY <1>6 DEF Holding
  <2> QED BY <1>3, <1>6, <2>1, StartedKept DEF Control
<1> QED BY <1>9, <1>10, <1>11, <1>12, <1>13, <1>14 DEF Control

\* And frees it.
LEMMA ControlFree ==
  ASSUME Types, Control, NEW t \in Crew, Free(t)
  PROVE  Control'
<1>1. PICK c, d : c = thr[t].c /\ d = thr[t].d
  OBVIOUS
<1>2. /\ thr[t].pc = "free" /\ t \in Threads /\ t # Stopper
      /\ c \in Conns /\ d \in Dirs
      /\ t \in Workers => t \notin Conns
      /\ t \notin Workers => t = c /\ t \in Conns
  BY <1>1, ThreadSorts, ThreadTypes DEF Free, LockFree, Control, Roles, Crew
<1>3. /\ relay' = [relay EXCEPT ![c].phase = "freed"]
      /\ dir' = [dir EXCEPT ![c] = [f \in Dirs |-> [@[f] EXCEPT !.buf = FALSE]]]
      /\ thr' = [thr EXCEPT ![t] = After(t, c, d)]
      /\ UNCHANGED <<lock, todo, supply, avail, out>>
  BY <1>1 DEF Free, endVars, stopVars
<1>4. /\ Live(c) /\ relay[c].refs = 0 /\ (t \in Conns => d = 2) /\ ~relay[c].listed
      /\ dir[c][1].at = "ended" /\ dir[c][2].at = "ended"
  <2>1. Live(c) /\ relay[c].refs = 0 /\ (t \in Conns => d = 2) /\ ~relay[c].listed
    BY <1>1, <1>2 DEF Control, LastHands
  <2>2. Rest(c, 1) + Rest(c, 2) = 0
    BY <1>2, <2>1 DEF Control, Counted
  <2> QED BY <2>1, <2>2 DEF Rest
<1>5. /\ \A e \in Conns : e # c => relay'[e] = relay[e]
      /\ relay'[c].phase = "freed" /\ ~relay'[c].listed
  <2>1. relay \in [Conns -> Relays] /\ relay[c] \in Relays
    BY <1>2 DEF Types
  <2>2. relay'[c] = [relay[c] EXCEPT !.phase = "freed"] /\ \A e \in Conns : e # c => relay'[e] = relay[e]
    BY <1>2, <1>3, <2>1
  <2> QED BY <2>1, <2>2, <1>4 DEF Relays
<1>6. Only(t) /\ thr'[t] = After(t, c, d)
  BY <1>2, <1>3, AfterTyped, ThreadMoves DEF Only
<1>7. /\ \A u \in Crew : u # t => thr'[u] = thr[u]
      /\ thr'[Stopper] = thr[Stopper]
      /\ thr'[t].pc = IF t \in Workers THEN "idle" ELSE "gone"
      /\ t \notin Workers => thr'[t].c = c
  BY <1>2, <1>4, <1>6, ThreadSorts, AfterTyped DEF Only
<1>8. \A u \in Crew, e \in Conns, f \in Dirs : Has(u, e, f)' <=> Has(u, e, f)
  <2>1. \A e \in Conns, f \in Dirs : ~Has(t, e, f) /\ ~Has(t, e, f)'
    BY <1>2, <1>7 DEF Has, Holding
  <2> QED BY <1>7, <2>1 DEF Has
<1>9. \A e \in Conns, f \in Dirs : /\ dir'[e][f].at = dir[e][f].at
                                   /\ e # c => dir'[e][f] = dir[e][f]
  <2>1. dir \in [Conns -> [Dirs -> DirStates]]
    BY DEF Types
  <2>2. /\ \A e \in Conns : e # c => dir'[e] = dir[e]
        /\ \A f \in Dirs : dir'[c][f] = [dir[c][f] EXCEPT !.buf = FALSE] /\ dir[c][f] \in DirStates
    BY <1>2, <1>3, <2>1
  <2>3. \A f \in Dirs : dir'[c][f].at = dir[c][f].at
    BY <2>2 DEF DirStates
  <2> QED BY <2>2, <2>3
<1>10. Places'
  BY <1>8, <1>9 DEF Control, Places
<1>11. Counted'
  <2>1. \A e \in Conns, f \in Dirs : Rest(e, f)' = Rest(e, f)
    BY <1>9 DEF Rest
  <2>2. \A f \in Dirs : dir'[c][f].at = "ended"
    BY <1>2, <1>4, <1>9 DEF Dirs
  <2>3. \A e \in Conns : e # c => relay'[e] = relay[e] /\ \A f \in Dirs : dir'[e][f] = dir[e][f]
    BY <1>5, <1>9
  <2>4. ASSUME NEW e \in Conns, e # c
        PROVE  /\ relay'[e].phase = "none" =>
                    /\ relay'[e] = NewRelay
                    /\ \A f \in Dirs : /\ dir'[e][f] = NewDir
                                       /\ supply'[e][f] = Units[f] /\ avail'[e][f] = 0 /\ out'[e][f] = 0
               /\ Live(e)' => /\ \A f \in Dirs : dir'[e][f].at # "new"
                              /\ relay'[e].refs = Rest(e, 1)' + Rest(e, 2)'
               /\ relay'[e].phase = "freed" => \A f \in Dirs : dir'[e][f].at = "ended"
    BY <1>3, <2>1, <2>3, <2>4 DEF Control, Counted, Live, Dirs
  <2> QED BY <1>5, <2>2, <2>4 DEF Counted, Live
<1>12. Roles'
  BY <1>2, <1>4, <1>5, <1>7, ThreadSorts DEF Control, Roles, Live
<1>13. Walking'
  <2>1. \A e \in Conns : relay'[e].listed => relay'[e].phase = "live"
    BY <1>5 DEF Control, Walking, Live
  <2> QED BY <1>2, <1>3, <1>7, <2>1, WalkKept DEF Control
<1>14. LastHands'
  <2>1. ASSUME NEW u \in Crew, thr'[u].pc \in {"unlink", "free"}
        PROVE  /\ thr'[u] = thr[u] /\ thr[u].c \in Conns
               /\ relay'[thr'[u].c].phase = "live" /\ relay'[thr'[u].c].refs = 0
               /\ u \in Conns => thr'[u].d = 2
               /\ thr'[u].pc = "free" => ~relay'[thr'[u].c].listed
    <3>1. u # t /\ thr'[u] = thr[u]
      BY <1>7, <2>1
    <3>2. /\ thr[u].c \in Conns /\ Live(thr[u].c) /\ relay[thr[u].c].refs = 0
          /\ u \in Conns => thr[u].d = 2
          /\ thr[u].pc = "free" => ~relay[thr[u].c].listed
          /\ thr[u].c # c
      BY <2>1, <3>1, <1>1, <1>2, ThreadSorts DEF Control, Roles, LastHands, Crew
    <3> QED BY <3>1, <3>2, <1>5 DEF Live
  <2>2. ASSUME NEW u \in Crew, NEW v \in Crew, thr'[u].pc \in {"unlink", "free"},
               thr'[v].pc \in {"unlink", "free"}, thr'[u].c = thr'[v].c
        PROVE  u = v
    BY <2>1, <2>2 DEF Control, LastHands
  <2> QED BY <2>1, <2>2 DEF LastHands, Live
<1>15. Started'
  <2>1. thr'[t].pc \notin Holding /\ thr'[t].pc # "serve"
    BY <1>7 DEF Holding
  <2>2. \A e \in Conns, f \in Dirs : dir'[e][f] = dir[e][f] \/ \A u \in Crew : u # t => ~Has(u, e, f)
    BY <1>4, <1>9 DEF Control, Places, Dirs
  <2> QED BY <1>6, <2>1, <2>2, StartedKept DEF Control
<1> QED BY <1>10, <1>11, <1>12, <1>13, <1>14, <1>15 DEF Control

\* A handler makes its relay, and has both directions of it.
LEMMA ControlInsert ==
  ASSUME Types, Control, NEW c \in Conns, Insert(c)
  PROVE  Control'
<1> DEFINE r == [NewRelay EXCEPT !.phase = "live", !.refs = 2, !.listed = TRUE]
           s == [NewDir EXCEPT !.at = "held"]
<1>1. /\ thr[c].pc = "insert" /\ ~lock
      /\ relay' = [relay EXCEPT ![c] = r]
      /\ dir' = [dir EXCEPT ![c] = [d \in Dirs |-> s]]
      /\ thr' = [thr EXCEPT ![c] = At("post", c, 1)]
      /\ UNCHANGED <<lock, todo, supply, avail, out>>
  BY DEF Insert, endVars, stopVars
<1>2. /\ c \in Crew /\ c \in Threads /\ c # Stopper /\ c \notin Workers
      /\ relay[c].phase = "none" /\ \A d \in Dirs : dir[c][d] = NewDir
  BY <1>1, ThreadSorts DEF Control, Roles, Counted
<1>3. /\ r \in Relays /\ r.phase = "live" /\ r.refs = 2 /\ r.listed /\ s.at = "held"
  <2>1. NewRelay \in Relays
    BY DEF NewRelay, Relays
  <2>2. r \in Relays /\ r.phase = "live" /\ r.refs = 2 /\ r.listed = TRUE
    <3>1. PICK x : x = [NewRelay EXCEPT !.phase = "live"]
      OBVIOUS
    <3>2. x \in Relays /\ x.phase = "live"
      BY <2>1, <3>1 DEF Relays
    <3>3. PICK y : y = [x EXCEPT !.refs = 2]
      OBVIOUS
    <3>4. y \in Relays /\ y.phase = "live" /\ y.refs = 2
      BY <3>2, <3>3 DEF Relays
    <3>5. PICK z : z = [y EXCEPT !.listed = TRUE]
      OBVIOUS
    <3>6. z \in Relays /\ z.phase = "live" /\ z.refs = 2 /\ z.listed = TRUE
      BY <3>4, <3>5 DEF Relays
    <3>7. r = z
      BY <3>1, <3>3, <3>5
    <3> QED BY <3>6, <3>7
  <2>3. NewDir \in DirStates
    BY RelayAssumption DEF NewDir, DirStates
  <2>4. s.at = "held"
    BY <2>3 DEF DirStates
  <2> QED BY <2>2, <2>4
<1> HIDE DEF r
<1>4. relay'[c] = r /\ \A e \in Conns : e # c => relay'[e] = relay[e]
  BY <1>1, <1>3, RelayBecomes
<1>5. /\ \A d \in Dirs : dir'[c][d] = s
      /\ \A e \in Conns : e # c => dir'[e] = dir[e]
  BY <1>1 DEF Types
<1> HIDE DEF s
<1>6. /\ thr'[c].pc = "post" /\ thr'[c].c = c /\ thr'[c].d = 1
      /\ Only(c) /\ \A u \in Crew : u # c => thr'[u] = thr[u]
      /\ thr'[Stopper] = thr[Stopper]
  <2>1. At("post", c, 1) \in ThreadStates /\ At("post", c, 1).pc = "post"
        /\ At("post", c, 1).c = c /\ At("post", c, 1).d = 1
    BY AtTyped DEF Dirs
  <2>2. thr'[c] = At("post", c, 1) /\ Only(c)
    BY <1>1, <1>2, <2>1, ThreadMoves DEF Only
  <2> QED BY <1>2, <2>1, <2>2, ThreadSorts DEF Only
<1>7. \A u \in Crew, e \in Conns, f \in Dirs : Has(u, e, f)' <=> Has(u, e, f) \/ (u = c /\ e = c)
  <2>1. \A e \in Conns, f \in Dirs : ~Has(c, e, f)
    BY <1>1 DEF Has, Holding
  <2>2. \A e \in Conns, f \in Dirs : Has(c, e, f)' <=> e = c
    BY <1>6 DEF Has, Holding, Dirs
  <2> QED BY <1>6, <2>1, <2>2 DEF Has
<1>8. \A u \in Crew, f \in Dirs : ~Has(u, c, f)
  BY <1>2 DEF Control, Places, NewDir
<1>9. Places'
  BY <1>2, <1>3, <1>5, <1>7, <1>8 DEF Control, Places
<1>10. Counted'
  <2>1. ASSUME NEW e \in Conns, e # c
        PROVE  /\ relay'[e].phase = "none" =>
                    /\ relay'[e] = NewRelay
                    /\ \A f \in Dirs : /\ dir'[e][f] = NewDir
                                       /\ supply'[e][f] = Units[f] /\ avail'[e][f] = 0 /\ out'[e][f] = 0
               /\ Live(e)' => /\ \A f \in Dirs : dir'[e][f].at # "new"
                              /\ relay'[e].refs = Rest(e, 1)' + Rest(e, 2)'
               /\ relay'[e].phase = "freed" => \A f \in Dirs : dir'[e][f].at = "ended"
    <3>1. relay'[e] = relay[e] /\ dir'[e] = dir[e]
      BY <1>4, <1>5, <2>1
    <3> QED BY <1>1, <3>1 DEF Control, Counted, Live, Rest
  <2>2. Rest(c, 1)' = 1 /\ Rest(c, 2)' = 1
    BY <1>3, <1>5 DEF Rest, Dirs
  <2>3. \A f \in Dirs : dir'[c][f].at # "new"
    BY <1>3, <1>5
  <2> QED BY <1>3, <1>4, <2>1, <2>2, <2>3 DEF Counted, Live
<1>11. Roles'
  BY <1>2, <1>4, <1>6, ThreadSorts DEF Control, Roles
<1>12. Walking'
  <2>1. \A e \in Conns : relay'[e].listed => relay'[e].phase = "live"
    BY <1>3, <1>4 DEF Control, Walking, Live
  <2> QED BY <1>1, <1>6, <2>1, WalkKept DEF Control
<1>13. LastHands'
  <2>1. \A u \in Crew : thr'[u].pc \in {"unlink", "free"} => thr'[u] = thr[u]
    BY <1>6
  <2>2. \A e \in Conns : Live(e) => relay'[e] = relay[e]
    BY <1>2, <1>4 DEF Live
  <2> QED BY <2>1, <2>2, LastHandsKept DEF Control, Live
<1>14. Started'
  <2>1. \A e \in Conns, f \in Dirs : dir'[e][f] = dir[e][f] \/ \A u \in Crew : u # c => ~Has(u, e, f)
    BY <1>5, <1>8
  <2> QED BY <1>2, <1>5, <1>6, <2>1, StartedKept DEF Control, s
<1> QED BY <1>9, <1>10, <1>11, <1>12, <1>13, <1>14 DEF Control

-----------------------------------------------------------------------------
(* Data *)

Data == Types /\ Cells /\ Totals

\* A direction nothing happens to.
LEMMA CellSame ==
  ASSUME NEW c \in Conns, NEW d \in Dirs, Operations(c, d) /\ Balance(c, d),
         dir'[c][d] = dir[c][d], relay'[c].phase = relay[c].phase, relay'[c].shut = relay[c].shut,
         supply'[c][d] = supply[c][d], avail'[c][d] = avail[c][d], out'[c][d] = out[c][d]
  PROVE  Operations(c, d)' /\ Balance(c, d)'
BY DEF Operations, Balance, Live

\* The buffers in use and the relays that live, where they are the same.
LEMMA TotalsSame ==
  ASSUME Totals, UNCHANGED <<pool, mem, active>>,
         \A c \in Conns : Live(c)' <=> Live(c),
         \A c \in Conns, d \in Dirs : dir'[c][d].buf = dir[c][d].buf
  PROVE  Totals'
<1>1. Buffers' = Buffers
  BY DEF Buffers
<1>2. {c \in Conns : Live(c)}' = {c \in Conns : Live(c)}
  OBVIOUS
<1> QED BY <1>1, <1>2 DEF Totals

\* Steps of control alone.
LEMMA DataQuiet ==
  ASSUME Data, UNCHANGED <<dir, endVars, pool, mem, active>>,
         relay' \in [Conns -> Relays],
         \A c \in Conns : relay'[c].phase = relay[c].phase /\ relay'[c].shut = relay[c].shut,
         thr' \in [Threads -> ThreadStates],
         running' \in BOOLEAN, iocp' \in BOOLEAN, lock' \in BOOLEAN,
         exits' \in 0..Cardinality(Workers), todo' \subseteq Conns
  PROVE  Data'
<1>1. Types'
  BY DEF Data, Types, endVars
<1>2. Cells'
  BY CellSame DEF Data, Cells, endVars
<1>3. Totals'
  BY TotalsSame DEF Data, Live
<1> QED BY <1>1, <1>2, <1>3 DEF Data

\* One number of a table.
LEMMA Entry ==
  ASSUME NEW f \in [Conns -> [Dirs -> Nat]], NEW c \in Conns, NEW d \in Dirs, NEW n \in Nat
  PROVE  /\ [f EXCEPT ![c][d] = n] \in [Conns -> [Dirs -> Nat]]
         /\ [f EXCEPT ![c][d] = n][c][d] = n
         /\ \A x \in Conns, y \in Dirs : <<x, y>> # <<c, d>> => [f EXCEPT ![c][d] = n][x][y] = f[x][y]
OBVIOUS

\* The ends: a unit moves from the source into the kernel.
LEMMA DataEnds ==
  ASSUME Data, Ends
  PROVE  Data'
<1>1. UNCHANGED <<stopVars, relay, dir, thr, poolVars, active, out>>
  BY DEF Ends, Breaks, Sends, Finishes, endVars
<1>2. Totals'
  BY <1>1, TotalsSame DEF Data, Live, poolVars
<1>3. CASE UNCHANGED <<supply, avail>> /\ eof' \subseteq Conns \X Dirs /\ broken' \subseteq Conns
  <2>1. Types'
    BY <1>1, <1>3 DEF Data, Types, stopVars, poolVars
  <2>2. Cells'
    BY <1>1, <1>3, CellSame DEF Data, Cells
  <2> QED BY <1>2, <2>1, <2>2 DEF Data
<1>4. ASSUME NEW c \in Conns, NEW d \in Dirs, Sends(c, d)
      PROVE  Data'
  <2>1. supply[c][d] \in Nat \ {0} /\ avail[c][d] \in Nat /\ UNCHANGED <<eof, broken>>
    BY <1>4 DEF Sends, Data, Types
  <2>2. supply' = [supply EXCEPT ![c][d] = supply[c][d] - 1]
        /\ avail' = [avail EXCEPT ![c][d] = avail[c][d] + 1]
    BY <1>4 DEF Sends
  <2>3. supply[c][d] - 1 \in Nat /\ avail[c][d] + 1 \in Nat
    BY <2>1
  <2>4. /\ supply' \in [Conns -> [Dirs -> Nat]] /\ avail' \in [Conns -> [Dirs -> Nat]]
        /\ supply'[c][d] = supply[c][d] - 1 /\ avail'[c][d] = avail[c][d] + 1
        /\ \A x \in Conns, y \in Dirs : <<x, y>> # <<c, d>> =>
             supply'[x][y] = supply[x][y] /\ avail'[x][y] = avail[x][y]
    BY <2>2, <2>3, Entry DEF Data, Types
  <2>5. Types'
    BY <1>1, <2>1, <2>4 DEF Data, Types, stopVars, poolVars
  <2>6. Operations(c, d)' /\ Balance(c, d)'
    <3>1. Operations(c, d) /\ Balance(c, d)
      BY DEF Data, Cells
    <3>2. out[c][d] \in Nat
      BY DEF Data, Types
    <3>3. supply'[c][d] + avail'[c][d] + out'[c][d] = supply[c][d] + avail[c][d] + out[c][d]
      <4>1. out' = out
        BY <1>1
      <4>2. supply'[c][d] = supply[c][d] - 1 /\ avail'[c][d] = avail[c][d] + 1
        BY <2>4
      <4>3. supply[c][d] \in Int /\ avail[c][d] \in Int /\ out[c][d] \in Int
        BY <2>1, <3>2
      <4> QED BY <4>1, <4>2, <4>3
    <3> QED BY <1>1, <3>1, <3>3 DEF Operations, Balance, Live
  <2>7. \A x \in Conns, y \in Dirs : <<x, y>> # <<c, d>> => Operations(x, y)' /\ Balance(x, y)'
    BY <1>1, <2>4, CellSame DEF Data, Cells
  <2>8. Cells'
    BY <2>6, <2>7 DEF Cells
  <2> QED BY <1>2, <2>5, <2>8 DEF Data
<1>5. ASSUME NEW c \in Conns, Breaks(c) \/ \E d \in Dirs : Finishes(c, d)
      PROVE  UNCHANGED <<supply, avail>> /\ eof' \subseteq Conns \X Dirs /\ broken' \subseteq Conns
  <2>1. CASE Breaks(c)
    BY <2>1 DEF Breaks, Data, Types
  <2>2. ASSUME NEW d \in Dirs, Finishes(c, d)
        PROVE  UNCHANGED <<supply, avail>> /\ eof' \subseteq Conns \X Dirs /\ broken' \subseteq Conns
    BY <2>2 DEF Finishes, Data, Types
  <2> QED BY <1>5, <2>1, <2>2
<1> QED BY <1>3, <1>4, <1>5 DEF Ends

\* Part of a sum is exchanged.
LEMMA Sums ==
  ASSUME NEW s \in Int, NEW a \in Int, NEW o \in Int, NEW h \in Int, NEW b \in Int, NEW p \in Int,
         NEW i \in Int, NEW u \in Int, s + a + o + h = u, b + p + i = a + o + h
  PROVE  s + b + p + i = u
OBVIOUS

\* One direction moves on, with what there is in hand and in the kernel.
LEMMA DataCell ==
  ASSUME Data, NEW c \in Conns, NEW d \in Dirs, NEW r \in DirStates,
         dir' = [dir EXCEPT ![c][d] = r], Live(c), r.at # "ended", dir[c][d].at # "ended",
         r.state = "send" => r.off + r.n <= r.len,
         r.at = "pending" /\ r.state # "wait" => r.buf,
         avail' \in [Conns -> [Dirs -> Nat]], out' \in [Conns -> [Dirs -> Nat]],
         \A x \in Conns, y \in Dirs : <<x, y>> # <<c, d>> =>
           avail'[x][y] = avail[x][y] /\ out'[x][y] = out[x][y],
         supply[c][d] + avail'[c][d] + out'[c][d] <= Units[d],
         ~relay[c].shut =>
           avail'[c][d] + out'[c][d] + InHand(r) = avail[c][d] + out[c][d] + InHand(dir[c][d]),
         UNCHANGED <<relay, supply, eof, broken, running, iocp, exits, lock, todo>>,
         thr' \in [Threads -> ThreadStates], pool' \in 0..Keep,
         Totals'
  PROVE  Data'
<1>1. /\ dir' \in [Conns -> [Dirs -> DirStates]] /\ dir'[c][d] = r
      /\ \A x \in Conns, y \in Dirs : <<x, y>> # <<c, d>> => dir'[x][y] = dir[x][y]
  <2>1. dir \in [Conns -> [Dirs -> DirStates]]
    BY DEF Data, Types
  <2> QED BY <2>1
<1>2. Types'
  BY <1>1 DEF Data, Types
<1>3. Operations(c, d)'
  BY <1>1 DEF Operations, Live
<1>4. Balance(c, d)'
  <2>1. /\ supply[c][d] \in Nat /\ avail[c][d] \in Nat /\ out[c][d] \in Nat /\ Units[d] \in Nat
        /\ avail'[c][d] \in Nat /\ out'[c][d] \in Nat
        /\ InHand(dir[c][d]) \in Int /\ InHand(r) \in Int
    <3>1. \A s \in DirStates : InHand(s) \in Int
      <4>1. 0..BufSize \subseteq Int
        BY RelayAssumption
      <4>2. ASSUME NEW s \in DirStates PROVE InHand(s) \in Int
        <5>1. s.n \in Int /\ s.len \in Int /\ s.off \in Int
          BY <4>1 DEF DirStates
        <5> QED BY <5>1 DEF InHand
      <4> QED BY <4>2
    <3>2. InHand(dir[c][d]) \in Int /\ InHand(r) \in Int
      BY <3>1 DEF Data, Types
    <3>3. supply[c][d] \in Nat /\ avail[c][d] \in Nat /\ out[c][d] \in Nat /\ Units[d] \in Nat
      BY RelayAssumption DEF Data, Types
    <3>4. avail'[c][d] \in Nat /\ out'[c][d] \in Nat
      OBVIOUS
    <3> QED BY <3>2, <3>3, <3>4
  <2>2. ~relay[c].shut => supply[c][d] + avail[c][d] + out[c][d] + InHand(dir[c][d]) = Units[d]
    BY DEF Data, Cells, Balance
  <2>3. ASSUME ~relay[c].shut
        PROVE  supply[c][d] + avail'[c][d] + out'[c][d] + InHand(r) = Units[d]
    <3>1. supply[c][d] + avail[c][d] + out[c][d] + InHand(dir[c][d]) = Units[d]
      BY <2>2, <2>3
    <3>2. avail'[c][d] + out'[c][d] + InHand(r) = avail[c][d] + out[c][d] + InHand(dir[c][d])
      BY <2>3
    <3> QED BY <2>1, <3>1, <3>2, Sums, SMTT(30)
  <2> QED BY <1>1, <2>3 DEF Balance, Live
<1>5. \A x \in Conns, y \in Dirs : <<x, y>> # <<c, d>> => Operations(x, y)' /\ Balance(x, y)'
  BY <1>1, CellSame DEF Data, Cells
<1>6. Cells'
  BY <1>3, <1>4, <1>5 DEF Cells
<1> QED BY <1>2, <1>6 DEF Data

\* A direction that keeps its buffer keeps the totals.
LEMMA TotalsCell ==
  ASSUME Data, NEW c \in Conns, NEW d \in Dirs, NEW r \in DirStates,
         dir' = [dir EXCEPT ![c][d] = r], r.buf = dir[c][d].buf,
         UNCHANGED <<relay, pool, mem, active>>
  PROVE  Totals'
<1>1. \A x \in Conns, y \in Dirs : dir'[x][y].buf = dir[x][y].buf
  BY DirBecomes DEF Data
<1>2. \A x \in Conns : Live(x)' <=> Live(x)
  BY DEF Live
<1> QED BY <1>1, <1>2, TotalsSame DEF Data

\* The numbers of a direction.
LEMMA DirNumbers ==
  ASSUME NEW s \in DirStates
  PROVE  /\ s.n \in Nat /\ s.len \in Nat /\ s.off \in Nat
         /\ s.n <= BufSize /\ s.len <= BufSize /\ s.off <= BufSize
         /\ s.ok \in BOOLEAN /\ s.buf \in BOOLEAN /\ s.state \in {"wait", "read", "send"}
<1>1. BufSize \in Nat
  BY RelayAssumption
<1>2. \A n \in 0..BufSize : n \in Nat /\ n <= BufSize
  BY <1>1
<1> QED BY <1>2 DEF DirStates

\* The system: a wait or a read completes.
LEMMA DataCompletesRead ==
  ASSUME Data, Control, NEW c \in Conns, NEW d \in Dirs, CompletesRead(c, d)
  PROVE  Data'
<1>1. PICK n : n = IF dir[c][d].state = "wait" THEN 0 ELSE Least(avail[c][d], BufSize)
  OBVIOUS
<1>2. /\ dir[c][d].at = "pending" /\ dir[c][d].state # "send"
      /\ dir' = Done(c, d, TRUE, n)
      /\ avail' = [avail EXCEPT ![c][d] = avail[c][d] - n]
      /\ UNCHANGED <<supply, out, eof, broken, stopVars, relay, thr, poolVars, active>>
  BY <1>1 DEF CompletesRead
<1>3. avail[c][d] \in Nat /\ supply[c][d] \in Nat /\ out[c][d] \in Nat /\ Units[d] \in Nat
      /\ dir[c][d] \in DirStates /\ BufSize \in Nat
  BY RelayAssumption DEF Data, Types
<1>4. n \in 0..BufSize /\ n <= avail[c][d] /\ (dir[c][d].state = "wait" => n = 0)
  BY <1>1, <1>3 DEF Least
<1>5. PICK r \in DirStates : /\ dir' = [dir EXCEPT ![c][d] = r]
                             /\ r.at = "done" /\ r.ok = TRUE /\ r.n = n /\ r.state = dir[c][d].state
                             /\ r.buf = dir[c][d].buf
  <2>1. Types
    BY DEF Data
  <2>2. PICK ok \in BOOLEAN : ok = TRUE
    OBVIOUS
  <2>3. dir' = Done(c, d, ok, n)
    BY <1>2, <2>2
  <2>4. PICK r \in DirStates : /\ Done(c, d, ok, n) = [dir EXCEPT ![c][d] = r]
                               /\ r.at = "done" /\ r.ok = ok /\ r.n = n /\ r.state = dir[c][d].state
                               /\ r.buf = dir[c][d].buf
    BY <1>4, <2>1, DoneDir
  <2> QED BY <2>2, <2>3, <2>4
<1>6. avail[c][d] - n \in Nat
  BY <1>3, <1>4
<1>7. /\ avail' \in [Conns -> [Dirs -> Nat]] /\ avail'[c][d] = avail[c][d] - n
      /\ \A x \in Conns, y \in Dirs : <<x, y>> # <<c, d>> => avail'[x][y] = avail[x][y]
  BY <1>2, <1>6, Entry DEF Data, Types
<1>8. Live(c)
  BY <1>2, LiveByDir DEF Data, Control
<1>9. InHand(r) = n /\ InHand(dir[c][d]) = 0
  <2>1. r.state \in {"wait", "read"} /\ dir[c][d].state \in {"wait", "read"}
    BY <1>2, <1>3, <1>5, DirNumbers
  <2> QED BY <1>2, <1>4, <1>5, <2>1 DEF InHand
<1>10. out' = out /\ supply' = supply /\ supply[c][d] + avail[c][d] + out[c][d] <= Units[d]
  BY <1>2 DEF Data, Cells, Balance
<1>11. /\ supply[c][d] + avail'[c][d] + out'[c][d] <= Units[d]
       /\ avail'[c][d] + out'[c][d] + InHand(r) = avail[c][d] + out[c][d] + InHand(dir[c][d])
  BY <1>3, <1>4, <1>7, <1>9, <1>10
<1>12. UNCHANGED <<relay, supply, eof, broken, running, iocp, exits, lock, todo, pool, mem, active, thr, out>>
  BY <1>2 DEF stopVars, poolVars
<1>13. Totals'
  BY <1>5, <1>12, TotalsCell
<1>14. out' \in [Conns -> [Dirs -> Nat]] /\ thr' \in [Threads -> ThreadStates] /\ pool' \in 0..Keep
  BY <1>12 DEF Data, Types
<1> QED BY <1>2, <1>5, <1>7, <1>8, <1>11, <1>12, <1>13, <1>14, DataCell, ZenonT(30)

\* A send completes.
LEMMA DataCompletesSend ==
  ASSUME Data, Control, NEW c \in Conns, NEW d \in Dirs, CompletesSend(c, d)
  PROVE  Data'
<1>1. Live(c) /\ dir[c][d].at = "pending" /\ dir[c][d].state = "send"
  BY LiveByDir DEF CompletesSend, Data, Control
<1>2. PICK n \in 1..(dir[c][d].len - dir[c][d].off) :
        /\ dir' = Done(c, d, TRUE, n)
        /\ out' = [out EXCEPT ![c][d] = IF Carries(c) THEN out[c][d] + n ELSE out[c][d]]
  BY DEF CompletesSend
<1>3. UNCHANGED <<supply, avail, eof, broken, stopVars, relay, thr, poolVars, active>>
  BY DEF CompletesSend
<1>4. avail[c][d] \in Nat /\ supply[c][d] \in Nat /\ out[c][d] \in Nat /\ Units[d] \in Nat
      /\ dir[c][d] \in DirStates /\ BufSize \in Nat
  BY RelayAssumption DEF Data, Types
<1>5. /\ dir[c][d].len \in Nat /\ dir[c][d].off \in Nat /\ dir[c][d].len <= BufSize
      /\ dir[c][d].n \in Nat
  BY <1>4, DirNumbers
<1>6. n \in 0..BufSize /\ n \in Nat /\ dir[c][d].off + n <= dir[c][d].len
  BY <1>4, <1>5
<1>7. PICK r \in DirStates : /\ dir' = [dir EXCEPT ![c][d] = r]
                             /\ r.at = "done" /\ r.ok = TRUE /\ r.n = n /\ r.state = "send"
                             /\ r.buf = dir[c][d].buf
                             /\ r.len = dir[c][d].len /\ r.off = dir[c][d].off
  <2>1. Types
    BY DEF Data
  <2>2. PICK ok \in BOOLEAN : ok = TRUE
    OBVIOUS
  <2>3. dir' = Done(c, d, ok, n)
    BY <1>2, <2>2
  <2>4. PICK r \in DirStates : /\ Done(c, d, ok, n) = [dir EXCEPT ![c][d] = r]
                               /\ r.at = "done" /\ r.ok = ok /\ r.n = n /\ r.state = dir[c][d].state
                               /\ r.buf = dir[c][d].buf
                               /\ r.len = dir[c][d].len /\ r.off = dir[c][d].off
    BY <1>6, <2>1, DoneDir
  <2> QED BY <1>1, <2>2, <2>3, <2>4
<1>8. PICK m \in Nat : m = IF Carries(c) THEN out[c][d] + n ELSE out[c][d]
  BY <1>4, <1>6
<1>9. /\ out' \in [Conns -> [Dirs -> Nat]] /\ out'[c][d] = m
      /\ \A x \in Conns, y \in Dirs : <<x, y>> # <<c, d>> => out'[x][y] = out[x][y]
  BY <1>2, <1>8, Entry DEF Data, Types
<1>10. InHand(r) = dir[c][d].len - dir[c][d].off - n /\ InHand(dir[c][d]) = dir[c][d].len - dir[c][d].off
  BY <1>1, <1>5, <1>7 DEF InHand
<1>11. Carries(c) <=> ~relay[c].shut
  BY <1>1 DEF Carries, Live
<1>12. /\ supply[c][d] + avail[c][d] + out[c][d] <= Units[d]
       /\ ~relay[c].shut => supply[c][d] + avail[c][d] + out[c][d] + InHand(dir[c][d]) = Units[d]
  BY <1>1 DEF Data, Cells, Balance
<1>13. supply' = supply /\ avail' = avail
  BY <1>3
<1>14. /\ supply[c][d] + avail'[c][d] + out'[c][d] <= Units[d]
       /\ ~relay[c].shut =>
            avail'[c][d] + out'[c][d] + InHand(r) = avail[c][d] + out[c][d] + InHand(dir[c][d])
  <2>1. CASE relay[c].shut
    BY <1>8, <1>9, <1>11, <1>12, <1>13, <2>1
  <2>2. CASE ~relay[c].shut
    <3>1. out'[c][d] = out[c][d] + n /\ avail'[c][d] = avail[c][d]
      BY <1>8, <1>9, <1>11, <1>13, <2>2
    <3>2. PICK len, off, m1, m2 \in Nat :
            /\ len = dir[c][d].len /\ off = dir[c][d].off
            /\ m1 = out[c][d] /\ m2 = avail[c][d]
      BY <1>4, <1>5
    <3>3. InHand(r) = len - off - n /\ InHand(dir[c][d]) = len - off
      BY <1>10, <3>2
    <3>4. avail'[c][d] + out'[c][d] + InHand(r) = avail[c][d] + out[c][d] + InHand(dir[c][d])
      BY <1>6, <3>1, <3>2, <3>3
    <3>5. supply[c][d] + avail'[c][d] + out'[c][d] <= Units[d]
      <4>1. PICK u, s0 \in Nat : u = Units[d] /\ s0 = supply[c][d]
        BY <1>4
      <4>2. s0 + m2 + m1 + (len - off) = u /\ off + n <= len
        BY <1>6, <1>12, <2>2, <3>2, <3>3, <4>1
      <4>3. s0 + m2 + (m1 + n) <= u
        BY <1>6, <3>2, <4>1, <4>2
      <4> QED BY <3>1, <3>2, <4>1, <4>3
    <3> QED BY <3>4, <3>5
  <2> QED BY <2>1, <2>2
<1>15. UNCHANGED <<relay, supply, avail, eof, broken, running, iocp, exits, lock, todo, pool, mem, active, thr>>
  BY <1>3 DEF stopVars, poolVars
<1>16. Totals'
  BY <1>7, <1>15, TotalsCell
<1>17. avail' \in [Conns -> [Dirs -> Nat]] /\ thr' \in [Threads -> ThreadStates] /\ pool' \in 0..Keep
  BY <1>15 DEF Data, Types
<1>18. r.off + r.n <= r.len
  BY <1>6, <1>7
<1> QED BY <1>1, <1>7, <1>9, <1>14, <1>15, <1>16, <1>17, <1>18, DataCell

\* An operation fails: an end was reset.
LEMMA DataCompletesFailed ==
  ASSUME Data, Control, NEW c \in Conns, NEW d \in Dirs, CompletesFailed(c, d)
  PROVE  Data'
<1>1. /\ dir[c][d].at = "pending" /\ dir' = Done(c, d, FALSE, 0) /\ Types
      /\ UNCHANGED <<relay, supply, avail, out, eof, broken, running, iocp, exits, lock, todo,
                     pool, mem, active, thr>>
  BY DEF CompletesFailed, endVars, stopVars, poolVars, Data
<1>2. PICK ok \in BOOLEAN, n \in 0..BufSize : ok = FALSE /\ n = 0
  <2>1. 0 \in 0..BufSize
    BY RelayAssumption
  <2>2. FALSE \in BOOLEAN
    OBVIOUS
  <2> QED BY ONLY <2>1, <2>2, Zenon
<1>3. dir' = Done(c, d, ok, n)
  BY <1>1, <1>2
<1>4. PICK r \in DirStates : /\ Done(c, d, ok, n) = [dir EXCEPT ![c][d] = r]
                             /\ r.at = "done" /\ r.ok = ok /\ r.n = n /\ r.state = dir[c][d].state
                             /\ r.buf = dir[c][d].buf
                             /\ r.len = dir[c][d].len /\ r.off = dir[c][d].off
  BY <1>1, DoneDir
<1>5. dir[c][d] \in DirStates
  BY <1>1 DEF Types
<1>6. InHand(r) = InHand(dir[c][d])
  BY <1>1, <1>2, <1>4, <1>5, DirNumbers DEF InHand
<1>7. Live(c)
  BY <1>1, LiveByDir DEF Control
<1>8. dir' = [dir EXCEPT ![c][d] = r]
  BY <1>3, <1>4
<1>9. r.state = "send" => r.off + r.n <= r.len
  <2>1. dir[c][d].state = "send" => dir[c][d].off + dir[c][d].n <= dir[c][d].len
    BY DEF Data, Cells, Operations
  <2>2. dir[c][d].off \in Nat /\ dir[c][d].n \in Nat /\ dir[c][d].len \in Nat
    BY <1>5, DirNumbers
  <2> QED BY <1>2, <1>4, <2>1, <2>2
<1>10. supply[c][d] + avail[c][d] + out[c][d] <= Units[d]
  BY DEF Data, Cells, Balance
<1>11. Totals'
  BY <1>1, <1>4, <1>8, TotalsCell
<1>12. /\ avail' \in [Conns -> [Dirs -> Nat]] /\ out' \in [Conns -> [Dirs -> Nat]]
       /\ thr' \in [Threads -> ThreadStates] /\ pool' \in 0..Keep
  BY <1>1 DEF Types
<1>13. r.at # "ended" /\ dir[c][d].at # "ended" /\ r.at # "pending"
  BY <1>1, <1>4
<1>14. avail' = avail /\ out' = out
  BY <1>1
<1>15. UNCHANGED <<relay, supply, eof, broken, running, iocp, exits, lock, todo>>
  BY <1>1
<1> HIDE DEF InHand
<1> QED BY <1>6, <1>7, <1>8, <1>9, <1>10, <1>11, <1>12, <1>13, <1>14, <1>15, DataCell

\* A completion is taken from the port.
LEMMA DataGet ==
  ASSUME Data, Control, NEW w \in Workers, Get(w)
  PROVE  Data'
<1>1. PICK c \in Conns, d \in Dirs :
        /\ dir[c][d].at = "done"
        /\ dir' = [dir EXCEPT ![c][d].at = "held"]
        /\ thr' = [thr EXCEPT ![w] = At(IF dir[c][d].ok THEN "serve" ELSE "abort", c, d)]
  BY DEF Get
<1>2. /\ Types
      /\ UNCHANGED <<relay, supply, avail, out, eof, broken, running, iocp, exits, lock, todo,
                     pool, mem, active>>
  BY DEF Get, endVars, stopVars, poolVars, Data
<1>3. PICK r \in DirStates :
        /\ [dir EXCEPT ![c][d].at = "held"] = [dir EXCEPT ![c][d] = r]
        /\ r.at = "held" /\ r.ok = dir[c][d].ok /\ r.n = dir[c][d].n /\ r.state = dir[c][d].state
        /\ r.buf = dir[c][d].buf /\ r.len = dir[c][d].len /\ r.off = dir[c][d].off
  BY <1>2, HeldDir
<1>4. dir' = [dir EXCEPT ![c][d] = r]
  BY <1>1, <1>3
<1>5. InHand(r) = InHand(dir[c][d])
  BY <1>1, <1>3 DEF InHand
<1>6. Live(c)
  BY <1>1, <1>2, LiveByDir DEF Control
<1>7. r.state = "send" => r.off + r.n <= r.len
  BY <1>3 DEF Data, Cells, Operations
<1>8. supply[c][d] + avail[c][d] + out[c][d] <= Units[d]
  BY DEF Data, Cells, Balance
<1>9. Totals'
  BY <1>2, <1>3, <1>4, TotalsCell
<1>10. thr' \in [Threads -> ThreadStates]
  <2>1. PICK pc \in {"serve", "abort"} : pc = IF dir[c][d].ok THEN "serve" ELSE "abort"
    OBVIOUS
  <2>2. At(pc, c, d) \in ThreadStates /\ thr' = [thr EXCEPT ![w] = At(pc, c, d)]
    BY <1>1, <2>1, AtTyped
  <2> QED BY <1>2, <2>2, ThreadMoves, ThreadSorts
<1>11. avail' \in [Conns -> [Dirs -> Nat]] /\ out' \in [Conns -> [Dirs -> Nat]] /\ pool' \in 0..Keep
  BY <1>2 DEF Types
<1>12. r.at # "ended" /\ dir[c][d].at # "ended" /\ r.at # "pending"
  BY <1>1, <1>3
<1>13. avail' = avail /\ out' = out
  BY <1>2
<1>14. UNCHANGED <<relay, supply, eof, broken, running, iocp, exits, lock, todo>>
  BY <1>2
<1> QED BY <1>4, <1>5, <1>6, <1>7, <1>8, <1>9, <1>10, <1>11, <1>12, <1>13, <1>14, DataCell

\* The buffers in use are finite in number.
LEMMA BuffersFinite ==
  /\ IsFiniteSet(Buffers) /\ Cardinality(Buffers) \in Nat
  /\ Cardinality(Buffers) <= 2 * Cardinality(Conns) /\ Cardinality(Conns) \in Nat
  /\ IsFiniteSet({c \in Conns : Live(c)}) /\ Cardinality({c \in Conns : Live(c)}) \in Nat
  /\ Cardinality({c \in Conns : Live(c)}) <= Cardinality(Conns)
<1>1. IsFiniteSet({1}) /\ Cardinality({1}) = 1
  BY FS_Singleton
<1>2. IsFiniteSet(Dirs) /\ Cardinality(Dirs) = 2
  <2>1. Dirs = {1} \cup {2}
    BY DEF Dirs
  <2>2. Cardinality({1} \cup {2}) = Cardinality({1}) + 1 /\ IsFiniteSet({1} \cup {2})
    BY <1>1, FS_AddElement
  <2> QED BY <1>1, <2>1, <2>2
<1>3. IsFiniteSet(Conns) /\ Cardinality(Conns) \in Nat
  BY RelayAssumption, FS_CardinalityType
<1>4. IsFiniteSet(Conns \X Dirs) /\ Cardinality(Conns \X Dirs) = Cardinality(Conns) * 2
  BY <1>2, <1>3, FS_Product
<1>5. Buffers \subseteq Conns \X Dirs /\ {c \in Conns : Live(c)} \subseteq Conns
  BY DEF Buffers
<1>6. IsFiniteSet(Buffers) /\ Cardinality(Buffers) <= Cardinality(Conns \X Dirs)
  BY <1>4, <1>5, FS_Subset
<1>7. IsFiniteSet({c \in Conns : Live(c)}) /\ Cardinality({c \in Conns : Live(c)}) <= Cardinality(Conns)
  BY <1>3, <1>5, FS_Subset
<1>8. Cardinality(Buffers) \in Nat /\ Cardinality({c \in Conns : Live(c)}) \in Nat
  BY <1>6, <1>7, FS_CardinalityType
<1> QED BY <1>3, <1>4, <1>6, <1>7, <1>8

\* relay_buf_get and relay_buf_put keep the account with the buffers in use.
LEMMA TotalsPost ==
  ASSUME Data, NEW t \in Crew, NEW c \in Conns, NEW d \in Dirs,
         NEW kind \in {"wait", "read", "send"}, NEW len \in 0..BufSize, NEW off \in 0..BufSize,
         Post(t, c, d, kind, len, off, After(t, c, d))
  PROVE  Totals' /\ pool' \in 0..Keep
<1>1. PICK r \in DirStates : /\ dir' = [dir EXCEPT ![c][d] = r]
                             /\ r.buf = Buffer(kind)
  BY PostEffect DEF Data
<1>2. /\ dir'[c][d].buf = Buffer(kind)
      /\ \A x \in Conns, y \in Dirs : <<x, y>> # <<c, d>> => dir'[x][y] = dir[x][y]
  BY <1>1, DirBecomes, ZenonT(30) DEF Data
<1>3. UNCHANGED <<relay, active>>
  BY DEF Post
<1>4. {x \in Conns : Live(x)}' = {x \in Conns : Live(x)}
  BY <1>3 DEF Live
<1>5. /\ Buffer(kind) => Buffers' = Buffers \cup {<<c, d>>}
      /\ ~Buffer(kind) => Buffers' = Buffers \ {<<c, d>>}
  BY <1>2 DEF Buffers
<1>6. <<c, d>> \in Buffers <=> dir[c][d].buf
  BY DEF Buffers
<1>7. /\ IsFiniteSet(Buffers) /\ Cardinality(Buffers) \in Nat
      /\ Cardinality(Buffers \cup {<<c, d>>}) =
           IF <<c, d>> \in Buffers THEN Cardinality(Buffers) ELSE Cardinality(Buffers) + 1
      /\ Cardinality(Buffers \ {<<c, d>>}) =
           IF <<c, d>> \in Buffers THEN Cardinality(Buffers) - 1 ELSE Cardinality(Buffers)
  BY BuffersFinite, FS_AddElement, FS_RemoveElement
<1>8. /\ mem = pool + Cardinality(Buffers) /\ active = Cardinality({x \in Conns : Live(x)})
      /\ pool \in Nat /\ pool <= Keep /\ Keep \in Nat
  BY RelayAssumption DEF Data, Totals, Types
<1>9. dir[c][d].buf \in BOOLEAN /\ Buffer(kind) \in BOOLEAN
  BY DEF Data, Types, DirStates, Buffer
<1>10. mem' = pool' + Cardinality(Buffers') /\ pool' \in 0..Keep
  <2>1. CASE dir[c][d].buf = Buffer(kind)
    <3>1. pool' = pool /\ mem' = mem
      BY <2>1 DEF Post, poolVars
    <3>2. Cardinality(Buffers') = Cardinality(Buffers)
      BY <1>5, <1>6, <1>7, <1>9, <2>1
    <3> QED BY <1>8, <3>1, <3>2
  <2>2. CASE dir[c][d].buf /\ ~Buffer(kind)
    <3>1. PutBuffers(1)
      BY <2>2, <1>9 DEF Post
    <3>2. pool' = Least(pool + 1, Keep) /\ mem' = mem - (pool + 1 - pool')
      BY <3>1 DEF PutBuffers, Kept
    <3>3. pool' \in Nat /\ pool' <= Keep
      BY <1>8, <3>2 DEF Least
    <3>4. Cardinality(Buffers') = Cardinality(Buffers) - 1
      BY <1>5, <1>6, <1>7, <2>2
    <3> QED BY <1>7, <1>8, <3>2, <3>3, <3>4
  <2>3. CASE ~dir[c][d].buf /\ Buffer(kind)
    <3>1. GetBuffer
      BY <2>3, <1>9 DEF Post
    <3>2. Cardinality(Buffers') = Cardinality(Buffers) + 1
      BY <1>5, <1>6, <1>7, <2>3
    <3>3. CASE pool > 0
      BY <1>7, <1>8, <3>1, <3>2, <3>3 DEF GetBuffer
    <3>4. CASE ~(pool > 0)
      BY <1>7, <1>8, <3>1, <3>2, <3>4 DEF GetBuffer
    <3> QED BY <3>3, <3>4
  <2> QED BY <1>9, <2>1, <2>2, <2>3
<1> QED BY <1>3, <1>4, <1>8, <1>10 DEF Totals

\* A thread starts an operation: data in hand is what it is to send.
LEMMA DataPost ==
  ASSUME Data, NEW t \in Crew, NEW c \in Conns, NEW d \in Dirs,
         NEW kind \in {"wait", "read", "send"}, NEW len \in 0..BufSize, NEW off \in 0..BufSize,
         Post(t, c, d, kind, len, off, After(t, c, d)),
         Live(c), dir[c][d].at = "held", kind = "send" => off <= len,
         InHand(dir[c][d]) = IF kind = "send" THEN len - off ELSE 0
  PROVE  Data'
<1>1. PICK r \in DirStates, ok \in BOOLEAN :
        /\ dir' = [dir EXCEPT ![c][d] = r]
        /\ r = [at |-> IF ok THEN "pending" ELSE "held", state |-> kind, ok |-> TRUE, n |-> 0,
                buf |-> Buffer(kind), len |-> len, off |-> off]
        /\ thr' = [thr EXCEPT ![t] = IF ok THEN After(t, c, d) ELSE At("abort", c, d)]
  BY PostEffect DEF Data
<1>2. /\ r.at \in {"pending", "held"} /\ r.state = kind /\ r.n = 0
      /\ (r.buf <=> kind # "wait") /\ r.len = len /\ r.off = off
  BY <1>1 DEF Buffer
<1>3. /\ UNCHANGED <<relay, supply, avail, out, eof, broken, running, iocp, exits, lock, todo>>
      /\ Types
  BY DEF Post, endVars, stopVars, Data
<1>4. len \in Nat /\ off \in Nat
  BY RelayAssumption
<1>5. InHand(r) = IF kind = "send" THEN len - off ELSE 0
  BY <1>2, <1>4 DEF InHand
<1>6. thr' \in [Threads -> ThreadStates]
  <2>1. PICK x \in ThreadStates : x = IF ok THEN After(t, c, d) ELSE At("abort", c, d)
    BY AfterTyped, AtTyped
  <2> QED BY <1>1, <1>3, <2>1, ThreadMoves, ThreadSorts
<1>7. Totals' /\ pool' \in 0..Keep
  BY TotalsPost
<1>8. supply[c][d] + avail[c][d] + out[c][d] <= Units[d]
  BY DEF Data, Cells, Balance
<1>9. avail' \in [Conns -> [Dirs -> Nat]] /\ out' \in [Conns -> [Dirs -> Nat]]
  BY <1>3 DEF Types
<1>10. r.state = "send" => r.off + r.n <= r.len
  BY <1>2, <1>4
<1>11. dir' = [dir EXCEPT ![c][d] = r]
  BY <1>1
<1>12. avail' = avail /\ out' = out
  BY <1>3
<1>13. UNCHANGED <<relay, supply, eof, broken, running, iocp, exits, lock, todo>>
  BY <1>3
<1>14. r.at # "ended" /\ (r.at = "pending" /\ r.state # "wait" => r.buf)
  BY <1>2
<1> HIDE DEF InHand
<1> QED BY <1>5, <1>6, <1>7, <1>8, <1>9, <1>10, <1>11, <1>12, <1>13, <1>14, DataCell

\* A thread that ends or serves a direction refers to a connection.
LEMMA OnConn ==
  ASSUME Types, Roles, NEW t \in Threads, thr[t].pc \in Holding \cup {"unlink", "free"}
  PROVE  thr[t].c \in Conns /\ thr[t].d \in Dirs
<1>1. thr[t].d \in Dirs
  BY ThreadTypes
<1>2. CASE t \in Conns
  BY <1>1, <1>2 DEF Roles, Holding
<1>3. CASE t \in Workers
  BY <1>1, <1>3 DEF Roles, Holding
<1>4. CASE t = Stopper
  BY <1>1, <1>4 DEF Roles, Holding
<1> QED BY <1>2, <1>3, <1>4 DEF Threads

\* Where a thread goes when relay_abort is over.
LEMMA LeaveTyped ==
  ASSUME Types, NEW t \in Threads
  PROVE  /\ Leave(t) \in ThreadStates /\ Leave(t).d \in Dirs
         /\ t = Stopper => Leave(t).pc = "walk"
         /\ t # Stopper => /\ Leave(t).pc = "release" /\ Leave(t).c = thr[t].c
                           /\ Leave(t).d = thr[t].d
<1>1. 1 \in Dirs /\ thr[t].c \in Conns \cup {NoConn} /\ thr[t].d \in Dirs
  BY ThreadTypes DEF Dirs
<1>2. /\ At("walk", NoConn, 1) \in ThreadStates
      /\ At("walk", NoConn, 1).pc = "walk" /\ At("walk", NoConn, 1).d = 1
  BY <1>1 DEF At, ThreadStates
<1>3. PICK c : c = thr[t].c
  OBVIOUS
<1>4. PICK d : d = thr[t].d
  OBVIOUS
<1>5. c \in Conns \cup {NoConn} /\ d \in Dirs
  BY <1>1, <1>3, <1>4
<1>6. /\ At("release", c, d) \in ThreadStates
      /\ At("release", c, d).pc = "release"
      /\ At("release", c, d).c = c /\ At("release", c, d).d = d
  BY <1>5, AtTyped
<1> QED BY <1>1, <1>2, <1>3, <1>4, <1>6 DEF Leave

\* The sockets of a relay are shut down.
LEMMA ShutRelay ==
  ASSUME Types, NEW c \in Conns, relay' = Shut(c)
  PROVE  /\ relay' \in [Conns -> Relays]
         /\ \A e \in Conns : e # c => relay'[e] = relay[e]
         /\ relay'[c].phase = relay[c].phase /\ relay'[c].refs = relay[c].refs
         /\ relay'[c].listed = relay[c].listed /\ relay'[c].closing = relay[c].closing
         /\ relay'[c].shut
<1>1. relay \in [Conns -> Relays] /\ relay[c] \in Relays
  BY DEF Types
<1>2. relay'[c] = [relay[c] EXCEPT !.shut = TRUE] /\ \A e \in Conns : e # c => relay'[e] = relay[e]
  BY <1>1 DEF Shut
<1>3. [relay[c] EXCEPT !.shut = TRUE] \in Relays
  BY <1>1 DEF Relays
<1>4. relay' = [relay EXCEPT ![c] = [relay[c] EXCEPT !.shut = TRUE]]
  BY DEF Shut
<1> QED BY <1>1, <1>2, <1>3, <1>4 DEF Relays

\* A row of a table is cleared.
LEMMA Row ==
  ASSUME NEW f \in [Conns -> [Dirs -> Nat]], NEW c \in Conns
  PROVE  /\ [f EXCEPT ![c] = [d \in Dirs |-> 0]] \in [Conns -> [Dirs -> Nat]]
         /\ \A d \in Dirs : [f EXCEPT ![c] = [y \in Dirs |-> 0]][c][d] = 0
         /\ \A e \in Conns : e # c => [f EXCEPT ![c] = [d \in Dirs |-> 0]][e] = f[e]
OBVIOUS

\* What the streams of a relay that is shut down still held no longer counts.
LEMMA DataShutdown ==
  ASSUME Data, Control, NEW t \in Threads, Shutdown(t)
  PROVE  Data'
<1>1. PICK c : c = thr[t].c
  OBVIOUS
<1>2. /\ thr[t].pc = "shut" /\ relay' = Shut(c) /\ ForgetEnds(c)
      /\ thr' = [thr EXCEPT ![t].pc = "cancel"]
      /\ UNCHANGED <<stopVars, dir, pool, mem, active>> /\ Types
  BY <1>1 DEF Shutdown, poolVars, Data
<1>3. c \in Conns
  BY <1>1, <1>2, OnConn DEF Control, Holding
<1>4. /\ relay' \in [Conns -> Relays]
      /\ \A e \in Conns : relay'[e].phase = relay[e].phase
      /\ \A e \in Conns : e # c => relay'[e] = relay[e]
      /\ relay'[c].shut
  BY <1>2, <1>3, ShutRelay
<1>5. thr' \in [Threads -> ThreadStates]
  BY <1>2, PcBecomes, ThreadMoves
<1>6. /\ supply' = [supply EXCEPT ![c] = [d \in Dirs |-> 0]]
      /\ avail' = [avail EXCEPT ![c] = [d \in Dirs |-> 0]]
      /\ out' = [out EXCEPT ![c] = [d \in Dirs |-> 0]]
      /\ eof' \subseteq eof /\ broken' \subseteq broken
  BY <1>2 DEF ForgetEnds
<1>7. /\ supply' \in [Conns -> [Dirs -> Nat]] /\ avail' \in [Conns -> [Dirs -> Nat]]
      /\ out' \in [Conns -> [Dirs -> Nat]]
      /\ \A d \in Dirs : supply'[c][d] = 0 /\ avail'[c][d] = 0 /\ out'[c][d] = 0
      /\ \A e \in Conns : e # c => supply'[e] = supply[e] /\ avail'[e] = avail[e] /\ out'[e] = out[e]
  <2>1. supply \in [Conns -> [Dirs -> Nat]] /\ avail \in [Conns -> [Dirs -> Nat]]
        /\ out \in [Conns -> [Dirs -> Nat]]
    BY <1>2 DEF Types
  <2> QED BY <1>3, <1>6, <2>1, Row
<1>8. Types'
  BY <1>2, <1>4, <1>5, <1>6, <1>7 DEF Types, stopVars
<1>9. Cells'
  <2>1. ASSUME NEW e \in Conns, NEW d \in Dirs, e # c PROVE Operations(e, d)' /\ Balance(e, d)'
    BY <1>2, <1>4, <1>7, <2>1, CellSame DEF Data, Cells
  <2>2. ASSUME NEW d \in Dirs PROVE Operations(c, d)'
    BY <1>2, <1>3, <1>4 DEF Data, Cells, Operations, Live
  <2>3. ASSUME NEW d \in Dirs PROVE Balance(c, d)'
    <3>1. Units[d] \in Nat
      BY RelayAssumption
    <3> QED BY <1>4, <1>7, <3>1 DEF Balance
  <2> QED BY <2>1, <2>2, <2>3 DEF Cells
<1>10. Totals'
  BY <1>2, <1>4, TotalsSame DEF Data, Live
<1> QED BY <1>8, <1>9, <1>10 DEF Data

\* Nothing is a number of units a buffer takes.
LEMMA NoUnits == 0 \in 0..BufSize
BY RelayAssumption

\* CancelIoEx completes what is outstanding.
LEMMA CancelledDirs ==
  ASSUME Types, NEW c \in Conns,
         dir' = [dir EXCEPT ![c] = [d \in Dirs |->
           IF @[d].at = "pending" THEN [@[d] EXCEPT !.at = "done", !.ok = FALSE, !.n = 0] ELSE @[d]]]
  PROVE  /\ dir' \in [Conns -> [Dirs -> DirStates]]
         /\ \A e \in Conns, f \in Dirs : e # c \/ dir[e][f].at # "pending" => dir'[e][f] = dir[e][f]
         /\ \A f \in Dirs : dir[c][f].at = "pending" =>
              /\ dir'[c][f].at = "done" /\ ~dir'[c][f].ok /\ dir'[c][f].n = 0
              /\ dir'[c][f].state = dir[c][f].state /\ dir'[c][f].buf = dir[c][f].buf
              /\ dir'[c][f].len = dir[c][f].len /\ dir'[c][f].off = dir[c][f].off
<1>0. 0 \in 0..BufSize
  BY NoUnits
<1>1. dir \in [Conns -> [Dirs -> DirStates]] /\ \A f \in Dirs : dir[c][f] \in DirStates
  BY DEF Types
<1>2. /\ \A f \in Dirs : dir'[c][f] = IF dir[c][f].at = "pending"
                                       THEN [dir[c][f] EXCEPT !.at = "done", !.ok = FALSE, !.n = 0]
                                       ELSE dir[c][f]
      /\ \A e \in Conns : e # c => dir'[e] = dir[e]
  BY <1>1
<1>3. ASSUME NEW s \in DirStates
      PROVE  LET r == [s EXCEPT !.at = "done", !.ok = FALSE, !.n = 0]
             IN /\ r \in DirStates /\ r.at = "done" /\ r.ok = FALSE /\ r.n = 0
                /\ r.state = s.state /\ r.buf = s.buf /\ r.len = s.len /\ r.off = s.off
  <2>1. 0 \in 0..BufSize
    BY <1>0
  <2>2. PICK x : x = [s EXCEPT !.at = "done"]
    OBVIOUS
  <2>3. x \in DirStates /\ x.at = "done" /\ x.state = s.state /\ x.buf = s.buf /\ x.len = s.len
        /\ x.off = s.off
    BY <2>2 DEF DirStates
  <2>4. PICK y : y = [x EXCEPT !.ok = FALSE]
    OBVIOUS
  <2>5. y \in DirStates /\ y.at = "done" /\ y.ok = FALSE /\ y.state = s.state /\ y.buf = s.buf
        /\ y.len = s.len /\ y.off = s.off
    BY <2>3, <2>4 DEF DirStates
  <2>6. PICK z : z = [y EXCEPT !.n = 0]
    OBVIOUS
  <2>7. z \in DirStates /\ z.at = "done" /\ z.ok = FALSE /\ z.n = 0 /\ z.state = s.state
        /\ z.buf = s.buf /\ z.len = s.len /\ z.off = s.off
    BY <2>1, <2>5, <2>6 DEF DirStates
  <2>8. z = [s EXCEPT !.at = "done", !.ok = FALSE, !.n = 0]
    BY <2>2, <2>4, <2>6
  <2> QED BY <2>7, <2>8
<1>4. \A f \in Dirs : dir[c][f].at = "pending" =>
        /\ dir'[c][f] \in DirStates
        /\ dir'[c][f].at = "done" /\ ~dir'[c][f].ok /\ dir'[c][f].n = 0
        /\ dir'[c][f].state = dir[c][f].state /\ dir'[c][f].buf = dir[c][f].buf
        /\ dir'[c][f].len = dir[c][f].len /\ dir'[c][f].off = dir[c][f].off
  BY <1>1, <1>2, <1>3
<1>5. \A e \in Conns, f \in Dirs : e # c \/ dir[e][f].at # "pending" => dir'[e][f] = dir[e][f]
  BY <1>2
<1>6. \A f \in Dirs : dir'[c][f] \in DirStates
  BY <1>1, <1>4, <1>5
<1>7. dir' \in [Conns -> [Dirs -> DirStates]]
  <2>1. PICK g : g = [d \in Dirs |->
           IF dir[c][d].at = "pending" THEN [dir[c][d] EXCEPT !.at = "done", !.ok = FALSE, !.n = 0]
           ELSE dir[c][d]]
    OBVIOUS
  <2>2. dir' = [dir EXCEPT ![c] = g]
    BY <2>1
  <2>3. dir'[c] = g
    BY <1>1, <2>2
  <2>4. g \in [Dirs -> DirStates]
    BY <1>6, <2>1, <2>3
  <2> QED BY <1>1, <2>2, <2>4
<1> QED BY <1>4, <1>5, <1>7

\* What was outstanding is cancelled: a direction still has in hand what it had.
LEMMA DataCancel ==
  ASSUME Data, Control, NEW t \in Threads, Cancel(t)
  PROVE  Data'
<1>1. PICK c : c = thr[t].c
  OBVIOUS
<1>2. /\ thr[t].pc = "cancel" /\ Types
      /\ dir' = [dir EXCEPT ![c] = [d \in Dirs |->
           IF @[d].at = "pending" THEN [@[d] EXCEPT !.at = "done", !.ok = FALSE, !.n = 0] ELSE @[d]]]
      /\ thr' = [thr EXCEPT ![t] = Leave(t)]
      /\ UNCHANGED <<endVars, stopVars, relay, pool, mem, active>>
  BY <1>1 DEF Cancel, poolVars, Data
<1>3. c \in Conns
  BY <1>1, <1>2, OnConn DEF Control, Holding
<1>4. /\ dir' \in [Conns -> [Dirs -> DirStates]]
      /\ \A e \in Conns, f \in Dirs : e # c \/ dir[e][f].at # "pending" => dir'[e][f] = dir[e][f]
      /\ \A f \in Dirs : dir[c][f].at = "pending" =>
           /\ dir'[c][f].at = "done" /\ ~dir'[c][f].ok /\ dir'[c][f].n = 0
           /\ dir'[c][f].state = dir[c][f].state /\ dir'[c][f].buf = dir[c][f].buf
           /\ dir'[c][f].len = dir[c][f].len /\ dir'[c][f].off = dir[c][f].off
  BY <1>2, <1>3, CancelledDirs
<1>5. thr' \in [Threads -> ThreadStates]
  BY <1>2, LeaveTyped, ThreadMoves
<1>6. Types'
  BY <1>2, <1>4, <1>5 DEF Types, stopVars, endVars
<1>7. Cells'
  <2>1. ASSUME NEW e \in Conns, NEW f \in Dirs, e # c \/ dir[e][f].at # "pending"
        PROVE  Operations(e, f)' /\ Balance(e, f)'
    BY <1>2, <1>4, <2>1, CellSame DEF Data, Cells, endVars
  <2>2. ASSUME NEW f \in Dirs, dir[c][f].at = "pending"
        PROVE  Operations(c, f)' /\ Balance(c, f)'
    <3>1. Operations(c, f) /\ Balance(c, f)
      BY <1>3 DEF Data, Cells
    <3>2. dir[c][f].n \in Nat /\ dir[c][f].off \in Nat /\ dir[c][f].len \in Nat
      BY <1>2, <1>3, DirNumbers DEF Types
    <3>3. InHand(dir'[c][f]) = InHand(dir[c][f])
      BY <1>4, <2>2, <3>2 DEF InHand
    <3>4. Operations(c, f)'
      <4>1. dir[c][f].state = "send" => dir[c][f].off + dir[c][f].n <= dir[c][f].len
        BY <3>1 DEF Operations
      <4>2. dir'[c][f].state = "send" => dir'[c][f].off + dir'[c][f].n <= dir'[c][f].len
        BY <1>4, <2>2, <3>2, <4>1
      <4>3. dir'[c][f].at = "done" /\ (dir'[c][f].buf => relay'[c].phase = "live")
        BY <1>2, <1>4, <2>2, <3>1 DEF Operations, Live
      <4> QED BY <4>2, <4>3 DEF Operations, Live
    <3>5. Balance(c, f)'
      <4>1. UNCHANGED <<relay, supply, avail, out>>
        BY <1>2 DEF endVars
      <4>2. dir[c][f].at # "ended"
        BY <2>2
      <4> HIDE DEF InHand
      <4> QED BY <3>1, <3>3, <4>1, <4>2 DEF Balance, Live
    <3> QED BY <3>4, <3>5
  <2> QED BY <2>1, <2>2 DEF Cells
<1>8. \A e \in Conns, f \in Dirs : dir'[e][f].buf = dir[e][f].buf
  BY <1>4
<1>9. Totals'
  BY <1>2, <1>8, TotalsSame DEF Data, Live
<1> QED BY <1>6, <1>7, <1>9 DEF Data

\* One field of a relay.
LEMMA RefsRelay ==
  ASSUME Types, NEW c \in Conns, relay[c].refs > 0, relay' = [relay EXCEPT ![c].refs = @ - 1]
  PROVE  /\ relay' \in [Conns -> Relays]
         /\ \A e \in Conns : /\ relay'[e].phase = relay[e].phase /\ relay'[e].shut = relay[e].shut
                             /\ relay'[e].closing = relay[e].closing
<1>1. relay \in [Conns -> Relays] /\ relay[c] \in Relays
  BY DEF Types
<1>2. relay[c].refs - 1 \in 0..2
  BY <1>1 DEF Relays
<1>3. PICK n \in 0..2 : n = relay[c].refs - 1
  BY <1>2
<1>4. relay' = [relay EXCEPT ![c] = [relay[c] EXCEPT !.refs = n]]
  BY <1>3
<1>5. PICK r : r = [relay[c] EXCEPT !.refs = n]
  OBVIOUS
<1>6. r \in Relays /\ r.phase = relay[c].phase /\ r.shut = relay[c].shut /\ r.closing = relay[c].closing
  BY <1>1, <1>5 DEF Relays
<1>7. relay' = [relay EXCEPT ![c] = r]
  BY <1>4, <1>5
<1> QED BY <1>1, <1>6, <1>7

\* A direction ends and keeps its buffer until the relay is freed.
LEMMA DataRelease ==
  ASSUME Data, Control, NEW t \in Crew, Release(t)
  PROVE  Data'
<1>1. PICK c, d : c = thr[t].c /\ d = thr[t].d
  OBVIOUS
<1>2. /\ thr[t].pc = "release" /\ Types
      /\ relay' = [relay EXCEPT ![c].refs = @ - 1]
      /\ dir' = [dir EXCEPT ![c][d] = [NewDir EXCEPT !.at = "ended", !.buf = dir[c][d].buf]]
      /\ thr' = [thr EXCEPT ![t] = IF LastOut(c) THEN At("unlink", c, d) ELSE After(t, c, d)]
      /\ UNCHANGED <<endVars, stopVars, pool, mem, active>>
  BY <1>1 DEF Release, poolVars, Data
<1>3. c \in Conns /\ d \in Dirs
  BY <1>1, <1>2, OnConn, ThreadSorts DEF Control, Holding
<1>4. dir[c][d].at = "held" /\ Live(c)
  <2>1. Has(t, c, d)
    BY <1>1, <1>2 DEF Has, Holding
  <2>2. dir[c][d].at = "held"
    BY <1>3, <2>1 DEF Control, Places
  <2> QED BY <1>2, <1>3, <2>2, LiveByDir DEF Control
<1>5. relay[c].refs > 0
  <2>1. relay[c].refs = Rest(c, 1) + Rest(c, 2) /\ Rest(c, d) = 1
    BY <1>3, <1>4 DEF Control, Counted, Rest
  <2>2. \A f \in Dirs : Rest(c, f) \in {0, 1}
    BY DEF Rest
  <2> QED BY <1>3, <2>1, <2>2 DEF Dirs
<1>6. /\ relay' \in [Conns -> Relays]
      /\ \A e \in Conns : relay'[e].phase = relay[e].phase /\ relay'[e].shut = relay[e].shut
  BY <1>2, <1>3, <1>5, RefsRelay
<1>7. dir[c][d] \in DirStates /\ dir[c][d].buf \in BOOLEAN
  BY <1>2, <1>3 DEF Types, DirStates
<1>8. PICK r : r = [NewDir EXCEPT !.at = "ended", !.buf = dir[c][d].buf]
  OBVIOUS
<1>9. r \in DirStates /\ r.at = "ended" /\ r.state = "wait" /\ r.buf = dir[c][d].buf
  BY <1>7, <1>8, NoUnits DEF NewDir, DirStates
<1>10. dir' = [dir EXCEPT ![c][d] = r]
  BY <1>2, <1>8
<1>11. /\ dir' \in [Conns -> [Dirs -> DirStates]] /\ dir'[c][d] = r
       /\ \A e \in Conns, f \in Dirs : <<e, f>> # <<c, d>> => dir'[e][f] = dir[e][f]
  <2>1. dir \in [Conns -> [Dirs -> DirStates]]
    BY <1>2 DEF Types
  <2> QED BY <1>3, <1>9, <1>10, <2>1
<1>12. thr' \in [Threads -> ThreadStates]
  <2>1. PICK x \in ThreadStates : x = IF LastOut(c) THEN At("unlink", c, d) ELSE After(t, c, d)
    BY <1>3, AfterTyped, AtTyped
  <2> QED BY <1>2, <2>1, ThreadMoves, ThreadSorts
<1>13. Types'
  BY <1>2, <1>6, <1>11, <1>12 DEF Types, stopVars, endVars
<1>14. Cells'
  <2>1. ASSUME NEW e \in Conns, NEW f \in Dirs, <<e, f>> # <<c, d>>
        PROVE  Operations(e, f)' /\ Balance(e, f)'
    BY <1>2, <1>6, <1>11, <2>1, CellSame DEF Data, Cells, endVars
  <2>2. Operations(c, d)'
    BY <1>3, <1>4, <1>6, <1>9, <1>11 DEF Operations, Live
  <2>3. Balance(c, d)'
    BY <1>2, <1>3, <1>9, <1>11 DEF Data, Cells, Balance, endVars
  <2> QED BY <2>1, <2>2, <2>3 DEF Cells
<1>15. \A e \in Conns, f \in Dirs : dir'[e][f].buf = dir[e][f].buf
  BY <1>9, <1>11
<1>16. Totals'
  BY <1>2, <1>6, <1>15, TotalsSame DEF Data, Live
<1> QED BY <1>13, <1>14, <1>16 DEF Data

\* The stop frees the pool.
LEMMA DataJoin ==
  ASSUME Data, Join
  PROVE  Data'
<1>1. /\ Types /\ UNCHANGED <<endVars, running, exits, lock, todo, relay, dir, active>>
      /\ iocp' = FALSE /\ mem' = mem - pool /\ pool' = 0
      /\ thr' = [thr EXCEPT ![Stopper] = At("gone", NoConn, 1)]
  BY DEF Join, Data, Moved
<1>2. thr' \in [Threads -> ThreadStates]
  <2>1. At("gone", NoConn, 1) \in ThreadStates
    BY AtTyped DEF Dirs
  <2> QED BY <1>1, <2>1, ThreadMoves, ThreadSorts
<1>3. 0 \in 0..Keep
  BY RelayAssumption
<1>4. Types'
  BY <1>1, <1>2, <1>3 DEF Types, endVars
<1>5. Cells'
  BY <1>1, CellSame DEF Data, Cells, endVars
<1>6. Totals'
  <2>1. Buffers' = Buffers /\ {c \in Conns : Live(c)}' = {c \in Conns : Live(c)}
    BY <1>1 DEF Buffers, Live
  <2>2. pool \in Nat /\ Cardinality(Buffers) \in Nat
    BY <1>1, BuffersFinite, RelayAssumption DEF Types
  <2>3. mem = pool + Cardinality(Buffers) /\ active = Cardinality({c \in Conns : Live(c)})
    BY DEF Data, Totals
  <2>4. mem' = pool' + Cardinality(Buffers')
    BY <1>1, <2>1, <2>2, <2>3
  <2> QED BY <1>1, <2>1, <2>3, <2>4 DEF Totals
<1> QED BY <1>4, <1>5, <1>6 DEF Data

\* The buffers of one relay.
LEMMA HeldCount ==
  ASSUME Types, NEW c \in Conns
  PROVE  Cardinality(Held(c)) = (IF dir[c][1].buf THEN 1 ELSE 0) + (IF dir[c][2].buf THEN 1 ELSE 0)
<1>1. /\ IsFiniteSet({}) /\ Cardinality({}) = 0
      /\ IsFiniteSet({1}) /\ Cardinality({1}) = 1
      /\ Cardinality({2}) = 1
  BY FS_EmptySet, FS_Singleton
<1>2. Cardinality({1} \cup {2}) = 2
  BY <1>1, FS_AddElement
<1>3. Held(c) = {d \in {1, 2} : dir[c][d].buf}
  BY DEF Held, Dirs
<1>4. CASE dir[c][1].buf /\ dir[c][2].buf
  <2>1. Held(c) = {1} \cup {2}
    BY <1>3, <1>4
  <2> QED BY <1>2, <1>4, <2>1
<1>5. CASE dir[c][1].buf /\ ~dir[c][2].buf
  <2>1. Held(c) = {1}
    BY <1>3, <1>5
  <2> QED BY <1>1, <1>5, <2>1
<1>6. CASE ~dir[c][1].buf /\ dir[c][2].buf
  <2>1. Held(c) = {2}
    BY <1>3, <1>6
  <2> QED BY <1>1, <1>6, <2>1
<1>7. CASE ~dir[c][1].buf /\ ~dir[c][2].buf
  <2>1. Held(c) = {}
    BY <1>3, <1>7
  <2> QED BY <1>1, <1>7, <2>1
<1> QED BY <1>4, <1>5, <1>6, <1>7

\* The buffers that remain in use when those of one relay are given back.
LEMMA BuffersWithout ==
  ASSUME Types, NEW c \in Conns
  PROVE  Cardinality(Buffers) = Cardinality(Buffers \ {<<c, 1>>, <<c, 2>>}) + Cardinality(Held(c))
<1>1. <<c, 1>> # <<c, 2>> /\ 1 \in Dirs /\ 2 \in Dirs
  BY DEF Dirs
<1>2. PICK B : B = Buffers \ {<<c, 1>>}
  OBVIOUS
<1>3. /\ IsFiniteSet(Buffers) /\ Cardinality(Buffers) \in Nat
      /\ IsFiniteSet(B) /\ Cardinality(B) \in Nat
      /\ Cardinality(B) = IF <<c, 1>> \in Buffers THEN Cardinality(Buffers) - 1 ELSE Cardinality(Buffers)
  BY <1>2, BuffersFinite, FS_RemoveElement, FS_CardinalityType
<1>4. Cardinality(B \ {<<c, 2>>}) = IF <<c, 2>> \in B THEN Cardinality(B) - 1 ELSE Cardinality(B)
  BY <1>3, FS_RemoveElement
<1>5. B \ {<<c, 2>>} = Buffers \ {<<c, 1>>, <<c, 2>>}
  BY <1>2
<1>6. /\ <<c, 1>> \in Buffers <=> dir[c][1].buf
      /\ <<c, 2>> \in B <=> dir[c][2].buf
  BY <1>1, <1>2 DEF Buffers
<1>7. Cardinality(Held(c)) = (IF dir[c][1].buf THEN 1 ELSE 0) + (IF dir[c][2].buf THEN 1 ELSE 0)
  BY HeldCount
<1>8. /\ Cardinality(B) = Cardinality(Buffers) - IF dir[c][1].buf THEN 1 ELSE 0
      /\ Cardinality(B \ {<<c, 2>>}) = Cardinality(B) - IF dir[c][2].buf THEN 1 ELSE 0
  BY <1>3, <1>4, <1>6
<1>9. PICK x \in Nat, y \in Nat : /\ x = IF dir[c][1].buf THEN 1 ELSE 0
                                /\ y = IF dir[c][2].buf THEN 1 ELSE 0
  OBVIOUS
<1>10. PICK n, m, k : n = Cardinality(Buffers) /\ m = Cardinality(B) /\ k = Cardinality(B \ {<<c, 2>>})
  OBVIOUS
<1>11. n \in Nat /\ m \in Nat /\ m = n - x /\ k = m - y
  BY <1>3, <1>8, <1>9, <1>10
<1>12. n = k + (x + y)
  BY <1>11
<1>13. Cardinality(Held(c)) = x + y
  BY <1>7, <1>9
<1> QED BY <1>5, <1>10, <1>12, <1>13

\* What freeing leaves of the relay and its directions.
LEMMA FreedRelay ==
  ASSUME Types, NEW c \in Conns,
         relay' = [relay EXCEPT ![c].phase = "freed"],
         dir' = [dir EXCEPT ![c] = [f \in Dirs |-> [@[f] EXCEPT !.buf = FALSE]]]
  PROVE  /\ relay' \in [Conns -> Relays] /\ relay'[c].phase = "freed"
         /\ relay'[c].closing = relay[c].closing /\ relay'[c].shut = relay[c].shut
         /\ \A e \in Conns : e # c => relay'[e] = relay[e] /\ dir'[e] = dir[e]
         /\ dir' \in [Conns -> [Dirs -> DirStates]]
         /\ \A f \in Dirs : /\ ~dir'[c][f].buf /\ dir'[c][f].at = dir[c][f].at
                            /\ dir'[c][f].state = dir[c][f].state /\ dir'[c][f].n = dir[c][f].n
                            /\ dir'[c][f].len = dir[c][f].len /\ dir'[c][f].off = dir[c][f].off
<1>1. /\ relay \in [Conns -> Relays] /\ relay[c] \in Relays
      /\ dir \in [Conns -> [Dirs -> DirStates]] /\ \A f \in Dirs : dir[c][f] \in DirStates
  BY DEF Types
<1>2. PICK r : r = [relay[c] EXCEPT !.phase = "freed"]
  OBVIOUS
<1>3. r \in Relays /\ r.phase = "freed" /\ r.closing = relay[c].closing /\ r.shut = relay[c].shut
  BY <1>1, <1>2 DEF Relays
<1>4. relay' = [relay EXCEPT ![c] = r]
  BY <1>2
<1>5. PICK g : g = [f \in Dirs |-> [dir[c][f] EXCEPT !.buf = FALSE]]
  OBVIOUS
<1>6. \A f \in Dirs : /\ g[f] \in DirStates /\ ~g[f].buf /\ g[f].at = dir[c][f].at
                      /\ g[f].state = dir[c][f].state /\ g[f].n = dir[c][f].n
                      /\ g[f].len = dir[c][f].len /\ g[f].off = dir[c][f].off
  <2> TAKE f \in Dirs
  <2>1. dir[c][f] \in DirStates /\ g[f] = [dir[c][f] EXCEPT !.buf = FALSE]
    BY <1>1, <1>5
  <2> QED BY <2>1 DEF DirStates
<1>7. g \in [Dirs -> DirStates]
  BY <1>5, <1>6
<1>8. dir' = [dir EXCEPT ![c] = g]
  BY <1>5
<1>9. relay' \in [Conns -> Relays] /\ relay'[c] = r /\ \A e \in Conns : e # c => relay'[e] = relay[e]
  BY <1>1, <1>3, <1>4
<1>10. /\ dir' \in [Conns -> [Dirs -> DirStates]] /\ dir'[c] = g
       /\ \A e \in Conns : e # c => dir'[e] = dir[e]
  BY <1>1, <1>7, <1>8
<1> QED BY <1>3, <1>6, <1>9, <1>10

\* A relay is freed, with the buffers it had.
LEMMA DataFree ==
  ASSUME Data, Control, NEW t \in Crew, Free(t)
  PROVE  Data'
<1>1. PICK c, d : c = thr[t].c /\ d = thr[t].d
  OBVIOUS
<1>2. /\ thr[t].pc = "free" /\ Types
      /\ PutBuffers(Cardinality(Held(c)))
      /\ relay' = [relay EXCEPT ![c].phase = "freed"]
      /\ dir' = [dir EXCEPT ![c] = [f \in Dirs |-> [@[f] EXCEPT !.buf = FALSE]]]
      /\ thr' = [thr EXCEPT ![t] = After(t, c, d)]
      /\ active' = active - 1
      /\ UNCHANGED <<endVars, stopVars>>
  BY <1>1 DEF Free, Data
<1>3. c \in Conns /\ d \in Dirs
  BY <1>1, <1>2, OnConn, ThreadSorts DEF Control
<1>4. Live(c)
  BY <1>1, <1>2 DEF Control, LastHands
<1>5. /\ relay' \in [Conns -> Relays] /\ relay'[c].phase = "freed"
      /\ \A e \in Conns : e # c => relay'[e] = relay[e] /\ dir'[e] = dir[e]
      /\ dir' \in [Conns -> [Dirs -> DirStates]]
      /\ \A f \in Dirs : /\ ~dir'[c][f].buf /\ dir'[c][f].at = dir[c][f].at
                         /\ dir'[c][f].state = dir[c][f].state /\ dir'[c][f].n = dir[c][f].n
                         /\ dir'[c][f].len = dir[c][f].len /\ dir'[c][f].off = dir[c][f].off
  BY <1>2, <1>3, FreedRelay
<1>6. thr' \in [Threads -> ThreadStates]
  <2>1. After(t, c, d) \in ThreadStates
    BY <1>3, AfterTyped
  <2> QED BY <1>2, <2>1, ThreadMoves, ThreadSorts
<1>7. /\ Cardinality(Held(c)) \in Nat
      /\ Cardinality(Buffers) = Cardinality(Buffers \ {<<c, 1>>, <<c, 2>>}) + Cardinality(Held(c))
      /\ Cardinality(Buffers) \in Nat /\ Cardinality(Buffers \ {<<c, 1>>, <<c, 2>>}) \in Nat
  <2>1. Cardinality(Held(c)) = (IF dir[c][1].buf THEN 1 ELSE 0) + (IF dir[c][2].buf THEN 1 ELSE 0)
    BY <1>2, <1>3, HeldCount
  <2>2. Cardinality(Held(c)) \in Nat
    BY <2>1
  <2>3. IsFiniteSet(Buffers \ {<<c, 1>>, <<c, 2>>})
    BY BuffersFinite, FS_Subset
  <2>4. Cardinality(Buffers \ {<<c, 1>>, <<c, 2>>}) \in Nat
    BY <2>3, FS_CardinalityType
  <2> QED BY <1>2, <1>3, <2>2, <2>4, BuffersFinite, BuffersWithout
<1>8. Buffers' = Buffers \ {<<c, 1>>, <<c, 2>>}
  <2>1. Buffers' = {x \in Conns \X Dirs : dir'[x[1]][x[2]].buf}
    BY DEF Buffers
  <2>2. ASSUME NEW e \in Conns, NEW f \in Dirs
        PROVE  <<e, f>> \in Buffers' <=> <<e, f>> \in Buffers \ {<<c, 1>>, <<c, 2>>}
    BY <1>5, <2>1 DEF Buffers, Dirs
  <2>3. Buffers' \subseteq Conns \X Dirs /\ Buffers \subseteq Conns \X Dirs
    BY <2>1 DEF Buffers
  <2> QED BY <2>2, <2>3
<1>9. {e \in Conns : Live(e)}' = {e \in Conns : Live(e)} \ {c}
  BY <1>5 DEF Live
<1>10. Cardinality({e \in Conns : Live(e)} \ {c}) = Cardinality({e \in Conns : Live(e)}) - 1
  BY <1>3, <1>4, BuffersFinite, FS_RemoveElement
<1>11. PICK n \in Nat : n = Cardinality(Held(c))
  BY <1>7
<1>12. pool' = Least(pool + n, Keep) /\ mem' = mem - (pool + n - pool')
  BY <1>2, <1>11 DEF PutBuffers, Kept
<1>13. pool \in Nat /\ Keep \in Nat
  BY <1>2, RelayAssumption DEF Types
<1>14. pool' \in 0..Keep
  BY <1>12, <1>13 DEF Least
<1>15. mem' = pool' + Cardinality(Buffers')
  <2>1. mem = pool + Cardinality(Buffers)
    BY DEF Data, Totals
  <2>2. pool' \in Nat
    BY <1>13, <1>14
  <2> QED BY <1>7, <1>8, <1>11, <1>12, <1>13, <2>1, <2>2
<1>16. Totals'
  <2>1. active = Cardinality({e \in Conns : Live(e)})
    BY DEF Data, Totals
  <2> QED BY <1>2, <1>9, <1>10, <1>15, <2>1 DEF Totals
<1>17. Types'
  BY <1>2, <1>5, <1>6, <1>14 DEF Types, stopVars, endVars
<1>18. Cells'
  <2>1. ASSUME NEW e \in Conns, NEW f \in Dirs, e # c PROVE Operations(e, f)' /\ Balance(e, f)'
    BY <1>2, <1>5, <2>1, CellSame DEF Data, Cells, endVars
  <2>2. ASSUME NEW f \in Dirs PROVE Operations(c, f)'
    <3>1. dir[c][f].at = "ended"
      <4>1. relay[c].refs = 0
        BY <1>1, <1>2 DEF Control, LastHands
      <4>2. Rest(c, 1) + Rest(c, 2) = 0
        BY <1>3, <1>4, <4>1 DEF Control, Counted
      <4> QED BY <4>2 DEF Rest, Dirs
    <3>2. dir[c][f].state = "send" => dir[c][f].off + dir[c][f].n <= dir[c][f].len
      BY <1>3 DEF Data, Cells, Operations
    <3> QED BY <1>5, <3>1, <3>2 DEF Operations
  <2>3. ASSUME NEW f \in Dirs PROVE Balance(c, f)'
    <3>1. UNCHANGED <<supply, avail, out>>
      BY <1>2 DEF endVars
    <3>2. supply[c][f] + avail[c][f] + out[c][f] <= Units[f]
      BY <1>3 DEF Data, Cells, Balance
    <3> QED BY <1>5, <3>1, <3>2 DEF Balance, Live
  <2> QED BY <2>1, <2>2, <2>3 DEF Cells
<1> QED BY <1>16, <1>17, <1>18 DEF Data

\* A handler makes its relay: nothing has moved on it yet.
LEMMA DataInsert ==
  ASSUME Data, Control, NEW c \in Conns, Insert(c)
  PROVE  Data'
<1>1. PICK r, s : /\ r = [NewRelay EXCEPT !.phase = "live", !.refs = 2, !.listed = TRUE]
                  /\ s = [NewDir EXCEPT !.at = "held"]
  OBVIOUS
<1>2. /\ thr[c].pc = "insert" /\ Types
      /\ relay' = [relay EXCEPT ![c] = r]
      /\ dir' = [dir EXCEPT ![c] = [d \in Dirs |-> s]]
      /\ thr' = [thr EXCEPT ![c] = At("post", c, 1)]
      /\ active' = active + 1
      /\ UNCHANGED <<endVars, stopVars, pool, mem>>
  BY <1>1 DEF Insert, poolVars, Data
<1>3. relay[c].phase = "none"
  BY <1>2 DEF Control, Roles
<1>4. \A d \in Dirs : dir[c][d] = NewDir /\ supply[c][d] = Units[d] /\ avail[c][d] = 0 /\ out[c][d] = 0
  BY <1>3 DEF Control, Counted
<1>5. r \in Relays /\ r.phase = "live"
  <2>1. NewRelay \in Relays
    BY DEF NewRelay, Relays
  <2>2. PICK x : x = [NewRelay EXCEPT !.phase = "live"]
    OBVIOUS
  <2>3. x \in Relays /\ x.phase = "live"
    BY <2>1, <2>2 DEF Relays
  <2>4. PICK y : y = [x EXCEPT !.refs = 2]
    OBVIOUS
  <2>5. y \in Relays /\ y.phase = "live"
    BY <2>3, <2>4 DEF Relays
  <2>6. PICK z : z = [y EXCEPT !.listed = TRUE]
    OBVIOUS
  <2>7. z \in Relays /\ z.phase = "live"
    BY <2>5, <2>6 DEF Relays
  <2>8. z = r
    BY <1>1, <2>2, <2>4, <2>6
  <2> QED BY <2>7, <2>8
<1>6. s \in DirStates /\ s.at = "held" /\ s.state = "wait" /\ s.buf = FALSE
  BY <1>1, NoUnits DEF NewDir, DirStates
<1>7. /\ relay' \in [Conns -> Relays] /\ relay'[c] = r
      /\ \A e \in Conns : e # c => relay'[e] = relay[e]
  BY <1>2, <1>5, RelayBecomes
<1>8. /\ dir' \in [Conns -> [Dirs -> DirStates]] /\ \A d \in Dirs : dir'[c][d] = s
      /\ \A e \in Conns : e # c => dir'[e] = dir[e]
  <2>1. dir \in [Conns -> [Dirs -> DirStates]]
    BY <1>2 DEF Types
  <2> QED BY <1>2, <1>6, <2>1
<1>9. thr' \in [Threads -> ThreadStates]
  <2>1. At("post", c, 1) \in ThreadStates
    BY AtTyped DEF Dirs
  <2> QED BY <1>2, <2>1, ThreadMoves, ThreadSorts
<1>10. Types'
  BY <1>2, <1>7, <1>8, <1>9 DEF Types, stopVars, endVars
<1>11. Cells'
  <2>1. ASSUME NEW e \in Conns, NEW f \in Dirs, e # c PROVE Operations(e, f)' /\ Balance(e, f)'
    BY <1>2, <1>7, <1>8, <2>1, CellSame DEF Data, Cells, endVars
  <2>2. ASSUME NEW f \in Dirs PROVE Operations(c, f)'
    BY <1>6, <1>8 DEF Operations
  <2>3. ASSUME NEW f \in Dirs PROVE Balance(c, f)'
    <3>1. InHand(s) = 0
      BY <1>6 DEF InHand
    <3>2. Units[f] \in Nat
      BY RelayAssumption
    <3>3. supply'[c][f] = Units[f] /\ avail'[c][f] = 0 /\ out'[c][f] = 0 /\ dir'[c][f] = s
      BY <1>2, <1>4, <1>8 DEF endVars
    <3>4. supply'[c][f] + avail'[c][f] + out'[c][f] + InHand(dir'[c][f]) = Units[f]
          /\ supply'[c][f] + avail'[c][f] + out'[c][f] <= Units[f]
      BY <3>1, <3>2, <3>3
    <3> HIDE DEF InHand
    <3> QED BY <3>4 DEF Balance
  <2> QED BY <2>1, <2>2, <2>3 DEF Cells
<1>12. Totals'
  <2>1. {e \in Conns : Live(e)}' = {e \in Conns : Live(e)} \cup {c} /\ c \notin {e \in Conns : Live(e)}
    BY <1>3, <1>5, <1>7 DEF Live
  <2>2. Cardinality({e \in Conns : Live(e)} \cup {c}) = Cardinality({e \in Conns : Live(e)}) + 1
    BY <2>1, BuffersFinite, FS_AddElement
  <2>3. \A f \in Dirs : dir[c][f].buf = FALSE /\ dir'[c][f].buf = FALSE
    BY <1>4, <1>6, <1>8 DEF NewDir
  <2>4. Buffers' = Buffers
    BY <1>8, <2>3 DEF Buffers
  <2>5. mem = pool + Cardinality(Buffers) /\ active = Cardinality({e \in Conns : Live(e)})
    BY DEF Data, Totals
  <2>6. mem' = pool' + Cardinality(Buffers')
    BY <1>2, <2>4, <2>5
  <2> QED BY <1>2, <2>1, <2>2, <2>5, <2>6 DEF Totals
<1> QED BY <1>10, <1>11, <1>12 DEF Data

\* A thread that starts an operation has what it is to send, and no more.
LEMMA Posting ==
  ASSUME Types, Control, Cells,
         \/ \E c \in Conns : StartPosts(c)
         \/ \E w \in Workers : Serve(w)
  PROVE  \E t \in Crew, c \in Conns, d \in Dirs, kind \in {"wait", "read", "send"},
            len \in 0..BufSize, off \in 0..BufSize :
           /\ thr[t].c = c /\ thr[t].d = d /\ thr[t].pc \in {"post", "serve"}
           /\ Post(t, c, d, kind, len, off, After(t, c, d))
           /\ Live(c) /\ dir[c][d].at = "held" /\ (kind = "send" => off <= len)
           /\ InHand(dir[c][d]) = IF kind = "send" THEN len - off ELSE 0
<1>1. ASSUME NEW c \in Conns, StartPosts(c)
      PROVE  \E d \in Dirs, kind \in {"wait", "read", "send"}, len \in 0..BufSize, off \in 0..BufSize :
               /\ thr[c].c = c /\ thr[c].d = d /\ thr[c].pc \in {"post", "serve"}
               /\ Post(c, c, d, kind, len, off, After(c, c, d))
               /\ Live(c) /\ dir[c][d].at = "held" /\ (kind = "send" => off <= len)
               /\ InHand(dir[c][d]) = IF kind = "send" THEN len - off ELSE 0
  <2>1. PICK d : d = thr[c].d
    OBVIOUS
  <2>2. /\ thr[c].pc = "post" /\ thr[c].c = c /\ d \in Dirs
        /\ Post(c, c, d, "wait", 0, 0, After(c, c, d))
    BY <1>1, <2>1, ThreadTypes, ThreadSorts DEF StartPosts, Control, Roles
  <2>3. dir[c][d] = [NewDir EXCEPT !.at = "held"]
    BY <2>1, <2>2 DEF Control, Started, Holding
  <2>4. dir[c][d].at = "held" /\ dir[c][d].state = "wait"
    BY <2>3 DEF NewDir
  <2>5. Live(c)
    BY <2>2, <2>4, LiveByDir DEF Control
  <2>6. InHand(dir[c][d]) = 0
    BY <2>4 DEF InHand
  <2>7. PICK kind \in {"wait", "read", "send"}, len \in 0..BufSize, off \in 0..BufSize :
          kind = "wait" /\ len = 0 /\ off = 0
    BY NoUnits
  <2>8. Post(c, c, d, kind, len, off, After(c, c, d)) /\ kind # "send"
    BY <2>2, <2>7
  <2> HIDE DEF InHand
  <2> QED BY <2>1, <2>2, <2>4, <2>5, <2>6, <2>8
<1>2. ASSUME NEW w \in Workers, Serve(w)
      PROVE  \E c \in Conns, d \in Dirs, kind \in {"wait", "read", "send"},
                len \in 0..BufSize, off \in 0..BufSize :
               /\ thr[w].c = c /\ thr[w].d = d /\ thr[w].pc \in {"post", "serve"}
               /\ Post(w, c, d, kind, len, off, After(w, c, d))
               /\ Live(c) /\ dir[c][d].at = "held" /\ (kind = "send" => off <= len)
               /\ InHand(dir[c][d]) = IF kind = "send" THEN len - off ELSE 0
  <2>1. PICK c, d : c = thr[w].c /\ d = thr[w].d
    OBVIOUS
  <2>2. thr[w].pc = "serve" /\ w \in Crew /\ w \in Threads
    BY <1>2, ThreadSorts DEF Serve
  <2>3. c \in Conns /\ d \in Dirs
    BY <2>1, <2>2, OnConn DEF Control, Holding
  <2>4. dir[c][d].at = "held" /\ dir[c][d].ok
    <3>1. Has(w, c, d)
      BY <2>1, <2>2 DEF Has, Holding
    <3> QED BY <2>1, <2>2, <2>3, <3>1 DEF Control, Places, Started
  <2>5. Live(c)
    BY <2>3, <2>4, LiveByDir DEF Control
  <2>6. dir[c][d] \in DirStates /\ dir[c][d].state \in {"wait", "read", "send"}
    BY <2>3 DEF Types, DirStates
  <2>7. /\ dir[c][d].n \in 0..BufSize /\ dir[c][d].len \in 0..BufSize
        /\ dir[c][d].n \in Nat /\ dir[c][d].len \in Nat /\ dir[c][d].off \in Nat
        /\ dir[c][d].len <= BufSize
    BY <2>6, DirNumbers DEF DirStates
  <2>8. dir[c][d].state = "send" => dir[c][d].off + dir[c][d].n <= dir[c][d].len
    BY <2>3 DEF Cells, Operations
  <2>9. After(w, c, d) = Idle
    BY DEF After
  <2>10. CASE dir[c][d].state = "wait"
    <3>1. Post(w, c, d, "read", 0, 0, After(w, c, d))
      BY <1>2, <2>1, <2>9, <2>10 DEF Serve
    <3>2. InHand(dir[c][d]) = 0
      BY <2>10 DEF InHand
    <3>3. PICK kind \in {"wait", "read", "send"}, len \in 0..BufSize, off \in 0..BufSize :
            kind = "read" /\ len = 0 /\ off = 0
      BY NoUnits
    <3>4. Post(w, c, d, kind, len, off, After(w, c, d)) /\ kind # "send"
      BY <3>1, <3>3
    <3> HIDE DEF InHand
    <3> QED BY <2>1, <2>2, <2>3, <2>4, <2>5, <3>2, <3>4
  <2>11. CASE dir[c][d].state = "read"
    <3>1. Post(w, c, d, "send", dir[c][d].n, 0, After(w, c, d))
      BY <1>2, <2>1, <2>9, <2>11 DEF Serve
    <3>2. InHand(dir[c][d]) = dir[c][d].n
      BY <2>4, <2>11 DEF InHand
    <3>3. PICK kind \in {"wait", "read", "send"}, len \in 0..BufSize, off \in 0..BufSize :
            kind = "send" /\ len = dir[c][d].n /\ off = 0
      BY <2>7, NoUnits
    <3>4. Post(w, c, d, kind, len, off, After(w, c, d))
      BY <3>1, <3>3
    <3>5. off <= len /\ InHand(dir[c][d]) = len - off /\ kind = "send"
      BY <2>7, <3>2, <3>3
    <3> HIDE DEF InHand
    <3> QED BY <2>1, <2>2, <2>3, <2>4, <2>5, <3>4, <3>5
  <2>12. CASE dir[c][d].state = "send" /\ RestSent(dir[c][d]) < dir[c][d].len
    <3>1. Post(w, c, d, "send", dir[c][d].len, RestSent(dir[c][d]), After(w, c, d))
      BY <1>2, <2>1, <2>9, <2>12 DEF Serve
    <3>2. RestSent(dir[c][d]) = dir[c][d].off + dir[c][d].n
      BY DEF RestSent
    <3>3. InHand(dir[c][d]) = dir[c][d].len - dir[c][d].off - dir[c][d].n
      BY <2>4, <2>12 DEF InHand
    <3>4. dir[c][d].off + dir[c][d].n \in 0..BufSize
      BY <2>7, <2>8, <2>12, RelayAssumption
    <3>5. PICK kind \in {"wait", "read", "send"}, len \in 0..BufSize, off \in 0..BufSize :
            kind = "send" /\ len = dir[c][d].len /\ off = dir[c][d].off + dir[c][d].n
      BY <2>7, <3>4
    <3>6. Post(w, c, d, kind, len, off, After(w, c, d))
      BY <3>1, <3>2, <3>5
    <3>7. off <= len /\ InHand(dir[c][d]) = len - off /\ kind = "send"
      BY <2>7, <2>8, <2>12, <3>3, <3>5
    <3> HIDE DEF InHand
    <3> QED BY <2>1, <2>2, <2>3, <2>4, <2>5, <3>6, <3>7
  <2>13. CASE dir[c][d].state = "send" /\ ~(RestSent(dir[c][d]) < dir[c][d].len)
    <3>1. PICK kind \in {"wait", "read", "send"}, len \in 0..BufSize, off \in 0..BufSize :
            kind = (IF Busy(dir[c][d]) THEN "read" ELSE "wait") /\ len = 0 /\ off = 0
      BY NoUnits
    <3>2. Post(w, c, d, kind, len, off, After(w, c, d)) /\ kind # "send"
      BY <1>2, <2>1, <2>9, <2>13, <3>1 DEF Serve
    <3>3. dir[c][d].off + dir[c][d].n = dir[c][d].len
      <4>1. RestSent(dir[c][d]) = dir[c][d].off + dir[c][d].n
        BY DEF RestSent
      <4>2. PICK x, y, z : x = dir[c][d].off /\ y = dir[c][d].n /\ z = dir[c][d].len
        OBVIOUS
      <4>3. x \in Nat /\ y \in Nat /\ z \in Nat /\ ~(x + y < z) /\ x + y <= z
        BY <2>7, <2>8, <2>13, <4>1, <4>2
      <4> QED BY <4>2, <4>3
    <3>4. InHand(dir[c][d]) = dir[c][d].len - dir[c][d].off - dir[c][d].n
      BY <2>4, <2>13 DEF InHand
    <3>5. InHand(dir[c][d]) = 0
      BY <2>7, <3>3, <3>4
    <3> HIDE DEF InHand
    <3> QED BY <2>1, <2>2, <2>3, <2>4, <2>5, <3>2, <3>5
  <2> QED BY <2>6, <2>10, <2>11, <2>12, <2>13
<1> QED BY <1>1, <1>2, ThreadSorts

-----------------------------------------------------------------------------
(* The steps, one by one *)

\* Nobody works on a relay that is not alive.
LEMMA BusyLive ==
  ASSUME Types, Control, NEW t \in Threads, thr[t].pc \in Holding \cup {"unlink", "free"}
  PROVE  thr[t].c \in Conns /\ thr[t].d \in Dirs /\ Live(thr[t].c)
<1>1. thr[t].c \in Conns /\ thr[t].d \in Dirs
  BY OnConn DEF Control
<1>2. CASE t \in Crew /\ thr[t].pc \in Holding
  <2>1. Has(t, thr[t].c, thr[t].d)
    BY <1>2 DEF Has
  <2>2. dir[thr[t].c][thr[t].d].at = "held"
    BY <1>1, <1>2, <2>1 DEF Control, Places
  <2> QED BY <1>1, <2>2, LiveByDir DEF Control
<1>3. CASE t \in Crew /\ thr[t].pc \in {"unlink", "free"}
  BY <1>1, <1>3 DEF Control, LastHands
<1>4. CASE t = Stopper
  <2>1. thr[t].pc \in {"abort", "shut", "cancel"}
    BY <1>4 DEF Control, Roles, Holding
  <2> QED BY <1>1, <1>4, <2>1 DEF Control, Walking
<1> QED BY <1>2, <1>3, <1>4 DEF Threads, Crew

\* The ends move no thread and no operation.
LEMMA ControlEnds ==
  ASSUME Types, Control, Ends
  PROVE  Control'
<1>1. UNCHANGED <<relay, dir, thr, lock, todo, out>>
  BY DEF Ends, Breaks, Sends, Finishes, endVars, stopVars
<1>2. ASSUME NEW e \in Conns, NEW f \in Dirs, relay[e].phase = "none"
      PROVE  supply'[e][f] = supply[e][f] /\ avail'[e][f] = avail[e][f]
  <2>1. CASE UNCHANGED <<supply, avail>>
    BY <2>1
  <2>2. ASSUME NEW c \in Conns, NEW d \in Dirs, Sends(c, d)
        PROVE  supply'[e][f] = supply[e][f] /\ avail'[e][f] = avail[e][f]
    <3>1. c # e
      BY <1>2, <2>2 DEF Sends, Carries
    <3> QED BY <2>2, <3>1 DEF Sends, Types
  <2> QED BY <2>1, <2>2 DEF Ends, Breaks, Finishes
<1>3. Steady
  BY <1>1, <1>2 DEF Steady
<1> QED BY <1>1, <1>3, ControlSteady

\* The system completes what is outstanding.
LEMMA ControlSystem ==
  ASSUME Types, Control, NEW c \in Conns, NEW d \in Dirs, System(c, d)
  PROVE  Control'
<1>1. dir[c][d].at = "pending" /\ UNCHANGED <<relay, thr, lock, todo, supply>>
  BY DEF System, CompletesRead, CompletesSend, CompletesFailed, endVars, stopVars
<1>2. Live(c)
  BY <1>1, LiveByDir DEF Control
<1>3. PICK ok, n : dir' = Done(c, d, ok, n)
  <2>1. CASE CompletesRead(c, d)
    BY <2>1 DEF CompletesRead
  <2>2. CASE CompletesSend(c, d)
    BY <2>2 DEF CompletesSend
  <2>3. CASE CompletesFailed(c, d)
    BY <2>3 DEF CompletesFailed
  <2> QED BY <2>1, <2>2, <2>3 DEF System
<1>4. /\ \A e \in Conns, f \in Dirs : <<e, f>> # <<c, d>> => dir'[e][f] = dir[e][f]
      /\ dir'[c][d].at = "done"
  <2>1. dir \in [Conns -> [Dirs -> DirStates]] /\ dir[c][d] \in DirStates
    BY DEF Types
  <2>2. PICK s : s = [dir[c][d] EXCEPT !.at = "done", !.ok = ok, !.n = n]
    OBVIOUS
  <2>3. s.at = "done"
    BY <2>1, <2>2 DEF DirStates
  <2>4. dir' = [dir EXCEPT ![c][d] = s]
    BY <1>3, <2>1, <2>2 DEF Done
  <2> QED BY <2>1, <2>3, <2>4
<1>5. \A e \in Conns, f \in Dirs : e # c => avail'[e][f] = avail[e][f] /\ out'[e][f] = out[e][f]
  <2>1. CASE CompletesRead(c, d)
    BY <2>1 DEF CompletesRead, Types
  <2>2. CASE CompletesSend(c, d)
    BY <2>2 DEF CompletesSend, Types
  <2>3. CASE CompletesFailed(c, d)
    BY <2>3 DEF CompletesFailed, endVars
  <2> QED BY <2>1, <2>2, <2>3 DEF System
<1>6. Steady
  <2>1. \A e \in Conns, f \in Dirs : dir'[e][f] = dir[e][f] \/ (dir[e][f].at = "pending" /\ dir'[e][f].at = "done")
    <3> TAKE e \in Conns, f \in Dirs
    <3>1. CASE e = c /\ f = d
      BY <1>1, <1>4, <3>1
    <3>2. CASE ~(e = c /\ f = d)
      <4>1. <<e, f>> # <<c, d>>
        BY <3>2
      <4>2. dir'[e][f] = dir[e][f]
        BY <1>4, <4>1
      <4> QED BY <4>2
    <3> QED BY <3>1, <3>2
  <2> QED BY <1>1, <1>2, <1>5, <2>1 DEF Steady, Live
<1> QED BY <1>1, <1>6, ControlSteady

\* A handler before it has a relay, and when it goes without one.
LEMMA ControlHandshake ==
  ASSUME Types, Control, NEW c \in Conns,
         Spawn(c) \/ HandshakeFails(c) \/ HandshakeDone(c) \/ BlockingEnds(c)
  PROVE  /\ Control' /\ thr' \in [Threads -> ThreadStates]
         /\ Only(c) /\ thr'[c].pc \notin {"shut", "cancel"}
<1>1. /\ thr[c].pc \in {"idle", "handshake", "blocking"}
      /\ UNCHANGED <<endVars, stopVars, relay, dir>>
  BY AtTyped DEF Spawn, HandshakeFails, HandshakeDone, BlockingEnds, Idle, At
<1>2. PICK pc \in {"handshake", "insert", "blocking", "gone"} : thr' = [thr EXCEPT ![c] = At(pc, c, 1)]
  <2>1. CASE Spawn(c) \/ HandshakeFails(c) \/ BlockingEnds(c)
    BY <2>1 DEF Spawn, HandshakeFails, BlockingEnds
  <2>2. CASE HandshakeDone(c)
    BY <2>2 DEF HandshakeDone
  <2> QED BY <2>1, <2>2
<1>3. /\ At(pc, c, 1) \in ThreadStates
      /\ At(pc, c, 1).pc = pc /\ At(pc, c, 1).c = c /\ At(pc, c, 1).d = 1 /\ 1 \in Dirs
  BY AtTyped DEF Dirs
<1>4. /\ Only(c) /\ thr'[c] = At(pc, c, 1) /\ thr' \in [Threads -> ThreadStates]
  BY <1>2, <1>3, ThreadMoves, ThreadSorts DEF Only
<1>5. Steady
  BY <1>1 DEF Steady, endVars
<1>6. relay[c].phase = "none"
  BY <1>1 DEF Control, Roles
<1>7. UNCHANGED <<lock, todo>> /\ c \in Crew
  BY <1>1, ThreadSorts DEF stopVars
<1>8. thr[c].pc \notin Holding
  BY <1>1 DEF Holding
<1>9. thr'[c].c = c /\ thr'[c].pc \in {"handshake", "insert", "blocking", "gone"} /\ thr'[c].d \in Dirs
  BY <1>3, <1>4
<1> QED BY <1>4, <1>5, <1>6, <1>7, <1>8, <1>9, ControlMoves

\* A worker goes home, or has a direction to end.
LEMMA ControlExit ==
  ASSUME Types, Control, NEW w \in Workers, Exit(w) \/ ServeEnd(w)
  PROVE  /\ Control' /\ thr' \in [Threads -> ThreadStates]
         /\ Only(w) /\ thr'[w].pc \notin {"shut", "cancel"}
<1>1. w \in Threads /\ w \in Crew /\ w \notin Conns
  BY ThreadSorts
<1>2. Steady /\ UNCHANGED <<lock, todo>>
  BY DEF Exit, ServeEnd, Steady, endVars, stopVars
<1>3. CASE Exit(w)
  <2>1. thr[w].pc = "idle" /\ thr' = [thr EXCEPT ![w].pc = "gone"]
    BY <1>3, AtTyped DEF Exit, Idle, At
  <2>2. PICK pc \in {"gone", "idle"} : pc = "gone"
    OBVIOUS
  <2>3. PICK x \in ThreadStates : /\ thr' = [thr EXCEPT ![w] = x] /\ x.pc = "gone"
                                  /\ x.d = thr[w].d
    BY <1>1, <2>1, <2>2, PcBecomes, ZenonT(30)
  <2>4. /\ Only(w) /\ thr'[w] = x /\ thr' \in [Threads -> ThreadStates]
    BY <1>1, <2>3, ThreadMoves DEF Only
  <2>5. thr'[w].d \in Dirs /\ thr[w].pc \notin Holding
    BY <1>1, <2>1, <2>3, <2>4, ThreadTypes DEF Holding
  <2> QED BY <1>1, <1>2, <2>3, <2>4, <2>5, ControlMoves
<1>4. CASE ServeEnd(w)
  <2>1. thr[w].pc = "serve" /\ thr' = [thr EXCEPT ![w] = At("abort", thr[w].c, thr[w].d)]
    BY <1>4 DEF ServeEnd
  <2>2. thr[w].c \in Conns /\ thr[w].d \in Dirs /\ thr[w].pc \in Holding
    BY <1>1, <2>1, BusyLive DEF Holding
  <2>3. PICK x : x = At("abort", thr[w].c, thr[w].d)
    OBVIOUS
  <2>4. x \in ThreadStates /\ x.pc = "abort" /\ x.c = thr[w].c /\ x.d = thr[w].d
    BY <2>2, <2>3, AtTyped
  <2>5. /\ Only(w) /\ thr'[w] = x /\ thr' \in [Threads -> ThreadStates]
    BY <1>1, <2>1, <2>3, <2>4, ThreadMoves DEF Only
  <2> QED BY <1>1, <1>2, <2>2, <2>4, <2>5, ControlMoves
<1> QED BY <1>3, <1>4

\* A step of relay_abort, by whichever thread runs it.
LEMMA ControlAborting ==
  ASSUME Types, Control, NEW t \in Threads, Steady, UNCHANGED <<lock, todo>>,
         thr[t].pc \in {"abort", "shut", "cancel"},
         NEW x \in ThreadStates, thr' = [thr EXCEPT ![t] = x],
         \/ x = Leave(t)
         \/ x.pc \in {"shut", "cancel"} /\ x.c = thr[t].c /\ x.d = thr[t].d
  PROVE  Control'
<1>1. /\ Only(t) /\ thr'[t] = x
  BY ThreadMoves DEF Only
<1>2. thr[t].d \in Dirs /\ thr[t].c \in Conns
  BY BusyLive DEF Holding
<1>3. CASE t \in Crew
  <2>1. thr'[t].pc \in {"abort", "shut", "cancel", "release"}
        /\ thr'[t].c = thr[t].c /\ thr'[t].d = thr[t].d
    BY <1>1, <1>3, LeaveTyped, ThreadSorts
  <2>2. thr[t].pc \in Holding /\ thr'[t].d \in Dirs
    BY <1>2, <2>1 DEF Holding
  <2> QED BY <1>1, <1>3, <2>1, <2>2, ControlMoves
<1>4. CASE t = Stopper
  <2>1. thr'[Stopper].pc \in {"walk", "shut", "cancel"}
    BY <1>1, <1>4, LeaveTyped
  <2>2. thr'[Stopper].pc \in {"shut", "cancel"} => thr'[Stopper].c = thr[Stopper].c
    BY <1>1, <1>4, LeaveTyped
  <2>3. lock /\ lock' /\ todo' = todo /\ todo' \subseteq Conns /\ relay[thr[Stopper].c].listed
    BY <1>4 DEF Control, Walking, Types
  <2>4. \A c \in todo' : lock' /\ relay[c].listed
    BY <2>3 DEF Control, Walking
  <2> QED BY <1>1, <1>2, <1>4, <2>1, <2>2, <2>3, <2>4, ControlStop
<1> QED BY <1>3, <1>4 DEF Threads, Crew

\* The mark that lets one caller alone run the body of relay_abort.
LEMMA MarkedRelay ==
  ASSUME Types, NEW c \in Conns, relay' = [relay EXCEPT ![c].closing = TRUE]
  PROVE  /\ relay' \in [Conns -> Relays]
         /\ \A e \in Conns : e # c => relay'[e] = relay[e]
         /\ relay'[c].phase = relay[c].phase /\ relay'[c].refs = relay[c].refs
         /\ relay'[c].listed = relay[c].listed /\ relay'[c].shut = relay[c].shut
         /\ relay'[c].closing
<1>1. relay \in [Conns -> Relays] /\ relay[c] \in Relays
  BY DEF Types
<1>2. relay' = [relay EXCEPT ![c] = [relay[c] EXCEPT !.closing = TRUE]]
  OBVIOUS
<1>3. [relay[c] EXCEPT !.closing = TRUE] \in Relays
  BY <1>1 DEF Relays
<1> QED BY <1>1, <1>2, <1>3 DEF Relays

\* relay_abort: the mark.
LEMMA ControlAbort ==
  ASSUME Types, Control, NEW t \in Threads, Abort(t)
  PROVE  /\ Control' /\ thr' \in [Threads -> ThreadStates] /\ relay' \in [Conns -> Relays]
         /\ \A c \in Conns : /\ relay'[c].phase = relay[c].phase /\ relay'[c].shut = relay[c].shut
                             /\ relay[c].closing => relay'[c].closing
         /\ relay'[thr[t].c].closing /\ Only(t)
         /\ thr'[t].pc = "shut" => thr'[t].c = thr[t].c
         /\ thr'[t].pc # "cancel"
<1>1. /\ thr[t].pc = "abort"
      /\ relay' = [relay EXCEPT ![thr[t].c].closing = TRUE]
      /\ thr' = [thr EXCEPT ![t] = IF relay[thr[t].c].closing THEN Leave(t)
                                   ELSE [thr[t] EXCEPT !.pc = "shut"]]
      /\ UNCHANGED <<dir, lock, todo, supply, avail, out>>
  BY DEF Abort, endVars, stopVars
<1>2. thr[t].c \in Conns /\ Live(thr[t].c)
  BY <1>1, BusyLive DEF Holding
<1>3. /\ relay' \in [Conns -> Relays]
      /\ \A e \in Conns : e # thr[t].c => relay'[e] = relay[e]
      /\ \A e \in Conns : /\ relay'[e].phase = relay[e].phase /\ relay'[e].refs = relay[e].refs
                          /\ relay'[e].listed = relay[e].listed /\ relay'[e].shut = relay[e].shut
      /\ relay'[thr[t].c].closing
  BY <1>1, <1>2, MarkedRelay
<1>4. Steady
  BY <1>1, <1>2, <1>3 DEF Steady, Live
<1>5. PICK pc \in {"shut", "cancel"} : pc = "shut"
  OBVIOUS
<1>6. PICK y \in ThreadStates : /\ y = [thr[t] EXCEPT !.pc = "shut"]
                                /\ y.pc = "shut" /\ y.c = thr[t].c /\ y.d = thr[t].d
  BY <1>5, PcBecomes, ZenonT(30)
<1>7. PICK x \in ThreadStates : /\ x = IF relay[thr[t].c].closing THEN Leave(t) ELSE y
                                /\ thr' = [thr EXCEPT ![t] = x]
  BY <1>1, <1>6, LeaveTyped
<1>8. \/ x = Leave(t)
      \/ x.pc = "shut" /\ x.c = thr[t].c /\ x.d = thr[t].d
  BY <1>6, <1>7
<1>9. thr' \in [Threads -> ThreadStates] /\ thr'[t] = x /\ Only(t)
  BY <1>7, ThreadMoves DEF Only
<1>10. Control'
  BY <1>1, <1>4, <1>7, <1>8, ControlAborting
<1>11. (x.pc = "shut" => x.c = thr[t].c) /\ x.pc # "cancel"
  BY <1>8, LeaveTyped
<1> QED BY <1>3, <1>9, <1>10, <1>11

\* relay_abort: the sockets.
LEMMA ControlShutdown ==
  ASSUME Types, Control, NEW t \in Threads, Shutdown(t)
  PROVE  /\ Control' /\ Only(t) /\ thr'[t].c = thr[t].c
         /\ \A c \in Conns : /\ relay'[c].closing = relay[c].closing
                             /\ relay'[c].shut => relay[c].shut \/ c = thr[t].c
<1>1. PICK c : c = thr[t].c
  OBVIOUS
<1>2. /\ thr[t].pc = "shut" /\ relay' = Shut(c) /\ ForgetEnds(c)
      /\ thr' = [thr EXCEPT ![t].pc = "cancel"]
      /\ UNCHANGED <<dir, lock, todo>>
  BY <1>1 DEF Shutdown, stopVars
<1>3. c \in Conns /\ Live(c)
  BY <1>1, <1>2, BusyLive DEF Holding
<1>4. /\ \A e \in Conns : e # c => relay'[e] = relay[e]
      /\ \A e \in Conns : /\ relay'[e].phase = relay[e].phase /\ relay'[e].refs = relay[e].refs
                          /\ relay'[e].listed = relay[e].listed /\ relay'[e].closing = relay[e].closing
  BY <1>2, <1>3, ShutRelay
<1>5. \A e \in Conns : e # c => supply'[e] = supply[e] /\ avail'[e] = avail[e] /\ out'[e] = out[e]
  BY <1>2 DEF ForgetEnds, Types
<1>6. Steady
  BY <1>2, <1>3, <1>4, <1>5 DEF Steady, Live
<1>7. PICK pc \in {"shut", "cancel"} : pc = "cancel"
  OBVIOUS
<1>8. PICK x \in ThreadStates : /\ thr' = [thr EXCEPT ![t] = x]
                                /\ x.pc = "cancel" /\ x.c = thr[t].c /\ x.d = thr[t].d
  BY <1>2, <1>7, PcBecomes, ZenonT(30)
<1>9. thr'[t] = x /\ Only(t)
  BY <1>8, ThreadMoves DEF Only
<1>10. Control'
  BY <1>2, <1>6, <1>8, ControlAborting
<1> QED BY <1>1, <1>4, <1>8, <1>9, <1>10

\* relay_abort: what is outstanding.
LEMMA ControlCancel ==
  ASSUME Types, Control, NEW t \in Threads, Cancel(t)
  PROVE  Control' /\ Only(t) /\ thr'[t].pc \notin {"shut", "cancel"}
<1>1. PICK c : c = thr[t].c
  OBVIOUS
<1>2. /\ thr[t].pc = "cancel"
      /\ dir' = [dir EXCEPT ![c] = [d \in Dirs |->
           IF @[d].at = "pending" THEN [@[d] EXCEPT !.at = "done", !.ok = FALSE, !.n = 0] ELSE @[d]]]
      /\ thr' = [thr EXCEPT ![t] = Leave(t)]
      /\ UNCHANGED <<relay, lock, todo, supply, avail, out>>
  BY <1>1 DEF Cancel, endVars, stopVars
<1>3. c \in Conns
  BY <1>1, <1>2, BusyLive DEF Holding
<1>4. /\ \A e \in Conns, f \in Dirs : e # c \/ dir[e][f].at # "pending" => dir'[e][f] = dir[e][f]
      /\ \A f \in Dirs : dir[c][f].at = "pending" => dir'[c][f].at = "done"
  BY <1>2, <1>3, CancelledDirs
<1>5. \A e \in Conns, f \in Dirs : dir'[e][f] = dir[e][f] \/ (dir[e][f].at = "pending" /\ dir'[e][f].at = "done")
  <2> TAKE e \in Conns, f \in Dirs
  <2>1. CASE e = c /\ dir[e][f].at = "pending"
    <3>1. dir'[c][f].at = "done"
      BY <1>4, <2>1
    <3> QED BY <2>1, <3>1
  <2>2. CASE ~(e = c /\ dir[e][f].at = "pending")
    <3>1. dir'[e][f] = dir[e][f]
      BY <1>4, <2>2
    <3> QED BY <3>1
  <2> QED BY <2>1, <2>2
<1>6. Steady
  BY <1>2, <1>5 DEF Steady
<1>7. PICK x \in ThreadStates : x = Leave(t) /\ x.pc \notin {"shut", "cancel"}
  BY LeaveTyped
<1>8. thr' = [thr EXCEPT ![t] = x]
  BY <1>2, <1>7
<1>9. thr'[t] = x /\ Only(t)
  BY <1>8, ThreadMoves DEF Only
<1>10. Control'
  BY <1>2, <1>6, <1>7, <1>8, ControlAborting
<1> QED BY <1>7, <1>9, <1>10

\* The steps of ProxyBridge_Stop that move itself, the lock and the list alone.
LEMMA ControlStopping ==
  ASSUME Types, Control, Stop \/ JoinAcceptor \/ WaitHandlers \/ Walk \/ Drain \/ Join
  PROVE  /\ Control' /\ thr' \in [Threads -> ThreadStates] /\ Only(Stopper)
         /\ thr'[Stopper].pc \notin {"shut", "cancel"}
         /\ lock' \in BOOLEAN /\ todo' \subseteq Conns
<1>1. UNCHANGED <<relay, dir, supply, avail, out>>
  BY DEF Stop, JoinAcceptor, WaitHandlers, Walk, Drain, Join, endVars
<1>2. Steady
  BY <1>1 DEF Steady
<1>3. /\ todo \subseteq Conns /\ lock \in BOOLEAN /\ iocp \in BOOLEAN
      /\ lock <=> thr[Stopper].pc \in {"walk", "abort", "shut", "cancel"}
      /\ \A c \in todo : lock /\ relay[c].listed
  BY DEF Control, Walking, Types
<1>4. ASSUME NEW pc \in {"flagged", "joined", "walk", "drain", "join", "gone"}, Moved(pc),
             lock' <=> pc = "walk", todo' \subseteq Conns, \A c \in todo' : lock' /\ relay[c].listed,
             lock' \in BOOLEAN
      PROVE  /\ Control' /\ thr' \in [Threads -> ThreadStates] /\ Only(Stopper)
             /\ thr'[Stopper].pc \notin {"shut", "cancel"}
             /\ lock' \in BOOLEAN /\ todo' \subseteq Conns
  <2>1. /\ At(pc, NoConn, 1) \in ThreadStates /\ At(pc, NoConn, 1).pc = pc
        /\ thr' = [thr EXCEPT ![Stopper] = At(pc, NoConn, 1)]
    BY <1>4, AtTyped DEF Moved, Dirs
  <2>2. Only(Stopper) /\ thr'[Stopper].pc = pc /\ thr' \in [Threads -> ThreadStates]
    BY <2>1, ThreadMoves, ThreadSorts DEF Only
  <2>3. /\ thr'[Stopper].pc \in {"idle", "flagged", "joined", "walk", "abort", "shut", "cancel",
                                 "drain", "join", "gone"}
        /\ thr'[Stopper].pc \notin {"abort", "shut", "cancel"}
        /\ lock' <=> thr'[Stopper].pc \in {"walk", "abort", "shut", "cancel"}
    BY <1>4, <2>2
  <2>4. Control'
    BY <1>2, <1>4, <2>2, <2>3, ControlStop
  <2> QED BY <1>4, <2>2, <2>3, <2>4
<1>5. CASE Stop
  <2>1. thr[Stopper].pc = "idle" /\ Moved("flagged") /\ UNCHANGED <<lock, todo>>
    BY <1>5 DEF Stop, Idle, At
  <2>2. ~lock
    BY <1>3, <2>1
  <2> QED BY <1>3, <1>4, <2>1, <2>2
<1>6. CASE JoinAcceptor
  <2>1. thr[Stopper].pc = "flagged" /\ Moved("joined") /\ UNCHANGED <<lock, todo>>
    BY <1>6 DEF JoinAcceptor, stopVars
  <2>2. ~lock
    BY <1>3, <2>1
  <2> QED BY <1>3, <1>4, <2>1, <2>2
<1>7. CASE WaitHandlers
  <2>1. /\ Moved(IF iocp THEN "walk" ELSE "gone") /\ lock' = iocp
        /\ todo' = {c \in Conns : iocp /\ relay[c].listed}
    BY <1>7 DEF WaitHandlers
  <2>2. PICK pc \in {"walk", "gone"} : pc = IF iocp THEN "walk" ELSE "gone"
    OBVIOUS
  <2>3. Moved(pc)
    BY <2>1, <2>2
  <2>4. lock' <=> pc = "walk"
    BY <2>1, <2>2, <1>3
  <2>5. todo' \subseteq Conns /\ (\A c \in todo' : lock' /\ relay[c].listed) /\ lock' \in BOOLEAN
    BY <2>1, <1>3
  <2> QED BY <1>4, <2>3, <2>4, <2>5
<1>8. CASE Walk /\ todo = {}
  <2>1. Moved("drain") /\ lock' = FALSE /\ todo' = todo
    BY <1>8 DEF Walk
  <2> QED BY <1>3, <1>4, <1>8, <2>1
<1>9. CASE Walk /\ todo # {}
  <2>1. PICK c \in todo : /\ todo' = todo \ {c}
                          /\ thr' = [thr EXCEPT ![Stopper] = At("abort", c, 1)]
                          /\ UNCHANGED lock
    BY <1>9 DEF Walk
  <2>2. c \in Conns /\ relay[c].listed /\ lock /\ todo' \subseteq todo
    BY <1>3, <2>1
  <2>3. PICK x : x = At("abort", c, 1)
    OBVIOUS
  <2>4. x \in ThreadStates /\ x.pc = "abort" /\ x.c = c
    BY <2>2, <2>3, AtTyped DEF Dirs
  <2>5. Only(Stopper) /\ thr'[Stopper] = x /\ thr' \in [Threads -> ThreadStates]
    BY <2>1, <2>3, <2>4, ThreadMoves, ThreadSorts DEF Only
  <2>6. thr'[Stopper].pc = "abort" /\ thr'[Stopper].c = c
    BY <2>4, <2>5
  <2>7. (\A e \in todo' : lock' /\ relay[e].listed) /\ todo' \subseteq Conns /\ lock' /\ lock' = lock
    BY <1>3, <2>1, <2>2
  <2>8. Control'
    BY <1>2, <2>2, <2>5, <2>6, <2>7, ControlStop
  <2> QED BY <1>3, <2>5, <2>6, <2>7, <2>8
<1>10. CASE Drain
  <2>1. thr[Stopper].pc = "drain" /\ Moved("join") /\ UNCHANGED <<lock, todo>>
    BY <1>10 DEF Drain
  <2>2. ~lock
    BY <1>3, <2>1
  <2> QED BY <1>3, <1>4, <2>1, <2>2
<1>11. CASE Join
  <2>1. thr[Stopper].pc = "join" /\ Moved("gone") /\ UNCHANGED <<lock, todo>>
    BY <1>11 DEF Join
  <2>2. ~lock
    BY <1>3, <2>1
  <2> QED BY <1>3, <1>4, <2>1, <2>2
<1> QED BY <1>5, <1>6, <1>7, <1>8, <1>9, <1>10, <1>11

\* Marks stay, and sockets are shut down and operations cancelled after the mark.
LEMMA ClosingKept ==
  ASSUME Types, Control, Closing,
         \A c \in Conns : /\ relay[c].closing => relay'[c].closing
                          /\ relay'[c].shut => relay[c].shut \/ relay[c].closing,
         \A u \in Threads : thr'[u].pc \in {"shut", "cancel"} =>
           thr'[u] = thr[u] \/ (thr'[u].c \in Conns /\ relay'[thr'[u].c].closing)
  PROVE  Closing'
<1>1. ASSUME NEW u \in Threads, thr'[u].pc \in {"shut", "cancel"}
      PROVE  relay'[thr'[u].c].closing
  <2>1. CASE thr'[u] = thr[u]
    <3>1. thr[u].c \in Conns /\ relay[thr[u].c].closing
      BY <1>1, <2>1, OnConn DEF Control, Holding, Closing
    <3> QED BY <2>1, <3>1
  <2> QED BY <1>1, <2>1
<1> QED BY <1>1 DEF Closing

\* A thread moves elsewhere, or goes on with what it has marked.
LEMMA ClosingMoves ==
  ASSUME Types, Control, Closing, NEW t \in Threads, Only(t), relay' = relay,
         thr'[t].pc \notin {"shut", "cancel"}
  PROVE  Closing'
BY ClosingKept DEF Only, Closing

\* The invariant's parts.
LEMMA Parts == IInv <=> Data /\ Control /\ Closing
BY DEF IInv, Data

LEMMA StepEnds == ASSUME IInv, Ends PROVE IInv'
<1>1. Data' /\ Control'
  BY DataEnds, ControlEnds, Parts DEF Data
<1>2. Closing'
  BY DEF Ends, Breaks, Sends, Finishes, IInv, Closing
<1> QED BY <1>1, <1>2 DEF IInv, Data

LEMMA StepSystem == ASSUME IInv, NEW c \in Conns, NEW d \in Dirs, System(c, d) PROVE IInv'
<1>1. Data'
  BY DataCompletesRead, DataCompletesSend, DataCompletesFailed, Parts DEF System
<1>2. Control'
  BY ControlSystem, Parts DEF Data
<1>3. Closing'
  BY DEF System, CompletesRead, CompletesSend, CompletesFailed, IInv, Closing
<1> QED BY <1>1, <1>2, <1>3 DEF IInv, Data

LEMMA StepHandshake ==
  ASSUME IInv, NEW c \in Conns,
         Spawn(c) \/ HandshakeFails(c) \/ HandshakeDone(c) \/ BlockingEnds(c)
  PROVE  IInv'
<1>1. Data /\ Control /\ Closing /\ Types
  BY DEF IInv, Data
<1>2. /\ Control' /\ thr' \in [Threads -> ThreadStates]
      /\ Only(c) /\ thr'[c].pc \notin {"shut", "cancel"}
  BY <1>1, ControlHandshake
<1>3. UNCHANGED <<dir, relay, endVars, pool, mem, active, running, iocp, lock, exits, todo>>
  BY DEF Spawn, HandshakeFails, HandshakeDone, BlockingEnds, stopVars, poolVars
<1>4. Data'
  BY <1>1, <1>2, <1>3, DataQuiet DEF Types
<1>5. Closing'
  BY <1>1, <1>2, <1>3, ClosingMoves, ThreadSorts
<1> QED BY <1>2, <1>4, <1>5 DEF IInv, Data

LEMMA StepExit == ASSUME IInv, NEW w \in Workers, Exit(w) \/ ServeEnd(w) PROVE IInv'
<1>1. Data /\ Control /\ Closing /\ Types
  BY DEF IInv, Data
<1>2. /\ Control' /\ thr' \in [Threads -> ThreadStates]
      /\ Only(w) /\ thr'[w].pc \notin {"shut", "cancel"}
  BY <1>1, ControlExit
<1>3. UNCHANGED <<dir, relay, endVars, pool, mem, active, running, iocp, lock, todo>>
  BY DEF Exit, ServeEnd, stopVars, poolVars
<1>4. exits' \in 0..Cardinality(Workers)
  <2>1. exits \in 0..Cardinality(Workers) /\ Cardinality(Workers) \in Nat
    BY <1>1, RelayAssumption, FS_CardinalityType DEF Types
  <2>2. CASE Exit(w)
    <3>1. exits > 0 /\ exits' = exits - 1
      BY <2>2 DEF Exit
    <3> QED BY <2>1, <3>1
  <2>3. CASE ServeEnd(w)
    BY <2>1, <2>3 DEF ServeEnd, stopVars
  <2> QED BY <2>2, <2>3
<1>5. Data'
  BY <1>1, <1>2, <1>3, <1>4, DataQuiet DEF Types
<1>6. Closing'
  BY <1>1, <1>2, <1>3, ClosingMoves, ThreadSorts
<1> QED BY <1>2, <1>5, <1>6 DEF IInv, Data

LEMMA StepInsert == ASSUME IInv, NEW c \in Conns, Insert(c) PROVE IInv'
<1>1. Data /\ Control /\ Closing /\ Types
  BY DEF IInv, Data
<1>2. Data' /\ Control'
  BY <1>1, DataInsert, ControlInsert
<1>3. relay[c] = NewRelay /\ relay \in [Conns -> Relays]
  BY <1>1 DEF Insert, Control, Roles, Counted, Types
<1>4. /\ relay' = [relay EXCEPT ![c] = [NewRelay EXCEPT !.phase = "live", !.refs = 2, !.listed = TRUE]]
      /\ thr' = [thr EXCEPT ![c] = At("post", c, 1)]
  BY DEF Insert
<1>5. \A e \in Conns : relay'[e].closing = relay[e].closing /\ relay'[e].shut = relay[e].shut
  <2>1. [NewRelay EXCEPT !.phase = "live", !.refs = 2, !.listed = TRUE].closing = NewRelay.closing
        /\ [NewRelay EXCEPT !.phase = "live", !.refs = 2, !.listed = TRUE].shut = NewRelay.shut
    BY DEF NewRelay
  <2> QED BY <1>3, <1>4, <2>1
<1>6. Only(c) /\ thr'[c].pc = "post"
  <2>1. PICK x : x = At("post", c, 1)
    OBVIOUS
  <2>2. x \in ThreadStates /\ x.pc = "post"
    BY <2>1, AtTyped DEF Dirs
  <2> QED BY <1>1, <1>4, <2>1, <2>2, ThreadMoves, ThreadSorts DEF Only
<1>7. Closing'
  BY <1>1, <1>5, <1>6, ClosingKept DEF Only
<1> QED BY <1>2, <1>7 DEF IInv, Data

LEMMA StepPost ==
  ASSUME IInv, (\E c \in Conns : StartPosts(c)) \/ (\E w \in Workers : Serve(w))
  PROVE  IInv'
<1>1. Data /\ Control /\ Closing /\ Types /\ Cells
  BY DEF IInv, Data
<1>2. PICK t \in Crew, c \in Conns, d \in Dirs, kind \in {"wait", "read", "send"},
           len \in 0..BufSize, off \in 0..BufSize :
        /\ thr[t].c = c /\ thr[t].d = d /\ thr[t].pc \in {"post", "serve"}
        /\ Post(t, c, d, kind, len, off, After(t, c, d))
        /\ Live(c) /\ dir[c][d].at = "held" /\ (kind = "send" => off <= len)
        /\ InHand(dir[c][d]) = IF kind = "send" THEN len - off ELSE 0
  BY <1>1, Posting
<1> HIDE DEF InHand, Live
<1>3. Data'
  BY <1>1, <1>2, DataPost
<1>4. Control'
  BY <1>1, <1>2, ControlPost
<1>5. Only(t) /\ thr'[t].pc \notin {"shut", "cancel"} /\ t \in Threads
  <2>1. PICK r \in DirStates, ok \in BOOLEAN :
          thr' = [thr EXCEPT ![t] = IF ok THEN After(t, c, d) ELSE At("abort", c, d)]
    BY <1>1, <1>2, PostEffect
  <2>2. d \in {1, 2}
    BY DEF Dirs
  <2>3. PICK x : x = IF ok THEN After(t, c, d) ELSE At("abort", c, d)
    OBVIOUS
  <2>4. x \in ThreadStates /\ x.pc \notin {"shut", "cancel"}
    BY <2>2, <2>3, AfterTyped, AtTyped
  <2> QED BY <1>1, <2>1, <2>3, <2>4, ThreadMoves, ThreadSorts DEF Only
<1>6. relay' = relay
  BY <1>2 DEF Post
<1>7. Closing'
  BY <1>1, <1>5, <1>6, ClosingMoves
<1> QED BY <1>3, <1>4, <1>7 DEF IInv, Data

LEMMA StepGet == ASSUME IInv, NEW w \in Workers, Get(w) PROVE IInv'
<1>1. Data /\ Control /\ Closing /\ Types
  BY DEF IInv, Data
<1>2. Data' /\ Control'
  BY <1>1, DataGet, ControlGet
<1>3. PICK c \in Conns, d \in Dirs :
        thr' = [thr EXCEPT ![w] = At(IF dir[c][d].ok THEN "serve" ELSE "abort", c, d)]
  BY DEF Get
<1>4. Only(w) /\ thr'[w].pc \notin {"shut", "cancel"}
  <2>1. PICK pc \in {"serve", "abort"} : pc = IF dir[c][d].ok THEN "serve" ELSE "abort"
    OBVIOUS
  <2>2. PICK x : x = At(pc, c, d)
    OBVIOUS
  <2>3. x \in ThreadStates /\ x.pc = pc
    BY <2>2, AtTyped
  <2>4. thr' = [thr EXCEPT ![w] = x]
    BY <1>3, <2>1, <2>2
  <2> QED BY <1>1, <2>1, <2>3, <2>4, ThreadMoves, ThreadSorts DEF Only
<1>5. relay' = relay
  BY DEF Get
<1>6. Closing'
  BY <1>1, <1>4, <1>5, ClosingMoves, ThreadSorts
<1> QED BY <1>2, <1>6 DEF IInv, Data

LEMMA StepAbort == ASSUME IInv, NEW t \in Threads, Abort(t) PROVE IInv'
<1>1. Data /\ Control /\ Closing /\ Types
  BY DEF IInv, Data
<1>2. /\ Control' /\ thr' \in [Threads -> ThreadStates] /\ relay' \in [Conns -> Relays]
      /\ \A c \in Conns : /\ relay'[c].phase = relay[c].phase /\ relay'[c].shut = relay[c].shut
                          /\ relay[c].closing => relay'[c].closing
      /\ relay'[thr[t].c].closing /\ Only(t)
      /\ thr'[t].pc = "shut" => thr'[t].c = thr[t].c
      /\ thr'[t].pc # "cancel"
  BY <1>1, ControlAbort
<1>3. UNCHANGED <<dir, endVars, pool, mem, active, running, iocp, exits, lock, todo>>
  BY DEF Abort, stopVars, poolVars
<1>4. Data'
  BY <1>1, <1>2, <1>3, DataQuiet DEF Types
<1>5. thr[t].c \in Conns
  BY <1>1, BusyLive DEF Abort, Holding
<1>6. Closing'
  BY <1>1, <1>2, <1>5, ClosingKept DEF Only
<1> QED BY <1>2, <1>4, <1>6 DEF IInv, Data

LEMMA StepShutdown == ASSUME IInv, NEW t \in Threads, Shutdown(t) PROVE IInv'
<1>1. Data /\ Control /\ Closing /\ Types
  BY DEF IInv, Data
<1>2. /\ Control' /\ Only(t) /\ thr'[t].c = thr[t].c
      /\ \A c \in Conns : /\ relay'[c].closing = relay[c].closing
                          /\ relay'[c].shut => relay[c].shut \/ c = thr[t].c
  BY <1>1, ControlShutdown
<1>3. Data'
  BY <1>1, DataShutdown
<1>4. thr[t].c \in Conns /\ relay[thr[t].c].closing
  BY <1>1, BusyLive DEF Shutdown, Holding, Closing
<1>5. \A c \in Conns : relay'[c].shut => relay[c].shut \/ relay[c].closing
  BY <1>2, <1>4
<1>6. relay'[thr'[t].c].closing /\ thr'[t].c \in Conns
  BY <1>2, <1>4
<1>7. Closing'
  BY <1>1, <1>2, <1>5, <1>6, ClosingKept DEF Only
<1> QED BY <1>2, <1>3, <1>7 DEF IInv, Data

LEMMA StepCancel == ASSUME IInv, NEW t \in Threads, Cancel(t) PROVE IInv'
<1>1. Data /\ Control /\ Closing /\ Types
  BY DEF IInv, Data
<1>2. Control' /\ Only(t) /\ thr'[t].pc \notin {"shut", "cancel"}
  BY <1>1, ControlCancel
<1>3. Data'
  BY <1>1, DataCancel
<1>4. relay' = relay
  BY DEF Cancel
<1>5. Closing'
  BY <1>1, <1>2, <1>4, ClosingMoves
<1> QED BY <1>2, <1>3, <1>5 DEF IInv, Data

LEMMA StepRelease == ASSUME IInv, NEW t \in Crew, Release(t) PROVE IInv'
<1>1. Data /\ Control /\ Closing /\ Types
  BY DEF IInv, Data
<1>2. Data' /\ Control'
  BY <1>1, DataRelease, ControlRelease
<1>3. PICK c, d : c = thr[t].c /\ d = thr[t].d
  OBVIOUS
<1>4. /\ thr[t].pc = "release" /\ t \in Threads
      /\ relay' = [relay EXCEPT ![c].refs = @ - 1]
      /\ thr' = [thr EXCEPT ![t] = IF LastOut(c) THEN At("unlink", c, d) ELSE After(t, c, d)]
  BY <1>3, ThreadSorts DEF Release
<1>5. c \in Conns /\ d \in Dirs /\ d \in {1, 2}
  BY <1>1, <1>3, <1>4, OnConn DEF Control, Holding, Dirs
<1>6. \A e \in Conns : relay'[e].closing = relay[e].closing /\ relay'[e].shut = relay[e].shut
  BY <1>1, <1>4, <1>5 DEF Types, Relays
<1>7. Only(t) /\ thr'[t].pc \notin {"shut", "cancel"}
  <2>1. PICK x : x = IF LastOut(c) THEN At("unlink", c, d) ELSE After(t, c, d)
    OBVIOUS
  <2>2. x \in ThreadStates /\ x.pc \notin {"shut", "cancel"}
    BY <1>5, <2>1, AfterTyped, AtTyped
  <2> QED BY <1>1, <1>4, <2>1, <2>2, ThreadMoves DEF Only
<1>8. Closing'
  BY <1>1, <1>6, <1>7, ClosingKept DEF Only
<1> QED BY <1>2, <1>8 DEF IInv, Data

LEMMA StepUnlink == ASSUME IInv, NEW t \in Crew, Unlink(t) PROVE IInv'
<1>1. Data /\ Control /\ Closing /\ Types
  BY DEF IInv, Data
<1>2. Control'
  BY <1>1, ControlUnlink
<1>3. PICK c : c = thr[t].c
  OBVIOUS
<1>4. /\ thr[t].pc = "unlink" /\ t \in Threads
      /\ relay' = [relay EXCEPT ![c].listed = FALSE]
      /\ thr' = [thr EXCEPT ![t].pc = "free"]
      /\ UNCHANGED <<dir, endVars, pool, mem, active, running, iocp, exits, lock, todo>>
  BY <1>3, ThreadSorts DEF Unlink, stopVars, poolVars
<1>5. c \in Conns
  BY <1>1, <1>3, <1>4, OnConn DEF Control
<1>6. /\ relay' \in [Conns -> Relays]
      /\ \A e \in Conns : /\ relay'[e].phase = relay[e].phase /\ relay'[e].shut = relay[e].shut
                          /\ relay'[e].closing = relay[e].closing
  <2>1. relay \in [Conns -> Relays] /\ relay[c] \in Relays
    BY <1>1, <1>5 DEF Types
  <2>2. PICK r : r = [relay[c] EXCEPT !.listed = FALSE]
    OBVIOUS
  <2>3. r \in Relays /\ r.phase = relay[c].phase /\ r.shut = relay[c].shut
        /\ r.closing = relay[c].closing
    BY <2>1, <2>2 DEF Relays
  <2>4. relay' = [relay EXCEPT ![c] = r]
    BY <1>4, <2>2
  <2> QED BY <1>5, <2>1, <2>3, <2>4
<1>7. Only(t) /\ thr'[t].pc \notin {"shut", "cancel"} /\ thr' \in [Threads -> ThreadStates]
  <2>1. PICK pc \in {"free", "gone"} : pc = "free"
    OBVIOUS
  <2>2. PICK x \in ThreadStates : thr' = [thr EXCEPT ![t] = x] /\ x.pc = "free"
    BY <1>1, <1>4, <2>1, PcBecomes, ZenonT(30)
  <2> QED BY <1>1, <1>4, <2>2, ThreadMoves DEF Only
<1>8. Data'
  BY <1>1, <1>4, <1>6, <1>7, DataQuiet DEF Types
<1>9. Closing'
  BY <1>1, <1>6, <1>7, ClosingKept DEF Only
<1> QED BY <1>2, <1>8, <1>9 DEF IInv, Data

LEMMA StepFree == ASSUME IInv, NEW t \in Crew, Free(t) PROVE IInv'
<1>1. Data /\ Control /\ Closing /\ Types
  BY DEF IInv, Data
<1>2. Data' /\ Control'
  BY <1>1, DataFree, ControlFree
<1>3. PICK c, d : c = thr[t].c /\ d = thr[t].d
  OBVIOUS
<1>4. /\ thr[t].pc = "free" /\ t \in Threads
      /\ relay' = [relay EXCEPT ![c].phase = "freed"]
      /\ dir' = [dir EXCEPT ![c] = [f \in Dirs |-> [@[f] EXCEPT !.buf = FALSE]]]
      /\ thr' = [thr EXCEPT ![t] = After(t, c, d)]
  BY <1>3, ThreadSorts DEF Free
<1>5. c \in Conns /\ d \in Dirs /\ d \in {1, 2}
  BY <1>1, <1>3, <1>4, OnConn DEF Control, Dirs
<1>6. \A e \in Conns : relay'[e].closing = relay[e].closing /\ relay'[e].shut = relay[e].shut
  BY <1>1, <1>4, <1>5, FreedRelay
<1>7. Only(t) /\ thr'[t].pc \notin {"shut", "cancel"}
  <2>1. PICK x : x = After(t, c, d)
    OBVIOUS
  <2>2. x \in ThreadStates /\ x.pc \notin {"shut", "cancel"}
    BY <1>5, <2>1, AfterTyped
  <2> QED BY <1>1, <1>4, <2>1, <2>2, ThreadMoves DEF Only
<1>8. Closing'
  BY <1>1, <1>6, <1>7, ClosingKept DEF Only
<1> QED BY <1>2, <1>8 DEF IInv, Data

LEMMA StepDirEnd == ASSUME IInv, NEW t \in Crew, DirEnd(t) PROVE IInv'
<1>1. t \in Threads
  BY ThreadSorts
<1> QED BY <1>1, StepAbort, StepShutdown, StepCancel, StepRelease, StepUnlink, StepFree DEF DirEnd

LEMMA StepStopping ==
  ASSUME IInv, Stop \/ JoinAcceptor \/ WaitHandlers \/ Walk \/ Drain \/ Join
  PROVE  IInv'
<1>1. Data /\ Control /\ Closing /\ Types
  BY DEF IInv, Data
<1>2. /\ Control' /\ thr' \in [Threads -> ThreadStates] /\ Only(Stopper)
      /\ thr'[Stopper].pc \notin {"shut", "cancel"}
      /\ lock' \in BOOLEAN /\ todo' \subseteq Conns
  BY <1>1, ControlStopping
<1>3. UNCHANGED <<relay, dir, endVars>> /\ Stopper \in Threads
  BY ThreadSorts DEF Stop, JoinAcceptor, WaitHandlers, Walk, Drain, Join
<1>4. Closing'
  BY <1>1, <1>2, <1>3, ClosingMoves
<1>5. Data'
  <2>1. CASE Join
    BY <1>1, <2>1, DataJoin
  <2>2. CASE Stop \/ JoinAcceptor \/ WaitHandlers \/ Walk \/ Drain
    <3>1. UNCHANGED <<pool, mem, active, iocp>>
      BY <2>2 DEF Stop, JoinAcceptor, WaitHandlers, Walk, Drain, poolVars, stopVars
    <3>2. running' \in BOOLEAN
      BY <1>1, <2>2 DEF Stop, JoinAcceptor, WaitHandlers, Walk, Drain, stopVars, Types
    <3>3. exits' \in 0..Cardinality(Workers)
      <4>1. exits \in 0..Cardinality(Workers) /\ Cardinality(Workers) \in Nat
        BY <1>1, RelayAssumption, FS_CardinalityType DEF Types
      <4>2. exits' = exits \/ exits' = Cardinality(Workers)
        BY <2>2 DEF Stop, JoinAcceptor, WaitHandlers, Walk, Drain, stopVars
      <4> QED BY <4>1, <4>2
    <3> QED BY <1>1, <1>2, <1>3, <3>1, <3>2, <3>3, DataQuiet DEF Types
  <2> QED BY <2>1, <2>2
<1> QED BY <1>2, <1>4, <1>5 DEF IInv, Data

LEMMA InvStep == ASSUME IInv, [Next]_vars PROVE IInv'
<1>1. CASE Ends
  BY <1>1, StepEnds
<1>2. CASE \E c \in Conns, d \in Dirs : System(c, d)
  BY <1>2, StepSystem
<1>3. ASSUME NEW c \in Conns, Spawn(c) \/ BlockingEnds(c) \/ Handler(c)
      PROVE  IInv'
  BY <1>3, StepHandshake, StepInsert, StepPost, StepDirEnd, ThreadSorts DEF Handler
<1>4. ASSUME NEW w \in Workers, Worker(w)
      PROVE  IInv'
  BY <1>4, StepGet, StepExit, StepPost, StepDirEnd, ThreadSorts DEF Worker
<1>5. CASE Stop \/ Stopping
  BY <1>5, StepStopping, StepAbort, StepShutdown, StepCancel, ThreadSorts DEF Stopping
<1>6. CASE UNCHANGED vars
  <2>1. UNCHANGED <<running, iocp, relay, dir, thr, exits, pool, mem, active, lock, todo,
                    supply, avail, out, eof, broken>>
    BY <1>6 DEF vars
  <2>2. Types' /\ Closing'
    BY <2>1 DEF IInv, Types, Closing
  <2>3. Steady
    BY <2>1 DEF Steady
  <2>4. Control'
    BY <2>1, <2>3, ControlSteady DEF IInv
  <2>5. Cells'
    BY <2>1, CellSame DEF IInv, Cells
  <2>6. Totals'
    BY <2>1, TotalsSame DEF IInv, Live
  <2> QED BY <2>2, <2>4, <2>5, <2>6 DEF IInv
<1> QED BY <1>1, <1>2, <1>3, <1>4, <1>5, <1>6 DEF Next

LEMMA InvInit == ASSUME Init PROVE IInv
<1>1. \A t \in Threads : thr[t] = Idle /\ thr[t].pc = "idle" /\ thr[t].pc \notin Holding
  BY DEF Init, Idle, At, Holding
<1>2. /\ \A c \in Conns : relay[c] = NewRelay /\ relay[c].phase = "none" /\ ~relay[c].listed
                          /\ ~relay[c].shut
      /\ \A c \in Conns, d \in Dirs : dir[c][d] = NewDir /\ dir[c][d].at = "new" /\ ~dir[c][d].buf
                                      /\ dir[c][d].state = "wait"
  BY DEF Init, NewRelay, NewDir
<1>3. /\ todo = {} /\ lock = FALSE /\ pool = 0 /\ mem = 0 /\ active = 0
      /\ \A c \in Conns, d \in Dirs : supply[c][d] = Units[d] /\ avail[c][d] = 0 /\ out[c][d] = 0
      /\ \A d \in Dirs : Units[d] \in Nat
  BY RelayAssumption DEF Init
<1>4. Types
  <2>1. NewRelay \in Relays
    BY DEF NewRelay, Relays
  <2>2. NewDir \in DirStates
    BY NoUnits DEF NewDir, DirStates
  <2>3. relay \in [Conns -> Relays] /\ dir \in [Conns -> [Dirs -> DirStates]]
    BY <2>1, <2>2 DEF Init
  <2>4. thr \in [Threads -> ThreadStates]
    BY AtTyped DEF Init
  <2>5. supply \in [Conns -> [Dirs -> Nat]] /\ avail \in [Conns -> [Dirs -> Nat]]
        /\ out \in [Conns -> [Dirs -> Nat]]
    BY RelayAssumption DEF Init
  <2>6. exits \in 0..Cardinality(Workers)
    BY RelayAssumption, FS_CardinalityType DEF Init
  <2>7. pool \in 0..Keep
    BY RelayAssumption DEF Init
  <2>8. running \in BOOLEAN /\ iocp \in BOOLEAN /\ lock \in BOOLEAN
    BY RelayAssumption DEF Init
  <2>9. todo \subseteq Conns /\ eof \subseteq Conns \X Dirs /\ broken \subseteq Conns
    BY DEF Init
  <2> QED BY <2>3, <2>4, <2>5, <2>6, <2>7, <2>8, <2>9 DEF Types
<1>5. Control
  <2>1. Roles
    BY <1>1, <1>2, ThreadSorts DEF Roles
  <2>2. Places
    BY <1>1, <1>2, ThreadSorts DEF Places, Has
  <2>3. Counted
    BY <1>2, <1>3 DEF Counted, Live
  <2>4. LastHands
    BY <1>1, ThreadSorts DEF LastHands
  <2>5. Walking
    BY <1>1, <1>2, <1>3, ThreadSorts DEF Walking
  <2>6. Started
    BY <1>1, ThreadSorts DEF Started
  <2> QED BY <2>1, <2>2, <2>3, <2>4, <2>5, <2>6 DEF Control
<1>6. Cells
  BY <1>2, <1>3 DEF Cells, Operations, Balance, Live
<1>7. Totals
  <2>1. Buffers = {} /\ {c \in Conns : Live(c)} = {}
    BY <1>2 DEF Buffers, Live
  <2>2. Cardinality({}) = 0
    BY FS_EmptySet
  <2> QED BY <1>3, <2>1, <2>2 DEF Totals
<1>8. Closing
  BY <1>1, <1>2 DEF Closing
<1> QED BY <1>4, <1>5, <1>6, <1>7, <1>8 DEF IInv

-----------------------------------------------------------------------------
(* What the invariant says *)

\* The pool stays in order: every direction is in one place, every relay counts its live
\* directions, every buffer and unit is accounted for (pb_relay.c).
THEOREM RelayInv == Spec => []IInv
<1>1. Init => IInv
  BY InvInit
<1>2. IInv /\ [Next]_vars => IInv'
  BY InvStep
<1> QED BY <1>1, <1>2, PTL DEF Spec

\* A direction of a live relay is in one place, in the hands of at most one thread
\* (relay_worker and relay_start against each other).
THEOREM DirectionsHeldOnce == Spec => []OneHolder
<1>1. IInv => OneHolder
  <2> SUFFICES ASSUME IInv, NEW c \in Conns, NEW d \in Dirs, Live(c)
               PROVE  /\ dir[c][d].at # "new"
                      /\ Cardinality(Holders(c, d)) = IF dir[c][d].at = "held" THEN 1 ELSE 0
    BY DEF OneHolder
  <2>1. dir[c][d].at # "new"
    BY DEF IInv, Control, Counted
  <2>2. Holders(c, d) = {t \in Crew : Has(t, c, d)}
    BY DEF Holders, Crew, Has, Holding
  <2>3. CASE dir[c][d].at = "held"
    <3>1. PICK t \in Crew : Has(t, c, d)
      BY <2>3 DEF IInv, Control, Places
    <3>2. \A u \in Crew : Has(u, c, d) => u = t
      BY <3>1 DEF IInv, Control, Places
    <3>3. Holders(c, d) = {t}
      BY <2>2, <3>1, <3>2
    <3>4. Cardinality({t}) = 1
      BY FS_Singleton
    <3> QED BY <2>1, <2>3, <3>3, <3>4
  <2>4. CASE dir[c][d].at # "held"
    <3>1. \A u \in Crew : ~Has(u, c, d)
      BY <2>4 DEF IInv, Control, Places
    <3>2. Holders(c, d) = {}
      BY <2>2, <3>1
    <3>3. Cardinality({}) = 0
      BY FS_EmptySet
    <3> QED BY <2>1, <2>4, <3>2, <3>3
  <2> QED BY <2>3, <2>4
<1> QED BY <1>1, RelayInv, PTL

\* Nobody works on a relay that was freed, the stop visits none and the system has nothing
\* of one outstanding (relay_release, relay_pool_stop).
THEOREM RelaysFreedLast == Spec => []NoUseAfterFree
<1>1. IInv => NoUseAfterFree
  <2> SUFFICES ASSUME IInv PROVE NoUseAfterFree
    OBVIOUS
  <2>1. Types /\ Control
    BY DEF IInv
  <2>2. \A t \in Threads :
          thr[t].pc \in {"post", "serve", "abort", "shut", "cancel", "release", "unlink", "free"}
            => Live(thr[t].c)
    BY <2>1, BusyLive DEF Holding
  <2>3. \A c \in todo : Live(c) /\ relay[c].listed
    BY <2>1 DEF Types, Control, Walking
  <2>4. \A c \in Conns, d \in Dirs : dir[c][d].at \in {"pending", "done"} => Live(c)
    BY <2>1, LiveByDir DEF Control
  <2> QED BY <2>2, <2>3, <2>4 DEF NoUseAfterFree
<1> QED BY <1>1, RelayInv, PTL

\* Every allocated buffer is in the pool or with a direction of a live relay, and no more
\* than two per relay are out (relay_buf_get, relay_buf_put, relay_release).
THEOREM RelayBuffers == Spec => []BuffersAccounted
<1>1. IInv => BuffersAccounted
  <2> SUFFICES ASSUME IInv PROVE BuffersAccounted
    OBVIOUS
  <2>1. Types /\ Cells /\ Totals
    BY DEF IInv
  <2>2. /\ Cardinality(Buffers) \in Nat /\ Cardinality(Buffers) <= 2 * Cardinality(Conns)
        /\ Cardinality(Conns) \in Nat
        /\ Cardinality({c \in Conns : Live(c)}) \in Nat
        /\ Cardinality({c \in Conns : Live(c)}) <= Cardinality(Conns)
    BY BuffersFinite
  <2>3. mem = pool + Cardinality(Buffers) /\ active = Cardinality({c \in Conns : Live(c)})
    BY <2>1 DEF Totals
  <2>4. mem \in 0..(Keep + 2 * Cardinality(Conns)) /\ active \in 0..Cardinality(Conns)
    <3>1. pool \in 0..Keep /\ Keep \in Nat
      BY <2>1, RelayAssumption DEF Types
    <3>2. PICK b \in Nat, k \in Nat : b = Cardinality(Buffers) /\ k = 2 * Cardinality(Conns)
      BY <2>2
    <3>3. mem \in 0..(Keep + k)
      BY <2>2, <2>3, <3>1, <3>2
    <3> QED BY <2>2, <2>3, <3>2, <3>3
  <2>5. \A c \in Conns, d \in Dirs : {supply[c][d], avail[c][d], out[c][d]} \subseteq 0..Units[d]
    <3> TAKE c \in Conns, d \in Dirs
    <3>1. /\ supply[c][d] \in Nat /\ avail[c][d] \in Nat /\ out[c][d] \in Nat /\ Units[d] \in Nat
          /\ supply[c][d] + avail[c][d] + out[c][d] <= Units[d]
      BY <2>1, RelayAssumption DEF Types, Cells, Balance
    <3> QED BY <3>1
  <2>6. TypeOK
    BY <2>1, <2>4, <2>5 DEF TypeOK, Types
  <2>7. \A c \in Conns, d \in Dirs :
          /\ dir[c][d].at = "pending" /\ dir[c][d].state # "wait" => dir[c][d].buf
          /\ dir[c][d].buf => Live(c)
    BY <2>1 DEF Cells, Operations
  <2> QED BY <2>3, <2>6, <2>7 DEF BuffersAccounted, Buffers
<1> QED BY <1>1, RelayInv, PTL

\* While a direction lives, every unit its source has sent is in the kernel, in the relay's
\* hands or at its destination, however partially sends complete (relay_worker).
THEOREM UnitsIntact == Spec => []Intact
<1>1. IInv => Intact
  <2> SUFFICES ASSUME IInv, NEW c \in Conns, NEW d \in Dirs, Live(c), ~relay[c].closing,
                      dir[c][d].at \in {"pending", "done"}
               PROVE  Units[d] - supply[c][d] - avail[c][d] = out[c][d] + InHand(dir[c][d])
    BY DEF Intact
  <2>1. ~relay[c].shut
    BY DEF IInv, Closing
  <2>2. supply[c][d] + avail[c][d] + out[c][d] + InHand(dir[c][d]) = Units[d]
    BY <2>1 DEF IInv, Cells, Balance
  <2>3. supply[c][d] \in Nat /\ avail[c][d] \in Nat /\ out[c][d] \in Nat /\ Units[d] \in Nat
    BY RelayAssumption DEF IInv, Types
  <2>4. InHand(dir[c][d]) \in Int
    <3>1. dir[c][d] \in DirStates
      BY DEF IInv, Types
    <3>2. dir[c][d].n \in Nat /\ dir[c][d].len \in Nat /\ dir[c][d].off \in Nat
      BY <3>1, DirNumbers
    <3> QED BY <3>2 DEF InHand
  <2> HIDE DEF InHand
  <2> QED BY <2>2, <2>3, <2>4
<1> QED BY <1>1, RelayInv, PTL
=============================================================================
