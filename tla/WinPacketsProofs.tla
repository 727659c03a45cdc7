-------------------------- MODULE WinPacketsProofs --------------------------
(***************************************************************************)
(* That the packet loop judges connections by the rules in force and keeps *)
(* to what it decided, for any processes, destinations, rules and ports    *)
(* and any order of segments, rule changes and expiries.                   *)
(***************************************************************************)
EXTENDS WinPackets, TLAPS

-----------------------------------------------------------------------------
(* The inductive invariant *)

\* What tables t must have of a connection c on k, whoever shares its port: the process
\* cached for it is its own, and until both sides have finished the relay finds it if it
\* is proxied.
KeptAt(t, c, k) ==
  /\ ~IsV4(k) => t.pids[k] = NoApp
  /\ c # NoConn =>
       /\ ~c.up => c.fins = {}
       /\ c.relay = "queued" => c.via = "proxy" /\ "relay" \notin c.fins
       /\ c.via = "proxy" => ~Untouched(k, c.dest)
       /\ ~Untouched(k, c.dest) => t.pids[k] \in {NoApp, c.app}
       /\ c.via = "proxy" /\ ~c.aged /\ c.fins # Sides =>
            /\ Tracked(t, k) /\ t.entry[k].dest = c.dest
            /\ t.entry[k].fins \subseteq c.fins

\* What the bitmaps must say of a connection that has its port to itself.
MarkedAt(t, c, k) ==
  c # NoConn =>
    /\ c.via = "proxy" /\ ~c.aged /\ c.fins # Sides => Port(k) \notin t.direct
    /\ c.via = "direct" /\ ~c.edited /\ ~Untouched(k, c.dest) =>
         /\ ~Tracked(t, k)
         /\ Ruling(k, c.app, c.dest) = "direct"
         /\ Port(k) \in t.decided => Port(k) \in t.direct

Kept(k)   == KeptAt(Tables, conn[k], k)
Marked(k) == MarkedAt(Tables, conn[k], k)

IInv == TypeOK /\ \A k \in Keys : Kept(k)

\* No two connections share a local port, over IPv4 and over IPv6.
PortsApart == \A j, k \in Keys : Port(j) = Port(k) => j = k

-----------------------------------------------------------------------------
(* The tables as a value *)

TableSets == [decided : SUBSET Ports, direct : SUBSET Ports,
              entry : [Keys -> {NoEntry} \cup {e \in Entries : e.fins # Sides}],
              pids : [Keys -> Apps \cup {NoApp}]]

Good(t) == t \in TableSets /\ t.direct \subseteq t.decided

\* From t to u only what k's connection and its port have may change.
Local(t, u, k) ==
  /\ \A j \in Keys : j # k => u.entry[j] = t.entry[j] /\ u.pids[j] = t.pids[j]
  /\ \A p \in Ports : p # Port(k) => /\ p \in u.decided <=> p \in t.decided
                                     /\ p \in u.direct <=> p \in t.direct

Owner == Apps \cup {NoApp}
Flags == {"syn", "data"} \cup Ends

\* The decision for the port is forgotten.
LEMMA Clears ==
  ASSUME NEW t, Good(t), NEW k \in Keys
  PROVE  LET u == PortClear(t, k)
         IN /\ Good(u) /\ Local(t, u, k)
            /\ u.entry = t.entry /\ u.pids = t.pids
            /\ Port(k) \notin u.decided /\ Port(k) \notin u.direct
BY DEF PortClear, Good, Local, TableSets

\* The port is decided, with or without the direct path.
LEMMA Decides ==
  ASSUME NEW t, Good(t), NEW k \in Keys
  PROVE  LET u == PortSetDirect(t, k)
             w == PortSetDecided(t, k)
         IN /\ Good(u) /\ Local(t, u, k)
            /\ u.entry = t.entry /\ u.pids = t.pids
            /\ Port(k) \in u.direct
            /\ Good(w) /\ Local(t, w, k)
            /\ w.entry = t.entry /\ w.pids = t.pids /\ w.direct = t.direct
BY DEF PortSetDirect, PortSetDecided, Good, Local, TableSets, Ports, Port

\* An entry goes, or is made.
LEMMA Removes ==
  ASSUME NEW t, Good(t), NEW k \in Keys
  PROVE  LET u == Remove(t, k)
         IN /\ Good(u) /\ Local(t, u, k)
            /\ u.pids = t.pids /\ u.decided = t.decided /\ u.direct = t.direct
            /\ u.entry[k] = NoEntry
BY DEF Remove, Good, Local, TableSets

LEMMA Adds ==
  ASSUME NEW t, Good(t), NEW k \in Keys, NEW d \in Dests
  PROVE  LET u == Add(t, k, d)
         IN /\ Good(u) /\ Local(t, u, k)
            /\ u.pids = t.pids /\ u.decided = t.decided /\ u.direct = t.direct
            /\ u.entry[k] = [dest |-> d, fins |-> {}]
BY DEF Add, Good, Local, TableSets, Entries, Sides

\* The cached process of a port goes on a SYN over IPv4.
LEMMA Evicts ==
  ASSUME NEW t, Good(t), NEW k \in Keys
  PROVE  LET u == EvictPid(t, k)
         IN /\ Good(u) /\ Local(t, u, k)
            /\ u.entry = t.entry /\ u.decided = t.decided /\ u.direct = t.direct
            /\ IF IsV4(k) THEN u.pids[k] = NoApp ELSE u.pids[k] = t.pids[k]
BY DEF EvictPid, Good, Local, TableSets

\* connection_fin notes the side, or drops the entry when both have finished.
LEMMA Finishes ==
  ASSUME NEW t, Good(t), NEW k \in Keys, NEW side \in Sides, t.entry[k] # NoEntry,
         NEW fins, fins = t.entry[k].fins \cup {side}
  PROVE  LET u == Finished(t, k, side)
         IN /\ Good(u) /\ Local(t, u, k)
            /\ u.pids = t.pids /\ u.decided = t.decided /\ u.direct = t.direct
            /\ fins = Sides => u.entry[k] = NoEntry
            /\ fins # Sides => /\ u.entry[k] # NoEntry
                               /\ u.entry[k].dest = t.entry[k].dest /\ u.entry[k].fins = fins
<1>1. t.entry[k] \in Entries
  BY DEF Good, TableSets
<1>2. CASE fins = Sides
  <2>1. Finished(t, k, side) = Remove(t, k)
    BY <1>2 DEF Finished, Tracked
  <2> QED BY <1>2, <2>1, Removes
<1>3. CASE fins # Sides
  <2>1. PICK e : e = [t.entry[k] EXCEPT !.fins = fins]
    OBVIOUS
  <2>2. e \in Entries /\ e.fins = fins /\ e.dest = t.entry[k].dest
    BY <1>1, <2>1 DEF Entries
  <2>3. e # NoEntry
    BY <2>2, MarksAssumption
  <2>4. Finished(t, k, side) = [t EXCEPT !.entry = [t.entry EXCEPT ![k] = e]]
    BY <1>3, <2>1 DEF Finished, Tracked, Good, TableSets
  <2> QED BY <1>3, <2>2, <2>3, <2>4 DEF Good, Local, TableSets
<1> QED BY <1>2, <1>3

\* A SYN finds nothing left of an earlier connection: no decision, no entry, no process.
LEMMA Freshens ==
  ASSUME NEW t, Good(t), NEW k \in Keys
  PROVE  LET u == Fresh(t, k)
         IN /\ Good(u) /\ Local(t, u, k)
            /\ Port(k) \notin u.decided /\ Port(k) \notin u.direct
            /\ u.entry[k] = NoEntry
            /\ IF IsV4(k) THEN u.pids[k] = NoApp ELSE u.pids[k] = t.pids[k]
<1>1. PICK v : v = EvictPid(t, k)
  OBVIOUS
<1>2. /\ Good(v) /\ Local(t, v, k)
      /\ v.entry = t.entry /\ v.decided = t.decided /\ v.direct = t.direct
      /\ IF IsV4(k) THEN v.pids[k] = NoApp ELSE v.pids[k] = t.pids[k]
  BY <1>1, Evicts
<1>3. PICK u : u = ResetStale(v, k)
  OBVIOUS
<1>4. CASE Port(k) \in v.decided \/ Tracked(v, k)
  <2>1. PICK w : w = Remove(v, k)
    OBVIOUS
  <2>2. /\ Good(w) /\ Local(v, w, k)
        /\ w.pids = v.pids /\ w.entry[k] = NoEntry
    BY <1>2, <2>1, Removes
  <2>3. u = PortClear(w, k)
    BY <1>3, <1>4, <2>1 DEF ResetStale
  <2>4. /\ Good(u) /\ Local(w, u, k)
        /\ u.entry = w.entry /\ u.pids = w.pids
        /\ Port(k) \notin u.decided /\ Port(k) \notin u.direct
    BY <2>2, <2>3, Clears
  <2>5. Local(t, u, k)
    BY <1>2, <2>2, <2>4 DEF Local
  <2> QED BY <1>1, <1>2, <1>3, <2>2, <2>4, <2>5 DEF Fresh
<1>5. CASE ~(Port(k) \in v.decided \/ Tracked(v, k))
  <2>1. u = v
    BY <1>3, <1>5 DEF ResetStale
  <2>2. Port(k) \notin u.direct /\ u.entry[k] = NoEntry
    BY <1>2, <1>5, <2>1 DEF Good, Tracked
  <2> QED BY <1>1, <1>2, <1>3, <1>5, <2>1, <2>2 DEF Fresh
<1> QED BY <1>4, <1>5

\* What the rules say is one of three.
LEMMA Verdicts3 ==
  ASSUME TypeOK, NEW a \in Owner, NEW d
  PROVE  Verdict(a, d) \in {"direct", "block", "proxy"}
BY KeysAssumption DEF TypeOK, Verdict, Owner

\* Outcome r of judging process o for k and destination d: what goes direct is marked so,
\* and what is proxied gets an entry.
JudgedAs(t, k, o, d, r) ==
  /\ o \in Owner
  /\ Good(r.after) /\ Local(t, r.after, k)
  /\ r.after.pids[k] = IF IsV4(k) THEN o ELSE NoApp
  /\ Via(r.fate) = Verdict(o, d)
  /\ r.fate \in {"pass", "drop", "relay"}
  /\ r.fate = "relay" => /\ r.after.entry[k] = [dest |-> d, fins |-> {}]
                         /\ r.after.direct = t.direct
  /\ r.fate # "relay" => r.after.entry = t.entry
  /\ r.fate = "pass" => Port(k) \in r.after.direct

\* The owner that the tables or the system name is judged.
LEMMA Judges ==
  ASSUME TypeOK, NEW t, Good(t), NEW k \in Keys, NEW a \in Owner, NEW d \in Dests,
         ~IsV4(k) => t.pids[k] = NoApp,
         NEW o, t.pids[k] # NoApp => o = t.pids[k], t.pids[k] = NoApp => o = a,
         NEW r, r = Judge(t, k, a, d)
  PROVE  JudgedAs(t, k, o, d, r)
<1>1. o \in Owner
  BY DEF Good, TableSets, Owner
<1>2. PICK u : u = IF IsV4(k) THEN [t EXCEPT !.pids[k] = o] ELSE t
  OBVIOUS
<1>n. o = IF t.pids[k] # NoApp THEN t.pids[k] ELSE a
  OBVIOUS
<1>3. /\ Good(u) /\ Local(t, u, k)
      /\ u.entry = t.entry /\ u.decided = t.decided /\ u.direct = t.direct
      /\ u.pids[k] = IF IsV4(k) THEN o ELSE NoApp
  BY <1>1, <1>2 DEF Good, Local, TableSets, Owner
<1>4. PICK v : v = Verdict(o, d)
  OBVIOUS
<1>5. v \in {"direct", "block", "proxy"}
  BY <1>1, <1>4, Verdicts3
<1>6. r = [fate |-> [direct |-> "pass", block |-> "drop", proxy |-> "relay"][v],
           after |-> CASE v = "direct" -> PortSetDirect(u, k)
                       [] v = "block" -> PortSetDecided(u, k)
                       [] v = "proxy" -> PortSetDecided(Add(u, k, d), k)]
  BY <1>2, <1>4, <1>n DEF Judge
<1>7. CASE v = "direct"
  <2>1. r.fate = "pass" /\ r.after = PortSetDirect(u, k)
    BY <1>6, <1>7
  <2>2. PICK w : w = PortSetDirect(u, k)
    OBVIOUS
  <2>3. Good(w) /\ Local(u, w, k) /\ w.entry = u.entry /\ w.pids = u.pids /\ Port(k) \in w.direct
    BY <1>3, <2>2, Decides
  <2>4. Local(t, w, k)
    BY <1>3, <2>3 DEF Local
  <2>5. Via("pass") = "direct"
    BY DEF Via
  <2> QED BY <1>1, <1>3, <1>4, <1>7, <2>1, <2>2, <2>3, <2>4, <2>5 DEF JudgedAs
<1>8. CASE v = "block"
  <2>1. r.fate = "drop" /\ r.after = PortSetDecided(u, k)
    BY <1>6, <1>8
  <2>2. PICK w : w = PortSetDecided(u, k)
    OBVIOUS
  <2>3. Good(w) /\ Local(u, w, k) /\ w.entry = u.entry /\ w.pids = u.pids
    BY <1>3, <2>2, Decides
  <2>4. Local(t, w, k)
    BY <1>3, <2>3 DEF Local
  <2>5. Via("drop") = "block"
    BY DEF Via
  <2> QED BY <1>1, <1>3, <1>4, <1>8, <2>1, <2>2, <2>3, <2>4, <2>5 DEF JudgedAs
<1>9. CASE v = "proxy"
  <2>1. PICK x : x = Add(u, k, d)
    OBVIOUS
  <2>2. r.fate = "relay" /\ r.after = PortSetDecided(x, k)
    BY <1>6, <1>9, <2>1
  <2>3. /\ Good(x) /\ Local(u, x, k)
        /\ x.pids = u.pids /\ x.direct = u.direct
        /\ x.entry[k] = [dest |-> d, fins |-> {}]
    BY <1>3, <2>1, Adds
  <2>4. PICK w : w = PortSetDecided(x, k)
    OBVIOUS
  <2>5. Good(w) /\ Local(x, w, k) /\ w.entry = x.entry /\ w.pids = x.pids /\ w.direct = x.direct
    BY <2>3, <2>4, Decides
  <2>6. Local(t, w, k)
    BY <1>3, <2>3, <2>5 DEF Local
  <2>7. Via("relay") = "proxy"
    BY DEF Via
  <2> QED BY <1>1, <1>3, <1>4, <1>9, <2>2, <2>3, <2>4, <2>5, <2>6, <2>7 DEF JudgedAs
<1> QED BY <1>5, <1>7, <1>8, <1>9

-----------------------------------------------------------------------------
(* Segments *)

Fates3 == {"pass", "drop", "relay"}

\* The tables are a value of their kind.
LEMMA TablesGood ==
  ASSUME TypeOK
  PROVE  /\ Good(Tables)
         /\ Tables.decided = decided /\ Tables.direct = direct
         /\ Tables.entry = entry /\ Tables.pids = pids
BY DEF TypeOK, Good, Tables, TableSets

\* With no rule for anybody, everything goes direct.
LEMMA UnwatchedDirect ==
  ASSUME ~Watched, NEW a \in Owner, NEW d
  PROVE  Verdict(a, d) = "direct"
BY DEF Watched, Verdict, Owner

\* A SYN is judged for the process that sends it.
LEMMA Syns ==
  ASSUME TypeOK, NEW k \in Keys, NEW a \in Apps, NEW d \in Dests,
         ~IsV4(k) => pids[k] = NoApp,
         NEW r, r = Segment(k, "syn", a, d)
  PROVE  /\ Good(r.after) /\ Local(Tables, r.after, k) /\ r.fate \in Fates3
         /\ ~IsV4(k) => r.after.pids[k] = NoApp
         /\ Untouched(k, d) => r.fate = "pass"
         /\ ~Untouched(k, d) =>
              /\ Via(r.fate) = Ruling(k, a, d)
              /\ r.after.pids[k] \in {NoApp, a}
              /\ r.fate = "relay" => /\ r.after.entry[k] = [dest |-> d, fins |-> {}]
                                     /\ Port(k) \notin r.after.direct
              /\ r.fate # "relay" => r.after.entry[k] = NoEntry
              /\ r.fate = "pass" => (Port(k) \in r.after.decided => Port(k) \in r.after.direct)
<1>1. /\ Good(Tables) /\ Tables.pids = pids
  BY TablesGood
<1>2. PICK t : t = Fresh(Tables, k)
  OBVIOUS
<1>3. /\ Good(t) /\ Local(Tables, t, k)
      /\ Port(k) \notin t.decided /\ Port(k) \notin t.direct
      /\ t.entry[k] = NoEntry
      /\ IF IsV4(k) THEN t.pids[k] = NoApp ELSE t.pids[k] = pids[k]
  BY <1>1, <1>2, Freshens
<1>4. CASE Untouched(k, d)
  <2>1. r = Pass(Tables)
    BY <1>4 DEF Segment
  <2>2. r.fate = "pass" /\ r.after = Tables
    BY <2>1 DEF Pass
  <2> QED BY <1>1, <1>4, <2>2 DEF Local, Fates3
<1>5. CASE ~Untouched(k, d) /\ (~Watched \/ Skipped(k, d))
  <2>1. r = Pass(t)
    BY <1>2, <1>3, <1>5 DEF Segment, Tracked, Ends
  <2>2. r.fate = "pass" /\ r.after = t
    BY <2>1 DEF Pass
  <2>3. Via("pass") = "direct" /\ Ruling(k, a, d) = "direct"
    BY <1>5, UnwatchedDirect DEF Via, Owner, Ruling
  <2> QED BY <1>3, <1>5, <2>2, <2>3 DEF Fates3
<1>6. CASE ~Untouched(k, d) /\ Watched /\ ~Skipped(k, d)
  <2>1. r = Judge(t, k, a, d)
    BY <1>2, <1>3, <1>6 DEF Segment, Tracked, Ends
  <2>2. t.pids[k] = NoApp
    BY <1>3
  <2>3. a \in Owner
    BY DEF Owner
  <2>4. JudgedAs(t, k, a, d, r)
    BY <1>3, <2>1, <2>2, <2>3, Judges
  <2>5. /\ Good(r.after) /\ Local(t, r.after, k)
        /\ r.after.pids[k] = IF IsV4(k) THEN a ELSE NoApp
        /\ Via(r.fate) = Verdict(a, d)
        /\ r.fate \in {"pass", "drop", "relay"}
        /\ r.fate = "relay" => /\ r.after.entry[k] = [dest |-> d, fins |-> {}]
                               /\ r.after.direct = t.direct
        /\ r.fate # "relay" => r.after.entry = t.entry
        /\ r.fate = "pass" => Port(k) \in r.after.direct
    BY <2>4 DEF JudgedAs
  <2>6. Local(Tables, r.after, k)
    BY <1>3, <2>5 DEF Local
  <2> QED BY <1>3, <1>6, <2>5, <2>6 DEF Fates3, Ruling
<1> QED BY <1>4, <1>5, <1>6

\* A later segment of a connection: to the relay while an entry is there, and judged anew
\* when the decision has gone.
LEMMA Laters ==
  ASSUME TypeOK, NEW k \in Keys, NEW f \in {"data"} \cup Ends, NEW a \in Owner, NEW d \in Dests,
         ~IsV4(k) => pids[k] = NoApp,
         NEW o, o = IF pids[k] # NoApp THEN pids[k] ELSE a,
         NEW r, r = Segment(k, f, a, d)
  PROVE  /\ Good(r.after) /\ Local(Tables, r.after, k) /\ r.fate \in Fates3
         /\ ~IsV4(k) => r.after.pids[k] = NoApp
         /\ r.after.pids[k] \in {pids[k], a}
         /\ Untouched(k, d) => r.fate = "pass"
         /\ ~Untouched(k, d) /\ Tracked(Tables, k) =>
              /\ Port(k) \notin direct => r.fate = "relay" /\ Port(k) \notin r.after.direct
              /\ f = "data" => r.after.entry[k] = entry[k]
              /\ f = "fin" /\ entry[k].fins \cup {"app"} # Sides =>
                   /\ r.after.entry[k] # NoEntry /\ r.after.entry[k].dest = entry[k].dest
                   /\ r.after.entry[k].fins \subseteq entry[k].fins \cup {"app"}
         /\ /\ ~Untouched(k, d) /\ ~Tracked(Tables, k) /\ Ruling(k, o, d) = "direct"
            /\ Port(k) \in decided => Port(k) \in direct
            => /\ r.fate = "pass" /\ r.after.entry[k] = NoEntry
               /\ Port(k) \in r.after.decided => Port(k) \in r.after.direct
<1>1. /\ Good(Tables)
      /\ Tables.decided = decided /\ Tables.direct = direct
      /\ Tables.entry = entry /\ Tables.pids = pids
  BY TablesGood
<1>2. f # "syn" /\ f \in {"data", "fin", "rst"}
  BY DEF Ends
<1>3. PICK t : t = IF Port(k) \in decided /\ f \in Ends THEN PortClear(Tables, k) ELSE Tables
  OBVIOUS
<1>4. /\ Good(t) /\ Local(Tables, t, k)
      /\ t.entry = entry /\ t.pids = pids
      /\ Port(k) \notin direct => Port(k) \notin t.direct
      /\ f = "data" => t = Tables
      /\ Port(k) \in t.decided => Port(k) \in decided /\ t = Tables
  <2>1. CASE t = PortClear(Tables, k) /\ f \in Ends
    BY <1>1, <2>1, Clears DEF Ends
  <2>2. CASE t = Tables
    BY <1>1, <2>2 DEF Local
  <2> QED BY <1>3, <2>1, <2>2
<1>5. CASE Untouched(k, d)
  <2>1. r = Pass(Tables)
    BY <1>5 DEF Segment
  <2>2. r.fate = "pass" /\ r.after = Tables
    BY <2>1 DEF Pass
  <2> QED BY <1>1, <1>5, <2>2 DEF Local, Fates3
<1>6. CASE ~Untouched(k, d) /\ Port(k) \in decided /\ Port(k) \in direct
  <2>1. r = Pass(t)
    BY <1>1, <1>2, <1>3, <1>6 DEF Segment
  <2>2. r.fate = "pass" /\ r.after = t
    BY <2>1 DEF Pass
  <2>3. Port(k) \in t.decided => Port(k) \in t.direct
    BY <1>1, <1>4, <1>6
  <2> QED BY <1>1, <1>4, <1>6, <2>2, <2>3 DEF Tracked, Fates3
<1>7. CASE ~Untouched(k, d) /\ ~(Port(k) \in decided /\ Port(k) \in direct) /\ Tracked(t, k)
  <2>1. r = Redirect(t, k, f)
    BY <1>1, <1>2, <1>3, <1>7 DEF Segment
  <2>2. Tracked(Tables, k) /\ t.entry[k] # NoEntry
    BY <1>1, <1>4, <1>7 DEF Tracked
  <2>3. r.fate = "relay"
    BY <2>1 DEF Redirect
  <2>4. CASE f = "data"
    <3>1. r.after = t
      BY <2>1, <2>4 DEF Redirect
    <3> QED BY <1>4, <1>7, <2>2, <2>3, <2>4, <3>1 DEF Fates3
  <2>5. CASE f = "fin"
    <3>1. PICK u : u = Finished(t, k, "app")
      OBVIOUS
    <3>2. PICK fins : fins = t.entry[k].fins \cup {"app"}
      OBVIOUS
    <3>3. /\ Good(u) /\ Local(t, u, k)
          /\ u.pids = t.pids /\ u.decided = t.decided /\ u.direct = t.direct
          /\ fins # Sides => /\ u.entry[k] # NoEntry
                             /\ u.entry[k].dest = t.entry[k].dest /\ u.entry[k].fins = fins
      BY <1>4, <2>2, <3>1, <3>2, Finishes DEF Sides
    <3>4. r.after = u
      BY <2>1, <2>5, <3>1 DEF Redirect
    <3>5. Local(Tables, u, k)
      BY <1>4, <3>3 DEF Local
    <3> QED BY <1>4, <1>7, <2>2, <2>3, <2>5, <3>2, <3>3, <3>4, <3>5 DEF Fates3
  <2>6. CASE f = "rst"
    <3>1. PICK w : w = Remove(t, k)
      OBVIOUS
    <3>2. /\ Good(w) /\ Local(t, w, k)
          /\ w.pids = t.pids /\ w.decided = t.decided /\ w.direct = t.direct
      BY <1>4, <3>1, Removes
    <3>3. PICK u : u = PortClear(w, k)
      OBVIOUS
    <3>4. /\ Good(u) /\ Local(w, u, k) /\ u.pids = w.pids /\ Port(k) \notin u.direct
      BY <3>2, <3>3, Clears
    <3>5. r.after = u
      BY <2>1, <2>6, <3>1, <3>3 DEF Redirect
    <3>6. Local(Tables, u, k)
      BY <1>4, <3>2, <3>4 DEF Local
    <3> QED BY <1>4, <1>7, <2>2, <2>3, <2>6, <3>2, <3>4, <3>5, <3>6 DEF Fates3
  <2> QED BY <1>2, <2>4, <2>5, <2>6
<1>8. CASE /\ ~Untouched(k, d) /\ ~(Port(k) \in decided /\ Port(k) \in direct)
           /\ ~Tracked(t, k) /\ (f \in Ends \/ Skipped(k, d) \/ ~Watched)
  <2>1. r = Pass(t)
    BY <1>1, <1>2, <1>3, <1>8 DEF Segment
  <2>2. r.fate = "pass" /\ r.after = t
    BY <2>1 DEF Pass
  <2>3. ~Tracked(Tables, k) /\ t.entry[k] = NoEntry
    BY <1>1, <1>4, <1>8 DEF Tracked
  <2>4. Port(k) \in t.decided => Port(k) \in decided /\ t.direct = direct
    BY <1>1, <1>4
  <2> QED BY <1>4, <1>8, <2>2, <2>3, <2>4 DEF Fates3
<1>9. CASE /\ ~Untouched(k, d) /\ ~(Port(k) \in decided /\ Port(k) \in direct)
           /\ ~Tracked(t, k) /\ ~(f \in Ends \/ Skipped(k, d) \/ ~Watched)
  <2>1. r = Judge(t, k, a, d)
    BY <1>1, <1>2, <1>3, <1>9 DEF Segment
  <2>2. /\ Good(r.after) /\ Local(t, r.after, k)
        /\ r.after.pids[k] = IF IsV4(k) THEN o ELSE NoApp
        /\ Via(r.fate) = Verdict(o, d)
        /\ r.fate \in {"pass", "drop", "relay"}
        /\ r.fate # "relay" => r.after.entry = t.entry
        /\ r.fate = "pass" => Port(k) \in r.after.direct
    <3>1. /\ Good(t) /\ (~IsV4(k) => t.pids[k] = NoApp)
          /\ t.pids[k] # NoApp => o = t.pids[k]
          /\ t.pids[k] = NoApp => o = a
      BY <1>4
    <3>2. JudgedAs(t, k, o, d, r)
      BY <2>1, <3>1, Judges
    <3> QED BY <3>2 DEF JudgedAs
  <2>3. ~Tracked(Tables, k) /\ t.entry[k] = NoEntry
    BY <1>1, <1>4, <1>9 DEF Tracked
  <2>4. Local(Tables, r.after, k)
    BY <1>4, <2>2 DEF Local
  <2>5. Via("drop") = "block" /\ Via("relay") = "proxy"
    BY DEF Via
  <2> QED BY <1>9, <2>2, <2>3, <2>4, <2>5 DEF Fates3, Ruling
<1> QED BY <1>5, <1>6, <1>7, <1>8, <1>9

-----------------------------------------------------------------------------
(* Steps *)

\* A step of k's: the tables change for k and its port, and k's connection alone.
Moves(k) ==
  /\ TypeOK' /\ Kept(k)' /\ (Marked(k) => Marked(k)')
  /\ \E t : Good(t) /\ Local(Tables, t, k) /\ Become(t)
  /\ \A j \in Keys : j # k => conn'[j] = conn[j]
  /\ UNCHANGED apiVars

LEMMA MovesIf ==
  ASSUME TypeOK, NEW k \in Keys, NEW t, Good(t), Local(Tables, t, k), Become(t),
         NEW c \in {NoConn} \cup Conns, conn' = [conn EXCEPT ![k] = c], UNCHANGED apiVars,
         KeptAt(t, c, k), Marked(k) => MarkedAt(t, c, k)
  PROVE  Moves(k)
<1>1. conn \in [Keys -> {NoConn} \cup Conns]
  BY DEF TypeOK
<1>2. /\ conn' \in [Keys -> {NoConn} \cup Conns] /\ conn'[k] = c
      /\ \A j \in Keys : j # k => conn'[j] = conn[j]
  BY <1>1
<1>3. TypeOK'
  BY <1>2 DEF TypeOK, Become, Good, TableSets, apiVars
<1>4. Tables' = t
  BY DEF Tables, Become, Good, TableSets
<1>5. Kept(k)'
  BY <1>2, <1>4 DEF Kept, KeptAt, Untouched, Tracked
<1>6. MarkedAt(t, c, k) => Marked(k)'
  BY <1>2, <1>4 DEF Marked, MarkedAt, Untouched, Tracked, Verdict, Ruling, Skipped, apiVars
<1> QED BY <1>2, <1>3, <1>5, <1>6 DEF Moves

\* What a SYN leaves behind fits the connection it opens, or opens again.
LEMMA SynJudged ==
  ASSUME IInv, NEW k \in Keys, NEW a \in Apps, NEW d \in Dests,
         NEW r, r = Segment(k, "syn", a, d),
         NEW c, c.app = a, c.dest = d, c.via = Via(r.fate), c.fins = {},
         c.relay = Backlog(r.fate)
  PROVE  /\ Good(r.after) /\ Local(Tables, r.after, k)
         /\ c.via \in {"direct", "block", "proxy"} /\ c.relay \in {"none", "queued"}
         /\ KeptAt(r.after, c, k) /\ MarkedAt(r.after, c, k)
<1>1. TypeOK /\ (~IsV4(k) => pids[k] = NoApp)
  BY DEF IInv, Kept, KeptAt, Tables
<1>2. /\ Good(r.after) /\ Local(Tables, r.after, k) /\ r.fate \in Fates3
      /\ ~IsV4(k) => r.after.pids[k] = NoApp
      /\ Untouched(k, d) => r.fate = "pass"
      /\ ~Untouched(k, d) =>
           /\ Via(r.fate) = Ruling(k, a, d)
           /\ r.after.pids[k] \in {NoApp, a}
           /\ r.fate = "relay" => /\ r.after.entry[k] = [dest |-> d, fins |-> {}]
                                  /\ Port(k) \notin r.after.direct
           /\ r.fate # "relay" => r.after.entry[k] = NoEntry
           /\ r.fate = "pass" => (Port(k) \in r.after.decided => Port(k) \in r.after.direct)
  BY <1>1, Syns
<1>3. /\ c.via \in {"direct", "block", "proxy"}
      /\ c.via = "direct" <=> r.fate = "pass"
      /\ c.via = "proxy" <=> r.fate = "relay"
  BY <1>2 DEF Via, Fates3
<1>4. c.relay = IF c.via = "proxy" THEN "queued" ELSE "none"
  BY <1>3 DEF Backlog
<1>5. c.via = "proxy" => /\ ~Untouched(k, d) /\ Tracked(r.after, k)
                         /\ r.after.entry[k].dest = d /\ r.after.entry[k].fins = {}
  <2>1. ASSUME r.fate = "relay"
        PROVE  ~Untouched(k, d) /\ r.after.entry[k] = [dest |-> d, fins |-> {}]
    BY <1>2, <2>1
  <2>2. [dest |-> d, fins |-> {}] \in Entries
    BY DEF Entries
  <2> QED BY <1>3, <2>1, <2>2, MarksAssumption DEF Tracked
<1>6. KeptAt(r.after, c, k)
  BY <1>2, <1>4, <1>5 DEF KeptAt
<1>7. c.via = "proxy" => Port(k) \notin r.after.direct
  BY <1>2, <1>3
<1>8. c.via = "direct" /\ ~Untouched(k, d) =>
        /\ ~Tracked(r.after, k) /\ Ruling(k, a, d) = "direct"
        /\ Port(k) \in r.after.decided => Port(k) \in r.after.direct
  BY <1>2, <1>3 DEF Tracked
<1>9. MarkedAt(r.after, c, k)
  BY <1>7, <1>8 DEF MarkedAt
<1> QED BY <1>2, <1>3, <1>4, <1>6, <1>9

\* An application connects.
LEMMA ConnectMoves ==
  ASSUME IInv, NEW k \in Keys, NEW a \in Apps, NEW d \in Dests, Connect(k, a, d)
  PROVE  Moves(k)
<1>1. PICK r : r = Segment(k, "syn", a, d)
  OBVIOUS
<1>2. PICK c : c = [app |-> a, dest |-> d, via |-> Via(r.fate), up |-> FALSE, fins |-> {},
                    relay |-> Backlog(r.fate), edited |-> FALSE, aged |-> FALSE]
  OBVIOUS
<1>3. /\ Good(r.after) /\ Local(Tables, r.after, k)
      /\ c.via \in {"direct", "block", "proxy"} /\ c.relay \in {"none", "queued"}
      /\ KeptAt(r.after, c, k) /\ MarkedAt(r.after, c, k)
  <2>1. /\ c.app = a /\ c.dest = d /\ c.via = Via(r.fate) /\ c.fins = {}
        /\ c.relay = Backlog(r.fate)
    BY <1>2
  <2> QED BY <1>1, <2>1, SynJudged
<1>4. c \in Conns
  BY <1>2, <1>3 DEF Conns
<1>5. /\ Become(r.after) /\ conn' = [conn EXCEPT ![k] = c] /\ UNCHANGED apiVars
  BY <1>1, <1>2 DEF Connect
<1> QED BY <1>3, <1>4, <1>5, MovesIf DEF IInv

\* Its SYN is sent again.
LEMMA RetransmitMoves ==
  ASSUME IInv, NEW k \in Keys, Retransmit(k)
  PROVE  Moves(k)
<1>1. PICK b : b = conn[k]
  OBVIOUS
<1>2. b \in Conns /\ b # NoConn /\ ~b.up /\ b.relay \in {"none", "queued"}
  BY <1>1 DEF Retransmit, IInv, TypeOK
<1>3. b.app \in Apps /\ b.dest \in Dests /\ b.fins = {}
  BY <1>1, <1>2 DEF IInv, Kept, KeptAt, Conns
<1>4. PICK r : r = Segment(k, "syn", b.app, b.dest)
  OBVIOUS
<1>5. PICK c : c = [b EXCEPT !.via = Via(r.fate), !.relay = Backlog(r.fate),
                             !.edited = FALSE, !.aged = FALSE]
  OBVIOUS
<1>6. /\ c.app = b.app /\ c.dest = b.dest /\ c.via = Via(r.fate) /\ c.fins = {}
      /\ c.relay = Backlog(r.fate)
  BY <1>2, <1>3, <1>5 DEF Conns
<1>7. /\ Good(r.after) /\ Local(Tables, r.after, k)
      /\ c.via \in {"direct", "block", "proxy"} /\ c.relay \in {"none", "queued"}
      /\ KeptAt(r.after, c, k) /\ MarkedAt(r.after, c, k)
  BY <1>3, <1>4, <1>6, SynJudged
<1>8. c \in Conns
  BY <1>2, <1>5, <1>6, <1>7 DEF Conns
<1>9. /\ Become(r.after) /\ conn' = [conn EXCEPT ![k] = c] /\ UNCHANGED apiVars
  BY <1>1, <1>4, <1>5 DEF Retransmit
<1> QED BY <1>7, <1>8, <1>9, MovesIf DEF IInv

\* What is known of a connection before a segment of its own.
LEMMA Known1 ==
  ASSUME IInv, NEW k \in Keys, conn[k] # NoConn, NEW c, c = conn[k]
  PROVE  /\ TypeOK /\ c \in Conns /\ c.app \in Apps /\ c.dest \in Dests /\ c.fins \subseteq Sides
         /\ Owners(c) \subseteq Owner
         /\ (~IsV4(k) => pids[k] = NoApp)
         /\ KeptAt(Tables, c, k)
         /\ Good(Tables)
         /\ Tables.entry = entry /\ Tables.pids = pids
         /\ Tables.decided = decided /\ Tables.direct = direct
<1>1. TypeOK /\ KeptAt(Tables, c, k)
  BY DEF IInv, Kept
<1>2. c \in Conns
  BY <1>1 DEF TypeOK
<1>3. c.app \in Apps /\ c.dest \in Dests /\ c.fins \subseteq Sides
  BY <1>2 DEF Conns
<1> QED BY <1>1, <1>2, <1>3, TablesGood DEF Owners, Owner, KeptAt

\* What a later segment leaves behind fits the connection with the sides finished that it
\* says.
LEMMA LaterJudged ==
  ASSUME IInv, NEW k \in Keys, conn[k] # NoConn, conn[k].up,
         NEW f \in {"data", "fin"}, NEW a \in Owners(conn[k]),
         NEW r, r = Segment(k, f, a, conn[k].dest),
         NEW c, c = IF f = "fin" THEN [conn[k] EXCEPT !.fins = @ \cup {"app"}] ELSE conn[k]
  PROVE  /\ Good(r.after) /\ Local(Tables, r.after, k)
         /\ c \in Conns
         /\ KeptAt(r.after, c, k) /\ (Marked(k) => MarkedAt(r.after, c, k))
<1>1. PICK b : b = conn[k]
  OBVIOUS
<1>2. /\ TypeOK /\ b \in Conns /\ b.app \in Apps /\ b.dest \in Dests /\ b.fins \subseteq Sides
      /\ Owners(b) \subseteq Owner
      /\ (~IsV4(k) => pids[k] = NoApp)
      /\ KeptAt(Tables, b, k)
      /\ Tables.entry = entry /\ Tables.pids = pids
      /\ Tables.decided = decided /\ Tables.direct = direct
  BY <1>1, Known1
<1>3. /\ c \in Conns /\ c.up /\ c.app = b.app /\ c.dest = b.dest /\ c.via = b.via
      /\ c.relay = b.relay /\ c.aged = b.aged /\ c.edited = b.edited
      /\ c.fins = IF f = "fin" THEN b.fins \cup {"app"} ELSE b.fins
  <2>1. CASE f = "fin"
    <3>1. c = [b EXCEPT !.fins = b.fins \cup {"app"}]
      BY <1>1, <2>1
    <3>2. b.fins \cup {"app"} \in SUBSET Sides
      BY <1>2 DEF Sides
    <3> QED BY <1>1, <1>2, <2>1, <3>1, <3>2 DEF Conns
  <2>2. CASE f = "data"
    BY <1>1, <1>2, <2>2
  <2> QED BY <2>1, <2>2
<1>4. PICK o : o = IF pids[k] # NoApp THEN pids[k] ELSE a
  OBVIOUS
<1>5. /\ Good(r.after) /\ Local(Tables, r.after, k)
      /\ ~IsV4(k) => r.after.pids[k] = NoApp
      /\ r.after.pids[k] \in {pids[k], a}
      /\ ~Untouched(k, b.dest) /\ Tracked(Tables, k) =>
           /\ Port(k) \notin direct => r.fate = "relay" /\ Port(k) \notin r.after.direct
           /\ f = "data" => r.after.entry[k] = entry[k]
           /\ f = "fin" /\ entry[k].fins \cup {"app"} # Sides =>
                /\ r.after.entry[k] # NoEntry /\ r.after.entry[k].dest = entry[k].dest
                /\ r.after.entry[k].fins \subseteq entry[k].fins \cup {"app"}
      /\ /\ ~Untouched(k, b.dest) /\ ~Tracked(Tables, k) /\ Ruling(k, o, b.dest) = "direct"
         /\ Port(k) \in decided => Port(k) \in direct
         => /\ r.fate = "pass" /\ r.after.entry[k] = NoEntry
            /\ Port(k) \in r.after.decided => Port(k) \in r.after.direct
  <2>1. f \in {"data"} \cup Ends /\ a \in Owner
    BY <1>1, <1>2 DEF Ends
  <2>2. r = Segment(k, f, a, b.dest) /\ TypeOK /\ b.dest \in Dests
    BY <1>1, <1>2
  <2>3. ~IsV4(k) => pids[k] = NoApp
    BY <1>2
  <2> QED BY <1>4, <2>1, <2>2, <2>3, Laters
<1>6. a \in {b.app, NoApp} /\ b # NoConn
  BY <1>1 DEF Owners
<1>7. b.relay = "queued" => b.via = "proxy" /\ "relay" \notin b.fins
  BY <1>2, <1>6 DEF KeptAt
<1>8. b.via = "proxy" => ~Untouched(k, b.dest)
  BY <1>2, <1>6 DEF KeptAt
<1>9. ~Untouched(k, b.dest) => pids[k] \in {NoApp, b.app} /\ r.after.pids[k] \in {NoApp, b.app}
  BY <1>2, <1>5, <1>6 DEF KeptAt
<1>10. ASSUME b.via = "proxy", ~b.aged, c.fins # Sides
       PROVE  /\ Tracked(Tables, k) /\ Tracked(r.after, k) /\ r.after.entry[k].dest = b.dest
              /\ r.after.entry[k].fins \subseteq c.fins
  <2>1. b.fins # Sides
    BY <1>2, <1>3, <1>10 DEF Sides
  <2>2. Tracked(Tables, k) /\ entry[k].dest = b.dest /\ entry[k].fins \subseteq b.fins
    BY <1>2, <1>6, <1>10, <2>1 DEF KeptAt
  <2>3. CASE f = "data"
    BY <1>2, <1>3, <1>5, <1>8, <1>10, <2>2, <2>3 DEF Tracked
  <2>4. CASE f = "fin"
    <3>1. entry[k].fins \cup {"app"} \subseteq c.fins /\ c.fins \subseteq Sides
      BY <1>2, <1>3, <2>2, <2>4 DEF Sides
    <3>2. entry[k].fins \cup {"app"} # Sides
      BY <1>10, <3>1
    <3> QED BY <1>5, <1>8, <1>10, <2>2, <2>4, <3>1, <3>2 DEF Tracked
  <2> QED BY <2>3, <2>4
<1>11. KeptAt(r.after, c, k)
  <2>1. c.relay = "queued" => c.via = "proxy" /\ "relay" \notin c.fins
    BY <1>3, <1>7
  <2> QED BY <1>3, <1>5, <1>8, <1>9, <1>10, <2>1 DEF KeptAt
<1>12. ASSUME MarkedAt(Tables, b, k) PROVE MarkedAt(r.after, c, k)
  <2>1. ASSUME b.via = "proxy", ~b.aged, c.fins # Sides PROVE Port(k) \notin r.after.direct
    <3>1. b.fins # Sides
      BY <1>2, <1>3, <2>1 DEF Sides
    <3>2. Port(k) \notin direct
      BY <1>2, <1>6, <1>12, <2>1, <3>1 DEF MarkedAt
    <3> QED BY <1>5, <1>8, <1>10, <2>1, <3>2
  <2>2. ASSUME b.via = "direct", ~b.edited, ~Untouched(k, b.dest)
        PROVE  /\ ~Tracked(r.after, k) /\ Ruling(k, b.app, b.dest) = "direct"
               /\ Port(k) \in r.after.decided => Port(k) \in r.after.direct
    <3>1. /\ ~Tracked(Tables, k) /\ Ruling(k, b.app, b.dest) = "direct"
          /\ Port(k) \in decided => Port(k) \in direct
      BY <1>2, <1>6, <1>12, <2>2 DEF MarkedAt
    <3>2. o \in {NoApp, b.app}
      BY <1>4, <1>6, <1>9, <2>2
    <3>3. Ruling(k, NoApp, b.dest) = "direct"
      BY DEF Verdict, Ruling
    <3>4. Ruling(k, o, b.dest) = "direct"
      BY <3>1, <3>2, <3>3
    <3> QED BY <1>5, <2>2, <3>1, <3>4 DEF Tracked
  <2> QED BY <1>3, <2>1, <2>2 DEF MarkedAt
<1>13. Marked(k) <=> MarkedAt(Tables, b, k)
  BY <1>1 DEF Marked
<1> QED BY <1>3, <1>5, <1>11, <1>12, <1>13

\* Data or an acknowledgement, and a FIN.
LEMMA DataMoves ==
  ASSUME IInv, NEW k \in Keys, AppData(k)
  PROVE  Moves(k)
<1>1. PICK c : c = conn[k]
  OBVIOUS
<1>2. conn[k] # NoConn /\ conn[k].up /\ conn' = conn /\ UNCHANGED apiVars
  BY DEF AppData
<1>3. PICK a \in Owners(conn[k]) : Become(Segment(k, "data", a, conn[k].dest).after)
  BY DEF AppData
<1>4. PICK r : r = Segment(k, "data", a, conn[k].dest)
  OBVIOUS
<1>5. /\ Good(r.after) /\ Local(Tables, r.after, k) /\ c \in Conns
      /\ KeptAt(r.after, c, k) /\ (Marked(k) => MarkedAt(r.after, c, k))
  BY <1>1, <1>2, <1>4, LaterJudged
<1>6. conn' = [conn EXCEPT ![k] = c]
  BY <1>1, <1>2 DEF IInv, TypeOK
<1> QED BY <1>2, <1>3, <1>4, <1>5, <1>6, MovesIf DEF IInv

LEMMA FinMoves ==
  ASSUME IInv, NEW k \in Keys, AppFin(k)
  PROVE  Moves(k)
<1>1. PICK c : c = [conn[k] EXCEPT !.fins = @ \cup {"app"}]
  OBVIOUS
<1>2. /\ conn[k] # NoConn /\ conn[k].up /\ conn' = [conn EXCEPT ![k] = c] /\ UNCHANGED apiVars
  <2>1. conn \in [Keys -> {NoConn} \cup Conns]
    BY DEF IInv, TypeOK
  <2>2. conn' = [conn EXCEPT ![k].fins = @ \cup {"app"}]
    BY DEF AppFin
  <2> QED BY <1>1, <2>1, <2>2 DEF AppFin
<1>3. PICK r : r = Segment(k, "fin", conn[k].app, conn[k].dest)
  OBVIOUS
<1>4. Become(r.after)
  BY <1>3 DEF AppFin
<1>5. conn[k].app \in Owners(conn[k])
  BY DEF Owners
<1>6. /\ Good(r.after) /\ Local(Tables, r.after, k) /\ c \in Conns
      /\ KeptAt(r.after, c, k) /\ (Marked(k) => MarkedAt(r.after, c, k))
  BY <1>1, <1>2, <1>3, <1>5, LaterJudged
<1> QED BY <1>2, <1>4, <1>6, MovesIf DEF IInv

\* A reset: the connection is over, and the tables are its port's.
LEMMA RstMoves ==
  ASSUME IInv, NEW k \in Keys, AppRst(k)
  PROVE  Moves(k)
<1>1. PICK b : b = conn[k]
  OBVIOUS
<1>2. conn[k] # NoConn /\ conn' = [conn EXCEPT ![k] = NoConn] /\ UNCHANGED apiVars
  BY DEF AppRst
<1>3. /\ TypeOK /\ b.app \in Apps /\ b.dest \in Dests /\ Owners(b) \subseteq Owner
      /\ (~IsV4(k) => pids[k] = NoApp)
  BY <1>1, <1>2, Known1
<1>4. PICK r : r = Segment(k, "rst", b.app, b.dest)
  OBVIOUS
<1>5. PICK o : o = IF pids[k] # NoApp THEN pids[k] ELSE b.app
  OBVIOUS
<1>6. "rst" \in {"data"} \cup Ends /\ b.app \in Owner
  BY <1>3 DEF Ends, Owner
<1>7. Good(r.after) /\ Local(Tables, r.after, k) /\ (~IsV4(k) => r.after.pids[k] = NoApp)
  BY <1>3, <1>4, <1>5, <1>6, Laters
<1>8. Become(r.after)
  BY <1>1, <1>4 DEF AppRst
<1>9. KeptAt(r.after, NoConn, k) /\ MarkedAt(r.after, NoConn, k)
  BY <1>7 DEF KeptAt, MarkedAt
<1> QED BY <1>2, <1>3, <1>7, <1>8, <1>9, MovesIf

\* The tables as they are.
LEMMA TablesStay ==
  ASSUME UNCHANGED tables, NEW k
  PROVE  Become(Tables) /\ Local(Tables, Tables, k)
BY DEF Become, Tables, tables, Local

\* A connection goes without another segment.
LEMMA ForgetMoves ==
  ASSUME IInv, NEW k \in Keys, Forget(k)
  PROVE  Moves(k)
<1>1. conn[k] # NoConn /\ conn' = [conn EXCEPT ![k] = NoConn] /\ UNCHANGED apiVars /\ UNCHANGED tables
  BY DEF Forget
<1>2. TypeOK /\ Good(Tables) /\ KeptAt(Tables, NoConn, k) /\ MarkedAt(Tables, NoConn, k)
  BY <1>1, Known1 DEF KeptAt, MarkedAt
<1> QED BY <1>1, <1>2, TablesStay, MovesIf

\* The real destination answers, finishes or resets a direct connection.
LEMMA ServerMoves ==
  ASSUME IInv, NEW k \in Keys, NEW f \in {"data", "fin", "rst"}, ServerSends(k, f)
  PROVE  Moves(k)
<1>1. PICK b : b = conn[k]
  OBVIOUS
<1>2. b # NoConn /\ b.via = "direct" /\ (f = "data" => ~b.up) /\ (f = "fin" => b.up)
      /\ UNCHANGED apiVars /\ UNCHANGED tables
  BY <1>1 DEF ServerSends
<1>3. TypeOK /\ Good(Tables) /\ b \in Conns /\ KeptAt(Tables, b, k)
  BY <1>1, <1>2, Known1
<1>4. PICK c : c = CASE f = "data" -> [b EXCEPT !.up = TRUE]
                     [] f = "fin" -> [b EXCEPT !.fins = b.fins \cup {"relay"}]
                     [] f = "rst" -> NoConn
  OBVIOUS
<1>5. conn' = [conn EXCEPT ![k] = c]
  <2>1. conn \in [Keys -> {NoConn} \cup Conns]
    BY <1>3 DEF TypeOK
  <2>2. conn' = [conn EXCEPT ![k] =
          CASE f = "data" -> [@ EXCEPT !.up = TRUE]
            [] f = "fin" -> [@ EXCEPT !.fins = @ \cup {"relay"}]
            [] f = "rst" -> NoConn]
    BY DEF ServerSends
  <2> QED BY <1>1, <1>4, <2>1, <2>2
<1>6. CASE f = "rst"
  <2>1. c = NoConn
    BY <1>4, <1>6
  <2>2. KeptAt(Tables, NoConn, k) /\ MarkedAt(Tables, NoConn, k)
    BY <1>1, <1>2, <1>3, Known1 DEF KeptAt, MarkedAt
  <2> QED BY <1>2, <1>3, <1>5, <2>1, <2>2, TablesStay, MovesIf
<1>7. CASE f # "rst"
  <2>1. /\ c \in Conns /\ c.app = b.app /\ c.dest = b.dest /\ c.via = "direct"
        /\ c.relay = b.relay /\ c.aged = b.aged /\ c.edited = b.edited
        /\ ~c.up => c.fins = {}
    <3>1. CASE f = "data"
      <4>1. c = [b EXCEPT !.up = TRUE]
        BY <1>4, <3>1
      <4> QED BY <1>2, <1>3, <4>1 DEF Conns
    <3>2. CASE f = "fin"
      <4>1. c = [b EXCEPT !.fins = b.fins \cup {"relay"}]
        BY <1>4, <3>2
      <4>2. b.fins \cup {"relay"} \in SUBSET Sides
        BY <1>3 DEF Conns, Sides
      <4> QED BY <1>2, <1>3, <3>2, <4>1, <4>2 DEF Conns
    <3> QED BY <1>7, <3>1, <3>2
  <2>2. KeptAt(Tables, c, k)
    BY <1>2, <1>3, <2>1 DEF KeptAt
  <2>3. MarkedAt(Tables, b, k) => MarkedAt(Tables, c, k)
    BY <1>2, <2>1 DEF MarkedAt
  <2>4. Marked(k) => MarkedAt(Tables, c, k)
    BY <1>1, <2>3 DEF Marked
  <2> QED BY <1>2, <1>3, <1>5, <2>1, <2>2, <2>4, TablesStay, MovesIf
<1> QED BY <1>6, <1>7

\* The relay answers, finishes or resets a proxied one.
LEMMA RelayMoves ==
  ASSUME IInv, NEW k \in Keys, NEW f \in {"data", "fin", "rst"}, RelaySends(k, f)
  PROVE  Moves(k)
<1>1. PICK b : b = conn[k]
  OBVIOUS
<1>2. /\ b # NoConn /\ b.via = "proxy" /\ UNCHANGED apiVars
      /\ f = "fin" => b.up /\ b.relay \in {"held", "closed"}
  BY <1>1 DEF RelaySends
<1>3. /\ TypeOK /\ Good(Tables) /\ b \in Conns /\ KeptAt(Tables, b, k)
      /\ (~IsV4(k) => pids[k] = NoApp)
      /\ Tables.entry = entry /\ Tables.pids = pids
      /\ Tables.decided = decided /\ Tables.direct = direct
  BY <1>1, <1>2, Known1
<1>4. PICK t : t = CASE f = "rst" -> Remove(Tables, k)
                     [] f = "fin" -> Finished(Tables, k, "relay")
                     [] OTHER -> Tables
  OBVIOUS
<1>5. Become(t)
  BY <1>4 DEF RelaySends
<1>6. PICK c : c = CASE ~Tracked(Tables, k) -> b
                     [] Tracked(Tables, k) /\ f = "data" -> [b EXCEPT !.up = TRUE]
                     [] Tracked(Tables, k) /\ f = "fin" -> [b EXCEPT !.fins = b.fins \cup {"relay"}]
                     [] Tracked(Tables, k) /\ f = "rst" -> NoConn
  OBVIOUS
<1>7. conn' = [conn EXCEPT ![k] = c]
  <2>1. conn \in [Keys -> {NoConn} \cup Conns]
    BY <1>3 DEF TypeOK
  <2>2. conn' = [conn EXCEPT ![k] =
          CASE ~Tracked(Tables, k) -> @
            [] Tracked(Tables, k) /\ f = "data" -> [@ EXCEPT !.up = TRUE]
            [] Tracked(Tables, k) /\ f = "fin" -> [@ EXCEPT !.fins = @ \cup {"relay"}]
            [] Tracked(Tables, k) /\ f = "rst" -> NoConn]
    BY DEF RelaySends
  <2> QED BY <1>1, <1>6, <2>1, <2>2
<1>8. CASE ~Tracked(Tables, k)
  <2>1. c = b
    BY <1>6, <1>8
  <2>2. Good(t) /\ Local(Tables, t, k) /\ t.pids = pids /\ t.decided = decided /\ t.direct = direct
        /\ ~Tracked(t, k)
    <3>1. CASE f = "rst"
      BY <1>3, <1>4, <3>1, Removes DEF Tracked
    <3>2. CASE f = "fin"
      <4>1. t = Tables
        BY <1>4, <1>8, <3>2 DEF Finished
      <4> QED BY <1>3, <1>8, <4>1 DEF Local
    <3>3. CASE f = "data"
      <4>1. t = Tables
        BY <1>4, <3>3
      <4> QED BY <1>3, <1>8, <4>1 DEF Local
    <3> QED BY <3>1, <3>2, <3>3
  <2>3. KeptAt(t, c, k)
    BY <1>2, <1>3, <1>8, <2>1, <2>2 DEF KeptAt
  <2>4. MarkedAt(Tables, b, k) => MarkedAt(t, c, k)
    BY <1>2, <1>3, <2>1, <2>2 DEF MarkedAt
  <2>5. Marked(k) => MarkedAt(t, c, k)
    BY <1>1, <2>4 DEF Marked
  <2> QED BY <1>2, <1>3, <1>5, <1>7, <2>1, <2>2, <2>3, <2>5, MovesIf
<1>9. CASE Tracked(Tables, k) /\ f = "rst"
  <2>1. c = NoConn
    BY <1>6, <1>9
  <2>2. t = Remove(Tables, k)
    BY <1>4, <1>9
  <2>3. Good(t) /\ Local(Tables, t, k) /\ t.pids = pids
    BY <1>3, <2>2, Removes
  <2>4. KeptAt(t, NoConn, k) /\ MarkedAt(t, NoConn, k)
    BY <1>3, <2>3 DEF KeptAt, MarkedAt
  <2> QED BY <1>2, <1>3, <1>5, <1>7, <2>1, <2>3, <2>4, MovesIf
<1>10. CASE Tracked(Tables, k) /\ f = "data"
  <2>1. c = [b EXCEPT !.up = TRUE] /\ t = Tables
    BY <1>4, <1>6, <1>10
  <2>2. /\ c \in Conns /\ c.app = b.app /\ c.dest = b.dest /\ c.via = b.via /\ c.up
        /\ c.relay = b.relay /\ c.aged = b.aged /\ c.edited = b.edited /\ c.fins = b.fins
    BY <1>3, <2>1 DEF Conns
  <2>3. KeptAt(t, c, k)
    BY <1>2, <1>3, <2>1, <2>2 DEF KeptAt
  <2>4. MarkedAt(Tables, b, k) => MarkedAt(t, c, k)
    BY <1>2, <2>1, <2>2 DEF MarkedAt
  <2>5. Marked(k) => MarkedAt(t, c, k)
    BY <1>1, <2>4 DEF Marked
  <2>6. Local(Tables, t, k)
    BY <2>1 DEF Local
  <2> QED BY <1>2, <1>3, <1>5, <1>7, <2>1, <2>2, <2>3, <2>5, <2>6, MovesIf
<1>11. CASE Tracked(Tables, k) /\ f = "fin"
  <2>1. c = [b EXCEPT !.fins = b.fins \cup {"relay"}] /\ t = Finished(Tables, k, "relay")
    BY <1>4, <1>6, <1>11
  <2>2. /\ c \in Conns /\ c.app = b.app /\ c.dest = b.dest /\ c.via = b.via /\ c.up = b.up
        /\ c.relay = b.relay /\ c.aged = b.aged /\ c.edited = b.edited
        /\ c.fins = b.fins \cup {"relay"} /\ c.fins \subseteq Sides
    <3>1. b.fins \cup {"relay"} \in SUBSET Sides
      BY <1>3 DEF Conns, Sides
    <3> QED BY <1>3, <2>1, <3>1 DEF Conns
  <2>3. PICK fins : fins = entry[k].fins \cup {"relay"}
    OBVIOUS
  <2>4. /\ Good(t) /\ Local(Tables, t, k)
        /\ t.pids = pids /\ t.decided = decided /\ t.direct = direct
        /\ fins # Sides => /\ t.entry[k] # NoEntry
                           /\ t.entry[k].dest = entry[k].dest /\ t.entry[k].fins = fins
    <3>1. Tables.entry[k] # NoEntry /\ fins = Tables.entry[k].fins \cup {"relay"}
          /\ "relay" \in Sides
      BY <1>3, <1>11, <2>3 DEF Tracked, Sides
    <3> QED BY <1>3, <2>1, <3>1, Finishes
  <2>5. ~b.aged /\ c.fins # Sides =>
          Tracked(t, k) /\ t.entry[k].dest = c.dest /\ t.entry[k].fins \subseteq c.fins
    <3> SUFFICES ASSUME ~b.aged, c.fins # Sides
                 PROVE  Tracked(t, k) /\ t.entry[k].dest = c.dest /\ t.entry[k].fins \subseteq c.fins
      OBVIOUS
    <3>1. b.fins # Sides
      BY <2>2 DEF Sides
    <3>2. entry[k].dest = b.dest /\ entry[k].fins \subseteq b.fins
      BY <1>2, <1>3, <3>1 DEF KeptAt
    <3>3. fins \subseteq c.fins
      BY <2>2, <2>3, <3>2
    <3>4. fins # Sides
      BY <2>2, <3>3
    <3> QED BY <2>2, <2>4, <3>2, <3>3, <3>4 DEF Tracked
  <2>6. KeptAt(t, c, k)
    <3>1. c.relay # "queued" /\ c.up
      BY <1>2, <1>11, <2>2
    <3> QED BY <1>2, <1>3, <2>2, <2>4, <2>5, <3>1 DEF KeptAt
  <2>7. MarkedAt(Tables, b, k) => MarkedAt(t, c, k)
    <3>1. c.fins # Sides => b.fins # Sides
      BY <2>2 DEF Sides
    <3> QED BY <1>2, <1>3, <2>2, <2>4, <3>1 DEF MarkedAt
  <2>8. Marked(k) => MarkedAt(t, c, k)
    BY <1>1, <2>7 DEF Marked
  <2> QED BY <1>2, <1>3, <1>5, <1>7, <2>2, <2>4, <2>6, <2>8, MovesIf
<1> QED BY <1>8, <1>9, <1>10, <1>11

\* The relay accepts a connection from its backlog.
LEMMA AcceptMoves ==
  ASSUME IInv, NEW k \in Keys, Accept(k)
  PROVE  Moves(k)
<1>1. PICK b : b = conn[k]
  OBVIOUS
<1>2. b # NoConn /\ b.up /\ UNCHANGED apiVars /\ UNCHANGED tables
  BY <1>1 DEF Accept
<1>3. TypeOK /\ Good(Tables) /\ b \in Conns /\ KeptAt(Tables, b, k)
  BY <1>1, <1>2, Known1
<1>4. PICK to \in {"held", "closed"} : to = IF Known(k) THEN "held" ELSE "closed"
  OBVIOUS
<1>5. PICK c : c = [b EXCEPT !.relay = to]
  OBVIOUS
<1>6. conn' = [conn EXCEPT ![k] = c]
  BY <1>1, <1>3, <1>4, <1>5 DEF Accept, TypeOK
<1>7. /\ c \in Conns /\ c.app = b.app /\ c.dest = b.dest /\ c.via = b.via /\ c.up
      /\ c.relay # "queued" /\ c.aged = b.aged /\ c.edited = b.edited /\ c.fins = b.fins
  BY <1>2, <1>3, <1>5 DEF Conns
<1>8. KeptAt(Tables, c, k)
  BY <1>2, <1>3, <1>7 DEF KeptAt
<1>9. MarkedAt(Tables, b, k) => MarkedAt(Tables, c, k)
  BY <1>2, <1>7 DEF MarkedAt
<1>10. Marked(k) => MarkedAt(Tables, c, k)
  BY <1>1, <1>9 DEF Marked
<1> QED BY <1>2, <1>3, <1>6, <1>7, <1>8, <1>10, TablesStay, MovesIf

\* The thirty minute limit, and the end of a cached process.
LEMMA CleanupMoves ==
  ASSUME IInv, NEW k \in Keys, Cleanup(k)
  PROVE  Moves(k)
<1>1. PICK b : b = conn[k]
  OBVIOUS
<1>2. PICK t : t = Remove(Tables, k)
  OBVIOUS
<1>3. TypeOK /\ Good(Tables) /\ Tables.pids = pids /\ Tables.entry = entry
      /\ Tables.decided = decided /\ Tables.direct = direct
  BY TablesGood DEF IInv
<1>4. /\ Good(t) /\ Local(Tables, t, k)
      /\ t.pids = pids /\ t.decided = decided /\ t.direct = direct /\ ~Tracked(t, k)
  BY <1>2, <1>3, Removes DEF Tracked
<1>5. Become(t) /\ UNCHANGED apiVars
  <2>1. t.entry = [entry EXCEPT ![k] = NoEntry]
    BY <1>2 DEF Remove, Tables
  <2> QED BY <1>4, <2>1 DEF Become, Cleanup
<1>6. PICK c : c = IF b = NoConn THEN NoConn ELSE [b EXCEPT !.aged = TRUE]
  OBVIOUS
<1>7. b \in {NoConn} \cup Conns /\ KeptAt(Tables, b, k)
  BY <1>1 DEF IInv, TypeOK, Kept
<1>8. conn' = [conn EXCEPT ![k] = c]
  <2>1. conn \in [Keys -> {NoConn} \cup Conns]
    BY <1>3 DEF TypeOK
  <2>2. conn' = [conn EXCEPT ![k] = IF @ = NoConn THEN @ ELSE [@ EXCEPT !.aged = TRUE]]
    BY DEF Cleanup
  <2> QED BY <1>1, <1>6, <2>1, <2>2
<1>9. CASE b = NoConn
  <2>1. KeptAt(t, c, k) /\ MarkedAt(t, c, k) /\ c = NoConn
    BY <1>3, <1>4, <1>6, <1>7, <1>9 DEF KeptAt, MarkedAt
  <2> QED BY <1>3, <1>4, <1>5, <1>8, <2>1, MovesIf
<1>10. CASE b # NoConn
  <2>1. c = [b EXCEPT !.aged = TRUE] /\ b \in Conns
    BY <1>6, <1>7, <1>10
  <2>2. /\ c \in Conns /\ c.app = b.app /\ c.dest = b.dest /\ c.via = b.via /\ c.up = b.up
        /\ c.relay = b.relay /\ c.aged /\ c.edited = b.edited /\ c.fins = b.fins
    BY <2>1 DEF Conns
  <2>3. KeptAt(t, c, k)
    BY <1>3, <1>4, <1>7, <1>10, <2>2 DEF KeptAt
  <2>4. MarkedAt(Tables, b, k) => MarkedAt(t, c, k)
    BY <1>3, <1>4, <1>10, <2>2 DEF MarkedAt
  <2>5. Marked(k) => MarkedAt(t, c, k)
    BY <1>1, <2>4 DEF Marked
  <2> QED BY <1>3, <1>4, <1>5, <1>8, <2>2, <2>3, <2>5, MovesIf
<1> QED BY <1>9, <1>10

LEMMA PidMoves ==
  ASSUME IInv, NEW k \in Keys, PidExpires(k)
  PROVE  Moves(k)
<1>1. PICK c : c = conn[k]
  OBVIOUS
<1>2. PICK t : t = [Tables EXCEPT !.pids[k] = NoApp]
  OBVIOUS
<1>3. TypeOK /\ Good(Tables) /\ Tables.pids = pids /\ Tables.entry = entry
      /\ Tables.decided = decided /\ Tables.direct = direct
  BY TablesGood DEF IInv
<1>4. /\ Good(t) /\ Local(Tables, t, k)
      /\ t.pids = [pids EXCEPT ![k] = NoApp] /\ t.pids[k] = NoApp
      /\ t.entry = entry /\ t.decided = decided /\ t.direct = direct
  BY <1>2, <1>3 DEF Good, Local, TableSets
<1>5. Become(t) /\ UNCHANGED apiVars
  BY <1>4 DEF Become, PidExpires
<1>6. c \in {NoConn} \cup Conns /\ conn' = [conn EXCEPT ![k] = c]
  BY <1>1, <1>3 DEF PidExpires, TypeOK
<1>7. KeptAt(Tables, c, k)
  BY <1>1 DEF IInv, Kept
<1>8. KeptAt(t, c, k)
  BY <1>3, <1>4, <1>7 DEF KeptAt, Tracked
<1>9. MarkedAt(Tables, c, k) => MarkedAt(t, c, k)
  BY <1>3, <1>4 DEF MarkedAt, Tracked
<1>10. Marked(k) => MarkedAt(t, c, k)
  BY <1>1, <1>9 DEF Marked
<1> QED BY <1>3, <1>4, <1>5, <1>6, <1>8, <1>10, MovesIf

\* The rules change, or the switch: every connection is marked as older.
LEMMA EditsKeep ==
  ASSUME IInv, (\E a \in Apps, v \in Verdicts : SetRule(a, v)) \/ SetEnabled
  PROVE  IInv' /\ ((\A k \in Keys : Marked(k)) => \A k \in Keys : Marked(k)')
<1>1. /\ conn' = Edited /\ UNCHANGED tables /\ edits' = edits + 1 /\ edits < MaxEdits
      /\ rules' \in [Apps -> Verdicts] /\ enabled' \in BOOLEAN
  BY DEF SetRule, SetEnabled, IInv, TypeOK
<1>2. ASSUME NEW k \in Keys
      PROVE  /\ conn[k] = NoConn => conn'[k] = NoConn
             /\ conn[k] # NoConn => conn'[k] = [conn[k] EXCEPT !.edited = TRUE]
  BY <1>1, <1>2 DEF Edited
<1>3. ASSUME NEW k \in Keys, conn[k] # NoConn
      PROVE  /\ conn[k] \in Conns
             /\ conn'[k] \in Conns /\ conn'[k].app = conn[k].app /\ conn'[k].dest = conn[k].dest
             /\ conn'[k].via = conn[k].via /\ conn'[k].up = conn[k].up /\ conn'[k].fins = conn[k].fins
             /\ conn'[k].relay = conn[k].relay /\ conn'[k].aged = conn[k].aged /\ conn'[k].edited
  <2>1. PICK b : b = conn[k]
    OBVIOUS
  <2>2. b \in Conns
    BY <1>3, <2>1 DEF IInv, TypeOK
  <2>3. PICK c : c = [b EXCEPT !.edited = TRUE]
    OBVIOUS
  <2>4. conn'[k] = c
    BY <1>2, <1>3, <2>1, <2>3
  <2>5. /\ c \in Conns /\ c.app = b.app /\ c.dest = b.dest /\ c.via = b.via /\ c.up = b.up
        /\ c.relay = b.relay /\ c.aged = b.aged /\ c.edited /\ c.fins = b.fins
    BY <2>2, <2>3 DEF Conns
  <2> QED BY <2>1, <2>2, <2>4, <2>5
<1>4. conn' \in [Keys -> {NoConn} \cup Conns]
  <2>1. \A k \in Keys : conn'[k] \in {NoConn} \cup Conns
    BY <1>2, <1>3
  <2> QED BY <1>1, <2>1 DEF Edited
<1>5. TypeOK'
  BY <1>1, <1>4, KeysAssumption DEF IInv, TypeOK, tables
<1>6. Tables' = Tables
  BY <1>1 DEF Tables, tables
<1>7. ASSUME NEW k \in Keys PROVE Kept(k)'
  <2>1. KeptAt(Tables, conn[k], k)
    BY DEF IInv, Kept
  <2>2. PICK t : t = Tables
    OBVIOUS
  <2>3. PICK c : c = conn'[k]
    OBVIOUS
  <2>4. PICK b : b = conn[k]
    OBVIOUS
  <2>5. KeptAt(t, b, k)
    BY <2>1, <2>2, <2>4
  <2>6. KeptAt(t, c, k)
    <3>1. CASE b = NoConn
      BY <1>2, <2>3, <2>4, <2>5, <3>1 DEF KeptAt
    <3>2. CASE b # NoConn
      <4>1. /\ c # NoConn => b # NoConn
            /\ c.app = b.app /\ c.dest = b.dest /\ c.via = b.via /\ c.up = b.up
            /\ c.relay = b.relay /\ c.aged = b.aged /\ c.fins = b.fins
        BY <1>3, <2>3, <2>4, <3>2
      <4> QED BY <2>5, <3>2, <4>1 DEF KeptAt
    <3> QED BY <3>1, <3>2
  <2> QED BY <1>6, <2>2, <2>3, <2>6 DEF Kept, KeptAt, Tracked, Untouched
<1>8. ASSUME NEW k \in Keys, Marked(k) PROVE Marked(k)'
  <2>1. CASE conn[k] = NoConn
    BY <1>2, <2>1 DEF Marked, MarkedAt
  <2>2. CASE conn[k] # NoConn
    <3>1. conn[k].via = "proxy" /\ ~conn[k].aged /\ conn[k].fins # Sides => Port(k) \notin direct
      BY <1>8, <2>2 DEF Marked, MarkedAt, Tables
    <3>2. direct' = direct /\ conn'[k].edited
      BY <1>1, <1>3, <2>2 DEF tables
    <3>3. conn'[k].via = "proxy" /\ ~conn'[k].aged /\ conn'[k].fins # Sides => Port(k) \notin direct'
      BY <1>3, <2>2, <3>1, <3>2
    <3> QED BY <3>2, <3>3 DEF Marked, MarkedAt, Tables
  <2> QED BY <2>1, <2>2
<1> QED BY <1>5, <1>7, <1>8 DEF IInv

-----------------------------------------------------------------------------
(* Invariants *)

\* A step of k's leaves the other connections what they need: all of them keep their
\* entries and owners, and those on other ports what the bitmaps say.
LEMMA OthersStay ==
  ASSUME IInv, NEW k \in Keys, Moves(k), NEW j \in Keys, j # k
  PROVE  Kept(j)' /\ (Port(j) # Port(k) /\ Marked(j) => Marked(j)')
<1>1. PICK t : Good(t) /\ Local(Tables, t, k) /\ Become(t)
  BY DEF Moves
<1>2. Tables' = t
  BY <1>1 DEF Tables, Become, Good, TableSets
<1>3. PICK c : c = conn[j]
  OBVIOUS
<1>4. conn'[j] = c /\ UNCHANGED <<rules, enabled>>
  BY <1>3 DEF Moves, apiVars
<1>5. PICK s : s = Tables
  OBVIOUS
<1>6. t.entry[j] = s.entry[j] /\ t.pids[j] = s.pids[j]
  BY <1>1, <1>5 DEF Local
<1>7. KeptAt(s, c, j)
  BY <1>3, <1>5 DEF IInv, Kept
<1>8. KeptAt(t, c, j)
  BY <1>6, <1>7 DEF KeptAt, Tracked
<1>9. Kept(j)'
  BY <1>2, <1>4, <1>8 DEF Kept, KeptAt, Tracked, Untouched
<1>10. ASSUME Port(j) # Port(k), Marked(j) PROVE Marked(j)'
  <2>1. /\ Port(j) \in t.decided <=> Port(j) \in s.decided
        /\ Port(j) \in t.direct <=> Port(j) \in s.direct
    BY <1>1, <1>5, <1>10 DEF Local, Ports, Port
  <2>2. MarkedAt(s, c, j)
    BY <1>3, <1>5, <1>10 DEF Marked
  <2>3. MarkedAt(t, c, j)
    BY <1>6, <2>1, <2>2 DEF MarkedAt, Tracked
  <2> QED BY <1>2, <1>4, <2>3 DEF Marked, MarkedAt, Tracked, Untouched, Verdict, Ruling, Skipped
<1> QED BY <1>9, <1>10

\* Every step is a step of one connection's, or changes the rules.
LEMMA Steps ==
  ASSUME IInv, Next
  PROVE  \/ \E k \in Keys : Moves(k)
         \/ (\E a \in Apps, v \in Verdicts : SetRule(a, v)) \/ SetEnabled
BY ConnectMoves, RetransmitMoves, DataMoves, FinMoves, RstMoves, ForgetMoves, ServerMoves,
   RelayMoves, AcceptMoves, CleanupMoves, PidMoves DEF Next

LEMMA KeptInit == Init => IInv /\ \A k \in Keys : Marked(k)
BY KeysAssumption, MarksAssumption
   DEF Init, IInv, TypeOK, Kept, KeptAt, Marked, MarkedAt, Tables, Ports

LEMMA InvStep ==
  ASSUME IInv, [Next]_vars
  PROVE  IInv' /\ (PortsApart /\ (\A k \in Keys : Marked(k)) => \A k \in Keys : Marked(k)')
<1>1. CASE UNCHANGED vars
  BY <1>1 DEF vars, IInv, TypeOK, Kept, KeptAt, Marked, MarkedAt, Tables, Tracked, Untouched, Verdict, Ruling, Skipped
<1>2. ASSUME NEW k \in Keys, Moves(k)
      PROVE  IInv' /\ (PortsApart /\ (\A j \in Keys : Marked(j)) => \A j \in Keys : Marked(j)')
  <2>1. TypeOK' /\ Kept(k)' /\ (Marked(k) => Marked(k)')
    BY <1>2 DEF Moves
  <2>2. \A j \in Keys : j # k => Kept(j)' /\ (Port(j) # Port(k) /\ Marked(j) => Marked(j)')
    BY <1>2, OthersStay
  <2> QED BY <2>1, <2>2 DEF IInv, PortsApart
<1>3. CASE (\E a \in Apps, v \in Verdicts : SetRule(a, v)) \/ SetEnabled
  BY <1>3, EditsKeep
<1> QED BY <1>1, <1>2, <1>3, Steps

\* The invariant that needs no assumption on ports: the process cached for a connection is
\* its own, and the entry of a proxied one stays (pb_conntrack.c).
THEOREM PacketsInv == Spec => []IInv
<1>1. Init => IInv
  BY KeptInit
<1>2. IInv /\ [Next]_vars => IInv'
  BY InvStep
<1> QED BY <1>1, <1>2, PTL DEF Spec

\* The bitmaps say of every connection what was decided for it, if no two share a port
\* (port_decided_bitmap, port_direct_bitmap).
THEOREM MarksFollow == ASSUME PortsApart PROVE Spec => [](\A k \in Keys : Marked(k))
<1>1. Init => \A k \in Keys : Marked(k)
  BY KeptInit
<1>2. IInv /\ (\A k \in Keys : Marked(k)) /\ [Next]_vars => (\A k \in Keys : Marked(k))'
  BY InvStep
<1> QED BY <1>1, <1>2, PacketsInv, PTL DEF Spec

\* What an earlier connection left behind answers for no new one (remove_cached_pid,
\* reset_stale_tcp_state), even of a port that two families share.
LEMMA JudgedFresh == IInv => JudgedByTheRules
<1> SUFFICES ASSUME IInv, NEW k \in Keys, NEW a \in Apps, NEW d \in Dests
             PROVE  Via(Segment(k, "syn", a, d).fate)
                      = Ruling(k, a, d)
  BY DEF JudgedByTheRules, IInv
<1>1. TypeOK /\ (~IsV4(k) => pids[k] = NoApp)
  BY DEF IInv, Kept, KeptAt, Tables
<1>2. PICK r : r = Segment(k, "syn", a, d)
  OBVIOUS
<1>3. /\ Untouched(k, d) => r.fate = "pass"
      /\ ~Untouched(k, d) => Via(r.fate) = Ruling(k, a, d)
  <2>1. Untouched(k, d) => r.fate = "pass"
    BY <1>2 DEF Segment, Pass
  <2>2. ~Untouched(k, d) => Via(r.fate) = Ruling(k, a, d)
    BY <1>1, <1>2, Syns
  <2> QED BY <2>1, <2>2
<1>4. Via("pass") = "direct"
  BY DEF Via
<1> QED BY <1>2, <1>3, <1>4 DEF Ruling

THEOREM NewOnesJudged == Spec => []JudgedByTheRules
<1> QED BY JudgedFresh, PacketsInv, PTL

\* The relay finds every connection of its backlog (get_connection_full), also when the
\* application has finished already.
LEMMA BacklogKnown == IInv => RelayKnowsDestination
<1> SUFFICES ASSUME IInv, NEW k \in Keys, conn[k] # NoConn, conn[k].relay = "queued", ~conn[k].aged
             PROVE  Known(k)
  BY DEF RelayKnowsDestination
<1>1. KeptAt(Tables, conn[k], k)
  BY DEF IInv, Kept
<1>2. conn[k].via = "proxy" /\ conn[k].fins # Sides
  BY <1>1 DEF KeptAt, Sides
<1> QED BY <1>1, <1>2 DEF KeptAt, Known, Tables, Tracked

THEOREM RelayFindsEntries == Spec => []RelayKnowsDestination
<1> QED BY BacklogKnown, PacketsInv, PTL

\* What the segments of an established connection meet.
LEMMA ProxiedAtWork == IInv /\ (\A k \in Keys : Marked(k)) => ProxiedKeepWorking
<1> SUFFICES ASSUME IInv, \A k \in Keys : Marked(k),
                    NEW k \in Keys, Established(k), conn[k].via = "proxy", ~conn[k].aged
             PROVE  Fates(k) = {"relay"} /\ Known(k)
  BY DEF ProxiedKeepWorking
<1>1. PICK b : b = conn[k]
  OBVIOUS
<1>2. b # NoConn /\ b.fins # Sides /\ b.via = "proxy" /\ ~b.aged
  BY <1>1 DEF Established
<1>3. /\ TypeOK /\ b.app \in Apps /\ b.dest \in Dests /\ Owners(b) \subseteq Owner
      /\ (~IsV4(k) => pids[k] = NoApp)
      /\ KeptAt(Tables, b, k)
      /\ Tables.entry = entry /\ Tables.direct = direct
  BY <1>1, <1>2, Known1
<1>4. /\ ~Untouched(k, b.dest) /\ Tracked(Tables, k) /\ entry[k].dest = b.dest
  BY <1>2, <1>3 DEF KeptAt
<1>5. Port(k) \notin direct
  BY <1>1, <1>2, <1>3 DEF Marked, MarkedAt
<1>6. ASSUME NEW f \in {"data"} \cup Ends, NEW a \in Owners(b)
      PROVE  Segment(k, f, a, b.dest).fate = "relay"
  <2>1. PICK r : r = Segment(k, f, a, b.dest)
    OBVIOUS
  <2>2. PICK o : o = IF pids[k] # NoApp THEN pids[k] ELSE a
    OBVIOUS
  <2>3. a \in Owner
    BY <1>3
  <2>4. /\ Port(k) \notin direct => r.fate = "relay"
    BY <1>3, <1>4, <2>1, <2>2, <2>3, Laters
  <2> QED BY <1>5, <2>1, <2>4
<1>7. "data" \in {"data"} \cup Ends /\ b.app \in Owners(b)
  BY DEF Owners
<1>8. Fates(k) = {"relay"}
  <2>1. \A x \in Fates(k) : x = "relay"
    BY <1>1, <1>6 DEF Fates
  <2>2. Segment(k, "data", b.app, b.dest).fate \in Fates(k)
    BY <1>1, <1>7 DEF Fates
  <2> QED BY <2>1, <2>2
<1> QED BY <1>1, <1>4, <1>8 DEF Known

\* Proxied connections keep working until they end, whatever becomes of the rules, if no
\* two connections share a port (ProxyBridge_SetEnabled).
THEOREM ProxiedStayProxied == ASSUME PortsApart PROVE Spec => []ProxiedKeepWorking
<1> QED BY ProxiedAtWork, PacketsInv, MarksFollow, PTL

LEMMA DirectAtWork == IInv /\ (\A k \in Keys : Marked(k)) => DirectStaysDirect
<1> SUFFICES ASSUME IInv, \A k \in Keys : Marked(k),
                    NEW k \in Keys, Established(k), conn[k].via = "direct", ~conn[k].edited
             PROVE  Fates(k) = {"pass"}
  BY DEF DirectStaysDirect
<1>1. PICK b : b = conn[k]
  OBVIOUS
<1>2. b # NoConn /\ b.via = "direct" /\ ~b.edited
  BY <1>1 DEF Established
<1>3. /\ TypeOK /\ b.app \in Apps /\ b.dest \in Dests /\ Owners(b) \subseteq Owner
      /\ (~IsV4(k) => pids[k] = NoApp)
      /\ KeptAt(Tables, b, k)
      /\ Tables.pids = pids /\ Tables.direct = direct /\ Tables.decided = decided
  BY <1>1, <1>2, Known1
<1>4. MarkedAt(Tables, b, k)
  BY <1>1 DEF Marked
<1>5. ASSUME NEW f \in {"data"} \cup Ends, NEW a \in Owners(b)
      PROVE  Segment(k, f, a, b.dest).fate = "pass"
  <2>1. PICK r : r = Segment(k, f, a, b.dest)
    OBVIOUS
  <2>2. PICK o : o = IF pids[k] # NoApp THEN pids[k] ELSE a
    OBVIOUS
  <2>3. a \in Owner
    BY <1>3
  <2>4. CASE Untouched(k, b.dest)
    <3>1. r.fate = "pass"
      BY <1>3, <2>1, <2>2, <2>3, <2>4, Laters
    <3> QED BY <2>1, <3>1
  <2>5. CASE ~Untouched(k, b.dest)
    <3>1. /\ ~Tracked(Tables, k) /\ Ruling(k, b.app, b.dest) = "direct"
          /\ Port(k) \in decided => Port(k) \in direct
      BY <1>2, <1>3, <1>4, <2>5 DEF MarkedAt
    <3>2. pids[k] \in {NoApp, b.app} /\ a \in {NoApp, b.app}
      BY <1>2, <1>3, <2>5 DEF KeptAt, Owners
    <3>3. Ruling(k, NoApp, b.dest) = "direct"
      BY DEF Verdict, Ruling
    <3>4. Ruling(k, o, b.dest) = "direct"
      BY <2>2, <3>1, <3>2, <3>3
    <3>5. r.fate = "pass"
      BY <1>3, <2>1, <2>2, <2>3, <2>5, <3>1, <3>4, Laters
    <3> QED BY <2>1, <3>5
  <2> QED BY <2>4, <2>5
<1>6. "data" \in {"data"} \cup Ends /\ b.app \in Owners(b)
  BY DEF Owners
<1> QED BY <1>1, <1>5, <1>6 DEF Fates

\* A direct connection stays direct while the rules stand still, if no two connections
\* share a port (PortSetDirect, the end of a decision at a FIN).
THEOREM DirectStayDirect == ASSUME PortsApart PROVE Spec => []DirectStaysDirect
<1> QED BY DirectAtWork, PacketsInv, MarksFollow, PTL
=============================================================================
