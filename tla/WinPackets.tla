----------------------------- MODULE WinPackets -----------------------------
(***************************************************************************)
(* The TCP half of the packet loop of the Windows engine and the tables it *)
(* decides by: the connection entries (pb_conntrack.c), the two bitmaps of *)
(* decided local ports (pb_internal.h), the PID cache (pb_process.c), and  *)
(* the lookup of the relay's accept loop (pb_relay.c).                     *)
(*                                                                         *)
(* One packet thread handles one captured segment at a time, so a segment  *)
(* is one step; the accept loop, the cleanup thread and the rule calls run *)
(* between segments.  An entry and an application's connection are named   *)
(* by a key <<port, family>>; the bitmaps know the port alone.             *)
(***************************************************************************)
EXTENDS Integers, FiniteSets

CONSTANTS
  Keys,       \* the <<port, family>> pairs applications connect from
  Apps,       \* processes
  Dests,      \* destinations <<address, port>>
  Servers,    \* those that are a configured proxy server (IPv4 only)
  Exempt,     \* those no rule may proxy: localhost, multicast
  LinkLocal,  \* those no rule sees over IPv6: multicast, link-local
  Verdicts,   \* what the rules may say of a process
  Logging,    \* a connection callback is set
  MaxEdits,   \* bound on the calls that change the rules or the switch
  NoApp, NoConn, NoEntry

Families == {"v4", "v6"}

ASSUME KeysAssumption ==
  /\ \A k \in Keys : k[2] \in Families
  /\ Servers \subseteq Dests /\ Exempt \subseteq Dests /\ LinkLocal \subseteq Dests
  /\ "none" \in Verdicts /\ Verdicts \subseteq {"none", "direct", "block", "proxy"}
  /\ MaxEdits \in Nat /\ Logging \in BOOLEAN
  /\ NoApp \notin Apps

VARIABLES
  rules,    \* process -> what its rules say ("none": no rule matches it)
  enabled,  \* g_proxy_enabled
  edits,    \* calls made so far (bound)
  decided,  \* port_decided_bitmap: ports
  direct,   \* port_direct_bitmap: ports
  entry,    \* key -> tracked connection or NoEntry
  pids,     \* key -> process cached for it or NoApp
  conn      \* key -> the application's connection or NoConn

apiVars == <<rules, enabled, edits>>
tables == <<decided, direct, entry, pids>>
vars == <<rules, enabled, edits, decided, direct, entry, pids, conn>>

Ports == {k[1] : k \in Keys}
Port(k) == k[1]
IsV4(k) == k[2] = "v4"
Sides == {"app", "relay"}
Ends == {"fin", "rst"}

Entries == [dest : Dests, fins : SUBSET Sides]

(* A connection of an application: `via' is where its SYN went, `up' that  *)
(* the other end answered, `fins' who has finished (the relay's side is    *)
(* the server's when it is direct), `relay' the socket the relay holds for *)
(* it; `edited' and `aged' tell that the rules changed, or that its entry  *)
(* fell to the thirty minute limit, during its life.                       *)
Conns == [app : Apps, dest : Dests, via : {"direct", "block", "proxy"},
          up : BOOLEAN, fins : SUBSET Sides,
          relay : {"none", "queued", "held", "closed"},
          edited : BOOLEAN, aged : BOOLEAN]

ASSUME MarksAssumption == NoEntry \notin Entries /\ NoConn \notin Conns

Init ==
  /\ rules = [a \in Apps |-> "none"] /\ enabled = TRUE /\ edits = 0
  /\ decided = {} /\ direct = {}
  /\ entry = [k \in Keys |-> NoEntry]
  /\ pids = [k \in Keys |-> NoApp]
  /\ conn = [k \in Keys |-> NoConn]

-----------------------------------------------------------------------------
(* The tables as a value, so that a segment can pass through several       *)
(* updates in one step.                                                    *)
Tables == [decided |-> decided, direct |-> direct, entry |-> entry, pids |-> pids]

Become(t) ==
  /\ decided' = t.decided /\ direct' = t.direct
  /\ entry' = t.entry /\ pids' = t.pids

PortClear(t, k) ==
  [t EXCEPT !.decided = @ \ {Port(k)}, !.direct = @ \ {Port(k)}]
PortSetDirect(t, k) ==
  [t EXCEPT !.decided = @ \cup {Port(k)}, !.direct = @ \cup {Port(k)}]
PortSetDecided(t, k) == [t EXCEPT !.decided = @ \cup {Port(k)}]

Tracked(t, k) == t.entry[k] # NoEntry
Remove(t, k) == [t EXCEPT !.entry[k] = NoEntry]
Add(t, k, d) == [t EXCEPT !.entry[k] = [dest |-> d, fins |-> {}]]

(* connection_fin: the entry goes when both sides have sent their FIN.     *)
FinishedAtFirst(t, k, side) == Remove(t, k)
FinishedByRelay(t, k, side) ==
  CASE side = "relay" -> Remove(t, k)
    [] side = "app" /\ Tracked(t, k) -> [t EXCEPT !.entry[k].fins = @ \cup {side}]
    [] OTHER -> t
Finished(t, k, side) ==
  IF ~Tracked(t, k) THEN t
  ELSE LET fins == t.entry[k].fins \cup {side}
       IN IF fins = Sides THEN Remove(t, k) ELSE [t EXCEPT !.entry[k].fins = fins]

(* A SYN: the process cached for the port goes (IPv4), and so does what    *)
(* the tables still hold of an earlier connection (reset_stale_tcp_state). *)
EvictNoPid(t, k) == t
EvictPid(t, k) == IF IsV4(k) THEN [t EXCEPT !.pids[k] = NoApp] ELSE t
ResetStale(t, k) ==
  IF Port(k) \in t.decided \/ Tracked(t, k) THEN PortClear(Remove(t, k), k) ELSE t
Fresh(t, k) == ResetStale(EvictPid(t, k), k)

-----------------------------------------------------------------------------
(* g_has_active_rules, or somebody to tell about connections.              *)
Watched == Logging \/ \E a \in Apps : rules[a] # "none"

(* match_rule with the overrides of the packet loop. *)
VerdictFailsClosed(a, d) ==
  IF a = NoApp THEN "block"
  ELSE IF ~enabled \/ rules[a] = "none" \/ d \in Exempt THEN "direct" ELSE rules[a]
Verdict(a, d) ==
  IF a = NoApp \/ ~enabled \/ rules[a] = "none" THEN "direct"
  ELSE IF rules[a] = "proxy" /\ d \in Exempt THEN "direct" ELSE rules[a]

Untouched(k, d) == IsV4(k) /\ d \in Servers
Skipped(k, d) == ~IsV4(k) /\ d \in LinkLocal

(* check_process_rule and what the loop does with its answer.  `a' is the  *)
(* owner the system reports, NoApp when the socket is gone already.        *)
Judge(t, k, a, d) ==
  LET owner == IF t.pids[k] # NoApp THEN t.pids[k] ELSE a
      told == IF IsV4(k) THEN [t EXCEPT !.pids[k] = owner] ELSE t
      v == Verdict(owner, d)
  IN [fate |-> [direct |-> "pass", block |-> "drop", proxy |-> "relay"][v],
      after |-> CASE v = "direct" -> PortSetDirect(told, k)
                  [] v = "block" -> PortSetDecided(told, k)
                  [] v = "proxy" -> PortSetDecided(Add(told, k, d), k)]

(* The end of a segment of a tracked connection: a reset forgets it. *)
Redirect(t, k, f) ==
  [fate |-> "relay",
   after |-> CASE f = "rst" -> PortClear(Remove(t, k), k)
               [] f = "fin" -> Finished(t, k, "app")
               [] OTHER -> t]

Pass(t) == [fate |-> "pass", after |-> t]

(* An outbound segment of an application: flag f, owner a, destination d.  *)
Segment(k, f, a, d) ==
  LET t == IF f = "syn" THEN Fresh(Tables, k) ELSE Tables
      known == Port(k) \in t.decided
      t2 == IF known /\ f \in Ends THEN PortClear(t, k) ELSE t
  IN CASE Untouched(k, d) -> Pass(Tables)
       [] ~Untouched(k, d) /\ known /\ Port(k) \in t.direct -> Pass(t2)
       [] OTHER -> IF Tracked(t2, k) THEN Redirect(t2, k, f)
                   ELSE IF f \in Ends \/ Skipped(k, d) \/ ~Watched THEN Pass(t2)
                   ELSE Judge(t2, k, a, d)

-----------------------------------------------------------------------------
Via(fate) == [pass |-> "direct", drop |-> "block", relay |-> "proxy"][fate]

(* The relay's kernel answers a redirected SYN by itself; the listener     *)
(* accepts later.                                                          *)
Backlog(fate) == IF fate = "relay" THEN "queued" ELSE "none"

(* An application connects: its SYN is judged. *)
Connect(k, a, d) ==
  /\ conn[k] = NoConn
  /\ LET s == Segment(k, "syn", a, d)
     IN /\ Become(s.after)
        /\ conn' = [conn EXCEPT ![k] =
             [app |-> a, dest |-> d, via |-> Via(s.fate), up |-> FALSE, fins |-> {},
              relay |-> Backlog(s.fate), edited |-> FALSE, aged |-> FALSE]]
  /\ UNCHANGED apiVars

(* No answer yet: the SYN is sent again and judged again. *)
Retransmit(k) ==
  /\ conn[k] # NoConn /\ ~conn[k].up
  /\ conn[k].relay \in {"none", "queued"}
  /\ LET c == conn[k]
         s == Segment(k, "syn", c.app, c.dest)
     IN /\ Become(s.after)
        /\ conn' = [conn EXCEPT ![k] =
             [c EXCEPT !.via = Via(s.fate), !.relay = Backlog(s.fate),
                       !.edited = FALSE, !.aged = FALSE]]
  /\ UNCHANGED apiVars

(* The process the system reports for a connection: once it has closed its *)
(* side, none may be left.                                                 *)
Owners(c) == {c.app} \cup (IF "app" \in c.fins THEN {NoApp} ELSE {})

(* Data or an acknowledgement of an established connection. *)
AppData(k) ==
  /\ conn[k] # NoConn /\ conn[k].up
  /\ \E a \in Owners(conn[k]) : Become(Segment(k, "data", a, conn[k].dest).after)
  /\ UNCHANGED <<apiVars, conn>>

AppFin(k) ==
  /\ conn[k] # NoConn /\ conn[k].up
  /\ Become(Segment(k, "fin", conn[k].app, conn[k].dest).after)
  /\ conn' = [conn EXCEPT ![k].fins = @ \cup {"app"}]
  /\ UNCHANGED apiVars

AppRst(k) ==
  /\ conn[k] # NoConn /\ conn[k].up
  /\ Become(Segment(k, "rst", conn[k].app, conn[k].dest).after)
  /\ conn' = [conn EXCEPT ![k] = NoConn]
  /\ UNCHANGED apiVars

(* A connection goes without another segment: never answered, closed on    *)
(* both sides, or given up half closed.                                    *)
Forget(k) ==
  /\ conn[k] # NoConn
  /\ ~conn[k].up \/ "app" \in conn[k].fins
  /\ conn' = [conn EXCEPT ![k] = NoConn]
  /\ UNCHANGED <<apiVars, tables>>

(* The real destination answers, finishes or resets: inbound, untouched. *)
ServerSends(k, f) ==
  /\ conn[k] # NoConn /\ conn[k].via = "direct"
  /\ f = "data" => ~conn[k].up
  /\ f = "fin" => conn[k].up /\ "relay" \notin conn[k].fins
  /\ conn' = [conn EXCEPT ![k] =
       CASE f = "data" -> [@ EXCEPT !.up = TRUE]
         [] f = "fin" -> [@ EXCEPT !.fins = @ \cup {"relay"}]
         [] f = "rst" -> NoConn]
  /\ UNCHANGED <<apiVars, tables>>

-----------------------------------------------------------------------------
(* A segment of the relay to the application: its source port is restored  *)
(* from the entry; without one the application cannot place it.            *)
RelaySends(k, f) ==
  /\ conn[k] # NoConn /\ conn[k].via = "proxy" /\ conn[k].relay # "none"
  /\ f = "fin" => conn[k].up /\ conn[k].relay \in {"held", "closed"}
                  /\ "relay" \notin conn[k].fins
  /\ f = "rst" => conn[k].relay \in {"held", "closed"}
  /\ Become(CASE f = "rst" -> Remove(Tables, k)
              [] f = "fin" -> Finished(Tables, k, "relay")
              [] OTHER -> Tables)
  /\ conn' = [conn EXCEPT ![k] =
       CASE ~Tracked(Tables, k) -> @
         [] Tracked(Tables, k) /\ f = "data" -> [@ EXCEPT !.up = TRUE]
         [] Tracked(Tables, k) /\ f = "fin" -> [@ EXCEPT !.fins = @ \cup {"relay"}]
         [] Tracked(Tables, k) /\ f = "rst" -> NoConn]
  /\ UNCHANGED apiVars

(* The entry the accept loop finds for a connection, its peer checked      *)
(* (get_connection_full, relay_peer_ok).                                   *)
Known(k) == Tracked(Tables, k) /\ entry[k].dest = conn[k].dest

(* local_proxy_server accepts: without such an entry it closes at once.    *)
Accept(k) ==
  /\ conn[k] # NoConn /\ conn[k].relay = "queued" /\ conn[k].up
  /\ conn' = [conn EXCEPT ![k].relay = IF Known(k) THEN "held" ELSE "closed"]
  /\ UNCHANGED <<apiVars, tables>>

(* cleanup_worker: an entry no reply has passed for thirty minutes goes,   *)
(* and so does a process cached for longer than thirty seconds.            *)
Cleanup(k) ==
  /\ entry[k] # NoEntry
  /\ entry' = [entry EXCEPT ![k] = NoEntry]
  /\ conn' = [conn EXCEPT ![k] = IF @ = NoConn THEN @ ELSE [@ EXCEPT !.aged = TRUE]]
  /\ UNCHANGED <<apiVars, decided, direct, pids>>

PidExpires(k) ==
  /\ pids[k] # NoApp
  /\ pids' = [pids EXCEPT ![k] = NoApp]
  /\ UNCHANGED <<apiVars, decided, direct, entry, conn>>

(* The rules change, or the main switch: what is tracked is left alone. *)
Edited == [k \in Keys |-> IF conn[k] = NoConn THEN NoConn ELSE [conn[k] EXCEPT !.edited = TRUE]]

SetRule(a, v) ==
  /\ edits < MaxEdits /\ v # rules[a]
  /\ rules' = [rules EXCEPT ![a] = v]
  /\ edits' = edits + 1 /\ conn' = Edited
  /\ UNCHANGED <<enabled, tables>>

SetEnabled ==
  /\ edits < MaxEdits
  /\ enabled' = ~enabled
  /\ edits' = edits + 1 /\ conn' = Edited
  /\ UNCHANGED <<rules, tables>>

Next ==
  \/ \E k \in Keys :
       \/ \E a \in Apps, d \in Dests : Connect(k, a, d)
       \/ Retransmit(k) \/ AppData(k) \/ AppFin(k) \/ AppRst(k) \/ Forget(k)
       \/ \E f \in {"data", "fin", "rst"} : ServerSends(k, f) \/ RelaySends(k, f)
       \/ Accept(k) \/ Cleanup(k) \/ PidExpires(k)
  \/ \E a \in Apps, v \in Verdicts : SetRule(a, v)
  \/ SetEnabled

Spec == Init /\ [][Next]_vars

-----------------------------------------------------------------------------
(* The tables and connections have their shape, a direct port is decided,  *)
(* and an entry never has both sides finished.                             *)
TypeOK ==
  /\ rules \in [Apps -> Verdicts] /\ enabled \in BOOLEAN /\ edits \in 0..MaxEdits
  /\ decided \subseteq Ports /\ direct \subseteq decided
  /\ entry \in [Keys -> {NoEntry} \cup {e \in Entries : e.fins # Sides}]
  /\ pids \in [Keys -> Apps \cup {NoApp}]
  /\ conn \in [Keys -> {NoConn} \cup Conns]

(* What a new connection gets: the answer of the rules, where they are asked. *)
Ruling(k, a, d) == IF Untouched(k, d) \/ Skipped(k, d) THEN "direct" ELSE Verdict(a, d)

Established(k) == conn[k] # NoConn /\ conn[k].up /\ conn[k].fins # Sides

(* Where the next segment of an established connection goes. *)
Fates(k) == {Segment(k, f, a, conn[k].dest).fate : f \in {"data"} \cup Ends, a \in Owners(conn[k])}

(* A connection about to start will be judged by the rules in force for    *)
(* the process that opens it: nothing an earlier connection left behind    *)
(* for its port - a decision, an entry, a cached process - answers in      *)
(* their place (remove_cached_pid, reset_stale_tcp_state).                 *)
JudgedByTheRules ==
  TypeOK /\ \A k \in Keys : conn[k] = NoConn => \A a \in Apps, d \in Dests :
    Via(Segment(k, "syn", a, d).fate) = Ruling(k, a, d)

(* While a proxied connection is open on a side, whatever becomes of the   *)
(* rules and the main switch, its segments go to the relay and the relay's *)
(* reach it under its destination's name (ProxyBridge_SetEnabled: they     *)
(* "keep working until they end"); the thirty minute limit is the          *)
(* exception.                                                              *)
ProxiedKeepWorking ==
  \A k \in Keys : Established(k) /\ conn[k].via = "proxy" /\ ~conn[k].aged =>
                    Fates(k) = {"relay"} /\ Known(k)

(* A connection in the relay's backlog is found when it is accepted, also  *)
(* when the application finished or the rules changed first (the comment   *)
(* of connection_fin).                                                     *)
RelayKnowsDestination ==
  \A k \in Keys : conn[k] # NoConn => (conn[k].relay = "queued" /\ ~conn[k].aged => Known(k))

(* While the rules stand still, no segment of a connection that went out   *)
(* directly is turned to the relay or dropped, also after its FIN has      *)
(* erased the decision and the next segment is judged anew.                *)
DirectStaysDirect ==
  \A k \in Keys : Established(k) /\ conn[k].via = "direct" /\ ~conn[k].edited =>
                    Fates(k) = {"pass"}
=============================================================================
