--------------------------- MODULE ServerRotation ---------------------------
(***************************************************************************)
(* Credential rotation in the server: src/scheduler.ts and src/rotate.ts,  *)
(* with the proxy store of src/proxies.ts, the requests of                 *)
(* src/routes/proxiesRoutes.ts and src/routes/instancesRoutes.ts that      *)
(* change what it keeps, its files (src/jsonStore.ts) and the 3x-ui panel  *)
(* whose inbound holds the accounts.                                       *)
(*                                                                         *)
(* The server is one thread: a handler runs from one await to the next,    *)
(* and another may run in between.  File writes without an await between   *)
(* them follow one another, but a crash can come in between.  A task is a  *)
(* rotation, a sync or the creation of a panel proxy: it awaits the        *)
(* panel's list of accounts, then the panel's answer to the update.  The   *)
(* panel takes an update before its sender gives it up, or never.          *)
(***************************************************************************)
EXTENDS Naturals, Sequences, FiniteSets, Functions

CONSTANTS
  Ids,        \* ids of proxies
  Users,      \* accounts of the panel's inbound
  FirstUser,  \* the account used when no account has the name asked for
  Hosts,      \* where a proxy listens: protocol, host and port
  Placeholder, \* the host that stands for none: 10.0.0.1 or 0.0.0.0
  Passes,     \* passwords, enough that a random one is not in use
  Tasks,      \* handlers that await the panel, numbered
  MaxOps,     \* bound: operator's calls and syncs
  MaxFaults,  \* bound: crashes, failed requests and lost answers
  None

\* Passwords that the panel, the nodes, the file and the tasks hold at most.
PassesInUse == Cardinality(Users) + Cardinality(Ids) + 1
                 + Cardinality(Tasks) * (Cardinality(Users) + 1)

ASSUME RotationAssumption ==
  /\ FirstUser \in Users /\ Passes \subseteq Nat /\ Tasks \subseteq Nat
  /\ IsFiniteSet(Users) /\ IsFiniteSet(Ids) /\ IsFiniteSet(Tasks)
  /\ Cardinality(Users) <= Cardinality(Ids)
  /\ IsFiniteSet(Passes) /\ Cardinality(Passes) > PassesInUse
  /\ Placeholder \in Hosts /\ Hosts # {Placeholder}
  /\ MaxOps \in Nat /\ MaxFaults \in Nat
  /\ None \notin Ids \cup Users

VARIABLES
  panel,   \* account -> its password
  list,    \* proxies.json: the nodes
  conf,    \* proxy_config.json: the host it names
  creds,   \* current_creds.json: [user, pass]
  goal,    \* what the running handler writes to the three files
  todo,    \* the files it has still to write
  task,    \* task -> where its handler waits
  schedule,   \* the rotation configuration names no panel, one without a password, or one
  registered, \* the registry has the panel that panel nodes name
  ops, faults, \* spent of the bounds
  odd      \* history: what happened that may leave panel and files apart

files   == <<list, conf, creds>>
memory  == <<goal, todo, task>>
config  == <<schedule, registered>>
bounds  == <<ops, faults>>
vars == <<panel, files, memory, config, bounds, odd>>

Free == [pc |-> "free"]
Causes == {"crash", "lost", "overlap", "moved", "foreign", "standalone", "edited", "config",
           "shared"}

\* xui: of type 3x-ui, else manual.  user None: no name, or one the panel does not know.
Node == [id : Ids, xui : BOOLEAN, user : Users \cup {None}, pass : Passes, host : Hosts,
         active : BOOLEAN]
Cred == [user : Users \cup {None}, pass : Passes]

TypeOK ==
  /\ panel \in [Users -> Passes]
  /\ \A k \in DOMAIN list : list[k] \in Node
  /\ \A j, k \in DOMAIN list : list[j].id = list[k].id => j = k
  /\ Cardinality({k \in DOMAIN list : list[k].active}) <= 1
  /\ conf \in Hosts /\ creds \in Cred
  /\ Len(todo) <= 3 /\ Range(todo) \subseteq {"list", "conf", "creds"}
  /\ \A t \in Tasks :
       task[t].pc \in {"free", "aim", "list", "refused", "post", "store", "node", "lost"}
  /\ schedule \in {"none", "nopass", "full"} /\ registered \in BOOLEAN
  /\ ops \in 0 .. MaxOps /\ faults \in 0 .. MaxFaults
  /\ odd \subseteq Causes

-----------------------------------------------------------------------------
(* What is read                                                            *)

IndexOf(id) == {k \in DOMAIN list : list[k].id = id}
ActiveAt    == {k \in DOMAIN list : list[k].active /\ list[k].host # Placeholder}
Nobody      == [id |-> None, xui |-> FALSE, user |-> None]

\* getActiveProxy: the first active node on a real host; no node when there is none.
Active == IF ActiveAt = {} THEN Nobody
          ELSE list[CHOOSE k \in ActiveAt : \A j \in ActiveAt : k <= j]

IsPanel(node) == node.xui
Busy(t)       == task[t].pc # "free"
Rotating      == \E t \in Tasks : Busy(t) /\ task[t].kind = "rotate"

\* A password nobody has: crypto.randomBytes.
InUse == Range(panel) \cup {creds.pass} \cup {list[k].pass : k \in DOMAIN list}
         \cup UNION {Range(task[t].acc) \cup {task[t].new} : t \in {u \in Tasks : Busy(u)}}
Fresh == CHOOSE p \in Passes \ InUse : \A q \in Passes \ InUse : p <= q

\* Some of the accounts have a node, made when their panel could be reached; the first of
\* them is active, all in agreement.
Init ==
  LET pass == CHOOSE f \in [Users -> Passes] : IsInjective(f)
      ids  == CHOOSE f \in [Users -> Ids] : IsInjective(f)
  IN  /\ panel = pass
      /\ \E n \in 1 .. Cardinality(Users) :
         \E order \in [1 .. n -> Users], host \in [1 .. n -> Hosts \ {Placeholder}] :
           /\ IsInjective(order)
           /\ list = [k \in 1 .. n |->
                        [id |-> ids[order[k]], xui |-> TRUE, user |-> order[k],
                         pass |-> pass[order[k]], host |-> host[k], active |-> k = 1]]
           /\ conf = host[1]
           /\ creds = [user |-> order[1], pass |-> pass[order[1]]]
      /\ goal = None /\ todo = <<>>
      /\ task = [t \in Tasks |-> Free]
      /\ schedule \in {"none", "nopass", "full"} /\ registered \in BOOLEAN
      /\ schedule = "full" \/ registered
      /\ ops = 0 /\ faults = 0 /\ odd = {}

-----------------------------------------------------------------------------
(* What is written                                                         *)

\* The handler's writes, in order; it ends with the last of them.
Writes(l, host, cr, order) ==
  /\ goal' = [list |-> l, conf |-> host, creds |-> cr]
  /\ todo' = order

NoWrites == UNCHANGED <<goal, todo>>

\* syncActiveProxyToConfigAndCreds
SyncActive(node) == IF node.active THEN <<"conf", "creds">> ELSE <<>>

CredsOf(node) == [user |-> node.user, pass |-> node.pass]

\* writeJsonAtomic: a file is renamed into place.
Write ==
  /\ todo # <<>>
  /\ list'  = IF Head(todo) = "list"  THEN goal.list  ELSE list
  /\ conf'  = IF Head(todo) = "conf"  THEN goal.conf  ELSE conf
  /\ creds' = IF Head(todo) = "creds" THEN goal.creds ELSE creds
  /\ todo' = Tail(todo)
  /\ goal' = IF Len(todo) = 1 THEN None ELSE goal
  /\ UNCHANGED <<panel, task, config, bounds, odd>>

\* At most one node is active: a node that becomes active ends the others.
Others(l, becomes) ==
  IF becomes THEN [k \in DOMAIN l |-> [l[k] EXCEPT !.active = FALSE]] ELSE l

\* updateProxy on a node that exists.
UpdateProxy(k, node) ==
  Writes([Others(list, node.active /\ ~list[k].active) EXCEPT ![k] = node], node.host,
         CredsOf(node), <<"list">> \o SyncActive(node))

CreateProxy(node) ==
  LET new == [node EXCEPT !.active = @ \/ list = <<>>]
  IN Writes(Append(Others(list, new.active), new), new.host, CredsOf(new),
            <<"list">> \o SyncActive(new))

NewId(id) == IndexOf(id) = {} /\ \A t \in Tasks : Busy(t) => task[t].id # id

-----------------------------------------------------------------------------
(* The operator's calls, each a handler without an await.                  *)

Call(more) ==
  /\ todo = <<>> /\ ops < MaxOps
  /\ ops' = ops + 1
  /\ odd' = odd \cup more
  /\ UNCHANGED <<panel, files, task, schedule, faults>>

\* A call that writes while a task awaits the panel acts on what that task read.
Disturbs == IF \E t \in Tasks : Busy(t) THEN {"moved"} ELSE {}

SetActiveProxy(k) ==
  LET l == [j \in DOMAIN list |-> [list[j] EXCEPT !.active = j = k]]
  IN /\ Call(Disturbs)
     /\ Writes(l, l[k].host, CredsOf(l[k]), <<"list", "conf", "creds">>)
     /\ UNCHANGED registered

\* PUT /api/proxies/:id: the body may replace any field but the id.
Edit(k, node) ==
  LET typed == IsPanel(node) /\ (~IsPanel(list[k]) \/ CredsOf(node) # CredsOf(list[k]))
  IN /\ Call(Disturbs \cup (IF typed THEN {"edited"} ELSE {}))
     /\ UpdateProxy(k, node)
     /\ UNCHANGED registered

\* The next node becomes active first, and the list is written last.
DeleteProxy(k) ==
  LET rest == SubSeq(list, 1, k - 1) \o SubSeq(list, k + 1, Len(list))
      heir == list[k].active /\ rest # <<>>
      l    == IF heir THEN [rest EXCEPT ![1].active = TRUE] ELSE rest
      node == IF heir THEN l[1] ELSE list[k]
  IN /\ Call(Disturbs)
     /\ Writes(l, node.host, CredsOf(node), (IF heir THEN SyncActive(node) ELSE <<>>) \o <<"list">>)
     /\ UNCHANGED registered

CreateManual(id, user, host, on) ==
  /\ NewId(id)
  /\ Call(Disturbs)
  /\ CreateProxy([id |-> id, xui |-> FALSE, user |-> user, pass |-> Fresh, host |-> host,
                  active |-> on])
  /\ UNCHANGED registered

\* POST /api/config writes the configuration alone, whichever node is active.
SetConfig(host) ==
  /\ Call(Disturbs \cup (IF IsPanel(Active) THEN {"config"} ELSE {}))
  /\ Writes(list, host, creds, <<"conf">>)
  /\ UNCHANGED registered

\* POST, PUT and DELETE /api/3xui/panels: the panel the nodes name comes or goes.
SetPanels ==
  /\ Call({})
  /\ registered' = ~registered
  /\ NoWrites

\* No call is looked at that could not be made.
Operator ==
  /\ todo = <<>> /\ ops < MaxOps
  /\ \/ \E k \in DOMAIN list : SetActiveProxy(k) \/ DeleteProxy(k)
     \/ \E k \in DOMAIN list :
        \E xui, on \in BOOLEAN, user \in Users \cup {None}, host \in Hosts,
           pass \in {list[k].pass, Fresh} :
          Edit(k, [id |-> list[k].id, xui |-> xui, user |-> user, pass |-> pass, host |-> host,
                   active |-> on])
     \/ \E id \in Ids, user \in Users \cup {None}, host \in Hosts, on \in BOOLEAN :
          CreateManual(id, user, host, on)
     \/ \E host \in Hosts : SetConfig(host)
     \/ SetPanels

-----------------------------------------------------------------------------
(* Tasks                                                                   *)

\* A handler that starts is the first that does not run.
Begin(t, kind, pc, id, user) ==
  /\ todo = <<>> /\ ~Busy(t) /\ \A s \in Tasks : s < t => Busy(s)
  /\ task' = [task EXCEPT ![t] = [pc |-> pc, kind |-> kind, id |-> id, user |-> user,
                                  acc |-> <<>>, new |-> None]]
  /\ NoWrites
  /\ UNCHANGED <<panel, files, config, faults>>

\* runManualRotation: concurrent callers share the rotation under way.
MayRotate == ~Rotating

\* A rotation that begins while a sync or a creation is under way.
Overlaps(t) == IF Busy(t) /\ task[t].kind # "rotate" THEN {"overlap"} ELSE {}

\* The timer fires, or the operator asks; proxies.js is then awaited.
StartRotation(t) ==
  /\ MayRotate
  /\ Begin(t, "rotate", "aim", None, None)
  /\ odd' = odd \cup UNION {Overlaps(s) : s \in Tasks}
  /\ UNCHANGED ops

\* panelConfigured: the configuration names a panel and its password, or it names none and
\* the active node's is in the registry.
Reaches(node) == schedule = "full" \/ (schedule = "none" /\ IsPanel(node) /\ registered)

\* doExecuteRotation: the active node, if it is the panel's, is the target, and its name the
\* account, of whatever type it is.  Without a panel to reach, the file alone is rotated.
Aim(t) ==
  /\ todo = <<>> /\ task[t].pc = "aim"
  /\ IF Reaches(Active)
     THEN /\ task' = [task EXCEPT ![t].pc = "list", ![t].user = Active.user,
                                  ![t].id = IF IsPanel(Active) THEN Active.id ELSE None]
          /\ odd' = IF IsPanel(Active) THEN odd ELSE odd \cup {"foreign"}
          /\ NoWrites
     ELSE /\ task' = [task EXCEPT ![t] = Free]
          /\ odd' = IF IsPanel(Active) THEN odd \cup {"standalone"} ELSE odd
          /\ Writes(list, conf, [creds EXCEPT !.pass = Fresh], <<"creds">>)
  /\ UNCHANGED <<panel, files, config, bounds>>

\* A sync and a creation find their panel in the registry or in the configuration; without a
\* password it lets nobody in.
Answer == IF registered \/ schedule = "full" THEN "list" ELSE "refused"

\* POST /api/proxies/:id/sync, with or without a new password.
StartSync(t, k, kind) ==
  /\ ops < MaxOps /\ ops' = ops + 1
  /\ ~Rotating /\ \A s \in Tasks : Busy(s) => task[s].id # list[k].id
  /\ IsPanel(list[k])
  /\ Begin(t, kind, Answer, list[k].id, list[k].user)
  /\ odd' = odd \cup UNION {Overlaps(s) : s \in {r \in Tasks : Busy(r) => task[r].id # list[k].id}}

\* POST /api/proxies with type 3x-ui: no account is named, so the first one is taken.
StartAdd(t, id) ==
  /\ ops < MaxOps /\ ops' = ops + 1
  /\ NewId(id)
  /\ Begin(t, "add", Answer, id, None)
  /\ odd' = odd \cup (IF \E s \in Tasks : Busy(s) THEN {"overlap"} ELSE {})
       \cup (IF \E k \in DOMAIN list : IsPanel(list[k]) /\ list[k].user = FirstUser
             THEN {"shared"} ELSE {})

\* The account with the name asked for, or else the first.
Account(user) == IF user \in Users THEN user ELSE FirstUser

\* The panel's list arrives.
Listed(t) ==
  /\ todo = <<>> /\ task[t].pc = "list"
  /\ LET user == Account(task[t].user)
         sets == task[t].kind \in {"rotate", "sync"}
     IN task' = [task EXCEPT ![t].user = user, ![t].acc = panel,
                             ![t].new = IF sets THEN Fresh ELSE panel[user],
                             ![t].pc  = IF sets THEN "post" ELSE "store"]
  /\ UNCHANGED <<panel, files, goal, todo, config, bounds, odd>>

\* The panel takes the whole inbound as it was listed, with one password changed.
Posted(t) ==
  /\ task[t].pc = "post"
  /\ panel' = [task[t].acc EXCEPT ![task[t].user] = task[t].new]
  /\ task' = [task EXCEPT ![t].pc = "store", ![t].acc = <<>>]
  /\ UNCHANGED <<files, goal, todo, config, bounds, odd>>

\* The panel takes it, but its answer does not come in time.
Lost(t) ==
  /\ task[t].pc = "post" /\ faults < MaxFaults
  /\ panel' = [task[t].acc EXCEPT ![task[t].user] = task[t].new]
  /\ task' = [task EXCEPT ![t].pc = "lost", ![t].acc = <<>>]
  /\ faults' = faults + 1 /\ odd' = odd \cup {"lost"}
  /\ UNCHANGED <<files, goal, todo, config, ops>>

End(t) == task' = [task EXCEPT ![t] = Free]

\* The end of a rotation: the file first; proxies.js is then awaited.
StoreRotated(t) ==
  /\ Writes(list, conf, [user |-> task[t].user, pass |-> task[t].new], <<"creds">>)
  /\ task' = [task EXCEPT ![t].pc = "node"]

\* The end of a sync: the node gets the account's name and its password.
StoreSynced(t) ==
  /\ IF IndexOf(task[t].id) = {} THEN NoWrites
     ELSE \E k \in IndexOf(task[t].id) :
            UpdateProxy(k, [list[k] EXCEPT !.pass = task[t].new, !.user = task[t].user])
  /\ End(t)

StoreAdded(t) ==
  /\ \E host \in Hosts, on \in BOOLEAN :
       CreateProxy([id |-> task[t].id, xui |-> TRUE, user |-> task[t].user,
                    pass |-> task[t].new, host |-> host, active |-> on])
  /\ End(t)

\* The panel's answer arrives.
Stored(t) ==
  /\ todo = <<>> /\ task[t].pc = "store"
  /\ CASE task[t].kind = "rotate" -> StoreRotated(t)
       [] task[t].kind \in {"sync", "fetch"} -> StoreSynced(t)
       [] task[t].kind = "add" -> StoreAdded(t)
  /\ UNCHANGED <<panel, files, config, bounds, odd>>

\* Mutant of Rotated: the node keeps its old password.
NotRotated(node, new) == node

\* The node's name stays what it is.
Rotated(node, new) == [node EXCEPT !.pass = new]

\* The rotation's node, if it is still there, or the panel node active by now.
StoreNode(t) ==
  /\ todo = <<>> /\ task[t].pc = "node"
  /\ LET id == IF task[t].id # None THEN task[t].id
               ELSE IF IsPanel(Active) THEN Active.id ELSE None
     IN IF IndexOf(id) = {} THEN NoWrites
        ELSE \E k \in IndexOf(id) : UpdateProxy(k, Rotated(list[k], task[t].new))
  /\ End(t)
  /\ UNCHANGED <<panel, files, config, bounds, odd>>

\* Mutant of GiveUp: a rotation that fails rotates the file alone.
GiveUpFallsBack(t) ==
  IF task[t].kind = "rotate" THEN Writes(list, conf, [creds EXCEPT !.pass = Fresh], <<"creds">>)
  ELSE NoWrites

\* A rotation that fails changes no credentials; a sync marks its node.
GiveUp(t) ==
  IF task[t].kind \in {"rotate", "add"} \/ IndexOf(task[t].id) = {} THEN NoWrites
  ELSE \E k \in IndexOf(task[t].id) : UpdateProxy(k, list[k])

\* The panel cannot be reached, refuses, or answered too late.
Fail(t) ==
  /\ todo = <<>> /\ task[t].pc \in {"list", "refused", "post", "lost"}
  /\ IF task[t].pc \in {"refused", "lost"} THEN UNCHANGED faults
     ELSE faults < MaxFaults /\ faults' = faults + 1
  /\ GiveUp(t)
  /\ End(t)
  /\ UNCHANGED <<panel, files, config, ops, odd>>

\* The server stops at any moment and starts again from its files, with a default node
\* when there is none.
Crash ==
  /\ faults < MaxFaults /\ faults' = faults + 1
  /\ odd' = IF todo # <<>> \/ \E t \in Tasks : task[t].pc \in {"store", "node", "lost"}
            THEN odd \cup {"crash"} ELSE odd
  /\ task' = [t \in Tasks |-> Free]
  /\ IF list = <<>>
     THEN LET id == CHOOSE i \in Ids : TRUE
              node == [id |-> id, xui |-> FALSE, user |-> creds.user, pass |-> creds.pass,
                       host |-> conf, active |-> conf # Placeholder]
          IN Writes(<<node>>, conf, creds, <<"list", "conf", "creds">>)
     ELSE goal' = None /\ todo' = <<>>
  /\ UNCHANGED <<panel, files, config, ops>>

Next ==
  \/ Write \/ Operator \/ Crash
  \/ \E t \in Tasks :
       \/ StartRotation(t) \/ Aim(t) \/ Listed(t) \/ Posted(t) \/ Lost(t) \/ Stored(t)
       \/ StoreNode(t) \/ Fail(t)
       \/ \E k \in DOMAIN list, kind \in {"sync", "fetch"} : StartSync(t, k, kind)
       \/ \E id \in Ids : StartAdd(t, id)

Spec == Init /\ [][Next]_vars

\* The timer goes on firing and the panel answers or times out in the end.  The event
\* loop takes events in turn: one that is ready again and again is handled (SF), though
\* others run, and write, in between.
Proceed(t) == \/ Aim(t) \/ Listed(t) \/ Posted(t) \/ Stored(t) \/ StoreNode(t)
              \/ Fail(t) /\ task[t].pc \in {"refused", "lost"}

Fairness ==
  /\ WF_vars(Write)
  /\ WF_vars(\E t \in Tasks : StartRotation(t))
  /\ \A t \in Tasks : SF_vars(Proceed(t))

FairSpec == Spec /\ Fairness

-----------------------------------------------------------------------------
(* Properties                                                              *)

\* No handler is between its first and its last write, no update is on its way.
Quiet == todo = <<>> /\ \A t \in Tasks : task[t].pc \notin {"store", "node", "lost"}

\* What the fleet is given is what the panel accepts: for the active node, by
\* /api/sync from the node and by /creds from the file.
Agreed ==
  IsPanel(Active) =>
    /\ Active.user \in Users /\ Active.pass = panel[Active.user]
    /\ creds = CredsOf(Active) /\ conf = Active.host

\* The panel, the nodes and the files come apart only by a crash between two writes or after
\* the update, by a lost answer, by a sync or a creation that overlaps another task, by a
\* call that writes during a task, by a rotation of an account without a panel node
\* active, by a rotation of the file alone with one active, by an operator who gives a panel
\* node another name, password or type, posts a configuration of his own, or adds a second
\* node for an account: never by a rotation that fails, by two rotations, by activating,
\* moving, deleting or adding nodes, by panels that come and go, or by any number of
\* rotations and syncs one after the other.  Whatever happens, the list names at most one
\* active node (TypeOK).
ApartOnlyByKnownCauses ==
  /\ TypeOK
  /\ Quiet /\ odd = {} =>
       /\ Agreed
       /\ \A k \in DOMAIN list : IsPanel(list[k]) => list[k].pass = panel[list[k].user]

\* Rotations reach the panel and have the active node's account to rotate.
Repairable == IsPanel(Active) => Active.user \in Users /\ Reaches(Active)

\* Whatever has come apart, by crashes, lost answers, overlaps, posted configurations or
\* passwords typed in, comes together again as long as the active node names one of the
\* panel's accounts and rotations reach the panel: rotations go on, and one that runs alone
\* brings the panel, the active node and the files together.  A name the panel does not know
\* and a panel that rotations cannot reach are never repaired by them.
Heals == []<>(Quiet /\ (Repairable => Agreed))

\* "In-flight lock: ... interleaved panel/local writes would desynchronize the
\* fleet's credentials": the lock would have to keep overlapping tasks harmless.
LockSuffices == Quiet /\ odd \subseteq {"overlap"} => Agreed
=============================================================================
