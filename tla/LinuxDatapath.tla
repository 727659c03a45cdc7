---------------------------- MODULE LinuxDatapath ----------------------------
(***************************************************************************)
(* How the Linux client keeps the kernel's copy of the rules in step with  *)
(* its own: the API calls of ProxyBridge.c, each of which resynchronises   *)
(* the maps of pb_bpf.c step by step while the hooks keep running; the     *)
(* maintenance thread that reloads /etc/hosts; the relay threads that      *)
(* learn addresses from DNS answers and classes from new programs.         *)
(*                                                                         *)
(* A writer holds G.lock for the whole of an API call, a reader for the    *)
(* part of it that one action stands for.  The relay is running: starting  *)
(* and stopping are not part of this module.                               *)
(***************************************************************************)
EXTENDS LinuxRules

CONSTANTS
  Unlearned,      \* addresses no DNS answer is recorded for: 127/8 and 0.0.0.0
  Programs,       \* executable files, by device and inode
  NoPath,         \* the path of a process that has exited
  Texts,          \* the rules that API calls pass
  MaxRules,       \* PB_MAX_RULES
  MaxProxies,     \* MAX_PROXIES
  MaxClasses,     \* PB_MAX_CLASSES - 1: class 0 is always there
  MaxPrograms,    \* MAX_KNOWN_EXES
  DnsMax,         \* PB_DNS_MAX_ENTRIES
  MaxNames,       \* PB_DNS_MAX_NAMES, of an address and of an answer or hosts line
  MaxId,          \* bound: the last proxy id given out
  Renames,        \* whether programs are moved while known
  Execs,          \* whether a process may exec or exit before its flow is decided
  TwoCallers      \* whether API calls come from two threads

ASSUME DatapathAssumption ==
  /\ NoPath \in Paths
  /\ Unlearned \subseteq LocalIPs
  /\ Texts \subseteq {r \in Rules : r.on}
  /\ MaxRules \in Nat \ {0} /\ MaxProxies \in Nat \ {0} /\ MaxId \in Nat
  /\ MaxClasses \in Nat /\ MaxPrograms \in Nat /\ DnsMax \in Nat \ {0}
  /\ MaxNames \in Nat \ {0}
  /\ {Renames, Execs, TwoCallers} \subseteq BOOLEAN

VARIABLES
  rules, proxies, default, nextId, \* G.rules, G.proxies, G.default_proxy, G.next_proxy_id
  via,       \* G.dns_via_proxy
  dns,       \* the table T of pb_dns.c, oldest address first
  exes, cls, \* pb_bpf.c: known programs with their paths, and the interned classes
  brs, classes, exe2class, hit, cfg,   \* the kernel's maps (hit is dom_hit)
  wpc, wk, wv,  \* the writer: location, position, the flag it has read
  apc,       \* the caller of SetDnsViaProxy: "idle" or "set"
  maint,     \* the maintenance thread: "idle", "clear" or "foreach"
  obs,       \* an answer recorded, not yet armed and delivered: a set of at most one
  pathOf     \* where each program is in the file system

user == <<rules, proxies, default, nextId>>
kern == <<brs, classes, exe2class, hit, cfg>>
vars == <<user, via, dns, exes, cls, kern, wpc, wk, wv, apc, maint, obs, pathOf>>

Entries == [ip : V4s, names : SUBSET Names]
Known   == [exe : Programs, path : Paths]

TypeOK ==
  /\ rules \in Seq(Rules) /\ Len(rules) <= MaxRules
  /\ proxies \in Seq(Proxies) /\ Len(proxies) <= MaxProxies
  /\ default \in Nat /\ nextId \in Nat \ {0}
  /\ via \in BOOLEAN
  /\ dns \in Seq(Entries) /\ Len(dns) <= DnsMax
  /\ exes \in Seq(Known) /\ Len(exes) <= MaxPrograms
  /\ \A j, k \in DOMAIN exes : exes[j].exe = exes[k].exe => j = k
  /\ cls \in Seq(Classes) /\ Len(cls) <= MaxClasses
  /\ brs \in [1 .. MaxRules -> BRules]
  /\ classes \in [0 .. MaxClasses -> Classes]
  /\ DOMAIN exe2class \subseteq Programs
  /\ \A e \in DOMAIN exe2class : exe2class[e] \in 0 .. MaxClasses
  /\ hit \subseteq (1 .. MaxRules) \X V4s
  /\ cfg \in [enabled : BOOLEAN, dnsTap : BOOLEAN, via : BOOLEAN]
  /\ wpc \in {"idle", "rules", "scan", "class", "map", "via", "flag", "clear", "foreach"}
  /\ wk \in Nat /\ wv \in BOOLEAN
  /\ apc \in {"idle", "set"} /\ maint \in {"idle", "clear", "foreach"}
  /\ obs \subseteq Entries
  /\ pathOf \in [Programs -> Paths]

\* Started, with no rule and no proxy yet.
Init ==
  /\ rules = <<>> /\ proxies = <<>> /\ default = 0 /\ nextId = 1
  /\ via = TRUE
  /\ dns = <<>> /\ exes = <<>> /\ cls = <<>>
  /\ brs = [i \in 1 .. MaxRules |-> NoBRule]
  /\ classes = [k \in 0 .. MaxClasses |-> NoRules]
  /\ exe2class = <<>>
  /\ hit = {}
  /\ cfg = [enabled |-> FALSE, dnsTap |-> FALSE, via |-> TRUE]
  /\ wpc = "idle" /\ wk = 1 /\ wv = TRUE /\ apc = "idle" /\ maint = "idle"
  /\ obs = {}
  /\ pathOf \in [Programs -> Paths \ {NoPath}]
  /\ \A e, f \in Programs : e # f => pathOf[e] # pathOf[f]

-----------------------------------------------------------------------------
(* The table T of pb_dns.c *)

NamesOf(t, ip) == UNION {t[k].names : k \in {j \in DOMAIN t : t[j].ip = ip}}

Without(s, i) == SubSeq(s, 1, i - 1) \o SubSeq(s, i + 1, Len(s))

\* The names an address has after some are added: when they are too many, each name added
\* puts the oldest out.  The order in which they came is left open.
Kept(old, added) ==
  IF Cardinality(old \cup added) <= MaxNames THEN {old \cup added}
  ELSE {ns \in SUBSET (old \cup added) : Cardinality(ns) = MaxNames /\ ns \cap added # {}}

\* add_mapping: the address's entry, with these names, becomes the youngest; a new
\* entry evicts the oldest when the table is full.
AddMapping(t, ip, names) ==
  LET at     == {k \in DOMAIN t : t[k].ip = ip}
      others == IF at = {} THEN t ELSE Without(t, Min1(at))
      room   == IF Len(others) >= DnsMax THEN Tail(others) ELSE others
  IN Append(room, [ip |-> ip, names |-> names])

Record(ip, names) ==
  /\ ip \notin Unlearned /\ names # {} /\ Cardinality(names) <= MaxNames
  /\ \E ns \in Kept(NamesOf(dns, ip), names) : dns' = AddMapping(dns, ip, ns)

\* pb_dns_for_each(arm_cb): T.lock is held throughout.
ArmAll(rs, t) == UNION {Armed(rs, t[k].ip, t[k].names) : k \in DOMAIN t}

HasDomainRules == \E i \in DOMAIN rules : rules[i].on /\ rules[i].names # {}

-----------------------------------------------------------------------------
(* API calls: each changes the rules or the proxies and then synchronises, under *)
(* the write lock.                                                               *)

\* The lock is taken, the change made, the views rebuilt; pb_bpf_sync comes next.
Call ==
  /\ wpc = "idle" /\ maint # "foreach"
  /\ TwoCallers \/ apc = "idle"
  /\ wpc' = "rules" /\ wk' = 1
  /\ UNCHANGED <<via, dns, exes, cls, kern, wv, apc, maint, obs, pathOf>>

SetProxies(ps) == Call /\ proxies' = ps /\ UNCHANGED rules
SetRules(rs) == Call /\ rules' = rs /\ UNCHANGED <<proxies, default, nextId>>

AddProxy(http) ==
  /\ Len(proxies) < MaxProxies /\ nextId <= MaxId
  /\ SetProxies(Append(proxies, [id |-> nextId, http |-> http]))
  /\ nextId' = nextId + 1
  /\ UNCHANGED default

EditProxy(i, http) ==
  /\ SetProxies([proxies EXCEPT ![i].http = http])
  /\ UNCHANGED <<default, nextId>>

DeleteProxy(i) ==
  /\ SetProxies(Without(proxies, i))
  /\ default' = IF default = proxies[i].id THEN 0 ELSE default
  /\ UNCHANGED nextId

ClearProxies == SetProxies(<<>>) /\ default' = 0 /\ UNCHANGED nextId

SetDefaultProxy(id) ==
  /\ Call /\ default' = id
  /\ UNCHANGED <<rules, proxies, nextId>>

AddRule(text) == Len(rules) < MaxRules /\ SetRules(Append(rules, text))

EditRule(i, text) == SetRules([rules EXCEPT ![i] = [text EXCEPT !.on = rules[i].on]])

SetEnabled(i, on) == SetRules([rules EXCEPT ![i].on = on])

DeleteRule(i) == SetRules(Without(rules, i))

\* The rule at i goes to position j and those in between shift.
MoveRule(i, j) ==
  LET rest == Without(rules, i)
  IN SetRules(SubSeq(rest, 1, j - 1) \o <<rules[i]>> \o SubSeq(rest, j, Len(rest)))

ClearRules == SetRules(<<>>)

ApiCall ==
  \/ \E http \in BOOLEAN : AddProxy(http) \/ \E i \in DOMAIN proxies : EditProxy(i, http)
  \/ \E i \in DOMAIN proxies : DeleteProxy(i)
  \/ ClearProxies
  \/ \E id \in 0 .. MaxId : SetDefaultProxy(id)
  \/ \E text \in Texts : AddRule(text) \/ \E i \in DOMAIN rules : EditRule(i, text)
  \/ \E i \in DOMAIN rules, on \in BOOLEAN : SetEnabled(i, on)
  \/ \E i \in DOMAIN rules : DeleteRule(i)
  \/ \E i, j \in DOMAIN rules : MoveRule(i, j)
  \/ ClearRules

\* ProxyBridge_SetDnsViaProxy stores the flag ...
StoreVia(on) ==
  /\ apc = "idle" /\ (TwoCallers \/ wpc = "idle")
  /\ via' = on /\ apc' = "set"
  /\ UNCHANGED <<user, dns, exes, cls, kern, wpc, wk, wv, maint, obs, pathOf>>

\* ... and then writes it to the kernel, not holding G.lock.
WriteVia ==
  /\ apc = "set"
  /\ cfg' = [cfg EXCEPT !.via = via] /\ apc' = "idle"
  /\ UNCHANGED <<user, via, dns, exes, cls, brs, classes, exe2class, hit,
                 wpc, wk, wv, maint, obs, pathOf>>

-----------------------------------------------------------------------------
(* sync_locked: pb_bpf_sync, pb_bpf_set_flags, rearm_all_locked *)

SyncRule ==
  /\ wpc = "rules" /\ wk <= Len(rules)
  /\ brs' = [brs EXCEPT ![wk] = Compile(rules[wk], proxies, default)]
  /\ wk' = wk + 1
  /\ UNCHANGED <<user, via, dns, exes, cls, classes, exe2class, hit, cfg,
                 wpc, wv, apc, maint, obs, pathOf>>

SyncRulesEnd ==
  /\ wpc = "rules" /\ wk > Len(rules)
  /\ wpc' = "scan"
  /\ UNCHANGED <<user, via, dns, exes, cls, kern, wk, wv, apc, maint, obs, pathOf>>

\* exe_add: the first path seen for a program is kept.
AddProgram(e, path) ==
  /\ \A k \in DOMAIN exes : exes[k].exe # e
  /\ Len(exes) < MaxPrograms
  /\ exes' = Append(exes, [exe |-> e, path |-> path])

\* scan_proc meets a running program it does not know.
ScanProgram(e) ==
  /\ wpc = "scan"
  /\ AddProgram(e, pathOf[e])
  /\ UNCHANGED <<user, via, dns, cls, kern, wpc, wk, wv, apc, maint, obs, pathOf>>

\* The interned classes are forgotten, but not the kernel's copies.
ScanEnd ==
  /\ wpc = "scan"
  /\ cls' = <<>> /\ wpc' = "class" /\ wk' = 1
  /\ UNCHANGED <<user, via, dns, exes, kern, wv, apc, maint, obs, pathOf>>

\* class_intern: the id of class c, and the table with c in it; no id when it is full.
InternId(c) ==
  IF c = NoRules THEN {0}
  ELSE IF \E k \in DOMAIN cls : cls[k] = c THEN {k \in DOMAIN cls : cls[k] = c}
  ELSE IF Len(cls) < MaxClasses THEN {Len(cls) + 1} ELSE {}

Interned(c) == IF Len(cls) + 1 \in InternId(c) THEN Append(cls, c) ELSE cls

Forget(f, e) == [x \in DOMAIN f \ {e} |-> f[x]]
Assign(f, e, id) == [x \in DOMAIN f \cup {e} |-> IF x = e THEN id ELSE f[x]]

\* install_exe writes the class of program wk ...
SyncClass ==
  /\ wpc = "class" /\ wk <= Len(exes)
  /\ LET c == ClassFor(rules, exes[wk].path) IN
     IF InternId(c) = {}
     THEN /\ exe2class' = Forget(exe2class, exes[wk].exe)
          /\ wk' = wk + 1
          /\ UNCHANGED <<cls, classes, wpc>>
     ELSE /\ \E id \in InternId(c) : classes' = [classes EXCEPT ![id] = c]
          /\ cls' = Interned(c)
          /\ wpc' = "map"
          /\ UNCHANGED <<exe2class, wk>>
  /\ UNCHANGED <<user, via, dns, exes, brs, hit, cfg, wv, apc, maint, obs, pathOf>>

\* ... and then points the program at it.
SyncMap ==
  /\ wpc = "map"
  /\ \E id \in InternId(ClassFor(rules, exes[wk].path)) :
       exe2class' = Assign(exe2class, exes[wk].exe, id)
  /\ wk' = wk + 1 /\ wpc' = "class"
  /\ UNCHANGED <<user, via, dns, exes, cls, brs, classes, hit, cfg,
                 wv, apc, maint, obs, pathOf>>

\* Class 0 and the two switches end pb_bpf_sync.  (No installed program is unknown, so
\* the removal of stale keys removes nothing.)
SyncFlags ==
  /\ wpc = "class" /\ wk > Len(exes)
  /\ classes' = [classes EXCEPT ![0] = NoRules]
  /\ cfg' = [cfg EXCEPT !.enabled = \E i \in DOMAIN rules : rules[i].on,
                        !.dnsTap = HasDomainRules]
  /\ wpc' = "via" /\ wk' = 1
  /\ UNCHANGED <<user, via, dns, exes, cls, brs, exe2class, hit,
                 wv, apc, maint, obs, pathOf>>

\* The arguments of pb_bpf_set_flags are read ...
SyncReadVia ==
  /\ wpc = "via"
  /\ wv' = via /\ wpc' = "flag"
  /\ UNCHANGED <<user, via, dns, exes, cls, kern, wk, apc, maint, obs, pathOf>>

\* ... and later written.
SyncWriteVia ==
  /\ wpc = "flag"
  /\ cfg' = [cfg EXCEPT !.via = wv] /\ wv' = TRUE /\ wpc' = "clear"
  /\ UNCHANGED <<user, via, dns, exes, cls, brs, classes, exe2class, hit,
                 wk, apc, maint, obs, pathOf>>

\* Mutant of SyncClear: pairs armed for the old rule positions stay.
SyncClearForgotten ==
  /\ wpc = "clear"
  /\ wpc' = "foreach"
  /\ UNCHANGED <<user, via, dns, exes, cls, kern,
                 wk, wv, apc, maint, obs, pathOf>>

\* pb_bpf_dom_clear, ...
SyncClear ==
  /\ wpc = "clear"
  /\ hit' = {} /\ wpc' = "foreach"
  /\ UNCHANGED <<user, via, dns, exes, cls, brs, classes, exe2class, cfg,
                 wk, wv, apc, maint, obs, pathOf>>

\* ... every address of T armed anew, and the write lock released.
SyncArm ==
  /\ wpc = "foreach"
  /\ hit' = IF HasDomainRules THEN hit \cup ArmAll(rules, dns) ELSE hit
  /\ wpc' = "idle"
  /\ UNCHANGED <<user, via, dns, exes, cls, brs, classes, exe2class, cfg,
                 wk, wv, apc, maint, obs, pathOf>>

Sync == \/ SyncRule \/ SyncRulesEnd \/ ScanEnd \/ SyncClass \/ SyncMap \/ SyncFlags
        \/ SyncReadVia \/ SyncWriteVia \/ SyncClear \/ SyncArm
        \/ \E e \in Programs : ScanProgram(e)

-----------------------------------------------------------------------------
(* The maintenance thread: reload_hosts_if_changed, one line of the file *)

MaintHosts(ip, names) ==
  /\ maint = "idle"
  /\ Record(ip, names)
  /\ maint' = "clear"
  /\ UNCHANGED <<user, via, exes, cls, kern, wpc, wk, wv, apc, obs, pathOf>>

\* rearm_all_locked under the read lock, held until the next step is done.
MaintClear ==
  /\ maint = "clear" /\ wpc = "idle"
  /\ hit' = {} /\ maint' = "foreach"
  /\ UNCHANGED <<user, via, dns, exes, cls, brs, classes, exe2class, cfg,
                 wpc, wk, wv, apc, obs, pathOf>>

MaintArm ==
  /\ maint = "foreach"
  /\ hit' = IF HasDomainRules THEN hit \cup ArmAll(rules, dns) ELSE hit
  /\ maint' = "idle"
  /\ UNCHANGED <<user, via, dns, exes, cls, brs, classes, exe2class, cfg,
                 wpc, wk, wv, apc, obs, pathOf>>

-----------------------------------------------------------------------------
(* The relay: pb_core_dns_observe and the slow path of pb_core_decide *)

\* An answer is recorded, without G.lock, if there is a domain rule, ...
Observe(ip, names) ==
  /\ obs = {} /\ HasDomainRules
  /\ Record(ip, names)
  /\ obs' = {[ip |-> ip, names |-> names]}
  /\ UNCHANGED <<user, via, exes, cls, kern, wpc, wk, wv, apc, maint, pathOf>>

\* ... armed under the read lock with every name the address has by then, and delivered.
ObserveArm ==
  /\ wpc = "idle"
  /\ \E a \in obs : hit' = hit \cup Armed(rules, a.ip, NamesOf(dns, a.ip))
  /\ obs' = {}
  /\ UNCHANGED <<user, via, dns, exes, cls, brs, classes, exe2class, cfg,
                 wpc, wk, wv, apc, maint, pathOf>>

\* The worker decides an earlier flow of program e, under the read lock, and learns the
\* program's class from the path its process has now.
Learn(e, path) ==
  /\ wpc = "idle"
  /\ path = pathOf[e] \/ (Execs /\ \E f \in Programs : path = pathOf[f])
  /\ AddProgram(e, path)
  /\ LET c == ClassFor(rules, path) IN
     IF InternId(c) = {}
     THEN exe2class' = Forget(exe2class, e) /\ UNCHANGED <<cls, classes>>
     ELSE /\ \E id \in InternId(c) : /\ classes' = [classes EXCEPT ![id] = c]
                                     /\ exe2class' = Assign(exe2class, e, id)
          /\ cls' = Interned(c)
  /\ UNCHANGED <<user, via, dns, brs, hit, cfg, wpc, wk, wv, apc, maint, obs, pathOf>>

\* A program file is moved (the environment).
Rename(e, path) ==
  /\ Renames
  /\ path \in Paths \ ({NoPath} \cup {pathOf[f] : f \in Programs})
  /\ pathOf' = [pathOf EXCEPT ![e] = path]
  /\ UNCHANGED <<user, via, dns, exes, cls, kern, wpc, wk, wv, apc, maint, obs>>

-----------------------------------------------------------------------------
Relay == \/ ObserveArm
         \/ \E ip \in V4s, names \in SUBSET Names : Observe(ip, names)
         \/ \E e \in Programs, path \in Paths : Learn(e, path)

Maint == \/ MaintClear \/ MaintArm
         \/ \E ip \in V4s, names \in SUBSET Names : MaintHosts(ip, names)

Next == \/ ApiCall \/ Sync \/ Maint \/ Relay \/ WriteVia
        \/ \E on \in BOOLEAN : StoreVia(on)
        \/ \E e \in Programs, path \in Paths : Rename(e, path)

Spec == Init /\ [][Next]_vars
-----------------------------------------------------------------------------
(* Properties *)

\* No call is in progress and nothing learned is still on its way to the kernel.
AtRest == wpc = "idle" /\ apc = "idle" /\ maint = "idle" /\ obs = {}

ClassOf(e) == IF e \in DOMAIN exe2class THEN {classes[exe2class[e]]} ELSE {}

\* What a hook answers now, and what the matcher answers for a process of that path.
Kernel(e, pr, d) == KernelVerdict(cfg, ClassOf(e), brs, hit, pr, d)
Matcher(path, pr, d) ==
  Reference(rules, proxies, default, via, path, pr, d, NamesOf(dns, d.ip))

\* The paths the client believes program e to have; any, while it does not know it.
BelievedPaths(e) ==
  LET ks == {k \in DOMAIN exes : exes[k].exe = e}
  IN IF ks = {} THEN Paths ELSE {exes[k].path : k \in ks}

\* Whatever the history of calls, learned programs, answers and reloads, once they are
\* over the kernel gives the matcher's verdict or defers to it: "every rule/proxy
\* mutation must take effect immediately on new connections".
Coherent ==
  AtRest => \A e \in Programs, pr \in Protos, d \in Dests :
    LET v == Kernel(e, pr, d) IN
    v = Decide \/ \A path \in BelievedPaths(e) : v = Matcher(path, pr, d)

\* The pairs in dom_hit are at rest exactly those that the present rules, at their
\* present positions, and the names known now give.
ArmedExactly == AtRest => hit = ArmAll(rules, dns)

\* No step of the table makes an address lose a name.
Remembers == \A ip \in V4s : NamesOf(dns, ip) \subseteq NamesOf(dns', ip)

\* The DNS of a program is diverted to the relay at rest exactly when a domain rule can
\* reach it: otherwise names would be missed, or unrelated programs slowed down.
TapsExactly ==
  TypeOK /\ (AtRest => \A k \in DOMAIN exes, pr \in Protos, ip \in V4s \ LocalIPs :
    LET reached == Reached(rules, exes[k].path)
        verdict == Kernel(exes[k].exe, pr, [ip |-> ip, port |-> DnsPort])
        fits    == Cardinality(reached) <= RulesPerClass /\ exes[k].exe \in DOMAIN exe2class
    IN IF \E i \in reached : rules[i].names # {} THEN verdict = Decide
       ELSE fits /\ ~via => verdict = Direct)

(* What the documentation says, each checked by a run of its own *)

\* "A rule that references a proxy that no longer exists blocks instead of leaking."
MissingProxyBlocks ==
  \A i \in DOMAIN rules : \A pr \in Protos :
    rules[i].act = "proxy" /\ rules[i].proxy # 0 /\ Find(proxies, rules[i].proxy) = {}
      => Verdict(rules[i], pr, proxies, default) = Block

\* The process field is "matched against the executable's file name and full path".
ClassifiedByItsPath ==
  AtRest => \A k \in DOMAIN exes, pr \in Protos, d \in Dests :
    Kernel(exes[k].exe, pr, d) \in {Decide, Matcher(pathOf[exes[k].exe], pr, d)}

\* "A native IPv6 flow that must be proxied fails closed (EPERM)."
NativeV6FailsClosed ==
  AtRest => \A k \in DOMAIN exes : \A d \in Dests :
    d.ip \in V6s /\ Matcher(exes[k].path, "udp", d).act = "proxy"
      => Sendmsg6(Kernel(exes[k].exe, "udp", d)) = "refused"
=============================================================================
