----------------------------- MODULE LinuxRules -----------------------------
(***************************************************************************)
(* Rules of the Linux client as data: the userspace matcher of pb_rules.c  *)
(* and ProxyBridge.c, which is the reference, and the form pb_bpf.c        *)
(* compiles them to for the hooks of bpf/proxybridge.bpf.c, which may      *)
(* answer "decide" and so defer to the matcher.                            *)
(*                                                                         *)
(* A pattern is the set of what it matches; a pattern the kernel cannot    *)
(* hold is kept apart from those it can, because the kernel treats it      *)
(* differently.  First matches are minima of sets of positions.            *)
(***************************************************************************)
EXTENDS Naturals, Sequences, FiniteSets

CONSTANTS
  Paths,          \* executable paths; one of them stands for "unknown"
  V4s, V6s,       \* IPv4 and IPv6 addresses
  LocalIPs,       \* those never redirected: loopback, multicast, link-local, 0/8
  Ports, DnsPort, \* destination ports, and port 53
  DhcpPorts,      \* 67 and 68
  Names,          \* domain names
  RulesPerClass,  \* PB_RULES_PER_CLASS
  IdWidth         \* 2^16: proxy ids are 32 bits wide, the kernel's copy is 16

ASSUME RulesAssumption ==
  /\ V4s \cap V6s = {}
  /\ DnsPort \in Ports
  /\ RulesPerClass \in Nat \ {0}
  /\ IdWidth \in Nat \ {0}

Protos == {"tcp", "udp"}
IPs    == V4s \cup V6s
Dests  == [ip : IPs, port : Ports]

\* struct pb_rule; id and the texts kept for the user are left out.
Rules == [on : BOOLEAN, act : {"proxy", "direct", "block"}, proxy : Nat,
          paths : SUBSET Paths, protos : SUBSET Protos,
          anyHost : BOOLEAN,
          v4 : SUBSET V4s,        \* the first PB_BPF_MAX_V4 plain ranges
          rest4 : SUBSET V4s,     \* octet patterns and further ranges
          v6 : SUBSET V6s,
          names : SUBSET Names,
          anyPort : BOOLEAN,
          ports : SUBSET Ports,      \* the first PB_BPF_MAX_PORT ranges
          restPorts : SUBSET Ports]  \* further ranges

\* struct pb_proxy: an HTTP proxy cannot carry UDP.
Proxies == [id : Nat \ {0}, http : BOOLEAN]

Min1(S) == CHOOSE i \in S : \A j \in S : i <= j

Direct == [act |-> "direct", proxy |-> 0]
Block  == [act |-> "block",  proxy |-> 0]
Decide == [act |-> "decide", proxy |-> 0]
Through(id) == [act |-> "proxy", proxy |-> id]

-----------------------------------------------------------------------------
(* Proxies *)

Find(ps, id) == {i \in DOMAIN ps : ps[i].id = id}

\* default_proxy_locked: the one chosen, else the first; a set of at most one proxy.
DefaultProxy(ps, default) ==
  IF default # 0 /\ Find(ps, default) # {} THEN {ps[Min1(Find(ps, default))]}
  ELSE IF ps # <<>> THEN {ps[1]} ELSE {}

\* proxy_for_rule_locked: a rule whose proxy is gone falls back to the default.
ProxyFor(r, ps, default) ==
  IF r.proxy # 0 /\ Find(ps, r.proxy) # {} THEN {ps[Min1(Find(ps, r.proxy))]}
  ELSE DefaultProxy(ps, default)

-----------------------------------------------------------------------------
(* The reference: pb_rules_eval and pb_core_decide *)

\* pb_implicit_direct, and implicit_direct in the kernel.
ImplicitDirect(d, pr, via) ==
  \/ d.ip \in LocalIPs
  \/ pr = "udp" /\ d.port \in DhcpPorts
  \/ d.port = DnsPort /\ ~via

MatchDest(r, d, names) ==
  /\ r.anyPort \/ d.port \in r.ports \cup r.restPorts
  /\ \/ r.anyHost
     \/ d.ip \in r.v4 \cup r.rest4 \cup r.v6
     \/ r.names \cap names # {}

Matches(r, path, pr, d, names) ==
  r.on /\ pr \in r.protos /\ path \in r.paths /\ MatchDest(r, d, names)

Hits(rs, path, pr, d, names) == {i \in DOMAIN rs : Matches(rs[i], path, pr, d, names)}

\* What a matching rule asks for, once its proxy is known.
Verdict(r, pr, ps, default) ==
  CASE r.act = "direct" -> Direct
    [] r.act = "block"  -> Block
    [] r.act = "proxy"  ->
         LET p == ProxyFor(r, ps, default) IN
         IF p = {} THEN Block
         ELSE LET q == CHOOSE q \in p : TRUE IN
              IF pr = "udp" /\ q.http THEN Direct ELSE Through(q.id)

\* The first enabled rule that matches decides, no rule means direct.  names are those
\* learned for the destination; only IPv4 destinations are looked up.
Reference(rs, ps, default, via, path, pr, d, names) ==
  LET known == IF d.ip \in V4s THEN names ELSE {}
      hits  == Hits(rs, path, pr, d, known)
  IN IF ImplicitDirect(d, pr, via) \/ hits = {} THEN Direct
     ELSE Verdict(rs[Min1(hits)], pr, ps, default)

-----------------------------------------------------------------------------
(* The compiled form: rebuild_views_locked, compile_rule, class_for *)

\* Mutant of Compile: octet patterns are dropped instead of flagged.
CompileDropsRest(r, ps, default) ==
  LET p == ProxyFor(r, ps, default)
      q == CHOOSE q \in p : TRUE
      act == IF r.act = "proxy" /\ p = {} THEN "block" ELSE r.act
      id == q.id % IdWidth
  IN [act |-> act,
      proxy |-> IF act = "proxy" THEN id ELSE 0,
      udpDirect |-> act = "proxy" /\ q.http,
      protos |-> r.protos,
      anyPort |-> r.anyPort, ports |-> r.ports, portComplex |-> r.restPorts # {},
      anyHost |-> r.anyHost, v4 |-> r.v4,
      hostComplex |-> FALSE,
      hasV6 |-> r.v6 # {}, domains |-> r.names # {}]

\* struct pb_brule.  Flags replace what does not fit.
Compile(r, ps, default) ==
  LET p == ProxyFor(r, ps, default)
      q == CHOOSE q \in p : TRUE
      act == IF r.act = "proxy" /\ p = {} THEN "block" ELSE r.act
      id == q.id % IdWidth
  IN [act |-> act,
      proxy |-> IF act = "proxy" THEN id ELSE 0,
      udpDirect |-> act = "proxy" /\ q.http,
      protos |-> r.protos,
      anyPort |-> r.anyPort, ports |-> r.ports, portComplex |-> r.restPorts # {},
      anyHost |-> r.anyHost, v4 |-> r.v4,
      hostComplex |-> ~r.anyHost /\ r.rest4 # {},
      hasV6 |-> ~r.anyHost /\ r.v6 # {}, domains |-> ~r.anyHost /\ r.names # {}]

BRules == [act : {"proxy", "direct", "block"}, proxy : Nat, udpDirect : BOOLEAN,
           protos : SUBSET Protos, anyPort : BOOLEAN, ports : SUBSET Ports,
           portComplex : BOOLEAN, anyHost : BOOLEAN, v4 : SUBSET V4s,
           hostComplex : BOOLEAN, hasV6 : BOOLEAN, domains : BOOLEAN]

\* An array element the kernel has zeroed: no protocol, so it matches nothing.
NoBRule == [act |-> "proxy", proxy |-> 0, udpDirect |-> FALSE, protos |-> {},
            anyPort |-> FALSE, ports |-> {}, portComplex |-> FALSE,
            anyHost |-> FALSE, v4 |-> {}, hostComplex |-> FALSE,
            hasV6 |-> FALSE, domains |-> FALSE]

\* is_catchall: what follows such a rule is never reached.
CatchAll(r) == r.anyHost /\ r.anyPort /\ r.protos = Protos

\* struct pb_bclass: the positions of the rules that can apply to a program, in order.
Classes == [decide : BOOLEAN, tap : BOOLEAN, rules : SUBSET Nat]
NoRules == [decide |-> FALSE, tap |-> FALSE, rules |-> {}]    \* class 0

Applies(rs, path) == {i \in DOMAIN rs : rs[i].on /\ path \in rs[i].paths}

Reached(rs, path) ==
  {i \in Applies(rs, path) : ~\E j \in Applies(rs, path) : j < i /\ CatchAll(rs[j])}

\* Mutant of ClassFor: a program with too many rules keeps only the fast path's share.
ClassForTruncates(rs, path) ==
  LET reached == Reached(rs, path)
      kept == {i \in reached : Cardinality({j \in reached : j < i}) < RulesPerClass}
  IN [decide |-> FALSE, tap |-> \E i \in reached : rs[i].names # {}, rules |-> kept]

\* Mutant of ClassFor: the DNS of programs under a domain rule is not tapped.
ClassForNoTap(rs, path) ==
  LET reached == Reached(rs, path) IN
  IF Cardinality(reached) > RulesPerClass
  THEN [decide |-> TRUE, tap |-> TRUE, rules |-> {}]
  ELSE [decide |-> FALSE, tap |-> FALSE, rules |-> reached]

ClassFor(rs, path) ==
  LET reached == Reached(rs, path) IN
  IF Cardinality(reached) > RulesPerClass
  THEN [decide |-> TRUE, tap |-> TRUE, rules |-> {}]
  ELSE [decide |-> FALSE, tap |-> \E i \in reached : rs[i].names # {}, rules |-> reached]

\* arm_ip_locked: the rules whose domain patterns match one of an address's names.
Armed(rs, ip, names) ==
  {<<i, ip>> : i \in {j \in DOMAIN rs : rs[j].on /\ rs[j].names \cap names # {}}}

-----------------------------------------------------------------------------
(* The kernel: rule_match and decide *)

\* "no", "yes", or "maybe" when only userspace can tell.
PortMatch(b, d) ==
  IF b.anyPort \/ d.port \in b.ports THEN "yes"
  ELSE IF b.portComplex THEN "maybe" ELSE "no"

HostMatch(b, i, d, hit) ==
  CASE b.anyHost -> "yes"
    [] ~b.anyHost /\ b.hostComplex -> "maybe"
    [] ~b.anyHost /\ ~b.hostComplex /\ d.ip \in V6s -> IF b.hasV6 THEN "maybe" ELSE "no"
    [] OTHER -> IF d.ip \in b.v4 \/ (b.domains /\ <<i, d.ip>> \in hit) THEN "yes" ELSE "no"

RuleMatch(b, i, d, hit) ==
  LET port == PortMatch(b, d)
      host == HostMatch(b, i, d, hit)
  IN IF "no" \in {port, host} THEN "no"
     ELSE IF "maybe" \in {port, host} THEN "maybe" ELSE "yes"

\* The loop over a class: the first rule that does not miss decides.
FastPath(c, brs, hit, pr, d) ==
  LET hits == {i \in c.rules : pr \in brs[i].protos /\ RuleMatch(brs[i], i, d, hit) # "no"}
      i    == Min1(hits)
  IN IF hits = {} THEN Direct
     ELSE IF RuleMatch(brs[i], i, d, hit) = "maybe" THEN Decide
     ELSE IF brs[i].act # "proxy" THEN [act |-> brs[i].act, proxy |-> 0]
     ELSE IF pr = "udp" /\ brs[i].udpDirect THEN Direct ELSE Through(brs[i].proxy)

\* decide for a process that is neither the relay's own nor exempt.  class is the set
\* of the program's class, empty when the kernel does not know the program.
KernelVerdict(cfg, class, brs, hit, pr, d) ==
  LET tap == d.port = DnsPort /\ cfg.dnsTap
      implicit == ImplicitDirect(d, pr, cfg.via)
      c == CHOOSE c \in class : TRUE
  IN IF ~cfg.enabled \/ (~tap /\ implicit) THEN Direct
     ELSE IF class = {} \/ c.decide \/ (tap /\ c.tap) THEN Decide
     ELSE IF implicit THEN Direct
     ELSE FastPath(c, brs, hit, pr, d)

\* What the unconnected IPv6 hook makes of the verdict: the datagram may not be
\* rewritten, so it is refused or let through as it is.
Sendmsg6(v) == IF v.act \in {"block", "proxy"} THEN "refused" ELSE "unchanged"
=============================================================================
