------------------------ MODULE LinuxDatapathProofs ------------------------
(***************************************************************************)
(* That the kernel's copy of the rules follows the client's, for any rules *)
(* and programs and any history of API calls, answers, reloads and         *)
(* learned programs; and, first, that the compiled form of the rules is    *)
(* faithful: for every rule list, proxy list and destination the kernel's  *)
(* answer is the matcher's or "decide".                                    *)
(***************************************************************************)
EXTENDS LinuxDatapath, FiniteSetTheorems, SequenceTheorems, WellFoundedInduction, TLAPS

-----------------------------------------------------------------------------
(* The compiled rules *)

\* A nonempty set of positions has a least one, and Min1 is it.
LEMMA Min1Least ==
  ASSUME NEW S \in SUBSET Nat, S # {}
  PROVE  Min1(S) \in S /\ \A j \in S : Min1(S) <= j
<1>1. IsWellFoundedOn(OpToRel(<, Nat), Nat)
  BY NatLessThanWellFounded
<1>2. PICK i \in S : \A j \in S : ~(<<j, i>> \in OpToRel(<, Nat))
  BY <1>1, WFMin
<1>3. ASSUME NEW j \in S
      PROVE  i <= j
  <2>1. <<j, i>> \notin {ss \in Nat \X Nat : ss[1] < ss[2]}
    BY <1>2 DEF OpToRel
  <2>2. i \in Nat /\ j \in Nat /\ <<j, i>> \in Nat \X Nat
    OBVIOUS
  <2>3. ~(j < i)
    BY <2>1, <2>2
  <2> QED
    BY <2>2, <2>3
<1> QED
  BY <1>2, <1>3 DEF Min1

\* The proxy of a rule is one of the list, or there is none.
LEMMA ProxyForOne ==
  ASSUME NEW r \in Rules, NEW ps \in Seq(Proxies), NEW dflt \in Nat
  PROVE  \/ ProxyFor(r, ps, dflt) = {}
         \/ \E k \in DOMAIN ps : ProxyFor(r, ps, dflt) = {ps[k]}
<1>1. \A id : Find(ps, id) \subseteq DOMAIN ps /\ Find(ps, id) \in SUBSET Nat
  BY DEF Find
<1>2. \A id : Find(ps, id) # {} => Min1(Find(ps, id)) \in DOMAIN ps
  BY <1>1, Min1Least
<1>3. ps # <<>> => 1 \in DOMAIN ps
  OBVIOUS
<1> QED
  BY <1>2, <1>3 DEF ProxyFor, DefaultProxy

\* What the kernel says of one rule: "yes" only if the rule matches, "no" only if not.
LEMMA RuleMatchSound ==
  ASSUME NEW r \in Rules, NEW ps, NEW dflt, NEW d \in Dests, NEW i, NEW arm,
         NEW names \in SUBSET Names,
         d.ip \in V4s => (<<i, d.ip>> \in arm <=> r.names \cap names # {})
  PROVE  LET b == Compile(r, ps, dflt)
             known == IF d.ip \in V4s THEN names ELSE {}
         IN /\ RuleMatch(b, i, d, arm) = "yes" => MatchDest(r, d, known)
            /\ RuleMatch(b, i, d, arm) = "no" => ~MatchDest(r, d, known)
            /\ RuleMatch(b, i, d, arm) \in {"yes", "no", "maybe"}
<1> DEFINE b == Compile(r, ps, dflt)
           known == IF d.ip \in V4s THEN names ELSE {}
           portOK == r.anyPort \/ d.port \in r.ports \cup r.restPorts
           hostOK == \/ r.anyHost
                     \/ d.ip \in r.v4 \cup r.rest4 \cup r.v6
                     \/ r.names \cap known # {}
<1>1. /\ PortMatch(b, d) = "yes" => portOK
      /\ PortMatch(b, d) = "no" => ~portOK
      /\ PortMatch(b, d) \in {"yes", "no", "maybe"}
  BY DEF PortMatch, Compile
<1>2. d.ip \in V4s \cup V6s /\ V4s \cap V6s = {}
  BY RulesAssumption DEF Dests, IPs
<1>3. r.v4 \subseteq V4s /\ r.rest4 \subseteq V4s /\ r.v6 \subseteq V6s
  BY DEF Rules
<1>4. /\ b.anyHost = r.anyHost /\ b.v4 = r.v4
      /\ b.hostComplex = (~r.anyHost /\ r.rest4 # {})
      /\ b.hasV6 = (~r.anyHost /\ r.v6 # {})
      /\ b.domains = (~r.anyHost /\ r.names # {})
  BY DEF Compile
<1>5. /\ HostMatch(b, i, d, arm) = "yes" => hostOK
      /\ HostMatch(b, i, d, arm) = "no" => ~hostOK
      /\ HostMatch(b, i, d, arm) \in {"yes", "no", "maybe"}
  <2> HIDE DEF b
  <2>1. CASE r.anyHost
    BY <1>4, <2>1 DEF HostMatch
  <2>2. CASE ~r.anyHost /\ r.rest4 # {}
    BY <1>4, <2>2 DEF HostMatch
  <2>3. CASE ~r.anyHost /\ r.rest4 = {} /\ d.ip \in V6s
    BY <1>2, <1>3, <1>4, <2>3 DEF HostMatch
  <2>4. CASE ~r.anyHost /\ r.rest4 = {} /\ d.ip \in V4s
    BY <1>2, <1>3, <1>4, <2>4 DEF HostMatch
  <2> QED
    BY <1>2, <2>1, <2>2, <2>3, <2>4
<1> QED
  BY <1>1, <1>5 DEF RuleMatch, MatchDest

\* A rule's action and proxy survive compilation when proxy ids fit the kernel's field.
LEMMA CompiledVerdict ==
  ASSUME NEW r \in Rules, NEW ps \in Seq(Proxies), NEW dflt \in Nat, NEW pr \in Protos,
         \A k \in DOMAIN ps : ps[k].id < IdWidth
  PROVE  LET b == Compile(r, ps, dflt)
         IN Verdict(r, pr, ps, dflt)
              = IF b.act # "proxy" THEN [act |-> b.act, proxy |-> 0]
                ELSE IF pr = "udp" /\ b.udpDirect THEN Direct ELSE Through(b.proxy)
<1> DEFINE p == ProxyFor(r, ps, dflt)
           q == CHOOSE x \in p : TRUE
           b == Compile(r, ps, dflt)
<1> SUFFICES Verdict(r, pr, ps, dflt)
               = IF b.act # "proxy" THEN [act |-> b.act, proxy |-> 0]
                 ELSE IF pr = "udp" /\ b.udpDirect THEN Direct ELSE Through(b.proxy)
  OBVIOUS
<1>1. b.act = IF r.act = "proxy" /\ p = {} THEN "block" ELSE r.act
  BY DEF Compile
<1>2. r.act \in {"proxy", "direct", "block"}
  BY DEF Rules
<1>3. p # {} => q.id % IdWidth = q.id /\ q.http \in BOOLEAN
  <2> SUFFICES ASSUME p # {} PROVE q.id % IdWidth = q.id /\ q.http \in BOOLEAN
    OBVIOUS
  <2>1. PICK k \in DOMAIN ps : p = {ps[k]}
    BY ProxyForOne
  <2>2. q = ps[k] /\ ps[k] \in Proxies
    BY <2>1
  <2>3. q.id \in Nat /\ q.id < IdWidth /\ IdWidth \in Nat \ {0} /\ q.http \in BOOLEAN
    BY <2>2, RulesAssumption DEF Proxies
  <2> HIDE DEF q
  <2> QED
    BY <2>3, SMTT(30)
<1>4. b.proxy = (IF b.act = "proxy" THEN q.id % IdWidth ELSE 0)
      /\ b.udpDirect = (b.act = "proxy" /\ q.http)
  BY DEF Compile
<1>5. Verdict(r, pr, ps, dflt)
        = CASE r.act = "direct" -> Direct
            [] r.act = "block"  -> Block
            [] r.act = "proxy"  -> IF p = {} THEN Block
                                   ELSE IF pr = "udp" /\ q.http THEN Direct ELSE Through(q.id)
  BY DEF Verdict
<1> HIDE DEF p, q, b
<1>6. CASE r.act = "direct"
  BY <1>1, <1>5, <1>6 DEF Direct
<1>7. CASE r.act = "block"
  BY <1>1, <1>5, <1>7 DEF Block
<1>8. CASE r.act = "proxy" /\ p = {}
  BY <1>1, <1>5, <1>8 DEF Block
<1>9. CASE r.act = "proxy" /\ p # {}
  BY <1>1, <1>3, <1>4, <1>5, <1>9
<1> QED
  BY <1>2, <1>6, <1>7, <1>8, <1>9

\* The first match of the matcher is always among the rules a class keeps.
LEMMA FirstMatchReached ==
  ASSUME NEW rs \in Seq(Rules), NEW path, NEW pr \in Protos, NEW d \in Dests,
         NEW known, Hits(rs, path, pr, d, known) # {}
  PROVE  /\ Min1(Hits(rs, path, pr, d, known)) \in Hits(rs, path, pr, d, known)
         /\ Min1(Hits(rs, path, pr, d, known)) \in Reached(rs, path)
         /\ \A j \in Hits(rs, path, pr, d, known) : Min1(Hits(rs, path, pr, d, known)) <= j
<1> DEFINE H == Hits(rs, path, pr, d, known)
<1>0. H = {i \in DOMAIN rs : Matches(rs[i], path, pr, d, known)} /\ H # {}
  BY DEF Hits
<1> HIDE DEF H
<1>1. H \in SUBSET Nat
  BY <1>0
<1>2. Min1(H) \in H /\ \A j \in H : Min1(H) <= j
  BY <1>0, <1>1, Min1Least
<1>3. Min1(H) \in Applies(rs, path)
  BY <1>0, <1>2 DEF Applies, Matches
<1>4. ASSUME NEW j \in Applies(rs, path), j < Min1(H), CatchAll(rs[j])
      PROVE  FALSE
  <2>1. j \in H
    BY <1>0, <1>4 DEF Applies, CatchAll, Matches, MatchDest
  <2>2. j \in Nat /\ Min1(H) \in Nat /\ Min1(H) <= j
    BY <1>1, <1>2, <2>1
  <2> QED
    BY <1>4, <2>2
<1> QED
  BY <1>2, <1>3, <1>4 DEF Reached, H

\* The fast path over an exact class gives the matcher's verdict or defers.
LEMMA FastPathAgrees ==
  ASSUME NEW rs \in Seq(Rules), NEW ps \in Seq(Proxies), NEW dflt \in Nat,
         NEW dv \in BOOLEAN, NEW path, NEW pr \in Protos, NEW d \in Dests,
         NEW names \in SUBSET Names, NEW cbs, NEW arm, NEW c,
         \A k \in DOMAIN ps : ps[k].id < IdWidth,
         \A i \in DOMAIN rs : cbs[i] = Compile(rs[i], ps, dflt),
         d.ip \in V4s => \A i \in DOMAIN rs :
           <<i, d.ip>> \in arm <=> rs[i].on /\ rs[i].names \cap names # {},
         c.rules = Reached(rs, path),
         ~ImplicitDirect(d, pr, dv)
  PROVE  FastPath(c, cbs, arm, pr, d)
           \in {Decide, Reference(rs, ps, dflt, dv, path, pr, d, names)}
<1> DEFINE known == IF d.ip \in V4s THEN names ELSE {}
           H == Hits(rs, path, pr, d, known)
           S == {i \in c.rules : pr \in cbs[i].protos /\ RuleMatch(cbs[i], i, d, arm) # "no"}
           answer == Reference(rs, ps, dflt, dv, path, pr, d, names)
           m(i) == RuleMatch(cbs[i], i, d, arm)
<1>1. ASSUME NEW i \in c.rules
      PROVE  /\ i \in DOMAIN rs /\ rs[i] \in Rules /\ rs[i].on /\ path \in rs[i].paths
             /\ cbs[i].protos = rs[i].protos
             /\ m(i) = "yes" => MatchDest(rs[i], d, known)
             /\ m(i) = "no" => ~MatchDest(rs[i], d, known)
             /\ m(i) \in {"yes", "no", "maybe"}
  <2>1. i \in DOMAIN rs /\ rs[i] \in Rules /\ rs[i].on /\ path \in rs[i].paths
    BY <1>1 DEF Reached, Applies
  <2>2. cbs[i] = Compile(rs[i], ps, dflt)
    BY <2>1
  <2>3. cbs[i].protos = rs[i].protos
    BY <2>2 DEF Compile
  <2>4. d.ip \in V4s => (<<i, d.ip>> \in arm <=> rs[i].names \cap names # {})
    BY <2>1
  <2> QED
    BY <2>1, <2>2, <2>3, <2>4, RuleMatchSound
<1>2. answer = IF H = {} THEN Direct ELSE Verdict(rs[Min1(H)], pr, ps, dflt)
  BY DEF Reference
<1>3. c.rules \subseteq DOMAIN rs /\ S \in SUBSET Nat
  BY <1>1
<1>4. \A i \in H \cap c.rules : i \in S
  <2> SUFFICES ASSUME NEW i \in H \cap c.rules PROVE i \in S
    OBVIOUS
  <2>1. pr \in rs[i].protos /\ MatchDest(rs[i], d, known)
    BY DEF Hits, Matches
  <2> QED
    BY <1>1, <2>1
<1>5. H # {} => /\ Min1(H) \in H \cap c.rules
                /\ \A j \in H : Min1(H) <= j
  BY FirstMatchReached
<1>6. CASE S = {}
  <2>1. H = {}
    BY <1>4, <1>5, <1>6
  <2>2. FastPath(c, cbs, arm, pr, d) = Direct
    BY <1>6 DEF FastPath
  <2> QED
    BY <1>2, <2>1, <2>2
<1>7. CASE S # {}
  <2> DEFINE i == Min1(S)
  <2>1. i \in S /\ \A j \in S : i <= j
    BY <1>3, <1>7, Min1Least
  <2>2. FastPath(c, cbs, arm, pr, d)
          = IF m(i) = "maybe" THEN Decide
            ELSE IF cbs[i].act # "proxy" THEN [act |-> cbs[i].act, proxy |-> 0]
            ELSE IF pr = "udp" /\ cbs[i].udpDirect THEN Direct ELSE Through(cbs[i].proxy)
    BY <1>7 DEF FastPath
  <2> HIDE DEF i
  <2>3. CASE m(i) = "maybe"
    BY <2>2, <2>3
  <2>4. CASE m(i) # "maybe"
    <3>1. i \in c.rules /\ pr \in cbs[i].protos /\ m(i) = "yes"
      BY <1>1, <2>1, <2>4
    <3>2. i \in H
      BY <1>1, <3>1 DEF Hits, Matches
    <3>3. Min1(H) \in S /\ Min1(H) <= i
      BY <1>4, <1>5, <3>2
    <3>4. i = Min1(H)
      BY <1>3, <2>1, <3>3
    <3>5. answer = Verdict(rs[i], pr, ps, dflt)
      BY <1>2, <3>2, <3>4
    <3>6. rs[i] \in Rules /\ cbs[i] = Compile(rs[i], ps, dflt)
      BY <1>1, <3>1
    <3>7. Verdict(rs[i], pr, ps, dflt)
            = IF cbs[i].act # "proxy" THEN [act |-> cbs[i].act, proxy |-> 0]
              ELSE IF pr = "udp" /\ cbs[i].udpDirect THEN Direct ELSE Through(cbs[i].proxy)
      BY <3>6, CompiledVerdict
    <3> QED
      BY <2>2, <2>4, <3>5, <3>7
  <2> QED
    BY <2>3, <2>4
<1> QED
  BY <1>6, <1>7

\* The kernel never contradicts the matcher: when its copy of the rules, of dom_hit, of
\* the switches and of the program's class is that of the present rules (whatever the DNS
\* tap, and whether or not the program is known), its answer is the verdict of
\* pb_core_decide or "decide".  This is what a synchronisation at rest relies on.
THEOREM CompiledRulesAgree ==
  ASSUME NEW rs \in Seq(Rules), NEW ps \in Seq(Proxies), NEW dflt \in Nat,
         NEW dv \in BOOLEAN, NEW path, NEW pr \in Protos, NEW d \in Dests,
         NEW names \in SUBSET Names, NEW cbs, NEW arm, NEW class,
         NEW sw \in [enabled : BOOLEAN, dnsTap : BOOLEAN, via : BOOLEAN],
         \A k \in DOMAIN ps : ps[k].id < IdWidth,
         \A i \in DOMAIN rs : cbs[i] = Compile(rs[i], ps, dflt),
         d.ip \in V4s => \A i \in DOMAIN rs :
           <<i, d.ip>> \in arm <=> rs[i].on /\ rs[i].names \cap names # {},
         sw.enabled = (\E i \in DOMAIN rs : rs[i].on),
         sw.via = dv,
         class \in {{}, {ClassFor(rs, path)}}
  PROVE  KernelVerdict(sw, class, cbs, arm, pr, d)
           \in {Decide, Reference(rs, ps, dflt, dv, path, pr, d, names)}
<1> DEFINE answer == Reference(rs, ps, dflt, dv, path, pr, d, names)
           verdict == KernelVerdict(sw, class, cbs, arm, pr, d)
           tap == d.port = DnsPort /\ sw.dnsTap
           implicit == ImplicitDirect(d, pr, dv)
           c == CHOOSE x \in class : TRUE
<1>1. verdict = IF ~sw.enabled \/ (~tap /\ implicit) THEN Direct
                ELSE IF class = {} \/ c.decide \/ (tap /\ c.tap) THEN Decide
                ELSE IF implicit THEN Direct
                ELSE FastPath(c, cbs, arm, pr, d)
  BY DEF KernelVerdict
<1>2. implicit => answer = Direct
  BY DEF Reference
<1>3. ~sw.enabled => answer = Direct
  BY DEF Reference, Hits, Matches
<1>4. class # {} /\ ~c.decide => c.rules = Reached(rs, path)
  <2> SUFFICES ASSUME class # {}, ~c.decide PROVE c.rules = Reached(rs, path)
    OBVIOUS
  <2>1. c = ClassFor(rs, path)
    OBVIOUS
  <2> QED
    BY <2>1 DEF ClassFor
<1>5. class # {} /\ ~c.decide /\ ~implicit => FastPath(c, cbs, arm, pr, d) \in {Decide, answer}
  BY <1>4, FastPathAgrees
<1> HIDE DEF answer, verdict, tap, implicit, c
<1>6. verdict \in {Decide, answer}
  BY <1>1, <1>2, <1>3, <1>5
<1> QED
  BY <1>6 DEF answer, verdict

-----------------------------------------------------------------------------
(* The inductive invariant *)

\* A table holds an address once.
Distinct(t) == \A j, k \in DOMAIN t : t[j].ip = t[k].ip => j = k

\* The types; positions start at 1, one answer is on its way at a time, the table has an
\* address once, and the programs the kernel knows are known here.
Shape ==
  /\ TypeOK
  /\ wk # 0
  /\ \A a, b \in obs : a = b
  /\ Distinct(dns)
  /\ \A k \in DOMAIN dns : dns[k].ip \notin Unlearned
  /\ \A a \in obs : a.ip \notin Unlearned
  /\ \A e \in DOMAIN exe2class : \E k \in DOMAIN exes : exes[k].exe = e

\* Ids stay below the bound on those given out.
Ids ==
  /\ nextId <= MaxId + 1
  /\ \A k \in DOMAIN proxies : proxies[k].id < nextId

\* The kernel's rules are those compiled from the present ones, up to the writer's position.
RulesWritten ==
  \A i \in DOMAIN rules :
    wpc # "rules" \/ i < wk => brs[i] = Compile(rules[i], proxies, default)

\* What has been interned is in the kernel, and class 0 is empty.
Installed(K, C) == (\A k \in DOMAIN C : K[k] = C[k]) /\ K[0] = NoRules
ClassesWritten  == Installed(classes, cls)

\* The program at k is unknown to the kernel or has the class of the present rules.
Placed(k) ==
  exes[k].exe \in DOMAIN exe2class =>
    /\ exe2class[exes[k].exe] \in 0 .. Len(cls)
    /\ classes[exe2class[exes[k].exe]] = ClassFor(rules, exes[k].path)

Settled == {"via", "flag", "clear", "foreach", "idle"}

ProgramsPlaced ==
  /\ \A k \in DOMAIN exes :
       wpc \in Settled \/ (wpc \in {"class", "map"} /\ k < wk) => Placed(k)
  /\ wpc = "map" => /\ wk <= Len(exes)
                    /\ InternId(ClassFor(rules, exes[wk].path)) \cap (0 .. Len(cls)) # {}

\* The two switches of pb_bpf_sync, and the flag of SetDnsViaProxy: one caller leaves
\* no writer behind.
SwitchesWritten ==
  /\ wpc \in Settled => /\ cfg.enabled = (\E i \in DOMAIN rules : rules[i].on)
                        /\ cfg.dnsTap = HasDomainRules
  /\ apc = "set" => wpc = "idle"
  /\ apc = "idle" => cfg.via = via
  /\ wpc = "flag" => wv = via

\* dom_hit holds no pair that the present rules and names do not give, and misses only
\* what is being armed.
PairsWritten ==
  /\ wpc = "idle" => hit \subseteq ArmAll(rules, dns)
  /\ wpc = "foreach" => hit = {}
  /\ maint = "foreach" => wpc = "idle"
  /\ wpc = "idle" /\ maint = "idle" =>
       \A x \in ArmAll(rules, dns) : x \in hit \/ \E a \in obs : a.ip = x[2]

\* What holds of every writer's work, without any assumption on callers or sizes.
Written == RulesWritten /\ ClassesWritten /\ ProgramsPlaced

IInv == Shape /\ Ids /\ Written

-----------------------------------------------------------------------------
(* Sequences *)

\* A sequence without its element at i.
LEMMA WithoutOne ==
  ASSUME NEW S, NEW s \in Seq(S), NEW i \in 1 .. Len(s)
  PROVE  /\ Without(s, i) \in Seq(S)
         /\ Len(Without(s, i)) = Len(s) - 1
         /\ \A j \in 1 .. Len(s) - 1 : Without(s, i)[j] = IF j < i THEN s[j] ELSE s[j + 1]
<1>1. /\ SubSeq(s, 1, i - 1) \in Seq(S) /\ Len(SubSeq(s, 1, i - 1)) = i - 1
      /\ \A j \in 1 .. i - 1 : SubSeq(s, 1, i - 1)[j] = s[j]
  BY SubSeqProperties
<1>2. /\ SubSeq(s, i + 1, Len(s)) \in Seq(S) /\ Len(SubSeq(s, i + 1, Len(s))) = Len(s) - i
      /\ \A j \in 1 .. Len(s) - i : SubSeq(s, i + 1, Len(s))[j] = s[i + j]
  BY SubSeqProperties
<1>3. PICK a : a = SubSeq(s, 1, i - 1)
  OBVIOUS
<1>4. PICK b : b = SubSeq(s, i + 1, Len(s))
  OBVIOUS
<1>5. Without(s, i) = a \o b
  BY <1>3, <1>4 DEF Without
<1>n. Len(s) \in Nat /\ i \in Nat /\ i >= 1 /\ i <= Len(s)
  OBVIOUS
<1>a. a \in Seq(S) /\ Len(a) = i - 1
  BY <1>1, <1>3
<1>b. b \in Seq(S) /\ Len(b) = Len(s) - i
  BY <1>2, <1>4
<1>c. /\ a \o b \in Seq(S) /\ Len(a \o b) = Len(a) + Len(b)
      /\ \A j \in 1 .. Len(a) + Len(b) :
           (a \o b)[j] = IF j <= Len(a) THEN a[j] ELSE b[j - Len(a)]
  BY <1>a, <1>b, ConcatProperties
<1>6. /\ a \o b \in Seq(S) /\ Len(a \o b) = Len(s) - 1
      /\ \A j \in 1 .. Len(s) - 1 :
           (a \o b)[j] = IF j <= i - 1 THEN a[j] ELSE b[j - (i - 1)]
  <2>1. Len(a) + Len(b) = Len(s) - 1
    BY <1>a, <1>b, <1>n
  <2> QED BY <2>1, <1>a, <1>c
<1>7. ASSUME NEW j \in 1 .. Len(s) - 1
      PROVE  (a \o b)[j] = IF j < i THEN s[j] ELSE s[j + 1]
  <2>1. CASE j < i
    <3>1. j \in 1 .. i - 1 /\ a[j] = s[j]
      BY <2>1, <1>1, <1>3
    <3>2. j <= i - 1
      BY <3>1, <1>n
    <3> QED BY <2>1, <3>1, <3>2, <1>6
  <2>2. CASE ~(j < i)
    <3>1. j - (i - 1) \in 1 .. Len(s) - i /\ i + (j - (i - 1)) = j + 1
      BY <2>2
    <3>2. b[j - (i - 1)] = s[j + 1]
      BY <3>1, <1>2, <1>4
    <3>3. ~(j <= i - 1)
      BY <2>2, <1>n
    <3> QED BY <2>2, <3>2, <3>3, <1>6
  <2> QED BY <2>1, <2>2
<1> QED BY <1>5, <1>6, <1>7

\* Putting an element between two parts of a sequence.
LEMMA Moved ==
  ASSUME NEW S, NEW s \in Seq(S), NEW i \in 1 .. Len(s), NEW j \in 1 .. Len(s)
  PROVE  LET rest == Without(s, i)
             new  == SubSeq(rest, 1, j - 1) \o <<s[i]>> \o SubSeq(rest, j, Len(rest))
         IN new \in Seq(S) /\ Len(new) = Len(s)
<1>1. PICK r : r = Without(s, i)
  OBVIOUS
<1>2. r \in Seq(S) /\ Len(r) = Len(s) - 1
  BY <1>1, WithoutOne
<1>3. PICK a : a = SubSeq(r, 1, j - 1)
  OBVIOUS
<1>4. PICK b : b = SubSeq(r, j, Len(r))
  OBVIOUS
<1>5. a \in Seq(S) /\ Len(a) = j - 1
  BY <1>2, <1>3, SubSeqProperties
<1>6. b \in Seq(S) /\ Len(b) = Len(s) - j
  BY <1>2, <1>4, SubSeqProperties
<1>7. <<s[i]>> \in Seq(S) /\ Len(<<s[i]>>) = 1
  OBVIOUS
<1>8. a \o <<s[i]>> \o b \in Seq(S) /\ Len(a \o <<s[i]>> \o b) = Len(s)
  BY <1>5, <1>6, <1>7
<1> QED BY <1>1, <1>3, <1>4, <1>8

-----------------------------------------------------------------------------
(* Rules and classes *)

\* The compiled form fits the kernel's structure.
LEMMA CompileTyped ==
  ASSUME NEW r \in Rules, NEW ps \in Seq(Proxies), NEW def \in Nat
  PROVE  Compile(r, ps, def) \in BRules
<1>1. PICK p : p = ProxyFor(r, ps, def)
  OBVIOUS
<1>2. PICK q : q = CHOOSE x \in p : TRUE
  OBVIOUS
<1>3. p = {} \/ q \in Proxies
  <2>1. p = {} \/ \E k \in DOMAIN ps : p = {ps[k]}
    BY <1>1, ProxyForOne
  <2> QED BY <2>1, <1>2
<1>4. PICK act : act = IF r.act = "proxy" /\ p = {} THEN "block" ELSE r.act
  OBVIOUS
<1>5. act \in {"proxy", "direct", "block"} /\ (act = "proxy" => p # {})
  BY <1>4 DEF Rules
<1>6. act = "proxy" => q.id % IdWidth \in Nat /\ q.http \in BOOLEAN
  BY <1>3, <1>5, RulesAssumption DEF Proxies
<1>7. Compile(r, ps, def)
        = [act |-> act,
           proxy |-> IF act = "proxy" THEN q.id % IdWidth ELSE 0,
           udpDirect |-> act = "proxy" /\ q.http,
           protos |-> r.protos,
           anyPort |-> r.anyPort, ports |-> r.ports, portComplex |-> r.restPorts # {},
           anyHost |-> r.anyHost, v4 |-> r.v4,
           hostComplex |-> ~r.anyHost /\ r.rest4 # {},
           hasV6 |-> ~r.anyHost /\ r.v6 # {}, domains |-> ~r.anyHost /\ r.names # {}]
  BY <1>1, <1>2, <1>4 DEF Compile
<1>8. (IF act = "proxy" THEN q.id % IdWidth ELSE 0) \in Nat
  BY <1>6
<1>9. (act = "proxy" /\ q.http) \in BOOLEAN
  OBVIOUS
<1> QED BY <1>5, <1>7, <1>8, <1>9 DEF BRules, Rules

\* A class names positions.
LEMMA ClassTyped ==
  ASSUME NEW rs \in Seq(Rules), NEW path
  PROVE  ClassFor(rs, path) \in Classes
<1>1. Reached(rs, path) \in SUBSET Nat
  BY DEF Reached, Applies
<1> QED BY <1>1 DEF ClassFor, Classes

\* Arming an address gives pairs of that address, at positions of rules.
LEMMA ArmedTyped ==
  ASSUME NEW rs \in Seq(Rules), NEW ip \in V4s, NEW names, Len(rs) <= MaxRules
  PROVE  Armed(rs, ip, names) \subseteq (1 .. MaxRules) \X V4s
BY DatapathAssumption DEF Armed

LEMMA ArmAllTyped ==
  ASSUME NEW rs \in Seq(Rules), NEW t \in Seq(Entries), Len(rs) <= MaxRules
  PROVE  ArmAll(rs, t) \subseteq (1 .. MaxRules) \X V4s
<1> SUFFICES ASSUME NEW k \in DOMAIN t
             PROVE  Armed(rs, t[k].ip, t[k].names) \subseteq (1 .. MaxRules) \X V4s
  BY DEF ArmAll
<1>1. t[k] \in Entries
  OBVIOUS
<1>2. t[k].ip \in V4s
  BY <1>1 DEF Entries
<1> QED BY <1>2, ArmedTyped

-----------------------------------------------------------------------------
(* The table of pb_dns.c *)

\* The table without the entry of one address.
Others(t, ip) ==
  LET at == {k \in DOMAIN t : t[k].ip = ip}
  IN IF at = {} THEN t ELSE Without(t, Min1(at))

LEMMA OthersKept ==
  ASSUME NEW t \in Seq(Entries), Distinct(t), NEW ip
  PROVE  LET o == Others(t, ip) IN
         /\ o \in Seq(Entries) /\ Len(o) <= Len(t) /\ Distinct(o)
         /\ \A k \in DOMAIN o : o[k].ip # ip /\ \E j \in DOMAIN t : o[k] = t[j]
         /\ \A j \in DOMAIN t : t[j].ip # ip => \E k \in DOMAIN o : o[k] = t[j]
<1>1. PICK o : o = Others(t, ip)
  OBVIOUS
<1>2. PICK at : at = {k \in DOMAIN t : t[k].ip = ip}
  OBVIOUS
<1>n. Len(t) \in Nat /\ DOMAIN t = 1 .. Len(t)
  OBVIOUS
<1>3. CASE at = {}
  <2>1. o = t
    BY <1>1, <1>2, <1>3 DEF Others
  <2>2. \A k \in DOMAIN t : t[k].ip # ip
    BY <1>2, <1>3
  <2> QED BY <1>1, <1>n, <2>1, <2>2
<1>4. CASE at # {}
  <2>1. PICK i : i = Min1(at)
    OBVIOUS
  <2>2. at \in SUBSET Nat
    BY <1>2, <1>n
  <2>3. i \in at
    BY <1>4, <2>1, <2>2, Min1Least
  <2>4. i \in 1 .. Len(t) /\ t[i].ip = ip
    BY <1>2, <1>n, <2>3
  <2>5. o = Without(t, i)
    BY <1>1, <1>2, <1>4, <2>1 DEF Others
  <2>6. /\ o \in Seq(Entries) /\ Len(o) = Len(t) - 1
        /\ \A j \in 1 .. Len(t) - 1 : o[j] = IF j < i THEN t[j] ELSE t[j + 1]
    BY <2>4, <2>5, WithoutOne
  <2>7. DOMAIN o = 1 .. Len(t) - 1
    BY <2>6
  <2>8. \A j \in 1 .. Len(t) : t[j].ip = ip => j = i
    BY <2>4, <1>n DEF Distinct
  <2>9. ASSUME NEW k \in DOMAIN o
        PROVE  o[k].ip # ip /\ \E j \in DOMAIN t : o[k] = t[j]
    <3>1. k \in 1 .. Len(t) - 1 /\ k \in 1 .. Len(t) /\ k + 1 \in 1 .. Len(t)
      BY <2>7, <1>n
    <3>2. CASE k < i
      <4>1. o[k] = t[k] /\ k # i
        BY <2>6, <3>1, <3>2
      <4> QED BY <4>1, <3>1, <2>8, <1>n
    <3>3. CASE ~(k < i)
      <4>1. o[k] = t[k + 1] /\ k + 1 # i
        BY <2>6, <3>1, <3>3, <2>4
      <4> QED BY <4>1, <3>1, <2>8, <1>n
    <3> QED BY <3>2, <3>3
  <2>10. ASSUME NEW j \in DOMAIN t, t[j].ip # ip
         PROVE  \E k \in DOMAIN o : o[k] = t[j]
    <3>1. j \in 1 .. Len(t) /\ j # i
      BY <2>4, <2>10, <1>n
    <3>2. CASE j < i
      <4>1. j \in 1 .. Len(t) - 1 /\ o[j] = t[j]
        BY <3>1, <3>2, <2>4, <2>6, <1>n
      <4> QED BY <4>1, <2>7
    <3>3. CASE ~(j < i)
      <4>1. j - 1 \in 1 .. Len(t) - 1 /\ ~(j - 1 < i) /\ (j - 1) + 1 = j
        BY <3>1, <3>3, <2>4, <1>n
      <4>2. o[j - 1] = t[j]
        BY <4>1, <2>6
      <4> QED BY <4>1, <4>2, <2>7
    <3> QED BY <3>2, <3>3
  <2>11. ASSUME NEW j \in DOMAIN o, NEW k \in DOMAIN o, o[j].ip = o[k].ip
         PROVE  j = k
    <3>1. PICK a : a = IF j < i THEN j ELSE j + 1
      OBVIOUS
    <3>2. PICK b : b = IF k < i THEN k ELSE k + 1
      OBVIOUS
    <3>3. j \in 1 .. Len(t) - 1 /\ k \in 1 .. Len(t) - 1 /\ i \in Nat
      BY <2>7, <2>4, <1>n
    <3>4. a \in 1 .. Len(t) /\ b \in 1 .. Len(t) /\ (a = b => j = k)
      BY <3>1, <3>2, <3>3, <1>n
    <3>5. o[j] = t[a] /\ o[k] = t[b]
      BY <2>6, <3>1, <3>2, <3>3
    <3>6. a = b
      BY <3>4, <3>5, <2>11, <1>n DEF Distinct
    <3> QED BY <3>4, <3>6
  <2>12. Len(o) <= Len(t)
    BY <2>6, <1>n
  <2> QED BY <1>1, <2>6, <2>9, <2>10, <2>11, <2>12 DEF Distinct
<1> QED BY <1>3, <1>4

\* Recording an answer: a table of the same size at most, whose entries are the new one
\* and earlier ones of other addresses ...
LEMMA Recorded ==
  ASSUME NEW t \in Seq(Entries), Len(t) <= DnsMax, Distinct(t),
         NEW ip \in V4s, NEW names \in SUBSET Names
  PROVE  LET u   == AddMapping(t, ip, names)
             new == [ip |-> ip, names |-> names]
         IN /\ u \in Seq(Entries) /\ Len(u) <= DnsMax /\ Distinct(u)
            /\ new \in Entries
            /\ \E k \in DOMAIN u : u[k] = new
            /\ \A k \in DOMAIN u :
                 u[k] = new \/ \E j \in DOMAIN t : t[j].ip # ip /\ u[k] = t[j]
            /\ Len(Others(t, ip)) < DnsMax =>
                 \A j \in DOMAIN t : t[j].ip # ip => \E k \in DOMAIN u : u[k] = t[j]
<1>1. PICK new : new = [ip |-> ip, names |-> names]
  OBVIOUS
<1>2. PICK o : o = Others(t, ip)
  OBVIOUS
<1>3. PICK room : room = IF Len(o) >= DnsMax THEN Tail(o) ELSE o
  OBVIOUS
<1>4. AddMapping(t, ip, names) = Append(room, new)
  BY <1>1, <1>2, <1>3 DEF AddMapping, Others
<1>5. PICK u : u = Append(room, new)
  OBVIOUS
<1>6. new \in Entries /\ new.ip = ip
  BY <1>1 DEF Entries
<1>7. /\ o \in Seq(Entries) /\ Len(o) <= Len(t) /\ Distinct(o)
      /\ \A k \in DOMAIN o : o[k].ip # ip /\ \E j \in DOMAIN t : o[k] = t[j]
      /\ \A j \in DOMAIN t : t[j].ip # ip => \E k \in DOMAIN o : o[k] = t[j]
  BY <1>2, OthersKept
<1>n. Len(o) \in Nat /\ Len(t) \in Nat /\ DnsMax \in Nat /\ DnsMax # 0
      /\ DOMAIN o = 1 .. Len(o)
  BY <1>7, DatapathAssumption
<1>8. \E s \in {0, 1} :
        /\ room \in Seq(Entries) /\ Len(room) = Len(o) - s /\ Len(room) < DnsMax
        /\ \A k \in 1 .. Len(room) : room[k] = o[k + s]
        /\ s = 1 => Len(o) >= DnsMax
  <2>1. CASE Len(o) >= DnsMax
    <3>1. o # <<>>
      BY <2>1, <1>n, <1>7
    <3>2. /\ Tail(o) \in Seq(Entries) /\ Len(Tail(o)) = Len(o) - 1
          /\ \A k \in 1 .. Len(Tail(o)) : Tail(o)[k] = o[k + 1]
      BY <3>1, <1>7, HeadTailProperties
    <3>3. room = Tail(o)
      BY <2>1, <1>3
    <3>4. Len(o) - 1 < DnsMax
      BY <1>7, <1>n
    <3> QED BY <2>1, <3>2, <3>3, <3>4
  <2>2. CASE ~(Len(o) >= DnsMax)
    <3>1. room = o
      BY <2>2, <1>3
    <3>2. Len(o) < DnsMax /\ Len(o) = Len(o) - 0
      BY <2>2, <1>n
    <3>3. \A k \in 1 .. Len(room) : room[k] = o[k + 0]
      BY <3>1, <1>n
    <3>4. room \in Seq(Entries) /\ Len(room) = Len(o) - 0 /\ Len(room) < DnsMax
      BY <3>1, <3>2, <1>7
    <3>5. 0 \in {0, 1} /\ (0 = 1 => Len(o) >= DnsMax)
      OBVIOUS
    <3> QED BY <3>3, <3>4, <3>5
  <2> QED BY <2>1, <2>2
<1>9. PICK s \in {0, 1} :
        /\ room \in Seq(Entries) /\ Len(room) = Len(o) - s /\ Len(room) < DnsMax
        /\ \A k \in 1 .. Len(room) : room[k] = o[k + s]
        /\ s = 1 => Len(o) >= DnsMax
  BY <1>8
<1>10. /\ u \in Seq(Entries) /\ Len(u) = Len(room) + 1 /\ Len(room) \in Nat
       /\ \A k \in 1 .. Len(room) : u[k] = room[k]
       /\ u[Len(room) + 1] = new
  BY <1>5, <1>6, <1>9, AppendProperties
<1>11. DOMAIN u = 1 .. Len(room) + 1
  BY <1>10
<1>12. Len(u) <= DnsMax
  BY <1>9, <1>10, <1>n
<1>13. ASSUME NEW k \in 1 .. Len(room)
       PROVE  k + s \in DOMAIN o /\ u[k] = o[k + s]
  BY <1>9, <1>10, <1>n
<1>14. \E k \in DOMAIN u : u[k] = new
  <2>1. Len(room) + 1 \in DOMAIN u
    BY <1>10, <1>11
  <2> QED BY <2>1, <1>10
<1>15. ASSUME NEW k \in DOMAIN u
       PROVE  \/ k = Len(room) + 1 /\ u[k] = new
              \/ k \in 1 .. Len(room) /\ u[k].ip # ip /\ \E j \in DOMAIN t : t[j].ip # ip /\ u[k] = t[j]
  <2>1. CASE k = Len(room) + 1
    BY <2>1, <1>10
  <2>2. CASE k # Len(room) + 1
    <3>1. k \in 1 .. Len(room)
      BY <2>2, <1>10, <1>11
    <3>2. k + s \in DOMAIN o /\ u[k] = o[k + s]
      BY <3>1, <1>13
    <3> QED BY <3>1, <3>2, <1>7
  <2> QED BY <2>1, <2>2
<1>16. Distinct(u)
  <2> SUFFICES ASSUME NEW j \in DOMAIN u, NEW k \in DOMAIN u, u[j].ip = u[k].ip
               PROVE  j = k
    BY DEF Distinct
  <2>1. CASE j = Len(room) + 1
    <3>1. u[k].ip = ip
      BY <2>1, <1>10, <1>6
    <3> QED BY <2>1, <3>1, <1>15
  <2>2. CASE k = Len(room) + 1
    <3>1. u[j].ip = ip
      BY <2>2, <1>10, <1>6
    <3> QED BY <2>2, <3>1, <1>15
  <2>3. CASE j # Len(room) + 1 /\ k # Len(room) + 1
    <3>1. j \in 1 .. Len(room) /\ k \in 1 .. Len(room)
      BY <2>3, <1>15
    <3>2. /\ j + s \in DOMAIN o /\ k + s \in DOMAIN o
          /\ o[j + s].ip = o[k + s].ip
      BY <3>1, <1>13
    <3>3. j + s = k + s
      BY <3>2, <1>7 DEF Distinct
    <3> QED BY <3>1, <3>3, <1>10
  <2> QED BY <2>1, <2>2, <2>3
<1>17. ASSUME Len(o) < DnsMax, NEW j \in DOMAIN t, t[j].ip # ip
       PROVE  \E k \in DOMAIN u : u[k] = t[j]
  <2>1. s = 0
    BY <1>17, <1>9, <1>n
  <2>2. PICK k \in DOMAIN o : o[k] = t[j]
    BY <1>17, <1>7
  <2>3. k \in 1 .. Len(room) /\ k + s = k
    BY <2>1, <2>2, <1>9, <1>n
  <2>4. u[k] = o[k]
    BY <2>3, <1>13
  <2>5. k \in DOMAIN u
    BY <2>3, <1>10, <1>11
  <2> QED BY <2>2, <2>4, <2>5
<1> QED BY <1>1, <1>2, <1>4, <1>5, <1>6, <1>10, <1>12, <1>14, <1>15, <1>16, <1>17

\* ... so that it stays well formed.
LEMMA RecordedTyped ==
  ASSUME NEW t \in Seq(Entries), Len(t) <= DnsMax, Distinct(t),
         \A k \in DOMAIN t : t[k].ip \notin Unlearned,
         NEW ip \in V4s, ip \notin Unlearned, NEW ns \in SUBSET Names,
         NEW u, u = AddMapping(t, ip, ns)
  PROVE  /\ u \in Seq(Entries) /\ Len(u) <= DnsMax /\ Distinct(u)
         /\ \A k \in DOMAIN u : u[k].ip \notin Unlearned
<1>1. PICK new : new = [ip |-> ip, names |-> ns]
  OBVIOUS
<1>2. /\ u \in Seq(Entries) /\ Len(u) <= DnsMax /\ Distinct(u)
      /\ \A k \in DOMAIN u : u[k] = new \/ \E j \in DOMAIN t : t[j].ip # ip /\ u[k] = t[j]
  BY <1>1, Recorded
<1>3. new.ip \notin Unlearned
  BY <1>1
<1> QED BY <1>2, <1>3

\* The table has room for every address that an answer may be recorded for, and for
\* every name of each.
RoomForAll ==
  /\ IsFiniteSet(V4s) /\ Cardinality(V4s \ Unlearned) <= DnsMax
  /\ IsFiniteSet(Names) /\ Cardinality(Names) <= MaxNames

\* ... and then no entry is evicted.
LEMMA NoneEvicted ==
  ASSUME RoomForAll, NEW t \in Seq(Entries), Distinct(t),
         \A k \in DOMAIN t : t[k].ip \notin Unlearned,
         NEW ip \in V4s \ Unlearned
  PROVE  Len(Others(t, ip)) < DnsMax
<1>1. PICK o : o = Others(t, ip)
  OBVIOUS
<1>2. PICK S : S = V4s \ Unlearned
  OBVIOUS
<1>3. /\ o \in Seq(Entries) /\ Distinct(o)
      /\ \A k \in DOMAIN o : o[k].ip # ip /\ \E j \in DOMAIN t : o[k] = t[j]
  BY <1>1, OthersKept
<1>4. \A k \in DOMAIN o : o[k].ip \in S \ {ip}
  <2> SUFFICES ASSUME NEW k \in DOMAIN o PROVE o[k].ip \in S \ {ip}
    OBVIOUS
  <2>1. o[k] \in Entries /\ o[k].ip # ip /\ o[k].ip \notin Unlearned
    BY <1>3
  <2> QED BY <2>1, <1>2 DEF Entries
<1>5. IsFiniteSet(S) /\ ip \in S
  BY <1>2, FS_Subset DEF RoomForAll
<1>6. /\ IsFiniteSet(S \ {ip}) /\ Cardinality(S \ {ip}) = Cardinality(S) - 1
      /\ Cardinality(S) \in Nat /\ Cardinality(S \ {ip}) \in Nat
  BY <1>5, FS_RemoveElement, FS_CardinalityType
<1>7. PICK n \in Nat : n = Len(o) /\ DOMAIN o = 1 .. n
  BY <1>3
<1>8. IsFiniteSet(1 .. n) /\ Cardinality(1 .. n) = n
  BY FS_Interval
<1>9. PICK f : f = [k \in 1 .. n |-> o[k].ip]
  OBVIOUS
<1>10. f \in Injection(1 .. n, S \ {ip})
  <2>1. f \in [1 .. n -> S \ {ip}]
    BY <1>4, <1>7, <1>9
  <2>2. \A a, b \in 1 .. n : f[a] = f[b] => a = b
    BY <1>3, <1>7, <1>9 DEF Distinct
  <2> QED BY <2>1, <2>2 DEF Injection, IsInjective
<1>11. Cardinality(1 .. n) <= Cardinality(S \ {ip})
  BY <1>6, <1>8, <1>10, FS_Injection
<1> QED BY <1>1, <1>2, <1>6, <1>7, <1>8, <1>11, DatapathAssumption DEF RoomForAll

\* ... and no name is dropped.
LEMMA AllKept ==
  ASSUME RoomForAll, NEW old \in SUBSET Names, NEW added \in SUBSET Names
  PROVE  Kept(old, added) = {old \cup added}
<1>1. IsFiniteSet(Names) /\ Cardinality(Names) <= MaxNames /\ MaxNames \in Nat
  BY DatapathAssumption DEF RoomForAll
<1>2. PICK both \in SUBSET Names : both = old \cup added
  OBVIOUS
<1>3. Cardinality(both) \in Nat /\ Cardinality(Names) \in Nat /\ Cardinality(both) <= Cardinality(Names)
  BY <1>1, FS_Subset, FS_CardinalityType
<1>4. Cardinality(both) <= MaxNames
  BY <1>1, <1>3
<1> QED BY <1>2, <1>4 DEF Kept

\* The names of the table's addresses are sets of names.
LEMMA NamesTyped ==
  ASSUME NEW t \in Seq(Entries), NEW ip PROVE NamesOf(t, ip) \in SUBSET Names
<1>1. \A k \in DOMAIN t : t[k] \in Entries
  OBVIOUS
<1> QED BY <1>1 DEF NamesOf, Entries

\* What is kept of old and added names are names.
LEMMA KeptTyped ==
  ASSUME NEW old \in SUBSET Names, NEW added \in SUBSET Names, NEW ns \in Kept(old, added)
  PROVE  ns \in SUBSET Names
BY DEF Kept

\* A recorded address is one that answers are recorded for, and the table is the old one
\* with its entry replaced.
LEMMA RecordMaps ==
  ASSUME NEW ip \in V4s, NEW names \in SUBSET Names, dns \in Seq(Entries), Record(ip, names)
  PROVE  /\ ip \notin Unlearned
         /\ \E ns \in SUBSET Names :
              ns \in Kept(NamesOf(dns, ip), names) /\ dns' = AddMapping(dns, ip, ns)
<1>1. PICK ns \in Kept(NamesOf(dns, ip), names) : dns' = AddMapping(dns, ip, ns)
  BY DEF Record
<1>2. PICK old \in SUBSET Names : old = NamesOf(dns, ip)
  BY NamesTyped
<1>3. ns \in SUBSET Names
  BY <1>1, <1>2, KeptTyped
<1> QED BY <1>1, <1>3 DEF Record

\* If the table has room nothing recorded makes an address lose a name.
LEMMA RecordRemembers ==
  ASSUME RoomForAll, NEW t \in Seq(Entries), Len(t) <= DnsMax, Distinct(t),
         \A k \in DOMAIN t : t[k].ip \notin Unlearned,
         NEW ip \in V4s \ Unlearned, NEW names \in SUBSET Names,
         NEW ns \in Kept(NamesOf(t, ip), names), NEW other \in V4s
  PROVE  NamesOf(t, other) \subseteq NamesOf(AddMapping(t, ip, ns), other)
<1>1. Kept(NamesOf(t, ip), names) = {NamesOf(t, ip) \cup names}
  <2>1. PICK old \in SUBSET Names : old = NamesOf(t, ip)
    BY NamesTyped
  <2> QED BY <2>1, AllKept
<1>2. ns \in SUBSET Names /\ NamesOf(t, ip) \subseteq ns
  BY <1>1, NamesTyped
<1>3. PICK u : u = AddMapping(t, ip, ns)
  OBVIOUS
<1>4. PICK new : new = [ip |-> ip, names |-> ns]
  OBVIOUS
<1>5. Len(Others(t, ip)) < DnsMax
  BY NoneEvicted
<1>6. /\ \E k \in DOMAIN u : u[k] = new
      /\ \A j \in DOMAIN t : t[j].ip # ip => \E k \in DOMAIN u : u[k] = t[j]
  BY <1>2, <1>3, <1>4, <1>5, Recorded
<1>7. new.ip = ip /\ new.names = ns
  BY <1>4
<1>8. CASE other = ip
  <2>1. ns \subseteq NamesOf(u, ip)
    BY <1>6, <1>7 DEF NamesOf
  <2> QED BY <1>2, <1>3, <1>8, <2>1
<1>9. CASE other # ip
  <2> SUFFICES ASSUME NEW n \in NamesOf(t, other) PROVE n \in NamesOf(u, other)
    BY <1>3
  <2>1. PICK j \in DOMAIN t : t[j].ip = other /\ n \in t[j].names
    BY DEF NamesOf
  <2>2. PICK k \in DOMAIN u : u[k] = t[j]
    BY <1>6, <1>9, <2>1
  <2> QED BY <2>1, <2>2 DEF NamesOf
<1> QED BY <1>8, <1>9

\* What the table gives to arm after an answer: all it gave, as long as no name is lost, and
\* pairs of that address.
LEMMA PairsGrow ==
  ASSUME NEW rs, NEW t \in Seq(Entries), Len(t) <= DnsMax, Distinct(t),
         NEW ip \in V4s, NEW ns \in SUBSET Names, NEW u, u = AddMapping(t, ip, ns),
         \A other \in V4s : NamesOf(t, other) \subseteq NamesOf(u, other)
  PROVE  /\ ArmAll(rs, t) \subseteq ArmAll(rs, u)
         /\ \A x \in ArmAll(rs, u) : x \in ArmAll(rs, t) \/ x[2] = ip
<1>1. PICK new : new = [ip |-> ip, names |-> ns]
  OBVIOUS
<1>2. \A k \in DOMAIN u : u[k] = new \/ \E j \in DOMAIN t : t[j].ip # ip /\ u[k] = t[j]
  BY <1>1, Recorded
<1>3. new.ip = ip
  BY <1>1
<1>4. ASSUME NEW j \in DOMAIN t, NEW x \in Armed(rs, t[j].ip, t[j].names)
      PROVE  x \in ArmAll(rs, u)
  <2>1. PICK i \in DOMAIN rs : x = <<i, t[j].ip>> /\ rs[i].on /\ rs[i].names \cap t[j].names # {}
    BY <1>4 DEF Armed
  <2>2. t[j].ip \in V4s
    <3>1. t[j] \in Entries
      OBVIOUS
    <3> QED BY <3>1 DEF Entries
  <2>3. t[j].names \subseteq NamesOf(u, t[j].ip)
    <3>1. t[j].names \subseteq NamesOf(t, t[j].ip)
      BY DEF NamesOf
    <3> QED BY <2>2, <3>1
  <2>4. PICK k \in DOMAIN u : u[k].ip = t[j].ip /\ rs[i].names \cap u[k].names # {}
    BY <2>1, <2>3 DEF NamesOf
  <2>5. x \in Armed(rs, u[k].ip, u[k].names)
    BY <2>1, <2>4 DEF Armed
  <2> QED BY <2>5 DEF ArmAll
<1>5. ASSUME NEW k \in DOMAIN u, NEW x \in Armed(rs, u[k].ip, u[k].names)
      PROVE  x \in ArmAll(rs, t) \/ x[2] = ip
  <2>1. CASE u[k] = new
    BY <2>1, <1>3, <1>5 DEF Armed
  <2>2. CASE \E j \in DOMAIN t : u[k] = t[j]
    <3>1. PICK j \in DOMAIN t : u[k] = t[j]
      BY <2>2
    <3>2. x \in Armed(rs, t[j].ip, t[j].names)
      BY <1>5, <3>1
    <3> QED BY <3>2 DEF ArmAll
  <2> QED BY <2>1, <2>2, <1>2
<1>6. ArmAll(rs, t) \subseteq ArmAll(rs, u)
  BY <1>4 DEF ArmAll
<1>7. \A x \in ArmAll(rs, u) : \E k \in DOMAIN u : x \in Armed(rs, u[k].ip, u[k].names)
  BY DEF ArmAll
<1>8. \A x \in ArmAll(rs, u) : x \in ArmAll(rs, t) \/ x[2] = ip
  BY <1>5, <1>7
<1> QED BY <1>6, <1>8

\* Arming one address with all its names adds exactly what the table gives for it.
LEMMA ArmedByAnswer ==
  ASSUME NEW rs, NEW t, NEW ip
  PROVE  /\ Armed(rs, ip, NamesOf(t, ip)) \subseteq ArmAll(rs, t)
         /\ \A x \in ArmAll(rs, t) : x[2] = ip => x \in Armed(rs, ip, NamesOf(t, ip))
<1>1. ASSUME NEW x \in Armed(rs, ip, NamesOf(t, ip))
      PROVE  x \in ArmAll(rs, t)
  <2>1. PICK i \in DOMAIN rs : x = <<i, ip>> /\ rs[i].on /\ rs[i].names \cap NamesOf(t, ip) # {}
    BY <1>1 DEF Armed
  <2>2. PICK k \in DOMAIN t : t[k].ip = ip /\ rs[i].names \cap t[k].names # {}
    BY <2>1 DEF NamesOf
  <2>3. x \in Armed(rs, t[k].ip, t[k].names)
    BY <2>1, <2>2 DEF Armed
  <2> QED BY <2>3 DEF ArmAll
<1>2. ASSUME NEW x \in ArmAll(rs, t), x[2] = ip
      PROVE  x \in Armed(rs, ip, NamesOf(t, ip))
  <2>1. PICK k \in DOMAIN t : x \in Armed(rs, t[k].ip, t[k].names)
    BY <1>2 DEF ArmAll
  <2>2. PICK i \in DOMAIN rs : x = <<i, t[k].ip>> /\ rs[i].on /\ rs[i].names \cap t[k].names # {}
    BY <2>1 DEF Armed
  <2>3. t[k].ip = ip
    BY <1>2, <2>2
  <2>4. t[k].names \subseteq NamesOf(t, ip)
    BY <2>3 DEF NamesOf
  <2> QED BY <2>2, <2>3, <2>4 DEF Armed
<1> QED BY <1>1, <1>2

\* Without a domain rule there is nothing to arm.
LEMMA NothingToArm ==
  ASSUME NEW t, ~HasDomainRules
  PROVE  ArmAll(rules, t) = {}
BY DEF HasDomainRules, ArmAll, Armed

-----------------------------------------------------------------------------
(* Interning *)

\* An interned class keeps the earlier ones in place, and its id leads to it.
LEMMA InternKeeps ==
  ASSUME cls \in Seq(Classes), Len(cls) <= MaxClasses,
         classes \in [0 .. MaxClasses -> Classes], ClassesWritten,
         NEW c \in Classes, NEW id \in InternId(c),
         NEW C, C = Interned(c), NEW K, K = [classes EXCEPT ![id] = c]
  PROVE  /\ id \in 0 .. MaxClasses /\ id \in 0 .. Len(C)
         /\ C \in Seq(Classes) /\ Len(C) <= MaxClasses /\ Len(cls) <= Len(C)
         /\ K \in [0 .. MaxClasses -> Classes] /\ K[id] = c
         /\ Installed(K, C)
         /\ \A j \in 0 .. Len(cls) : K[j] = classes[j]
         /\ (id = 0 /\ c = NoRules) \/ (id \in DOMAIN C /\ C[id] = c)
<1>1. Len(cls) \in Nat /\ DOMAIN cls = 1 .. Len(cls) /\ MaxClasses \in Nat
  BY DatapathAssumption
<1>2. CASE c = NoRules
  <2>1. id = 0
    BY <1>2 DEF InternId
  <2>2. C = cls
    <3>1. InternId(c) = {0} /\ Len(cls) + 1 # 0
      BY <1>1, <1>2 DEF InternId
    <3> QED BY <3>1 DEF Interned
  <2>3. 0 \in 0 .. MaxClasses /\ K = [classes EXCEPT ![0] = NoRules]
    BY <1>1, <1>2, <2>1
  <2>4. K = classes
    BY <2>3 DEF ClassesWritten, Installed
  <2> QED BY <1>1, <1>2, <2>1, <2>2, <2>3, <2>4 DEF ClassesWritten, Installed
<1>3. CASE c # NoRules /\ \E k \in DOMAIN cls : cls[k] = c
  <2>1. id \in DOMAIN cls /\ cls[id] = c
    BY <1>3 DEF InternId
  <2>2. Len(cls) + 1 \notin InternId(c)
    BY <1>1, <1>3 DEF InternId
  <2>3. C = cls
    BY <2>2 DEF Interned
  <2>4. K = classes
    BY <2>1 DEF ClassesWritten, Installed
  <2>5. id \in 0 .. Len(cls) /\ id \in 0 .. MaxClasses
    BY <1>1, <2>1
  <2> QED BY <1>1, <2>1, <2>3, <2>4, <2>5 DEF ClassesWritten, Installed
<1>4. CASE c # NoRules /\ ~\E k \in DOMAIN cls : cls[k] = c
  <2>1. id = Len(cls) + 1 /\ Len(cls) < MaxClasses /\ Len(cls) + 1 \in InternId(c)
    BY <1>4 DEF InternId
  <2>2. C = Append(cls, c)
    BY <2>1 DEF Interned
  <2>3. /\ C \in Seq(Classes) /\ Len(C) = Len(cls) + 1
        /\ \A k \in 1 .. Len(cls) : C[k] = cls[k]
        /\ C[Len(cls) + 1] = c
    BY <2>2, AppendProperties
  <2>4. DOMAIN C = 1 .. Len(cls) + 1
    BY <2>3
  <2>5. id \in 0 .. MaxClasses /\ id # 0 /\ id \notin 0 .. Len(cls) /\ id \in DOMAIN C
    BY <1>1, <2>1, <2>4
  <2>6. K \in [0 .. MaxClasses -> Classes] /\ K[id] = c /\ \A j \in 0 .. MaxClasses : j # id => K[j] = classes[j]
    BY <2>5
  <2>7. \A j \in 0 .. Len(cls) : j \in 0 .. MaxClasses /\ j # id
    BY <1>1, <2>5
  <2>8. \A j \in 0 .. Len(cls) : K[j] = classes[j]
    BY <2>6, <2>7
  <2>9. ASSUME NEW k \in DOMAIN C PROVE K[k] = C[k]
    <3>1. CASE k = id
      BY <3>1, <2>1, <2>3, <2>6
    <3>2. CASE k # id
      <4>1. k \in 1 .. Len(cls) /\ k \in 0 .. Len(cls)
        BY <3>2, <2>1, <2>4, <1>1
      <4> QED BY <4>1, <2>3, <2>8, <1>1 DEF ClassesWritten, Installed
    <3> QED BY <3>1, <3>2
  <2>10. K[0] = NoRules
    <3>1. 0 \in 0 .. Len(cls)
      BY <1>1
    <3> QED BY <3>1, <2>8 DEF ClassesWritten, Installed
  <2>11. id \in 0 .. Len(C) /\ Len(C) <= MaxClasses /\ Len(cls) <= Len(C)
    BY <1>1, <2>1, <2>3
  <2>12. C[id] = c
    BY <2>1, <2>3
  <2>13. Installed(K, C)
    BY <2>9, <2>10 DEF Installed
  <2> QED BY <2>3, <2>5, <2>6, <2>8, <2>11, <2>12, <2>13
<1> QED BY <1>2, <1>3, <1>4

\* An id that is in use already leads to its class.
LEMMA InternFound ==
  ASSUME cls \in Seq(Classes), ClassesWritten, NEW c,
         InternId(c) \cap (0 .. Len(cls)) # {}, NEW id \in InternId(c)
  PROVE  id \in 0 .. Len(cls) /\ classes[id] = c
<1>1. Len(cls) \in Nat /\ DOMAIN cls = 1 .. Len(cls)
  OBVIOUS
<1>2. CASE c = NoRules
  BY <1>1, <1>2 DEF InternId, ClassesWritten, Installed
<1>3. CASE c # NoRules /\ \E k \in DOMAIN cls : cls[k] = c
  BY <1>1, <1>3 DEF InternId, ClassesWritten, Installed
<1>4. CASE c # NoRules /\ ~\E k \in DOMAIN cls : cls[k] = c
  BY <1>1, <1>4 DEF InternId
<1> QED BY <1>2, <1>3, <1>4

-----------------------------------------------------------------------------
(* The types *)

LEMMA ShapeInit == Init => Shape
<1> SUFFICES ASSUME Init PROVE Shape
  OBVIOUS
<1> USE DatapathAssumption
<1>1. NoBRule \in BRules /\ NoRules \in Classes
  BY DEF NoBRule, BRules, NoRules, Classes
<1>2. TypeOK
  BY <1>1 DEF Init, TypeOK
<1> QED BY <1>2 DEF Init, Shape, Distinct

UserTyped ==
  /\ rules \in Seq(Rules) /\ Len(rules) <= MaxRules
  /\ proxies \in Seq(Proxies) /\ Len(proxies) <= MaxProxies
  /\ default \in Nat /\ nextId \in Nat \ {0}

\* An API call leaves a rule list and a proxy list of the right length.
LEMMA ShapeApi == ASSUME Shape, ApiCall PROVE Shape'
<1> USE DatapathAssumption
<1>1. /\ rules \in Seq(Rules) /\ Len(rules) \in Nat /\ Len(rules) <= MaxRules
      /\ proxies \in Seq(Proxies) /\ Len(proxies) \in Nat /\ Len(proxies) <= MaxProxies
      /\ default \in Nat /\ nextId \in Nat \ {0}
  BY DEF Shape, TypeOK
<1>2. /\ wpc' = "rules" /\ wk' = 1
      /\ UNCHANGED <<via, dns, exes, cls, kern, wv, apc, maint, obs, pathOf>>
  BY DEF ApiCall, AddProxy, EditProxy, DeleteProxy, ClearProxies, SetDefaultProxy, AddRule,
         EditRule, SetEnabled, DeleteRule, MoveRule, ClearRules, SetRules, SetProxies, Call
<1>3. UserTyped'
  <2> USE DEF UserTyped
  <2>1. ASSUME NEW http \in BOOLEAN, AddProxy(http) PROVE UserTyped'
    <3>1. [id |-> nextId, http |-> http] \in Proxies
      BY <1>1 DEF Proxies
    <3> QED BY <1>1, <2>1, <3>1 DEF AddProxy, SetProxies
  <2>2. ASSUME NEW http \in BOOLEAN, NEW i \in DOMAIN proxies, EditProxy(i, http) PROVE UserTyped'
    <3>1. proxies[i] \in Proxies
      BY <1>1
    <3>2. [proxies[i] EXCEPT !.http = http] \in Proxies
      BY <3>1 DEF Proxies
    <3>3. proxies' = [proxies EXCEPT ![i] = [proxies[i] EXCEPT !.http = http]]
      BY <2>2 DEF EditProxy, SetProxies
    <3>4. proxies' \in Seq(Proxies) /\ Len(proxies') = Len(proxies)
      BY <1>1, <3>2, <3>3, ExceptSeq
    <3> QED BY <1>1, <2>2, <3>4 DEF EditProxy, SetProxies
  <2>3. ASSUME NEW i \in DOMAIN proxies, DeleteProxy(i) PROVE UserTyped'
    <3>1. proxies \in Seq(Proxies) /\ i \in 1 .. Len(proxies)
      BY <1>1
    <3>2. Without(proxies, i) \in Seq(Proxies) /\ Len(Without(proxies, i)) = Len(proxies) - 1
      <4> HIDE DatapathAssumption
      <4> QED BY <3>1, WithoutOne
    <3> QED BY <1>1, <2>3, <3>2 DEF DeleteProxy, SetProxies
  <2>4. ASSUME ClearProxies PROVE UserTyped'
    BY <1>1, <2>4 DEF ClearProxies, SetProxies
  <2>5. ASSUME NEW id \in 0 .. MaxId, SetDefaultProxy(id) PROVE UserTyped'
    BY <1>1, <2>5 DEF SetDefaultProxy
  <2>6. ASSUME NEW text \in Texts, AddRule(text) PROVE UserTyped'
    <3>1. text \in Rules
      OBVIOUS
    <3> QED BY <1>1, <2>6, <3>1 DEF AddRule, SetRules
  <2>7. ASSUME NEW text \in Texts, NEW i \in DOMAIN rules, EditRule(i, text) PROVE UserTyped'
    <3>1. rules[i] \in Rules /\ text \in Rules
      BY <1>1
    <3>2. rules[i].on \in BOOLEAN
      BY <3>1 DEF Rules
    <3>3. [text EXCEPT !.on = rules[i].on] \in Rules
      BY <3>1, <3>2 DEF Rules
    <3>4. rules' = [rules EXCEPT ![i] = [text EXCEPT !.on = rules[i].on]]
      BY <2>7 DEF EditRule, SetRules
    <3>5. rules' \in Seq(Rules) /\ Len(rules') = Len(rules)
      BY <1>1, <3>3, <3>4, ExceptSeq
    <3> QED BY <1>1, <2>7, <3>5 DEF EditRule, SetRules
  <2>8. ASSUME NEW i \in DOMAIN rules, NEW on \in BOOLEAN, SetEnabled(i, on) PROVE UserTyped'
    <3>1. rules[i] \in Rules
      BY <1>1
    <3>2. [rules[i] EXCEPT !.on = on] \in Rules
      BY <3>1 DEF Rules
    <3>3. rules' = [rules EXCEPT ![i] = [rules[i] EXCEPT !.on = on]]
      BY <2>8 DEF SetEnabled, SetRules
    <3>4. rules' \in Seq(Rules) /\ Len(rules') = Len(rules)
      BY <1>1, <3>2, <3>3, ExceptSeq
    <3> QED BY <1>1, <2>8, <3>4 DEF SetEnabled, SetRules
  <2>9. ASSUME NEW i \in DOMAIN rules, DeleteRule(i) PROVE UserTyped'
    <3>1. Without(rules, i) \in Seq(Rules) /\ Len(Without(rules, i)) = Len(rules) - 1
      BY <1>1, WithoutOne
    <3> QED BY <1>1, <2>9, <3>1 DEF DeleteRule, SetRules
  <2>10. ASSUME NEW i \in DOMAIN rules, NEW j \in DOMAIN rules, MoveRule(i, j) PROVE UserTyped'
    <3> DEFINE rest == Without(rules, i)
               new  == SubSeq(rest, 1, j - 1) \o <<rules[i]>> \o SubSeq(rest, j, Len(rest))
    <3>1. rules' = new
      BY <2>10 DEF MoveRule, SetRules
    <3>2. i \in 1 .. Len(rules) /\ j \in 1 .. Len(rules)
      BY <1>1
    <3>3. new \in Seq(Rules) /\ Len(new) = Len(rules)
      BY <1>1, <3>2, Moved
    <3> HIDE DEF new
    <3>4. rules' \in Seq(Rules) /\ Len(rules') = Len(rules)
      BY <3>1, <3>3
    <3> QED BY <1>1, <2>10, <3>4 DEF MoveRule, SetRules
  <2>11. ASSUME ClearRules PROVE UserTyped'
    BY <1>1, <2>11 DEF ClearRules, SetRules
  <2> QED BY <2>1, <2>2, <2>3, <2>4, <2>5, <2>6, <2>7, <2>8, <2>9, <2>10, <2>11 DEF ApiCall
<1>4. TypeOK'
  BY <1>2, <1>3 DEF Shape, TypeOK, UserTyped, kern
<1> QED BY <1>2, <1>4 DEF Shape, Distinct, kern

\* A program learned is one not known before.
LEMMA AddProgramTyped ==
  ASSUME Shape, NEW e \in Programs, NEW path \in Paths, AddProgram(e, path)
  PROVE  /\ exes' \in Seq(Known) /\ Len(exes') <= MaxPrograms
         /\ \A j, k \in DOMAIN exes' : exes'[j].exe = exes'[k].exe => j = k
         /\ Len(exes') = Len(exes) + 1
         /\ \A k \in DOMAIN exes : k \in DOMAIN exes' /\ exes'[k] = exes[k]
         /\ Len(exes) + 1 \in DOMAIN exes'
         /\ \A k \in DOMAIN exes' :
              k \in DOMAIN exes \/ (k = Len(exes) + 1 /\ exes'[k] = [exe |-> e, path |-> path])
         /\ exes'[Len(exes) + 1] = [exe |-> e, path |-> path]
         /\ \A k \in DOMAIN exes : exes[k].exe # e
<1>1. PICK p : p = [exe |-> e, path |-> path]
  OBVIOUS
<1>2. p \in Known /\ p.exe = e
  BY <1>1 DEF Known
<1>3. /\ exes \in Seq(Known) /\ Len(exes) \in Nat /\ MaxPrograms \in Nat
      /\ DOMAIN exes = 1 .. Len(exes)
      /\ \A j, k \in DOMAIN exes : exes[j].exe = exes[k].exe => j = k
  BY DatapathAssumption DEF Shape, TypeOK
<1>4. exes' = Append(exes, p) /\ Len(exes) < MaxPrograms /\ \A k \in DOMAIN exes : exes[k].exe # e
  BY <1>1 DEF AddProgram
<1>5. /\ exes' \in Seq(Known) /\ Len(exes') = Len(exes) + 1
      /\ \A k \in 1 .. Len(exes) : exes'[k] = exes[k]
      /\ exes'[Len(exes) + 1] = p
  BY <1>2, <1>3, <1>4, AppendProperties
<1>6. DOMAIN exes' = 1 .. Len(exes) + 1
  BY <1>5
<1>7. ASSUME NEW j \in DOMAIN exes', NEW k \in DOMAIN exes', exes'[j].exe = exes'[k].exe
      PROVE  j = k
  <2>1. CASE j = Len(exes) + 1
    BY <2>1, <1>2, <1>3, <1>4, <1>5, <1>6, <1>7
  <2>2. CASE k = Len(exes) + 1
    BY <2>2, <1>2, <1>3, <1>4, <1>5, <1>6, <1>7
  <2>3. CASE j # Len(exes) + 1 /\ k # Len(exes) + 1
    BY <2>3, <1>3, <1>5, <1>6, <1>7
  <2> QED BY <2>1, <2>2, <2>3
<1> QED BY <1>1, <1>3, <1>4, <1>5, <1>6, <1>7

\* The writer's steps keep the types.
LEMMA ShapeSync == ASSUME Shape, ClassesWritten, ProgramsPlaced, Sync PROVE Shape'
<1> USE DatapathAssumption
<1>1. /\ rules \in Seq(Rules) /\ Len(rules) \in Nat /\ Len(rules) <= MaxRules
      /\ proxies \in Seq(Proxies) /\ default \in Nat
      /\ exes \in Seq(Known) /\ Len(exes) \in Nat
      /\ cls \in Seq(Classes) /\ Len(cls) <= MaxClasses
      /\ classes \in [0 .. MaxClasses -> Classes]
      /\ brs \in [1 .. MaxRules -> BRules]
      /\ cfg \in [enabled : BOOLEAN, dnsTap : BOOLEAN, via : BOOLEAN]
      /\ wk \in Nat /\ wk # 0
  BY DEF Shape, TypeOK
<1>2. ASSUME SyncRule PROVE Shape'
  <2>1. rules[wk] \in Rules /\ wk \in 1 .. MaxRules
    BY <1>1, <1>2 DEF SyncRule
  <2>2. Compile(rules[wk], proxies, default) \in BRules
    BY <1>1, <2>1, CompileTyped
  <2>3. brs' \in [1 .. MaxRules -> BRules] /\ wk' \in Nat /\ wk' # 0
    BY <1>1, <1>2, <2>1, <2>2 DEF SyncRule
  <2> QED BY <1>2, <2>3 DEF SyncRule, Shape, TypeOK, Distinct, user
<1>3. ASSUME SyncRulesEnd PROVE Shape'
  BY <1>3 DEF SyncRulesEnd, Shape, TypeOK, Distinct, user, kern
<1>4. ASSUME NEW e \in Programs, ScanProgram(e) PROVE Shape'
  <2>1. pathOf[e] \in Paths
    BY DEF Shape, TypeOK
  <2>2. /\ exes' \in Seq(Known) /\ Len(exes') <= MaxPrograms
        /\ \A j, k \in DOMAIN exes' : exes'[j].exe = exes'[k].exe => j = k
        /\ \A k \in DOMAIN exes : k \in DOMAIN exes' /\ exes'[k] = exes[k]
    BY <1>4, <2>1, AddProgramTyped DEF ScanProgram
  <2>3. \A x \in DOMAIN exe2class : \E k \in DOMAIN exes' : exes'[k].exe = x
    BY <2>2 DEF Shape
  <2> QED BY <1>4, <2>2, <2>3 DEF ScanProgram, Shape, TypeOK, Distinct, user, kern
<1>5. ASSUME ScanEnd PROVE Shape'
  BY <1>5 DEF ScanEnd, Shape, TypeOK, Distinct, user, kern
<1>6. ASSUME SyncClass PROVE Shape'
  <2>1. PICK c : c = ClassFor(rules, exes[wk].path)
    OBVIOUS
  <2>2. c \in Classes
    BY <1>1, <2>1, ClassTyped
  <2>3. CASE InternId(c) = {}
    <3>1. exe2class' = Forget(exe2class, exes[wk].exe) /\ wk' = wk + 1 /\ UNCHANGED <<cls, classes, wpc>>
      BY <1>6, <2>1, <2>3 DEF SyncClass
    <3>2. /\ DOMAIN exe2class' \subseteq DOMAIN exe2class
          /\ \A x \in DOMAIN exe2class' : exe2class'[x] = exe2class[x]
      BY <3>1 DEF Forget
    <3>3. wk' \in Nat /\ wk' # 0
      BY <1>1, <3>1
    <3> QED BY <1>6, <3>1, <3>2, <3>3 DEF SyncClass, Shape, TypeOK, Distinct, user
  <2>4. CASE InternId(c) # {}
    <3>1. /\ \E id \in InternId(c) : classes' = [classes EXCEPT ![id] = c]
          /\ cls' = Interned(c) /\ wpc' = "map" /\ UNCHANGED <<exe2class, wk>>
      BY <1>6, <2>1, <2>4 DEF SyncClass
    <3>2. PICK id \in InternId(c) : classes' = [classes EXCEPT ![id] = c]
      BY <3>1
    <3>3. /\ cls' \in Seq(Classes) /\ Len(cls') <= MaxClasses
          /\ classes' \in [0 .. MaxClasses -> Classes]
      BY <1>1, <2>2, <3>1, <3>2, InternKeeps
    <3> QED BY <1>6, <3>1, <3>3 DEF SyncClass, Shape, TypeOK, Distinct, user
  <2> QED BY <2>3, <2>4
<1>7. ASSUME SyncMap PROVE Shape'
  <2>1. PICK c : c = ClassFor(rules, exes[wk].path)
    OBVIOUS
  <2>2. PICK id \in InternId(c) : exe2class' = Assign(exe2class, exes[wk].exe, id)
    BY <1>7, <2>1 DEF SyncMap
  <2>3. wk \in DOMAIN exes /\ InternId(c) \cap (0 .. Len(cls)) # {}
    BY <1>1, <1>7, <2>1 DEF SyncMap, ProgramsPlaced
  <2>4. id \in 0 .. MaxClasses
    <3>1. id \in 0 .. Len(cls) /\ Len(cls) \in Nat
      BY <1>1, <2>3, InternFound
    <3> QED BY <1>1, <3>1
  <2>5. exes[wk].exe \in Programs
    <3>1. exes[wk] \in Known
      BY <1>1, <2>3
    <3> QED BY <3>1 DEF Known
  <2>6. /\ DOMAIN exe2class' = DOMAIN exe2class \cup {exes[wk].exe}
        /\ \A x \in DOMAIN exe2class' :
             exe2class'[x] = IF x = exes[wk].exe THEN id ELSE exe2class[x]
    BY <2>2 DEF Assign
  <2>7. /\ DOMAIN exe2class' \subseteq Programs
        /\ \A x \in DOMAIN exe2class' : exe2class'[x] \in 0 .. MaxClasses
    BY <2>4, <2>5, <2>6 DEF Shape, TypeOK
  <2>8. \A x \in DOMAIN exe2class' : \E k \in DOMAIN exes : exes[k].exe = x
    BY <2>3, <2>6 DEF Shape
  <2>9. wk' \in Nat /\ wk' # 0
    BY <1>1, <1>7 DEF SyncMap
  <2> QED BY <1>7, <2>7, <2>8, <2>9 DEF SyncMap, Shape, TypeOK, Distinct, user
<1>8. ASSUME SyncFlags PROVE Shape'
  <2>1. classes' \in [0 .. MaxClasses -> Classes]
    <3>1. NoRules \in Classes
      BY DEF NoRules, Classes
    <3> QED BY <1>1, <1>8, <3>1 DEF SyncFlags
  <2>2. cfg' \in [enabled : BOOLEAN, dnsTap : BOOLEAN, via : BOOLEAN]
    BY <1>1, <1>8 DEF SyncFlags, HasDomainRules
  <2> QED BY <1>8, <2>1, <2>2 DEF SyncFlags, Shape, TypeOK, Distinct, user
<1>9. ASSUME SyncReadVia PROVE Shape'
  BY <1>9 DEF SyncReadVia, Shape, TypeOK, Distinct, user, kern
<1>10. ASSUME SyncWriteVia PROVE Shape'
  <2>1. cfg' \in [enabled : BOOLEAN, dnsTap : BOOLEAN, via : BOOLEAN]
    BY <1>1, <1>10 DEF SyncWriteVia, Shape, TypeOK
  <2> QED BY <1>10, <2>1 DEF SyncWriteVia, Shape, TypeOK, Distinct, user
<1>11. ASSUME SyncClear PROVE Shape'
  BY <1>11 DEF SyncClear, Shape, TypeOK, Distinct, user
<1>12. ASSUME SyncArm PROVE Shape'
  <2>1. hit' \subseteq (1 .. MaxRules) \X V4s
    BY <1>12, <1>1, ArmAllTyped DEF SyncArm, Shape, TypeOK
  <2> QED BY <1>12, <2>1 DEF SyncArm, Shape, TypeOK, Distinct, user
<1> QED BY <1>2, <1>3, <1>4, <1>5, <1>6, <1>7, <1>8, <1>9, <1>10, <1>11, <1>12 DEF Sync

\* So do the maintenance thread, the relay and the environment.
LEMMA ShapeOthers ==
  ASSUME Shape, ClassesWritten,
         \/ Maint \/ Relay \/ WriteVia \/ (\E on \in BOOLEAN : StoreVia(on))
         \/ (\E e \in Programs, path \in Paths : Rename(e, path))
  PROVE  Shape'
<1> USE DatapathAssumption
<1>1. /\ rules \in Seq(Rules) /\ Len(rules) \in Nat /\ Len(rules) <= MaxRules
      /\ cls \in Seq(Classes) /\ Len(cls) <= MaxClasses
      /\ classes \in [0 .. MaxClasses -> Classes]
      /\ dns \in Seq(Entries) /\ Len(dns) <= DnsMax /\ Distinct(dns)
      /\ hit \subseteq (1 .. MaxRules) \X V4s
      /\ cfg \in [enabled : BOOLEAN, dnsTap : BOOLEAN, via : BOOLEAN]
  BY DEF Shape, TypeOK
<1>2. ASSUME NEW ip \in V4s, NEW names \in SUBSET Names, Record(ip, names)
      PROVE  /\ dns' \in Seq(Entries) /\ Len(dns') <= DnsMax /\ Distinct(dns')
             /\ \A k \in DOMAIN dns' : dns'[k].ip \notin Unlearned
  <2>1. /\ ip \notin Unlearned /\ \E ns \in SUBSET Names : dns' = AddMapping(dns, ip, ns)
        /\ \A k \in DOMAIN dns : dns[k].ip \notin Unlearned
    BY <1>1, <1>2, RecordMaps DEF Shape
  <2>2. PICK ns \in SUBSET Names : dns' = AddMapping(dns, ip, ns)
    BY <2>1
  <2>3. PICK u : u = dns'
    OBVIOUS
  <2>4. u = AddMapping(dns, ip, ns)
    BY <2>2, <2>3
  <2>5. /\ u \in Seq(Entries) /\ Len(u) <= DnsMax /\ Distinct(u)
        /\ \A k \in DOMAIN u : u[k].ip \notin Unlearned
    BY <1>1, <2>1, <2>4, RecordedTyped
  <2> QED BY <2>3, <2>5 DEF Distinct
<1>3. ASSUME NEW ip \in V4s, NEW names \in SUBSET Names, MaintHosts(ip, names) PROVE Shape'
  <2>1. /\ dns' \in Seq(Entries) /\ Len(dns') <= DnsMax /\ Distinct(dns')
        /\ \A k \in DOMAIN dns' : dns'[k].ip \notin Unlearned
    BY <1>2, <1>3 DEF MaintHosts
  <2> QED BY <1>3, <2>1 DEF MaintHosts, Shape, TypeOK, Distinct, user, kern
<1>4. ASSUME MaintClear PROVE Shape'
  BY <1>4 DEF MaintClear, Shape, TypeOK, Distinct, user
<1>5. ASSUME MaintArm PROVE Shape'
  <2>1. hit' \subseteq (1 .. MaxRules) \X V4s
    BY <1>5, <1>1, ArmAllTyped DEF MaintArm
  <2> QED BY <1>5, <2>1 DEF MaintArm, Shape, TypeOK, Distinct, user
<1>6. ASSUME NEW ip \in V4s, NEW names \in SUBSET Names, Observe(ip, names) PROVE Shape'
  <2>1. /\ dns' \in Seq(Entries) /\ Len(dns') <= DnsMax /\ Distinct(dns')
        /\ \A k \in DOMAIN dns' : dns'[k].ip \notin Unlearned
    BY <1>2, <1>6 DEF Observe
  <2>2. obs' = {[ip |-> ip, names |-> names]} /\ [ip |-> ip, names |-> names] \in Entries
    BY <1>6 DEF Observe, Entries
  <2>3. ip \notin Unlearned
    BY <1>6 DEF Observe, Record
  <2>4. obs' \subseteq Entries /\ (\A a, b \in obs' : a = b) /\ \A a \in obs' : a.ip \notin Unlearned
    BY <2>2, <2>3
  <2> QED BY <1>6, <2>1, <2>4 DEF Observe, Shape, TypeOK, Distinct, user, kern
<1>7. ASSUME ObserveArm PROVE Shape'
  <2>1. PICK a \in obs : hit' = hit \cup Armed(rules, a.ip, NamesOf(dns, a.ip))
    BY <1>7 DEF ObserveArm
  <2>2. a \in Entries /\ a.ip \in V4s
    BY DEF Shape, TypeOK, Entries
  <2>3. hit' \subseteq (1 .. MaxRules) \X V4s
    BY <1>1, <2>1, <2>2, ArmedTyped
  <2> QED BY <1>7, <2>3 DEF ObserveArm, Shape, TypeOK, Distinct, user
<1>8. ASSUME NEW e \in Programs, NEW path \in Paths, Learn(e, path) PROVE Shape'
  <2>1. PICK c : c = ClassFor(rules, path)
    OBVIOUS
  <2>2. c \in Classes
    BY <1>1, <2>1, ClassTyped
  <2>3. /\ exes' \in Seq(Known) /\ Len(exes') <= MaxPrograms
        /\ \A j, k \in DOMAIN exes' : exes'[j].exe = exes'[k].exe => j = k
        /\ \A k \in DOMAIN exes : k \in DOMAIN exes' /\ exes'[k] = exes[k]
        /\ Len(exes) + 1 \in DOMAIN exes' /\ exes'[Len(exes) + 1] = [exe |-> e, path |-> path]
    BY <1>8, AddProgramTyped DEF Learn
  <2>4. \A x \in DOMAIN exe2class : \E k \in DOMAIN exes' : exes'[k].exe = x
    BY <2>3 DEF Shape
  <2>5. \E k \in DOMAIN exes' : exes'[k].exe = e
    BY <2>3
  <2>6. CASE InternId(c) = {}
    <3>1. exe2class' = Forget(exe2class, e) /\ UNCHANGED <<cls, classes>>
      BY <1>8, <2>1, <2>6 DEF Learn
    <3>2. /\ DOMAIN exe2class' \subseteq DOMAIN exe2class
          /\ \A x \in DOMAIN exe2class' : exe2class'[x] = exe2class[x]
      BY <3>1 DEF Forget
    <3> QED BY <1>8, <2>3, <2>4, <3>1, <3>2 DEF Learn, Shape, TypeOK, Distinct, user
  <2>7. CASE InternId(c) # {}
    <3>1. PICK id \in InternId(c) : /\ classes' = [classes EXCEPT ![id] = c]
                                    /\ exe2class' = Assign(exe2class, e, id)
                                    /\ cls' = Interned(c)
      BY <1>8, <2>1, <2>7 DEF Learn
    <3>2. /\ id \in 0 .. MaxClasses
          /\ cls' \in Seq(Classes) /\ Len(cls') <= MaxClasses
          /\ classes' \in [0 .. MaxClasses -> Classes]
      BY <1>1, <2>2, <3>1, InternKeeps
    <3>3. /\ DOMAIN exe2class' = DOMAIN exe2class \cup {e}
          /\ \A x \in DOMAIN exe2class' : exe2class'[x] = IF x = e THEN id ELSE exe2class[x]
      BY <3>1 DEF Assign
    <3>4. /\ DOMAIN exe2class' \subseteq Programs
          /\ \A x \in DOMAIN exe2class' : exe2class'[x] \in 0 .. MaxClasses
      BY <3>2, <3>3 DEF Shape, TypeOK
    <3>5. \A x \in DOMAIN exe2class' : \E k \in DOMAIN exes' : exes'[k].exe = x
      BY <2>4, <2>5, <3>3
    <3> QED BY <1>8, <2>3, <3>2, <3>4, <3>5 DEF Learn, Shape, TypeOK, Distinct, user
  <2> QED BY <2>6, <2>7
<1>9. ASSUME WriteVia PROVE Shape'
  <2>1. cfg' \in [enabled : BOOLEAN, dnsTap : BOOLEAN, via : BOOLEAN]
    BY <1>1, <1>9 DEF WriteVia, Shape, TypeOK
  <2> QED BY <1>9, <2>1 DEF WriteVia, Shape, TypeOK, Distinct, user
<1>10. ASSUME NEW on \in BOOLEAN, StoreVia(on) PROVE Shape'
  BY <1>10 DEF StoreVia, Shape, TypeOK, Distinct, user, kern
<1>11. ASSUME NEW e \in Programs, NEW path \in Paths, Rename(e, path) PROVE Shape'
  BY <1>11 DEF Rename, Shape, TypeOK, Distinct, user, kern
<1> QED BY <1>3, <1>4, <1>5, <1>6, <1>7, <1>8, <1>9, <1>10, <1>11 DEF Maint, Relay

-----------------------------------------------------------------------------
(* What is written *)

LEMMA WrittenInit == Init => Ids /\ Written /\ SwitchesWritten /\ PairsWritten
<1> SUFFICES ASSUME Init PROVE Ids /\ Written /\ SwitchesWritten /\ PairsWritten
  OBVIOUS
<1> USE DatapathAssumption
<1>1. Ids
  BY DEF Init, Ids
<1>2. RulesWritten /\ ClassesWritten
  BY DEF Init, RulesWritten, ClassesWritten, Installed
<1>3. ProgramsPlaced
  BY DEF Init, ProgramsPlaced
<1>4. SwitchesWritten
  BY DEF Init, SwitchesWritten, HasDomainRules, Settled
<1>5. ArmAll(rules, dns) = {}
  BY DEF Init, ArmAll
<1>6. PairsWritten
  BY <1>5 DEF Init, PairsWritten
<1> QED BY <1>1, <1>2, <1>3, <1>4, <1>6 DEF Written

\* A call makes the writer start over: nothing is claimed of it yet.
LEMMA ApiStarts ==
  ASSUME ApiCall
  PROVE  /\ wpc = "idle" /\ maint # "foreach" /\ (TwoCallers \/ apc = "idle")
         /\ wpc' = "rules" /\ wk' = 1
         /\ UNCHANGED <<via, dns, exes, cls, kern, wv, apc, maint, obs, pathOf>>
BY DEF ApiCall, AddProxy, EditProxy, DeleteProxy, ClearProxies, SetDefaultProxy, AddRule,
       EditRule, SetEnabled, DeleteRule, MoveRule, ClearRules, SetRules, SetProxies, Call

\* Proxy ids: only AddProxy gives one out.
LEMMA IdsKept == ASSUME Shape, Ids, [Next]_vars PROVE Ids'
<1> USE DatapathAssumption
<1>1. /\ proxies \in Seq(Proxies) /\ Len(proxies) \in Nat /\ nextId \in Nat \ {0}
      /\ DOMAIN proxies = 1 .. Len(proxies)
  BY DEF Shape, TypeOK
<1>2. CASE UNCHANGED <<proxies, nextId>>
  BY <1>2 DEF Ids
<1>3. ASSUME NEW http \in BOOLEAN, AddProxy(http) PROVE Ids'
  <2>1. PICK p : p = [id |-> nextId, http |-> http]
    OBVIOUS
  <2>2. p \in Proxies /\ p.id = nextId
    BY <1>1, <2>1 DEF Proxies
  <2>3. proxies' = Append(proxies, p) /\ nextId' = nextId + 1 /\ nextId <= MaxId
    BY <1>3, <2>1 DEF AddProxy, SetProxies
  <2>4. /\ Len(proxies') = Len(proxies) + 1 /\ proxies' \in Seq(Proxies)
        /\ \A k \in 1 .. Len(proxies) : proxies'[k] = proxies[k]
        /\ proxies'[Len(proxies) + 1] = p
    BY <1>1, <2>2, <2>3, AppendProperties
  <2>5. ASSUME NEW k \in DOMAIN proxies' PROVE proxies'[k].id < nextId'
    <3>1. k \in 1 .. Len(proxies) + 1
      BY <2>4
    <3>2. CASE k = Len(proxies) + 1
      BY <3>2, <2>2, <2>3, <2>4, <1>1
    <3>3. CASE k # Len(proxies) + 1
      <4>1. k \in DOMAIN proxies
        BY <3>1, <3>3, <1>1
      <4>2. proxies[k] \in Proxies
        BY <4>1, <1>1
      <4>3. proxies[k].id \in Nat /\ proxies[k].id < nextId
        BY <4>1, <4>2 DEF Ids, Proxies
      <4>4. proxies'[k] = proxies[k]
        BY <4>1, <2>4, <1>1
      <4> QED BY <4>3, <4>4, <2>3, <1>1
    <3> QED BY <3>2, <3>3
  <2>6. nextId' <= MaxId + 1
    BY <2>3, <1>1
  <2> QED BY <2>5, <2>6 DEF Ids
<1>4. ASSUME NEW http \in BOOLEAN, NEW i \in DOMAIN proxies, EditProxy(i, http) PROVE Ids'
  <2>1. proxies' = [proxies EXCEPT ![i].http = http] /\ nextId' = nextId
    BY <1>4 DEF EditProxy, SetProxies
  <2>2. \A k \in DOMAIN proxies : proxies[k] \in Proxies
    BY <1>1
  <2>3. \A k \in DOMAIN proxies' : k \in DOMAIN proxies /\ proxies'[k].id = proxies[k].id
    BY <1>1, <2>1, <2>2 DEF Proxies
  <2> QED BY <2>1, <2>3 DEF Ids
<1>5. ASSUME NEW i \in DOMAIN proxies, DeleteProxy(i) PROVE Ids'
  <2>1. proxies' = Without(proxies, i) /\ nextId' = nextId
    BY <1>5 DEF DeleteProxy, SetProxies
  <2>2. /\ proxies' \in Seq(Proxies) /\ Len(proxies') = Len(proxies) - 1
        /\ \A j \in 1 .. Len(proxies) - 1 :
             proxies'[j] = IF j < i THEN proxies[j] ELSE proxies[j + 1]
    BY <1>1, <2>1, WithoutOne
  <2>3. ASSUME NEW k \in DOMAIN proxies' PROVE proxies'[k].id < nextId
    <3>1. k \in 1 .. Len(proxies) - 1 /\ k \in DOMAIN proxies /\ k + 1 \in DOMAIN proxies
      BY <2>2, <1>1
    <3> QED BY <3>1, <2>2 DEF Ids
  <2> QED BY <2>1, <2>3 DEF Ids
<1>6. ASSUME ClearProxies PROVE Ids'
  BY <1>6 DEF ClearProxies, SetProxies, Ids
<1>7. CASE ApiCall
  <2>1. CASE \E id \in 0 .. MaxId : SetDefaultProxy(id)
    BY <1>2, <2>1 DEF SetDefaultProxy
  <2>2. CASE \/ \E text \in Texts : AddRule(text) \/ \E i \in DOMAIN rules : EditRule(i, text)
             \/ \E i \in DOMAIN rules, on \in BOOLEAN : SetEnabled(i, on)
             \/ \E i \in DOMAIN rules : DeleteRule(i)
             \/ \E i, j \in DOMAIN rules : MoveRule(i, j)
             \/ ClearRules
    BY <1>2, <2>2 DEF AddRule, EditRule, SetEnabled, DeleteRule, MoveRule, ClearRules, SetRules
  <2> QED BY <1>3, <1>4, <1>5, <1>6, <1>7, <2>1, <2>2 DEF ApiCall
<1>8. CASE Sync
  BY <1>2, <1>8 DEF Sync, SyncRule, SyncRulesEnd, ScanProgram, ScanEnd, SyncClass, SyncMap,
     SyncFlags, SyncReadVia, SyncWriteVia, SyncClear, SyncArm, user
<1>9. CASE \/ Maint \/ Relay \/ WriteVia \/ (\E on \in BOOLEAN : StoreVia(on))
           \/ (\E e \in Programs, path \in Paths : Rename(e, path))
  BY <1>2, <1>9 DEF Maint, MaintHosts, MaintClear, MaintArm, Relay, Observe, ObserveArm, Learn,
     WriteVia, StoreVia, Rename, user
<1>10. CASE UNCHANGED vars
  BY <1>2, <1>10 DEF vars, user
<1> QED BY <1>7, <1>8, <1>9, <1>10 DEF Next

\* The compiled rules: written one by one, and stale only while a call is in progress.
LEMMA RulesKept == ASSUME Shape, RulesWritten, [Next]_vars PROVE RulesWritten'
<1>1. /\ rules \in Seq(Rules) /\ Len(rules) \in Nat /\ Len(rules) <= MaxRules
      /\ DOMAIN rules = 1 .. Len(rules)
      /\ brs \in [1 .. MaxRules -> BRules] /\ wk \in Nat /\ wk # 0 /\ MaxRules \in Nat
  BY DatapathAssumption DEF Shape, TypeOK
<1>2. CASE ApiCall
  <2>1. wpc' = "rules" /\ wk' = 1
    BY <1>2, ApiStarts
  <2>2. Shape'
    BY <1>2, ShapeApi
  <2>3. \A i \in DOMAIN rules' : ~(i < wk')
    BY <2>1, <2>2 DEF Shape, TypeOK
  <2> QED BY <2>1, <2>3 DEF RulesWritten
<1>3. CASE SyncRule
  <2>1. /\ wpc = "rules" /\ wpc' = "rules" /\ wk' = wk + 1 /\ wk <= Len(rules)
        /\ UNCHANGED <<rules, proxies, default>>
        /\ brs' = [brs EXCEPT ![wk] = Compile(rules[wk], proxies, default)]
    BY <1>3 DEF SyncRule, user
  <2>2. wk \in 1 .. MaxRules /\ \A i \in DOMAIN rules : i \in 1 .. MaxRules
    BY <1>1, <2>1
  <2>3. ASSUME NEW i \in DOMAIN rules, i < wk + 1
        PROVE  brs'[i] = Compile(rules[i], proxies, default)
    <3>1. CASE i = wk
      BY <1>1, <2>1, <2>2, <3>1
    <3>2. CASE i # wk
      <4>1. i < wk
        BY <1>1, <2>3, <3>2
      <4> QED BY <1>1, <2>1, <2>2, <3>2, <4>1 DEF RulesWritten
    <3> QED BY <3>1, <3>2
  <2> QED BY <2>1, <2>3 DEF RulesWritten
<1>4. CASE SyncRulesEnd
  <2>1. wpc = "rules" /\ wk > Len(rules) /\ UNCHANGED <<rules, proxies, default, brs>>
    BY <1>4 DEF SyncRulesEnd, user, kern
  <2>2. \A i \in DOMAIN rules : i < wk
    BY <1>1, <2>1
  <2> QED BY <2>1, <2>2 DEF RulesWritten
<1>5. CASE wpc # "rules" /\ wpc' # "rules" /\ UNCHANGED <<rules, proxies, default, brs>>
  BY <1>5 DEF RulesWritten
<1>6. CASE Sync /\ ~SyncRule /\ ~SyncRulesEnd
  BY <1>5, <1>6 DEF Sync, ScanProgram, ScanEnd, SyncClass, SyncMap, SyncFlags, SyncReadVia,
     SyncWriteVia, SyncClear, SyncArm, user, kern
<1>7. CASE UNCHANGED <<rules, proxies, default, brs, wpc, wk>>
  BY <1>7 DEF RulesWritten
<1>8. CASE \/ Maint \/ Relay \/ WriteVia \/ (\E on \in BOOLEAN : StoreVia(on))
           \/ (\E e \in Programs, path \in Paths : Rename(e, path))
  BY <1>7, <1>8 DEF Maint, MaintHosts, MaintClear, MaintArm, Relay, Observe, ObserveArm, Learn,
     WriteVia, StoreVia, Rename, user, kern
<1>9. CASE UNCHANGED vars
  BY <1>7, <1>9 DEF vars, user, kern
<1> QED BY <1>2, <1>3, <1>4, <1>6, <1>8, <1>9 DEF Next

\* The interned classes: rebuilt at every synchronisation, never moved in between.
LEMMA ClassesKept == ASSUME Shape, ClassesWritten, [Next]_vars PROVE ClassesWritten'
<1>1. /\ rules \in Seq(Rules) /\ cls \in Seq(Classes) /\ Len(cls) <= MaxClasses
      /\ classes \in [0 .. MaxClasses -> Classes] /\ 0 \in 0 .. MaxClasses
      /\ DOMAIN cls = 1 .. Len(cls)
  BY DatapathAssumption DEF Shape, TypeOK
<1>2. CASE UNCHANGED <<cls, classes>>
  BY <1>2 DEF ClassesWritten, Installed
<1>3. CASE ScanEnd
  <2>1. cls' = <<>> /\ classes' = classes
    BY <1>3 DEF ScanEnd, kern
  <2> QED BY <2>1 DEF ClassesWritten, Installed
<1>4. ASSUME NEW c \in Classes, NEW id \in InternId(c),
             classes' = [classes EXCEPT ![id] = c], cls' = Interned(c)
      PROVE  ClassesWritten'
  <2>1. PICK C : C = Interned(c)
    OBVIOUS
  <2>2. PICK K : K = [classes EXCEPT ![id] = c]
    OBVIOUS
  <2>3. Installed(K, C)
    BY <1>1, <2>1, <2>2, InternKeeps
  <2>4. cls' = C /\ classes' = K
    BY <1>4, <2>1, <2>2
  <2> QED BY <2>3, <2>4 DEF ClassesWritten, Installed
<1>c. \A path : ClassFor(rules, path) \in Classes
  BY <1>1, ClassTyped
<1>5. CASE SyncClass
  BY <1>2, <1>4, <1>5, <1>c DEF SyncClass
<1>6. CASE SyncFlags
  <2>1. classes' = [classes EXCEPT ![0] = NoRules] /\ cls' = cls
    BY <1>6 DEF SyncFlags
  <2>2. classes' = classes
    BY <1>1, <2>1 DEF ClassesWritten, Installed
  <2> QED BY <1>2, <2>1, <2>2
<1>7. CASE \E e \in Programs, path \in Paths : Learn(e, path)
  BY <1>2, <1>4, <1>7, <1>c DEF Learn
<1>8. CASE ApiCall
  BY <1>2, <1>8, ApiStarts DEF kern
<1>9. CASE Sync /\ ~ScanEnd /\ ~SyncClass /\ ~SyncFlags
  BY <1>2, <1>9 DEF Sync, SyncRule, SyncRulesEnd, ScanProgram, SyncMap, SyncReadVia,
     SyncWriteVia, SyncClear, SyncArm, kern
<1>10. CASE \/ Maint \/ ObserveArm \/ WriteVia \/ (\E on \in BOOLEAN : StoreVia(on))
            \/ (\E ip \in V4s, names \in SUBSET Names : Observe(ip, names))
            \/ (\E e \in Programs, path \in Paths : Rename(e, path))
  BY <1>2, <1>10 DEF Maint, MaintHosts, MaintClear, MaintArm, Observe, ObserveArm, WriteVia,
     StoreVia, Rename, kern
<1>11. CASE UNCHANGED vars
  BY <1>2, <1>11 DEF vars, kern
<1> QED BY <1>3, <1>5, <1>6, <1>7, <1>8, <1>9, <1>10, <1>11 DEF Next, Relay

\* What a program's entry says does not change while the entry, the classes interned so far
\* and the rules stay.
LEMMA StaysPlaced ==
  ASSUME NEW k, Placed(k), exes'[k] = exes[k], rules' = rules,
         Len(cls) \in Nat, Len(cls') \in Nat, Len(cls) <= Len(cls'),
         \A j \in 0 .. Len(cls) : classes'[j] = classes[j],
         exes[k].exe \in DOMAIN exe2class' => /\ exes[k].exe \in DOMAIN exe2class
                                              /\ exe2class'[exes[k].exe] = exe2class[exes[k].exe]
  PROVE  Placed(k)'
<1> SUFFICES ASSUME exes'[k].exe \in DOMAIN exe2class'
             PROVE  /\ exe2class'[exes'[k].exe] \in 0 .. Len(cls')
                    /\ classes'[exe2class'[exes'[k].exe]] = ClassFor(rules', exes'[k].path)
  BY DEF Placed
<1>1. PICK id : id = exe2class[exes[k].exe]
  OBVIOUS
<1>2. id \in 0 .. Len(cls) /\ classes[id] = ClassFor(rules, exes[k].path)
  BY <1>1 DEF Placed
<1>3. exe2class'[exes'[k].exe] = id
  BY <1>1
<1>4. id \in 0 .. Len(cls') /\ classes'[id] = ClassFor(rules', exes'[k].path)
  BY <1>2
<1> QED BY <1>3, <1>4

\* Every program has its class, or none, once the writer has passed it.
LEMMA PlacedKept ==
  ASSUME Shape, ClassesWritten, ProgramsPlaced, [Next]_vars PROVE ProgramsPlaced'
<1>1. /\ rules \in Seq(Rules) /\ cls \in Seq(Classes) /\ Len(cls) <= MaxClasses
      /\ classes \in [0 .. MaxClasses -> Classes] /\ Len(cls) \in Nat
      /\ exes \in Seq(Known) /\ Len(exes) \in Nat /\ DOMAIN exes = 1 .. Len(exes)
      /\ wk \in Nat /\ wk # 0
      /\ \A j, k \in DOMAIN exes : exes[j].exe = exes[k].exe => j = k
  BY DEF Shape, TypeOK
<1>2. CASE wpc' \in {"rules", "scan"}
  BY <1>2 DEF ProgramsPlaced, Settled
<1>3. CASE ApiCall
  BY <1>2, <1>3, ApiStarts
<1>4. CASE SyncRule \/ SyncRulesEnd \/ (\E e \in Programs : ScanProgram(e))
  BY <1>2, <1>4 DEF SyncRule, SyncRulesEnd, ScanProgram
<1>5. CASE ScanEnd
  <2>1. wpc' = "class" /\ wk' = 1 /\ exes' = exes
    BY <1>5 DEF ScanEnd
  <2>2. \A k \in DOMAIN exes : ~(k < 1)
    BY <1>1
  <2> QED BY <2>1, <2>2 DEF ProgramsPlaced, Settled
<1>6. CASE SyncClass
  <2>1. PICK c : c = ClassFor(rules, exes[wk].path)
    OBVIOUS
  <2>2. wpc = "class" /\ wk <= Len(exes) /\ UNCHANGED <<rules, exes>>
    BY <1>6 DEF SyncClass, user
  <2>3. c \in Classes /\ wk \in DOMAIN exes
    BY <1>1, <2>1, <2>2, ClassTyped
  <2>4. CASE InternId(c) = {}
    <3>1. /\ exe2class' = Forget(exe2class, exes[wk].exe) /\ wk' = wk + 1
          /\ UNCHANGED <<cls, classes, wpc>>
      BY <1>6, <2>1, <2>4 DEF SyncClass
    <3>2. /\ DOMAIN exe2class' = DOMAIN exe2class \ {exes[wk].exe}
          /\ \A x \in DOMAIN exe2class' : exe2class'[x] = exe2class[x]
      BY <3>1 DEF Forget
    <3>3. ASSUME NEW k \in DOMAIN exes, k < wk + 1 PROVE Placed(k)'
      <4>1. CASE k = wk
        BY <2>2, <3>2, <4>1 DEF Placed
      <4>2. CASE k # wk
        <5>1. k < wk
          BY <1>1, <3>3, <4>2
        <5>2. Placed(k)
          BY <2>2, <5>1 DEF ProgramsPlaced
        <5> QED BY <1>1, <2>2, <3>1, <3>2, <5>2, StaysPlaced
      <4> QED BY <4>1, <4>2
    <3> QED BY <2>2, <3>1, <3>3 DEF ProgramsPlaced, Settled
  <2>5. CASE InternId(c) # {}
    <3>1. /\ \E id \in InternId(c) : classes' = [classes EXCEPT ![id] = c]
          /\ cls' = Interned(c) /\ wpc' = "map" /\ UNCHANGED <<exe2class, wk>>
      BY <1>6, <2>1, <2>5 DEF SyncClass
    <3>2. PICK id \in InternId(c) : classes' = [classes EXCEPT ![id] = c]
      BY <3>1
    <3>3. /\ id \in 0 .. Len(cls') /\ cls' \in Seq(Classes) /\ Len(cls) <= Len(cls')
          /\ \A j \in 0 .. Len(cls) : classes'[j] = classes[j]
          /\ (id = 0 /\ c = NoRules) \/ (id \in DOMAIN cls' /\ cls'[id] = c)
      BY <1>1, <2>3, <3>1, <3>2, InternKeeps
    <3>4. ASSUME NEW k \in DOMAIN exes, k < wk PROVE Placed(k)'
      <4>1. Placed(k)
        BY <2>2, <3>4 DEF ProgramsPlaced
      <4> QED BY <1>1, <2>2, <3>1, <3>3, <4>1, StaysPlaced
    <3>5. id \in InternId(c)'
      BY <3>3 DEF InternId
    <3>6. InternId(ClassFor(rules, exes[wk].path))' \cap (0 .. Len(cls')) # {}
      <4>1. ClassFor(rules', exes'[wk'].path) = c
        BY <2>1, <2>2, <3>1
      <4> QED BY <3>3, <3>5, <4>1 DEF InternId
    <3> QED BY <2>2, <3>1, <3>4, <3>6 DEF ProgramsPlaced, Settled
  <2> QED BY <2>4, <2>5
<1>7. CASE SyncMap
  <2>1. PICK c : c = ClassFor(rules, exes[wk].path)
    OBVIOUS
  <2>2. PICK id \in InternId(c) : exe2class' = Assign(exe2class, exes[wk].exe, id)
    BY <1>7, <2>1 DEF SyncMap
  <2>3. /\ wpc = "map" /\ wpc' = "class" /\ wk' = wk + 1
        /\ UNCHANGED <<rules, exes, cls, classes>>
    BY <1>7 DEF SyncMap, user
  <2>4. wk \in DOMAIN exes /\ InternId(c) \cap (0 .. Len(cls)) # {}
    BY <1>1, <2>1, <2>3 DEF ProgramsPlaced
  <2>5. id \in 0 .. Len(cls) /\ classes[id] = c
    BY <1>1, <2>4, InternFound
  <2>6. /\ DOMAIN exe2class' = DOMAIN exe2class \cup {exes[wk].exe}
        /\ \A x \in DOMAIN exe2class' :
             exe2class'[x] = IF x = exes[wk].exe THEN id ELSE exe2class[x]
    BY <2>2 DEF Assign
  <2>7. ASSUME NEW k \in DOMAIN exes, k < wk + 1 PROVE Placed(k)'
    <3>1. CASE k = wk
      BY <2>1, <2>3, <2>5, <2>6, <3>1 DEF Placed
    <3>2. CASE k # wk
      <4>1. k < wk /\ exes[k].exe # exes[wk].exe
        <5>1. k < wk
          BY <1>1, <2>7, <3>2
        <5> QED BY <1>1, <2>4, <3>2, <5>1
      <4>2. Placed(k)
        BY <2>3, <4>1 DEF ProgramsPlaced
      <4> QED BY <1>1, <2>3, <2>6, <4>1, <4>2, StaysPlaced
    <3> QED BY <3>1, <3>2
  <2> QED BY <2>3, <2>7 DEF ProgramsPlaced, Settled
<1>8. CASE SyncFlags
  <2>1. /\ wpc = "class" /\ wk > Len(exes) /\ wpc' = "via"
        /\ classes' = [classes EXCEPT ![0] = NoRules]
        /\ UNCHANGED <<rules, exes, cls, exe2class>>
    BY <1>8 DEF SyncFlags, user
  <2>2. classes' = classes
    BY <1>1, <2>1 DEF ClassesWritten, Installed
  <2>3. ASSUME NEW k \in DOMAIN exes PROVE Placed(k)'
    <3>1. Placed(k)
      BY <1>1, <2>1 DEF ProgramsPlaced
    <3> QED BY <2>1, <2>2, <3>1 DEF Placed
  <2> QED BY <2>1, <2>3 DEF ProgramsPlaced
<1>9. CASE wpc \in Settled /\ wpc' \in Settled /\ UNCHANGED <<rules, exes, cls, classes, exe2class>>
  <2>1. ASSUME NEW k \in DOMAIN exes PROVE Placed(k)'
    <3>1. Placed(k)
      BY <1>9 DEF ProgramsPlaced
    <3> QED BY <1>9, <3>1 DEF Placed
  <2> QED BY <1>9, <2>1 DEF ProgramsPlaced, Settled
<1>10. CASE SyncReadVia \/ SyncWriteVia \/ SyncClear \/ SyncArm
  BY <1>9, <1>10 DEF SyncReadVia, SyncWriteVia, SyncClear, SyncArm, Settled, user, kern
<1>11. ASSUME NEW e \in Programs, NEW path \in Paths, Learn(e, path) PROVE ProgramsPlaced'
  <2>1. wpc = "idle" /\ wpc' = "idle" /\ AddProgram(e, path) /\ rules' = rules
    BY <1>11 DEF Learn, user
  <2>2. /\ \A k \in DOMAIN exes' :
             k \in DOMAIN exes \/ (k = Len(exes) + 1 /\ exes'[k] = [exe |-> e, path |-> path])
        /\ \A k \in DOMAIN exes : exes'[k] = exes[k] /\ exes[k].exe # e
    BY <2>1, AddProgramTyped
  <2>3. \A k \in DOMAIN exes : Placed(k)
    BY <2>1 DEF ProgramsPlaced, Settled
  <2>4. PICK c : c = ClassFor(rules, path)
    OBVIOUS
  <2>5. c \in Classes
    BY <1>1, <2>4, ClassTyped
  <2>6. CASE InternId(c) = {}
    <3>1. exe2class' = Forget(exe2class, e) /\ UNCHANGED <<cls, classes>>
      BY <1>11, <2>4, <2>6 DEF Learn
    <3>2. /\ DOMAIN exe2class' = DOMAIN exe2class \ {e}
          /\ \A x \in DOMAIN exe2class' : exe2class'[x] = exe2class[x]
      BY <3>1 DEF Forget
    <3>3. ASSUME NEW k \in DOMAIN exes' PROVE Placed(k)'
      <4>1. CASE k \in DOMAIN exes
        BY <1>1, <2>1, <2>2, <2>3, <3>1, <3>2, <4>1, StaysPlaced
      <4>2. CASE k \notin DOMAIN exes
        <5>1. exes'[k].exe = e
          BY <2>2, <4>2
        <5> QED BY <3>2, <5>1 DEF Placed
      <4> QED BY <4>1, <4>2
    <3> QED BY <2>1, <3>3 DEF ProgramsPlaced
  <2>7. CASE InternId(c) # {}
    <3>1. PICK id \in InternId(c) : /\ classes' = [classes EXCEPT ![id] = c]
                                    /\ exe2class' = Assign(exe2class, e, id)
                                    /\ cls' = Interned(c)
      BY <1>11, <2>4, <2>7 DEF Learn
    <3>2. /\ id \in 0 .. Len(cls') /\ cls' \in Seq(Classes) /\ Len(cls) <= Len(cls')
          /\ \A j \in 0 .. Len(cls) : classes'[j] = classes[j]
          /\ classes'[id] = c
      BY <1>1, <2>5, <3>1, InternKeeps
    <3>3. /\ DOMAIN exe2class' = DOMAIN exe2class \cup {e}
          /\ \A x \in DOMAIN exe2class' : exe2class'[x] = IF x = e THEN id ELSE exe2class[x]
      BY <3>1 DEF Assign
    <3>4. ASSUME NEW k \in DOMAIN exes' PROVE Placed(k)'
      <4>1. CASE k \in DOMAIN exes
        <5>1. /\ exes'[k] = exes[k] /\ Placed(k) /\ exes[k].exe # e
              /\ Len(cls') \in Nat
          BY <2>2, <2>3, <3>2, <4>1
        <5>2. exes[k].exe \in DOMAIN exe2class' =>
                /\ exes[k].exe \in DOMAIN exe2class
                /\ exe2class'[exes[k].exe] = exe2class[exes[k].exe]
          BY <3>3, <5>1
        <5> QED BY <1>1, <2>1, <3>2, <5>1, <5>2, StaysPlaced
      <4>2. CASE k \notin DOMAIN exes
        <5>1. exes'[k].exe = e /\ exes'[k].path = path
          BY <2>2, <4>2
        <5>2. exe2class'[e] = id
          BY <3>3
        <5> QED BY <2>1, <2>4, <3>2, <5>1, <5>2 DEF Placed
      <4> QED BY <4>1, <4>2
    <3> QED BY <2>1, <3>4 DEF ProgramsPlaced
  <2> QED BY <2>6, <2>7
<1>12. CASE UNCHANGED <<rules, exes, cls, classes, exe2class, wpc, wk>>
  <2>1. \A k : Placed(k)' <=> Placed(k)
    BY <1>12 DEF Placed
  <2>2. \A c : InternId(c)' = InternId(c)
    BY <1>12 DEF InternId
  <2> QED BY <1>12, <2>1, <2>2 DEF ProgramsPlaced
<1>13. CASE \/ Maint \/ ObserveArm \/ WriteVia \/ (\E on \in BOOLEAN : StoreVia(on))
            \/ (\E ip \in V4s, names \in SUBSET Names : Observe(ip, names))
            \/ (\E e \in Programs, path \in Paths : Rename(e, path))
  BY <1>12, <1>13 DEF Maint, MaintHosts, MaintClear, MaintArm, Observe, ObserveArm, WriteVia,
     StoreVia, Rename, user, kern
<1>14. CASE UNCHANGED vars
  BY <1>12, <1>14 DEF vars, user, kern
<1> QED BY <1>3, <1>4, <1>5, <1>6, <1>7, <1>8, <1>10, <1>11, <1>13, <1>14 DEF Next, Relay, Sync

\* One caller: the switches are written by nobody else while a call is in progress, and the
\* flag is not stored during one.
LEMMA SwitchesKept ==
  ASSUME ~TwoCallers, Shape, SwitchesWritten, [Next]_vars PROVE SwitchesWritten'
<1>1. /\ cfg \in [enabled : BOOLEAN, dnsTap : BOOLEAN, via : BOOLEAN]
      /\ apc \in {"idle", "set"}
  BY DEF Shape, TypeOK
<1>2. CASE ApiCall
  <2>1. /\ apc = "idle" /\ wpc' = "rules" /\ UNCHANGED <<via, cfg, apc>>
    BY <1>2, ApiStarts DEF kern
  <2> QED BY <2>1 DEF SwitchesWritten, Settled
<1>3. CASE /\ wpc' \notin Settled \cup {"flag"} /\ wpc # "idle"
           /\ UNCHANGED <<via, cfg, apc>>
  BY <1>1, <1>3 DEF SwitchesWritten, Settled
<1>4. CASE SyncRule \/ SyncRulesEnd \/ ScanEnd \/ SyncClass \/ SyncMap
           \/ \E e \in Programs : ScanProgram(e)
  BY <1>3, <1>4 DEF SyncRule, SyncRulesEnd, ScanEnd, SyncClass, SyncMap, ScanProgram, Settled, kern
<1>5. CASE SyncFlags
  <2>1. /\ wpc = "class" /\ wpc' = "via" /\ UNCHANGED <<rules, via, apc>>
        /\ cfg'.enabled = (\E i \in DOMAIN rules : rules[i].on)
        /\ cfg'.dnsTap = HasDomainRules /\ cfg'.via = cfg.via
    BY <1>1, <1>5 DEF SyncFlags, user
  <2>2. HasDomainRules' = HasDomainRules
    BY <2>1 DEF HasDomainRules
  <2> QED BY <2>1, <2>2 DEF SwitchesWritten
<1>6. CASE SyncReadVia
  <2>1. /\ wpc = "via" /\ wpc' = "flag" /\ wv' = via /\ UNCHANGED <<rules, via, apc, cfg>>
    BY <1>6 DEF SyncReadVia, user, kern
  <2>2. HasDomainRules' = HasDomainRules
    BY <2>1 DEF HasDomainRules
  <2> QED BY <2>1, <2>2 DEF SwitchesWritten, Settled
<1>7. CASE SyncWriteVia
  <2>1. /\ wpc = "flag" /\ wpc' = "clear" /\ UNCHANGED <<rules, via, apc>>
        /\ cfg'.enabled = cfg.enabled /\ cfg'.dnsTap = cfg.dnsTap /\ cfg'.via = wv
    BY <1>1, <1>7 DEF SyncWriteVia, user
  <2>2. HasDomainRules' = HasDomainRules
    BY <2>1 DEF HasDomainRules
  <2> QED BY <2>1, <2>2 DEF SwitchesWritten, Settled
<1>8. CASE SyncClear \/ SyncArm
  <2>1. /\ wpc \in {"clear", "foreach"} /\ wpc' \in {"foreach", "idle"}
        /\ UNCHANGED <<rules, via, apc, cfg>>
    BY <1>8 DEF SyncClear, SyncArm, user
  <2>2. HasDomainRules' = HasDomainRules
    BY <2>1 DEF HasDomainRules
  <2> QED BY <2>1, <2>2 DEF SwitchesWritten, Settled
<1>9. ASSUME NEW on \in BOOLEAN, StoreVia(on) PROVE SwitchesWritten'
  <2>1. /\ wpc = "idle" /\ apc' = "set" /\ UNCHANGED <<rules, wpc, cfg>>
    BY <1>9 DEF StoreVia, user, kern
  <2>2. HasDomainRules' = HasDomainRules
    BY <2>1 DEF HasDomainRules
  <2> QED BY <2>1, <2>2 DEF SwitchesWritten, Settled
<1>10. CASE WriteVia
  <2>1. /\ apc = "set" /\ apc' = "idle" /\ UNCHANGED <<rules, wpc, via>>
        /\ cfg'.enabled = cfg.enabled /\ cfg'.dnsTap = cfg.dnsTap /\ cfg'.via = via
    BY <1>1, <1>10 DEF WriteVia, user
  <2>2. HasDomainRules' = HasDomainRules
    BY <2>1 DEF HasDomainRules
  <2> QED BY <2>1, <2>2 DEF SwitchesWritten, Settled
<1>11. CASE UNCHANGED <<rules, via, apc, cfg, wpc, wv>>
  <2>1. HasDomainRules' = HasDomainRules
    BY <1>11 DEF HasDomainRules
  <2> QED BY <1>11, <2>1 DEF SwitchesWritten
<1>12. CASE \/ Maint \/ Relay \/ (\E e \in Programs, path \in Paths : Rename(e, path))
  BY <1>11, <1>12 DEF Maint, MaintHosts, MaintClear, MaintArm, Relay, Observe, ObserveArm, Learn,
     Rename, user, kern
<1>13. CASE UNCHANGED vars
  BY <1>11, <1>13 DEF vars, user, kern
<1> QED BY <1>2, <1>4, <1>5, <1>6, <1>7, <1>8, <1>9, <1>10, <1>12, <1>13 DEF Next, Sync

\* No pair is armed that should not be, and none is forgotten that is not being armed.
LEMMA PairsKept == ASSUME Shape, PairsWritten, [Next]_vars, [Remembers]_vars PROVE PairsWritten'
<1> USE DatapathAssumption
<1>1. /\ dns \in Seq(Entries) /\ Len(dns) <= DnsMax /\ Distinct(dns)
      /\ \A k \in DOMAIN dns : dns[k].ip \notin Unlearned
      /\ \A a, b \in obs : a = b
      /\ maint \in {"idle", "clear", "foreach"}
  BY DEF Shape, TypeOK
<1>2. CASE ApiCall
  <2>1. wpc' = "rules" /\ maint # "foreach" /\ maint' = maint
    BY <1>2, ApiStarts
  <2> QED BY <2>1 DEF PairsWritten
<1>3. CASE wpc # "idle" /\ wpc' \notin {"idle", "foreach"} /\ maint' = maint
  BY <1>3 DEF PairsWritten
<1>4. CASE Sync /\ ~SyncClear /\ ~SyncArm
  BY <1>3, <1>4 DEF Sync, SyncRule, SyncRulesEnd, ScanProgram, ScanEnd, SyncClass, SyncMap,
     SyncFlags, SyncReadVia, SyncWriteVia
<1>5. CASE SyncClear
  BY <1>5 DEF SyncClear, PairsWritten
<1>6. ASSUME hit' = IF HasDomainRules THEN hit \cup ArmAll(rules, dns) ELSE hit,
             hit \subseteq ArmAll(rules, dns), UNCHANGED <<rules, dns>>
      PROVE  hit' = ArmAll(rules', dns')
  <2>1. CASE HasDomainRules
    BY <1>6, <2>1
  <2>2. CASE ~HasDomainRules
    BY <1>6, <2>2, NothingToArm
  <2> QED BY <2>1, <2>2
<1>7. CASE SyncArm
  <2>1. /\ wpc = "foreach" /\ wpc' = "idle" /\ UNCHANGED <<rules, dns, maint, obs>>
        /\ hit' = IF HasDomainRules THEN hit \cup ArmAll(rules, dns) ELSE hit
    BY <1>7 DEF SyncArm, user
  <2>2. hit' = ArmAll(rules', dns') /\ maint # "foreach"
    BY <1>6, <2>1 DEF PairsWritten
  <2> QED BY <2>1, <2>2 DEF PairsWritten
<1>8. CASE MaintClear
  BY <1>8 DEF MaintClear, PairsWritten
<1>9. CASE MaintArm
  <2>1. /\ maint = "foreach" /\ maint' = "idle" /\ UNCHANGED <<rules, dns, wpc, obs>>
        /\ hit' = IF HasDomainRules THEN hit \cup ArmAll(rules, dns) ELSE hit
    BY <1>9 DEF MaintArm, user
  <2>2. wpc = "idle" /\ hit' = ArmAll(rules', dns')
    BY <1>6, <2>1 DEF PairsWritten
  <2> QED BY <2>1, <2>2 DEF PairsWritten
<1>10. ASSUME NEW ip \in V4s, NEW names \in SUBSET Names, Record(ip, names), rules' = rules
       PROVE  /\ ArmAll(rules, dns) \subseteq ArmAll(rules', dns')
              /\ \A x \in ArmAll(rules', dns') : x \in ArmAll(rules, dns) \/ x[2] = ip
  <2>1. \E ns \in SUBSET Names : dns' = AddMapping(dns, ip, ns)
    BY <1>1, <1>10, RecordMaps
  <2>2. PICK ns \in SUBSET Names : dns' = AddMapping(dns, ip, ns)
    BY <2>1
  <2>3. PICK u : u = dns'
    OBVIOUS
  <2>4. PICK rs : rs = rules
    OBVIOUS
  <2>5. \A other \in V4s : NamesOf(dns, other) \subseteq NamesOf(u, other)
    <3>1. CASE Remembers
      BY <2>3, <3>1 DEF Remembers
    <3>2. CASE UNCHANGED vars
      BY <2>3, <3>2 DEF vars
    <3> QED BY <3>1, <3>2
  <2>6. u = AddMapping(dns, ip, ns)
    BY <2>2, <2>3
  <2>7. /\ ArmAll(rs, dns) \subseteq ArmAll(rs, u)
        /\ \A x \in ArmAll(rs, u) : x \in ArmAll(rs, dns) \/ x[2] = ip
    BY <1>1, <2>5, <2>6, PairsGrow
  <2>8. ArmAll(rules', dns') = ArmAll(rs, u)
    BY <1>10, <2>3, <2>4
  <2> QED BY <2>4, <2>7, <2>8
<1>11. ASSUME NEW ip \in V4s, NEW names \in SUBSET Names, MaintHosts(ip, names)
       PROVE  PairsWritten'
  <2>1. /\ maint = "idle" /\ maint' = "clear" /\ UNCHANGED <<rules, hit, wpc>>
        /\ Record(ip, names)
    BY <1>11 DEF MaintHosts, user, kern
  <2>2. ArmAll(rules, dns) \subseteq ArmAll(rules', dns')
    BY <1>10, <2>1
  <2> QED BY <2>1, <2>2 DEF PairsWritten
<1>12. ASSUME NEW ip \in V4s, NEW names \in SUBSET Names, Observe(ip, names)
       PROVE  PairsWritten'
  <2>1. /\ obs = {} /\ UNCHANGED <<rules, hit, wpc, maint>>
        /\ Record(ip, names)
        /\ obs' = {[ip |-> ip, names |-> names]}
    BY <1>12 DEF Observe, user, kern
  <2>2. /\ ArmAll(rules, dns) \subseteq ArmAll(rules', dns')
        /\ \A x \in ArmAll(rules', dns') : x \in ArmAll(rules, dns) \/ x[2] = ip
    BY <1>10, <2>1
  <2>3. wpc' = "idle" /\ maint' = "idle" =>
          \A x \in ArmAll(rules', dns') : x \in hit' \/ \E a \in obs' : a.ip = x[2]
    BY <2>1, <2>2 DEF PairsWritten
  <2> QED BY <2>1, <2>2, <2>3 DEF PairsWritten
<1>13. CASE ObserveArm
  <2>1. /\ wpc = "idle" /\ obs' = {} /\ UNCHANGED <<rules, dns, wpc, maint>>
    BY <1>13 DEF ObserveArm, user
  <2>2. PICK a \in obs : hit' = hit \cup Armed(rules, a.ip, NamesOf(dns, a.ip))
    BY <1>13 DEF ObserveArm
  <2>3. /\ Armed(rules, a.ip, NamesOf(dns, a.ip)) \subseteq ArmAll(rules, dns)
        /\ \A x \in ArmAll(rules, dns) :
             x[2] = a.ip => x \in Armed(rules, a.ip, NamesOf(dns, a.ip))
    BY ArmedByAnswer
  <2>4. hit' \subseteq ArmAll(rules', dns')
    BY <2>1, <2>2, <2>3 DEF PairsWritten
  <2>5. maint = "idle" => \A x \in ArmAll(rules', dns') : x \in hit'
    <3> SUFFICES ASSUME maint = "idle", NEW x \in ArmAll(rules, dns) PROVE x \in hit'
      BY <2>1
    <3>1. x \in hit \/ \E b \in obs : b.ip = x[2]
      BY <2>1 DEF PairsWritten
    <3>2. \A b \in obs : b = a
      BY <1>1
    <3> QED BY <2>2, <2>3, <3>1, <3>2
  <2> QED BY <2>1, <2>4, <2>5 DEF PairsWritten
<1>14. CASE UNCHANGED <<rules, dns, hit, wpc, maint, obs>>
  BY <1>14 DEF PairsWritten
<1>15. CASE \/ WriteVia \/ (\E on \in BOOLEAN : StoreVia(on))
            \/ (\E e \in Programs, path \in Paths : Learn(e, path) \/ Rename(e, path))
  BY <1>14, <1>15 DEF WriteVia, StoreVia, Learn, Rename, user, kern
<1>16. CASE UNCHANGED vars
  BY <1>14, <1>16 DEF vars, user, kern
<1> QED BY <1>2, <1>4, <1>5, <1>7, <1>8, <1>9, <1>11, <1>12, <1>13, <1>15, <1>16
       DEF Next, Relay, Maint

-----------------------------------------------------------------------------
(* The theorems *)

LEMMA InvStep == IInv /\ [Next]_vars => IInv'
<1> SUFFICES ASSUME IInv, [Next]_vars PROVE IInv'
  OBVIOUS
<1>1. Shape /\ Ids /\ RulesWritten /\ ClassesWritten /\ ProgramsPlaced
  BY DEF IInv, Written
<1>2. Shape'
  <2>1. CASE UNCHANGED vars
    BY <1>1, <2>1 DEF Shape, TypeOK, Distinct, vars, user, kern
  <2> QED BY <1>1, <2>1, ShapeApi, ShapeSync, ShapeOthers DEF Next
<1>3. Ids' /\ RulesWritten' /\ ClassesWritten' /\ ProgramsPlaced'
  BY <1>1, IdsKept, RulesKept, ClassesKept, PlacedKept
<1> QED BY <1>2, <1>3 DEF IInv, Written

\* The inductive invariant: the types, the ids given out, and how far the writer has
\* brought the kernel's rules and classes.
THEOREM DatapathInv == Spec => []IInv
<1>1. Init => IInv
  BY ShapeInit, WrittenInit DEF IInv
<1> QED BY <1>1, InvStep, PTL DEF Spec

\* With calls from one thread the kernel's switches are those of the present rules whenever
\* no call is in progress.
THEOREM SwitchesFollow == ASSUME ~TwoCallers PROVE Spec => []SwitchesWritten
<1>1. Init => SwitchesWritten
  BY WrittenInit
<1>2. IInv /\ SwitchesWritten /\ [Next]_vars => SwitchesWritten'
  BY SwitchesKept DEF IInv
<1> QED BY <1>1, <1>2, DatapathInv, PTL DEF Spec

\* The table makes no address lose a name (add_mapping, evict_oldest) if it has room for
\* all addresses and all names: there it forgets nothing at all.
THEOREM ForgetsNothing == ASSUME RoomForAll PROVE Spec => [][Remembers]_vars
<1>1. ASSUME Shape, [Next]_vars PROVE [Remembers]_vars
  <2>1. /\ dns \in Seq(Entries) /\ Len(dns) <= DnsMax /\ Distinct(dns)
        /\ \A k \in DOMAIN dns : dns[k].ip \notin Unlearned
    BY <1>1 DEF Shape, TypeOK
  <2>2. CASE UNCHANGED vars
    BY <2>2
  <2>3. CASE dns' = dns
    BY <2>3 DEF Remembers
  <2>4. ASSUME NEW ip \in V4s, NEW names \in SUBSET Names, Record(ip, names) PROVE Remembers
    <3>1. /\ ip \notin Unlearned
          /\ \E ns \in SUBSET Names :
               ns \in Kept(NamesOf(dns, ip), names) /\ dns' = AddMapping(dns, ip, ns)
      BY <2>1, <2>4, RecordMaps
    <3>2. PICK ns \in Kept(NamesOf(dns, ip), names) : dns' = AddMapping(dns, ip, ns)
      BY <3>1
    <3>3. PICK t : t = dns
      OBVIOUS
    <3>4. \A other \in V4s : NamesOf(t, other) \subseteq NamesOf(AddMapping(t, ip, ns), other)
      <4>1. ns \in Kept(NamesOf(t, ip), names)
        BY <3>2, <3>3
      <4>2. /\ t \in Seq(Entries) /\ Len(t) <= DnsMax /\ Distinct(t)
            /\ \A k \in DOMAIN t : t[k].ip \notin Unlearned
        BY <2>1, <3>3
      <4> QED BY <3>1, <4>1, <4>2, RecordRemembers
    <3> QED BY <3>2, <3>3, <3>4 DEF Remembers
  <2>5. CASE \/ \E ip \in V4s, names \in SUBSET Names : MaintHosts(ip, names) \/ Observe(ip, names)
    BY <2>4, <2>5 DEF MaintHosts, Observe
  <2>6. CASE ApiCall
    BY <2>3, <2>6 DEF ApiCall, AddProxy, EditProxy, DeleteProxy, ClearProxies, SetDefaultProxy,
       AddRule, EditRule, SetEnabled, DeleteRule, MoveRule, ClearRules, SetProxies, SetRules, Call
  <2>7. CASE Sync
    BY <2>3, <2>7 DEF Sync, SyncRule, SyncRulesEnd, ScanProgram, ScanEnd, SyncClass, SyncMap,
       SyncFlags, SyncReadVia, SyncWriteVia, SyncClear, SyncArm
  <2>8. CASE \/ MaintClear \/ MaintArm \/ ObserveArm \/ WriteVia
             \/ (\E on \in BOOLEAN : StoreVia(on))
             \/ (\E e \in Programs, path \in Paths : Learn(e, path) \/ Rename(e, path))
    BY <2>3, <2>8 DEF MaintClear, MaintArm, ObserveArm, WriteVia, StoreVia, Learn, Rename
  <2> QED BY <1>1, <2>2, <2>5, <2>6, <2>7, <2>8 DEF Next, Relay, Maint
<1>2. IInv /\ [Next]_vars => [Remembers]_vars
  BY <1>1 DEF IInv
<1> QED BY <1>2, DatapathInv, PTL DEF Spec

\* What dom_hit holds and misses at each moment, as long as no address loses a name.
THEOREM PairsFollow == Spec /\ [][Remembers]_vars => []PairsWritten
<1>1. Init => PairsWritten
  BY WrittenInit
<1>2. IInv /\ PairsWritten /\ [Next]_vars /\ [Remembers]_vars => PairsWritten'
  BY PairsKept DEF IInv
<1> QED BY <1>1, <1>2, DatapathInv, PTL DEF Spec

LEMMA PairsAtRest == PairsWritten => ArmedExactly
<1> SUFFICES ASSUME PairsWritten, AtRest PROVE hit = ArmAll(rules, dns)
  BY DEF ArmedExactly
<1>1. wpc = "idle" /\ maint = "idle" /\ obs = {}
  BY DEF AtRest
<1> QED BY <1>1 DEF PairsWritten

\* The pairs in dom_hit are at rest exactly those that the present rules, at their present
\* positions, and the names known now give (rearm_all_locked, pb_core_dns_observe): for
\* every history in which no address loses a name, neither evicted nor with too many names.
THEOREM ArmsExactly == Spec /\ [][Remembers]_vars => []ArmedExactly
<1> QED BY PairsAtRest, PairsFollow, PTL

\* The class of a program is at rest the one its believed path has, or unknown.
LEMMA ClassAtRest ==
  ASSUME IInv, wpc = "idle", NEW e, NEW path \in BelievedPaths(e)
  PROVE  ClassOf(e) \in {{}, {ClassFor(rules, path)}}
<1>1. CASE e \notin DOMAIN exe2class
  BY <1>1 DEF ClassOf
<1>2. CASE e \in DOMAIN exe2class
  <2>1. PICK j \in DOMAIN exes : exes[j].exe = e
    BY <1>2 DEF IInv, Shape
  <2>2. PICK k \in DOMAIN exes : exes[k].exe = e /\ path = exes[k].path
    BY <2>1 DEF BelievedPaths
  <2>3. Placed(k)
    BY DEF IInv, Written, ProgramsPlaced, Settled
  <2>4. classes[exe2class[e]] = ClassFor(rules, path)
    BY <1>2, <2>2, <2>3 DEF Placed
  <2> QED BY <1>2, <2>4 DEF ClassOf
<1> QED BY <1>1, <1>2

LEMMA CoherentAtRest ==
  ASSUME MaxId < IdWidth
  PROVE  IInv /\ SwitchesWritten /\ PairsWritten => Coherent
<1> SUFFICES ASSUME IInv, SwitchesWritten, PairsWritten, AtRest,
                    NEW e \in Programs, NEW pr \in Protos, NEW d \in Dests
             PROVE  LET v == Kernel(e, pr, d) IN
                    v = Decide \/ \A path \in BelievedPaths(e) : v = Matcher(path, pr, d)
  BY DEF Coherent
<1>1. wpc = "idle" /\ apc = "idle" /\ maint = "idle" /\ obs = {}
  BY DEF AtRest
<1>2. /\ rules \in Seq(Rules) /\ proxies \in Seq(Proxies) /\ default \in Nat
      /\ via \in BOOLEAN /\ cfg \in [enabled : BOOLEAN, dnsTap : BOOLEAN, via : BOOLEAN]
      /\ dns \in Seq(Entries) /\ nextId \in Nat
  BY DEF IInv, Shape, TypeOK
<1>3. \A k \in DOMAIN proxies : proxies[k].id < IdWidth
  <2> SUFFICES ASSUME NEW k \in DOMAIN proxies PROVE proxies[k].id < IdWidth
    OBVIOUS
  <2>1. proxies[k] \in Proxies /\ proxies[k].id < nextId /\ nextId <= MaxId + 1
    BY <1>2 DEF IInv, Ids
  <2>2. proxies[k].id \in Nat /\ MaxId \in Nat /\ IdWidth \in Nat
    BY <2>1, DatapathAssumption, RulesAssumption DEF Proxies
  <2> QED BY <2>1, <2>2, <1>2
<1>4. \A i \in DOMAIN rules : brs[i] = Compile(rules[i], proxies, default)
  BY <1>1 DEF IInv, Written, RulesWritten
<1>5. cfg.enabled = (\E i \in DOMAIN rules : rules[i].on) /\ cfg.via = via
  BY <1>1 DEF SwitchesWritten, Settled
<1>6. PICK names : names = NamesOf(dns, d.ip)
  OBVIOUS
<1>7. names \in SUBSET Names
  <2>1. \A k \in DOMAIN dns : dns[k] \in Entries
    BY <1>2
  <2> QED BY <1>6, <2>1 DEF NamesOf, Entries
<1>8. ASSUME NEW i \in DOMAIN rules
      PROVE  <<i, d.ip>> \in hit <=> rules[i].on /\ rules[i].names \cap names # {}
  <2>1. hit = ArmAll(rules, dns)
    BY PairsAtRest DEF ArmedExactly
  <2>2. <<i, d.ip>> \in hit <=> <<i, d.ip>> \in Armed(rules, d.ip, names)
    BY <1>6, <2>1, ArmedByAnswer
  <2> QED BY <2>2 DEF Armed
<1>9. PICK class : class = ClassOf(e)
  OBVIOUS
<1>10. PICK v : v = Kernel(e, pr, d)
  OBVIOUS
<1>11. ASSUME NEW path \in BelievedPaths(e)
       PROVE  v \in {Decide, Matcher(path, pr, d)}
  <2>1. class \in {{}, {ClassFor(rules, path)}}
    BY <1>1, <1>9, ClassAtRest
  <2>2. KernelVerdict(cfg, class, brs, hit, pr, d)
          \in {Decide, Reference(rules, proxies, default, via, path, pr, d, names)}
    BY <1>2, <1>3, <1>4, <1>5, <1>7, <1>8, <2>1, CompiledRulesAgree
  <2> QED BY <1>6, <1>9, <1>10, <2>2 DEF Kernel, Matcher
<1> QED BY <1>10, <1>11

\* Whatever the history of calls, learned programs, answers and reloads, once they are over
\* the kernel gives the matcher's verdict or defers to it: for calls from one thread, proxy
\* ids within the kernel's field, and every history in which no address loses a name.
THEOREM KernelFollows ==
  ASSUME ~TwoCallers, MaxId < IdWidth
  PROVE  Spec /\ [][Remembers]_vars => []Coherent
<1> QED BY CoherentAtRest, DatapathInv, SwitchesFollow, PairsFollow, PTL

LEMMA TapsAtRest == IInv /\ SwitchesWritten => TapsExactly
<1> SUFFICES ASSUME IInv, SwitchesWritten PROVE TapsExactly
  OBVIOUS
<1>1. TypeOK
  BY DEF IInv, Shape
<1> SUFFICES ASSUME AtRest, NEW k \in DOMAIN exes, NEW pr \in Protos, NEW ip \in V4s \ LocalIPs
             PROVE  LET reached == Reached(rules, exes[k].path)
                        verdict == Kernel(exes[k].exe, pr, [ip |-> ip, port |-> DnsPort])
                        fits    == /\ Cardinality(reached) <= RulesPerClass
                                   /\ exes[k].exe \in DOMAIN exe2class
                    IN IF \E i \in reached : rules[i].names # {} THEN verdict = Decide
                       ELSE fits /\ ~via => verdict = Direct
  BY <1>1 DEF TapsExactly
<1>2. wpc = "idle" /\ apc = "idle"
  BY DEF AtRest
<1>3. /\ cfg.enabled = (\E i \in DOMAIN rules : rules[i].on) /\ cfg.via = via
      /\ cfg.dnsTap = (\E i \in DOMAIN rules : rules[i].on /\ rules[i].names # {})
  BY <1>2 DEF SwitchesWritten, Settled, HasDomainRules
<1>4. PICK path : path = exes[k].path
  OBVIOUS
<1>5. PICK d : d = [ip |-> ip, port |-> DnsPort]
  OBVIOUS
<1>6. PICK class : class = ClassOf(exes[k].exe)
  OBVIOUS
<1>7. PICK c : c = CHOOSE x \in class : TRUE
  OBVIOUS
<1>8. PICK reached : reached = Reached(rules, path)
  OBVIOUS
<1>9. PICK verdict : verdict = Kernel(exes[k].exe, pr, d)
  OBVIOUS
<1>10. d.port = DnsPort /\ d.ip = ip
  BY <1>5
<1>11. verdict = IF ~cfg.enabled \/ (~cfg.dnsTap /\ ImplicitDirect(d, pr, via)) THEN Direct
                 ELSE IF class = {} \/ c.decide \/ (cfg.dnsTap /\ c.tap) THEN Decide
                 ELSE IF ImplicitDirect(d, pr, via) THEN Direct
                 ELSE FastPath(c, brs, hit, pr, d)
  BY <1>3, <1>6, <1>7, <1>9, <1>10 DEF Kernel, KernelVerdict
<1>12. class = {} \/ c = ClassFor(rules, path)
  <2>1. path \in BelievedPaths(exes[k].exe)
    BY <1>4 DEF BelievedPaths
  <2>2. class \in {{}, {ClassFor(rules, path)}}
    BY <1>2, <1>6, <2>1, ClassAtRest
  <2> QED BY <1>7, <2>2
<1>13. reached \subseteq {i \in DOMAIN rules : rules[i].on}
  BY <1>8 DEF Reached, Applies
<1>14. CASE \E i \in reached : rules[i].names # {}
  <2>1. cfg.enabled /\ cfg.dnsTap
    BY <1>3, <1>13, <1>14
  <2>2. class # {} => c.decide \/ c.tap
    BY <1>8, <1>12, <1>14 DEF ClassFor
  <2>3. verdict = Decide
    BY <1>11, <2>1, <2>2
  <2> QED BY <1>4, <1>5, <1>8, <1>9, <1>14, <2>3
<1>15. CASE ~\E i \in reached : rules[i].names # {}
  <2> SUFFICES ASSUME Cardinality(reached) <= RulesPerClass, ~via,
                      exes[k].exe \in DOMAIN exe2class
               PROVE  verdict = Direct
    BY <1>4, <1>5, <1>8, <1>9, <1>15
  <2>1. ImplicitDirect(d, pr, via)
    BY <1>10 DEF ImplicitDirect
  <2>2. class # {}
    BY <1>6 DEF ClassOf
  <2>3. ~(Cardinality(reached) > RulesPerClass)
    <3>1. IsFiniteSet(reached)
      <4>1. rules \in Seq(Rules) /\ Len(rules) \in Nat /\ DOMAIN rules = 1 .. Len(rules)
        BY <1>1 DEF TypeOK
      <4>2. reached \subseteq 1 .. Len(rules)
        BY <1>13, <4>1
      <4>3. PICK n \in Nat : n = Len(rules)
        BY <4>1
      <4>4. 1 \in Int /\ n \in Int
        OBVIOUS
      <4>5. IsFiniteSet(1 .. n)
        BY <4>4, FS_Interval
      <4>6. reached \subseteq 1 .. n
        BY <4>2, <4>3
      <4> QED BY <4>5, <4>6, FS_Subset
    <3>2. Cardinality(reached) \in Nat /\ RulesPerClass \in Nat
      BY <3>1, FS_CardinalityType, RulesAssumption
    <3> QED BY <3>2
  <2>4. c.decide = FALSE /\ c.tap = FALSE
    BY <1>8, <1>12, <1>15, <2>2, <2>3 DEF ClassFor
  <2> QED BY <1>11, <2>1, <2>2, <2>4
<1> QED BY <1>14, <1>15

\* The DNS of a program is diverted to the relay at rest exactly when a domain rule can
\* reach the program (class_for, pb_bpf_sync), for calls from one thread.
THEOREM TapsFollow == ASSUME ~TwoCallers PROVE Spec => []TapsExactly
<1> QED BY TapsAtRest, DatapathInv, SwitchesFollow, PTL
=============================================================================
