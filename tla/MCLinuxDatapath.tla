-------------------------- MODULE MCLinuxDatapath --------------------------
(* TLC instances of LinuxDatapath: the rules that API calls may pass. *)
EXTENDS LinuxDatapath

CONSTANTS pathP, pathQ, ipA, ipB, ipL, ip6, web, dnsPort, dhcp, nameN, nameM

\* Every process and destination is blocked, TCP and UDP.
CatchAllRule ==
  [on |-> TRUE, act |-> "block", proxy |-> 0, paths |-> Paths, protos |-> Protos,
   anyHost |-> TRUE, v4 |-> {}, rest4 |-> {}, v6 |-> {}, names |-> {},
   anyPort |-> TRUE, ports |-> {}, restPorts |-> {}]

\* A program's traffic to one domain goes through the default proxy.
DomainRule ==
  [CatchAllRule EXCEPT !.act = "proxy", !.paths = {pathP},
                       !.anyHost = FALSE, !.names = {nameN}]

\* Another program's traffic to one address and port goes direct.
AddressRule ==
  [CatchAllRule EXCEPT !.act = "direct", !.paths = {pathQ}, !.protos = {"tcp"},
                       !.anyHost = FALSE, !.v4 = {ipA}, !.anyPort = FALSE, !.ports = {web}]

\* All traffic of one program is blocked.
ProcessRule == [CatchAllRule EXCEPT !.paths = {pathP}]

\* A host and a port pattern only userspace can match, through the default proxy.
PatternRule ==
  [CatchAllRule EXCEPT !.act = "proxy", !.anyHost = FALSE, !.rest4 = {ipB}, !.v6 = {ip6}]
PortRule ==
  [CatchAllRule EXCEPT !.anyPort = FALSE, !.ports = {dnsPort}, !.restPorts = {web}]

\* The same for another address, through a proxy of its own, for some ports only.
MixedRule ==
  [PatternRule EXCEPT !.rest4 = {ipA}, !.proxy = 1, !.anyPort = FALSE, !.ports = {dnsPort}, !.restPorts = {web}]

\* IPv6 destinations through the default proxy.
V6Rule == [CatchAllRule EXCEPT !.act = "proxy", !.anyHost = FALSE, !.v6 = {ip6}]

\* Every destination through the proxy of that id.
ProxyRule(id) == [CatchAllRule EXCEPT !.act = "proxy", !.proxy = id]

DomainTexts  == {DomainRule, CatchAllRule}
ProgramTexts == {DomainRule, AddressRule, CatchAllRule}
AddressTexts == {ProcessRule, AddressRule}
PatternTexts == {PatternRule, PortRule, ProxyRule(2)}
MixedTexts   == {[DomainRule EXCEPT !.act = "block"], MixedRule}
V6Texts      == {V6Rule}
ProxyTexts   == {ProxyRule(1), ProxyRule(2)}
=============================================================================
