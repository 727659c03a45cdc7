SPECIFICATION Spec
CONSTANTS
  pathP = pathP  pathQ = pathQ  NoPath = NoPath
  ipA = ipA  ipB = ipB  ipL = ipL  ip6 = ip6
  web = web  dnsPort = dnsPort  dhcp = dhcp  nameN = nameN  nameM = nameM
  Paths = {pathP, pathQ, NoPath}
  V4s = {ipA, ipL}
  V6s = {ip6}
  LocalIPs = {ipL}
  Unlearned = {ipL}
  Ports = {web, dnsPort, dhcp}
  DnsPort = dnsPort
  DhcpPorts = {dhcp}
  Names = {nameN, nameM}
  RulesPerClass = 16
  IdWidth = 65536
  Programs = {e1}
  Texts <- MixedTexts
  MaxRules = 2
  MaxProxies = 1
  MaxClasses = 2
  MaxPrograms = 1
  DnsMax = 1
  MaxNames = 8
  MaxId = 1
  Renames = TRUE
  Execs = FALSE
  TwoCallers = FALSE
INVARIANTS
  Coherent
  ArmedExactly
