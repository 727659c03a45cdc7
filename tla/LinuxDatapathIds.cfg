SPECIFICATION Spec
CONSTANTS
  pathP = pathP  pathQ = pathQ  NoPath = NoPath
  ipA = ipA  ipB = ipB  ipL = ipL  ip6 = ip6
  web = web  dnsPort = dnsPort  dhcp = dhcp  nameN = nameN  nameM = nameM
  Paths = {pathP, pathQ, NoPath}
  V4s = {ipA}
  V6s = {}
  LocalIPs = {}
  Unlearned = {}
  Ports = {web, dnsPort}
  DnsPort = dnsPort
  DhcpPorts = {}
  Names = {}
  RulesPerClass = 16
  IdWidth = 2
  Programs = {e1}
  Texts <- ProxyTexts
  MaxRules = 1
  MaxProxies = 2
  MaxClasses = 2
  MaxPrograms = 1
  DnsMax = 1
  MaxNames = 8
  MaxId = 3
  Renames = FALSE
  Execs = FALSE
  TwoCallers = FALSE
INVARIANTS
  Coherent
