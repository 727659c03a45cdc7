SPECIFICATION Spec
CONSTANTS
  a1 = a1  a2 = a2  d1 = d1  px = px  lo = lo
  NoApp = NoApp  NoConn = NoConn  NoEntry = NoEntry
  Keys <- SharedPort
  Apps = {a1, a2}
  Dests = {d1, px}
  Servers = {px}
  Exempt = {}
  LinkLocal = {}
  Verdicts = {"none", "block", "proxy"}
  Logging = FALSE
  MaxEdits = 2
INVARIANTS
  ProxiedKeepWorking
