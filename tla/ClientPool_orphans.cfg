CONSTANTS
  Threads = {t1, t2}
  L1 = l1
  L2 = l2
  A = a
  B = b
  C = c
  MaxClients = 3
  NoServer = noServer
  NoClient = noClient
  Languages <- OneLanguage
  Servers <- TwoServers
  Serves <- OneServes
  Formatter <- OneUnformatted
  Clients <- MCClients
  MaxRetries = 1
  MaxCalls = 3
SPECIFICATION Spec
SYMMETRY Symmetry
INVARIANTS
  NoOrphans
