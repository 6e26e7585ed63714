CONSTANTS
  Threads = {t1, t2}
  L1 = l1
  L2 = l2
  A = a
  B = b
  C = c
  MaxClients = 2
  NoServer = noServer
  NoClient = noClient
  Languages <- MCLanguages
  Servers <- MCServers
  Serves <- MCServes
  Formatter <- L2Formatter
  Clients <- MCClients
  MaxRetries = 2
  MaxCalls = 3
SPECIFICATION Spec
SYMMETRY Symmetry
INVARIANTS
  PooledAreInitialized
  AbandonedAreClosed
  PooledServesLanguage
  CallbackOnAllClients
PROPERTIES
  CallsEnd
