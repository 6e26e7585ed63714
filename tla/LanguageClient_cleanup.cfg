CONSTANTS
  Callers = {t1, t2}
  Reader = reader
  NoThread = nobody
  MaxRequests = 2
  ServerMayStall = FALSE
SPECIFICATION FairSpec
PROPERTY CloseCleansUp
