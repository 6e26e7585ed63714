CONSTANTS
  Callers = {t1, t2}
  Reader = reader
  NoThread = nobody
  MaxRequests = 2
  ServerMayStall = TRUE
SPECIFICATION FairSpec
INVARIANTS
  CountersAgree
  ErrorHasCause
  CloseOnce
PROPERTIES
  RequestsReturn
  CloseStopsServer
