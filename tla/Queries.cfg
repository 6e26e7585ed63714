CONSTANTS
  Servers = {s1, s2, s3}
  Stalled = {s3}
  U = u
  V = v
  Responses <- MCResponses
  Targets = {"class", "function"}
  Base <- MCBase
  DocSymbols <- MCDocSymbols
  Depth <- MCDepth
SPECIFICATION FairQuerySpec
CHECK_DEADLOCK FALSE
INVARIANTS
  EverySlotIsItsServers
  Gathered
  SymbolTreesMerged
  TokensDecoded
PROPERTIES
  ReturnedIsFinal
  NoGoroutineLeaks
  QueryReturns
