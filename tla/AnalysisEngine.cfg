CONSTANTS
  W = w
  R = r
  F = f
  L1 = l1
  L2 = l2
  Q1 = q1
  Q2 = q2
  Q3 = q3
  NoKey = noKey
  Keys <- MCKeys
  KindOf <- MCKindOf
  Languages <- MCLanguages
  Queries <- MCQueries
  Remote <- MCRemote
  Ttls = {1}
  Lifetime = 1
  MaxSize = 2
  MaxTime = 2
  MaxGets = 3
  MaxErrors = 10
  ErrorThreshold = 20
  ContinueOnError = TRUE
SPECIFICATION EngineSpec
INVARIANTS
  Bounded
  SuccessHasResult
  PartialIsMarked
PROPERTIES
  EvictsLeastRecent
  AnalyzeReturns
