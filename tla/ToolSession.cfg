CONSTANTS
  Keys = {go, rust}
  Found <- MCFound
  Lists <- MCLists
  Analyses <- MCAnalyses
  Lines <- MCLines
  TokenAnswers <- MCTokenAnswers
  SymbolAnswers <- MCSymbolAnswers
  DocSymbols <- MCDocSymbols
  Depth <- MCDepth
  Files <- MCFiles
  Folders <- MCFolders
  Calls <- MCCalls
SPECIFICATION FairSessionSpec
CHECK_DEADLOCK FALSE
INVARIANTS
  CompleteOnSuccess
  NothingLost
  PagesComplete
  DetailIsText
PROPERTIES
  NoGoroutineLeaks
  CallReturns
