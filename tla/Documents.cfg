CONSTANTS
  Threads = {t1, t2}
  A = a
  B = b
  D = d
  Raw = r
  Servers <- TwoServers
  Docs = {d, r}
  Normal <- OneNormal
  MaxCalls = 3
  MaxReplacements = 1
SPECIFICATION Spec
SYMMETRY Symmetry
INVARIANTS
  ViewsAgree
  OpenedOnce
  SubscriberIsCurrent
CONSTRAINT OneIsSteady
