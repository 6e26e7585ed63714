CONSTANTS
  Clients = {c1, c2, c3}
  Uris = {u1, u2}
  Notifiers = {n1}
SPECIFICATION TrackerSpec
INVARIANTS
  MapsAgree
PROPERTIES
  KeepsRelation
