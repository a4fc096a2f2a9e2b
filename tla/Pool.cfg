\* Four approvals and a query share three connections.
SPECIFICATION FairSpec
CONSTANTS
  Approvals = {a1, a2, a3, a4}
  Queries = {q1}
  Size = 3
INVARIANTS
  PoolTypeOK
  NoLeak
PROPERTIES
  EveryRequestIsAnswered
