SPECIFICATION FairSpec
CONSTANTS
  Tasks = {t1, t2}
  NoTask = NoTask
  Files = {f1}
  Nodes = {n1, n2}
  NoNode = NoNode
  Ids = {a, b}
  NoId = NoId
  Fault <- AllFaults
INVARIANTS ReferencesExact NoDangling FailureHasCause NothingLeft
PROPERTIES CallsReturn UnloadEnds
