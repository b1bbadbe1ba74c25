SPECIFICATION Spec
CONSTANTS
  Nodes = {n1, n2, n3, n4}
  NoTask = NoTask
INVARIANTS
  RingComplete
  ContextIntact
  NoLeak
PROPERTIES
  EveryTaskRuns
  RefinesRunQueue
