SPECIFICATION LiveSpec
CONSTANTS
  s1 = s1  s2 = s2  c1 = c1
  NoSlot = NoSlot
  MaxOp = 3
  Slots = {s1, s2}
  Clients = {c1}
  Artifact <- MCArtifact
INVARIANTS
  SlotsAreExclusive
  RequestsAreDrained
PROPERTIES
  ImplementsContract
  OperationsSettle
