CONSTANTS
  Vmids = {100, 101}
  Callers = {c1}
  Readers = {r1}
  Objects = {o1, o2, o3}
  Schemas <- MCSchemas
  Batches <- ApiBatches
  SerialModulus = 2
  NoVm = NoVm
  Nobody = Nobody
SPECIFICATION FairSpec
PROPERTIES
  ImplementsApi
  IoctlReturns
  ReadReturns
