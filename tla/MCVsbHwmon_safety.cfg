CONSTANTS
  Vmids = {100}
  Callers = {c1, c2}
  Readers = {r1}
  Objects = {o1, o2, o3}
  Schemas <- MCSchemas
  Batches <- MCBatches
  SerialModulus = 3
  NoVm = NoVm
  Nobody = Nobody
SPECIFICATION Spec
INVARIANTS
  TypeOK
  ExactlyOneOwner
  NoUseAfterFree
  OneEntryPerVm
  SysfsMatchesList
  ValuesAccepted
PROPERTY SeesUpdates
SYMMETRY MCThreads
