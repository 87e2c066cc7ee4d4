CONSTANTS
  Vmids = {100}
  Callers = {c1, c2}
  Readers = {}
  Objects = {o1, o2, o3}
  Schemas <- OneSchema
  Batches <- OneBatch
  SerialModulus = 8
  NoVm = NoVm
  Nobody = Nobody
SPECIFICATION Spec
PROPERTY CommitIsAbaSafe
