CONSTANTS
  Vmids = {100, 101}
  Layouts <- MixedLayouts
  Persistent <- MixedPersistent
  AgentName = "gpu"
  DefaultName = "vsb_vm"
  Policy = "warn_then_remove"
  Faults = {"default", "save"}
  MaxFaults = 1
  MaxGen = 1
  MaxQueue = 3
  Absent = Absent
SPECIFICATION Spec
CONSTRAINT OnePersistentVm
INVARIANTS
  NoOrphanDevice
  CacheMatchesState
