CONSTANTS
  Vmids = {100}
  Layouts <- MixedLayouts
  Persistent <- MixedPersistent
  AgentName = "gpu"
  DefaultName = "vsb_vm"
  Policy = "warn_then_remove"
  Faults = {"crash", "stall", "ioctl", "drop", "range", "save"}
  MaxFaults = 3
  MaxGen = 2
  MaxQueue = 3
  Absent = Absent
SPECIFICATION FairSpec
INVARIANTS
  TypeOK
  KernelMatchesState
  NoOrphanDevice
  CacheMatchesState
PROPERTIES
  PersistentSensorsStay
  NoMisattributedValue
  EventuallyInSync
