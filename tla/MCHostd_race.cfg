CONSTANTS
  Vmids = {100}
  Layouts <- MixedLayouts
  Persistent <- MixedPersistent
  AgentName = "gpu"
  DefaultName = "vsb_vm"
  Policy = "warn_then_remove"
  Faults = {"stall", "overlap"}
  MaxFaults = 2
  MaxGen = 2
  MaxQueue = 3
  Absent = Absent
SPECIFICATION Spec
PROPERTY PersistentSensorsStay
