CONSTANTS
  Vmids = {100, 101}
  Layouts <- MCLayouts
  Persistent <- MCPersistent
  Rules <- MCRules
  debounce_seconds = 2
  timeout_seconds = 0
  MaxDelay = 2
  MaxChanges = 3
  SaveFails = FALSE
  Absent = Absent
SPECIFICATION Spec
INVARIANTS
  DeliveredInTime
PROPERTIES
  OncePerWindow
  EventsExplainChange
  EventuallyTold
