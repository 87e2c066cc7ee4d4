CONSTANTS
  s1 = s1
  s2 = s2
  c1 = c1
  c2 = c2
  d1 = d1
  d2 = d2
  h1 = h1
  p1 = p1
  None = None
  Slots = {s1, s2}
  Chips = {c1, c2}
  Disks = {d1, d2}
  Iocs = {h1}
  Order <- MCOrder
  Machines <- MCMachines
  SampleEvery = 1
  BeatEvery = 2
  RescanEvery = 2
  Poll = 2
  Timeout = 2
  MaxAsk = 1
SPECIFICATION FairSpec
INVARIANTS ShownOnce FreshEnough QuietBounded TrueSource
PROPERTIES GenerationFollows CatchesUp
