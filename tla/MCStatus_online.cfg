CONSTANTS
  Dirs = {1, 2, 3}
  Timeout = 2
  None = None
SPECIFICATION Spec
PROPERTY OnlineMeansHeard
