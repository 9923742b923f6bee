SPECIFICATION Spec
CONSTANTS
  Events = {e1, e2}
  N = 3
PROPERTY ReaderIsQueue
