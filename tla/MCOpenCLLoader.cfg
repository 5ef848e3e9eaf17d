SPECIFICATION Spec
CONSTANTS
  Threads = {core, page}
  Libraries <- ThreeNames
  Symbols = 2
  None = None
INVARIANT LoadedIsComplete
