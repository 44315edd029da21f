CONSTANTS
  MaxVersion = 1  Blocks = 1  MaxJobs = 2  MaxCrashes = 0
SPECIFICATION Spec
INVARIANTS LibraryIsThere
