CONSTANTS
  MaxVersion = 2  Blocks = 2  MaxJobs = 1  MaxCrashes = 1
SPECIFICATION FairSpec
INVARIANTS TypeOK LibraryIsWhole CopySurvives
PROPERTIES DownloadIsInstalled
