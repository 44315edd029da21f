CONSTANTS
  Process = {"client", "server"}  Servers = {"server"}
  MaxVersion = 3  MaxFailures = 1  ReadErrors = FALSE  PowerLoss = TRUE
SPECIFICATION Spec
INVARIANTS TypeOK CopySurvives  
