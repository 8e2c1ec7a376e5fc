SPECIFICATION Spec
CONSTANTS
  x1 = x1
  x2 = x2
  Activities = {x1, x2}
  Workflow = workflow
  v1 = v1
  v2 = v2
  v3 = v3
  Values = {v1, v2, v3}
  Deployed <- MCDeployed
  Returns <- MCReturns
  Versions = {v1, v2, v3}
  NoValue = NoValue
  Interrupted = Interrupted
  NoBranch = NoBranch
  Branches <- MCBranches
  Program <- MCParallel
  Timed <- NoneTimed
  MaxAttempts = 3
  MaxCrashes = 1
  MaxYields = 1
INVARIANTS TypeOK JournalInOrder NeverOutOfOrder JoinedHaveResult VersionPinned ReplayIsDeterministic
PROPERTIES NoReexecution RefinesDurableExecution AttemptEnds
CHECK_DEADLOCK FALSE
