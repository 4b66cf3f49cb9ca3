SPECIFICATION FairSpec
CONSTANTS
  init = init
  pod = pod
  stray = stray
  mlflow = mlflow
  other = other
  Provisioners = {init, pod, stray}
  Buckets = {mlflow, other}
  Argv <- MCArgv
  Configured <- MCConfigured
  MaxAttempts = 2
  MaxRuns <- MCRuns
  MaxRefusals = 1
INVARIANTS TypeOK RacesAreHarmless
PROPERTIES PromiseKept RunsEnd
CHECK_DEADLOCK FALSE
