SPECIFICATION FairSpec
CONSTANTS
  Envs = {0, 1}
  FirstEnv = 0
  FirstNames = {"none", "mlops-platform", "mlops-platform-tests"}
  MaxEdits = 1
  MaxRuns = 3
INVARIANTS TypeOK SuiteSeesItsOwn PushPublishesMlflow
PROPERTIES DeployRunsItsBuild PodsRecover RolloutsEnd
CHECK_DEADLOCK FALSE
