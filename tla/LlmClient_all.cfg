CONSTANTS
  Providers = {"local", "cloud"}
  Keys = {"k1", "k2"}
  NoKey = ""
  DotEnv <- MCDotEnv
  Env <- MCEnv
  Patches <- MCPatches
  MaxPatches = 2
  MaxCrashes = 1
  Roles = {"worker", "review"}
  Models = {"small", "large"}
  Model <- MCModel
  Reasoning <- MCReasoning
  Sampling = {"temperature", "seed"}
  Extras = {}
  Frank = {"small"}
  Healthy <- MCHealthy
  Limits <- MCLimits
  MaxShapes = 3
  MaxCalls = 2
SPECIFICATION Spec
INVARIANTS
  RestartKeepsSettings
  NoWorkingProviderIsPassedOver
  RefusedStaysOut
  LearnedIsTrue
  UsageIsExact
\* A process that no one asks anything waits for ever.
CHECK_DEADLOCK FALSE
