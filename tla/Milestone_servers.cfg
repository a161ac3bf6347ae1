SPECIFICATION FairSpec
CONSTANTS
  Files = {"src", "test_a"}
  Tests = {"test_a"}
  Sensitive = {}
  Large = {}
  Discoverable = {"serve_app", "inspect_ui"}
  Sigs = {"t1"}
  Servers = {"s1", "s2"}
  MaxServers = 1
  BatchCap = 2
  FailSigs = {"f1"}
  NoSig = "none"
  SameFail = 3
  ConsecFail = 2
  NonJsonMax = 2
  MaxRetries = 2
  WorkerBudget = 2
  HotfixBudget = 1
  MaxExecs = 2
  Packets <- MCUiPackets
INVARIANTS
  NoServerOutlivesItsCall
PROPERTIES
  ExecutionEnds
