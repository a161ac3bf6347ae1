SPECIFICATION Spec
CONSTANTS
  Files = {"src", "test_new", "test_old"}
  Tests = {"test_new", "test_old"}
  Sensitive = {}
  Large = {"src"}
  Discoverable = {"run_shellscript"}
  Sigs = {"t1", "t2"}
  Servers = {}
  MaxServers = 1
  BatchCap = 2
  FailSigs = {"f1"}
  NoSig = "none"
  SameFail = 3
  ConsecFail = 3
  NonJsonMax = 2
  MaxRetries = 2
  WorkerBudget = 2
  HotfixBudget = 1
  MaxExecs = 1
  Packets <- MCPackets
INVARIANTS
  CallsBounded
  NoTurnAfterBreaker
  PassDelivers
PROPERTIES
  ExistingTestsAreSafe
  PromiseKept
