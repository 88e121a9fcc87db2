SPECIFICATION Spec
CONSTANTS
  r1 = r1
  r2 = r2
  w1 = w1
  w2 = w2
  Users = {u1, u2}
  Sandboxes = {s1, s2}
  Replicas = {r1}
  Workers = {w1, w2}
  Host <- OneHost
  StoreKind = "memory"
  Faults = {"create", "notReady", "pause", "register", "unregister", "inject", "gatewayRestart", "sandboxDies", "expire"}
  NoUser = NoUser
  NoSandbox = NoSandbox
  NoWorker = NoWorker
SYMMETRY Symmetry
INVARIANTS TypeOK OverrideOnlyWhileRunning NoSandboxLeaked  CachedOverrideReachedAgent FailsOnlyByFault
PROPERTIES DeleteLeavesNothing ImplementsLifecycle
