SPECIFICATION Spec
CONSTANTS
  r1 = r1
  r2 = r2
  w1 = w1
  w2 = w2
  Users = {u1}
  Sandboxes = {s1, s2}
  Replicas = {r1, r2}
  Workers = {w1, w2}
  Host <- TwoHosts
  StoreKind = "postgres"
  Faults = {}
  NoUser = NoUser
  NoSandbox = NoSandbox
  NoWorker = NoWorker
INVARIANTS AnyReplicaCanSuspend
