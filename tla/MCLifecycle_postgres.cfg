SPECIFICATION LiveSpec
CONSTANTS
  r1 = r1
  r2 = r2
  w1 = w1
  w2 = w2
  Users = {u1}
  Sandboxes = {s1, s2, s3}
  Replicas = {r1}
  Workers = {w1}
  Host <- OneHost
  StoreKind = "postgres"
  Faults = {"write", "lostWrite", "lostCreate", "kill", "connect", "unregister", "crash", "disconnect"}
  NoUser = NoUser
  NoSandbox = NoSandbox
  NoWorker = NoWorker
INVARIANTS OverrideOnlyWhileRunning RunningIsRouted
 
