SPECIFICATION Spec
CONSTANTS
  Callers = {c1, c2}
  Procs = {p1, p2}
  Keys = {k1, k2}
  DefaultKey = k1
  Configs = {v1, v2}
  Mock = mock
  Bypass = {v2}
  Ops = {"prompt", "newsession", "sync"}
  Events = {"timeout", "cancel", "permission", "spawn", "stop"}
  MaxOps = 2
  NoProc = NoProc
  NoSid = NoSid
  NoConfig = NoConfig
  NoCaller = NoCaller
CHECK_DEADLOCK FALSE
SYMMETRY Symmetry
INVARIANTS TypeOK DeliveredToAsker PendingHasWaiter HandlerBelongsToPrompt
