SPECIFICATION Spec
CONSTANTS
  Callers = {c1}
  Procs = {p1, p2}
  Keys = {k1}
  DefaultKey = k1
  Configs = {v1}
  Mock = mock
  Bypass = {}
  Ops = {"prompt"}
  Events = {"die"}
  MaxOps = 1
  NoProc = NoProc
  NoSid = NoSid
  NoConfig = NoConfig
  NoCaller = NoCaller
CHECK_DEADLOCK FALSE
INVARIANTS SessionIsRebuilt
