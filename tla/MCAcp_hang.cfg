SPECIFICATION LiveSpec
CONSTANTS
  Callers = {c1, c2}
  Procs = {p1, p2}
  Keys = {k1, k2}
  DefaultKey = k1
  Configs = {v1}
  Mock = mock
  Bypass = {}
  Ops = {"prompt", "newsession"}
  Events = {"timeout"}
  MaxOps = 2
  NoProc = NoProc
  NoSid = NoSid
  NoConfig = NoConfig
  NoCaller = NoCaller
CHECK_DEADLOCK FALSE
PROPERTIES PromptSurvivesKernel
