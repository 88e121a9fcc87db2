SPECIFICATION LiveSpec
CONSTANTS
  Models = {"m1"}
  Updates <- RealUpdates
  NoFile = NoFile
  Chats = {k1, k2}
  NoChat = NoChat
  NewKeys = {"s1"}
  Hints = {""}
  EngineName = "qwenpaw"
  MaxText = 5
INVARIANTS TypeOK IndexGrows ChatIsLogged MockFlagMeansMock 
PROPERTIES KeepsTranscript ChatEnds
