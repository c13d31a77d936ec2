SPECIFICATION Spec
CONSTANTS
  w1 = w1
  w2 = w2
  Workers = {w1, w2}
  Owners = {o1}
  Keys <- MCKeys
  NoKey = NoKey
  KindOf <- MCKindOf
  KeysOf <- MCKeysOf
  MaxRows = 2
  MayKill = {"loop", "command"}
INVARIANTS
  TypeOK
  OneLiveRequest
  RequestsAreFiled
  Consented
  SessionForgetsNothing
  DenialReachesTask
PROPERTIES
  AnswersFinal
  ConsentSpec
