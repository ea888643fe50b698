SPECIFICATION Computing
CONSTANTS
  None = None
  Numerals = {"1"}
  WordSize = 65536
  ParamSegments <- MCParamSegments
  Questions <- MCQuestions
INVARIANTS
  RoutesAgree
  PluginsKeepPromises
  LimitsHold
  SignInIsSound
CHECK_DEADLOCK FALSE
