SPECIFICATION Spec
CONSTANTS
  Payloads <- MCPayloads
  Scripts <- MCScripts
  min_timestamp <- MinTimestamp
INVARIANTS
  RelayIsLossless
  PathsAgree
  LossesHaveACause
CHECK_DEADLOCK FALSE
