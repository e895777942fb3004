SPECIFICATION Spec
CONSTANTS
  Self <- MCSelf
  Code <- FaultsCode
  Entry <- FaultsEntry
  Fields <- MCFields
  Boot <- MCBoot
  Requests <- FaultsRequests
  Expected <- FaultsAnswers
  PeerAnswer <- MCPeerAnswer
  PromiseSlots = 2
INVARIANTS TypeOK AnsweredRight AnswerHasPromise
CHECK_DEADLOCK FALSE
