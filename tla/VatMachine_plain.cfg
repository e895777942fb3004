SPECIFICATION FairSpec
CONSTANTS
  Self <- MCSelf
  Code <- PlainCode
  Entry <- PlainEntry
  Fields <- MCFields
  Boot <- MCBoot
  Requests <- PlainRequests
  Expected <- PlainAnswers
  PeerAnswer <- MCPeerAnswer
  PromiseSlots = 4
INVARIANTS AnsweredOnce AnsweredRight
PROPERTIES PromiseKept AllAnswered
CHECK_DEADLOCK FALSE
