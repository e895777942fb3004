SPECIFICATION FairSpec
CONSTANTS
  Self <- MCSelf
  Code <- ChainCode
  Entry <- ChainEntry
  Fields <- MCFields
  Boot <- MCBoot
  Requests <- ChainRequests
  Expected <- ChainAnswers
  PeerAnswer <- MCPeerAnswer
  PromiseSlots = 8
PROPERTY AllAnswered
CHECK_DEADLOCK FALSE
