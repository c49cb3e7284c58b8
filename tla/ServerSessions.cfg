CONSTANTS
  EndpointCount = 1
  SwitchCount = 4
  Requests <- ServerCalls
  MaxCommands = 4
  MaxTime = 0
  Clients = {k1, k2}
  Nobody = nobody
  Messages <- SessionMessages
  MaxMessages = 2
SPECIFICATION FairServerSpec
INVARIANTS
  ConnectedClientGetsItsReplies
  StrayRepliesGoForward
PROPERTIES
  WaitingClientReads
  ComesBackToAccept
