CONSTANTS
  EndpointCount = 1
  SwitchCount = 4
  Requests <- ServiceCalls
  MaxCommands = 3
  MaxTime = 2
SPECIFICATION FairSpec
INVARIANTS
  InstantCommandsSentInOrder
  NeverSentEarly
  RepliesInOrderSent
PROPERTIES
  DueKeepsItsPlace
  ImplementsService
  EveryCommandAnswered
