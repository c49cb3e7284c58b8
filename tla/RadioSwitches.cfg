CONSTANTS
  EndpointCount = 2
  SwitchCount = 4
  Requests <- SwitchCalls
  MaxCommands = 3
  MaxTime = 1
SPECIFICATION Spec
INVARIANTS
  EachCommandInOnePlace
  SetReplyMeansHeard
  SwitchesFollowCommands
  OnIsNeverInvented
