SPECIFICATION Spec
CONSTANTS
  c1 = c1
  c2 = c2
  Clients = {c1, c2}
  NoClient = NoClient
  Server = Server
  User = User
  Types <- NetTypes
  Addresses = {1}
  Calls <- NetCalls
  MaxCalls = 1
  MaxLate = 0
  MaxPackets = 1
INVARIANTS
  FaultsNeedARace
  FreedMeansGone
CHECK_DEADLOCK FALSE
