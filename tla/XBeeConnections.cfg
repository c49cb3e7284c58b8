SPECIFICATION Spec
CONSTANTS
  Devices = {1, 2}
  Users = {u1}
  Nobody = Nobody
  Cons = {c1, c2}
  NoCon = NoCon
  MaxAir = 1
  Single <- OneAtATime
  Choices <- SettingsUsed
  Uses <- ExplicitUses
SYMMETRY AnyConnection
INVARIANTS AwakeAreDistinct DeliveredToAddressee LearnsItsOwnDevice
PROPERTY AnswersAreHeard
CHECK_DEADLOCK FALSE
