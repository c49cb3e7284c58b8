CONSTANTS
  Files <- SomeFiles
  NoFile = TRUE
  KnownModes <- Modes
SPECIFICATION StartSpec
INVARIANT ConfigurableByIniFile
CHECK_DEADLOCK FALSE
