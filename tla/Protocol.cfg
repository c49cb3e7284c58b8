CONSTANTS
  Commands <- ProtocolCommands
  MaxCommands = 3
  MaxNesting = 3
SPECIFICATION Spec
PROPERTIES
  WholeCommandUnderstood
  CutsAreNotMistaken
