SPECIFICATION ProfileSpec
CONSTANTS
  Games = {"game"}
  Slaves = {s1}
  Stored <- StoredFiles
  Imports <- NoImports
  MaxEdits = 3
INVARIANT ControlsReach
CHECK_DEADLOCK FALSE
