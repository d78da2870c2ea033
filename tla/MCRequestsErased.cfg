\* A second command that arrives while the slave takes the first one.
SPECIFICATION Spec
CONSTANTS
  MaxRequests = 2
  UplinkSize = 1
PROPERTIES
  LastCommandWins
CHECK_DEADLOCK FALSE
