\* One client that gives three commands; an uplink with room for one message.
SPECIFICATION Spec
CONSTANTS
  MaxRequests = 3
  UplinkSize = 1
INVARIANTS
  TypeOK
PROPERTIES
  CarriedOutInOrder
  LastCommandWinsUnlessErased
  RecenterArrives
  SlaveEndsWithClient
\* The client ends, and the slave with it.
CHECK_DEADLOCK FALSE
