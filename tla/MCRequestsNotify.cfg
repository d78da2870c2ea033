\* Notifications asked for by a client that gives no other command.
SPECIFICATION Spec
CONSTANTS
  MaxRequests = 1
  UplinkSize = 1
PROPERTIES
  NotificationsStart
CHECK_DEADLOCK FALSE
