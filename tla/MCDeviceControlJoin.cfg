\* The standalone server: only the master thread makes requests.
SPECIFICATION Spec
CONSTANTS
  Main = main
  Callers = {}
PROPERTIES
  ShutdownReturns
CHECK_DEADLOCK FALSE
