\* One client, one standalone master, a device that may fail to initialize.
SPECIFICATION Spec
CONSTANTS
  Slaves = {s1}
  Masters = {m1}
  Gui = gui
  Nobody = nobody
  MaxDownlinks = 1
  Retries = 1
  MaxFailures = 1
PROPERTIES
  MasterResponds
CHECK_DEADLOCK FALSE
