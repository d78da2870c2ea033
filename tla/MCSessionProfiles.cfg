\* Two clients and one standalone master.
SPECIFICATION Spec
CONSTANTS
  Slaves = {s1, s2}
  Masters = {m1}
  Gui = gui
  Nobody = nobody
  MaxDownlinks = 2
  Retries = 1
  MaxFailures = 0
INVARIANTS
  ProfilesArriveHome
CHECK_DEADLOCK FALSE
