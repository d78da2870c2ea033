\* Two clients, two standalone masters and ltr_gui; one failure of a device.
\* Without liveness two slaves, and two masters, are interchangeable.
SPECIFICATION Spec
CONSTANTS
  Slaves = {s1, s2}
  Masters = {m1, m2}
  Gui = gui
  Nobody = nobody
  MaxDownlinks = 2
  Retries = 1
  MaxFailures = 1
SYMMETRY Interchangeable
INVARIANTS
  TypeOK
  OneMaster
  OneReader
\* Clients end and slaves give up.
CHECK_DEADLOCK FALSE
