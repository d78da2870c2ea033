\* Two clients, one standalone master at a time and ltr_gui.
SPECIFICATION Spec
CONSTANTS
  Slaves = {s1, s2}
  Masters = {m1}
  Gui = gui
  Nobody = nobody
  MaxDownlinks = 2
  Retries = 1
  MaxFailures = 0
PROPERTIES
  GuiTakesOver
  GuiServesAll
  LeavesAfterLast
CHECK_DEADLOCK FALSE
