\* The master thread of ltr_gui and one window that pauses and resumes.
SPECIFICATION Spec
CONSTANTS
  Main = main
  Callers = {gui}
INVARIANTS
  TypeOK
  LoopKnowsState
  CameraOffWhenDown
  LiveStatusHasThread
  NoLostWakeup
  CrashOnlyAfterLastStatus
PROPERTIES
  LifecycleSpec
  ShutdownReturnsUnlessErased
  RequestIsTaken
\* A crash stops everything, and a join whose SHUTDOWN was erased may too.
CHECK_DEADLOCK FALSE
