------------------------- MODULE DeviceControlProofs -------------------------
(***************************************************************************)
(* Proofs about DeviceControl, for every set of calling threads.  The      *)
(* invariants do not follow from what the callers do to the request word,  *)
(* which may change at any moment, but from where the device thread is:    *)
(* StatusAndCamera gives, for every point of it, the status it has         *)
(* published and the state it has left the camera in.                      *)
(***************************************************************************)
EXTENDS DeviceControl, TLAPS

\* What the device thread has published and done at each of its points.
StatusAndCamera ==
  /\ dpc \in {"none", "start", "done"} =>
       /\ tracker = "closed"
       /\ state \in {"STOPPED", "INITIALIZING", "err_NOT_INITIALIZED"}
  /\ dpc \in {"load", "check", "setRun", "trackerInit"} =>
       tracker = "closed" /\ state = "INITIALIZING"
  /\ dpc = "announce" => tracker = "streaming" /\ state = "INITIALIZING"
  /\ dpc \in {"loop", "read", "clear", "act"} =>
       \/ state = "RUNNING" /\ tracker = "streaming"
       \/ state = "PAUSED" /\ tracker = "paused"
  /\ dpc \in {"asleep", "awake"} => state = "PAUSED" /\ tracker = "paused"
  /\ dpc \in {"pause", "resumed"} => state = "PAUSED" /\ tracker = "streaming"
  /\ dpc = "grab" => state = "RUNNING" /\ tracker = "streaming"
  /\ dpc = "close" =>
       /\ tracker = "streaming"
       /\ state \in {"RUNNING", "PAUSED", "err_PROCESSING_FRAME"}
  /\ dpc = "stopped" =>
       /\ tracker = "closed"
       /\ state \in {"RUNNING", "PAUSED", "err_PROCESSING_FRAME"}
  /\ dpc \in {"unload", "dlclose"} =>
       /\ tracker = "closed"
       /\ state \in {"STOPPED", "err_NOT_INITIALIZED"}

\* The points of the device thread between dlopen and the clearing of iface.
Mapped == DevicePcs \ {"none", "start", "load", "dlclose", "done"}

\* A driver is loaded while it is mapped.
LoadedWhileMapped == loaded <=> dpc \in Mapped

\* Main creates the device thread only after it has joined the last one.
OneThread == dpc = "none" <=> pc[Main] = "off"

\* The inductive invariant.
IInv ==
  /\ TypeOK
  /\ OneThread
  /\ StatusAndCamera
  /\ LoadedWhileMapped
  /\ NoLostWakeup
  /\ CrashOnlyAfterLastStatus

------------------------------------------------------------------------------

\* Every variable keeps its type in every step: the places of the callers, the
\* request word with its history, and the rest.
LEMMA TypeStep == TypeOK /\ [Next]_vars => TypeOK'
<1> SUFFICES ASSUME TypeOK, [Next]_vars PROVE TypeOK'
  OBVIOUS
<1> USE DEF TypeOK
<1>1. pc' \in [Threads -> CallerPcs]
  <2> USE DEF Caller, CallerPcs, Threads
  <2>1. CASE InitTracking \/ Shutdown \/ Join
    BY <2>1 DEF InitTracking, Shutdown, Join
  <2>2. ASSUME NEW t \in Threads, NEW r \in {"PAUSE", "RUN"}, Ask(t, r)
        PROVE  pc' \in [Threads -> CallerPcs]
    BY <2>2 DEF Ask
  <2>3. ASSUME NEW t \in Threads, CallerStep(t)
        PROVE  pc' \in [Threads -> CallerPcs]
    BY <2>3 DEF CallerStep, CheckLoaded, Call, Signal, After
  <2>4. CASE DeviceStep \/ SpuriousWakeup
    BY <2>4 DEF DeviceStep, Device, callers,
          GetDevice, LoadLibrary, CheckPause, SetRun, TrackerInit,
          AnnounceRunning, LoopHead, TestFlag, SpuriousWakeup, ReadRequest,
          ClearRequest, ActPause, PauseTracker, ActGrab, Grab, ActResume,
          ActIgnore, ActStop, CloseTracker, AnnounceStopped, ClearPointers,
          CloseLibrary
  <2>5. CASE UNCHANGED vars
    BY <2>5 DEF vars, callers
  <2> QED
    BY <2>1, <2>2, <2>3, <2>4, <2>5 DEF Next
<1>2. request' \in Requests /\ erased' \subseteq Requests
  <2> USE DEF Requests, word, SetRequest
  <2>1. CASE InitTracking \/ Shutdown \/ Join
    BY <2>1 DEF InitTracking, Shutdown, Join
  <2>2. ASSUME NEW t \in Threads, NEW r \in {"PAUSE", "RUN"}, Ask(t, r)
        PROVE  request' \in Requests /\ erased' \subseteq Requests
    BY <2>2 DEF Ask
  <2>3. ASSUME NEW t \in Threads, CallerStep(t)
        PROVE  request' \in Requests /\ erased' \subseteq Requests
    BY <2>3 DEF CallerStep, CheckLoaded, Call, Signal
  <2>4. CASE DeviceStep \/ SpuriousWakeup
    BY <2>4 DEF DeviceStep,
          GetDevice, LoadLibrary, CheckPause, SetRun, TrackerInit,
          AnnounceRunning, LoopHead, TestFlag, SpuriousWakeup, ReadRequest,
          ClearRequest, ActPause, PauseTracker, ActGrab, Grab, ActResume,
          ActIgnore, ActStop, CloseTracker, AnnounceStopped, ClearPointers,
          CloseLibrary
  <2>5. CASE UNCHANGED vars
    BY <2>5 DEF vars
  <2> QED
    BY <2>1, <2>2, <2>3, <2>4, <2>5 DEF Next
<1> DEFINE RestOK == /\ state \in Statuses
                     /\ loaded \in BOOLEAN
                     /\ changeFlag \in BOOLEAN
                     /\ tracker \in Cameras
                     /\ taken \in Requests
                     /\ dpc \in DevicePcs
                     /\ closing \in BOOLEAN
                     /\ crashed \in BOOLEAN
<1>3. RestOK'
  <2> USE DEF Caller, Device, library, device, callers, Statuses, Cameras,
              DevicePcs
  <2>1. CASE InitTracking \/ Shutdown \/ Join
    BY <2>1 DEF InitTracking, Shutdown, Join
  <2>2. ASSUME NEW t \in Threads, NEW r \in {"PAUSE", "RUN"}, Ask(t, r)
        PROVE  RestOK'
    BY <2>2 DEF Ask
  <2>3. ASSUME NEW t \in Threads, CallerStep(t)
        PROVE  RestOK'
    BY <2>3 DEF CallerStep, CheckLoaded, Call, Signal
  <2>4. CASE GetDevice \/ LoadLibrary \/ CheckPause \/ SetRun \/ TrackerInit
    BY <2>4 DEF GetDevice, LoadLibrary, CheckPause, SetRun, TrackerInit
  <2>5. CASE \/ AnnounceRunning \/ LoopHead \/ TestFlag \/ SpuriousWakeup
             \/ ReadRequest \/ ClearRequest
    BY <2>5 DEF AnnounceRunning, LoopHead, TestFlag, SpuriousWakeup,
                ReadRequest, ClearRequest
  <2>6. CASE \/ ActPause \/ PauseTracker \/ ActGrab \/ Grab \/ ActResume
             \/ ActIgnore \/ ActStop
    BY <2>6 DEF ActPause, PauseTracker, ActGrab, Grab, ActResume, ActIgnore,
                ActStop
  <2>7. CASE \/ CloseTracker \/ AnnounceStopped \/ ClearPointers
             \/ CloseLibrary
    BY <2>7 DEF CloseTracker, AnnounceStopped, ClearPointers, CloseLibrary
  <2>8. CASE UNCHANGED vars
    BY <2>8 DEF vars
  <2> QED
    BY <2>1, <2>2, <2>3, <2>4, <2>5, <2>6, <2>7, <2>8 DEF Next, DeviceStep
<1> QED
  BY <1>1, <1>2, <1>3


\* The calling threads leave the status and the camera alone; they move the
\* device thread only out of its sleep, and at its creation and its join.
LEMMA CallersLeaveDevice ==
  ASSUME IInv, NEW t \in Threads, NEW r \in {"PAUSE", "RUN"},
         InitTracking \/ Ask(t, r) \/ Shutdown \/ CallerStep(t) \/ Join
  PROVE  /\ UNCHANGED <<state, tracker, taken>>
         /\ \/ dpc' = dpc
            \/ dpc = "asleep" /\ dpc' = "awake"
            \/ dpc = "done" /\ dpc' = "none"
            \/ dpc = "none" /\ dpc' = "start"
  BY DEF IInv, OneThread, InitTracking, Ask, Shutdown, CallerStep, CheckLoaded,
         Call, Signal, Join, Caller, device

\* The device thread, point by point.
LEMMA StatusAndCameraStep == IInv /\ [Next]_vars => StatusAndCamera'
<1> SUFFICES ASSUME IInv, [Next]_vars PROVE StatusAndCamera'
  OBVIOUS
<1> USE DEF IInv, StatusAndCamera
<1>1. ASSUME NEW t \in Threads, NEW r \in {"PAUSE", "RUN"},
             InitTracking \/ Ask(t, r) \/ Shutdown \/ CallerStep(t) \/ Join
      PROVE  StatusAndCamera'
  BY <1>1, CallersLeaveDevice
<1> USE DEF Device, device
<1>2. CASE GetDevice \/ LoadLibrary \/ CheckPause \/ SetRun \/ TrackerInit
  BY <1>2 DEF GetDevice, LoadLibrary, CheckPause, SetRun, TrackerInit
<1>3. CASE AnnounceRunning \/ LoopHead \/ TestFlag \/ SpuriousWakeup
  BY <1>3 DEF AnnounceRunning, LoopHead, TestFlag, SpuriousWakeup
<1>4. CASE ReadRequest \/ ClearRequest \/ ActPause \/ PauseTracker \/ ActGrab
  BY <1>4 DEF ReadRequest, ClearRequest, ActPause, PauseTracker, ActGrab
<1>5. CASE Grab \/ ActResume \/ ActIgnore \/ ActStop
  BY <1>5 DEF Grab, ActResume, ActIgnore, ActStop
<1>6. CASE CloseTracker \/ AnnounceStopped \/ ClearPointers \/ CloseLibrary
  BY <1>6 DEF CloseTracker, AnnounceStopped, ClearPointers, CloseLibrary
<1>7. CASE UNCHANGED vars
  BY <1>7 DEF vars
<1> QED
  BY <1>1, <1>2, <1>3, <1>4, <1>5, <1>6, <1>7 DEF Next, DeviceStep, Threads

\* The rest of the invariant: who owns the thread, when iface points into the
\* library, the condition variable, and where a crash can happen.
LEMMA ThreadStep ==
  IInv /\ [Next]_vars => OneThread' /\ LoadedWhileMapped' /\ NoLostWakeup'
<1> SUFFICES ASSUME IInv, [Next]_vars
             PROVE  OneThread' /\ LoadedWhileMapped' /\ NoLostWakeup'
  OBVIOUS
<1> USE MainAssumption DEF IInv, OneThread, LoadedWhileMapped, NoLostWakeup,
          Mapped, DevicePcs, Threads
<1>1. CASE InitTracking \/ Shutdown \/ Join
  BY <1>1 DEF TypeOK, InitTracking, Shutdown, Join, Caller, library
<1>2. ASSUME NEW t \in Threads, NEW r \in {"PAUSE", "RUN"}, Ask(t, r)
      PROVE  OneThread' /\ LoadedWhileMapped' /\ NoLostWakeup'
  BY <1>2 DEF TypeOK, Ask, Caller, library
<1>3. ASSUME NEW t \in Threads, CallerStep(t)
      PROVE  OneThread' /\ LoadedWhileMapped' /\ NoLostWakeup'
  BY <1>3 DEF TypeOK, CallerStep, CheckLoaded, Call, Signal, Caller, After, library
<1> USE DEF Device, callers, library
<1>4. CASE GetDevice \/ CheckPause \/ SetRun \/ TrackerInit
  BY <1>4 DEF GetDevice, CheckPause, SetRun, TrackerInit
<1>10. CASE LoadLibrary
  <2>1. OneThread' /\ NoLostWakeup'
    BY <1>10 DEF LoadLibrary
  <2>2. LoadedWhileMapped'
    <3>1. loaded' \in BOOLEAN
      BY <1>10 DEF LoadLibrary, TypeOK
    <3>2. CASE dpc' = "check" /\ loaded'
      BY <3>2
    <3>3. CASE dpc' = "done" /\ UNCHANGED loaded /\ dpc = "load"
      BY <3>3
    <3> QED
      BY <1>10, <3>1, <3>2, <3>3 DEF LoadLibrary
  <2> QED
    BY <2>1, <2>2
<1>5. CASE AnnounceRunning \/ LoopHead \/ TestFlag \/ SpuriousWakeup
  BY <1>5 DEF AnnounceRunning, LoopHead, TestFlag, SpuriousWakeup
<1>6. CASE ReadRequest \/ ClearRequest \/ ActPause \/ PauseTracker \/ ActGrab
  BY <1>6 DEF ReadRequest, ClearRequest, ActPause, PauseTracker, ActGrab
<1>7. CASE Grab \/ ActResume \/ ActIgnore \/ ActStop
  BY <1>7 DEF Grab, ActResume, ActIgnore, ActStop
<1>8. CASE CloseTracker \/ AnnounceStopped
  BY <1>8 DEF CloseTracker, AnnounceStopped
<1>11. CASE ClearPointers
  BY <1>11 DEF ClearPointers
<1>12. CASE CloseLibrary
  BY <1>12 DEF CloseLibrary
<1>9. CASE UNCHANGED vars
  BY <1>9 DEF vars
<1> QED
  BY <1>1, <1>2, <1>3, <1>4, <1>5, <1>6, <1>7, <1>8, <1>9,
     <1>10, <1>11, <1>12 DEF Next, DeviceStep

\* A thread can fall into the unloaded library only at Call, where iface must
\* be clear, or at the dlclose itself.
LEMMA CrashStep == IInv /\ [Next]_vars => CrashOnlyAfterLastStatus'
<1> SUFFICES ASSUME IInv, [Next]_vars PROVE CrashOnlyAfterLastStatus'
  OBVIOUS
<1> USE DEF IInv, CrashOnlyAfterLastStatus
<1>1. ASSUME NEW t \in Threads, Call(t)
      PROVE  CrashOnlyAfterLastStatus'
  BY <1>1 DEF Call, LoadedWhileMapped, Mapped, DevicePcs, TypeOK
<1>2. CASE CloseLibrary
  BY <1>2 DEF CloseLibrary, Device
<1>3. ASSUME ~CloseLibrary, \A t \in Threads : ~Call(t)
      PROVE  UNCHANGED crashed \/ ~crashed'
  <2>1. CASE InitTracking \/ Shutdown \/ Join
    BY <2>1 DEF InitTracking, Shutdown, Join
  <2>2. ASSUME NEW t \in Threads, NEW r \in {"PAUSE", "RUN"}, Ask(t, r)
        PROVE  UNCHANGED crashed
    BY <2>2 DEF Ask
  <2>3. ASSUME NEW t \in Threads, CallerStep(t)
        PROVE  UNCHANGED crashed
    BY <2>3, <1>3 DEF CallerStep, CheckLoaded, Signal
  <2>4. CASE DeviceStep \/ SpuriousWakeup
    BY <2>4, <1>3 DEF DeviceStep,
          GetDevice, LoadLibrary, CheckPause, SetRun, TrackerInit, AnnounceRunning,
          LoopHead, TestFlag, SpuriousWakeup, ReadRequest, ClearRequest, ActPause,
          PauseTracker, ActGrab, Grab, ActResume, ActIgnore, ActStop,
          CloseTracker, AnnounceStopped, ClearPointers
  <2>5. CASE UNCHANGED vars
    BY <2>5 DEF vars
  <2> QED
    BY <2>1, <2>2, <2>3, <2>4, <2>5 DEF Next
<1>4. crashed => UNCHANGED <<crashed, dpc>>
  <2>1. CASE InitTracking \/ Shutdown \/ Join
    BY <2>1 DEF InitTracking, Shutdown, Join, Caller
  <2>2. ASSUME NEW t \in Threads, NEW r \in {"PAUSE", "RUN"}, Ask(t, r)
        PROVE  ~crashed
    BY <2>2 DEF Ask, Caller
  <2>3. ASSUME NEW t \in Threads, CallerStep(t)
        PROVE  ~crashed
    BY <2>3 DEF CallerStep, CheckLoaded, Call, Signal, Caller
  <2>4. CASE DeviceStep \/ SpuriousWakeup
    BY <2>4 DEF DeviceStep, Device,
          GetDevice, LoadLibrary, CheckPause, SetRun, TrackerInit, AnnounceRunning,
          LoopHead, TestFlag, SpuriousWakeup, ReadRequest, ClearRequest, ActPause,
          PauseTracker, ActGrab, Grab, ActResume, ActIgnore, ActStop,
          CloseTracker, AnnounceStopped, ClearPointers, CloseLibrary
  <2>5. CASE UNCHANGED vars
    BY <2>5 DEF vars
  <2> QED
    BY <2>1, <2>2, <2>3, <2>4, <2>5 DEF Next
<1> QED
  BY <1>1, <1>2, <1>3, <1>4

\* The strengthened invariant holds in every reachable state.
THEOREM Invariance == Spec => []IInv
<1>1. Init => IInv
  BY MainAssumption
     DEF Init, IInv, TypeOK, StatusAndCamera, LoadedWhileMapped, Mapped,
         NoLostWakeup, CrashOnlyAfterLastStatus, OneThread, Threads, Requests,
         Statuses, Cameras, DevicePcs, CallerPcs
<1>2. IInv /\ [Next]_vars => IInv'
  BY TypeStep, StatusAndCameraStep, ThreadStep, CrashStep DEF IInv
<1> QED
  BY <1>1, <1>2, PTL DEF Spec, Safety

\* Every variable of the device control keeps its type.
THEOREM TypeCorrect == Spec => []TypeOK
  BY Invariance, PTL DEF IInv

\* The assert(0) at the head of the run loop never fires, and the camera is in
\* the state that the loop acts on.
THEOREM LoopNeverAsserts == Spec => []LoopKnowsState
<1>1. IInv => LoopKnowsState
  BY DEF IInv, StatusAndCamera, LoopKnowsState
<1> QED
  BY <1>1, Invariance, PTL

\* A device that is published as stopped or not started has its camera off.
THEOREM StoppedMeansOff == Spec => []CameraOffWhenDown
<1>1. IInv => CameraOffWhenDown
  BY DEF IInv, StatusAndCamera, CameraOffWhenDown, TypeOK, DevicePcs
<1> QED
  BY <1>1, Invariance, PTL

\* A device that is published as running or paused has a thread in its loop.
THEOREM RunningMeansThread == Spec => []LiveStatusHasThread
<1>1. IInv => LiveStatusHasThread
  BY DEF IInv, StatusAndCamera, LiveStatusHasThread
<1> QED
  BY <1>1, Invariance, PTL

\* No signal is left behind a sleeping loop.
THEOREM WakeupsAreNotLost == Spec => []NoLostWakeup
  BY Invariance, PTL DEF IInv

\* While the loop runs, a caller never meets an unloaded library.
THEOREM CallsAreSafeWhileRunning == Spec => []CrashOnlyAfterLastStatus
  BY Invariance, PTL DEF IInv

------------------------------------------------------------------------------
(* The refinement.                                                         *)

\* Every step of the threads is a step of the lifecycle or leaves the status
\* and the camera alone.
LEMMA LifecycleStep == IInv /\ [Next]_vars => [Lifecycle!Next]_Lifecycle!vars
<1> SUFFICES ASSUME IInv, [Next]_vars
             PROVE  [Lifecycle!Next]_Lifecycle!vars
  OBVIOUS
<1> USE DEF Lifecycle!vars, IInv, StatusAndCamera, Device, device
<1>1. ASSUME NEW t \in Threads, NEW r \in {"PAUSE", "RUN"},
             InitTracking \/ Ask(t, r) \/ Shutdown \/ CallerStep(t) \/ Join
      PROVE  UNCHANGED Lifecycle!vars
  BY <1>1, CallersLeaveDevice
<1>2. CASE \/ LoadLibrary \/ CheckPause \/ SetRun \/ LoopHead \/ TestFlag
           \/ SpuriousWakeup \/ ReadRequest \/ ClearRequest \/ ActGrab
           \/ ActIgnore \/ ClearPointers \/ CloseLibrary
  BY <1>2 DEF LoadLibrary, CheckPause, SetRun, LoopHead, TestFlag,
     SpuriousWakeup, ReadRequest, ClearRequest, ActGrab, ActIgnore,
     ClearPointers, CloseLibrary
<1>3. CASE GetDevice
  BY <1>3 DEF GetDevice, Lifecycle!Next, Lifecycle!Begin
<1>4. CASE TrackerInit
  BY <1>4 DEF TrackerInit, Lifecycle!Next, Lifecycle!Open, Lifecycle!OpenFails
<1>5. CASE AnnounceRunning
  BY <1>5 DEF AnnounceRunning, Lifecycle!Next, Lifecycle!Run
<1>6. CASE ActPause
  BY <1>6 DEF ActPause, Lifecycle!Next, Lifecycle!AnnouncePause
<1>7. CASE PauseTracker
  BY <1>7 DEF PauseTracker, Lifecycle!Next, Lifecycle!Pause
<1>8. CASE Grab
  BY <1>8 DEF Grab, Lifecycle!Next, Lifecycle!Fail
<1>9. CASE ActResume
  BY <1>9 DEF ActResume, Lifecycle!Next, Lifecycle!Resume
<1>10. CASE ActStop
  BY <1>10 DEF ActStop, Lifecycle!Next, Lifecycle!Resume
<1>11. CASE CloseTracker
  BY <1>11 DEF CloseTracker, Lifecycle!Next, Lifecycle!Close
<1>12. CASE AnnounceStopped
  BY <1>12 DEF AnnounceStopped, Lifecycle!Next, Lifecycle!Stop
<1>13. CASE UNCHANGED vars
  BY <1>13 DEF vars
<1> QED
  BY <1>1, <1>2, <1>3, <1>4, <1>5, <1>6, <1>7, <1>8, <1>9, <1>10, <1>11,
     <1>12, <1>13 DEF Next, DeviceStep, Threads

\* The device control implements the lifecycle of status and camera.
THEOREM ImplementsLifecycle == Spec => LifecycleSpec
<1>1. Init => Lifecycle!Init
  BY DEF Init, Lifecycle!Init
<1> QED
  BY <1>1, LifecycleStep, Invariance, PTL
     DEF Spec, Safety, LifecycleSpec, Lifecycle!Spec
==============================================================================
