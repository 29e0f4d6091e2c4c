--------------------------- MODULE DetectorProofs ---------------------------
(***************************************************************************)
(* Proofs about Detector, for every set of devices, every window and every *)
(* bound.  Inv is the inductive invariant: the three invariants the runs    *)
(* check, and what they need to know of a worker inside a recorder call and *)
(* of the requests still queued in its channel.                             *)
(***************************************************************************)
EXTENDS Detector, TLAPS

Control == {"Pause", "PauseAbandoned", "Resume"}

\* A worker inside a recorder call has not paused, holds the recorder it is
\* about to stop and none when it is about to start one.
CallInv ==
    /\ pc \in {"Start", "Keep", "Discard"} => ~paused
    /\ pc = "Start" => mach.st = "Recording" /\ ~current
    /\ pc \in {"Keep", "Discard"} => mach = Idle /\ current
    /\ pc = "gone" => mach.st = "Idle" /\ ~current

\* At most one live pause request is queued, nothing that could revoke it is
\* queued behind it, and none is queued once the test owns the detector.
QueueInv ==
    /\ tester # "waiting" => \A i \in 1..Len(inbox) : inbox[i] # "Pause"
    /\ tester = "waiting" =>
         \A i, j \in 1..Len(inbox) :
            inbox[i] = "Pause" /\ i < j => inbox[j] \notin Control
    /\ tester \in {"paused", "open"} =>
         \A i \in 1..Len(inbox) : inbox[i] \notin Control

\* Since the start of a running session nothing but an error was announced.
EventInv == current => event \in {"RecordingStarted", "Error"}

Inv == /\ TypeOK /\ MachineOwnsRecorder /\ TestOwnsDetector
       /\ CallInv /\ QueueInv /\ EventInv

-----------------------------------------------------------------------------
MachineType == [st : States, age : 0..Horizon, span : 0..Horizon]

\* Elapsed times stay within the horizon.
LEMMA LaterType ==
    ASSUME NEW t \in 0..Horizon, NEW d \in Nat
    PROVE  Later(t, d) \in 0..Horizon
  BY WindowAssumption DEF Later

\* on_signal keeps the machine typed and neither starts nor ends a call.
LEMMA OnSignalFacts ==
    ASSUME NEW m \in MachineType, NEW on \in BOOLEAN
    PROVE  /\ on_signal(m, on) \in MachineType
           /\ on_signal(m, on).st \in {"Recording", "Coasting"}
                <=> m.st \in {"Recording", "Coasting"}
  <1>1. Later(m.span, m.age) \in 0..Horizon
    BY LaterType DEF MachineType
  <1> QED
    BY <1>1, WindowAssumption
    DEF on_signal, MachineType, States, Idle, Arming, Recording, Coasting

\* A seeded machine is typed and not in a call.
LEMMA SeedFacts ==
    ASSUME NEW on \in BOOLEAN
    PROVE  /\ on_signal(Idle, on) \in MachineType
           /\ on_signal(Idle, on).st \notin {"Recording", "Coasting"}
  BY WindowAssumption DEF on_signal, MachineType, States, Idle, Arming, Recording, Coasting

\* Time keeps the machine typed, in the same state, and an Idle machine Idle.
LEMMA ElapseFacts ==
    ASSUME NEW m \in MachineType
    PROVE  /\ Elapse(m) \in MachineType
           /\ Elapse(m).st = m.st
           /\ m = Idle => Elapse(m) = Idle
  <1>1. Later(m.age, 1) \in 0..Horizon /\ Later(m.span, 1) \in 0..Horizon
    BY LaterType DEF MachineType
  <1> QED
    BY <1>1, WindowAssumption DEF Elapse, MachineType, States, Idle

\* What a tick may return, and the state each Action leaves behind.
LEMMA TickFacts ==
    ASSUME NEW m \in MachineType
    PROVE  /\ AfterTick(m) \in MachineType
           /\ TickAction(m) \in {"None", "Start", "Keep", "Discard"}
           /\ TickAction(m) = "None" => AfterTick(m) = m
           /\ TickAction(m) = "Start" => m.st = "Arming" /\ AfterTick(m) = Recording(0)
           /\ TickAction(m) \in {"Keep", "Discard"} =>
                 m.st = "Coasting" /\ AfterTick(m) = Idle
           /\ ~DeadlineOver(AfterTick(m))
  BY WindowAssumption
  DEF AfterTick, TickAction, DeadlineOver, MachineType, States, Idle, Recording

\* The initial states satisfy the invariant.
LEMMA InitInv == Init => Inv
  <1> SUFFICES ASSUME Init PROVE Inv
    OBVIOUS
  <1>1. /\ mach \in MachineType
        /\ mach.st \notin {"Recording", "Coasting"}
    <2>1. (default \in held) \in BOOLEAN
      OBVIOUS
    <2>2. Idle \in MachineType /\ Idle.st = "Idle"
      BY WindowAssumption DEF MachineType, States, Idle
    <2> QED
      BY <2>1, <2>2, SeedFacts DEF Init
  <1>2. TypeOK
    <2>1. current \in BOOLEAN /\ paused \in BOOLEAN /\ edge \in BOOLEAN
      BY Zenon DEF Init
    <2>2. inbox \in Seq(Messages)
      BY DEF Init
    <2>3. waited \in 0..Horizon
      BY WindowAssumption DEF Init
    <2> QED
      BY <1>1, <2>1, <2>2, <2>3 DEF Init, TypeOK, MachineType
  <1> QED
    BY <1>1, <1>2
    DEF Init, Inv, MachineOwnsRecorder, InCall, TestOwnsDetector, CallInv, QueueInv, EventInv

-----------------------------------------------------------------------------
(* The channel                                                             *)

\* Taking the head keeps the channel typed and every later message in order.
LEMMA ReceiveFacts ==
    ASSUME Inv, NEW msg, Receive(msg)
    PROVE  /\ inbox' \in Seq(Messages) /\ waited' \in 0..Horizon
           /\ pc = "recv" /\ inbox[1] = msg /\ msg \in Messages
           /\ Len(inbox') = Len(inbox) - 1
           /\ \A i \in 1..Len(inbox') : i + 1 \in 1..Len(inbox) /\ inbox'[i] = inbox[i + 1]
  BY WindowAssumption DEF Inv, TypeOK, Receive

\* Receiving preserves QueueInv unless it answers the test.
LEMMA ReceiveQueueInv ==
    ASSUME Inv, NEW msg, Receive(msg), tester' = tester
    PROVE  QueueInv'
  <1>1. Len(inbox) \in Nat /\ Len(inbox') \in Nat
    BY ReceiveFacts DEF Inv, TypeOK
  <1>2. \A i \in 1..Len(inbox') : i + 1 \in 1..Len(inbox) /\ inbox'[i] = inbox[i + 1]
    BY ReceiveFacts
  <1>3. \A i, j \in 1..Len(inbox') : i < j => i + 1 < j + 1
    BY <1>1
  <1>4. (tester # "waiting" => \A i \in 1..Len(inbox) : inbox[i] # "Pause")'
    BY <1>2 DEF Inv, QueueInv
  <1>5. (tester = "waiting" => \A i, j \in 1..Len(inbox) :
            inbox[i] = "Pause" /\ i < j => inbox[j] \notin Control)'
    BY <1>2, <1>3 DEF Inv, QueueInv
  <1>6. (tester \in {"paused", "open"} =>
            \A i \in 1..Len(inbox) : inbox[i] \notin Control)'
    BY <1>2 DEF Inv, QueueInv
  <1> QED
    BY <1>4, <1>5, <1>6 DEF QueueInv

\* Posting a message that is not a request preserves QueueInv.
LEMMA PostQueueInv ==
    ASSUME Inv, NEW msg \in Messages \ Control,
           inbox' = Append(inbox, msg), tester' = tester
    PROVE  inbox' \in Seq(Messages) /\ QueueInv'
  BY DEF Inv, TypeOK, QueueInv, Control, Messages

\* The microphone test's own moves with an unchanged channel.
LEMMA SameQueueInv ==
    ASSUME Inv, inbox' = inbox, tester' = tester
    PROVE  QueueInv'
  BY DEF Inv, QueueInv

\* A listener callback only posts a reading to the channel (trampoline).
LEMMA HalCallbackInv == Inv /\ HalCallback => Inv'
  <1> SUFFICES ASSUME Inv, HalCallback PROVE Inv'
    OBVIOUS
  <1>1. inbox' \in Seq(Messages) /\ QueueInv'
    <2>1. CASE inbox' = inbox
      BY <2>1, SameQueueInv DEF HalCallback, Inv, TypeOK
    <2>2. CASE inbox' # inbox
      <3>1. PICK msg \in {"On", "Off"} : inbox' = Append(inbox, msg)
        BY <2>2 DEF HalCallback
      <3> QED
        BY <3>1, PostQueueInv DEF HalCallback, Messages, Control
    <2> QED
      BY <2>1, <2>2
  <1>2. edge' \in BOOLEAN
    BY Zenon DEF HalCallback
  <1> QED
    BY <1>1, <1>2
    DEF Inv, HalCallback, machineVars, TypeOK, MachineOwnsRecorder, InCall,
        TestOwnsDetector, CallInv, EventInv

\* Notify leaves a Boolean.
LEMMA NotifyType == ASSUME Inv, Notify PROVE edge' \in BOOLEAN
  BY Zenon DEF Inv, TypeOK, Notify

\* Another application's use of a microphone at most raises a notification.
LEMMA OtherAppInv == ASSUME Inv, NEW d \in Devices, OtherApp(d) PROVE Inv'
  <1>1. edge' \in BOOLEAN
    BY NotifyType DEF OtherApp
  <1>2. held' \in SUBSET Devices
    BY DEF OtherApp, Inv, TypeOK
  <1>3. QueueInv'
    BY SameQueueInv DEF OtherApp
  <1> QED
    BY <1>1, <1>2, <1>3
    DEF Inv, OtherApp, machineVars, TypeOK, MachineOwnsRecorder, InCall,
        TestOwnsDetector, CallInv, EventInv

\* A default-device change only posts DeviceChanged.
LEMMA SwitchDeviceInv == ASSUME Inv, NEW d \in Devices, SwitchDevice(d) PROVE Inv'
  <1>1. inbox' \in Seq(Messages) /\ QueueInv'
    BY PostQueueInv DEF SwitchDevice, Messages, Control
  <1> QED
    BY <1>1
    DEF Inv, SwitchDevice, machineVars, TypeOK, MachineOwnsRecorder, InCall,
        TestOwnsDetector, CallInv, EventInv

-----------------------------------------------------------------------------
(* The worker                                                              *)

\* A reading moves an unpaused machine without starting or ending a call.
LEMMA OnSignalInv == ASSUME Inv, NEW msg \in {"On", "Off"}, OnSignal(msg) PROVE Inv'
  <1>1. Receive(msg)
    BY DEF OnSignal
  <1>2. QueueInv'
    BY <1>1, ReceiveQueueInv DEF OnSignal
  <1>3. /\ mach' \in MachineType
        /\ InCall' <=> InCall
        /\ paused => mach' = mach
    <2>1. (msg = "On") \in BOOLEAN
      OBVIOUS
    <2> QED
      BY <2>1, OnSignalFacts DEF OnSignal, Inv, TypeOK, MachineType, InCall
  <1> QED
    BY <1>1, <1>2, <1>3, ReceiveFacts
    DEF Inv, OnSignal, systemVars, TypeOK, MachineType, MachineOwnsRecorder,
        TestOwnsDetector, CallInv, EventInv

\* Rebinding seeds an unpaused machine and leaves a paused one alone (rebind).
LEMMA RebindInv == ASSUME Inv, Rebind PROVE Inv'
  <1>1. Receive("DeviceChanged")
    BY DEF Rebind
  <1>2. QueueInv'
    BY <1>1, ReceiveQueueInv DEF Rebind
  <1>3. /\ mach' \in MachineType
        /\ InCall' <=> InCall
        /\ paused => mach' = mach
    <2>1. IsRunning(default) \in BOOLEAN
      BY Zenon DEF IsRunning
    <2> QED
      BY <2>1, OnSignalFacts DEF Rebind, RebindMachine, Inv, TypeOK, MachineType, InCall
  <1>4. edge' \in BOOLEAN
    BY Zenon DEF Rebind
  <1> QED
    BY <1>1, <1>2, <1>3, <1>4, ReceiveFacts
    DEF Inv, Rebind, TypeOK, MachineType, MachineOwnsRecorder,
        TestOwnsDetector, CallInv, EventInv

\* A failed rebind keeps the old monitor and the machine.
LEMMA RebindFailsInv == ASSUME Inv, RebindFails PROVE Inv'
  <1>1. Receive("DeviceChanged")
    BY DEF RebindFails
  <1>2. QueueInv'
    BY <1>1, ReceiveQueueInv DEF RebindFails
  <1> QED
    BY <1>1, <1>2, ReceiveFacts
    DEF Inv, RebindFails, systemVars, TypeOK, MachineOwnsRecorder, InCall,
        TestOwnsDetector, CallInv, EventInv

\* A pause is refused under a recorder and otherwise resets the machine; the
\* caller that is told so is the only one waiting (run, Msg::Pause).
LEMMA OnPauseInv ==
    ASSUME Inv, NEW msg \in {"Pause", "PauseAbandoned"}, OnPause(msg) PROVE Inv'
  <1>1. Receive(msg)
    BY DEF OnPause
  <1>2. CASE tester' = tester
    <2>1. QueueInv'
      BY <1>1, <1>2, ReceiveQueueInv
    <2>2. paused' \in BOOLEAN /\ mach' \in MachineType
      BY WindowAssumption DEF OnPause, Inv, TypeOK, MachineType, States, Idle
    <2> QED
      BY <1>1, <1>2, <2>1, <2>2, ReceiveFacts
      DEF Inv, OnPause, systemVars, TypeOK, MachineType, MachineOwnsRecorder, InCall,
          TestOwnsDetector, CallInv, EventInv, Idle
  <1>3. CASE tester' # tester
    <2>1. msg = "Pause" /\ tester = "waiting" /\ tester' \in {"idle", "paused"}
          /\ (tester' = "paused" => ~current)
      <3>1. msg = "Pause" /\ tester' \in {"idle", "paused"} /\ (tester' = "paused" => ~current)
        BY <1>3 DEF OnPause
      <3>2. 1 \in 1..Len(inbox) /\ inbox[1] = "Pause"
        BY <1>1, <3>1, ReceiveFacts DEF Receive, Inv, TypeOK
      <3> QED
        BY <3>1, <3>2 DEF Inv, QueueInv
    <2>2. \A i \in 1..Len(inbox') : inbox'[i] \notin Control
      <3>1. 1 \in 1..Len(inbox) /\ inbox[1] = "Pause"
        BY <1>1, <2>1, ReceiveFacts DEF Receive, Inv, TypeOK
      <3>2. \A i \in 1..Len(inbox') : i + 1 \in 1..Len(inbox) /\ 1 < i + 1
                                      /\ inbox'[i] = inbox[i + 1]
        BY <1>1, ReceiveFacts
      <3> QED
        BY <2>1, <3>1, <3>2 DEF Inv, QueueInv
    <2>3. QueueInv'
      BY <2>1, <2>2 DEF QueueInv, Control
    <2>4. paused' \in BOOLEAN /\ mach' \in MachineType
      BY WindowAssumption DEF OnPause, Inv, TypeOK, MachineType, States, Idle
    <2> QED
      BY <1>1, <2>1, <2>3, <2>4, ReceiveFacts
      DEF Inv, OnPause, systemVars, TypeOK, MachineType, MachineOwnsRecorder, InCall,
          TestOwnsDetector, CallInv, EventInv, Idle
  <1> QED
    BY <1>2, <1>3

\* A resume reaches the worker only when no test owns the detector, and reseeds
\* the machine only when no recorder runs (resume_detection).
LEMMA OnResumeInv == ASSUME Inv, OnResume PROVE Inv'
  <1>1. Receive("Resume")
    BY DEF OnResume
  <1>2. QueueInv'
    BY <1>1, ReceiveQueueInv DEF OnResume
  <1>3. mach' \in MachineType /\ (InCall' <=> InCall)
    <2>1. PICK on \in BOOLEAN : mach' = ResumeMachine(on)
      <3>1. IsRunning(monitor) \in BOOLEAN
        BY Zenon DEF IsRunning
      <3> QED
        BY <3>1 DEF OnResume
    <2> QED
      BY <1>1, <2>1, SeedFacts, ReceiveFacts
      DEF OnResume, ResumeMachine, Inv, TypeOK, MachineType, MachineOwnsRecorder, InCall
  <1>4. tester \notin {"paused", "open"}
    <2>1. 1 \in 1..Len(inbox) /\ inbox[1] = "Resume"
      BY <1>1, ReceiveFacts DEF Receive, Inv, TypeOK
    <2> QED
      BY <2>1 DEF Inv, QueueInv, Control
  <1> QED
    BY <1>1, <1>2, <1>3, <1>4, ReceiveFacts
    DEF Inv, OnResume, systemVars, TypeOK, MachineType, MachineOwnsRecorder,
        TestOwnsDetector, CallInv, EventInv

\* Shutdown drops the recorder and the machine together.
LEMMA OnShutdownInv == ASSUME Inv, OnShutdown PROVE Inv'
  <1>1. Receive("Shutdown")
    BY DEF OnShutdown
  <1>2. QueueInv'
    BY <1>1, ReceiveQueueInv DEF OnShutdown
  <1>3. edge' \in BOOLEAN /\ current' \in BOOLEAN
    BY NotifyType, Zenon DEF OnShutdown
  <1>4. mach' \in MachineType
    BY WindowAssumption DEF OnShutdown, MachineType, States, Idle
  <1>5. ~current' /\ mach' = Idle /\ Idle.st = "Idle"
    BY DEF OnShutdown, Idle
  <1> QED
    BY <1>1, <1>2, <1>3, <1>4, <1>5, ReceiveFacts
    DEF Inv, OnShutdown, TypeOK, MachineType, MachineOwnsRecorder,
        TestOwnsDetector, CallInv, EventInv

\* The machine a wakeup ticks: typed, and in a call exactly with a recorder.
LEMMA WakeupMachineFacts ==
    ASSUME Inv, pc = "recv", NEW on \in BOOLEAN
    PROVE  /\ WakeupMachine(on) \in MachineType
           /\ WakeupMachine(on).st \in {"Recording", "Coasting"} <=> current
  BY OnSignalFacts
  DEF WakeupMachine, Inv, TypeOK, MachineType, MachineOwnsRecorder, InCall

\* A timed wakeup enters a recorder call exactly when its Action needs one
\* (on_wakeup).
LEMMA WakeupInv == ASSUME Inv, Wakeup PROVE Inv'
  <1>0. PICK on \in BOOLEAN :
            LET m == WakeupMachine(on)
                a == TickAction(m)
            IN pc = "recv" /\ ~paused /\ mach' = AfterTick(m)
               /\ pc' = (CASE a = "Start" -> "Start"
                          [] a \in {"Keep", "Discard"} /\ current -> a
                          [] OTHER -> "recv")
    BY DEF Wakeup, WaitOver
  <1> DEFINE m == WakeupMachine(on)
             a == TickAction(m)
  <1>1. pc = "recv" /\ ~paused /\ mach' = AfterTick(m)
        /\ pc' = (CASE a = "Start" -> "Start"
                   [] a \in {"Keep", "Discard"} /\ current -> a
                   [] OTHER -> "recv")
    BY <1>0
  <1>2. m \in MachineType /\ (m.st \in {"Recording", "Coasting"} <=> current)
    BY <1>1, WakeupMachineFacts
  <1> HIDE DEF m
  <1>3. /\ AfterTick(m) \in MachineType
        /\ a \in {"None", "Start", "Keep", "Discard"}
        /\ a = "None" => AfterTick(m) = m
        /\ a = "Start" => m.st = "Arming" /\ AfterTick(m) = Recording(0)
        /\ a \in {"Keep", "Discard"} => m.st = "Coasting" /\ AfterTick(m) = Idle
    BY <1>2, TickFacts
  <1> HIDE DEF a
  <1>4. QueueInv'
    BY SameQueueInv DEF Wakeup
  <1>5. /\ pc' \in {"recv", "Start", "Keep", "Discard"}
        /\ pc' = "recv" => (current <=> mach'.st \in {"Recording", "Coasting"})
        /\ pc' = "Start" => mach'.st = "Recording" /\ ~current
        /\ pc' \in {"Keep", "Discard"} => mach' = Idle /\ current
    BY <1>1, <1>2, <1>3 DEF Recording, Idle
  <1>6. tester \notin {"paused", "open"}
    BY <1>1 DEF Inv, TestOwnsDetector
  <1>7. waited' \in 0..Horizon
    BY WindowAssumption DEF Wakeup
  <1> QED
    BY <1>1, <1>3, <1>4, <1>5, <1>6, <1>7
    DEF Inv, Wakeup, systemVars, TypeOK, MachineType, MachineOwnsRecorder, InCall,
        TestOwnsDetector, CallInv, EventInv

\* A recorder that starts makes good the Recording state the tick left behind.
LEMMA StartOkInv == ASSUME Inv, StartOk PROVE Inv'
  <1>1. edge' \in BOOLEAN /\ current' \in BOOLEAN /\ current'
    BY NotifyType, Zenon DEF StartOk
  <1>2. QueueInv'
    BY SameQueueInv DEF StartOk
  <1>3. waited' \in 0..Horizon
    BY WindowAssumption DEF StartOk
  <1> QED
    BY <1>1, <1>2, <1>3
    DEF Inv, StartOk, TypeOK, MachineOwnsRecorder, InCall, TestOwnsDetector,
        CallInv, EventInv

\* A recorder that cannot start resets the machine (apply, Action::Start).
LEMMA StartFailsInv == ASSUME Inv, StartFails PROVE Inv'
  <1>1. QueueInv'
    BY SameQueueInv DEF StartFails
  <1>2. waited' \in 0..Horizon /\ mach' \in MachineType
    BY WindowAssumption DEF StartFails, MachineType, States, Idle
  <1>3. mach'.st = "Idle" /\ mach' = Idle
    BY DEF StartFails, Idle
  <1> QED
    BY <1>1, <1>2, <1>3
    DEF Inv, StartFails, systemVars, TypeOK, MachineType, MachineOwnsRecorder, InCall,
        TestOwnsDetector, CallInv, EventInv

\* Finishing, failing to finish and discarding all give up the recorder, as the
\* tick that asked for it had already gone Idle (apply, Action::Stop).
LEMMA StopInv ==
    ASSUME Inv, NEW how \in {"Keep", "Discard"},
           NEW ev \in {"RecordingFinished", "RecordingDiscarded", "Error"},
           StopWith(how, ev)
    PROVE  Inv'
  <1>1. edge' \in BOOLEAN /\ current' \in BOOLEAN /\ ~current'
    BY NotifyType, Zenon DEF StopWith
  <1>2. QueueInv'
    BY SameQueueInv DEF StopWith
  <1>3. waited' \in 0..Horizon
    BY WindowAssumption DEF StopWith
  <1>4. mach.st = "Idle"
    BY DEF Inv, CallInv, StopWith, Idle
  <1> QED
    BY <1>1, <1>2, <1>3, <1>4
    DEF Inv, StopWith, TypeOK, MachineOwnsRecorder, InCall, TestOwnsDetector,
        CallInv, EventInv

-----------------------------------------------------------------------------
(* The microphone test, the application's exit, and time                   *)

\* A new request is the only live one: it is queued last, by an idle test.
LEMMA PauseDetectorInv == ASSUME Inv, PauseDetector PROVE Inv'
  <1>1. inbox' \in Seq(Messages) /\ Len(inbox') = Len(inbox) + 1
        /\ \A i \in 1..Len(inbox) : inbox'[i] = inbox[i]
    BY DEF PauseDetector, Send, Inv, TypeOK, Messages
  <1>2. \A i \in 1..Len(inbox) : inbox'[i] # "Pause"
    BY <1>1 DEF PauseDetector, Inv, QueueInv
  <1>3. \A i, j \in 1..Len(inbox') : i < j => i \in 1..Len(inbox)
    BY <1>1 DEF Inv, TypeOK
  <1>4. QueueInv'
    BY <1>2, <1>3 DEF QueueInv, PauseDetector
  <1> QED
    BY <1>1, <1>4
    DEF Inv, PauseDetector, machineVars, systemVars, TypeOK, MachineOwnsRecorder, InCall,
        TestOwnsDetector, CallInv, EventInv

\* A timed-out pause leaves no live request in the channel, and its compensating
\* Resume behind the abandoned one (DetectorHandle::pause).
LEMMA PauseTimesOutInv == ASSUME Inv, PauseTimesOut PROVE Inv'
  <1> DEFINE q == Abandon(inbox)
  <1>1. q \in Seq(Messages) /\ Len(q) = Len(inbox)
        /\ \A i \in 1..Len(q) : q[i] # "Pause"
    BY DEF Abandon, Inv, TypeOK, Messages
  <1> HIDE DEF q
  <1>2. inbox' = Append(q, "Resume") /\ tester' = "idle"
    BY DEF PauseTimesOut, q
  <1>3. inbox' \in Seq(Messages) /\ Len(inbox') = Len(q) + 1
        /\ \A i \in 1..Len(inbox') : inbox'[i] # "Pause"
    BY <1>1, <1>2 DEF Messages
  <1>4. QueueInv'
    BY <1>2, <1>3 DEF QueueInv
  <1> QED
    BY <1>2, <1>3, <1>4
    DEF Inv, PauseTimesOut, machineVars, systemVars, TypeOK, MachineOwnsRecorder, InCall,
        TestOwnsDetector, CallInv, EventInv

\* The test opens and closes its microphone on a detector that stays suspended.
LEMMA TestMicInv == ASSUME Inv, OpenTestMic \/ CloseTestMic PROVE Inv'
  <1>1. edge' \in BOOLEAN
    BY NotifyType DEF OpenTestMic, CloseTestMic
  <1>2. /\ inbox' = inbox
        /\ tester \in {"paused", "open"} /\ tester' \in {"paused", "open"}
    BY DEF OpenTestMic, CloseTestMic
  <1>3. QueueInv'
    BY <1>2 DEF Inv, QueueInv, Control
  <1> QED
    BY <1>1, <1>2, <1>3
    DEF Inv, OpenTestMic, CloseTestMic, machineVars, TypeOK, MachineOwnsRecorder, InCall,
        TestOwnsDetector, CallInv, EventInv

\* The test gives the detector up before its Resume is queued.
LEMMA ResumeDetectorInv == ASSUME Inv, ResumeDetector PROVE Inv'
  <1>1. inbox' \in Seq(Messages) /\ Len(inbox') = Len(inbox) + 1
        /\ \A i \in 1..Len(inbox') : inbox'[i] # "Pause"
    BY DEF ResumeDetector, Send, Inv, TypeOK, QueueInv, Messages
  <1>2. QueueInv'
    BY <1>1 DEF QueueInv, ResumeDetector
  <1> QED
    BY <1>1, <1>2
    DEF Inv, ResumeDetector, machineVars, systemVars, TypeOK, MachineOwnsRecorder, InCall,
        TestOwnsDetector, CallInv, EventInv

\* Dropping the handle only posts Shutdown.
LEMMA DropDetectorInv == ASSUME Inv, DropDetector PROVE Inv'
  <1>1. inbox' \in Seq(Messages) /\ QueueInv'
    BY PostQueueInv DEF DropDetector, Send, Messages, Control
  <1> QED
    BY <1>1
    DEF Inv, DropDetector, machineVars, systemVars, TypeOK, MachineOwnsRecorder, InCall,
        TestOwnsDetector, CallInv, EventInv

\* Time moves the machine's ages and changes nothing else.
LEMMA TickInv == ASSUME Inv, Tick PROVE Inv'
  <1>1. mach' \in MachineType /\ mach'.st = mach.st /\ (mach = Idle => mach' = Idle)
    BY ElapseFacts DEF Tick, Inv, TypeOK, MachineType
  <1>2. waited' \in 0..Horizon
    BY LaterType DEF Tick, Inv, TypeOK
  <1>3. QueueInv'
    BY SameQueueInv DEF Tick
  <1> QED
    BY <1>1, <1>2, <1>3
    DEF Inv, Tick, systemVars, TypeOK, MachineType, MachineOwnsRecorder, InCall,
        TestOwnsDetector, CallInv, EventInv

-----------------------------------------------------------------------------
(* The theorems                                                            *)

\* Every step of the detector preserves the invariant.
LEMMA StepInv == Inv /\ [Next]_vars => Inv'
  <1> SUFFICES ASSUME Inv, [Next]_vars PROVE Inv'
    OBVIOUS
  <1>1. CASE UNCHANGED vars
    BY <1>1
    DEF vars, Inv, TypeOK, MachineOwnsRecorder, InCall, TestOwnsDetector, CallInv,
        QueueInv, EventInv
  <1>2. CASE Worker
    BY <1>2, OnSignalInv, RebindInv, RebindFailsInv, OnPauseInv, OnResumeInv, OnShutdownInv,
       WakeupInv, StartOkInv, StartFailsInv, StopInv
    DEF Worker, Finish, FinishFails, Discard
  <1>3. CASE HalCallback
    BY <1>3, HalCallbackInv
  <1>4. CASE Tick
    BY <1>4, TickInv
  <1>5. CASE Tester
    BY <1>5, PauseDetectorInv, PauseTimesOutInv, TestMicInv, ResumeDetectorInv DEF Tester
  <1>6. CASE Environment
    BY <1>6, OtherAppInv, SwitchDeviceInv, DropDetectorInv DEF Environment
  <1> QED
    BY <1>1, <1>2, <1>3, <1>4, <1>5, <1>6 DEF Next

\* The inductive invariant holds in every reachable state.
THEOREM Invariance == Spec => []Inv
  BY InitInv, StepInv, PTL DEF Spec

\* The detector's state is always well formed.
THEOREM DetectorTypeCorrect == Spec => []TypeOK
  <1>1. Inv => TypeOK
    BY DEF Inv
  <1> QED
    BY <1>1, Invariance, PTL

\* Whenever the worker waits in its channel, a recorder runs exactly while the
\* machine is in a call, whatever pauses, rebinds and failed starts happened.
THEOREM DetectorOwnsRecorder == Spec => []MachineOwnsRecorder
  <1>1. Inv => MachineOwnsRecorder
    BY DEF Inv
  <1> QED
    BY <1>1, Invariance, PTL

\* An accepted microphone test keeps the detector suspended until it hands the
\* microphone back, also across timed-out requests still in the channel.
THEOREM TestKeepsDetector == Spec => []TestOwnsDetector
  <1>1. Inv => TestOwnsDetector
    BY DEF Inv
  <1> QED
    BY <1>1, Invariance, PTL

\* A timed wakeup always leaves the worker something to wait for.
THEOREM WakeupsDoNotSpin == Spec => NoSpin
  <1>1. Inv /\ [Next]_vars => [Wakeup => ~WaitOver']_vars
    <2> SUFFICES ASSUME Inv, Wakeup PROVE ~WaitOver'
      OBVIOUS
    <2>0. PICK on \in BOOLEAN :
              pc = "recv" /\ mach' = AfterTick(WakeupMachine(on)) /\ waited' = 0
      BY DEF Wakeup
    <2> DEFINE m == WakeupMachine(on)
    <2>1. pc = "recv" /\ mach' = AfterTick(m) /\ waited' = 0
      BY <2>0
    <2>2. m \in MachineType
      BY <2>1, WakeupMachineFacts
    <2>3. ~DeadlineOver(AfterTick(m))
      BY <2>2, TickFacts
    <2>4. ~DeadlineOver(mach)'
      BY <2>1, <2>3 DEF DeadlineOver
    <2> QED
      BY <2>1, <2>4, WindowAssumption DEF WaitOver
  <1> QED
    BY <1>1, Invariance, PTL DEF Spec, NoSpin

\* The detector implements the capture lifecycle: sessions never overlap, each is
\* announced and closed by a terminal event, and an error in between ends none.
THEOREM DetectorRefinesLifecycle == Spec => LifecycleSpec
  <1>1. Init => Lifecycle!Init
    BY DEF Init, Lifecycle!Init
  <1>2. Inv /\ [Next]_vars => [Lifecycle!Next]_<<current, event>>
    <2> SUFFICES ASSUME Inv, [Next]_vars
                 PROVE  [Lifecycle!Next]_<<current, event>>
      OBVIOUS
    <2>1. CASE OnShutdown
      BY <2>1 DEF OnShutdown, Lifecycle!Next, Lifecycle!Quit
    <2>2. CASE StartOk
      BY <2>2 DEF StartOk, Inv, CallInv, Lifecycle!Next, Lifecycle!Begin
    <2>3. CASE StartFails \/ RebindFails
      BY <2>3 DEF StartFails, RebindFails, Lifecycle!Next, Lifecycle!Report
    <2>4. CASE Finish \/ FinishFails \/ Discard
      BY <2>4
      DEF Finish, FinishFails, Discard, StopWith, Inv, CallInv, EventInv,
          Lifecycle!Next, Lifecycle!End, Lifecycle!Terminal
    <2>5. CASE UNCHANGED <<current, event>>
      BY <2>5
    <2>6. \/ OnShutdown \/ StartOk \/ StartFails \/ RebindFails
          \/ Finish \/ FinishFails \/ Discard
          \/ UNCHANGED <<current, event>>
      BY DEF Next, Worker, Tester, Environment, vars, OnSignal, Rebind,
             OnPause, OnResume, Wakeup, HalCallback, Tick, PauseDetector, PauseTimesOut,
             OpenTestMic, CloseTestMic, ResumeDetector, OtherApp, SwitchDevice,
             DropDetector, machineVars
    <2> QED
      BY <2>1, <2>2, <2>3, <2>4, <2>5, <2>6
  <1> QED
    BY <1>1, <1>2, Invariance, PTL DEF Spec, LifecycleSpec, Lifecycle!Spec, Lifecycle!vars
=============================================================================
