------------------------------ MODULE Detector ------------------------------
(***************************************************************************)
(* The call detector (crates/corti-detect): the debounce/coalesce state    *)
(* machine, the worker thread that drives it and owns the recorder, the    *)
(* CoreAudio listeners that feed the worker's channel, and the microphone  *)
(* test that pauses it.                                                    *)
(*                                                                         *)
(* Instants are represented by elapsed times.  The code only ever compares *)
(* an elapsed time with a window, so times saturate at Horizon, which is   *)
(* at least as large as every window.                                      *)
(***************************************************************************)
EXTENDS Naturals, Sequences

CONSTANTS
    Devices,       \* input devices of the machine
    Debounce,      \* DEBOUNCE
    Coalesce,      \* COALESCE
    MinRecording,  \* MIN_RECORDING
    Poll,          \* POLL_INTERVAL
    Horizon,       \* times saturate here
    MaxInbox,      \* bound on the worker's channel
    PromptHal,     \* are HAL notifications delivered within one unit of time?
    Faults,        \* which fallible operations may fail in this instance
    Tests          \* may the user start the microphone test?

ASSUME WindowAssumption ==
    /\ Debounce \in Nat \ {0} /\ Coalesce \in Nat \ {0}
    /\ MinRecording \in Nat /\ Poll \in Nat \ {0} /\ Horizon \in Nat
    /\ Debounce <= Horizon /\ Coalesce <= Horizon
    /\ MinRecording <= Horizon /\ Poll <= Horizon
ASSUME BoundAssumption ==
    /\ MaxInbox \in Nat \ {0}
    /\ Faults \subseteq {"start", "finish", "rebind", "read"}
    /\ Tests \in BOOLEAN /\ PromptHal \in BOOLEAN

VARIABLES
    mach,     \* Machine: its state, time in it (age) and time since the start (span)
    current,  \* Worker.current.is_some()
    capDev,   \* the device the recorder or the microphone test was opened on
    paused,   \* Worker.paused
    pc,       \* the worker: in recv, inside a blocking recorder call, or gone
    waited,   \* how long the worker has been blocked in recv
    inbox,    \* the worker's mpsc channel
    monitor,  \* the device mic_monitor is bound to
    edge,     \* a property-changed notification of that device is on its way
    default,  \* the system's default input device
    held,     \* the devices on which other applications hold the microphone
    tester,   \* the microphone test's thread
    event     \* the last DetectorEvent emitted

machineVars == <<mach, current, capDev, paused, pc, waited>>
systemVars == <<monitor, edge, default, held>>
vars == <<mach, current, capDev, paused, pc, waited, inbox, monitor, edge,
          default, held, tester, event>>

-----------------------------------------------------------------------------
(* machine.rs                                                              *)

Later(t, d) == IF t + d < Horizon THEN t + d ELSE Horizon

Idle == [st |-> "Idle", age |-> 0, span |-> 0]
Arming == [st |-> "Arming", age |-> 0, span |-> 0]
Recording(span) == [st |-> "Recording", age |-> 0, span |-> span]
Coasting(span) == [st |-> "Coasting", age |-> 0, span |-> span]

on_signal(m, on) ==
    CASE m.st = "Idle" /\ on       -> Arming
      [] m.st = "Arming" /\ ~on    -> Idle
      [] m.st = "Recording" /\ ~on -> Coasting(m.span)
      [] m.st = "Coasting" /\ on   -> Recording(Later(m.span, m.age))
      [] OTHER                     -> m

\* next_deadline has been reached.
DeadlineOver(m) == \/ m.st = "Arming" /\ m.age >= Debounce
                   \/ m.st = "Coasting" /\ m.age >= Coalesce

\* The Action a tick returns, and the state it leaves behind.
TickAction(m) ==
    CASE DeadlineOver(m) /\ m.st = "Arming"   -> "Start"
      [] DeadlineOver(m) /\ m.st = "Coasting" ->
            IF m.span >= MinRecording THEN "Keep" ELSE "Discard"
      [] OTHER                                -> "None"

\* Mutant: on_tick compares with > while next_deadline compares with >=.
AfterTickStrict(m) ==
    CASE m.st = "Arming" /\ m.age > Debounce    -> Recording(0)
      [] m.st = "Coasting" /\ m.age > Coalesce  -> Idle
      [] OTHER                                   -> m

AfterTick(m) ==
    CASE DeadlineOver(m) /\ m.st = "Arming"   -> Recording(0)
      [] DeadlineOver(m) /\ m.st = "Coasting" -> Idle
      [] OTHER                                -> m

\* Elapsing time: a recording's span grows until the machine coasts.
Elapse(m) ==
    CASE m.st \in {"Arming", "Coasting"} -> [m EXCEPT !.age = Later(@, 1)]
      [] m.st = "Recording"              -> [m EXCEPT !.span = Later(@, 1)]
      [] m.st = "Idle"                   -> m

-----------------------------------------------------------------------------
(* The HAL: DeviceIsRunningSomewhere of a device, its listeners, and the   *)
(* process attribution the worker polls while it records.                  *)

IsRunning(d) == \/ d \in held
                \/ (current \/ tester = "open") /\ capDev = d

\* Mutant: corti's own capture counts as another application's.
AnyInputRuns == \E d \in Devices : IsRunning(d)

OtherAppHoldsInput == held # {}

\* The HAL may fail to answer a read.
Unread == "read" \in Faults

\* A change of the monitored device's property notifies its listener.
Notify == edge' = \/ edge
                  \/ IsRunning(monitor)' # IsRunning(monitor)

\* trampoline: the callback reads the property again and posts what it reads, if
\* it can.
HalCallback ==
    /\ edge /\ pc # "gone" /\ Len(inbox) < MaxInbox
    /\ edge' = FALSE
    /\ \/ inbox' = Append(inbox, IF IsRunning(monitor) THEN "On" ELSE "Off")
       \/ Unread /\ inbox' = inbox
    /\ UNCHANGED <<machineVars, monitor, default, held, tester, event>>

\* Another application opens or closes the microphone on some device.
OtherApp(d) ==
    /\ held' = IF d \in held THEN held \ {d} ELSE held \cup {d}
    /\ UNCHANGED <<machineVars, inbox, monitor, default, tester, event>>
    /\ Notify

\* The user switches the default input device.
SwitchDevice(d) ==
    /\ d # default
    /\ pc # "gone" /\ Len(inbox) < MaxInbox
    /\ default' = d
    /\ inbox' = Append(inbox, "DeviceChanged")
    /\ UNCHANGED <<machineVars, monitor, edge, held, tester, event>>

-----------------------------------------------------------------------------
(* platform.rs: the worker                                                 *)

\* Every return to the channel starts a new recv_timeout.
Receive(msg) ==
    /\ pc = "recv" /\ inbox # <<>> /\ Head(inbox) = msg
    /\ inbox' = Tail(inbox)
    /\ waited' = 0

OnSignal(msg) ==
    /\ Receive(msg)
    /\ mach' = IF paused THEN mach ELSE on_signal(mach, msg = "On")
    /\ UNCHANGED <<current, capDev, paused, pc, systemVars, tester, event>>

\* Mutant: a device change is seeded into a paused detector.
RebindWhilePaused(on) == on_signal(mach, on)

\* The machine after a rebind that found the new device running or not.
RebindMachine(on) == IF paused THEN mach ELSE on_signal(mach, on)

Rebind ==
    /\ Receive("DeviceChanged")
    /\ monitor' = default
    /\ edge' = FALSE
    /\ mach' = RebindMachine(IsRunning(default)) \/ (Unread /\ mach' = mach)
    /\ UNCHANGED <<current, capDev, paused, pc, default, held, tester, event>>

\* The old monitor stays.  The failure is announced like one that ends a recording,
\* and a recorder that runs is left alone.
RebindFails ==
    /\ "rebind" \in Faults
    /\ Receive("DeviceChanged")
    /\ event' = "Error"
    /\ UNCHANGED <<mach, current, capDev, paused, pc, systemVars, tester>>

\* The reply wakes a caller that is still waiting for it.
OnPause(msg) ==
    /\ Receive(msg)
    /\ paused' = (paused \/ ~current)
    /\ mach' = IF current THEN mach ELSE Idle
    /\ tester' = IF msg = "Pause" THEN IF current THEN "idle" ELSE "paused"
                                  ELSE tester
    /\ UNCHANGED <<current, capDev, pc, systemVars, event>>

\* Mutant: Resume reseeds the machine under a running recorder.
ResumeUnderRecorder(on) == on_signal(Idle, on)

ResumeMachine(on) == IF current THEN mach ELSE on_signal(Idle, on)

OnResume ==
    /\ Receive("Resume")
    /\ paused' = FALSE
    /\ mach' = ResumeMachine(IsRunning(monitor)) \/ (Unread /\ mach' = ResumeMachine(FALSE))
    /\ UNCHANGED <<current, capDev, pc, systemVars, tester, event>>

OnShutdown ==
    /\ Receive("Shutdown")
    /\ pc' = "gone"
    /\ current' = FALSE
    /\ mach' = Idle
    /\ event' = "none"
    /\ UNCHANGED <<capDev, paused, monitor, default, held, tester>>
    /\ Notify

\* recv_timeout expires: next_wait is the machine's deadline, and at most the
\* poll interval while a recorder runs.
WaitOver == /\ ~paused
            /\ DeadlineOver(mach) \/ (current /\ waited >= Poll)

\* Attribution that cannot be read counts as "no other owner".
Attributed(on) == (on <=> OtherAppHoldsInput) \/ (Unread /\ ~on)
WakeupMachine(on) == IF current THEN on_signal(mach, on) ELSE mach

\* A confirmed Action enters the blocking recorder call that applies it; a Stop
\* that finds no recorder has nothing to do.
Wakeup ==
    \E on \in BOOLEAN :
       LET m == WakeupMachine(on)
           a == TickAction(m)
       IN /\ pc = "recv" /\ inbox = <<>> /\ WaitOver
          /\ Attributed(on)
          /\ mach' = AfterTick(m)
          /\ pc' = CASE a = "Start" -> "Start"
                     [] a \in {"Keep", "Discard"} /\ current -> a
                     [] OTHER -> "recv"
          /\ waited' = 0
          /\ UNCHANGED <<current, capDev, paused, inbox, systemVars, tester, event>>

StartOk ==
    /\ pc = "Start" /\ pc' = "recv"
    /\ current' = TRUE
    /\ capDev' = default
    /\ event' = "RecordingStarted"
    /\ waited' = 0
    /\ UNCHANGED <<mach, paused, inbox, monitor, default, held, tester>>
    /\ Notify

StartFails ==
    /\ "start" \in Faults
    /\ pc = "Start" /\ pc' = "recv"
    /\ mach' = Idle
    /\ event' = "Error"
    /\ waited' = 0
    /\ UNCHANGED <<current, capDev, paused, inbox, systemVars, tester>>

\* Mutant: the stopped recorder is not taken out of current.
StopKeepsRecorder(how, ev) ==
    /\ pc = how /\ pc' = "recv"
    /\ event' = ev
    /\ waited' = 0
    /\ UNCHANGED <<mach, current, capDev, paused, inbox, systemVars, tester>>

\* finish or discard: the recorder is consumed whatever the outcome.
StopWith(how, ev) ==
    /\ pc = how /\ pc' = "recv"
    /\ current' = FALSE
    /\ event' = ev
    /\ waited' = 0
    /\ UNCHANGED <<mach, capDev, paused, inbox, monitor, default, held, tester>>
    /\ Notify

Finish == StopWith("Keep", "RecordingFinished")
FinishFails == "finish" \in Faults /\ StopWith("Keep", "Error")
Discard == StopWith("Discard", "RecordingDiscarded")

-----------------------------------------------------------------------------
(* The microphone test (app/src/live_test.rs) and the application's exit    *)

Send(msg) == /\ pc # "gone" /\ Len(inbox) < MaxInbox
             /\ inbox' = Append(inbox, msg)

PauseDetector ==
    /\ Tests /\ tester = "idle"
    /\ Send("Pause")
    /\ tester' = "waiting"
    /\ UNCHANGED <<machineVars, systemVars, event>>

\* The caller's two seconds are over.  Dropping the reply channel abandons the
\* queued request, and a compensating Resume is queued behind it.
Abandon(q) == [i \in 1..Len(q) |-> IF q[i] = "Pause" THEN "PauseAbandoned" ELSE q[i]]

\* Mutant: the timed-out caller queues no compensating Resume.
PauseTimesOutSilently ==
    /\ tester = "waiting"
    /\ inbox' = Abandon(inbox)
    /\ tester' = "idle"
    /\ UNCHANGED <<machineVars, systemVars, event>>

PauseTimesOut ==
    /\ tester = "waiting"
    /\ pc # "gone" /\ Len(inbox) < MaxInbox
    /\ inbox' = Append(Abandon(inbox), "Resume")
    /\ tester' = "idle"
    /\ UNCHANGED <<machineVars, systemVars, event>>

OpenTestMic ==
    /\ tester = "paused"
    /\ tester' = "open"
    /\ capDev' = default
    /\ UNCHANGED <<mach, current, paused, pc, waited, inbox, monitor, default,
                   held, event>>
    /\ Notify

CloseTestMic ==
    /\ tester = "open"
    /\ tester' = "paused"
    /\ UNCHANGED <<machineVars, inbox, monitor, default, held, event>>
    /\ Notify

\* A cancelled start and a closed test both hand the microphone back.
ResumeDetector ==
    /\ tester = "paused"
    /\ Send("Resume")
    /\ tester' = "idle"
    /\ UNCHANGED <<machineVars, systemVars, event>>

DropDetector ==
    /\ ~\E i \in 1..Len(inbox) : inbox[i] = "Shutdown"
    /\ Send("Shutdown")
    /\ UNCHANGED <<machineVars, systemVars, tester, event>>

\* One unit of time passes for every running timer.
Tick ==
    /\ PromptHal /\ pc # "gone" => ~edge
    /\ mach' = Elapse(mach)
    /\ waited' = IF pc = "recv" THEN Later(waited, 1) ELSE waited
    /\ UNCHANGED <<current, capDev, paused, pc, inbox, systemVars, tester, event>>

-----------------------------------------------------------------------------

\* start_with_live_hook seeds the machine from the device's current state.
Init ==
    /\ held \in SUBSET Devices
    /\ default \in Devices /\ monitor = default /\ capDev = default
    /\ mach = on_signal(Idle, default \in held) \/ (Unread /\ mach = Idle)
    /\ current = FALSE /\ paused = FALSE /\ edge = FALSE
    /\ pc = "recv" /\ waited = 0
    /\ inbox = <<>>
    /\ tester = "idle"
    /\ event = "none"

Worker ==
    \/ \E msg \in {"On", "Off"} : OnSignal(msg)
    \/ Rebind \/ RebindFails
    \/ \E msg \in {"Pause", "PauseAbandoned"} : OnPause(msg)
    \/ OnResume \/ OnShutdown
    \/ Wakeup
    \/ StartOk \/ StartFails
    \/ Finish \/ FinishFails \/ Discard

Tester == \/ PauseDetector \/ PauseTimesOut
          \/ OpenTestMic \/ CloseTestMic \/ ResumeDetector

Environment == \/ \E d \in Devices : OtherApp(d) \/ SwitchDevice(d)
               \/ DropDetector

Next == Worker \/ HalCallback \/ Tick \/ Tester \/ Environment

\* The worker thread and the HAL run, and time passes.
Fairness == WF_vars(Worker) /\ WF_vars(HalCallback) /\ WF_vars(Tick)

Spec == Init /\ [][Next]_vars
FairSpec == Spec /\ Fairness

-----------------------------------------------------------------------------
(* Properties                                                              *)

States == {"Idle", "Arming", "Recording", "Coasting"}
Messages == {"On", "Off", "DeviceChanged", "Pause", "PauseAbandoned",
             "Resume", "Shutdown"}

\* The machine, the worker and its channel stay well formed, with every elapsed
\* time within the horizon (machine.rs, platform.rs Worker).
TypeOK ==
    /\ mach \in [st : States, age : 0..Horizon, span : 0..Horizon]
    /\ current \in BOOLEAN /\ paused \in BOOLEAN /\ edge \in BOOLEAN
    /\ capDev \in Devices /\ monitor \in Devices /\ default \in Devices
    /\ held \in SUBSET Devices
    /\ pc \in {"recv", "Start", "Keep", "Discard", "gone"}
    /\ waited \in 0..Horizon
    /\ inbox \in Seq(Messages)
    /\ tester \in {"idle", "waiting", "paused", "open"}
    /\ event \in {"none", "RecordingStarted", "RecordingFinished",
                  "RecordingDiscarded", "Error"}

InCall == mach.st \in {"Recording", "Coasting"}

\* Whenever the worker is back in its channel the machine and the recorder
\* agree: a recorder runs exactly while the machine is in Recording or
\* Coasting.  A pause, a resume, a device change or a failed start must not
\* separate them (platform.rs resume_detection, apply).
MachineOwnsRecorder == pc = "recv" => (current <=> InCall)

\* From the moment pause() has answered "accepted" until the test hands the
\* microphone back, the detector stays suspended with no debounce running, so
\* the test's own microphone edge is never recorded (platform.rs run, rebind;
\* live_test.rs start_reserved).
TestOwnsDetector ==
    tester \in {"paused", "open"} => paused /\ ~current /\ mach = Idle

\* A timed wakeup never spins: after on_wakeup the next recv_timeout has time
\* to wait (machine.rs next_deadline).
NoSpin == [][Wakeup => ~WaitOver']_vars

\* The detector implements the capture lifecycle: sessions do not overlap, every
\* session is announced when it starts and closed by a terminal event, and an error
\* in between, such as a failing rebind, does not end it.
Lifecycle == INSTANCE CaptureLifecycle WITH session <- current
LifecycleSpec == Lifecycle!Spec

\* When every other application has released the microphone for good, the default
\* device has settled and nobody asks for microphone tests any more, the recording
\* ends even though corti's own capture pins the device running (platform.rs
\* on_wakeup).
CallEndsRecording ==
    (\E d \in Devices : <>[](held = {} /\ default = d /\ tester = "idle")) => <>[](~current)

\* A timed-out pause() never leaves detection suspended: with no test holding
\* the detector, it comes out of the pause (platform.rs pause).
PauseNeverSticks ==
    (paused /\ tester = "idle") ~> (~paused \/ tester # "idle" \/ pc = "gone")

\* "Microphone use starts recording": while another application keeps holding
\* the default microphone, a recording eventually runs.
HeldMicIsRecorded ==
    (default \in held) ~> (current \/ default \notin held \/ pc = "gone")
=============================================================================
