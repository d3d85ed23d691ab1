---------------------------- MODULE EngineState -----------------------------
(***************************************************************************)
(* The state the threads of the engine share: the main thread (bin.rs:     *)
(* main_process and the supervisor loop in run), and, for each processing  *)
(* session, a capture, a processing and a playback thread with the         *)
(* channels between them.                                                  *)
(*                                                                         *)
(* run() creates the channels and the three threads of a session.  Not all *)
(* of its exits join every thread, so threads of an ended session may      *)
(* still exist when the next one starts: the state of a session is indexed *)
(* by a slot, and a slot is reused once its three threads have finished.   *)
(***************************************************************************)
EXTENDS ConfigDiff, Sequences, FiniteSets

CONSTANTS
  Slots,         \* where sessions live; bounds how many overlap
  Configs,       \* the valid configurations that may be loaded
  NoConfig,      \* Option::None for a configuration
  NoSlot,        \* no session is running
  WaitFlag,      \* the --wait command line flag
  CtrlCapacity,  \* of the ControllerMessage channel (10 in the code)
  QueueLimit,    \* devices.queuelimit, of the two AudioMessage channels
  MaxCommands,   \* bound on the commands the clients send
  Faults,        \* which faults the devices may meet
  Reads,         \* which results a read of the source may have
  PausesOnSilence \* silence_timeout and silence_threshold are set

AllReads  == {"Complete", "Partial", "Timeout", "EndOfFile"}
AllFaults == {"pb_open", "pb_write", "cap_open", "cap_read", "rate_change"}

ASSUME SlotsAssumption ==
  /\ Slots # {}
  /\ NoSlot \notin Slots
ASSUME ConfigsAssumption ==
  /\ NoConfig \notin Configs
  /\ \A c \in Configs : ValidConfig(c)
ASSUME BoundsAssumption ==
  /\ CtrlCapacity \in Nat \ {0}
  /\ QueueLimit \in Nat \ {0}
  /\ MaxCommands \in Nat
ASSUME FlagsAssumption ==
  /\ WaitFlag \in BOOLEAN
  /\ PausesOnSilence \in BOOLEAN
  /\ Faults \subseteq AllFaults /\ Reads \subseteq AllReads

VARIABLES
  \* The main thread.
  stage,         \* where it is, see Stages
  ending,        \* why the current session is being ended, "None" before
  cur,           \* the slot of the current session
  activeConf,    \* run's local active_config
  nextConf,      \* run's new_conf while a Devices change stops the session
  ready,         \* run's pb_ready and cap_ready, in the order they became true
  \* Shared with the websocket server and the signal thread.
  ctrl,          \* the ControllerMessage channel
  active,        \* SharedConfigs.active
  previous,      \* SharedConfigs.previous
  stopReason,    \* ProcessingStatus.stop_reason
  captureState,  \* CaptureStatus.state
  exitRequested, \* the signal thread's exit_requested
  sent,          \* how many commands the clients have sent
  lastCommand,   \* history: the last command the channel accepted
  \* The threads and channels of each session.
  cap,           \* the capture thread
  stalled,       \* its local variable of the same name
  pb,            \* the playback thread
  proc,          \* the processing thread
  pipeline,      \* the pipeline it has built
  procMsg,       \* the message it is about to forward
  capQ,          \* AudioMessages, capture to processing
  pbQ,           \* AudioMessages, processing to playback
  statusQ,       \* StatusMessages, devices to supervisor
  cmdQ,          \* CommandMessages, supervisor to capture
  pipeconfQ,     \* configuration changes, supervisor to processing
  reported       \* history: the faults the devices of the current or the last
                 \* session have reported

mainVars    == <<stage, ending, cur, activeConf, nextConf, ready>>
clientVars  == <<sent, exitRequested, lastCommand>>
configVars  == <<active, previous>>
captureVars == <<cap, stalled>>
procVars    == <<proc, pipeline, procMsg>>
vars == <<mainVars, clientVars, configVars, ctrl, stopReason, captureState,
          captureVars, pb, procVars, capQ, pbQ, statusQ, cmdQ, pipeconfQ,
          reported>>

-----------------------------------------------------------------------------
Option(S) == S \cup {NoConfig}

ConfigChanged(c) == [type |-> "ConfigChanged", conf |-> c]
Stop             == [type |-> "Stop", conf |-> NoConfig]
Exit             == [type |-> "Exit", conf |-> NoConfig]
NoCommand        == [type |-> "None", conf |-> NoConfig]
ControllerMessages == {ConfigChanged(c) : c \in Configs} \cup {Stop, Exit}

AudioMessages == {"Audio", "Pause", "EndOfStream"}
NoMessage == "none"

\* Messages that make run() leave the loop with a device at fault.
PlaybackFaults == {"PlaybackError", "PlaybackFormatChange"}
CaptureFaults  == {"CaptureError", "CaptureFormatChange"}
DeviceFaults   == PlaybackFaults \cup CaptureFaults
StatusMessages == {"PlaybackReady", "CaptureReady", "PlaybackDone", "CaptureDone"}
                    \cup DeviceFaults
PipelineMessages == [change : {config_diff(c, d) : c, d \in Configs}, conf : Configs]
Endings == {"None", "Devices", "Stop", "Exit", "PlaybackDone"} \cup DeviceFaults

Stages == {"wait",      \* main loop, waiting for a configuration
           "starting",  \* run's select!, is_starting
           "barrier",   \* in barrier.wait()
           "running",   \* run's select!, not is_starting
           "joining",   \* in join() of the threads of Joined(ending)
           "exited",    \* the process has ended
           "crashed"}   \* the main thread has panicked, the process has ended
StopReasons == {"None", "Done"} \cup DeviceFaults
Devices == {"playback", "capture"}
ProcessingStates == {"Inactive", "Starting", "Running", "Paused", "Stalled"}

\* Where a thread is.  "none" is a thread that has finished, or never was.
CaptureSteps == {"none", "opening", "ready", "failed", "loop", "read", "sendAudio",
                 "sendPause", "sendStalled", "flush", "sendEndDone", "sendEndFormat",
                 "reportDone", "reportFormat",
                 "end"}
PlaybackSteps == {"none", "opening", "ready", "failed", "loop", "end"}
ProcSteps     == {"none", "building", "ready", "loop", "send"}

EmptyPipeline == [filters |-> <<>>, mixers |-> <<>>, processors |-> <<>>]

-----------------------------------------------------------------------------
\* The crossbeam channels.  A bounded channel blocks its sender while it is
\* full and its receiver exists; a send without a receiver fails, and what is
\* queued when the receiver goes is dropped.

\* Mutant: off by one.
HasRoomForOneMore(q) == Len(q) <= QueueLimit
HasRoom(q) == Len(q) < QueueLimit

\* The status channel: unbounded, its receiver goes when run() returns.
Report(s, msg) ==
  statusQ' = IF cur = s THEN [statusQ EXCEPT ![s] = Append(@, msg)] ELSE statusQ

\* The command channel of the capture thread.  A send fails silently once that
\* thread has finished.
\* Mutant: capture is not told to exit.
NothingSentToCapture == UNCHANGED cmdQ
SendExitToCapture ==
  cmdQ' = IF cap[cur] = "none" THEN cmdQ ELSE [cmdQ EXCEPT ![cur] = Append(@, "Exit")]

\* The end of the process takes every thread with it.
Alive == stage \notin {"exited", "crashed"}

\* All three threads of the session have gone.
Free(s) == s # cur /\ cap[s] = "none" /\ pb[s] = "none" /\ proc[s] = "none"
=============================================================================
