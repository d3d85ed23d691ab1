----------------------------- MODULE Supervisor -----------------------------
(***************************************************************************)
(* The main thread (bin.rs): main_process waits for a configuration and    *)
(* calls run, which starts a session and supervises it until it ends.  The *)
(* clients that send it commands, the websocket handlers and the signal    *)
(* thread, are at the end of the module.                                   *)
(***************************************************************************)
EXTENDS EngineState

sessionVars == <<captureVars, pb, procVars, capQ, pbQ>>

\* -------------------------- The main loop --------------------------------

HasConfig == active # NoConfig

\* Without --wait, no configuration and no queued command end the process.
MainIdleExit ==
  /\ stage = "wait"
  /\ ~WaitFlag /\ ~HasConfig /\ ctrl = <<>>
  /\ stage' = "exited"
  /\ UNCHANGED <<ending, cur, activeConf, nextConf, ready, clientVars,
                 configVars, ctrl, stopReason, captureState, sessionVars, statusQ,
                 cmdQ, pipeconfQ, reported>>

\* A queued command is taken before a configuration is started.
MainReceive ==
  /\ stage = "wait"
  /\ ctrl # <<>>
  /\ ctrl' = Tail(ctrl)
  /\ \/ /\ Head(ctrl).type = "ConfigChanged"
        /\ active' = Head(ctrl).conf
        /\ stage' = stage
     \/ /\ Head(ctrl).type = "Stop"
        /\ active' = NoConfig
        /\ stage' = stage
     \/ /\ Head(ctrl).type = "Exit"
        /\ stage' = "exited"
        /\ UNCHANGED active
  /\ UNCHANGED <<ending, cur, activeConf, nextConf, ready, clientVars,
                 previous, stopReason, captureState, sessionVars, statusQ, cmdQ,
                 pipeconfQ, reported>>

\* run: create the channels, spawn the processing, playback and capture
\* threads, publish the Starting state.
StartSession(s) ==
  /\ stage = "wait" /\ HasConfig /\ ctrl = <<>>
  /\ Free(s)
  /\ stage' = "starting" /\ ending' = "None" /\ cur' = s
  /\ activeConf' = active
  /\ nextConf' = NoConfig
  /\ ready' = <<>>
  /\ captureState' = "Starting"
  /\ cap' = [cap EXCEPT ![s] = "opening"]
  /\ stalled' = [stalled EXCEPT ![s] = FALSE]
  /\ pb' = [pb EXCEPT ![s] = "opening"]
  /\ proc' = [proc EXCEPT ![s] = "building"]
  /\ pipeline' = [pipeline EXCEPT ![s] = from_config(active)]
  /\ capQ' = [capQ EXCEPT ![s] = <<>>]
  /\ pbQ' = [pbQ EXCEPT ![s] = <<>>]
  /\ statusQ' = [statusQ EXCEPT ![s] = <<>>]
  /\ cmdQ' = [cmdQ EXCEPT ![s] = <<>>]
  /\ pipeconfQ' = [pipeconfQ EXCEPT ![s] = <<>>]
  /\ reported' = {}
  /\ UNCHANGED <<clientVars, configVars, ctrl, stopReason, procMsg>>

\* The capture device may fail before it has a thread: without a sample format the
\* file is searched for a wav header, and run unwraps the error of start().
StartPanics ==
  /\ stage = "wait" /\ HasConfig /\ ctrl = <<>>
  /\ "cap_open" \in Faults
  /\ stage' = "crashed"
  /\ captureState' = "Starting"
  /\ UNCHANGED <<ending, cur, activeConf, nextConf, ready, clientVars, configVars,
                 ctrl, stopReason, sessionVars, statusQ, cmdQ, pipeconfQ, reported>>

\* ------------------------ run: status messages ---------------------------

ReceiveStatus(msg) ==
  /\ stage \in {"starting", "running"}
  /\ statusQ[cur] # <<>>
  /\ msg = Head(statusQ[cur])
  /\ statusQ' = [statusQ EXCEPT ![cur] = Tail(@)]

\* The second of the two ready messages makes the supervisor enter the barrier.
HandleReady ==
  /\ \/ ReceiveStatus("PlaybackReady") /\ ready' = Append(ready, "playback")
     \/ ReceiveStatus("CaptureReady") /\ ready' = Append(ready, "capture")
  /\ stage' = IF Len(ready') = 2 THEN "barrier" ELSE stage
  /\ UNCHANGED <<ending, cur, activeConf, nextConf, clientVars, configVars, ctrl,
                 stopReason, captureState, sessionVars, cmdQ, pipeconfQ, reported>>

\* Playback errors and format changes: capture is told to exit; a session that
\* is still starting is released from the barrier first.
HandlePlaybackFault(msg) ==
  /\ msg \in PlaybackFaults
  /\ ReceiveStatus(msg)
  /\ SendExitToCapture
  /\ ending' = msg
  /\ IF stage = "starting"
     THEN stage' = "barrier" /\ UNCHANGED stopReason
     ELSE stage' = "joining" /\ stopReason' = msg
  /\ UNCHANGED <<cur, activeConf, nextConf, ready, clientVars, configVars,
                 ctrl, captureState, sessionVars, pipeconfQ, reported>>

\* Capture errors and format changes: capture is expected to end by itself.
HandleCaptureFault(msg) ==
  /\ msg \in CaptureFaults
  /\ ReceiveStatus(msg)
  /\ ending' = msg
  /\ IF stage = "starting"
     THEN stage' = "barrier" /\ UNCHANGED stopReason
     ELSE stage' = "joining" /\ stopReason' = msg
  /\ UNCHANGED <<cur, activeConf, nextConf, ready, clientVars, configVars,
                 ctrl, captureState, sessionVars, cmdQ, pipeconfQ, reported>>

\* The end of the stream has been played.  The configurations are swapped
\* before the joins.
HandlePlaybackDone ==
  /\ ReceiveStatus("PlaybackDone")
  /\ stopReason' = IF stopReason = "None" THEN "Done" ELSE stopReason
  /\ active' = NoConfig
  /\ previous' = activeConf
  /\ ending' = "PlaybackDone"
  /\ stage' = "joining"
  /\ UNCHANGED <<cur, activeConf, nextConf, ready, clientVars, ctrl,
                 captureState, sessionVars, cmdQ, pipeconfQ, reported>>

HandleCaptureDone ==
  /\ ReceiveStatus("CaptureDone")
  /\ UNCHANGED <<mainVars, clientVars, configVars, ctrl, stopReason, captureState,
                 sessionVars, cmdQ, pipeconfQ, reported>>

\* Mutant: a session that failed to start runs on.
AfterBarrierRunAnyway == stage' = "running" /\ UNCHANGED stopReason

\* What the supervisor does once it is through barrier.wait().  The stop reason
\* is cleared in the CaptureReady branch only.
AfterBarrier ==
  IF ending = "None"
  THEN /\ stage' = "running"
       /\ stopReason' = IF ready[2] = "capture" THEN "None" ELSE stopReason
  ELSE /\ stage' = "joining"
       /\ stopReason' = ending

\* ----------------------- run: controller messages ------------------------

PipelineChanges == {"Pipeline", "MixerParameters", "FilterParameters"}

\* Any configuration change but the last in the queue is dropped.  A change
\* within the pipeline goes to the processing thread (the unwrap of this send
\* panics if that thread has gone), a change of the devices ends the session.
HandleConfigChanged(new) ==
  /\ stage = "running"
  /\ ctrl # <<>> /\ Head(ctrl) = ConfigChanged(new)
  /\ ctrl' = Tail(ctrl)
  /\ LET change == config_diff(activeConf, new) IN
     \/ /\ Tail(ctrl) # <<>> \/ change.kind = "None"
        /\ UNCHANGED <<stage, ending, activeConf, nextConf, active, cmdQ, pipeconfQ>>
     \/ /\ Tail(ctrl) = <<>>
        /\ change.kind \in PipelineChanges
        /\ proc[cur] = "none"
        /\ stage' = "crashed"
        /\ UNCHANGED <<ending, activeConf, nextConf, active, cmdQ, pipeconfQ>>
     \/ /\ Tail(ctrl) = <<>>
        /\ change.kind \in PipelineChanges
        /\ proc[cur] # "none"
        /\ pipeconfQ' = [pipeconfQ EXCEPT ![cur] =
                           Append(@, [change |-> change, conf |-> new])]
        /\ activeConf' = new
        /\ active' = new
        /\ UNCHANGED <<stage, ending, nextConf, cmdQ>>
     \/ /\ Tail(ctrl) = <<>>
        /\ change.kind = "Devices"
        /\ SendExitToCapture
        /\ nextConf' = new
        /\ ending' = "Devices"
        /\ stage' = "joining"
        /\ UNCHANGED <<activeConf, active, pipeconfQ>>
  /\ UNCHANGED <<cur, ready, clientVars, previous, stopReason, captureState,
                 sessionVars, statusQ, reported>>

HandleStopOrExit ==
  /\ stage = "running"
  /\ ctrl # <<>> /\ Head(ctrl) \in {Stop, Exit}
  /\ ctrl' = Tail(ctrl)
  /\ SendExitToCapture
  /\ ending' = Head(ctrl).type
  /\ stage' = "joining"
  /\ UNCHANGED <<cur, activeConf, nextConf, ready, clientVars, configVars, stopReason,
                 captureState, sessionVars, statusQ, pipeconfQ, reported>>

\* ------------------------- run: leaving the loop -------------------------

\* Mutants: a join is missing.
JoinedPlaybackOnly(e) == {"playback"}
JoinedCaptureOnly(e)  == {"capture"}
JoinedNone(e)         == {}

\* The threads joined on each way out.
Joined(e) ==
  CASE e \in PlaybackFaults -> {"capture"}
    [] e \in CaptureFaults  -> {"playback"}
    [] OTHER                -> {"playback", "capture"}

JoinsReturn ==
  /\ "playback" \in Joined(ending) => pb[cur] = "none"
  /\ "capture" \in Joined(ending) => cap[cur] = "none"

\* Mutant: a restart forgets the configuration that asked for it.
SameActive ==
  CASE ending = "Devices" -> activeConf
    [] ending = "Exit"    -> active
    [] OTHER              -> NoConfig

\* The configurations run leaves behind.
NextActive ==
  CASE ending = "Devices" -> nextConf
    [] ending = "Exit"    -> active
    [] OTHER              -> NoConfig

\* Mutant: only Stop and Exit keep the configuration as the previous one.
PreviousOfStopOnly == IF ending \in {"Stop", "Exit"} THEN activeConf ELSE previous

NextPrevious ==
  IF ending \in {"Devices", "PlaybackDone"} THEN previous ELSE activeConf

\* run returns, and with it go its ends of the status and command channels.
FinishSession ==
  /\ stage = "joining"
  /\ JoinsReturn
  /\ active' = NextActive
  /\ previous' = NextPrevious
  /\ captureState' = IF ending \in DeviceFaults THEN "Inactive" ELSE captureState
  /\ stage' = IF ending = "Exit" THEN "exited" ELSE "wait"
  /\ cur' = NoSlot
  /\ statusQ' = [statusQ EXCEPT ![cur] = <<>>]
  /\ activeConf' = NoConfig /\ nextConf' = NoConfig /\ ready' = <<>>
  /\ UNCHANGED <<ending, clientVars, ctrl, stopReason, sessionVars, cmdQ, pipeconfQ,
                 reported>>

\* ------------------------------ The clients ------------------------------

\* A websocket handler, SIGHUP or SIGUSR1: the command is queued with try_send.
\* When the channel is full the client is told so and nothing changes.
SendCommand(msg) ==
  /\ Alive
  /\ sent < MaxCommands
  /\ Len(ctrl) < CtrlCapacity
  /\ ctrl' = Append(ctrl, msg)
  /\ sent' = sent + 1
  /\ lastCommand' = msg
  /\ UNCHANGED <<mainVars, exitRequested, configVars, stopReason, captureState,
                 sessionVars, statusQ, cmdQ, pipeconfQ, reported>>

\* SIGTERM or SIGINT.  The first is queued as Exit if there is room, the second
\* ends the process at once.
TermSignal ==
  /\ Alive
  /\ sent < MaxCommands
  /\ sent' = sent + 1
  /\ exitRequested' = TRUE
  /\ IF exitRequested
     THEN stage' = "exited" /\ UNCHANGED <<ctrl, lastCommand>>
     ELSE /\ UNCHANGED stage
          /\ IF Len(ctrl) < CtrlCapacity
             THEN ctrl' = Append(ctrl, Exit) /\ lastCommand' = Exit
             ELSE UNCHANGED <<ctrl, lastCommand>>
  /\ UNCHANGED <<ending, cur, activeConf, nextConf, ready, configVars, stopReason,
                 captureState, sessionVars, statusQ, cmdQ, pipeconfQ, reported>>

SupervisorStep ==
  \/ MainIdleExit \/ MainReceive
  \/ \E s \in Slots : StartSession(s)
  \/ StartPanics
  \/ HandleReady
  \/ \E msg \in PlaybackFaults : HandlePlaybackFault(msg)
  \/ \E msg \in CaptureFaults : HandleCaptureFault(msg)
  \/ HandlePlaybackDone \/ HandleCaptureDone
  \/ \E c \in Configs : HandleConfigChanged(c)
  \/ HandleStopOrExit
  \/ FinishSession

ClientStep ==
  \/ \E msg \in ControllerMessages : SendCommand(msg)
  \/ TermSignal
=============================================================================
